--------------------------- MODULE LoraLifecycle ---------------------------
(***************************************************************************)
(* start_radio and stop_radio of loraTransport.h: one flag stops the task  *)
(* _listen, which clears it on its way out, and every start makes a new    *)
(* task and new queues.                                                    *)
(***************************************************************************)
EXTENDS Naturals

CONSTANTS
    QUEUE_LEN,
    MaxStarts    \* bound: calls of start_radio

ASSUME LifecycleAssumption ==
    /\ QUEUE_LEN \in Nat \ {0}
    /\ MaxStarts \in Nat

VARIABLES
    _stop_listening,
    listener,          \* [i]: where the task of the i-th start is
    new_frame_queue,   \* how many messages the queue in use holds
    started,           \* calls of start_radio
    wanted,            \* history: the last call was start_radio
    stray,             \* history: since the last start a stop came when no task was left
    untimely           \* history: the last start came before the last task had ended, or
                       \* after a stray stop

history == <<wanted, stray, untimely>>
vars == <<_stop_listening, listener, new_frame_queue, started, history>>

Init ==
    /\ _stop_listening = FALSE
    /\ listener = [i \in 1 .. MaxStarts |-> "none"]
    /\ new_frame_queue = 0 /\ started = 0
    /\ wanted = FALSE /\ stray = FALSE /\ untimely = FALSE

Alive == {i \in 1 .. MaxStarts : listener[i] \in {"test", "receive", "leave"}}

\* Neither of the two looks at the flag or for a task: the program may call them in any order.
StartRadio ==
    /\ started < MaxStarts
    /\ untimely' = (stray \/ Alive # {}) /\ stray' = FALSE /\ wanted' = TRUE
    /\ new_frame_queue' = 0
    /\ started' = started + 1
    /\ listener' = [listener EXCEPT ![started'] = "test"]
    /\ UNCHANGED _stop_listening

StopRadio ==
    /\ _stop_listening' = TRUE
    /\ wanted' = FALSE /\ stray' = (stray \/ Alive = {})
    /\ UNCHANGED <<listener, new_frame_queue, started, untimely>>

TryReceive ==
    /\ new_frame_queue > 0 /\ new_frame_queue' = new_frame_queue - 1
    /\ UNCHANGED <<_stop_listening, listener, started, history>>

\* The condition of the loop of _listen.
Test(i) ==
    /\ listener[i] = "test"
    /\ listener' = [listener EXCEPT ![i] = IF _stop_listening THEN "leave" ELSE "receive"]
    /\ UNCHANGED <<_stop_listening, new_frame_queue, started, history>>

\* Broken on purpose: a full queue takes one more.
ReceiveOverruns(i) ==
    /\ listener[i] = "receive"
    /\ listener' = [listener EXCEPT ![i] = "test"]
    /\ new_frame_queue' \in new_frame_queue .. new_frame_queue + 1
    /\ UNCHANGED <<_stop_listening, started, history>>

\* A turn of the loop: nothing arrives, or a message that is queued when there is room.
Receive(i) ==
    /\ listener[i] = "receive"
    /\ listener' = [listener EXCEPT ![i] = "test"]
    /\ new_frame_queue' \in {new_frame_queue}
          \cup {n \in {new_frame_queue + 1} : n =< QUEUE_LEN}
    /\ UNCHANGED <<_stop_listening, started, history>>

\* Broken on purpose: the flag is left up.
LeaveFlagUp(i) ==
    /\ listener[i] = "leave"
    /\ listener' = [listener EXCEPT ![i] = "none"]
    /\ UNCHANGED <<_stop_listening, new_frame_queue, started, history>>

\* Broken on purpose: the flag is cleared and the loop entered again.
LeaveAndReturn(i) ==
    /\ listener[i] = "leave"
    /\ listener' = [listener EXCEPT ![i] = "test"]
    /\ _stop_listening' = FALSE
    /\ UNCHANGED <<new_frame_queue, started, history>>

\* The flag comes down and the task ends.
Leave(i) ==
    /\ listener[i] = "leave"
    /\ listener' = [listener EXCEPT ![i] = "none"]
    /\ _stop_listening' = FALSE
    /\ UNCHANGED <<new_frame_queue, started, history>>

ListenerStep(i) == Test(i) \/ Receive(i) \/ Leave(i)

Next == StartRadio \/ StopRadio \/ TryReceive \/ \E i \in 1 .. MaxStarts : ListenerStep(i)

Spec == Init /\ [][Next]_vars

\* The scheduler runs every task; the program may do as it likes.
FairSpec == Spec /\ \A i \in 1 .. MaxStarts : WF_vars(ListenerStep(i))
-----------------------------------------------------------------------------
TypeOK ==
    /\ _stop_listening \in BOOLEAN
    /\ listener \in [1 .. MaxStarts -> {"none", "test", "receive", "leave"}]
    /\ new_frame_queue \in 0 .. QUEUE_LEN
    /\ started \in 0 .. MaxStarts
    /\ wanted \in BOOLEAN /\ stray \in BOOLEAN /\ untimely \in BOOLEAN

\* Whatever the order of starts and stops: with no task left the flag is up only after a stop
\* that came when there was none to obey it.  And if the last start was timely, its task is
\* the only one, there as long as no stop has come, and it leaves on no stop but one meant
\* for it (start_radio, stop_radio, the end of _listen).
OneListener ==
    /\ stray <=> Alive = {} /\ _stop_listening
    /\ ~ untimely =>
        /\ Alive \subseteq {started}
        /\ wanted => started \in Alive /\ ~ _stop_listening
        /\ ~ wanted /\ Alive # {} => _stop_listening
        /\ \A i \in Alive : listener[i] = "leave" => _stop_listening

\* loraTransport.h:207 "uruchamia nasłuch" (starts listening): after a timely start that no
\* start or stop follows a task listens, for good.
StartListens ==
    <>[](wanted /\ ~ untimely) =>
        <>[](\E i \in 1 .. MaxStarts : listener[i] \in {"test", "receive"})

\* loraTransport.h:222 "zatrzymuje nasłuch" (stops listening): after a stop that no start
\* follows no task is left, if the last start was timely.
StopStops == <>[](~ wanted /\ ~ untimely) => <>[](Alive = {})
=============================================================================
