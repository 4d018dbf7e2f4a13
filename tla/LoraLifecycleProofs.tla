------------------------ MODULE LoraLifecycleProofs ------------------------
(***************************************************************************)
(* The one flag of start_radio, stop_radio and _listen, for any number of  *)
(* starts and stops in any order.  TypeOK and OneListener are inductive    *)
(* together: a start that finds no task and no stray stop finds the flag   *)
(* down, so that what clears it next is the end of the task it is raised   *)
(* for.                                                                    *)
(***************************************************************************)
EXTENDS LoraLifecycle, TLAPS

LifecycleInv == TypeOK /\ OneListener

LEMMA InitInv == Init => LifecycleInv
<1> SUFFICES ASSUME Init PROVE TypeOK /\ OneListener
  BY DEF LifecycleInv
<1>1. TypeOK
  <2>1. 0 \in 0 .. QUEUE_LEN /\ 0 \in 0 .. MaxStarts
    BY LifecycleAssumption
  <2>2. listener \in [1 .. MaxStarts -> {"none", "test", "receive", "leave"}]
    BY DEF Init
  <2> QED
    BY <2>1, <2>2 DEF Init, TypeOK
<1>2. Alive = {}
  BY DEF Init, Alive
<1> QED
  BY <1>1, <1>2 DEF Init, OneListener

\* A step of one task moves that task only.
LEMMA StepMoves ==
    ASSUME TypeOK, NEW i \in 1 .. MaxStarts, ListenerStep(i)
    PROVE  /\ i \in Alive
           /\ listener'[i] \in {"none", "test", "receive", "leave"}
           /\ \A j \in 1 .. MaxStarts : j # i => listener'[j] = listener[j]
           /\ listener' \in [1 .. MaxStarts -> {"none", "test", "receive", "leave"}]
           /\ new_frame_queue' \in 0 .. QUEUE_LEN
BY LifecycleAssumption DEF TypeOK, ListenerStep, Test, Receive, Leave, Alive

LEMMA StartKeeps == ASSUME LifecycleInv, StartRadio PROVE LifecycleInv'
<1>1. /\ started + 1 \in 1 .. MaxStarts /\ started' = started + 1 /\ new_frame_queue' = 0
      /\ wanted' /\ ~ stray' /\ _stop_listening' = _stop_listening
      /\ untimely' = (stray \/ Alive # {})
  BY LifecycleAssumption DEF LifecycleInv, TypeOK, StartRadio
<1>2. listener' = [listener EXCEPT ![started + 1] = "test"]
  BY <1>1 DEF StartRadio
<1>3. \A i \in 1 .. MaxStarts : listener'[i] = IF i = started' THEN "test" ELSE listener[i]
  BY <1>1, <1>2 DEF LifecycleInv, TypeOK
<1>4. TypeOK'
  <2>1. listener' \in [1 .. MaxStarts -> {"none", "test", "receive", "leave"}]
    BY <1>1, <1>2 DEF LifecycleInv, TypeOK
  <2>2. started' \in 0 .. MaxStarts /\ new_frame_queue' \in 0 .. QUEUE_LEN
    BY <1>1, LifecycleAssumption
  <2>3. wanted' \in BOOLEAN /\ stray' \in BOOLEAN /\ untimely' \in BOOLEAN
    BY DEF LifecycleInv, TypeOK, StartRadio
  <2>4. _stop_listening' \in BOOLEAN
    BY <1>1 DEF LifecycleInv, TypeOK
  <2> QED
    BY <2>1, <2>2, <2>3, <2>4 DEF TypeOK
<1>5. started' \in Alive'
  BY <1>1, <1>3 DEF Alive
<1>6. ASSUME ~ untimely' PROVE Alive' = {started'} /\ ~ _stop_listening'
  <2>1. Alive = {} /\ ~ stray
    BY <1>1, <1>6
  <2>2. ~ _stop_listening'
    BY <1>1, <2>1 DEF LifecycleInv, OneListener
  <2> QED
    BY <1>3, <1>5, <2>1, <2>2 DEF Alive
<1>7. ASSUME ~ untimely', NEW i \in Alive' PROVE listener'[i] # "leave"
  BY <1>1, <1>3, <1>6, <1>7
<1>8. OneListener'
  BY <1>1, <1>5, <1>6, <1>7 DEF OneListener
<1> QED
  BY <1>4, <1>8 DEF LifecycleInv

LEMMA StopKeeps == ASSUME LifecycleInv, StopRadio PROVE LifecycleInv'
<1>1. Alive' = Alive /\ _stop_listening' /\ ~ wanted' /\ stray' = (stray \/ Alive = {})
  BY DEF StopRadio, Alive
<1>2. UNCHANGED <<listener, new_frame_queue, started, untimely>>
  BY DEF StopRadio
<1>3. TypeOK'
  BY <1>1, <1>2 DEF LifecycleInv, TypeOK, StopRadio
<1>4. OneListener'
  BY <1>1, <1>2 DEF LifecycleInv, OneListener
<1> QED
  BY <1>3, <1>4 DEF LifecycleInv

LEMMA TryReceiveKeeps == ASSUME LifecycleInv, TryReceive PROVE LifecycleInv'
<1>1. Alive' = Alive
  BY DEF TryReceive, Alive
<1>2. new_frame_queue' \in 0 .. QUEUE_LEN
  BY LifecycleAssumption DEF LifecycleInv, TypeOK, TryReceive
<1> QED
  BY <1>1, <1>2 DEF LifecycleInv, TypeOK, OneListener, TryReceive, history

LEMMA ListenerKeeps ==
    ASSUME LifecycleInv, NEW i \in 1 .. MaxStarts, ListenerStep(i)
    PROVE  LifecycleInv'
<1>1. /\ i \in Alive
      /\ \A j \in 1 .. MaxStarts : j # i => listener'[j] = listener[j]
  BY StepMoves DEF LifecycleInv
<1>2. UNCHANGED <<started, wanted, stray, untimely>> /\ _stop_listening' \in BOOLEAN
  BY DEF ListenerStep, Test, Receive, Leave, LifecycleInv, TypeOK, history
<1>3. TypeOK'
  BY <1>2, StepMoves DEF LifecycleInv, TypeOK
<1>4. CASE Test(i) \/ Receive(i)
  <2>1. /\ _stop_listening' = _stop_listening
        /\ listener'[i] \in {"test", "receive", "leave"}
        /\ listener'[i] = "leave" => _stop_listening
    BY <1>4 DEF LifecycleInv, TypeOK, Test, Receive
  <2>2. Alive' = Alive
    BY <1>1, <2>1 DEF Alive
  <2> QED
    BY <1>1, <1>2, <1>3, <2>1, <2>2 DEF LifecycleInv, OneListener, Alive
<1>5. CASE Leave(i)
  <2>1. ~ _stop_listening' /\ listener[i] = "leave" /\ listener'[i] = "none"
    BY <1>5 DEF LifecycleInv, TypeOK, Leave
  <2>2. Alive' = Alive \ {i}
    BY <1>1, <2>1 DEF Alive
  <2>3. ~ stray'
    BY <1>1, <1>2 DEF LifecycleInv, OneListener
  <2>4. ASSUME ~ untimely PROVE Alive' = {} /\ ~ wanted
    BY <1>1, <2>1, <2>2, <2>4 DEF LifecycleInv, OneListener
  <2> QED
    BY <1>2, <1>3, <2>1, <2>3, <2>4 DEF LifecycleInv, OneListener
<1> QED
  BY <1>4, <1>5 DEF ListenerStep

\* The invariant holds in every reachable state, for any queue and any number of starts.
THEOREM LifecycleInvariance == Spec => []LifecycleInv
<1>1. LifecycleInv /\ [Next]_vars => LifecycleInv'
  <2> SUFFICES ASSUME LifecycleInv, [Next]_vars PROVE LifecycleInv'
    OBVIOUS
  <2>1. CASE UNCHANGED vars
    BY <2>1 DEF vars, history, LifecycleInv, TypeOK, OneListener, Alive
  <2> QED
    BY <2>1, StartKeeps, StopKeeps, TryReceiveKeeps, ListenerKeeps DEF Next
<1> QED
  BY <1>1, InitInv, PTL DEF Spec

\* The queue never holds more than QUEUE_LEN messages, however starts and stops overlap
\* (start_radio, _listen, try_receive).
THEOREM LifecycleTypes == Spec => []TypeOK
BY LifecycleInvariance, PTL DEF LifecycleInv

\* With no task left the flag is up only after a stop that came when there was none, and
\* the task of a start that found neither a task nor such a flag is the only one and obeys
\* only the stop that was meant for it (start_radio, stop_radio, _listen).
THEOREM ListenerIsAlone == Spec => []OneListener
BY LifecycleInvariance, PTL DEF LifecycleInv
=============================================================================
