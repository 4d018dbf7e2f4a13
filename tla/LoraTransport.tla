--------------------------- MODULE LoraTransport ---------------------------
(***************************************************************************)
(* The transport layer of lib/lora/loraTransport.h together with the       *)
(* tokens of lib/lora/loraEncryption.h: confirmed delivery of messages     *)
(* between devices over a medium that loses, corrupts and delays frames.   *)
(*                                                                         *)
(* Every device runs two tasks.  The user's task calls send_with_ack,      *)
(* which transmits a frame and polls response_queue until an answer or the *)
(* timeout, and try_receive, which reads new_frame_queue.  The task        *)
(* _listen reads the radio, fills the two queues and answers.              *)
(*                                                                         *)
(* A call of send_with_ack is identified by the number of calls its device *)
(* has made (`calls'); messages are told apart by that number only.        *)
(***************************************************************************)
EXTENDS LoraFrame, Sequences, Functions

CONSTANTS
    Sender,            \* the devices whose program calls send_with_ack
    Rebooter,          \* the devices that may lose power and start again
    QUEUE_LEN,         \* capacity of response_queue and of new_frame_queue
    RESPONSE_TIMEOUT,  \* RESPONSE_TIMEOUT_MS, in ticks
    RecvInit,          \* what random(0, TOKEN_MAX) may return in init
    Fault,             \* what may happen to a frame: subset of {"lost", "corrupt"}
    Prompt,            \* TRUE: the timeout is longer than any answer takes
    AirCap,            \* bound: frames on their way between two devices
    MaxCalls,          \* bound: calls of send_with_ack by one device
    MaxReboots         \* bound: restarts of one device

ASSUME TransportAssumption ==
    /\ Sender \subseteq Node /\ Rebooter \subseteq Node
    /\ QUEUE_LEN \in Nat \ {0}
    /\ RESPONSE_TIMEOUT \in Nat \ {0}
    /\ RecvInit # {} /\ RecvInit \subseteq Token
    /\ Fault \subseteq {"lost", "corrupt"}
    /\ Prompt \in BOOLEAN
    /\ AirCap \in Nat \ {0}
    /\ MaxCalls \in Nat /\ MaxReboots \in Nat

VARIABLES
    send_tokens,      \* [n][d]: the last token n used towards d
    recv_tokens,      \* [n][s]: the last token n accepted from s
    call,             \* [n]: the call of send_with_ack of n's user task
    response_queue,   \* [n]: answers for the user task of n
    new_frame_queue,  \* [n]: messages for the user task of n
    replies,          \* [n]: answers the listener of n has decided on, not yet sent
    air,              \* [s][d]: frames on their way from s to d
    calls,            \* history: calls of send_with_ack made by n
    accepted,         \* history: [d][s], messages of s that d queued for its user
    dropped,          \* history: [d][s], messages of s that d lost to a full queue
    confirmed,        \* history: [s][d], calls that returned true
    reboots           \* history: restarts of n

tokenVars == <<send_tokens, recv_tokens>>
queueVars == <<response_queue, new_frame_queue>>
history   == <<calls, accepted, dropped, confirmed, reboots>>
vars      == <<tokenVars, call, queueVars, replies, air, history>>

Phase == {"idle", "waiting", "success", "failure"}

\* The locals of a call: its arguments, the encrypted message (its token), the permission
\* to resend, and the ticks left before the timeout.  `clean' is history: see Clean.
Call == [phase : Phase, dest : Node, id : Nat, token : Token,
         allow_resend : BOOLEAN, left : 0 .. RESPONSE_TIMEOUT, clean : BOOLEAN]

NoCall(n) == [phase |-> "idle", dest |-> n, id |-> 0, token |-> 0,
              allow_resend |-> FALSE, left |-> 0, clean |-> FALSE]
-----------------------------------------------------------------------------
(***************************************************************************)
(* The medium.  Routing::send of one end and Routing::try_receive of the   *)
(* other are, to this layer, a bounded first-in first-out line per ordered *)
(* pair of devices: a radio holds one packet and a static route forwards   *)
(* packets one by one, so frames disappear but do not overtake each other. *)
(***************************************************************************)

\* What the line may hold once f has been transmitted.
Transmitted(f) ==
    LET line == air[f.from][f.to]
    IN  IF Len(line) >= AirCap THEN {line}
        ELSE {Append(line, f)}
             \cup {line : x \in Fault \cap {"lost"}}
             \cup {Append(line, Corrupted(f)) : x \in Fault \cap {"corrupt"}}

Transmit(f) ==
    \E line \in Transmitted(f) : air' = [air EXCEPT ![f.from][f.to] = line]

\* The listener of n takes the next frame from s off its radio.
Arriving(n, s) == n # s /\ air[s][n] # <<>> /\ replies[n] = <<>>

Arrived(n, s) == Head(air[s][n])

TakeFrame(n, s) == air' = [air EXCEPT ![s][n] = Tail(@)]

\* Nothing a device has sent is under way and every answer has been read by n.
Settled(n) ==
    /\ \A s, d \in Node : air[s][d] = <<>>
    /\ \A m \in Node : replies[m] = <<>>
    /\ response_queue[n] = <<>>

\* History: no frame of an earlier call of n to d, nor an answer of d to n, is left anywhere.
Clean(n, d) ==
    /\ \A f \in Range(air[n][d]) : ~ IsData(f)
    /\ \A f \in Range(air[d][n]) \cup Range(replies[d]) : f.to = n => ~ IsResponse(f)
    /\ \A f \in Range(response_queue[n]) : f.from # d
-----------------------------------------------------------------------------
Init ==
    /\ send_tokens = [n \in Node |-> [d \in Node |-> 0]]
    /\ recv_tokens \in [Node -> [Node -> RecvInit]]
    /\ call = [n \in Node |-> NoCall(n)]
    /\ response_queue = [n \in Node |-> <<>>]
    /\ new_frame_queue = [n \in Node |-> <<>>]
    /\ replies = [n \in Node |-> <<>>]
    /\ air = [s \in Node |-> [d \in Node |-> <<>>]]
    /\ calls = [n \in Node |-> 0]
    /\ accepted = [d \in Node |-> [s \in Node |-> <<>>]]
    /\ dropped = [d \in Node |-> [s \in Node |-> <<>>]]
    /\ confirmed = [s \in Node |-> [d \in Node |-> 0]]
    /\ reboots = [n \in Node |-> 0]
-----------------------------------------------------------------------------
(***************************************************************************)
(* The user's task: send_with_ack, the loop of _send, try_receive.         *)
(***************************************************************************)
Waiting(n) == call[n].phase = "waiting"

\* send_with_ack up to the loop of _send: encrypt, then build and transmit the frame.
SendWithAck(n, d) ==
    LET token == NextToken(send_tokens[n][d])
        id == calls[n] + 1
    IN  /\ n \in Sender /\ n # d
        /\ ~ Waiting(n)
        /\ calls[n] < MaxCalls
        /\ send_tokens' = [send_tokens EXCEPT ![n][d] = token]
        /\ call' = [call EXCEPT ![n] =
                      [phase |-> "waiting", dest |-> d, id |-> id, token |-> token,
                       allow_resend |-> TRUE, left |-> RESPONSE_TIMEOUT,
                       clean |-> Clean(n, d)]]
        /\ calls' = [calls EXCEPT ![n] = id]
        /\ Transmit(DataFrame(n, d, id, token))
        /\ UNCHANGED <<recv_tokens, queueVars, replies, accepted, dropped, confirmed, reboots>>

\* One successful xQueueReceive of the loop.
Polled(n) == Head(response_queue[n])

Poll(n) ==
    /\ Waiting(n) /\ call[n].left > 0
    /\ response_queue[n] # <<>>
    /\ response_queue' = [response_queue EXCEPT ![n] = Tail(@)]
    /\ UNCHANGED <<recv_tokens, new_frame_queue, replies, calls, accepted, dropped, reboots>>

\* Broken on purpose: the answer of any device is taken.
FromAnyone(n) == Polled(n).from # n

FromPeer(n) == Polled(n).from = call[n].dest

Return(n, result) ==
    call' = [call EXCEPT ![n].phase = result, ![n].token = 0,
                         ![n].allow_resend = FALSE, ![n].left = 0]

\* The answer of another device is read and thrown away.
GotForeign(n) ==
    /\ Poll(n) /\ ~ FromPeer(n)
    /\ UNCHANGED <<send_tokens, call, air, confirmed>>

GotAck(n) ==
    /\ Poll(n) /\ FromPeer(n)
    /\ "ACK" \in Polled(n).flags
    /\ Return(n, "success")
    /\ confirmed' = [confirmed EXCEPT ![n][call[n].dest] = @ + 1]
    /\ UNCHANGED <<send_tokens, air>>

GotError(n) ==
    /\ Poll(n) /\ FromPeer(n)
    /\ "ACK" \notin Polled(n).flags /\ "ERROR" \in Polled(n).flags
    /\ Return(n, "failure")
    /\ UNCHANGED <<send_tokens, air, confirmed>>

\* swap_token: the message is encrypted again with the token its receiver asks for.
SwappedToken(n) == IF "SYNC" \in Polled(n).flags THEN Polled(n).token ELSE call[n].token

\* Broken on purpose: the new token is put into the message and not into the table.
SwapTokenForgets(n) == UNCHANGED send_tokens

SwapToken(n) ==
    send_tokens' = IF "SYNC" \in Polled(n).flags
                   THEN [send_tokens EXCEPT ![n][call[n].dest] = Polled(n).token]
                   ELSE send_tokens

GotRequest(n) ==
    /\ Poll(n) /\ FromPeer(n)
    /\ Polled(n).flags \cap {"ACK", "ERROR"} = {}
    /\ SwapToken(n)
    /\ UNCHANGED confirmed

\* Broken on purpose: the second _send keeps allow_resend at its default, true.
GotResendForever(n) ==
    /\ GotRequest(n)
    /\ "RESEND" \in Polled(n).flags /\ call[n].allow_resend
    /\ call' = [call EXCEPT ![n].token = SwappedToken(n), ![n].left = RESPONSE_TIMEOUT]
    /\ Transmit(DataFrame(n, call[n].dest, call[n].id, SwappedToken(n)))

\* The message is sent once more by a nested _send, which waits anew.
GotResend(n) ==
    /\ GotRequest(n)
    /\ "RESEND" \in Polled(n).flags /\ call[n].allow_resend
    /\ call' = [call EXCEPT ![n].token = SwappedToken(n),
                            ![n].allow_resend = FALSE, ![n].left = RESPONSE_TIMEOUT]
    /\ Transmit(DataFrame(n, call[n].dest, call[n].id, SwappedToken(n)))

\* Broken on purpose: _wait_start is set again at every answer.
GotLateRequestRestarts(n) ==
    /\ GotRequest(n)
    /\ ~ ("RESEND" \in Polled(n).flags /\ call[n].allow_resend)
    /\ call' = [call EXCEPT ![n].token = SwappedToken(n), ![n].left = RESPONSE_TIMEOUT]
    /\ UNCHANGED air

\* No second resend, but the tokens are swapped all the same.
GotLateRequest(n) ==
    /\ GotRequest(n)
    /\ ~ ("RESEND" \in Polled(n).flags /\ call[n].allow_resend)
    /\ call' = [call EXCEPT ![n].token = SwappedToken(n)]
    /\ UNCHANGED air

Tick(n) ==
    /\ Waiting(n) /\ call[n].left > 0
    /\ Prompt => Settled(n)
    /\ call' = [call EXCEPT ![n].left = @ - 1]
    /\ UNCHANGED <<tokenVars, queueVars, replies, air, history>>

ResponseTimeout(n) ==
    /\ Waiting(n) /\ call[n].left = 0
    /\ Return(n, "failure")
    /\ UNCHANGED <<tokenVars, queueVars, replies, air, history>>

TryReceive(n) ==
    /\ ~ Waiting(n)
    /\ new_frame_queue[n] # <<>>
    /\ new_frame_queue' = [new_frame_queue EXCEPT ![n] = Tail(@)]
    /\ UNCHANGED <<tokenVars, call, response_queue, replies, air, history>>
-----------------------------------------------------------------------------
(***************************************************************************)
(* The listener's task: one turn of the loop of _listen per frame.  An     *)
(* answer is decided here and transmitted by TransmitReply; the listener   *)
(* takes no other frame in between.                                        *)
(***************************************************************************)
Reply(n, s, answers) == replies' = [replies EXCEPT ![n] = answers]

\* Whatever the frame was, its sender is asked for it again.
ListenBadCrc(n, s) ==
    /\ Arriving(n, s) /\ ~ Arrived(n, s).crc
    /\ TakeFrame(n, s)
    /\ Reply(n, s, <<Response(n, s, {"RESEND"}, 0)>>)
    /\ UNCHANGED <<tokenVars, call, queueVars, history>>

\* An answer for the user's task: lost when the queue stays full for the ten ticks
\* that xQueueSend waits, in which a prompt polling loop would have made room.
ListenResponse(n, s) ==
    /\ Arriving(n, s) /\ Arrived(n, s).crc /\ IsResponse(Arrived(n, s))
    /\ TakeFrame(n, s)
    /\ \/ /\ Len(response_queue[n]) < QUEUE_LEN
          /\ response_queue' = [response_queue EXCEPT ![n] = Append(@, Arrived(n, s))]
       \/ /\ Len(response_queue[n]) = QUEUE_LEN
          /\ ~ (Prompt /\ Waiting(n))
          /\ UNCHANGED response_queue
    /\ UNCHANGED <<tokenVars, call, new_frame_queue, replies, history>>

NewMessage(n, s) == Arriving(n, s) /\ Arrived(n, s).crc /\ IsData(Arrived(n, s))

\* Broken on purpose: the sender is asked for the token that was accepted last.
ListenBadTokenAsksLast(n, s) ==
    /\ NewMessage(n, s)
    /\ ~ ValidToken(Arrived(n, s).token, recv_tokens[n][s])
    /\ TakeFrame(n, s)
    /\ Reply(n, s, <<Response(n, s, {"SYNC", "RESEND"}, recv_tokens[n][s])>>)
    /\ UNCHANGED <<tokenVars, call, queueVars, history>>

\* Broken on purpose: the frame is acknowledged although its token was refused.
ListenBadTokenAcked(n, s) ==
    /\ NewMessage(n, s)
    /\ ~ ValidToken(Arrived(n, s).token, recv_tokens[n][s])
    /\ TakeFrame(n, s)
    /\ Reply(n, s, <<Response(n, s, {"SYNC", "RESEND"}, NextToken(recv_tokens[n][s])),
                     Response(n, s, {"ACK"}, 0)>>)
    /\ UNCHANGED <<tokenVars, call, queueVars, history>>

\* decrypt failed: the sender is told the next token that will do.
ListenBadToken(n, s) ==
    /\ NewMessage(n, s)
    /\ ~ ValidToken(Arrived(n, s).token, recv_tokens[n][s])
    /\ TakeFrame(n, s)
    /\ Reply(n, s, <<Response(n, s, {"SYNC", "RESEND"}, NextToken(recv_tokens[n][s]))>>)
    /\ UNCHANGED <<tokenVars, call, queueVars, history>>

\* Broken on purpose: the token is checked but not remembered.
AcceptTokenForgets(n, s) ==
    /\ NewMessage(n, s)
    /\ ValidToken(Arrived(n, s).token, recv_tokens[n][s])
    /\ TakeFrame(n, s)
    /\ UNCHANGED <<tokenVars, call, response_queue, calls, confirmed, reboots>>

\* _validate_token succeeded and remembered the token.
AcceptToken(n, s) ==
    /\ NewMessage(n, s)
    /\ ValidToken(Arrived(n, s).token, recv_tokens[n][s])
    /\ TakeFrame(n, s)
    /\ recv_tokens' = [recv_tokens EXCEPT ![n][s] = Arrived(n, s).token]
    /\ UNCHANGED <<send_tokens, call, response_queue, calls, confirmed, reboots>>

\* Broken on purpose: the message is queued whether there is room for it or not.
ListenNewMsgOverruns(n, s) ==
    /\ AcceptToken(n, s)
    /\ new_frame_queue' =
          [new_frame_queue EXCEPT ![n] = Append(@, [from |-> s, id |-> Arrived(n, s).id])]
    /\ accepted' = [accepted EXCEPT ![n][s] = Append(@, Arrived(n, s).id)]
    /\ Reply(n, s, <<Response(n, s, {"ACK"}, 0)>>)
    /\ UNCHANGED dropped

ListenNewMsg(n, s) ==
    /\ AcceptToken(n, s)
    /\ Len(new_frame_queue[n]) < QUEUE_LEN
    /\ new_frame_queue' =
          [new_frame_queue EXCEPT ![n] = Append(@, [from |-> s, id |-> Arrived(n, s).id])]
    /\ accepted' = [accepted EXCEPT ![n][s] = Append(@, Arrived(n, s).id)]
    /\ Reply(n, s, <<Response(n, s, {"ACK"}, 0)>>)
    /\ UNCHANGED dropped

\* Broken on purpose: a message that finds no room does not use up its token.
ListenQueueFullForgets(n, s) ==
    /\ AcceptTokenForgets(n, s)
    /\ Len(new_frame_queue[n]) = QUEUE_LEN
    /\ dropped' = [dropped EXCEPT ![n][s] = Append(@, Arrived(n, s).id)]
    /\ Reply(n, s, <<Response(n, s, {"ERROR"}, 0), Response(n, s, {"ACK"}, 0)>>)
    /\ UNCHANGED <<new_frame_queue, accepted>>

\* Broken on purpose: the message is acknowledged before the queue is tried.
ListenQueueFullAcksFirst(n, s) ==
    /\ AcceptToken(n, s)
    /\ Len(new_frame_queue[n]) = QUEUE_LEN
    /\ dropped' = [dropped EXCEPT ![n][s] = Append(@, Arrived(n, s).id)]
    /\ Reply(n, s, <<Response(n, s, {"ACK"}, 0), Response(n, s, {"ERROR"}, 0)>>)
    /\ UNCHANGED <<new_frame_queue, accepted>>

\* The queue stayed full: the message is gone, an ERROR is sent, and the ACK after it.
ListenQueueFull(n, s) ==
    /\ AcceptToken(n, s)
    /\ Len(new_frame_queue[n]) = QUEUE_LEN
    /\ dropped' = [dropped EXCEPT ![n][s] = Append(@, Arrived(n, s).id)]
    /\ Reply(n, s, <<Response(n, s, {"ERROR"}, 0), Response(n, s, {"ACK"}, 0)>>)
    /\ UNCHANGED <<new_frame_queue, accepted>>

\* Broken on purpose: an answer may be sent more than once.
TransmitReplyRepeats(n) ==
    /\ replies[n] # <<>>
    /\ Transmit(Head(replies[n]))
    /\ replies' = [replies EXCEPT ![n] = Tail(@)] \/ UNCHANGED replies
    /\ UNCHANGED <<tokenVars, call, queueVars, history>>

TransmitReply(n) ==
    /\ replies[n] # <<>>
    /\ Transmit(Head(replies[n]))
    /\ replies' = [replies EXCEPT ![n] = Tail(@)]
    /\ UNCHANGED <<tokenVars, call, queueVars, history>>
-----------------------------------------------------------------------------
\* Power is lost; Encryption::init and start_radio run again.
Reboot(n) ==
    /\ n \in Rebooter /\ reboots[n] < MaxReboots
    /\ send_tokens' = [send_tokens EXCEPT ![n] = [d \in Node |-> 0]]
    /\ \E fresh \in [Node -> RecvInit] : recv_tokens' = [recv_tokens EXCEPT ![n] = fresh]
    /\ call' = [call EXCEPT ![n] = NoCall(n)]
    /\ response_queue' = [response_queue EXCEPT ![n] = <<>>]
    /\ new_frame_queue' = [new_frame_queue EXCEPT ![n] = <<>>]
    /\ replies' = [replies EXCEPT ![n] = <<>>]
    /\ reboots' = [reboots EXCEPT ![n] = @ + 1]
    /\ UNCHANGED <<air, calls, accepted, dropped, confirmed>>
-----------------------------------------------------------------------------
PollStep(n) == GotForeign(n) \/ GotAck(n) \/ GotError(n) \/ GotResend(n) \/ GotLateRequest(n)

ListenStep(n) ==
    \/ \E s \in Node : \/ ListenBadCrc(n, s) \/ ListenResponse(n, s)
                       \/ ListenBadToken(n, s)
                       \/ ListenNewMsg(n, s) \/ ListenQueueFull(n, s)
    \/ TransmitReply(n)

Next ==
    \E n \in Node :
        \/ \E d \in Node : SendWithAck(n, d)
        \/ PollStep(n)
        \/ Tick(n) \/ ResponseTimeout(n)
        \/ TryReceive(n)
        \/ ListenStep(n)
        \/ Reboot(n)

Spec == Init /\ [][Next]_vars

\* Both tasks have a core of their own and the clock does not stop.  Nothing is asked of
\* the medium, nor of a program that may never call again.
Fairness ==
    \A n \in Node : /\ WF_vars(Tick(n) \/ ResponseTimeout(n))
                    /\ WF_vars(PollStep(n))
                    /\ WF_vars(ListenStep(n))

FairSpec == Spec /\ Fairness
-----------------------------------------------------------------------------
(***************************************************************************)
(* Properties.                                                             *)
(***************************************************************************)

\* Every variable keeps its shape: in particular the two queues never hold more than
\* QUEUE_LEN entries, the tokens stay below TOKEN_MAX and the listener never owes more
\* than the two answers of one frame.
TypeOK ==
    /\ send_tokens \in [Node -> [Node -> Token]]
    /\ recv_tokens \in [Node -> [Node -> Token]]
    /\ call \in [Node -> Call]
    /\ response_queue \in [Node -> Seq(Frame)]
    /\ new_frame_queue \in [Node -> Seq([from : Node, id : Nat])]
    /\ replies \in [Node -> Seq(Frame)]
    /\ air \in [Node -> [Node -> Seq(Frame)]]
    /\ calls \in [Node -> Nat]
    /\ accepted \in [Node -> [Node -> Seq(Nat)]]
    /\ dropped \in [Node -> [Node -> Seq(Nat)]]
    /\ confirmed \in [Node -> [Node -> Nat]]
    /\ reboots \in [Node -> Nat]
    /\ \A n \in Node : /\ Len(response_queue[n]) =< QUEUE_LEN
                       /\ Len(new_frame_queue[n]) =< QUEUE_LEN
                       /\ Len(replies[n]) =< 2

\* At most once and in order: a device that keeps its memory queues the messages of
\* another in the order of the calls that sent them and none of them twice, although
\* frames are resent, given new tokens and acknowledged late, and although the sender
\* may restart its counter (_validate_token, swap_token, the RESEND branch of _send).
InOrder ==
    \A d \in Node \ Rebooter, s \in Node :
        \A i, j \in DOMAIN accepted[d][s] :
            i < j => accepted[d][s][i] < accepted[d][s][j]

\* A call that began with no frame of an earlier call and no answer to one left over
\* returns true only if its own message passed the token check of its destination.
AckGenuine ==
    \A n \in Node :
        call[n].phase = "success" /\ call[n].clean =>
            LET d == call[n].dest IN
            call[n].id \in Range(accepted[d][n]) \cup Range(dropped[d][n])

\* No more calls return true than messages passed the token check: an ACK is sent once
\* per accepted token, consumed once, and never made up on the way.
AcksConserved ==
    \A s, d \in Node :
        confirmed[s][d] =< Len(accepted[d][s]) + Len(dropped[d][s])

\* After a call that began clean and returned true the two ends are in step: the sender goes
\* on from the token that its receiver remembers, so that no later call needs a SYNC, whatever
\* was damaged, asked for again and resent in between.  No SYNC that the call still reads
\* comes after the acceptance it succeeds by (swap_token, _validate_token, the order of the
\* answers in response_queue).
TokensAgree ==
    \A n \in Node :
        call[n].phase = "success" /\ call[n].clean =>
            LET d == call[n].dest IN
            d \in Rebooter \/ send_tokens[n][d] = recv_tokens[d][n]

\* On a lossless medium that answers in time, a call that began clean fails only because
\* its destination's queue was full or its receive counter has reached its last value:
\* one SYNC|RESEND is enough to agree on a token, whatever the two counters were, also
\* when the sender has restarted.
TimelySuccess ==
    \A n \in Node :
        call[n].phase = "failure" /\ call[n].clean =>
            LET d == call[n].dest IN
            \/ d \in Rebooter
            \/ call[n].id \in Range(dropped[d][n])
            \/ recv_tokens[d][n] = TOKEN_MAX - 1

\* On the same medium the result is exact: a call that began clean returns true only if its
\* message was queued for the user of its destination.  The ACK that follows the ERROR of a
\* message without room (_listen goes on after it) is never read by the call of that message.
TimelyDelivery ==
    \A n \in Node :
        call[n].phase = "success" /\ call[n].clean =>
            LET d == call[n].dest IN
            d \in Rebooter \/ call[n].id \in Range(accepted[d][n])

\* A receive counter at its last value locks its sender out: until the device restarts, no
\* message of that sender passes and the counter stays, whatever tokens are asked for and
\* sent (the difference in _validate_token knows nothing of TOKEN_MAX).
LockedOut ==
    [][\A d, s \in Node :
          recv_tokens[d][s] = TOKEN_MAX - 1 =>
              /\ accepted'[d][s] = accepted[d][s] /\ dropped'[d][s] = dropped[d][s]
              /\ recv_tokens'[d][s] = recv_tokens[d][s] \/ reboots'[d] > reboots[d]]_vars

\* A device that keeps its memory never goes back to a token it has accepted.
RecvTokenGrows ==
    [][\A d \in Node \ Rebooter, s \in Node : recv_tokens'[d][s] >= recv_tokens[d][s]]_vars

\* The time a call may still take: the ticks left and, while it may resend, the wait
\* that the nested _send would start.
Budget(n) ==
    call[n].left + (IF call[n].allow_resend THEN RESPONSE_TIMEOUT ELSE 0)

\* A call never gains time: it waits for at most two timeouts, however many requests to
\* resend and to change tokens it is sent while it waits (the nested _send of the RESEND
\* branch starts its own wait, once).
WaitBounded ==
    [][\A n \in Node : Waiting(n) /\ Waiting(n)' => Budget(n)' =< Budget(n)]_vars

\* send_with_ack returns: every call ends, whatever the medium does.
SendReturns == \A n \in Node : Waiting(n) ~> ~ Waiting(n)
=============================================================================
