------------------------- MODULE LoraServiceProofs -------------------------
(***************************************************************************)
(* LoraTransport implements LoraService, for every network, with any       *)
(* faults and restarts: each step of the tasks is a step of the service or *)
(* none.  That a message passes in its turn rests on the invariant behind  *)
(* InOrder, that a success is paid for on the one behind AcksConserved.    *)
(***************************************************************************)
EXTENDS LoraAckProofs, LoraTransportService

\* The call of the user's task of n, as the service sees it.
CallOf(n) == [from |-> n, to |-> call[n].dest, id |-> call[n].id]

\* The calls that wait, and no others, are pending.
LEMMA PendingIs ==
    /\ PendingCalls = {CallOf(n) : n \in {m \in Node : Waiting(m)}}
    /\ \A n \in Node : Waiting(n) => CallOf(n) \in PendingCalls
    /\ \A c \in PendingCalls : \E n \in Node : Waiting(n) /\ c = CallOf(n) /\ c.from = n
  BY DEF PendingCalls, CallOf

\* A step that neither begins nor ends a call leaves the pending calls as they are.
LEMMA PendingKept ==
    ASSUME \A m \in Node : /\ Waiting(m)' <=> Waiting(m)
                           /\ Waiting(m) => /\ call'[m].id = call[m].id
                                            /\ call'[m].dest = call[m].dest
    PROVE  PendingCalls' = PendingCalls
  BY DEF PendingCalls

\* A step that ends the call of n takes that call from the pending ones.
LEMMA PendingLess ==
    ASSUME NEW n \in Node, Waiting(n), ~ Waiting(n)',
           \A m \in Node \ {n} : call'[m] = call[m]
    PROVE  /\ CallOf(n) \in PendingCalls
           /\ PendingCalls' = PendingCalls \ {CallOf(n)}
<1>1. \A m \in Node \ {n} : (Waiting(m)' <=> Waiting(m)) /\ CallOf(m)' = CallOf(m)
  BY DEF Waiting, CallOf
<1>2. \A m \in Node : m # n => CallOf(m) # CallOf(n)
  BY DEF CallOf
<1>3. PendingCalls' = {CallOf(m)' : m \in {x \in Node : Waiting(x)'}}
  BY DEF PendingCalls, CallOf
<1>4. PendingCalls = {CallOf(m) : m \in {x \in Node : Waiting(x)}}
  BY DEF PendingCalls, CallOf
<1> QED
  BY <1>1, <1>2, <1>3, <1>4

\* A call that ends without success, for whatever reason, is given up.
LEMMA SimulatesGiveUp ==
    ASSUME NEW n \in Node, Waiting(n), ~ Waiting(n)',
           \A m \in Node \ {n} : call'[m] = call[m],
           UNCHANGED <<calls, accepted, dropped, confirmed>>
    PROVE  Service!Return(n)
<1>1. CallOf(n) \in PendingCalls /\ PendingCalls' = PendingCalls \ {CallOf(n)}
  BY PendingLess
<1>2. CallOf(n).from = n
  BY DEF CallOf
<1>3. Service!GiveUp(CallOf(n))
  BY <1>1 DEF Service!GiveUp, Service!Returned
<1> QED
  BY <1>1, <1>2, <1>3 DEF Service!Return

\* send_with_ack is a call.
LEMMA SimulatesCall ==
    ASSUME AckInv, NEW n \in Node, NEW d \in Node, SendWithAck(n, d)
    PROVE  Service!Call(n, d)
<1>0. call \in [Node -> Call] /\ calls \in [Node -> Nat]
  BY DEF AckInv, IInv, TypeOK
<1>1. /\ n # d /\ ~ Waiting(n)
      /\ calls' = [calls EXCEPT ![n] = @ + 1]
      /\ UNCHANGED <<accepted, dropped, confirmed>>
  BY DEF SendWithAck
<1>2. /\ call'[n].phase = "waiting" /\ call'[n].dest = d /\ call'[n].id = calls'[n]
      /\ \A m \in Node \ {n} : call'[m] = call[m]
  BY <1>0, <1>1 DEF SendWithAck
<1>3. /\ Waiting(n)' /\ CallOf(n)' = [from |-> n, to |-> d, id |-> calls'[n]]
      /\ \A m \in Node \ {n} : (Waiting(m)' <=> Waiting(m)) /\ CallOf(m)' = CallOf(m)
  BY <1>2 DEF Waiting, CallOf
<1>4. PendingCalls' = {CallOf(m)' : m \in {x \in Node : Waiting(x)'}}
  BY DEF PendingCalls, CallOf
<1>5. PendingCalls = {CallOf(m) : m \in {x \in Node : Waiting(x)}}
  BY DEF PendingCalls, CallOf
<1>6. PendingCalls' = PendingCalls \cup {[from |-> n, to |-> d, id |-> calls'[n]]}
  BY <1>1, <1>3, <1>4, <1>5
<1>7. \A c \in PendingCalls : c.from # n
  BY <1>1, PendingIs
<1> QED
  BY <1>1, <1>6, <1>7 DEF Service!Call

\* An ACK that is read is a success, and one that the acceptances still pay for.
LEMMA SimulatesSuccess ==
    ASSUME AckInv, NEW n \in Node, GotAck(n)
    PROVE  Service!Return(n)
<1>0. IInv /\ TypeOK /\ call \in [Node -> Call] /\ AcksOwed
  BY DEF AckInv, IInv, TypeOK
<1> DEFINE d == call[n].dest
<1>1. /\ Poll(n) /\ Waiting(n) /\ Polled(n).from = d /\ "ACK" \in Polled(n).flags
      /\ confirmed' = [confirmed EXCEPT ![n][d] = @ + 1]
      /\ UNCHANGED <<calls, accepted, dropped>>
  BY DEF GotAck, Poll, FromPeer
<1>2. /\ Polled(n) \in Frame /\ Polled(n) \in Range(response_queue[n]) /\ d \in Node
      /\ response_queue'[n] = Tail(response_queue[n])
      /\ response_queue[n] \in Seq(Frame) /\ response_queue[n] # <<>>
  BY <1>0, <1>1, PollFacts, TailFacts DEF Polled
<1>3. Polled(n).to = n
  BY <1>0, <1>2, FramesOfQueue
<1>4. call' = [call EXCEPT ![n].phase = "success", ![n].token = 0,
                           ![n].allow_resend = FALSE, ![n].left = 0]
  BY DEF GotAck, Return
<1>5. ~ Waiting(n)' /\ \A m \in Node \ {n} : call'[m] = call[m]
  BY <1>0, <1>4 DEF Waiting, Call
<1>6. CallOf(n) \in PendingCalls /\ PendingCalls' = PendingCalls \ {CallOf(n)}
  BY <1>1, <1>5, PendingLess
<1>7. confirmed[n][d] < Len(accepted[d][n]) + Len(dropped[d][n])
  <2> HIDE DEF d
  <2>1. Polled(n) \in Acks(d, n)
    BY <1>1, <1>2, <1>3 DEF Acks
  <2>2. Tail(response_queue[n]) \in Seq(Frame)
    BY <1>2, TailFacts
  <2>3. /\ Count(response_queue[n], Acks(d, n)) = Count(Tail(response_queue[n]), Acks(d, n)) + 1
        /\ Count(Tail(response_queue[n]), Acks(d, n)) \in Nat
    BY <1>2, <2>1, <2>2, CountTail, CountType DEF Polled
  <2>4. /\ Count(air[d][n], Acks(d, n)) \in Nat /\ Count(replies[d], Acks(d, n)) \in Nat
        /\ confirmed[n][d] \in Nat
        /\ Len(accepted[d][n]) \in Nat /\ Len(dropped[d][n]) \in Nat
    BY <1>0, <1>2, OwedType
  <2> DEFINE a == Count(air[d][n], Acks(d, n))
             b == Count(replies[d], Acks(d, n))
             q == Count(response_queue[n], Acks(d, n))
             t == Count(Tail(response_queue[n]), Acks(d, n))
             c == confirmed[n][d]
             k == Len(accepted[d][n])
             j == Len(dropped[d][n])
  <2>5. c + (a + b + q) =< k + j
    BY <1>0, <1>2 DEF AcksOwed, Owed
  <2>6. /\ a \in Nat /\ b \in Nat /\ c \in Nat /\ t \in Nat /\ k \in Nat /\ j \in Nat
        /\ q = t + 1
    BY <2>3, <2>4
  <2>7. c < k + j
    <3> HIDE DEF a, b, q, t, c, k, j
    <3> QED
      BY <2>5, <2>6
  <2> QED
    BY <2>7
<1>8. CallOf(n).from = n /\ CallOf(n).to = d
  BY DEF CallOf
<1>9. Service!Succeed(CallOf(n))
  BY <1>1, <1>6, <1>7, <1>8 DEF Service!Succeed, Service!Returned
<1> QED
  BY <1>6, <1>8, <1>9 DEF Service!Return

\* The message that a listener is about to let through is in its turn.
LEMMA MessageInTurn ==
    ASSUME AckInv, NEW n \in Node, NEW s \in Node, AcceptToken(n, s)
    PROVE  Service!InTurn(n, s, Arrived(n, s).id)
<1>0. /\ IInv /\ TypeOK /\ Numbered /\ PairsOK
      /\ recv_tokens \in [Node -> [Node -> Token]]
      /\ accepted \in [Node -> [Node -> Seq(Nat)]] /\ dropped \in [Node -> [Node -> Seq(Nat)]]
  BY DEF AckInv, IInv, TypeOK
<1>1. /\ Arriving(n, s) /\ TakeFrame(n, s) /\ n # s /\ IsData(Arrived(n, s))
      /\ ValidToken(Arrived(n, s).token, recv_tokens[n][s])
  BY DEF AcceptToken, NewMessage, Arriving
<1>2. /\ air[s][n] \in Seq(Frame) /\ air[s][n] # <<>> /\ Arrived(n, s) \in Frame
      /\ Arrived(n, s) \in Range(air[s][n])
  BY <1>0, <1>1, ArrivingFacts, ListenCount
<1>3. Arrived(n, s) = air[s][n][1] /\ 1 \in DOMAIN air[s][n]
  BY <1>2, TailFacts DEF Arrived
<1>4. Arrived(n, s).id \in 1 .. calls[s]
  BY <1>0, <1>1, <1>2 DEF Numbered
<1>5. Arrived(n, s).token > recv_tokens[n][s]
  <2>1. Arrived(n, s).token \in Token /\ recv_tokens[n][s] \in Token
    BY <1>0, <1>2 DEF Frame
  <2> QED
    BY <1>1, <2>1, ValidTokenGrows
<1>6. ASSUME n \notin Rebooter, NEW j \in Passed(n, s)
      PROVE  j < Arrived(n, s).id
  <2>1. PICK L \in {accepted[n][s], dropped[n][s]} : j \in Range(L)
    BY DEF Passed
  <2>2. PairInv(air[s][n], recv_tokens[n][s], L, calls[s], Asked(n, s), Pending(s, n))
    BY <1>0, <1>1, <1>6, <2>1, PairFacts
  <2>3. 1 \in Data(air[s][n])
    BY <1>1, <1>3 DEF Data
  <2>4. \A i \in DOMAIN L : L[i] < Arrived(n, s).id
    BY <1>3, <1>5, <2>2, <2>3 DEF PairInv, Fresh
  <2> QED
    BY <2>1, <2>4 DEF Range
<1> QED
  BY <1>4, <1>6 DEF Service!InTurn, Service!Passed, Passed, Service!Range, Range

\* A message that is queued is delivered, one that finds no room is discarded.
LEMMA SimulatesPass ==
    ASSUME AckInv, NEW n \in Node, NEW s \in Node, ListenNewMsg(n, s) \/ ListenQueueFull(n, s)
    PROVE  \E id \in 1 .. calls[s] : Service!Deliver(n, s, id) \/ Service!Discard(n, s, id)
<1>1. AcceptToken(n, s) /\ UNCHANGED <<call, calls, confirmed>>
  BY DEF ListenNewMsg, ListenQueueFull, AcceptToken
<1>2. Service!InTurn(n, s, Arrived(n, s).id)
  BY <1>1, MessageInTurn
<1>3. PendingCalls' = PendingCalls
  BY <1>1 DEF PendingCalls, Waiting
<1>4. Arrived(n, s).id \in 1 .. calls[s]
  BY <1>2 DEF Service!InTurn
<1>5. ListenNewMsg(n, s) => Service!Deliver(n, s, Arrived(n, s).id)
  BY <1>1, <1>2, <1>3 DEF ListenNewMsg, Service!Deliver
<1>6. ListenQueueFull(n, s) => Service!Discard(n, s, Arrived(n, s).id)
  BY <1>1, <1>2, <1>3 DEF ListenQueueFull, Service!Discard
<1> QED
  BY <1>4, <1>5, <1>6

\* Every step of the two tasks, of the medium and of a power loss is a step of the service,
\* or one that it does not see.
LEMMA ServiceStep ==
    ASSUME AckInv, Next
    PROVE  Service!Next \/ UNCHANGED Service!vars
<1>0. TypeOK /\ call \in [Node -> Call]
  BY DEF AckInv, IInv, TypeOK
<1>1. ASSUME UNCHANGED <<calls, accepted, dropped, confirmed>>,
             \A m \in Node : /\ Waiting(m)' <=> Waiting(m)
                             /\ Waiting(m) => /\ call'[m].id = call[m].id
                                              /\ call'[m].dest = call[m].dest
      PROVE  UNCHANGED Service!vars
  BY <1>1, PendingKept DEF Service!vars
<1>2. PICK n \in Node :
         \/ \E e \in Node : SendWithAck(n, e)
         \/ PollStep(n) \/ Tick(n) \/ ResponseTimeout(n) \/ TryReceive(n)
         \/ ListenStep(n) \/ Reboot(n)
  BY DEF Next
<1>3. CASE \E e \in Node : SendWithAck(n, e)
  BY <1>3, SimulatesCall DEF Service!Next
<1>4. CASE GotAck(n)
  BY <1>4, SimulatesSuccess DEF Service!Next
<1>5. CASE GotError(n) \/ ResponseTimeout(n)
  <2>1. /\ Waiting(n)
        /\ UNCHANGED <<calls, accepted, dropped, confirmed>>
        /\ call' = [call EXCEPT ![n].phase = "failure", ![n].token = 0,
                                ![n].allow_resend = FALSE, ![n].left = 0]
    BY <1>5 DEF GotError, ResponseTimeout, Return, Poll, history
  <2>2. ~ Waiting(n)' /\ \A m \in Node \ {n} : call'[m] = call[m]
    BY <1>0, <2>1 DEF Waiting, Call
  <2> QED
    BY <2>1, <2>2, SimulatesGiveUp DEF Service!Next
<1>6. CASE GotResend(n) \/ GotLateRequest(n) \/ Tick(n)
  <2>1. UNCHANGED <<calls, accepted, dropped, confirmed>>
    BY <1>6 DEF GotResend, GotLateRequest, GotRequest, Poll, Tick, history
  <2>2. \/ call' = [call EXCEPT ![n].token = SwappedToken(n),
                                ![n].allow_resend = FALSE, ![n].left = RESPONSE_TIMEOUT]
        \/ call' = [call EXCEPT ![n].token = SwappedToken(n)]
        \/ call' = [call EXCEPT ![n].left = @ - 1]
    BY <1>6 DEF GotResend, GotLateRequest, Tick
  <2>3. \A m \in Node : /\ call'[m].phase = call[m].phase
                        /\ call'[m].id = call[m].id /\ call'[m].dest = call[m].dest
    BY <1>0, <2>2 DEF Call
  <2> QED
    BY <1>1, <2>1, <2>3 DEF Waiting
<1>7. CASE GotForeign(n) \/ TryReceive(n) \/ TransmitReply(n)
  <2>1. UNCHANGED <<call, calls, accepted, dropped, confirmed>>
    BY <1>7 DEF GotForeign, TryReceive, TransmitReply, Poll, history
  <2> QED
    BY <1>1, <2>1 DEF Waiting
<1>8. CASE \E s \in Node : ListenBadCrc(n, s) \/ ListenResponse(n, s) \/ ListenBadToken(n, s)
  <2>1. UNCHANGED <<call, calls, accepted, dropped, confirmed>>
    BY <1>8 DEF ListenBadCrc, ListenResponse, ListenBadToken, history
  <2> QED
    BY <1>1, <2>1 DEF Waiting
<1>9. CASE \E s \in Node : ListenNewMsg(n, s) \/ ListenQueueFull(n, s)
  BY <1>9, SimulatesPass DEF Service!Next
<1>10. CASE Reboot(n)
  <2>1. /\ call' = [call EXCEPT ![n] = NoCall(n)]
        /\ UNCHANGED <<calls, accepted, dropped, confirmed>>
    BY <1>10 DEF Reboot
  <2>2. ~ Waiting(n)' /\ \A m \in Node \ {n} : call'[m] = call[m]
    BY <1>0, <2>1 DEF Waiting, NoCall
  <2>3. CASE Waiting(n)
    BY <2>1, <2>2, <2>3, SimulatesGiveUp DEF Service!Next
  <2>4. CASE ~ Waiting(n)
    <3>1. \A m \in Node : /\ Waiting(m)' <=> Waiting(m)
                          /\ Waiting(m) => /\ call'[m].id = call[m].id
                                           /\ call'[m].dest = call[m].dest
      BY <2>2, <2>4 DEF Waiting
    <3> QED
      BY <1>1, <2>1, <3>1
  <2> QED
    BY <2>3, <2>4
<1> QED
  BY <1>2, <1>3, <1>4, <1>5, <1>6, <1>7, <1>8, <1>9, <1>10 DEF PollStep, ListenStep

\* init and start_radio leave the service where it begins: nothing issued, nothing passed.
LEMMA ServiceInit == Init => Service!Init
<1> SUFFICES ASSUME Init PROVE Service!Init
  OBVIOUS
<1>1. \A n \in Node : ~ Waiting(n)
  BY DEF Init, NoCall, Waiting
<1>2. PendingCalls = {}
  BY <1>1 DEF PendingCalls
<1> QED
  BY <1>2 DEF Init, Service!Init

\* The transport implements the service that its user sees, on any network, with any
\* faults, timing, capacities, restarts and token sizes: a message passes the token check
\* of its destination once and in order however often it is resent, and each success has an
\* acceptance of its own behind it.
THEOREM TransportImplementsService == Spec => ImplementsService
<1>1. Init => Service!Init
  BY ServiceInit
<1>2. AckInv /\ [Next]_vars => [Service!Next]_(Service!vars)
  <2>1. ASSUME AckInv, UNCHANGED vars PROVE UNCHANGED Service!vars
    BY <2>1 DEF vars, history, Service!vars, PendingCalls, Waiting
  <2> QED
    BY <2>1, ServiceStep
<1> QED
  BY <1>1, <1>2, AckInvariance, PTL DEF Spec, ImplementsService, Service!Spec
=============================================================================
