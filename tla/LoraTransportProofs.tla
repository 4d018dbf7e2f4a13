------------------------ MODULE LoraTransportProofs ------------------------
(***************************************************************************)
(* Proofs about LoraTransport, for every network, queue length, threshold  *)
(* and set of faults: type correctness, in-order at-most-once acceptance,  *)
(* and the growth of the receive counters.                                 *)
(***************************************************************************)
EXTENDS LoraTransportInv, SequenceTheorems, TLAPS

(***************************************************************************)
(* Tokens and sequences.                                                   *)
(***************************************************************************)

\* The counter stays below TOKEN_MAX and its successor is at most one more.
LEMMA NextTokenType ==
    ASSUME NEW t \in Token
    PROVE  NextToken(t) \in Token /\ NextToken(t) =< t + 1
  BY TokenAssumption DEF NextToken, Token

\* A token that passes the check is above the last accepted one (uint32_t
\* subtraction would make a smaller token look far ahead).
LEMMA ValidTokenGrows ==
    ASSUME NEW t \in Token, NEW r \in Token, ValidToken(t, r)
    PROVE  t > r
  BY TokenAssumption DEF ValidToken, TokenDiff, Token

\* Zero, the token that init gives every send counter, is a token.
LEMMA ZeroToken == 0 \in Token
  BY TokenAssumption DEF Token

\* What taking the first element of a queue leaves.
LEMMA TailFacts ==
    ASSUME NEW T, NEW q \in Seq(T), q # <<>>
    PROVE  /\ Head(q) \in T /\ Head(q) = q[1]
           /\ Tail(q) \in Seq(T)
           /\ Len(Tail(q)) = Len(q) - 1
           /\ DOMAIN q = 1 .. Len(q) /\ Len(q) \in Nat /\ 1 \in DOMAIN q
           /\ DOMAIN Tail(q) = 1 .. Len(q) - 1
           /\ \A k \in DOMAIN Tail(q) : k + 1 \in DOMAIN q /\ Tail(q)[k] = q[k + 1]
           /\ Range(Tail(q)) \subseteq Range(q)
           /\ Head(q) \in Range(q)
<1>1. /\ Head(q) \in T /\ Tail(q) \in Seq(T) /\ Len(Tail(q)) = Len(q) - 1
      /\ \A i \in 1 .. Len(Tail(q)) : Tail(q)[i] = q[i + 1]
  BY HeadTailProperties
<1>2. Len(q) \in Nat /\ DOMAIN q = 1 .. Len(q) /\ Len(q) > 0
  BY LenProperties, EmptySeq
<1>3. DOMAIN Tail(q) = 1 .. Len(q) - 1
  BY <1>1, LenProperties
<1>4. Head(q) = q[1]
  BY <1>2
<1>5. \A k \in DOMAIN Tail(q) : k + 1 \in DOMAIN q /\ Tail(q)[k] = q[k + 1]
  BY <1>1, <1>2, <1>3
<1> QED
  BY <1>1, <1>2, <1>3, <1>4, <1>5 DEF Range

\* What adding an element to a queue makes of it.
LEMMA AppendFacts ==
    ASSUME NEW T, NEW q \in Seq(T), NEW f \in T
    PROVE  /\ Append(q, f) \in Seq(T)
           /\ Len(Append(q, f)) = Len(q) + 1 /\ Len(q) \in Nat
           /\ DOMAIN q = 1 .. Len(q)
           /\ DOMAIN Append(q, f) = 1 .. Len(q) + 1
           /\ \A k \in DOMAIN q : Append(q, f)[k] = q[k]
           /\ Append(q, f)[Len(q) + 1] = f
           /\ Range(Append(q, f)) = Range(q) \cup {f}
<1>1. /\ Append(q, f) \in Seq(T)
      /\ Len(q) \in Nat /\ Len(Append(q, f)) = Len(q) + 1
      /\ DOMAIN q = 1 .. Len(q)
      /\ DOMAIN Append(q, f) = 1 .. Len(q) + 1
  BY LenProperties
<1>2. \A k \in DOMAIN q : Append(q, f)[k] = q[k]
  BY <1>1
<1>3. Append(q, f)[Len(q) + 1] = f
  BY <1>1
<1>4. Range(Append(q, f)) = Range(q) \cup {f}
  BY <1>1, <1>2, <1>3 DEF Range
<1> QED
  BY <1>1, <1>2, <1>3, <1>4
-----------------------------------------------------------------------------
(***************************************************************************)
(* Type correctness.                                                       *)
(***************************************************************************)

\* The two constructors of frames, and what the medium may do to one.
LEMMA FrameTypes ==
    /\ \A n, d \in Node, id \in Nat, t \in Token : DataFrame(n, d, id, t) \in Frame
    /\ \A n, d \in Node, fl \in SUBSET Flag, t \in Token : Response(n, d, fl, t) \in Frame
    /\ \A f \in Frame : Corrupted(f) \in Frame
  BY DEF DataFrame, Response, Corrupted, Frame, Flag

\* A transmission changes one line, which keeps its contents and gets at most one frame,
\* the one transmitted or a corrupted copy.
LEMMA TransmitFacts ==
    ASSUME TypeOK, NEW f \in Frame, Transmit(f)
    PROVE  /\ air' \in [Node -> [Node -> Seq(Frame)]]
           /\ \A s, d \in Node : s # f.from \/ d # f.to => air'[s][d] = air[s][d]
           /\ \/ air'[f.from][f.to] = air[f.from][f.to]
              \/ \E g \in {f, Corrupted(f)} :
                    air'[f.from][f.to] = Append(air[f.from][f.to], g)
<1>1. f.from \in Node /\ f.to \in Node
  BY DEF Frame
<1> DEFINE line == air[f.from][f.to]
<1>2. line \in Seq(Frame) /\ air \in [Node -> [Node -> Seq(Frame)]]
  BY <1>1 DEF TypeOK
<1>3. PICK q \in Transmitted(f) : air' = [air EXCEPT ![f.from][f.to] = q]
  BY DEF Transmit
<1>4. q = line \/ q = Append(line, f) \/ q = Append(line, Corrupted(f))
  BY <1>3 DEF Transmitted
<1>5. q \in Seq(Frame)
  <2>1. Corrupted(f) \in Frame
    BY FrameTypes
  <2>2. Append(line, f) \in Seq(Frame)
    BY <1>2, AppendFacts
  <2>3. Append(line, Corrupted(f)) \in Seq(Frame)
    BY <1>2, <2>1, AppendFacts
  <2> QED
    BY <1>2, <1>4, <2>2, <2>3
<1>6. air'[f.from][f.to] = q
  BY <1>1, <1>2, <1>3
<1> QED
  BY <1>1, <1>2, <1>3, <1>4, <1>5, <1>6

\* Reading an answer: the queue of n loses its head, which is a frame.
LEMMA PollFacts ==
    ASSUME TypeOK, NEW n \in Node, Poll(n)
    PROVE  /\ Polled(n) \in Frame
           /\ response_queue' \in [Node -> Seq(Frame)]
           /\ \A m \in Node : Len(response_queue'[m]) =< QUEUE_LEN
           /\ \A m \in Node \ {n} : response_queue'[m] = response_queue[m]
           /\ response_queue'[n] = Tail(response_queue[n])
           /\ response_queue[n] \in Seq(Frame) /\ response_queue[n] # <<>>
           /\ call[n].dest \in Node /\ call[n].id \in Nat /\ call[n].token \in Token
<1>1. response_queue[n] \in Seq(Frame) /\ response_queue[n] # <<>>
  BY DEF Poll, TypeOK
<1>2. /\ Polled(n) \in Frame /\ Tail(response_queue[n]) \in Seq(Frame)
      /\ Len(Tail(response_queue[n])) = Len(response_queue[n]) - 1
      /\ Len(response_queue[n]) \in Nat
  BY <1>1, TailFacts DEF Polled
<1>3. response_queue' = [response_queue EXCEPT ![n] = Tail(@)]
  BY DEF Poll
<1>4. call[n].dest \in Node /\ call[n].id \in Nat /\ call[n].token \in Token
  BY DEF TypeOK, Call
<1>5. response_queue' \in [Node -> Seq(Frame)]
  BY <1>2, <1>3 DEF TypeOK
<1>6. /\ response_queue'[n] = Tail(response_queue[n])
      /\ \A m \in Node \ {n} : response_queue'[m] = response_queue[m]
  BY <1>3 DEF TypeOK
<1>7. \A m \in Node : Len(response_queue'[m]) =< QUEUE_LEN
  <2>1. Len(response_queue[n]) =< QUEUE_LEN
    BY DEF TypeOK
  <2>2. Len(response_queue'[n]) =< QUEUE_LEN
    BY <1>2, <1>6, <2>1, TransportAssumption
  <2> QED
    BY <1>6, <2>2 DEF TypeOK
<1> QED
  BY <1>1, <1>2, <1>4, <1>5, <1>6, <1>7

\* A frame reaching the listener of n from s leaves the head of their line.
LEMMA ArrivingFacts ==
    ASSUME TypeOK, NEW n \in Node, NEW s \in Node, Arriving(n, s), TakeFrame(n, s)
    PROVE  /\ Arrived(n, s) \in Frame
           /\ air' \in [Node -> [Node -> Seq(Frame)]]
           /\ air'[s][n] = Tail(air[s][n])
           /\ air[s][n] \in Seq(Frame) /\ air[s][n] # <<>>
           /\ \A m, d \in Node : m # s \/ d # n => air'[m][d] = air[m][d]
<1>1. air[s][n] \in Seq(Frame) /\ air[s][n] # <<>>
  BY DEF Arriving, TypeOK
<1>2. Arrived(n, s) \in Frame /\ Tail(air[s][n]) \in Seq(Frame)
  BY <1>1, TailFacts DEF Arrived
<1> QED
  BY <1>1, <1>2 DEF TypeOK, TakeFrame

\* The answers of a listener, one or two.
LEMMA ReplyFacts ==
    ASSUME TypeOK, NEW n \in Node, NEW s \in Node, NEW f \in Frame, NEW g \in Frame,
           Reply(n, s, <<f>>) \/ Reply(n, s, <<f, g>>)
    PROVE  replies' \in [Node -> Seq(Frame)] /\ \A m \in Node : Len(replies'[m]) =< 2
<1>1. /\ <<f>> \in Seq(Frame) /\ Len(<<f>>) = 1
      /\ <<f, g>> \in Seq(Frame) /\ Len(<<f, g>>) = 2
  OBVIOUS
<1>2. PICK a : a \in Seq(Frame) /\ Len(a) =< 2 /\ replies' = [replies EXCEPT ![n] = a]
  <2> DEFINE Is(a) == a \in Seq(Frame) /\ Len(a) =< 2 /\ replies' = [replies EXCEPT ![n] = a]
  <2>1. Is(<<f>>) \/ Is(<<f, g>>)
    BY <1>1 DEF Reply
  <2> HIDE DEF Is
  <2>2. \E a : Is(a)
    BY <2>1
  <2> QED
    BY <2>2 DEF Is
<1>3. replies' \in [Node -> Seq(Frame)]
  BY <1>2 DEF TypeOK
<1>4. \A m \in Node : Len(replies'[m]) =< 2
  BY <1>2 DEF TypeOK
<1> QED
  BY <1>3, <1>4

\* The state that init and start_radio leave is well-formed.
LEMMA TypeInit == Init => TypeOK
<1> SUFFICES ASSUME Init PROVE TypeOK
  OBVIOUS
<1>1. \A n \in Node : NoCall(n) \in Call
  BY ZeroToken, TransportAssumption DEF NoCall, Call, Phase
<1>2. RecvInit \subseteq Token /\ QUEUE_LEN \in Nat
  BY TransportAssumption
<1>3. recv_tokens \in [Node -> [Node -> Token]]
  BY <1>2 DEF Init
<1>4. <<>> \in Seq(Frame) /\ <<>> \in Seq(Nat) /\ <<>> \in Seq([from : Node, id : Nat]) /\ Len(<<>>) = 0
  OBVIOUS
<1> QED
  BY <1>1, <1>2, <1>3, <1>4, ZeroToken DEF Init, TypeOK

\* send_with_ack keeps the types: its frame, its locals and the stepped send token.
LEMMA TypeSend ==
    ASSUME TypeOK, NEW n \in Node, NEW d \in Node, SendWithAck(n, d)
    PROVE  TypeOK'
<1> DEFINE token == NextToken(send_tokens[n][d])
           id == calls[n] + 1
           c == [phase |-> "waiting", dest |-> d, id |-> id, token |-> token,
                 allow_resend |-> TRUE, left |-> RESPONSE_TIMEOUT, clean |-> Clean(n, d)]
<1>1. token \in Token /\ id \in Nat
  <2>1. send_tokens[n][d] \in Token /\ calls[n] \in Nat
    BY DEF TypeOK
  <2> QED
    BY <2>1, NextTokenType
<1>2. DataFrame(n, d, id, token) \in Frame
  BY <1>1, FrameTypes
<1>3. air' \in [Node -> [Node -> Seq(Frame)]]
  BY <1>2, TransmitFacts DEF SendWithAck
<1>4. c \in Call
  BY <1>1, TransportAssumption DEF Call, Phase, Clean
<1>5. call' \in [Node -> Call]
  BY <1>4 DEF SendWithAck, TypeOK
<1>6. send_tokens' \in [Node -> [Node -> Token]] /\ calls' \in [Node -> Nat]
  BY <1>1 DEF SendWithAck, TypeOK
<1> QED
  BY <1>3, <1>5, <1>6 DEF SendWithAck, TypeOK, queueVars

\* Returning from a call and the three ways in which polling changes it.
LEMMA CallTypes ==
    ASSUME TypeOK, NEW n \in Node
    PROVE  /\ \A p \in Phase : Return(n, p) => call' \in [Node -> Call]
           /\ \A t \in Token :
                 /\ [call EXCEPT ![n].token = t] \in [Node -> Call]
                 /\ [call EXCEPT ![n].token = t, ![n].allow_resend = FALSE,
                                 ![n].left = RESPONSE_TIMEOUT] \in [Node -> Call]
           /\ call[n].left > 0 => [call EXCEPT ![n].left = @ - 1] \in [Node -> Call]
<1>1. call \in [Node -> Call] /\ call[n] \in Call
  BY DEF TypeOK
<1>2. RESPONSE_TIMEOUT \in 0 .. RESPONSE_TIMEOUT /\ 0 \in 0 .. RESPONSE_TIMEOUT
  BY TransportAssumption
<1>3. ASSUME NEW p \in Phase, Return(n, p) PROVE call' \in [Node -> Call]
  BY <1>1, <1>2, <1>3, ZeroToken DEF Return, Call
<1>4. ASSUME NEW t \in Token
      PROVE  /\ [call EXCEPT ![n].token = t] \in [Node -> Call]
             /\ [call EXCEPT ![n].token = t, ![n].allow_resend = FALSE,
                             ![n].left = RESPONSE_TIMEOUT] \in [Node -> Call]
  BY <1>1, <1>2 DEF Call
<1>5. ASSUME call[n].left > 0 PROVE [call EXCEPT ![n].left = @ - 1] \in [Node -> Call]
  <2>1. call[n].left \in 0 .. RESPONSE_TIMEOUT
    BY <1>1 DEF Call
  <2>2. call[n].left - 1 \in 0 .. RESPONSE_TIMEOUT
    BY <1>5, <2>1, TransportAssumption
  <2>3. [call[n] EXCEPT !.left = @ - 1] \in Call
    BY <1>1, <2>2 DEF Call
  <2> QED
    BY <1>1, <2>3
<1> QED
  BY <1>3, <1>4, <1>5

\* The token a request leaves the call with.
LEMMA SwapFacts ==
    ASSUME TypeOK, NEW n \in Node, GotRequest(n)
    PROVE  /\ SwappedToken(n) \in Token
           /\ send_tokens' \in [Node -> [Node -> Token]]
<1>1. /\ Polled(n) \in Frame /\ call[n].dest \in Node /\ call[n].token \in Token
  BY PollFacts DEF GotRequest
<1>2. Polled(n).token \in Token
  BY <1>1 DEF Frame
<1>3. SwappedToken(n) \in Token
  BY <1>1, <1>2 DEF SwappedToken
<1>4. send_tokens' \in [Node -> [Node -> Token]]
  BY <1>1, <1>2 DEF GotRequest, SwapToken, TypeOK
<1> QED
  BY <1>3, <1>4

\* Each branch of the polling loop of _send keeps the types.
LEMMA TypePoll ==
    ASSUME TypeOK, NEW n \in Node, PollStep(n)
    PROVE  TypeOK'
<1>0. Poll(n)
  BY DEF PollStep, GotForeign, GotAck, GotError, GotResend, GotLateRequest, GotRequest
<1>1. /\ response_queue' \in [Node -> Seq(Frame)]
      /\ \A m \in Node : Len(response_queue'[m]) =< QUEUE_LEN
      /\ call[n].dest \in Node /\ call[n].id \in Nat
  BY <1>0, PollFacts
<1>2. UNCHANGED <<recv_tokens, new_frame_queue, replies, calls, accepted, dropped, reboots>>
  BY <1>0 DEF Poll
<1>3. "success" \in Phase /\ "failure" \in Phase
  BY DEF Phase
<1> SUFFICES /\ call' \in [Node -> Call]
             /\ send_tokens' \in [Node -> [Node -> Token]]
             /\ air' \in [Node -> [Node -> Seq(Frame)]]
             /\ confirmed' \in [Node -> [Node -> Nat]]
  BY <1>1, <1>2 DEF TypeOK
<1>4. CASE GotForeign(n)
  BY <1>4 DEF GotForeign, TypeOK
<1>5. CASE GotAck(n)
  <2>1. call' \in [Node -> Call]
    BY <1>3, <1>5, CallTypes DEF GotAck
  <2>2. PICK d \in Node : confirmed' = [confirmed EXCEPT ![n][d] = @ + 1]
    BY <1>1, <1>5 DEF GotAck
  <2>3. confirmed[n][d] + 1 \in Nat
    <3>1. confirmed \in [Node -> [Node -> Nat]]
      BY DEF TypeOK
    <3> QED
      BY <3>1
  <2>4. confirmed' \in [Node -> [Node -> Nat]]
    BY <2>2, <2>3 DEF TypeOK
  <2> QED
    BY <1>5, <2>1, <2>4 DEF GotAck, TypeOK
<1>6. CASE GotError(n)
  <2>1. call' \in [Node -> Call]
    BY <1>3, <1>6, CallTypes DEF GotError
  <2> QED
    BY <1>6, <2>1 DEF GotError, TypeOK
<1>7. CASE GotResend(n)
  <2>1. SwappedToken(n) \in Token /\ send_tokens' \in [Node -> [Node -> Token]]
    BY <1>7, SwapFacts DEF GotResend
  <2>2. call' \in [Node -> Call]
    BY <1>7, <2>1, CallTypes DEF GotResend
  <2>3. DataFrame(n, call[n].dest, call[n].id, SwappedToken(n)) \in Frame
    BY <1>1, <2>1, FrameTypes
  <2>4. air' \in [Node -> [Node -> Seq(Frame)]]
    BY <1>7, <2>3, TransmitFacts DEF GotResend
  <2> QED
    BY <1>7, <2>1, <2>2, <2>4 DEF GotResend, GotRequest, TypeOK
<1>8. CASE GotLateRequest(n)
  <2>1. SwappedToken(n) \in Token /\ send_tokens' \in [Node -> [Node -> Token]]
    BY <1>8, SwapFacts DEF GotLateRequest
  <2>2. call' \in [Node -> Call]
    BY <1>8, <2>1, CallTypes DEF GotLateRequest
  <2> QED
    BY <1>8, <2>1, <2>2 DEF GotLateRequest, GotRequest, TypeOK
<1> QED
  BY <1>4, <1>5, <1>6, <1>7, <1>8 DEF PollStep

\* Each branch of _listen keeps the types, and a full queue does not grow.
LEMMA TypeListen ==
    ASSUME TypeOK, NEW n \in Node, ListenStep(n)
    PROVE  TypeOK'
<1>0. /\ {"RESEND"} \in SUBSET Flag /\ {"SYNC", "RESEND"} \in SUBSET Flag
      /\ {"ACK"} \in SUBSET Flag /\ {"ERROR"} \in SUBSET Flag
  BY DEF Flag
<1>1. ASSUME NEW s \in Node
      PROVE  /\ Response(n, s, {"RESEND"}, 0) \in Frame
             /\ Response(n, s, {"ACK"}, 0) \in Frame
             /\ Response(n, s, {"ERROR"}, 0) \in Frame
             /\ Response(n, s, {"SYNC", "RESEND"}, NextToken(recv_tokens[n][s])) \in Frame
  <2>1. recv_tokens[n][s] \in Token
    BY DEF TypeOK
  <2> QED
    BY <1>0, <2>1, ZeroToken, NextTokenType, FrameTypes
<1>2. ASSUME NEW s \in Node, ListenBadCrc(n, s)
      PROVE  TypeOK'
  <2>1. air' \in [Node -> [Node -> Seq(Frame)]]
    BY <1>2, ArrivingFacts DEF ListenBadCrc
  <2>2. replies' \in [Node -> Seq(Frame)] /\ \A m \in Node : Len(replies'[m]) =< 2
    BY <1>1, <1>2, ReplyFacts DEF ListenBadCrc
  <2> QED
    BY <1>2, <2>1, <2>2 DEF ListenBadCrc, TypeOK, tokenVars, queueVars, history
<1>3. ASSUME NEW s \in Node, ListenResponse(n, s)
      PROVE  TypeOK'
  <2>1. air' \in [Node -> [Node -> Seq(Frame)]] /\ Arrived(n, s) \in Frame
    BY <1>3, ArrivingFacts DEF ListenResponse
  <2>2. response_queue[n] \in Seq(Frame) /\ Len(response_queue[n]) =< QUEUE_LEN
    BY DEF TypeOK
  <2>3. /\ Append(response_queue[n], Arrived(n, s)) \in Seq(Frame)
        /\ Len(Append(response_queue[n], Arrived(n, s))) = Len(response_queue[n]) + 1
        /\ Len(response_queue[n]) \in Nat
    BY <2>1, <2>2, AppendFacts
  <2>4. /\ response_queue' \in [Node -> Seq(Frame)]
        /\ \A m \in Node : Len(response_queue'[m]) =< QUEUE_LEN
    <3>1. CASE UNCHANGED response_queue
      BY <3>1 DEF TypeOK
    <3>2. CASE /\ Len(response_queue[n]) < QUEUE_LEN
               /\ response_queue' =
                     [response_queue EXCEPT ![n] = Append(@, Arrived(n, s))]
      <4>1. response_queue' \in [Node -> Seq(Frame)]
        BY <2>3, <3>2 DEF TypeOK
      <4>2. Len(response_queue'[n]) =< QUEUE_LEN
        BY <2>3, <3>2, TransportAssumption DEF TypeOK
      <4>3. \A m \in Node \ {n} : response_queue'[m] = response_queue[m]
        BY <3>2 DEF TypeOK
      <4> QED
        BY <4>1, <4>2, <4>3 DEF TypeOK
    <3> QED
      BY <1>3, <3>1, <3>2 DEF ListenResponse
  <2> QED
    BY <1>3, <2>1, <2>4 DEF ListenResponse, TypeOK, tokenVars, history
<1>4. ASSUME NEW s \in Node, ListenBadToken(n, s)
      PROVE  TypeOK'
  <2>1. air' \in [Node -> [Node -> Seq(Frame)]]
    BY <1>4, ArrivingFacts DEF ListenBadToken, NewMessage
  <2>2. replies' \in [Node -> Seq(Frame)] /\ \A m \in Node : Len(replies'[m]) =< 2
    BY <1>1, <1>4, ReplyFacts DEF ListenBadToken
  <2> QED
    BY <1>4, <2>1, <2>2 DEF ListenBadToken, TypeOK, tokenVars, queueVars, history
<1>5. ASSUME NEW s \in Node, AcceptToken(n, s)
      PROVE  /\ air' \in [Node -> [Node -> Seq(Frame)]]
             /\ recv_tokens' \in [Node -> [Node -> Token]]
             /\ Arrived(n, s).id \in Nat
  <2>1. air' \in [Node -> [Node -> Seq(Frame)]] /\ Arrived(n, s) \in Frame
    BY <1>5, ArrivingFacts DEF AcceptToken, NewMessage
  <2>2. Arrived(n, s).token \in Token /\ Arrived(n, s).id \in Nat
    BY <2>1 DEF Frame
  <2> QED
    BY <1>5, <2>1, <2>2 DEF AcceptToken, TypeOK
<1>6. ASSUME NEW s \in Node, ListenNewMsg(n, s)
      PROVE  TypeOK'
  <2> DEFINE M == [from : Node, id : Nat]
             m0 == [from |-> s, id |-> Arrived(n, s).id]
  <2>1. /\ air' \in [Node -> [Node -> Seq(Frame)]]
        /\ recv_tokens' \in [Node -> [Node -> Token]]
        /\ Arrived(n, s).id \in Nat
    BY <1>5, <1>6 DEF ListenNewMsg
  <2>2. replies' \in [Node -> Seq(Frame)] /\ \A m \in Node : Len(replies'[m]) =< 2
    BY <1>1, <1>6, ReplyFacts DEF ListenNewMsg
  <2>3. m0 \in M /\ new_frame_queue[n] \in Seq(M) /\ accepted[n][s] \in Seq(Nat)
    BY <2>1 DEF TypeOK
  <2>4. /\ Append(new_frame_queue[n], m0) \in Seq(M)
        /\ Len(Append(new_frame_queue[n], m0)) = Len(new_frame_queue[n]) + 1
        /\ Len(new_frame_queue[n]) \in Nat
    BY <2>3, AppendFacts
  <2>5. Append(accepted[n][s], Arrived(n, s).id) \in Seq(Nat)
    BY <2>1, <2>3, AppendFacts
  <2>6. accepted' \in [Node -> [Node -> Seq(Nat)]]
    BY <1>6, <2>5 DEF ListenNewMsg, TypeOK
  <2>7. new_frame_queue' = [new_frame_queue EXCEPT ![n] = Append(@, m0)]
    BY <1>6 DEF ListenNewMsg
  <2>8. new_frame_queue' \in [Node -> Seq(M)]
    BY <2>4, <2>7 DEF TypeOK
  <2>9. \A m \in Node : Len(new_frame_queue'[m]) =< QUEUE_LEN
    BY <1>6, <2>4, <2>7, TransportAssumption DEF ListenNewMsg, TypeOK
  <2> QED
    BY <1>6, <2>1, <2>2, <2>6, <2>8, <2>9 DEF ListenNewMsg, AcceptToken, TypeOK
<1>7. ASSUME NEW s \in Node, ListenQueueFull(n, s)
      PROVE  TypeOK'
  <2>1. /\ air' \in [Node -> [Node -> Seq(Frame)]]
        /\ recv_tokens' \in [Node -> [Node -> Token]]
        /\ Arrived(n, s).id \in Nat
    BY <1>5, <1>7 DEF ListenQueueFull
  <2>2. replies' \in [Node -> Seq(Frame)] /\ \A m \in Node : Len(replies'[m]) =< 2
    BY <1>1, <1>7, ReplyFacts DEF ListenQueueFull
  <2>3. dropped[n][s] \in Seq(Nat)
    BY DEF TypeOK
  <2>4. Append(dropped[n][s], Arrived(n, s).id) \in Seq(Nat)
    BY <2>1, <2>3, AppendFacts
  <2>5. dropped' \in [Node -> [Node -> Seq(Nat)]]
    BY <1>7, <2>4 DEF ListenQueueFull, TypeOK
  <2> QED
    BY <1>7, <2>1, <2>2, <2>5 DEF ListenQueueFull, AcceptToken, TypeOK
<1>8. CASE TransmitReply(n)
  <2>1. replies[n] \in Seq(Frame) /\ replies[n] # <<>> /\ Len(replies[n]) =< 2
    BY <1>8 DEF TransmitReply, TypeOK
  <2>2. /\ Head(replies[n]) \in Frame /\ Tail(replies[n]) \in Seq(Frame)
        /\ Len(replies[n]) \in Nat /\ Len(Tail(replies[n])) = Len(replies[n]) - 1
    BY <2>1, TailFacts
  <2>3. air' \in [Node -> [Node -> Seq(Frame)]]
    BY <1>8, <2>2, TransmitFacts DEF TransmitReply
  <2>4. replies' \in [Node -> Seq(Frame)]
    BY <1>8, <2>2 DEF TransmitReply, TypeOK
  <2>5. \A m \in Node : Len(replies'[m]) =< 2
    BY <1>8, <2>1, <2>2 DEF TransmitReply, TypeOK
  <2> QED
    BY <1>8, <2>3, <2>4, <2>5 DEF TransmitReply, TypeOK, tokenVars, queueVars, history
<1> QED
  BY <1>2, <1>3, <1>4, <1>6, <1>7, <1>8 DEF ListenStep

\* A restart keeps the types: init writes tokens and empties the queues.
LEMMA TypeReboot ==
    ASSUME TypeOK, NEW n \in Node, Reboot(n)
    PROVE  TypeOK'
<1>1. [d \in Node |-> 0] \in [Node -> Token] /\ NoCall(n) \in Call
  BY ZeroToken, TransportAssumption DEF NoCall, Call, Phase
<1>2. [Node -> RecvInit] \subseteq [Node -> Token] /\ QUEUE_LEN \in Nat
  BY TransportAssumption
<1>3. send_tokens' \in [Node -> [Node -> Token]] /\ recv_tokens' \in [Node -> [Node -> Token]]
  BY <1>1, <1>2 DEF Reboot, TypeOK
<1>4. call' \in [Node -> Call] /\ reboots' \in [Node -> Nat]
  BY <1>1 DEF Reboot, TypeOK
<1>5. /\ response_queue' \in [Node -> Seq(Frame)]
      /\ new_frame_queue' \in [Node -> Seq([from : Node, id : Nat])]
      /\ replies' \in [Node -> Seq(Frame)]
      /\ \A m \in Node : /\ Len(response_queue'[m]) =< QUEUE_LEN
                         /\ Len(new_frame_queue'[m]) =< QUEUE_LEN
                         /\ Len(replies'[m]) =< 2
  BY <1>2, SMTT(30) DEF Reboot, TypeOK
<1> QED
  BY <1>3, <1>4, <1>5 DEF Reboot, TypeOK

\* Tick, ResponseTimeout and TryReceive of the user's task.
LEMMA TypeUser ==
    ASSUME TypeOK, NEW n \in Node, Tick(n) \/ ResponseTimeout(n) \/ TryReceive(n)
    PROVE  TypeOK'
<1>1. CASE Tick(n)
  <2>1. call' \in [Node -> Call]
    BY <1>1, CallTypes DEF Tick
  <2> QED
    BY <1>1, <2>1 DEF Tick, TypeOK, tokenVars, queueVars, history
<1>2. CASE ResponseTimeout(n)
  <2>1. call' \in [Node -> Call]
    BY <1>2, CallTypes DEF ResponseTimeout, Phase
  <2> QED
    BY <1>2, <2>1 DEF ResponseTimeout, TypeOK, tokenVars, queueVars, history
<1>3. CASE TryReceive(n)
  <2> DEFINE M == [from : Node, id : Nat]
  <2>1. new_frame_queue[n] \in Seq(M) /\ new_frame_queue[n] # <<>>
    BY <1>3 DEF TryReceive, TypeOK
  <2>2. /\ Tail(new_frame_queue[n]) \in Seq(M)
        /\ Len(new_frame_queue[n]) \in Nat
        /\ Len(Tail(new_frame_queue[n])) = Len(new_frame_queue[n]) - 1
    BY <2>1, TailFacts
  <2>3. new_frame_queue' = [new_frame_queue EXCEPT ![n] = Tail(@)]
    BY <1>3 DEF TryReceive
  <2>4. new_frame_queue' \in [Node -> Seq(M)]
    BY <2>2, <2>3 DEF TypeOK
  <2>5. \A m \in Node : Len(new_frame_queue'[m]) =< QUEUE_LEN
    BY <2>2, <2>3, TransportAssumption DEF TypeOK
  <2> QED
    BY <1>3, <2>4, <2>5 DEF TryReceive, TypeOK, tokenVars, history
<1> QED
  BY <1>1, <1>2, <1>3

\* Every step of the two tasks keeps the types.
LEMMA TypeStep ==
    ASSUME TypeOK, [Next]_vars
    PROVE  TypeOK'
<1>1. CASE Next
  BY <1>1, TypeSend, TypePoll, TypeUser, TypeListen, TypeReboot DEF Next
<1>2. CASE UNCHANGED vars
  BY <1>2 DEF TypeOK, vars, tokenVars, queueVars, history
<1> QED
  BY <1>1, <1>2

\* In every reachable state the variables have their types, the queues respect
\* QUEUE_LEN and a listener owes at most two answers, on any network.
THEOREM TypeCorrect == Spec => []TypeOK
<1>1. Init => TypeOK
  BY TypeInit
<1>2. TypeOK /\ [Next]_vars => TypeOK'
  BY TypeStep
<1> QED
  BY <1>1, <1>2, PTL DEF Spec
-----------------------------------------------------------------------------
(***************************************************************************)
(* What can happen to a pair of devices, over the values PairInv is about. *)
(***************************************************************************)

\* Tokens are natural numbers: the comparisons of the invariant are arithmetic.
LEMMA TokenNat == Token \subseteq Nat
  BY TokenAssumption DEF Token

\* A frame is read and refused, or was an answer: the line gets shorter, the destination
\* may ask for the successor of its token, the call may end.
LEMMA PairShrink ==
    ASSUME NEW q \in Seq(Frame), q # <<>>, NEW r \in Token, NEW L \in Seq(Nat), NEW n \in Nat,
           NEW S \in SUBSET Token, NEW P \in SUBSET Token,
           NEW S2 \in SUBSET Token, NEW P2 \in SUBSET P,
           PairInv(q, r, L, n, S, P),
           \A t \in S2 : t \in S \/ (IsData(q[1]) /\ t =< r + 1)
    PROVE  PairInv(Tail(q), r, L, n, S2, P2)
<1> DEFINE b == Tail(q)
<1>1. /\ DOMAIN q = 1 .. Len(q) /\ Len(q) \in Nat /\ 1 \in DOMAIN q
      /\ DOMAIN b = 1 .. Len(q) - 1
      /\ \A k \in DOMAIN b : k + 1 \in DOMAIN q /\ b[k] = q[k + 1]
  BY TailFacts
<1> HIDE DEF b
<1>2. \A k \in Data(b) : k \in Nat /\ k + 1 \in Data(q) /\ b[k] = q[k + 1]
  BY <1>1 DEF Data
<1>3. Known(b, L, n)
  BY <1>2 DEF PairInv, Known
<1>4. Ordered(b)
  <2> SUFFICES ASSUME NEW k \in Data(b), NEW l \in Data(b), k < l
               PROVE  b[k].id =< b[l].id
    BY DEF Ordered
  <2>1. /\ k + 1 \in Data(q) /\ l + 1 \in Data(q) /\ k + 1 < l + 1
        /\ b[k] = q[k + 1] /\ b[l] = q[l + 1]
    <3>1. k \in Nat /\ l \in Nat
      BY <1>2
    <3> QED
      BY <1>2, <3>1
  <2>2. Ordered(q)
    BY DEF PairInv
  <2> QED
    BY <2>1, <2>2 DEF Ordered
<1>5. Increasing(L)
  BY DEF PairInv
<1>6. Fresh(b, r, L)
  BY <1>2 DEF PairInv, Fresh
<1>7. Resent(b, r)
  <2> SUFFICES ASSUME NEW k \in Data(b), NEW l \in Data(b), k < l,
                      b[k].id = b[l].id
               PROVE  b[l].token =< b[k].token \/ b[l].token =< r + 1
    BY DEF Resent
  <2>1. /\ k + 1 \in Data(q) /\ l + 1 \in Data(q) /\ k + 1 < l + 1
        /\ b[k] = q[k + 1] /\ b[l] = q[l + 1]
    <3>1. k \in Nat /\ l \in Nat
      BY <1>2
    <3> QED
      BY <1>2, <3>1
  <2>2. Resent(q, r)
    BY DEF PairInv
  <2> QED
    BY <2>1, <2>2 DEF Resent
<1>8. Asks(S2, r)
  BY DEF PairInv, Asks
<1>9. Single(b, n, P2)
  <2> SUFFICES ASSUME NEW t \in P2, NEW k \in Data(b), b[k].id = n
               PROVE  /\ b[k].token = t
                      /\ \A l \in Data(b) : b[l].id = n => k = l
    BY DEF Single
  <2>1. k \in Nat /\ k + 1 \in Data(q) /\ b[k] = q[k + 1]
    BY <1>2
  <2>2. q[k + 1].token = t /\ \A l \in Data(q) : q[l].id = n => k + 1 = l
    BY <2>1 DEF PairInv, Single
  <2>3. ASSUME NEW l \in Data(b), b[l].id = n PROVE k = l
    <3>1. l \in Nat /\ l + 1 \in Data(q) /\ b[l] = q[l + 1]
      BY <1>2
    <3>2. k + 1 = l + 1
      BY <2>2, <2>3, <3>1
    <3> QED
      BY <2>1, <3>1, <3>2
  <2> QED
    BY <2>1, <2>2, <2>3
<1>10. Spent(b, r, L, n, S2, P2)
  <2> SUFFICES ASSUME NEW t \in P2, \E i \in DOMAIN L : L[i] = n
               PROVE  Data(b) = {} /\ t =< r /\ \A u \in S2 : u =< r
    BY DEF Spent
  <2>1. Data(q) = {} /\ t =< r /\ \A u \in S : u =< r
    BY DEF PairInv, Spent
  <2>2. ~ IsData(q[1])
    BY <1>1, <2>1 DEF Data
  <2> QED
    BY <1>2, <2>1, <2>2
<1> QED
  BY <1>3, <1>4, <1>5, <1>6, <1>7, <1>8, <1>9, <1>10 DEF PairInv, b

\* Answers get lost and calls end.
LEMMA PairKeep ==
    ASSUME NEW q, NEW r, NEW L, NEW n, NEW S, NEW P, NEW S2 \in SUBSET S, NEW P2 \in SUBSET P,
           PairInv(q, r, L, n, S, P)
    PROVE  PairInv(q, r, L, n, S2, P2)
  BY DEF PairInv, Asks, Single, Spent

\* An answer of the sender joins the line.
LEMMA PairAnswer ==
    ASSUME NEW q \in Seq(Frame), NEW r, NEW L, NEW n, NEW S, NEW P,
           NEW f \in Frame, ~ IsData(f), PairInv(q, r, L, n, S, P)
    PROVE  PairInv(Append(q, f), r, L, n, S, P)
<1>1. /\ DOMAIN q = 1 .. Len(q) /\ Len(q) \in Nat
      /\ DOMAIN Append(q, f) = 1 .. Len(q) + 1
      /\ \A k \in DOMAIN q : Append(q, f)[k] = q[k]
      /\ Append(q, f)[Len(q) + 1] = f
  BY AppendFacts
<1>2. Data(Append(q, f)) = Data(q) /\ \A k \in Data(q) : Append(q, f)[k] = q[k]
  BY <1>1 DEF Data
<1> QED
  BY <1>2 DEF PairInv, Known, Ordered, Fresh, Resent, Single, Spent

\* A new call: nothing on the line or accepted belongs to it.
LEMMA PairNewCall ==
    ASSUME NEW q \in Seq(Frame), NEW r, NEW L \in Seq(Nat), NEW n \in Nat, NEW S, NEW P, NEW P2,
           PairInv(q, r, L, n, S, P)
    PROVE  PairInv(q, r, L, n + 1, S, P2)
<1>1. /\ DOMAIN q = 1 .. Len(q) /\ \A k \in DOMAIN q : q[k] \in Frame
      /\ DOMAIN L = 1 .. Len(L) /\ \A i \in DOMAIN L : L[i] \in Nat
  BY LenProperties, ElementOfSeq
<1>2. \A k \in Data(q) : q[k].id \in Nat /\ q[k].id =< n
  BY <1>1 DEF PairInv, Known, Data, Frame
<1>3. \A i \in DOMAIN L : L[i] \in Nat /\ L[i] =< n
  BY <1>1 DEF PairInv, Known
<1>4. Known(q, L, n + 1)
  BY <1>2, <1>3 DEF Known
<1>5. Single(q, n + 1, P2)
  BY <1>2 DEF Single
<1>6. Spent(q, r, L, n + 1, S, P2)
  BY <1>3 DEF Spent
<1> QED
  BY <1>4, <1>5, <1>6 DEF PairInv

\* The frame of a new call joins the line.
LEMMA PairSend ==
    ASSUME NEW q \in Seq(Frame), NEW r \in Token, NEW L \in Seq(Nat), NEW n \in Nat,
           NEW S, NEW P, NEW P2, NEW f \in Frame,
           IsData(f), f.id = n + 1, P2 \subseteq {f.token},
           PairInv(q, r, L, n, S, P)
    PROVE  PairInv(Append(q, f), r, L, n + 1, S, P2)
<1> DEFINE a == Append(q, f)
           e == Len(q) + 1
<1>1. /\ DOMAIN q = 1 .. Len(q) /\ Len(q) \in Nat
      /\ DOMAIN a = 1 .. e
      /\ \A k \in DOMAIN q : a[k] = q[k] /\ q[k] \in Frame
      /\ a[e] = f
      /\ DOMAIN L = 1 .. Len(L) /\ \A i \in DOMAIN L : L[i] \in Nat
  BY AppendFacts, LenProperties, ElementOfSeq
<1> HIDE DEF a
<1>2. /\ Data(a) = Data(q) \cup {e}
      /\ \A k \in Data(q) : /\ k \in Nat /\ k < e /\ a[k] = q[k]
                            /\ q[k].id \in Nat /\ q[k].id < f.id
      /\ f.id \in Nat
  BY <1>1 DEF Data, PairInv, Known, Frame
<1>3. \A i \in DOMAIN L : L[i] \in Nat /\ L[i] < f.id
  BY <1>1 DEF PairInv, Known
<1>4. Known(a, L, n + 1)
  BY <1>1, <1>2, <1>3 DEF Known
<1>5. Ordered(a)
  <2> SUFFICES ASSUME NEW k \in Data(a), NEW l \in Data(a), k < l
               PROVE  a[k].id =< a[l].id
    BY DEF Ordered
  <2>1. k \in Data(q) /\ (l \in Data(q) \/ l = e)
    BY <1>1, <1>2
  <2>2. CASE l \in Data(q)
    BY <1>2, <2>1, <2>2 DEF PairInv, Ordered
  <2>3. CASE l = e
    <3>1. a[l] = f
      BY <1>1, <2>3
    <3>2. a[k] = q[k] /\ q[k].id \in Nat /\ q[k].id < f.id
      BY <1>2, <2>1
    <3> QED
      BY <1>2, <3>1, <3>2
  <2> QED
    BY <2>1, <2>2, <2>3
<1>6. Fresh(a, r, L)
  <2> SUFFICES ASSUME NEW k \in Data(a), NEW i \in DOMAIN L, a[k].token > r
               PROVE  L[i] < a[k].id
    BY DEF Fresh
  <2>1. CASE k \in Data(q)
    BY <1>2, <2>1 DEF PairInv, Fresh
  <2>2. CASE k = e
    BY <1>1, <1>3, <2>2
  <2> QED
    BY <1>2, <2>1, <2>2
<1>7. Resent(a, r)
  <2> SUFFICES ASSUME NEW k \in Data(a), NEW l \in Data(a), k < l, a[k].id = a[l].id
               PROVE  a[l].token =< a[k].token \/ a[l].token =< r + 1
    BY DEF Resent
  <2>1. k \in Data(q) /\ (l \in Data(q) \/ l = e)
    BY <1>1, <1>2
  <2>2. l # e
    BY <1>1, <1>2, <2>1
  <2> QED
    BY <1>2, <2>1, <2>2 DEF PairInv, Resent
<1>8. Single(a, n + 1, P2)
  BY <1>1, <1>2, SMTT(30) DEF Single
<1>9. Spent(a, r, L, n + 1, S, P2)
  BY <1>3 DEF Spent
<1> QED
  BY <1>4, <1>5, <1>6, <1>7, <1>8, <1>9 DEF PairInv, a

\* The message of the pending call joins the line once more, with its token or with one
\* that was asked for; the call may not resend it again.
LEMMA PairResend ==
    ASSUME NEW q \in Seq(Frame), NEW r \in Token, NEW L \in Seq(Nat), NEW n \in Nat,
           NEW S \in SUBSET Token, NEW S2 \in SUBSET S, NEW P \in SUBSET Token, NEW t \in P,
           NEW f \in Frame, IsData(f), f.id = n, f.token = t \/ f.token \in S,
           PairInv(q, r, L, n, S, P)
    PROVE  PairInv(Append(q, f), r, L, n, S2, {})
<1> DEFINE a == Append(q, f)
           e == Len(q) + 1
<1>1. /\ DOMAIN q = 1 .. Len(q) /\ Len(q) \in Nat
      /\ DOMAIN a = 1 .. e
      /\ \A k \in DOMAIN q : a[k] = q[k] /\ q[k] \in Frame
      /\ a[e] = f
      /\ DOMAIN L = 1 .. Len(L) /\ \A i \in DOMAIN L : L[i] \in Nat
  BY AppendFacts, LenProperties, ElementOfSeq
<1> HIDE DEF a
<1>2. /\ Data(a) = Data(q) \cup {e}
      /\ \A k \in Data(q) : /\ k \in Nat /\ k < e /\ a[k] = q[k]
                            /\ q[k].id \in Nat /\ q[k].id =< f.id
                            /\ q[k].token \in Nat
  <2>1. Data(a) = Data(q) \cup {e}
    BY <1>1 DEF Data
  <2>2. ASSUME NEW k \in Data(q)
        PROVE  k \in Nat /\ k < e /\ a[k] = q[k] /\ q[k] \in Frame
    BY <1>1 DEF Data
  <2>3. ASSUME NEW k \in Data(q)
        PROVE  q[k].id \in Nat /\ q[k].token \in Nat
    BY <2>2, TokenNat DEF Frame
  <2>4. ASSUME NEW k \in Data(q)
        PROVE  q[k].id =< f.id
    BY DEF PairInv, Known
  <2> QED
    BY <2>1, <2>2, <2>3, <2>4
<1>3. /\ \A i \in DOMAIN L : L[i] \in Nat /\ L[i] =< f.id
      /\ f.token \in Nat /\ r \in Nat /\ t \in Nat
  BY <1>1, TokenNat DEF PairInv, Known, Frame
<1>4. Known(a, L, n)
  <2>1. ASSUME NEW k \in Data(a) PROVE a[k].id =< n
    <3>1. CASE k \in Data(q)
      BY <1>2, <3>1
    <3>2. CASE k = e
      BY <1>1, <1>3, <3>2
    <3> QED
      BY <1>2, <3>1, <3>2
  <2> QED
    BY <1>3, <2>1 DEF Known
<1>5. Ordered(a)
  <2> SUFFICES ASSUME NEW k \in Data(a), NEW l \in Data(a), k < l
               PROVE  a[k].id =< a[l].id
    BY DEF Ordered
  <2>1. k \in Data(q) /\ (l \in Data(q) \/ l = e)
    BY <1>1, <1>2
  <2>2. CASE l \in Data(q)
    BY <1>2, <2>1, <2>2 DEF PairInv, Ordered
  <2>3. CASE l = e
    <3>1. a[l] = f
      BY <1>1, <2>3
    <3>2. a[k] = q[k] /\ q[k].id \in Nat /\ q[k].id =< f.id
      BY <1>2, <2>1
    <3> QED
      BY <1>3, <3>1, <3>2
  <2> QED
    BY <2>1, <2>2, <2>3
<1>6. Fresh(a, r, L)
  <2>1. f.token > r => \A i \in DOMAIN L : L[i] < f.id
    <3>1. (\E i \in DOMAIN L : L[i] = n) => f.token =< r
      BY <1>3 DEF PairInv, Spent
    <3> QED
      BY <1>3, <3>1
  <2> QED
    BY <1>1, <1>2, <2>1 DEF PairInv, Fresh
<1>7. Resent(a, r)
  <2>1. \A k \in Data(q) : q[k].id = f.id => f.token =< q[k].token \/ f.token =< r + 1
    BY <1>2, <1>3 DEF PairInv, Single, Asks
  <2> SUFFICES ASSUME NEW k \in Data(a), NEW l \in Data(a), k < l, a[k].id = a[l].id
               PROVE  a[l].token =< a[k].token \/ a[l].token =< r + 1
    BY DEF Resent
  <2>2. k \in Data(q) /\ (l \in Data(q) \/ l = e)
    BY <1>1, <1>2
  <2>3. CASE l \in Data(q)
    BY <1>2, <2>2, <2>3 DEF PairInv, Resent
  <2>4. CASE l = e
    BY <1>1, <1>2, <2>1, <2>2, <2>4
  <2> QED
    BY <2>2, <2>3, <2>4
<1>8. Asks(S2, r) /\ Single(a, n, {}) /\ Spent(a, r, L, n, S2, {})
  BY DEF PairInv, Asks, Single, Spent
<1> QED
  BY <1>4, <1>5, <1>6, <1>7, <1>8 DEF PairInv, a

\* The head of the line passes the token check and is queued or, when the queue is full,
\* dropped.
LEMMA PairAccept ==
    ASSUME NEW q \in Seq(Frame), q # <<>>, NEW r \in Token, NEW L \in Seq(Nat), NEW n \in Nat,
           NEW S \in SUBSET Token, NEW P \in SUBSET Token, NEW L2 \in Seq(Nat),
           IsData(q[1]), q[1].token > r,
           L2 = L \/ L2 = Append(L, q[1].id),
           PairInv(q, r, L, n, S, P)
    PROVE  PairInv(Tail(q), q[1].token, L2, n, S, P)
<1> DEFINE b == Tail(q)
           h == q[1]
<1>1. /\ DOMAIN q = 1 .. Len(q) /\ Len(q) \in Nat /\ 1 \in DOMAIN q
      /\ \A k \in DOMAIN b : k + 1 \in DOMAIN q /\ b[k] = q[k + 1]
      /\ DOMAIN b = 1 .. Len(q) - 1
      /\ \A k \in DOMAIN q : q[k] \in Frame
      /\ DOMAIN L = 1 .. Len(L) /\ Len(L) \in Nat /\ \A i \in DOMAIN L : L[i] \in Nat
  BY TailFacts, LenProperties, ElementOfSeq
<1> HIDE DEF b
<1>2. /\ h \in Frame /\ h.id \in Nat /\ h.token \in Nat /\ r \in Nat /\ h.token >= r + 1
      /\ 1 \in Data(q)
  <2>1. h \in Frame /\ 1 \in Data(q)
    BY <1>1 DEF Data
  <2>2. h.id \in Nat /\ h.token \in Nat /\ r \in Nat
    BY <2>1, TokenNat DEF Frame
  <2> QED
    BY <2>1, <2>2
<1>3. \A k \in Data(b) : /\ k \in Nat /\ k > 0 /\ k + 1 \in Data(q) /\ b[k] = q[k + 1]
                         /\ b[k].id \in Nat /\ b[k].id >= h.id /\ b[k].id =< n
                         /\ b[k].token \in Nat
  <2> SUFFICES ASSUME NEW k \in Data(b)
               PROVE  /\ k \in Nat /\ k > 0 /\ k + 1 \in Data(q) /\ b[k] = q[k + 1]
                      /\ b[k].id \in Nat /\ b[k].id >= h.id /\ b[k].id =< n
                      /\ b[k].token \in Nat
    OBVIOUS
  <2>1. k \in Nat /\ k > 0 /\ k + 1 \in Data(q) /\ b[k] = q[k + 1] /\ b[k] \in Frame
    BY <1>1 DEF Data
  <2>2. b[k].id \in Nat /\ b[k].token \in Nat
    BY <2>1, TokenNat DEF Frame
  <2>3. h.id =< q[k + 1].id
    BY <1>2, <2>1 DEF PairInv, Ordered
  <2>4. q[k + 1].id =< n
    BY <2>1 DEF PairInv, Known
  <2> QED
    BY <1>2, <2>1, <2>2, <2>3, <2>4
<1>4. \A i \in DOMAIN L : L[i] < h.id
  BY <1>2 DEF PairInv, Fresh
<1>5. /\ \A i \in DOMAIN L2 : L2[i] \in Nat /\ L2[i] =< h.id
      /\ Increasing(L2)
  <2>1. CASE L2 = L
    BY <1>1, <1>2, <1>4, <2>1 DEF PairInv
  <2>2. CASE L2 = Append(L, h.id)
    <3>1. /\ DOMAIN L2 = 1 .. Len(L) + 1
          /\ \A i \in DOMAIN L : L2[i] = L[i]
          /\ L2[Len(L) + 1] = h.id
      BY <1>2, <2>2, AppendFacts, SMTT(30)
    <3>2. \A i \in DOMAIN L2 : /\ i \in Nat
                               /\ \/ i \in DOMAIN L /\ L2[i] = L[i]
                                  \/ i \notin DOMAIN L /\ L2[i] = h.id
                               /\ L2[i] \in Nat /\ L2[i] =< h.id
      <4> SUFFICES ASSUME NEW i \in DOMAIN L2
                   PROVE  /\ i \in Nat
                          /\ \/ i \in DOMAIN L /\ L2[i] = L[i]
                             \/ i \notin DOMAIN L /\ L2[i] = h.id
                          /\ L2[i] \in Nat /\ L2[i] =< h.id
        OBVIOUS
      <4>1. i \in 1 .. Len(L) + 1
        BY <3>1
      <4>2. CASE i = Len(L) + 1
        <5>1. i \in Nat /\ i \notin DOMAIN L
          BY <1>1, <4>2
        <5>2. L2[i] = h.id
          BY <3>1, <4>2
        <5> QED
          BY <1>2, <5>1, <5>2
      <4>3. CASE i \in DOMAIN L
        <5>1. L[i] \in Nat /\ L[i] < h.id
          BY <1>1, <1>4, <4>3
        <5> QED
          BY <1>1, <1>2, <3>1, <4>1, <4>3, <5>1, SMTT(30)
      <4> QED
        BY <1>1, <4>1, <4>2, <4>3
    <3>3. Increasing(L2)
      <4> SUFFICES ASSUME NEW i \in DOMAIN L2, NEW j \in DOMAIN L2, i < j
                   PROVE  L2[i] < L2[j]
        BY DEF Increasing
      <4>1. i \in DOMAIN L /\ L2[i] = L[i]
        BY <1>1, <3>1, SMTT(30)
      <4>2. CASE j \in DOMAIN L
        BY <3>1, <4>1, <4>2 DEF PairInv, Increasing
      <4>3. CASE j \notin DOMAIN L
        BY <1>4, <3>2, <4>1, <4>3
      <4> QED
        BY <4>2, <4>3
    <3> QED
      BY <3>2, <3>3
  <2> QED
    BY <2>1, <2>2
<1>6. h.id =< n
  BY <1>2 DEF PairInv, Known
<1>7. Known(b, L2, n)
  BY <1>2, <1>3, <1>5, <1>6 DEF Known
<1>8. Ordered(b)
  <2> SUFFICES ASSUME NEW k \in Data(b), NEW l \in Data(b), k < l
               PROVE  b[k].id =< b[l].id
    BY DEF Ordered
  <2>1. k + 1 \in Data(q) /\ l + 1 \in Data(q) /\ k + 1 < l + 1
    BY <1>3
  <2>2. q[k + 1].id =< q[l + 1].id
    BY <2>1 DEF PairInv, Ordered
  <2> QED
    BY <1>3, <2>2
<1>9. Fresh(b, h.token, L2)
  <2> SUFFICES ASSUME NEW k \in Data(b), NEW i \in DOMAIN L2, b[k].token > h.token
               PROVE  L2[i] < b[k].id
    BY DEF Fresh
  <2>1. k + 1 \in Data(q) /\ 1 < k + 1 /\ b[k] = q[k + 1]
    BY <1>3
  <2>2. h.id # b[k].id
    <3>1. h.id = q[k + 1].id => q[k + 1].token =< h.token \/ q[k + 1].token =< r + 1
      BY <1>2, <2>1 DEF PairInv, Resent
    <3> QED
      BY <1>2, <1>3, <2>1, <3>1, SMTT(30)
  <2>3. L2[i] \in Nat /\ L2[i] =< h.id
    BY <1>5
  <2>4. h.id \in Nat /\ b[k].id \in Nat /\ b[k].id >= h.id
    BY <1>2, <1>3
  <2>5. h.id < b[k].id
    BY <2>2, <2>4
  <2> QED
    BY <2>3, <2>4, <2>5
<1>10. Resent(b, h.token)
  <2> SUFFICES ASSUME NEW k \in Data(b), NEW l \in Data(b), k < l, b[k].id = b[l].id
               PROVE  b[l].token =< b[k].token \/ b[l].token =< h.token + 1
    BY DEF Resent
  <2>1. k + 1 \in Data(q) /\ l + 1 \in Data(q) /\ k + 1 < l + 1
    BY <1>3
  <2>2. q[l + 1].token =< q[k + 1].token \/ q[l + 1].token =< r + 1
    BY <1>3, <2>1 DEF PairInv, Resent
  <2>3. b[l].token = q[l + 1].token /\ b[k].token = q[k + 1].token /\ b[l].token \in Nat
    BY <1>3
  <2> QED
    BY <1>2, <2>2, <2>3
<1>11. Asks(S, h.token)
  <2> SUFFICES ASSUME NEW u \in S PROVE u =< h.token + 1
    BY DEF Asks
  <2>1. u \in Nat /\ u =< r + 1
    BY TokenNat DEF PairInv, Asks
  <2> QED
    BY <1>2, <2>1
<1>12. Single(b, n, P)
  <2> SUFFICES ASSUME NEW t \in P, NEW k \in Data(b), b[k].id = n
               PROVE  /\ b[k].token = t
                      /\ \A l \in Data(b) : b[l].id = n => k = l
    BY DEF Single
  <2>1. q[k + 1].token = t /\ \A l \in Data(q) : q[l].id = n => k + 1 = l
    BY <1>3 DEF PairInv, Single
  <2>2. ASSUME NEW l \in Data(b), b[l].id = n PROVE k = l
    <3>1. l + 1 \in Data(q) /\ q[l + 1].id = n /\ l \in Nat /\ k \in Nat
      BY <1>3, <2>2
    <3> QED
      BY <2>1, <3>1
  <2> QED
    BY <1>3, <2>1, <2>2
<1>13. Spent(b, h.token, L2, n, S, P)
  <2> SUFFICES ASSUME NEW t \in P, NEW i \in DOMAIN L2, L2[i] = n
               PROVE  Data(b) = {} /\ t =< h.token /\ \A u \in S : u =< h.token
    BY DEF Spent
  <2>1. h.id = n
    BY <1>2, <1>5, <1>6
  <2>2. h.token = t /\ \A l \in Data(q) : q[l].id = n => 1 = l
    BY <1>2, <2>1 DEF PairInv, Single
  <2>3. Data(b) = {}
    <3> SUFFICES ASSUME NEW k \in Data(b) PROVE FALSE
      OBVIOUS
    <3>1. k + 1 \in Data(q) /\ q[k + 1].id = n /\ 1 # k + 1
      BY <1>2, <1>3, <2>1, SMTT(30)
    <3> QED
      BY <2>2, <3>1
  <2>4. \A u \in S : u =< h.token
    BY <1>2, TokenNat DEF PairInv, Asks
  <2> QED
    BY <1>2, <2>2, <2>3, <2>4
<1> QED
  BY <1>5, <1>7, <1>8, <1>9, <1>10, <1>11, <1>12, <1>13 DEF PairInv, b
-----------------------------------------------------------------------------
(***************************************************************************)
(* The frames of the protocol and the tokens that are asked for.           *)
(***************************************************************************)

\* A damaged frame keeps all that the invariant looks at.
LEMMA CorruptedFacts ==
    ASSUME NEW f \in Frame
    PROVE  LET g == Corrupted(f) IN
           /\ g \in Frame
           /\ g.from = f.from /\ g.to = f.to /\ g.flags = f.flags
           /\ g.id = f.id /\ g.token = f.token
           /\ IsData(g) <=> IsData(f)
           /\ AnswerOK(g) <=> AnswerOK(f)
<1> DEFINE g == Corrupted(f)
<1>1. /\ g \in Frame
      /\ g.from = f.from /\ g.to = f.to /\ g.flags = f.flags
      /\ g.id = f.id /\ g.token = f.token
  BY DEF Corrupted, Frame
<1> HIDE DEF g
<1>2. (IsData(g) <=> IsData(f)) /\ (AnswerOK(g) <=> AnswerOK(f))
  BY <1>1 DEF IsData, AnswerOK, IsResponse
<1> QED
  BY <1>1, <1>2 DEF g

\* A transmission brings its line the frame, whole or damaged, or nothing.
LEMMA LineGains ==
    ASSUME TypeOK, NEW f \in Frame, Transmit(f)
    PROVE  Range(air'[f.from][f.to]) \subseteq
              Range(air[f.from][f.to]) \cup {f, Corrupted(f)}
<1> DEFINE q == air[f.from][f.to]
           r == air'[f.from][f.to]
<1>1. q \in Seq(Frame)
  BY DEF TypeOK, Frame
<1>2. r = q \/ \E g \in {f, Corrupted(f)} : r = Append(q, g)
  BY TransmitFacts
<1> HIDE DEF q, r
<1>3. ASSUME NEW g \in {f, Corrupted(f)}, r = Append(q, g)
      PROVE  Range(r) \subseteq Range(q) \cup {f, Corrupted(f)}
  <2>1. g \in Frame
    BY CorruptedFacts
  <2>2. Range(Append(q, g)) = Range(q) \cup {g}
    BY <1>1, <2>1, AppendFacts
  <2> QED
    BY <1>3, <2>2
<1>4. Range(r) \subseteq Range(q) \cup {f, Corrupted(f)}
  BY <1>2, <1>3
<1> QED
  BY <1>4 DEF q, r

\* The frame of a message asks for an acknowledgement and answers nothing.
LEMMA DataFrameFacts ==
    ASSUME NEW n \in Node, NEW d \in Node, NEW id \in Nat, NEW t \in Token
    PROVE  LET f == DataFrame(n, d, id, t) IN
           /\ f \in Frame /\ f.from = n /\ f.to = d /\ f.id = id /\ f.token = t
           /\ IsData(f) /\ "SYNC" \notin f.flags
  BY FrameTypes DEF DataFrame, IsData, IsResponse

\* The frames _listen sends are answers.
LEMMA ResponseFacts ==
    ASSUME NEW n, NEW d, NEW fl, NEW t,
           fl \in {{"RESEND"}, {"SYNC", "RESEND"}, {"ACK"}, {"ERROR"}}
    PROVE  LET f == Response(n, d, fl, t) IN
           /\ f.from = n /\ f.to = d /\ f.token = t /\ AnswerOK(f)
           /\ "SYNC" \in f.flags <=> fl = {"SYNC", "RESEND"}
  BY DEF Response, AnswerOK, IsResponse

\* What the invariant says of one pair, with the types of the values it relates.
LEMMA PairFacts ==
    ASSUME IInv, NEW d \in Node \ Rebooter, NEW s \in Node, s # d,
           NEW L \in {accepted[d][s], dropped[d][s]}
    PROVE  /\ d \in Node
           /\ air[s][d] \in Seq(Frame)
           /\ recv_tokens[d][s] \in Token
           /\ L \in Seq(Nat)
           /\ calls[s] \in Nat
           /\ Asked(d, s) \in SUBSET Token
           /\ Pending(s, d) \in SUBSET Token
           /\ PairInv(air[s][d], recv_tokens[d][s], L, calls[s], Asked(d, s), Pending(s, d))
<1>1. /\ d \in Node
      /\ air[s][d] \in Seq(Frame) /\ air[d][s] \in Seq(Frame)
      /\ replies[d] \in Seq(Frame) /\ response_queue[s] \in Seq(Frame)
      /\ recv_tokens[d][s] \in Token
      /\ accepted[d][s] \in Seq(Nat) /\ dropped[d][s] \in Seq(Nat)
      /\ calls[s] \in Nat
      /\ call[s] \in Call
  BY DEF IInv, TypeOK
<1>2. /\ \A f \in Range(air[d][s]) : f \in Frame
      /\ \A f \in Range(replies[d]) : f \in Frame
      /\ \A f \in Range(response_queue[s]) : f \in Frame
  BY <1>1, LenProperties, ElementOfSeq DEF Range
<1>3. Asked(d, s) \in SUBSET Token
  BY <1>2 DEF Asked, Frame
<1>4. Pending(s, d) \in SUBSET Token
  BY <1>1 DEF Pending, Call
<1> QED
  BY <1>1, <1>3, <1>4 DEF IInv, PairsOK, PairOK

\* Where the tokens that are asked for after a step come from: X holds the frames the
\* step has put somewhere.
LEMMA AskedFrom ==
    ASSUME NEW d, NEW s, NEW X,
           Range(air'[d][s]) \subseteq
               Range(air[d][s]) \cup Range(replies[d]) \cup Range(response_queue[s]) \cup X,
           Range(replies'[d]) \subseteq
               Range(air[d][s]) \cup Range(replies[d]) \cup Range(response_queue[s]) \cup X,
           Range(response_queue'[s]) \subseteq
               Range(air[d][s]) \cup Range(replies[d]) \cup Range(response_queue[s]) \cup X
    PROVE  \A t \in Asked(d, s)' :
              \/ t \in Asked(d, s)
              \/ \E f \in X : f.from = d /\ f.to = s /\ "SYNC" \in f.flags /\ t = f.token
<1> SUFFICES ASSUME NEW t \in Asked(d, s)'
             PROVE  \/ t \in Asked(d, s)
                    \/ \E f \in X : f.from = d /\ f.to = s /\ "SYNC" \in f.flags /\ t = f.token
  OBVIOUS
<1>1. PICK f \in Range(air'[d][s]) \cup Range(replies'[d]) \cup Range(response_queue'[s]) :
         f.from = d /\ f.to = s /\ "SYNC" \in f.flags /\ t = f.token
  BY DEF Asked
<1>2. \/ f \in Range(air[d][s]) \cup Range(replies[d]) \cup Range(response_queue[s])
      \/ f \in X
  BY <1>1
<1> QED
  BY <1>1, <1>2 DEF Asked

\* Frames that only get lost or move along ask for nothing new.
LEMMA AskedShrinks ==
    ASSUME NEW d, NEW s,
           Range(air'[d][s]) \subseteq
               Range(air[d][s]) \cup Range(replies[d]) \cup Range(response_queue[s]),
           Range(replies'[d]) \subseteq
               Range(air[d][s]) \cup Range(replies[d]) \cup Range(response_queue[s]),
           Range(response_queue'[s]) \subseteq
               Range(air[d][s]) \cup Range(replies[d]) \cup Range(response_queue[s])
    PROVE  Asked(d, s)' \subseteq Asked(d, s)
  BY DEF Asked

\* When a device transmits, what is newly asked for is on the line.
LEMMA AskedSent ==
    ASSUME NEW d, NEW s,
           Range(replies'[d]) \subseteq Range(replies[d]),
           Range(response_queue'[s]) \subseteq Range(response_queue[s])
    PROVE  \A t \in Asked(d, s)' :
              \/ t \in Asked(d, s)
              \/ \E g \in Range(air'[d][s]) :
                    g.from = d /\ g.to = s /\ "SYNC" \in g.flags /\ t = g.token
  BY DEF Asked

\* Everything in a queue satisfies what all its elements do.
LEMMA FramesOfLine ==
    ASSUME IInv, NEW s \in Node, NEW d \in Node, NEW f \in Range(air[s][d])
    PROVE  f.from = s /\ f.to = d /\ (IsData(f) \/ AnswerOK(f))
  BY DEF IInv, FramesOK, LineOK

\* The answers that wait to be sent come from the device that holds them.
LEMMA FramesOfReplies ==
    ASSUME IInv, NEW n \in Node, NEW f \in Range(replies[n])
    PROVE  f.from = n /\ f.to # n /\ AnswerOK(f)
  BY DEF IInv, FramesOK, ReplyOK

\* The answers in response_queue were sent to the device that holds them.
LEMMA FramesOfQueue ==
    ASSUME IInv, NEW n \in Node, NEW f \in Range(response_queue[n])
    PROVE  f.to = n /\ f.from # n /\ AnswerOK(f)
  BY DEF IInv, FramesOK, QueuedOK

\* A pair whose line, counter and history a step leaves alone.
LEMMA PairUntouched ==
    ASSUME IInv, NEW d \in Node \ Rebooter, NEW s \in Node, s # d,
           air'[s][d] = air[s][d], recv_tokens'[d][s] = recv_tokens[d][s],
           accepted'[d][s] = accepted[d][s], dropped'[d][s] = dropped[d][s],
           calls'[s] = calls[s],
           Asked(d, s)' \subseteq Asked(d, s), Pending(s, d)' \subseteq Pending(s, d)
    PROVE  PairOK(s, d)'
<1> SUFFICES ASSUME NEW L \in {accepted[d][s], dropped[d][s]}
             PROVE  PairInv(air[s][d], recv_tokens[d][s], L, calls[s],
                            Asked(d, s)', Pending(s, d)')
  BY DEF PairOK
<1>1. PairInv(air[s][d], recv_tokens[d][s], L, calls[s], Asked(d, s), Pending(s, d))
  BY PairFacts
<1> QED
  BY <1>1, PairKeep

\* A pair whose messages a step neither queues nor drops.
LEMMA PairSuffices ==
    ASSUME NEW d, NEW s, UNCHANGED <<accepted, dropped>>,
           \A L \in {accepted[d][s], dropped[d][s]} :
              PairInv(air'[s][d], recv_tokens'[d][s], L, calls'[s],
                      Asked(d, s)', Pending(s, d)')
    PROVE  PairOK(s, d)'
  BY DEF PairOK

\* send_with_ack: the pair of caller and destination gets a new call, the other pairs of
\* the caller a larger number of calls.
LEMMA PairsSend ==
    ASSUME IInv, NEW n \in Node, NEW e \in Node, SendWithAck(n, e),
           NEW d \in Node \ Rebooter, NEW s \in Node, s # d
    PROVE  PairOK(s, d)'
<1>0. UNCHANGED <<accepted, dropped>>
  BY DEF SendWithAck
<1> SUFFICES ASSUME NEW L \in {accepted[d][s], dropped[d][s]}
             PROVE  PairInv(air'[s][d], recv_tokens'[d][s], L, calls'[s],
                            Asked(d, s)', Pending(s, d)')
  BY <1>0, PairSuffices
<1> DEFINE token == NextToken(send_tokens[n][e])
           id == calls[n] + 1
           f == DataFrame(n, e, id, token)
           q == air[s][d]
           r == recv_tokens[d][s]
           S == Asked(d, s)
           P == Pending(s, d)
<1>1. /\ q \in Seq(Frame) /\ r \in Token /\ L \in Seq(Nat) /\ calls[s] \in Nat
      /\ S \in SUBSET Token /\ P \in SUBSET Token
      /\ PairInv(q, r, L, calls[s], S, P)
      /\ d \in Node
  BY PairFacts
<1>2. token \in Token /\ id \in Nat /\ TypeOK
  <2>1. send_tokens \in [Node -> [Node -> Token]] /\ calls \in [Node -> Nat] /\ TypeOK
    BY DEF IInv, TypeOK
  <2> QED
    BY <2>1, NextTokenType
<1>3. /\ f \in Frame /\ f.from = n /\ f.to = e /\ f.id = id /\ f.token = token
      /\ IsData(f) /\ "SYNC" \notin f.flags
  BY <1>2, DataFrameFacts
<1>4. Transmit(f) /\ n # e
  BY DEF SendWithAck
<1> HIDE DEF f
<1>5. /\ \A m, x \in Node : m # n \/ x # e => air'[m][x] = air[m][x]
      /\ \/ air'[n][e] = air[n][e]
         \/ \E g \in {f, Corrupted(f)} : air'[n][e] = Append(air[n][e], g)
  BY <1>2, <1>3, <1>4, TransmitFacts, ZenonT(30)
<1>6. /\ calls'[n] = id /\ \A m \in Node \ {n} : calls'[m] = calls[m]
      /\ call'[n].dest = e /\ call'[n].token = token
      /\ \A m \in Node \ {n} : call'[m] = call[m]
      /\ UNCHANGED <<recv_tokens, replies, response_queue, accepted>>
  BY <1>2 DEF SendWithAck, TypeOK, queueVars
<1>7. Asked(d, s)' \subseteq S
  <2>1. CASE d = n /\ s = e
    <3>1. PICK X \in SUBSET {f, Corrupted(f)} :
             Range(air'[d][s]) \subseteq Range(air[d][s]) \cup X
      <4>1. Range(air'[f.from][f.to]) \subseteq Range(air[f.from][f.to]) \cup {f, Corrupted(f)}
        BY <1>2, <1>3, <1>4, LineGains
      <4> QED
        BY <1>3, <2>1, <4>1
    <3>2. \A g \in X : "SYNC" \notin g.flags
      BY <1>3, CorruptedFacts
    <3> QED
      <4>1. /\ Range(replies'[d]) \subseteq Range(replies[d])
            /\ Range(response_queue'[s]) \subseteq Range(response_queue[s])
        BY <1>6
      <4>2. \A t \in Asked(d, s)' :
               t \in S \/ \E g \in X : "SYNC" \in g.flags
        BY <3>1, <4>1, AskedFrom
      <4> QED
        BY <3>2, <4>2
  <2>2. CASE ~ (d = n /\ s = e)
    <3>1. air'[d][s] = air[d][s]
      BY <1>1, <1>5, <2>2
    <3> QED
      BY <1>6, <3>1 DEF Asked
  <2> QED
    BY <2>1, <2>2
<1>8. CASE s = n /\ d = e
  <2>1. Pending(s, d)' \subseteq {token}
    BY <1>6, <1>8 DEF Pending
  <2>2. PairInv(q, r, L, id, S, Pending(s, d)')
    BY <1>1, <1>8, PairNewCall
  <2>3. ASSUME NEW g \in {f, Corrupted(f)}, air'[n][e] = Append(air[n][e], g)
        PROVE  PairInv(Append(q, g), r, L, id, S, Pending(s, d)')
    <3>1. g \in Frame /\ IsData(g) /\ g.id = calls[s] + 1 /\ g.token = token
      BY <1>3, <1>8, CorruptedFacts
    <3> QED
      BY <1>1, <1>8, <2>1, <3>1, PairSend
  <2>4. PairInv(air'[s][d], r, L, id, S, Pending(s, d)')
    BY <1>5, <1>8, <2>2, <2>3
  <2>5. PairInv(air'[s][d], r, L, id, Asked(d, s)', Pending(s, d)')
    BY <1>7, <2>4, PairKeep
  <2> QED
    BY <1>6, <1>8, <2>5
<1>9. CASE s = n /\ d # e
  <2>1. air'[s][d] = q
    BY <1>1, <1>5, <1>9
  <2>2. PairInv(q, r, L, id, S, Pending(s, d)')
    BY <1>1, <1>9, PairNewCall
  <2>3. PairInv(q, r, L, id, Asked(d, s)', Pending(s, d)')
    BY <1>7, <2>2, PairKeep
  <2> QED
    BY <1>6, <1>9, <2>1, <2>3
<1>10. CASE s # n
  <2>1. air'[s][d] = q /\ calls'[s] = calls[s] /\ call'[s] = call[s]
    BY <1>1, <1>5, <1>6, <1>10
  <2>2. Pending(s, d)' = P
    BY <2>1 DEF Pending, Waiting
  <2> QED
    BY <1>0, <1>1, <1>6, <1>7, <2>1, <2>2, PairKeep
<1> QED
  BY <1>8, <1>9, <1>10

\* Reading answers shrinks what is asked for.
LEMMA AskedPoll ==
    ASSUME IInv, NEW n \in Node, Poll(n),
           NEW d \in Node, NEW s \in Node,
           Range(air'[d][s]) \subseteq Range(air[d][s])
    PROVE  Asked(d, s)' \subseteq Asked(d, s)
<1>1. /\ response_queue[n] \in Seq(Frame) /\ response_queue[n] # <<>>
      /\ response_queue'[n] = Tail(response_queue[n])
      /\ \A m \in Node \ {n} : response_queue'[m] = response_queue[m]
  BY PollFacts DEF IInv
<1>2. Range(response_queue'[s]) \subseteq Range(response_queue[s])
  BY <1>1, TailFacts
<1>3. replies' = replies
  BY DEF Poll
<1> QED
  BY <1>2, <1>3, AskedShrinks

\* The poll actions, but for the one that resends.
LEMMA PairsPoll ==
    ASSUME IInv, NEW n \in Node,
           GotForeign(n) \/ GotAck(n) \/ GotError(n) \/ GotLateRequest(n),
           NEW d \in Node \ Rebooter, NEW s \in Node, s # d
    PROVE  PairOK(s, d)'
<1>1. Poll(n) /\ air' = air
  BY DEF GotForeign, GotAck, GotError, GotLateRequest, GotRequest
<1>2. /\ d \in Node /\ UNCHANGED <<recv_tokens, accepted, dropped, calls>>
  BY <1>1 DEF Poll
<1>3. Asked(d, s)' \subseteq Asked(d, s)
  BY <1>1, <1>2, AskedPoll
<1>4. Pending(s, d)' \subseteq Pending(s, d)
  <2>1. call \in [Node -> Call]
    BY DEF IInv, TypeOK
  <2>2. CASE GotForeign(n)
    BY <2>2 DEF GotForeign, Pending, Waiting
  <2>3. CASE GotAck(n) \/ GotError(n)
    <3>1. call'[n].phase # "waiting" /\ \A m \in Node \ {n} : call'[m] = call[m]
      BY <2>1, <2>3 DEF GotAck, GotError, Return, Call
    <3> QED
      BY <3>1 DEF Pending, Waiting
  <2>4. CASE GotLateRequest(n)
    <3>1. Polled(n) \in Range(response_queue[n])
      <4>1. response_queue[n] \in Seq(Frame) /\ response_queue[n] # <<>>
        BY <1>1, PollFacts DEF IInv
      <4> QED
        BY <4>1, TailFacts DEF Polled
    <3>2. "SYNC" \in Polled(n).flags => "RESEND" \in Polled(n).flags
      BY <3>1, FramesOfQueue DEF AnswerOK
    <3>3. call[n].allow_resend => SwappedToken(n) = call[n].token
      BY <2>4, <3>2 DEF GotLateRequest, SwappedToken
    <3>4. call' = [call EXCEPT ![n].token = SwappedToken(n)]
      BY <2>4 DEF GotLateRequest
    <3>5. /\ call'[s].phase = call[s].phase /\ call'[s].dest = call[s].dest
          /\ call'[s].allow_resend = call[s].allow_resend
          /\ call[s].allow_resend => call'[s].token = call[s].token
      BY <2>1, <3>3, <3>4 DEF Call
    <3> QED
      BY <3>5 DEF Pending, Waiting
  <2> QED
    BY <2>2, <2>3, <2>4
<1> QED
  BY <1>1, <1>2, <1>3, <1>4, PairUntouched

\* The nested _send: the message goes out again, with its token or the one asked for.
LEMMA PairsResend ==
    ASSUME IInv, NEW n \in Node, GotResend(n),
           NEW d \in Node \ Rebooter, NEW s \in Node, s # d
    PROVE  PairOK(s, d)'
<1>0. UNCHANGED <<accepted, dropped>>
  BY DEF GotResend, GotRequest, Poll
<1> SUFFICES ASSUME NEW L \in {accepted[d][s], dropped[d][s]}
             PROVE  PairInv(air'[s][d], recv_tokens'[d][s], L, calls'[s],
                            Asked(d, s)', Pending(s, d)')
  BY <1>0, PairSuffices
<1> DEFINE e == call[n].dest
           f == DataFrame(n, e, call[n].id, SwappedToken(n))
           q == air[s][d]
           r == recv_tokens[d][s]
           S == Asked(d, s)
           P == Pending(s, d)
<1>1. /\ q \in Seq(Frame) /\ r \in Token /\ L \in Seq(Nat) /\ calls[s] \in Nat
      /\ S \in SUBSET Token /\ P \in SUBSET Token
      /\ PairInv(q, r, L, calls[s], S, P)
      /\ d \in Node
  BY PairFacts
<1>2. /\ GotRequest(n) /\ Poll(n) /\ FromPeer(n) /\ Waiting(n) /\ call[n].allow_resend
      /\ Transmit(f)
      /\ call' = [call EXCEPT ![n].token = SwappedToken(n),
                              ![n].allow_resend = FALSE, ![n].left = RESPONSE_TIMEOUT]
      /\ UNCHANGED <<recv_tokens, accepted, calls>>
  BY DEF GotResend, GotRequest, Poll
<1>3. /\ TypeOK /\ call \in [Node -> Call] /\ e \in Node /\ e # n
      /\ call[n].id = calls[n] /\ call[n].id \in Nat
      /\ SwappedToken(n) \in Token
  <2>1. TypeOK
    BY DEF IInv
  <2>2. call \in [Node -> Call]
    BY <2>1 DEF TypeOK
  <2>3. e \in Node /\ call[n].id \in Nat
    BY <2>2 DEF Call
  <2>4. SwappedToken(n) \in Token
    BY <1>2, <2>1, SwapFacts
  <2> QED
    BY <1>2, <2>1, <2>2, <2>3, <2>4 DEF IInv, CallsOK
<1>4. /\ f \in Frame /\ f.from = n /\ f.to = e /\ f.id = calls[n]
      /\ f.token = SwappedToken(n) /\ IsData(f) /\ "SYNC" \notin f.flags
  BY <1>3, DataFrameFacts
<1> HIDE DEF f
<1>5. /\ \A m, x \in Node : m # n \/ x # e => air'[m][x] = air[m][x]
      /\ \/ air'[n][e] = air[n][e]
         \/ \E g \in {f, Corrupted(f)} : air'[n][e] = Append(air[n][e], g)
  <2>1. /\ \A m, x \in Node : m # f.from \/ x # f.to => air'[m][x] = air[m][x]
        /\ \/ air'[f.from][f.to] = air[f.from][f.to]
           \/ \E g \in {f, Corrupted(f)} :
                 air'[f.from][f.to] = Append(air[f.from][f.to], g)
    BY <1>2, <1>3, <1>4, TransmitFacts DEF f
  <2> QED
    BY <1>4, <2>1
<1>6. Asked(d, s)' \subseteq S
  <2>1. replies' = replies /\ Range(response_queue'[s]) \subseteq Range(response_queue[s])
    <3>1. /\ response_queue[n] \in Seq(Frame) /\ response_queue[n] # <<>>
          /\ response_queue'[n] = Tail(response_queue[n])
          /\ \A m \in Node \ {n} : response_queue'[m] = response_queue[m]
      BY <1>2, <1>3, PollFacts
    <3> QED
      BY <1>2, <3>1, TailFacts DEF Poll
  <2>2. PICK X \in SUBSET {f, Corrupted(f)} :
           Range(air'[d][s]) \subseteq Range(air[d][s]) \cup X
    <3>1. CASE d = n /\ s = e
      <4>1. Range(air'[f.from][f.to]) \subseteq Range(air[f.from][f.to]) \cup {f, Corrupted(f)}
        BY <1>2, <1>3, <1>4, LineGains DEF f
      <4> QED
        BY <1>4, <3>1, <4>1
    <3>2. CASE ~ (d = n /\ s = e)
      <4>1. air'[d][s] = air[d][s]
        BY <1>1, <1>5, <3>2
      <4> QED
        BY <4>1
    <3> QED
      BY <3>1, <3>2
  <2>3. \A g \in X : "SYNC" \notin g.flags
    BY <1>4, CorruptedFacts
  <2> QED
    BY <2>1, <2>2, <2>3, AskedFrom
<1>7. Pending(s, d)' \subseteq P
  BY <1>2, <1>3 DEF Pending, Waiting, Call
<1>8. CASE s = n /\ d = e
  <2>1. call[n].token \in P
    BY <1>2, <1>8 DEF Pending
  <2>2. Pending(s, d)' = {}
    BY <1>2, <1>3, <1>8 DEF Pending, Waiting
  <2>3. SwappedToken(n) = call[n].token \/ SwappedToken(n) \in S
    <3>1. Polled(n) \in Range(response_queue[n])
      <4>1. response_queue[n] \in Seq(Frame) /\ response_queue[n] # <<>>
        BY <1>2, <1>3, PollFacts
      <4> QED
        BY <4>1, TailFacts DEF Polled
    <3>2. Polled(n).from = d /\ Polled(n).to = s
      BY <1>2, <1>8, <3>1, FramesOfQueue DEF FromPeer
    <3>3. "SYNC" \in Polled(n).flags => Polled(n).token \in S
      BY <1>8, <3>1, <3>2 DEF Asked
    <3> QED
      BY <3>3 DEF SwappedToken
  <2>4. ASSUME NEW g \in {f, Corrupted(f)}, air'[n][e] = Append(air[n][e], g)
        PROVE  PairInv(Append(q, g), r, L, calls[s], S, {})
    <3>1. g \in Frame /\ IsData(g) /\ g.id = calls[s] /\ g.token = SwappedToken(n)
      BY <1>4, <1>8, CorruptedFacts
    <3> QED
      BY <1>1, <2>1, <2>3, <3>1, PairResend
  <2>5. PairInv(q, r, L, calls[s], S, {})
    BY <1>1, PairKeep
  <2>6. PairInv(air'[s][d], r, L, calls[s], S, {})
    BY <1>5, <1>8, <2>4, <2>5
  <2>7. PairInv(air'[s][d], r, L, calls[s], Asked(d, s)', Pending(s, d)')
    BY <1>6, <2>2, <2>6, PairKeep
  <2> QED
    BY <1>2, <2>7
<1>9. CASE ~ (s = n /\ d = e)
  <2>1. air'[s][d] = q
    BY <1>1, <1>5, <1>9
  <2> QED
    BY <1>1, <1>2, <1>6, <1>7, <2>1, PairKeep
<1> QED
  BY <1>8, <1>9

\* The clock, the timeout and try_receive.
LEMMA PairsUser ==
    ASSUME IInv, NEW n \in Node, Tick(n) \/ ResponseTimeout(n) \/ TryReceive(n),
           NEW d \in Node \ Rebooter, NEW s \in Node, s # d
    PROVE  PairOK(s, d)'
<1>1. UNCHANGED <<recv_tokens, response_queue, replies, air, accepted, dropped, calls>>
  BY DEF Tick, ResponseTimeout, TryReceive, tokenVars, queueVars, history
<1>2. Asked(d, s)' = Asked(d, s)
  BY <1>1 DEF Asked
<1>3. Pending(s, d)' \subseteq Pending(s, d)
  <2>1. call \in [Node -> Call]
    BY DEF IInv, TypeOK
  <2>2. CASE Tick(n)
    BY <2>1, <2>2 DEF Tick, Pending, Waiting, Call
  <2>3. CASE ResponseTimeout(n)
    BY <2>1, <2>3 DEF ResponseTimeout, Return, Pending, Waiting
  <2>4. CASE TryReceive(n)
    BY <2>4 DEF TryReceive, Pending, Waiting
  <2> QED
    BY <2>2, <2>3, <2>4
<1> QED
  BY <1>1, <1>2, <1>3, PairUntouched

\* The listener of n takes a frame of m off the air and may queue it and decide on
\* answers: only the pair (m, n) loses a frame, and only what the answers ask for is new.
LEMMA AskedListen ==
    ASSUME IInv, NEW n \in Node, NEW m \in Node, Arriving(n, m), TakeFrame(n, m),
           NEW d \in Node, NEW s \in Node,
           \A x \in Node \ {n} : replies'[x] = replies[x],
           \A x \in Node \ {n} : response_queue'[x] = response_queue[x],
           Range(response_queue'[n]) \subseteq Range(response_queue[n]) \cup {Arrived(n, m)}
    PROVE  /\ \A t \in Asked(d, s)' :
                 \/ t \in Asked(d, s)
                 \/ \E f \in Range(replies'[n]) :
                       f.from = d /\ f.to = s /\ "SYNC" \in f.flags /\ t = f.token
           /\ air'[m][n] = Tail(air[m][n])
           /\ air[m][n] # <<>> /\ Arrived(n, m) = air[m][n][1]
           /\ Arrived(n, m) \in Range(air[m][n])
           /\ \A x, y \in Node : x # m \/ y # n => air'[x][y] = air[x][y]
<1>1. /\ air'[m][n] = Tail(air[m][n])
      /\ air[m][n] \in Seq(Frame) /\ air[m][n] # <<>>
      /\ \A x, y \in Node : x # m \/ y # n => air'[x][y] = air[x][y]
  BY ArrivingFacts DEF IInv
<1>2. /\ Range(air'[m][n]) \subseteq Range(air[m][n])
      /\ Arrived(n, m) \in Range(air[m][n]) /\ Arrived(n, m) = air[m][n][1]
  BY <1>1, TailFacts DEF Arrived
<1>3. Range(air'[d][s]) \subseteq Range(air[d][s])
  BY <1>1, <1>2
<1>4. Arrived(n, m).from = m
  BY <1>2, FramesOfLine
<1>5. SUFFICES ASSUME NEW t \in Asked(d, s)'
               PROVE  \/ t \in Asked(d, s)
                      \/ \E f \in Range(replies'[n]) :
                            f.from = d /\ f.to = s /\ "SYNC" \in f.flags /\ t = f.token
  BY <1>1, <1>2
<1>6. PICK f \in Range(air'[d][s]) \cup Range(replies'[d]) \cup Range(response_queue'[s]) :
         f.from = d /\ f.to = s /\ "SYNC" \in f.flags /\ t = f.token
  BY DEF Asked
<1>7. \/ f \in Range(air[d][s]) \cup Range(replies[d]) \cup Range(response_queue[s])
      \/ d = n /\ f \in Range(replies'[n])
      \/ s = n /\ f = Arrived(n, m)
  BY <1>3, <1>6
<1>8. CASE s = n /\ f = Arrived(n, m)
  BY <1>2, <1>4, <1>6, <1>8 DEF Asked
<1> QED
  BY <1>6, <1>7, <1>8 DEF Asked

\* A frame is read and no token is accepted: a damaged frame, an answer, or a message
\* with a bad token, whose sender is told the next one.
LEMMA PairsRefuse ==
    ASSUME IInv, NEW n \in Node, NEW m \in Node,
           ListenBadCrc(n, m) \/ ListenResponse(n, m) \/ ListenBadToken(n, m),
           NEW d \in Node \ Rebooter, NEW s \in Node, s # d
    PROVE  PairOK(s, d)'
<1>0. UNCHANGED <<accepted, dropped>>
  BY DEF ListenBadCrc, ListenResponse, ListenBadToken, history
<1> SUFFICES ASSUME NEW L \in {accepted[d][s], dropped[d][s]}
             PROVE  PairInv(air'[s][d], recv_tokens'[d][s], L, calls'[s],
                            Asked(d, s)', Pending(s, d)')
  BY <1>0, PairSuffices
<1> DEFINE q == air[s][d]
           r == recv_tokens[d][s]
           S == Asked(d, s)
           P == Pending(s, d)
           sync == Response(n, m, {"SYNC", "RESEND"}, NextToken(recv_tokens[n][m]))
           resend == Response(n, m, {"RESEND"}, 0)
<1>1. /\ q \in Seq(Frame) /\ r \in Token /\ L \in Seq(Nat) /\ calls[s] \in Nat
      /\ S \in SUBSET Token /\ P \in SUBSET Token
      /\ PairInv(q, r, L, calls[s], S, P)
      /\ d \in Node
  BY PairFacts
<1>2. /\ Arriving(n, m) /\ TakeFrame(n, m) /\ replies[n] = <<>>
      /\ UNCHANGED <<recv_tokens, accepted, calls, call>>
  BY DEF ListenBadCrc, ListenResponse, ListenBadToken, NewMessage, Arriving, tokenVars, history
<1>3. TypeOK /\ replies \in [Node -> Seq(Frame)] /\ response_queue \in [Node -> Seq(Frame)]
  BY DEF IInv, TypeOK
<1>4. recv_tokens[n][m] \in Token /\ NextToken(recv_tokens[n][m]) =< recv_tokens[n][m] + 1
  <2>1. recv_tokens \in [Node -> [Node -> Token]]
    BY <1>3 DEF TypeOK
  <2> QED
    BY <2>1, NextTokenType
<1>5. /\ sync.from = n /\ sync.to = m /\ sync.token = NextToken(recv_tokens[n][m])
      /\ "SYNC" \notin resend.flags
  BY ResponseFacts
<1>6. PICK X \in SUBSET {sync, resend} :
         /\ \A x \in Node \ {n} : replies'[x] = replies[x]
         /\ \A x \in Node \ {n} : response_queue'[x] = response_queue[x]
         /\ Range(replies'[n]) \subseteq X
         /\ Range(response_queue'[n]) \subseteq Range(response_queue[n]) \cup {Arrived(n, m)}
         /\ sync \in X => IsData(Arrived(n, m))
  <2>1. CASE ListenBadCrc(n, m)
    <3>1. replies' = [replies EXCEPT ![n] = <<resend>>] /\ response_queue' = response_queue
      BY <2>1 DEF ListenBadCrc, Reply, queueVars
    <3>2. Range(<<resend>>) = {resend}
      BY DEF Range
    <3>3. sync # resend
      BY <1>5, ResponseFacts
    <3> QED
      BY <1>3, <3>1, <3>2, <3>3
  <2>2. CASE ListenResponse(n, m)
    <3>1. Arrived(n, m) \in Frame
      BY <1>2, <1>3, ArrivingFacts
    <3>2. Range(Append(response_queue[n], Arrived(n, m))) =
             Range(response_queue[n]) \cup {Arrived(n, m)}
      BY <1>3, <3>1, AppendFacts
    <3>3. /\ replies' = replies
          /\ \/ response_queue' = response_queue
             \/ response_queue' = [response_queue EXCEPT ![n] = Append(@, Arrived(n, m))]
      BY <2>2 DEF ListenResponse
    <3>4. Range(replies'[n]) = {}
      BY <1>2, <3>3 DEF Range
    <3> QED
      BY <1>3, <3>2, <3>3, <3>4
  <2>3. CASE ListenBadToken(n, m)
    <3>1. /\ replies' = [replies EXCEPT ![n] = <<sync>>] /\ response_queue' = response_queue
          /\ IsData(Arrived(n, m))
      BY <2>3 DEF ListenBadToken, NewMessage, Reply, queueVars
    <3>2. Range(<<sync>>) = {sync}
      BY DEF Range
    <3> QED
      BY <1>3, <3>1, <3>2
  <2> QED
    BY <2>1, <2>2, <2>3
<1> HIDE DEF sync, resend
<1>7. /\ \A t \in Asked(d, s)' :
            \/ t \in S
            \/ \E f \in X : f.from = d /\ f.to = s /\ "SYNC" \in f.flags /\ t = f.token
      /\ air'[m][n] = Tail(air[m][n])
      /\ air[m][n] # <<>> /\ Arrived(n, m) = air[m][n][1]
      /\ \A x, y \in Node : x # m \/ y # n => air'[x][y] = air[x][y]
  <2>1. /\ d \in Node /\ Arriving(n, m) /\ TakeFrame(n, m)
        /\ \A x \in Node \ {n} : replies'[x] = replies[x]
        /\ \A x \in Node \ {n} : response_queue'[x] = response_queue[x]
        /\ Range(response_queue'[n]) \subseteq Range(response_queue[n]) \cup {Arrived(n, m)}
    BY <1>1, <1>2, <1>6
  <2>2. \A t \in Asked(d, s)' :
            \/ t \in Asked(d, s)
            \/ \E f \in Range(replies'[n]) :
                  f.from = d /\ f.to = s /\ "SYNC" \in f.flags /\ t = f.token
    BY <2>1, AskedListen
  <2>3. /\ air'[m][n] = Tail(air[m][n])
        /\ air[m][n] # <<>> /\ Arrived(n, m) = air[m][n][1]
        /\ \A x, y \in Node : x # m \/ y # n => air'[x][y] = air[x][y]
    BY <2>1, AskedListen
  <2> QED
    BY <1>6, <2>2, <2>3
<1>8. \A t \in Asked(d, s)' :
         \/ t \in S
         \/ d = n /\ s = m /\ IsData(Arrived(n, m)) /\ t = NextToken(recv_tokens[n][m])
  BY <1>5, <1>6, <1>7
<1>9. Asked(d, s)' \in SUBSET Token
  BY <1>1, <1>4, <1>8, NextTokenType
<1>10. Pending(s, d)' = P
  BY <1>2 DEF Pending, Waiting
<1>11. CASE s = m /\ d = n
  <2>1. \A t \in Asked(d, s)' : t \in S \/ (IsData(q[1]) /\ t =< r + 1)
    BY <1>4, <1>7, <1>8, <1>11
  <2>2. q # <<>> /\ air'[s][d] = Tail(q)
    BY <1>7, <1>11
  <2>3. PairInv(Tail(q), r, L, calls[s], Asked(d, s)', P)
    BY <1>1, <1>9, <2>1, <2>2, PairShrink
  <2> QED
    BY <1>2, <1>10, <2>2, <2>3
<1>12. CASE ~ (s = m /\ d = n)
  <2>1. Asked(d, s)' \subseteq S /\ air'[s][d] = q
    BY <1>1, <1>7, <1>8, <1>12
  <2> QED
    BY <1>1, <1>2, <1>10, <2>1, PairKeep
<1> QED
  BY <1>11, <1>12

\* A message passes the token check; it is queued, or dropped when the queue is full.
LEMMA PairsAccept ==
    ASSUME IInv, NEW n \in Node, NEW m \in Node,
           ListenNewMsg(n, m) \/ ListenQueueFull(n, m),
           NEW d \in Node \ Rebooter, NEW s \in Node, s # d
    PROVE  PairOK(s, d)'
<1> DEFINE q == air[s][d]
           r == recv_tokens[d][s]
           S == Asked(d, s)
           P == Pending(s, d)
           a == Arrived(n, m)
<1>1. /\ q \in Seq(Frame) /\ r \in Token /\ calls[s] \in Nat
      /\ S \in SUBSET Token /\ P \in SUBSET Token
      /\ \A L \in {accepted[d][s], dropped[d][s]} :
            L \in Seq(Nat) /\ PairInv(q, r, L, calls[s], S, P)
      /\ d \in Node
  BY PairFacts
<1>2. /\ AcceptToken(n, m) /\ NewMessage(n, m) /\ Arriving(n, m) /\ TakeFrame(n, m)
      /\ IsData(a) /\ ValidToken(a.token, recv_tokens[n][m])
      /\ recv_tokens' = [recv_tokens EXCEPT ![n][m] = a.token]
      /\ UNCHANGED <<calls, call, response_queue>>
      /\ \/ /\ accepted' = [accepted EXCEPT ![n][m] = Append(@, a.id)]
            /\ dropped' = dropped
         \/ /\ accepted' = accepted
            /\ dropped' = [dropped EXCEPT ![n][m] = Append(@, a.id)]
  BY DEF ListenNewMsg, ListenQueueFull, AcceptToken, NewMessage
<1>3. /\ TypeOK /\ replies \in [Node -> Seq(Frame)] /\ accepted \in [Node -> [Node -> Seq(Nat)]]
      /\ recv_tokens \in [Node -> [Node -> Token]] /\ dropped \in [Node -> [Node -> Seq(Nat)]]
  BY DEF IInv, TypeOK
<1>4. a \in Frame /\ a.id \in Nat /\ a.token \in Token
  <2>1. a \in Frame
    BY <1>2, <1>3, ArrivingFacts
  <2> QED
    BY <2>1 DEF Frame
<1>5. a.token > recv_tokens[n][m]
  <2>1. recv_tokens[n][m] \in Token
    BY <1>3
  <2> QED
    BY <1>2, <1>4, <2>1, ValidTokenGrows
<1>6. /\ \A x \in Node \ {n} : replies'[x] = replies[x]
      /\ \A f \in Range(replies'[n]) : "SYNC" \notin f.flags
  <2> DEFINE ack == Response(n, m, {"ACK"}, 0)
             error == Response(n, m, {"ERROR"}, 0)
  <2>1. "SYNC" \notin ack.flags /\ "SYNC" \notin error.flags
    BY ResponseFacts
  <2>2. \/ replies' = [replies EXCEPT ![n] = <<ack>>]
        \/ replies' = [replies EXCEPT ![n] = <<error, ack>>]
    BY DEF ListenNewMsg, ListenQueueFull, Reply
  <2> HIDE DEF ack, error
  <2>3. Range(<<ack>>) = {ack} /\ Range(<<error, ack>>) = {error, ack}
    BY DEF Range
  <2>4. Range(replies'[n]) \subseteq {error, ack}
    <3>1. CASE replies' = [replies EXCEPT ![n] = <<ack>>]
      <4>1. replies'[n] = <<ack>>
        BY <1>3, <3>1
      <4> QED
        BY <2>3, <4>1
    <3>2. CASE replies' = [replies EXCEPT ![n] = <<error, ack>>]
      <4>1. replies'[n] = <<error, ack>>
        BY <1>3, <3>2
      <4> QED
        BY <2>3, <4>1
    <3> QED
      BY <2>2, <3>1, <3>2
  <2> QED
    BY <1>3, <2>1, <2>2, <2>4
<1>7. /\ Asked(d, s)' \subseteq S
      /\ air'[m][n] = Tail(air[m][n])
      /\ air[m][n] # <<>> /\ a = air[m][n][1]
      /\ \A x, y \in Node : x # m \/ y # n => air'[x][y] = air[x][y]
  <2>1. /\ d \in Node /\ \A x \in Node \ {n} : response_queue'[x] = response_queue[x]
        /\ Range(response_queue'[n]) \subseteq Range(response_queue[n]) \cup {Arrived(n, m)}
    BY <1>1, <1>2
  <2>2. \A t \in Asked(d, s)' :
            \/ t \in Asked(d, s)
            \/ \E f \in Range(replies'[n]) :
                  f.from = d /\ f.to = s /\ "SYNC" \in f.flags /\ t = f.token
    BY <1>2, <1>6, <2>1, AskedListen
  <2>3. /\ air'[m][n] = Tail(air[m][n])
        /\ air[m][n] # <<>> /\ Arrived(n, m) = air[m][n][1]
        /\ \A x, y \in Node : x # m \/ y # n => air'[x][y] = air[x][y]
    BY <1>2, <1>6, <2>1, AskedListen
  <2> QED
    BY <1>6, <2>2, <2>3
<1> HIDE DEF a
<1>8. Pending(s, d)' = P
  BY <1>2 DEF Pending, Waiting
<1>9. CASE s = m /\ d = n
  <2>1. q # <<>> /\ a = q[1] /\ air'[s][d] = Tail(q)
    BY <1>7, <1>9
  <2>2. /\ recv_tokens'[d][s] = a.token
        /\ accepted'[d][s] \in {accepted[d][s], Append(accepted[d][s], a.id)}
        /\ dropped'[d][s] \in {dropped[d][s], Append(dropped[d][s], a.id)}
    BY <1>1, <1>2, <1>3, <1>9, SMTT(30)
  <2>3. ASSUME NEW L \in {accepted[d][s], dropped[d][s]}, NEW L2 \in {L, Append(L, a.id)}
        PROVE  PairInv(air'[s][d], recv_tokens'[d][s], L2, calls'[s],
                       Asked(d, s)', Pending(s, d)')
    <3>1. L \in Seq(Nat) /\ L2 \in Seq(Nat) /\ PairInv(q, r, L, calls[s], S, P)
      <4>1. L \in Seq(Nat) /\ PairInv(q, r, L, calls[s], S, P)
        BY <1>1
      <4>2. Append(L, a.id) \in Seq(Nat)
        BY <1>4, <4>1, AppendFacts
      <4> QED
        BY <4>1, <4>2
    <3>2. IsData(q[1]) /\ q[1].token > r /\ (L2 = L \/ L2 = Append(L, q[1].id))
      BY <1>2, <1>5, <1>9, <2>1
    <3>3. PairInv(Tail(q), q[1].token, L2, calls[s], S, P)
      BY <1>1, <2>1, <3>1, <3>2, PairAccept
    <3>4. PairInv(Tail(q), q[1].token, L2, calls[s], Asked(d, s)', P)
      BY <1>7, <3>3, PairKeep
    <3> QED
      BY <1>2, <1>8, <2>1, <2>2, <3>4
  <2> QED
    BY <2>2, <2>3 DEF PairOK
<1>10. CASE ~ (s = m /\ d = n)
  <2>1. air'[s][d] = q
    BY <1>1, <1>7, <1>10
  <2>2. recv_tokens'[d][s] = r
    BY <1>1, <1>2, <1>3, <1>10
  <2>3. accepted'[d][s] = accepted[d][s] /\ dropped'[d][s] = dropped[d][s]
    <3>1. \A x : [accepted EXCEPT ![n][m] = x][d][s] = accepted[d][s]
      BY <1>1, <1>3, <1>10
    <3>2. \A x : [dropped EXCEPT ![n][m] = x][d][s] = dropped[d][s]
      BY <1>1, <1>3, <1>10
    <3> QED
      BY <1>2, <3>1, <3>2
  <2> QED
    BY <1>2, <1>7, <1>8, <2>1, <2>2, <2>3, PairUntouched
<1> QED
  BY <1>9, <1>10

\* The listener transmits an answer.
LEMMA PairsReply ==
    ASSUME IInv, NEW n \in Node, TransmitReply(n),
           NEW d \in Node \ Rebooter, NEW s \in Node, s # d
    PROVE  PairOK(s, d)'
<1>0. UNCHANGED <<accepted, dropped>>
  BY DEF TransmitReply, history
<1> SUFFICES ASSUME NEW L \in {accepted[d][s], dropped[d][s]}
             PROVE  PairInv(air'[s][d], recv_tokens'[d][s], L, calls'[s],
                            Asked(d, s)', Pending(s, d)')
  BY <1>0, PairSuffices
<1> DEFINE q == air[s][d]
           r == recv_tokens[d][s]
           S == Asked(d, s)
           P == Pending(s, d)
           f == Head(replies[n])
<1>1. /\ q \in Seq(Frame) /\ r \in Token /\ L \in Seq(Nat) /\ calls[s] \in Nat
      /\ S \in SUBSET Token /\ P \in SUBSET Token
      /\ PairInv(q, r, L, calls[s], S, P)
      /\ d \in Node
  BY PairFacts
<1>2. /\ TypeOK /\ replies \in [Node -> Seq(Frame)] /\ air \in [Node -> [Node -> Seq(Frame)]]
  BY DEF IInv, TypeOK
<1>3. /\ replies[n] # <<>> /\ Transmit(f) /\ replies' = [replies EXCEPT ![n] = Tail(@)]
      /\ UNCHANGED <<recv_tokens, accepted, calls, call, response_queue>>
  BY DEF TransmitReply, tokenVars, queueVars, history
<1>4. f \in Frame /\ f \in Range(replies[n]) /\ Range(Tail(replies[n])) \subseteq Range(replies[n])
  BY <1>2, <1>3, TailFacts
<1>5. f.from = n /\ f.to \in Node /\ f.to # n /\ AnswerOK(f)
  BY <1>4, FramesOfReplies DEF Frame
<1> HIDE DEF f
<1>6. /\ \A x, y \in Node : x # n \/ y # f.to => air'[x][y] = air[x][y]
      /\ \/ air'[n][f.to] = air[n][f.to]
         \/ \E g \in {f, Corrupted(f)} : air'[n][f.to] = Append(air[n][f.to], g)
  <2>1. /\ \A x, y \in Node : x # f.from \/ y # f.to => air'[x][y] = air[x][y]
        /\ \/ air'[f.from][f.to] = air[f.from][f.to]
           \/ \E g \in {f, Corrupted(f)} :
                 air'[f.from][f.to] = Append(air[f.from][f.to], g)
    BY <1>2, <1>3, <1>4, TransmitFacts DEF f
  <2> QED
    BY <1>5, <2>1
<1>7. \A g \in {f, Corrupted(f)} :
         /\ g \in Frame /\ g.from = n /\ g.to = f.to /\ g.flags = f.flags /\ g.token = f.token
         /\ ~ IsData(g)
  <2>1. ~ IsData(f)
    BY <1>5 DEF AnswerOK, IsData
  <2> QED
    BY <1>4, <1>5, <2>1, CorruptedFacts
<1>8. Asked(d, s)' \subseteq S
  <2>1. Range(replies'[d]) \subseteq Range(replies[d])
    BY <1>1, <1>2, <1>3, <1>4
  <2>2. CASE d = n /\ s = f.to
    <3>1. Range(air'[d][s]) \subseteq Range(air[d][s]) \cup {f, Corrupted(f)}
      <4>1. Range(air'[f.from][f.to]) \subseteq Range(air[f.from][f.to]) \cup {f, Corrupted(f)}
        BY <1>2, <1>3, <1>4, LineGains DEF f
      <4> QED
        BY <1>5, <2>2, <4>1
    <3>2. \A t \in Asked(d, s)' :
             \/ t \in Asked(d, s)
             \/ \E g \in Range(air'[d][s]) :
                   g.from = d /\ g.to = s /\ "SYNC" \in g.flags /\ t = g.token
      BY <1>3, <2>1, AskedSent
    <3>3. "SYNC" \in f.flags => f.token \in Asked(d, s)
      BY <1>4, <1>5, <2>2 DEF Asked
    <3>4. \A g \in Range(air[d][s]) :
             g.from = d /\ g.to = s /\ "SYNC" \in g.flags => g.token \in Asked(d, s)
      BY DEF Asked
    <3> QED
      BY <1>7, <3>1, <3>2, <3>3, <3>4
  <2>3. CASE ~ (d = n /\ s = f.to)
    <3>1. air'[d][s] = air[d][s]
      BY <1>1, <1>6, <2>3
    <3> QED
      BY <1>3, <2>1, <3>1, AskedShrinks
  <2> QED
    BY <2>2, <2>3
<1>9. Pending(s, d)' = P
  BY <1>3 DEF Pending, Waiting
<1>10. CASE s = n /\ d = f.to
  <2>1. ASSUME NEW g \in {f, Corrupted(f)}
        PROVE  PairInv(Append(q, g), r, L, calls[s], S, P)
    BY <1>1, <1>7, PairAnswer
  <2>2. PairInv(air'[s][d], r, L, calls[s], S, P)
    BY <1>1, <1>6, <1>10, <2>1
  <2>3. PairInv(air'[s][d], r, L, calls[s], Asked(d, s)', P)
    BY <1>8, <2>2, PairKeep
  <2> QED
    BY <1>3, <1>9, <2>3
<1>11. CASE ~ (s = n /\ d = f.to)
  <2>1. air'[s][d] = q
    BY <1>1, <1>6, <1>11
  <2> QED
    BY <1>1, <1>3, <1>8, <1>9, <2>1, PairKeep
<1> QED
  BY <1>10, <1>11

\* A device that restarts forgets its call and the answers to it.
LEMMA PairsReboot ==
    ASSUME IInv, NEW n \in Node, Reboot(n),
           NEW d \in Node \ Rebooter, NEW s \in Node, s # d
    PROVE  PairOK(s, d)'
<1>1. /\ d # n /\ d \in Node
      /\ UNCHANGED <<air, calls, accepted, dropped>>
      /\ \E fresh : recv_tokens' = [recv_tokens EXCEPT ![n] = fresh]
      /\ call' = [call EXCEPT ![n] = NoCall(n)]
      /\ response_queue' = [response_queue EXCEPT ![n] = <<>>]
      /\ replies' = [replies EXCEPT ![n] = <<>>]
  BY DEF Reboot
<1>2. /\ recv_tokens \in [Node -> [Node -> Token]] /\ call \in [Node -> Call]
      /\ response_queue \in [Node -> Seq(Frame)] /\ replies \in [Node -> Seq(Frame)]
  BY DEF IInv, TypeOK
<1>3. recv_tokens'[d][s] = recv_tokens[d][s] /\ replies'[d] = replies[d]
  BY <1>1, <1>2
<1>4. Range(response_queue'[s]) \subseteq Range(response_queue[s])
  <2>1. Range(<<>>) = {}
    BY DEF Range
  <2> QED
    BY <1>1, <1>2, <2>1
<1>5. Asked(d, s)' \subseteq Asked(d, s)
  BY <1>1, <1>3, <1>4, AskedShrinks
<1>6. Pending(s, d)' \subseteq Pending(s, d)
  <2>1. call'[n].phase = "idle" /\ \A x \in Node \ {n} : call'[x] = call[x]
    BY <1>1, <1>2 DEF NoCall
  <2> QED
    BY <2>1 DEF Pending, Waiting
<1> QED
  BY <1>1, <1>3, <1>5, <1>6, PairUntouched
-----------------------------------------------------------------------------
(***************************************************************************)
(* Frames stay where they belong and calls keep their number.              *)
(***************************************************************************)

\* Only the line of the transmitted frame gets anything, and nothing but that frame.
LEMMA TransmitRange ==
    ASSUME TypeOK, NEW f \in Frame, Transmit(f)
    PROVE  \A s, d \in Node : \A g \in Range(air'[s][d]) :
              \/ g \in Range(air[s][d])
              \/ s = f.from /\ d = f.to /\ g \in {f, Corrupted(f)}
<1> SUFFICES ASSUME NEW s \in Node, NEW d \in Node, NEW g \in Range(air'[s][d])
             PROVE  \/ g \in Range(air[s][d])
                    \/ s = f.from /\ d = f.to /\ g \in {f, Corrupted(f)}
  OBVIOUS
<1>1. /\ \A x, y \in Node : x # f.from \/ y # f.to => air'[x][y] = air[x][y]
      /\ \/ air'[f.from][f.to] = air[f.from][f.to]
         \/ \E h \in {f, Corrupted(f)} : air'[f.from][f.to] = Append(air[f.from][f.to], h)
  BY TransmitFacts
<1>2. air[s][d] \in Seq(Frame) /\ Corrupted(f) \in Frame
  BY FrameTypes DEF TypeOK
<1>3. \A h \in {f, Corrupted(f)} : Range(Append(air[s][d], h)) = Range(air[s][d]) \cup {h}
  BY <1>2, AppendFacts
<1>4. CASE s = f.from /\ d = f.to
  <2>1. CASE air'[s][d] = air[s][d]
    BY <2>1
  <2>2. ASSUME NEW h \in {f, Corrupted(f)}, air'[s][d] = Append(air[s][d], h)
        PROVE  g \in Range(air[s][d]) \/ g \in {f, Corrupted(f)}
    <3>1. g \in Range(air[s][d]) \cup {h}
      BY <1>3, <2>2
    <3> QED
      BY <3>1
  <2> QED
    BY <1>1, <1>4, <2>1, <2>2
<1>5. CASE ~ (s = f.from /\ d = f.to)
  BY <1>1, <1>5
<1> QED
  BY <1>4, <1>5

\* A frame that belongs on its line leaves the lines in order.
LEMMA TransmitLines ==
    ASSUME TypeOK, FramesOK, NEW f \in Frame, Transmit(f), LineOK(f, f.from, f.to)
    PROVE  \A x, y \in Node : \A g \in Range(air'[x][y]) : LineOK(g, x, y)
<1> SUFFICES ASSUME NEW x \in Node, NEW y \in Node, NEW g \in Range(air'[x][y])
             PROVE  LineOK(g, x, y)
  OBVIOUS
<1>1. LineOK(Corrupted(f), f.from, f.to)
  BY CorruptedFacts DEF LineOK
<1>2. \/ g \in Range(air[x][y])
      \/ x = f.from /\ y = f.to /\ g \in {f, Corrupted(f)}
  BY TransmitRange
<1> QED
  BY <1>1, <1>2 DEF FramesOK

\* Reading the head of a queue leaves no frame that was not there.
LEMMA TailRange ==
    ASSUME NEW q \in Seq(Frame), q # <<>>
    PROVE  \A g \in Range(Tail(q)) : g \in Range(q)
  BY TailFacts

\* Every step puts frames only where _send and _listen may put them.
LEMMA FramesStep ==
    ASSUME IInv, Next
    PROVE  FramesOK'
<1> USE DEF FramesOK
<1>0. /\ TypeOK /\ FramesOK
      /\ air \in [Node -> [Node -> Seq(Frame)]]
      /\ replies \in [Node -> Seq(Frame)] /\ response_queue \in [Node -> Seq(Frame)]
      /\ call \in [Node -> Call]
  BY DEF IInv, TypeOK
<1>1. ASSUME NEW n \in Node, NEW d \in Node, SendWithAck(n, d)
      PROVE  FramesOK'
  <2> DEFINE token == NextToken(send_tokens[n][d])
             f == DataFrame(n, d, calls[n] + 1, token)
  <2>1. token \in Token /\ calls[n] + 1 \in Nat
    <3>1. send_tokens \in [Node -> [Node -> Token]] /\ calls \in [Node -> Nat]
      BY <1>0 DEF TypeOK
    <3> QED
      BY <3>1, NextTokenType
  <2>2. f \in Frame /\ f.from = n /\ f.to = d /\ IsData(f)
    BY <2>1, DataFrameFacts
  <2>3. Transmit(f) /\ replies' = replies /\ response_queue' = response_queue
    BY <1>1 DEF SendWithAck, queueVars
  <2> HIDE DEF f
  <2>4. LineOK(f, f.from, f.to)
    BY <2>2 DEF LineOK
  <2>5. \A x, y \in Node : \A g \in Range(air'[x][y]) : LineOK(g, x, y)
    BY <1>0, <2>2, <2>3, <2>4, TransmitLines
  <2> QED
    BY <1>0, <2>3, <2>5
<1>2. ASSUME NEW n \in Node, PollStep(n)
      PROVE  FramesOK'
  <2>1. Poll(n)
    BY <1>2 DEF PollStep, GotForeign, GotAck, GotError, GotResend, GotLateRequest, GotRequest
  <2>2. /\ replies' = replies
        /\ response_queue[n] \in Seq(Frame) /\ response_queue[n] # <<>>
        /\ response_queue'[n] = Tail(response_queue[n])
        /\ \A m \in Node \ {n} : response_queue'[m] = response_queue[m]
    BY <1>0, <2>1, PollFacts DEF Poll
  <2>3. \A m \in Node : \A g \in Range(response_queue'[m]) : QueuedOK(g, m)
    BY <1>0, <2>2, TailRange
  <2>4. \A x, y \in Node : \A g \in Range(air'[x][y]) : LineOK(g, x, y)
    <3>1. CASE ~ GotResend(n)
      <4>1. air' = air
        BY <1>2, <3>1 DEF PollStep, GotForeign, GotAck, GotError, GotLateRequest
      <4> QED
        BY <1>0, <4>1
    <3>2. CASE GotResend(n)
      <4> DEFINE f == DataFrame(n, call[n].dest, call[n].id, SwappedToken(n))
      <4>1. call[n].dest \in Node /\ call[n].id \in Nat
        BY <1>0 DEF Call
      <4>2. SwappedToken(n) \in Token
        BY <1>0, <3>2, SwapFacts DEF GotResend
      <4>3. f \in Frame /\ f.from = n /\ f.to = call[n].dest /\ IsData(f)
        BY <4>1, <4>2, DataFrameFacts
      <4>4. Transmit(f)
        BY <3>2 DEF GotResend
      <4> HIDE DEF f
      <4>5. LineOK(f, f.from, f.to)
        BY <4>3 DEF LineOK
      <4> QED
        BY <1>0, <4>3, <4>4, <4>5, TransmitLines
    <3> QED
      BY <3>1, <3>2
  <2> QED
    BY <1>0, <2>2, <2>3, <2>4
<1>3. ASSUME NEW n \in Node, Tick(n) \/ ResponseTimeout(n) \/ TryReceive(n)
      PROVE  FramesOK'
  <2>1. UNCHANGED <<air, replies, response_queue>>
    BY <1>3 DEF Tick, ResponseTimeout, TryReceive, queueVars
  <2> QED
    BY <1>0, <2>1
<1>4. ASSUME NEW n \in Node, NEW s \in Node,
             \/ ListenBadCrc(n, s) \/ ListenResponse(n, s) \/ ListenBadToken(n, s)
             \/ ListenNewMsg(n, s) \/ ListenQueueFull(n, s)
      PROVE  FramesOK'
  <2>1. Arriving(n, s) /\ TakeFrame(n, s)
    BY <1>4 DEF ListenBadCrc, ListenResponse, ListenBadToken, ListenNewMsg,
                ListenQueueFull, AcceptToken, NewMessage
  <2>2. /\ n # s /\ replies[n] = <<>> /\ Arrived(n, s) \in Frame
        /\ air[s][n] \in Seq(Frame) /\ air[s][n] # <<>>
        /\ air'[s][n] = Tail(air[s][n])
        /\ \A x, y \in Node : x # s \/ y # n => air'[x][y] = air[x][y]
    BY <1>0, <2>1, ArrivingFacts DEF Arriving
  <2>3. \A x, y \in Node : \A g \in Range(air'[x][y]) : LineOK(g, x, y)
    <3>1. ASSUME NEW x \in Node, NEW y \in Node, NEW g \in Range(air'[x][y])
          PROVE  g \in Range(air[x][y])
      <4>1. CASE x = s /\ y = n
        BY <2>2, <3>1, <4>1, TailRange
      <4>2. CASE x # s \/ y # n
        BY <2>2, <3>1, <4>2
      <4> QED
        BY <4>1, <4>2
    <3> QED
      BY <1>0, <3>1
  <2>4. LineOK(Arrived(n, s), s, n)
    <3>1. Arrived(n, s) \in Range(air[s][n])
      BY <2>2, TailFacts DEF Arrived
    <3> QED
      BY <1>0, <3>1
  <2>5. ASSUME NEW fl \in {{"RESEND"}, {"SYNC", "RESEND"}, {"ACK"}, {"ERROR"}}, NEW t
        PROVE  ReplyOK(Response(n, s, fl, t), n)
    BY <2>2, ResponseFacts DEF ReplyOK
  <2>6. CASE ListenResponse(n, s)
    <3>1. /\ replies' = replies /\ IsResponse(Arrived(n, s))
          /\ \/ response_queue' = response_queue
             \/ response_queue' = [response_queue EXCEPT ![n] = Append(@, Arrived(n, s))]
      BY <2>6 DEF ListenResponse
    <3>2. QueuedOK(Arrived(n, s), n)
      BY <2>2, <2>4, <3>1 DEF LineOK, QueuedOK, AnswerOK, IsData
    <3>3. Range(Append(response_queue[n], Arrived(n, s))) =
             Range(response_queue[n]) \cup {Arrived(n, s)}
      BY <1>0, <2>2, AppendFacts
    <3>4. \A m \in Node : \A g \in Range(response_queue'[m]) : QueuedOK(g, m)
      <4>1. CASE response_queue' = response_queue
        BY <1>0, <4>1
      <4>2. CASE response_queue' = [response_queue EXCEPT ![n] = Append(@, Arrived(n, s))]
        <5>1. /\ response_queue'[n] = Append(response_queue[n], Arrived(n, s))
              /\ \A m \in Node \ {n} : response_queue'[m] = response_queue[m]
          BY <1>0, <4>2
        <5> QED
          BY <1>0, <3>2, <3>3, <5>1
      <4> QED
        BY <3>1, <4>1, <4>2
    <3> QED
      BY <1>0, <2>3, <3>1, <3>4
  <2>7. CASE ~ ListenResponse(n, s)
    <3>1. response_queue' = response_queue
      BY <1>4, <2>7 DEF ListenBadCrc, ListenBadToken, ListenNewMsg, ListenQueueFull,
                        AcceptToken, queueVars
    <3>2. PICK f, g : /\ ReplyOK(f, n) /\ ReplyOK(g, n)
                      /\ \/ replies' = [replies EXCEPT ![n] = <<f>>]
                         \/ replies' = [replies EXCEPT ![n] = <<g, f>>]
      <4>1. CASE ListenBadCrc(n, s)
        BY <2>5, <4>1 DEF ListenBadCrc, Reply
      <4>2. CASE ListenBadToken(n, s)
        BY <2>5, <4>2 DEF ListenBadToken, Reply
      <4>3. CASE ListenNewMsg(n, s)
        BY <2>5, <4>3 DEF ListenNewMsg, Reply
      <4>4. CASE ListenQueueFull(n, s)
        BY <2>5, <4>4 DEF ListenQueueFull, Reply
      <4> QED
        BY <1>4, <2>7, <4>1, <4>2, <4>3, <4>4
    <3>3. Range(<<f>>) = {f} /\ Range(<<g, f>>) = {g, f}
      BY DEF Range
    <3>4. \A m \in Node \ {n} : replies'[m] = replies[m]
      BY <1>0, <3>2
    <3>5. replies'[n] = <<f>> \/ replies'[n] = <<g, f>>
      BY <1>0, <3>2
    <3>6. \A m \in Node : \A h \in Range(replies'[m]) : ReplyOK(h, m)
      BY <1>0, <3>2, <3>3, <3>4, <3>5
    <3> QED
      BY <1>0, <2>3, <3>1, <3>6
  <2> QED
    BY <2>6, <2>7
<1>5. ASSUME NEW n \in Node, TransmitReply(n)
      PROVE  FramesOK'
  <2> DEFINE f == Head(replies[n])
  <2>1. /\ replies[n] # <<>> /\ Transmit(f) /\ replies' = [replies EXCEPT ![n] = Tail(@)]
        /\ response_queue' = response_queue
    BY <1>5 DEF TransmitReply, queueVars
  <2>2. f \in Frame /\ f \in Range(replies[n]) /\ replies[n] \in Seq(Frame)
    BY <1>0, <2>1, TailFacts
  <2>3. ReplyOK(f, n)
    BY <1>0, <2>2
  <2> HIDE DEF f
  <2>4. LineOK(f, f.from, f.to)
    BY <2>3 DEF LineOK, ReplyOK
  <2>5. \A x, y \in Node : \A g \in Range(air'[x][y]) : LineOK(g, x, y)
    BY <1>0, <2>1, <2>2, <2>4, TransmitLines
  <2>6. \A m \in Node : \A g \in Range(replies'[m]) : ReplyOK(g, m)
    BY <1>0, <2>1, <2>2, TailRange
  <2> QED
    BY <1>0, <2>1, <2>5, <2>6
<1>6. ASSUME NEW n \in Node, Reboot(n)
      PROVE  FramesOK'
  <2>1. /\ air' = air
        /\ response_queue' = [response_queue EXCEPT ![n] = <<>>]
        /\ replies' = [replies EXCEPT ![n] = <<>>]
    BY <1>6 DEF Reboot
  <2>2. Range(<<>>) = {}
    BY DEF Range
  <2> QED
    BY <1>0, <2>1, <2>2
<1> QED
  BY <1>1, <1>2, <1>3, <1>4, <1>5, <1>6 DEF Next, ListenStep

\* No step but send_with_ack makes a call: one that waits afterwards is the one before.
LEMMA CallKept ==
    ASSUME TypeOK, NEW n \in Node,
           \/ PollStep(n) \/ Tick(n) \/ ResponseTimeout(n) \/ TryReceive(n)
           \/ TransmitReply(n) \/ Reboot(n)
    PROVE  /\ UNCHANGED <<calls, accepted, dropped>>
           /\ \A m \in Node \ {n} : call'[m] = call[m]
           /\ call'[n].phase = "waiting" =>
                 /\ call[n].phase = "waiting"
                 /\ call'[n].id = call[n].id /\ call'[n].dest = call[n].dest
                 /\ call'[n].clean = call[n].clean
<1>0. call \in [Node -> Call]
  BY DEF TypeOK
<1>1. UNCHANGED <<calls, accepted, dropped>>
  BY DEF PollStep, GotForeign, GotAck, GotError, GotResend, GotLateRequest, GotRequest,
         Poll, Tick, ResponseTimeout, TryReceive, TransmitReply, Reboot, history
<1>2. ASSUME NEW p, Return(n, p), p # "waiting"
      PROVE  call'[n].phase # "waiting" /\ \A m \in Node \ {n} : call'[m] = call[m]
  BY <1>0, <1>2 DEF Return, Call
<1>3. CASE GotAck(n) \/ GotError(n) \/ ResponseTimeout(n)
  BY <1>1, <1>2, <1>3 DEF GotAck, GotError, ResponseTimeout
<1>4. CASE GotLateRequest(n)
  <2>1. call' = [call EXCEPT ![n].token = SwappedToken(n)]
    BY <1>4 DEF GotLateRequest
  <2>2. call'[n].phase = call[n].phase
    BY <1>0, <2>1 DEF Call
  <2>3. call'[n].id = call[n].id /\ call'[n].dest = call[n].dest /\ call'[n].clean = call[n].clean
    BY <1>0, <2>1 DEF Call
  <2>4. \A m \in Node \ {n} : call'[m] = call[m]
    BY <1>0, <2>1
  <2> QED
    BY <1>1, <2>2, <2>3, <2>4
<1>5. CASE GotResend(n)
  <2>1. call' = [call EXCEPT ![n].token = SwappedToken(n),
                             ![n].allow_resend = FALSE, ![n].left = RESPONSE_TIMEOUT]
    BY <1>5 DEF GotResend
  <2>2. call'[n].phase = call[n].phase
    BY <1>0, <2>1 DEF Call
  <2>3. call'[n].id = call[n].id /\ call'[n].dest = call[n].dest /\ call'[n].clean = call[n].clean
    BY <1>0, <2>1 DEF Call
  <2>4. \A m \in Node \ {n} : call'[m] = call[m]
    BY <1>0, <2>1
  <2> QED
    BY <1>1, <2>2, <2>3, <2>4
<1>6. CASE Tick(n)
  <2>1. call' = [call EXCEPT ![n].left = @ - 1]
    BY <1>6 DEF Tick
  <2>2. call'[n].phase = call[n].phase
    BY <1>0, <2>1 DEF Call
  <2>3. call'[n].id = call[n].id /\ call'[n].dest = call[n].dest /\ call'[n].clean = call[n].clean
    BY <1>0, <2>1 DEF Call
  <2>4. \A m \in Node \ {n} : call'[m] = call[m]
    BY <1>0, <2>1
  <2> QED
    BY <1>1, <2>2, <2>3, <2>4
<1>7. CASE GotForeign(n) \/ TryReceive(n) \/ TransmitReply(n)
  BY <1>1, <1>7 DEF GotForeign, TryReceive, TransmitReply
<1>8. CASE Reboot(n)
  BY <1>0, <1>1, <1>8 DEF Reboot, NoCall
<1> QED
  BY <1>3, <1>4, <1>5, <1>6, <1>7, <1>8 DEF PollStep

\* The listener makes no call, and queues or drops at most the message it has just read.
LEMMA ListenKept ==
    ASSUME TypeOK, NEW n \in Node, NEW s \in Node,
           \/ ListenBadCrc(n, s) \/ ListenResponse(n, s) \/ ListenBadToken(n, s)
           \/ ListenNewMsg(n, s) \/ ListenQueueFull(n, s)
    PROVE  /\ n # s /\ UNCHANGED <<calls, call>>
           /\ \A m, x \in Node : m # n \/ x # s =>
                 accepted'[m][x] = accepted[m][x] /\ dropped'[m][x] = dropped[m][x]
           /\ \/ UNCHANGED <<accepted, dropped>>
              \/ /\ ListenNewMsg(n, s) /\ UNCHANGED dropped
                 /\ accepted' = [accepted EXCEPT ![n][s] = Append(@, Arrived(n, s).id)]
              \/ /\ ListenQueueFull(n, s) /\ UNCHANGED accepted
                 /\ dropped' = [dropped EXCEPT ![n][s] = Append(@, Arrived(n, s).id)]
<1>1. n # s /\ UNCHANGED <<calls, call>>
  BY DEF ListenBadCrc, ListenResponse, ListenBadToken, ListenNewMsg,
         ListenQueueFull, AcceptToken, NewMessage, Arriving, history
<1>2. \/ UNCHANGED <<accepted, dropped>>
      \/ /\ ListenNewMsg(n, s) /\ UNCHANGED dropped
         /\ accepted' = [accepted EXCEPT ![n][s] = Append(@, Arrived(n, s).id)]
      \/ /\ ListenQueueFull(n, s) /\ UNCHANGED accepted
         /\ dropped' = [dropped EXCEPT ![n][s] = Append(@, Arrived(n, s).id)]
  BY DEF ListenBadCrc, ListenResponse, ListenBadToken, ListenNewMsg, ListenQueueFull, history
<1>3. accepted \in [Node -> [Node -> Seq(Nat)]] /\ dropped \in [Node -> [Node -> Seq(Nat)]]
  BY DEF TypeOK
<1>4. ASSUME NEW m \in Node, NEW x \in Node, m # n \/ x # s
      PROVE  accepted'[m][x] = accepted[m][x] /\ dropped'[m][x] = dropped[m][x]
  <2>1. \A y : [accepted EXCEPT ![n][s] = y][m][x] = accepted[m][x]
    BY <1>3, <1>4
  <2>2. \A y : [dropped EXCEPT ![n][s] = y][m][x] = dropped[m][x]
    BY <1>3, <1>4
  <2> QED
    BY <1>2, <2>1, <2>2
<1> QED
  BY <1>1, <1>2, <1>4

\* A waiting call stays the last one made, to a destination other than its own device.
LEMMA CallsStep ==
    ASSUME IInv, Next
    PROVE  CallsOK'
<1>0. /\ CallsOK /\ TypeOK
      /\ call \in [Node -> Call] /\ calls \in [Node -> Nat]
  BY DEF IInv, TypeOK
<1>1. ASSUME NEW n \in Node, NEW d \in Node, SendWithAck(n, d)
      PROVE  CallsOK'
  <2>1. /\ n # d /\ UNCHANGED <<accepted, dropped>>
        /\ calls'[n] = calls[n] + 1 /\ call'[n].id = calls[n] + 1 /\ call'[n].dest = d
        /\ \A m \in Node \ {n} : calls'[m] = calls[m] /\ call'[m] = call[m]
    BY <1>0, <1>1 DEF SendWithAck
  <2> QED
    BY <1>0, <2>1 DEF CallsOK, Waiting
<1>2. ASSUME NEW n \in Node,
             \/ PollStep(n) \/ Tick(n) \/ ResponseTimeout(n) \/ TryReceive(n)
             \/ TransmitReply(n) \/ Reboot(n)
      PROVE  CallsOK'
  <2>1. /\ UNCHANGED <<calls, accepted, dropped>>
        /\ \A m \in Node \ {n} : call'[m] = call[m]
        /\ call'[n].phase = "waiting" =>
              /\ call[n].phase = "waiting"
              /\ call'[n].id = call[n].id /\ call'[n].dest = call[n].dest
    BY <1>0, <1>2, CallKept, ZenonT(30)
  <2> QED
    BY <1>0, <2>1 DEF CallsOK, Waiting
<1>3. ASSUME NEW n \in Node, NEW s \in Node,
             \/ ListenBadCrc(n, s) \/ ListenResponse(n, s) \/ ListenBadToken(n, s)
             \/ ListenNewMsg(n, s) \/ ListenQueueFull(n, s)
      PROVE  CallsOK'
  <2>1. /\ n # s /\ UNCHANGED <<calls, call>>
        /\ \A m, x \in Node : m # n \/ x # s =>
              accepted'[m][x] = accepted[m][x] /\ dropped'[m][x] = dropped[m][x]
    BY <1>0, <1>3, ListenKept
  <2> QED
    BY <1>0, <2>1 DEF CallsOK, Waiting
<1> QED
  BY <1>1, <1>2, <1>3 DEF Next, ListenStep
-----------------------------------------------------------------------------
(***************************************************************************)
(* The invariant holds initially, is kept by every step, and implies       *)
(* InOrder.                                                                *)
(***************************************************************************)
LEMMA InvInit == Init => IInv
<1> SUFFICES ASSUME Init PROVE IInv
  OBVIOUS
<1>1. TypeOK
  BY TypeInit
<1>2. Range(<<>>) = {} /\ DOMAIN <<>> = {}
  BY DEF Range
<1>3. /\ \A s, d \in Node :
            air[s][d] = <<>> /\ accepted[d][s] = <<>> /\ dropped[d][s] = <<>>
      /\ \A n \in Node : /\ replies[n] = <<>> /\ response_queue[n] = <<>>
                         /\ ~ Waiting(n)
  BY DEF Init, NoCall, Waiting
<1>4. FramesOK
  BY <1>2, <1>3 DEF FramesOK
<1>5. CallsOK
  BY <1>3 DEF CallsOK
<1>6. ASSUME NEW d \in Node \ Rebooter, NEW s \in Node
      PROVE  PairOK(s, d)
  <2>1. Asked(d, s) = {}
    BY <1>2, <1>3 DEF Asked
  <2>2. Pending(s, d) = {}
    BY <1>3 DEF Pending
  <2>3. /\ air[s][d] = <<>> /\ accepted[d][s] = <<>> /\ dropped[d][s] = <<>>
        /\ Data(<<>>) = {}
    BY <1>2, <1>3 DEF Data
  <2> QED
    BY <1>2, <2>1, <2>2, <2>3 DEF PairOK, PairInv, Known, Ordered, Increasing, Fresh, Resent,
                                  Asks, Single, Spent
<1> QED
  BY <1>1, <1>4, <1>5, <1>6 DEF IInv, PairsOK

\* Every step of the two tasks, and a restart, keeps the inductive invariant.
LEMMA InvStep ==
    ASSUME IInv, [Next]_vars
    PROVE  IInv'
<1>1. CASE Next
  <2>1. TypeOK'
    BY <1>1, TypeStep DEF IInv
  <2>2. FramesOK' /\ CallsOK'
    BY <1>1, FramesStep, CallsStep
  <2>3. ASSUME NEW d \in Node \ Rebooter, NEW s \in Node, s # d
        PROVE  PairOK(s, d)'
    <3>1. ASSUME NEW n \in Node, NEW e \in Node, SendWithAck(n, e)
          PROVE  PairOK(s, d)'
      BY <2>3, <3>1, PairsSend
    <3>2. ASSUME NEW n \in Node, PollStep(n)
          PROVE  PairOK(s, d)'
      BY <2>3, <3>2, PairsPoll, PairsResend DEF PollStep
    <3>3. ASSUME NEW n \in Node, Tick(n) \/ ResponseTimeout(n) \/ TryReceive(n)
          PROVE  PairOK(s, d)'
      BY <2>3, <3>3, PairsUser
    <3>4. ASSUME NEW n \in Node, ListenStep(n)
          PROVE  PairOK(s, d)'
      BY <2>3, <3>4, PairsRefuse, PairsAccept, PairsReply DEF ListenStep
    <3>5. ASSUME NEW n \in Node, Reboot(n)
          PROVE  PairOK(s, d)'
      BY <2>3, <3>5, PairsReboot
    <3> QED
      BY <1>1, <3>1, <3>2, <3>3, <3>4, <3>5 DEF Next
  <2>4. PairsOK'
    BY <2>3 DEF PairsOK
  <2> QED
    BY <2>1, <2>2, <2>4 DEF IInv
<1>2. CASE UNCHANGED vars
  <2>1. UNCHANGED <<send_tokens, recv_tokens, call, response_queue, new_frame_queue, replies,
                    air, calls, accepted, dropped, confirmed, reboots>>
    BY <1>2 DEF vars, tokenVars, queueVars, history
  <2>2. TypeOK'
    BY TypeStep, <1>2 DEF IInv
  <2>3. FramesOK' /\ CallsOK'
    BY <2>1 DEF IInv, FramesOK, CallsOK, Waiting
  <2>4. ASSUME NEW d \in Node \ Rebooter, NEW s \in Node, s # d
        PROVE  PairOK(s, d)'
    <3>1. Asked(d, s)' = Asked(d, s) /\ Pending(s, d)' = Pending(s, d)
      BY <2>1 DEF Asked, Pending, Waiting
    <3> QED
      BY <2>1, <2>4, <3>1, PairUntouched
  <2>5. PairsOK'
    BY <2>4 DEF PairsOK
  <2> QED
    BY <2>2, <2>3, <2>5 DEF IInv
<1> QED
  BY <1>1, <1>2

\* The inductive invariant holds in every reachable state, for any devices, capacities,
\* timeouts, faults, thresholds and token sizes.
THEOREM Invariance == Spec => []IInv
<1>1. Init => IInv
  BY InvInit
<1>2. IInv /\ [Next]_vars => IInv'
  BY InvStep
<1> QED
  BY <1>1, <1>2, PTL DEF Spec

\* The inductive invariant implies that messages are accepted in order and once.
LEMMA InvInOrder == IInv => InOrder
<1> SUFFICES ASSUME IInv, NEW d \in Node \ Rebooter, NEW s \in Node
             PROVE  Increasing(accepted[d][s])
  BY DEF InOrder, Increasing
<1>1. CASE s = d
  <2>1. accepted[d][s] = <<>> /\ DOMAIN <<>> = {}
    BY <1>1 DEF IInv, CallsOK
  <2> QED
    BY <2>1 DEF Increasing
<1>2. CASE s # d
  BY <1>2 DEF IInv, PairsOK, PairOK, PairInv
<1> QED
  BY <1>1, <1>2

\* At most once and in order, on any network, with any faults, any reordering of the steps
\* of the tasks and any restarts of the senders: a device that keeps its memory accepts the
\* messages of another in the order of the calls that sent them, none of them twice.
THEOREM AcceptedInOrder == Spec => []InOrder
  BY Invariance, InvInOrder, PTL

\* _validate_token only lets a larger token replace the receive token.
LEMMA RecvTokenStep ==
    ASSUME TypeOK, [Next]_vars, NEW d \in Node \ Rebooter, NEW s \in Node
    PROVE  recv_tokens'[d][s] >= recv_tokens[d][s]
<1>a. recv_tokens \in [Node -> [Node -> Token]]
  BY DEF TypeOK
<1>0. recv_tokens \in [Node -> [Node -> Token]] /\ recv_tokens[d][s] \in Nat
  BY <1>a, TokenNat
<1>1. CASE recv_tokens' = recv_tokens
  BY <1>0, <1>1
<1>2. ASSUME NEW n \in Node, NEW m \in Node, AcceptToken(n, m)
      PROVE  recv_tokens'[d][s] >= recv_tokens[d][s]
  <2>1. /\ ValidToken(Arrived(n, m).token, recv_tokens[n][m])
        /\ recv_tokens' = [recv_tokens EXCEPT ![n][m] = Arrived(n, m).token]
    BY <1>2 DEF AcceptToken
  <2>2. Arrived(n, m).token \in Token
    <3>1. Arrived(n, m) \in Frame
      BY <1>2, ArrivingFacts DEF AcceptToken, NewMessage
    <3> QED
      BY <3>1 DEF Frame
  <2>3. Arrived(n, m).token > recv_tokens[n][m]
    BY <1>0, <2>1, <2>2, ValidTokenGrows
  <2>4. Arrived(n, m).token \in Nat /\ recv_tokens[n][m] \in Nat
    BY <1>0, <2>2, TokenNat
  <2>5. CASE n = d /\ m = s
    BY <1>0, <2>1, <2>3, <2>4, <2>5
  <2>6. CASE ~ (n = d /\ m = s)
    BY <1>0, <2>1, <2>6
  <2> QED
    BY <2>5, <2>6
<1>3. ASSUME NEW n \in Node, Reboot(n)
      PROVE  recv_tokens'[d][s] = recv_tokens[d][s]
  BY <1>0, <1>3 DEF Reboot
<1>4. CASE Next
  <2>1. PICK n \in Node :
           \/ \E e \in Node : SendWithAck(n, e)
           \/ PollStep(n) \/ Tick(n) \/ ResponseTimeout(n) \/ TryReceive(n)
           \/ ListenStep(n) \/ Reboot(n)
    BY <1>4 DEF Next
  <2>2. CASE (\E e \in Node : SendWithAck(n, e)) \/ Tick(n) \/ ResponseTimeout(n) \/ TryReceive(n)
    BY <1>1, <2>2 DEF SendWithAck, Tick, ResponseTimeout, TryReceive, tokenVars
  <2>3. CASE PollStep(n)
    BY <1>1, <2>3 DEF PollStep, GotForeign, GotAck, GotError, GotResend, GotLateRequest,
                      GotRequest, Poll
  <2>4. CASE ListenStep(n)
    BY <1>1, <1>2, <2>4 DEF ListenStep, ListenBadCrc, ListenResponse, ListenBadToken,
                            ListenNewMsg, ListenQueueFull, TransmitReply, tokenVars
  <2>5. CASE Reboot(n)
    BY <1>0, <1>3, <2>5
  <2> QED
    BY <2>1, <2>2, <2>3, <2>4, <2>5
<1>5. CASE UNCHANGED vars
  BY <1>1, <1>5 DEF vars, tokenVars
<1> QED
  BY <1>4, <1>5

\* A device that keeps its memory never lowers a receive counter, so a counter that has
\* reached TOKEN_MAX - 1 stays there.
THEOREM RecvTokensGrow == Spec => RecvTokenGrows
<1>1. TypeOK /\ [Next]_vars =>
         [\A d \in Node \ Rebooter, s \in Node : recv_tokens'[d][s] >= recv_tokens[d][s]]_vars
  BY RecvTokenStep
<1> QED
  BY <1>1, TypeCorrect, PTL DEF Spec, RecvTokenGrows

\* Nothing is ahead of the last token: the tokens start again at zero, the comparison does not.
LEMMA LastTokenLocks ==
    ASSUME NEW t \in Token, NEW r \in Token, r = TOKEN_MAX - 1
    PROVE  ~ ValidToken(t, r)
<1>1. SUFFICES ASSUME ValidToken(t, r)
               PROVE  FALSE
  OBVIOUS
<1>2. t > r
  BY <1>1, ValidTokenGrows
<1> QED
  BY <1>2, TokenAssumption DEF Token

\* A receive counter at its last value lets no message of its sender pass.
LEMMA LockedOutRefuses ==
    ASSUME TypeOK, NEW n \in Node, NEW m \in Node, recv_tokens[n][m] = TOKEN_MAX - 1
    PROVE  ~ AcceptToken(n, m)
<1>1. SUFFICES ASSUME AcceptToken(n, m)
               PROVE  FALSE
  OBVIOUS
<1>2. Arrived(n, m) \in Frame
  BY <1>1, ArrivingFacts DEF AcceptToken, NewMessage
<1>3. Arrived(n, m).token \in Token
  BY <1>2 DEF Frame
<1>4. recv_tokens[n][m] \in Token
  BY DEF TypeOK
<1>5. ~ ValidToken(Arrived(n, m).token, recv_tokens[n][m])
  BY <1>3, <1>4, LastTokenLocks
<1> QED
  BY <1>1, <1>5 DEF AcceptToken

\* A step keeps the counter and the messages of a sender that is locked out.
LEMMA LockedOutStep ==
    ASSUME TypeOK, [Next]_vars, NEW d \in Node, NEW s \in Node,
           recv_tokens[d][s] = TOKEN_MAX - 1
    PROVE  /\ accepted'[d][s] = accepted[d][s] /\ dropped'[d][s] = dropped[d][s]
           /\ recv_tokens'[d][s] = recv_tokens[d][s] \/ reboots'[d] > reboots[d]
<1>0. recv_tokens \in [Node -> [Node -> Token]] /\ reboots \in [Node -> Nat]
  BY DEF TypeOK
<1>1. CASE UNCHANGED <<recv_tokens, accepted, dropped>>
  BY <1>1
<1>2. ASSUME NEW n \in Node, NEW m \in Node, AcceptToken(n, m),
             \/ ListenNewMsg(n, m)
             \/ ListenQueueFull(n, m)
      PROVE  /\ accepted'[d][s] = accepted[d][s] /\ dropped'[d][s] = dropped[d][s]
             /\ recv_tokens'[d][s] = recv_tokens[d][s]
  <2>1. m # s \/ n # d
    BY <1>2, LockedOutRefuses
  <2>2. \A x, y \in Node : x # n \/ y # m =>
           accepted'[x][y] = accepted[x][y] /\ dropped'[x][y] = dropped[x][y]
    BY <1>2, ListenKept
  <2>3. recv_tokens'[d][s] = recv_tokens[d][s]
    BY <1>0, <1>2, <2>1 DEF AcceptToken
  <2> QED
    BY <2>1, <2>2, <2>3
<1>3. ASSUME NEW n \in Node, Reboot(n)
      PROVE  /\ accepted'[d][s] = accepted[d][s] /\ dropped'[d][s] = dropped[d][s]
             /\ recv_tokens'[d][s] = recv_tokens[d][s] \/ reboots'[d] > reboots[d]
  <2>1. UNCHANGED <<accepted, dropped>>
    BY <1>3 DEF Reboot
  <2>2. CASE n = d
    BY <1>0, <1>3, <2>2 DEF Reboot
  <2>3. CASE n # d
    BY <1>0, <1>3, <2>3 DEF Reboot
  <2> QED
    BY <2>1, <2>2, <2>3
<1>4. CASE Next
  <2>1. PICK n \in Node :
           \/ \E e \in Node : SendWithAck(n, e)
           \/ PollStep(n) \/ Tick(n) \/ ResponseTimeout(n) \/ TryReceive(n)
           \/ ListenStep(n) \/ Reboot(n)
    BY <1>4 DEF Next
  <2>2. CASE (\E e \in Node : SendWithAck(n, e)) \/ Tick(n) \/ ResponseTimeout(n) \/ TryReceive(n)
    BY <1>1, <2>2 DEF SendWithAck, Tick, ResponseTimeout, TryReceive, tokenVars, history
  <2>3. CASE PollStep(n)
    BY <1>1, <2>3 DEF PollStep, GotForeign, GotAck, GotError, GotResend, GotLateRequest,
                      GotRequest, Poll
  <2>4. CASE ListenStep(n)
    <3>1. ASSUME NEW m \in Node, ListenBadCrc(n, m) \/ ListenResponse(n, m) \/ ListenBadToken(n, m)
          PROVE  UNCHANGED <<recv_tokens, accepted, dropped>>
      BY <3>1 DEF ListenBadCrc, ListenResponse, ListenBadToken, tokenVars, history
    <3>2. CASE TransmitReply(n)
      BY <1>1, <3>2 DEF TransmitReply, tokenVars, history
    <3>3. ASSUME NEW m \in Node, ListenNewMsg(n, m) \/ ListenQueueFull(n, m)
          PROVE  AcceptToken(n, m)
      BY <3>3 DEF ListenNewMsg, ListenQueueFull
    <3> QED
      BY <1>1, <1>2, <2>4, <3>1, <3>2, <3>3 DEF ListenStep
  <2>5. CASE Reboot(n)
    BY <1>3, <2>5
  <2> QED
    BY <2>1, <2>2, <2>3, <2>4, <2>5
<1>5. CASE UNCHANGED vars
  BY <1>1, <1>5 DEF vars, tokenVars, history
<1> QED
  BY <1>4, <1>5

\* The lockout is for good: whatever the network and the peers do, a receive counter at
\* TOKEN_MAX - 1 lets no message of its sender through until the device itself restarts.
THEOREM LockoutLasts == Spec => LockedOut
<1>1. TypeOK /\ [Next]_vars =>
         [\A d, s \in Node :
             recv_tokens[d][s] = TOKEN_MAX - 1 =>
                 /\ accepted'[d][s] = accepted[d][s] /\ dropped'[d][s] = dropped[d][s]
                 /\ recv_tokens'[d][s] = recv_tokens[d][s] \/ reboots'[d] > reboots[d]]_vars
  BY LockedOutStep
<1> QED
  BY <1>1, TypeCorrect, PTL DEF Spec, LockedOut
-----------------------------------------------------------------------------
(***************************************************************************)
(* The time of a call.                                                     *)
(***************************************************************************)

\* A step that leaves a call alone, or ends it, gives it no time.
LEMMA BudgetKept ==
    ASSUME TypeOK, NEW m \in Node, call'[m] = call[m]
    PROVE  Budget(m)' =< Budget(m)
<1>1. call[m] \in Call
  BY DEF TypeOK
<1>2. Budget(m) \in Int
  BY <1>1, TransportAssumption DEF Budget, Call
<1>3. Budget(m)' = Budget(m)
  BY DEF Budget
<1> QED
  BY <1>2, <1>3

\* What each step does to the call of the device that takes it, and to those of the others.
LEMMA BudgetStep ==
    ASSUME TypeOK, Next, NEW m \in Node, Waiting(m), Waiting(m)'
    PROVE  Budget(m)' =< Budget(m)
<1>0. /\ call \in [Node -> Call] /\ call[m] \in Call
      /\ call[m].left \in Nat /\ RESPONSE_TIMEOUT \in Nat
  <2>1. call \in [Node -> Call]
    BY DEF TypeOK
  <2>2. call[m] \in Call
    BY <2>1
  <2>3. call[m].left \in Nat
    BY <2>2, TransportAssumption DEF Call
  <2> QED
    BY <2>1, <2>2, <2>3, TransportAssumption
<1>1. ASSUME NEW n \in Node, NEW d \in Node, SendWithAck(n, d)
      PROVE  call'[m] = call[m]
  <2>1. n # m
    BY <1>1 DEF SendWithAck
  <2> QED
    BY <1>0, <1>1, <2>1 DEF SendWithAck
<1>2. ASSUME NEW n \in Node, NEW p, Return(n, p), p # "waiting"
      PROVE  call'[m] = call[m]
  <2>1. call'[n].phase = p
    BY <1>0, <1>2 DEF Return, Call
  <2>2. n # m
    BY <1>2, <2>1 DEF Waiting
  <2> QED
    BY <1>0, <1>2, <2>2 DEF Return
<1>3. ASSUME NEW n \in Node, GotResend(n)
      PROVE  Budget(m)' =< Budget(m)
  <2>1. /\ call[n].allow_resend
        /\ call' = [call EXCEPT ![n].token = SwappedToken(n),
                                ![n].allow_resend = FALSE, ![n].left = RESPONSE_TIMEOUT]
    BY <1>3 DEF GotResend
  <2>2. CASE n # m
    <3>1. call'[m] = call[m]
      BY <1>0, <2>1, <2>2
    <3> QED
      BY <3>1, BudgetKept
  <2>3. CASE n = m
    <3>1. call'[m].left = RESPONSE_TIMEOUT
      BY <1>0, <2>1, <2>3 DEF Call
    <3>2. call'[m].allow_resend = FALSE
      BY <1>0, <2>1, <2>3 DEF Call
    <3>3. Budget(m)' = RESPONSE_TIMEOUT
      BY <1>0, <3>1, <3>2 DEF Budget
    <3>4. Budget(m) = call[m].left + RESPONSE_TIMEOUT
      BY <2>1, <2>3 DEF Budget
    <3> QED
      BY <1>0, <3>3, <3>4
  <2> QED
    BY <2>2, <2>3
<1>4. ASSUME NEW n \in Node, GotLateRequest(n)
      PROVE  Budget(m)' =< Budget(m)
  <2>1. call' = [call EXCEPT ![n].token = SwappedToken(n)]
    BY <1>4 DEF GotLateRequest
  <2>2. call'[m].left = call[m].left
    BY <1>0, <2>1 DEF Call
  <2>3. call'[m].allow_resend = call[m].allow_resend
    BY <1>0, <2>1 DEF Call
  <2>4. Budget(m)' = Budget(m) /\ Budget(m) \in Int
    BY <1>0, <2>2, <2>3 DEF Budget
  <2> QED
    BY <2>4
<1>5. ASSUME NEW n \in Node, Tick(n)
      PROVE  Budget(m)' =< Budget(m)
  <2>1. call' = [call EXCEPT ![n].left = @ - 1]
    BY <1>5 DEF Tick
  <2>2. call'[m].left =< call[m].left /\ call'[m].left \in Int
    BY <1>0, <2>1 DEF Call
  <2>3. call'[m].allow_resend = call[m].allow_resend
    BY <1>0, <2>1 DEF Call
  <2> QED
    BY <1>0, <2>2, <2>3 DEF Budget
<1>6. ASSUME NEW n \in Node, Reboot(n)
      PROVE  call'[m] = call[m]
  <2>1. call' = [call EXCEPT ![n] = NoCall(n)]
    BY <1>6 DEF Reboot
  <2>2. call'[n].phase = "idle"
    BY <1>0, <2>1 DEF NoCall
  <2>3. n # m
    BY <2>2 DEF Waiting
  <2> QED
    BY <1>0, <2>1, <2>3
<1>7. ASSUME NEW n \in Node, GotForeign(n) \/ TryReceive(n) \/ ListenStep(n)
      PROVE  call' = call
  BY <1>7 DEF GotForeign, TryReceive, ListenStep, ListenBadCrc, ListenResponse,
              ListenBadToken, ListenNewMsg, ListenQueueFull, AcceptToken, TransmitReply
<1>8. ASSUME NEW n \in Node, GotAck(n) \/ GotError(n) \/ ResponseTimeout(n)
      PROVE  call'[m] = call[m]
  BY <1>2, <1>8 DEF GotAck, GotError, ResponseTimeout
<1>9. CASE call'[m] = call[m]
  BY <1>9, BudgetKept
<1>10. PICK n \in Node :
          \/ \E d \in Node : SendWithAck(n, d)
          \/ PollStep(n) \/ Tick(n) \/ ResponseTimeout(n) \/ TryReceive(n)
          \/ ListenStep(n) \/ Reboot(n)
  BY DEF Next
<1>11. CASE (\E d \in Node : SendWithAck(n, d)) \/ Reboot(n) \/ ResponseTimeout(n)
  BY <1>1, <1>6, <1>8, <1>9, <1>11
<1>12. CASE TryReceive(n) \/ ListenStep(n)
  BY <1>7, <1>9, <1>12
<1>13. CASE PollStep(n)
  BY <1>3, <1>4, <1>7, <1>8, <1>9, <1>13 DEF PollStep
<1>14. CASE Tick(n)
  BY <1>5, <1>14
<1> QED
  BY <1>10, <1>11, <1>12, <1>13, <1>14

\* A call waits for at most two timeouts, whatever arrives while it waits.
THEOREM WaitsBounded == Spec => WaitBounded
<1>1. TypeOK /\ [Next]_vars =>
         [\A n \in Node : Waiting(n) /\ Waiting(n)' => Budget(n)' =< Budget(n)]_vars
  BY BudgetStep
<1> QED
  BY <1>1, TypeCorrect, PTL DEF Spec, WaitBounded
=============================================================================
