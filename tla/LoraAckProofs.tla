--------------------------- MODULE LoraAckProofs ---------------------------
(***************************************************************************)
(* What the result of a call is worth in LoraTransport, for every network. *)
(* With any faults and restarts: every call that returns true has used up  *)
(* an ACK, every ACK stands for a message that has passed a token check,   *)
(* and a call that began with nothing of the past around it is told the    *)
(* truth.  When such a call succeeds, its two ends also agree on the token *)
(* that the next message takes.                                            *)
(***************************************************************************)
EXTENDS LoraTransportProofs, FiniteSetTheorems

(***************************************************************************)
(* Counting the frames of a queue.                                         *)
(***************************************************************************)

\* A queue is finite, so is what is counted of it.
LEMMA CountType ==
    ASSUME NEW q \in Seq(Frame), NEW A
    PROVE  /\ IsFiniteSet({k \in DOMAIN q : q[k] \in A})
           /\ Count(q, A) \in Nat
<1>1. DOMAIN q = 1 .. Len(q) /\ Len(q) \in Nat
  BY LenProperties
<1>2. IsFiniteSet(1 .. Len(q))
  BY <1>1, FS_Interval
<1>3. IsFiniteSet({k \in DOMAIN q : q[k] \in A})
  BY <1>1, <1>2, FS_Subset
<1> QED
  BY <1>3, FS_CardinalityType DEF Count

\* Nothing is counted of an empty queue.
LEMMA CountEmpty == \A A : Count(<<>>, A) = 0
<1> SUFFICES ASSUME NEW A PROVE Count(<<>>, A) = 0
  OBVIOUS
<1>1. {k \in DOMAIN <<>> : <<>>[k] \in A} = {}
  OBVIOUS
<1> QED
  BY <1>1, FS_EmptySet DEF Count

\* A frame that joins a queue adds at most itself.
LEMMA CountAppend ==
    ASSUME NEW q \in Seq(Frame), NEW f \in Frame, NEW A
    PROVE  Count(Append(q, f), A) = IF f \in A THEN Count(q, A) + 1 ELSE Count(q, A)
<1> DEFINE K == {k \in DOMAIN q : q[k] \in A}
           e == Len(q) + 1
           K2 == {k \in DOMAIN Append(q, f) : Append(q, f)[k] \in A}
<1>1. /\ Len(q) \in Nat /\ DOMAIN q = 1 .. Len(q)
      /\ DOMAIN Append(q, f) = 1 .. e
      /\ \A k \in DOMAIN q : Append(q, f)[k] = q[k]
      /\ Append(q, f)[e] = f
  BY AppendFacts
<1>2. DOMAIN Append(q, f) = DOMAIN q \cup {e} /\ e \notin DOMAIN q
  BY <1>1
<1>3. IsFiniteSet(K)
  BY CountType
<1>4. CASE f \in A
  <2>1. K2 = K \cup {e} /\ e \notin K
    BY <1>1, <1>2, <1>4
  <2>2. Cardinality(K2) = Cardinality(K) + 1
    BY <1>3, <2>1, FS_AddElement
  <2> QED
    BY <1>4, <2>2 DEF Count
<1>5. CASE f \notin A
  <2>1. K2 = K
    BY <1>1, <1>2, <1>5
  <2> QED
    BY <1>5, <2>1 DEF Count
<1> QED
  BY <1>4, <1>5

\* A frame that is taken from a queue takes at most itself.
LEMMA CountTail ==
    ASSUME NEW q \in Seq(Frame), q # <<>>, NEW A
    PROVE  Count(q, A) = IF Head(q) \in A THEN Count(Tail(q), A) + 1 ELSE Count(Tail(q), A)
<1> DEFINE K == {k \in DOMAIN q : q[k] \in A}
           K2 == {k \in DOMAIN Tail(q) : Tail(q)[k] \in A}
           next == [k \in K2 |-> k + 1]
<1>1. /\ Head(q) = q[1] /\ 1 \in DOMAIN q /\ Tail(q) \in Seq(Frame)
      /\ DOMAIN q = 1 .. Len(q) /\ Len(q) \in Nat
      /\ DOMAIN Tail(q) = 1 .. Len(q) - 1
      /\ \A k \in DOMAIN Tail(q) : k + 1 \in DOMAIN q /\ Tail(q)[k] = q[k + 1]
  BY TailFacts
<1>2. IsFiniteSet(K) /\ IsFiniteSet(K2)
  BY <1>1, CountType
<1>3. K2 \subseteq Int /\ K \subseteq Int
  BY <1>1
<1>4. \A k \in K2 : k + 1 \in K \ {1}
  BY <1>1
<1>5. \A l \in K \ {1} : l - 1 \in K2 /\ (l - 1) + 1 = l
  <2> SUFFICES ASSUME NEW l \in K \ {1} PROVE l - 1 \in K2 /\ (l - 1) + 1 = l
    OBVIOUS
  <2>1. l \in 1 .. Len(q) /\ l # 1
    BY <1>1
  <2>2. l - 1 \in 1 .. Len(q) - 1 /\ (l - 1) + 1 = l
    BY <1>1, <2>1
  <2> QED
    BY <1>1, <2>2
<1>6. next \in Bijection(K2, K \ {1})
  <2>1. next \in [K2 -> K \ {1}]
    BY <1>4
  <2>2. \A k, l \in K2 : next[k] = next[l] => k = l
    BY <1>3
  <2>3. \A l \in K \ {1} : \E k \in K2 : next[k] = l
    BY <1>5
  <2> QED
    BY <2>1, <2>2, <2>3 DEF Bijection, Injection, Surjection, IsInjective
<1>7. Cardinality(K \ {1}) = Cardinality(K2)
  BY <1>2, <1>6, FS_Bijection, ZenonT(30) DEF ExistsBijection
<1>8. Cardinality(K) \in Nat
  BY <1>2, FS_CardinalityType
<1>9. Cardinality(K \ {1}) = IF 1 \in K THEN Cardinality(K) - 1 ELSE Cardinality(K)
  BY <1>2, FS_RemoveElement
<1>10. 1 \in K <=> Head(q) \in A
  BY <1>1
<1>11. Count(q, A) = Cardinality(K) /\ Count(Tail(q), A) = Cardinality(K2)
  BY DEF Count
<1> HIDE DEF K, K2
<1> QED
  BY <1>7, <1>8, <1>9, <1>10, <1>11
-----------------------------------------------------------------------------
(***************************************************************************)
(* AcksConserved: what each step does to the ACKs of d for s.              *)
(***************************************************************************)

\* The three counts that Owed adds up.
LEMMA OwedType ==
    ASSUME TypeOK, NEW s \in Node, NEW d \in Node
    PROVE  /\ Count(air[d][s], Acks(d, s)) \in Nat
           /\ Count(replies[d], Acks(d, s)) \in Nat
           /\ Count(response_queue[s], Acks(d, s)) \in Nat
           /\ confirmed[s][d] \in Nat
           /\ Len(accepted[d][s]) \in Nat /\ Len(dropped[d][s]) \in Nat
<1>1. /\ air[d][s] \in Seq(Frame) /\ replies[d] \in Seq(Frame)
      /\ response_queue[s] \in Seq(Frame)
      /\ confirmed[s][d] \in Nat
      /\ accepted[d][s] \in Seq(Nat) /\ dropped[d][s] \in Seq(Nat)
  BY DEF TypeOK
<1> QED
  BY <1>1, CountType, LenProperties

\* A transmission adds its frame to a line, or nothing.
LEMMA TransmitCount ==
    ASSUME TypeOK, NEW f \in Frame, Transmit(f), NEW s \in Node, NEW d \in Node
    PROVE  Count(air'[d][s], Acks(d, s)) =<
              IF f \in Acks(d, s) THEN Count(air[d][s], Acks(d, s)) + 1
              ELSE Count(air[d][s], Acks(d, s))
<1> DEFINE A == Acks(d, s)
<1>1. air[d][s] \in Seq(Frame) /\ Count(air[d][s], A) \in Nat
  BY CountType DEF TypeOK
<1>2. Corrupted(f) \in Frame /\ (Corrupted(f) \in A <=> f \in A)
  BY CorruptedFacts DEF Acks
<1>3. \/ air'[d][s] = air[d][s]
      \/ \E g \in {f, Corrupted(f)} : air'[d][s] = Append(air[d][s], g)
  BY TransmitFacts
<1> HIDE DEF A
<1>4. CASE air'[d][s] = air[d][s]
  BY <1>1, <1>4 DEF A
<1>5. ASSUME NEW g \in {f, Corrupted(f)}, air'[d][s] = Append(air[d][s], g)
      PROVE  Count(air'[d][s], A) =
                IF f \in A THEN Count(air[d][s], A) + 1 ELSE Count(air[d][s], A)
  <2>1. g \in Frame /\ (g \in A <=> f \in A)
    BY <1>2
  <2>2. Count(Append(air[d][s], g), A) =
           IF g \in A THEN Count(air[d][s], A) + 1 ELSE Count(air[d][s], A)
    BY <1>1, <2>1, CountAppend
  <2> QED
    BY <1>5, <2>1, <2>2
<1> QED
  BY <1>1, <1>3, <1>4, <1>5 DEF A

\* Reading an answer takes it from the queue of its reader.
LEMMA PollCount ==
    ASSUME TypeOK, NEW n \in Node, Poll(n), NEW s \in Node, NEW A
    PROVE  Count(response_queue[s], A) =
              IF s = n /\ Polled(n) \in A THEN Count(response_queue'[s], A) + 1
              ELSE Count(response_queue'[s], A)
<1>1. /\ response_queue[n] \in Seq(Frame) /\ response_queue[n] # <<>>
      /\ response_queue'[n] = Tail(response_queue[n])
      /\ \A m \in Node \ {n} : response_queue'[m] = response_queue[m]
  BY PollFacts
<1> QED
  BY <1>1, CountTail DEF Polled

\* The frame that the listener of n reads was on the line from m.
LEMMA ListenCount ==
    ASSUME IInv, NEW n \in Node, NEW m \in Node, Arriving(n, m), TakeFrame(n, m),
           NEW s \in Node, NEW d \in Node
    PROVE  /\ Count(air[d][s], Acks(d, s)) =
                 IF Arrived(n, m) \in Acks(d, s) THEN Count(air'[d][s], Acks(d, s)) + 1
                 ELSE Count(air'[d][s], Acks(d, s))
           /\ Arrived(n, m) \in Frame /\ Arrived(n, m).from = m /\ Arrived(n, m).to = n
           /\ Arrived(n, m) \in Range(air[m][n])
           /\ \A x, y \in Node : Range(air'[x][y]) \subseteq Range(air[x][y])
<1>1. /\ air'[m][n] = Tail(air[m][n])
      /\ air[m][n] \in Seq(Frame) /\ air[m][n] # <<>>
      /\ \A x, y \in Node : x # m \/ y # n => air'[x][y] = air[x][y]
  BY ArrivingFacts DEF IInv
<1>2. /\ Arrived(n, m) \in Frame /\ Arrived(n, m) \in Range(air[m][n])
      /\ Range(air'[m][n]) \subseteq Range(air[m][n])
  BY <1>1, TailFacts DEF Arrived
<1>3. Arrived(n, m).from = m /\ Arrived(n, m).to = n
  BY <1>2, FramesOfLine
<1>4. CASE d = m /\ s = n
  BY <1>1, <1>2, <1>3, <1>4, CountTail DEF Arrived
<1>5. CASE ~ (d = m /\ s = n)
  BY <1>1, <1>2, <1>3, <1>5 DEF Acks
<1> QED
  BY <1>1, <1>2, <1>3, <1>4, <1>5

\* The same three counts after a step.
LEMMA OwedTypeNext ==
    ASSUME TypeOK', NEW s \in Node, NEW d \in Node
    PROVE  /\ Count(air'[d][s], Acks(d, s)) \in Nat
           /\ Count(replies'[d], Acks(d, s)) \in Nat
           /\ Count(response_queue'[s], Acks(d, s)) \in Nat
<1>1. /\ air'[d][s] \in Seq(Frame) /\ replies'[d] \in Seq(Frame)
      /\ response_queue'[s] \in Seq(Frame)
  BY DEF TypeOK
<1> QED
  BY <1>1, CountType

\* It is enough that a step adds no more to the left of the inequality than to its right.
LEMMA OwedSuffices ==
    ASSUME TypeOK, TypeOK', AcksOwed, NEW s \in Node, NEW d \in Node, NEW e \in Nat,
           confirmed'[s][d] \in Nat,
           confirmed'[s][d] + Count(air'[d][s], Acks(d, s)) + Count(replies'[d], Acks(d, s))
               + Count(response_queue'[s], Acks(d, s)) =<
           confirmed[s][d] + Count(air[d][s], Acks(d, s)) + Count(replies[d], Acks(d, s))
               + Count(response_queue[s], Acks(d, s)) + e,
           Len(accepted'[d][s]) + Len(dropped'[d][s]) =
               Len(accepted[d][s]) + Len(dropped[d][s]) + e
    PROVE  confirmed'[s][d] + Owed(s, d)' =< Len(accepted'[d][s]) + Len(dropped'[d][s])
<1>1. confirmed[s][d] + Owed(s, d) =< Len(accepted[d][s]) + Len(dropped[d][s])
  BY DEF AcksOwed
<1>2. /\ Owed(s, d) = Count(air[d][s], Acks(d, s)) + Count(replies[d], Acks(d, s))
                          + Count(response_queue[s], Acks(d, s))
      /\ Owed(s, d)' = Count(air'[d][s], Acks(d, s)) + Count(replies'[d], Acks(d, s))
                          + Count(response_queue'[s], Acks(d, s))
  BY DEF Owed, Acks
<1>3. /\ Count(air[d][s], Acks(d, s)) \in Nat
      /\ Count(replies[d], Acks(d, s)) \in Nat
      /\ Count(response_queue[s], Acks(d, s)) \in Nat
      /\ confirmed[s][d] \in Nat
      /\ Len(accepted[d][s]) \in Nat /\ Len(dropped[d][s]) \in Nat
  BY OwedType
<1>4. /\ Count(air'[d][s], Acks(d, s)) \in Nat
      /\ Count(replies'[d], Acks(d, s)) \in Nat
      /\ Count(response_queue'[s], Acks(d, s)) \in Nat
  BY OwedTypeNext
<1> DEFINE a == Count(air[d][s], Acks(d, s))
           b == Count(replies[d], Acks(d, s))
           c == Count(response_queue[s], Acks(d, s))
           x == confirmed[s][d]
           k == Len(accepted[d][s])
           j == Len(dropped[d][s])
           a2 == Count(air'[d][s], Acks(d, s))
           b2 == Count(replies'[d], Acks(d, s))
           c2 == Count(response_queue'[s], Acks(d, s))
           x2 == confirmed'[s][d]
<1>5. /\ a \in Nat /\ b \in Nat /\ c \in Nat /\ x \in Nat /\ k \in Nat /\ j \in Nat
      /\ a2 \in Nat /\ b2 \in Nat /\ c2 \in Nat /\ x2 \in Nat
      /\ x2 + a2 + b2 + c2 =< x + a + b + c + e
      /\ x + (a + b + c) =< k + j
  BY <1>1, <1>2, <1>3, <1>4
<1>6. x2 + (a2 + b2 + c2) =< k + j + e
  <2> DEFINE m == a + b + c
             m2 == a2 + b2 + c2
             p == k + j
  <2> HIDE DEF a, b, c, x, k, j, a2, b2, c2, x2
  <2>1. m \in Nat /\ x + a + b + c = x + m
    BY <1>5
  <2>2. m2 \in Nat /\ x2 + a2 + b2 + c2 = x2 + m2
    BY <1>5
  <2>3. p \in Nat /\ x + m =< p
    BY <1>5
  <2>4. x2 + m2 =< x + m + e
    BY <1>5, <2>1, <2>2
  <2> HIDE DEF m, m2, p
  <2>5. x2 + m2 =< p + e
    BY <1>5, <2>1, <2>2, <2>3, <2>4
  <2> QED
    BY <2>5 DEF m2, p
<1> QED
  BY <1>2, <1>6

\* A message is not an ACK.
LEMMA DataNoAck ==
    ASSUME NEW f, IsData(f)
    PROVE  /\ "ACK" \notin f.flags
           /\ \A s, d : f \notin Acks(d, s)
  BY DEF IsData, IsResponse, Acks

\* send_with_ack adds a message to a line, and no ACK.
LEMMA OwedSend ==
    ASSUME IInv, TypeOK', AcksOwed, NEW n \in Node, NEW e \in Node, SendWithAck(n, e),
           NEW s \in Node, NEW d \in Node
    PROVE  confirmed'[s][d] + Owed(s, d)' =< Len(accepted'[d][s]) + Len(dropped'[d][s])
<1> DEFINE f == DataFrame(n, e, calls[n] + 1, NextToken(send_tokens[n][e]))
<1>0. TypeOK
  BY DEF IInv
<1>1. f \in Frame /\ IsData(f)
  <2>0. send_tokens \in [Node -> [Node -> Token]] /\ calls \in [Node -> Nat]
    BY <1>0 DEF TypeOK
  <2>1. send_tokens[n][e] \in Token /\ calls[n] + 1 \in Nat
    BY <2>0
  <2>2. NextToken(send_tokens[n][e]) \in Token
    BY <2>1, NextTokenType
  <2> QED
    BY <2>1, <2>2, DataFrameFacts
<1>2. /\ Transmit(f)
      /\ UNCHANGED <<response_queue, replies, confirmed, accepted, dropped>>
  BY DEF SendWithAck, queueVars
<1> HIDE DEF f
<1>3. Count(air'[d][s], Acks(d, s)) =< Count(air[d][s], Acks(d, s))
  BY <1>0, <1>1, <1>2, TransmitCount, DataNoAck
<1>4. /\ Count(air[d][s], Acks(d, s)) \in Nat /\ Count(air'[d][s], Acks(d, s)) \in Nat
      /\ Count(replies[d], Acks(d, s)) \in Nat /\ Count(response_queue[s], Acks(d, s)) \in Nat
      /\ confirmed[s][d] \in Nat
      /\ Len(accepted[d][s]) \in Nat /\ Len(dropped[d][s]) \in Nat
  BY <1>0, OwedType, OwedTypeNext
<1>5. Len(accepted'[d][s]) + Len(dropped'[d][s]) = Len(accepted[d][s]) + Len(dropped[d][s]) + 0
  BY <1>2, <1>4
<1>6. confirmed'[s][d] + Count(air'[d][s], Acks(d, s)) + Count(replies'[d], Acks(d, s))
               + Count(response_queue'[s], Acks(d, s)) =<
           confirmed[s][d] + Count(air[d][s], Acks(d, s)) + Count(replies[d], Acks(d, s))
               + Count(response_queue[s], Acks(d, s)) + 0
  BY <1>2, <1>3, <1>4
<1> QED
  BY <1>0, <1>2, <1>4, <1>5, <1>6, OwedSuffices

\* An ACK that is read is one ACK less and one success more; what else a poll does to the
\* ACKs is to throw one away.
LEMMA OwedPoll ==
    ASSUME IInv, TypeOK', AcksOwed, NEW n \in Node, PollStep(n),
           NEW s \in Node, NEW d \in Node
    PROVE  confirmed'[s][d] + Owed(s, d)' =< Len(accepted'[d][s]) + Len(dropped'[d][s])
<1>0. TypeOK
  BY DEF IInv
<1>1. Poll(n) /\ UNCHANGED <<replies, accepted, dropped>>
  BY DEF PollStep, GotForeign, GotAck, GotError, GotResend, GotLateRequest, GotRequest, Poll
<1>2. Count(air'[d][s], Acks(d, s)) =< Count(air[d][s], Acks(d, s))
  <2>1. CASE UNCHANGED air
    BY <1>0, <2>1, OwedType
  <2>2. CASE GotResend(n)
    <3> DEFINE f == DataFrame(n, call[n].dest, call[n].id, SwappedToken(n))
    <3>1. f \in Frame /\ IsData(f)
      BY <1>0, <1>1, <2>2, PollFacts, SwapFacts, DataFrameFacts DEF GotResend
    <3>2. Transmit(f)
      BY <2>2 DEF GotResend
    <3> HIDE DEF f
    <3> QED
      BY <1>0, <3>1, <3>2, TransmitCount, DataNoAck
  <2> QED
    BY <2>1, <2>2 DEF PollStep, GotForeign, GotAck, GotError, GotLateRequest
<1>3. Count(response_queue[s], Acks(d, s)) =
         IF s = n /\ Polled(n) \in Acks(d, s) THEN Count(response_queue'[s], Acks(d, s)) + 1
         ELSE Count(response_queue'[s], Acks(d, s))
  BY <1>0, <1>1, PollCount
<1>4. /\ Count(air[d][s], Acks(d, s)) \in Nat /\ Count(air'[d][s], Acks(d, s)) \in Nat
      /\ Count(response_queue[s], Acks(d, s)) \in Nat
      /\ Count(response_queue'[s], Acks(d, s)) \in Nat
      /\ Count(replies[d], Acks(d, s)) \in Nat
      /\ confirmed[s][d] \in Nat
      /\ Len(accepted[d][s]) \in Nat /\ Len(dropped[d][s]) \in Nat
  BY <1>0, OwedType, OwedTypeNext
<1>5. \/ confirmed'[s][d] = confirmed[s][d]
      \/ /\ confirmed'[s][d] = confirmed[s][d] + 1
         /\ s = n /\ Polled(n) \in Acks(d, s)
  <2>1. CASE UNCHANGED confirmed
    BY <2>1
  <2>2. CASE GotAck(n)
    <3>1. /\ confirmed' = [confirmed EXCEPT ![n][call[n].dest] = @ + 1]
          /\ Polled(n).from = call[n].dest /\ "ACK" \in Polled(n).flags
      BY <2>2 DEF GotAck, FromPeer
    <3>2. confirmed \in [Node -> [Node -> Nat]] /\ call[n].dest \in Node
      BY <1>0, <1>1, PollFacts DEF TypeOK
    <3>3. Polled(n) \in Frame /\ Polled(n) \in Range(response_queue[n])
      BY <1>0, <1>1, PollFacts, TailFacts DEF Polled
    <3>4. Polled(n).to = n
      BY <3>3, FramesOfQueue
    <3>5. CASE s = n /\ d = call[n].dest
      BY <3>1, <3>2, <3>3, <3>4, <3>5 DEF Acks
    <3>6. CASE ~ (s = n /\ d = call[n].dest)
      BY <3>1, <3>2, <3>6
    <3> QED
      BY <3>5, <3>6
  <2> QED
    BY <2>1, <2>2 DEF PollStep, GotForeign, GotError, GotResend, GotLateRequest, GotRequest
<1>6. confirmed'[s][d] \in Nat
  BY <1>4, <1>5
<1>7. Len(accepted'[d][s]) + Len(dropped'[d][s]) = Len(accepted[d][s]) + Len(dropped[d][s]) + 0
  BY <1>1, <1>4
<1>8. confirmed'[s][d] + Count(response_queue'[s], Acks(d, s)) =<
         confirmed[s][d] + Count(response_queue[s], Acks(d, s))
  BY <1>3, <1>4, <1>5
<1>9. Count(replies'[d], Acks(d, s)) = Count(replies[d], Acks(d, s))
  BY <1>1
<1>10. confirmed'[s][d] + Count(air'[d][s], Acks(d, s)) + Count(replies'[d], Acks(d, s))
               + Count(response_queue'[s], Acks(d, s)) =<
           confirmed[s][d] + Count(air[d][s], Acks(d, s)) + Count(replies[d], Acks(d, s))
               + Count(response_queue[s], Acks(d, s)) + 0
  BY <1>2, <1>4, <1>6, <1>8, <1>9, SMTT(30)
<1> QED
  BY <1>0, <1>6, <1>7, <1>10, OwedSuffices

\* The clock, a timeout and try_receive touch no answer.
LEMMA OwedUser ==
    ASSUME IInv, AcksOwed, NEW n \in Node, Tick(n) \/ ResponseTimeout(n) \/ TryReceive(n),
           NEW s \in Node, NEW d \in Node
    PROVE  confirmed'[s][d] + Owed(s, d)' =< Len(accepted'[d][s]) + Len(dropped'[d][s])
<1>1. UNCHANGED <<response_queue, replies, air, confirmed, accepted, dropped>>
  BY DEF Tick, ResponseTimeout, TryReceive, queueVars, history
<1>2. Owed(s, d)' = Owed(s, d)
  BY <1>1 DEF Owed, Acks
<1> QED
  BY <1>1, <1>2 DEF AcksOwed

\* The answers that a listener decides on are all that it owes.
LEMMA ReplyCount ==
    ASSUME TypeOK, NEW n \in Node, NEW m \in Node, replies[n] = <<>>,
           NEW s \in Node, NEW d \in Node, NEW a, Reply(n, m, a)
    PROVE  Count(replies'[d], Acks(d, s)) =
              IF d = n THEN Count(a, Acks(d, s)) ELSE Count(replies[d], Acks(d, s))
<1>1. replies \in [Node -> Seq(Frame)] /\ replies' = [replies EXCEPT ![n] = a]
  BY DEF TypeOK, Reply
<1>2. CASE d = n
  <2>1. replies'[d] = a
    BY <1>1, <1>2
  <2> QED
    BY <1>2, <2>1
<1>3. CASE d # n
  <2>1. replies'[d] = replies[d]
    BY <1>1, <1>3
  <2> QED
    BY <1>3, <2>1
<1> QED
  BY <1>2, <1>3

\* What a listener may answer: one frame, or an ERROR and then that frame.
Answers(n, m, fl, t) ==
    {<<Response(n, m, fl, t)>>, <<Response(n, m, {"ERROR"}, 0), Response(n, m, fl, t)>>}

\* The ACKs for s in an answer of n to m, of one frame or two.
LEMMA AnswerCount ==
    ASSUME NEW n \in Node, NEW m \in Node, NEW s \in Node, NEW d \in Node,
           NEW fl \in SUBSET Flag, NEW t \in Token,
           NEW a \in Answers(n, m, fl, t)
    PROVE  Count(a, Acks(d, s)) = IF d = n /\ s = m /\ "ACK" \in fl THEN 1 ELSE 0
<1> DEFINE f == Response(n, m, {"ERROR"}, 0)
           g == Response(n, m, fl, t)
           A == Acks(d, s)
<1>1. f \in Frame /\ g \in Frame
  BY FrameTypes, ZeroToken DEF Flag
<1>2. f \notin A /\ (g \in A <=> (d = n /\ s = m /\ "ACK" \in fl))
  BY <1>1 DEF Acks, Response
<1>3. Append(<<>>, g) = <<g>> /\ Append(<<>>, f) = <<f>>
  OBVIOUS
<1>4. Append(<<f>>, g) = <<f, g>>
  <2> HIDE DEF f, g
  <2>1. Append(<<f>>, g) \in Seq(Frame) /\ <<f, g>> \in Seq(Frame)
    BY <1>1
  <2>2. Len(Append(<<f>>, g)) = 2 /\ Len(<<f, g>>) = 2
    BY <1>1
  <2>3. Append(<<f>>, g)[1] = f /\ Append(<<f>>, g)[2] = g
    BY <1>1
  <2>4. \A i \in 1 .. 2 : Append(<<f>>, g)[i] = <<f, g>>[i]
    BY <2>3
  <2> QED
    BY <2>1, <2>2, <2>4, SeqEqual
<1> DEFINE e == <<>>
           p == <<f>>
           r == <<g>>
           w == <<f, g>>
<1>4a. e \in Seq(Frame) /\ p \in Seq(Frame)
  BY <1>1
<1>5. p = Append(e, f) /\ r = Append(e, g) /\ w = Append(p, g) /\ (a = r \/ a = w)
  BY <1>3, <1>4 DEF Answers
<1>6. Count(e, A) = 0
  BY CountEmpty
<1> HIDE DEF f, g, A, e, p, r, w
<1>7. /\ Count(p, A) = IF f \in A THEN Count(e, A) + 1 ELSE Count(e, A)
      /\ Count(r, A) = IF g \in A THEN Count(e, A) + 1 ELSE Count(e, A)
      /\ Count(w, A) = IF g \in A THEN Count(p, A) + 1 ELSE Count(p, A)
  <2>1. Count(Append(e, f), A) = IF f \in A THEN Count(e, A) + 1 ELSE Count(e, A)
    BY <1>1, <1>4a, CountAppend
  <2>2. Count(Append(e, g), A) = IF g \in A THEN Count(e, A) + 1 ELSE Count(e, A)
    BY <1>1, <1>4a, CountAppend
  <2>3. Count(Append(p, g), A) = IF g \in A THEN Count(p, A) + 1 ELSE Count(p, A)
    BY <1>1, <1>4a, CountAppend
  <2> QED
    BY <1>5, <2>1, <2>2, <2>3
<1>8. Count(r, A) = (IF g \in A THEN 1 ELSE 0) /\ Count(w, A) = (IF g \in A THEN 1 ELSE 0)
  BY <1>2, <1>6, <1>7
<1>9. Count(a, A) = IF g \in A THEN 1 ELSE 0
  BY <1>5, <1>8
<1> QED
  BY <1>2, <1>9 DEF f, g, A

\* A listener with nothing left to send that answers m owes it an ACK more, or none.
LEMMA ReplyOwes ==
    ASSUME TypeOK, NEW n \in Node, NEW m \in Node, replies[n] = <<>>,
           NEW s \in Node, NEW d \in Node,
           NEW fl \in SUBSET Flag, NEW t \in Token,
           NEW a \in Answers(n, m, fl, t), Reply(n, m, a)
    PROVE  Count(replies'[d], Acks(d, s)) =
              IF d = n /\ s = m /\ "ACK" \in fl THEN Count(replies[d], Acks(d, s)) + 1
              ELSE Count(replies[d], Acks(d, s))
<1>1. Count(a, Acks(d, s)) = IF d = n /\ s = m /\ "ACK" \in fl THEN 1 ELSE 0
  BY AnswerCount
<1>2. Count(replies[n], Acks(d, s)) = 0
  BY CountEmpty
<1> QED
  BY <1>1, <1>2, ReplyCount

\* A frame that is refused, and an answer handed over or lost, bring no new ACK.
LEMMA OwedRefuse ==
    ASSUME IInv, TypeOK', AcksOwed, NEW n \in Node, NEW m \in Node,
           ListenBadCrc(n, m) \/ ListenResponse(n, m) \/ ListenBadToken(n, m),
           NEW s \in Node, NEW d \in Node
    PROVE  confirmed'[s][d] + Owed(s, d)' =< Len(accepted'[d][s]) + Len(dropped'[d][s])
<1>0. TypeOK
  BY DEF IInv
<1>1. /\ Arriving(n, m) /\ TakeFrame(n, m) /\ replies[n] = <<>>
      /\ UNCHANGED <<confirmed, accepted, dropped>>
  BY DEF ListenBadCrc, ListenResponse, ListenBadToken, NewMessage, Arriving, history
<1>2. /\ Count(air[d][s], Acks(d, s)) =
            IF Arrived(n, m) \in Acks(d, s) THEN Count(air'[d][s], Acks(d, s)) + 1
            ELSE Count(air'[d][s], Acks(d, s))
      /\ Arrived(n, m) \in Frame /\ Arrived(n, m).from = m /\ Arrived(n, m).to = n
  BY <1>1, ListenCount
<1>3. /\ Count(air[d][s], Acks(d, s)) \in Nat /\ Count(air'[d][s], Acks(d, s)) \in Nat
      /\ Count(response_queue[s], Acks(d, s)) \in Nat
      /\ Count(response_queue'[s], Acks(d, s)) \in Nat
      /\ Count(replies[d], Acks(d, s)) \in Nat
      /\ confirmed[s][d] \in Nat
      /\ Len(accepted[d][s]) \in Nat /\ Len(dropped[d][s]) \in Nat
  BY <1>0, OwedType, OwedTypeNext
<1>4. Count(replies'[d], Acks(d, s)) = Count(replies[d], Acks(d, s))
  <2>1. CASE ListenResponse(n, m)
    BY <2>1 DEF ListenResponse
  <2>2. ASSUME NEW fl \in SUBSET Flag, NEW t \in Token, "ACK" \notin fl,
               Reply(n, m, <<Response(n, m, fl, t)>>)
        PROVE  Count(replies'[d], Acks(d, s)) = Count(replies[d], Acks(d, s))
    <3> DEFINE a == <<Response(n, m, fl, t)>>
    <3>1. a \in Answers(n, m, fl, t) /\ Reply(n, m, a)
      BY <2>2 DEF Answers
    <3> HIDE DEF a
    <3> QED
      BY <1>0, <1>1, <2>2, <3>1, ReplyOwes
  <2>3. {"RESEND"} \in SUBSET Flag /\ {"SYNC", "RESEND"} \in SUBSET Flag /\ 0 \in Token
    BY ZeroToken DEF Flag
  <2>4. CASE ListenBadCrc(n, m)
    <3>1. Reply(n, m, <<Response(n, m, {"RESEND"}, 0)>>)
      BY <2>4 DEF ListenBadCrc
    <3>2. "ACK" \notin {"RESEND"}
      OBVIOUS
    <3> QED
      BY <2>2, <2>3, <3>1, <3>2, Zenon
  <2>5. CASE ListenBadToken(n, m)
    <3>1. Reply(n, m, <<Response(n, m, {"SYNC", "RESEND"}, NextToken(recv_tokens[n][m]))>>)
      BY <2>5 DEF ListenBadToken
    <3>2. recv_tokens \in [Node -> [Node -> Token]]
      BY <1>0 DEF TypeOK
    <3>3. recv_tokens[n][m] \in Token
      BY <3>2
    <3>4. NextToken(recv_tokens[n][m]) \in Token
      BY <3>3, NextTokenType
    <3>5. "ACK" \notin {"SYNC", "RESEND"}
      OBVIOUS
    <3> QED
      BY <2>2, <2>3, <3>1, <3>4, <3>5, Zenon
  <2> QED
    BY <2>1, <2>4, <2>5
<1>5. Count(response_queue'[s], Acks(d, s)) =<
         IF Arrived(n, m) \in Acks(d, s) THEN Count(response_queue[s], Acks(d, s)) + 1
         ELSE Count(response_queue[s], Acks(d, s))
  <2>1. CASE UNCHANGED response_queue
    BY <1>3, <2>1
  <2>2. CASE response_queue' = [response_queue EXCEPT ![n] = Append(@, Arrived(n, m))]
    <3>1. response_queue \in [Node -> Seq(Frame)]
      BY <1>0 DEF TypeOK
    <3>2. CASE s = n
      <4>1. response_queue'[s] = Append(response_queue[s], Arrived(n, m))
        BY <2>2, <3>1, <3>2
      <4>2. response_queue[s] \in Seq(Frame)
        BY <3>1
      <4>3. Count(Append(response_queue[s], Arrived(n, m)), Acks(d, s)) =
               IF Arrived(n, m) \in Acks(d, s) THEN Count(response_queue[s], Acks(d, s)) + 1
               ELSE Count(response_queue[s], Acks(d, s))
        BY <1>2, <4>2, CountAppend
      <4> QED
        BY <1>3, <4>1, <4>3
    <3>3. CASE s # n
      <4>1. response_queue'[s] = response_queue[s]
        BY <2>2, <3>1, <3>3
      <4> QED
        BY <1>3, <4>1
    <3> QED
      BY <3>2, <3>3
  <2> QED
    BY <2>1, <2>2 DEF ListenBadCrc, ListenResponse, ListenBadToken, queueVars
<1>6. Len(accepted'[d][s]) + Len(dropped'[d][s]) = Len(accepted[d][s]) + Len(dropped[d][s]) + 0
  BY <1>1, <1>3
<1>7. Count(air'[d][s], Acks(d, s)) + Count(response_queue'[s], Acks(d, s)) =<
         Count(air[d][s], Acks(d, s)) + Count(response_queue[s], Acks(d, s))
  BY <1>2, <1>3, <1>5
<1>8. confirmed'[s][d] + Count(air'[d][s], Acks(d, s)) + Count(replies'[d], Acks(d, s))
               + Count(response_queue'[s], Acks(d, s)) =<
           confirmed[s][d] + Count(air[d][s], Acks(d, s)) + Count(replies[d], Acks(d, s))
               + Count(response_queue[s], Acks(d, s)) + 0
  BY <1>1, <1>3, <1>4, <1>7, SMTT(30)
<1> QED
  BY <1>0, <1>1, <1>3, <1>6, <1>8, OwedSuffices

\* A message that passes the token check makes one ACK, and pays for it.
LEMMA OwedAccept ==
    ASSUME IInv, TypeOK', AcksOwed, NEW n \in Node, NEW m \in Node,
           ListenNewMsg(n, m) \/ ListenQueueFull(n, m),
           NEW s \in Node, NEW d \in Node
    PROVE  confirmed'[s][d] + Owed(s, d)' =< Len(accepted'[d][s]) + Len(dropped'[d][s])
<1>0. TypeOK
  BY DEF IInv
<1>1. /\ Arriving(n, m) /\ TakeFrame(n, m) /\ replies[n] = <<>> /\ IsData(Arrived(n, m))
      /\ UNCHANGED <<confirmed, response_queue>>
  BY DEF ListenNewMsg, ListenQueueFull, AcceptToken, NewMessage, Arriving
<1>2. Count(air'[d][s], Acks(d, s)) = Count(air[d][s], Acks(d, s)) /\ Arrived(n, m).id \in Nat
  <2>1. Arrived(n, m) \in Frame
    BY <1>1, ListenCount
  <2> QED
    BY <1>1, <2>1, ListenCount, DataNoAck DEF Frame
<1>3. /\ Count(air[d][s], Acks(d, s)) \in Nat
      /\ Count(response_queue[s], Acks(d, s)) \in Nat
      /\ Count(replies[d], Acks(d, s)) \in Nat
      /\ confirmed[s][d] \in Nat
      /\ Len(accepted[d][s]) \in Nat /\ Len(dropped[d][s]) \in Nat
  BY <1>0, OwedType
<1>4. Count(replies'[d], Acks(d, s)) =
         IF d = n /\ s = m THEN Count(replies[d], Acks(d, s)) + 1
         ELSE Count(replies[d], Acks(d, s))
  <2> DEFINE fl == {"ACK"}
             a == <<Response(n, m, {"ACK"}, 0)>>
             b == <<Response(n, m, {"ERROR"}, 0), Response(n, m, {"ACK"}, 0)>>
  <2>1. fl \in SUBSET Flag /\ "ACK" \in fl /\ 0 \in Token
    BY ZeroToken DEF Flag
  <2>2. a \in Answers(n, m, fl, 0) /\ b \in Answers(n, m, fl, 0)
    BY DEF Answers
  <2>3. Reply(n, m, a) \/ Reply(n, m, b)
    BY DEF ListenNewMsg, ListenQueueFull
  <2> HIDE DEF fl, a, b
  <2> QED
    BY <1>0, <1>1, <2>1, <2>2, <2>3, ReplyOwes
<1> DEFINE e == IF d = n /\ s = m THEN 1 ELSE 0
<1>5. e \in Nat /\ Count(replies'[d], Acks(d, s)) = Count(replies[d], Acks(d, s)) + e
  BY <1>3, <1>4
<1>6. Len(accepted'[d][s]) + Len(dropped'[d][s]) = Len(accepted[d][s]) + Len(dropped[d][s]) + e
  <2>0. accepted \in [Node -> [Node -> Seq(Nat)]] /\ dropped \in [Node -> [Node -> Seq(Nat)]]
    BY <1>0 DEF TypeOK
  <2>1. CASE d = n /\ s = m
    <3>1. \/ /\ accepted'[d][s] = Append(accepted[d][s], Arrived(n, m).id)
             /\ dropped'[d][s] = dropped[d][s]
          \/ /\ dropped'[d][s] = Append(dropped[d][s], Arrived(n, m).id)
             /\ accepted'[d][s] = accepted[d][s]
      <4>1. CASE ListenNewMsg(n, m)
        <5>1. /\ accepted' = [accepted EXCEPT ![d][s] = Append(@, Arrived(n, m).id)]
              /\ dropped' = dropped
          BY <2>1, <4>1 DEF ListenNewMsg
        <5>2. accepted'[d][s] = Append(accepted[d][s], Arrived(n, m).id)
          BY <2>0, <5>1
        <5> QED
          BY <5>1, <5>2
      <4>2. CASE ListenQueueFull(n, m)
        <5>1. /\ dropped' = [dropped EXCEPT ![d][s] = Append(@, Arrived(n, m).id)]
              /\ accepted' = accepted
          BY <2>1, <4>2 DEF ListenQueueFull
        <5>2. dropped'[d][s] = Append(dropped[d][s], Arrived(n, m).id)
          BY <2>0, <5>1
        <5> QED
          BY <5>1, <5>2
      <4> QED
        BY <4>1, <4>2
    <3>2. accepted[d][s] \in Seq(Nat) /\ dropped[d][s] \in Seq(Nat)
      BY <2>0
    <3>3. /\ Len(Append(accepted[d][s], Arrived(n, m).id)) = Len(accepted[d][s]) + 1
          /\ Len(Append(dropped[d][s], Arrived(n, m).id)) = Len(dropped[d][s]) + 1
      <4> DEFINE x == Arrived(n, m).id
                 p == accepted[d][s]
                 q == dropped[d][s]
      <4>1. x \in Nat /\ p \in Seq(Nat) /\ q \in Seq(Nat)
        BY <1>2, <3>2
      <4> HIDE DEF x, p, q
      <4>2. Len(Append(p, x)) = Len(p) + 1 /\ Len(Append(q, x)) = Len(q) + 1
        BY <4>1
      <4> QED
        BY <4>2 DEF x, p, q
    <3>4. \/ /\ Len(accepted'[d][s]) = Len(accepted[d][s]) + 1
             /\ Len(dropped'[d][s]) = Len(dropped[d][s])
          \/ /\ Len(accepted'[d][s]) = Len(accepted[d][s])
             /\ Len(dropped'[d][s]) = Len(dropped[d][s]) + 1
      BY <3>1, <3>3
    <3>5. e = 1
      BY <2>1
    <3> DEFINE k == Len(accepted[d][s])
               j == Len(dropped[d][s])
               k2 == Len(accepted'[d][s])
               j2 == Len(dropped'[d][s])
    <3>6. k \in Nat /\ j \in Nat /\ ((k2 = k + 1 /\ j2 = j) \/ (k2 = k /\ j2 = j + 1))
      BY <1>3, <3>4
    <3> HIDE DEF e, k, j, k2, j2
    <3>7. k2 + j2 = k + j + e
      BY <3>5, <3>6
    <3> QED
      BY <3>7 DEF k, j, k2, j2
  <2>2. CASE ~ (d = n /\ s = m)
    <3>1. accepted'[d][s] = accepted[d][s] /\ dropped'[d][s] = dropped[d][s]
      BY <1>0, <2>2, ListenKept
    <3>2. e = 0
      BY <2>2
    <3> HIDE DEF e
    <3> QED
      BY <1>3, <3>1, <3>2
  <2> QED
    BY <2>1, <2>2
<1> HIDE DEF e
<1>7. confirmed'[s][d] + Count(air'[d][s], Acks(d, s)) + Count(replies'[d], Acks(d, s))
               + Count(response_queue'[s], Acks(d, s)) =<
           confirmed[s][d] + Count(air[d][s], Acks(d, s)) + Count(replies[d], Acks(d, s))
               + Count(response_queue[s], Acks(d, s)) + e
  BY <1>1, <1>2, <1>3, <1>5, SMTT(30)
<1> QED
  BY <1>0, <1>1, <1>3, <1>5, <1>6, <1>7, OwedSuffices

\* An answer that is sent moves from the listener to the line, or disappears.
LEMMA OwedReply ==
    ASSUME IInv, TypeOK', AcksOwed, NEW n \in Node, TransmitReply(n),
           NEW s \in Node, NEW d \in Node
    PROVE  confirmed'[s][d] + Owed(s, d)' =< Len(accepted'[d][s]) + Len(dropped'[d][s])
<1>0. TypeOK /\ replies \in [Node -> Seq(Frame)]
  BY DEF IInv, TypeOK
<1> DEFINE f == Head(replies[n])
<1>1. /\ replies[n] # <<>> /\ Transmit(f) /\ replies' = [replies EXCEPT ![n] = Tail(@)]
      /\ UNCHANGED <<confirmed, response_queue, accepted, dropped>>
  BY DEF TransmitReply, queueVars, history
<1>2. replies[n] \in Seq(Frame)
  BY <1>0
<1>3. f \in Frame /\ f \in Range(replies[n])
  BY <1>1, <1>2, TailFacts
<1>4. f.from = n
  BY <1>3, FramesOfReplies
<1>5. Count(replies[n], Acks(d, s)) =
         IF f \in Acks(d, s) THEN Count(Tail(replies[n]), Acks(d, s)) + 1
         ELSE Count(Tail(replies[n]), Acks(d, s))
  BY <1>1, <1>2, CountTail
<1>6. /\ d = n => replies'[d] = Tail(replies[n])
      /\ d # n => replies'[d] = replies[d]
  BY <1>0, <1>1
<1> HIDE DEF f
<1>7. Count(replies[d], Acks(d, s)) =
         IF f \in Acks(d, s) THEN Count(replies'[d], Acks(d, s)) + 1
         ELSE Count(replies'[d], Acks(d, s))
  <2>1. CASE d = n
    BY <1>5, <1>6, <2>1
  <2>2. CASE d # n
    BY <1>4, <1>6, <2>2 DEF Acks
  <2> QED
    BY <2>1, <2>2
<1>8. Count(air'[d][s], Acks(d, s)) =<
         IF f \in Acks(d, s) THEN Count(air[d][s], Acks(d, s)) + 1
         ELSE Count(air[d][s], Acks(d, s))
  BY <1>0, <1>1, <1>3, TransmitCount
<1>9. /\ Count(air[d][s], Acks(d, s)) \in Nat /\ Count(air'[d][s], Acks(d, s)) \in Nat
      /\ Count(response_queue[s], Acks(d, s)) \in Nat
      /\ Count(replies[d], Acks(d, s)) \in Nat /\ Count(replies'[d], Acks(d, s)) \in Nat
      /\ confirmed[s][d] \in Nat
      /\ Len(accepted[d][s]) \in Nat /\ Len(dropped[d][s]) \in Nat
  BY <1>0, OwedType, OwedTypeNext
<1>10. Count(air'[d][s], Acks(d, s)) + Count(replies'[d], Acks(d, s)) =<
          Count(air[d][s], Acks(d, s)) + Count(replies[d], Acks(d, s))
  BY <1>7, <1>8, <1>9
<1>11. confirmed'[s][d] + Count(air'[d][s], Acks(d, s)) + Count(replies'[d], Acks(d, s))
               + Count(response_queue'[s], Acks(d, s)) =<
           confirmed[s][d] + Count(air[d][s], Acks(d, s)) + Count(replies[d], Acks(d, s))
               + Count(response_queue[s], Acks(d, s)) + 0
  BY <1>1, <1>9, <1>10, SMTT(30)
<1>12. Len(accepted'[d][s]) + Len(dropped'[d][s]) = Len(accepted[d][s]) + Len(dropped[d][s]) + 0
  BY <1>1, <1>9
<1> QED
  BY <1>0, <1>1, <1>9, <1>11, <1>12, OwedSuffices

\* A device that loses power forgets its answers, read and unread.
LEMMA OwedReboot ==
    ASSUME IInv, TypeOK', AcksOwed, NEW n \in Node, Reboot(n),
           NEW s \in Node, NEW d \in Node
    PROVE  confirmed'[s][d] + Owed(s, d)' =< Len(accepted'[d][s]) + Len(dropped'[d][s])
<1>0. TypeOK /\ replies \in [Node -> Seq(Frame)] /\ response_queue \in [Node -> Seq(Frame)]
  BY DEF IInv, TypeOK
<1>1. /\ UNCHANGED <<air, confirmed, accepted, dropped>>
      /\ replies' = [replies EXCEPT ![n] = <<>>]
      /\ response_queue' = [response_queue EXCEPT ![n] = <<>>]
  BY DEF Reboot
<1>2. /\ Count(air[d][s], Acks(d, s)) \in Nat
      /\ Count(response_queue[s], Acks(d, s)) \in Nat
      /\ Count(replies[d], Acks(d, s)) \in Nat
      /\ confirmed[s][d] \in Nat
      /\ Len(accepted[d][s]) \in Nat /\ Len(dropped[d][s]) \in Nat
  BY <1>0, OwedType
<1>3. Count(replies'[d], Acks(d, s)) \in 0 .. Count(replies[d], Acks(d, s))
  <2>1. CASE d = n
    <3>1. replies'[d] = <<>>
      BY <1>0, <1>1, <2>1
    <3> QED
      BY <1>2, <3>1, CountEmpty
  <2>2. CASE d # n
    <3>1. replies'[d] = replies[d]
      BY <1>0, <1>1, <2>2
    <3> QED
      BY <1>2, <3>1
  <2> QED
    BY <2>1, <2>2
<1>4. Count(response_queue'[s], Acks(d, s)) \in 0 .. Count(response_queue[s], Acks(d, s))
  <2>1. CASE s = n
    <3>1. response_queue'[s] = <<>>
      BY <1>0, <1>1, <2>1
    <3> QED
      BY <1>2, <3>1, CountEmpty
  <2>2. CASE s # n
    <3>1. response_queue'[s] = response_queue[s]
      BY <1>0, <1>1, <2>2
    <3> QED
      BY <1>2, <3>1
  <2> QED
    BY <2>1, <2>2
<1>5. confirmed'[s][d] + Count(air'[d][s], Acks(d, s)) + Count(replies'[d], Acks(d, s))
               + Count(response_queue'[s], Acks(d, s)) =<
           confirmed[s][d] + Count(air[d][s], Acks(d, s)) + Count(replies[d], Acks(d, s))
               + Count(response_queue[s], Acks(d, s)) + 0
  BY <1>1, <1>2, <1>3, <1>4, SMTT(30)
<1>6. Len(accepted'[d][s]) + Len(dropped'[d][s]) = Len(accepted[d][s]) + Len(dropped[d][s]) + 0
  BY <1>1, <1>2
<1> QED
  BY <1>0, <1>1, <1>2, <1>5, <1>6, OwedSuffices

\* Every step leaves each ACK and each success paid for.
LEMMA AcksOwedStep ==
    ASSUME IInv, TypeOK', AcksOwed, Next
    PROVE  AcksOwed'
<1> SUFFICES ASSUME NEW s \in Node, NEW d \in Node
             PROVE  confirmed'[s][d] + Owed(s, d)' =<
                       Len(accepted'[d][s]) + Len(dropped'[d][s])
  BY DEF AcksOwed
<1>1. PICK n \in Node :
         \/ \E e \in Node : SendWithAck(n, e)
         \/ PollStep(n) \/ Tick(n) \/ ResponseTimeout(n) \/ TryReceive(n)
         \/ ListenStep(n) \/ Reboot(n)
  BY DEF Next
<1>2. CASE \E e \in Node : SendWithAck(n, e)
  BY <1>2, OwedSend
<1>3. CASE PollStep(n)
  BY <1>3, OwedPoll
<1>4. CASE Tick(n) \/ ResponseTimeout(n) \/ TryReceive(n)
  BY <1>4, OwedUser
<1>5. CASE ListenStep(n)
  BY <1>5, OwedRefuse, OwedAccept, OwedReply DEF ListenStep
<1>6. CASE Reboot(n)
  BY <1>6, OwedReboot
<1> QED
  BY <1>1, <1>2, <1>3, <1>4, <1>5, <1>6
-----------------------------------------------------------------------------
(***************************************************************************)
(* AckGenuine: what each step does to the calls, to the lines and to the   *)
(* ACKs on their way.                                                      *)
(***************************************************************************)

\* A step begins a call of a device, or leaves it the call it has; a call succeeds in GotAck.
LEMMA CallSteps ==
    ASSUME TypeOK, Next, NEW m \in Node
    PROVE  \/ \E e \in Node : SendWithAck(m, e)
           \/ /\ calls'[m] = calls[m]
              /\ call'[m].phase = "waiting" =>
                    /\ call[m].phase = "waiting"
                    /\ call'[m].id = call[m].id /\ call'[m].dest = call[m].dest
                    /\ call'[m].clean = call[m].clean
              /\ call'[m].phase = "success" =>
                    \/ call'[m] = call[m]
                    \/ /\ GotAck(m)
                       /\ call'[m].id = call[m].id /\ call'[m].dest = call[m].dest
                       /\ call'[m].clean = call[m].clean
<1>0. call \in [Node -> Call] /\ calls \in [Node -> Nat]
  BY DEF TypeOK
<1>1. PICK n \in Node :
         \/ \E e \in Node : SendWithAck(n, e)
         \/ PollStep(n) \/ Tick(n) \/ ResponseTimeout(n) \/ TryReceive(n)
         \/ ListenStep(n) \/ Reboot(n)
  BY DEF Next
<1>2. CASE \E e \in Node : SendWithAck(n, e)
  <2>1. n # m => call'[m] = call[m] /\ calls'[m] = calls[m]
    BY <1>0, <1>2 DEF SendWithAck
  <2> QED
    BY <1>2, <2>1
<1>3. CASE \E s \in Node : \/ ListenBadCrc(n, s) \/ ListenResponse(n, s) \/ ListenBadToken(n, s)
                           \/ ListenNewMsg(n, s) \/ ListenQueueFull(n, s)
  BY <1>3, ListenKept
<1>4. CASE \/ PollStep(n) \/ Tick(n) \/ ResponseTimeout(n) \/ TryReceive(n)
           \/ TransmitReply(n) \/ Reboot(n)
  <2>1. /\ calls' = calls
        /\ \A x \in Node \ {n} : call'[x] = call[x]
        /\ call'[n].phase = "waiting" =>
              /\ call[n].phase = "waiting"
              /\ call'[n].id = call[n].id /\ call'[n].dest = call[n].dest
              /\ call'[n].clean = call[n].clean
    BY <1>4, CallKept
  <2>2. CASE m # n
    BY <2>1, <2>2
  <2>3. CASE m = n
    <3>1. CASE GotAck(n)
      <4>1. call' = [call EXCEPT ![n].phase = "success", ![n].token = 0,
                                 ![n].allow_resend = FALSE, ![n].left = 0]
        BY <3>1 DEF GotAck, Return
      <4>2. /\ call'[n].id = call[n].id /\ call'[n].dest = call[n].dest
            /\ call'[n].clean = call[n].clean
        BY <1>0, <4>1 DEF Call
      <4> QED
        BY <2>1, <2>3, <3>1, <4>2
    <3>2. CASE ~ GotAck(n)
      <4>1. call'[n].phase = "success" => call'[n] = call[n]
        <5>1. CASE GotError(n) \/ ResponseTimeout(n)
          <6>1. call' = [call EXCEPT ![n].phase = "failure", ![n].token = 0,
                                     ![n].allow_resend = FALSE, ![n].left = 0]
            BY <5>1 DEF GotError, ResponseTimeout, Return
          <6>2. call'[n].phase = "failure"
            BY <1>0, <6>1 DEF Call
          <6> QED
            BY <6>2
        <5>2. CASE GotResend(n) \/ GotLateRequest(n) \/ Tick(n)
          <6>1. call[n].phase = "waiting"
            BY <5>2 DEF GotResend, GotLateRequest, GotRequest, Poll, Tick, Waiting
          <6>2. \/ call' = [call EXCEPT ![n].token = SwappedToken(n),
                                        ![n].allow_resend = FALSE, ![n].left = RESPONSE_TIMEOUT]
                \/ call' = [call EXCEPT ![n].token = SwappedToken(n)]
                \/ call' = [call EXCEPT ![n].left = @ - 1]
            BY <5>2 DEF GotResend, GotLateRequest, Tick
          <6>3. call'[n].phase = call[n].phase
            BY <1>0, <6>2 DEF Call
          <6> QED
            BY <6>1, <6>3
        <5>3. CASE Reboot(n)
          BY <1>0, <5>3 DEF Reboot, NoCall
        <5>4. CASE GotForeign(n) \/ TryReceive(n) \/ TransmitReply(n)
          BY <5>4 DEF GotForeign, TryReceive, TransmitReply
        <5> QED
          BY <1>4, <3>2, <5>1, <5>2, <5>3, <5>4 DEF PollStep
      <4> QED
        BY <2>1, <2>3, <4>1
    <3> QED
      BY <3>1, <3>2
  <2> QED
    BY <2>2, <2>3
<1> QED
  BY <1>1, <1>2, <1>3, <1>4 DEF ListenStep

\* What a step puts on a line: the message of a call that waits, or an answer that was owed.
LEMMA LineSteps ==
    ASSUME IInv, Next, NEW s \in Node, NEW d \in Node, NEW g \in Range(air'[s][d])
    PROVE  \/ g \in Range(air[s][d])
           \/ /\ IsData(g) /\ Waiting(s)'
              /\ call'[s].dest = d /\ g.id = call'[s].id
           \/ /\ ~ IsData(g)
              /\ g \in Acks(s, d) => \E f \in Range(replies[s]) : f \in Acks(s, d)
<1>0. /\ TypeOK /\ call \in [Node -> Call] /\ calls \in [Node -> Nat]
      /\ send_tokens \in [Node -> [Node -> Token]] /\ replies \in [Node -> Seq(Frame)]
  BY DEF IInv, TypeOK
<1>1. CASE air'[s][d] = air[s][d]
  BY <1>1
<1>2. ASSUME NEW n \in Node, NEW e \in Node, SendWithAck(n, e), g \notin Range(air[s][d])
      PROVE  /\ IsData(g) /\ Waiting(s)'
             /\ call'[s].dest = d /\ g.id = call'[s].id
  <2> DEFINE f == DataFrame(n, e, calls[n] + 1, NextToken(send_tokens[n][e]))
  <2>1. send_tokens[n][e] \in Token /\ calls[n] + 1 \in Nat
    BY <1>0
  <2>2. NextToken(send_tokens[n][e]) \in Token
    BY <2>1, NextTokenType
  <2>3. f \in Frame /\ f.from = n /\ f.to = e /\ f.id = calls[n] + 1 /\ IsData(f)
    BY <2>1, <2>2, DataFrameFacts
  <2>4. Transmit(f)
    BY <1>2 DEF SendWithAck
  <2> HIDE DEF f
  <2>5. s = f.from /\ d = f.to /\ g \in {f, Corrupted(f)}
    BY <1>0, <1>2, <2>3, <2>4, TransmitRange
  <2>6. g.id = f.id /\ IsData(g)
    BY <2>3, <2>5, CorruptedFacts
  <2>7. call'[n].phase = "waiting" /\ call'[n].dest = e /\ call'[n].id = calls[n] + 1
    BY <1>0, <1>2 DEF SendWithAck
  <2> QED
    BY <2>3, <2>5, <2>6, <2>7 DEF Waiting
<1>3. ASSUME NEW n \in Node, GotResend(n), g \notin Range(air[s][d])
      PROVE  /\ IsData(g) /\ Waiting(s)'
             /\ call'[s].dest = d /\ g.id = call'[s].id
  <2> DEFINE f == DataFrame(n, call[n].dest, call[n].id, SwappedToken(n))
  <2>1. /\ call[n].dest \in Node /\ call[n].id \in Nat /\ SwappedToken(n) \in Token
        /\ call[n].phase = "waiting"
    BY <1>0, <1>3, PollFacts, SwapFacts DEF GotResend, GotRequest, Poll, Waiting
  <2>2. /\ f \in Frame /\ f.from = n /\ f.to = call[n].dest /\ f.id = call[n].id
        /\ IsData(f)
    BY <2>1, DataFrameFacts
  <2>3. Transmit(f)
    BY <1>3 DEF GotResend
  <2> HIDE DEF f
  <2>4. s = f.from /\ d = f.to /\ g \in {f, Corrupted(f)}
    BY <1>0, <1>3, <2>2, <2>3, TransmitRange
  <2>5. g.id = f.id /\ IsData(g)
    BY <2>2, <2>4, CorruptedFacts
  <2>6. call' = [call EXCEPT ![n].token = SwappedToken(n),
                             ![n].allow_resend = FALSE, ![n].left = RESPONSE_TIMEOUT]
    BY <1>3 DEF GotResend
  <2>7. /\ call'[n].phase = call[n].phase /\ call'[n].dest = call[n].dest
        /\ call'[n].id = call[n].id
    BY <1>0, <2>6 DEF Call
  <2> QED
    BY <2>1, <2>2, <2>4, <2>5, <2>7 DEF Waiting
<1>4. ASSUME NEW n \in Node, TransmitReply(n), g \notin Range(air[s][d])
      PROVE  /\ ~ IsData(g)
             /\ g \in Acks(s, d) => \E f \in Range(replies[s]) : f \in Acks(s, d)
  <2> DEFINE f == Head(replies[n])
  <2>1. replies[n] # <<>> /\ Transmit(f) /\ replies[n] \in Seq(Frame)
    BY <1>0, <1>4 DEF TransmitReply
  <2>2. f \in Frame /\ f \in Range(replies[n])
    BY <2>1, TailFacts
  <2> HIDE DEF f
  <2>3. f.from = n /\ AnswerOK(f)
    BY <2>2, FramesOfReplies
  <2>4. s = f.from /\ d = f.to /\ g \in {f, Corrupted(f)}
    BY <1>0, <1>4, <2>1, <2>2, TransmitRange
  <2>5. /\ IsData(g) <=> IsData(f)
        /\ g \in Acks(s, d) => f \in Acks(s, d)
    BY <2>2, <2>4, CorruptedFacts DEF Acks
  <2>6. ~ IsData(f)
    BY <2>3 DEF AnswerOK, IsData
  <2> QED
    BY <2>2, <2>3, <2>4, <2>5, <2>6
<1>5. ASSUME NEW n \in Node, NEW m \in Node, Arriving(n, m), TakeFrame(n, m)
      PROVE  g \in Range(air[s][d])
  BY <1>5, ListenCount
<1>6. PICK n \in Node :
         \/ \E e \in Node : SendWithAck(n, e)
         \/ PollStep(n) \/ Tick(n) \/ ResponseTimeout(n) \/ TryReceive(n)
         \/ ListenStep(n) \/ Reboot(n)
  BY DEF Next
<1>7. CASE (\E e \in Node : SendWithAck(n, e)) \/ GotResend(n)
  BY <1>2, <1>3, <1>7
<1>8. CASE \/ GotForeign(n) \/ GotAck(n) \/ GotError(n) \/ GotLateRequest(n)
           \/ Tick(n) \/ ResponseTimeout(n) \/ TryReceive(n) \/ Reboot(n)
  <2>1. air' = air
    BY <1>8 DEF GotForeign, GotAck, GotError, GotLateRequest, Tick, ResponseTimeout,
                TryReceive, Reboot
  <2> QED
    BY <1>1, <2>1
<1>9. CASE ListenStep(n)
  <2>1. CASE TransmitReply(n)
    BY <1>4, <2>1
  <2>2. CASE \E m \in Node : Arriving(n, m) /\ TakeFrame(n, m)
    BY <1>5, <2>2
  <2> QED
    BY <1>9, <2>1, <2>2 DEF ListenStep, ListenBadCrc, ListenResponse, ListenBadToken,
            ListenNewMsg, ListenQueueFull, AcceptToken, NewMessage
<1> QED
  BY <1>6, <1>7, <1>8, <1>9 DEF PollStep

\* An ACK is decided on only when a message has passed the token check.
LEMMA ReplySteps ==
    ASSUME IInv, Next, NEW d \in Node, NEW f \in Range(replies'[d]), "ACK" \in f.flags
    PROVE  \/ f \in Range(replies[d])
           \/ \E m \in Node : /\ ListenNewMsg(d, m) \/ ListenQueueFull(d, m)
                              /\ f.to = m
<1>0. TypeOK /\ replies \in [Node -> Seq(Frame)]
  BY DEF IInv, TypeOK
<1>1. CASE replies'[d] = replies[d]
  BY <1>1
<1>2. ASSUME NEW n \in Node, NEW m \in Node, NEW a, Reply(n, m, a), f \notin Range(replies[d])
      PROVE  n = d /\ f \in Range(a)
  <2>1. replies' = [replies EXCEPT ![n] = a]
    BY <1>2 DEF Reply
  <2>2. n = d
    BY <1>0, <1>1, <1>2, <2>1
  <2>3. replies'[d] = a
    BY <1>0, <2>1, <2>2
  <2> QED
    BY <2>2, <2>3
<1>3. ASSUME NEW n \in Node, NEW m \in Node, ListenBadCrc(n, m) \/ ListenBadToken(n, m)
      PROVE  f \in Range(replies[d])
  <2>1. \A x : Range(<<x>>) = {x}
    BY DEF Range
  <2>2. PICK fl, t : "ACK" \notin fl /\ Reply(n, m, <<Response(n, m, fl, t)>>)
    BY <1>3 DEF ListenBadCrc, ListenBadToken
  <2>3. SUFFICES ASSUME f \notin Range(replies[d]) PROVE FALSE
    OBVIOUS
  <2>4. f \in Range(<<Response(n, m, fl, t)>>)
    <3> DEFINE a == <<Response(n, m, fl, t)>>
    <3>1. Reply(n, m, a)
      BY <2>2
    <3> HIDE DEF a
    <3>2. f \in Range(a)
      BY <1>2, <2>3, <3>1
    <3> QED
      BY <3>2 DEF a
  <2>5. f = Response(n, m, fl, t)
    BY <2>1, <2>4
  <2> QED
    BY <2>2, <2>5 DEF Response
<1>4. ASSUME NEW n \in Node, NEW m \in Node, ListenNewMsg(n, m) \/ ListenQueueFull(n, m),
             f \notin Range(replies[d])
      PROVE  n = d /\ f.to = m
  <2>1. \A x, y : Range(<<x>>) = {x} /\ Range(<<x, y>>) = {x, y}
    BY DEF Range
  <2> DEFINE a == <<Response(n, m, {"ACK"}, 0)>>
             b == <<Response(n, m, {"ERROR"}, 0), Response(n, m, {"ACK"}, 0)>>
  <2>2. Reply(n, m, a) \/ Reply(n, m, b)
    BY <1>4 DEF ListenNewMsg, ListenQueueFull
  <2>3. \A x \in Range(a) \cup Range(b) : x.to = m
    BY <2>1 DEF Response
  <2> HIDE DEF a, b
  <2>4. n = d /\ f \in Range(a) \cup Range(b)
    BY <1>2, <1>4, <2>2
  <2> QED
    BY <2>3, <2>4
<1>5. ASSUME NEW n \in Node, TransmitReply(n)
      PROVE  f \in Range(replies[d])
  <2>1. replies' = [replies EXCEPT ![n] = Tail(@)] /\ replies[n] # <<>>
    BY <1>5 DEF TransmitReply
  <2>2. CASE n # d
    BY <1>0, <1>1, <2>1, <2>2
  <2>3. CASE n = d
    <3>1. replies'[d] = Tail(replies[d]) /\ replies[d] # <<>> /\ replies[d] \in Seq(Frame)
      BY <1>0, <2>1, <2>3
    <3> QED
      BY <3>1, TailRange
  <2> QED
    BY <2>2, <2>3
<1>6. ASSUME NEW n \in Node, Reboot(n)
      PROVE  f \in Range(replies[d])
  <2>1. replies' = [replies EXCEPT ![n] = <<>>]
    BY <1>6 DEF Reboot
  <2>2. CASE n # d
    BY <1>0, <1>1, <2>1, <2>2
  <2>3. CASE n = d
    <3>1. replies'[d] = <<>>
      BY <1>0, <2>1, <2>3
    <3> QED
      BY <3>1 DEF Range
  <2> QED
    BY <2>2, <2>3
<1>7. PICK n \in Node :
         \/ \E e \in Node : SendWithAck(n, e)
         \/ PollStep(n) \/ Tick(n) \/ ResponseTimeout(n) \/ TryReceive(n)
         \/ ListenStep(n) \/ Reboot(n)
  BY DEF Next
<1>8. CASE \/ \E e \in Node : SendWithAck(n, e)
           \/ PollStep(n) \/ Tick(n) \/ ResponseTimeout(n) \/ TryReceive(n)
           \/ \E m \in Node : ListenResponse(n, m)
  <2>1. replies' = replies
    BY <1>8 DEF SendWithAck, PollStep, GotForeign, GotAck, GotError, GotResend, GotLateRequest,
                GotRequest, Poll, Tick, ResponseTimeout, TryReceive, ListenResponse
  <2> QED
    BY <2>1
<1>9. CASE ListenStep(n) /\ ~ \E m \in Node : ListenResponse(n, m)
  BY <1>3, <1>4, <1>5, <1>9 DEF ListenStep
<1> QED
  BY <1>6, <1>7, <1>8, <1>9

\* The queue of answers is filled from the lines.
LEMMA QueueSteps ==
    ASSUME IInv, Next, NEW s \in Node, NEW f \in Range(response_queue'[s])
    PROVE  \/ f \in Range(response_queue[s])
           \/ f \in Range(air[f.from][s]) /\ f.from \in Node
<1>0. TypeOK /\ response_queue \in [Node -> Seq(Frame)]
  BY DEF IInv, TypeOK
<1>1. CASE response_queue'[s] = response_queue[s]
  BY <1>1
<1>2. ASSUME NEW n \in Node, NEW m \in Node, ListenResponse(n, m)
      PROVE  \/ f \in Range(response_queue[s])
             \/ f \in Range(air[f.from][s]) /\ f.from \in Node
  <2>1. Arriving(n, m) /\ TakeFrame(n, m)
    BY <1>2 DEF ListenResponse
  <2>2. /\ Arrived(n, m) \in Frame /\ Arrived(n, m).from = m
        /\ Arrived(n, m) \in Range(air[m][n])
    BY <2>1, ListenCount
  <2>3. \/ response_queue' = response_queue
        \/ response_queue' = [response_queue EXCEPT ![n] = Append(@, Arrived(n, m))]
    BY <1>2 DEF ListenResponse
  <2>4. CASE n = s /\ response_queue' # response_queue
    <3>1. response_queue'[s] = Append(response_queue[s], Arrived(n, m))
      BY <1>0, <2>3, <2>4
    <3>2. response_queue[s] \in Seq(Frame)
      BY <1>0
    <3>3. f \in Range(response_queue[s]) \cup {Arrived(n, m)}
      BY <2>2, <3>1, <3>2, AppendFacts
    <3> QED
      BY <2>2, <2>4, <3>3
  <2>5. CASE n # s \/ response_queue' = response_queue
    BY <1>0, <1>1, <2>3, <2>5
  <2> QED
    BY <2>4, <2>5
<1>3. ASSUME NEW n \in Node, Poll(n)
      PROVE  f \in Range(response_queue[s])
  <2>1. /\ response_queue[n] \in Seq(Frame) /\ response_queue[n] # <<>>
        /\ response_queue'[n] = Tail(response_queue[n])
        /\ \A m \in Node \ {n} : response_queue'[m] = response_queue[m]
    BY <1>0, <1>3, PollFacts
  <2> QED
    BY <1>1, <2>1, TailRange
<1>4. ASSUME NEW n \in Node, Reboot(n)
      PROVE  f \in Range(response_queue[s])
  <2>1. response_queue' = [response_queue EXCEPT ![n] = <<>>]
    BY <1>4 DEF Reboot
  <2>2. CASE n # s
    BY <1>0, <1>1, <2>1, <2>2
  <2>3. CASE n = s
    <3>1. response_queue'[s] = <<>>
      BY <1>0, <2>1, <2>3
    <3> QED
      BY <3>1 DEF Range
  <2> QED
    BY <2>2, <2>3
<1>5. PICK n \in Node :
         \/ \E e \in Node : SendWithAck(n, e)
         \/ PollStep(n) \/ Tick(n) \/ ResponseTimeout(n) \/ TryReceive(n)
         \/ ListenStep(n) \/ Reboot(n)
  BY DEF Next
<1>6. CASE PollStep(n)
  BY <1>3, <1>6 DEF PollStep, GotForeign, GotAck, GotError, GotResend, GotLateRequest,
                    GotRequest
<1>7. CASE \/ \E e \in Node : SendWithAck(n, e)
           \/ Tick(n) \/ ResponseTimeout(n) \/ TryReceive(n)
           \/ ListenStep(n) /\ ~ \E m \in Node : ListenResponse(n, m)
  <2>1. response_queue' = response_queue
    BY <1>7 DEF SendWithAck, Tick, ResponseTimeout, TryReceive, ListenStep, ListenBadCrc,
                ListenBadToken, ListenNewMsg, ListenQueueFull, AcceptToken, TransmitReply,
                queueVars
  <2> QED
    BY <2>1
<1> QED
  BY <1>2, <1>4, <1>5, <1>6, <1>7

\* No step takes back that a message has passed the token check.
LEMMA PassedGrows ==
    ASSUME IInv, Next, NEW s \in Node, NEW d \in Node
    PROVE  /\ Passed(d, s) \subseteq Passed(d, s)'
           /\ ListenNewMsg(d, s) \/ ListenQueueFull(d, s) =>
                 Arrived(d, s).id \in Passed(d, s)'
<1>0. /\ TypeOK
      /\ accepted \in [Node -> [Node -> Seq(Nat)]] /\ dropped \in [Node -> [Node -> Seq(Nat)]]
  BY DEF IInv, TypeOK
<1>1. accepted[d][s] \in Seq(Nat) /\ dropped[d][s] \in Seq(Nat)
  BY <1>0
<1>2. ASSUME NEW n \in Node, NEW m \in Node, ListenNewMsg(n, m) \/ ListenQueueFull(n, m)
      PROVE  /\ Passed(d, s) \subseteq Passed(d, s)'
             /\ n = d /\ m = s => Arrived(d, s).id \in Passed(d, s)'
  <2>1. Arrived(n, m).id \in Nat
    <3>1. Arriving(n, m) /\ TakeFrame(n, m)
      BY <1>2 DEF ListenNewMsg, ListenQueueFull, AcceptToken, NewMessage
    <3>2. Arrived(n, m) \in Frame
      BY <3>1, ListenCount
    <3> QED
      BY <3>2 DEF Frame
  <2>2. CASE n = d /\ m = s
    <3>1. CASE ListenNewMsg(n, m)
      <4>1. /\ accepted' = [accepted EXCEPT ![d][s] = Append(@, Arrived(n, m).id)]
            /\ dropped' = dropped
        BY <2>2, <3>1 DEF ListenNewMsg
      <4>2. accepted'[d][s] = Append(accepted[d][s], Arrived(n, m).id)
        BY <1>0, <4>1
      <4>3. Range(accepted'[d][s]) = Range(accepted[d][s]) \cup {Arrived(n, m).id}
        BY <1>1, <2>1, <4>2, AppendFacts
      <4> QED
        BY <2>2, <4>1, <4>3 DEF Passed
    <3>2. CASE ListenQueueFull(n, m)
      <4>1. /\ dropped' = [dropped EXCEPT ![d][s] = Append(@, Arrived(n, m).id)]
            /\ accepted' = accepted
        BY <2>2, <3>2 DEF ListenQueueFull
      <4>2. dropped'[d][s] = Append(dropped[d][s], Arrived(n, m).id)
        BY <1>0, <4>1
      <4>3. Range(dropped'[d][s]) = Range(dropped[d][s]) \cup {Arrived(n, m).id}
        BY <1>1, <2>1, <4>2, AppendFacts, SMTT(30)
      <4> QED
        BY <2>2, <4>1, <4>3 DEF Passed
    <3> QED
      BY <1>2, <3>1, <3>2
  <2>3. CASE ~ (n = d /\ m = s)
    <3>0. \A x, y \in Node : x # n \/ y # m =>
                accepted'[x][y] = accepted[x][y] /\ dropped'[x][y] = dropped[x][y]
      BY <1>0, <1>2, ListenKept
    <3>1. accepted'[d][s] = accepted[d][s] /\ dropped'[d][s] = dropped[d][s]
      BY <2>3, <3>0
    <3> QED
      BY <2>3, <3>1 DEF Passed
  <2> QED
    BY <2>2, <2>3
<1>3. ASSUME UNCHANGED <<accepted, dropped>>
      PROVE  Passed(d, s) \subseteq Passed(d, s)'
  BY <1>3 DEF Passed
<1>4. UNCHANGED <<accepted, dropped>> \/ \E n, m \in Node : ListenNewMsg(n, m) \/ ListenQueueFull(n, m)
  <2>1. PICK n \in Node :
           \/ \E e \in Node : SendWithAck(n, e)
           \/ PollStep(n) \/ Tick(n) \/ ResponseTimeout(n) \/ TryReceive(n)
           \/ ListenStep(n) \/ Reboot(n)
    BY DEF Next
  <2>2. CASE \E e \in Node : SendWithAck(n, e)
    BY <2>2 DEF SendWithAck
  <2>3. CASE \/ PollStep(n) \/ Tick(n) \/ ResponseTimeout(n) \/ TryReceive(n)
             \/ TransmitReply(n) \/ Reboot(n)
    BY <1>0, <2>3, CallKept
  <2>4. CASE \E m \in Node : ListenBadCrc(n, m) \/ ListenResponse(n, m) \/ ListenBadToken(n, m)
    BY <2>4 DEF ListenBadCrc, ListenResponse, ListenBadToken, history
  <2>5. CASE \E m \in Node : ListenNewMsg(n, m) \/ ListenQueueFull(n, m)
    BY <2>5
  <2> QED
    BY <2>1, <2>2, <2>3, <2>4, <2>5 DEF ListenStep
<1>5. ListenNewMsg(d, s) \/ ListenQueueFull(d, s) => Arrived(d, s).id \in Passed(d, s)'
  BY <1>2
<1> QED
  BY <1>2, <1>3, <1>4, <1>5

\* An ACK of d for s that is new comes from a message of s that has just passed.
LEMMA AckSteps ==
    ASSUME IInv, Next, NEW s \in Node, NEW d \in Node, AckUnderWay(d, s)'
    PROVE  \/ AckUnderWay(d, s)
           \/ \E f \in Range(air[s][d]) : IsData(f) /\ f.id \in Passed(d, s)'
<1>1. PICK f \in Range(air'[d][s]) \cup Range(replies'[d]) \cup Range(response_queue'[s]) :
         f \in Acks(d, s)
  BY DEF AckUnderWay, Acks
<1>2. f.from = d /\ f.to = s /\ "ACK" \in f.flags /\ ~ IsData(f)
  BY <1>1, DataNoAck DEF Acks
<1>3. CASE f \in Range(air'[d][s])
  BY <1>1, <1>2, <1>3, LineSteps DEF AckUnderWay
<1>4. CASE f \in Range(replies'[d])
  <2>1. CASE f \in Range(replies[d])
    BY <1>1, <2>1 DEF AckUnderWay
  <2>2. CASE ListenNewMsg(d, s) \/ ListenQueueFull(d, s)
    <3>1. Arriving(d, s) /\ TakeFrame(d, s) /\ IsData(Arrived(d, s))
      BY <2>2 DEF ListenNewMsg, ListenQueueFull, AcceptToken, NewMessage
    <3>2. Arrived(d, s) \in Range(air[s][d])
      BY <3>1, ListenCount
    <3>3. Arrived(d, s).id \in Passed(d, s)'
      BY <2>2, PassedGrows
    <3> QED
      BY <3>1, <3>2, <3>3
  <2> QED
    BY <1>2, <1>4, <2>1, <2>2, ReplySteps
<1>5. CASE f \in Range(response_queue'[s])
  BY <1>1, <1>2, <1>5, QueueSteps DEF AckUnderWay
<1> QED
  BY <1>1, <1>3, <1>4, <1>5

\* A message stays on its line under the number of a call that has been made.
LEMMA NumberedStep ==
    ASSUME IInv, Numbered, Next
    PROVE  Numbered'
<1>0. /\ TypeOK /\ CallsOK /\ calls \in [Node -> Nat] /\ call \in [Node -> Call]
  BY DEF IInv, TypeOK
<1>1. ASSUME NEW n \in Node
      PROVE  /\ calls[n] =< calls'[n] /\ calls[n] \in Nat /\ calls'[n] \in Nat
             /\ Waiting(n)' => calls'[n] > 0 /\ call'[n].id = calls'[n]
  <2>1. CASE \E e \in Node : SendWithAck(n, e)
    <3>1. calls'[n] = calls[n] + 1 /\ call'[n].id = calls[n] + 1 /\ calls[n] \in Nat
      BY <1>0, <2>1 DEF SendWithAck
    <3> QED
      BY <3>1
  <2>2. CASE ~ \E e \in Node : SendWithAck(n, e)
    <3>1. /\ calls'[n] = calls[n]
          /\ call'[n].phase = "waiting" =>
                call[n].phase = "waiting" /\ call'[n].id = call[n].id
      BY <1>0, <2>2, CallSteps
    <3>2. /\ calls[n] \in Nat
          /\ call[n].phase = "waiting" => calls[n] > 0 /\ call[n].id = calls[n]
      BY <1>0 DEF Numbered, CallsOK, Waiting
    <3> QED
      BY <3>1, <3>2 DEF Waiting
  <2> QED
    BY <2>1, <2>2
<1>2. ASSUME NEW s \in Node, NEW d \in Node, NEW g \in Range(air'[s][d]), IsData(g)
      PROVE  g.id \in 1 .. calls'[s]
  <2>1. CASE g \in Range(air[s][d])
    <3>1. g.id \in 1 .. calls[s]
      BY <1>2, <2>1 DEF Numbered
    <3> QED
      BY <1>1, <3>1
  <2>2. CASE Waiting(s)' /\ g.id = call'[s].id
    <3>1. g.id = calls'[s] /\ calls'[s] > 0 /\ calls'[s] \in Nat
      BY <1>1, <2>2
    <3> QED
      BY <3>1
  <2> QED
    BY <1>2, <2>1, <2>2, LineSteps
<1> QED
  BY <1>1, <1>2 DEF Numbered

\* A call that began clean keeps to its own message and its own ACK while it waits.
LEMMA OwnAcksStep ==
    ASSUME IInv, OwnAcks, Next
    PROVE  OwnAcks'
<1>0. TypeOK /\ call \in [Node -> Call]
  BY DEF IInv, TypeOK
<1>a. SUFFICES ASSUME NEW n \in Node, Waiting(n)', call'[n].clean,
                      NEW d, d = call'[n].dest, NEW id, id = call'[n].id
               PROVE  /\ \A g \in Range(air'[n][d]) : IsData(g) => g.id = id
                      /\ AckUnderWay(d, n)' => id \in Passed(d, n)'
  BY DEF OwnAcks, OwnAck, AckUnderWay, Acks, Passed
<1>1. CASE \E e \in Node : SendWithAck(n, e)
  <2>1. PICK e \in Node : SendWithAck(n, e)
    BY <1>1
  <2>2. d = e /\ call'[n].clean = Clean(n, e)
    BY <1>0, <1>a, <2>1 DEF SendWithAck
  <2>3. d \in Node /\ Clean(n, d)
    BY <1>a, <2>2
  <2>4. /\ \A g \in Range(air[n][d]) : ~ IsData(g)
        /\ ~ AckUnderWay(d, n)
    <3>1. /\ \A f \in Range(air[n][d]) : ~ IsData(f)
          /\ \A f \in Range(air[d][n]) \cup Range(replies[d]) : f.to = n => ~ IsResponse(f)
          /\ \A f \in Range(response_queue[n]) : f.from # d
      BY <2>3 DEF Clean
    <3>2. \A f \in Acks(d, n) : f.from = d /\ f.to = n /\ IsResponse(f)
      BY DEF Acks, IsResponse
    <3>3. \A f \in Range(air[d][n]) \cup Range(replies[d]) \cup Range(response_queue[n]) :
             f \notin Acks(d, n)
      BY <3>1, <3>2
    <3> QED
      BY <3>1, <3>3 DEF AckUnderWay
  <2>5. ~ AckUnderWay(d, n)'
    BY <2>3, <2>4, AckSteps
  <2>6. \A g \in Range(air'[n][d]) : IsData(g) => g.id = id
    BY <1>a, <2>3, <2>4, LineSteps
  <2> QED
    BY <2>5, <2>6
<1>2. CASE ~ \E e \in Node : SendWithAck(n, e)
  <2>1. /\ Waiting(n) /\ id = call[n].id /\ d = call[n].dest /\ call[n].clean
    BY <1>0, <1>2, <1>a, CallSteps DEF Waiting
  <2>2. d \in Node
    BY <1>0, <2>1 DEF Call
  <2>3. /\ \A g \in Range(air[n][d]) : IsData(g) => g.id = id
        /\ AckUnderWay(d, n) => id \in Passed(d, n)
    BY <2>1 DEF OwnAcks, OwnAck
  <2>4. \A g \in Range(air'[n][d]) : IsData(g) => g.id = id
    BY <1>a, <2>2, <2>3, LineSteps
  <2>5. AckUnderWay(d, n)' => id \in Passed(d, n)'
    BY <2>2, <2>3, AckSteps, PassedGrows
  <2> QED
    BY <2>4, <2>5
<1> QED
  BY <1>1, <1>2

\* A call that began clean returns true only after its own message has passed.
LEMMA AckGenuineStep ==
    ASSUME IInv, OwnAcks, AckGenuine, Next
    PROVE  AckGenuine'
<1>0. TypeOK /\ call \in [Node -> Call]
  BY DEF IInv, TypeOK
<1>a. SUFFICES ASSUME NEW n \in Node, call'[n].phase = "success", call'[n].clean,
                      NEW d, d = call'[n].dest
               PROVE  call'[n].id \in Passed(d, n)'
  BY DEF AckGenuine, Passed
<1>1. ~ \E e \in Node : SendWithAck(n, e)
  <2>1. ASSUME NEW e \in Node, SendWithAck(n, e) PROVE call'[n].phase = "waiting"
    BY <1>0, <2>1 DEF SendWithAck
  <2> QED
    BY <1>a, <2>1
<1>2. CASE call'[n] = call[n]
  <2>1. d \in Node /\ d = call[n].dest
    BY <1>0, <1>2, <1>a DEF Call
  <2>2. call[n].id \in Passed(d, n)
    BY <1>2, <1>a, <2>1 DEF AckGenuine, Passed
  <2> QED
    BY <1>2, <2>1, <2>2, PassedGrows
<1>3. CASE /\ GotAck(n)
           /\ call'[n].id = call[n].id /\ call'[n].dest = call[n].dest
           /\ call'[n].clean = call[n].clean
  <2>1. Waiting(n) /\ Poll(n) /\ Polled(n).from = call[n].dest /\ "ACK" \in Polled(n).flags
    BY <1>3 DEF GotAck, Poll, FromPeer
  <2>2. Polled(n) \in Frame /\ Polled(n) \in Range(response_queue[n]) /\ call[n].dest \in Node
    BY <1>0, <2>1, PollFacts, TailFacts DEF Polled
  <2>3. Polled(n).to = n
    BY <2>2, FramesOfQueue
  <2>4. AckUnderWay(call[n].dest, n)
    BY <2>1, <2>2, <2>3 DEF AckUnderWay, Acks
  <2>5. call[n].id \in Passed(call[n].dest, n)
    BY <1>3, <1>a, <2>1, <2>4 DEF OwnAcks, OwnAck
  <2> QED
    BY <1>3, <1>a, <2>2, <2>5, PassedGrows
<1> QED
  BY <1>0, <1>1, <1>2, <1>3, <1>a, CallSteps
-----------------------------------------------------------------------------
(***************************************************************************)
(* The invariant of the ACKs.                                              *)
(***************************************************************************)
LEMMA AckInit == Init => AckInv
<1> SUFFICES ASSUME Init PROVE AckInv
  OBVIOUS
<1>1. IInv
  BY InvInit
<1>2. Range(<<>>) = {}
  BY DEF Range
<1>3. /\ \A s, d \in Node : /\ air[s][d] = <<>> /\ confirmed[s][d] = 0
                            /\ accepted[d][s] = <<>> /\ dropped[d][s] = <<>>
      /\ \A n \in Node : /\ replies[n] = <<>> /\ response_queue[n] = <<>>
                         /\ call[n].phase = "idle"
  BY DEF Init, NoCall
<1>4. Numbered
  BY <1>2, <1>3 DEF Numbered, Waiting
<1>5. AcksOwed
  <2> SUFFICES ASSUME NEW s \in Node, NEW d \in Node
               PROVE  confirmed[s][d] + Owed(s, d) =< Len(accepted[d][s]) + Len(dropped[d][s])
    BY DEF AcksOwed
  <2>1. Owed(s, d) = 0
    <3>1. /\ Count(air[d][s], Acks(d, s)) = 0 /\ Count(replies[d], Acks(d, s)) = 0
          /\ Count(response_queue[s], Acks(d, s)) = 0
      BY <1>3, CountEmpty
    <3> QED
      BY <3>1 DEF Owed
  <2>2. Len(accepted[d][s]) = 0 /\ Len(dropped[d][s]) = 0 /\ confirmed[s][d] = 0
    BY <1>3
  <2> QED
    BY <2>1, <2>2
<1>6. OwnAcks /\ AckGenuine
  BY <1>3 DEF OwnAcks, AckGenuine, Waiting
<1> QED
  BY <1>1, <1>4, <1>5, <1>6 DEF AckInv

\* Every step keeps it.
LEMMA AckStep ==
    ASSUME AckInv, [Next]_vars
    PROVE  AckInv'
<1>1. IInv /\ IInv' /\ TypeOK'
  BY InvStep DEF AckInv, IInv
<1>2. CASE Next
  <2>1. AcksOwed'
    BY <1>1, <1>2, AcksOwedStep DEF AckInv
  <2>2. Numbered'
    BY <1>1, <1>2, NumberedStep DEF AckInv
  <2>3. OwnAcks'
    BY <1>1, <1>2, OwnAcksStep DEF AckInv
  <2>4. AckGenuine'
    BY <1>1, <1>2, AckGenuineStep DEF AckInv
  <2> QED
    BY <1>1, <2>1, <2>2, <2>3, <2>4 DEF AckInv
<1>3. CASE UNCHANGED vars
  <2>1. UNCHANGED <<call, response_queue, replies, air, calls, accepted, dropped, confirmed>>
    BY <1>3 DEF vars, queueVars, history
  <2>2. Numbered' /\ OwnAcks' /\ AckGenuine' /\ AcksOwed'
    BY <2>1 DEF AckInv, Numbered, Waiting, OwnAcks, OwnAck, AckUnderWay, Acks, Passed,
                AckGenuine, AcksOwed, Owed
  <2> QED
    BY <1>1, <2>2 DEF AckInv
<1> QED
  BY <1>2, <1>3

\* The invariant of the ACKs holds in every reachable state, for any devices, capacities,
\* timeouts, faults, restarts, thresholds and token sizes.
THEOREM AckInvariance == Spec => []AckInv
<1>1. Init => AckInv
  BY AckInit
<1>2. AckInv /\ [Next]_vars => AckInv'
  BY AckStep
<1> QED
  BY <1>1, <1>2, PTL DEF Spec

\* The ACKs that are counted are at least none.
LEMMA InvConserved == AckInv => AcksConserved
<1> SUFFICES ASSUME AckInv, NEW s \in Node, NEW d \in Node
             PROVE  confirmed[s][d] =< Len(accepted[d][s]) + Len(dropped[d][s])
  BY DEF AcksConserved
<1>0. TypeOK
  BY DEF AckInv, IInv
<1>1. /\ Count(air[d][s], Acks(d, s)) \in Nat /\ Count(replies[d], Acks(d, s)) \in Nat
      /\ Count(response_queue[s], Acks(d, s)) \in Nat
      /\ confirmed[s][d] \in Nat
      /\ Len(accepted[d][s]) \in Nat /\ Len(dropped[d][s]) \in Nat
  BY <1>0, OwedType
<1>2. Owed(s, d) \in Nat
  BY <1>1 DEF Owed
<1> DEFINE c == confirmed[s][d]
           o == Owed(s, d)
           k == Len(accepted[d][s])
           j == Len(dropped[d][s])
<1>3. c + o =< k + j
  BY DEF AckInv, AcksOwed
<1>4. c \in Nat /\ o \in Nat /\ k \in Nat /\ j \in Nat
  BY <1>1, <1>2
<1>5. c =< k + j
  <2> HIDE DEF c, o, k, j
  <2> QED
    BY <1>3, <1>4
<1> QED
  BY <1>5

\* However frames are lost, damaged and delayed, and whoever restarts: no more calls of s
\* to d return true than messages of s have passed the token check of d.
THEOREM AcksAreConserved == Spec => []AcksConserved
  BY AckInvariance, InvConserved, PTL

\* A call that began with no earlier message of its device and no answer to one left
\* between the two devices returns true only if its own message passed the token check.
THEOREM AcksAreGenuine == Spec => []AckGenuine
<1>1. AckInv => AckGenuine
  BY DEF AckInv
<1> QED
  BY <1>1, AckInvariance, PTL

-----------------------------------------------------------------------------
(***************************************************************************)
(* TokensAgree: what the call reads before its ACK asks for no other token *)
(* than the one that passed.  First, what happens to the queues that an    *)
(* answer of d to s passes.                                                *)
(***************************************************************************)

\* A queue that asks for no other token, or that holds no ACK.
LEMMA AckLastOf ==
    ASSUME NEW q, NEW d, NEW s, NEW t,
           AskOnly(Range(q), d, s, t) \/ \A f \in Range(q) : f \notin Acks(d, s)
    PROVE  AckLast(q, d, s, t)
  BY DEF AckLast, AskOnly, Range

\* A frame joins the queue: behind an ACK there is nothing to ask.
LEMMA AckLastAppend ==
    ASSUME NEW q \in Seq(Frame), NEW f \in Frame, NEW d, NEW s, NEW t, AckLast(q, d, s, t),
           f \in Acks(d, s) => AskOnly(Range(q), d, s, t)
    PROVE  AckLast(Append(q, f), d, s, t)
<1> DEFINE p == Append(q, f)
           e == Len(q) + 1
<1>1. /\ Len(q) \in Nat /\ DOMAIN q = 1 .. Len(q) /\ DOMAIN p = 1 .. e
      /\ \A k \in DOMAIN q : p[k] = q[k]
      /\ p[e] = f
  BY AppendFacts
<1> SUFFICES ASSUME NEW j \in DOMAIN p, NEW k \in DOMAIN p,
                    j < k, p[j] \in Syncs(d, s), p[k] \in Acks(d, s)
             PROVE  p[j].token = t
  BY DEF AckLast
<1> HIDE DEF p
<1>2. j \in DOMAIN q /\ p[j] = q[j]
  BY <1>1
<1>3. CASE k \in DOMAIN q
  <2>1. p[k] = q[k]
    BY <1>1, <1>3
  <2> QED
    BY <1>2, <1>3, <2>1 DEF AckLast
<1>4. CASE k = e
  <2>1. AskOnly(Range(q), d, s, t) /\ q[j] \in Range(q)
    BY <1>1, <1>2, <1>4 DEF Range
  <2> QED
    BY <1>2, <2>1 DEF AskOnly
<1> QED
  BY <1>1, <1>3, <1>4

\* The first frame leaves the queue.
LEMMA AckLastTail ==
    ASSUME NEW q \in Seq(Frame), q # <<>>, NEW d, NEW s, NEW t, AckLast(q, d, s, t)
    PROVE  AckLast(Tail(q), d, s, t)
<1> DEFINE p == Tail(q)
<1>1. /\ DOMAIN q = 1 .. Len(q) /\ Len(q) \in Nat
      /\ DOMAIN p = 1 .. Len(q) - 1
      /\ \A k \in DOMAIN p : k + 1 \in DOMAIN q /\ p[k] = q[k + 1]
  BY TailFacts
<1> SUFFICES ASSUME NEW j \in DOMAIN p, NEW k \in DOMAIN p,
                    j < k, p[j] \in Syncs(d, s), p[k] \in Acks(d, s)
             PROVE  p[j].token = t
  BY DEF AckLast
<1> HIDE DEF p
<1>2. /\ j + 1 \in DOMAIN q /\ k + 1 \in DOMAIN q /\ j + 1 < k + 1
      /\ p[j] = q[j + 1] /\ p[k] = q[k + 1]
  BY <1>1
<1> QED
  BY <1>2 DEF AckLast

\* What is asked for at the head of a queue that holds an ACK.
LEMMA AckLastHead ==
    ASSUME NEW q \in Seq(Frame), q # <<>>, NEW d, NEW s, NEW t, AckLast(q, d, s, t),
           Head(q) \in Syncs(d, s), NEW f \in Range(Tail(q)), f \in Acks(d, s)
    PROVE  Head(q).token = t
<1> DEFINE p == Tail(q)
<1>1. /\ Head(q) = q[1] /\ 1 \in DOMAIN q
      /\ DOMAIN p = 1 .. Len(q) - 1 /\ Len(q) \in Nat
      /\ \A k \in DOMAIN p : k + 1 \in DOMAIN q /\ p[k] = q[k + 1]
  BY TailFacts
<1>2. PICK k \in DOMAIN p : f = p[k]
  BY DEF Range
<1> HIDE DEF p
<1>3. k + 1 \in DOMAIN q /\ q[k + 1] = f /\ 1 < k + 1
  BY <1>1, <1>2
<1> QED
  BY <1>1, <1>3 DEF AckLast

\* A change of one queue that brings no answer of d to s.
Quiet(q, p, d, s) ==
    /\ \A t : AckLast(q, d, s, t) => AckLast(p, d, s, t)
    /\ Range(p) \cap (Acks(d, s) \cup Syncs(d, s)) \subseteq Range(q)

LEMMA SameQuiet == \A q, d, s : Quiet(q, q, d, s)
  BY DEF Quiet

LEMMA TailQuiet ==
    ASSUME NEW q \in Seq(Frame), q # <<>>, NEW d, NEW s
    PROVE  Quiet(q, Tail(q), d, s)
  BY AckLastTail, TailRange DEF Quiet

LEMMA AppendQuiet ==
    ASSUME NEW q \in Seq(Frame), NEW f \in Frame, NEW d, NEW s,
           f \notin Acks(d, s), f \notin Syncs(d, s)
    PROVE  Quiet(q, Append(q, f), d, s)
<1>1. Range(Append(q, f)) = Range(q) \cup {f}
  BY AppendFacts
<1> QED
  BY <1>1, AckLastAppend DEF Quiet

\* A queue without such answers may take the place of any other.
LEMMA NewQuiet ==
    ASSUME NEW q, NEW p, NEW d, NEW s,
           \A f \in Range(p) : f \notin Acks(d, s) /\ f \notin Syncs(d, s)
    PROVE  Quiet(q, p, d, s)
  BY AckLastOf DEF Quiet

\* Nothing new is asked for or acknowledged, and what is asked for ahead of the ACKs stays.
Calm(q, a, r, q2, a2, r2, d, s) ==
    LET F == Range(q) \cup Range(a) \cup Range(r)
        G == Range(q2) \cup Range(a2) \cup Range(r2)
    IN  /\ \A t : AcksLast(q, a, r, d, s, t) => AcksLast(q2, a2, r2, d, s, t)
        /\ \A g \in G \cap Syncs(d, s) : \E f \in F \cap Syncs(d, s) : f.token = g.token
        /\ G \cap Acks(d, s) # {} => F \cap Acks(d, s) # {}

\* Three quiet changes at once.
LEMMA CalmKept ==
    ASSUME NEW q, NEW a, NEW r, NEW q2, NEW a2, NEW r2, NEW d, NEW s,
           Quiet(q, q2, d, s), Quiet(a, a2, d, s), Quiet(r, r2, d, s)
    PROVE  Calm(q, a, r, q2, a2, r2, d, s)
<1>1. ASSUME NEW t, AcksLast(q, a, r, d, s, t) PROVE AcksLast(q2, a2, r2, d, s, t)
  BY <1>1 DEF Quiet, AcksLast, AskOnly
<1>2. /\ Range(q2) \cap (Acks(d, s) \cup Syncs(d, s)) \subseteq Range(q)
      /\ Range(a2) \cap (Acks(d, s) \cup Syncs(d, s)) \subseteq Range(a)
      /\ Range(r2) \cap (Acks(d, s) \cup Syncs(d, s)) \subseteq Range(r)
  BY DEF Quiet
<1> QED
  BY <1>1, <1>2 DEF Calm

\* An answer moves from the line to the queue of its reader,
LEMMA CalmArrives ==
    ASSUME NEW q \in Seq(Frame), NEW a \in Seq(Frame), a # <<>>, NEW r, NEW d, NEW s
    PROVE  Calm(q, a, r, Append(q, Head(a)), Tail(a), r, d, s)
<1> DEFINE f == Head(a)
<1>1. f \in Frame /\ f \in Range(a) /\ Range(Tail(a)) \subseteq Range(a)
  BY TailFacts
<1>2. Range(Append(q, f)) = Range(q) \cup {f}
  BY <1>1, AppendFacts
<1> HIDE DEF f
<1>3. ASSUME NEW t, AcksLast(q, a, r, d, s, t)
      PROVE  AcksLast(Append(q, f), Tail(a), r, d, s, t)
  <2>1. f \in Acks(d, s) => AskOnly(Range(q), d, s, t)
    BY <1>1, <1>3 DEF AcksLast
  <2>2. AckLast(Append(q, f), d, s, t)
    BY <1>1, <1>3, <2>1, AckLastAppend DEF AcksLast
  <2>3. AckLast(Tail(a), d, s, t)
    BY <1>3, AckLastTail DEF AcksLast
  <2>4. Range(r) \cap Acks(d, s) # {} => AskOnly(Range(Tail(a)), d, s, t)
    BY <1>1, <1>3 DEF AcksLast, AskOnly
  <2>5. ASSUME (Range(Tail(a)) \cup Range(r)) \cap Acks(d, s) # {}
        PROVE  AskOnly(Range(q) \cup {f}, d, s, t)
    <3>1. AskOnly(Range(q), d, s, t)
      BY <1>1, <1>3, <2>5 DEF AcksLast
    <3>2. f \in Syncs(d, s) => f.token = t
      <4>1. CASE Range(r) \cap Acks(d, s) # {}
        BY <1>1, <1>3, <4>1 DEF AcksLast, AskOnly
      <4>2. CASE Range(Tail(a)) \cap Acks(d, s) # {}
        BY <1>3, <4>2, AckLastHead DEF AcksLast, f
      <4> QED
        BY <2>5, <4>1, <4>2
    <3> QED
      BY <3>1, <3>2 DEF AskOnly
  <2> QED
    BY <1>2, <1>3, <2>2, <2>3, <2>4, <2>5 DEF AcksLast
<1> QED
  BY <1>1, <1>2, <1>3 DEF Calm, f

\* or from the listener that owes it to the line, where it may be damaged.
LEMMA CalmLeaves ==
    ASSUME NEW q, NEW a \in Seq(Frame), NEW r \in Seq(Frame), r # <<>>, NEW d, NEW s,
           NEW g \in {Head(r), Corrupted(Head(r))}
    PROVE  Calm(q, a, r, q, Append(a, g), Tail(r), d, s)
<1> DEFINE f == Head(r)
<1>1. f \in Frame /\ f \in Range(r) /\ Range(Tail(r)) \subseteq Range(r)
  BY TailFacts
<1>2. /\ g \in Frame /\ g.token = f.token
      /\ g \in Acks(d, s) <=> f \in Acks(d, s)
      /\ g \in Syncs(d, s) <=> f \in Syncs(d, s)
  BY <1>1, CorruptedFacts DEF Acks, Syncs
<1>3. Range(Append(a, g)) = Range(a) \cup {g}
  BY <1>2, AppendFacts
<1> HIDE DEF f
<1>4. ASSUME NEW t, AcksLast(q, a, r, d, s, t)
      PROVE  AcksLast(q, Append(a, g), Tail(r), d, s, t)
  <2>1. g \in Acks(d, s) => AskOnly(Range(a), d, s, t)
    BY <1>1, <1>2, <1>4 DEF AcksLast
  <2>2. AckLast(Append(a, g), d, s, t)
    BY <1>2, <1>4, <2>1, AckLastAppend DEF AcksLast
  <2>3. AckLast(Tail(r), d, s, t)
    BY <1>4, AckLastTail DEF AcksLast
  <2>4. ASSUME Range(Tail(r)) \cap Acks(d, s) # {}
        PROVE  AskOnly(Range(a) \cup {g}, d, s, t)
    <3>1. AskOnly(Range(a), d, s, t)
      BY <1>1, <1>4, <2>4 DEF AcksLast
    <3>2. f \in Syncs(d, s) => f.token = t
      BY <1>4, <2>4, AckLastHead DEF AcksLast, f
    <3> QED
      BY <1>2, <3>1, <3>2 DEF AskOnly
  <2>5. ASSUME (Range(a) \cup {g} \cup Range(Tail(r))) \cap Acks(d, s) # {}
        PROVE  AskOnly(Range(q), d, s, t)
    BY <1>1, <1>2, <1>4, <2>5 DEF AcksLast
  <2> QED
    BY <1>3, <1>4, <2>2, <2>3, <2>4, <2>5 DEF AcksLast
<1>5. \A x \in Range(Append(a, g)) \cap Syncs(d, s) :
         \E y \in (Range(a) \cup Range(r)) \cap Syncs(d, s) : y.token = x.token
  BY <1>1, <1>2, <1>3
<1> QED
  BY <1>1, <1>2, <1>3, <1>4, <1>5 DEF Calm

\* The three queues from d to n, before and after a step.
CalmStep(n, d) ==
    Calm(response_queue[n], air[d][n], replies[d],
         response_queue'[n], air'[d][n], replies'[d], d, n)

\* What it says of the tokens asked for and of the ACKs.
LEMMA CalmFacts ==
    ASSUME TypeOK, TypeOK', NEW n \in Node, NEW d \in Node, CalmStep(n, d)
    PROVE  /\ Asked(d, n)' \subseteq Asked(d, n)
           /\ AckUnderWay(d, n)' => AckUnderWay(d, n)
           /\ \A t : AcksLast(response_queue[n], air[d][n], replies[d], d, n, t)
                     => AcksLast(response_queue'[n], air'[d][n], replies'[d], d, n, t)
<1> DEFINE F == Range(response_queue[n]) \cup Range(air[d][n]) \cup Range(replies[d])
           G == Range(response_queue'[n]) \cup Range(air'[d][n]) \cup Range(replies'[d])
<1>1. \A q \in Seq(Frame) : Range(q) \subseteq Frame
  BY DEF Range
<1>2. G \subseteq Frame
  <2>1. /\ response_queue'[n] \in Seq(Frame) /\ air'[d][n] \in Seq(Frame)
        /\ replies'[d] \in Seq(Frame)
    BY DEF TypeOK
  <2> QED
    BY <1>1, <2>1
<1>3. /\ \A g \in G \cap Syncs(d, n) : \E f \in F \cap Syncs(d, n) : f.token = g.token
      /\ G \cap Acks(d, n) # {} => F \cap Acks(d, n) # {}
      /\ \A t : AcksLast(response_queue[n], air[d][n], replies[d], d, n, t)
                => AcksLast(response_queue'[n], air'[d][n], replies'[d], d, n, t)
  BY DEF CalmStep, Calm
<1>4. ASSUME NEW t \in Asked(d, n)' PROVE t \in Asked(d, n)
  <2>1. PICK g \in G : g.from = d /\ g.to = n /\ "SYNC" \in g.flags /\ t = g.token
    BY DEF Asked
  <2>2. g \in G \cap Syncs(d, n)
    BY <1>2, <2>1 DEF Syncs
  <2>3. PICK f \in F \cap Syncs(d, n) : f.token = g.token
    BY <1>3, <2>2
  <2>4. f.from = d /\ f.to = n /\ "SYNC" \in f.flags
    BY <2>3 DEF Syncs
  <2> QED
    BY <2>1, <2>3, <2>4 DEF Asked
<1>5. AckUnderWay(d, n)' <=> G \cap Acks(d, n) # {}
  BY DEF AckUnderWay, Acks
<1>6. AckUnderWay(d, n) <=> F \cap Acks(d, n) # {}
  BY DEF AckUnderWay
<1> QED
  BY <1>3, <1>4, <1>5, <1>6

\* Transmitting what is no such answer is quiet.
LEMMA TransmitQuiet ==
    ASSUME TypeOK, NEW f \in Frame, Transmit(f), NEW n \in Node, NEW d \in Node,
           f \notin Acks(d, n), f \notin Syncs(d, n)
    PROVE  Quiet(air[d][n], air'[d][n], d, n)
<1>1. air[d][n] \in Seq(Frame)
  BY DEF TypeOK
<1>2. \A g \in {f, Corrupted(f)} : g \in Frame /\ g \notin Acks(d, n) /\ g \notin Syncs(d, n)
  BY CorruptedFacts DEF Acks, Syncs
<1>3. \/ air'[d][n] = air[d][n]
      \/ \E g \in {f, Corrupted(f)} : air'[d][n] = Append(air[d][n], g)
  BY TransmitFacts
<1> QED
  BY <1>1, <1>2, <1>3, AppendQuiet, SameQuiet

\* as no message is.
LEMMA MessageQuiet ==
    ASSUME NEW f, IsData(f), NEW d, NEW n
    PROVE  f \notin Acks(d, n) /\ f \notin Syncs(d, n)
  BY DEF IsData, IsResponse, Acks, Syncs

\* What the users' tasks send and read.
LEMMA CalmUser ==
    ASSUME IInv, NEW n \in Node, NEW d \in Node, NEW m \in Node,
           \/ \E e \in Node : SendWithAck(m, e)
           \/ PollStep(m) \/ Tick(m) \/ ResponseTimeout(m) \/ TryReceive(m)
    PROVE  CalmStep(n, d)
<1>0. /\ TypeOK /\ call \in [Node -> Call] /\ calls \in [Node -> Nat]
      /\ send_tokens \in [Node -> [Node -> Token]]
  BY DEF IInv, TypeOK
<1>1. replies' = replies
  BY DEF SendWithAck, PollStep, GotForeign, GotAck, GotError, GotResend, GotLateRequest,
         GotRequest, Poll, Tick, ResponseTimeout, TryReceive
<1>2. Quiet(air[d][n], air'[d][n], d, n)
  <2>1. CASE GotResend(m)
    <3>1. call[m].dest \in Node /\ call[m].id \in Nat
      BY <1>0 DEF Call
    <3>2. SwappedToken(m) \in Token
      BY <1>0, <2>1, SwapFacts DEF GotResend
    <3>3. Transmit(DataFrame(m, call[m].dest, call[m].id, SwappedToken(m)))
      BY <2>1 DEF GotResend
    <3>4. PICK f \in Frame : IsData(f) /\ Transmit(f)
      BY <3>1, <3>2, <3>3, DataFrameFacts
    <3> QED
      BY <1>0, <3>4, MessageQuiet, TransmitQuiet
  <2>2. CASE \E e \in Node : SendWithAck(m, e)
    <3>1. PICK e \in Node : SendWithAck(m, e)
      BY <2>2
    <3>2. NextToken(send_tokens[m][e]) \in Token /\ calls[m] + 1 \in Nat
      BY <1>0, NextTokenType
    <3>3. Transmit(DataFrame(m, e, calls[m] + 1, NextToken(send_tokens[m][e])))
      BY <3>1 DEF SendWithAck
    <3>4. PICK f \in Frame : IsData(f) /\ Transmit(f)
      BY <3>2, <3>3, DataFrameFacts
    <3> QED
      BY <1>0, <3>4, MessageQuiet, TransmitQuiet
  <2>3. CASE air' = air
    BY <2>3, SameQuiet
  <2> QED
    BY <2>1, <2>2, <2>3 DEF PollStep, GotForeign, GotAck, GotError, GotLateRequest,
            Tick, ResponseTimeout, TryReceive
<1>3. Quiet(response_queue[n], response_queue'[n], d, n)
  <2>1. CASE response_queue'[n] = response_queue[n]
    BY <2>1, SameQuiet
  <2>2. CASE PollStep(m) /\ response_queue'[n] # response_queue[n]
    <3>1. Poll(m)
      BY <2>2 DEF PollStep, GotForeign, GotAck, GotError, GotRequest, GotResend, GotLateRequest
    <3>2. /\ response_queue[n] \in Seq(Frame) /\ response_queue[n] # <<>>
          /\ response_queue'[n] = Tail(response_queue[n])
      BY <1>0, <2>2, <3>1, PollFacts
    <3> QED
      BY <3>2, TailQuiet
  <2>3. PollStep(m) \/ response_queue' = response_queue
    BY DEF SendWithAck, Tick, ResponseTimeout, TryReceive, queueVars
  <2> QED
    BY <2>1, <2>2, <2>3
<1> QED
  BY <1>1, <1>2, <1>3, SameQuiet, CalmKept DEF CalmStep

\* What a listener does with a frame, unless it is an intact message of n that d reads.
LEMMA CalmListener ==
    ASSUME IInv, NEW n \in Node, NEW d \in Node, n # d, NEW m \in Node, NEW s \in Node,
           \/ ListenBadCrc(m, s) \/ ListenResponse(m, s) \/ ListenBadToken(m, s)
           \/ ListenNewMsg(m, s) \/ ListenQueueFull(m, s),
           m = d /\ s = n => ListenBadCrc(m, s) \/ ListenResponse(m, s)
    PROVE  CalmStep(n, d)
<1>0. /\ TypeOK /\ response_queue \in [Node -> Seq(Frame)]
      /\ replies \in [Node -> Seq(Frame)]
  BY DEF IInv, TypeOK
<1>1. Arriving(m, s) /\ TakeFrame(m, s)
  BY DEF ListenBadCrc, ListenResponse, ListenBadToken, ListenNewMsg, ListenQueueFull,
         AcceptToken, NewMessage
<1>2. /\ air'[s][m] = Tail(air[s][m]) /\ Arrived(m, s) = Head(air[s][m])
      /\ air[s][m] \in Seq(Frame) /\ air[s][m] # <<>>
      /\ \A x, y \in Node : x # s \/ y # m => air'[x][y] = air[x][y]
  BY <1>0, <1>1, ArrivingFacts DEF Arrived
<1>3. Arrived(m, s) \in Frame /\ Arrived(m, s).from = s
  BY <1>1, ListenCount
<1>4. Quiet(air[d][n], air'[d][n], d, n)
  <2>1. CASE s = d /\ m = n
    BY <1>2, <2>1, TailQuiet
  <2>2. CASE ~ (s = d /\ m = n)
    BY <1>2, <2>2, SameQuiet
  <2> QED
    BY <2>1, <2>2
<1>5. CASE ListenResponse(m, s)
  <2>1. replies' = replies
    BY <1>5 DEF ListenResponse
  <2>2. \/ response_queue' = response_queue
        \/ response_queue' = [response_queue EXCEPT ![m] = Append(@, Arrived(m, s))]
    BY <1>5 DEF ListenResponse
  <2>3. CASE response_queue'[n] = response_queue[n]
    BY <1>4, <2>1, <2>3, SameQuiet, CalmKept DEF CalmStep
  <2>4. CASE m = n /\ response_queue'[n] = Append(response_queue[n], Arrived(m, s))
    <3>1. response_queue[n] \in Seq(Frame)
      BY <1>0
    <3>2. CASE s = d
      <4>1. /\ air[d][n] \in Seq(Frame) /\ air[d][n] # <<>> /\ Arrived(m, s) = Head(air[d][n])
            /\ air'[d][n] = Tail(air[d][n])
        BY <1>2, <2>4, <3>2
      <4>2. Calm(response_queue[n], air[d][n], replies[d],
                 Append(response_queue[n], Head(air[d][n])), Tail(air[d][n]), replies[d], d, n)
        BY <3>1, <4>1, CalmArrives
      <4> QED
        BY <2>1, <2>4, <4>1, <4>2 DEF CalmStep
    <3>3. CASE s # d
      <4>1. Arrived(m, s) \notin Acks(d, n) /\ Arrived(m, s) \notin Syncs(d, n)
        BY <1>3, <3>3 DEF Acks, Syncs
      <4>2. Quiet(response_queue[n], response_queue'[n], d, n)
        BY <1>3, <2>4, <3>1, <4>1, AppendQuiet
      <4> QED
        BY <1>4, <2>1, <4>2, SameQuiet, CalmKept DEF CalmStep
    <3> QED
      BY <3>2, <3>3
  <2> QED
    BY <1>0, <2>2, <2>3, <2>4
<1>6. CASE ~ ListenResponse(m, s)
  <2>1. response_queue' = response_queue
    BY <1>6 DEF ListenBadCrc, ListenBadToken, ListenNewMsg, ListenQueueFull, AcceptToken, queueVars
  <2>2. PICK a : /\ replies' = [replies EXCEPT ![m] = a]
                 /\ m = d => \A f \in Range(a) : f \notin Acks(d, n) /\ f \notin Syncs(d, n)
    <3>1. \A x, y : Range(<<x>>) = {x} /\ Range(<<x, y>>) = {x, y}
      BY DEF Range
    <3>2. CASE ListenBadCrc(m, s)
      <4> DEFINE f == Response(m, s, {"RESEND"}, 0)
                 a == <<f>>
      <4>1. replies' = [replies EXCEPT ![m] = a]
        BY <3>2 DEF ListenBadCrc, Reply
      <4>2. f \notin Acks(d, n) /\ f \notin Syncs(d, n)
        BY DEF Acks, Syncs, Response
      <4>3. Range(a) = {f}
        BY <3>1
      <4> HIDE DEF f, a
      <4> QED
        BY <4>1, <4>2, <4>3
    <3>3. CASE ListenBadToken(m, s)
      <4> DEFINE f == Response(m, s, {"SYNC", "RESEND"}, NextToken(recv_tokens[m][s]))
                 a == <<f>>
      <4>1. replies' = [replies EXCEPT ![m] = a]
        BY <3>3 DEF ListenBadToken, Reply
      <4>2. m # d \/ s # n
        <5>1. ~ ListenBadCrc(m, s)
          BY <3>3 DEF ListenBadCrc, ListenBadToken, NewMessage
        <5> QED
          BY <1>6, <5>1
      <4>3. m = d => f \notin Acks(d, n) /\ f \notin Syncs(d, n)
        BY <4>2 DEF Acks, Syncs, Response
      <4>4. Range(a) = {f}
        BY <3>1
      <4> HIDE DEF f, a
      <4> QED
        BY <4>1, <4>3, <4>4
    <3>4. CASE ListenNewMsg(m, s) \/ ListenQueueFull(m, s)
      <4> DEFINE f == Response(m, s, {"ACK"}, 0)
                 e == Response(m, s, {"ERROR"}, 0)
                 a == <<f>>
                 b == <<e, f>>
      <4>1. replies' = [replies EXCEPT ![m] = a] \/ replies' = [replies EXCEPT ![m] = b]
        BY <3>4 DEF ListenNewMsg, ListenQueueFull, Reply
      <4>2. m # d \/ s # n
        <5>1. ~ ListenBadCrc(m, s)
          BY <3>4 DEF ListenBadCrc, ListenNewMsg, ListenQueueFull, AcceptToken, NewMessage
        <5> QED
          BY <1>6, <5>1
      <4>3. m = d => /\ f \notin Acks(d, n) /\ f \notin Syncs(d, n)
                     /\ e \notin Acks(d, n) /\ e \notin Syncs(d, n)
        BY <4>2 DEF Acks, Syncs, Response
      <4>4. Range(a) = {f} /\ Range(b) = {e, f}
        BY <3>1
      <4> HIDE DEF f, e, a, b
      <4> QED
        BY <4>1, <4>3, <4>4
    <3> QED
      BY <1>6, <3>2, <3>3, <3>4
  <2>3. Quiet(replies[d], replies'[d], d, n)
    <3>1. CASE m = d
      BY <1>0, <2>2, <3>1, NewQuiet
    <3>2. CASE m # d
      <4>1. replies'[d] = replies[d]
        BY <1>0, <2>2, <3>2
      <4> QED
        BY <4>1, SameQuiet
    <3> QED
      BY <3>1, <3>2
  <2> QED
    BY <1>4, <2>1, <2>3, SameQuiet, CalmKept DEF CalmStep
<1> QED
  BY <1>5, <1>6

\* What the listeners transmit.
LEMMA CalmReply ==
    ASSUME IInv, NEW n \in Node, NEW d \in Node, NEW m \in Node, TransmitReply(m)
    PROVE  CalmStep(n, d)
<1>0. TypeOK /\ replies \in [Node -> Seq(Frame)]
  BY DEF IInv, TypeOK
<1>1. /\ replies[m] # <<>> /\ Transmit(Head(replies[m]))
      /\ replies' = [replies EXCEPT ![m] = Tail(replies[m])]
      /\ response_queue' = response_queue
  BY DEF TransmitReply, queueVars
<1>2. Head(replies[m]) \in Frame /\ Head(replies[m]) \in Range(replies[m])
  BY <1>0, <1>1, TailFacts
<1>3. PICK f \in Frame : f = Head(replies[m])
  BY <1>2
<1>4. f.from = m /\ Transmit(f)
  BY <1>1, <1>2, <1>3, FramesOfReplies
<1>5. air[d][n] \in Seq(Frame) /\ replies[d] \in Seq(Frame)
  BY <1>0 DEF TypeOK
<1>6. Quiet(replies[d], replies'[d], d, n)
  <2>1. CASE m = d
    <3>1. replies'[d] = Tail(replies[d]) /\ replies[d] # <<>>
      BY <1>0, <1>1, <2>1
    <3> QED
      BY <1>5, <3>1, TailQuiet
  <2>2. CASE m # d
    <3>1. replies'[d] = replies[d]
      BY <1>0, <1>1, <2>2
    <3> QED
      BY <3>1, SameQuiet
  <2> QED
    BY <2>1, <2>2
<1>7. CASE Quiet(air[d][n], air'[d][n], d, n)
  BY <1>1, <1>6, <1>7, SameQuiet, CalmKept DEF CalmStep
<1>8. CASE m = d /\ f.to = n
  <2>1. replies'[d] = Tail(replies[d]) /\ replies[d] # <<>> /\ f = Head(replies[d])
    BY <1>0, <1>1, <1>3, <1>8
  <2>2. CASE air'[d][n] = air[d][n]
    BY <1>7, <2>2, SameQuiet
  <2>3. CASE \E g \in {f, Corrupted(f)} : air'[d][n] = Append(air[d][n], g)
    <3>1. PICK g \in {f, Corrupted(f)} : air'[d][n] = Append(air[d][n], g)
      BY <2>3
    <3>2. Calm(response_queue[n], air[d][n], replies[d],
               response_queue[n], Append(air[d][n], g), Tail(replies[d]), d, n)
      BY <1>5, <2>1, <3>1, CalmLeaves
    <3> QED
      BY <1>1, <2>1, <3>1, <3>2 DEF CalmStep
  <2> QED
    BY <1>0, <1>4, <1>8, <2>2, <2>3, TransmitFacts
<1>9. CASE ~ (m = d /\ f.to = n)
  <2>1. f \notin Acks(d, n) /\ f \notin Syncs(d, n)
    BY <1>4, <1>9 DEF Acks, Syncs
  <2> QED
    BY <1>0, <1>4, <1>7, <2>1, TransmitQuiet
<1> QED
  BY <1>8, <1>9

\* A restart empties queues.
LEMMA CalmReboot ==
    ASSUME TypeOK, NEW n \in Node, NEW d \in Node, NEW m \in Node, Reboot(m)
    PROVE  CalmStep(n, d)
<1>0. response_queue \in [Node -> Seq(Frame)] /\ replies \in [Node -> Seq(Frame)]
  BY DEF TypeOK
<1>1. /\ response_queue' = [response_queue EXCEPT ![m] = <<>>]
      /\ replies' = [replies EXCEPT ![m] = <<>>]
      /\ air' = air
  BY DEF Reboot
<1>2. Range(<<>>) = {}
  BY DEF Range
<1>3. \A q : Quiet(q, <<>>, d, n) /\ Quiet(q, q, d, n)
  BY <1>2, NewQuiet, SameQuiet
<1>4. /\ response_queue'[n] = response_queue[n] \/ response_queue'[n] = <<>>
      /\ replies'[d] = replies[d] \/ replies'[d] = <<>>
  BY <1>0, <1>1
<1> QED
  BY <1>1, <1>3, <1>4, CalmKept DEF CalmStep

\* Together: only a message of n that d reads intact brings n an ACK or a SYNC of d.
LEMMA CalmSteps ==
    ASSUME IInv, Next, NEW n \in Node, NEW d \in Node, n # d
    PROVE  \/ CalmStep(n, d)
           \/ ListenBadToken(d, n) \/ ListenNewMsg(d, n) \/ ListenQueueFull(d, n)
<1>0. TypeOK
  BY DEF IInv
<1>1. PICK m \in Node :
         \/ \E e \in Node : SendWithAck(m, e)
         \/ PollStep(m) \/ Tick(m) \/ ResponseTimeout(m) \/ TryReceive(m)
         \/ ListenStep(m) \/ Reboot(m)
  BY DEF Next
<1>2. CASE \/ \E e \in Node : SendWithAck(m, e)
           \/ PollStep(m) \/ Tick(m) \/ ResponseTimeout(m) \/ TryReceive(m)
  BY <1>2, CalmUser
<1>3. CASE ListenStep(m)
  <2>1. CASE TransmitReply(m)
    BY <2>1, CalmReply
  <2>2. ASSUME NEW s \in Node,
               \/ ListenBadCrc(m, s) \/ ListenResponse(m, s) \/ ListenBadToken(m, s)
               \/ ListenNewMsg(m, s) \/ ListenQueueFull(m, s)
        PROVE  \/ CalmStep(n, d)
               \/ ListenBadToken(d, n) \/ ListenNewMsg(d, n) \/ ListenQueueFull(d, n)
    BY <2>2, CalmListener
  <2> QED
    BY <1>3, <2>1, <2>2 DEF ListenStep
<1>4. CASE Reboot(m)
  BY <1>0, <1>4, CalmReboot
<1> QED
  BY <1>1, <1>2, <1>3, <1>4

\* A message that passes the token check is newer than all that have passed it.
LEMMA PassesNewest ==
    ASSUME IInv, NEW d \in Node \ Rebooter, NEW n \in Node, AcceptToken(d, n)
    PROVE  /\ Arrived(d, n).id \in Nat /\ Arrived(d, n).id =< calls[n]
           /\ \A id \in Passed(d, n) : id \in Nat /\ id < Arrived(d, n).id
<1>0. TypeOK /\ d \in Node /\ n # d
  BY DEF IInv, AcceptToken, NewMessage, Arriving
<1>1. /\ Arriving(d, n) /\ TakeFrame(d, n) /\ IsData(Arrived(d, n))
      /\ ValidToken(Arrived(d, n).token, recv_tokens[d][n])
  BY DEF AcceptToken, NewMessage
<1>2. /\ Arrived(d, n) \in Frame /\ Arrived(d, n) = air[n][d][1]
      /\ 1 \in DOMAIN air[n][d]
  BY <1>0, <1>1, ArrivingFacts, TailFacts DEF Arrived
<1>3. /\ Arrived(d, n).token \in Token /\ Arrived(d, n).id \in Nat
      /\ recv_tokens[d][n] \in Token
  <2>1. recv_tokens \in [Node -> [Node -> Token]]
    BY <1>0 DEF TypeOK
  <2>2. \A f \in Frame : f.token \in Token /\ f.id \in Nat
    BY DEF Frame
  <2> QED
    BY <1>0, <1>2, <2>1, <2>2
<1>4. Arrived(d, n).token > recv_tokens[d][n]
  BY <1>1, <1>3, ValidTokenGrows
<1>5. ASSUME NEW L \in {accepted[d][n], dropped[d][n]}
      PROVE  /\ Arrived(d, n).id =< calls[n]
             /\ \A i \in DOMAIN L : L[i] \in Nat /\ L[i] < Arrived(d, n).id
  <2>1. PairInv(air[n][d], recv_tokens[d][n], L, calls[n], Asked(d, n), Pending(n, d))
        /\ L \in Seq(Nat)
    BY <1>0, PairFacts
  <2>2. 1 \in Data(air[n][d])
    BY <1>1, <1>2 DEF Data
  <2>3. \A i \in DOMAIN L : L[i] < Arrived(d, n).id
    BY <1>2, <1>4, <2>1, <2>2 DEF PairInv, Fresh
  <2>4. Arrived(d, n).id =< calls[n]
    BY <1>2, <2>1, <2>2 DEF PairInv, Known
  <2>5. \A i \in DOMAIN L : L[i] \in Nat
    BY <2>1
  <2> QED
    BY <2>3, <2>4, <2>5
<1> QED
  BY <1>3, <1>5 DEF Passed, Range

\* So it does not pass it again.
LEMMA PassesOnce ==
    ASSUME IInv, NEW d \in Node \ Rebooter, NEW n \in Node, AcceptToken(d, n)
    PROVE  Arrived(d, n).id \notin Passed(d, n)
<1>1. /\ Arrived(d, n).id \in Nat
      /\ \A id \in Passed(d, n) : id \in Nat /\ id < Arrived(d, n).id
  BY PassesNewest
<1> QED
  BY <1>1

\* A device that keeps its memory changes its counter when a message passes, and not else.
LEMMA CounterSteps ==
    ASSUME IInv, Next, NEW d \in Node \ Rebooter, NEW n \in Node
    PROVE  \/ recv_tokens'[d][n] = recv_tokens[d][n] /\ Passed(d, n)' = Passed(d, n)
           \/ ListenNewMsg(d, n) \/ ListenQueueFull(d, n)
<1>0. TypeOK /\ d \in Node /\ recv_tokens \in [Node -> [Node -> Token]]
  BY DEF IInv, TypeOK
<1>1. PICK m \in Node :
         \/ \E e \in Node : SendWithAck(m, e)
         \/ PollStep(m) \/ Tick(m) \/ ResponseTimeout(m) \/ TryReceive(m)
         \/ ListenStep(m) \/ Reboot(m)
  BY DEF Next
<1>2. CASE UNCHANGED <<recv_tokens, accepted, dropped>>
  BY <1>2 DEF Passed
<1>3. CASE \E s \in Node : ListenNewMsg(m, s) \/ ListenQueueFull(m, s)
  <2>1. PICK s \in Node : ListenNewMsg(m, s) \/ ListenQueueFull(m, s)
    BY <1>3
  <2>2. recv_tokens' = [recv_tokens EXCEPT ![m][s] = Arrived(m, s).token]
    BY <2>1 DEF ListenNewMsg, ListenQueueFull, AcceptToken
  <2>3. CASE m = d /\ s = n
    BY <2>1, <2>3
  <2>4. CASE ~ (m = d /\ s = n)
    <3>1. \A x, y \in Node : x # m \/ y # s =>
                accepted'[x][y] = accepted[x][y] /\ dropped'[x][y] = dropped[x][y]
      BY <1>0, <2>1, ListenKept
    <3>2. recv_tokens'[d][n] = recv_tokens[d][n]
      BY <1>0, <2>2, <2>4
    <3>3. accepted'[d][n] = accepted[d][n] /\ dropped'[d][n] = dropped[d][n]
      BY <1>0, <2>4, <3>1
    <3> QED
      BY <3>2, <3>3 DEF Passed
  <2> QED
    BY <2>3, <2>4
<1>4. CASE Reboot(m)
  <2>1. m # d
    BY <1>4 DEF Reboot
  <2>2. /\ \E fresh \in [Node -> RecvInit] : recv_tokens' = [recv_tokens EXCEPT ![m] = fresh]
        /\ UNCHANGED <<accepted, dropped>>
    BY <1>4 DEF Reboot
  <2>3. recv_tokens'[d] = recv_tokens[d]
    BY <1>0, <2>1, <2>2
  <2> QED
    BY <2>2, <2>3 DEF Passed
<1>5. CASE \/ \E e \in Node : SendWithAck(m, e)
           \/ PollStep(m) \/ Tick(m) \/ ResponseTimeout(m) \/ TryReceive(m)
           \/ TransmitReply(m)
           \/ \E s \in Node : ListenBadCrc(m, s) \/ ListenResponse(m, s) \/ ListenBadToken(m, s)
  <2>1. UNCHANGED <<recv_tokens, accepted, dropped>>
    BY <1>5 DEF SendWithAck, PollStep, GotForeign, GotAck, GotError, GotResend, GotLateRequest,
                GotRequest, Poll, Tick, ResponseTimeout, TryReceive, TransmitReply,
                ListenBadCrc, ListenResponse, ListenBadToken, tokenVars, history
  <2> QED
    BY <1>2, <2>1
<1> QED
  BY <1>1, <1>3, <1>4, <1>5 DEF ListenStep

\* A message that is new on a line has been sent or resent with the token of its call.
LEMMA MessageSteps ==
    ASSUME IInv, Next, NEW n \in Node, NEW d \in Node, NEW g \in Range(air'[n][d]), IsData(g)
    PROVE  \/ g \in Range(air[n][d])
           \/ /\ (\E e \in Node : SendWithAck(n, e)) \/ GotResend(n)
              /\ call'[n].dest = d /\ g.token = call'[n].token
<1>0. /\ TypeOK /\ call \in [Node -> Call] /\ calls \in [Node -> Nat]
      /\ send_tokens \in [Node -> [Node -> Token]] /\ replies \in [Node -> Seq(Frame)]
  BY DEF IInv, TypeOK
<1>1. CASE air'[n][d] = air[n][d]
  BY <1>1
<1>2. ASSUME NEW m \in Node, NEW e \in Node, SendWithAck(m, e), g \notin Range(air[n][d])
      PROVE  m = n /\ call'[n].dest = d /\ g.token = call'[n].token
  <2> DEFINE t == NextToken(send_tokens[m][e])
             f == DataFrame(m, e, calls[m] + 1, t)
  <2>1. send_tokens[m][e] \in Token /\ calls[m] + 1 \in Nat
    BY <1>0
  <2>2. t \in Token
    BY <2>1, NextTokenType
  <2>3. call'[m].dest = e /\ call'[m].token = t
    BY <1>0, <1>2 DEF SendWithAck
  <2> HIDE DEF t
  <2>4. f \in Frame /\ f.from = m /\ f.to = e /\ f.token = t
    BY <2>1, <2>2, DataFrameFacts
  <2>5. Transmit(f)
    BY <1>2 DEF SendWithAck, t
  <2> HIDE DEF f
  <2>6. n = f.from /\ d = f.to /\ g \in {f, Corrupted(f)}
    BY <1>0, <1>2, <2>4, <2>5, TransmitRange
  <2>7. g.token = f.token
    BY <2>4, <2>6, CorruptedFacts
  <2> QED
    BY <2>3, <2>4, <2>6, <2>7
<1>3. ASSUME NEW m \in Node, GotResend(m), g \notin Range(air[n][d])
      PROVE  m = n /\ call'[n].dest = d /\ g.token = call'[n].token
  <2> DEFINE f == DataFrame(m, call[m].dest, call[m].id, SwappedToken(m))
  <2>1. call[m].dest \in Node /\ call[m].id \in Nat /\ SwappedToken(m) \in Token
    BY <1>0, <1>3, PollFacts, SwapFacts DEF GotResend, GotRequest
  <2>2. f \in Frame /\ f.from = m /\ f.to = call[m].dest /\ f.token = SwappedToken(m)
    BY <2>1, DataFrameFacts
  <2>3. Transmit(f)
    BY <1>3 DEF GotResend
  <2> HIDE DEF f
  <2>4. n = f.from /\ d = f.to /\ g \in {f, Corrupted(f)}
    BY <1>0, <1>3, <2>2, <2>3, TransmitRange
  <2>5. g.token = f.token
    BY <2>2, <2>4, CorruptedFacts
  <2>6. call' = [call EXCEPT ![m].token = SwappedToken(m),
                             ![m].allow_resend = FALSE, ![m].left = RESPONSE_TIMEOUT]
    BY <1>3 DEF GotResend
  <2>7. call'[m].dest = call[m].dest /\ call'[m].token = SwappedToken(m)
    BY <1>0, <2>6 DEF Call
  <2> QED
    BY <2>2, <2>4, <2>5, <2>7
<1>4. ASSUME NEW m \in Node, TransmitReply(m)
      PROVE  g \in Range(air[n][d])
  <2> DEFINE f == Head(replies[m])
  <2>1. replies[m] # <<>> /\ Transmit(f) /\ replies[m] \in Seq(Frame)
    BY <1>0, <1>4 DEF TransmitReply
  <2>2. f \in Frame /\ f \in Range(replies[m])
    BY <2>1, TailFacts
  <2> HIDE DEF f
  <2>3. ~ IsData(f)
    BY <2>2, FramesOfReplies DEF AnswerOK, IsData
  <2>4. ~ IsData(Corrupted(f))
    BY <2>2, <2>3, CorruptedFacts
  <2>5. g \notin {f, Corrupted(f)}
    BY <2>3, <2>4
  <2> QED
    BY <1>0, <2>1, <2>2, <2>5, TransmitRange
<1>5. ASSUME NEW m \in Node, NEW s \in Node, Arriving(m, s), TakeFrame(m, s)
      PROVE  g \in Range(air[n][d])
  BY <1>5, ListenCount
<1>6. PICK m \in Node :
         \/ \E e \in Node : SendWithAck(m, e)
         \/ PollStep(m) \/ Tick(m) \/ ResponseTimeout(m) \/ TryReceive(m)
         \/ ListenStep(m) \/ Reboot(m)
  BY DEF Next
<1>7. CASE (\E e \in Node : SendWithAck(m, e)) \/ GotResend(m)
  BY <1>2, <1>3, <1>7
<1>8. CASE \/ GotForeign(m) \/ GotAck(m) \/ GotError(m) \/ GotLateRequest(m)
           \/ Tick(m) \/ ResponseTimeout(m) \/ TryReceive(m) \/ Reboot(m)
  <2>1. air' = air
    BY <1>8 DEF GotForeign, GotAck, GotError, GotLateRequest, Tick, ResponseTimeout,
                TryReceive, Reboot
  <2> QED
    BY <1>1, <2>1
<1>9. CASE ListenStep(m)
  <2>1. CASE TransmitReply(m)
    BY <1>4, <2>1
  <2>2. CASE \E s \in Node : Arriving(m, s) /\ TakeFrame(m, s)
    BY <1>5, <2>2
  <2> QED
    BY <1>9, <2>1, <2>2 DEF ListenStep, ListenBadCrc, ListenResponse, ListenBadToken,
            ListenNewMsg, ListenQueueFull, AcceptToken, NewMessage
<1> QED
  BY <1>6, <1>7, <1>8, <1>9 DEF PollStep

\* What a request does to the call that reads it and to the tokens of its device.
LEMMA RequestFacts ==
    ASSUME TypeOK, NEW n \in Node, GotResend(n) \/ GotLateRequest(n)
    PROVE  /\ call'[n].token = SwappedToken(n) /\ call'[n].id = call[n].id
           /\ call'[n].dest = call[n].dest /\ call'[n].clean = call[n].clean
           /\ call[n].phase = "waiting" /\ call'[n].phase = "waiting"
           /\ GotResend(n) => call[n].allow_resend /\ ~ call'[n].allow_resend
           /\ GotLateRequest(n) => call'[n].allow_resend = call[n].allow_resend
           /\ Polled(n).from = call[n].dest
           /\ send_tokens[n][call[n].dest] = call[n].token =>
                 send_tokens'[n][call[n].dest] = SwappedToken(n)
<1>0. call \in [Node -> Call] /\ send_tokens \in [Node -> [Node -> Token]]
  BY DEF TypeOK
<1>1. GotRequest(n) /\ Poll(n) /\ FromPeer(n)
  BY DEF GotResend, GotLateRequest, GotRequest
<1>2. /\ call[n].phase = "waiting" /\ call[n].dest \in Node
      /\ Polled(n).from = call[n].dest
  BY <1>1, PollFacts DEF Poll, Waiting, FromPeer
<1>3. \/ /\ GotResend(n) /\ call[n].allow_resend
         /\ call' = [call EXCEPT ![n].token = SwappedToken(n),
                                 ![n].allow_resend = FALSE, ![n].left = RESPONSE_TIMEOUT]
      \/ /\ GotLateRequest(n) /\ ~ GotResend(n)
         /\ call' = [call EXCEPT ![n].token = SwappedToken(n)]
  BY DEF GotResend, GotLateRequest
<1>4. send_tokens[n][call[n].dest] = call[n].token =>
         send_tokens'[n][call[n].dest] = SwappedToken(n)
  <2>1. SwapToken(n)
    BY <1>1 DEF GotRequest
  <2> QED
    BY <1>0, <1>2, <2>1 DEF SwapToken, SwappedToken
<1>5. ~ (GotResend(n) /\ GotLateRequest(n))
  BY DEF GotResend, GotLateRequest
<1>6. /\ call'[n].token = SwappedToken(n) /\ call'[n].id = call[n].id
      /\ call'[n].dest = call[n].dest /\ call'[n].clean = call[n].clean
      /\ call'[n].phase = call[n].phase
      /\ GotResend(n) => call[n].allow_resend /\ ~ call'[n].allow_resend
      /\ GotLateRequest(n) => call'[n].allow_resend = call[n].allow_resend
  BY <1>0, <1>3, <1>5 DEF Call
<1> QED
  BY <1>2, <1>4, <1>6

\* Nothing else touches the token of a call, or the send tokens of a device.
LEMMA TokenSteps ==
    ASSUME TypeOK, Next, NEW n \in Node
    PROVE  \/ \E e \in Node : SendWithAck(n, e)
           \/ GotResend(n) \/ GotLateRequest(n) \/ Reboot(n)
           \/ /\ send_tokens'[n] = send_tokens[n]
              /\ call'[n].phase = "waiting" =>
                    /\ call'[n].token = call[n].token
                    /\ call'[n].allow_resend = call[n].allow_resend
<1>0. call \in [Node -> Call] /\ send_tokens \in [Node -> [Node -> Token]]
  BY DEF TypeOK
<1>1. PICK m \in Node :
         \/ \E e \in Node : SendWithAck(m, e)
         \/ PollStep(m) \/ Tick(m) \/ ResponseTimeout(m) \/ TryReceive(m)
         \/ ListenStep(m) \/ Reboot(m)
  BY DEF Next
<1>2. CASE m # n
  <2>1. call'[n] = call[n]
    <3>1. CASE \E e \in Node : SendWithAck(m, e)
      BY <1>0, <1>2, <3>1 DEF SendWithAck
    <3>2. CASE \E s \in Node : \/ ListenBadCrc(m, s) \/ ListenResponse(m, s)
                               \/ ListenBadToken(m, s)
                               \/ ListenNewMsg(m, s) \/ ListenQueueFull(m, s)
      BY <3>2, ListenKept
    <3>3. CASE \/ PollStep(m) \/ Tick(m) \/ ResponseTimeout(m) \/ TryReceive(m)
               \/ TransmitReply(m) \/ Reboot(m)
      BY <1>2, <3>3, CallKept
    <3> QED
      BY <1>1, <3>1, <3>2, <3>3 DEF ListenStep
  <2>2. send_tokens'[n] = send_tokens[n]
    <3>1. CASE \E e \in Node : SendWithAck(m, e)
      BY <1>0, <1>2, <3>1 DEF SendWithAck
    <3>2. CASE GotResend(m) \/ GotLateRequest(m)
      <4>1. SwapToken(m)
        BY <3>2 DEF GotResend, GotLateRequest, GotRequest
      <4> QED
        BY <1>0, <1>2, <4>1 DEF SwapToken
    <3>3. CASE Reboot(m)
      BY <1>0, <1>2, <3>3 DEF Reboot
    <3>4. CASE \/ GotForeign(m) \/ GotAck(m) \/ GotError(m)
               \/ Tick(m) \/ ResponseTimeout(m) \/ TryReceive(m) \/ ListenStep(m)
      BY <3>4 DEF GotForeign, GotAck, GotError, Tick, ResponseTimeout, TryReceive, ListenStep,
                  TransmitReply, ListenBadCrc, ListenResponse, ListenBadToken,
                  ListenNewMsg, ListenQueueFull, AcceptToken, tokenVars
    <3> QED
      BY <1>1, <3>1, <3>2, <3>3, <3>4 DEF PollStep
  <2> QED
    BY <2>1, <2>2
<1>3. CASE m = n
  <2>1. CASE (\E e \in Node : SendWithAck(n, e)) \/ GotResend(n) \/ GotLateRequest(n) \/ Reboot(n)
    BY <2>1
  <2>2. CASE GotAck(n) \/ GotError(n) \/ ResponseTimeout(n)
    <3>1. PICK p \in {"success", "failure"} :
             call' = [call EXCEPT ![n].phase = p, ![n].token = 0,
                                  ![n].allow_resend = FALSE, ![n].left = 0]
      BY <2>2 DEF GotAck, GotError, ResponseTimeout, Return
    <3>2. call'[n].phase = p
      BY <1>0, <3>1 DEF Call
    <3>3. send_tokens' = send_tokens
      BY <2>2 DEF GotAck, GotError, ResponseTimeout, tokenVars
    <3> QED
      BY <3>2, <3>3
  <2>3. CASE Tick(n)
    <3>1. call' = [call EXCEPT ![n].left = @ - 1] /\ send_tokens' = send_tokens
      BY <2>3 DEF Tick, tokenVars
    <3>2. /\ call'[n].token = call[n].token
          /\ call'[n].allow_resend = call[n].allow_resend
      BY <1>0, <3>1 DEF Call
    <3> QED
      BY <3>1, <3>2
  <2>4. CASE GotForeign(n) \/ TryReceive(n) \/ ListenStep(n)
    <3>1. UNCHANGED <<call, send_tokens>>
      BY <2>4 DEF GotForeign, TryReceive, ListenStep, TransmitReply, ListenBadCrc,
                  ListenResponse, ListenBadToken, ListenNewMsg, ListenQueueFull,
                  AcceptToken, tokenVars
    <3> QED
      BY <3>1
  <2> QED
    BY <1>1, <1>3, <2>1, <2>2, <2>3, <2>4 DEF PollStep
<1> QED
  BY <1>2, <1>3

\* Agreeing by its two cases, before and after a step.
LEMMA AgreeingHas ==
    ASSUME NEW n, NEW d, d = call[n].dest, Agreeing(n)
    PROVE  /\ call[n].id \notin Passed(d, n) =>
                 Unpassed(Asked(d, n), air[n][d], recv_tokens[d][n],
                          call[n].token, call[n].allow_resend)
           /\ call[n].id \in Passed(d, n) /\ AckUnderWay(d, n) =>
                 /\ call[n].token = recv_tokens[d][n]
                 /\ AcksLast(response_queue[n], air[d][n], replies[d], d, n, recv_tokens[d][n])
  BY DEF Agreeing

LEMMA AgreeingNext ==
    ASSUME NEW n, NEW d, d = call'[n].dest,
           call'[n].id \notin Passed(d, n)' =>
               Unpassed(Asked(d, n)', air'[n][d], recv_tokens'[d][n],
                        call'[n].token, call'[n].allow_resend),
           call'[n].id \in Passed(d, n)' /\ AckUnderWay(d, n)' =>
               /\ call'[n].token = recv_tokens'[d][n]
               /\ AcksLast(response_queue'[n], air'[d][n], replies'[d], d, n, recv_tokens'[d][n])
    PROVE  Agreeing(n)'
<1>1. Unpassed(Asked(d, n), air[n][d], recv_tokens[d][n], call[n].token, call[n].allow_resend)'
      <=> Unpassed(Asked(d, n)', air'[n][d], recv_tokens'[d][n],
                   call'[n].token, call'[n].allow_resend)
  BY DEF Unpassed
<1>2. AcksLast(response_queue[n], air[d][n], replies[d], d, n, recv_tokens[d][n])'
      <=> AcksLast(response_queue'[n], air'[d][n], replies'[d], d, n, recv_tokens'[d][n])
  BY DEF AcksLast, AckLast, AskOnly, Acks, Syncs
<1> QED
  BY <1>1, <1>2 DEF Agreeing

\* A clean call that waits: what its invariants say of its message and its answers.
Cleanly(n, d) ==
    /\ Waiting(n) /\ call[n].clean /\ call[n].dest = d
    /\ d \in Node \ Rebooter

LEMMA CleanlyFacts ==
    ASSUME IInv, OwnAcks, NEW n \in Node, NEW d, Cleanly(n, d)
    PROVE  /\ d \in Node /\ n # d /\ call[n].id = calls[n] /\ call[n].id \in Nat
           /\ call[n].token \in Token /\ recv_tokens[d][n] \in Token
           /\ air[n][d] \in Seq(Frame)
           /\ \A f \in Range(air[n][d]) : IsData(f) => f.id = call[n].id
           /\ AckUnderWay(d, n) => call[n].id \in Passed(d, n)
           /\ call[n].allow_resend =>
                 \A k \in Data(air[n][d]) :
                    /\ air[n][d][k].token = call[n].token
                    /\ \A l \in Data(air[n][d]) : k = l
<1>0. /\ TypeOK /\ CallsOK
      /\ call \in [Node -> Call] /\ recv_tokens \in [Node -> [Node -> Token]]
  BY DEF IInv, TypeOK
<1>1. d \in Node /\ d \notin Rebooter /\ call[n].phase = "waiting" /\ call[n].dest = d
  BY DEF Cleanly, Waiting
<1>2. n # d /\ call[n].id = calls[n]
  BY <1>0, <1>1 DEF CallsOK, Waiting
<1>3. call[n].id \in Nat /\ call[n].token \in Token /\ recv_tokens[d][n] \in Token
  BY <1>0, <1>1 DEF Call
<1>4. /\ \A f \in Range(air[n][d]) : IsData(f) => f.id = call[n].id
      /\ AckUnderWay(d, n) => call[n].id \in Passed(d, n)
  BY <1>1 DEF OwnAcks, OwnAck, Cleanly
<1>5. /\ air[n][d] \in Seq(Frame)
      /\ Single(air[n][d], calls[n], Pending(n, d))
  BY <1>1, <1>2, PairFacts DEF PairInv
<1>6. ASSUME call[n].allow_resend, NEW k \in Data(air[n][d])
      PROVE  /\ air[n][d][k].token = call[n].token
             /\ \A l \in Data(air[n][d]) : k = l
  <2>1. Pending(n, d) = {call[n].token}
    BY <1>1, <1>6 DEF Pending, Waiting
  <2>2. \A l \in Data(air[n][d]) : air[n][d][l].id = calls[n]
    BY <1>2, <1>4 DEF Data, Range
  <2> QED
    BY <1>5, <1>6, <2>1, <2>2 DEF Single
<1> QED
  BY <1>1, <1>2, <1>3, <1>4, <1>5, <1>6

\* Fewer requests and fewer messages, and nothing else that is new.
LEMMA UnpassedKept ==
    ASSUME NEW S, NEW q, NEW r, NEW token, NEW resend, NEW S2, NEW q2, NEW resend2,
           Unpassed(S, q, r, token, resend),
           S2 \subseteq S, resend2 => resend,
           \A g \in Range(q2) : IsData(g) => g \in Range(q)
    PROVE  Unpassed(S2, q2, r, token, resend2)
<1> DEFINE M == {f \in Range(q) : IsData(f)}
           M2 == {f \in Range(q2) : IsData(f)}
<1>1. /\ S \subseteq {NextToken(r)}
      /\ \A f, g \in M : f.token = g.token
      /\ \A f \in M : ValidToken(f.token, r) => f.token = token /\ (S # {} => f.token = NextToken(r))
      /\ S # {} /\ resend => M = {} /\ ~ ValidToken(token, r)
  BY DEF Unpassed
<1>2. M2 \subseteq M /\ (S2 # {} => S # {})
  OBVIOUS
<1> HIDE DEF M, M2
<1>3. /\ S2 \subseteq {NextToken(r)}
      /\ \A f, g \in M2 : f.token = g.token
      /\ \A f \in M2 : ValidToken(f.token, r) => f.token = token /\ (S2 # {} => f.token = NextToken(r))
      /\ S2 # {} /\ resend2 => M2 = {} /\ ~ ValidToken(token, r)
  BY <1>1, <1>2
<1> QED
  BY <1>3 DEF Unpassed, M2

\* A step that leaves the token of the call alone and brings neither answer nor message.
LEMMA AgreeingKept ==
    ASSUME IInv, IInv', OwnAcks, Next, NEW n \in Node, NEW d, Cleanly(n, d), Agreeing(n),
           CalmStep(n, d),
           recv_tokens'[d][n] = recv_tokens[d][n], Passed(d, n)' = Passed(d, n),
           call'[n].id = call[n].id, call'[n].dest = d,
           call'[n].token = call[n].token, call'[n].allow_resend => call[n].allow_resend,
           \A g \in Range(air'[n][d]) : IsData(g) => g \in Range(air[n][d])
    PROVE  Agreeing(n)'
<1>1. TypeOK /\ TypeOK' /\ d \in Node /\ call[n].dest = d
  BY CleanlyFacts DEF IInv, Cleanly
<1>2. /\ Asked(d, n)' \subseteq Asked(d, n)
      /\ AckUnderWay(d, n)' => AckUnderWay(d, n)
      /\ \A t : AcksLast(response_queue[n], air[d][n], replies[d], d, n, t)
                => AcksLast(response_queue'[n], air'[d][n], replies'[d], d, n, t)
  BY <1>1, CalmFacts
<1>3. /\ call[n].id \notin Passed(d, n) =>
            Unpassed(Asked(d, n), air[n][d], recv_tokens[d][n], call[n].token, call[n].allow_resend)
      /\ call[n].id \in Passed(d, n) /\ AckUnderWay(d, n) =>
            /\ call[n].token = recv_tokens[d][n]
            /\ AcksLast(response_queue[n], air[d][n], replies[d], d, n, recv_tokens[d][n])
  BY <1>1, AgreeingHas
<1>4. ASSUME call'[n].id \notin Passed(d, n)'
      PROVE  Unpassed(Asked(d, n)', air'[n][d], recv_tokens'[d][n],
                      call'[n].token, call'[n].allow_resend)
  BY <1>2, <1>3, <1>4, UnpassedKept
<1>5. ASSUME call'[n].id \in Passed(d, n)', AckUnderWay(d, n)'
      PROVE  /\ call'[n].token = recv_tokens'[d][n]
             /\ AcksLast(response_queue'[n], air'[d][n], replies'[d], d, n, recv_tokens'[d][n])
  BY <1>2, <1>3, <1>5
<1> QED
  BY <1>4, <1>5, AgreeingNext

\* A clean call begins: no message is on the line yet and nothing is asked for.
LEMMA AgreeingCalled ==
    ASSUME IInv, IInv', Next, NEW n \in Node, NEW d, SendWithAck(n, d),
           Cleanly(n, d)'
    PROVE  Agreeing(n)'
<1>0. /\ TypeOK /\ TypeOK' /\ d \in Node /\ d \notin Rebooter /\ n # d
      /\ call \in [Node -> Call]
  BY DEF IInv, TypeOK, Cleanly, SendWithAck
<1>1. /\ call'[n].id = calls[n] + 1 /\ call'[n].clean = Clean(n, d) /\ call'[n].dest = d
      /\ UNCHANGED <<recv_tokens, accepted, dropped>>
  BY <1>0 DEF SendWithAck
<1>2. /\ \A f \in Range(air[n][d]) : ~ IsData(f)
      /\ \A f \in Range(air[d][n]) \cup Range(replies[d]) : f.to = n => ~ IsResponse(f)
      /\ \A f \in Range(response_queue[n]) : f.from # d
  BY <1>1 DEF Clean, Cleanly
<1>3. Asked(d, n) = {}
  BY <1>2 DEF Asked, IsResponse
<1>4. CalmStep(n, d)
  BY <1>0, CalmUser
<1>5. Asked(d, n)' = {}
  BY <1>0, <1>3, <1>4, CalmFacts
<1>6. \A g \in Range(air'[n][d]) : IsData(g) => g.token = call'[n].token
  BY <1>0, <1>2, MessageSteps
<1>7. Unpassed(Asked(d, n)', air'[n][d], recv_tokens'[d][n],
               call'[n].token, call'[n].allow_resend)
  <2> DEFINE M == {f \in Range(air'[n][d]) : IsData(f)}
  <2>1. \A f \in M : f.token = call'[n].token
    BY <1>6
  <2> HIDE DEF M
  <2>2. \A f, g \in M : f.token = g.token
    BY <2>1
  <2> QED
    BY <1>5, <2>1, <2>2 DEF Unpassed, M
<1>8. call'[n].id \notin Passed(d, n)'
  <2>1. \A L \in {accepted[d][n], dropped[d][n]} : L \in Seq(Nat) /\ \A i \in DOMAIN L : L[i] =< calls[n]
    BY <1>0, PairFacts DEF PairInv, Known
  <2>2. calls[n] \in Nat
    BY <1>0 DEF TypeOK
  <2>3. ASSUME NEW L \in {accepted[d][n], dropped[d][n]}, NEW i \in DOMAIN L
        PROVE  L[i] # calls[n] + 1
    <3>1. L[i] \in Nat /\ L[i] =< calls[n]
      BY <2>1
    <3> QED
      BY <2>2, <3>1
  <2>4. calls[n] + 1 \notin Passed(d, n)
    BY <2>3 DEF Passed, Range
  <2> QED
    BY <1>1, <2>4 DEF Passed
<1> QED
  BY <1>1, <1>7, <1>8, AgreeingNext

\* The token that a clean call is asked for is the one it agrees on.
LEMMA SwapAgrees ==
    ASSUME IInv, IInv', OwnAcks, Next, NEW n \in Node, NEW d, Cleanly(n, d), Agreeing(n),
           GotResend(n) \/ GotLateRequest(n)
    PROVE  /\ CalmStep(n, d)
           /\ "SYNC" \in Polled(n).flags => "RESEND" \in Polled(n).flags
           /\ call[n].id \notin Passed(d, n) /\ "SYNC" \in Polled(n).flags =>
                 /\ SwappedToken(n) = NextToken(recv_tokens[d][n])
                 /\ Asked(d, n) # {}
           /\ call[n].id \in Passed(d, n) /\ AckUnderWay(d, n)' =>
                 SwappedToken(n) = recv_tokens[d][n]
<1>0. TypeOK /\ TypeOK' /\ d \in Node /\ call[n].dest = d /\ n # d
  BY CleanlyFacts DEF IInv, Cleanly
<1>1. Poll(n) /\ PollStep(n) /\ Polled(n).from = d
  BY <1>0 DEF GotResend, GotLateRequest, GotRequest, PollStep, FromPeer
<1>2. CalmStep(n, d)
  BY <1>0, <1>1, CalmUser
<1>3. /\ response_queue[n] \in Seq(Frame) /\ response_queue[n] # <<>>
      /\ Polled(n) = Head(response_queue[n]) /\ Polled(n) \in Frame
      /\ Polled(n) \in Range(response_queue[n])
      /\ response_queue'[n] = Tail(response_queue[n])
      /\ replies' = replies
  BY <1>0, <1>1, PollFacts, TailFacts DEF Polled, Poll
<1>4. /\ Polled(n).to = n
      /\ "SYNC" \in Polled(n).flags => "RESEND" \in Polled(n).flags
  BY <1>3, FramesOfQueue DEF AnswerOK
<1>5. "SYNC" \in Polled(n).flags =>
         Polled(n) \in Syncs(d, n) /\ Polled(n).token \in Asked(d, n)
  BY <1>1, <1>3, <1>4 DEF Asked, Syncs
<1>6. SwappedToken(n) = IF "SYNC" \in Polled(n).flags THEN Polled(n).token ELSE call[n].token
  BY DEF SwappedToken
<1>7. /\ call[n].id \notin Passed(d, n) => Asked(d, n) \subseteq {NextToken(recv_tokens[d][n])}
      /\ call[n].id \in Passed(d, n) /\ AckUnderWay(d, n) =>
            /\ call[n].token = recv_tokens[d][n]
            /\ AcksLast(response_queue[n], air[d][n], replies[d], d, n, recv_tokens[d][n])
  BY <1>0, AgreeingHas DEF Unpassed
<1>8. air'[d][n] = air[d][n]
  <2>1. CASE GotLateRequest(n)
    BY <2>1 DEF GotLateRequest
  <2>2. CASE GotResend(n)
    <3> DEFINE f == DataFrame(n, d, call[n].id, SwappedToken(n))
    <3>1. call[n].id \in Nat /\ SwappedToken(n) \in Token
      BY <1>0, <1>1, <2>2, PollFacts, SwapFacts DEF GotResend
    <3>2. f \in Frame /\ f.from = n
      BY <1>0, <3>1, DataFrameFacts
    <3>3. Transmit(f)
      BY <1>0, <2>2 DEF GotResend
    <3> HIDE DEF f
    <3> QED
      BY <1>0, <3>2, <3>3, TransmitFacts
  <2> QED
    BY <2>1, <2>2
<1>9. ASSUME call[n].id \in Passed(d, n), AckUnderWay(d, n)'
      PROVE  SwappedToken(n) = recv_tokens[d][n]
  <2>1. AckUnderWay(d, n)
    BY <1>0, <1>2, <1>9, CalmFacts
  <2>2. CASE "SYNC" \notin Polled(n).flags
    BY <1>6, <1>7, <1>9, <2>1, <2>2
  <2>3. CASE "SYNC" \in Polled(n).flags
    <3> DEFINE r == recv_tokens[d][n]
    <3>1. AcksLast(response_queue[n], air[d][n], replies[d], d, n, r)
      BY <1>7, <1>9, <2>1
    <3>2. PICK f \in Range(air'[d][n]) \cup Range(replies'[d]) \cup Range(response_queue'[n]) :
             f \in Acks(d, n)
      BY <1>9 DEF AckUnderWay, Acks
    <3>3. f \in Range(air[d][n]) \cup Range(replies[d]) \cup Range(Tail(response_queue[n]))
      BY <1>3, <1>8, <3>2
    <3> HIDE DEF r
    <3>4. Polled(n) \in Syncs(d, n)
      BY <1>5, <2>3
    <3>5. Polled(n).token = r
      <4>1. CASE f \in Range(Tail(response_queue[n]))
        BY <1>3, <3>1, <3>2, <3>4, <4>1, AckLastHead DEF AcksLast
      <4>2. CASE f \in Range(air[d][n]) \cup Range(replies[d])
        BY <1>3, <3>1, <3>2, <3>4, <4>2 DEF AcksLast, AskOnly
      <4> QED
        BY <3>3, <4>1, <4>2
    <3> QED
      BY <1>6, <2>3, <3>5 DEF r
  <2> QED
    BY <2>2, <2>3
<1> QED
  BY <1>2, <1>4, <1>5, <1>6, <1>7, <1>9

\* A request that comes too late for a resend, as any with a SYNC does.
LEMMA AgreeingLate ==
    ASSUME IInv, IInv', OwnAcks, Next, NEW n \in Node, NEW d, Cleanly(n, d), Agreeing(n),
           GotLateRequest(n), recv_tokens'[d][n] = recv_tokens[d][n], Passed(d, n)' = Passed(d, n)
    PROVE  Agreeing(n)'
<1>0. TypeOK /\ TypeOK' /\ d \in Node /\ call[n].dest = d
  BY CleanlyFacts DEF IInv, Cleanly
<1>1. /\ call'[n].token = SwappedToken(n) /\ call'[n].id = call[n].id /\ call'[n].dest = d
      /\ call'[n].allow_resend = call[n].allow_resend
      /\ air' = air
  BY <1>0, RequestFacts DEF GotLateRequest
<1>2. /\ CalmStep(n, d)
      /\ "SYNC" \in Polled(n).flags => "RESEND" \in Polled(n).flags
      /\ call[n].id \notin Passed(d, n) /\ "SYNC" \in Polled(n).flags =>
            SwappedToken(n) = NextToken(recv_tokens[d][n]) /\ Asked(d, n) # {}
      /\ call[n].id \in Passed(d, n) /\ AckUnderWay(d, n)' =>
            SwappedToken(n) = recv_tokens[d][n]
  BY SwapAgrees
<1>3. CASE "SYNC" \notin Polled(n).flags
  <2>1. call'[n].token = call[n].token
    BY <1>1, <1>3 DEF SwappedToken
  <2> QED
    BY <1>1, <1>2, <2>1, AgreeingKept
<1>4. CASE "SYNC" \in Polled(n).flags
  <2>1. ~ call[n].allow_resend
    BY <1>2, <1>4 DEF GotLateRequest
  <2>2. ASSUME call'[n].id \notin Passed(d, n)'
        PROVE  Unpassed(Asked(d, n)', air'[n][d], recv_tokens'[d][n],
                        call'[n].token, call'[n].allow_resend)
    <3>1. call'[n].token = NextToken(recv_tokens[d][n]) /\ Asked(d, n) # {}
      BY <1>1, <1>2, <1>4, <2>2
    <3>2. Unpassed(Asked(d, n), air[n][d], recv_tokens[d][n], call[n].token, call[n].allow_resend)
      BY <1>0, <1>1, <2>2, AgreeingHas
    <3>3. Unpassed(Asked(d, n), air[n][d], recv_tokens[d][n], call'[n].token, FALSE)
      <4> DEFINE M == {f \in Range(air[n][d]) : IsData(f)}
                 r == recv_tokens[d][n]
                 S == Asked(d, n)
      <4>1. /\ S \subseteq {NextToken(r)} /\ \A f, g \in M : f.token = g.token
            /\ \A f \in M : ValidToken(f.token, r) => f.token = NextToken(r)
        BY <3>1, <3>2 DEF Unpassed
      <4>2. call'[n].token = NextToken(r)
        BY <3>1
      <4> HIDE DEF M, r, S
      <4> QED
        BY <4>1, <4>2 DEF Unpassed, M, r, S
    <3>4. Asked(d, n)' \subseteq Asked(d, n)
      BY <1>0, <1>2, CalmFacts
    <3>5. /\ call'[n].allow_resend => FALSE
          /\ \A g \in Range(air'[n][d]) : IsData(g) => g \in Range(air[n][d])
      BY <1>1, <2>1
    <3>6. Unpassed(Asked(d, n)', air'[n][d], recv_tokens[d][n],
                   call'[n].token, call'[n].allow_resend)
      <4> DEFINE S == Asked(d, n)
                 q == air[n][d]
                 r == recv_tokens[d][n]
                 token == call'[n].token
                 S2 == Asked(d, n)'
                 q2 == air'[n][d]
                 resend2 == call'[n].allow_resend
      <4>1. /\ Unpassed(S, q, r, token, FALSE)
            /\ S2 \subseteq S /\ (resend2 => FALSE)
            /\ \A g \in Range(q2) : IsData(g) => g \in Range(q)
        BY <3>3, <3>4, <3>5
      <4> HIDE DEF S, q, r, token, S2, q2, resend2
      <4>2. Unpassed(S2, q2, r, token, resend2)
        BY <4>1, UnpassedKept
      <4> QED
        BY <4>2 DEF S2, q2, r, token, resend2
    <3> QED
      BY <3>6
  <2>3. ASSUME call'[n].id \in Passed(d, n)', AckUnderWay(d, n)'
        PROVE  /\ call'[n].token = recv_tokens'[d][n]
               /\ AcksLast(response_queue'[n], air'[d][n], replies'[d], d, n, recv_tokens'[d][n])
    <3>1. AckUnderWay(d, n) /\ call[n].id \in Passed(d, n)
      BY <1>0, <1>1, <1>2, <2>3, CalmFacts
    <3>2. AcksLast(response_queue[n], air[d][n], replies[d], d, n, recv_tokens[d][n])
      BY <1>0, <3>1, AgreeingHas
    <3> QED
      BY <1>0, <1>1, <1>2, <2>3, <3>1, <3>2, CalmFacts
  <2> QED
    BY <1>1, <2>2, <2>3, AgreeingNext
<1> QED
  BY <1>3, <1>4

\* The resend: with the token asked for it is the only message on the line; with the one
\* it had it does not differ from the message that may be there.
LEMMA AgreeingResent ==
    ASSUME IInv, IInv', OwnAcks, Next, NEW n \in Node, NEW d, Cleanly(n, d), Agreeing(n),
           GotResend(n), recv_tokens'[d][n] = recv_tokens[d][n], Passed(d, n)' = Passed(d, n)
    PROVE  Agreeing(n)'
<1>0. /\ TypeOK /\ TypeOK' /\ d \in Node /\ call[n].dest = d
      /\ \A k \in Data(air[n][d]) : call[n].allow_resend => air[n][d][k].token = call[n].token
  <2>1. TypeOK /\ TypeOK' /\ call[n].dest = d
    BY DEF IInv, Cleanly
  <2> QED
    BY <2>1, CleanlyFacts
<1>1. /\ call'[n].token = SwappedToken(n) /\ call'[n].id = call[n].id /\ call'[n].dest = d
      /\ call[n].allow_resend /\ ~ call'[n].allow_resend
  BY <1>0, RequestFacts
<1>2. /\ CalmStep(n, d)
      /\ call[n].id \notin Passed(d, n) /\ "SYNC" \in Polled(n).flags =>
            SwappedToken(n) = NextToken(recv_tokens[d][n]) /\ Asked(d, n) # {}
      /\ call[n].id \in Passed(d, n) /\ AckUnderWay(d, n)' =>
            SwappedToken(n) = recv_tokens[d][n]
  BY SwapAgrees
<1>3. Asked(d, n)' \subseteq Asked(d, n)
  BY <1>0, <1>2, CalmFacts
<1>4. ASSUME NEW g \in Range(air'[n][d]), IsData(g)
      PROVE  g \in Range(air[n][d]) \/ g.token = call'[n].token
  BY <1>0, <1>4, MessageSteps
<1>5. ASSUME call'[n].id \notin Passed(d, n)'
      PROVE  Unpassed(Asked(d, n)', air'[n][d], recv_tokens'[d][n],
                      call'[n].token, call'[n].allow_resend)
  <2> DEFINE M == {f \in Range(air[n][d]) : IsData(f)}
             N == {f \in Range(air'[n][d]) : IsData(f)}
             r == recv_tokens[d][n]
             S == Asked(d, n)
             T == Asked(d, n)'
             t == call'[n].token
  <2>1. Unpassed(S, air[n][d], r, call[n].token, call[n].allow_resend)
    BY <1>0, <1>1, <1>5, AgreeingHas
  <2>2. /\ S \subseteq {NextToken(r)}
        /\ S # {} => M = {} /\ ~ ValidToken(call[n].token, r)
    BY <1>1, <2>1 DEF Unpassed
  <2>3. \A f \in M : f.token = call[n].token
    BY <1>0, <1>1 DEF Data, Range
  <2>4. /\ "SYNC" \in Polled(n).flags => t = NextToken(r) /\ S # {}
        /\ "SYNC" \notin Polled(n).flags => t = call[n].token
    BY <1>1, <1>2, <1>5 DEF SwappedToken
  <2>5. \A f \in N : f \in M \/ f.token = t
    BY <1>4
  <2>6. T \subseteq S
    BY <1>3
  <2> HIDE DEF M, N, r, S, T, t
  <2>7. \A f \in N : f.token = t
    BY <2>2, <2>3, <2>4, <2>5
  <2>8. \A f, g \in N : f.token = g.token
    BY <2>7
  <2>9. S # {} => t = NextToken(r) \/ ~ ValidToken(t, r)
    BY <2>2, <2>4
  <2>10. \A f \in N : ValidToken(f.token, r) => f.token = t /\ (T # {} => f.token = NextToken(r))
    BY <2>6, <2>7, <2>9
  <2>11. Unpassed(T, air'[n][d], r, t, FALSE)
    BY <2>2, <2>6, <2>8, <2>10 DEF Unpassed, N
  <2> QED
    <3> DEFINE b == call'[n].allow_resend
    <3>1. ~ b
      BY <1>1
    <3> HIDE DEF b
    <3>2. Unpassed(T, air'[n][d], r, t, b)
      BY <2>11, <3>1 DEF Unpassed
    <3> QED
      BY <3>2 DEF T, r, t, b
<1>6. ASSUME call'[n].id \in Passed(d, n)', AckUnderWay(d, n)'
      PROVE  /\ call'[n].token = recv_tokens'[d][n]
             /\ AcksLast(response_queue'[n], air'[d][n], replies'[d], d, n, recv_tokens'[d][n])
  <2>1. AckUnderWay(d, n) /\ call[n].id \in Passed(d, n)
    BY <1>0, <1>1, <1>2, <1>6, CalmFacts
  <2>2. AcksLast(response_queue[n], air[d][n], replies[d], d, n, recv_tokens[d][n])
    BY <1>0, <2>1, AgreeingHas
  <2> QED
    BY <1>0, <1>1, <1>2, <1>6, <2>1, <2>2, CalmFacts
<1> QED
  BY <1>1, <1>5, <1>6, AgreeingNext

\* The message is refused: none that is on the line will pass before it is resent.
LEMMA AgreeingRefused ==
    ASSUME IInv, IInv', OwnAcks, Next, NEW n \in Node, NEW d, Cleanly(n, d), Agreeing(n),
           ListenBadToken(d, n)
    PROVE  Agreeing(n)'
<1>0. /\ TypeOK /\ d \in Node /\ call[n].dest = d /\ n # d
      /\ air[n][d] \in Seq(Frame)
      /\ call[n].allow_resend =>
            \A k \in Data(air[n][d]) :
               /\ air[n][d][k].token = call[n].token
               /\ \A l \in Data(air[n][d]) : k = l
  <2>1. TypeOK /\ call[n].dest = d
    BY DEF IInv, Cleanly
  <2>2. n # d /\ d \in Node /\ air[n][d] \in Seq(Frame)
    BY CleanlyFacts
  <2>3. call[n].allow_resend =>
            \A k \in Data(air[n][d]) :
               /\ air[n][d][k].token = call[n].token
               /\ \A l \in Data(air[n][d]) : k = l
    BY CleanlyFacts
  <2> QED
    BY <2>1, <2>2, <2>3
<1>1. /\ Arriving(d, n) /\ TakeFrame(d, n) /\ IsData(Arrived(d, n))
      /\ ~ ValidToken(Arrived(d, n).token, recv_tokens[d][n])
      /\ UNCHANGED <<tokenVars, call, queueVars, history>>
  BY DEF ListenBadToken, NewMessage
<1>2. UNCHANGED <<recv_tokens, call, response_queue, accepted, dropped>>
  BY <1>1 DEF tokenVars, queueVars, history
<1>3. /\ air[n][d] # <<>> /\ air'[n][d] = Tail(air[n][d]) /\ air'[d][n] = air[d][n]
      /\ Arrived(d, n) = air[n][d][1] /\ 1 \in DOMAIN air[n][d]
      /\ Arrived(d, n) \in Range(air[n][d])
      /\ DOMAIN air'[n][d] = 1 .. Len(air[n][d]) - 1
      /\ \A k \in DOMAIN air'[n][d] : k + 1 \in DOMAIN air[n][d] /\ air'[n][d][k] = air[n][d][k + 1]
      /\ Range(air'[n][d]) \subseteq Range(air[n][d])
  <2>1. /\ air[n][d] # <<>> /\ air'[n][d] = Tail(air[n][d]) /\ air'[d][n] = air[d][n]
        /\ Arrived(d, n) = Head(air[n][d])
    BY <1>0, <1>1, ArrivingFacts DEF Arrived
  <2> QED
    BY <1>0, <2>1, TailFacts
<1> DEFINE f == Response(d, n, {"SYNC", "RESEND"}, NextToken(recv_tokens[d][n]))
<1>4. replies'[d] = <<f>> /\ replies[d] = <<>>
  <2>1. replies' = [replies EXCEPT ![d] = <<f>>] /\ replies \in [Node -> Seq(Frame)]
    BY <1>0 DEF ListenBadToken, Reply, TypeOK
  <2> HIDE DEF f
  <2> QED
    BY <1>0, <1>1, <2>1 DEF Arriving
<1>5. Range(replies'[d]) = {f} /\ Range(replies[d]) = {}
  <2> HIDE DEF f
  <2> QED
    BY <1>4 DEF Range
<1>6. f.token = NextToken(recv_tokens[d][n]) /\ f \notin Acks(d, n)
  BY DEF Response, Acks
<1> HIDE DEF f
<1>7. Asked(d, n)' \subseteq Asked(d, n) \cup {NextToken(recv_tokens[d][n])}
  BY <1>2, <1>3, <1>5, <1>6 DEF Asked
<1>8. AckUnderWay(d, n)' => AckUnderWay(d, n)
  <2>1. AckUnderWay(d, n)' => \E g \in Range(air'[d][n]) \cup Range(replies'[d]) \cup Range(response_queue'[n]) :
                                 g \in Acks(d, n)
    BY DEF AckUnderWay, Acks
  <2> QED
    BY <1>2, <1>3, <1>5, <1>6, <2>1 DEF AckUnderWay
<1>9. ASSUME call[n].id \notin Passed(d, n)
      PROVE  Unpassed(Asked(d, n)', air'[n][d], recv_tokens[d][n],
                      call[n].token, call[n].allow_resend)
  <2> DEFINE M == {g \in Range(air[n][d]) : IsData(g)}
             N == {g \in Range(air'[n][d]) : IsData(g)}
             r == recv_tokens[d][n]
             S == Asked(d, n)
             T == Asked(d, n)'
             c == Arrived(d, n)
  <2>0. Unpassed(S, air[n][d], r, call[n].token, call[n].allow_resend)
    BY <1>0, <1>9, AgreeingHas
  <2>1. S \subseteq {NextToken(r)} /\ \A g, h \in M : g.token = h.token
    BY <2>0 DEF Unpassed
  <2>2. c \in M /\ ~ ValidToken(c.token, r) /\ N \subseteq M
    BY <1>1, <1>3
  <2>3. T \subseteq {NextToken(r)}
    BY <1>7, <2>1
  <2>4. ASSUME call[n].allow_resend
        PROVE  N = {} /\ ~ ValidToken(call[n].token, r)
    <3>1. 1 \in Data(air[n][d])
      BY <1>1, <1>3 DEF Data
    <3>2. c.token = call[n].token /\ \A l \in Data(air[n][d]) : l = 1
      BY <1>0, <1>3, <2>4, <3>1
    <3>3. ASSUME NEW g \in N PROVE FALSE
      <4>1. PICK k \in DOMAIN air'[n][d] : g = air'[n][d][k]
        BY DEF Range
      <4>2. k + 1 \in Data(air[n][d])
        BY <1>3, <4>1 DEF Data
      <4>3. k \in Nat /\ k >= 1
        BY <1>0, <1>3, LenProperties
      <4> QED
        BY <3>2, <4>2, <4>3
    <3>4. ~ ValidToken(call[n].token, r)
      BY <2>2, <3>2
    <3> QED
      BY <3>3, <3>4
  <2> HIDE DEF M, N, r, S, T, c
  <2>5. \A g, h \in N : g.token = h.token
    BY <2>1, <2>2
  <2>6. \A g \in N : ~ ValidToken(g.token, r)
    <3> SUFFICES ASSUME NEW g \in N PROVE ~ ValidToken(g.token, r)
      OBVIOUS
    <3>1. g.token = c.token
      BY <2>1, <2>2
    <3> QED
      BY <2>2, <3>1
  <2>7. Unpassed(T, air'[n][d], r, call[n].token, call[n].allow_resend)
    BY <2>3, <2>4, <2>5, <2>6 DEF Unpassed, N
  <2> QED
    BY <2>7 DEF T, r
<1>10. ASSUME call[n].id \in Passed(d, n), AckUnderWay(d, n)'
       PROVE  /\ call[n].token = recv_tokens[d][n]
              /\ AcksLast(response_queue[n], air[d][n], replies'[d], d, n, recv_tokens[d][n])
  <2> DEFINE q == response_queue[n]
             a == air[d][n]
             t == recv_tokens[d][n]
             p == replies'[d]
  <2>1. /\ call[n].token = t
        /\ AcksLast(q, a, replies[d], d, n, t)
    BY <1>0, <1>8, <1>10, AgreeingHas
  <2>2. Range(p) \cap Acks(d, n) = {}
    BY <1>5, <1>6
  <2>3. AckLast(p, d, n, t)
    BY <2>2, AckLastOf
  <2> HIDE DEF q, a, t, p
  <2>4. AcksLast(q, a, p, d, n, t)
    BY <2>1, <2>2, <2>3 DEF AcksLast
  <2> QED
    BY <2>1, <2>4 DEF q, a, t, p
<1>11. Passed(d, n)' = Passed(d, n)
  BY <1>2 DEF Passed
<1> QED
  BY <1>0, <1>2, <1>3, <1>9, <1>10, <1>11, AgreeingNext

\* The message passes: its token is the one of the call and the only one asked for.
LEMMA AgreeingAccepted ==
    ASSUME IInv, OwnAcks, Next, NEW n \in Node, NEW d, Cleanly(n, d), Agreeing(n),
           ListenNewMsg(d, n) \/ ListenQueueFull(d, n)
    PROVE  Agreeing(n)'
<1>a. /\ TypeOK /\ call[n].dest = d /\ d \in Node \ Rebooter /\ d \in Node
  BY DEF IInv, Cleanly
<1>0. /\ n # d
      /\ \A f \in Range(air[n][d]) : IsData(f) => f.id = call[n].id
      /\ AckUnderWay(d, n) => call[n].id \in Passed(d, n)
  BY CleanlyFacts
<1> DEFINE f == Arrived(d, n)
<1>1. /\ AcceptToken(d, n) /\ Arriving(d, n) /\ TakeFrame(d, n) /\ IsData(f)
      /\ ValidToken(f.token, recv_tokens[d][n])
      /\ recv_tokens' = [recv_tokens EXCEPT ![d][n] = f.token]
      /\ call' = call /\ response_queue' = response_queue
  BY DEF ListenNewMsg, ListenQueueFull, AcceptToken, NewMessage
<1>2. /\ f \in Range(air[n][d]) /\ f.id = call[n].id /\ air'[d][n] = air[d][n]
  <2>1. f \in Range(air[n][d])
    BY <1>1, <1>a, ListenCount
  <2>2. air'[d][n] = air[d][n]
    BY <1>0, <1>1, <1>a, ArrivingFacts
  <2> QED
    BY <1>0, <1>1, <2>1, <2>2
<1>3. call[n].id \notin Passed(d, n) /\ call[n].id \in Passed(d, n)'
  <2>1. f.id \notin Passed(d, n)
    BY <1>1, <1>a, PassesOnce
  <2>2. f.id \in Passed(d, n)'
    BY <1>a, PassedGrows
  <2> QED
    BY <1>2, <2>1, <2>2
<1>4. ~ AckUnderWay(d, n)
  BY <1>0, <1>3
<1>5. recv_tokens'[d][n] = f.token
  <2>1. recv_tokens \in [Node -> [Node -> Token]]
    BY <1>a DEF TypeOK
  <2> HIDE DEF f
  <2> QED
    BY <1>1, <1>a, <2>1
<1> HIDE DEF f
<1>6. /\ f.token = call[n].token
      /\ \A t \in Asked(d, n) : t = f.token
  <2> DEFINE M == {g \in Range(air[n][d]) : IsData(g)}
             r == recv_tokens[d][n]
             S == Asked(d, n)
  <2>1. Unpassed(S, air[n][d], r, call[n].token, call[n].allow_resend)
    BY <1>3, <1>a, AgreeingHas
  <2>2. /\ S \subseteq {NextToken(r)}
        /\ \A g \in M : ValidToken(g.token, r) =>
              g.token = call[n].token /\ (S # {} => g.token = NextToken(r))
    BY <2>1 DEF Unpassed
  <2>3. f \in M /\ ValidToken(f.token, r)
    BY <1>1, <1>2
  <2> HIDE DEF M, r, S
  <2>4. f.token = call[n].token /\ (S # {} => f.token = NextToken(r))
    BY <2>2, <2>3
  <2> QED
    BY <2>2, <2>4 DEF S
<1>7. /\ AskOnly(Range(response_queue[n]), d, n, f.token)
      /\ AskOnly(Range(air[d][n]), d, n, f.token)
  <2>1. \A g \in Range(response_queue[n]) \cup Range(air[d][n]) :
           g \in Syncs(d, n) => g.token \in Asked(d, n)
    BY DEF Asked, Syncs
  <2> QED
    BY <1>6, <2>1 DEF AskOnly
<1>8. AckLast(replies'[d], d, n, f.token)
  <2> DEFINE g == Response(d, n, {"ACK"}, 0)
             e == Response(d, n, {"ERROR"}, 0)
             a == <<g>>
             b == <<e, g>>
  <2>1. replies' = [replies EXCEPT ![d] = a] \/ replies' = [replies EXCEPT ![d] = b]
    BY DEF ListenNewMsg, ListenQueueFull, Reply
  <2>2. g \notin Syncs(d, n) /\ e \notin Syncs(d, n)
    BY DEF Syncs, Response
  <2>3. Range(a) = {g} /\ Range(b) = {e, g}
    BY DEF Range
  <2>4. replies \in [Node -> Seq(Frame)]
    BY <1>a DEF TypeOK
  <2> HIDE DEF g, e, a, b
  <2>5. replies'[d] = a \/ replies'[d] = b
    BY <1>a, <2>1, <2>4
  <2>6. AskOnly(Range(replies'[d]), d, n, f.token)
    BY <2>2, <2>3, <2>5 DEF AskOnly
  <2> QED
    BY <2>6, AckLastOf
<1>9. AcksLast(response_queue[n], air[d][n], replies'[d], d, n, f.token)
  BY <1>7, <1>8, AckLastOf DEF AcksLast
<1> QED
  BY <1>1, <1>2, <1>3, <1>5, <1>6, <1>9, <1>a, AgreeingNext

\* Together: a clean call that waits keeps agreeing with its destination.
LEMMA AgreeingStep ==
    ASSUME IInv, IInv', OwnAcks, Next,
           \A m \in Node : \A e : Cleanly(m, e) => Agreeing(m),
           NEW n \in Node, NEW d, Cleanly(n, d)'
    PROVE  Agreeing(n)'
<1>0. TypeOK /\ TypeOK' /\ d \in Node /\ d \in Node \ Rebooter /\ call \in [Node -> Call]
  BY DEF IInv, TypeOK, Cleanly
<1>1. CASE \E e \in Node : SendWithAck(n, e)
  <2>1. PICK e \in Node : SendWithAck(n, e)
    BY <1>1
  <2>2. e = d
    BY <1>0, <2>1 DEF SendWithAck, Cleanly
  <2> QED
    BY <2>1, <2>2, AgreeingCalled
<1>2. CASE ~ \E e \in Node : SendWithAck(n, e)
  <2>1. /\ call'[n].phase = "waiting" /\ call'[n].clean /\ call'[n].dest = d
    BY DEF Cleanly, Waiting
  <2>2. /\ call[n].phase = "waiting" /\ call'[n].id = call[n].id
        /\ call'[n].dest = call[n].dest /\ call'[n].clean = call[n].clean
    BY <1>0, <1>2, <2>1, CallSteps
  <2>3. Cleanly(n, d)
    BY <1>0, <2>1, <2>2 DEF Cleanly, Waiting
  <2>4. Agreeing(n)
    BY <2>3
  <2>5. n # d
    BY <2>3, CleanlyFacts
  <2>6. CASE ListenBadToken(d, n)
    BY <2>3, <2>4, <2>6, AgreeingRefused
  <2>7. CASE ListenNewMsg(d, n) \/ ListenQueueFull(d, n)
    BY <2>3, <2>4, <2>7, AgreeingAccepted
  <2>8. CASE ~ (ListenBadToken(d, n) \/ ListenNewMsg(d, n) \/ ListenQueueFull(d, n))
    <3>1. recv_tokens'[d][n] = recv_tokens[d][n] /\ Passed(d, n)' = Passed(d, n)
      BY <1>0, <2>8, CounterSteps
    <3>2. CASE GotLateRequest(n)
      BY <2>3, <2>4, <3>1, <3>2, AgreeingLate
    <3>3. CASE GotResend(n)
      BY <2>3, <2>4, <3>1, <3>3, AgreeingResent
    <3>4. CASE ~ GotLateRequest(n) /\ ~ GotResend(n)
      <4>1. ~ Reboot(n)
        <5> SUFFICES ASSUME Reboot(n) PROVE FALSE
          OBVIOUS
        <5>1. call'[n].phase = "idle"
          BY <1>0 DEF Reboot, NoCall
        <5> QED
          BY <2>1, <5>1
      <4>2. call'[n].token = call[n].token /\ call'[n].allow_resend = call[n].allow_resend
        BY <1>0, <1>2, <2>1, <3>4, <4>1, TokenSteps
      <4>3. CalmStep(n, d)
        BY <1>0, <2>5, <2>8, CalmSteps
      <4>4. \A g \in Range(air'[n][d]) : IsData(g) => g \in Range(air[n][d])
        BY <1>0, <1>2, <3>4, MessageSteps
      <4> QED
        BY <2>1, <2>2, <2>3, <2>4, <3>1, <4>2, <4>3, <4>4, AgreeingKept
    <3> QED
      BY <3>2, <3>3, <3>4
  <2> QED
    BY <2>6, <2>7, <2>8
<1> QED
  BY <1>1, <1>2

\* The token of a call is in the table as well.
LEMMA SendTokensKeptStep ==
    ASSUME TypeOK, SendTokensKept, Next
    PROVE  SendTokensKept'
<1>0. call \in [Node -> Call] /\ send_tokens \in [Node -> [Node -> Token]]
  BY DEF TypeOK
<1>a. SUFFICES ASSUME NEW n \in Node, call'[n].phase = "waiting"
               PROVE  send_tokens'[n][call'[n].dest] = call'[n].token
  BY DEF SendTokensKept, Waiting
<1>1. CASE \E e \in Node : SendWithAck(n, e)
  BY <1>0, <1>1 DEF SendWithAck
<1>2. CASE ~ \E e \in Node : SendWithAck(n, e)
  <2>1. /\ call[n].phase = "waiting" /\ call'[n].dest = call[n].dest
    BY <1>2, <1>a, CallSteps
  <2>2. send_tokens[n][call[n].dest] = call[n].token
    BY <2>1 DEF SendTokensKept, Waiting
  <2>3. CASE GotResend(n) \/ GotLateRequest(n)
    BY <2>1, <2>2, <2>3, RequestFacts
  <2>4. CASE Reboot(n)
    BY <1>0, <1>a, <2>4 DEF Reboot, NoCall
  <2>5. CASE /\ send_tokens'[n] = send_tokens[n]
             /\ call'[n].token = call[n].token
    BY <2>1, <2>2, <2>5
  <2> QED
    BY <1>2, <1>a, <2>3, <2>4, <2>5, TokenSteps
<1> QED
  BY <1>1, <1>2

\* What the invariant says of the calls that wait, by the destination of each.
LEMMA CallsAgreeHas ==
    ASSUME CallsAgree, NEW n \in Node, NEW d, Cleanly(n, d)
    PROVE  Agreeing(n)
  BY DEF CallsAgree, Cleanly

LEMMA CallsAgreeNext ==
    ASSUME TypeOK', \A n \in Node : \A d : Cleanly(n, d)' => Agreeing(n)'
    PROVE  CallsAgree'
<1>1. \A n \in Node : call'[n].dest \in Node
  BY DEF TypeOK, Call
<1> QED
  BY <1>1 DEF CallsAgree, Cleanly

LEMMA SuccessLastStep ==
    ASSUME IInv, SuccessLast, Next
    PROVE  SuccessLast'
<1>0. TypeOK /\ CallsOK
  BY DEF IInv
<1>a. SUFFICES ASSUME NEW n \in Node, call'[n].phase = "success"
               PROVE  call'[n].id = calls'[n]
  BY DEF SuccessLast
<1>1. ~ \E e \in Node : SendWithAck(n, e)
  <2>1. ASSUME NEW e \in Node, SendWithAck(n, e) PROVE call'[n].phase = "waiting"
    BY <1>0, <2>1 DEF SendWithAck, TypeOK
  <2> QED
    BY <1>a, <2>1
<1>2. /\ calls'[n] = calls[n]
      /\ call'[n] = call[n] \/ (GotAck(n) /\ call'[n].id = call[n].id)
  BY <1>0, <1>1, <1>a, CallSteps
<1>3. CASE call'[n] = call[n]
  BY <1>2, <1>3, <1>a DEF SuccessLast
<1>4. CASE GotAck(n) /\ call'[n].id = call[n].id
  <2>1. Waiting(n)
    BY <1>4 DEF GotAck, Poll
  <2> QED
    BY <1>0, <1>2, <1>4, <2>1 DEF CallsOK
<1> QED
  BY <1>2, <1>3, <1>4

\* The two ends agree when the ACK is read, and until the next call no message passes.
LEMMA TokensAgreeStep ==
    ASSUME AckInv, SendTokensKept, CallsAgree, SuccessLast, TokensAgree, Next
    PROVE  TokensAgree'
<1>0. /\ IInv /\ OwnAcks /\ AckGenuine /\ TypeOK /\ CallsOK /\ call \in [Node -> Call]
  BY DEF AckInv, IInv, TypeOK
<1>a. SUFFICES ASSUME NEW n \in Node, call'[n].phase = "success", call'[n].clean,
                      NEW d, d = call'[n].dest, d \notin Rebooter
               PROVE  send_tokens'[n][d] = recv_tokens'[d][n]
  BY DEF TokensAgree
<1>1. ASSUME NEW e \in Node, SendWithAck(n, e) PROVE FALSE
  <2>1. call'[n].phase = "waiting"
    BY <1>0, <1>1 DEF SendWithAck
  <2> QED
    BY <1>a, <2>1
<1>2. \/ call'[n] = call[n]
      \/ /\ GotAck(n)
         /\ call'[n].id = call[n].id /\ call'[n].dest = call[n].dest
         /\ call'[n].clean = call[n].clean
  BY <1>0, <1>1, <1>a, CallSteps
<1>3. CASE call'[n] = call[n]
  <2>1. call[n].phase = "success" /\ call[n].clean /\ d = call[n].dest /\ d \in Node \ Rebooter
    BY <1>0, <1>3, <1>a DEF Call
  <2>2. send_tokens[n][d] = recv_tokens[d][n] /\ call[n].id \in Passed(d, n)
        /\ call[n].id = calls[n]
    BY <1>0, <2>1 DEF TokensAgree, AckGenuine, Passed, SuccessLast
  <2>3. send_tokens'[n] = send_tokens[n]
    <3>1. ~ GotResend(n) /\ ~ GotLateRequest(n)
      BY <2>1, <1>0, RequestFacts
    <3>2. ~ Reboot(n)
      <4> SUFFICES ASSUME Reboot(n) PROVE FALSE
        OBVIOUS
      <4>1. call'[n].phase = "idle"
        BY <1>0 DEF Reboot, NoCall
      <4> QED
        BY <1>a, <4>1
    <3> QED
      BY <1>0, <1>1, <3>1, <3>2, TokenSteps
  <2>4. ~ AcceptToken(d, n)
    <3> SUFFICES ASSUME AcceptToken(d, n) PROVE FALSE
      OBVIOUS
    <3>1. /\ Arrived(d, n).id \in Nat /\ Arrived(d, n).id =< calls[n]
          /\ \A id \in Passed(d, n) : id \in Nat /\ id < Arrived(d, n).id
      BY <1>0, <2>1, PassesNewest
    <3>2. calls[n] \in Nat /\ calls[n] < Arrived(d, n).id
      BY <2>2, <3>1
    <3> QED
      BY <3>1, <3>2
  <2>5. recv_tokens'[d][n] = recv_tokens[d][n]
    BY <1>0, <2>1, <2>4, CounterSteps DEF ListenNewMsg, ListenQueueFull
  <2> QED
    BY <2>2, <2>3, <2>5
<1>4. CASE /\ GotAck(n)
           /\ call'[n].id = call[n].id /\ call'[n].dest = call[n].dest
           /\ call'[n].clean = call[n].clean
  <2>1. /\ Waiting(n) /\ Poll(n) /\ Polled(n).from = d /\ "ACK" \in Polled(n).flags
        /\ UNCHANGED <<send_tokens, recv_tokens>>
    BY <1>4, <1>a DEF GotAck, Poll, FromPeer
  <2>2. Polled(n) \in Frame /\ Polled(n) \in Range(response_queue[n]) /\ d \in Node
    BY <1>0, <1>4, <1>a, <2>1, PollFacts, TailFacts DEF Polled
  <2>3. Polled(n).to = n
    BY <1>0, <2>2, FramesOfQueue
  <2>4. AckUnderWay(d, n)
    BY <2>1, <2>2, <2>3 DEF AckUnderWay, Acks
  <2>5. Cleanly(n, d)
    BY <1>4, <1>a, <2>1, <2>2 DEF Cleanly
  <2>6. call[n].id \in Passed(d, n)
    BY <1>0, <2>4, <2>5, CleanlyFacts
  <2>7. Agreeing(n) /\ d = call[n].dest
    BY <1>4, <1>a, <2>5, CallsAgreeHas
  <2>8. call[n].token = recv_tokens[d][n]
    BY <2>4, <2>5, <2>6, <2>7, AgreeingHas
  <2>9. send_tokens[n][d] = call[n].token
    BY <1>4, <1>a, <2>1 DEF SendTokensKept
  <2> QED
    BY <2>1, <2>8, <2>9
<1> QED
  BY <1>2, <1>3, <1>4

LEMMA AgreeInit == Init => AgreeInv
<1> SUFFICES ASSUME Init PROVE AgreeInv
  OBVIOUS
<1>1. AckInv
  BY AckInit
<1>2. \A n \in Node : call[n].phase = "idle"
  BY DEF Init, NoCall
<1> QED
  BY <1>1, <1>2 DEF AgreeInv, SendTokensKept, CallsAgree, SuccessLast, TokensAgree, Waiting

\* Every step keeps the invariant of the tokens.
LEMMA AgreeStep ==
    ASSUME AgreeInv, [Next]_vars
    PROVE  AgreeInv'
<1>0. /\ AckInv /\ SendTokensKept /\ CallsAgree /\ SuccessLast /\ TokensAgree
      /\ AckInv'
  BY AckStep DEF AgreeInv
<1>1. IInv /\ IInv' /\ OwnAcks /\ TypeOK /\ TypeOK'
  BY <1>0 DEF AckInv, IInv
<1>2. CASE Next
  <2>1. CallsAgree'
    <3>1. \A m \in Node : \A e : Cleanly(m, e) => Agreeing(m)
      BY <1>0, CallsAgreeHas
    <3>2. ASSUME NEW n \in Node, NEW d, Cleanly(n, d)'
          PROVE  Agreeing(n)'
      BY <1>1, <1>2, <3>1, <3>2, AgreeingStep
    <3> QED
      BY <1>1, <3>2, CallsAgreeNext
  <2>2. SendTokensKept'
    BY <1>0, <1>1, <1>2, SendTokensKeptStep
  <2>3. SuccessLast'
    BY <1>0, <1>1, <1>2, SuccessLastStep
  <2>4. TokensAgree'
    BY <1>0, <1>2, TokensAgreeStep
  <2> QED
    BY <1>0, <2>1, <2>2, <2>3, <2>4 DEF AgreeInv
<1>3. CASE UNCHANGED vars
  <2>1. /\ UNCHANGED <<send_tokens, recv_tokens, call, response_queue, replies, air, calls,
                       accepted, dropped>>
    BY <1>3 DEF vars, tokenVars, queueVars, history
  <2>2. SendTokensKept' /\ SuccessLast' /\ TokensAgree'
    BY <1>0, <2>1 DEF SendTokensKept, SuccessLast, TokensAgree, Waiting
  <2>3. CallsAgree'
    <3> SUFFICES ASSUME NEW n \in Node, NEW d, Cleanly(n, d)' PROVE Agreeing(n)'
      BY <1>1, CallsAgreeNext
    <3>1. Cleanly(n, d) /\ d = call[n].dest
      BY <2>1 DEF Cleanly, Waiting
    <3>2. Agreeing(n)
      BY <1>0, <3>1, CallsAgreeHas
    <3>3. /\ Asked(d, n)' = Asked(d, n) /\ Passed(d, n)' = Passed(d, n)
          /\ AckUnderWay(d, n)' <=> AckUnderWay(d, n)
      BY <2>1 DEF Asked, Passed, AckUnderWay, Acks
    <3> QED
      BY <2>1, <3>1, <3>2, <3>3, AgreeingHas, AgreeingNext
  <2> QED
    BY <1>0, <2>2, <2>3 DEF AgreeInv
<1> QED
  BY <1>2, <1>3

\* The invariant of the tokens holds in every reachable state, with any faults and restarts.
THEOREM AgreeInvariance == Spec => []AgreeInv
<1>1. Init => AgreeInv
  BY AgreeInit
<1>2. AgreeInv /\ [Next]_vars => AgreeInv'
  BY AgreeStep
<1> QED
  BY <1>1, <1>2, PTL DEF Spec

\* After a call that began clean and returned true its device goes on from the token that its
\* destination remembers, unless the destination may restart: whatever was lost, damaged,
\* asked for again and resent in between.
THEOREM TokensDoAgree == Spec => []TokensAgree
<1>1. AgreeInv => TokensAgree
  BY DEF AgreeInv
<1> QED
  BY <1>1, AgreeInvariance, PTL
=============================================================================
