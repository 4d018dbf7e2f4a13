-------------------------- MODULE LoraTimelyProofs --------------------------
(***************************************************************************)
(* Exact results, for every network: on a medium that loses nothing and    *)
(* answers in time, a call of LoraTransport that began with nothing of the *)
(* past around it fails only for want of room or of tokens, and succeeds   *)
(* only if its message was queued.  That such a medium is wide enough for  *)
(* what two devices may have under way is proved first, for every medium.  *)
(***************************************************************************)
EXTENDS LoraAckProofs

(***************************************************************************)
(* FewFrames: what each step does to what two devices have under way.      *)
(***************************************************************************)

\* A frame on a line counts once, a message twice.
Load(x, y) == Len(air[x][y]) + Count(air[x][y], Messages)

Weight(f) == IF IsData(f) THEN 2 ELSE 1

\* The permission to resend.
May(x, y) == IF Pending(x, y) = {} THEN 0 ELSE 1

\* The parts of a backlog are natural numbers.
LEMMA BacklogType ==
    ASSUME TypeOK, NEW x \in Node, NEW y \in Node
    PROVE  /\ Load(x, y) \in Nat
           /\ Count(replies[x], ToDevice(y)) \in Nat
           /\ Count(response_queue[x], FromDevice(y)) \in Nat
           /\ May(x, y) \in Nat
           /\ Backlog(x, y) = Load(x, y) + Count(replies[x], ToDevice(y))
                                + Count(response_queue[x], FromDevice(y)) + May(x, y)
           /\ Backlog(x, y) \in Nat
<1>1. /\ air[x][y] \in Seq(Frame) /\ replies[x] \in Seq(Frame)
      /\ response_queue[x] \in Seq(Frame)
  BY DEF TypeOK
<1>2. /\ Len(air[x][y]) \in Nat /\ Count(air[x][y], Messages) \in Nat
      /\ Count(replies[x], ToDevice(y)) \in Nat
      /\ Count(response_queue[x], FromDevice(y)) \in Nat
  BY <1>1, CountType, LenProperties
<1>3. May(x, y) \in Nat
  BY DEF May
<1>4. Load(x, y) \in Nat
  BY <1>2 DEF Load
<1>5. Backlog(x, y) = Load(x, y) + Count(replies[x], ToDevice(y))
                                + Count(response_queue[x], FromDevice(y)) + May(x, y)
  BY DEF Backlog, Load, May
<1>6. Backlog(x, y) \in Nat
  BY <1>2, <1>3, <1>4, <1>5
<1> QED
  BY <1>2, <1>3, <1>4, <1>5, <1>6

\* So they are after a step.
LEMMA BacklogTypeNext ==
    ASSUME TypeOK', NEW x \in Node, NEW y \in Node
    PROVE  /\ Load(x, y)' \in Nat
           /\ Count(replies'[x], ToDevice(y)) \in Nat
           /\ Count(response_queue'[x], FromDevice(y)) \in Nat
           /\ May(x, y)' \in Nat
           /\ Backlog(x, y)' = Load(x, y)' + Count(replies'[x], ToDevice(y))
                                + Count(response_queue'[x], FromDevice(y)) + May(x, y)'
           /\ Backlog(x, y)' \in Nat
<1>1. /\ air'[x][y] \in Seq(Frame) /\ replies'[x] \in Seq(Frame)
      /\ response_queue'[x] \in Seq(Frame)
  BY DEF TypeOK
<1>2. /\ Len(air'[x][y]) \in Nat /\ Count(air'[x][y], Messages) \in Nat
      /\ Count(replies'[x], ToDevice(y)) \in Nat
      /\ Count(response_queue'[x], FromDevice(y)) \in Nat
  BY <1>1, CountType, LenProperties
<1>3. May(x, y)' \in Nat
  BY DEF May
<1>4. Load(x, y)' \in Nat
  BY <1>2 DEF Load, Messages
<1>5. Backlog(x, y)' = Load(x, y)' + Count(replies'[x], ToDevice(y))
                                + Count(response_queue'[x], FromDevice(y)) + May(x, y)'
  BY DEF Backlog, Load, May, Messages, ToDevice, FromDevice
<1>6. Backlog(x, y)' \in Nat
  BY <1>2, <1>3, <1>4, <1>5
<1> QED
  BY <1>2, <1>3, <1>4, <1>5, <1>6

\* A backlog grows by no more than its parts.
LEMMA BacklogSum ==
    ASSUME TypeOK, TypeOK', NEW x \in Node, NEW y \in Node,
           NEW a \in Int, NEW b \in Int, NEW c \in Int, NEW e \in Int,
           Load(x, y)' =< Load(x, y) + a,
           Count(replies'[x], ToDevice(y)) =< Count(replies[x], ToDevice(y)) + b,
           Count(response_queue'[x], FromDevice(y)) =<
              Count(response_queue[x], FromDevice(y)) + c,
           May(x, y)' =< May(x, y) + e
    PROVE  Backlog(x, y)' =< Backlog(x, y) + (a + b + c + e)
<1> DEFINE l == Load(x, y)  r == Count(replies[x], ToDevice(y))
           q == Count(response_queue[x], FromDevice(y))  p == May(x, y)
           l2 == Load(x, y)'  r2 == Count(replies'[x], ToDevice(y))
           q2 == Count(response_queue'[x], FromDevice(y))  p2 == May(x, y)'
<1>1. /\ l \in Nat /\ r \in Nat /\ q \in Nat /\ p \in Nat
      /\ Backlog(x, y) = l + r + q + p
  BY BacklogType
<1>2. /\ l2 \in Nat /\ r2 \in Nat /\ q2 \in Nat /\ p2 \in Nat
      /\ Backlog(x, y)' = l2 + r2 + q2 + p2
  BY BacklogTypeNext
<1>3. l2 =< l + a /\ r2 =< r + b /\ q2 =< q + c /\ p2 =< p + e
  OBVIOUS
<1> HIDE DEF l, r, q, p, l2, r2, q2, p2
<1>4. l2 + r2 + q2 + p2 =< (l + r + q + p) + (a + b + c + e)
  BY <1>1, <1>2, <1>3, SMTT(30)
<1> QED
  BY <1>1, <1>2, <1>4

\* If no part grows, the backlog does not.
LEMMA BacklogKept ==
    ASSUME TypeOK, TypeOK', NEW x \in Node, NEW y \in Node,
           Load(x, y)' =< Load(x, y) + 0,
           Count(replies'[x], ToDevice(y)) =< Count(replies[x], ToDevice(y)) + 0,
           Count(response_queue'[x], FromDevice(y)) =<
              Count(response_queue[x], FromDevice(y)) + 0,
           May(x, y)' =< May(x, y) + 0
    PROVE  Backlog(x, y)' =< Backlog(x, y) + 0
<1>1. PICK z \in Int : z = 0
  OBVIOUS
<1>2. Backlog(x, y)' =< Backlog(x, y) + (z + z + z + z)
  BY <1>1, BacklogSum
<1> QED
  BY <1>1, <1>2

\* A step that moves frames from the line of s to n: what the backlog of n towards s gains,
\* that of s towards n loses.
Moves(n, s, k) ==
    \A x, y \in Node :
        Backlog(x, y)' =< Backlog(x, y) + (IF x = n /\ y = s THEN k ELSE 0)
                                        - (IF x = s /\ y = n THEN k ELSE 0)

\* Such a step does not change the sum of the two.
LEMMA FewMoved ==
    ASSUME TypeOK, TypeOK', FewFrames, calls' = calls,
           NEW n \in Node, NEW s \in Node, n # s, NEW k \in Nat, Moves(n, s, k)
    PROVE  FewFrames'
<1> SUFFICES ASSUME NEW x \in Node, NEW y \in Node
             PROVE  Backlog(x, y)' + Backlog(y, x)' =< 3 * (calls[x] + calls[y])
  BY DEF FewFrames
<1>1. calls[x] \in Nat /\ calls[y] \in Nat
  BY DEF TypeOK
<1>2. PICK u \in Nat : u = 3 * (calls[x] + calls[y])
  BY <1>1
<1>3. Backlog(x, y) + Backlog(y, x) =< u
  BY <1>2 DEF FewFrames
<1>4. /\ Backlog(x, y) \in Nat /\ Backlog(y, x) \in Nat
      /\ Backlog(x, y)' \in Nat /\ Backlog(y, x)' \in Nat
  BY BacklogType, BacklogTypeNext
<1>5. /\ Backlog(x, y)' =< Backlog(x, y) + (IF x = n /\ y = s THEN k ELSE 0)
                                         - (IF x = s /\ y = n THEN k ELSE 0)
      /\ Backlog(y, x)' =< Backlog(y, x) + (IF y = n /\ x = s THEN k ELSE 0)
                                         - (IF y = s /\ x = n THEN k ELSE 0)
  BY DEF Moves
<1>6. Backlog(x, y)' + Backlog(y, x)' =< Backlog(x, y) + Backlog(y, x)
  <2>1. CASE x = n /\ y = s
    BY <1>4, <1>5, <2>1
  <2>2. CASE x = s /\ y = n
    BY <1>4, <1>5, <2>2
  <2>3. CASE ~ (x = n /\ y = s) /\ ~ (x = s /\ y = n)
    BY <1>4, <1>5, <2>3
  <2> QED
    BY <2>1, <2>2, <2>3
<1>7. Backlog(x, y)' + Backlog(y, x)' =< u
  BY <1>3, <1>4, <1>6
<1> QED
  BY <1>2, <1>7

\* Nor does one that adds to no backlog.
LEMMA FewKept ==
    ASSUME TypeOK, TypeOK', FewFrames, calls' = calls,
           \A x, y \in Node : Backlog(x, y)' =< Backlog(x, y) + 0
    PROVE  FewFrames'
<1> SUFFICES ASSUME NEW x \in Node, NEW y \in Node
             PROVE  Backlog(x, y)' + Backlog(y, x)' =< 3 * (calls[x] + calls[y])
  BY DEF FewFrames
<1>1. calls[x] \in Nat /\ calls[y] \in Nat
  BY DEF TypeOK
<1>2. PICK u \in Nat : u = 3 * (calls[x] + calls[y])
  BY <1>1
<1>3. Backlog(x, y) + Backlog(y, x) =< u
  BY <1>2 DEF FewFrames
<1>4. /\ Backlog(x, y) \in Nat /\ Backlog(y, x) \in Nat
      /\ Backlog(x, y)' \in Nat /\ Backlog(y, x)' \in Nat
  BY BacklogType, BacklogTypeNext
<1>5. Backlog(x, y)' =< Backlog(x, y) + 0 /\ Backlog(y, x)' =< Backlog(y, x) + 0
  OBVIOUS
<1>6. Backlog(x, y)' + Backlog(y, x)' =< u
  BY <1>3, <1>4, <1>5
<1> QED
  BY <1>2, <1>6

\* A transmission adds its frame to a line, or nothing.
LEMMA LoadSent ==
    ASSUME TypeOK, NEW f \in Frame, Transmit(f), NEW x \in Node, NEW y \in Node
    PROVE  Load(x, y)' =< Load(x, y) + (IF x = f.from /\ y = f.to THEN Weight(f) ELSE 0)
<1>1. air[x][y] \in Seq(Frame)
  BY DEF TypeOK
<1>2. Count(air[x][y], Messages) \in Nat /\ Len(air[x][y]) \in Nat
  BY <1>1, CountType, LenProperties
<1>3. /\ Load(x, y) = Len(air[x][y]) + Count(air[x][y], Messages)
      /\ Load(x, y)' = Len(air'[x][y]) + Count(air'[x][y], Messages)
  BY DEF Load, Messages
<1>4. \/ air'[x][y] = air[x][y]
      \/ /\ x = f.from /\ y = f.to
         /\ \E g \in {f, Corrupted(f)} : air'[x][y] = Append(air[x][y], g)
  BY TransmitFacts
<1>5. CASE air'[x][y] = air[x][y]
  BY <1>2, <1>3, <1>5 DEF Weight
<1>6. ASSUME NEW g \in {f, Corrupted(f)}, air'[x][y] = Append(air[x][y], g),
             x = f.from, y = f.to
      PROVE  Load(x, y)' =< Load(x, y) + Weight(f)
  <2>1. g \in Frame /\ (g \in Messages <=> IsData(f))
    BY <1>6, CorruptedFacts DEF Messages
  <2>2. Count(air'[x][y], Messages) = IF g \in Messages THEN Count(air[x][y], Messages) + 1
                                      ELSE Count(air[x][y], Messages)
    BY <1>1, <1>6, <2>1, CountAppend
  <2>3. Len(air'[x][y]) = Len(air[x][y]) + 1
    BY <1>1, <1>6, <2>1, AppendFacts
  <2> QED
    BY <1>2, <1>3, <2>1, <2>2, <2>3 DEF Weight
<1> QED
  BY <1>4, <1>5, <1>6

\* A listener takes a frame off its line.
LEMMA LoadTaken ==
    ASSUME TypeOK, NEW n \in Node, NEW s \in Node, Arriving(n, s), TakeFrame(n, s),
           NEW x \in Node, NEW y \in Node
    PROVE  Load(x, y)' =< Load(x, y) - (IF x = s /\ y = n THEN Weight(Arrived(n, s)) ELSE 0)
<1>1. /\ air'[s][n] = Tail(air[s][n])
      /\ air[s][n] \in Seq(Frame) /\ air[s][n] # <<>>
      /\ \A m, d \in Node : m # s \/ d # n => air'[m][d] = air[m][d]
  BY ArrivingFacts
<1>2. /\ Load(x, y) = Len(air[x][y]) + Count(air[x][y], Messages)
      /\ Load(x, y)' = Len(air'[x][y]) + Count(air'[x][y], Messages)
  BY DEF Load, Messages
<1>3. Load(x, y) \in Nat
  BY BacklogType
<1>4. CASE x = s /\ y = n
  <2>1. /\ Arrived(n, s) \in Frame /\ Tail(air[s][n]) \in Seq(Frame)
        /\ Len(air'[s][n]) = Len(air[s][n]) - 1 /\ Len(air[s][n]) \in Nat
    BY <1>1, TailFacts DEF Arrived
  <2>2. Count(air[s][n], Messages) = IF Arrived(n, s) \in Messages
                                     THEN Count(air'[s][n], Messages) + 1
                                     ELSE Count(air'[s][n], Messages)
    BY <1>1, CountTail DEF Arrived
  <2>3. Count(air'[s][n], Messages) \in Nat
    BY <1>1, <2>1, CountType
  <2>4. Arrived(n, s) \in Messages <=> IsData(Arrived(n, s))
    BY <2>1 DEF Messages
  <2> QED
    BY <1>2, <1>4, <2>1, <2>2, <2>3, <2>4 DEF Weight
<1>5. CASE ~ (x = s /\ y = n)
  BY <1>1, <1>2, <1>3, <1>5
<1> QED
  BY <1>4, <1>5

\* Answers are no messages.
LEMMA AnswerWeight ==
    ASSUME NEW f, AnswerOK(f)
    PROVE  Weight(f) = 1
  BY DEF AnswerOK, IsData, Weight

\* A call that ends or goes on gains no permission.
LEMMA MayKept ==
    ASSUME NEW x \in Node, NEW y \in Node,
           Waiting(x)' => /\ Waiting(x) /\ call'[x].dest = call[x].dest
                          /\ call'[x].allow_resend => call[x].allow_resend
    PROVE  May(x, y)' =< May(x, y) + 0
<1>1. Pending(x, y)' # {} => Pending(x, y) # {}
  BY DEF Pending
<1> QED
  BY <1>1 DEF May

\* What does not change, or is emptied, adds nothing.
LEMMA LoadKept ==
    ASSUME TypeOK, UNCHANGED air, NEW x \in Node, NEW y \in Node
    PROVE  Load(x, y)' =< Load(x, y) + 0
<1>1. Load(x, y) \in Nat
  BY BacklogType
<1>2. Load(x, y)' = Load(x, y)
  BY DEF Load, Messages
<1> QED
  BY <1>1, <1>2

LEMMA AnswersKept ==
    ASSUME TypeOK, NEW x \in Node, NEW y \in Node
    PROVE  /\ replies'[x] \in {replies[x], <<>>} =>
                 Count(replies'[x], ToDevice(y)) =< Count(replies[x], ToDevice(y)) + 0
           /\ response_queue'[x] \in {response_queue[x], <<>>} =>
                 Count(response_queue'[x], FromDevice(y)) =<
                    Count(response_queue[x], FromDevice(y)) + 0
<1>1. /\ Count(replies[x], ToDevice(y)) \in Nat
      /\ Count(response_queue[x], FromDevice(y)) \in Nat
  BY BacklogType
<1>2. Count(<<>>, ToDevice(y)) = 0 /\ Count(<<>>, FromDevice(y)) = 0
  BY CountEmpty
<1> QED
  BY <1>1, <1>2

\* A new call transmits its message and may transmit it once more: three frames.
LEMMA FewSend ==
    ASSUME IInv, TypeOK', FewFrames, NEW n \in Node, NEW d \in Node, SendWithAck(n, d)
    PROVE  FewFrames'
<1>0. /\ TypeOK /\ calls \in [Node -> Nat] /\ call \in [Node -> Call]
      /\ send_tokens \in [Node -> [Node -> Token]]
  BY DEF IInv, TypeOK
<1>1. /\ ~ Waiting(n) /\ calls' = [calls EXCEPT ![n] = calls[n] + 1]
      /\ UNCHANGED <<replies, response_queue>>
      /\ \A x \in Node \ {n} : call'[x] = call[x]
      /\ call'[n].dest = d
  BY <1>0 DEF SendWithAck, queueVars
<1>2. PICK f \in Frame : /\ f.from = n /\ f.to = d /\ IsData(f) /\ Transmit(f)
  <2>1. NextToken(send_tokens[n][d]) \in Token /\ calls[n] + 1 \in Nat
    BY <1>0, NextTokenType
  <2>2. Transmit(DataFrame(n, d, calls[n] + 1, NextToken(send_tokens[n][d])))
    BY DEF SendWithAck
  <2> QED
    BY <2>1, <2>2, DataFrameFacts
<1>3. ASSUME NEW x \in Node, NEW y \in Node
      PROVE  Backlog(x, y)' =< Backlog(x, y) + (IF x = n /\ y = d THEN 3 ELSE 0)
  <2>1. Load(x, y)' =< Load(x, y) + (IF x = n /\ y = d THEN 2 ELSE 0)
    BY <1>0, <1>2, LoadSent DEF Weight
  <2>2. May(x, y)' =< May(x, y) + (IF x = n /\ y = d THEN 1 ELSE 0)
    <3>1. CASE x # n
      BY <1>1, <3>1, MayKept DEF Waiting
    <3>2. CASE x = n
      <4>1. Pending(x, y) = {} /\ May(x, y) = 0
        BY <1>1, <3>2 DEF Pending, May
      <4>2. y # d => Pending(x, y)' = {}
        BY <1>1, <3>2 DEF Pending
      <4>3. May(x, y)' = IF Pending(x, y)' = {} THEN 0 ELSE 1
        BY DEF May
      <4> QED
        BY <3>2, <4>1, <4>2, <4>3
    <3> QED
      BY <3>1, <3>2
  <2>3. /\ Count(replies'[x], ToDevice(y)) =< Count(replies[x], ToDevice(y)) + 0
        /\ Count(response_queue'[x], FromDevice(y)) =<
              Count(response_queue[x], FromDevice(y)) + 0
    BY <1>0, <1>1, AnswersKept
  <2> DEFINE a == IF x = n /\ y = d THEN 2 ELSE 0
             e == IF x = n /\ y = d THEN 1 ELSE 0
  <2>4. a \in Int /\ e \in Int /\ a + 0 + 0 + e = IF x = n /\ y = d THEN 3 ELSE 0
    OBVIOUS
  <2>5. Load(x, y)' =< Load(x, y) + a /\ May(x, y)' =< May(x, y) + e
    BY <2>1, <2>2
  <2> HIDE DEF a, e
  <2>6. Backlog(x, y)' =< Backlog(x, y) + (a + 0 + 0 + e)
    BY <1>0, <2>3, <2>4, <2>5, BacklogSum
  <2> QED
    BY <2>4, <2>6
<1> SUFFICES ASSUME NEW x \in Node, NEW y \in Node
             PROVE  Backlog(x, y)' + Backlog(y, x)' =< 3 * (calls'[x] + calls'[y])
  BY DEF FewFrames
<1>4. n # d
  BY DEF SendWithAck
<1>5. /\ Backlog(x, y) \in Nat /\ Backlog(y, x) \in Nat
      /\ Backlog(x, y)' \in Nat /\ Backlog(y, x)' \in Nat
  BY <1>0, BacklogType, BacklogTypeNext
<1>6. Backlog(x, y) + Backlog(y, x) =< 3 * (calls[x] + calls[y])
  BY DEF FewFrames
<1>7. calls[x] \in Nat /\ calls[y] \in Nat
  BY <1>0
<1>8. CASE x = n /\ y = d
  <2>1. calls'[x] = calls[x] + 1 /\ calls'[y] = calls[y]
    BY <1>0, <1>1, <1>4, <1>8
  <2>2. Backlog(x, y)' =< Backlog(x, y) + 3 /\ Backlog(y, x)' =< Backlog(y, x)
    BY <1>3, <1>4, <1>5, <1>8
  <2> QED
    BY <1>5, <1>6, <1>7, <2>1, <2>2
<1>9. CASE x = d /\ y = n
  <2>1. calls'[y] = calls[y] + 1 /\ calls'[x] = calls[x]
    BY <1>0, <1>1, <1>4, <1>9
  <2>2. Backlog(y, x)' =< Backlog(y, x) + 3 /\ Backlog(x, y)' =< Backlog(x, y)
    BY <1>3, <1>4, <1>5, <1>9
  <2> QED
    BY <1>5, <1>6, <1>7, <2>1, <2>2
<1>10. CASE ~ (x = n /\ y = d) /\ ~ (x = d /\ y = n)
  <2>1. /\ calls'[x] \in Nat /\ calls'[y] \in Nat
        /\ calls[x] =< calls'[x] /\ calls[y] =< calls'[y]
    BY <1>0, <1>1
  <2>2. Backlog(x, y)' =< Backlog(x, y) /\ Backlog(y, x)' =< Backlog(y, x)
    BY <1>3, <1>5, <1>10
  <2> QED
    BY <1>5, <1>6, <1>7, <2>1, <2>2
<1> QED
  BY <1>8, <1>9, <1>10

\* An answer that is read adds nothing; with the permission it pays for a resent message.
LEMMA FewPoll ==
    ASSUME IInv, TypeOK', FewFrames, NEW n \in Node, PollStep(n)
    PROVE  FewFrames'
<1>0. TypeOK /\ call \in [Node -> Call]
  BY DEF IInv, TypeOK
<1>1. Poll(n) /\ Waiting(n) /\ UNCHANGED <<replies, calls>>
  BY DEF PollStep, GotForeign, GotAck, GotError, GotResend, GotLateRequest, GotRequest, Poll
<1>2. Polled(n) \in Frame
  BY <1>0, <1>1, PollFacts
<1>3. PICK d \in Node : d = call[n].dest
  BY <1>0 DEF Call
<1>4. ASSUME NEW x \in Node, NEW y \in Node
      PROVE  /\ Count(replies'[x], ToDevice(y)) =< Count(replies[x], ToDevice(y)) + 0
             /\ Count(response_queue'[x], FromDevice(y)) =<
                  Count(response_queue[x], FromDevice(y))
                    + (IF x = n /\ Polled(n).from = y THEN -1 ELSE 0)
  <2>1. Polled(n) \in FromDevice(y) <=> Polled(n).from = y
    BY <1>2 DEF FromDevice
  <2>2. Count(response_queue[x], FromDevice(y)) =
           IF x = n /\ Polled(n) \in FromDevice(y)
           THEN Count(response_queue'[x], FromDevice(y)) + 1
           ELSE Count(response_queue'[x], FromDevice(y))
    BY <1>0, <1>1, PollCount
  <2>3. /\ Count(response_queue'[x], FromDevice(y)) \in Nat
        /\ Count(replies[x], ToDevice(y)) \in Nat
    BY <1>0, BacklogType, BacklogTypeNext
  <2> QED
    BY <1>1, <2>1, <2>2, <2>3
<1>5. \A x \in Node : Waiting(x)' => /\ Waiting(x) /\ call'[x].dest = call[x].dest
                                     /\ call'[x].allow_resend => call[x].allow_resend
  <2>1. \A x \in Node \ {n} : call'[x] = call[x]
    BY <1>0, CallKept
  <2>2. Waiting(n)' => /\ call'[n].dest = call[n].dest
                       /\ call'[n].allow_resend => call[n].allow_resend
    <3>1. CASE GotForeign(n) \/ GotLateRequest(n) \/ GotResend(n)
      <4>1. \/ call' = [call EXCEPT ![n].token = SwappedToken(n),
                                    ![n].allow_resend = FALSE, ![n].left = RESPONSE_TIMEOUT]
            \/ call' = [call EXCEPT ![n].token = SwappedToken(n)]
            \/ call' = call
        BY <3>1 DEF GotResend, GotLateRequest, GotForeign
      <4> QED
        BY <1>0, <4>1 DEF Call
    <3>2. CASE GotAck(n) \/ GotError(n)
      <4>1. PICK p \in {"success", "failure"} :
               call' = [call EXCEPT ![n].phase = p, ![n].token = 0,
                                    ![n].allow_resend = FALSE, ![n].left = 0]
        BY <3>2 DEF GotAck, GotError, Return
      <4> QED
        BY <1>0, <4>1 DEF Call, Waiting
    <3> QED
      BY <3>1, <3>2 DEF PollStep
  <2> QED
    BY <1>1, <2>1, <2>2 DEF Waiting
<1>6. ASSUME NEW x \in Node, NEW y \in Node
      PROVE  Backlog(x, y)' =< Backlog(x, y) + 0
  <2> DEFINE c == IF x = n /\ Polled(n).from = y THEN -1 ELSE 0
  <2>1. c \in Int /\ c =< 0
    OBVIOUS
  <2>2. Backlog(x, y) \in Nat /\ Backlog(x, y)' \in Nat
    BY <1>0, BacklogType, BacklogTypeNext
  <2>3. CASE UNCHANGED air
    <3>1. Load(x, y)' =< Load(x, y) + 0
      BY <1>0, <2>3, LoadKept
    <3>2. May(x, y)' =< May(x, y) + 0
      BY <1>5, MayKept
    <3>3. Backlog(x, y)' =< Backlog(x, y) + (0 + 0 + c + 0)
      BY <1>0, <1>4, <2>1, <3>1, <3>2, BacklogSum
    <3> QED
      BY <2>1, <2>2, <3>3
  <2>4. CASE GotResend(n)
    <3>1. PICK f \in Frame : f.from = n /\ f.to = d /\ IsData(f) /\ Transmit(f)
      <4>1. SwappedToken(n) \in Token /\ call[n].id \in Nat
        BY <1>0, <1>1, <2>4, SwapFacts, PollFacts DEF GotResend
      <4>2. Transmit(DataFrame(n, d, call[n].id, SwappedToken(n)))
        BY <1>3, <2>4 DEF GotResend
      <4> QED
        BY <4>1, <4>2, DataFrameFacts
    <3>2. Load(x, y)' =< Load(x, y) + (IF x = n /\ y = d THEN 2 ELSE 0)
      BY <1>0, <3>1, LoadSent DEF Weight
    <3>3. May(x, y)' =< May(x, y) + (IF x = n /\ y = d THEN -1 ELSE 0)
      <4>1. CASE x = n /\ y = d
        <5>1. /\ call[n].allow_resend
              /\ call' = [call EXCEPT ![n].token = SwappedToken(n),
                                      ![n].allow_resend = FALSE, ![n].left = RESPONSE_TIMEOUT]
          BY <2>4 DEF GotResend
        <5>2. ~ call'[n].allow_resend
          BY <1>0, <5>1
        <5>3. Pending(n, d) # {} /\ Pending(n, d)' = {}
          BY <1>1, <1>3, <5>1, <5>2 DEF Pending
        <5> QED
          BY <4>1, <5>3 DEF May
      <4>2. CASE ~ (x = n /\ y = d)
        BY <1>5, <4>2, MayKept
      <4> QED
        BY <4>1, <4>2
    <3>4. Polled(n).from = d
      BY <1>3, <2>4 DEF GotResend, GotRequest, FromPeer
    <3> DEFINE a == IF x = n /\ y = d THEN 2 ELSE 0
               e == IF x = n /\ y = d THEN -1 ELSE 0
    <3>5. a \in Int /\ e \in Int /\ a + 0 + c + e = 0
      BY <3>4
    <3>6. Load(x, y)' =< Load(x, y) + a /\ May(x, y)' =< May(x, y) + e
      BY <3>2, <3>3
    <3>7. Count(response_queue'[x], FromDevice(y)) =<
             Count(response_queue[x], FromDevice(y)) + c
      BY <1>4
    <3> HIDE DEF a, c, e
    <3>8. Backlog(x, y)' =< Backlog(x, y) + (a + 0 + c + e)
      BY <1>0, <1>4, <2>1, <3>5, <3>6, <3>7, BacklogSum
    <3> QED
      BY <3>5, <3>8
  <2> QED
    BY <2>3, <2>4 DEF PollStep, GotForeign, GotAck, GotError, GotLateRequest
<1> QED
  BY <1>0, <1>1, <1>6, FewKept

\* The clock, a timeout, try_receive and a restart add nothing.
LEMMA FewUser ==
    ASSUME IInv, TypeOK', FewFrames, NEW n \in Node,
           Tick(n) \/ ResponseTimeout(n) \/ TryReceive(n) \/ Reboot(n)
    PROVE  FewFrames'
<1>0. /\ TypeOK /\ call \in [Node -> Call] /\ replies \in [Node -> Seq(Frame)]
      /\ response_queue \in [Node -> Seq(Frame)]
  BY DEF IInv, TypeOK
<1>1. UNCHANGED <<air, calls>>
  BY DEF Tick, ResponseTimeout, TryReceive, Reboot, history
<1>2. \A x \in Node : /\ replies'[x] = replies[x] \/ replies'[x] = <<>>
                      /\ response_queue'[x] = response_queue[x] \/ response_queue'[x] = <<>>
  <2>1. CASE Reboot(n)
    BY <1>0, <2>1 DEF Reboot
  <2>2. CASE ~ Reboot(n)
    BY <2>2 DEF Tick, ResponseTimeout, TryReceive, queueVars
  <2> QED
    BY <2>1, <2>2
<1>3. \A x \in Node : Waiting(x)' => /\ Waiting(x) /\ call'[x].dest = call[x].dest
                                     /\ call'[x].allow_resend => call[x].allow_resend
  <2>1. \A x \in Node \ {n} : call'[x] = call[x]
    BY <1>0, CallKept
  <2>2. Waiting(n)' => /\ Waiting(n) /\ call'[n].dest = call[n].dest
                       /\ call'[n].allow_resend => call[n].allow_resend
    <3>1. CASE Tick(n)
      <4>1. Waiting(n) /\ call' = [call EXCEPT ![n].left = @ - 1]
        BY <3>1 DEF Tick
      <4> QED
        BY <1>0, <4>1 DEF Call
    <3>2. CASE ResponseTimeout(n)
      <4>1. call' = [call EXCEPT ![n].phase = "failure", ![n].token = 0,
                                 ![n].allow_resend = FALSE, ![n].left = 0]
        BY <3>2 DEF ResponseTimeout, Return
      <4> QED
        BY <1>0, <4>1 DEF Call, Waiting
    <3>3. CASE TryReceive(n)
      BY <3>3 DEF TryReceive, Waiting
    <3>4. CASE Reboot(n)
      BY <1>0, <3>4 DEF Reboot, NoCall, Waiting
    <3> QED
      BY <3>1, <3>2, <3>3, <3>4
  <2> QED
    BY <2>1, <2>2 DEF Waiting
<1>4. ASSUME NEW x \in Node, NEW y \in Node
      PROVE  Backlog(x, y)' =< Backlog(x, y) + 0
  <2>1. Load(x, y)' =< Load(x, y) + 0
    BY <1>0, <1>1, LoadKept
  <2>2. May(x, y)' =< May(x, y) + 0
    BY <1>3, MayKept
  <2>3. /\ Count(replies'[x], ToDevice(y)) =< Count(replies[x], ToDevice(y)) + 0
        /\ Count(response_queue'[x], FromDevice(y)) =<
              Count(response_queue[x], FromDevice(y)) + 0
    <3>1. /\ replies'[x] \in {replies[x], <<>>}
          /\ response_queue'[x] \in {response_queue[x], <<>>}
      BY <1>2
    <3> QED
      BY <1>0, <3>1, AnswersKept
  <2> QED
    BY <1>0, <2>1, <2>2, <2>3, BacklogKept
<1> QED
  BY <1>0, <1>1, <1>4, FewKept

\* An answer that leaves its listener moves to a line.
LEMMA FewReply ==
    ASSUME IInv, TypeOK', FewFrames, NEW n \in Node, TransmitReply(n)
    PROVE  FewFrames'
<1>0. TypeOK /\ replies \in [Node -> Seq(Frame)]
  BY DEF IInv, TypeOK
<1>1. /\ replies[n] # <<>> /\ Transmit(Head(replies[n]))
      /\ replies' = [replies EXCEPT ![n] = Tail(replies[n])]
      /\ UNCHANGED <<call, response_queue, calls>>
  BY DEF TransmitReply, queueVars, history
<1>2. Head(replies[n]) \in Frame /\ Head(replies[n]) \in Range(replies[n])
  BY <1>0, <1>1, TailFacts
<1>3. PICK f \in Frame : f = Head(replies[n])
  BY <1>2
<1>4. f.from = n /\ AnswerOK(f)
  BY <1>2, <1>3, FramesOfReplies
<1>5. Weight(f) = 1
  BY <1>4, AnswerWeight
<1>6. ASSUME NEW x \in Node, NEW y \in Node
      PROVE  Backlog(x, y)' =< Backlog(x, y) + 0
  <2> DEFINE a == IF x = n /\ y = f.to THEN 1 ELSE 0
             b == IF x = n /\ y = f.to THEN -1 ELSE 0
  <2>1. a \in Int /\ b \in Int /\ a + b + 0 + 0 = 0
    OBVIOUS
  <2>2. Load(x, y)' =< Load(x, y) + a
    BY <1>0, <1>1, <1>3, <1>4, <1>5, LoadSent
  <2>3. Count(replies'[x], ToDevice(y)) =< Count(replies[x], ToDevice(y)) + b
    <3>1. Count(replies'[x], ToDevice(y)) \in Nat
      BY BacklogTypeNext
    <3>2. f \in ToDevice(y) <=> y = f.to
      BY DEF ToDevice
    <3>3. CASE x = n
      <4>1. replies'[x] = Tail(replies[n])
        BY <1>0, <1>1, <3>3
      <4>2. Count(replies[n], ToDevice(y)) = IF f \in ToDevice(y)
                                             THEN Count(Tail(replies[n]), ToDevice(y)) + 1
                                             ELSE Count(Tail(replies[n]), ToDevice(y))
        BY <1>0, <1>1, <1>3, CountTail
      <4> QED
        BY <3>1, <3>2, <3>3, <4>1, <4>2
    <3>4. CASE x # n
      <4>1. replies'[x] = replies[x]
        BY <1>0, <1>1, <3>4
      <4> QED
        BY <3>1, <3>4, <4>1
    <3> QED
      BY <3>3, <3>4
  <2>4. Count(response_queue'[x], FromDevice(y)) =<
              Count(response_queue[x], FromDevice(y)) + 0
    BY <1>0, <1>1, AnswersKept
  <2>5. May(x, y)' =< May(x, y) + 0
    BY <1>1, MayKept DEF Waiting
  <2> HIDE DEF a, b
  <2>6. Backlog(x, y)' =< Backlog(x, y) + (a + b + 0 + 0)
    BY <1>0, <2>1, <2>2, <2>3, <2>4, <2>5, BacklogSum
  <2> QED
    BY <2>1, <2>6
<1> QED
  BY <1>0, <1>1, <1>6, FewKept

\* What the listener of n answers to a frame of s is paid for by that frame.
LEMMA ListenMoves ==
    ASSUME IInv, TypeOK', FewFrames, NEW n \in Node, NEW s \in Node,
           Arriving(n, s), TakeFrame(n, s), UNCHANGED <<call, calls>>,
           NEW j \in Nat, NEW i \in Nat, j + i =< Weight(Arrived(n, s)),
           \A x, y \in Node :
              /\ Count(replies'[x], ToDevice(y)) =<
                    Count(replies[x], ToDevice(y)) + (IF x = n /\ y = s THEN j ELSE 0)
              /\ Count(response_queue'[x], FromDevice(y)) =<
                    Count(response_queue[x], FromDevice(y)) + (IF x = n /\ y = s THEN i ELSE 0)
    PROVE  FewFrames'
<1>0. TypeOK /\ n # s
  BY DEF IInv, Arriving
<1>1. PICK w \in Nat : w = Weight(Arrived(n, s))
  BY DEF Weight
<1>2. ASSUME NEW x \in Node, NEW y \in Node
      PROVE  Backlog(x, y)' =< Backlog(x, y) + (IF x = n /\ y = s THEN j + i ELSE 0)
                                             - (IF x = s /\ y = n THEN j + i ELSE 0)
  <2> DEFINE a == IF x = s /\ y = n THEN -w ELSE 0
             b == IF x = n /\ y = s THEN j ELSE 0
             c == IF x = n /\ y = s THEN i ELSE 0
  <2>1. a \in Int /\ b \in Int /\ c \in Int
    OBVIOUS
  <2>2. a + b + c + 0 =< (IF x = n /\ y = s THEN j + i ELSE 0)
                           - (IF x = s /\ y = n THEN j + i ELSE 0)
    BY <1>0, <1>1
  <2>3. Load(x, y)' =< Load(x, y) + a
    <3>1. Load(x, y)' =< Load(x, y) - (IF x = s /\ y = n THEN w ELSE 0)
      BY <1>0, <1>1, LoadTaken
    <3>2. Load(x, y) \in Nat
      BY <1>0, BacklogType
    <3> QED
      BY <3>1, <3>2
  <2>4. /\ Count(replies'[x], ToDevice(y)) =< Count(replies[x], ToDevice(y)) + b
        /\ Count(response_queue'[x], FromDevice(y)) =<
              Count(response_queue[x], FromDevice(y)) + c
    OBVIOUS
  <2>5. May(x, y)' =< May(x, y) + 0
    BY MayKept DEF Waiting
  <2>6. Backlog(x, y) \in Nat /\ Backlog(x, y)' \in Nat
    BY <1>0, BacklogType, BacklogTypeNext
  <2> HIDE DEF a, b, c
  <2>7. Backlog(x, y)' =< Backlog(x, y) + (a + b + c + 0)
    BY <1>0, <2>1, <2>3, <2>4, <2>5, BacklogSum
  <2>8. PICK k \in Int : k = a + b + c + 0
    BY <2>1
  <2> QED
    BY <2>2, <2>6, <2>7, <2>8
<1>3. PICK k \in Nat : k = j + i
  OBVIOUS
<1>4. Moves(n, s, k)
  BY <1>2, <1>3 DEF Moves
<1> QED
  BY <1>0, <1>4, FewMoved

\* The answers that a listener decides on, counted for each device they may be for.
LEMMA AnswersOwed ==
    ASSUME TypeOK, NEW n \in Node, NEW s \in Node, replies[n] = <<>>,
           NEW f \in Frame, NEW g \in Frame, f.to = s, g.to = s,
           NEW x \in Node, NEW y \in Node
    PROVE  /\ Reply(n, s, <<f>>) =>
                Count(replies'[x], ToDevice(y)) =<
                   Count(replies[x], ToDevice(y)) + (IF x = n /\ y = s THEN 1 ELSE 0)
           /\ Reply(n, s, <<f, g>>) =>
                Count(replies'[x], ToDevice(y)) =<
                   Count(replies[x], ToDevice(y)) + (IF x = n /\ y = s THEN 2 ELSE 0)
<1> DEFINE A == ToDevice(y)
           e == <<>>
           p == Append(e, f)
           r == Append(p, g)
<1>1. /\ \A u : <<u>> = Append(<<>>, u)
      /\ \A u, v : <<u, v>> = Append(Append(<<>>, u), v)
  OBVIOUS
<1>2. <<f>> = p /\ <<f, g>> = r
  BY <1>1, Zenon
<1>3. /\ replies \in [Node -> Seq(Frame)] /\ Count(replies[x], A) \in Nat
      /\ Count(replies[n], A) = 0
  BY BacklogType, CountEmpty DEF TypeOK
<1>4. (f \in A <=> y = s) /\ (g \in A <=> y = s)
  BY DEF ToDevice
<1>5. e \in Seq(Frame) /\ p \in Seq(Frame) /\ Count(e, A) = 0
  BY CountEmpty
<1> HIDE DEF A, e
<1>6. Count(p, A) = IF y = s THEN 1 ELSE 0
  BY <1>4, <1>5, CountAppend
<1> HIDE DEF p
<1>7. Count(r, A) = IF y = s THEN 2 ELSE 0
  BY <1>4, <1>5, <1>6, CountAppend
<1> HIDE DEF r
<1>8. /\ Reply(n, s, <<f>>) => replies' = [replies EXCEPT ![n] = p]
      /\ Reply(n, s, <<f, g>>) => replies' = [replies EXCEPT ![n] = r]
  BY <1>2 DEF Reply
<1>9. CASE x = n
  BY <1>3, <1>6, <1>7, <1>8, <1>9 DEF A
<1>10. CASE x # n
  BY <1>3, <1>8, <1>10 DEF A
<1> QED
  BY <1>9, <1>10

\* A listener answers a message by two frames at most, any other frame by one.
LEMMA FewListen ==
    ASSUME IInv, TypeOK', FewFrames, NEW n \in Node, NEW s \in Node,
           \/ ListenBadCrc(n, s) \/ ListenResponse(n, s) \/ ListenBadToken(n, s)
           \/ ListenNewMsg(n, s) \/ ListenQueueFull(n, s)
    PROVE  FewFrames'
<1>0. TypeOK
  BY DEF IInv
<1>1. /\ Arriving(n, s) /\ TakeFrame(n, s) /\ replies[n] = <<>>
      /\ UNCHANGED <<call, calls>>
  BY DEF ListenBadCrc, ListenResponse, ListenBadToken, ListenNewMsg, ListenQueueFull,
         AcceptToken, NewMessage, Arriving, history
<1>2. Weight(Arrived(n, s)) \in {1, 2} /\ (IsData(Arrived(n, s)) => Weight(Arrived(n, s)) = 2)
  BY DEF Weight
<1>3. CASE ListenResponse(n, s)
  <2>1. replies' = replies
    BY <1>3 DEF ListenResponse
  <2>2. /\ Arrived(n, s) \in Frame /\ Arrived(n, s).from = s
    BY <1>1, ListenCount
  <2>3. PICK f \in Frame : f = Arrived(n, s) /\ f.from = s
    BY <2>2
  <2>4. ASSUME NEW x \in Node, NEW y \in Node
        PROVE  /\ Count(replies'[x], ToDevice(y)) =<
                    Count(replies[x], ToDevice(y)) + (IF x = n /\ y = s THEN 0 ELSE 0)
               /\ Count(response_queue'[x], FromDevice(y)) =<
                    Count(response_queue[x], FromDevice(y)) + (IF x = n /\ y = s THEN 1 ELSE 0)
    <3>1. /\ Count(replies[x], ToDevice(y)) \in Nat
          /\ Count(response_queue[x], FromDevice(y)) \in Nat
      BY <1>0, BacklogType
    <3>2. response_queue \in [Node -> Seq(Frame)]
      BY <1>0 DEF TypeOK
    <3>3. \/ response_queue' = response_queue
          \/ response_queue' = [response_queue EXCEPT ![n] = Append(@, f)]
      BY <1>3, <2>3 DEF ListenResponse
    <3>4. CASE response_queue'[x] = response_queue[x]
      BY <2>1, <3>1, <3>4
    <3>5. CASE x = n /\ response_queue'[x] = Append(response_queue[x], f)
      <4>1. f \in FromDevice(y) <=> y = s
        BY <2>3 DEF FromDevice
      <4>2. Count(response_queue'[x], FromDevice(y)) =
               IF f \in FromDevice(y) THEN Count(response_queue[x], FromDevice(y)) + 1
               ELSE Count(response_queue[x], FromDevice(y))
        BY <3>2, <3>5, CountAppend
      <4> QED
        BY <2>1, <3>1, <3>5, <4>1, <4>2
    <3> QED
      BY <3>2, <3>3, <3>4, <3>5
  <2>5. 0 + 1 =< Weight(Arrived(n, s))
    BY <1>2
  <2>6. 0 \in Nat /\ 1 \in Nat
    OBVIOUS
  <2> QED
    BY <1>1, <2>4, <2>5, <2>6, ListenMoves
<1>4. ASSUME ~ ListenResponse(n, s)
      PROVE  \E j \in {1, 2} :
                /\ j =< Weight(Arrived(n, s))
                /\ \A x, y \in Node :
                      Count(replies'[x], ToDevice(y)) =<
                         Count(replies[x], ToDevice(y)) + (IF x = n /\ y = s THEN j ELSE 0)
  <2>1. CASE ListenQueueFull(n, s)
    <3>1. PICK f \in Frame, g \in Frame :
             f = Response(n, s, {"ERROR"}, 0) /\ g = Response(n, s, {"ACK"}, 0)
      BY FrameTypes, ZeroToken DEF Flag
    <3>2. Reply(n, s, <<f, g>>) /\ f.to = s /\ g.to = s
      BY <2>1, <3>1 DEF ListenQueueFull, Response
    <3>3. \A x, y \in Node :
             Count(replies'[x], ToDevice(y)) =<
                Count(replies[x], ToDevice(y)) + (IF x = n /\ y = s THEN 2 ELSE 0)
      BY <1>0, <1>1, <3>2, AnswersOwed
    <3>4. Weight(Arrived(n, s)) = 2
      BY <1>2, <2>1 DEF ListenQueueFull, AcceptToken, NewMessage
    <3> QED
      BY <3>3, <3>4
  <2>2. CASE ~ ListenQueueFull(n, s)
    <3>1. PICK f \in Frame : f.to = s /\ Reply(n, s, <<f>>)
      <4>1. NextToken(recv_tokens[n][s]) \in Token
        BY <1>0, NextTokenType DEF TypeOK
      <4>2. PICK fl \in {{"RESEND"}, {"SYNC", "RESEND"}, {"ACK"}}, t \in Token :
               Reply(n, s, <<Response(n, s, fl, t)>>)
        BY <1>4, <2>2, <4>1, ZeroToken DEF ListenBadCrc, ListenBadToken, ListenNewMsg
      <4>3. fl \in SUBSET Flag
        BY <4>2 DEF Flag
      <4>4. Response(n, s, fl, t) \in Frame
        BY <4>3, FrameTypes
      <4>5. Response(n, s, fl, t).to = s
        BY DEF Response
      <4> QED
        BY <4>2, <4>4, <4>5
    <3>2. \A x, y \in Node :
             Count(replies'[x], ToDevice(y)) =<
                Count(replies[x], ToDevice(y)) + (IF x = n /\ y = s THEN 1 ELSE 0)
      BY <1>0, <1>1, <3>1, AnswersOwed
    <3> QED
      BY <1>2, <3>2
  <2> QED
    BY <2>1, <2>2
<1>5. CASE ~ ListenResponse(n, s)
  <2>1. PICK j \in {1, 2} :
                /\ j =< Weight(Arrived(n, s))
                /\ \A x, y \in Node :
                      Count(replies'[x], ToDevice(y)) =<
                         Count(replies[x], ToDevice(y)) + (IF x = n /\ y = s THEN j ELSE 0)
    BY <1>4, <1>5
  <2>2. response_queue' = response_queue
    BY <1>5 DEF ListenBadCrc, ListenBadToken, ListenNewMsg, ListenQueueFull, AcceptToken,
                queueVars
  <2>3. \A x, y \in Node :
           Count(response_queue'[x], FromDevice(y)) =<
              Count(response_queue[x], FromDevice(y)) + (IF x = n /\ y = s THEN 0 ELSE 0)
    BY <1>0, <2>2, AnswersKept
  <2>4. j + 0 =< Weight(Arrived(n, s)) /\ j \in Nat /\ 0 \in Nat
    BY <1>2, <2>1
  <2> QED
    BY <1>1, <2>1, <2>3, <2>4, ListenMoves
<1> QED
  BY <1>3, <1>5

\* Every step keeps it.
LEMMA FewStep ==
    ASSUME IInv, TypeOK', FewFrames, [Next]_vars
    PROVE  FewFrames'
<1>1. CASE Next
  <2>1. PICK n \in Node :
           \/ \E d \in Node : SendWithAck(n, d)
           \/ PollStep(n) \/ Tick(n) \/ ResponseTimeout(n) \/ TryReceive(n)
           \/ ListenStep(n) \/ Reboot(n)
    BY <1>1 DEF Next
  <2>2. CASE ListenStep(n)
    BY <2>2, FewListen, FewReply DEF ListenStep
  <2> QED
    BY <2>1, <2>2, FewSend, FewPoll, FewUser
<1>2. CASE UNCHANGED vars
  <2>1. UNCHANGED <<call, response_queue, replies, air, calls>>
    BY <1>2 DEF vars, queueVars, history
  <2>2. \A x, y \in Node : Backlog(x, y)' = Backlog(x, y)
    BY <2>1 DEF Backlog, Pending, Waiting, Messages, ToDevice, FromDevice
  <2> QED
    BY <2>1, <2>2 DEF FewFrames
<1> QED
  BY <1>1, <1>2

\* Nothing is under way.
LEMMA FewInit == Init => FewFrames
<1> SUFFICES ASSUME Init, NEW x \in Node, NEW y \in Node
             PROVE  Backlog(x, y) + Backlog(y, x) =< 3 * (calls[x] + calls[y])
  BY DEF FewFrames
<1>1. \A s, d \in Node : Backlog(s, d) = 0
  <2> SUFFICES ASSUME NEW s \in Node, NEW d \in Node PROVE Backlog(s, d) = 0
    OBVIOUS
  <2>1. /\ air[s][d] = <<>> /\ replies[s] = <<>> /\ response_queue[s] = <<>>
        /\ call[s].phase = "idle"
    BY DEF Init, NoCall
  <2>2. Pending(s, d) = {}
    BY <2>1 DEF Pending, Waiting
  <2>3. Len(air[s][d]) = 0
    BY <2>1
  <2> QED
    BY <2>1, <2>2, <2>3, CountEmpty DEF Backlog
<1>2. calls[x] = 0 /\ calls[y] = 0
  BY DEF Init
<1> QED
  BY <1>1, <1>2

\* However frames are lost, damaged and delayed, and whoever restarts: what two devices have
\* under way between them is paid for by their calls, three frames each.
THEOREM FramesAreFew == Spec => []FewFrames
<1>1. Init => FewFrames
  BY FewInit
<1>2. IInv /\ IInv' /\ FewFrames /\ [Next]_vars => FewFrames'
  BY FewStep DEF IInv
<1> QED
  BY <1>1, <1>2, Invariance, PTL DEF Spec

\* No device makes more calls than the bound.
CallsCapped == \A n \in Node : calls[n] =< MaxCalls

LEMMA CappedStep ==
    ASSUME TypeOK, CallsCapped, [Next]_vars
    PROVE  CallsCapped'
<1>0. calls \in [Node -> Nat] /\ MaxCalls \in Nat
  BY TransportAssumption DEF TypeOK
<1>1. CASE Next
  <2> SUFFICES ASSUME NEW m \in Node PROVE calls'[m] =< MaxCalls
    BY DEF CallsCapped
  <2>1. CASE \E e \in Node : SendWithAck(m, e)
    BY <1>0, <2>1 DEF SendWithAck
  <2>2. CASE calls'[m] = calls[m]
    BY <2>2 DEF CallsCapped
  <2> QED
    BY <1>1, <2>1, <2>2, CallSteps
<1>2. CASE UNCHANGED vars
  BY <1>2 DEF vars, history, CallsCapped
<1> QED
  BY <1>1, <1>2

\* A line that takes six frames for each call of a device, and one more, is never full.
LEMMA FewAreRoomy ==
    ASSUME AirCap > 6 * MaxCalls, TypeOK, FewFrames, CallsCapped
    PROVE  Roomy
<1> SUFFICES ASSUME NEW s \in Node, NEW d \in Node
             PROVE  Len(air[s][d]) < AirCap
  BY DEF Roomy
<1>0. MaxCalls \in Nat /\ AirCap \in Nat
  BY TransportAssumption
<1>1. /\ calls[s] \in Nat /\ calls[d] \in Nat
      /\ calls[s] =< MaxCalls /\ calls[d] =< MaxCalls
  BY DEF TypeOK, CallsCapped
<1>2. Backlog(s, d) + Backlog(d, s) =< 3 * (calls[s] + calls[d])
  BY DEF FewFrames
<1>3. Backlog(s, d) \in Nat /\ Backlog(d, s) \in Nat
  BY BacklogType
<1>4. Len(air[s][d]) =< Backlog(s, d) /\ Len(air[s][d]) \in Nat
  <2> DEFINE q == air[s][d]
             l == Len(q)
             m == Count(q, Messages)
             r == Count(replies[s], ToDevice(d))
             u == Count(response_queue[s], FromDevice(d))
             p == May(s, d)
  <2>1. q \in Seq(Frame)
    BY DEF TypeOK
  <2>2. l \in Nat /\ m \in Nat
    BY <2>1, CountType, LenProperties
  <2>3. /\ r \in Nat /\ u \in Nat /\ p \in Nat
        /\ Backlog(s, d) = Load(s, d) + r + u + p
    BY BacklogType
  <2>4. Load(s, d) = l + m
    BY DEF Load
  <2> HIDE DEF l, m, r, u, p
  <2>5. l =< l + m + r + u + p
    BY <2>2, <2>3
  <2> QED
    BY <2>2, <2>3, <2>4, <2>5 DEF l
<1>5. Backlog(s, d) =< 6 * MaxCalls
  BY <1>0, <1>1, <1>2, <1>3
<1> QED
  BY <1>0, <1>3, <1>4, <1>5

\* So no frame is lost for want of room, on a line that is bounded as the runs bound it: with
\* AirCap > 6 * MaxCalls the bound of the model takes nothing away from the code.
THEOREM LinesAreRoomy ==
    ASSUME AirCap > 6 * MaxCalls
    PROVE  Spec => []Roomy
<1>1. Init => CallsCapped
  BY TransportAssumption DEF Init, CallsCapped
<1>2. IInv => TypeOK
  BY DEF IInv
<1>3. TypeOK /\ CallsCapped /\ [Next]_vars => CallsCapped'
  BY CappedStep
<1>4. TypeOK /\ FewFrames /\ CallsCapped => Roomy
  BY FewAreRoomy
<1> QED
  BY <1>1, <1>2, <1>3, <1>4, Invariance, FramesAreFew, PTL DEF Spec
-----------------------------------------------------------------------------
(***************************************************************************)
(* A medium that answers in time and loses nothing.                        *)
(***************************************************************************)

\* What is counted nowhere is not there, and the reverse.
LEMMA NoneCounted ==
    ASSUME NEW q \in Seq(Frame), NEW A
    PROVE  Count(q, A) = 0 <=> \A f \in Range(q) : f \notin A
<1> DEFINE K == {k \in DOMAIN q : q[k] \in A}
<1>1. IsFiniteSet(K)
  BY CountType
<1>2. Cardinality(K) = 0 <=> K = {}
  BY <1>1, FS_EmptySet
<1>3. K = {} <=> \A f \in Range(q) : f \notin A
  BY DEF Range
<1> QED
  BY <1>2, <1>3 DEF Count

\* With no fault and a line that is not full, what is transmitted gets through.
LEMMA TransmitAll ==
    ASSUME TypeOK, Roomy, Fault = {}, NEW f \in Frame, Transmit(f)
    PROVE  /\ air' = [air EXCEPT ![f.from][f.to] = Append(air[f.from][f.to], f)]
           /\ air'[f.from][f.to] = Append(air[f.from][f.to], f)
           /\ air[f.from][f.to] \in Seq(Frame)
           /\ \A x, y \in Node : x # f.from \/ y # f.to => air'[x][y] = air[x][y]
<1>1. f.from \in Node /\ f.to \in Node /\ air \in [Node -> [Node -> Seq(Frame)]]
  BY DEF Frame, TypeOK
<1>2. PICK x \in Node, y \in Node : x = f.from /\ y = f.to
  BY <1>1
<1>3. air[x][y] \in Seq(Frame)
  BY <1>1
<1>4. PICK l \in Nat : l = Len(air[x][y])
  BY <1>3
<1>5. ~ l >= AirCap
  BY <1>4, TransportAssumption DEF Roomy
<1>6. Transmitted(f) = {Append(air[x][y], f)}
  BY <1>2, <1>4, <1>5 DEF Transmitted
<1>7. air' = [air EXCEPT ![x][y] = Append(air[x][y], f)]
  BY <1>2, <1>6 DEF Transmit
<1> QED
  BY <1>1, <1>2, <1>3, <1>7

\* So what is counted of the lines grows by the frame.
LEMMA TransmitCounts ==
    ASSUME TypeOK, Roomy, Fault = {}, NEW f \in Frame, Transmit(f),
           NEW x \in Node, NEW y \in Node, NEW A
    PROVE  /\ Count(air'[x][y], A) = IF x = f.from /\ y = f.to /\ f \in A
                                     THEN Count(air[x][y], A) + 1 ELSE Count(air[x][y], A)
           /\ \A g \in Range(air'[x][y]) : \/ g \in Range(air[x][y])
                                           \/ x = f.from /\ y = f.to /\ g = f
<1>1. CASE x = f.from /\ y = f.to
  <2>1. air'[x][y] = Append(air[x][y], f) /\ air[x][y] \in Seq(Frame)
    BY <1>1, TransmitAll
  <2>2. Range(Append(air[x][y], f)) = Range(air[x][y]) \cup {f}
    BY <2>1, AppendFacts
  <2> QED
    BY <1>1, <2>1, <2>2, CountAppend
<1>2. CASE ~ (x = f.from /\ y = f.to)
  BY <1>2, TransmitAll
<1> QED
  BY <1>1, <1>2

\* A listener takes one frame off one line.
LEMMA TakeCounts ==
    ASSUME TypeOK, NEW n \in Node, NEW s \in Node, Arriving(n, s), TakeFrame(n, s),
           NEW x \in Node, NEW y \in Node, NEW A
    PROVE  /\ Count(air[x][y], A) = IF x = s /\ y = n /\ Arrived(n, s) \in A
                                    THEN Count(air'[x][y], A) + 1 ELSE Count(air'[x][y], A)
           /\ Range(air'[x][y]) \subseteq Range(air[x][y])
           /\ Arrived(n, s) \in Frame /\ Arrived(n, s) \in Range(air[s][n])
<1>1. /\ air'[s][n] = Tail(air[s][n])
      /\ air[s][n] \in Seq(Frame) /\ air[s][n] # <<>>
      /\ \A m, d \in Node : m # s \/ d # n => air'[m][d] = air[m][d]
  BY ArrivingFacts
<1>2. /\ Arrived(n, s) \in Frame /\ Arrived(n, s) \in Range(air[s][n])
      /\ Range(air'[s][n]) \subseteq Range(air[s][n])
  BY <1>1, TailFacts DEF Arrived
<1>3. CASE x = s /\ y = n
  BY <1>1, <1>2, <1>3, CountTail DEF Arrived
<1>4. CASE ~ (x = s /\ y = n)
  BY <1>1, <1>2, <1>4
<1> QED
  BY <1>2, <1>3, <1>4

\* The listener answers a frame when it owes nothing.
LEMMA ReplyAppends ==
    ASSUME NEW n \in Node, NEW s, replies[n] = <<>>
    PROVE  /\ \A f : Reply(n, s, <<f>>) =>
                 replies' = [replies EXCEPT ![n] = Append(replies[n], f)]
           /\ \A f, g : Reply(n, s, <<f, g>>) =>
                 replies' = [replies EXCEPT ![n] = Append(Append(replies[n], f), g)]
<1>1. \A f : <<f>> = Append(<<>>, f)
  OBVIOUS
<1>2. \A f, g : <<f, g>> = Append(Append(<<>>, f), g)
  OBVIOUS
<1> QED
  BY <1>1, <1>2, Zenon DEF Reply

\* An answer that it owes is counted among the answers.
LEMMA ReplyAdds ==
    ASSUME TypeOK, NEW n \in Node, NEW f \in Frame, NEW A, f \in A,
           replies' = [replies EXCEPT ![n] = Append(replies[n], f)]
    PROVE  /\ Count(replies'[n], A) = Count(replies[n], A) + 1
           /\ \A g \in Range(replies'[n]) : g \in Range(replies[n]) \/ g = f
<1>1. replies'[n] = Append(replies[n], f) /\ replies[n] \in Seq(Frame)
  BY DEF TypeOK
<1>2. Range(Append(replies[n], f)) = Range(replies[n]) \cup {f}
  BY <1>1, AppendFacts
<1> QED
  BY <1>1, <1>2, CountAppend

\* An answer that leaves is counted no longer, and nothing else changes.
LEMMA SendReplyNone ==
    ASSUME TypeOK, NEW n \in Node, replies[n] # <<>>,
           replies' = [replies EXCEPT ![n] = Tail(replies[n])], NEW x \in Node, NEW A,
           Head(replies[n]) \notin A
    PROVE  /\ Count(replies'[x], A) = Count(replies[x], A)
           /\ Range(replies'[x]) \subseteq Range(replies[x])
<1>1. replies \in [Node -> Seq(Frame)] /\ replies[n] \in Seq(Frame)
  BY DEF TypeOK
<1>2. Range(Tail(replies[n])) \subseteq Range(replies[n])
  BY <1>1, TailFacts
<1>3. CASE x = n
  BY <1>1, <1>2, <1>3, CountTail
<1>4. CASE x # n
  BY <1>1, <1>2, <1>4
<1> QED
  BY <1>3, <1>4

\* Of an answer that counts, the count falls by one.
LEMMA SendReplyOne ==
    ASSUME TypeOK, NEW n \in Node, replies[n] # <<>>,
           replies' = [replies EXCEPT ![n] = Tail(replies[n])], NEW A,
           Head(replies[n]) \in A
    PROVE  /\ Count(replies[n], A) = Count(replies'[n], A) + 1
           /\ Range(replies'[n]) \subseteq Range(replies[n])
           /\ Head(replies[n]) \in Range(replies[n])
<1>1. replies \in [Node -> Seq(Frame)] /\ replies[n] \in Seq(Frame)
  BY DEF TypeOK
<1>2. /\ Range(Tail(replies[n])) \subseteq Range(replies[n])
      /\ Head(replies[n]) \in Range(replies[n])
  BY <1>1, TailFacts
<1> QED
  BY <1>1, <1>2, CountTail

-----------------------------------------------------------------------------
(***************************************************************************)
(* TimelySuccess: what keeps a call on course.                             *)
(***************************************************************************)

\* The four counts that UnderWay adds up.
LEMMA TalkType ==
    ASSUME TypeOK, NEW n \in Node, NEW d \in Node
    PROVE  /\ Count(air[n][d], Talk(n, d)) \in Nat /\ Count(air[d][n], Talk(n, d)) \in Nat
           /\ Count(replies[d], Talk(n, d)) \in Nat
           /\ Count(response_queue[n], Talk(n, d)) \in Nat
<1>1. /\ air[n][d] \in Seq(Frame) /\ air[d][n] \in Seq(Frame)
      /\ replies[d] \in Seq(Frame) /\ response_queue[n] \in Seq(Frame)
  BY DEF TypeOK
<1> QED
  BY <1>1, CountType

\* They are natural numbers after a step too.
LEMMA TalkTypeNext ==
    ASSUME TypeOK', NEW n \in Node, NEW d \in Node
    PROVE  /\ Count(air'[n][d], Talk(n, d)) \in Nat /\ Count(air'[d][n], Talk(n, d)) \in Nat
           /\ Count(replies'[d], Talk(n, d)) \in Nat
           /\ Count(response_queue'[n], Talk(n, d)) \in Nat
<1>1. /\ air'[n][d] \in Seq(Frame) /\ air'[d][n] \in Seq(Frame)
      /\ replies'[d] \in Seq(Frame) /\ response_queue'[n] \in Seq(Frame)
  BY DEF TypeOK
<1> QED
  BY <1>1, CountType

\* What of a call and its frames does not change keeps the call on course.
LEMMA OnCourseKept ==
    ASSUME NEW n \in Node, NEW d \in Node, call[n].dest = d, OnCourse(n),
           call'[n] = call[n], recv_tokens'[d][n] = recv_tokens[d][n],
           Count(air'[n][d], Talk(n, d)) + Count(air'[d][n], Talk(n, d))
             + Count(replies'[d], Talk(n, d)) + Count(response_queue'[n], Talk(n, d)) =
           Count(air[n][d], Talk(n, d)) + Count(air[d][n], Talk(n, d))
             + Count(replies[d], Talk(n, d)) + Count(response_queue[n], Talk(n, d)),
           \A f \in Range(air'[n][d]) : IsData(f) => f \in Range(air[n][d]),
           \A f \in Range(air'[d][n]) \cup Range(replies'[d]) \cup Range(response_queue'[n]) :
              f \in Talk(n, d) =>
                f \in Range(air[d][n]) \cup Range(replies[d]) \cup Range(response_queue[n])
    PROVE  OnCourse(n)'
<1>1. UnderWay(n, d) = 1 /\ UnderWay(n, d)' = 1
  BY DEF OnCourse, UnderWay
<1>2. ASSUME NEW f \in Range(air'[n][d]), IsData(f) PROVE GoodMessage(n, f)'
  <2>1. GoodMessage(n, f)
    BY <1>2 DEF OnCourse
  <2> QED
    BY <2>1 DEF GoodMessage
<1>3. ASSUME NEW f \in Range(air'[d][n]) \cup Range(replies'[d]) \cup Range(response_queue'[n]),
             f \in Talk(n, d)
      PROVE  GoodAnswer(n, f)'
  <2>1. GoodAnswer(n, f)
    BY <1>3 DEF OnCourse
  <2> QED
    BY <2>1 DEF GoodAnswer
<1> QED
  BY <1>1, <1>2, <1>3 DEF OnCourse

\* A reason to fail stays one for as long as the call is the same.
LEMMA ExcusedStays ==
    ASSUME IInv, IInv', Next, NEW n \in Node, Excused(n),
           call'[n].dest = call[n].dest, call'[n].id = call[n].id
    PROVE  Excused(n)'
<1>0. TypeOK /\ TypeOK' /\ dropped \in [Node -> [Node -> Seq(Nat)]]
  BY DEF IInv, TypeOK
<1>1. PICK d \in Node : d = call[n].dest
  BY <1>0 DEF TypeOK, Call
<1>2. CASE d \in Rebooter
  BY <1>1, <1>2 DEF Excused
<1>3. CASE d \notin Rebooter /\ recv_tokens[d][n] = TOKEN_MAX - 1
  <2>1. recv_tokens'[d][n] >= recv_tokens[d][n]
    BY <1>0, <1>3, RecvTokenStep
  <2>2. recv_tokens'[d][n] \in Token
    BY <1>0 DEF TypeOK
  <2>3. recv_tokens'[d][n] = TOKEN_MAX - 1
    BY <1>3, <2>1, <2>2, TokenAssumption DEF Token
  <2> QED
    BY <1>1, <2>3 DEF Excused
<1>4. CASE call[n].id \in Range(dropped[d][n])
  <2>1. Range(dropped[d][n]) \subseteq Range(dropped'[d][n])
    <3>1. CASE UNCHANGED dropped
      BY <3>1
    <3>2. CASE \E m, s \in Node : ListenQueueFull(m, s)
      <4>1. PICK m \in Node, s \in Node : ListenQueueFull(m, s)
        BY <3>2
      <4>2. Arriving(m, s) /\ TakeFrame(m, s)
            /\ dropped' = [dropped EXCEPT ![m][s] = Append(dropped[m][s], Arrived(m, s).id)]
        BY <4>1 DEF ListenQueueFull, AcceptToken, NewMessage
      <4>3. Arrived(m, s) \in Frame
        BY <1>0, <4>2, ArrivingFacts
      <4>4. PICK i \in Nat : i = Arrived(m, s).id
        BY <4>3 DEF Frame
      <4>5. dropped[m][s] \in Seq(Nat)
        BY <1>0
      <4>6. Range(dropped[m][s]) \subseteq Range(Append(dropped[m][s], i))
        BY <4>5, AppendFacts
      <4>7. dropped' = [dropped EXCEPT ![m][s] = Append(dropped[m][s], i)]
        BY <4>2, <4>4
      <4>8. CASE m = d /\ s = n
        BY <1>0, <4>6, <4>7, <4>8
      <4>9. CASE ~ (m = d /\ s = n)
        <5>1. dropped'[d][n] = dropped[d][n]
          BY <1>0, <4>7, <4>9
        <5> QED
          BY <5>1
      <4> QED
        BY <4>8, <4>9
    <3>3. UNCHANGED dropped \/ \E m, s \in Node : ListenQueueFull(m, s)
      <4>1. ASSUME NEW m \in Node,
                   \/ PollStep(m) \/ Tick(m) \/ ResponseTimeout(m) \/ TryReceive(m)
                   \/ TransmitReply(m) \/ Reboot(m)
            PROVE  UNCHANGED dropped
        BY <1>0, <4>1, CallKept
      <4>2. ASSUME NEW m \in Node, NEW s \in Node,
                   \/ ListenBadCrc(m, s) \/ ListenResponse(m, s) \/ ListenBadToken(m, s)
                   \/ ListenNewMsg(m, s) \/ ListenQueueFull(m, s)
            PROVE  UNCHANGED dropped \/ ListenQueueFull(m, s)
        BY <1>0, <4>2, ListenKept
      <4>3. ASSUME NEW m \in Node, NEW e \in Node, SendWithAck(m, e) PROVE UNCHANGED dropped
        BY <4>3 DEF SendWithAck
      <4> QED
        BY <4>1, <4>2, <4>3 DEF Next, ListenStep
    <3> QED
      BY <3>1, <3>2, <3>3
  <2> QED
    BY <1>1, <1>4, <2>1 DEF Excused
<1> QED
  BY <1>1, <1>2, <1>3, <1>4 DEF Excused

\* A message of another device is none of the call's frames.
LEMMA OthersMessage ==
    ASSUME TypeOK, Roomy, Fault = {}, NEW f \in Frame, IsData(f), Transmit(f),
           NEW n \in Node, NEW d \in Node, f.from # n
    PROVE  /\ Count(air'[n][d], Talk(n, d)) = Count(air[n][d], Talk(n, d))
           /\ Count(air'[d][n], Talk(n, d)) = Count(air[d][n], Talk(n, d))
           /\ \A g \in Range(air'[n][d]) : g \in Range(air[n][d])
           /\ \A g \in Range(air'[d][n]) : g \in Talk(n, d) => g \in Range(air[d][n])
<1>1. f \notin Talk(n, d)
  BY DEF Talk, IsData
<1> QED
  BY <1>1, TransmitCounts

\* What the user's task of another device does leaves the call on course.
LEMMA OthersCall ==
    ASSUME IInv, Roomy, Fault = {}, NEW m \in Node, NEW n \in Node, m # n, OnCourse(n),
           PollStep(m) \/ \E e \in Node : SendWithAck(m, e)
    PROVE  OnCourse(n)'
<1>0. TypeOK /\ call \in [Node -> Call] /\ response_queue \in [Node -> Seq(Frame)]
      /\ calls \in [Node -> Nat] /\ send_tokens \in [Node -> [Node -> Token]]
  BY DEF IInv, TypeOK
<1>1. PICK d \in Node : d = call[n].dest
  BY <1>0 DEF Call
<1>2. /\ call'[n] = call[n] /\ response_queue'[n] = response_queue[n]
      /\ UNCHANGED <<recv_tokens, replies>>
  <2>1. CASE PollStep(m)
    <3>1. Poll(m)
      BY <2>1 DEF PollStep, GotForeign, GotAck, GotError, GotRequest, GotResend, GotLateRequest
    <3>2. call'[n] = call[n]
      BY <1>0, <2>1, CallKept
    <3>3. response_queue'[n] = response_queue[n]
      BY <1>0, <3>1, PollFacts
    <3> QED
      BY <3>1, <3>2, <3>3 DEF Poll
  <2>2. CASE \E e \in Node : SendWithAck(m, e)
    BY <1>0, <2>2 DEF SendWithAck, queueVars
  <2> QED
    BY <2>1, <2>2
<1>3. \/ air' = air
      \/ \E f \in Frame : IsData(f) /\ f.from = m /\ Transmit(f)
  <2>1. CASE GotResend(m)
    <3>1. call[m].dest \in Node /\ call[m].id \in Nat
      BY <1>0 DEF Call
    <3>2. SwappedToken(m) \in Token
      BY <1>0, <2>1, SwapFacts DEF GotResend
    <3>3. Transmit(DataFrame(m, call[m].dest, call[m].id, SwappedToken(m)))
      BY <2>1 DEF GotResend
    <3> QED
      BY <3>1, <3>2, <3>3, DataFrameFacts
  <2>2. CASE PollStep(m) /\ ~ GotResend(m)
    BY <2>2 DEF PollStep, GotForeign, GotAck, GotError, GotLateRequest
  <2>3. CASE \E e \in Node : SendWithAck(m, e)
    <3>1. PICK e \in Node : SendWithAck(m, e)
      BY <2>3
    <3>2. NextToken(send_tokens[m][e]) \in Token /\ calls[m] + 1 \in Nat
      BY <1>0, NextTokenType
    <3>3. Transmit(DataFrame(m, e, calls[m] + 1, NextToken(send_tokens[m][e])))
      BY <3>1 DEF SendWithAck
    <3> QED
      BY <3>2, <3>3, DataFrameFacts
  <2> QED
    BY <2>1, <2>2, <2>3
<1>4. /\ Count(air'[n][d], Talk(n, d)) = Count(air[n][d], Talk(n, d))
      /\ Count(air'[d][n], Talk(n, d)) = Count(air[d][n], Talk(n, d))
      /\ \A g \in Range(air'[n][d]) : g \in Range(air[n][d])
      /\ \A g \in Range(air'[d][n]) : g \in Talk(n, d) => g \in Range(air[d][n])
  BY <1>0, <1>3, OthersMessage
<1> QED
  BY <1>1, <1>2, <1>4, OnCourseKept

\* So does what the user's tasks do without the radio, and the answer of a third device.
LEMMA OwnForeign ==
    ASSUME IInv, NEW n \in Node, GotForeign(n), OnCourse(n)
    PROVE  OnCourse(n)'
<1>0. TypeOK /\ call \in [Node -> Call]
  BY DEF IInv, TypeOK
<1>1. PICK d \in Node : d = call[n].dest
  BY <1>0 DEF Call
<1>2. Poll(n) /\ Polled(n).from # d /\ UNCHANGED <<recv_tokens, replies, call, air>>
  BY <1>1 DEF GotForeign, FromPeer, Poll
<1>3. /\ Polled(n) \in Frame /\ response_queue'[n] = Tail(response_queue[n])
      /\ response_queue[n] \in Seq(Frame) /\ response_queue[n] # <<>>
  BY <1>0, <1>2, PollFacts
<1>4. Polled(n) \in Range(response_queue[n])
      /\ Range(response_queue'[n]) \subseteq Range(response_queue[n])
  BY <1>3, TailFacts DEF Polled
<1>5. Polled(n).from # n
  BY <1>4, FramesOfQueue
<1>6. Polled(n) \notin Talk(n, d)
  BY <1>2, <1>5 DEF Talk
<1>7. Count(response_queue[n], Talk(n, d)) = Count(response_queue'[n], Talk(n, d))
  BY <1>0, <1>2, <1>6, PollCount
<1> QED
  BY <1>1, <1>2, <1>4, <1>7, OnCourseKept

\* A step that touches none of the frames.
LEMMA QuietStep ==
    ASSUME IInv, NEW n \in Node, OnCourse(n), call'[n] = call[n],
           UNCHANGED <<recv_tokens, replies, air, response_queue>>
    PROVE  OnCourse(n)'
<1>1. PICK d \in Node : d = call[n].dest
  BY DEF IInv, TypeOK, Call
<1> QED
  BY <1>1, OnCourseKept

\* What arrives is one of a call's frames, or it is none of them.
LEMMA OthersArrival ==
    ASSUME TypeOK, NEW m \in Node, NEW s \in Node, Arriving(m, s), TakeFrame(m, s),
           NEW n \in Node, NEW d \in Node, Arrived(m, s) \notin Talk(n, d)
    PROVE  /\ Count(air[n][d], Talk(n, d)) = Count(air'[n][d], Talk(n, d))
           /\ Count(air[d][n], Talk(n, d)) = Count(air'[d][n], Talk(n, d))
           /\ Range(air'[n][d]) \subseteq Range(air[n][d])
           /\ Range(air'[d][n]) \subseteq Range(air[d][n])
BY TakeCounts

\* The arrival of one of them takes it off its line.
LEMMA CallArrival ==
    ASSUME TypeOK, NEW m \in Node, NEW s \in Node, m # s, Arriving(m, s), TakeFrame(m, s),
           NEW A, Arrived(m, s) \in A
    PROVE  /\ Count(air[s][m], A) = Count(air'[s][m], A) + 1
           /\ Count(air[m][s], A) = Count(air'[m][s], A)
           /\ Range(air'[s][m]) \subseteq Range(air[s][m])
           /\ Range(air'[m][s]) \subseteq Range(air[m][s])
BY TakeCounts

\* An answer that arrives finds room in the queue of a call that waits, which polls it.
LEMMA AnswerArrives ==
    ASSUME IInv, Prompt, NEW m \in Node, NEW s \in Node, ListenResponse(m, s),
           NEW n \in Node, Waiting(n), OnCourse(n)
    PROVE  OnCourse(n)'
<1>0. TypeOK /\ call \in [Node -> Call] /\ response_queue \in [Node -> Seq(Frame)]
  BY DEF IInv, TypeOK
<1>1. PICK d \in Node : d = call[n].dest
  BY <1>0 DEF Call
<1>2. /\ Arriving(m, s) /\ TakeFrame(m, s) /\ IsResponse(Arrived(m, s)) /\ m # s
      /\ UNCHANGED <<recv_tokens, replies, call>>
  BY DEF ListenResponse, Arriving, tokenVars
<1>3. PICK f \in Frame : f = Arrived(m, s) /\ f \in Range(air[s][m])
  BY <1>0, <1>2, TakeCounts
<1>4. f.from = s /\ f.to = m /\ IsResponse(f)
  BY <1>2, <1>3, FramesOfLine
<1>5. f \in Talk(n, d) <=> s = d /\ m = n
  BY <1>4 DEF Talk, IsData
<1>6. /\ Count(air[n][d], Talk(n, d)) = Count(air'[n][d], Talk(n, d))
      /\ Count(air[d][n], Talk(n, d)) = IF s = d /\ m = n
                                        THEN Count(air'[d][n], Talk(n, d)) + 1
                                        ELSE Count(air'[d][n], Talk(n, d))
      /\ Range(air'[n][d]) \subseteq Range(air[n][d])
      /\ Range(air'[d][n]) \subseteq Range(air[d][n])
  <2>1. d # n
    BY <1>1 DEF IInv, CallsOK
  <2>2. CASE s = d /\ m = n
    <3>1. Arrived(m, s) \in Talk(n, d)
      BY <1>3, <1>5, <2>2
    <3>2. /\ Count(air[s][m], Talk(n, d)) = Count(air'[s][m], Talk(n, d)) + 1
          /\ Count(air[m][s], Talk(n, d)) = Count(air'[m][s], Talk(n, d))
          /\ Range(air'[s][m]) \subseteq Range(air[s][m])
          /\ Range(air'[m][s]) \subseteq Range(air[m][s])
      BY <1>0, <1>2, <3>1, CallArrival, Zenon
    <3> QED
      BY <2>2, <3>2
  <2>3. CASE ~ (s = d /\ m = n)
    <3>1. Arrived(m, s) \notin Talk(n, d)
      BY <1>3, <1>5, <2>3
    <3>2. /\ Count(air[n][d], Talk(n, d)) = Count(air'[n][d], Talk(n, d))
          /\ Count(air[d][n], Talk(n, d)) = Count(air'[d][n], Talk(n, d))
          /\ Range(air'[n][d]) \subseteq Range(air[n][d])
          /\ Range(air'[d][n]) \subseteq Range(air[d][n])
      BY <1>0, <1>2, <3>1, OthersArrival, Zenon
    <3> QED
      BY <2>3, <3>2
  <2> QED
    BY <2>2, <2>3
<1>7. /\ Count(response_queue'[n], Talk(n, d)) = IF s = d /\ m = n
                                                 THEN Count(response_queue[n], Talk(n, d)) + 1
                                                 ELSE Count(response_queue[n], Talk(n, d))
      /\ \A g \in Range(response_queue'[n]) : g \in Range(response_queue[n]) \/ g = f
  <2>1. CASE m # n
    BY <1>0, <2>1 DEF ListenResponse
  <2>2. CASE m = n
    <3>1. \/ response_queue' = [response_queue EXCEPT ![m] = Append(response_queue[m], f)]
          \/ ~ (Prompt /\ Waiting(m)) /\ response_queue' = response_queue
      BY <1>3 DEF ListenResponse
    <3>2. response_queue' = [response_queue EXCEPT ![m] = Append(response_queue[m], f)]
      BY <2>2, <3>1
    <3>3. response_queue'[n] = Append(response_queue[n], f)
      BY <1>0, <2>2, <3>2
    <3>4. response_queue[n] \in Seq(Frame)
      BY <1>0
    <3>5. Range(Append(response_queue[n], f)) = Range(response_queue[n]) \cup {f}
      BY <3>4, AppendFacts
    <3>6. Count(Append(response_queue[n], f), Talk(n, d)) =
             IF f \in Talk(n, d) THEN Count(response_queue[n], Talk(n, d)) + 1
             ELSE Count(response_queue[n], Talk(n, d))
      BY <3>4, CountAppend
    <3> QED
      BY <1>5, <2>2, <3>3, <3>5, <3>6
  <2> QED
    BY <2>1, <2>2
<1>8. f \in Talk(n, d) => f \in Range(air[d][n])
  BY <1>3, <1>5
<1>9. /\ Count(air'[d][n], Talk(n, d)) \in Nat /\ Count(replies[d], Talk(n, d)) \in Nat
      /\ Count(response_queue[n], Talk(n, d)) \in Nat /\ Count(air[n][d], Talk(n, d)) \in Nat
  <2>1. TypeOK'
    BY InvStep DEF IInv, Next, ListenStep
  <2> QED
    BY <1>0, <2>1, TalkType, TalkTypeNext
<1>10. /\ Count(air'[n][d], Talk(n, d)) + Count(air'[d][n], Talk(n, d))
             + Count(replies'[d], Talk(n, d)) + Count(response_queue'[n], Talk(n, d)) =
           Count(air[n][d], Talk(n, d)) + Count(air[d][n], Talk(n, d))
             + Count(replies[d], Talk(n, d)) + Count(response_queue[n], Talk(n, d))
       /\ call'[n] = call[n] /\ recv_tokens'[d][n] = recv_tokens[d][n]
  <2>1. replies' = replies /\ call' = call /\ recv_tokens' = recv_tokens
    BY <1>2
  <2> QED
    BY <1>6, <1>7, <1>9, <2>1
<1>11. \A g \in Range(air'[d][n]) \cup Range(replies'[d]) \cup Range(response_queue'[n]) :
          g \in Talk(n, d) =>
            g \in Range(air[d][n]) \cup Range(replies[d]) \cup Range(response_queue[n])
  <2>1. replies' = replies
    BY <1>2
  <2> QED
    BY <1>6, <1>7, <1>8, <2>1
<1> QED
  BY <1>1, <1>6, <1>10, <1>11, OnCourseKept

\* A listener that answers a message of another pair adds none of the call's frames.
LEMMA OthersAnswered ==
    ASSUME IInv, NEW m \in Node, NEW s \in Node, Arriving(m, s), TakeFrame(m, s),
           IsData(Arrived(m, s)), NEW n \in Node, OnCourse(n),
           ~ (m = call[n].dest /\ s = n),
           NEW a \in Seq(Frame), replies' = [replies EXCEPT ![m] = a],
           \A g \in Range(a) : g.from = m /\ g.to = s /\ IsResponse(g),
           UNCHANGED <<call, response_queue>>,
           \A x, y \in Node : x # m \/ y # s => recv_tokens'[x][y] = recv_tokens[x][y]
    PROVE  OnCourse(n)'
<1>0. TypeOK /\ call \in [Node -> Call] /\ replies \in [Node -> Seq(Frame)]
  BY DEF IInv, TypeOK
<1>1. PICK d \in Node : d = call[n].dest
  BY <1>0 DEF Call
<1>2. PICK f \in Frame : f = Arrived(m, s) /\ f \in Range(air[s][m])
  BY <1>0, TakeCounts
<1>3. f.from = s /\ f.to = m /\ IsData(f)
  BY <1>2, FramesOfLine
<1>4. f \notin Talk(n, d)
  BY <1>1, <1>3 DEF Talk, IsData
<1>5. /\ Count(air[n][d], Talk(n, d)) = Count(air'[n][d], Talk(n, d))
      /\ Count(air[d][n], Talk(n, d)) = Count(air'[d][n], Talk(n, d))
      /\ Range(air'[n][d]) \subseteq Range(air[n][d])
      /\ Range(air'[d][n]) \subseteq Range(air[d][n])
  <2>1. Arrived(m, s) \notin Talk(n, d)
    BY <1>2, <1>4
  <2> QED
    BY <1>0, <2>1, OthersArrival, Zenon
<1>6. \A g \in Range(a) : g \notin Talk(n, d)
  BY <1>1 DEF Talk, IsData
<1>7. /\ Count(replies'[d], Talk(n, d)) = Count(replies[d], Talk(n, d))
      /\ \A g \in Range(replies'[d]) : g \in Talk(n, d) => g \in Range(replies[d])
  <2>1. CASE d # m
    BY <1>0, <2>1
  <2>2. CASE d = m
    <3>1. replies'[d] = a
      BY <1>0, <2>2
    <3>2. Count(a, Talk(n, d)) = 0
      BY <1>6, NoneCounted
    <3>3. Count(replies[d], Talk(n, d)) = 0
      BY <2>2, CountEmpty DEF Arriving
    <3> QED
      BY <1>6, <3>1, <3>2, <3>3
  <2> QED
    BY <2>1, <2>2
<1>8. call'[n] = call[n] /\ recv_tokens'[d][n] = recv_tokens[d][n]
      /\ response_queue'[n] = response_queue[n]
  BY <1>1
<1> QED
  BY <1>1, <1>5, <1>7, <1>8, OnCourseKept

\* The message of the call arrives: it was the only frame of the call, and it is as it was sent.
LEMMA OwnArrival ==
    ASSUME IInv, NEW n \in Node, NEW d \in Node, n # d, call[n].dest = d, OnCourse(n),
           Arriving(d, n), TakeFrame(d, n), IsData(Arrived(d, n)), TypeOK'
    PROVE  /\ GoodMessage(n, Arrived(d, n)) /\ Arrived(d, n) \in Frame
           /\ Count(air'[n][d], Talk(n, d)) = 0 /\ Count(air'[d][n], Talk(n, d)) = 0
           /\ Count(replies[d], Talk(n, d)) = 0 /\ Count(response_queue[n], Talk(n, d)) = 0
<1>0. TypeOK
  BY DEF IInv
<1>1. PICK f \in Frame : f = Arrived(d, n) /\ f \in Range(air[n][d])
  BY <1>0, TakeCounts
<1>2. f.from = n /\ f.to = d /\ IsData(f)
  BY <1>1, FramesOfLine
<1>3. GoodMessage(n, f) /\ UnderWay(n, d) = 1
  BY <1>1, <1>2 DEF OnCourse
<1>4. f \in Talk(n, d)
  BY <1>2 DEF Talk
<1>5. Arrived(d, n) \in Talk(n, d)
  BY <1>1, <1>4
<1>6. /\ Count(air[n][d], Talk(n, d)) = Count(air'[n][d], Talk(n, d)) + 1
      /\ Count(air[d][n], Talk(n, d)) = Count(air'[d][n], Talk(n, d))
  BY <1>0, <1>5, CallArrival, ZenonT(30)
<1>7. PICK i, j, k, l \in Nat :
        /\ i = Count(air'[n][d], Talk(n, d)) /\ j = Count(air'[d][n], Talk(n, d))
        /\ k = Count(replies[d], Talk(n, d)) /\ l = Count(response_queue[n], Talk(n, d))
  BY <1>0, TalkType, TalkTypeNext
<1>8. (i + 1) + j + k + l = 1
  BY <1>3, <1>6, <1>7 DEF UnderWay
<1>9. i = 0 /\ j = 0 /\ k = 0 /\ l = 0
  BY <1>8
<1> QED
  BY <1>1, <1>3, <1>7, <1>9

\* The one answer to it keeps the call on course when the call can use it.
LEMMA OwnAnswered ==
    ASSUME IInv, IInv', NEW n \in Node, NEW d \in Node, n # d, call[n].dest = d, OnCourse(n),
           Count(air'[n][d], Talk(n, d)) = 0, Count(air'[d][n], Talk(n, d)) = 0,
           Count(replies[d], Talk(n, d)) = 0, Count(response_queue[n], Talk(n, d)) = 0,
           NEW f \in Frame, f \in Talk(n, d), GoodAnswer(n, f)',
           replies' = [replies EXCEPT ![d] = Append(replies[d], f)],
           UNCHANGED <<call, response_queue>>
    PROVE  OnCourse(n)'
<1>0. /\ TypeOK /\ TypeOK' /\ replies[d] \in Seq(Frame) /\ response_queue'[n] \in Seq(Frame)
      /\ air'[n][d] \in Seq(Frame) /\ air'[d][n] \in Seq(Frame)
      /\ response_queue'[n] = response_queue[n] /\ call'[n] = call[n]
  <2>1. TypeOK /\ TypeOK'
    BY DEF IInv
  <2>2. replies[d] \in Seq(Frame)
    BY <2>1 DEF TypeOK
  <2>3. response_queue'[n] \in Seq(Frame) /\ air'[n][d] \in Seq(Frame) /\ air'[d][n] \in Seq(Frame)
    BY <2>1 DEF TypeOK
  <2> QED
    BY <2>1, <2>2, <2>3
<1>1. /\ Count(replies'[d], Talk(n, d)) = 1
      /\ \A g \in Range(replies'[d]) : g \in Range(replies[d]) \/ g = f
  <2>1. /\ Count(replies'[d], Talk(n, d)) = Count(replies[d], Talk(n, d)) + 1
        /\ \A g \in Range(replies'[d]) : g \in Range(replies[d]) \/ g = f
    BY <1>0, ReplyAdds, Zenon
  <2> QED
    BY <2>1
<1>2. /\ \A g \in Range(air'[n][d]) : g \notin Talk(n, d)
      /\ \A g \in Range(air'[d][n]) : g \notin Talk(n, d)
      /\ \A g \in Range(replies[d]) : g \notin Talk(n, d)
      /\ \A g \in Range(response_queue'[n]) : g \notin Talk(n, d)
  BY <1>0, NoneCounted
<1>3. UnderWay(n, d)' = 1
  BY <1>0, <1>1 DEF UnderWay
<1>4. \A g \in Range(air'[n][d]) : ~ IsData(g)
  <2> SUFFICES ASSUME NEW g \in Range(air'[n][d]), IsData(g) PROVE FALSE
    OBVIOUS
  <2>1. FramesOK'
    BY DEF IInv
  <2>2. g.from = n /\ g.to = d
    BY <2>1 DEF FramesOK, LineOK
  <2>3. g \in Frame
    BY <1>0 DEF Range
  <2> QED
    BY <1>2, <2>2, <2>3 DEF Talk
<1>5. \A g \in Range(air'[d][n]) \cup Range(replies'[d]) \cup Range(response_queue'[n]) :
         g \in Talk(n, d) => GoodAnswer(n, g)'
  BY <1>1, <1>2
<1>6. call'[n].left = RESPONSE_TIMEOUT /\ call'[n].dest = d
  BY <1>0 DEF OnCourse
<1> QED
  BY <1>3, <1>4, <1>5, <1>6 DEF OnCourse

\* A listener's answer to the message of the call is one of the call's frames.
LEMMA AnswerTalks ==
    ASSUME NEW n \in Node, NEW d \in Node, NEW t \in Token,
           NEW fl \in {{"SYNC", "RESEND"}, {"ACK"}, {"ERROR"}}
    PROVE  /\ Response(d, n, fl, t) \in Frame
           /\ Response(d, n, fl, t).from = d /\ Response(d, n, fl, t).to = n
           /\ Response(d, n, fl, t).flags = fl /\ Response(d, n, fl, t).token = t
           /\ IsResponse(Response(d, n, fl, t))
           /\ Response(d, n, fl, t) \in Talk(n, d)
<1>1. fl \in SUBSET Flag
  BY DEF Flag
<1>2. Response(d, n, fl, t) \in Frame
  BY <1>1, FrameTypes
<1>3. /\ Response(d, n, fl, t).from = d /\ Response(d, n, fl, t).to = n
      /\ Response(d, n, fl, t).flags = fl /\ Response(d, n, fl, t).token = t
  BY DEF Response
<1>4. IsResponse(Response(d, n, fl, t))
  BY <1>3 DEF IsResponse
<1> QED
  BY <1>2, <1>3, <1>4 DEF Talk

\* The successor of the token accepted last passes, unless there is none.
LEMMA SuccessorPasses ==
    ASSUME TOKEN_TRESHOLD > 1, NEW r \in Token, r # TOKEN_MAX - 1
    PROVE  ValidToken(NextToken(r), r)
<1>1. r \in Nat /\ r + 1 < TOKEN_MAX /\ 0 < TOKEN_MAX /\ TOKEN_MAX \in Nat
  BY TokenAssumption DEF Token
<1>2. (r + 1) % TOKEN_MAX = r + 1
  BY <1>1
<1>3. ((r + 1) - r) % UINT32 = 1
  <2>1. (r + 1) - r = 1 /\ UINT32 \in Nat /\ UINT32 > 1
    BY <1>1, TokenAssumption
  <2>2. 1 % UINT32 = 1
    BY <2>1
  <2> QED
    BY <2>1, <2>2
<1>4. TOKEN_TRESHOLD \in Nat
  BY TokenAssumption
<1> QED
  BY <1>2, <1>3, <1>4 DEF ValidToken, TokenDiff, NextToken

\* A message that is refused is one the call may resend, and is asked for the right token.
LEMMA OwnRefused ==
    ASSUME IInv, IInv', TOKEN_TRESHOLD > 1, NEW n \in Node, NEW d \in Node,
           call[n].dest = d, OnCourse(n), ~ Excused(n), ListenBadToken(d, n)
    PROVE  OnCourse(n)'
<1>0. TypeOK /\ TypeOK' /\ recv_tokens[d][n] \in Token
  <2>1. TypeOK
    BY DEF IInv
  <2>2. TypeOK'
    BY DEF IInv
  <2>3. recv_tokens[d][n] \in Token
    BY <2>1 DEF TypeOK
  <2> QED
    BY <2>1, <2>2, <2>3
<1>1. /\ Arriving(d, n) /\ TakeFrame(d, n) /\ IsData(Arrived(d, n)) /\ n # d
      /\ ~ ValidToken(Arrived(d, n).token, recv_tokens[d][n])
      /\ UNCHANGED <<call, response_queue, recv_tokens>>
  BY DEF ListenBadToken, NewMessage, Arriving, tokenVars, queueVars
<1>2. PICK t \in Token : t = NextToken(recv_tokens[d][n])
  BY <1>0, NextTokenType
<1>3. PICK f \in Frame : f = Response(d, n, {"SYNC", "RESEND"}, t)
  BY AnswerTalks
<1>4. /\ f \in Talk(n, d) /\ f.flags = {"SYNC", "RESEND"} /\ f.token = t
  BY <1>3, AnswerTalks
<1>5. replies' = [replies EXCEPT ![d] = Append(replies[d], f)]
  <2>1. replies[d] = <<>>
    BY <1>1 DEF Arriving
  <2>2. Reply(d, n, <<f>>)
    BY <1>2, <1>3 DEF ListenBadToken
  <2> QED
    BY <2>1, <2>2, ReplyAppends
<1>6. /\ GoodMessage(n, Arrived(d, n))
      /\ Count(air'[n][d], Talk(n, d)) = 0 /\ Count(air'[d][n], Talk(n, d)) = 0
      /\ Count(replies[d], Talk(n, d)) = 0 /\ Count(response_queue[n], Talk(n, d)) = 0
  BY <1>0, <1>1, OwnArrival
<1>7. call[n].allow_resend
  <2> SUFFICES ASSUME ~ call[n].allow_resend PROVE FALSE
    OBVIOUS
  <2>1. Arrived(d, n).token = NextToken(recv_tokens[d][n])
    BY <1>6 DEF GoodMessage
  <2>2. recv_tokens[d][n] # TOKEN_MAX - 1
    BY DEF Excused
  <2> QED
    BY <1>0, <1>1, <2>1, <2>2, SuccessorPasses
<1>8. GoodAnswer(n, f)'
  <2>1. call' = call /\ recv_tokens' = recv_tokens
    BY <1>1
  <2>2. call'[n].allow_resend /\ f.token = NextToken(recv_tokens'[call'[n].dest][n])
    BY <1>2, <1>4, <1>7, <2>1
  <2> QED
    BY <1>4, <2>2 DEF GoodAnswer
<1> QED
  BY <1>1, <1>4, <1>5, <1>6, <1>8, OwnAnswered

\* A message that is queued is acknowledged.
LEMMA OwnAccepted ==
    ASSUME IInv, IInv', NEW n \in Node, NEW d \in Node,
           call[n].dest = d, OnCourse(n), ListenNewMsg(d, n)
    PROVE  OnCourse(n)'
<1>0. TypeOK /\ TypeOK'
  BY DEF IInv
<1>1. /\ Arriving(d, n) /\ TakeFrame(d, n) /\ IsData(Arrived(d, n)) /\ n # d
      /\ UNCHANGED <<call, response_queue>>
  BY DEF ListenNewMsg, AcceptToken, NewMessage, Arriving
<1>2. PICK f \in Frame : f = Response(d, n, {"ACK"}, 0)
  BY AnswerTalks, ZeroToken
<1>3. f \in Talk(n, d) /\ f.flags = {"ACK"}
  BY <1>2, AnswerTalks, ZeroToken
<1>4. replies' = [replies EXCEPT ![d] = Append(replies[d], f)]
  <2>1. replies[d] = <<>>
    BY <1>1 DEF Arriving
  <2>2. Reply(d, n, <<f>>)
    BY <1>2 DEF ListenNewMsg
  <2> QED
    BY <2>1, <2>2, ReplyAppends
<1>5. /\ Count(air'[n][d], Talk(n, d)) = 0 /\ Count(air'[d][n], Talk(n, d)) = 0
      /\ Count(replies[d], Talk(n, d)) = 0 /\ Count(response_queue[n], Talk(n, d)) = 0
  BY <1>0, <1>1, OwnArrival
<1>6. GoodAnswer(n, f)'
  BY <1>3 DEF GoodAnswer
<1> QED
  BY <1>1, <1>3, <1>4, <1>5, <1>6, OwnAnswered

\* A message that sets out where there is no frame of the call puts the call on course.
LEMMA MessageStarts ==
    ASSUME IInv, IInv', Roomy, Fault = {}, NEW n \in Node, NEW d \in Node, n # d,
           call'[n].dest = d, call'[n].left = RESPONSE_TIMEOUT,
           NEW f \in Frame, IsData(f), f.from = n, f.to = d, Transmit(f), GoodMessage(n, f)',
           Count(air[n][d], Talk(n, d)) = 0, Count(air[d][n], Talk(n, d)) = 0,
           Count(replies'[d], Talk(n, d)) = 0, Count(response_queue'[n], Talk(n, d)) = 0
    PROVE  OnCourse(n)'
<1>0. TypeOK
  BY DEF IInv
<1>a. TypeOK'
  BY DEF IInv
<1>b. air[n][d] \in Seq(Frame) /\ air[d][n] \in Seq(Frame)
  BY <1>0 DEF TypeOK
<1>c. replies'[d] \in Seq(Frame) /\ response_queue'[n] \in Seq(Frame)
  BY <1>a DEF TypeOK
<1>1. f \in Talk(n, d)
  BY DEF Talk
<1>2. air'[n][d] = Append(air[n][d], f) /\ air'[d][n] = air[d][n]
  BY <1>0, TransmitAll
<1>3. Count(Append(air[n][d], f), Talk(n, d)) = 1
  BY <1>1, <1>b, CountAppend
<1>4. Range(Append(air[n][d], f)) = Range(air[n][d]) \cup {f}
  BY <1>b, AppendFacts
<1>5. /\ \A g \in Range(air[n][d]) : g \notin Talk(n, d)
      /\ \A g \in Range(air[d][n]) : g \notin Talk(n, d)
      /\ \A g \in Range(replies'[d]) : g \notin Talk(n, d)
      /\ \A g \in Range(response_queue'[n]) : g \notin Talk(n, d)
  BY <1>b, <1>c, NoneCounted
<1>6. \A g \in Range(air[n][d]) : ~ IsData(g)
  <2> SUFFICES ASSUME NEW g \in Range(air[n][d]), IsData(g) PROVE FALSE
    OBVIOUS
  <2>1. g.from = n /\ g.to = d
    BY FramesOfLine
  <2>2. g \in Frame
    BY <1>b DEF Range
  <2> QED
    BY <1>5, <2>1, <2>2 DEF Talk
<1>7. UnderWay(n, d)' = 1
  <2>1. Count(air'[n][d], Talk(n, d)) = 1 /\ Count(air'[d][n], Talk(n, d)) = 0
    BY <1>2, <1>3
  <2> QED
    BY <2>1 DEF UnderWay
<1>8. \A g \in Range(air'[n][d]) : IsData(g) => GoodMessage(n, g)'
  BY <1>2, <1>4, <1>6
<1>9. \A g \in Range(air'[d][n]) \cup Range(replies'[d]) \cup Range(response_queue'[n]) :
         g \notin Talk(n, d)
  BY <1>2, <1>5
<1> QED
  BY <1>7, <1>8, <1>9 DEF OnCourse

\* Where a call finds no frame of the past there is none of its own either.
LEMMA CleanCounts ==
    ASSUME IInv, NEW n \in Node, NEW d \in Node, n # d, Clean(n, d)
    PROVE  /\ Count(air[n][d], Talk(n, d)) = 0 /\ Count(air[d][n], Talk(n, d)) = 0
           /\ Count(replies[d], Talk(n, d)) = 0 /\ Count(response_queue[n], Talk(n, d)) = 0
<1>0. TypeOK
  BY DEF IInv
<1>1. /\ air[n][d] \in Seq(Frame) /\ air[d][n] \in Seq(Frame)
      /\ replies[d] \in Seq(Frame) /\ response_queue[n] \in Seq(Frame)
  BY <1>0 DEF TypeOK
<1>2. /\ \A f \in Range(air[n][d]) : ~ IsData(f)
      /\ \A f \in Range(air[d][n]) : f.to = n => ~ IsResponse(f)
      /\ \A f \in Range(replies[d]) : f.to = n => ~ IsResponse(f)
      /\ \A f \in Range(response_queue[n]) : f.from # d
  BY DEF Clean
<1>3. \A f \in Range(air[n][d]) : f \notin Talk(n, d)
  BY <1>2, FramesOfLine DEF Talk
<1>4. \A f \in Range(air[d][n]) : f \notin Talk(n, d)
  BY <1>2, FramesOfLine DEF Talk
<1>5. \A f \in Range(replies[d]) : f \notin Talk(n, d)
  BY <1>2, FramesOfReplies DEF Talk
<1>6. \A f \in Range(response_queue[n]) : f \notin Talk(n, d)
  BY <1>2, FramesOfQueue DEF Talk
<1> QED
  BY <1>1, <1>3, <1>4, <1>5, <1>6, NoneCounted

\* A call that begins clean begins on course.
LEMMA CallStarts ==
    ASSUME IInv, IInv', Roomy, Fault = {}, NEW n \in Node, NEW d \in Node,
           SendWithAck(n, d), call'[n].clean
    PROVE  OnCourse(n)'
<1>0. TypeOK /\ call \in [Node -> Call] /\ calls[n] \in Nat /\ send_tokens[n][d] \in Token
  BY DEF IInv, TypeOK
<1>1. PICK t \in Token : t = NextToken(send_tokens[n][d])
  BY <1>0, NextTokenType
<1>2. PICK id \in Nat : id = calls[n] + 1
  BY <1>0
<1>3. /\ call'[n].dest = d /\ call'[n].left = RESPONSE_TIMEOUT /\ call'[n].id = id
      /\ call'[n].token = t /\ call'[n].allow_resend /\ call'[n].clean = Clean(n, d)
  BY <1>0, <1>1, <1>2 DEF SendWithAck
<1>4. PICK f : f = DataFrame(n, d, id, t)
  OBVIOUS
<1>5. f \in Frame /\ IsData(f) /\ f.from = n /\ f.to = d /\ f.id = id /\ f.token = t
  BY <1>4, DataFrameFacts
<1>6. /\ n # d /\ Transmit(f) /\ replies' = replies /\ response_queue' = response_queue
  BY <1>1, <1>2, <1>4 DEF SendWithAck, queueVars
<1>7. GoodMessage(n, f)'
  BY <1>3, <1>5 DEF GoodMessage
<1>8. /\ Count(air[n][d], Talk(n, d)) = 0 /\ Count(air[d][n], Talk(n, d)) = 0
      /\ Count(replies'[d], Talk(n, d)) = 0 /\ Count(response_queue'[n], Talk(n, d)) = 0
  BY <1>3, <1>6, CleanCounts
<1> QED
  BY <1>3, <1>5, <1>6, <1>7, <1>8, MessageStarts

\* The answer the call reads was the only frame of the call.
LEMMA OwnPoll ==
    ASSUME IInv, IInv', NEW n \in Node, NEW d \in Node, call[n].dest = d, OnCourse(n),
           Poll(n), FromPeer(n)
    PROVE  /\ n # d /\ GoodAnswer(n, Polled(n)) /\ Polled(n) \in Frame
           /\ Count(air[n][d], Talk(n, d)) = 0 /\ Count(air[d][n], Talk(n, d)) = 0
           /\ Count(replies[d], Talk(n, d)) = 0 /\ Count(response_queue'[n], Talk(n, d)) = 0
<1>0. TypeOK
  BY DEF IInv
<1>a. TypeOK'
  BY DEF IInv
<1>1. /\ Polled(n) \in Frame
      /\ response_queue[n] \in Seq(Frame) /\ response_queue[n] # <<>>
  BY <1>0, PollFacts
<1>2. Polled(n) \in Range(response_queue[n])
  BY <1>1, TailFacts DEF Polled
<1>3. PICK f \in Frame : f = Polled(n)
  BY <1>1
<1>4. f.to = n /\ f.from = d /\ f.from # n /\ IsResponse(f)
  BY <1>2, <1>3, FramesOfQueue DEF FromPeer, AnswerOK
<1>5. f \in Talk(n, d)
  BY <1>4 DEF Talk
<1>6. GoodAnswer(n, f) /\ UnderWay(n, d) = 1
  BY <1>2, <1>3, <1>5 DEF OnCourse
<1>7. Count(response_queue[n], Talk(n, d)) = Count(response_queue'[n], Talk(n, d)) + 1
  BY <1>0, <1>3, <1>5, PollCount
<1>8. PICK i, j, k, l \in Nat :
        /\ i = Count(air[n][d], Talk(n, d)) /\ j = Count(air[d][n], Talk(n, d))
        /\ k = Count(replies[d], Talk(n, d)) /\ l = Count(response_queue'[n], Talk(n, d))
  BY <1>0, <1>a, TalkType, TalkTypeNext
<1>9. i + j + k + (l + 1) = 1
  BY <1>6, <1>7, <1>8 DEF UnderWay
<1>10. i = 0 /\ j = 0 /\ k = 0 /\ l = 0
  BY <1>9
<1> QED
  BY <1>3, <1>4, <1>6, <1>8, <1>10

\* A message that is sent once more has the token it was asked for.
LEMMA OwnResent ==
    ASSUME IInv, IInv', Roomy, Fault = {}, NEW n \in Node, OnCourse(n), GotResend(n)
    PROVE  OnCourse(n)'
<1>0. TypeOK /\ call \in [Node -> Call]
  BY DEF IInv, TypeOK
<1>1. PICK d \in Node : d = call[n].dest
  BY <1>0 DEF Call
<1>2. /\ Poll(n) /\ FromPeer(n) /\ GotRequest(n) /\ "ACK" \notin Polled(n).flags
      /\ UNCHANGED <<recv_tokens, replies>>
  BY DEF GotResend, GotRequest, Poll
<1>3. /\ n # d /\ GoodAnswer(n, Polled(n))
      /\ Count(air[n][d], Talk(n, d)) = 0 /\ Count(air[d][n], Talk(n, d)) = 0
      /\ Count(replies[d], Talk(n, d)) = 0 /\ Count(response_queue'[n], Talk(n, d)) = 0
  BY <1>1, <1>2, OwnPoll
<1>4. "SYNC" \in Polled(n).flags /\ Polled(n).token = NextToken(recv_tokens[d][n])
  BY <1>1, <1>2, <1>3 DEF GoodAnswer
<1>5. PICK t \in Token : t = SwappedToken(n)
  BY <1>0, <1>2, SwapFacts
<1>6. t = NextToken(recv_tokens[d][n])
  BY <1>4, <1>5 DEF SwappedToken
<1>7. PICK id \in Nat : id = call[n].id
  BY <1>0 DEF Call
<1>8. /\ call'[n].dest = d /\ call'[n].id = id /\ call'[n].token = t
      /\ call'[n].left = RESPONSE_TIMEOUT
  BY <1>0, <1>1, <1>5, <1>7 DEF GotResend, Call
<1>9. PICK f : f = DataFrame(n, d, id, t)
  OBVIOUS
<1>10. f \in Frame /\ IsData(f) /\ f.from = n /\ f.to = d /\ f.id = id /\ f.token = t
  BY <1>9, DataFrameFacts
<1>11. Transmit(f)
  BY <1>1, <1>5, <1>7, <1>9 DEF GotResend
<1>12. GoodMessage(n, f)'
  <2>1. recv_tokens' = recv_tokens
    BY <1>2
  <2> QED
    BY <1>6, <1>8, <1>10, <2>1 DEF GoodMessage
<1>13. Count(replies'[d], Talk(n, d)) = 0
  BY <1>2, <1>3
<1> QED
  BY <1>3, <1>8, <1>10, <1>11, <1>12, <1>13, MessageStarts

\* What is transmitted is, or is not, one of a call's frames.
LEMMA OthersSent ==
    ASSUME TypeOK, Roomy, Fault = {}, NEW f \in Frame, Transmit(f),
           NEW n \in Node, NEW d \in Node, f \notin Talk(n, d)
    PROVE  /\ Count(air'[n][d], Talk(n, d)) = Count(air[n][d], Talk(n, d))
           /\ Count(air'[d][n], Talk(n, d)) = Count(air[d][n], Talk(n, d))
           /\ \A g \in Range(air'[n][d]) : g \in Range(air[n][d]) \/ g = f
           /\ \A g \in Range(air'[d][n]) : g \in Range(air[d][n]) \/ g = f
BY TransmitCounts

\* An answer to the call joins the line to the caller.
LEMMA CallSent ==
    ASSUME TypeOK, Roomy, Fault = {}, NEW f \in Frame, Transmit(f),
           NEW n \in Node, NEW d \in Node, n # d, f.from = d, f.to = n,
           f \in Talk(n, d)
    PROVE  /\ air'[n][d] = air[n][d]
           /\ Count(air'[d][n], Talk(n, d)) = Count(air[d][n], Talk(n, d)) + 1
           /\ \A g \in Range(air'[d][n]) : g \in Range(air[d][n]) \/ g = f
<1>1. air'[n][d] = air[n][d]
  BY TransmitAll
<1> QED
  BY <1>1, TransmitCounts

\* An answer that leaves is, or is not, one of the call's frames.
LEMMA OthersReply ==
    ASSUME TypeOK, Roomy, Fault = {}, NEW m \in Node, replies[m] # <<>>,
           replies' = [replies EXCEPT ![m] = Tail(replies[m])],
           NEW f \in Frame, f = Head(replies[m]), Transmit(f), ~ IsData(f),
           NEW n \in Node, NEW d \in Node, f \notin Talk(n, d)
    PROVE  /\ Count(air'[n][d], Talk(n, d)) = Count(air[n][d], Talk(n, d))
           /\ Count(air'[d][n], Talk(n, d)) = Count(air[d][n], Talk(n, d))
           /\ Count(replies'[d], Talk(n, d)) = Count(replies[d], Talk(n, d))
           /\ \A g \in Range(air'[n][d]) : IsData(g) => g \in Range(air[n][d])
           /\ \A g \in Range(air'[d][n]) : g \in Talk(n, d) => g \in Range(air[d][n])
           /\ Range(replies'[d]) \subseteq Range(replies[d])
<1>1. /\ Count(air'[n][d], Talk(n, d)) = Count(air[n][d], Talk(n, d))
      /\ Count(air'[d][n], Talk(n, d)) = Count(air[d][n], Talk(n, d))
      /\ \A g \in Range(air'[n][d]) : g \in Range(air[n][d]) \/ g = f
      /\ \A g \in Range(air'[d][n]) : g \in Range(air[d][n]) \/ g = f
  BY OthersSent, ZenonT(30)
<1>2. /\ Count(replies'[d], Talk(n, d)) = Count(replies[d], Talk(n, d))
      /\ Range(replies'[d]) \subseteq Range(replies[d])
  BY SendReplyNone, Zenon
<1> QED
  BY <1>1, <1>2

\* The answers of the listeners travel to whom they are for.
LEMMA ReplySent ==
    ASSUME IInv, IInv', Roomy, Fault = {}, NEW m \in Node, TransmitReply(m),
           NEW n \in Node, Waiting(n), OnCourse(n)
    PROVE  OnCourse(n)'
<1>0. TypeOK /\ call \in [Node -> Call]
  BY DEF IInv, TypeOK
<1>a. TypeOK'
  BY DEF IInv
<1>1. PICK d \in Node : d = call[n].dest
  BY <1>0 DEF Call
<1>2. n # d
  BY <1>1 DEF IInv, CallsOK
<1>3. /\ replies[m] # <<>> /\ Transmit(Head(replies[m]))
      /\ replies' = [replies EXCEPT ![m] = Tail(replies[m])]
      /\ UNCHANGED <<recv_tokens, call, response_queue>>
  BY DEF TransmitReply, tokenVars, queueVars
<1>4. PICK f \in Frame : f = Head(replies[m]) /\ f \in Range(replies[m])
  <2>1. replies[m] \in Seq(Frame)
    BY <1>0 DEF TypeOK
  <2> QED
    BY <1>3, <2>1, TailFacts
<1>5. f.from = m /\ ~ IsData(f)
  BY <1>4, FramesOfReplies DEF AnswerOK, IsData
<1>6. Transmit(f)
  BY <1>3, <1>4
<1>7. call'[n] = call[n] /\ recv_tokens'[d][n] = recv_tokens[d][n]
      /\ response_queue'[n] = response_queue[n]
  BY <1>3
<1>8. CASE f \notin Talk(n, d)
  <2>1. /\ Count(air'[n][d], Talk(n, d)) = Count(air[n][d], Talk(n, d))
        /\ Count(air'[d][n], Talk(n, d)) = Count(air[d][n], Talk(n, d))
        /\ Count(replies'[d], Talk(n, d)) = Count(replies[d], Talk(n, d))
        /\ \A g \in Range(air'[n][d]) : IsData(g) => g \in Range(air[n][d])
        /\ \A g \in Range(air'[d][n]) : g \in Talk(n, d) => g \in Range(air[d][n])
        /\ Range(replies'[d]) \subseteq Range(replies[d])
    BY <1>0, <1>3, <1>4, <1>5, <1>6, <1>8, OthersReply
  <2> QED
    BY <1>1, <1>7, <2>1, OnCourseKept
<1>9. CASE f \in Talk(n, d)
  <2>1. m = d /\ f.to = n
    BY <1>5, <1>9 DEF Talk
  <2>2. f.from = d
    BY <1>5, <2>1
  <2>3. /\ air'[n][d] = air[n][d]
        /\ Count(air'[d][n], Talk(n, d)) = Count(air[d][n], Talk(n, d)) + 1
        /\ \A g \in Range(air'[d][n]) : g \in Range(air[d][n]) \/ g = f
    BY <1>0, <1>2, <1>6, <1>9, <2>1, <2>2, CallSent
  <2>4. /\ Count(replies[d], Talk(n, d)) = Count(replies'[d], Talk(n, d)) + 1
        /\ Range(replies'[d]) \subseteq Range(replies[d]) /\ f \in Range(replies[d])
    <3>1. replies[d] # <<>> /\ Head(replies[d]) \in Talk(n, d)
      BY <1>3, <1>4, <1>9, <2>1
    <3>2. replies' = [replies EXCEPT ![d] = Tail(replies[d])]
      BY <1>3, <2>1
    <3>3. /\ Count(replies[d], Talk(n, d)) = Count(replies'[d], Talk(n, d)) + 1
          /\ Range(replies'[d]) \subseteq Range(replies[d])
      BY <1>0, <3>1, <3>2, SendReplyOne, Zenon
    <3> QED
      BY <1>4, <2>1, <3>3
  <2>5. PICK i, j, k, l \in Nat :
          /\ i = Count(air[n][d], Talk(n, d)) /\ j = Count(air[d][n], Talk(n, d))
          /\ k = Count(replies'[d], Talk(n, d)) /\ l = Count(response_queue[n], Talk(n, d))
    BY <1>0, <1>a, TalkType, TalkTypeNext
  <2>6. i + (j + 1) + k + l = i + j + (k + 1) + l
    OBVIOUS
  <2>7. Count(air'[n][d], Talk(n, d)) + Count(air'[d][n], Talk(n, d))
          + Count(replies'[d], Talk(n, d)) + Count(response_queue'[n], Talk(n, d)) =
        Count(air[n][d], Talk(n, d)) + Count(air[d][n], Talk(n, d))
          + Count(replies[d], Talk(n, d)) + Count(response_queue[n], Talk(n, d))
    BY <1>7, <2>3, <2>5, <2>6, <2>4
  <2>8. \A g \in Range(air'[d][n]) \cup Range(replies'[d]) \cup Range(response_queue'[n]) :
           g \in Talk(n, d) =>
             g \in Range(air[d][n]) \cup Range(replies[d]) \cup Range(response_queue[n])
    BY <1>7, <2>3, <2>4
  <2>9. \A g \in Range(air'[n][d]) : IsData(g) => g \in Range(air[n][d])
    BY <2>3
  <2> QED
    BY <1>1, <1>7, <2>7, <2>8, <2>9, OnCourseKept
<1> QED
  BY <1>8, <1>9

\* A device that takes no part in the call may restart.
LEMMA OthersReboot ==
    ASSUME IInv, NEW m \in Node, Reboot(m), NEW n \in Node, m # n, m # call[n].dest, OnCourse(n)
    PROVE  OnCourse(n)'
<1>0. TypeOK /\ call \in [Node -> Call]
  BY DEF IInv, TypeOK
<1>1. PICK d \in Node : d = call[n].dest
  BY <1>0 DEF Call
<1>2. air' = air /\ call'[n] = call[n] /\ recv_tokens'[d][n] = recv_tokens[d][n]
      /\ replies'[d] = replies[d] /\ response_queue'[n] = response_queue[n]
  BY <1>0, <1>1 DEF Reboot, TypeOK
<1> QED
  BY <1>1, <1>2, OnCourseKept

\* What is on a list of one or two answers.
LEMMA AnswerLists ==
    ASSUME NEW f \in Frame, NEW e \in Frame
    PROVE  /\ <<f>> \in Seq(Frame) /\ \A g \in Range(<<f>>) : g = f
           /\ <<e, f>> \in Seq(Frame) /\ \A g \in Range(<<e, f>>) : g = e \/ g = f
<1>1. DOMAIN <<f>> = 1 .. 1 /\ DOMAIN <<e, f>> = 1 .. 2
  OBVIOUS
<1> QED
  BY <1>1 DEF Range

\* What the listeners do leaves a call on course, or gives it a reason to fail.
LEMMA ListenOnCourse ==
    ASSUME IInv, IInv', Undamaged, Prompt, TOKEN_TRESHOLD > 1,
           NEW n \in Node, Waiting(n), OnCourse(n), ~ Excused(n),
           NEW m \in Node, NEW s \in Node,
           \/ ListenBadCrc(m, s) \/ ListenResponse(m, s) \/ ListenBadToken(m, s)
           \/ ListenNewMsg(m, s) \/ ListenQueueFull(m, s)
    PROVE  OnCourse(n)' \/ Excused(n)'
<1>0. TypeOK /\ call \in [Node -> Call] /\ recv_tokens \in [Node -> [Node -> Token]]
      /\ dropped \in [Node -> [Node -> Seq(Nat)]]
  BY DEF IInv, TypeOK
<1>1. ~ ListenBadCrc(m, s)
  <2> SUFFICES ASSUME ListenBadCrc(m, s) PROVE FALSE
    OBVIOUS
  <2>1. Arriving(m, s) /\ TakeFrame(m, s) /\ ~ Arrived(m, s).crc
    BY DEF ListenBadCrc
  <2>2. Arrived(m, s) \in Range(air[s][m])
    BY <1>0, <2>1, TakeCounts
  <2> QED
    BY <2>1, <2>2 DEF Undamaged
<1>2. CASE ListenResponse(m, s)
  BY <1>2, AnswerArrives
<1>3. CASE m = call[n].dest /\ s = n /\ ListenBadToken(m, s)
  BY <1>3, OwnRefused
<1>4. CASE m = call[n].dest /\ s = n /\ ListenNewMsg(m, s)
  BY <1>4, OwnAccepted
<1>5. CASE m = call[n].dest /\ s = n /\ ListenQueueFull(m, s)
  <2>1. /\ Arriving(m, n) /\ TakeFrame(m, n) /\ IsData(Arrived(m, n)) /\ n # m /\ call' = call
        /\ dropped' = [dropped EXCEPT ![m][n] = Append(dropped[m][n], Arrived(m, n).id)]
    BY <1>5 DEF ListenQueueFull, AcceptToken, NewMessage, Arriving
  <2>2. TypeOK'
    BY DEF IInv
  <2>3. GoodMessage(n, Arrived(m, n)) /\ Arrived(m, n) \in Frame
    BY <1>5, <2>1, <2>2, OwnArrival
  <2>4. PICK i \in Nat : i = Arrived(m, n).id /\ i = call[n].id
    BY <2>3 DEF GoodMessage, Frame
  <2>5. dropped'[m][n] = Append(dropped[m][n], i) /\ dropped[m][n] \in Seq(Nat)
    BY <1>0, <2>1, <2>4
  <2>6. Range(Append(dropped[m][n], i)) = Range(dropped[m][n]) \cup {i}
    BY <2>5, AppendFacts
  <2>7. call'[n].id \in Range(dropped'[m][n]) /\ call'[n].dest = m
    BY <1>5, <2>1, <2>4, <2>5, <2>6
  <2> QED
    BY <2>7 DEF Excused
<1>6. CASE ~ (m = call[n].dest /\ s = n) /\ ListenBadToken(m, s)
  <2>1. /\ Arriving(m, s) /\ TakeFrame(m, s) /\ IsData(Arrived(m, s))
        /\ UNCHANGED <<call, response_queue, recv_tokens>>
    BY <1>6 DEF ListenBadToken, NewMessage, tokenVars, queueVars
  <2>2. PICK t \in Token : t = NextToken(recv_tokens[m][s])
    BY <1>0, NextTokenType
  <2>3. PICK f \in Frame : f = Response(m, s, {"SYNC", "RESEND"}, t)
    BY AnswerTalks
  <2>4. f.from = m /\ f.to = s /\ IsResponse(f)
    BY <2>3, AnswerTalks
  <2>5. PICK a \in Seq(Frame) : a = <<f>> /\ \A g \in Range(a) : g = f
    BY AnswerLists
  <2>6. replies' = [replies EXCEPT ![m] = a]
    BY <1>6, <2>2, <2>3, <2>5 DEF ListenBadToken, Reply
  <2>7. \A g \in Range(a) : g.from = m /\ g.to = s /\ IsResponse(g)
    BY <2>4, <2>5
  <2>8. \A x, y \in Node : x # m \/ y # s => recv_tokens'[x][y] = recv_tokens[x][y]
    BY <2>1
  <2> QED
    BY <1>6, <2>1, <2>6, <2>7, <2>8, OthersAnswered
<1>7. CASE ~ (m = call[n].dest /\ s = n) /\ (ListenNewMsg(m, s) \/ ListenQueueFull(m, s))
  <2>1. /\ Arriving(m, s) /\ TakeFrame(m, s) /\ IsData(Arrived(m, s))
        /\ UNCHANGED <<call, response_queue>>
        /\ recv_tokens' = [recv_tokens EXCEPT ![m][s] = Arrived(m, s).token]
    BY <1>7 DEF ListenNewMsg, ListenQueueFull, AcceptToken, NewMessage
  <2>2. PICK f \in Frame, e \in Frame :
           f = Response(m, s, {"ACK"}, 0) /\ e = Response(m, s, {"ERROR"}, 0)
    BY AnswerTalks, ZeroToken
  <2>3. /\ f.from = m /\ f.to = s /\ IsResponse(f)
        /\ e.from = m /\ e.to = s /\ IsResponse(e)
    BY <2>2, AnswerTalks, ZeroToken
  <2>4. PICK a \in Seq(Frame) : /\ replies' = [replies EXCEPT ![m] = a]
                                /\ \A g \in Range(a) : g = f \/ g = e
    <3>1. CASE ListenNewMsg(m, s)
      <4>1. replies' = [replies EXCEPT ![m] = <<f>>]
        BY <2>2, <3>1 DEF ListenNewMsg, Reply
      <4>2. \A g \in Range(<<f>>) : g = f
        BY AnswerLists
      <4> QED
        BY <4>1, <4>2, AnswerLists
    <3>2. CASE ListenQueueFull(m, s)
      <4>1. replies' = [replies EXCEPT ![m] = <<e, f>>]
        BY <2>2, <3>2 DEF ListenQueueFull, Reply
      <4>2. \A g \in Range(<<e, f>>) : g = f \/ g = e
        BY AnswerLists
      <4> QED
        BY <4>1, <4>2, AnswerLists
    <3> QED
      BY <1>7, <3>1, <3>2
  <2>5. \A g \in Range(a) : g.from = m /\ g.to = s /\ IsResponse(g)
    BY <2>3, <2>4
  <2>6. \A x, y \in Node : x # m \/ y # s => recv_tokens'[x][y] = recv_tokens[x][y]
    BY <1>0, <2>1
  <2> QED
    BY <1>7, <2>1, <2>4, <2>5, <2>6, OthersAnswered
<1> QED
  BY <1>1, <1>2, <1>3, <1>4, <1>5, <1>6, <1>7

-----------------------------------------------------------------------------
(***************************************************************************)
(* The invariant of the calls on a medium that is prompt and whole.        *)
(***************************************************************************)

\* A call fails by an ERROR or by its timeout.
LEMMA FailureSteps ==
    ASSUME TypeOK, Next, NEW m \in Node, call'[m].phase = "failure"
    PROVE  \/ call'[m] = call[m]
           \/ /\ GotError(m) \/ ResponseTimeout(m)
              /\ call'[m].id = call[m].id /\ call'[m].dest = call[m].dest
              /\ call'[m].clean = call[m].clean
<1>0. call \in [Node -> Call]
  BY DEF TypeOK
<1>1. PICK n \in Node :
         \/ \E e \in Node : SendWithAck(n, e)
         \/ PollStep(n) \/ Tick(n) \/ ResponseTimeout(n) \/ TryReceive(n)
         \/ ListenStep(n) \/ Reboot(n)
  BY DEF Next
<1>2. CASE \E e \in Node : SendWithAck(n, e)
  <2>1. n # m => call'[m] = call[m]
    BY <1>0, <1>2 DEF SendWithAck
  <2>2. call'[n].phase = "waiting"
    BY <1>0, <1>2 DEF SendWithAck
  <2> QED
    BY <2>1, <2>2
<1>3. CASE \E s \in Node : \/ ListenBadCrc(n, s) \/ ListenResponse(n, s) \/ ListenBadToken(n, s)
                           \/ ListenNewMsg(n, s) \/ ListenQueueFull(n, s)
  BY <1>3, ListenKept
<1>4. CASE \/ PollStep(n) \/ Tick(n) \/ ResponseTimeout(n) \/ TryReceive(n)
           \/ TransmitReply(n) \/ Reboot(n)
  <2>1. CASE m # n
    BY <1>4, <2>1, CallKept
  <2>2. CASE m = n /\ (GotError(n) \/ ResponseTimeout(n))
    <3>1. call' = [call EXCEPT ![n].phase = "failure", ![n].token = 0,
                               ![n].allow_resend = FALSE, ![n].left = 0]
      BY <2>2 DEF GotError, ResponseTimeout, Return
    <3>2. /\ call'[n].id = call[n].id /\ call'[n].dest = call[n].dest
          /\ call'[n].clean = call[n].clean
      BY <1>0, <3>1 DEF Call
    <3> QED
      BY <2>2, <3>2
  <2>3. CASE m = n /\ ~ (GotError(n) \/ ResponseTimeout(n))
    <3>1. CASE GotAck(n)
      <4>1. call' = [call EXCEPT ![n].phase = "success", ![n].token = 0,
                                 ![n].allow_resend = FALSE, ![n].left = 0]
        BY <3>1 DEF GotAck, Return
      <4> QED
        BY <1>0, <2>3, <4>1 DEF Call
    <3>2. CASE GotResend(n) \/ GotLateRequest(n) \/ Tick(n)
      <4>1. call[n].phase = "waiting"
        BY <3>2 DEF GotResend, GotLateRequest, GotRequest, Poll, Tick, Waiting
      <4>2. \/ call' = [call EXCEPT ![n].token = SwappedToken(n),
                                    ![n].allow_resend = FALSE, ![n].left = RESPONSE_TIMEOUT]
            \/ call' = [call EXCEPT ![n].token = SwappedToken(n)]
            \/ call' = [call EXCEPT ![n].left = @ - 1]
        BY <3>2 DEF GotResend, GotLateRequest, Tick
      <4>3. call'[n].phase = call[n].phase
        BY <1>0, <4>2 DEF Call
      <4> QED
        BY <2>3, <4>1, <4>3
    <3>3. CASE Reboot(n)
      BY <1>0, <2>3, <3>3 DEF Reboot, NoCall
    <3>4. CASE GotForeign(n) \/ TryReceive(n) \/ TransmitReply(n)
      BY <2>3, <3>4 DEF GotForeign, TryReceive, TransmitReply
    <3> QED
      BY <1>4, <2>3, <3>1, <3>2, <3>3, <3>4 DEF PollStep
  <2> QED
    BY <2>1, <2>2, <2>3
<1> QED
  BY <1>1, <1>2, <1>3, <1>4 DEF ListenStep

\* What is transmitted undamaged arrives undamaged.
LEMMA UndamagedSent ==
    ASSUME TypeOK, Roomy, Fault = {}, Undamaged, NEW f \in Frame, f.crc, Transmit(f)
    PROVE  \A s, d \in Node : \A g \in Range(air'[s][d]) : g.crc
<1>1. \A s, d \in Node : \A g \in Range(air'[s][d]) : g \in Range(air[s][d]) \/ g = f
  BY TransmitCounts
<1> QED
  BY <1>1 DEF Undamaged

\* No step damages a frame.
LEMMA UndamagedStep ==
    ASSUME TypeOK, Roomy, Fault = {}, Undamaged, Next
    PROVE  Undamaged'
<1>0. /\ call \in [Node -> Call] /\ replies \in [Node -> Seq(Frame)]
      /\ calls \in [Node -> Nat] /\ send_tokens \in [Node -> [Node -> Token]]
  BY DEF TypeOK
<1>1. ASSUME NEW n \in Node, NEW e \in Node, SendWithAck(n, e)
      PROVE  Undamaged'
  <2>1. PICK t \in Token : t = NextToken(send_tokens[n][e])
    BY <1>0, NextTokenType
  <2>2. PICK id \in Nat : id = calls[n] + 1
    BY <1>0
  <2>3. PICK f \in Frame : f = DataFrame(n, e, id, t)
    BY FrameTypes
  <2>4. f.crc /\ Transmit(f) /\ replies' = replies
    BY <1>1, <2>1, <2>2, <2>3 DEF SendWithAck, DataFrame
  <2>5. \A s, d \in Node : \A g \in Range(air'[s][d]) : g.crc
    BY <2>4, UndamagedSent
  <2> QED
    BY <2>4, <2>5 DEF Undamaged
<1>2. ASSUME NEW n \in Node, GotResend(n)
      PROVE  Undamaged'
  <2>1. PICK t \in Token : t = SwappedToken(n)
    BY <1>2, SwapFacts DEF GotResend
  <2>2. call[n].dest \in Node /\ call[n].id \in Nat
    BY <1>0 DEF Call
  <2>3. PICK f \in Frame : f = DataFrame(n, call[n].dest, call[n].id, t)
    BY <2>2, FrameTypes
  <2>4. Transmit(f) /\ replies' = replies
    BY <1>2, <2>1, <2>3 DEF GotResend, GotRequest, Poll
  <2>5. f.crc
    BY <2>3 DEF DataFrame
  <2>6. \A s, d \in Node : \A g \in Range(air'[s][d]) : g.crc
    BY <2>4, <2>5, UndamagedSent
  <2> QED
    BY <2>4, <2>6 DEF Undamaged
<1>3. ASSUME NEW n \in Node,
             \/ PollStep(n) /\ ~ GotResend(n)
             \/ Tick(n) \/ ResponseTimeout(n) \/ TryReceive(n)
      PROVE  Undamaged'
  <2>1. air' = air /\ replies' = replies
    BY <1>3 DEF PollStep, GotForeign, GotAck, GotError, GotLateRequest, GotRequest, Poll,
                Tick, ResponseTimeout, TryReceive
  <2> QED
    BY <2>1 DEF Undamaged
<1>4. ASSUME NEW n \in Node, NEW s \in Node,
             \/ ListenBadCrc(n, s) \/ ListenResponse(n, s) \/ ListenBadToken(n, s)
             \/ ListenNewMsg(n, s) \/ ListenQueueFull(n, s)
      PROVE  Undamaged'
  <2>1. Arriving(n, s) /\ TakeFrame(n, s)
    BY <1>4 DEF ListenBadCrc, ListenResponse, ListenBadToken, ListenNewMsg, ListenQueueFull,
                AcceptToken, NewMessage
  <2>2. \A x, y \in Node : Range(air'[x][y]) \subseteq Range(air[x][y])
    BY <2>1, TakeCounts
  <2>3. \/ replies' = replies
        \/ \E f \in Seq(Frame) : /\ replies' = [replies EXCEPT ![n] = f]
                                 /\ \A g \in Range(f) : g.crc
    <3>1. CASE ListenResponse(n, s)
      BY <3>1 DEF ListenResponse
    <3>2. CASE ListenBadCrc(n, s)
      <4>1. PICK f \in Frame : f = Response(n, s, {"RESEND"}, 0)
        BY FrameTypes, ZeroToken DEF Flag
      <4>2. replies' = [replies EXCEPT ![n] = <<f>>]
        BY <3>2, <4>1 DEF ListenBadCrc, Reply
      <4>3. f.crc
        BY <4>1 DEF Response
      <4> QED
        BY <4>2, <4>3, AnswerLists
    <3>3. CASE ListenBadToken(n, s)
      <4>1. PICK t \in Token : t = NextToken(recv_tokens[n][s])
        BY NextTokenType DEF TypeOK
      <4>2. PICK f \in Frame : f = Response(n, s, {"SYNC", "RESEND"}, t)
        BY AnswerTalks
      <4>3. replies' = [replies EXCEPT ![n] = <<f>>]
        BY <3>3, <4>1, <4>2 DEF ListenBadToken, Reply
      <4>4. f.crc
        BY <4>2 DEF Response
      <4> QED
        BY <4>3, <4>4, AnswerLists
    <3>4. CASE ListenNewMsg(n, s) \/ ListenQueueFull(n, s)
      <4>1. PICK f \in Frame, e \in Frame :
               f = Response(n, s, {"ACK"}, 0) /\ e = Response(n, s, {"ERROR"}, 0)
        BY AnswerTalks, ZeroToken
      <4>2. f.crc /\ e.crc
        BY <4>1 DEF Response
      <4>3. \/ replies' = [replies EXCEPT ![n] = <<f>>]
            \/ replies' = [replies EXCEPT ![n] = <<e, f>>]
        BY <3>4, <4>1 DEF ListenNewMsg, ListenQueueFull, Reply
      <4>4. /\ <<f>> \in Seq(Frame) /\ \A g \in Range(<<f>>) : g.crc
            /\ <<e, f>> \in Seq(Frame) /\ \A g \in Range(<<e, f>>) : g.crc
        BY <4>2, AnswerLists
      <4>5. PICK a \in Seq(Frame) : /\ replies' = [replies EXCEPT ![n] = a]
                                    /\ \A g \in Range(a) : g.crc
        BY <4>3, <4>4, Zenon
      <4> QED
        BY <4>5
    <3> QED
      BY <1>4, <3>1, <3>2, <3>3, <3>4
  <2>4. \A x \in Node : \A g \in Range(replies'[x]) : g.crc
    BY <1>0, <2>3 DEF Undamaged
  <2> QED
    BY <2>2, <2>4 DEF Undamaged
<1>5. ASSUME NEW n \in Node, TransmitReply(n)
      PROVE  Undamaged'
  <2>1. /\ replies[n] # <<>> /\ Transmit(Head(replies[n]))
        /\ replies' = [replies EXCEPT ![n] = Tail(replies[n])]
    BY <1>5 DEF TransmitReply
  <2>2. /\ Head(replies[n]) \in Frame /\ Head(replies[n]) \in Range(replies[n])
        /\ Range(Tail(replies[n])) \subseteq Range(replies[n])
    BY <1>0, <2>1, TailFacts
  <2>3. PICK f \in Frame : f = Head(replies[n]) /\ f.crc
    BY <2>2 DEF Undamaged
  <2>4. \A s, d \in Node : \A g \in Range(air'[s][d]) : g.crc
    BY <2>1, <2>3, UndamagedSent
  <2>5. \A x \in Node : Range(replies'[x]) \subseteq Range(replies[x])
    BY <1>0, <2>1, <2>2
  <2> QED
    BY <2>4, <2>5 DEF Undamaged
<1>6. ASSUME NEW n \in Node, Reboot(n)
      PROVE  Undamaged'
  <2>1. air' = air /\ replies' = [replies EXCEPT ![n] = <<>>]
    BY <1>6 DEF Reboot
  <2>2. Range(<<>>) = {}
    BY DEF Range
  <2>3. \A x \in Node : Range(replies'[x]) \subseteq Range(replies[x])
    BY <1>0, <2>1, <2>2
  <2> QED
    BY <2>1, <2>3 DEF Undamaged
<1> QED
  BY <1>1, <1>2, <1>3, <1>4, <1>5, <1>6 DEF Next, ListenStep

\* A call on course stays there, or gets a reason to fail, for as long as it waits.
LEMMA CourseStep ==
    ASSUME IInv, IInv', Undamaged, Roomy, Fault = {}, Prompt, TOKEN_TRESHOLD > 1, Next,
           NEW n \in Node, Waiting(n), Waiting(n)', OnCourse(n), ~ Excused(n)
    PROVE  OnCourse(n)' \/ Excused(n)'
<1>0. TypeOK /\ call \in [Node -> Call]
  BY DEF IInv, TypeOK
<1>1. PICK d \in Node : d = call[n].dest
  BY <1>0 DEF Call
<1>2. ASSUME NEW m \in Node, m # n, PollStep(m) \/ \E e \in Node : SendWithAck(m, e)
      PROVE  OnCourse(n)'
  BY <1>2, OthersCall
<1>3. ASSUME NEW m \in Node, m # n, Tick(m) \/ ResponseTimeout(m) \/ TryReceive(m)
      PROVE  OnCourse(n)'
  <2>1. call'[n] = call[n]
    BY <1>0, <1>3, CallKept
  <2>2. UNCHANGED <<recv_tokens, replies, air, response_queue>>
    BY <1>3 DEF Tick, ResponseTimeout, TryReceive, tokenVars, queueVars
  <2> QED
    BY <2>1, <2>2, QuietStep
<1>4. ASSUME NEW m \in Node, ListenStep(m)
      PROVE  OnCourse(n)' \/ Excused(n)'
  <2>1. CASE TransmitReply(m)
    BY <2>1, ReplySent
  <2>2. CASE ~ TransmitReply(m)
    BY <1>4, <2>2, ListenOnCourse DEF ListenStep
  <2> QED
    BY <2>1, <2>2
<1>5. ASSUME NEW m \in Node, Reboot(m)
      PROVE  OnCourse(n)' \/ Excused(n)'
  <2>1. m # n
    <3> SUFFICES ASSUME m = n PROVE FALSE
      OBVIOUS
    <3>1. call'[n].phase = "idle"
      BY <1>0, <1>5 DEF Reboot, NoCall
    <3> QED
      BY <3>1 DEF Waiting
  <2>2. CASE m = call[n].dest
    <3>1. call'[n] = call[n] /\ m \in Rebooter
      BY <1>0, <1>5, <2>1 DEF Reboot
    <3> QED
      BY <2>2, <3>1 DEF Excused
  <2>3. CASE m # call[n].dest
    BY <1>5, <2>1, <2>3, OthersReboot
  <2> QED
    BY <2>2, <2>3
<1>6. CASE GotForeign(n)
  BY <1>6, OwnForeign
<1>7. CASE GotResend(n)
  BY <1>7, OwnResent
<1>8. ~ (GotAck(n) \/ GotError(n))
  <2> SUFFICES ASSUME GotAck(n) \/ GotError(n) PROVE FALSE
    OBVIOUS
  <2>1. PICK p \in {"success", "failure"} :
           call' = [call EXCEPT ![n].phase = p, ![n].token = 0,
                                ![n].allow_resend = FALSE, ![n].left = 0]
    BY DEF GotAck, GotError, Return
  <2>2. call'[n].phase = p
    BY <1>0, <2>1 DEF Call
  <2> QED
    BY <2>2 DEF Waiting
<1>9. ~ GotLateRequest(n)
  <2> SUFFICES ASSUME GotLateRequest(n) PROVE FALSE
    OBVIOUS
  <2>1. /\ Poll(n) /\ FromPeer(n) /\ "ACK" \notin Polled(n).flags
        /\ ~ ("RESEND" \in Polled(n).flags /\ call[n].allow_resend)
    BY DEF GotLateRequest, GotRequest
  <2>2. GoodAnswer(n, Polled(n))
    BY <1>1, <2>1, OwnPoll
  <2> QED
    BY <2>1, <2>2 DEF GoodAnswer
<1>10. ~ Tick(n)
  <2> SUFFICES ASSUME Tick(n) PROVE FALSE
    OBVIOUS
  <2>1. Settled(n)
    BY DEF Tick
  <2>2. air[n][d] = <<>> /\ air[d][n] = <<>> /\ replies[d] = <<>> /\ response_queue[n] = <<>>
    BY <2>1 DEF Settled
  <2>3. UnderWay(n, d) = 0
    <3>1. /\ Count(air[n][d], Talk(n, d)) = 0 /\ Count(air[d][n], Talk(n, d)) = 0
          /\ Count(replies[d], Talk(n, d)) = 0 /\ Count(response_queue[n], Talk(n, d)) = 0
      BY <2>2, CountEmpty
    <3> QED
      BY <3>1 DEF UnderWay
  <2> QED
    BY <1>1, <2>3 DEF OnCourse
<1>11. ~ ResponseTimeout(n) /\ ~ TryReceive(n) /\ ~ \E e \in Node : SendWithAck(n, e)
  BY TransportAssumption DEF ResponseTimeout, TryReceive, SendWithAck, OnCourse
<1>12. PICK m \in Node :
         \/ \E e \in Node : SendWithAck(m, e)
         \/ PollStep(m) \/ Tick(m) \/ ResponseTimeout(m) \/ TryReceive(m)
         \/ ListenStep(m) \/ Reboot(m)
  BY DEF Next
<1>13. CASE m # n
  BY <1>2, <1>3, <1>4, <1>5, <1>12, <1>13
<1>14. CASE m = n
  BY <1>4, <1>5, <1>6, <1>7, <1>8, <1>9, <1>10, <1>11, <1>12, <1>14 DEF PollStep
<1> QED
  BY <1>13, <1>14

\* A call on course does not fail.
LEMMA NoFailure ==
    ASSUME IInv, IInv', NEW n \in Node, OnCourse(n)
    PROVE  ~ GotError(n) /\ ~ ResponseTimeout(n)
<1>0. call \in [Node -> Call]
  BY DEF IInv, TypeOK
<1>1. PICK d \in Node : d = call[n].dest
  BY <1>0 DEF Call
<1>2. ~ GotError(n)
  <2> SUFFICES ASSUME GotError(n) PROVE FALSE
    OBVIOUS
  <2>1. Poll(n) /\ FromPeer(n) /\ "ERROR" \in Polled(n).flags
    BY DEF GotError
  <2>2. GoodAnswer(n, Polled(n))
    BY <1>1, <2>1, OwnPoll
  <2> QED
    BY <2>1, <2>2 DEF GoodAnswer
<1>3. ~ ResponseTimeout(n)
  BY TransportAssumption DEF ResponseTimeout, OnCourse
<1> QED
  BY <1>2, <1>3

\* Nothing has been called yet.
LEMMA TimelyInit == Init => TimelyInv
<1> SUFFICES ASSUME Init PROVE TimelyInv
  OBVIOUS
<1>1. IInv
  BY InvInit
<1>2. Range(<<>>) = {}
  BY DEF Range
<1>3. /\ \A s, d \in Node : air[s][d] = <<>>
      /\ \A n \in Node : replies[n] = <<>> /\ call[n].phase = "idle"
  BY DEF Init, NoCall
<1>4. Undamaged
  BY <1>2, <1>3 DEF Undamaged
<1> QED
  BY <1>1, <1>3, <1>4 DEF TimelyInv, TimelySuccess, Waiting

\* Every step keeps the invariant while no line is full.
LEMMA TimelyStep ==
    ASSUME Prompt, Fault = {}, TOKEN_TRESHOLD > 1, TimelyInv, Roomy, [Next]_vars
    PROVE  TimelyInv'
<1>1. IInv /\ IInv' /\ TypeOK
  BY InvStep DEF TimelyInv, IInv
<1>2. CASE Next
  <2>1. Undamaged'
    BY <1>1, <1>2, UndamagedStep DEF TimelyInv
  <2>2. ASSUME NEW n \in Node, Waiting(n)', call'[n].clean
        PROVE  OnCourse(n)' \/ Excused(n)'
    <3>1. CASE \E e \in Node : SendWithAck(n, e)
      BY <1>1, <2>2, <3>1, CallStarts
    <3>2. CASE ~ \E e \in Node : SendWithAck(n, e)
      <4>1. /\ Waiting(n) /\ call[n].clean
            /\ call'[n].id = call[n].id /\ call'[n].dest = call[n].dest
        BY <1>1, <1>2, <2>2, <3>2, CallSteps DEF Waiting
      <4>2. CASE Excused(n)
        BY <1>1, <1>2, <4>1, <4>2, ExcusedStays
      <4>3. CASE OnCourse(n) /\ ~ Excused(n)
        BY <1>1, <1>2, <2>2, <4>1, <4>3, CourseStep DEF TimelyInv
      <4> QED
        BY <4>1, <4>2, <4>3 DEF TimelyInv
    <3> QED
      BY <3>1, <3>2
  <2>3. ASSUME NEW n \in Node, call'[n].phase = "failure", call'[n].clean
        PROVE  Excused(n)'
    <3>1. CASE call'[n] = call[n]
      <4>1. Excused(n)
        BY <2>3, <3>1 DEF TimelyInv, TimelySuccess, Excused
      <4> QED
        BY <1>1, <1>2, <3>1, <4>1, ExcusedStays
    <3>2. CASE /\ GotError(n) \/ ResponseTimeout(n)
               /\ call'[n].id = call[n].id /\ call'[n].dest = call[n].dest
               /\ call'[n].clean = call[n].clean
      <4>1. Waiting(n)
        BY <3>2 DEF GotError, Poll, ResponseTimeout
      <4>2. ~ OnCourse(n)
        BY <1>1, <3>2, NoFailure
      <4>3. Excused(n)
        BY <2>3, <3>2, <4>1, <4>2 DEF TimelyInv
      <4> QED
        BY <1>1, <1>2, <3>2, <4>3, ExcusedStays
    <3> QED
      BY <1>1, <1>2, <2>3, <3>1, <3>2, FailureSteps
  <2>4. TimelySuccess'
    BY <2>3 DEF TimelySuccess, Excused
  <2> QED
    BY <1>1, <2>1, <2>2, <2>4 DEF TimelyInv
<1>3. CASE UNCHANGED vars
  <2>1. UNCHANGED <<recv_tokens, call, response_queue, replies, air, dropped>>
    BY <1>3 DEF vars, tokenVars, queueVars, history
  <2>2. Undamaged' /\ TimelySuccess'
    BY <2>1 DEF TimelyInv, Undamaged, TimelySuccess
  <2>3. ASSUME NEW n \in Node, Waiting(n)', call'[n].clean
        PROVE  OnCourse(n)' \/ Excused(n)'
    <3>1. Waiting(n) /\ call[n].clean
      BY <2>1, <2>3 DEF Waiting
    <3>2. CASE OnCourse(n)
      BY <1>1, <2>1, <3>2, QuietStep
    <3>3. CASE Excused(n)
      BY <2>1, <3>3 DEF Excused
    <3> QED
      BY <3>1, <3>2, <3>3 DEF TimelyInv
  <2> QED
    BY <1>1, <2>2, <2>3 DEF TimelyInv
<1> QED
  BY <1>2, <1>3

\* The invariant of the calls holds in every reachable state of such a network.
THEOREM TimelyInvariance ==
    ASSUME Prompt, Fault = {}, TOKEN_TRESHOLD > 1, AirCap > 6 * MaxCalls
    PROVE  Spec => []TimelyInv
<1>1. Init => TimelyInv
  BY TimelyInit
<1>2. TimelyInv /\ Roomy /\ [Next]_vars => TimelyInv'
  BY TimelyStep
<1>3. Spec => []Roomy
  BY LinesAreRoomy
<1> QED
  BY <1>1, <1>2, <1>3, PTL DEF Spec

\* On a medium that answers in time, loses and damages nothing, and with a threshold that
\* lets the next token pass, a call that began clean fails only because its destination's
\* queue was full, its receive counter has reached its last value, or it may have restarted.
THEOREM TimelySuccesses ==
    ASSUME Prompt, Fault = {}, TOKEN_TRESHOLD > 1, AirCap > 6 * MaxCalls
    PROVE  Spec => []TimelySuccess
<1>1. TimelyInv => TimelySuccess
  BY DEF TimelyInv
<1> QED
  BY <1>1, TimelyInvariance, PTL
-----------------------------------------------------------------------------
(***************************************************************************)
(* TimelyDelivery: the ERROR of a message without room stays ahead of its  *)
(* ACK.                                                                    *)
(***************************************************************************)

\* The invariant of the three queues an answer passes, for any three queues.
Led(q, a, r, s, d) ==
    /\ Headed(q, d, s)
    /\ \/ Headed(a, d, s)
       \/ Range(q) \cap Errors(d, s) # {}
    /\ \/ Headed(r, d, s)
       \/ (Range(q) \cup Range(a)) \cap Errors(d, s) # {}

LEMMA LedIs ==
    ASSUME NEW s, NEW d
    PROVE  /\ ErrorFirst(s, d) <=> Led(response_queue[s], air[d][s], replies[d], s, d)
           /\ ErrorFirst(s, d)' <=> Led(response_queue'[s], air'[d][s], replies'[d], s, d)
  BY DEF ErrorFirst, Led, Headed, Acks, Errors

\* A queue without ACKs needs no ERROR.
LEMMA NoAckHeaded ==
    ASSUME NEW q, NEW d, NEW s, \A f \in Range(q) : f \notin Acks(d, s)
    PROVE  Headed(q, d, s)
  BY DEF Headed, Range

\* The first frame of a headed queue is no ACK.
LEMMA HeadedHead ==
    ASSUME NEW q \in Seq(Frame), q # <<>>, NEW d, NEW s, Headed(q, d, s)
    PROVE  Head(q) \notin Acks(d, s)
<1>1. /\ Head(q) = q[1] /\ 1 \in DOMAIN q
      /\ DOMAIN q = 1 .. Len(q) /\ Len(q) \in Nat
  BY TailFacts
<1>2. \A j \in DOMAIN q : ~ j < 1
  BY <1>1
<1> QED
  BY <1>1, <1>2 DEF Headed

\* A frame joins a headed queue: an ACK needs an ERROR there.
LEMMA HeadedAppend ==
    ASSUME NEW q \in Seq(Frame), NEW f \in Frame, NEW d, NEW s, Headed(q, d, s),
           f \in Acks(d, s) => Range(q) \cap Errors(d, s) # {}
    PROVE  Headed(Append(q, f), d, s)
<1> DEFINE p == Append(q, f)
           e == Len(q) + 1
<1>1. /\ Len(q) \in Nat /\ DOMAIN q = 1 .. Len(q) /\ DOMAIN p = 1 .. e
      /\ \A k \in DOMAIN q : p[k] = q[k]
      /\ p[e] = f
  BY AppendFacts
<1> SUFFICES ASSUME NEW k \in DOMAIN p, p[k] \in Acks(d, s)
             PROVE  \E j \in DOMAIN p : j < k /\ p[j] \in Errors(d, s)
  BY DEF Headed
<1> HIDE DEF p
<1>2. CASE k \in DOMAIN q
  <2>1. q[k] \in Acks(d, s)
    BY <1>1, <1>2
  <2>2. PICK j \in DOMAIN q : j < k /\ q[j] \in Errors(d, s)
    BY <1>2, <2>1 DEF Headed
  <2>3. j \in DOMAIN p /\ p[j] = q[j]
    BY <1>1
  <2> QED
    BY <2>2, <2>3
<1>3. CASE k = e
  <2>1. f \in Acks(d, s)
    BY <1>1, <1>3
  <2>2. PICK j \in DOMAIN q : q[j] \in Errors(d, s)
    BY <2>1 DEF Range
  <2>3. j \in DOMAIN p /\ p[j] = q[j] /\ j < k
    BY <1>1, <1>3
  <2> QED
    BY <2>2, <2>3
<1> QED
  BY <1>1, <1>2, <1>3

\* A frame other than an ERROR leaves a headed queue.
LEMMA HeadedTail ==
    ASSUME NEW q \in Seq(Frame), q # <<>>, NEW d, NEW s, Headed(q, d, s),
           Head(q) \notin Errors(d, s)
    PROVE  Headed(Tail(q), d, s)
<1> DEFINE p == Tail(q)
<1>1. /\ Head(q) = q[1] /\ DOMAIN q = 1 .. Len(q) /\ Len(q) \in Nat
      /\ DOMAIN p = 1 .. Len(q) - 1
      /\ \A k \in DOMAIN p : k + 1 \in DOMAIN q /\ p[k] = q[k + 1]
  BY TailFacts
<1> SUFFICES ASSUME NEW k \in DOMAIN p, p[k] \in Acks(d, s)
             PROVE  \E j \in DOMAIN p : j < k /\ p[j] \in Errors(d, s)
  BY DEF Headed
<1> HIDE DEF p
<1>2. k + 1 \in DOMAIN q /\ q[k + 1] \in Acks(d, s)
  BY <1>1
<1>3. PICK j \in DOMAIN q : j < k + 1 /\ q[j] \in Errors(d, s)
  BY <1>2 DEF Headed
<1>4. j # 1
  BY <1>1, <1>3
<1>5. PICK i \in Nat : i + 1 = j /\ i \in DOMAIN p /\ i < k
  <2>1. j \in 1 .. Len(q) /\ j # 1 /\ k \in 1 .. Len(q) - 1
    BY <1>1, <1>4
  <2>2. j - 1 \in Nat /\ (j - 1) + 1 = j /\ j - 1 \in 1 .. Len(q) - 1 /\ j - 1 < k
    BY <1>1, <1>3, <2>1
  <2> QED
    BY <1>1, <2>2
<1>6. p[i] \in Errors(d, s)
  BY <1>1, <1>3, <1>5
<1> QED
  BY <1>5, <1>6

\* What leaves a queue is its first frame, and nothing else.
LEMMA TailKeeps ==
    ASSUME NEW q \in Seq(Frame), q # <<>>
    PROVE  Range(q) \subseteq Range(Tail(q)) \cup {Head(q)}
<1>1. /\ Head(q) = q[1] /\ DOMAIN q = 1 .. Len(q) /\ Len(q) \in Nat
      /\ DOMAIN Tail(q) = 1 .. Len(q) - 1
      /\ \A k \in DOMAIN Tail(q) : Tail(q)[k] = q[k + 1]
  BY TailFacts
<1> SUFFICES ASSUME NEW k \in DOMAIN q, k # 1
             PROVE  q[k] \in Range(Tail(q))
  BY <1>1 DEF Range
<1>2. k - 1 \in DOMAIN Tail(q) /\ (k - 1) + 1 = k
  BY <1>1
<1>3. Tail(q)[k - 1] = q[k]
  BY <1>1, <1>2
<1> QED
  BY <1>2, <1>3 DEF Range

\* A change of a queue that matters to no answer of d to s.
Harmless(q, p, d, s) ==
    /\ Headed(q, d, s) => Headed(p, d, s)
    /\ Range(q) \cap Errors(d, s) \subseteq Range(p)

\* To add a frame that is no answer of d to s, or to take one away.
LEMMA AppendHarmless ==
    ASSUME NEW q \in Seq(Frame), NEW f \in Frame, NEW d, NEW s, f \notin Acks(d, s)
    PROVE  Harmless(q, Append(q, f), d, s)
<1>1. Range(Append(q, f)) = Range(q) \cup {f}
  BY AppendFacts
<1> QED
  BY <1>1, HeadedAppend DEF Harmless

LEMMA TailHarmless ==
    ASSUME NEW q \in Seq(Frame), q # <<>>, NEW d, NEW s, Head(q) \notin Errors(d, s)
    PROVE  Harmless(q, Tail(q), d, s)
  BY HeadedTail, TailKeeps DEF Harmless

\* Three such changes keep the ERROR ahead.
LEMMA LedKept ==
    ASSUME NEW q, NEW a, NEW r, NEW q2, NEW a2, NEW r2, NEW s, NEW d,
           Led(q, a, r, s, d),
           Harmless(q, q2, d, s), Harmless(a, a2, d, s), Harmless(r, r2, d, s)
    PROVE  Led(q2, a2, r2, s, d)
  BY DEF Led, Harmless

\* An answer moves from the line to the queue of its reader,
LEMMA LedArrives ==
    ASSUME NEW q \in Seq(Frame), NEW a \in Seq(Frame), a # <<>>, NEW r, NEW s, NEW d,
           Led(q, a, r, s, d)
    PROVE  Led(Append(q, Head(a)), Tail(a), r, s, d)
<1> DEFINE f == Head(a)
<1>1. f \in Frame
  BY TailFacts
<1>2. Range(Append(q, f)) = Range(q) \cup {f} /\ Range(a) \subseteq Range(Tail(a)) \cup {f}
  BY <1>1, AppendFacts, TailKeeps
<1>3. f \in Acks(d, s) => Range(q) \cap Errors(d, s) # {}
  BY HeadedHead DEF Led
<1>4. Headed(Append(q, f), d, s)
  BY <1>1, <1>3, HeadedAppend DEF Led
<1>5. f \notin Errors(d, s) /\ Headed(a, d, s) => Headed(Tail(a), d, s)
  BY HeadedTail
<1> HIDE DEF f
<1> QED
  BY <1>2, <1>4, <1>5 DEF Led, f

\* or from the listener that owes it to the line.
LEMMA LedLeaves ==
    ASSUME NEW q, NEW a \in Seq(Frame), NEW r \in Seq(Frame), r # <<>>, NEW s, NEW d,
           Led(q, a, r, s, d)
    PROVE  Led(q, Append(a, Head(r)), Tail(r), s, d)
<1> DEFINE f == Head(r)
<1>1. f \in Frame
  BY TailFacts
<1>2. Range(Append(a, f)) = Range(a) \cup {f} /\ Range(r) \subseteq Range(Tail(r)) \cup {f}
  BY <1>1, AppendFacts, TailKeeps
<1>3. f \in Acks(d, s) => (Range(q) \cup Range(a)) \cap Errors(d, s) # {}
  BY HeadedHead DEF Led
<1>4. Headed(a, d, s) /\ Range(q) \cap Errors(d, s) = {} => Headed(Append(a, f), d, s)
  BY <1>1, <1>3, HeadedAppend
<1>5. f \notin Errors(d, s) /\ Headed(r, d, s) => Headed(Tail(r), d, s)
  BY HeadedTail
<1> HIDE DEF f
<1> QED
  BY <1>2, <1>4, <1>5 DEF Led, f

\* What stands still is harmless.
LEMMA SameHarmless == \A q, d, s : Harmless(q, q, d, s)
  BY DEF Harmless

\* A message on a line is no answer.
LEMMA MessageSentHarmless ==
    ASSUME TypeOK, Roomy, Fault = {}, NEW f \in Frame, IsData(f), Transmit(f),
           NEW d \in Node, NEW s \in Node
    PROVE  Harmless(air[d][s], air'[d][s], d, s)
<1>1. f \notin Acks(d, s)
  BY DataNoAck
<1>2. air[d][s] \in Seq(Frame)
  BY DEF TypeOK
<1>3. CASE f.from = d /\ f.to = s
  <2>1. air'[d][s] = Append(air[d][s], f)
    BY <1>3, TransmitAll
  <2> QED
    BY <1>1, <1>2, <2>1, AppendHarmless
<1>4. CASE ~ (f.from = d /\ f.to = s)
  BY <1>4, TransmitAll, SameHarmless
<1> QED
  BY <1>3, <1>4

\* Of a clean call that waits and whose message found no room:
Refused(n, d) ==
    /\ Waiting(n) /\ call[n].clean /\ call[n].dest = d
    /\ d \notin Rebooter /\ call[n].id \in Range(dropped[d][n])

\* What the user's tasks do keeps the ERROR ahead; no ACK is read.
LEMMA LedByUser ==
    ASSUME IInv, Roomy, Fault = {}, NEW n \in Node, NEW d \in Node,
           Refused(n, d), Waiting(n)', ErrorFirst(n, d), NEW m \in Node,
           \/ \E e \in Node : SendWithAck(m, e)
           \/ PollStep(m) \/ Tick(m) \/ ResponseTimeout(m) \/ TryReceive(m)
    PROVE  ErrorFirst(n, d)'
<1>0. /\ TypeOK /\ call \in [Node -> Call] /\ calls \in [Node -> Nat]
      /\ send_tokens \in [Node -> [Node -> Token]]
  BY DEF IInv, TypeOK
<1>1. replies' = replies
  BY DEF SendWithAck, PollStep, GotForeign, GotAck, GotError, GotResend, GotLateRequest,
         GotRequest, Poll, Tick, ResponseTimeout, TryReceive
<1>2. Harmless(air[d][n], air'[d][n], d, n)
  <2>1. CASE GotResend(m)
    <3>1. call[m].dest \in Node /\ call[m].id \in Nat
      BY <1>0 DEF Call
    <3>2. SwappedToken(m) \in Token
      BY <1>0, <2>1, SwapFacts DEF GotResend
    <3>3. Transmit(DataFrame(m, call[m].dest, call[m].id, SwappedToken(m)))
      BY <2>1 DEF GotResend
    <3>4. PICK f \in Frame : IsData(f) /\ Transmit(f)
      BY <3>1, <3>2, <3>3, DataFrameFacts
    <3> QED
      BY <1>0, <3>4, MessageSentHarmless
  <2>2. CASE \E e \in Node : SendWithAck(m, e)
    <3>1. PICK e \in Node : SendWithAck(m, e)
      BY <2>2
    <3>2. NextToken(send_tokens[m][e]) \in Token /\ calls[m] + 1 \in Nat
      BY <1>0, NextTokenType
    <3>3. Transmit(DataFrame(m, e, calls[m] + 1, NextToken(send_tokens[m][e])))
      BY <3>1 DEF SendWithAck
    <3>4. PICK f \in Frame : IsData(f) /\ Transmit(f)
      BY <3>2, <3>3, DataFrameFacts
    <3> QED
      BY <1>0, <3>4, MessageSentHarmless
  <2>3. CASE air' = air
    BY <2>3, SameHarmless
  <2> QED
    BY <2>1, <2>2, <2>3 DEF PollStep, GotForeign, GotAck, GotError, GotLateRequest,
            Tick, ResponseTimeout, TryReceive
<1>3. Harmless(response_queue[n], response_queue'[n], d, n)
  <2>1. CASE response_queue'[n] = response_queue[n]
    BY <2>1, SameHarmless
  <2>2. CASE m = n /\ PollStep(n)
    <3>1. Poll(n)
      BY <2>2 DEF PollStep, GotForeign, GotAck, GotError, GotRequest, GotResend, GotLateRequest
    <3>2. /\ response_queue[n] \in Seq(Frame) /\ response_queue[n] # <<>>
          /\ response_queue'[n] = Tail(response_queue[n])
          /\ Polled(n) = Head(response_queue[n])
      BY <1>0, <3>1, PollFacts DEF Polled
    <3>3. ~ GotAck(n) /\ ~ GotError(n)
      <4> SUFFICES ASSUME GotAck(n) \/ GotError(n) PROVE FALSE
        OBVIOUS
      <4>1. PICK p \in {"success", "failure"} :
               call' = [call EXCEPT ![n].phase = p, ![n].token = 0,
                                    ![n].allow_resend = FALSE, ![n].left = 0]
        BY DEF GotAck, GotError, Return
      <4>2. call'[n].phase = p
        BY <1>0, <4>1 DEF Call
      <4> QED
        BY <4>2 DEF Waiting
    <3>4. Polled(n).from # d \/ "ERROR" \notin Polled(n).flags
      BY <2>2, <3>3 DEF PollStep, GotForeign, GotResend, GotLateRequest, GotRequest, FromPeer,
                        Refused
    <3>5. Polled(n) \notin Errors(d, n)
      BY <3>4 DEF Errors
    <3> QED
      BY <3>2, <3>5, TailHarmless
  <2>3. response_queue'[n] = response_queue[n] \/ (m = n /\ PollStep(n))
    <3>1. CASE PollStep(m)
      <4>1. Poll(m)
        BY <3>1 DEF PollStep, GotForeign, GotAck, GotError, GotRequest, GotResend,
                    GotLateRequest
      <4> QED
        BY <1>0, <3>1, <4>1, PollFacts
    <3>2. CASE ~ PollStep(m)
      BY <3>2 DEF SendWithAck, Tick, ResponseTimeout, TryReceive, queueVars
    <3> QED
      BY <3>1, <3>2
  <2> QED
    BY <2>1, <2>2, <2>3
<1> QED
  BY <1>1, <1>2, <1>3, SameHarmless, LedIs, LedKept

\* What the listeners read and decide keeps the ERROR ahead: an answer for the call is queued
\* behind it, and the message of the call does not pass again.
LEMMA LedByListener ==
    ASSUME IInv, OwnAcks, Undamaged, Prompt, NEW n \in Node, NEW d \in Node,
           Refused(n, d), ErrorFirst(n, d), NEW m \in Node, NEW s \in Node,
           \/ ListenBadCrc(m, s) \/ ListenResponse(m, s) \/ ListenBadToken(m, s)
           \/ ListenNewMsg(m, s) \/ ListenQueueFull(m, s)
    PROVE  ErrorFirst(n, d)'
<1>0. /\ TypeOK /\ response_queue \in [Node -> Seq(Frame)]
      /\ replies \in [Node -> Seq(Frame)]
  BY DEF IInv, TypeOK
<1>1. Arriving(m, s) /\ TakeFrame(m, s)
  BY DEF ListenBadCrc, ListenResponse, ListenBadToken, ListenNewMsg, ListenQueueFull,
         AcceptToken, NewMessage
<1>2. /\ air'[s][m] = Tail(air[s][m]) /\ Arrived(m, s) = Head(air[s][m])
      /\ air[s][m] \in Seq(Frame) /\ air[s][m] # <<>>
      /\ \A x, y \in Node : x # s \/ y # m => air'[x][y] = air[x][y]
  BY <1>0, <1>1, ArrivingFacts DEF Arrived
<1>3. /\ Arrived(m, s) \in Frame /\ Arrived(m, s).from = s /\ Arrived(m, s).to = m
      /\ Arrived(m, s) \in Range(air[s][m])
  BY <1>1, ListenCount
<1>4. ~ ListenBadCrc(m, s)
  BY <1>3 DEF ListenBadCrc, Undamaged
<1>5. Led(response_queue[n], air[d][n], replies[d], n, d)
  BY LedIs
<1>6. CASE ListenResponse(m, s) /\ m = n /\ s = d
  <2>1. response_queue' = [response_queue EXCEPT ![n] = Append(@, Arrived(m, s))]
        /\ replies' = replies
    BY <1>6 DEF ListenResponse, Refused
  <2>2. response_queue'[n] = Append(response_queue[n], Head(air[d][n]))
        /\ response_queue[n] \in Seq(Frame)
    BY <1>0, <1>2, <1>6, <2>1
  <2>3. Led(Append(response_queue[n], Head(air[d][n])), Tail(air[d][n]), replies[d], n, d)
    BY <1>2, <1>5, <1>6, <2>2, LedArrives
  <2> QED
    BY <1>2, <1>6, <2>1, <2>2, <2>3, LedIs
<1>7. CASE ListenResponse(m, s) /\ ~ (m = n /\ s = d)
  <2>1. Harmless(air[d][n], air'[d][n], d, n)
    BY <1>2, <1>7, SameHarmless
  <2>2. Harmless(response_queue[n], response_queue'[n], d, n)
    <3>1. \/ response_queue' = response_queue
          \/ response_queue' = [response_queue EXCEPT ![m] = Append(@, Arrived(m, s))]
      BY <1>7 DEF ListenResponse
    <3>2. CASE response_queue'[n] = response_queue[n]
      BY <3>2, SameHarmless
    <3>3. CASE m = n /\ response_queue'[n] = Append(response_queue[n], Arrived(m, s))
      <4>1. Arrived(m, s) \notin Acks(d, n)
        BY <1>3, <1>7, <3>3 DEF Acks
      <4> QED
        BY <1>0, <1>3, <3>3, <4>1, AppendHarmless
    <3> QED
      BY <1>0, <3>1, <3>2, <3>3
  <2>3. replies' = replies
    BY <1>7 DEF ListenResponse
  <2> QED
    BY <1>5, <2>1, <2>2, <2>3, SameHarmless, LedIs, LedKept
<1>8. CASE ListenBadToken(m, s) \/ ListenNewMsg(m, s) \/ ListenQueueFull(m, s)
  <2>1. IsData(Arrived(m, s)) /\ response_queue' = response_queue
    BY <1>8 DEF ListenBadToken, ListenNewMsg, ListenQueueFull, AcceptToken, NewMessage, queueVars
  <2>2. Arrived(m, s) \notin Errors(d, n)
    BY <2>1 DEF Errors, IsData, IsResponse
  <2>3. Harmless(air[d][n], air'[d][n], d, n)
    <3>1. CASE s = d /\ m = n
      BY <1>2, <2>2, <3>1, TailHarmless
    <3>2. CASE ~ (s = d /\ m = n)
      BY <1>2, <3>2, SameHarmless
    <3> QED
      BY <3>1, <3>2
  <2>4. ~ (m = d /\ s = n /\ (ListenNewMsg(m, s) \/ ListenQueueFull(m, s)))
    <3> SUFFICES ASSUME m = d, s = n, AcceptToken(d, n) PROVE FALSE
      BY DEF ListenNewMsg, ListenQueueFull
    <3>1. Arrived(d, n).id \notin Passed(d, n)
      BY PassesOnce DEF Refused
    <3>2. Arrived(d, n).id = call[n].id
      BY <1>3, <2>1 DEF OwnAcks, OwnAck, Refused
    <3> QED
      BY <3>1, <3>2 DEF Refused, Passed
  <2>5. Harmless(replies[d], replies'[d], d, n)
    <3>1. PICK a : /\ replies' = [replies EXCEPT ![m] = a] /\ replies[m] = <<>>
                   /\ m = d => \A f \in Range(a) : f \notin Acks(d, n)
      <4>1. \A x, y : Range(<<x>>) = {x} /\ Range(<<x, y>>) = {x, y}
        BY DEF Range
      <4>2. replies[m] = <<>>
        BY <1>1 DEF Arriving
      <4>3. CASE ListenBadToken(m, s)
        <5> DEFINE f == Response(m, s, {"SYNC", "RESEND"}, NextToken(recv_tokens[m][s]))
                   a == <<f>>
        <5>1. replies' = [replies EXCEPT ![m] = a]
          BY <4>3 DEF ListenBadToken, Reply
        <5>2. f \notin Acks(d, n)
          BY DEF Acks, Response
        <5>3. Range(a) = {f}
          BY <4>1
        <5> HIDE DEF f, a
        <5> QED
          BY <4>2, <5>1, <5>2, <5>3
      <4>4. CASE ListenNewMsg(m, s) \/ ListenQueueFull(m, s)
        <5> DEFINE f == Response(m, s, {"ACK"}, 0)
                   e == Response(m, s, {"ERROR"}, 0)
                   a == <<f>>
                   b == <<e, f>>
        <5>1. replies' = [replies EXCEPT ![m] = a] \/ replies' = [replies EXCEPT ![m] = b]
          BY <4>4 DEF ListenNewMsg, ListenQueueFull, Reply
        <5>2. m = d => f \notin Acks(d, n) /\ e \notin Acks(d, n)
          BY <2>4, <4>4 DEF Acks, Response
        <5>3. Range(a) = {f} /\ Range(b) = {e, f}
          BY <4>1
        <5> HIDE DEF f, e, a, b
        <5> QED
          BY <4>2, <5>1, <5>2, <5>3
      <4> QED
        BY <1>8, <4>3, <4>4
    <3>2. CASE m = d
      <4>1. replies'[d] = a /\ Range(replies[d]) = {}
        BY <1>0, <3>1, <3>2 DEF Range
      <4>2. Headed(a, d, n)
        BY <3>1, <3>2, NoAckHeaded
      <4> QED
        BY <4>1, <4>2 DEF Harmless
    <3>3. CASE m # d
      <4>1. replies'[d] = replies[d]
        BY <1>0, <3>1, <3>3
      <4> QED
        BY <4>1, SameHarmless
    <3> QED
      BY <3>2, <3>3
  <2> QED
    BY <1>5, <2>1, <2>3, <2>5, SameHarmless, LedIs, LedKept
<1> QED
  BY <1>4, <1>6, <1>7, <1>8

\* So does what they transmit.
LEMMA LedByReply ==
    ASSUME IInv, Roomy, Fault = {}, NEW n \in Node, NEW d \in Node, ErrorFirst(n, d),
           NEW m \in Node, TransmitReply(m)
    PROVE  ErrorFirst(n, d)'
<1>0. TypeOK /\ replies \in [Node -> Seq(Frame)]
  BY DEF IInv, TypeOK
<1>1. /\ replies[m] # <<>> /\ Transmit(Head(replies[m]))
      /\ replies' = [replies EXCEPT ![m] = Tail(replies[m])]
      /\ response_queue' = response_queue
  BY DEF TransmitReply, queueVars
<1>2. Head(replies[m]) \in Frame /\ Head(replies[m]) \in Range(replies[m])
  BY <1>0, <1>1, TailFacts
<1>3. PICK f \in Frame : f = Head(replies[m])
  BY <1>2
<1>4. f.from = m /\ Transmit(f)
  BY <1>1, <1>2, <1>3, FramesOfReplies
<1>5. Led(response_queue[n], air[d][n], replies[d], n, d)
  BY LedIs
<1>6. air[d][n] \in Seq(Frame) /\ replies[d] \in Seq(Frame)
  BY <1>0 DEF TypeOK
<1>7. CASE m = d /\ f.to = n
  <2>1. air'[d][n] = Append(air[d][n], f)
    BY <1>0, <1>4, <1>7, TransmitAll
  <2>2. replies'[d] = Tail(replies[d]) /\ replies[d] # <<>> /\ f = Head(replies[d])
    BY <1>0, <1>1, <1>3, <1>7
  <2>3. Led(response_queue[n], Append(air[d][n], f), Tail(replies[d]), n, d)
    BY <1>5, <1>6, <2>2, LedLeaves
  <2> QED
    BY <1>1, <2>1, <2>2, <2>3, LedIs
<1>8. CASE ~ (m = d /\ f.to = n)
  <2>1. Harmless(air[d][n], air'[d][n], d, n)
    <3>1. air'[d][n] = air[d][n]
      BY <1>0, <1>4, <1>8, TransmitAll
    <3> QED
      BY <3>1, SameHarmless
  <2>2. Harmless(replies[d], replies'[d], d, n)
    <3>1. CASE m = d
      <4>1. replies'[d] = Tail(replies[d]) /\ replies[d] # <<>> /\ f = Head(replies[d])
        BY <1>0, <1>1, <1>3, <3>1
      <4>2. f \notin Errors(d, n)
        BY <1>8, <3>1 DEF Errors
      <4> QED
        BY <1>6, <4>1, <4>2, TailHarmless
    <3>2. CASE m # d
      <4>1. replies'[d] = replies[d]
        BY <1>0, <1>1, <3>2
      <4> QED
        BY <4>1, SameHarmless
    <3> QED
      BY <3>1, <3>2
  <2> QED
    BY <1>1, <1>5, <2>1, <2>2, SameHarmless, LedIs, LedKept
<1> QED
  BY <1>7, <1>8

\* A restart of another device than the two leaves their queues alone.
LEMMA LedByReboot ==
    ASSUME IInv, NEW n \in Node, NEW d \in Node, Refused(n, d), Waiting(n)', ErrorFirst(n, d),
           NEW m \in Node, Reboot(m)
    PROVE  ErrorFirst(n, d)'
<1>0. /\ call \in [Node -> Call] /\ replies \in [Node -> Seq(Frame)]
      /\ response_queue \in [Node -> Seq(Frame)]
  BY DEF IInv, TypeOK
<1>1. m # n
  <2> SUFFICES ASSUME m = n PROVE FALSE
    OBVIOUS
  <2>1. call'[n].phase = "idle"
    BY <1>0 DEF Reboot, NoCall
  <2> QED
    BY <2>1 DEF Waiting
<1>2. m # d
  BY DEF Reboot, Refused
<1>3. /\ response_queue'[n] = response_queue[n] /\ replies'[d] = replies[d]
      /\ air' = air
  BY <1>0, <1>1, <1>2 DEF Reboot
<1> QED
  BY <1>3, LedIs

\* Together: while the call of a message without room waits, the ERROR stays ahead.
LEMMA LedStep ==
    ASSUME IInv, OwnAcks, Undamaged, Roomy, Fault = {}, Prompt, Next,
           NEW n \in Node, NEW d \in Node, Refused(n, d), Waiting(n)', ErrorFirst(n, d)
    PROVE  ErrorFirst(n, d)'
<1>1. PICK m \in Node :
         \/ \E e \in Node : SendWithAck(m, e)
         \/ PollStep(m) \/ Tick(m) \/ ResponseTimeout(m) \/ TryReceive(m)
         \/ ListenStep(m) \/ Reboot(m)
  BY DEF Next
<1>2. CASE \/ \E e \in Node : SendWithAck(m, e)
           \/ PollStep(m) \/ Tick(m) \/ ResponseTimeout(m) \/ TryReceive(m)
  BY <1>2, LedByUser
<1>3. CASE ListenStep(m)
  BY <1>3, LedByListener, LedByReply DEF ListenStep
<1>4. CASE Reboot(m)
  BY <1>4, LedByReboot
<1> QED
  BY <1>1, <1>2, <1>3, <1>4

\* What has been queued for a user stays in the record of what was queued.
LEMMA AcceptedStays ==
    ASSUME TypeOK, Next, NEW d \in Node, NEW n \in Node
    PROVE  Range(accepted[d][n]) \subseteq Range(accepted'[d][n])
<1>0. accepted \in [Node -> [Node -> Seq(Nat)]]
  BY DEF TypeOK
<1>1. ASSUME NEW m \in Node, NEW s \in Node, ListenNewMsg(m, s)
      PROVE  Range(accepted[d][n]) \subseteq Range(accepted'[d][n])
  <2>1. Arriving(m, s) /\ TakeFrame(m, s)
    BY <1>1 DEF ListenNewMsg, AcceptToken, NewMessage
  <2>2. PICK i \in Nat : i = Arrived(m, s).id
    <3>1. Arrived(m, s) \in Frame
      BY <2>1, ArrivingFacts
    <3> QED
      BY <3>1 DEF Frame
  <2>3. accepted' = [accepted EXCEPT ![m][s] = Append(accepted[m][s], i)]
    BY <1>1, <2>2 DEF ListenNewMsg
  <2>4. accepted[m][s] \in Seq(Nat)
    BY <1>0
  <2>5. Range(accepted[m][s]) \subseteq Range(Append(accepted[m][s], i))
    BY <2>4, AppendFacts
  <2>6. CASE m = d /\ s = n
    BY <1>0, <2>3, <2>5, <2>6
  <2>7. CASE ~ (m = d /\ s = n)
    <3>1. accepted'[d][n] = accepted[d][n]
      BY <1>0, <2>3, <2>7
    <3> QED
      BY <3>1
  <2> QED
    BY <2>6, <2>7
<1>2. UNCHANGED accepted \/ \E m, s \in Node : ListenNewMsg(m, s)
  <2>1. ASSUME NEW m \in Node,
               \/ PollStep(m) \/ Tick(m) \/ ResponseTimeout(m) \/ TryReceive(m)
               \/ TransmitReply(m) \/ Reboot(m)
        PROVE  UNCHANGED accepted
    BY <2>1, CallKept
  <2>2. ASSUME NEW m \in Node, NEW s \in Node,
               \/ ListenBadCrc(m, s) \/ ListenResponse(m, s) \/ ListenBadToken(m, s)
               \/ ListenNewMsg(m, s) \/ ListenQueueFull(m, s)
        PROVE  UNCHANGED accepted \/ ListenNewMsg(m, s)
    BY <2>2, ListenKept
  <2>3. ASSUME NEW m \in Node, NEW e \in Node, SendWithAck(m, e) PROVE UNCHANGED accepted
    BY <2>3 DEF SendWithAck
  <2> QED
    BY <2>1, <2>2, <2>3 DEF Next, ListenStep
<1> QED
  BY <1>1, <1>2

\* The number of a new call is not that of a message that found no room before.
LEMMA NewIsNotDropped ==
    ASSUME IInv, NEW n \in Node, NEW d \in Node \ Rebooter, SendWithAck(n, d)
    PROVE  call'[n].id \notin Range(dropped'[d][n])
<1>0. TypeOK /\ call \in [Node -> Call] /\ d \in Node
  BY DEF IInv, TypeOK
<1>1. /\ call'[n].id = calls[n] + 1 /\ dropped' = dropped /\ n # d
  BY <1>0 DEF SendWithAck
<1>2. /\ PairInv(air[n][d], recv_tokens[d][n], dropped[d][n], calls[n], Asked(d, n),
                 Pending(n, d))
      /\ dropped[d][n] \in Seq(Nat) /\ calls[n] \in Nat
  BY <1>1, PairFacts
<1>3. \A i \in DOMAIN dropped[d][n] : dropped[d][n][i] =< calls[n] /\ dropped[d][n][i] \in Nat
  BY <1>2 DEF PairInv, Known
<1>4. \A i \in DOMAIN dropped[d][n] : dropped[d][n][i] # calls[n] + 1
  BY <1>2, <1>3
<1> QED
  BY <1>1, <1>4 DEF Range

\* When the message of a call that waits finds no room, there is no ACK for it yet, and the
\* ERROR is the first of its answers.
LEMMA RefusedNow ==
    ASSUME IInv, OwnAcks, NEW n \in Node, NEW d \in Node \ Rebooter,
           Waiting(n), call[n].clean, call[n].dest = d,
           ListenQueueFull(d, n)
    PROVE  ErrorFirst(n, d)'
<1>0. /\ TypeOK /\ d \in Node /\ replies \in [Node -> Seq(Frame)]
  BY DEF IInv, TypeOK
<1>1. /\ Arriving(d, n) /\ TakeFrame(d, n) /\ IsData(Arrived(d, n)) /\ AcceptToken(d, n)
      /\ response_queue' = response_queue /\ n # d
  BY DEF ListenQueueFull, AcceptToken, NewMessage, Arriving
<1>2. Arrived(d, n).id \notin Passed(d, n)
  BY <1>1, PassesOnce
<1>3. /\ Arrived(d, n) \in Range(air[n][d])
      /\ Range(air'[d][n]) \subseteq Range(air[d][n])
  BY <1>1, ListenCount
<1>4. Arrived(d, n).id = call[n].id
  BY <1>1, <1>3 DEF OwnAcks, OwnAck
<1>5. ~ AckUnderWay(d, n)
  BY <1>2, <1>4 DEF OwnAcks, OwnAck
<1>6. /\ Headed(response_queue'[n], d, n)
      /\ Headed(air'[d][n], d, n)
  <2>1. /\ \A f \in Range(response_queue[n]) : f \notin Acks(d, n)
        /\ \A f \in Range(air[d][n]) : f \notin Acks(d, n)
    BY <1>5 DEF AckUnderWay
  <2> QED
    BY <1>1, <1>3, <2>1, NoAckHeaded
<1>7. Headed(replies'[d], d, n)
  <2>1. PICK e \in Frame, f \in Frame :
           e = Response(d, n, {"ERROR"}, 0) /\ f = Response(d, n, {"ACK"}, 0)
    BY FrameTypes, ZeroToken DEF Flag
  <2>2. replies'[d] = <<e, f>>
    BY <1>0, <2>1 DEF ListenQueueFull, Reply
  <2>3. e \in Errors(d, n) /\ e \notin Acks(d, n)
    BY <2>1 DEF Errors, Acks, Response
  <2>4. DOMAIN <<e, f>> = 1 .. 2 /\ <<e, f>>[1] = e
    OBVIOUS
  <2>5. Headed(<<e, f>>, d, n)
    <3> SUFFICES ASSUME NEW k \in 1 .. 2, <<e, f>>[k] \in Acks(d, n)
                 PROVE  1 < k
      BY <2>3, <2>4 DEF Headed
    <3>1. k # 1
      BY <2>3, <2>4
    <3> QED
      BY <3>1
  <2> QED
    BY <2>2, <2>5
<1>8. Led(response_queue'[n], air'[d][n], replies'[d], n, d)
  BY <1>6, <1>7 DEF Led
<1> QED
  BY <1>8, LedIs

\* Every step keeps the ERROR ahead.
LEMMA ErrorsFirstStep ==
    ASSUME IInv, OwnAcks, Undamaged, Roomy, Fault = {}, Prompt, ErrorsFirst, Next
    PROVE  ErrorsFirst'
<1>0. TypeOK /\ call \in [Node -> Call]
      /\ dropped \in [Node -> [Node -> Seq(Nat)]]
  BY DEF IInv, TypeOK
<1>a. SUFFICES ASSUME NEW n \in Node, Waiting(n)', call'[n].clean,
                      NEW d, d = call'[n].dest, d \notin Rebooter,
                      call'[n].id \in Range(dropped'[d][n])
               PROVE  ErrorFirst(n, d)'
  BY DEF ErrorsFirst
<1>1. ~ \E e \in Node : SendWithAck(n, e)
  <2> SUFFICES ASSUME NEW e \in Node, SendWithAck(n, e) PROVE FALSE
    OBVIOUS
  <2>1. d = e
    BY <1>0, <1>a DEF SendWithAck
  <2> QED
    BY <1>a, <2>1, NewIsNotDropped
<1>2. /\ Waiting(n) /\ call[n].clean /\ call[n].dest = d /\ call[n].id = call'[n].id
  BY <1>0, <1>1, <1>a, CallSteps DEF Waiting
<1>3. d \in Node
  BY <1>0, <1>2 DEF Call
<1>4. CASE call[n].id \in Range(dropped[d][n])
  <2>1. Refused(n, d)
    BY <1>2, <1>4, <1>a DEF Refused
  <2>2. ErrorFirst(n, d)
    BY <1>2, <1>4, <1>a DEF ErrorsFirst
  <2> QED
    BY <1>3, <1>a, <2>1, <2>2, LedStep
<1>5. CASE call[n].id \notin Range(dropped[d][n])
  <2>1. dropped'[d][n] # dropped[d][n]
    BY <1>2, <1>5, <1>a
  <2>2. ListenQueueFull(d, n)
    <3>1. ASSUME NEW m \in Node,
                 \/ PollStep(m) \/ Tick(m) \/ ResponseTimeout(m) \/ TryReceive(m)
                 \/ TransmitReply(m) \/ Reboot(m)
          PROVE  FALSE
      BY <1>0, <2>1, <3>1, CallKept
    <3>2. ASSUME NEW m \in Node, NEW s \in Node,
                 \/ ListenBadCrc(m, s) \/ ListenResponse(m, s) \/ ListenBadToken(m, s)
                 \/ ListenNewMsg(m, s) \/ ListenQueueFull(m, s)
          PROVE  ListenQueueFull(d, n)
      <4>1. m = d /\ s = n
        <5>1. ASSUME m # d \/ s # n
              PROVE  dropped'[d][n] = dropped[d][n]
          <6>1. TypeOK /\ d \in Node
            BY <1>0, <1>3
          <6>2. \A x, y \in Node : x # m \/ y # s =>
                   accepted'[x][y] = accepted[x][y] /\ dropped'[x][y] = dropped[x][y]
            BY <3>2, <6>1, ListenKept, ZenonT(30)
          <6> QED
            BY <5>1, <6>1, <6>2
        <5> QED
          BY <1>3, <2>1, <5>1
      <4>2. ~ UNCHANGED dropped
        BY <2>1
      <4> QED
        BY <1>0, <3>2, <4>1, <4>2, ListenKept
    <3>3. ASSUME NEW m \in Node, NEW e \in Node, SendWithAck(m, e) PROVE FALSE
      BY <2>1, <3>3 DEF SendWithAck
    <3> QED
      BY <3>1, <3>2, <3>3 DEF Next, ListenStep
  <2> QED
    BY <1>2, <1>3, <1>a, <2>2, RefusedNow
<1> QED
  BY <1>4, <1>5

\* A call that reads an ACK has not been refused.
LEMMA TimelyDeliveryStep ==
    ASSUME IInv, AckGenuine', ErrorsFirst, TimelyDelivery, Next
    PROVE  TimelyDelivery'
<1>0. TypeOK /\ call \in [Node -> Call]
  BY DEF IInv, TypeOK
<1>a. SUFFICES ASSUME NEW n \in Node, call'[n].phase = "success", call'[n].clean,
                      NEW d, d = call'[n].dest, d \notin Rebooter
               PROVE  call'[n].id \in Range(accepted'[d][n])
  BY DEF TimelyDelivery
<1>1. ~ \E e \in Node : SendWithAck(n, e)
  <2>1. ASSUME NEW e \in Node, SendWithAck(n, e) PROVE call'[n].phase = "waiting"
    BY <1>0, <2>1 DEF SendWithAck
  <2> QED
    BY <1>a, <2>1
<1>2. CASE call'[n] = call[n]
  <2>1. d \in Node /\ d = call[n].dest
    BY <1>0, <1>2, <1>a DEF Call
  <2>2. call[n].id \in Range(accepted[d][n])
    BY <1>2, <1>a, <2>1 DEF TimelyDelivery
  <2> QED
    BY <1>0, <1>2, <2>1, <2>2, AcceptedStays
<1>3. CASE /\ GotAck(n)
           /\ call'[n].id = call[n].id /\ call'[n].dest = call[n].dest
           /\ call'[n].clean = call[n].clean
  <2>1. /\ Waiting(n) /\ Poll(n) /\ Polled(n).from = d /\ "ACK" \in Polled(n).flags
        /\ UNCHANGED <<accepted, dropped>>
    BY <1>3, <1>a DEF GotAck, Poll, FromPeer
  <2>2. /\ Polled(n) \in Frame /\ Polled(n) \in Range(response_queue[n])
        /\ response_queue[n] \in Seq(Frame) /\ response_queue[n] # <<>>
        /\ Polled(n) = Head(response_queue[n])
    BY <1>0, <2>1, PollFacts, TailFacts DEF Polled
  <2>3. Polled(n).to = n
    BY <2>2, FramesOfQueue
  <2>4. Polled(n) \in Acks(d, n)
    BY <2>1, <2>2, <2>3 DEF Acks
  <2>5. ~ Headed(response_queue[n], d, n)
    BY <2>2, <2>4, HeadedHead
  <2>6. call[n].id \notin Range(dropped[d][n])
    BY <1>3, <1>a, <2>1, <2>5 DEF ErrorsFirst, ErrorFirst
  <2>7. call'[n].id \in Range(accepted'[d][n]) \cup Range(dropped'[d][n])
    BY <1>a DEF AckGenuine
  <2> QED
    BY <1>3, <2>1, <2>6, <2>7
<1> QED
  BY <1>0, <1>1, <1>2, <1>3, <1>a, CallSteps

\* Nothing has been called yet.
LEMMA DeliveryInit == Init => DeliveryInv
<1> SUFFICES ASSUME Init PROVE DeliveryInv
  OBVIOUS
<1>1. AckInv /\ Undamaged
  BY AckInit, TimelyInit DEF TimelyInv
<1>2. \A n \in Node : call[n].phase = "idle"
  BY DEF Init, NoCall
<1> QED
  BY <1>1, <1>2 DEF DeliveryInv, ErrorsFirst, TimelyDelivery, Waiting

\* Every step keeps the invariant while no line is full.
LEMMA DeliveryStep ==
    ASSUME Prompt, Fault = {}, DeliveryInv, Roomy, [Next]_vars
    PROVE  DeliveryInv'
<1>1. AckInv /\ IInv /\ TypeOK /\ OwnAcks /\ Undamaged /\ ErrorsFirst /\ TimelyDelivery
  BY DEF DeliveryInv, AckInv, IInv
<1>2. AckInv' /\ AckGenuine'
  BY <1>1, AckStep DEF AckInv
<1>3. CASE Next
  <2>1. Undamaged'
    BY <1>1, <1>3, UndamagedStep
  <2>2. ErrorsFirst'
    BY <1>1, <1>3, ErrorsFirstStep
  <2>3. TimelyDelivery'
    BY <1>1, <1>2, <1>3, TimelyDeliveryStep
  <2> QED
    BY <1>2, <2>1, <2>2, <2>3 DEF DeliveryInv
<1>4. CASE UNCHANGED vars
  <2>1. UNCHANGED <<call, response_queue, replies, air, accepted, dropped>>
    BY <1>4 DEF vars, queueVars, history
  <2>2. Undamaged' /\ TimelyDelivery'
    BY <1>1, <2>1 DEF Undamaged, TimelyDelivery
  <2>3. ErrorsFirst'
    <3>1. ASSUME NEW n \in Node, NEW d PROVE ErrorFirst(n, d)' <=> ErrorFirst(n, d)
      BY <2>1, LedIs
    <3> QED
      BY <1>1, <2>1, <3>1 DEF ErrorsFirst, Waiting
  <2> QED
    BY <1>2, <2>2, <2>3 DEF DeliveryInv
<1> QED
  BY <1>3, <1>4

\* The invariant of the refused calls holds in every reachable state of such a network.
THEOREM DeliveryInvariance ==
    ASSUME Prompt, Fault = {}, AirCap > 6 * MaxCalls
    PROVE  Spec => []DeliveryInv
<1>1. Init => DeliveryInv
  BY DeliveryInit
<1>2. DeliveryInv /\ Roomy /\ [Next]_vars => DeliveryInv'
  BY DeliveryStep
<1>3. Spec => []Roomy
  BY LinesAreRoomy
<1> QED
  BY <1>1, <1>2, <1>3, PTL DEF Spec

\* On a medium that answers in time and loses and damages nothing, a call that began clean
\* returns true only if its message was queued for the user of its destination, although
\* the destination acknowledges a message that it threw away.
THEOREM TimelyDeliveries ==
    ASSUME Prompt, Fault = {}, AirCap > 6 * MaxCalls
    PROVE  Spec => []TimelyDelivery
<1>1. DeliveryInv => TimelyDelivery
  BY DEF DeliveryInv
<1> QED
  BY <1>1, DeliveryInvariance, PTL
=============================================================================
