-------------------------- MODULE LoraTransportInv --------------------------
(***************************************************************************)
(* The inductive invariants of LoraTransport, one part each: behind        *)
(* InOrder; behind AcksConserved and AckGenuine; behind TokensAgree;       *)
(* behind TimelySuccess; behind TimelyDelivery.  The last part bounds what *)
(* two devices may have under way.                                         *)
(*                                                                         *)
(* InOrder is about one ordered pair: a sender s and a destination d that  *)
(* keeps its memory.  The invariant is stated over what matters to a pair: *)
(* the line q from s to d, the receive token r, the accepted messages L,   *)
(* the number n of calls of s, the tokens S that d has asked s to use, and *)
(* the set P with the token of the call of s to d that may still resend    *)
(* (empty when there is none).                                             *)
(***************************************************************************)
EXTENDS LoraTransport, FiniteSets

Data(q) == {k \in DOMAIN q : IsData(q[k])}

\* Every message belongs to a call that has been made.
Known(q, L, n) ==
    /\ \A k \in Data(q) : q[k].id =< n
    /\ \A i \in DOMAIN L : L[i] =< n

\* Messages travel in the order of their calls.
Ordered(q) == \A k, l \in Data(q) : k < l => q[k].id =< q[l].id

Increasing(L) == \A i, j \in DOMAIN L : i < j => L[i] < L[j]

\* A frame whose token could still pass is newer than everything accepted.
Fresh(q, r, L) ==
    \A k \in Data(q), i \in DOMAIN L : q[k].token > r => L[i] < q[k].id

\* Of two frames of one call, the second cannot pass once the first has.
Resent(q, r) ==
    \A k, l \in Data(q) :
        k < l /\ q[k].id = q[l].id => q[l].token =< q[k].token \/ q[l].token =< r + 1

\* The destination never asks for more than the successor of its token.
Asks(S, r) == \A t \in S : t =< r + 1

\* Before it is resent, a message is on the line at most once, with its call's token.
Single(q, n, P) ==
    \A t \in P : \A k \in Data(q) :
        q[k].id = n => /\ q[k].token = t
                       /\ \A l \in Data(q) : q[l].id = n => k = l

\* A message that has been accepted and may still be resent would be resent in vain.
Spent(q, r, L, n, S, P) ==
    \A t \in P :
        (\E i \in DOMAIN L : L[i] = n) =>
            /\ Data(q) = {}
            /\ t =< r
            /\ \A u \in S : u =< r

PairInv(q, r, L, n, S, P) ==
    /\ Known(q, L, n)
    /\ Ordered(q)
    /\ Increasing(L)
    /\ Fresh(q, r, L)
    /\ Resent(q, r)
    /\ Asks(S, r)
    /\ Single(q, n, P)
    /\ Spent(q, r, L, n, S, P)

\* The tokens of the SYNC answers of d to s, wherever they are.
Asked(d, s) ==
    {f.token : f \in {g \in Range(air[d][s]) \cup Range(replies[d]) \cup Range(response_queue[s]) :
                        g.from = d /\ g.to = s /\ "SYNC" \in g.flags}}

\* The token of the call of s to d, while that call may resend.
Pending(s, d) ==
    IF Waiting(s) /\ call[s].dest = d /\ call[s].allow_resend THEN {call[s].token} ELSE {}

\* The same of the messages that were queued and of those that found no room.
PairOK(s, d) ==
    \A L \in {accepted[d][s], dropped[d][s]} :
        PairInv(air[s][d], recv_tokens[d][s], L, calls[s], Asked(d, s), Pending(s, d))

PairsOK == \A d \in Node \ Rebooter, s \in Node : s # d => PairOK(s, d)

\* Where frames may be, and that a frame asks for a token only to have it resent.
AnswerOK(f) == IsResponse(f) /\ ("SYNC" \in f.flags => "RESEND" \in f.flags)

LineOK(f, s, d) == f.from = s /\ f.to = d /\ (IsData(f) \/ AnswerOK(f))

ReplyOK(f, n) == f.from = n /\ f.to # n /\ AnswerOK(f)

QueuedOK(f, n) == f.to = n /\ f.from # n /\ AnswerOK(f)

FramesOK ==
    /\ \A s, d \in Node : \A f \in Range(air[s][d]) : LineOK(f, s, d)
    /\ \A n \in Node : \A f \in Range(replies[n]) : ReplyOK(f, n)
    /\ \A n \in Node : \A f \in Range(response_queue[n]) : QueuedOK(f, n)

CallsOK ==
    \A n \in Node :
        /\ Waiting(n) => call[n].id = calls[n] /\ call[n].dest # n
        /\ accepted[n][n] = <<>> /\ dropped[n][n] = <<>>

\* The inductive invariant: it holds in every reachable state and every step keeps it.
IInv == TypeOK /\ FramesOK /\ CallsOK /\ PairsOK
-----------------------------------------------------------------------------
(***************************************************************************)
(* The inductive invariant behind AcksConserved and AckGenuine.  It counts *)
(* the ACKs from d to s that are not yet read: every one of them, and      *)
(* every call that has returned true, is paid for by a message of s that   *)
(* has passed the token check of d.                                        *)
(***************************************************************************)
Acks(d, s) == {f \in Frame : f.from = d /\ f.to = s /\ "ACK" \in f.flags}

Count(q, A) == Cardinality({k \in DOMAIN q : q[k] \in A})

Owed(s, d) ==
    Count(air[d][s], Acks(d, s)) + Count(replies[d], Acks(d, s))
        + Count(response_queue[s], Acks(d, s))

AcksOwed ==
    \A s, d \in Node :
        confirmed[s][d] + Owed(s, d) =< Len(accepted[d][s]) + Len(dropped[d][s])

\* The messages of s that have passed the token check of d.
Passed(d, s) == Range(accepted[d][s]) \cup Range(dropped[d][s])

\* Where an ACK of d for s may be.
AckUnderWay(d, s) ==
    \E f \in Range(air[d][s]) \cup Range(replies[d]) \cup Range(response_queue[s]) :
        f \in Acks(d, s)

\* While a call that began clean waits, only its own message is on the line, and there is
\* no ACK from its destination unless that message has passed.
OwnAck(n) ==
    LET d == call[n].dest IN
    /\ \A f \in Range(air[n][d]) : IsData(f) => f.id = call[n].id
    /\ AckUnderWay(d, n) => call[n].id \in Passed(d, n)

OwnAcks == \A n \in Node : Waiting(n) /\ call[n].clean => OwnAck(n)

\* A message on its way belongs to a call that has been made.
Numbered ==
    /\ \A s, d \in Node : \A f \in Range(air[s][d]) : IsData(f) => f.id \in 1 .. calls[s]
    /\ \A n \in Node : Waiting(n) => calls[n] > 0

AckInv == IInv /\ Numbered /\ AcksOwed /\ OwnAcks /\ AckGenuine
-----------------------------------------------------------------------------
(***************************************************************************)
(* The inductive invariant behind TokensAgree.  Until the message of a     *)
(* clean call has passed, what its destination asks for is the successor   *)
(* of its counter, and a message that will pass carries the token of the   *)
(* call.  Once it has, whatever the call reads before its ACK asks for no  *)
(* other token than the one that passed.                                   *)
(***************************************************************************)
Syncs(d, s) == {f \in Frame : f.from = d /\ f.to = s /\ "SYNC" \in f.flags}

\* No frame of F is a SYNC of d for s that asks for another token than t.
AskOnly(F, d, s, t) == \A f \in F : f \in Syncs(d, s) => f.token = t

\* The same of all frames of q that an ACK is behind.
AckLast(q, d, s, t) ==
    \A j, k \in DOMAIN q :
        j < k /\ q[j] \in Syncs(d, s) /\ q[k] \in Acks(d, s) => q[j].token = t

\* The three queues that an answer of d to s passes, the last one first.
AcksLast(q, a, r, d, s, t) ==
    /\ AckLast(q, d, s, t) /\ AckLast(a, d, s, t) /\ AckLast(r, d, s, t)
    /\ (Range(a) \cup Range(r)) \cap Acks(d, s) # {} => AskOnly(Range(q), d, s, t)
    /\ Range(r) \cap Acks(d, s) # {} => AskOnly(Range(a), d, s, t)

\* Of the call of n to d, before its message has passed: S are the tokens asked for, q is
\* the line to d and r its counter.
Unpassed(S, q, r, token, allow_resend) ==
    LET M == {f \in Range(q) : IsData(f)}
    IN  /\ S \subseteq {NextToken(r)}
        /\ \A f, g \in M : f.token = g.token
        /\ \A f \in M : ValidToken(f.token, r) =>
                 f.token = token /\ (S # {} => f.token = NextToken(r))
        /\ S # {} /\ allow_resend => M = {} /\ ~ ValidToken(token, r)

Agreeing(n) ==
    LET d == call[n].dest
        r == recv_tokens[d][n]
    IN  IF call[n].id \notin Passed(d, n)
        THEN Unpassed(Asked(d, n), air[n][d], r, call[n].token, call[n].allow_resend)
        ELSE AckUnderWay(d, n) =>
                /\ call[n].token = r
                /\ AcksLast(response_queue[n], air[d][n], replies[d], d, n, r)

\* The token of a call that waits is the one its device will go on from.
SendTokensKept ==
    \A n \in Node : Waiting(n) => send_tokens[n][call[n].dest] = call[n].token

CallsAgree ==
    \A n \in Node :
        Waiting(n) /\ call[n].clean /\ call[n].dest \notin Rebooter => Agreeing(n)

\* A call that has succeeded is the last one of its device.
SuccessLast == \A n \in Node : call[n].phase = "success" => call[n].id = calls[n]

AgreeInv == AckInv /\ SendTokensKept /\ CallsAgree /\ SuccessLast /\ TokensAgree
-----------------------------------------------------------------------------
(***************************************************************************)
(* The inductive invariant behind TimelySuccess.  Of a clean call that     *)
(* waits there is one frame at any time, the message or an answer to it,   *)
(* and that frame is one that brings the call further.                     *)
(***************************************************************************)
\* The messages from n to d and the answers of d to n.
Talk(n, d) == {f \in Frame : \/ f.from = n /\ f.to = d /\ IsData(f)
                             \/ f.from = d /\ f.to = n /\ IsResponse(f)}

UnderWay(n, d) ==
    Count(air[n][d], Talk(n, d)) + Count(air[d][n], Talk(n, d))
        + Count(replies[d], Talk(n, d)) + Count(response_queue[n], Talk(n, d))

\* TimelySuccess asks nothing more of the call of n.
Excused(n) ==
    LET d == call[n].dest IN
    \/ d \in Rebooter
    \/ call[n].id \in Range(dropped[d][n])
    \/ recv_tokens[d][n] = TOKEN_MAX - 1

\* The message of the call; once resent it has the token it was asked for.
GoodMessage(n, f) ==
    /\ f.id = call[n].id /\ f.token = call[n].token
    /\ ~ call[n].allow_resend => f.token = NextToken(recv_tokens[call[n].dest][n])

\* An answer that the call can use: success, or the first request for the right token.
GoodAnswer(n, f) ==
    /\ "ERROR" \notin f.flags
    /\ \/ "ACK" \in f.flags
       \/ /\ call[n].allow_resend /\ {"SYNC", "RESEND"} \subseteq f.flags
          /\ f.token = NextToken(recv_tokens[call[n].dest][n])

OnCourse(n) ==
    LET d == call[n].dest IN
    /\ call[n].left = RESPONSE_TIMEOUT
    /\ UnderWay(n, d) = 1
    /\ \A f \in Range(air[n][d]) : IsData(f) => GoodMessage(n, f)
    /\ \A f \in Range(air[d][n]) \cup Range(replies[d]) \cup Range(response_queue[n]) :
          f \in Talk(n, d) => GoodAnswer(n, f)

Undamaged ==
    /\ \A s, d \in Node : \A f \in Range(air[s][d]) : f.crc
    /\ \A n \in Node : \A f \in Range(replies[n]) : f.crc

TimelyInv ==
    /\ IInv /\ Undamaged
    /\ \A n \in Node : Waiting(n) /\ call[n].clean => OnCourse(n) \/ Excused(n)
    /\ TimelySuccess
-----------------------------------------------------------------------------
(***************************************************************************)
(* The inductive invariant behind TimelyDelivery: as long as the call of a *)
(* message without room waits, the ERROR is ahead of every ACK.            *)
(***************************************************************************)
Errors(d, s) == {f \in Frame : f.from = d /\ f.to = s /\ "ERROR" \in f.flags}

\* No ACK of d for s in q but behind an ERROR.
Headed(q, d, s) ==
    \A k \in DOMAIN q :
        q[k] \in Acks(d, s) => \E j \in DOMAIN q : j < k /\ q[j] \in Errors(d, s)

\* The three queues that an answer of d to s passes, the last one first.
ErrorFirst(s, d) ==
    LET Ahead(F) == F \cap Errors(d, s) # {}
    IN  /\ Headed(response_queue[s], d, s)
        /\ \/ Headed(air[d][s], d, s)
           \/ Ahead(Range(response_queue[s]))
        /\ \/ Headed(replies[d], d, s)
           \/ Ahead(Range(response_queue[s]) \cup Range(air[d][s]))

ErrorsFirst ==
    \A n \in Node :
        LET d == call[n].dest IN
        /\ Waiting(n) /\ call[n].clean
        /\ d \notin Rebooter /\ call[n].id \in Range(dropped[d][n])
        => ErrorFirst(n, d)

DeliveryInv == AckInv /\ Undamaged /\ ErrorsFirst /\ TimelyDelivery
-----------------------------------------------------------------------------
(***************************************************************************)
(* How much two devices may have under way, whatever the medium does.      *)
(***************************************************************************)
Messages == {f \in Frame : IsData(f)}

FromDevice(d) == {f \in Frame : f.from = d}

ToDevice(d) == {f \in Frame : f.to = d}

\* What n may still put on the line to d because of what is under way: a message counts
\* twice, since its receiver may answer it by two frames; an answer counts once, wherever
\* it is; and so does the permission to resend.
Backlog(n, d) ==
    Len(air[n][d]) + Count(air[n][d], Messages)
        + Count(replies[n], ToDevice(d)) + Count(response_queue[n], FromDevice(d))
        + (IF Pending(n, d) = {} THEN 0 ELSE 1)

\* There is no storm of answers: damaged answers are answered by requests, refused messages
\* are answered twice and resent, and a call may end by the answer to another, and yet all
\* that two devices have under way is paid for by their calls, three frames each (_listen,
\* the RESEND branch of _send).
FewFrames ==
    \A n, d \in Node : Backlog(n, d) + Backlog(d, n) =< 3 * (calls[n] + calls[d])

\* No line is full, so that none loses a frame.
Roomy == \A s, d \in Node : Len(air[s][d]) < AirCap
=============================================================================
