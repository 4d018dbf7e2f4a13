---------------------------- MODULE LoraService ----------------------------
(***************************************************************************)
(* What send_with_ack and try_receive promise their user, without frames,  *)
(* tokens, queues of answers or a medium.                                  *)
(*                                                                         *)
(* A call carries one message to one device and reports success or not.    *)
(* Its message passes the destination's check at most once and never after *)
(* a later one: it is then delivered, or discarded when the user there is  *)
(* too slow.  Every success is paid for by a message that has passed, but  *)
(* not necessarily by the message of that very call.  Every call ends.     *)
(***************************************************************************)
EXTENDS Naturals, Sequences, Functions

CONSTANTS
    Node,
    Forgetful   \* the devices that may lose their memory: no order is promised to them

VARIABLES
    issued,      \* [n]: calls made by n
    pending,     \* the calls that have not returned, at most one per device
    delivered,   \* [d][s]: messages of s that d has queued for its user
    discarded,   \* [d][s]: messages of s that d had no room for
    confirmed    \* [s][d]: calls of s to d that reported success

vars == <<issued, pending, delivered, discarded, confirmed>>

Init ==
    /\ issued = [n \in Node |-> 0]
    /\ pending = {}
    /\ delivered = [d \in Node |-> [s \in Node |-> <<>>]]
    /\ discarded = [d \in Node |-> [s \in Node |-> <<>>]]
    /\ confirmed = [s \in Node |-> [d \in Node |-> 0]]

Call(n, d) ==
    /\ n # d
    /\ issued' = [issued EXCEPT ![n] = @ + 1]
    /\ \A c \in pending : c.from # n
    /\ pending' = pending \cup {[from |-> n, to |-> d, id |-> issued'[n]]}
    /\ UNCHANGED <<delivered, discarded, confirmed>>

\* The messages of s that have passed the check of d.
Passed(d, s) == Range(delivered[d][s]) \cup Range(discarded[d][s])

\* A message of s that may pass the check of d now.
InTurn(d, s, id) ==
    /\ id \in 1 .. issued[s]
    /\ d \notin Forgetful => \A j \in Passed(d, s) : j < id

Deliver(d, s, id) ==
    /\ delivered' = [delivered EXCEPT ![d][s] = Append(@, id)]
    /\ InTurn(d, s, id)
    /\ UNCHANGED <<issued, pending, discarded, confirmed>>

Discard(d, s, id) ==
    /\ discarded' = [discarded EXCEPT ![d][s] = Append(@, id)]
    /\ InTurn(d, s, id)
    /\ UNCHANGED <<issued, pending, delivered, confirmed>>

Returned(c) ==
    /\ pending' = pending \ {c}
    /\ UNCHANGED <<issued, delivered, discarded>>

Succeed(c) ==
    /\ confirmed' = [confirmed EXCEPT ![c.from][c.to] = @ + 1]
    /\ confirmed[c.from][c.to] < Len(delivered[c.to][c.from]) + Len(discarded[c.to][c.from])
    /\ Returned(c)

\* Without success, or because the device that made the call lost power.
GiveUp(c) == UNCHANGED confirmed /\ Returned(c)

Return(n) == \E c \in pending : c.from = n /\ (Succeed(c) \/ GiveUp(c))

Next ==
    \/ \E n, d \in Node : Call(n, d)
    \/ \E d, s \in Node : \E id \in 1 .. issued[s] : Deliver(d, s, id) \/ Discard(d, s, id)
    \/ \E n \in Node : Return(n)

Spec == Init /\ [][Next]_vars

FairSpec == Spec /\ \A n \in Node : WF_vars(Return(n))
=============================================================================
