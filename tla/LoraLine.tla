------------------------------ MODULE LoraLine ------------------------------
(***************************************************************************)
(* The network as the transport layer counts on it: from each device to    *)
(* each other there is a line on which frames vanish at any time, but      *)
(* those that arrive do so once, in the order they were sent, and at the   *)
(* device they were sent to.                                               *)
(***************************************************************************)
EXTENDS Naturals, Sequences

CONSTANT Node

VARIABLES
    sent,         \* [s][d]: frames that s has sent to d, numbered from 1
    travelling,   \* [s][d]: the numbers of those that may still arrive
    received      \* [d][s]: the numbers of those that have arrived

vars == <<sent, travelling, received>>

Init ==
    /\ sent = [s \in Node |-> [d \in Node |-> 0]]
    /\ travelling = [s \in Node |-> [d \in Node |-> {}]]
    /\ received = [d \in Node |-> [s \in Node |-> <<>>]]

\* Frames of the pairs other than s to d may vanish in any step.
OthersShrink(s, d) ==
    \A x, y \in Node : <<x, y>> # <<s, d>> => travelling'[x][y] \subseteq travelling[x][y]

Send(s, d) ==
    /\ sent' = [sent EXCEPT ![s][d] = @ + 1]
    /\ travelling'[s][d] \subseteq travelling[s][d] \cup {sent'[s][d]}
    /\ OthersShrink(s, d)
    /\ UNCHANGED received

\* Whatever was sent before the frame that arrives will not arrive any more.
Arrive(s, d, id) ==
    /\ id \in travelling[s][d]
    /\ received' = [received EXCEPT ![d][s] = Append(@, id)]
    /\ travelling'[s][d] \subseteq {j \in travelling[s][d] : j > id}
    /\ OthersShrink(s, d)
    /\ UNCHANGED sent

Vanish ==
    /\ \A s, d \in Node : travelling'[s][d] \subseteq travelling[s][d]
    /\ UNCHANGED <<sent, received>>

Next ==
    \/ \E s, d \in Node : Send(s, d) \/ \E id \in 1 .. sent[s][d] : Arrive(s, d, id)
    \/ Vanish

Spec == Init /\ [][Next]_vars
=============================================================================
