---------------------------- MODULE LoraRouting ----------------------------
(***************************************************************************)
(* Addressing and forwarding: lib/lora/loraRouting.h over the radio of     *)
(* lib/lora/loraRadio.h.                                                   *)
(*                                                                         *)
(* A transmission is heard by the devices in reach.  Each keeps the one    *)
(* packet its radio can hold until its listener reads it: a frame that     *)
(* names another device as the next hop is thrown away, one for this       *)
(* device is handed to the transport layer, any other is sent on, with a   *)
(* lower TTL, to the hop the static table gives for its destination.       *)
(***************************************************************************)
EXTENDS Integers, Sequences, Functions

CONSTANTS
    Node,            \* addresses 0 .. NET_SIZE - 1
    Tables,          \* what routing_table may be
    INIT_TTL,        \* TTL of a new frame
    Stray,           \* an address byte that is not below NET_SIZE
    None,            \* no frame
    Origin,          \* the pairs <<sender, destination>> that send
    MaxFrames,       \* bound: frames from one device to another
    MaxDamage        \* bound: transmissions that are heard with another address

ASSUME RoutingAssumption ==
    /\ Tables \subseteq [Node -> [Node -> Node]]
    /\ INIT_TTL \in Nat
    /\ Stray \notin Node
    /\ Origin \subseteq {p \in Node \X Node : p[1] # p[2]}
    /\ MaxFrames \in Nat /\ MaxDamage \in Nat

Address == Node \cup {Stray}

\* The bytes routing looks at.  `id', the number of the frame among those from `from' to
\* `to', `hops', how often it has been forwarded, and `intact', that no address in it has
\* been damaged, are history.
Frame == [from : Node, to : Address, next : Address, ttl : 0 .. INIT_TTL,
          id : Nat, hops : Nat, intact : BOOLEAN]

ASSUME NoneAssumption == None \notin Frame

VARIABLES
    routing_table,  \* [n][d]: the next hop of n towards d
    radio,          \* [n]: the unread packet in the radio of n, or None
    held,           \* [n]: the frame that _forward of n has in hand, or None
    damages,        \* transmissions that were heard with another address
    sent,           \* history: [s][d], frames sent
    received,       \* history: [d][s], numbers of the intact frames of s that reached d's transport
    clear           \* history: nothing but the TTL has stopped a frame so far

vars == <<routing_table, radio, held, damages, sent, received, clear>>

Init ==
    /\ routing_table \in Tables
    /\ radio = [n \in Node |-> None]
    /\ held = [n \in Node |-> None]
    /\ damages = 0
    /\ sent = [s \in Node |-> [d \in Node |-> 0]]
    /\ received = [d \in Node |-> [s \in Node |-> <<>>]]
    /\ clear = TRUE

\* The frames meant for the device that has them, which are those still under way.
InFlight == {radio[n] : n \in {m \in Node : radio[m] # None /\ radio[m].next = m}}
            \cup {held[n] : n \in {m \in Node : held[m] # None}}

Silent == \A n \in Node : radio[n] = None /\ held[n] = None
-----------------------------------------------------------------------------
\* The address bytes are not covered by the checksum, so damage to them goes unnoticed.
Damaged(f) ==
    {[f EXCEPT !.next = a, !.intact = FALSE] : a \in Address}
        \cup {[f EXCEPT !.to = a, !.intact = FALSE] : a \in Address}

\* Any of the free radios may take the packet in, some of them damaged; the one that
\* transmits may lose the packet it has not read yet.
Broadcast(n, f) ==
    \E hearers \in SUBSET {m \in Node \ {n} : radio[m] = None}, keep \in BOOLEAN :
    \E bad \in SUBSET hearers, g \in Damaged(f) :
        /\ bad # {} => damages < MaxDamage
        /\ damages' = IF bad = {} THEN damages ELSE damages + 1
        /\ radio' = [m \in Node |-> IF m \in bad THEN g
                                    ELSE IF m \in hearers THEN f
                                    ELSE IF m = n /\ ~ keep THEN None
                                    ELSE radio[m]]
        /\ clear' = (clear /\ keep /\ f.next \in hearers /\ bad = {})
        /\ UNCHANGED routing_table

\* Routing::send, called by either task of s.
Send(s, d) ==
    /\ <<s, d>> \in Origin /\ sent[s][d] < MaxFrames
    /\ sent' = [sent EXCEPT ![s][d] = @ + 1]
    /\ Broadcast(s, [from |-> s, to |-> d, next |-> routing_table[s][d],
                     ttl |-> INIT_TTL, id |-> sent[s][d] + 1, hops |-> 0, intact |-> TRUE])
    /\ UNCHANGED <<held, received>>
-----------------------------------------------------------------------------
\* The listener of n takes the packet out of its radio.
Take(n) ==
    /\ held[n] = None /\ radio[n] # None
    /\ radio' = [radio EXCEPT ![n] = None]
    /\ UNCHANGED <<routing_table, damages, clear>>

\* Broken on purpose: the next hop is not compared.
AddressedAnyHop(n) == radio[n].next \in Address

Addressed(n) == radio[n].next = n

\* ROUTING_GOT_NOTHING: a frame on its way to another device has been overheard.
Overhear(n) ==
    /\ Take(n) /\ ~ Addressed(n)
    /\ UNCHANGED <<held, sent, received>>

\* ROUTING_RECEIVED
Receive(n) ==
    /\ Take(n) /\ Addressed(n) /\ radio[n].to = n
    /\ received' = IF radio[n].intact
                   THEN [received EXCEPT ![n][radio[n].from] = Append(@, radio[n].id)]
                   ELSE received
    /\ UNCHANGED <<held, sent>>

\* ROUTING_GOT_BAD_ADDRESS
BadAddress(n) ==
    /\ Take(n) /\ Addressed(n) /\ radio[n].to \notin Node
    /\ UNCHANGED <<held, sent, received>>

ToForward(n) == Take(n) /\ Addressed(n) /\ radio[n].to \in Node \ {n}

\* Broken on purpose: the last forwarding that the TTL allows is refused.
HopLeftTooStrict(n) == radio[n].ttl > 1

\* Broken on purpose: zero passes.
HopLeftAlways(n) == radio[n].ttl >= 0

HopLeft(n) == radio[n].ttl > 0

\* ROUTING_TTL_EXPIRED
Expire(n) ==
    /\ ToForward(n) /\ ~ HopLeft(n)
    /\ UNCHANGED <<held, sent, received>>

NextHop(n, f) == [f EXCEPT !.next = routing_table[n][f.to], !.ttl = @ - 1, !.hops = @ + 1]

\* Broken on purpose: the TTL is compared but not lowered.
ForwardKeepsTtl(n) ==
    /\ ToForward(n) /\ HopLeft(n)
    /\ held' = [held EXCEPT ![n] = [NextHop(n, radio[n]) EXCEPT !.ttl = radio[n].ttl, !.hops = 0]]
    /\ UNCHANGED <<sent, received>>

\* Broken on purpose: the frame starts anew with a full TTL.
ForwardRenewsTtl(n) ==
    /\ ToForward(n) /\ HopLeft(n)
    /\ held' = [held EXCEPT ![n] = [NextHop(n, radio[n]) EXCEPT !.ttl = INIT_TTL]]
    /\ UNCHANGED <<sent, received>>

\* _forward up to its delay.
Forward(n) ==
    /\ ToForward(n) /\ HopLeft(n)
    /\ held' = [held EXCEPT ![n] = NextHop(n, radio[n])]
    /\ UNCHANGED <<sent, received>>

\* _forward after its delay.
Relay(n) ==
    /\ held[n] # None
    /\ Broadcast(n, held[n])
    /\ held' = [held EXCEPT ![n] = None]
    /\ UNCHANGED <<sent, received>>

Listen(n) ==
    Overhear(n) \/ Receive(n) \/ BadAddress(n) \/ Expire(n) \/ Forward(n) \/ Relay(n)

Next == \E n \in Node : Listen(n) \/ \E d \in Node : Send(n, d)

Spec == Init /\ [][Next]_vars

\* The listener has a core to itself; nobody has to send.
FairSpec == Spec /\ \A n \in Node : WF_vars(Listen(n))
-----------------------------------------------------------------------------
TypeOK ==
    /\ routing_table \in Tables
    /\ radio \in [Node -> Frame \cup {None}]
    /\ held \in [Node -> Frame \cup {None}]
    /\ damages \in Nat
    /\ sent \in [Node -> [Node -> Nat]]
    /\ received \in [Node -> [Node -> Seq(Nat)]]
    /\ clear \in BOOLEAN

\* frame_spec.h: the TTL is the largest number of forwardings.  No frame is forwarded more
\* often than INIT_TTL says, whatever the tables, and also when its addresses are damaged
\* on the way (_forward lowers the TTL before every transmission).
HopsBounded ==
    \A n \in Node : \A f \in {radio[n], held[n]} \ {None} : f.hops =< INIT_TTL

\* The pairs between which the tables take k forwardings at most.
Within[k \in Nat] ==
    IF k = 0 THEN {p \in Node \X Node : routing_table[p[1]][p[2]] = p[2]}
    ELSE {p \in Node \X Node : \/ p \in Within[0]
                               \/ <<routing_table[p[1]][p[2]], p[2]>> \in Within[k - 1]}

\* When every transmission so far has reached its next hop and the network is silent again,
\* all frames between devices that the tables connect within the TTL have been received,
\* once and in the order they were sent (send, the three tests of try_receive, _forward).
AllArrive ==
    clear /\ Silent =>
        \A p \in Within[INIT_TTL] :
            received[p[2]][p[1]] = [i \in 1 .. sent[p[1]][p[2]] |-> i]

\* No frame circulates for ever, not even through tables that form a loop or with damaged
\* addresses: when nothing new is sent, the network falls silent (_forward stops at TTL 0).
FallsSilent == <>[]Silent

\* What LoraTransport assumes of the network: whatever the tables are, and whatever frames
\* with damaged addresses do beside them, each pair of devices has a line that loses
\* frames but neither reorders nor repeats nor misdelivers them.
Line ==
    INSTANCE LoraLine WITH
        travelling <- [s \in Node |-> [d \in Node |->
                         {f.id : f \in {g \in InFlight : g.intact /\ g.from = s /\ g.to = d}}]]

ImplementsLine == Line!Spec
=============================================================================
