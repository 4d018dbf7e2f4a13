------------------------- MODULE LoraRoutingProofs -------------------------
(***************************************************************************)
(* The routing layer, for every network, whatever tables and whatever the  *)
(* medium does: no frame is forwarded more often than INIT_TTL says, and   *)
(* the mesh implements the line that the transport layer is built on.      *)
(***************************************************************************)
EXTENDS LoraRouting, WellFoundedInduction, TLAPS

(***************************************************************************)
(* What a frame has left of its TTL and what it has used always make up    *)
(* INIT_TTL.                                                               *)
(***************************************************************************)

\* A frame that has used part of its TTL and has the rest left.
Spent(f) == f \in Frame /\ f.ttl + f.hops = INIT_TTL

IInv ==
    /\ TypeOK
    /\ \A n \in Node : radio[n] # None => Spent(radio[n])
    /\ \A n \in Node : held[n] # None => Spent(held[n])

LEMMA InitIInv == Init => IInv
BY DEF Init, IInv, TypeOK

\* Damage to the address bytes leaves the TTL alone.
LEMMA DamagedSpent ==
    ASSUME NEW f, Spent(f), NEW g \in Damaged(f)
    PROVE  Spent(g)
<1>1. CASE \E a \in Address : g = [f EXCEPT !.next = a, !.intact = FALSE]
  BY <1>1 DEF Spent, Frame
<1>2. CASE \E a \in Address : g = [f EXCEPT !.to = a, !.intact = FALSE]
  BY <1>2 DEF Spent, Frame
<1> QED
  BY <1>1, <1>2 DEF Damaged

\* A transmission puts nothing but the frame, perhaps damaged, into the radios.
LEMMA BroadcastSpent ==
    ASSUME IInv, NEW n \in Node, NEW f, Spent(f), Broadcast(n, f)
    PROVE  /\ radio' \in [Node -> Frame \cup {None}]
           /\ \A m \in Node : radio'[m] # None => Spent(radio'[m])
           /\ damages' \in Nat /\ clear' \in BOOLEAN /\ UNCHANGED routing_table
<1>1. PICK hearers \in SUBSET {m \in Node \ {n} : radio[m] = None}, keep \in BOOLEAN :
        \E bad \in SUBSET hearers, g \in Damaged(f) :
          /\ damages' = IF bad = {} THEN damages ELSE damages + 1
          /\ radio' = [m \in Node |-> IF m \in bad THEN g
                                      ELSE IF m \in hearers THEN f
                                      ELSE IF m = n /\ ~ keep THEN None
                                      ELSE radio[m]]
          /\ clear' = (clear /\ keep /\ f.next \in hearers /\ bad = {})
  BY SMTT(30) DEF Broadcast
<1>2. PICK bad \in SUBSET hearers, g \in Damaged(f) :
          /\ damages' = IF bad = {} THEN damages ELSE damages + 1
          /\ radio' = [m \in Node |-> IF m \in bad THEN g
                                      ELSE IF m \in hearers THEN f
                                      ELSE IF m = n /\ ~ keep THEN None
                                      ELSE radio[m]]
          /\ clear' = (clear /\ keep /\ f.next \in hearers /\ bad = {})
  BY <1>1
<1>3. Spent(g)
  BY DamagedSpent
<1>4. damages' \in Nat
  BY <1>2 DEF IInv, TypeOK
<1>5. clear' \in BOOLEAN
  BY <1>2
<1>6. /\ radio' \in [Node -> Frame \cup {None}]
      /\ \A m \in Node : radio'[m] # None => Spent(radio'[m])
  BY <1>2, <1>3 DEF IInv, TypeOK, Spent
<1>7. UNCHANGED routing_table
  BY DEF Broadcast
<1> QED
  BY <1>4, <1>5, <1>6, <1>7

\* A forwarding takes one from the TTL and adds one to the hops.
LEMMA NextHopSpent ==
    ASSUME TypeOK, NEW n \in Node, NEW f, Spent(f), f.to \in Node, f.ttl > 0
    PROVE  Spent(NextHop(n, f))
<1>1. routing_table[n][f.to] \in Address
  BY RoutingAssumption DEF Address, TypeOK
<1>2. f.ttl - 1 \in 0 .. INIT_TTL /\ f.hops + 1 \in Nat /\ (f.ttl - 1) + (f.hops + 1) = INIT_TTL
  BY RoutingAssumption DEF Spent, Frame
<1> QED
  BY <1>1, <1>2 DEF NextHop, Spent, Frame

\* What a listener has taken out of its radio, and what is left in the radios.
LEMMA TakeSpent ==
    ASSUME IInv, NEW n \in Node, Take(n)
    PROVE  /\ radio' \in [Node -> Frame \cup {None}]
           /\ \A m \in Node : radio'[m] # None => Spent(radio'[m])
           /\ radio[n] # None /\ Spent(radio[n])
           /\ UNCHANGED <<routing_table, damages, clear>>
BY DEF Take, IInv, TypeOK

LEMMA IInvStep == IInv /\ [Next]_vars => IInv'
<1> SUFFICES ASSUME IInv, [Next]_vars PROVE IInv'
  OBVIOUS
<1>1. ASSUME NEW s \in Node, NEW d \in Node, Send(s, d)
      PROVE  IInv'
  <2> DEFINE f == [from |-> s, to |-> d, next |-> routing_table[s][d],
                   ttl |-> INIT_TTL, id |-> sent[s][d] + 1, hops |-> 0, intact |-> TRUE]
  <2>1. Spent(f)
    <3>1. routing_table[s][d] \in Address /\ d \in Address
      BY RoutingAssumption DEF Address, IInv, TypeOK
    <3>2. sent[s][d] + 1 \in Nat /\ INIT_TTL \in 0 .. INIT_TTL /\ INIT_TTL + 0 = INIT_TTL
      BY RoutingAssumption DEF IInv, TypeOK
    <3> QED
      BY <3>1, <3>2 DEF Spent, Frame
  <2>2. Broadcast(s, f) /\ UNCHANGED <<held, received>>
    BY <1>1 DEF Send
  <2>3. /\ radio' \in [Node -> Frame \cup {None}]
        /\ \A m \in Node : radio'[m] # None => Spent(radio'[m])
        /\ damages' \in Nat /\ clear' \in BOOLEAN /\ UNCHANGED routing_table
    BY <2>1, <2>2, BroadcastSpent
  <2>4. sent' \in [Node -> [Node -> Nat]]
    BY <1>1 DEF Send, IInv, TypeOK
  <2> QED
    BY <2>2, <2>3, <2>4 DEF IInv, TypeOK
<1>2. ASSUME NEW n \in Node, Overhear(n) \/ BadAddress(n) \/ Expire(n)
      PROVE  IInv'
  BY <1>2, TakeSpent DEF Overhear, BadAddress, Expire, ToForward, IInv, TypeOK
<1>3. ASSUME NEW n \in Node, Receive(n)
      PROVE  IInv'
  <2>1. Take(n) /\ UNCHANGED <<held, sent>>
    BY <1>3 DEF Receive
  <2>2. radio[n].from \in Node /\ radio[n].id \in Nat
    BY <2>1, TakeSpent DEF Spent, Frame
  <2>3. received' \in [Node -> [Node -> Seq(Nat)]]
    BY <1>3, <2>2 DEF Receive, IInv, TypeOK
  <2> QED
    BY <2>1, <2>3, TakeSpent DEF IInv, TypeOK
<1>4. ASSUME NEW n \in Node, Forward(n)
      PROVE  IInv'
  <2>1. /\ Take(n) /\ radio[n].to \in Node /\ radio[n].ttl > 0
        /\ held' = [held EXCEPT ![n] = NextHop(n, radio[n])]
        /\ UNCHANGED <<sent, received>>
    BY <1>4 DEF Forward, ToForward, HopLeft
  <2>2. Spent(NextHop(n, radio[n]))
    BY <2>1, TakeSpent, NextHopSpent DEF IInv
  <2>3. /\ held' \in [Node -> Frame \cup {None}]
        /\ \A m \in Node : held'[m] # None => Spent(held'[m])
    BY <2>1, <2>2 DEF IInv, TypeOK, Spent
  <2> QED
    BY <2>1, <2>3, TakeSpent DEF IInv, TypeOK
<1>5. ASSUME NEW n \in Node, Relay(n)
      PROVE  IInv'
  <2>1. Spent(held[n])
    BY <1>5 DEF Relay, IInv
  <2>2. /\ radio' \in [Node -> Frame \cup {None}]
        /\ \A m \in Node : radio'[m] # None => Spent(radio'[m])
        /\ damages' \in Nat /\ clear' \in BOOLEAN /\ UNCHANGED routing_table
    BY <1>5, <2>1, BroadcastSpent DEF Relay
  <2> QED
    BY <1>5, <2>2 DEF Relay, IInv, TypeOK
<1>6. CASE UNCHANGED vars
  BY <1>6 DEF vars, IInv, TypeOK
<1> QED
  BY <1>1, <1>2, <1>3, <1>4, <1>5, <1>6 DEF Next, Listen

LEMMA IInvariance == Spec => []IInv
BY InitIInv, IInvStep, PTL DEF Spec

\* Every reachable state has values of the right types: in particular no TTL falls below 0
\* (_forward, which returns before the subtraction).
THEOREM TypeCorrect == Spec => []TypeOK
BY IInvariance, PTL DEF IInv

\* No frame is forwarded more often than INIT_TTL says (_forward), on any network.
THEOREM HopsAreBounded == Spec => []HopsBounded
<1>1. IInv => HopsBounded
  BY RoutingAssumption DEF IInv, HopsBounded, Spent, Frame
<1> QED
  BY <1>1, IInvariance, PTL
-----------------------------------------------------------------------------
(***************************************************************************)
(* The mesh implements the line.                                           *)
(*                                                                         *)
(* The intact frames of a pair all follow one path, which the tables fix   *)
(* and which ends where it first reaches the destination, and how often a  *)
(* frame has been forwarded says where on it the frame is.  No radio and   *)
(* no listener holds two frames, so none overtakes another: the older the  *)
(* frame, the further it is.                                               *)
(*                                                                         *)
(* As long as every transmission reaches its next hop, the frames of a     *)
(* pair whose path is short enough for the TTL are received or under way.  *)
(***************************************************************************)

\* The path from s to d is the least set of pairs <<forwardings, device>> with <<0, s>> that
\* goes on, from any device but d, to the one its table names.
Follows(s, d, S) ==
    /\ <<0, s>> \in S
    /\ \A k \in Nat, x \in Node :
          <<k, x>> \in S /\ x # d => <<k + 1, routing_table[x][d]>> \in S

OnPath(s, d, k, x) == \A S \in SUBSET (Nat \X Node) : Follows(s, d, S) => <<k, x>> \in S

\* The two places of a device where a frame may be.
In(place, n) == IF place = "radio" THEN radio[n] ELSE held[n]

Places == {"radio", "held"}

\* An intact frame under way.
Live(place, n) ==
    /\ In(place, n) # None /\ In(place, n).intact
    /\ place = "radio" => In(place, n).next = n

\* How far it has come: a frame is held between two transmissions.
Position(place, f) == IF place = "radio" THEN 2 * f.hops + 1 ELSE 2 * f.hops

\* Frame f is where its path leads it.
Placed(place, n, f) ==
    /\ f.to \in Node /\ f.id \in 1 .. sent[f.from][f.to]
    /\ place = "radio" => OnPath(f.from, f.to, f.hops + 1, n)
    /\ place = "held" => /\ OnPath(f.from, f.to, f.hops, n) /\ f.hops > 0
                         /\ n # f.to /\ f.next = routing_table[n][f.to]

OnTheirWay ==
    \A place \in Places, n \in Node : Live(place, n) => Placed(place, n, In(place, n))

SamePair(f, g) == f.from = g.from /\ f.to = g.to

\* No frame has overtaken another of its pair.
InOrder ==
    \A p, q \in Places, n, m \in Node :
        Live(p, n) /\ Live(q, m) /\ SamePair(In(p, n), In(q, m)) =>
            (Position(p, In(p, n)) > Position(q, In(q, m)) => In(p, n).id < In(q, m).id)

LineInv == IInv /\ OnTheirWay /\ InOrder
-----------------------------------------------------------------------------
(***************************************************************************)
(* The path.                                                               *)
(***************************************************************************)

\* Where the tables lead from n, towards d.
LEMMA TableEntry ==
    ASSUME TypeOK, NEW n \in Node, NEW d \in Node
    PROVE  routing_table[n][d] \in Node
BY RoutingAssumption DEF TypeOK

LEMMA PathStarts ==
    ASSUME NEW s, NEW d
    PROVE  OnPath(s, d, 0, s)
BY DEF OnPath, Follows

LEMMA PathGoesOn ==
    ASSUME NEW s, NEW d, NEW k \in Nat, NEW x \in Node, x # d, OnPath(s, d, k, x)
    PROVE  OnPath(s, d, k + 1, routing_table[x][d])
BY DEF OnPath, Follows

\* The path itself is one of the sets of which it is the least.
LEMMA PathFollows ==
    ASSUME TypeOK, NEW s \in Node, NEW d \in Node, NEW S,
           S = {p \in Nat \X Node : OnPath(s, d, p[1], p[2])}
    PROVE  Follows(s, d, S)
<1>1. <<0, s>> \in S
  BY PathStarts
<1>2. ASSUME NEW k \in Nat, NEW x \in Node, <<k, x>> \in S, x # d
      PROVE  <<k + 1, routing_table[x][d]>> \in S
  <2>1. OnPath(s, d, k, x)
    BY <1>2
  <2>2. OnPath(s, d, k + 1, routing_table[x][d])
    BY <1>2, <2>1, PathGoesOn
  <2> QED
    BY <2>2, TableEntry
<1> QED
  BY <1>1, <1>2 DEF Follows

\* No device but s is at the start of the path.
LEMMA PathStart ==
    ASSUME TypeOK, NEW s \in Node, NEW d \in Node, NEW y \in Node, OnPath(s, d, 0, y)
    PROVE  y = s
<1> DEFINE S == {p \in Nat \X Node : p[1] = 0 => p[2] = s}
<1>1. <<0, s>> \in S
  OBVIOUS
<1>2. ASSUME NEW k \in Nat, NEW x \in Node
      PROVE  <<k + 1, routing_table[x][d]>> \in S
  BY TableEntry
<1>3. Follows(s, d, S)
  <2> HIDE DEF S
  <2> QED
    BY <1>1, <1>2 DEF Follows
<1>4. S \in SUBSET (Nat \X Node)
  OBVIOUS
<1>5. <<0, y>> \in S
  <2> HIDE DEF S
  <2> QED
    BY <1>3, <1>4 DEF OnPath
<1> QED
  BY <1>5

\* A device that is on the path after k + 1 forwardings is the next hop of one that is on it
\* after k.
LEMMA PathComesFrom ==
    ASSUME TypeOK, NEW s \in Node, NEW d \in Node, NEW k \in Nat, NEW y \in Node,
           OnPath(s, d, k + 1, y)
    PROVE  \E x \in Node : OnPath(s, d, k, x) /\ x # d /\ y = routing_table[x][d]
<1> SUFFICES ASSUME \A x \in Node : OnPath(s, d, k, x) /\ x # d => y # routing_table[x][d]
             PROVE  FALSE
  OBVIOUS
<1> DEFINE P == {p \in Nat \X Node : OnPath(s, d, p[1], p[2])}
           S == {p \in P : p # <<k + 1, y>>}
<1>1. Follows(s, d, P)
  BY PathFollows
<1>2. <<0, s>> \in S
  <2>1. <<0, s>> \in P
    <3> HIDE DEF P
    <3> QED
      BY <1>1 DEF Follows
  <2>2. <<0, s>> # <<k + 1, y>>
    OBVIOUS
  <2> QED
    BY <2>1, <2>2
<1>3. ASSUME NEW j \in Nat, NEW x \in Node, <<j, x>> \in S, x # d
      PROVE  <<j + 1, routing_table[x][d]>> \in S
  <2>1. <<j, x>> \in P
    BY <1>3
  <2>2. <<j + 1, routing_table[x][d]>> \in P
    <3> HIDE DEF P
    <3> QED
      BY <1>1, <1>3, <2>1 DEF Follows
  <2>3. OnPath(s, d, j, x)
    BY <2>1
  <2>4. <<j + 1, routing_table[x][d]>> # <<k + 1, y>>
    <3> SUFFICES ASSUME j + 1 = k + 1, routing_table[x][d] = y PROVE FALSE
      OBVIOUS
    <3>1. j = k
      OBVIOUS
    <3> QED
      BY <1>3, <2>3, <3>1
  <2> QED
    BY <2>2, <2>4
<1>4. Follows(s, d, S)
  <2> HIDE DEF S
  <2> QED
    BY <1>2, <1>3 DEF Follows
<1>5. S \in SUBSET (Nat \X Node)
  OBVIOUS
<1>6. <<k + 1, y>> \in S
  <2> HIDE DEF S
  <2> QED
    BY <1>4, <1>5 DEF OnPath
<1> QED
  BY <1>6

\* The number of forwardings says where on the path a frame is.
LEMMA PathFunctional ==
    ASSUME TypeOK, NEW s \in Node, NEW d \in Node, NEW k \in Nat,
           NEW x \in Node, OnPath(s, d, k, x), NEW y \in Node, OnPath(s, d, k, y)
    PROVE  x = y
<1>0. \A j \in Nat, z \in Node : OnPath(s, d, j + 1, z) =>
         \E v \in Node : OnPath(s, d, j, v) /\ v # d /\ z = routing_table[v][d]
  BY PathComesFrom
<1> DEFINE S == {p \in Nat \X Node : /\ OnPath(s, d, p[1], p[2])
                                     /\ \A z \in Node : OnPath(s, d, p[1], z) => z = p[2]}
<1>1. <<0, s>> \in S
  BY PathStarts, PathStart
<1>2. ASSUME NEW j \in Nat, NEW w \in Node, <<j, w>> \in S, w # d
      PROVE  <<j + 1, routing_table[w][d]>> \in S
  <2>1. OnPath(s, d, j, w) /\ \A z \in Node : OnPath(s, d, j, z) => z = w
    BY <1>2
  <2>2. OnPath(s, d, j + 1, routing_table[w][d])
    BY <1>2, <2>1, PathGoesOn
  <2>3. ASSUME NEW z \in Node, OnPath(s, d, j + 1, z)
        PROVE  z = routing_table[w][d]
    <3>1. PICK v \in Node : OnPath(s, d, j, v) /\ v # d /\ z = routing_table[v][d]
      BY <1>0, <2>3
    <3> QED
      BY <2>1, <3>1
  <2>4. routing_table[w][d] \in Node
    BY TableEntry
  <2>5. j + 1 \in Nat
    OBVIOUS
  <2> QED
    BY <2>2, <2>3, <2>4, <2>5
<1>3. Follows(s, d, S)
  <2> HIDE DEF S
  <2> QED
    BY <1>1, <1>2 DEF Follows
<1>4. S \in SUBSET (Nat \X Node)
  OBVIOUS
<1>5. <<k, x>> \in S
  <2> HIDE DEF S
  <2> QED
    BY <1>3, <1>4 DEF OnPath
<1> QED
  BY <1>5

\* The path ends where it reaches the destination.
LEMMA PathEnds ==
    ASSUME TypeOK, NEW s \in Node, NEW d \in Node, NEW k \in Nat, OnPath(s, d, k, d),
           NEW j \in Nat, NEW x \in Node, OnPath(s, d, j, x)
    PROVE  j =< k
<1> DEFINE P == {p \in Nat \X Node : OnPath(s, d, p[1], p[2])}
           S == {p \in P : p[1] =< k}
<1>1. Follows(s, d, P)
  BY PathFollows
<1>2. <<0, s>> \in S
  <2>1. <<0, s>> \in P
    <3> HIDE DEF P
    <3> QED
      BY <1>1 DEF Follows
  <2> QED
    BY <2>1
<1>3. ASSUME NEW i \in Nat, NEW w \in Node, <<i, w>> \in S, w # d
      PROVE  <<i + 1, routing_table[w][d]>> \in S
  <2>1. <<i, w>> \in P /\ i =< k
    BY <1>3
  <2>2. <<i + 1, routing_table[w][d]>> \in P
    <3> HIDE DEF P
    <3> QED
      BY <1>1, <1>3, <2>1 DEF Follows
  <2>3. OnPath(s, d, i, w)
    BY <2>1
  <2>4. i # k
    BY <1>3, <2>3, PathFunctional
  <2>5. i + 1 =< k
    BY <2>1, <2>4
  <2> QED
    BY <2>2, <2>5
<1>4. Follows(s, d, S)
  <2> HIDE DEF S
  <2> QED
    BY <1>2, <1>3 DEF Follows
<1>5. S \in SUBSET (Nat \X Node)
  OBVIOUS
<1>6. <<j, x>> \in S
  <2> HIDE DEF S
  <2> QED
    BY <1>4, <1>5 DEF OnPath
<1> QED
  BY <1>6
-----------------------------------------------------------------------------
(***************************************************************************)
(* What a step does to the frames under way.                               *)
(***************************************************************************)

LEMMA LiveFrame ==
    ASSUME IInv, NEW p \in Places, NEW n \in Node, Live(p, n)
    PROVE  /\ In(p, n) \in Frame /\ In(p, n).from \in Node
           /\ In(p, n).hops \in Nat /\ In(p, n).id \in Nat
<1>1. In(p, n) \in Frame
  BY DEF IInv, Spent, Live, In, Places
<1> QED
  BY <1>1 DEF Frame

LEMMA PositionNat ==
    ASSUME NEW p \in Places, NEW f \in Frame
    PROVE  Position(p, f) \in Nat
BY DEF Position, Frame, Places

\* Two intact frames of a pair that have come equally far are at one place.
LEMMA OnePlace ==
    ASSUME TypeOK, NEW p \in Places, NEW q \in Places, NEW n \in Node, NEW m \in Node,
           NEW f \in Frame, NEW g \in Frame, Placed(p, n, f), Placed(q, m, g), SamePair(f, g),
           Position(p, f) = Position(q, g)
    PROVE  p = q /\ n = m
<1>1. f.hops \in Nat /\ g.hops \in Nat /\ f.from \in Node /\ f.to \in Node
  BY DEF Frame, Placed
<1>2. p = q /\ f.hops = g.hops
  BY <1>1 DEF Position, Places
<1>3. g.from = f.from /\ g.to = f.to
  BY DEF SamePair
<1>4. CASE p = "radio"
  <2>1. OnPath(f.from, f.to, f.hops + 1, n) /\ OnPath(f.from, f.to, f.hops + 1, m)
    BY <1>2, <1>3, <1>4 DEF Placed
  <2>2. f.hops + 1 \in Nat
    BY <1>1
  <2> QED
    BY <1>1, <1>2, <2>1, <2>2, PathFunctional
<1>5. CASE p = "held"
  <2>1. OnPath(f.from, f.to, f.hops, n) /\ OnPath(f.from, f.to, f.hops, m)
    BY <1>2, <1>3, <1>5 DEF Placed
  <2> QED
    BY <1>1, <1>2, <2>1, PathFunctional
<1> QED
  BY <1>4, <1>5 DEF Places

\* A frame that stays where it was is where its path leads it.
LEMMA PlacedStill ==
    ASSUME NEW p \in Places, NEW n \in Node, NEW f \in Frame, Placed(p, n, f),
           routing_table' = routing_table, sent \in [Node -> [Node -> Nat]],
           sent' \in [Node -> [Node -> Nat]],
           \A s, d \in Node : sent[s][d] =< sent'[s][d]
    PROVE  Placed(p, n, f)'
<1>1. f.from \in Node /\ f.to \in Node
  BY DEF Placed, Frame
<1>2. sent[f.from][f.to] \in Nat /\ sent'[f.from][f.to] \in Nat
  BY <1>1
<1>3. f.id \in 1 .. sent'[f.from][f.to]
  <2>1. sent[f.from][f.to] =< sent'[f.from][f.to] /\ f.id \in 1 .. sent[f.from][f.to]
    BY <1>1 DEF Placed
  <2> QED
    BY <1>2, <2>1
<1>4. \A k, x : OnPath(f.from, f.to, k, x) => OnPath(f.from, f.to, k, x)'
  BY DEF OnPath, Follows
<1> QED
  BY <1>3, <1>4 DEF Placed

\* Frames vanish, and nothing else happens to them.
LEMMA Fewer ==
    ASSUME LineInv, IInv', routing_table' = routing_table,
           \A s, d \in Node : sent[s][d] =< sent'[s][d],
           \A p \in Places, n \in Node :
              Live(p, n)' => Live(p, n) /\ In(p, n)' = In(p, n)
    PROVE  OnTheirWay' /\ InOrder'
<1>1. OnTheirWay'
  <2> SUFFICES ASSUME NEW p \in Places, NEW n \in Node, Live(p, n)'
               PROVE  Placed(p, n, In(p, n))'
    BY DEF OnTheirWay
  <2>1. Live(p, n) /\ In(p, n)' = In(p, n)
    OBVIOUS
  <2>2. In(p, n) \in Frame /\ Placed(p, n, In(p, n))
    BY <2>1, LiveFrame DEF LineInv, OnTheirWay
  <2>3. sent \in [Node -> [Node -> Nat]] /\ sent' \in [Node -> [Node -> Nat]]
    BY DEF LineInv, IInv, TypeOK
  <2>4. PICK f \in Frame : f = In(p, n)
    BY <2>2
  <2>5. Placed(p, n, f)'
    BY <2>2, <2>3, <2>4, PlacedStill
  <2> QED
    BY <2>1, <2>4, <2>5 DEF Placed
<1>2. InOrder'
  <2> SUFFICES ASSUME NEW p \in Places, NEW q \in Places, NEW n \in Node, NEW m \in Node,
                      Live(p, n)', Live(q, m)', SamePair(In(p, n), In(q, m))',
                      Position(p, In(p, n)') > Position(q, In(q, m)')
               PROVE  In(p, n)'.id < In(q, m)'.id
    BY DEF InOrder, Position
  <2>1. Live(p, n) /\ In(p, n)' = In(p, n) /\ Live(q, m) /\ In(q, m)' = In(q, m)
    OBVIOUS
  <2>2. SamePair(In(p, n), In(q, m))
    BY <2>1 DEF SamePair
  <2> QED
    BY <2>1, <2>2 DEF LineInv, InOrder
<1> QED
  BY <1>1, <1>2

\* One frame comes to a place, the others stay or vanish.
LEMMA OneComes ==
    ASSUME LineInv, IInv', routing_table' = routing_table,
           \A s, d \in Node : sent[s][d] =< sent'[s][d],
           NEW p \in Places, NEW n \in Node, NEW g \in Frame,
           Live(p, n)' => In(p, n)' = g,
           \A q \in Places, m \in Node : Live(q, m)' =>
              (q = p /\ m = n) \/ (Live(q, m) /\ In(q, m)' = In(q, m)),
           Placed(p, n, g)',
           \A q \in Places, m \in Node :
              Live(q, m)' /\ ~ (q = p /\ m = n) /\ SamePair(In(q, m), g) =>
                 /\ Position(q, In(q, m)) > Position(p, g) => In(q, m).id < g.id
                 /\ Position(p, g) > Position(q, In(q, m)) => g.id < In(q, m).id
    PROVE  OnTheirWay' /\ InOrder'
<1>1. ASSUME NEW q \in Places, NEW m \in Node, Live(q, m)', ~ (q = p /\ m = n)
      PROVE  /\ Live(q, m) /\ In(q, m)' = In(q, m) /\ In(q, m) \in Frame
             /\ Placed(q, m, In(q, m)) /\ Placed(q, m, In(q, m))'
  <2>1. Live(q, m) /\ In(q, m)' = In(q, m)
    BY <1>1
  <2>2. In(q, m) \in Frame /\ Placed(q, m, In(q, m))
    BY <2>1, LiveFrame DEF LineInv, OnTheirWay
  <2>3. sent \in [Node -> [Node -> Nat]] /\ sent' \in [Node -> [Node -> Nat]]
    BY DEF LineInv, IInv, TypeOK
  <2>4. ASSUME NEW f \in Frame, Placed(q, m, f) PROVE Placed(q, m, f)'
    BY <2>3, <2>4, PlacedStill
  <2>5. PICK f \in Frame : f = In(q, m)
    BY <2>2
  <2>6. Placed(q, m, f)'
    BY <2>2, <2>4, <2>5
  <2> QED
    BY <2>1, <2>2, <2>5, <2>6 DEF Placed
<1>2. OnTheirWay'
  <2> SUFFICES ASSUME NEW q \in Places, NEW m \in Node, Live(q, m)'
               PROVE  Placed(q, m, In(q, m))'
    BY DEF OnTheirWay
  <2>1. CASE q = p /\ m = n
    BY <2>1 DEF Placed
  <2>2. CASE ~ (q = p /\ m = n)
    BY <1>1, <2>2
  <2> QED
    BY <2>1, <2>2
<1>3. InOrder'
  <2> SUFFICES ASSUME NEW q \in Places, NEW r \in Places, NEW m \in Node, NEW l \in Node,
                      Live(q, m)', Live(r, l)', SamePair(In(q, m)', In(r, l)'),
                      Position(q, In(q, m)') > Position(r, In(r, l)')
               PROVE  In(q, m)'.id < In(r, l)'.id
    BY DEF InOrder, Position, SamePair
  <2>1. CASE q = p /\ m = n /\ r = p /\ l = n
    <3>1. Position(p, g) \in Nat
      BY PositionNat
    <3> QED
      BY <2>1, <3>1
  <2>2. CASE q = p /\ m = n /\ ~ (r = p /\ l = n)
    <3>1. In(q, m)' = g /\ In(r, l)' = In(r, l)
      BY <1>1, <2>2
    <3>2. SamePair(In(r, l), g)
      BY <3>1 DEF SamePair
    <3>3. Position(p, g) > Position(r, In(r, l))
      BY <2>2, <3>1
    <3> QED
      BY <2>2, <3>1, <3>2, <3>3
  <2>3. CASE ~ (q = p /\ m = n) /\ r = p /\ l = n
    <3>1. In(r, l)' = g /\ In(q, m)' = In(q, m)
      BY <1>1, <2>3
    <3>2. SamePair(In(q, m), g)
      BY <3>1
    <3>3. Position(q, In(q, m)) > Position(p, g)
      BY <2>3, <3>1
    <3> QED
      BY <2>3, <3>1, <3>2, <3>3
  <2>4. CASE ~ (q = p /\ m = n) /\ ~ (r = p /\ l = n)
    <3>1. /\ Live(q, m) /\ In(q, m)' = In(q, m)
          /\ Live(r, l) /\ In(r, l)' = In(r, l)
      BY <1>1, <2>4
    <3> QED
      BY <3>1 DEF LineInv, InOrder
  <2> QED
    BY <2>1, <2>2, <2>3, <2>4
<1> QED
  BY <1>2, <1>3

\* A frame goes on to the next place of its path, which was free, and no other overtakes it.
LEMMA OneMoves ==
    ASSUME LineInv, IInv', UNCHANGED <<routing_table, sent>>,
           NEW o \in Places, NEW k \in Node, NEW f \in Frame, Live(o, k), f = In(o, k),
           NEW p \in Places, NEW n \in Node, NEW g \in Frame,
           ~ Live(o, k)', ~ Live(p, n), Live(p, n)' => In(p, n)' = g,
           \A q \in Places, m \in Node : Live(q, m)' =>
              (q = p /\ m = n) \/ (Live(q, m) /\ In(q, m)' = In(q, m)),
           Placed(p, n, g), SamePair(f, g), g.id = f.id, Position(p, g) = Position(o, f) + 1
    PROVE  OnTheirWay' /\ InOrder'
<1>1. Placed(p, n, g)'
  BY DEF Placed, OnPath, Follows
<1>2. \A s, d \in Node : sent[s][d] =< sent'[s][d]
  <2>1. \A s, d \in Node : sent[s][d] \in Nat
    BY DEF LineInv, IInv, TypeOK
  <2> QED
    BY <2>1
<1>3. ASSUME NEW q \in Places, NEW m \in Node, Live(q, m)', ~ (q = p /\ m = n),
             SamePair(In(q, m), g)
      PROVE  /\ Position(q, In(q, m)) > Position(p, g) => In(q, m).id < g.id
             /\ Position(p, g) > Position(q, In(q, m)) => g.id < In(q, m).id
  <2>1. Live(q, m) /\ In(q, m) \in Frame /\ Placed(q, m, In(q, m))
    BY <1>3, LiveFrame DEF LineInv, OnTheirWay
  <2>2. PICK h \in Frame : h = In(q, m)
    BY <2>1
  <2>3. Position(q, h) \in Nat /\ Position(o, f) \in Nat
    BY PositionNat
  <2>4. Position(q, h) # Position(p, g)
    <3> SUFFICES ASSUME Position(q, h) = Position(p, g) PROVE FALSE
      OBVIOUS
    <3>1. Placed(q, m, h) /\ SamePair(h, g) /\ TypeOK
      BY <1>3, <2>1, <2>2 DEF LineInv, IInv
    <3>2. q = p /\ m = n
      BY <3>1, OnePlace
    <3> QED
      BY <1>3, <3>2
  <2>5. Position(q, h) # Position(o, f)
    <3> SUFFICES ASSUME Position(q, h) = Position(o, f) PROVE FALSE
      OBVIOUS
    <3>1. Placed(q, m, h) /\ Placed(o, k, f) /\ SamePair(h, f) /\ TypeOK
      BY <1>3, <2>1, <2>2 DEF LineInv, IInv, OnTheirWay, SamePair
    <3>2. q = o /\ m = k
      BY <3>1, OnePlace
    <3> QED
      BY <1>3, <3>2
  <2>6. SamePair(h, f) /\ SamePair(f, h)
    BY <1>3, <2>2 DEF SamePair
  <2>7. /\ Position(q, h) > Position(o, f) => h.id < f.id
        /\ Position(o, f) > Position(q, h) => f.id < h.id
    BY <2>1, <2>2, <2>6 DEF LineInv, InOrder
  <2> QED
    BY <2>2, <2>3, <2>4, <2>5, <2>7
<1> QED
  BY <1>1, <1>2, <1>3, OneComes
\* Of what a transmission puts into the radios, only the frame itself, undamaged and in the
\* radio of its next hop, is under way.
LEMMA BroadcastLive ==
    ASSUME IInv, NEW n \in Node, NEW f \in Frame, Broadcast(n, f), NEW m \in Node,
           Live("radio", m)'
    PROVE  \/ Live("radio", m) /\ radio'[m] = radio[m]
           \/ f.intact /\ m = f.next /\ radio[m] = None /\ radio'[m] = f
<1>1. PICK hearers \in SUBSET {x \in Node \ {n} : radio[x] = None}, keep \in BOOLEAN :
        \E bad \in SUBSET hearers, g \in Damaged(f) :
          radio' = [x \in Node |-> IF x \in bad THEN g
                                   ELSE IF x \in hearers THEN f
                                   ELSE IF x = n /\ ~ keep THEN None
                                   ELSE radio[x]]
  BY DEF Broadcast
<1>2. PICK bad \in SUBSET hearers, g \in Damaged(f) :
          radio' = [x \in Node |-> IF x \in bad THEN g
                                   ELSE IF x \in hearers THEN f
                                   ELSE IF x = n /\ ~ keep THEN None
                                   ELSE radio[x]]
  BY <1>1
<1>3. g.intact = FALSE
  <2>1. CASE \E a \in Address : g = [f EXCEPT !.next = a, !.intact = FALSE]
    BY <2>1 DEF Frame
  <2>2. CASE \E a \in Address : g = [f EXCEPT !.to = a, !.intact = FALSE]
    BY <2>2 DEF Frame
  <2> QED
    BY <2>1, <2>2 DEF Damaged
<1>4. radio'[m] # None /\ radio'[m].intact /\ radio'[m].next = m
  BY DEF Live, In
<1>5. radio'[m] = IF m \in bad THEN g
                  ELSE IF m \in hearers THEN f
                  ELSE IF m = n /\ ~ keep THEN None
                  ELSE radio[m]
  BY <1>2
<1>6. m \notin bad
  BY <1>3, <1>4, <1>5
<1>7. CASE m \in hearers
  <2>1. radio'[m] = f /\ radio[m] = None
    BY <1>5, <1>6, <1>7
  <2> QED
    BY <1>4, <2>1
<1>8. CASE m \notin hearers
  <2>1. radio'[m] = radio[m]
    BY <1>4, <1>5, <1>6, <1>8
  <2> QED
    BY <1>4, <2>1 DEF Live, In
<1> QED
  BY <1>7, <1>8

\* A frame taken out of a radio, and not put anywhere else.
LEMMA TakeLive ==
    ASSUME IInv, NEW n \in Node, Take(n), UNCHANGED held
    PROVE  \A p \in Places, m \in Node :
              Live(p, m)' => Live(p, m) /\ In(p, m)' = In(p, m) /\ ~ (p = "radio" /\ m = n)
<1>1. radio' = [radio EXCEPT ![n] = None] /\ radio \in [Node -> Frame \cup {None}]
  BY DEF Take, IInv, TypeOK
<1>2. radio'[n] = None /\ \A m \in Node : m # n => radio'[m] = radio[m]
  BY <1>1
<1> QED
  BY <1>2 DEF Live, In, Places

LEMMA SentGrows ==
    ASSUME IInv, NEW s \in Node, NEW d \in Node, Send(s, d)
    PROVE  /\ sent'[s][d] = sent[s][d] + 1 /\ sent[s][d] \in Nat
           /\ \A x, y \in Node : sent[x][y] =< sent'[x][y]
<1>1. sent \in [Node -> [Node -> Nat]]
  BY DEF IInv, TypeOK
<1>2. sent' = [sent EXCEPT ![s][d] = sent[s][d] + 1]
  BY DEF Send
<1>3. \A x, y \in Node :
         sent'[x][y] = IF x = s /\ y = d THEN sent[s][d] + 1 ELSE sent[x][y]
  BY <1>1, <1>2
<1>4. \A x, y \in Node : sent[x][y] \in Nat
  BY <1>1
<1> QED
  BY <1>3, <1>4

\* A new frame is behind all others of its pair.
LEMMA NewFrame ==
    ASSUME LineInv, IInv', NEW s \in Node, NEW d \in Node, s # d, routing_table' = routing_table,
           sent'[s][d] = sent[s][d] + 1, \A x, y \in Node : sent[x][y] =< sent'[x][y],
           NEW n \in Node, n = routing_table[s][d],
           NEW f \in Frame, f.from = s, f.to = d, f.id = sent[s][d] + 1, f.hops = 0,
           Live("radio", n)' => In("radio", n)' = f,
           \A q \in Places, m \in Node : Live(q, m)' =>
              (q = "radio" /\ m = n) \/ (Live(q, m) /\ In(q, m)' = In(q, m))
    PROVE  OnTheirWay' /\ InOrder'
<1>0. TypeOK
  BY DEF LineInv, IInv
<1>1. sent[s][d] \in Nat /\ Position("radio", f) = 1
  BY <1>0 DEF TypeOK, Position
<1>2. Placed("radio", n, f)'
  <2>1. OnPath(s, d, 0, s)
    BY PathStarts
  <2>2. OnPath(s, d, 0 + 1, routing_table[s][d])
    BY <2>1, PathGoesOn
  <2>3. OnPath(s, d, f.hops + 1, n)'
    BY <2>2 DEF OnPath, Follows
  <2>4. f.id \in 1 .. sent'[s][d]
    BY <1>1
  <2> QED
    BY <2>3, <2>4 DEF Placed
<1>3. ASSUME NEW q \in Places, NEW m \in Node, Live(q, m)', ~ (q = "radio" /\ m = n),
             SamePair(In(q, m), f)
      PROVE  /\ Position(q, In(q, m)) > Position("radio", f) => In(q, m).id < f.id
             /\ Position("radio", f) > Position(q, In(q, m)) => f.id < In(q, m).id
  <2>1. Live(q, m) /\ In(q, m) \in Frame /\ Placed(q, m, In(q, m))
    BY <1>3, LiveFrame DEF LineInv, OnTheirWay
  <2>2. In(q, m).id \in 1 .. sent[s][d]
    BY <1>3, <2>1 DEF Placed, SamePair
  <2>3. Position(q, In(q, m)) >= 1 /\ Position(q, In(q, m)) \in Nat
    BY <2>1 DEF Position, Placed, Frame, Places
  <2> QED
    BY <1>1, <2>2, <2>3
<1>4. "radio" \in Places
  BY DEF Places
<1> QED
  BY <1>2, <1>3, <1>4, OneComes

LEMMA LineSend ==
    ASSUME LineInv, IInv', NEW s \in Node, NEW d \in Node, Send(s, d)
    PROVE  /\ OnTheirWay' /\ InOrder'
           /\ \A p \in Places, m \in Node : Live(p, m)' =>
                 \/ Live(p, m) /\ In(p, m)' = In(p, m)
                 \/ In(p, m)'.from = s /\ In(p, m)'.to = d /\ In(p, m)'.id = sent[s][d] + 1
<1> DEFINE F == [from |-> s, to |-> d, next |-> routing_table[s][d],
                 ttl |-> INIT_TTL, id |-> sent[s][d] + 1, hops |-> 0, intact |-> TRUE]
<1>1. /\ sent'[s][d] = sent[s][d] + 1 /\ sent[s][d] \in Nat
      /\ \A x, y \in Node : sent[x][y] =< sent'[x][y]
  BY SentGrows DEF LineInv
<1>2. PICK n \in Node : n = routing_table[s][d]
  BY TableEntry DEF LineInv, IInv
<1>3. F \in Frame
  <2>1. n \in Address /\ d \in Address /\ INIT_TTL \in 0 .. INIT_TTL /\ sent[s][d] + 1 \in Nat
    BY <1>1, RoutingAssumption DEF Address
  <2> QED
    BY <1>2, <2>1 DEF Frame
<1>4. Broadcast(s, F) /\ held' = held /\ routing_table' = routing_table
  BY DEF Send, Broadcast
<1>5. PICK f \in Frame : f = F
  BY <1>3
<1>6. f.from = s /\ f.to = d /\ f.next = n /\ f.id = sent[s][d] + 1 /\ f.hops = 0
  BY <1>2, <1>5
<1>7. s # d
  <2>1. <<s, d>> \in Origin
    BY DEF Send
  <2> QED
    BY <2>1, RoutingAssumption
<1>8. Broadcast(s, f)
  BY <1>4, <1>5
<1> HIDE DEF F
<1>9. \A q \in Places, m \in Node : Live(q, m)' =>
         (q = "radio" /\ m = n /\ radio[n] = None /\ In(q, m)' = f)
            \/ (Live(q, m) /\ In(q, m)' = In(q, m))
  <2> SUFFICES ASSUME NEW q \in Places, NEW m \in Node, Live(q, m)'
               PROVE  (q = "radio" /\ m = n /\ radio[n] = None /\ In(q, m)' = f)
                         \/ (Live(q, m) /\ In(q, m)' = In(q, m))
    OBVIOUS
  <2>1. CASE q = "radio"
    <3>1. \/ Live("radio", m) /\ radio'[m] = radio[m]
          \/ f.intact /\ m = f.next /\ radio[m] = None /\ radio'[m] = f
      BY <1>8, <2>1, BroadcastLive DEF LineInv
    <3> QED
      BY <1>6, <2>1, <3>1 DEF In
  <2>2. CASE q = "held"
    BY <1>4, <2>2 DEF Live, In
  <2> QED
    BY <2>1, <2>2 DEF Places
<1>10. OnTheirWay' /\ InOrder'
  <2>1. CASE radio[n] = None
    <3>1. ~ Live("radio", n)
      BY <2>1 DEF Live, In
    <3>2. Live("radio", n)' => In("radio", n)' = f
      BY <1>9, <3>1 DEF Places
    <3>3. \A q \in Places, m \in Node : Live(q, m)' =>
             (q = "radio" /\ m = n) \/ (Live(q, m) /\ In(q, m)' = In(q, m))
      BY <1>9
    <3> QED
      BY <1>1, <1>2, <1>4, <1>6, <1>7, <3>2, <3>3, NewFrame
  <2>2. CASE radio[n] # None
    <3>1. \A q \in Places, m \in Node : Live(q, m)' => Live(q, m) /\ In(q, m)' = In(q, m)
      BY <1>9, <2>2
    <3> QED
      BY <1>1, <1>4, <3>1, Fewer
  <2> QED
    BY <2>1, <2>2
<1> QED
  BY <1>6, <1>9, <1>10
LEMMA LineForward ==
    ASSUME LineInv, IInv', NEW n \in Node, Forward(n)
    PROVE  /\ OnTheirWay' /\ InOrder'
           /\ \A p \in Places, m \in Node : Live(p, m)' =>
                 \E q \in Places : /\ Live(q, m) /\ SamePair(In(q, m), In(p, m)')
                                   /\ In(p, m)'.id = In(q, m).id
<1>1. /\ radio' = [radio EXCEPT ![n] = None] /\ held[n] = None /\ radio[n] # None
      /\ radio[n].next = n /\ radio[n].to \in Node \ {n} /\ radio[n].ttl > 0
      /\ held' = [held EXCEPT ![n] = NextHop(n, radio[n])]
      /\ UNCHANGED <<routing_table, sent>>
  BY DEF Forward, ToForward, HopLeft, Take, Addressed
<1>2. /\ radio \in [Node -> Frame \cup {None}] /\ held \in [Node -> Frame \cup {None}]
      /\ TypeOK /\ Spent(radio[n])
  BY <1>1 DEF LineInv, IInv, TypeOK
<1>3. PICK f \in Frame : f = radio[n]
  BY <1>1, <1>2
<1>4. PICK g \in Frame : g = NextHop(n, f)
  BY <1>1, <1>2, <1>3, NextHopSpent DEF Spent
<1>5. /\ g.from = f.from /\ g.to = f.to /\ g.id = f.id /\ g.intact = f.intact
      /\ g.hops = f.hops + 1 /\ g.next = routing_table[n][f.to]
  BY <1>4 DEF NextHop, Frame
<1>6. /\ radio'[n] = None /\ held'[n] = g
      /\ \A m \in Node : m # n => radio'[m] = radio[m] /\ held'[m] = held[m]
  BY <1>1, <1>2, <1>3, <1>4
<1>7. ~ Live("radio", n)' /\ ~ Live("held", n) /\ In("held", n)' = g
  BY <1>1, <1>6 DEF Live, In
<1>8. \A q \in Places, m \in Node : Live(q, m)' =>
         (q = "held" /\ m = n) \/ (Live(q, m) /\ In(q, m)' = In(q, m))
  BY <1>6, <1>7 DEF Live, In, Places
<1>9. "radio" \in Places /\ "held" \in Places
  BY DEF Places
<1>10. \A s, d \in Node : sent[s][d] =< sent'[s][d]
  <2>1. \A s, d \in Node : sent[s][d] \in Nat
    BY <1>2 DEF TypeOK
  <2> QED
    BY <1>1, <2>1
<1>11. CASE f.intact
  <2>1. Live("radio", n) /\ In("radio", n) = f
    BY <1>1, <1>3, <1>11 DEF Live, In
  <2>2. Placed("radio", n, f)
    BY <1>9, <2>1 DEF LineInv, OnTheirWay
  <2>3. Placed("held", n, g)
    <3>1. g.hops > 0
      BY <1>5 DEF Frame
    <3> QED
      BY <1>1, <1>3, <1>5, <2>2, <3>1 DEF Placed
  <2>4. SamePair(f, g) /\ Position("held", g) = Position("radio", f) + 1
    BY <1>5 DEF SamePair, Position, Frame
  <2>5. OnTheirWay' /\ InOrder'
    BY <1>1, <1>5, <1>7, <1>8, <1>9, <2>1, <2>3, <2>4, OneMoves
  <2>6. ASSUME NEW p \in Places, NEW m \in Node, Live(p, m)'
        PROVE  \E q \in Places : /\ Live(q, m) /\ SamePair(In(q, m), In(p, m)')
                                 /\ In(p, m)'.id = In(q, m).id
    <3>1. CASE p = "held" /\ m = n
      BY <1>5, <1>7, <1>9, <2>1, <2>4, <3>1
    <3>2. CASE Live(p, m) /\ In(p, m)' = In(p, m)
      BY <3>2 DEF SamePair
    <3> QED
      BY <1>8, <2>6, <3>1, <3>2
  <2> QED
    BY <2>5, <2>6
<1>12. CASE ~ f.intact
  <2>1. ~ Live("held", n)'
    BY <1>5, <1>7, <1>12 DEF Live
  <2>2. \A q \in Places, m \in Node : Live(q, m)' => Live(q, m) /\ In(q, m)' = In(q, m)
    BY <1>8, <2>1
  <2>3. OnTheirWay' /\ InOrder'
    BY <1>1, <1>10, <2>2, Fewer
  <2> QED
    BY <2>2, <2>3 DEF SamePair
<1> QED
  BY <1>11, <1>12

LEMMA LineRelay ==
    ASSUME LineInv, IInv', NEW n \in Node, Relay(n)
    PROVE  /\ OnTheirWay' /\ InOrder'
           /\ \A p \in Places, m \in Node : Live(p, m)' =>
                 \E q \in Places, k \in Node :
                    /\ Live(q, k) /\ SamePair(In(q, k), In(p, m)')
                    /\ In(p, m)'.id = In(q, k).id
<1>1. /\ held[n] # None /\ Broadcast(n, held[n]) /\ held' = [held EXCEPT ![n] = None]
      /\ UNCHANGED <<routing_table, sent>>
  BY DEF Relay, Broadcast
<1>2. held \in [Node -> Frame \cup {None}] /\ TypeOK
  BY DEF LineInv, IInv, TypeOK
<1>3. PICK f \in Frame : f = held[n]
  BY <1>1, <1>2
<1>4. held'[n] = None /\ \A m \in Node : m # n => held'[m] = held[m]
  BY <1>1, <1>2
<1>5. "radio" \in Places /\ "held" \in Places
  BY DEF Places
<1>6. \A s, d \in Node : sent[s][d] =< sent'[s][d]
  <2>1. \A s, d \in Node : sent[s][d] \in Nat
    BY <1>2 DEF TypeOK
  <2> QED
    BY <1>1, <2>1
<1>7. \A q \in Places, m \in Node : Live(q, m)' =>
         \/ q = "radio" /\ m = f.next /\ radio[m] = None /\ In(q, m)' = f /\ f.intact
         \/ Live(q, m) /\ In(q, m)' = In(q, m)
  <2> SUFFICES ASSUME NEW q \in Places, NEW m \in Node, Live(q, m)'
               PROVE  \/ q = "radio" /\ m = f.next /\ radio[m] = None /\ In(q, m)' = f /\ f.intact
                      \/ Live(q, m) /\ In(q, m)' = In(q, m)
    OBVIOUS
  <2>1. CASE q = "radio"
    <3>1. \/ Live("radio", m) /\ radio'[m] = radio[m]
          \/ f.intact /\ m = f.next /\ radio[m] = None /\ radio'[m] = f
      BY <1>1, <1>3, <2>1, BroadcastLive DEF LineInv
    <3> QED
      BY <2>1, <3>1 DEF In
  <2>2. CASE q = "held"
    BY <1>4, <2>2 DEF Live, In
  <2> QED
    BY <2>1, <2>2 DEF Places
<1>8. CASE f.intact /\ radio[f.next] = None
  <2>1. Live("held", n) /\ In("held", n) = f /\ ~ Live("held", n)'
    BY <1>1, <1>3, <1>4, <1>8 DEF Live, In
  <2>2. Placed("held", n, f)
    BY <1>5, <2>1 DEF LineInv, OnTheirWay
  <2>3. PICK m \in Node : m = f.next
    BY <1>2, <2>2, TableEntry DEF Placed
  <2>4. Placed("radio", m, f)
    <3>1. f.from \in Node /\ f.to \in Node /\ f.hops \in Nat /\ n # f.to /\ m = routing_table[n][f.to]
      BY <2>2, <2>3 DEF Placed, Frame
    <3>2. OnPath(f.from, f.to, f.hops, n)
      BY <2>2 DEF Placed
    <3>3. OnPath(f.from, f.to, f.hops + 1, m)
      BY <3>1, <3>2, PathGoesOn
    <3> QED
      BY <2>2, <3>3 DEF Placed
  <2>5. SamePair(f, f) /\ Position("radio", f) = Position("held", f) + 1
    BY DEF SamePair, Position
  <2>6. ~ Live("radio", m)
    BY <1>8, <2>3 DEF Live, In
  <2>7. Live("radio", m)' => In("radio", m)' = f
    BY <1>5, <1>7, <2>6
  <2>8. \A q \in Places, k \in Node : Live(q, k)' =>
           (q = "radio" /\ k = m) \/ (Live(q, k) /\ In(q, k)' = In(q, k))
    BY <1>7, <2>3
  <2>9. OnTheirWay' /\ InOrder'
    BY <1>1, <1>5, <2>1, <2>4, <2>5, <2>6, <2>7, <2>8, OneMoves
  <2>10. ASSUME NEW p \in Places, NEW k \in Node, Live(p, k)'
         PROVE  \E q \in Places, l \in Node :
                    /\ Live(q, l) /\ SamePair(In(q, l), In(p, k)')
                    /\ In(p, k)'.id = In(q, l).id
    <3>1. CASE In(p, k)' = f
      BY <1>5, <2>1, <2>5, <3>1
    <3>2. CASE Live(p, k) /\ In(p, k)' = In(p, k)
      BY <3>2 DEF SamePair
    <3> QED
      BY <1>7, <2>10, <3>1, <3>2
  <2> QED
    BY <2>9, <2>10
<1>9. CASE ~ (f.intact /\ radio[f.next] = None)
  <2>1. \A q \in Places, m \in Node : Live(q, m)' => Live(q, m) /\ In(q, m)' = In(q, m)
    BY <1>7, <1>9
  <2>2. OnTheirWay' /\ InOrder'
    BY <1>1, <1>6, <2>1, Fewer
  <2> QED
    BY <2>1, <2>2 DEF SamePair
<1> QED
  BY <1>8, <1>9

\* A listener that is done with a frame.
LEMMA LineTake ==
    ASSUME LineInv, IInv', NEW n \in Node,
           Overhear(n) \/ Receive(n) \/ BadAddress(n) \/ Expire(n)
    PROVE  /\ OnTheirWay' /\ InOrder'
           /\ \A p \in Places, m \in Node :
                 Live(p, m)' => /\ Live(p, m) /\ In(p, m)' = In(p, m)
                                /\ ~ (p = "radio" /\ m = n)
<1>1. Take(n) /\ UNCHANGED <<routing_table, sent, held>>
  BY DEF Overhear, Receive, BadAddress, Expire, ToForward, Take
<1>2. \A p \in Places, m \in Node :
         Live(p, m)' => Live(p, m) /\ In(p, m)' = In(p, m) /\ ~ (p = "radio" /\ m = n)
  BY <1>1, TakeLive DEF LineInv
<1>3. \A s, d \in Node : sent[s][d] =< sent'[s][d]
  <2>1. \A s, d \in Node : sent[s][d] \in Nat
    BY DEF LineInv, IInv, TypeOK
  <2> QED
    BY <1>1, <2>1
<1>4. OnTheirWay' /\ InOrder'
  BY <1>1, <1>2, <1>3, Fewer
<1> QED
  BY <1>2, <1>4

LEMMA InitLineInv == Init => LineInv
<1> SUFFICES ASSUME Init PROVE LineInv
  OBVIOUS
<1>1. \A p \in Places, n \in Node : ~ Live(p, n)
  BY DEF Init, Live, In
<1> QED
  BY <1>1, InitIInv DEF LineInv, OnTheirWay, InOrder

LEMMA LineInvStep == LineInv /\ [Next]_vars => LineInv'
<1> SUFFICES ASSUME LineInv, [Next]_vars PROVE LineInv'
  OBVIOUS
<1>1. IInv'
  BY IInvStep DEF LineInv
<1>2. CASE UNCHANGED vars
  <2>1. UNCHANGED <<routing_table, sent, radio, held>>
    BY <1>2 DEF vars
  <2>2. \A s, d \in Node : sent[s][d] =< sent'[s][d]
    <3>1. \A s, d \in Node : sent[s][d] \in Nat
      BY DEF LineInv, IInv, TypeOK
    <3> QED
      BY <2>1, <3>1
  <2>3. \A p \in Places, n \in Node : Live(p, n)' => Live(p, n) /\ In(p, n)' = In(p, n)
    BY <2>1 DEF Live, In
  <2> QED
    BY <1>1, <2>1, <2>2, <2>3, Fewer DEF LineInv
<1>3. ASSUME NEW n \in Node, Listen(n)
      PROVE  OnTheirWay' /\ InOrder'
  BY <1>1, <1>3, LineForward, LineRelay, LineTake DEF Listen
<1>4. ASSUME NEW s \in Node, NEW d \in Node, Send(s, d)
      PROVE  OnTheirWay' /\ InOrder'
  BY <1>1, <1>4, LineSend
<1> QED
  BY <1>1, <1>2, <1>3, <1>4 DEF Next, LineInv

\* In every behaviour the frames of a pair are under way on its path and in their order.
THEOREM LineInvariance == Spec => []LineInv
BY InitLineInv, LineInvStep, PTL DEF Spec
-----------------------------------------------------------------------------
(***************************************************************************)
(* The refinement.                                                         *)
(***************************************************************************)

Travelling ==
    [s \in Node |-> [d \in Node |->
        {f.id : f \in {g \in InFlight : g.intact /\ g.from = s /\ g.to = d}}]]

\* The numbers on the line are those of the intact frames under way.
LEMMA TravellingLive ==
    ASSUME NEW s \in Node, NEW d \in Node, NEW j
    PROVE  j \in Travelling[s][d] <=>
              \E p \in Places, n \in Node : /\ Live(p, n) /\ In(p, n).id = j
                                            /\ In(p, n).from = s /\ In(p, n).to = d
<1> DEFINE Flying(f) == /\ f \in InFlight /\ f.intact /\ f.from = s /\ f.to = d /\ f.id = j
           There(p, n) == /\ Live(p, n) /\ In(p, n).id = j
                          /\ In(p, n).from = s /\ In(p, n).to = d
<1>1. j \in Travelling[s][d] <=> \E f : Flying(f)
  BY DEF Travelling
<1>2. ASSUME NEW f, Flying(f) PROVE \E p \in Places, n \in Node : There(p, n)
  <2>1. CASE \E n \in Node : radio[n] # None /\ radio[n].next = n /\ f = radio[n]
    <3>1. PICK n \in Node : radio[n] # None /\ radio[n].next = n /\ f = radio[n]
      BY <2>1
    <3>2. There("radio", n) /\ "radio" \in Places
      BY <1>2, <3>1 DEF Live, In, Places
    <3> QED
      BY <3>2
  <2>2. CASE \E n \in Node : held[n] # None /\ f = held[n]
    <3>1. PICK n \in Node : held[n] # None /\ f = held[n]
      BY <2>2
    <3>2. There("held", n) /\ "held" \in Places
      BY <1>2, <3>1 DEF Live, In, Places
    <3> QED
      BY <3>2
  <2> QED
    BY <1>2, <2>1, <2>2 DEF InFlight
<1>3. ASSUME NEW p \in Places, NEW n \in Node, There(p, n) PROVE \E f : Flying(f)
  <2>1. In(p, n) \in InFlight /\ In(p, n).intact
    BY <1>3 DEF Live, In, Places, InFlight
  <2> QED
    BY <1>3, <2>1
<1> QED
  BY <1>1, <1>2, <1>3

LEMMA TravellingLiveNext ==
    (\A s \in Node, d \in Node : \A j : j \in Travelling[s][d] <=>
        \E p \in Places, n \in Node : /\ Live(p, n) /\ In(p, n).id = j
                                      /\ In(p, n).from = s /\ In(p, n).to = d)'
<1>1. \A s \in Node, d \in Node : \A j : j \in Travelling[s][d] <=>
        \E p \in Places, n \in Node : /\ Live(p, n) /\ In(p, n).id = j
                                      /\ In(p, n).from = s /\ In(p, n).to = d
  BY TravellingLive
<1> QED
  BY <1>1, PTL

LEMMA InitLine == Init => Line!Init
<1> SUFFICES ASSUME Init PROVE Line!Init
  OBVIOUS
<1>1. InFlight = {}
  BY DEF Init, InFlight
<1>2. Travelling = [s \in Node |-> [d \in Node |-> {}]]
  BY <1>1 DEF Travelling
<1> QED
  BY <1>2 DEF Init, Line!Init, Travelling

\* When every intact frame that is under way was so before, the line has at most lost some.
LEMMA FewerTravel ==
    ASSUME NEW s \in Node, NEW d \in Node,
           \A p \in Places, n \in Node : Live(p, n)' =>
              \E q \in Places, m \in Node : /\ Live(q, m) /\ SamePair(In(q, m), In(p, n)')
                                            /\ In(p, n)'.id = In(q, m).id
    PROVE  Travelling'[s][d] \subseteq Travelling[s][d]
<1> SUFFICES ASSUME NEW j, j \in Travelling'[s][d] PROVE j \in Travelling[s][d]
  OBVIOUS
<1>1. \E p \in Places, n \in Node : /\ Live(p, n)' /\ In(p, n)'.id = j
                                     /\ In(p, n)'.from = s /\ In(p, n)'.to = d
  BY TravellingLiveNext
<1>2. \E q \in Places, m \in Node : /\ Live(q, m) /\ In(q, m).id = j
                                     /\ In(q, m).from = s /\ In(q, m).to = d
  BY <1>1 DEF SamePair
<1> QED
  BY <1>2, TravellingLive

\* A frame at its destination is ahead of all others of its pair.
LEMMA ArrivesFirst ==
    ASSUME LineInv, NEW n \in Node, Live("radio", n), radio[n].to = n,
           NEW p \in Places, NEW m \in Node, Live(p, m), ~ (p = "radio" /\ m = n),
           SamePair(In(p, m), radio[n])
    PROVE  radio[n].id < In(p, m).id
<1>1. "radio" \in Places /\ TypeOK /\ In("radio", n) = radio[n]
  BY DEF Places, LineInv, IInv, In
<1>2. PICK f \in Frame : f = radio[n] /\ Placed("radio", n, f)
  BY <1>1, LiveFrame DEF LineInv, OnTheirWay
<1>3. PICK g \in Frame : g = In(p, m) /\ Placed(p, m, g)
  BY LiveFrame DEF LineInv, OnTheirWay
<1>4. /\ f.hops \in Nat /\ g.hops \in Nat /\ f.hops + 1 \in Nat /\ g.hops + 1 \in Nat
      /\ f.from \in Node /\ f.to = n /\ g.from = f.from /\ g.to = n
  BY <1>2, <1>3 DEF Frame, SamePair
<1>5. OnPath(f.from, n, f.hops + 1, n)
  BY <1>2, <1>4 DEF Placed
<1>6. Position("radio", f) > Position(p, g)
  <2>1. CASE p = "radio"
    <3>1. OnPath(f.from, n, g.hops + 1, m)
      BY <1>3, <1>4, <2>1 DEF Placed
    <3>2. g.hops + 1 =< f.hops + 1
      BY <1>1, <1>4, <1>5, <3>1, PathEnds
    <3>3. g.hops # f.hops
      <4> SUFFICES ASSUME g.hops = f.hops PROVE FALSE
        OBVIOUS
      <4>1. OnPath(f.from, n, f.hops + 1, m)
        BY <3>1
      <4>2. m = n
        BY <1>1, <1>4, <1>5, <4>1, PathFunctional
      <4> QED
        BY <2>1, <4>2
    <3> QED
      BY <1>4, <2>1, <3>2, <3>3 DEF Position
  <2>2. CASE p = "held"
    <3>1. OnPath(f.from, n, g.hops, m) /\ m # n
      BY <1>3, <1>4, <2>2 DEF Placed
    <3>2. g.hops =< f.hops + 1
      BY <1>1, <1>4, <1>5, <3>1, PathEnds
    <3>3. g.hops # f.hops + 1
      <4> SUFFICES ASSUME g.hops = f.hops + 1 PROVE FALSE
        OBVIOUS
      <4>1. OnPath(f.from, n, f.hops + 1, m)
        BY <3>1
      <4>2. m = n
        BY <1>1, <1>4, <1>5, <4>1, PathFunctional
      <4> QED
        BY <3>1, <4>2
    <3> QED
      BY <1>4, <2>2, <3>2, <3>3 DEF Position
  <2> QED
    BY <2>1, <2>2 DEF Places
<1>7. SamePair(f, g)
  BY <1>2, <1>3 DEF SamePair
<1> QED
  BY <1>1, <1>2, <1>3, <1>6, <1>7 DEF LineInv, InOrder

LEMMA SendRefines ==
    ASSUME LineInv, IInv', NEW s \in Node, NEW d \in Node, Send(s, d)
    PROVE  Line!Send(s, d)
<1>1. \A p \in Places, m \in Node : Live(p, m)' =>
         \/ Live(p, m) /\ In(p, m)' = In(p, m)
         \/ In(p, m)'.from = s /\ In(p, m)'.to = d /\ In(p, m)'.id = sent[s][d] + 1
  BY LineSend
<1>2. sent' = [sent EXCEPT ![s][d] = @ + 1] /\ sent'[s][d] = sent[s][d] + 1
      /\ UNCHANGED received
  BY SentGrows DEF Send, LineInv
<1>3. ASSUME NEW x \in Node, NEW y \in Node, NEW j, j \in Travelling'[x][y]
      PROVE  j \in Travelling[x][y] \/ (x = s /\ y = d /\ j = sent'[s][d])
  <2>1. PICK p \in Places, m \in Node : /\ Live(p, m)' /\ In(p, m)'.id = j
                                        /\ In(p, m)'.from = x /\ In(p, m)'.to = y
    BY <1>3, TravellingLiveNext
  <2>2. CASE Live(p, m) /\ In(p, m)' = In(p, m)
    BY <2>1, <2>2, TravellingLive
  <2> QED
    BY <1>1, <1>2, <2>1, <2>2
<1>4. \A x, y \in Node : <<x, y>> # <<s, d>> => Travelling'[x][y] \subseteq Travelling[x][y]
  BY <1>3
<1>5. Travelling'[s][d] \subseteq Travelling[s][d] \cup {sent'[s][d]}
  BY <1>3
<1> QED
  BY <1>2, <1>4, <1>5 DEF Line!Send, Line!OthersShrink, Travelling

LEMMA ReceiveRefines ==
    ASSUME LineInv, IInv', NEW n \in Node, Receive(n), radio[n].intact
    PROVE  \E s \in Node : \E id \in 1 .. sent[s][n] : Line!Arrive(s, n, id)
<1>1. \A p \in Places, m \in Node :
         Live(p, m)' => Live(p, m) /\ In(p, m)' = In(p, m) /\ ~ (p = "radio" /\ m = n)
  BY LineTake
<1>2. Live("radio", n) /\ In("radio", n) = radio[n] /\ "radio" \in Places /\ radio[n].to = n
  BY DEF Receive, Take, Addressed, Live, In, Places
<1>3. PICK s \in Node : s = radio[n].from
  BY <1>2, LiveFrame DEF LineInv
<1>4. PICK id \in 1 .. sent[s][n] : id = radio[n].id
  BY <1>2, <1>3 DEF LineInv, OnTheirWay, Placed
<1>5. id \in Travelling[s][n]
  BY <1>2, <1>3, <1>4, TravellingLive
<1>6. received' = [received EXCEPT ![n][s] = Append(@, id)] /\ UNCHANGED sent
  BY <1>3, <1>4 DEF Receive
<1>7. Travelling'[s][n] \subseteq {j \in Travelling[s][n] : j > id}
  <2> SUFFICES ASSUME NEW j, j \in Travelling'[s][n]
               PROVE  j \in Travelling[s][n] /\ j > id
    OBVIOUS
  <2>1. PICK p \in Places, m \in Node : /\ Live(p, m)' /\ In(p, m)'.id = j
                                        /\ In(p, m)'.from = s /\ In(p, m)'.to = n
    BY TravellingLiveNext
  <2>2. Live(p, m) /\ In(p, m)' = In(p, m) /\ ~ (p = "radio" /\ m = n)
    BY <1>1, <2>1
  <2>3. j \in Travelling[s][n]
    BY <2>1, <2>2, TravellingLive
  <2>4. SamePair(In(p, m), radio[n])
    BY <1>2, <1>3, <2>1, <2>2 DEF SamePair
  <2>5. id < j
    BY <1>2, <1>4, <2>1, <2>2, <2>4, ArrivesFirst
  <2>6. id \in Nat /\ j \in Nat
    <3>1. In("radio", n).id \in Nat /\ In(p, m).id \in Nat
      BY <1>2, <2>2, LiveFrame DEF LineInv
    <3> QED
      BY <1>2, <1>4, <2>1, <2>2, <3>1
  <2> QED
    BY <2>3, <2>5, <2>6
<1>8. ASSUME NEW x \in Node, NEW y \in Node
      PROVE  Travelling'[x][y] \subseteq Travelling[x][y]
  BY <1>1, FewerTravel DEF SamePair
<1> QED
  BY <1>5, <1>6, <1>7, <1>8 DEF Line!Arrive, Line!OthersShrink, Travelling

LEMMA VanishRefines ==
    ASSUME LineInv, IInv', NEW n \in Node,
           \/ Overhear(n) \/ BadAddress(n) \/ Expire(n) \/ Forward(n) \/ Relay(n)
           \/ Receive(n) /\ ~ radio[n].intact
    PROVE  Line!Vanish
<1>1. UNCHANGED <<sent, received>>
  BY DEF Overhear, BadAddress, Expire, Forward, Relay, Receive
<1>2. \A p \in Places, m \in Node : Live(p, m)' =>
         \E q \in Places, k \in Node : /\ Live(q, k) /\ SamePair(In(q, k), In(p, m)')
                                       /\ In(p, m)'.id = In(q, k).id
  <2>1. CASE Forward(n)
    BY <2>1, LineForward
  <2>2. CASE Relay(n)
    BY <2>2, LineRelay
  <2>3. CASE Overhear(n) \/ BadAddress(n) \/ Expire(n) \/ Receive(n)
    BY <2>3, LineTake DEF SamePair
  <2> QED
    BY <2>1, <2>2, <2>3
<1>3. \A s, d \in Node : Travelling'[s][d] \subseteq Travelling[s][d]
  BY <1>2, FewerTravel
<1> QED
  BY <1>1, <1>3 DEF Line!Vanish, Travelling

LEMMA StutterRefines ==
    ASSUME UNCHANGED vars
    PROVE  UNCHANGED Line!vars
BY DEF vars, Line!vars, InFlight

\* What LoraTransport assumes of the network: for every network, whatever its tables, and
\* whatever frames with damaged addresses do beside them, the frames of a pair that arrive
\* do so once, in the order they were sent, and at the device they were sent to.
THEOREM MeshImplementsLine == Spec => ImplementsLine
<1>1. LineInv /\ LineInv' /\ [Next]_vars => [Line!Next]_(Line!vars)
  <2> SUFFICES ASSUME LineInv, LineInv', [Next]_vars
               PROVE  Line!Next \/ UNCHANGED Line!vars
    OBVIOUS
  <2>1. IInv'
    BY DEF LineInv
  <2>2. CASE UNCHANGED vars
    BY <2>2, StutterRefines
  <2>3. ASSUME NEW n \in Node, Listen(n) PROVE Line!Next
    <3>1. CASE Receive(n) /\ radio[n].intact
      BY <2>1, <3>1, ReceiveRefines DEF Line!Next
    <3>2. CASE ~ (Receive(n) /\ radio[n].intact)
      BY <2>1, <2>3, <3>2, VanishRefines DEF Listen, Line!Next
    <3> QED
      BY <3>1, <3>2
  <2>4. ASSUME NEW s \in Node, NEW d \in Node, Send(s, d) PROVE Line!Next
    BY <2>1, <2>4, SendRefines DEF Line!Next
  <2> QED
    BY <2>2, <2>3, <2>4 DEF Next
<1> QED
  BY <1>1, InitLine, LineInvariance, PTL DEF Spec, ImplementsLine, Line!Spec
-----------------------------------------------------------------------------
(***************************************************************************)
(* Nothing is lost where no transmission is.                               *)
(***************************************************************************)

\* The path from s reaches d within the forwardings that the TTL allows.
Served(s, d) == \E j \in 0 .. INIT_TTL + 1 : OnPath(s, d, j, d)

\* As long as nothing but the TTL has stopped a frame, what has not been received is still
\* under way.
Complete ==
    clear => \A s, d \in Node : Served(s, d) =>
        /\ received[d][s] = [i \in 1 .. Len(received[d][s]) |-> i]
        /\ Len(received[d][s]) =< sent[s][d]
        /\ Travelling[s][d] = Len(received[d][s]) + 1 .. sent[s][d]
-----------------------------------------------------------------------------
(***************************************************************************)
(* Within, the pairs that the tables connect.  Its recursion is unfolded   *)
(* by exhibiting a function that solves its equation, and the induction on *)
(* the number of forwardings goes by the least counterexample.             *)
(***************************************************************************)

LEMMA LeastNatural ==
    ASSUME NEW T \in SUBSET Nat, T # {}
    PROVE  \E x \in T : \A y \in T : x =< y
<1> DEFINE R == OpToRel(<, Nat)
<1>1. \A i, j \in Nat : i < j => <<i, j>> \in R
  BY DEF OpToRel
<1>2. IsWellFoundedOn(R, Nat)
  BY NatLessThanWellFounded
<1> HIDE DEF R
<1>3. PICK x \in T : \A y \in T : ~ (<<y, x>> \in R)
  BY <1>2, WFMin
<1>4. \A y \in T : ~ (y < x)
  BY <1>1, <1>3
<1>5. \A y \in T : x =< y
  BY <1>4
<1> QED
  BY <1>5

\* One hop is enough, and what is left of the way after the first.
Near == {p \in Node \X Node : routing_table[p[1]][p[2]] = p[2]}

Rest(p) == <<routing_table[p[1]][p[2]], p[2]>>

Solves(W) ==
    W = [k \in Nat |-> IF k = 0 THEN Near
                       ELSE {p \in Node \X Node : p \in W[0] \/ Rest(p) \in W[k - 1]}]

\* A set of pairs <<k, p>> that holds all p with one hop, and p with k + 1 if the rest of its
\* way with k.
Closed(S) ==
    /\ \A k \in Nat, p \in Near : <<k, p>> \in S
    /\ \A k \in Nat, p \in Node \X Node : <<k, Rest(p)>> \in S => <<k + 1, p>> \in S

Reaches(k, p) == \A S \in SUBSET (Nat \X (Node \X Node)) : Closed(S) => <<k, p>> \in S

LEMMA NearReaches ==
    ASSUME NEW k \in Nat, NEW p \in Near
    PROVE  Reaches(k, p)
BY DEF Reaches, Closed

LEMMA ReachesGoesOn ==
    ASSUME NEW k \in Nat, NEW p \in Node \X Node, Reaches(k, Rest(p))
    PROVE  Reaches(k + 1, p)
BY DEF Reaches, Closed

\* The converse: beyond one hop nothing reaches but through the rest of its way.
LEMMA ReachesInverse ==
    ASSUME TypeOK, NEW k \in Nat, NEW p \in Node \X Node, Reaches(k, p), p \notin Near
    PROVE  k # 0 /\ Reaches(k - 1, Rest(p))
<1> SUFFICES ASSUME ~ (k # 0 /\ Reaches(k - 1, Rest(p))) PROVE FALSE
  OBVIOUS
<1> DEFINE S == {x \in Nat \X (Node \X Node) : Reaches(x[1], x[2]) /\ x # <<k, p>>}
<1>1. \A i \in Nat, q \in Near : <<i, q>> \in S
  <2> SUFFICES ASSUME NEW i \in Nat, NEW q \in Near PROVE <<i, q>> \in S
    OBVIOUS
  <2>1. q \in Node \X Node /\ q # p
    BY DEF Near
  <2>2. Reaches(i, q)
    BY NearReaches
  <2> QED
    BY <2>1, <2>2
<1>2. ASSUME NEW i \in Nat, NEW q \in Node \X Node, <<i, Rest(q)>> \in S
      PROVE  <<i + 1, q>> \in S
  <2>1. Reaches(i, Rest(q))
    BY <1>2
  <2>2. Reaches(i + 1, q)
    BY <2>1, ReachesGoesOn
  <2>3. <<i + 1, q>> # <<k, p>>
    <3> SUFFICES ASSUME i + 1 = k, q = p PROVE FALSE
      OBVIOUS
    <3>1. k # 0 /\ k - 1 = i
      OBVIOUS
    <3> QED
      BY <2>1, <3>1
  <2> QED
    BY <2>2, <2>3
<1>3. Closed(S)
  <2> HIDE DEF S
  <2> QED
    BY <1>1, <1>2 DEF Closed
<1>4. S \in SUBSET (Nat \X (Node \X Node))
  OBVIOUS
<1>5. <<k, p>> \in S
  <2> HIDE DEF S
  <2> QED
    BY <1>3, <1>4 DEF Reaches
<1> QED
  BY <1>5

LEMMA Solvable == TypeOK => \E W : Solves(W)
<1> SUFFICES ASSUME TypeOK PROVE \E W : Solves(W)
  OBVIOUS
<1> DEFINE W == [k \in Nat |-> {p \in Node \X Node : Reaches(k, p)}]
<1>1. W[0] = Near
  <2>1. \A p \in Near : p \in Node \X Node /\ Reaches(0, p)
    BY NearReaches DEF Near
  <2>2. \A p \in Node \X Node : Reaches(0, p) => p \in Near
    BY ReachesInverse
  <2> QED
    BY <2>1, <2>2
<1>2. ASSUME NEW k \in Nat, k # 0
      PROVE  W[k] = {p \in Node \X Node : p \in Near \/ Rest(p) \in W[k - 1]}
  <2>1. ASSUME NEW p \in Node \X Node
        PROVE  Reaches(k, p) <=> (p \in Near \/ Reaches(k - 1, Rest(p)))
    <3>1. k - 1 \in Nat /\ (k - 1) + 1 = k
      BY <1>2
    <3>2. p \in Near => Reaches(k, p)
      BY NearReaches
    <3>3. Reaches(k - 1, Rest(p)) => Reaches((k - 1) + 1, p)
      BY <3>1, ReachesGoesOn
    <3>4. Reaches(k, p) /\ p \notin Near => Reaches(k - 1, Rest(p))
      BY ReachesInverse
    <3> QED
      BY <3>1, <3>2, <3>3, <3>4
  <2>2. \A p \in Node \X Node : Rest(p) \in Node \X Node
    BY RoutingAssumption DEF TypeOK, Rest
  <2>3. k - 1 \in Nat
    BY <1>2
  <2>4. W[k] = {p \in Node \X Node : Reaches(k, p)}
    OBVIOUS
  <2>5. \A p \in Node \X Node : Rest(p) \in W[k - 1] <=> Reaches(k - 1, Rest(p))
    BY <2>2, <2>3
  <2> HIDE DEF W
  <2> QED
    BY <2>1, <2>4, <2>5
<1>3. W = [k \in Nat |-> W[k]]
  OBVIOUS
<1> HIDE DEF W
<1>4. Solves(W)
  BY <1>1, <1>2, <1>3 DEF Solves
<1> QED
  BY <1>4

LEMMA WithinSolves ==
    ASSUME \E W : Solves(W)
    PROVE  Solves(Within)
BY DEF Solves, Within, Near, Rest

\* From wherever its path has come, a pair that the tables connect within k forwardings has
\* at most k more on it.
LEMMA WithinPath ==
    ASSUME TypeOK, NEW s \in Node, NEW d \in Node, NEW n \in Nat
    PROVE  \A i \in Nat, x \in Node : OnPath(s, d, i, x) /\ x # d /\ <<x, d>> \in Within[n] =>
              \E j \in 0 .. n : OnPath(s, d, i + j + 1, d)
<1> DEFINE Good(k) == \A i \in Nat, x \in Node :
               OnPath(s, d, i, x) /\ x # d /\ <<x, d>> \in Within[k] =>
                  \E j \in 0 .. k : OnPath(s, d, i + j + 1, d)
           Bad == {k \in Nat : ~ Good(k)}
<1>1. Solves(Within)
  BY Solvable, WithinSolves
<1>2. \A k \in Nat : Within[k] = IF k = 0 THEN Near
                                 ELSE {p \in Node \X Node : p \in Within[0] \/ Rest(p) \in Within[k - 1]}
  BY <1>1 DEF Solves
<1>3. \A k \in Nat, x \in Node : <<x, d>> \in Within[k] =>
         \/ routing_table[x][d] = d
         \/ k # 0 /\ <<routing_table[x][d], d>> \in Within[k - 1]
  <2> SUFFICES ASSUME NEW k \in Nat, NEW x \in Node, <<x, d>> \in Within[k]
               PROVE  \/ routing_table[x][d] = d
                      \/ k # 0 /\ <<routing_table[x][d], d>> \in Within[k - 1]
    OBVIOUS
  <2>1. Within[0] = Near
    BY <1>2
  <2>2. CASE k = 0
    BY <2>1, <2>2 DEF Near
  <2>3. CASE k # 0
    <3>1. <<x, d>> \in Near \/ Rest(<<x, d>>) \in Within[k - 1]
      BY <1>2, <2>1, <2>3
    <3> QED
      BY <2>3, <3>1 DEF Near, Rest
  <2> QED
    BY <2>2, <2>3
<1>4. Bad = {}
  <2> SUFFICES ASSUME Bad # {} PROVE FALSE
    OBVIOUS
  <2>1. PICK k \in Bad : \A l \in Bad : k =< l
    BY LeastNatural
  <2>2. k \in Nat /\ ~ Good(k)
    OBVIOUS
  <2>3. \A l \in Nat : l < k => Good(l)
    <3> HIDE DEF Good
    <3> QED
      BY <2>1, <2>2
  <2>4. Good(k)
    <3> SUFFICES ASSUME NEW i \in Nat, NEW x \in Node, OnPath(s, d, i, x), x # d,
                        <<x, d>> \in Within[k]
                 PROVE  \E j \in 0 .. k : OnPath(s, d, i + j + 1, d)
      OBVIOUS
    <3> HIDE DEF Bad, Good
    <3>1. PICK y \in Node : y = routing_table[x][d]
      BY TableEntry
    <3>2. OnPath(s, d, i + 1, y)
      BY <3>1, PathGoesOn
    <3>3. CASE y = d
      <4>1. 0 \in 0 .. k /\ i + 0 + 1 = i + 1
        BY <2>2
      <4> QED
        BY <3>2, <3>3, <4>1
    <3>4. CASE y # d
      <4>1. k # 0 /\ <<y, d>> \in Within[k - 1]
        BY <1>3, <2>2, <3>1, <3>4
      <4>2. k - 1 \in Nat /\ k - 1 < k /\ i + 1 \in Nat
        BY <2>2, <4>1
      <4>3. Good(k - 1)
        BY <2>3, <4>2
      <4>4. PICK j \in 0 .. k - 1 : OnPath(s, d, (i + 1) + j + 1, d)
        BY <3>2, <3>4, <4>1, <4>2, <4>3 DEF Good
      <4>5. j + 1 \in 0 .. k /\ (i + 1) + j + 1 = i + (j + 1) + 1
        BY <2>2, <4>2
      <4> QED
        BY <4>4, <4>5
    <3> QED
      BY <3>3, <3>4
  <2> QED
    BY <2>2, <2>4
<1>5. Good(n)
  BY <1>4
<1> QED
  BY <1>5

LEMMA WithinServed ==
    ASSUME TypeOK, NEW s \in Node, NEW d \in Node, <<s, d>> \in Within[INIT_TTL]
    PROVE  Served(s, d)
<1>1. OnPath(s, d, 0, s) /\ INIT_TTL \in Nat
  BY PathStarts, RoutingAssumption
<1>2. CASE s = d
  BY <1>1, <1>2 DEF Served
<1>3. CASE s # d
  <2>1. PICK j \in 0 .. INIT_TTL : OnPath(s, d, 0 + j + 1, d)
    BY <1>1, <1>3, WithinPath
  <2>2. j + 1 \in 0 .. INIT_TTL + 1 /\ 0 + j + 1 = j + 1
    BY <1>1
  <2> QED
    BY <2>1, <2>2 DEF Served
<1> QED
  BY <1>2, <1>3
-----------------------------------------------------------------------------
(***************************************************************************)
(* The invariant Complete, step by step.                                   *)
(***************************************************************************)

\* A transmission that disturbs nothing puts the frame into the radio of its next hop.
LEMMA BroadcastClear ==
    ASSUME IInv, NEW n \in Node, NEW f \in Frame, Broadcast(n, f), clear'
    PROVE  /\ clear /\ f.next \in Node /\ radio'[f.next] = f
           /\ \A m \in Node : radio[m] # None => radio'[m] = radio[m]
<1>1. PICK hearers \in SUBSET {x \in Node \ {n} : radio[x] = None}, keep \in BOOLEAN :
        \E bad \in SUBSET hearers, g \in Damaged(f) :
          /\ radio' = [x \in Node |-> IF x \in bad THEN g
                                      ELSE IF x \in hearers THEN f
                                      ELSE IF x = n /\ ~ keep THEN None
                                      ELSE radio[x]]
          /\ clear' = (clear /\ keep /\ f.next \in hearers /\ bad = {})
  BY DEF Broadcast
<1>2. PICK bad \in SUBSET hearers, g \in Damaged(f) :
          /\ radio' = [x \in Node |-> IF x \in bad THEN g
                                      ELSE IF x \in hearers THEN f
                                      ELSE IF x = n /\ ~ keep THEN None
                                      ELSE radio[x]]
          /\ clear' = (clear /\ keep /\ f.next \in hearers /\ bad = {})
  BY <1>1
<1>3. clear /\ keep /\ f.next \in hearers /\ bad = {}
  BY <1>2
<1>4. \A x \in Node : radio'[x] = IF x \in hearers THEN f ELSE radio[x]
  BY <1>2, <1>3
<1> QED
  BY <1>3, <1>4

\* When every intact frame that was under way still is, the line has lost none.
LEMMA NoneTravelLess ==
    ASSUME NEW s \in Node, NEW d \in Node,
           \A p \in Places, n \in Node : Live(p, n) /\ In(p, n).from = s /\ In(p, n).to = d =>
              \E q \in Places, m \in Node : /\ Live(q, m)' /\ SamePair(In(q, m)', In(p, n))
                                            /\ In(q, m)'.id = In(p, n).id
    PROVE  Travelling[s][d] \subseteq Travelling'[s][d]
<1> SUFFICES ASSUME NEW j, j \in Travelling[s][d] PROVE j \in Travelling'[s][d]
  OBVIOUS
<1>1. PICK p \in Places, n \in Node : /\ Live(p, n) /\ In(p, n).id = j
                                      /\ In(p, n).from = s /\ In(p, n).to = d
  BY TravellingLive
<1>2. PICK q \in Places, m \in Node : /\ Live(q, m)' /\ SamePair(In(q, m)', In(p, n))
                                      /\ In(q, m)'.id = j
  BY <1>1
<1>3. In(q, m)'.from = s /\ In(q, m)'.to = d
  BY <1>1, <1>2 DEF SamePair
<1> QED
  BY <1>2, <1>3, TravellingLiveNext

LEMMA TakeKeepsLive ==
    ASSUME IInv, NEW n \in Node, Take(n), UNCHANGED held,
           NEW p \in Places, NEW m \in Node, Live(p, m), ~ (p = "radio" /\ m = n)
    PROVE  Live(p, m)' /\ In(p, m)' = In(p, m)
<1>1. radio' = [radio EXCEPT ![n] = None] /\ radio \in [Node -> Frame \cup {None}]
  BY DEF Take, IInv, TypeOK
<1>2. \A k \in Node : k # n => radio'[k] = radio[k]
  BY <1>1
<1> QED
  BY <1>2 DEF Live, In, Places

LEMMA ServedStays ==
    ASSUME routing_table' = routing_table, NEW s \in Node, NEW d \in Node, Served(s, d)'
    PROVE  Served(s, d)
BY DEF Served, OnPath, Follows

\* A frame of a pair that the path serves does not run out of hops.
LEMMA ServedHasHops ==
    ASSUME LineInv, NEW n \in Node, Live("radio", n), radio[n].to # n,
           Served(radio[n].from, radio[n].to)
    PROVE  radio[n].ttl > 0
<1>1. "radio" \in Places /\ TypeOK /\ In("radio", n) = radio[n] /\ INIT_TTL \in Nat
  BY RoutingAssumption DEF Places, LineInv, IInv, In
<1>2. PICK f \in Frame : f = radio[n] /\ Placed("radio", n, f) /\ Spent(f)
  BY <1>1, LiveFrame DEF LineInv, IInv, OnTheirWay, Live
<1>3. /\ f.hops \in Nat /\ f.ttl \in Nat /\ f.from \in Node /\ f.to \in Node
      /\ f.ttl + f.hops = INIT_TTL /\ f.hops + 1 \in Nat
  BY <1>1, <1>2 DEF Frame, Placed, Spent
<1>4. OnPath(f.from, f.to, f.hops + 1, n)
  BY <1>2 DEF Placed
<1>5. PICK j \in 0 .. INIT_TTL + 1 : OnPath(f.from, f.to, j, f.to)
  BY <1>2 DEF Served
<1>6. f.hops + 1 =< j /\ j \in Nat
  <2>1. j \in Nat
    BY <1>1
  <2> QED
    BY <1>1, <1>3, <1>4, <1>5, <2>1, PathEnds
<1>7. f.ttl # 0
  <2> SUFFICES ASSUME f.ttl = 0 PROVE FALSE
    OBVIOUS
  <2>1. j = f.hops + 1
    BY <1>1, <1>3, <1>6
  <2>2. n = f.to
    BY <1>1, <1>3, <1>4, <1>5, <2>1, PathFunctional
  <2> QED
    BY <1>2, <2>2
<1> QED
  BY <1>2, <1>3, <1>7

\* A step that neither sends nor delivers loses no frame of a pair that the path serves.
LEMMA VanishKeepsServed ==
    ASSUME LineInv, clear', NEW n \in Node,
           \/ Overhear(n) \/ BadAddress(n) \/ Expire(n) \/ Forward(n) \/ Relay(n)
           \/ Receive(n) /\ ~ radio[n].intact,
           NEW s \in Node, NEW d \in Node, Served(s, d)
    PROVE  clear /\ Travelling[s][d] \subseteq Travelling'[s][d]
<1>0. IInv /\ held \in [Node -> Frame \cup {None}] /\ radio \in [Node -> Frame \cup {None}]
  BY DEF LineInv, IInv, TypeOK
<1>1. CASE Overhear(n) \/ BadAddress(n) \/ Expire(n) \/ (Receive(n) /\ ~ radio[n].intact)
  <2>1. Take(n) /\ UNCHANGED held /\ clear
    BY <1>1 DEF Overhear, BadAddress, Expire, Receive, ToForward, Take
  <2>2. ~ (Live("radio", n) /\ radio[n].from = s /\ radio[n].to = d)
    <3> SUFFICES ASSUME Live("radio", n), radio[n].from = s, radio[n].to = d PROVE FALSE
      OBVIOUS
    <3>1. In("radio", n) = radio[n] /\ radio[n].intact /\ radio[n].next = n
      BY DEF Live, In
    <3>2. Expire(n)
      BY <1>1, <3>1 DEF Overhear, BadAddress, Addressed
    <3>3. radio[n].to # n /\ ~ (radio[n].ttl > 0)
      BY <3>2 DEF Expire, ToForward, HopLeft
    <3> QED
      BY <3>3, ServedHasHops
  <2>3. ASSUME NEW p \in Places, NEW m \in Node, Live(p, m), In(p, m).from = s, In(p, m).to = d
        PROVE  Live(p, m)' /\ SamePair(In(p, m)', In(p, m)) /\ In(p, m)'.id = In(p, m).id
    <3>1. ~ (p = "radio" /\ m = n)
      BY <2>2, <2>3 DEF In
    <3> QED
      BY <1>0, <2>1, <2>3, <3>1, TakeKeepsLive DEF SamePair
  <2> QED
    BY <2>1, <2>3, NoneTravelLess
<1>2. CASE Forward(n)
  <2>1. /\ radio' = [radio EXCEPT ![n] = None] /\ held[n] = None /\ radio[n] # None
        /\ radio[n].to \in Node /\ radio[n].ttl > 0 /\ clear
        /\ held' = [held EXCEPT ![n] = NextHop(n, radio[n])] /\ TypeOK /\ Spent(radio[n])
    BY <1>0, <1>2 DEF Forward, ToForward, Take, HopLeft, IInv
  <2>2. PICK f \in Frame : f = radio[n]
    BY <1>0, <2>1
  <2>3. PICK g \in Frame : g = NextHop(n, f)
    BY <2>1, <2>2, NextHopSpent DEF Spent
  <2>4. g.from = f.from /\ g.to = f.to /\ g.id = f.id /\ g.intact = f.intact
    BY <2>3 DEF NextHop, Frame
  <2>5. held'[n] = g /\ \A m \in Node : m # n => radio'[m] = radio[m] /\ held'[m] = held[m]
    BY <1>0, <2>1, <2>2, <2>3
  <2>6. g # None
    BY NoneAssumption
  <2>7. ASSUME NEW p \in Places, NEW m \in Node, Live(p, m)
        PROVE  \E q \in Places, k \in Node : /\ Live(q, k)' /\ SamePair(In(q, k)', In(p, m))
                                             /\ In(q, k)'.id = In(p, m).id
    <3>1. CASE m = n
      <4>1. p = "radio" /\ In(p, m) = f /\ f.intact
        BY <2>1, <2>2, <2>7, <3>1 DEF Live, In, Places
      <4>2. Live("held", n)' /\ In("held", n)' = g /\ "held" \in Places
        BY <2>4, <2>5, <2>6, <4>1 DEF Live, In, Places
      <4> QED
        BY <2>4, <4>1, <4>2 DEF SamePair
    <3>2. CASE m # n
      <4>1. Live(p, m)' /\ In(p, m)' = In(p, m)
        BY <2>5, <2>7, <3>2 DEF Live, In
      <4> QED
        BY <4>1 DEF SamePair
    <3> QED
      BY <3>1, <3>2
  <2> QED
    BY <2>1, <2>7, NoneTravelLess
<1>3. CASE Relay(n)
  <2>1. held[n] # None /\ Broadcast(n, held[n]) /\ held' = [held EXCEPT ![n] = None]
    BY <1>3 DEF Relay
  <2>2. PICK f \in Frame : f = held[n]
    BY <1>0, <2>1
  <2>3. /\ clear /\ f.next \in Node /\ radio'[f.next] = f
        /\ \A m \in Node : radio[m] # None => radio'[m] = radio[m]
    BY <1>0, <2>1, <2>2, BroadcastClear
  <2>4. \A m \in Node : m # n => held'[m] = held[m]
    BY <1>0, <2>1
  <2>5. ASSUME NEW p \in Places, NEW m \in Node, Live(p, m)
        PROVE  \E q \in Places, k \in Node : /\ Live(q, k)' /\ SamePair(In(q, k)', In(p, m))
                                             /\ In(q, k)'.id = In(p, m).id
    <3>1. CASE p = "held" /\ m = n
      <4>1. In(p, m) = f /\ f.intact /\ f # None
        BY <2>1, <2>2, <2>5, <3>1 DEF Live, In
      <4>2. Live("radio", f.next)' /\ In("radio", f.next)' = f /\ "radio" \in Places
        BY <2>3, <4>1 DEF Live, In, Places
      <4>3. PICK k \in Node : k = f.next
        BY <2>3
      <4>4. Live("radio", k)' /\ In("radio", k)' = f
        BY <2>3, <4>1, <4>3 DEF Live, In
      <4> QED
        BY <4>1, <4>2, <4>4 DEF SamePair
    <3>2. CASE ~ (p = "held" /\ m = n)
      <4>1. Live(p, m)' /\ In(p, m)' = In(p, m)
        BY <2>3, <2>4, <2>5, <3>2 DEF Live, In, Places
      <4> QED
        BY <4>1 DEF SamePair
    <3> QED
      BY <3>1, <3>2
  <2> QED
    BY <2>3, <2>5, NoneTravelLess
<1> QED
  BY <1>1, <1>2, <1>3

\* What Complete says of one pair.
Whole(s, d) ==
    /\ received[d][s] = [i \in 1 .. Len(received[d][s]) |-> i]
    /\ Len(received[d][s]) =< sent[s][d]
    /\ Travelling[s][d] = Len(received[d][s]) + 1 .. sent[s][d]

\* The next number after the first r of them.
LEMMA AppendNext ==
    ASSUME NEW r \in Nat
    PROVE  Append([i \in 1 .. r |-> i], r + 1) = [i \in 1 .. r + 1 |-> i]
<1> DEFINE S == [i \in 1 .. r |-> i]
<1>1. S \in Seq(Nat) /\ Len(S) = r /\ \A i \in 1 .. r : S[i] = i
  OBVIOUS
<1>2. Append(S, r + 1) \in Seq(Nat) /\ Len(Append(S, r + 1)) = r + 1
  BY <1>1
<1>3. \A i \in 1 .. r + 1 : Append(S, r + 1)[i] = i
  BY <1>1
<1> QED
  BY <1>2, <1>3

LEMMA InitComplete == Init => Complete
<1> SUFFICES ASSUME Init, NEW s \in Node, NEW d \in Node
             PROVE  Whole(s, d)
  BY DEF Complete, Whole
<1>1. received[d][s] = <<>> /\ sent[s][d] = 0
  BY DEF Init
<1>2. InFlight = {}
  BY DEF Init, InFlight
<1>3. Travelling[s][d] = {}
  BY <1>2 DEF Travelling
<1>4. Len(received[d][s]) = 0 /\ 0 + 1 .. 0 = {} /\ received[d][s] = [i \in 1 .. 0 |-> i]
  BY <1>1
<1> QED
  BY <1>1, <1>3, <1>4 DEF Whole

LEMMA SendKeepsWhole ==
    ASSUME LineInv, IInv', clear', NEW x \in Node, NEW y \in Node, Send(x, y),
           NEW s \in Node, NEW d \in Node, Whole(s, d)
    PROVE  clear /\ Whole(s, d)'
<1> DEFINE F == [from |-> x, to |-> y, next |-> routing_table[x][y],
                 ttl |-> INIT_TTL, id |-> sent[x][y] + 1, hops |-> 0, intact |-> TRUE]
<1>0. IInv /\ "radio" \in Places /\ sent \in [Node -> [Node -> Nat]]
      /\ received \in [Node -> [Node -> Seq(Nat)]]
  BY DEF LineInv, IInv, TypeOK, Places
<1>1. sent[x][y] \in Nat /\ sent' = [sent EXCEPT ![x][y] = sent[x][y] + 1]
  BY <1>0 DEF Send
<1>2. F \in Frame
  <2>1. routing_table[x][y] \in Node
    BY TableEntry DEF LineInv, IInv
  <2>2. routing_table[x][y] \in Address /\ y \in Address /\ INIT_TTL \in 0 .. INIT_TTL
        /\ sent[x][y] + 1 \in Nat
    BY <1>1, <2>1, RoutingAssumption DEF Address
  <2> QED
    BY <2>2 DEF Frame
<1>3. Broadcast(x, F) /\ held' = held /\ received' = received
  BY DEF Send
<1>4. PICK f \in Frame : f = F
  BY <1>2
<1>5. f.from = x /\ f.to = y /\ f.id = sent[x][y] + 1 /\ f.intact /\ f # None
  BY <1>4, NoneAssumption
<1> HIDE DEF F
<1>6. /\ clear /\ f.next \in Node /\ radio'[f.next] = f
      /\ \A m \in Node : radio[m] # None => radio'[m] = radio[m]
  BY <1>0, <1>3, <1>4, BroadcastClear
<1>7. Travelling[s][d] \subseteq Travelling'[s][d]
  <2>1. ASSUME NEW p \in Places, NEW m \in Node, Live(p, m)
        PROVE  Live(p, m)' /\ SamePair(In(p, m)', In(p, m)) /\ In(p, m)'.id = In(p, m).id
    BY <1>3, <1>6, <2>1 DEF Live, In, Places, SamePair
  <2> QED
    BY <2>1, NoneTravelLess
<1>8. PICK k \in Node : k = f.next
  BY <1>6
<1>9. Live("radio", k)' /\ In("radio", k)' = f
  BY <1>5, <1>6, <1>8 DEF Live, In
<1>10. Line!Send(x, y)
  BY SendRefines
<1>11. /\ Travelling'[x][y] \subseteq Travelling[x][y] \cup {sent'[x][y]}
       /\ \A a, b \in Node : <<a, b>> # <<x, y>> => Travelling'[a][b] \subseteq Travelling[a][b]
  BY <1>10 DEF Line!Send, Line!OthersShrink, Travelling
<1>12. PICK r \in Nat : r = Len(received[d][s])
  <2>1. received[d][s] \in Seq(Nat)
    BY <1>0
  <2> QED
    BY <2>1
<1>13. CASE s = x /\ d = y
  <2>1. sent'[s][d] = sent[s][d] + 1
    BY <1>0, <1>1, <1>13
  <2>2. sent'[s][d] \in Travelling'[s][d]
    <3>1. PICK j \in Nat : j = sent'[s][d]
      BY <1>1, <1>13, <2>1
    <3>2. /\ Live("radio", k)' /\ In("radio", k)'.id = j
          /\ In("radio", k)'.from = s /\ In("radio", k)'.to = d
      BY <1>1, <1>5, <1>9, <1>13, <2>1, <3>1
    <3>3. \A i : i \in Travelling'[s][d] <=>
            \E p \in Places, m \in Node : /\ Live(p, m)' /\ In(p, m)'.id = i
                                          /\ In(p, m)'.from = s /\ In(p, m)'.to = d
      BY TravellingLiveNext
    <3> QED
      BY <1>0, <3>1, <3>2, <3>3
  <2>3. Travelling'[s][d] = Travelling[s][d] \cup {sent[s][d] + 1}
    BY <1>7, <1>11, <1>13, <2>1, <2>2
  <2>4. PICK n \in Nat : n = sent[s][d]
    BY <1>1, <1>13
  <2>5. r =< n /\ Travelling[s][d] = r + 1 .. n
    BY <1>12, <2>4 DEF Whole
  <2>6. Travelling'[s][d] = r + 1 .. n + 1 /\ r =< n + 1
    BY <2>3, <2>4, <2>5
  <2> QED
    BY <1>3, <1>6, <1>12, <2>1, <2>4, <2>6 DEF Whole
<1>14. CASE ~ (s = x /\ d = y)
  <2>1. sent'[s][d] = sent[s][d]
    BY <1>0, <1>1, <1>14
  <2>2. Travelling'[s][d] = Travelling[s][d]
    BY <1>7, <1>11, <1>14
  <2> QED
    BY <1>3, <1>6, <2>1, <2>2 DEF Whole
<1> QED
  BY <1>13, <1>14

LEMMA VanishKeepsWhole ==
    ASSUME LineInv, IInv', clear', NEW n \in Node,
           \/ Overhear(n) \/ BadAddress(n) \/ Expire(n) \/ Forward(n) \/ Relay(n)
           \/ Receive(n) /\ ~ radio[n].intact,
           NEW s \in Node, NEW d \in Node, Served(s, d), Whole(s, d)
    PROVE  Whole(s, d)'
<1>1. UNCHANGED <<sent, received>> /\ Travelling'[s][d] \subseteq Travelling[s][d]
  BY VanishRefines DEF Line!Vanish, Travelling
<1>2. Travelling[s][d] \subseteq Travelling'[s][d]
  BY VanishKeepsServed
<1> QED
  BY <1>1, <1>2 DEF Whole

LEMMA ReceiveKeepsWhole ==
    ASSUME LineInv, IInv', NEW n \in Node, Receive(n), radio[n].intact,
           NEW s \in Node, NEW d \in Node, Whole(s, d)
    PROVE  Whole(s, d)'
<1>0. IInv /\ "radio" \in Places /\ received \in [Node -> [Node -> Seq(Nat)]]
      /\ sent \in [Node -> [Node -> Nat]]
  BY DEF LineInv, IInv, TypeOK, Places
<1>1. \A p \in Places, m \in Node :
         Live(p, m)' => Live(p, m) /\ In(p, m)' = In(p, m) /\ ~ (p = "radio" /\ m = n)
  BY LineTake
<1>2. /\ Live("radio", n) /\ In("radio", n) = radio[n] /\ radio[n].to = n
      /\ Take(n) /\ UNCHANGED <<held, sent>>
  BY DEF Receive, Take, Addressed, Live, In
<1>3. PICK x \in Node : x = radio[n].from
  BY <1>0, <1>2, LiveFrame
<1>4. PICK id \in Nat : id = radio[n].id
  BY <1>0, <1>2, LiveFrame
<1>5. received' = [received EXCEPT ![n][x] = Append(received[n][x], id)]
  BY <1>3, <1>4 DEF Receive
<1>6. Travelling'[s][d] \subseteq Travelling[s][d]
  BY <1>1, FewerTravel DEF SamePair
<1>7. PICK r \in Nat : r = Len(received[d][s])
  <2>1. received[d][s] \in Seq(Nat)
    BY <1>0
  <2> QED
    BY <2>1
<1>8. PICK k \in Nat : k = sent[s][d]
  BY <1>0
<1>9. r =< k /\ Travelling[s][d] = r + 1 .. k /\ received[d][s] = [i \in 1 .. r |-> i]
  BY <1>7, <1>8 DEF Whole
<1>10. CASE s = x /\ d = n
  <2>1. id \in Travelling[s][d]
    BY <1>0, <1>2, <1>3, <1>4, <1>10, TravellingLive, SMTT(30)
  <2>2. ASSUME NEW j \in Travelling[s][d], j # id
        PROVE  id < j /\ j \in Travelling'[s][d]
    <3>1. PICK p \in Places, m \in Node : /\ Live(p, m) /\ In(p, m).id = j
                                          /\ In(p, m).from = s /\ In(p, m).to = d
      BY TravellingLive
    <3>2. ~ (p = "radio" /\ m = n)
      BY <1>2, <1>4, <2>2, <3>1
    <3>3. SamePair(In(p, m), radio[n])
      BY <1>2, <1>3, <1>10, <3>1 DEF SamePair
    <3>4. radio[n].id < In(p, m).id
      BY <1>2, <3>1, <3>2, <3>3, ArrivesFirst
    <3>5. Live(p, m)' /\ In(p, m)' = In(p, m)
      BY <1>0, <1>2, <3>1, <3>2, TakeKeepsLive, ZenonT(30)
    <3>6. j \in Travelling'[s][d]
      BY <3>1, <3>5, TravellingLiveNext
    <3> QED
      BY <1>4, <3>1, <3>4, <3>6
  <2>3. ASSUME NEW j \in Travelling'[s][d]
        PROVE  j # id
    <3>1. PICK p \in Places, m \in Node : /\ Live(p, m)' /\ In(p, m)'.id = j
                                          /\ In(p, m)'.from = s /\ In(p, m)'.to = d
      BY TravellingLiveNext
    <3>2. Live(p, m) /\ In(p, m)' = In(p, m) /\ ~ (p = "radio" /\ m = n)
      BY <1>1, <3>1
    <3>3. SamePair(In(p, m), radio[n])
      BY <1>2, <1>3, <1>10, <3>1, <3>2 DEF SamePair
    <3>4. radio[n].id < In(p, m).id
      BY <1>2, <3>2, <3>3, ArrivesFirst
    <3>5. In(p, m).id \in Nat
      BY <1>0, <3>2, LiveFrame
    <3> QED
      BY <1>4, <3>1, <3>2, <3>4, <3>5
  <2>4. id = r + 1 /\ r + 1 =< k
    <3>1. id \in r + 1 .. k
      BY <1>9, <2>1
    <3>2. r + 1 \in Travelling[s][d]
      BY <1>9, <3>1
    <3>3. r + 1 # id => id < r + 1
      BY <2>2, <3>2
    <3> QED
      BY <3>1, <3>3
  <2>5. Travelling'[s][d] = r + 2 .. k
    <3>1. ASSUME NEW j \in Travelling'[s][d] PROVE j \in r + 2 .. k
      <4>1. j \in r + 1 .. k /\ j # r + 1
        BY <1>6, <1>9, <2>3, <2>4, <3>1
      <4> QED
        BY <4>1
    <3>2. ASSUME NEW j \in r + 2 .. k PROVE j \in Travelling'[s][d]
      <4>1. j \in r + 1 .. k /\ j # id
        BY <2>4
      <4> QED
        BY <1>9, <2>2, <4>1
    <3> QED
      BY <3>1, <3>2
  <2>6. received'[d][s] = Append([i \in 1 .. r |-> i], r + 1)
    <3>1. received'[n][x] = Append(received[n][x], id)
      BY <1>0, <1>5
    <3> QED
      BY <1>9, <1>10, <2>4, <3>1
  <2>7. received'[d][s] = [i \in 1 .. r + 1 |-> i]
    BY <2>6, AppendNext
  <2>8. Len(received'[d][s]) = r + 1
    BY <2>7
  <2> QED
    BY <1>2, <1>8, <2>4, <2>5, <2>7, <2>8 DEF Whole
<1>11. CASE ~ (s = x /\ d = n)
  <2>1. received'[d][s] = received[d][s]
    BY <1>0, <1>5, <1>11
  <2>2. ASSUME NEW p \in Places, NEW m \in Node, Live(p, m), In(p, m).from = s, In(p, m).to = d
        PROVE  Live(p, m)' /\ SamePair(In(p, m)', In(p, m)) /\ In(p, m)'.id = In(p, m).id
    <3>1. ~ (p = "radio" /\ m = n)
      BY <1>2, <1>3, <1>11, <2>2 DEF In
    <3> QED
      BY <1>0, <1>2, <2>2, <3>1, TakeKeepsLive DEF SamePair
  <2>3. Travelling[s][d] \subseteq Travelling'[s][d]
    BY <2>2, NoneTravelLess
  <2> QED
    BY <1>2, <1>6, <2>1, <2>3 DEF Whole
<1> QED
  BY <1>10, <1>11

LEMMA CompleteStep == LineInv /\ LineInv' /\ Complete /\ [Next]_vars => Complete'
<1> SUFFICES ASSUME LineInv, IInv', Complete, [Next]_vars, clear',
                    NEW s \in Node, NEW d \in Node, Served(s, d)'
             PROVE  Whole(s, d)'
  BY DEF Complete, Whole, LineInv
<1>1. routing_table' = routing_table /\ clear
  <2>1. ASSUME NEW n \in Node, NEW f, Broadcast(n, f) PROVE routing_table' = routing_table /\ clear
    BY <2>1 DEF Broadcast
  <2>2. ASSUME NEW n \in Node, Take(n) PROVE routing_table' = routing_table /\ clear
    BY <2>2 DEF Take
  <2>3. ASSUME NEW n \in Node, Listen(n) PROVE routing_table' = routing_table /\ clear
    <3>1. CASE Relay(n)
      BY <2>1, <3>1 DEF Relay
    <3>2. CASE ~ Relay(n)
      <4>1. Take(n)
        BY <2>3, <3>2 DEF Listen, Overhear, Receive, BadAddress, Expire, Forward, ToForward
      <4> QED
        BY <2>2, <4>1
    <3> QED
      BY <3>1, <3>2
  <2>4. ASSUME NEW n \in Node, NEW m \in Node, Send(n, m) PROVE routing_table' = routing_table /\ clear
    BY <2>1, <2>4 DEF Send
  <2>5. CASE UNCHANGED vars
    BY <2>5 DEF vars
  <2> QED
    BY <2>3, <2>4, <2>5 DEF Next
<1>2. Served(s, d)
  BY <1>1, ServedStays
<1>3. Whole(s, d)
  BY <1>1, <1>2 DEF Complete, Whole
<1>4. CASE UNCHANGED vars
  BY <1>3, <1>4 DEF vars, Whole, Travelling, InFlight
<1>5. ASSUME NEW x \in Node, NEW y \in Node, Send(x, y) PROVE Whole(s, d)'
  BY <1>3, <1>5, SendKeepsWhole
<1>6. ASSUME NEW n \in Node, Listen(n) PROVE Whole(s, d)'
  <2>1. CASE Receive(n) /\ radio[n].intact
    BY <1>3, <2>1, ReceiveKeepsWhole
  <2>2. CASE ~ (Receive(n) /\ radio[n].intact)
    BY <1>2, <1>3, <1>6, <2>2, VanishKeepsWhole DEF Listen
  <2> QED
    BY <2>1, <2>2
<1> QED
  BY <1>4, <1>5, <1>6 DEF Next

\* As long as nothing but the TTL stops a frame, each pair that the path serves has received
\* its frames in order, and the others are under way.
THEOREM NothingIsLost == Spec => []Complete
BY InitComplete, CompleteStep, LineInvariance, PTL DEF Spec

\* When every transmission so far has reached its next hop and the network is silent again,
\* all frames between devices that the tables connect within the TTL have been received,
\* once and in the order they were sent, on any network (send, try_receive, _forward).
THEOREM AllFramesArrive == Spec => []AllArrive
<1>1. LineInv /\ Complete => AllArrive
  <2> SUFFICES ASSUME LineInv, Complete, clear, Silent, NEW p \in Within[INIT_TTL]
               PROVE  received[p[2]][p[1]] = [i \in 1 .. sent[p[1]][p[2]] |-> i]
    BY DEF AllArrive
  <2>1. TypeOK /\ INIT_TTL \in Nat /\ sent \in [Node -> [Node -> Nat]]
        /\ received \in [Node -> [Node -> Seq(Nat)]]
    BY RoutingAssumption DEF LineInv, IInv, TypeOK
  <2>2. p \in Node \X Node
    <3>1. Solves(Within)
      BY <2>1, Solvable, WithinSolves
    <3>2. Within[INIT_TTL] \subseteq Node \X Node
      BY <2>1, <3>1 DEF Solves, Near
    <3> QED
      BY <3>2
  <2>3. PICK s \in Node, d \in Node : p = <<s, d>>
    BY <2>2
  <2>4. Served(s, d)
    BY <2>1, <2>3, WithinServed
  <2>5. Whole(s, d)
    BY <2>4 DEF Complete, Whole
  <2>6. Travelling[s][d] = {}
    <3>1. InFlight = {}
      BY DEF Silent, InFlight
    <3> QED
      BY <3>1 DEF Travelling
  <2>7. PICK n \in Nat : n = sent[s][d]
    BY <2>1
  <2>8. PICK r \in Nat : r = Len(received[d][s])
    <3>1. received[d][s] \in Seq(Nat)
      BY <2>1
    <3> QED
      BY <3>1
  <2>9. r =< n /\ r + 1 .. n = {} /\ received[d][s] = [i \in 1 .. r |-> i]
    BY <2>5, <2>6, <2>7, <2>8 DEF Whole
  <2>10. r = n
    <3> SUFFICES ASSUME r # n PROVE FALSE
      OBVIOUS
    <3>1. r + 1 \in r + 1 .. n
      BY <2>9
    <3> QED
      BY <2>9, <3>1
  <2> QED
    BY <2>3, <2>7, <2>9, <2>10
<1> QED
  BY <1>1, LineInvariance, NothingIsLost, PTL
=============================================================================
