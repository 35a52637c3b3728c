---------------------------- MODULE MCDataPlane ----------------------------
(***************************************************************************)
(* Instances of DataPlane for TLC: two vips; a1 and a2 are two ports of the *)
(* first one, aS is a1 with another scheduler, b1 a service of the second;   *)
(* route ra has an alternative raN with other attributes, rb has a longer   *)
(* hold time.                                                               *)
(***************************************************************************)
EXTENDS DataPlane

CONSTANTS va, vb, a1, a2, aS, b1, u1, u2, ra, raN, rb

MCVipOf == [s \in {a1, a2, aS, b1} |-> IF s = b1 THEN vb ELSE va]
MCSlotOf == [s \in {a1, a2, aS, b1} |-> IF s = aS THEN a1 ELSE s]
MCPrefixOf == [r \in {ra, raN, rb} |-> IF r = rb THEN vb ELSE va]
MCCovers == [r \in {ra, raN, rb} |-> IF r = rb THEN {vb} ELSE {va}]
MCHoldOf == [r \in {ra, raN, rb} |-> IF r = rb THEN 2 ELSE 1]

\* A state with the reals t[s] for the services in the domain of t.
State(t, routes) ==
    [ipvs   |-> [s \in Service |->
                    IF s \in DOMAIN t
                    THEN [u \in Upstream |-> IF u \in DOMAIN t[s] THEN t[s][u] ELSE NoReal]
                    ELSE NoService],
     addrs  |-> {VipOf[s] : s \in DOMAIN t},
     routes |-> routes]

\* f :> x without the TLC module's operators on functions.
One(u, w) == [x \in {u} |-> w]
Two(w1, w2) == [x \in {u1, u2} |-> IF x = u1 THEN w1 ELSE w2]

MCDesiredState ==
    {State([s \in {a1} |-> One(u1, 1)], {ra}),                     \* one balancer
     State([s \in {a1, b1} |-> IF s = a1 THEN Two(0, 1) ELSE One(u1, 1)], {ra, rb}),
     State([s \in {a2} |-> One(u2, 1)], {ra}),                     \* handover within a vip
     State([s \in {aS} |-> One(u1, 1)], {ra}),                     \* another scheduler
     State([s \in {a1} |-> One(u2, 1)], {raN}),                    \* new attributes, new real
     State([s \in {b1} |-> Two(1, 0)], {rb}),                      \* a replaced by b
     State([s \in {a1} |-> One(u1, 0)], {})}                       \* initial state: no route
=============================================================================
