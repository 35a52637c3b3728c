--------------------------- MODULE MCControlPlane ---------------------------
(***************************************************************************)
(* Instances of ControlPlane for TLC: two balancers on one address that     *)
(* share a route or whose prefixes are nested, one of them removed, added   *)
(* again or given another weight, and a configuration that fails half-way.  *)
(***************************************************************************)
EXTENDS ControlPlane

CONSTANTS b1, b2, h1, h2, wide, narrow

MCVip == [b \in Balancer |-> "vip"]
MCCovers == {<<wide, wide>>, <<wide, narrow>>, <<narrow, narrow>>}

With(b, weight, route, ratio) ==
    [key |-> b, conf |-> [weight |-> weight, route |-> route, ratio |-> ratio, ok |-> TRUE]]
Bad(b) ==
    [key |-> b, conf |-> [weight |-> 1, route |-> wide, ratio |-> 0, ok |-> FALSE]]

MCConfig ==
    {<<With(b1, 1, narrow, 0), With(b2, 1, wide, 60)>>,  \* nested prefixes
     <<With(b1, 2, narrow, 0)>>,                         \* b2 removed, b1 reweighted
     <<With(b1, 2, wide, 0), Bad(b2)>>,                  \* stops half-way
     <<With(b1, 1, NoRoute, 0), With(b2, 1, wide, 0)>>}  \* b1 without BGP attributes
=============================================================================
