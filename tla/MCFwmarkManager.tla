-------------------------- MODULE MCFwmarkManager --------------------------
(***************************************************************************)
(* An instance of FwmarkManager for TLC: two balancers with up to two       *)
(* upstreams; lists with one address twice are for hosts that resolve to    *)
(* the same address.                                                        *)
(***************************************************************************)
EXTENDS FwmarkManager

CONSTANTS a1, a2, a3

MCLists == {<<>>, <<a1>>, <<a1, a1>>, <<a1, a2>>, <<a2, a3>>}
=============================================================================
