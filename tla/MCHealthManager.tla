-------------------------- MODULE MCHealthManager --------------------------
(***************************************************************************)
(* Instances of HealthManager for TLC: two hosts, discovered alone, both,   *)
(* or with the second one disabled; two resolvers, so that one can replace  *)
(* the other.                                                               *)
(***************************************************************************)
EXTENDS HealthManager

CONSTANTS h1, h2, r1, r2

On(h) == [host |-> h, enabled |-> TRUE]
Off(h) == [host |-> h, enabled |-> FALSE]
MCDiscovery == {<<On(h1), On(h2)>>, <<On(h2)>>, <<Off(h2), On(h1)>>}
MCConfig == {<<2, 1, 2>>, <<1, 2, 1>>}

\* From here every other initial state is one or two changes away.
MCInit == Init /\ up = {h1} /\ resolverChan[First] = <<On(h1), On(h2)>> /\ rise = 2
MCSpec == MCInit /\ [][Next]_vars /\ Fairness
=============================================================================
