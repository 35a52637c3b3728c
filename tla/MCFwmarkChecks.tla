-------------------------- MODULE MCFwmarkChecks --------------------------
(***************************************************************************)
(* An instance of FwmarkChecks for TLC: two hosts, one of which may move to *)
(* another address, and one fwmark for three addresses: it is reused        *)
(* for other addresses and runs out.                                        *)
(***************************************************************************)
EXTENDS FwmarkChecks

CONSTANTS h1, h2, a1, a2, a3

MCAddrsOf == [h \in {h1, h2} |-> IF h = h1 THEN {a1, a3} ELSE {a2}]
MCInitDns == [h \in {h1, h2} |-> IF h = h1 THEN a1 ELSE a2]
=============================================================================
