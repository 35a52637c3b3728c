------------------------------ MODULE HandOver ------------------------------
(***************************************************************************)
(* What the health manager promises the balancer that listens on Updates()  *)
(* and calls GetState(): a stored state is seen, unless a newer one is seen *)
(* instead, and without a signal to look again the last look was at the     *)
(* state stored last.  HealthManager implements this with lastUpdateState   *)
(* and a channel with one place.                                            *)
(***************************************************************************)
VARIABLES
    stored,   \* the last state given away
    pending,  \* the reader has a reason to look (again), or has stopped to look
    seen      \* the state the reader has last looked at

vars == <<stored, pending, seen>>

Init == stored = seen /\ pending = FALSE

Store == pending' = TRUE /\ UNCHANGED seen

\* The signal may have been for a state that was seen already, and the one for
\* this state may be yet to come.
Load == pending /\ seen' = stored /\ pending' \in BOOLEAN /\ UNCHANGED stored

Stop == pending' = TRUE /\ UNCHANGED <<stored, seen>>

Next == Store \/ Load \/ Stop

Spec == Init /\ [][Next]_vars
=============================================================================
