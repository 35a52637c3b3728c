----------------------------- MODULE Reconciler -----------------------------
(***************************************************************************)
(* What the data plane manager promises its users, without how it gets      *)
(* there: a call moves the data plane from where it is to a target, item by *)
(* item, make before break, and reports success only at the target.  It may *)
(* fail anywhere, and the process may die anywhere.  DataPlane implements   *)
(* this.                                                                    *)
(***************************************************************************)
CONSTANTS
    Service, Upstream, NoService, NoReal,  \* as in DataPlane
    Target,   \* the states calls can move to, and
    Nowhere   \* the state that Shutdown moves to

VARIABLES
    actual,   \* the services, own addresses and routes that are in place
    target,   \* the state the call under way, or the last one, moves to
    call,     \* "idle", or the call under way: "set" or "shutdown"
    down,     \* Shutdown has been called
    result    \* of the last call: "none" before it returns

vars == <<actual, target, call, down, result>>

Init ==
    /\ actual = Nowhere /\ target = Nowhere
    /\ call = "idle" /\ down = FALSE /\ result = "none"

Has(a, s) == a.ipvs[s] # NoService
Real(a, s, u) == IF Has(a, s) THEN a.ipvs[s][u] ELSE NoReal

\* Between a and b every item stays, or becomes what it is in t.
Towards(a, b, t) ==
    /\ \A s \in Service : Has(b, s) \in {Has(a, s), Has(t, s)}
    /\ \A s \in Service, u \in Upstream : Real(b, s, u) \in {Real(a, s, u), Real(t, s, u)}
    /\ a.addrs \cap t.addrs \subseteq b.addrs /\ b.addrs \subseteq a.addrs \cup t.addrs
    /\ a.routes \cap t.routes \subseteq b.routes /\ b.routes \subseteq a.routes \cup t.routes

\* The balancers of t, with exactly their reals, and the addresses of t are in a.
Made(a, t) ==
    /\ \A s \in Service : Has(t, s) => Has(a, s)
    /\ \A s \in Service, u \in Upstream : Has(t, s) => Real(a, s, u) = Real(t, s, u)
    /\ t.addrs \subseteq a.addrs

\* Old routes go before anything else is touched; new routes come when all they
\* need is there; services and addresses go when everything of t is there.
MakeBeforeBreak(a, b, t) ==
    /\ a.routes \subseteq t.routes \/ (b.ipvs = a.ipvs /\ b.addrs = a.addrs)
    /\ b.routes \subseteq a.routes \/ Made(a, t)
    /\ \/ (\A s \in Service : Has(a, s) => Has(b, s)) /\ a.addrs \subseteq b.addrs
       \/ Made(a, t) /\ t.routes \subseteq a.routes

Set ==
    /\ call = "idle" /\ ~down
    /\ call' = "set" /\ target' \in Target /\ result' = "none"
    /\ UNCHANGED <<actual, down>>

Shutdown ==
    /\ call = "idle" /\ ~down
    /\ call' = "shutdown" /\ target' = Nowhere /\ result' = "none" /\ down' = TRUE
    /\ UNCHANGED actual

Work ==
    /\ call # "idle"
    /\ Towards(actual, actual', target) /\ MakeBeforeBreak(actual, actual', target)
    /\ UNCHANGED <<target, call, down, result>>

Succeed ==
    /\ call # "idle" /\ actual = target
    /\ call' = "idle" /\ result' = "ok"
    /\ UNCHANGED <<actual, target, down>>

Fail ==
    /\ call # "idle"
    /\ call' = "idle" /\ result' = "err"
    /\ UNCHANGED <<actual, target, down>>

\* A call that ends before it looks at anything.  After Shutdown, a second one is
\* skipped with success and Set is refused; a call that cannot read the current
\* state fails, Shutdown has been called all the same.
Refuse ==
    /\ call = "idle"
    /\ \/ down /\ result' \in {"ok", "err"} /\ UNCHANGED down
       \/ ~down /\ result' = "err" /\ down' \in BOOLEAN
    /\ UNCHANGED <<actual, target, call>>

\* A new process has announced nothing and knows of no address of its own.
Crash ==
    /\ actual' = [ipvs |-> actual.ipvs, addrs |-> {}, routes |-> {}]
    /\ target' = Nowhere /\ call' = "idle" /\ down' = FALSE /\ result' = "none"

Next == Set \/ Shutdown \/ Work \/ Succeed \/ Fail \/ Refuse \/ Crash

Spec == Init /\ [][Next]_vars
=============================================================================
