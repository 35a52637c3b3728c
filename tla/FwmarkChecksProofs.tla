------------------------ MODULE FwmarkChecksProofs ------------------------
(***************************************************************************)
(* Proofs about FwmarkChecks, for any hosts, addresses, fwmarks and file    *)
(* descriptors.  What is known of the fwmark calls of one balancer comes    *)
(* from FwmarkProofs, whose lemmas hold for whatever lists it gets.         *)
(***************************************************************************)
EXTENDS FwmarkChecks, FiniteSetTheorems, TLAPS

P == INSTANCE FwmarkProofs WITH
        Balancer <- {B}, Lists <- Seq(Addr), MaxUpdates <- 0, updates <- 0, twice <- {}, left <- {}

----------------------------------------------------------------------------
(***************************************************************************)
(* The fwmark calls.                                                        *)
(***************************************************************************)
\* What FwmarkProofs assumes holds of the one balancer.
LEMMA Assumed ==
    /\ Base \in Nat /\ MaxFwmark \in Nat /\ 0 \in Nat
    /\ Seq(Addr) \subseteq Seq(Addr) /\ <<>> \in Seq(Addr)
    /\ P!IsFiniteSet({B})
<1>1. P!IsFiniteSet({B})
  <2>1. <<B>> \in Seq({B}) /\ \A s \in {B} : \E n \in 1..Len(<<B>>) : <<B>>[n] = s
    BY SMT
  <2> QED
    BY <2>1 DEF P!IsFiniteSet
<1> QED
  BY <1>1, ChecksAssumption

\* The actions of the two instances of FwmarkManager are the same.
LEMMA SameWork ==
    ASSUME F!Work(B) PROVE P!Work(B)
<1>1. F!mngVars = P!mngVars /\ F!storedVars = P!storedVars
  BY DEF F!mngVars, P!mngVars, F!storedVars, P!storedVars
<1>2. \A op : F!Pop(B, op) => P!Pop(B, op)
  BY DEF F!Pop, P!Pop
<1>3. CASE F!Allocate(B)
  <2>1. P!Allocate(B)
    BY <1>2, <1>3 DEF F!Allocate, P!Allocate, F!AllocateFwmark, P!AllocateFwmark, F!storedVars, P!storedVars
  <2> QED
    BY <2>1 DEF P!Work
<1>4. CASE F!AllocateError(B)
  <2>1. P!AllocateError(B)
    BY <1>2, <1>4 DEF F!AllocateError, P!AllocateError, F!AllocateFails, P!AllocateFails,
                      F!storedVars, P!storedVars, F!mngVars, P!mngVars
  <2> QED
    BY <2>1 DEF P!Work
<1>5. CASE F!Release(B)
  <2>1. P!Release(B)
    BY <1>2, <1>5 DEF F!Release, P!Release, F!ReleaseFwmark, P!ReleaseFwmark,
                      F!storedVars, P!storedVars, F!mngVars, P!mngVars
  <2> QED
    BY <2>1 DEF P!Work
<1>6. CASE F!Generate(B)
  <2>1. P!Generate(B)
    BY <1>2, <1>6 DEF F!Generate, P!Generate, F!Allocated, P!Allocated,
                      F!storedVars, P!storedVars, F!mngVars, P!mngVars
  <2> QED
    BY <2>1 DEF P!Work
<1>7. CASE F!Store(B)
  <2>1. P!Store(B)
    BY <1>2, <1>7 DEF F!Store, P!Store, F!mngVars, P!mngVars
  <2> QED
    BY <2>1 DEF P!Work
<1> QED
  BY <1>3, <1>4, <1>5, <1>6, <1>7 DEF F!Work

LEMMA SameUpdate ==
    ASSUME NEW list, F!UpdateState(B, list) PROVE P!UpdateState(B, list)
<1>1. \A l : F!ToSet(l) = P!ToSet(l)
  BY DEF F!ToSet, P!ToSet
<1>2. \A l, o : F!Without(l, o) = P!Without(l, o)
  BY Zenon DEF F!Without, P!Without, F!ToSet, P!ToSet
<1>3. \A o, l : F!Call(o, l) = P!Call(o, l)
  BY Zenon DEF F!Call, P!Call
<1>4. F!Doubles(list) = P!Doubles(list)
  BY Zenon DEF F!Doubles, P!Doubles
<1> QED
  BY <1>2, <1>3, <1>4, Zenon DEF F!UpdateState, P!UpdateState, F!storedVars, P!storedVars, F!mngVars, P!mngVars

\* The references of the manager stay in order.
LEMMA FwmarkInit ==
    ASSUME Init PROVE P!RInv
<1>1. P!Init
  BY DEF Init, F!Init, P!Init
<1> QED
  BY <1>1, P!InitRefs, Assumed

LEMMA FwmarkStep ==
    ASSUME P!RInv, F!Work(B) \/ \E list \in Seq(Addr) : F!UpdateState(B, list)
    PROVE  P!RInv'
<1>1. P!Step(B)
  BY SameWork, SameUpdate DEF P!Step
<1>2. 0' \in 0..0 /\ B \in {B}
  OBVIOUS
<1> QED
  BY <1>1, <1>2, P!BalancerStep, Assumed

LEMMA FwmarkStutter ==
    ASSUME P!RInv, UNCHANGED fwVars PROVE P!RInv'
<1>1. UNCHANGED P!vars
  BY DEF fwVars, P!vars, P!mngVars, P!storedVars, P!workVars, P!histVars
<1> QED
  BY <1>1, P!StutterRefs, Assumed

\* An allocated fwmark is that of an upstream the balancer has or is getting.
LEMMA AllocatedHeld ==
    ASSUME P!RInv, NEW a \in DOMAIN allocated
    PROVE  a \in Addr /\ P!Holds(B, a)
<1>1. a \in Addr /\ P!Count(a) \in Nat /\ P!Count(a) # 0
  BY P!CountStep, Assumed DEF P!RInv, P!TypeOK, P!IInv
<1>2. P!Count(a) <= P!Cardinality(P!Holders(a))
  BY <1>1 DEF P!RInv, P!Counted
<1>3. P!Holders(a) # {}
  BY <1>1, <1>2, P!FS_EmptySet, Assumed
<1> QED
  BY <1>1, <1>3 DEF P!Holders

(***************************************************************************)
(* With one balancer, the services it has stored are exactly those of the   *)
(* allocated fwmarks, and those it is generating get there: what it has     *)
(* looked up already is in generated, once all calls that change the        *)
(* allocations have been made.                                              *)
(***************************************************************************)
Marked(s) == s.addr \in DOMAIN allocated /\ allocated[s.addr].fwmark = s.fwmark
Mark(a) == [addr |-> a, fwmark |-> allocated[a].fwmark]

Looked(a) ==
    \/ P!Pending(B, "get", a)
    \/ calls[B][1].op \notin P!Changing /\ (a \in DOMAIN allocated => Mark(a) \in generated[B])

Exact ==
    /\ calls[B] = <<>> => /\ \A s \in services[B] : Marked(s)
                          /\ \A a \in DOMAIN allocated : Mark(a) \in services[B]
    /\ calls[B] # <<>> => /\ \A s \in generated[B] : Marked(s)
                          /\ \A a \in P!ToSet(target[B]) : Looked(a)

LEMMA ExactInit ==
    ASSUME Init PROVE Exact
<1>1. calls[B] = <<>> /\ services[B] = {} /\ DOMAIN allocated = {}
  BY DEF Init, F!Init
<1> QED
  BY <1>1 DEF Exact

LEMMA ExactStutter ==
    ASSUME Exact, UNCHANGED fwVars PROVE Exact'
BY DEF fwVars, Exact, Marked, Mark, Looked, P!Pending, P!ToSet

\* A call that changes the allocations is made before anything is looked up.
LEMMA ChangingKeeps ==
    ASSUME P!RInv, Exact, NEW op \in P!Changing, P!Pop(B, op), UNCHANGED generated
    PROVE  Exact'
<1>1. /\ calls[B][1].op = op /\ calls[B] # <<>> /\ calls'[B] # <<>> /\ UNCHANGED target
  <2>1. op # "store"
    BY DEF P!Changing
  <2> QED
    BY <2>1, P!PopIs, Assumed DEF P!RInv, P!Pop
<1>2. generated[B] = {}
  BY <1>1 DEF P!RInv, P!Balancers, P!Marks
<1> PICK a : a = calls[B][1].addr
  OBVIOUS
<1>3. op # "get"
  BY DEF P!Changing
<1>4. \A e : P!Pending(B, "get", e) => P!Pending(B, "get", e)'
  BY <1>3, P!PopGet, Assumed DEF P!RInv
<1>5. \A e \in P!ToSet(target[B]) : P!Pending(B, "get", e)
  BY <1>1 DEF Exact, Looked
<1>6. P!ToSet(target[B])' = P!ToSet(target[B])
  BY <1>1 DEF P!ToSet
<1> QED
  BY <1>1, <1>2, <1>4, <1>5, <1>6 DEF Exact, Looked

LEMMA ExactGenerate ==
    ASSUME P!RInv, Exact, P!Generate(B) PROVE Exact'
<1> PICK a : a = calls[B][1].addr
  OBVIOUS
<1>1. /\ P!Pop(B, "get") /\ UNCHANGED <<allocated, target, services>>
      /\ generated' = [generated EXCEPT ![B] = @ \cup
              (IF P!Allocated(Head(calls[B]).addr)
               THEN {[addr |-> Head(calls[B]).addr, fwmark |-> allocated[Head(calls[B]).addr].fwmark]} ELSE {})]
  BY DEF P!Generate, P!mngVars, P!storedVars, P!Pop
<1>2. /\ Head(calls[B]) = calls[B][1] /\ calls[B] # <<>> /\ calls[B][1].op = "get" /\ calls'[B] # <<>>
      /\ DOMAIN calls[B] = 1..Len(calls[B]) /\ Len(calls[B]) \in Nat \ {0}
      /\ Len(calls'[B]) = Len(calls[B]) - 1 /\ calls'[B] \in Seq(P!Calls)
      /\ \A i \in 1..(Len(calls[B]) - 1) : calls'[B][i] = calls[B][i + 1]
  BY <1>1, P!PopIs, Assumed DEF P!RInv, P!Pop
<1>3. generated'[B] = generated[B] \cup (IF a \in DOMAIN allocated THEN {Mark(a)} ELSE {})
  BY <1>1, <1>2 DEF P!RInv, P!TypeOK, P!Allocated, Mark
<1>4. calls'[B][1].op \notin P!Changing
  <2>1. Len(calls'[B]) # 0
    BY <1>2, P!HeadTail, Assumed
  <2>2. calls'[B][1] = calls[B][2] /\ 1 \in DOMAIN calls[B] /\ 2 \in DOMAIN calls[B]
    BY <1>2, <2>1
  <2>3. \A i, j \in DOMAIN calls[B] : i < j /\ calls[B][j].op \in P!Changing => calls[B][i].op \in P!Changing
    BY DEF P!RInv, P!Balancers, P!CallsOK
  <2>4. "get" \notin P!Changing
    BY DEF P!Changing
  <2> QED
    BY <1>2, <2>2, <2>3, <2>4
<1>5. \A e : P!Pending(B, "get", e) => P!Pending(B, "get", e)' \/ e = a
  BY <1>1, P!PopGet, Assumed DEF P!RInv
<1>6. \A s \in generated'[B] : Marked(s)'
  BY <1>1, <1>2, <1>3 DEF Exact, Marked, Mark
<1>7. \A e : Mark(e)' = Mark(e)
  BY <1>1 DEF Mark
<1>8. ASSUME NEW e \in P!ToSet(target[B]) PROVE Looked(e)'
  <2>1. CASE P!Pending(B, "get", e)
    BY <1>1, <1>3, <1>4, <1>5, <1>7, <2>1 DEF Looked
  <2>2. CASE ~P!Pending(B, "get", e)
    <3>1. e \in DOMAIN allocated => Mark(e) \in generated[B]
      BY <1>2, <2>2 DEF Exact, Looked
    <3> QED
      BY <1>1, <1>3, <1>4, <1>7, <3>1 DEF Looked
  <2> QED
    BY <2>1, <2>2
<1>9. P!ToSet(target[B])' = P!ToSet(target[B])
  BY <1>1 DEF P!ToSet
<1> QED
  BY <1>2, <1>6, <1>8, <1>9 DEF Exact

LEMMA ExactStore ==
    ASSUME P!RInv, Exact, P!Store(B) PROVE Exact'
<1>1. /\ P!Pop(B, "store") /\ UNCHANGED allocated /\ services'[B] = generated[B]
  BY DEF P!Store, P!mngVars, P!RInv, P!TypeOK
<1>2. /\ calls[B] # <<>> /\ calls[B][1].op = "store" /\ calls'[B] = <<>>
      /\ DOMAIN calls[B] = 1..Len(calls[B]) /\ Len(calls[B]) \in Nat \ {0}
  BY <1>1, P!PopIs, Assumed DEF P!RInv, P!Pop
<1>3. \A i \in DOMAIN calls[B] : calls[B][i].op = "store"
  <2>1. \A i \in DOMAIN calls[B] : calls[B][i].op = "store" <=> i = Len(calls[B])
    BY DEF P!RInv, P!Balancers, P!CallsOK
  <2>2. Len(calls[B]) = 1
    <3>1. 1 \in DOMAIN calls[B]
      BY <1>2
    <3> QED
      BY <1>2, <2>1, <3>1
  <2> QED
    BY <1>2, <2>1, <2>2
<1>4. \A o, e : o # "store" => ~P!Pending(B, o, e)
  BY <1>3 DEF P!Pending
<1>5. ASSUME NEW a \in DOMAIN allocated PROVE Mark(a) \in generated[B]
  <2>1. P!Holds(B, a)
    BY AllocatedHeld
  <2>2. a \in P!ToSet(target[B])
    BY <1>2, <1>4, <2>1 DEF P!Holds
  <2> QED
    BY <1>2, <1>4, <2>2 DEF Exact, Looked
<1> QED
  BY <1>1, <1>2, <1>5 DEF Exact, Marked, Mark

LEMMA ExactUpdate ==
    ASSUME P!RInv, Exact, NEW list \in Seq(Addr), P!UpdateState(B, list) PROVE Exact'
<1>1. /\ target'[B] = list /\ generated'[B] = {}
  BY DEF P!UpdateState, P!RInv, P!TypeOK
<1>2. \A a \in P!ToSet(list) : P!Pending(B, "get", a)'
  BY P!StartHolds, Assumed DEF P!RInv
<1>3. calls'[B] # <<>>
  <2>1. P!UpdateCalls(list, upstreams[B]) # <<>>
    BY P!NewCalls, Assumed DEF P!RInv, P!TypeOK
  <2> QED
    BY <2>1 DEF P!UpdateState, P!UpdateCalls, P!RInv, P!Balancers
<1>4. P!ToSet(target[B])' = P!ToSet(list)
  BY <1>1 DEF P!ToSet
<1> QED
  BY <1>1, <1>2, <1>3, <1>4 DEF Exact, Looked

LEMMA ExactStep ==
    ASSUME P!RInv, Exact, F!Work(B) \/ \E list \in Seq(Addr) : F!UpdateState(B, list)
    PROVE  Exact'
<1>1. CASE P!Allocate(B) \/ P!AllocateError(B) \/ P!Release(B)
  BY <1>1, ChangingKeeps DEF P!Allocate, P!AllocateError, P!Release, P!Changing
<1> QED
  BY <1>1, SameWork, SameUpdate, ExactGenerate, ExactStore, ExactUpdate DEF P!Work

----------------------------------------------------------------------------
(***************************************************************************)
(* The checks.                                                              *)
(***************************************************************************)
\* How many descriptors a check has.
Held(pc) == IF pc \in {"dialing", "connected"} THEN 1 ELSE IF pc = "wrapped" THEN 2 ELSE 0

\* A check has descriptors from its dial to its end, and there is none between two
\* cycles of checks.
ChecksOK ==
    /\ checks \in [Host -> [pc : {"none", "todo", "dialing", "connected", "wrapped", "done"}, fds : Seq(Fd)]]
    /\ \A h \in Host : Len(checks[h].fds) = Held(checks[h].pc)
    /\ ~checking => \A h \in Host : checks[h].fds = <<>>

Descriptors == ChecksOK /\ DOMAIN open \subseteq Fd /\ finalizers \subseteq Fd /\ NoLeak

Entries ==
    /\ dns \in [Host -> Addr] /\ discovered \subseteq Host
    /\ DOMAIN entries \subseteq Host /\ stored \subseteq Host
    /\ \A h \in DOMAIN entries : entries[h] \in [addr : Addr, healthy : BOOLEAN]

Goal == [marks : [F!Fwmark -> SUBSET Addr], vip : SUBSET Addr]

Kernel ==
    /\ kmarks \in [F!Fwmark -> SUBSET Addr] /\ kvip \subseteq Addr
    /\ goal = NoGoal \/ goal \in Goal

Counters == changes \in 0..MaxChanges /\ faults \in 0..MaxFaults

\* An open descriptor is that of a socket.
Sockets == \A fd \in DOMAIN open : DOMAIN open[fd] = {"mark", "peer"}

IInv == P!RInv /\ Exact /\ Descriptors /\ Sockets /\ Entries /\ Kernel /\ Counters

\* The list of what some hosts' names resolve to.
LEMMA ListOf ==
    ASSUME NEW S, S \subseteq Host, dns \in [Host -> Addr]
    PROVE  [i \in DOMAIN SetToSeq(S) |-> dns[SetToSeq(S)[i]]] \in Seq(Addr)
<1>1. IsFiniteSet(S)
  BY ChecksAssumption, FS_Subset
<1>2. Cardinality(S) \in Nat /\ ExistsBijection(1..Cardinality(S), S)
  BY <1>1, FS_CardinalityType
<1>3. \E f \in [1..Cardinality(S) -> S] : IsInjective(f)
  BY <1>2 DEF ExistsBijection, Bijection, Injection, IsInjective
<1>4. SetToSeq(S) \in [1..Cardinality(S) -> S]
  BY <1>3 DEF SetToSeq
<1> QED
  BY <1>2, <1>4

\* The least free descriptor.
LEMMA OpenedIs ==
    ASSUME NEW mark, NEW peer, DOMAIN open \subseteq Fd, Fd \ DOMAIN open # {}
    PROVE  LET new == Opened(mark, peer) IN
           new.fd \in Fd \ DOMAIN open /\ DOMAIN new.open = DOMAIN open \cup {new.fd}
<1> DEFINE Free == Fd \ DOMAIN open
           fd == CHOOSE n \in Free : \A m \in Free : n <= m
<1>1. Free \subseteq Nat /\ Free # {}
  BY ChecksAssumption
<1>2. \E n \in Free : \A m \in Free : n <= m
  BY <1>1, P!LeastNat, Assumed
<1>3. fd \in Free
  BY <1>2
<1>4. Opened(mark, peer).fd = fd /\ DOMAIN Opened(mark, peer).open = DOMAIN open \cup {fd}
  BY DEF Opened
<1> QED
  BY <1>3, <1>4

\* A check that ends has closed its descriptors.
LEMMA EndKeeps ==
    ASSUME Descriptors, NEW h \in Host, checking,
           checks' = [checks EXCEPT ![h] = [pc |-> "done", fds |-> <<>>]], UNCHANGED checking,
           DOMAIN open' \subseteq DOMAIN open, \A fd \in ToSet(checks[h].fds) : fd \notin DOMAIN open',
           finalizers' \subseteq Fd
    PROVE  Descriptors'
<1> DEFINE Pc == {"none", "todo", "dialing", "connected", "wrapped", "done"}
<1>1. checks \in [Host -> [pc : Pc, fds : Seq(Fd)]]
  BY DEF Descriptors, ChecksOK
<1>2. checks'[h] = [pc |-> "done", fds |-> <<>>] /\ \A g \in Host \ {h} : checks'[g] = checks[g]
  BY <1>1
<1>3. checks' \in [Host -> [pc : Pc, fds : Seq(Fd)]]
  <2>1. [pc |-> "done", fds |-> <<>>] \in [pc : Pc, fds : Seq(Fd)]
    OBVIOUS
  <2> DEFINE Item == [pc : Pc, fds : Seq(Fd)]
  <2> HIDE DEF Item, Pc
  <2> QED
    BY <1>1, <2>1
<1>4. \A g \in Host : Len(checks'[g].fds) = Held(checks'[g].pc)
  <2>1. Held("done") = 0
    BY DEF Held
  <2> QED
    BY <1>2, <2>1 DEF Descriptors, ChecksOK
<1>5. ChecksOK'
  BY <1>3, <1>4 DEF ChecksOK
<1>6. NoLeak'
  <2> SUFFICES ASSUME NEW fd \in DOMAIN open' PROVE \E g \in Host : fd \in ToSet(checks'[g].fds)
    BY DEF NoLeak, ToSet
  <2>1. PICK g \in Host : fd \in ToSet(checks[g].fds)
    BY DEF Descriptors, NoLeak
  <2>2. g # h
    BY <2>1
  <2> QED
    BY <1>2, <2>1, <2>2
<1> QED
  BY <1>5, <1>6 DEF Descriptors

\* A check that goes on keeps the descriptors it has, and has those it opens.
LEMMA GoKeeps ==
    ASSUME Descriptors, NEW h \in Host, checking, NEW pc \in {"dialing", "connected", "wrapped"},
           NEW fds \in Seq(Fd), Len(fds) = Held(pc),
           checks' = [checks EXCEPT ![h] = [pc |-> pc, fds |-> fds]], UNCHANGED <<checking, finalizers>>,
           ToSet(checks[h].fds) \subseteq ToSet(fds), DOMAIN open' \subseteq DOMAIN open \cup ToSet(fds)
    PROVE  Descriptors'
<1> DEFINE Pc == {"none", "todo", "dialing", "connected", "wrapped", "done"}
<1>1. checks \in [Host -> [pc : Pc, fds : Seq(Fd)]]
  BY DEF Descriptors, ChecksOK
<1>2. checks'[h].pc = pc /\ checks'[h].fds = fds /\ \A g \in Host \ {h} : checks'[g] = checks[g]
  BY <1>1
<1>3. checks' \in [Host -> [pc : Pc, fds : Seq(Fd)]]
  <2>1. [pc |-> pc, fds |-> fds] \in [pc : Pc, fds : Seq(Fd)]
    OBVIOUS
  <2> DEFINE Item == [pc : Pc, fds : Seq(Fd)]
  <2> HIDE DEF Item, Pc
  <2> QED
    BY <1>1, <2>1
<1>4. \A g \in Host : Len(checks'[g].fds) = Held(checks'[g].pc)
  BY <1>2 DEF Descriptors, ChecksOK
<1>5. ChecksOK'
  BY <1>3, <1>4 DEF ChecksOK
<1>6. NoLeak'
  <2> SUFFICES ASSUME NEW fd \in DOMAIN open' PROVE \E g \in Host : fd \in ToSet(checks'[g].fds)
    BY DEF NoLeak, ToSet
  <2>1. CASE fd \in ToSet(fds)
    BY <1>2, <2>1
  <2>2. CASE fd \in DOMAIN open
    <3>1. PICK g \in Host : fd \in ToSet(checks[g].fds)
      BY <2>2 DEF Descriptors, NoLeak
    <3> QED
      BY <1>2, <3>1
  <2> QED
    BY <2>1, <2>2
<1>7. ToSet(fds) \subseteq Fd
  BY DEF ToSet
<1> QED
  BY <1>5, <1>6, <1>7 DEF Descriptors

\* The descriptors of a check.
LEMMA FdsIs ==
    ASSUME Descriptors, NEW h \in Host
    PROVE  LET fds == checks[h].fds IN
           /\ fds \in Seq(Fd) /\ Len(fds) = Held(checks[h].pc)
           /\ Len(fds) = 0 => ToSet(fds) = {}
           /\ Len(fds) = 1 => ToSet(fds) = {fds[1]} /\ fds = <<fds[1]>> /\ fds[1] \in Fd
           /\ Len(fds) = 2 => ToSet(fds) = {fds[1], fds[2]}
<1> DEFINE fds == checks[h].fds
<1>1. fds \in Seq(Fd) /\ Len(fds) = Held(checks[h].pc)
  BY DEF Descriptors, ChecksOK
<1> HIDE DEF fds
<1>2. DOMAIN fds = 1..Len(fds) /\ Len(fds) \in Nat
  BY <1>1
<1>3. Len(fds) = 0 => ToSet(fds) = {}
  BY <1>2 DEF ToSet
<1>4. ASSUME Len(fds) = 1 PROVE ToSet(fds) = {fds[1]} /\ fds = <<fds[1]>> /\ fds[1] \in Fd
  <2>1. DOMAIN fds = {1}
    BY <1>2, <1>4
  <2>2. ToSet(fds) = {fds[1]}
    BY <2>1 DEF ToSet
  <2> QED
    BY <1>1, <1>4, <2>1, <2>2
<1>5. ASSUME Len(fds) = 2 PROVE ToSet(fds) = {fds[1], fds[2]}
  <2>1. DOMAIN fds = {1, 2}
    BY <1>2, <1>5
  <2> QED
    BY <2>1 DEF ToSet
<1> QED
  BY <1>1, <1>3, <1>4, <1>5 DEF fds

LEMMA CheckDescriptors ==
    ASSUME Descriptors, NEW h \in Host, Check(h)
    PROVE  Descriptors'
<1> DEFINE fds == checks[h].fds
<1>0. /\ fds \in Seq(Fd) /\ Len(fds) = Held(checks[h].pc)
      /\ Len(fds) = 0 => ToSet(fds) = {}
      /\ Len(fds) = 1 => ToSet(fds) = {fds[1]} /\ fds = <<fds[1]>> /\ fds[1] \in Fd
      /\ Len(fds) = 2 => ToSet(fds) = {fds[1], fds[2]}
  BY FdsIs, Zenon
<1>d. DOMAIN open \subseteq Fd /\ finalizers \subseteq Fd
  BY DEF Descriptors
<1>c. \A S : DOMAIN Closed(S) = DOMAIN open \ S
  BY DEF Closed
<1> HIDE DEF fds
<1>1. CASE NoMark(h)
  <2>1. /\ checking /\ checks[h].pc = "todo" /\ UNCHANGED <<checking, open, finalizers>>
        /\ checks' = [checks EXCEPT ![h] = [pc |-> "done", fds |-> <<>>]]
    BY <1>1 DEF NoMark, At, Ends, Frame, fdVars
  <2>2. ToSet(fds) = {}
    BY <1>0, <2>1 DEF Held
  <2> QED
    BY <1>d, <2>1, <2>2, EndKeeps DEF fds
<1>2. CASE Dial(h)
  <2> PICK new : new = Opened(allocated[entries[h].addr].fwmark, NoPeer)
    OBVIOUS
  <2>1. /\ checking /\ checks[h].pc = "todo" /\ UNCHANGED <<checking, finalizers>>
        /\ Fd \ DOMAIN open # {} /\ open' = new.open
        /\ checks' = [checks EXCEPT ![h] = [pc |-> "dialing", fds |-> <<new.fd>>]]
    BY <1>2 DEF Dial, At, GoesTo, Frame
  <2>2. new.fd \in Fd /\ DOMAIN open' = DOMAIN open \cup {new.fd}
    BY <1>d, <2>1, OpenedIs
  <2>3. ToSet(fds) = {} /\ ToSet(<<new.fd>>) = {new.fd}
    BY <1>0, <2>1 DEF Held, ToSet
  <2>4. <<new.fd>> \in Seq(Fd) /\ Len(<<new.fd>>) = Held("dialing")
    BY <2>2 DEF Held
  <2> QED
    BY <2>1, <2>2, <2>3, <2>4, GoKeeps DEF fds
<1>3. CASE Connect(h)
  <2>1. /\ checking /\ checks[h].pc = "dialing" /\ UNCHANGED <<checking, finalizers>>
        /\ checks' = [checks EXCEPT ![h] = [pc |-> "connected", fds |-> fds]]
        /\ \E p : open' = [open EXCEPT ![fds[1]].peer = p]
    BY <1>3 DEF Connect, At, GoesTo, Frame, fds
  <2>2. DOMAIN open' = DOMAIN open
    BY <2>1
  <2>3. Len(fds) = Held("connected")
    BY <1>0, <2>1 DEF Held
  <2> QED
    BY <1>0, <2>1, <2>2, <2>3, GoKeeps DEF fds
<1>4. CASE ConnectFails(h)
  <2>1. /\ checking /\ checks[h].pc = "dialing" /\ UNCHANGED <<checking, finalizers>>
        /\ checks' = [checks EXCEPT ![h] = [pc |-> "done", fds |-> <<>>]]
        /\ open' = Closed({fds[1]})
    BY <1>4 DEF ConnectFails, At, Ends, Frame, fds
  <2>2. ToSet(fds) = {fds[1]}
    BY <1>0, <2>1 DEF Held
  <2> QED
    BY <1>c, <1>d, <2>1, <2>2, EndKeeps DEF fds
<1>5. CASE Wrap(h)
  <2> PICK new : new = Opened(open[fds[1]].mark, open[fds[1]].peer)
    OBVIOUS
  <2>1. /\ checking /\ checks[h].pc = "connected" /\ UNCHANGED <<checking, finalizers>>
        /\ Fd \ DOMAIN open # {} /\ open' = new.open
        /\ checks' = [checks EXCEPT ![h] = [pc |-> "wrapped", fds |-> <<fds[1], new.fd>>]]
    BY <1>5 DEF Wrap, At, GoesTo, Frame, fds
  <2>2. new.fd \in Fd /\ DOMAIN open' = DOMAIN open \cup {new.fd}
    BY <1>d, <2>1, OpenedIs
  <2>3. ToSet(fds) = {fds[1]} /\ fds[1] \in Fd
    BY <1>0, <2>1 DEF Held
  <2>4. ToSet(<<fds[1], new.fd>>) = {fds[1], new.fd}
    BY DEF ToSet
  <2>5. <<fds[1], new.fd>> \in Seq(Fd) /\ Len(<<fds[1], new.fd>>) = Held("wrapped")
    BY <2>2, <2>3 DEF Held
  <2> QED
    BY <2>1, <2>2, <2>3, <2>4, <2>5, GoKeeps DEF fds
<1>6. CASE WrapFails(h)
  <2>1. /\ checking /\ checks[h].pc = "connected" /\ UNCHANGED checking
        /\ checks' = [checks EXCEPT ![h] = [pc |-> "done", fds |-> <<>>]]
        /\ open' = Closed({fds[1]}) /\ finalizers' = finalizers \cup {fds[1]}
    BY <1>6 DEF WrapFails, At, Ends, Frame, fds
  <2>2. ToSet(fds) = {fds[1]} /\ fds[1] \in Fd
    BY <1>0, <2>1 DEF Held
  <2> QED
    BY <1>c, <1>d, <2>1, <2>2, EndKeeps DEF fds
<1>7. CASE Exchange(h)
  <2>1. /\ checking /\ UNCHANGED <<checking, finalizers>>
        /\ checks' = [checks EXCEPT ![h] = [pc |-> "done", fds |-> <<>>]]
        /\ open' = Closed(ToSet(fds))
    BY <1>7 DEF Exchange, At, Ends, Frame, fds
  <2> QED
    BY <1>c, <1>d, <2>1, EndKeeps DEF fds
<1> QED
  BY <1>1, <1>2, <1>3, <1>4, <1>5, <1>6, <1>7 DEF Check

\* Descriptors are left alone by everything but the checks, their cycles and finalizers.
LEMMA DescriptorsStep ==
    ASSUME Descriptors, [Next]_vars
    PROVE  Descriptors'
<1> DEFINE Pc == {"none", "todo", "dialing", "connected", "wrapped", "done"}
           Same == UNCHANGED <<checks, checking, open, finalizers>>
<1>1. CASE Same
  BY <1>1 DEF Descriptors, ChecksOK, NoLeak, ToSet
<1>2. CASE StartChecks
  <2>1. /\ UNCHANGED <<open, finalizers>> /\ ~checking
        /\ checks' = [h \in Host |-> [pc |-> IF h \in DOMAIN entries THEN "todo" ELSE "done", fds |-> <<>>]]
    BY <1>2 DEF StartChecks, fdVars, NotChecked
  <2>2. /\ checks' \in [Host -> [pc : Pc, fds : Seq(Fd)]]
        /\ \A h \in Host : Len(checks'[h].fds) = Held(checks'[h].pc) /\ checks'[h].fds = <<>>
    BY <2>1 DEF Held
  <2>3. DOMAIN open = {}
    <3>1. ToSet(<<>>) = {}
      BY DEF ToSet
    <3>2. \A h \in Host : checks[h].fds = <<>>
      BY <2>1 DEF Descriptors, ChecksOK
    <3> QED
      BY <3>1, <3>2 DEF Descriptors, NoLeak
  <2> QED
    BY <2>1, <2>2, <2>3 DEF Descriptors, ChecksOK, NoLeak
<1>3. CASE ChecksDone
  <2>1. /\ UNCHANGED <<open, finalizers>> /\ \A h \in Host : checks[h].pc = "done"
        /\ checks' = [h \in Host |-> [pc |-> "none", fds |-> <<>>]]
    BY <1>3 DEF ChecksDone, fdVars, NotChecked
  <2>2. /\ checks' \in [Host -> [pc : Pc, fds : Seq(Fd)]]
        /\ \A h \in Host : Len(checks'[h].fds) = Held(checks'[h].pc) /\ checks'[h].fds = <<>>
    BY <2>1 DEF Held
  <2>3. DOMAIN open = {}
    <3>1. \A h \in Host : Len(checks[h].fds) = 0 => ToSet(checks[h].fds) = {}
      BY FdsIs
    <3>2. \A h \in Host : Len(checks[h].fds) = 0
      BY <2>1 DEF Descriptors, ChecksOK, Held
    <3> QED
      BY <3>1, <3>2 DEF Descriptors, NoLeak
  <2> QED
    BY <2>1, <2>2, <2>3 DEF Descriptors, ChecksOK, NoLeak
<1>4. ASSUME NEW fd, Finalize(fd) PROVE Descriptors'
  <2>1. UNCHANGED <<checks, checking>> /\ finalizers' \subseteq finalizers /\ DOMAIN open' \subseteq DOMAIN open
    BY <1>4 DEF Finalize, Closed, hmVars
  <2> QED
    BY <2>1 DEF Descriptors, ChecksOK, NoLeak, ToSet
<1>5. ASSUME NEW h \in Host, Check(h) PROVE Descriptors'
  BY <1>5, CheckDescriptors
<1>6. CASE HostFlips \/ NameChanges \/ Discover \/ ApplyResolverState
  BY <1>1, <1>6 DEF HostFlips, NameChanges, Discover, ApplyResolverState, Change, hmVars, fdVars
<1>7. CASE Balance
  BY <1>1, <1>7 DEF Balance, Receive, FwmarkCall, hmVars, fdVars
<1>8. CASE DataPlane \/ ApplyFails
  BY <1>1, <1>8 DEF DataPlane, Push, Apply, ApplyFails, DpFrame, hmVars, fdVars
<1>9. CASE UNCHANGED vars
  BY <1>1, <1>9 DEF vars, hmVars, fdVars
<1> QED
  BY <1>2, <1>3, <1>4, <1>5, <1>6, <1>7, <1>8, <1>9 DEF Next, HealthLoop

LEMMA SocketsStep ==
    ASSUME Sockets, [Next]_vars
    PROVE  Sockets'
<1>1. CASE UNCHANGED open
  BY <1>1 DEF Sockets
<1>2. ASSUME NEW mark, NEW peer, open' = Opened(mark, peer).open PROVE Sockets'
  <2> DEFINE fd == CHOOSE n \in Fd \ DOMAIN open : \A m \in Fd \ DOMAIN open : n <= m
  <2>1. open' = [n \in DOMAIN open \cup {fd} |->
                   IF n = fd THEN [mark |-> mark, peer |-> peer] ELSE open[n]]
    BY <1>2 DEF Opened
  <2>2. DOMAIN [mark |-> mark, peer |-> peer] = {"mark", "peer"}
    OBVIOUS
  <2> HIDE DEF fd
  <2> QED
    BY <2>1, <2>2 DEF Sockets
<1>3. ASSUME NEW S, open' = Closed(S) PROVE Sockets'
  BY <1>3 DEF Closed, Sockets
<1>4. ASSUME NEW h \in Host, Connect(h) PROVE Sockets'
  <2>1. PICK fd, p : open' = [open EXCEPT ![fd].peer = p]
    BY <1>4 DEF Connect
  <2>2. DOMAIN open' = DOMAIN open /\ \A f \in DOMAIN open : DOMAIN open'[f] = DOMAIN open[f]
    BY <2>1
  <2> QED
    BY <2>2 DEF Sockets
<1>5. ASSUME NEW h \in Host, Check(h) PROVE Sockets'
  BY <1>1, <1>2, <1>3, <1>4, <1>5 DEF Check, NoMark, Dial, ConnectFails, Wrap, WrapFails, Exchange, fdVars
<1>6. CASE HostFlips \/ NameChanges \/ Discover \/ ApplyResolverState
  BY <1>1, <1>6 DEF HostFlips, NameChanges, Discover, ApplyResolverState, Change, fdVars
<1>7. CASE StartChecks \/ ChecksDone \/ \E fd \in Fd : Finalize(fd)
  BY <1>1, <1>3, <1>7 DEF StartChecks, ChecksDone, Finalize, fdVars
<1>8. CASE Balance
  BY <1>1, <1>8 DEF Balance, Receive, FwmarkCall, fdVars
<1>9. CASE DataPlane \/ ApplyFails
  BY <1>1, <1>9 DEF DataPlane, Push, Apply, ApplyFails, DpFrame, fdVars
<1>10. CASE UNCHANGED vars
  BY <1>1, <1>10 DEF vars, fdVars
<1> QED
  BY <1>5, <1>6, <1>7, <1>8, <1>9, <1>10 DEF Next, HealthLoop

\* The entries of the health manager; applyResolverState resolves the names.
LEMMA EntriesStep ==
    ASSUME Entries, [Next]_vars
    PROVE  Entries'
<1> DEFINE Entry == [addr : Addr, healthy : BOOLEAN]
<1>1. CASE UNCHANGED <<dns, discovered, entries, stored>>
  BY <1>1 DEF Entries
<1>2. CASE NameChanges
  <2>1. PICK h \in Host : \E a \in AddrsOf[h] : dns' = [dns EXCEPT ![h] = a]
    BY <1>2 DEF NameChanges
  <2>2. AddrsOf[h] \subseteq Addr
    BY ChecksAssumption
  <2>3. dns' \in [Host -> Addr] /\ UNCHANGED <<discovered, entries, stored>>
    BY <1>2, <2>1, <2>2 DEF NameChanges, Change, hmVars, Entries
  <2> QED
    BY <2>3 DEF Entries
<1>3. CASE Discover
  BY <1>3 DEF Discover, Change, hmVars, Entries
<1>4. CASE ApplyResolverState
  <2>1. /\ entries' = [h \in discovered |->
              IF h \in DOMAIN entries /\ entries[h].addr = dns[h]
              THEN entries[h] ELSE [addr |-> dns[h], healthy |-> FALSE]]
        /\ stored' = DOMAIN entries' \/ stored' = stored
        /\ UNCHANGED <<dns, discovered>>
    BY <1>4 DEF ApplyResolverState
  <2>2. DOMAIN entries' = discovered
    BY <2>1
  <2>3. \A h \in discovered : entries'[h] \in Entry
    <3>1. \A h \in discovered : [addr |-> dns[h], healthy |-> FALSE] \in Entry
      BY DEF Entries
    <3> QED
      BY <2>1, <3>1 DEF Entries
  <2> QED
    BY <2>1, <2>2, <2>3 DEF Entries
<1>5. CASE ChecksDone
  BY <1>5 DEF ChecksDone, envVars, Entries
<1>6. ASSUME NEW h \in Host, Check(h) PROVE Entries'
  <2>0. UNCHANGED <<dns, discovered, stored>>
    BY <1>6 DEF Check, NoMark, Dial, Connect, ConnectFails, Wrap, WrapFails, Exchange, Frame, envVars
  <2>1. CASE UNCHANGED entries
    BY <1>1, <2>0, <2>1
  <2>2. ASSUME NEW v \in BOOLEAN, entries' = [entries EXCEPT ![h].healthy = v] PROVE Entries'
    <3>1. DOMAIN entries' = DOMAIN entries
      BY <2>2
    <3>2. \A g \in DOMAIN entries : entries'[g] \in Entry
      BY <2>2 DEF Entries
    <3> QED
      BY <2>0, <3>1, <3>2 DEF Entries
  <2>3. CASE NoMark(h) \/ ConnectFails(h) \/ WrapFails(h)
    BY <2>2, <2>3 DEF NoMark, ConnectFails, WrapFails, Ends
  <2>4. CASE Exchange(h)
    <3>1. \E v \in BOOLEAN : entries' = [entries EXCEPT ![h].healthy = v]
      BY <2>4 DEF Exchange, Ends
    <3> QED
      BY <2>2, <3>1
  <2>5. CASE Dial(h) \/ Connect(h) \/ Wrap(h)
    BY <2>1, <2>5 DEF Dial, Connect, Wrap, GoesTo
  <2> QED
    BY <1>6, <2>3, <2>4, <2>5 DEF Check
<1>7. CASE HostFlips \/ StartChecks \/ \E fd \in Fd : Finalize(fd)
  BY <1>1, <1>7 DEF HostFlips, StartChecks, Finalize, Change, envVars, hmVars
<1>8. CASE Balance
  BY <1>1, <1>8 DEF Balance, Receive, FwmarkCall, envVars, hmVars
<1>9. CASE DataPlane \/ ApplyFails
  BY <1>1, <1>9 DEF DataPlane, Push, Apply, ApplyFails, DpFrame, envVars, hmVars
<1>10. CASE UNCHANGED vars
  BY <1>1, <1>10 DEF vars, envVars, hmVars
<1> QED
  BY <1>2, <1>3, <1>4, <1>5, <1>6, <1>7, <1>8, <1>9, <1>10 DEF Next, HealthLoop

\* The data plane gives the kernel the services and upstreams of the balancer.
LEMMA KernelStep ==
    ASSUME P!RInv, Kernel, [Next]_vars
    PROVE  Kernel'
<1>1. CASE UNCHANGED <<kmarks, kvip, goal>>
  BY <1>1 DEF Kernel, F!Fwmark, Goal
<1>2. CASE Push
  <2>1. UNCHANGED <<kmarks, kvip>> /\ goal' = [marks |-> MarksOf(services[B]), vip |-> ToSet(upstreams[B])]
    BY <1>2 DEF Push
  <2>2. upstreams[B] \in Seq(Addr) /\ services[B] \subseteq [addr : Addr, fwmark : P!Fwmark]
    BY DEF P!RInv, P!TypeOK
  <2>3. ToSet(upstreams[B]) \subseteq Addr
    BY <2>2 DEF ToSet
  <2>4. \A s \in services[B] : s.addr \in Addr
    BY <2>2
  <2>5. MarksOf(services[B]) \in [F!Fwmark -> SUBSET Addr]
    BY <2>4 DEF MarksOf
  <2>6. goal' \in Goal
    BY <2>1, <2>3, <2>5 DEF Goal
  <2> QED
    BY <2>1, <2>6 DEF Kernel, F!Fwmark, Goal
<1>3. CASE Apply
  <2>1. goal \in Goal /\ (goal' = NoGoal \/ goal' = goal)
    BY <1>3 DEF Apply, Kernel
  <2>2. goal.marks \in [F!Fwmark -> SUBSET Addr] /\ goal.vip \subseteq Addr
    BY <2>1 DEF Goal
  <2>3. kvip' \subseteq Addr
    BY <1>3, <2>2 DEF Apply, Kernel
  <2>4. ASSUME NEW m \in F!Fwmark, NEW R, R \subseteq Addr, kmarks' = [kmarks EXCEPT ![m] = R]
        PROVE  kmarks' \in [F!Fwmark -> SUBSET Addr]
    BY <2>4 DEF Kernel
  <2>5. kmarks' \in [F!Fwmark -> SUBSET Addr]
    <3>1. CASE UNCHANGED kmarks
      BY <3>1 DEF Kernel
    <3>2. CASE \E m \in ToAdd : kmarks' = [kmarks EXCEPT ![m] = goal.marks[m]]
      BY <2>2, <2>4, <3>2 DEF ToAdd
    <3>3. ASSUME NEW m \in ToChange,
                 kmarks' = [kmarks EXCEPT ![m] = IF goal.marks[m] \subseteq kmarks[m] THEN goal.marks[m]
                                                 ELSE kmarks[m] \cup goal.marks[m]]
          PROVE  kmarks' \in [F!Fwmark -> SUBSET Addr]
      <4>1. m \in F!Fwmark /\ goal.marks[m] \subseteq Addr /\ kmarks[m] \subseteq Addr
        BY <2>2 DEF ToChange, Kernel
      <4> QED
        BY <2>4, <3>3, <4>1
    <3>4. CASE \E m \in ToDelete : kmarks' = [kmarks EXCEPT ![m] = {}]
      BY <2>4, <3>4 DEF ToDelete
    <3> QED
      BY <1>3, <3>1, <3>2, <3>3, <3>4 DEF Apply
  <2> QED
    BY <2>1, <2>3, <2>5 DEF Kernel, F!Fwmark, Goal
<1>4. CASE ApplyFails
  BY <1>4 DEF ApplyFails, Kernel, F!Fwmark
<1>5. ASSUME NEW h \in Host, Check(h) PROVE Kernel'
  BY <1>1, <1>5 DEF Check, NoMark, Dial, Connect, ConnectFails, Wrap, WrapFails, Exchange, Frame, dpVars
<1>6. CASE HostFlips \/ NameChanges \/ Discover \/ ApplyResolverState
  BY <1>1, <1>6 DEF HostFlips, NameChanges, Discover, ApplyResolverState, Change, dpVars
<1>7. CASE StartChecks \/ ChecksDone \/ \E fd \in Fd : Finalize(fd)
  BY <1>1, <1>7 DEF StartChecks, ChecksDone, Finalize, dpVars
<1>8. CASE Balance
  BY <1>1, <1>8 DEF Balance, Receive, FwmarkCall, dpVars
<1>9. CASE UNCHANGED vars
  BY <1>1, <1>9 DEF vars, dpVars
<1> QED
  BY <1>2, <1>3, <1>4, <1>5, <1>6, <1>7, <1>8, <1>9 DEF Next, HealthLoop, DataPlane

LEMMA CountersStep ==
    ASSUME Counters, [Next]_vars
    PROVE  Counters'
<1>0. changes \in 0..MaxChanges /\ faults \in 0..MaxFaults /\ MaxChanges \in Nat /\ MaxFaults \in Nat
  BY ChecksAssumption DEF Counters
<1>1. CASE UNCHANGED changes /\ (UNCHANGED faults \/ Fault)
  BY <1>0, <1>1 DEF Counters, Fault
<1>2. CASE HostFlips \/ NameChanges \/ Discover
  BY <1>0, <1>2 DEF HostFlips, NameChanges, Discover, Change, Counters
<1>3. CASE ApplyResolverState \/ StartChecks \/ ChecksDone \/ \E fd \in Fd : Finalize(fd)
  BY <1>1, <1>3 DEF ApplyResolverState, StartChecks, ChecksDone, Finalize
<1>4. ASSUME NEW h \in Host, Check(h) PROVE Counters'
  <2>1. UNCHANGED changes
    BY <1>4 DEF Check, NoMark, Dial, Connect, ConnectFails, Wrap, WrapFails, Exchange, Frame
  <2>2. UNCHANGED faults \/ Fault
    BY <1>4 DEF Check, NoMark, Dial, Connect, ConnectFails, Wrap, WrapFails, Exchange
  <2> QED
    BY <1>1, <2>1, <2>2
<1>5. CASE Balance
  BY <1>1, <1>5 DEF Balance, Receive, FwmarkCall
<1>6. CASE DataPlane \/ ApplyFails
  BY <1>1, <1>6 DEF DataPlane, Push, Apply, ApplyFails, DpFrame
<1>7. CASE UNCHANGED vars
  BY <1>1, <1>7 DEF vars
<1> QED
  BY <1>2, <1>3, <1>4, <1>5, <1>6, <1>7 DEF Next, HealthLoop

\* The balancer gets lists of addresses.
LEMMA BalancerMoves ==
    ASSUME P!RInv, Exact, Entries, [Next]_vars
    PROVE  P!RInv' /\ Exact'
<1>1. CASE UNCHANGED fwVars
  BY <1>1, FwmarkStutter, ExactStutter
<1>2. CASE Receive
  <2> DEFINE list == [i \in DOMAIN SetToSeq(stored) |-> dns[SetToSeq(stored)[i]]]
  <2>1. F!UpdateState(B, list)
    BY <1>2 DEF Receive
  <2>2. list \in Seq(Addr)
    BY ListOf DEF Entries
  <2> HIDE DEF list
  <2> QED
    BY <2>1, <2>2, FwmarkStep, ExactStep
<1>3. CASE FwmarkCall
  BY <1>3, FwmarkStep, ExactStep DEF FwmarkCall
<1>4. ASSUME NEW h \in Host, Check(h) PROVE UNCHANGED fwVars
  BY <1>4 DEF Check, NoMark, Dial, Connect, ConnectFails, Wrap, WrapFails, Exchange, Frame
<1>5. CASE HostFlips \/ NameChanges \/ Discover \/ ApplyResolverState
  BY <1>1, <1>5 DEF HostFlips, NameChanges, Discover, ApplyResolverState, Change
<1>6. CASE StartChecks \/ ChecksDone \/ \E fd \in Fd : Finalize(fd)
  BY <1>1, <1>6 DEF StartChecks, ChecksDone, Finalize
<1>7. CASE DataPlane \/ ApplyFails
  BY <1>1, <1>7 DEF DataPlane, Push, Apply, ApplyFails, DpFrame
<1>8. CASE UNCHANGED vars
  BY <1>1, <1>8 DEF vars
<1> QED
  BY <1>1, <1>2, <1>3, <1>4, <1>5, <1>6, <1>7, <1>8 DEF Next, HealthLoop, Balance

----------------------------------------------------------------------------
(***************************************************************************)
(* Theorems.                                                                *)
(***************************************************************************)
LEMMA InitOK == Init => IInv
<1> SUFFICES ASSUME Init PROVE IInv
  OBVIOUS
<1>1. P!RInv /\ Exact
  BY FwmarkInit, ExactInit
<1>2. Descriptors
  <2>1. DOMAIN open = {} /\ finalizers = {} /\ checks = [h \in Host |-> [pc |-> "none", fds |-> <<>>]]
    BY DEF Init, Function0, NotChecked
  <2>2. checks \in [Host -> [pc : {"none", "todo", "dialing", "connected", "wrapped", "done"}, fds : Seq(Fd)]]
        /\ \A h \in Host : Len(checks[h].fds) = Held(checks[h].pc) /\ checks[h].fds = <<>>
    BY <2>1 DEF Held
  <2> QED
    BY <2>1, <2>2 DEF Descriptors, ChecksOK, NoLeak
<1>3. Entries
  BY ChecksAssumption DEF Init, Function0, Entries
<1>4. Kernel
  BY DEF Init, Kernel
<1>5. Counters
  BY ChecksAssumption DEF Init, Counters
<1>6. Sockets
  BY DEF Init, Function0, Sockets
<1> QED
  BY <1>1, <1>2, <1>3, <1>4, <1>5, <1>6 DEF IInv

LEMMA StepOK == IInv /\ [Next]_vars => IInv'
BY BalancerMoves, DescriptorsStep, SocketsStep, EntriesStep, KernelStep, CountersStep DEF IInv

\* Types of the health manager's entries, the checks, the kernel's services and the
\* file descriptors.
THEOREM TypeCorrect == Spec => []TypeOK
<1>1. IInv => TypeOK
  <2>1. IInv => \A h \in Host : checks[h].pc \in {"none", "todo", "dialing", "connected", "wrapped", "done"}
    BY DEF IInv, Descriptors, ChecksOK
  <2> QED
    BY <2>1 DEF IInv, TypeOK, Descriptors, Entries, Kernel, Counters
<1> QED
  BY InitOK, StepOK, <1>1, PTL DEF Spec

\* For any hosts, and however many checks run at a time: NewTcpConnection and Close of
\* connWrap leak no file descriptor, wherever a check fails and although a finalizer
\* may close a descriptor that another check has got by then.
THEOREM NothingLeaks == Spec => []NoLeak
<1>1. IInv => NoLeak
  BY DEF IInv, Descriptors
<1> QED
  BY InitOK, StepOK, <1>1, PTL DEF Spec

\* With the balancer and the kernel in step, a check of a host that connects with the
\* fwmark of the host's address is connected to that address: the fwmark has a service,
\* with this address and no other.
THEOREM ChecksReachHosts == Spec => CheckReachesHost
<1> DEFINE Reach1 == \A h \in Host : ReachesHost(h)
<1>1. ASSUME IInv, NEW h \in Host, At(h, "dialing"), checks'[h].pc = "connected", [Next]_vars
      PROVE  Connect(h)
  <2>0. checks \in [Host -> [pc : {"none", "todo", "dialing", "connected", "wrapped", "done"}, fds : Seq(Fd)]]
    BY <1>1 DEF IInv, Descriptors, ChecksOK
  <2>1. checks[h].pc = "dialing"
    BY <1>1 DEF At
  <2>2. checks' # checks
    BY <1>1, <2>1
  <2>3. ASSUME NEW g \in Host, NEW pc, NEW fds, checks' = [checks EXCEPT ![g] = [pc |-> pc, fds |-> fds]]
        PROVE  g = h /\ pc = "connected"
    BY <1>1, <2>0, <2>1, <2>3
  <2>4. ~StartChecks /\ ~ChecksDone
    BY <1>1, <2>1 DEF StartChecks, ChecksDone, NotChecked, At
  <2>5. PICK g \in Host : Check(g)
    <3>1. ~HostFlips /\ ~NameChanges /\ ~Discover /\ ~ApplyResolverState
      BY <2>2 DEF HostFlips, NameChanges, Discover, ApplyResolverState, Change, hmVars
    <3>2. ~Balance
      BY <2>2 DEF Balance, Receive, FwmarkCall, hmVars
    <3>3. ~DataPlane /\ ~ApplyFails
      BY <2>2 DEF DataPlane, Push, Apply, ApplyFails, DpFrame, hmVars
    <3>4. \A fd \in Fd : ~Finalize(fd)
      BY <2>2 DEF Finalize, hmVars
    <3>5. ~UNCHANGED vars
      BY <2>2 DEF vars, hmVars
    <3> QED
      BY <1>1, <2>4, <3>1, <3>2, <3>3, <3>4, <3>5 DEF Next, HealthLoop
  <2>6. ~NoMark(g) /\ ~ConnectFails(g) /\ ~WrapFails(g) /\ ~Exchange(g)
    <3>1. ASSUME checks' = [checks EXCEPT ![g] = [pc |-> "done", fds |-> <<>>]] PROVE FALSE
      <4>1. "done" = "connected"
        BY <2>3, <3>1, Zenon
      <4> QED
        BY <4>1
    <3> QED
      BY <3>1 DEF NoMark, ConnectFails, WrapFails, Exchange, Ends
  <2>7. ~Dial(g) /\ ~Wrap(g)
    BY <2>3 DEF Dial, Wrap, GoesTo
  <2>8. Connect(g)
    BY <2>5, <2>6, <2>7 DEF Check
  <2>9. g = h
    BY <2>3, <2>8 DEF Connect, GoesTo
  <2> QED
    BY <2>8, <2>9
<1>2. ASSUME IInv, NEW h \in Host, Connect(h), Settled, NEW a, a = entries[h].addr, F!Allocated(a),
             NEW fd, fd = checks[h].fds[1], allocated[a].fwmark = open[fd].mark
      PROVE  open'[fd].peer = a
  <2> PICK m : m = allocated[a].fwmark
    OBVIOUS
  <2>1. /\ a \in DOMAIN allocated /\ calls[B] = <<>>
        /\ kmarks = [n \in F!Fwmark |-> {s.addr : s \in {s \in services[B] : s.fwmark = n}}]
    BY <1>2 DEF F!Allocated, Settled, MarksOf
  <2>2. m \in F!Fwmark
    <3>1. allocated[a] \in [fwmark : P!Fwmark, refcount : Nat \ {0}]
      BY <1>2, <2>1 DEF IInv, P!RInv, P!TypeOK
    <3> QED
      BY <3>1 DEF F!Fwmark, P!Fwmark
  <2>3. Mark(a) \in services[B] /\ \A s \in services[B] : Marked(s)
    BY <1>2, <2>1 DEF IInv, Exact
  <2>4. a \in kmarks[m]
    BY <2>1, <2>2, <2>3 DEF Mark
  <2>5. ASSUME NEW p \in kmarks[m] PROVE p = a
    <3>1. PICK s \in services[B] : s.fwmark = m /\ s.addr = p
      BY <2>1, <2>2
    <3>2. p \in DOMAIN allocated /\ allocated[p].fwmark = m
      BY <2>3, <3>1 DEF Marked
    <3> QED
      BY <1>2, <2>1, <3>2 DEF IInv, P!RInv, P!IInv, P!Partition
  <2>6. /\ fd \in DOMAIN open /\ open[fd].mark = m
        /\ \E p \in Reach(open[fd]) : open' = [open EXCEPT ![fd].peer = p]
    BY <1>2 DEF Connect, Connectable
  <2>7. Reach(open[fd]) = kmarks[m]
    BY <2>4, <2>6 DEF Reach
  <2>8. open' = [open EXCEPT ![fd].peer = a]
    BY <2>5, <2>6, <2>7
  <2>9. DOMAIN open[fd] = {"mark", "peer"}
    BY <1>2, <2>6 DEF IInv, Sockets
  <2> QED
    BY <2>6, <2>8, <2>9
<1>3. IInv /\ [Next]_vars => [Reach1]_vars
  BY <1>1, <1>2 DEF ReachesHost
<1> QED
  BY InitOK, StepOK, <1>3, PTL DEF Spec, CheckReachesHost
=============================================================================
