-------------------------- MODULE IpvsSyncProofs --------------------------
(***************************************************************************)
(* Proofs about IpvsSync, for any states, with items that share a key, and  *)
(* whatever the kernel holds when kglb starts.                              *)
(***************************************************************************)
EXTENDS IpvsSync, FiniteSetTheorems, WellFoundedInduction, TLAPS

\* The services that SetState is to put in place, and the balancer for each.
Goal == Bals!Keys(target)
GoalOf(k) == Bals!keyGen(target)[k]

ServicesOf(bals) == {b.svc : b \in bals}
Changing == {p.new.svc : p \in work.changed}
Heads(op) == {calls[i].svc : i \in {i \in DOMAIN calls : calls[i].op = op}}

\* Services still to be added and to be deleted, those whose call is next included.
Adding == ServicesOf(work.added) \cup Heads("addService")
Dropping == ServicesOf(work.deleted) \cup Heads("deleteService")

\* What the kernel holds now, in kglb's terms.
Present == (Goal \ Adding) \cup Dropping

Dests(k) == kernel[Slot(k)].dests
Final(k) == DestsOf(GoalOf(k).ups)

----------------------------------------------------------------------------
(***************************************************************************)
(* Calls for the upstreams of one service.                                  *)
(***************************************************************************)
RealCall == [op : {"addReal", "updateReal", "deleteReal"}, svc : IpvsService, up : UpstreamState]

\* A destination that is to be added is there, or is added before.
Doomed(dests, todo) ==
    \E i \in DOMAIN todo :
        /\ \A j \in 1..i : todo[j].op = "addReal"
        /\ \/ DestKey(todo[i].up) \in DOMAIN dests
           \/ \E j \in 1..(i - 1) : DestKey(todo[j].up) = DestKey(todo[i].up)

\* The calls lead from dests to final.
Leads(dests, todo, final) ==
    /\ \A d : (\A i \in DOMAIN todo : DestKey(todo[i].up) # d) =>
                 /\ d \in DOMAIN final <=> d \in DOMAIN dests
                 /\ d \in DOMAIN final => final[d] = dests[d]
    /\ \A i \in DOMAIN todo :
          LET d == DestKey(todo[i].up)
          IN  IF todo[i].op = "deleteReal" THEN d \notin DOMAIN final
              ELSE d \in DOMAIN final /\ final[d] = LibDest(todo[i].up)

\* Calls that the kernel accepts all of bring the destinations to final.
Fine(dests, todo, final) ==
    /\ Doomed(dests, todo) \/ Leads(dests, todo, final)
    /\ \A i \in DOMAIN todo : todo[i].op = "addReal" => DestKey(todo[i].up) \in DOMAIN final

\* ups is a list of the destinations as kglb reads them.
Reads(dests, ups) ==
    /\ \A d \in DOMAIN dests : \E i \in DOMAIN ups : UpstreamKey(ups[i]) = d
    /\ \A i \in DOMAIN ups :
          /\ UpstreamKey(ups[i]) \in DOMAIN dests /\ DestKey(ups[i]) = UpstreamKey(ups[i])
          /\ LibDest(ups[i]) = dests[UpstreamKey(ups[i])]

----------------------------------------------------------------------------
(***************************************************************************)
(* The inductive invariant.                                                 *)
(***************************************************************************)
\* The kernel has the services it should have by now, each in a slot of its own.
Located ==
    /\ DOMAIN kernel = {Slot(k) : k \in Present}
    /\ \A j, k \in Present : Slot(j) = Slot(k) => j = k
    /\ Adding \subseteq Goal /\ Dropping \cap Goal = {}

\* Those of the goal are as wanted, but for upstreams that are still to be changed.
Placed ==
    \A k \in Goal \ Adding :
        /\ [sched |-> kernel[Slot(k)].sched, flags |-> kernel[Slot(k)].flags] = LibService(k)
        /\ \/ Dests(k) = Final(k)
           \/ k \in Changing
           \/ calls # <<>> /\ calls[1].svc = k

\* The balancers still to be worked on.
WorkLeft ==
    /\ \A b \in work.added : b.svc \in Goal /\ b = GoalOf(b.svc)
    /\ \A p \in work.changed :
          /\ p.new.svc \in Goal \ Adding /\ p.new = GoalOf(p.new.svc)
          /\ Reads(Dests(p.new.svc), p.old.ups)
    /\ \A p, q \in work.changed : p.new.svc = q.new.svc => p = q
    /\ \A b, c \in work.deleted : b.svc = c.svc => b = c

\* The calls left are for one service, whose balancer is no longer among the work.
CallsLeft ==
    calls # <<>> =>
        LET k == calls[1].svc
        IN  /\ k \notin ServicesOf(work.added) \cup Changing \cup ServicesOf(work.deleted)
            /\ calls[1].op = "addService" => k \in Goal /\ calls = AddCalls(GoalOf(k))
            /\ calls[1].op = "deleteService" => Len(calls) = 1 /\ work.added = {}
            /\ calls[1].op \notin {"addService", "deleteService"} =>
                  /\ \A i \in DOMAIN calls : calls[i] \in RealCall /\ calls[i].svc = k
                  /\ k \in Goal /\ Fine(Dests(k), calls, Final(k))

InSetState == target # NoState /\ Located /\ Placed /\ WorkLeft /\ CallsLeft

IInv ==
    /\ TypeOK
    /\ result = "busy" => InSetState
    /\ result # "busy" => calls = <<>>
    /\ OkExact

----------------------------------------------------------------------------
(***************************************************************************)
(* Lists and maps.                                                          *)
(***************************************************************************)
\* A set of places in a list has a last one.
LEMMA LastPlace ==
    ASSUME NEW n \in Nat, NEW T, T \subseteq 1..n, T # {}
    PROVE  Max(T) \in T /\ \A j \in T : j <= Max(T)
<1> DEFINE R == {n - i : i \in T}
<1>1. R \subseteq Nat /\ R # {}
  OBVIOUS
<1>2. PICK m \in R : \A r \in R : ~(<<r, m>> \in OpToRel(<, Nat))
  BY <1>1, NatLessThanWellFounded, WFMin
<1>3. ASSUME NEW r \in R, r < m PROVE FALSE
  <2>1. <<r, m>> \in {ss \in Nat \X Nat : ss[1] < ss[2]}
    BY <1>1, <1>3
  <2>2. <<r, m>> \in OpToRel(<, Nat)
    BY <2>1 DEF OpToRel
  <2> QED
    BY <1>2, <2>2
<1>4. PICK i \in T : m = n - i
  OBVIOUS
<1>5. ASSUME NEW j \in T PROVE i >= j
  BY <1>3, <1>4
<1>6. \E x \in T : \A y \in T : x >= y
  BY <1>5
<1> QED
  BY <1>6 DEF Max

\* A list of as many different members as a finite set has is one of all of them.
LEMMA ListOfAll ==
    ASSUME NEW S, IsFiniteSet(S), NEW f \in [1..Cardinality(S) -> S],
           \A i, j \in 1..Cardinality(S) : i # j => f[i] # f[j]
    PROVE  f \in Seq(S) /\ \A x \in S : \E i \in DOMAIN f : f[i] = x
<1>1. Cardinality(S) \in Nat
  BY FS_CardinalityType
<1>2. f \in Injection(1..Cardinality(S), S)
  BY DEF Injection, IsInjective
<1>3. Cardinality(1..Cardinality(S)) = Cardinality(S)
  BY <1>1, FS_Interval
<1>4. f \in Surjection(1..Cardinality(S), S)
  BY <1>2, <1>3, FS_Injection
<1> QED
  BY <1>1, <1>4 DEF Surjection

LEMMA SetList ==
    ASSUME NEW S, IsFiniteSet(S)
    PROVE  /\ SetToSeq(S) \in Seq(S)
           /\ \A x \in S : \E i \in DOMAIN SetToSeq(S) : SetToSeq(S)[i] = x
<1>1. Cardinality(S) \in Nat /\ ExistsBijection(1..Cardinality(S), S)
  BY FS_CardinalityType
<1>2. \E f \in [1..Cardinality(S) -> S] : IsInjective(f)
  BY <1>1 DEF ExistsBijection, Bijection, Injection, IsInjective
<1>3. SetToSeq(S) \in [1..Cardinality(S) -> S] /\ IsInjective(SetToSeq(S))
  BY <1>2 DEF SetToSeq
<1>4. \A i, j \in 1..Cardinality(S) : i # j => SetToSeq(S)[i] # SetToSeq(S)[j]
  BY <1>3 DEF IsInjective
<1> QED
  BY <1>3, <1>4, ListOfAll

LEMMA ItemsIn ==
    ASSUME NEW X, NEW Y, NEW l \in Seq(X), \A i \in DOMAIN l : l[i] \in Y
    PROVE  l \in Seq(Y)
OBVIOUS

LEMMA ToSetFinite ==
    ASSUME NEW X, NEW l \in Seq(X)
    PROVE  IsFiniteSet(ToSet(l))
<1>1. Len(l) \in Nat /\ DOMAIN l = 1..Len(l)
  OBVIOUS
<1>2. IsFiniteSet(1..Len(l))
  BY <1>1, FS_Interval
<1>3. l \in Surjection(1..Len(l), ToSet(l))
  BY <1>1 DEF Surjection, ToSet
<1> QED
  BY <1>2, <1>3, FS_Surjection

\* The map of a list has the last item with each key.
LEMMA UpsMap ==
    ASSUME NEW X, NEW l \in Seq(X), NEW k \in Ups!Keys(l)
    PROVE  \E i \in DOMAIN l : /\ UpstreamKey(l[i]) = k /\ Ups!keyGen(l)[k] = l[i]
                               /\ \A j \in (i + 1)..Len(l) : UpstreamKey(l[j]) # k
<1> DEFINE T == {i \in DOMAIN l : UpstreamKey(l[i]) = k}
<1>1. T \subseteq 1..Len(l) /\ T # {} /\ Len(l) \in Nat /\ DOMAIN l = 1..Len(l)
  BY DEF Ups!Keys
<1>2. Max(T) \in T /\ \A j \in T : j <= Max(T)
  BY <1>1, LastPlace
<1>3. \E i \in DOMAIN l : UpstreamKey(l[i]) = k /\ \A j \in (i + 1)..Len(l) : UpstreamKey(l[j]) # k
  <2>1. PICK m : m \in T /\ \A j \in T : j <= m
    BY <1>2
  <2>2. m \in 1..Len(l)
    BY <1>1, <2>1
  <2>3. ASSUME NEW j \in (m + 1)..Len(l) PROVE UpstreamKey(l[j]) # k
    <3>1. j \in 1..Len(l) /\ ~(j <= m)
      BY <1>1, <2>2
    <3> QED
      BY <1>1, <2>1, <3>1
  <2> QED
    BY <1>1, <2>1, <2>3
<1> QED
  BY <1>3 DEF Ups!keyGen

LEMMA BalsMap ==
    ASSUME NEW X, NEW l \in Seq(X), NEW k \in Bals!Keys(l)
    PROVE  \E i \in DOMAIN l : /\ l[i].svc = k /\ Bals!keyGen(l)[k] = l[i]
                               /\ \A j \in (i + 1)..Len(l) : l[j].svc # k
<1> DEFINE T == {i \in DOMAIN l : l[i].svc = k}
<1>1. T \subseteq 1..Len(l) /\ T # {} /\ Len(l) \in Nat /\ DOMAIN l = 1..Len(l)
  BY DEF Bals!Keys, BalancerKey
<1>2. Max(T) \in T /\ \A j \in T : j <= Max(T)
  BY <1>1, LastPlace
<1>3. \E i \in DOMAIN l : l[i].svc = k /\ \A j \in (i + 1)..Len(l) : l[j].svc # k
  <2>1. PICK m : m \in T /\ \A j \in T : j <= m
    BY <1>2
  <2>2. m \in 1..Len(l)
    BY <1>1, <2>1
  <2>3. ASSUME NEW j \in (m + 1)..Len(l) PROVE l[j].svc # k
    <3>1. j \in 1..Len(l) /\ ~(j <= m)
      BY <1>1, <2>2
    <3> QED
      BY <1>1, <2>1, <3>1
  <2> QED
    BY <1>1, <2>1, <2>3
<1> QED
  BY <1>3 DEF Bals!keyGen, BalancerKey

\* DestsOf has what the last upstream with a key says.
LEMMA DestsOfIs ==
    ASSUME NEW X, NEW ups \in Seq(X), NEW i \in DOMAIN ups,
           \A j \in (i + 1)..Len(ups) : DestKey(ups[j]) # DestKey(ups[i])
    PROVE  /\ DestKey(ups[i]) \in DOMAIN DestsOf(ups)
           /\ DestsOf(ups)[DestKey(ups[i])] = LibDest(ups[i])
<1> DEFINE T == {j \in DOMAIN ups : DestKey(ups[j]) = DestKey(ups[i])}
<1>1. T \subseteq 1..Len(ups) /\ i \in T /\ Len(ups) \in Nat /\ DOMAIN ups = 1..Len(ups)
  OBVIOUS
<1>2. Max(T) \in T /\ \A j \in T : j <= Max(T)
  BY <1>1, LastPlace
<1>3. Max(T) = i
  <2>1. PICK m : m = Max(T)
    OBVIOUS
  <2>2. m \in 1..Len(ups) /\ i \in 1..Len(ups) /\ i <= m
    BY <1>1, <1>2, <2>1
  <2>3. DestKey(ups[m]) = DestKey(ups[i])
    BY <1>2, <2>1
  <2>4. ~(m > i)
    BY <1>1, <2>2, <2>3
  <2> QED
    BY <2>1, <2>2, <2>4
<1> HIDE DEF T
<1>4. DestKey(ups[i]) \in {DestKey(ups[j]) : j \in DOMAIN ups}
  OBVIOUS
<1> QED
  BY <1>3, <1>4 DEF DestsOf, T

----------------------------------------------------------------------------
(***************************************************************************)
(* Conversions.                                                             *)
(***************************************************************************)
LEMMA Uint16Is ==
    ASSUME NEW n \in Nat
    PROVE  /\ Uint16(n) \in Nat /\ Uint16(n) < PortLimit
           /\ n < PortLimit => Uint16(n) = n
BY SMT DEF Uint16, PortLimit

LEMMA JoinedItems ==
    ASSUME NEW X, NEW s \in Seq(X), NEW t \in Seq(X)
    PROVE  /\ s \o t \in Seq(X) /\ Len(s \o t) = Len(s) + Len(t)
           /\ \A i \in 1..(Len(s) + Len(t)) : (s \o t)[i] = IF i <= Len(s) THEN s[i] ELSE t[i - Len(s)]
OBVIOUS

LEMMA JoinedSet ==
    ASSUME NEW X, NEW s \in Seq(X), NEW t \in Seq(X)
    PROVE  s \o t \in Seq(X) /\ ToSet(s \o t) = ToSet(s) \cup ToSet(t)
<1>1. /\ s \o t \in Seq(X) /\ Len(s \o t) = Len(s) + Len(t)
      /\ \A i \in 1..(Len(s) + Len(t)) : (s \o t)[i] = IF i <= Len(s) THEN s[i] ELSE t[i - Len(s)]
  OBVIOUS
<1>2. ASSUME NEW i \in DOMAIN t PROVE (s \o t)[i + Len(s)] = t[i] /\ i + Len(s) \in DOMAIN (s \o t)
  BY <1>1
<1>3. ToSet(t) \subseteq ToSet(s \o t)
  BY <1>2 DEF ToSet
<1>4. ToSet(s) \subseteq ToSet(s \o t)
  BY <1>1 DEF ToSet
<1>5. ToSet(s \o t) \subseteq ToSet(s) \cup ToSet(t)
  BY <1>1 DEF ToSet
<1> QED
  BY <1>1, <1>3, <1>4, <1>5

\* Reading back supported flags loses HASHED only.
LEMMA FlagsIs ==
    ASSUME NEW F, F \subseteq supportedFlags
    PROVE  KglbFlags(F) \in Seq(Nat) /\ ToSet(KglbFlags(F)) = F \ {HASHED}
<1> DEFINE Flag(n) == IF n \in F THEN <<n>> ELSE <<>>
<1>1. \A n \in Nat : Flag(n) \in Seq(Nat) /\ ToSet(Flag(n)) = F \cap {n}
  BY DEF ToSet
<1> HIDE DEF Flag
<1>2. \A s, t \in Seq(Nat) : s \o t \in Seq(Nat) /\ ToSet(s \o t) = ToSet(s) \cup ToSet(t)
  BY JoinedSet
<1>3. Flag(1) \in Seq(Nat) /\ Flag(3) \in Seq(Nat) /\ Flag(7) \in Seq(Nat) /\ Flag(8) \in Seq(Nat)
  BY <1>1
<1>4. PICK two : two = Flag(1) \o Flag(3)
  OBVIOUS
<1>5. two \in Seq(Nat) /\ ToSet(two) = ToSet(Flag(1)) \cup ToSet(Flag(3))
  BY <1>2, <1>3, <1>4, Zenon
<1>6. PICK three : three = two \o Flag(7)
  OBVIOUS
<1>7. three \in Seq(Nat) /\ ToSet(three) = ToSet(two) \cup ToSet(Flag(7))
  BY <1>2, <1>3, <1>5, <1>6, Zenon
<1>8. three \o Flag(8) \in Seq(Nat) /\ ToSet(three \o Flag(8)) = ToSet(three) \cup ToSet(Flag(8))
  BY <1>2, <1>3, <1>7, Zenon
<1>9. KglbFlags(F) = three \o Flag(8)
  BY <1>4, <1>6 DEF KglbFlags, Flag
<1>10. ToSet(Flag(1)) = F \cap {1} /\ ToSet(Flag(3)) = F \cap {3}
       /\ ToSet(Flag(7)) = F \cap {7} /\ ToSet(Flag(8)) = F \cap {8}
  BY <1>1
<1>11. KglbFlags(F) \in Seq(Nat)
       /\ ToSet(KglbFlags(F)) = (((F \cap {1}) \cup (F \cap {3})) \cup (F \cap {7})) \cup (F \cap {8})
  BY <1>5, <1>7, <1>8, <1>9, <1>10, Zenon
<1>12. (((F \cap {1}) \cup (F \cap {3})) \cup (F \cap {7})) \cup (F \cap {8}) = F \ {HASHED}
  <2>1. ASSUME NEW x \in F PROVE x \in {1, 2, 3, 7, 8}
    BY DEF supportedFlags
  <2> QED
    BY <2>1 DEF HASHED
<1> QED
  BY <1>11, <1>12

LEMMA NameIs ==
    ASSUME NEW table, NEW name \in Range(table)
    PROVE  KglbName(table, name) \in DOMAIN table /\ table[KglbName(table, name)] = name
BY DEF KglbName, Range

LEMMA CanonicalIs ==
    ASSUME NEW a \in Name
    PROVE  Canonical[a] \in Name /\ Canonical[Canonical[a]] = Canonical[a]
BY StatesAssumption

\* A service that is read is in the slot, and has the scheduler and the flags, that it
\* would be written with.
LEMMA ReadService ==
    ASSUME KernelServices(kernel), Listable, NEW s \in DOMAIN kernel
    PROVE  /\ KglbService(s) \in IpvsService /\ Slot(KglbService(s)) = s
           /\ LibService(KglbService(s)) = [sched |-> kernel[s].sched, flags |-> kernel[s].flags]
<1> DEFINE sched == KglbName(libSchedulers, kernel[s].sched)
           flags == KglbFlags(kernel[s].flags)
           k == KglbService(s)
<1>1. /\ s \in KernelSlot /\ s.kind \in {"tcp", "udp", "fwmark"} /\ HASHED \in kernel[s].flags
      /\ s.kind # "fwmark" => s.num < PortLimit /\ s.at = Canonical[s.at]
  BY DEF KernelServices, Listable
<1>2. sched \in DOMAIN libSchedulers /\ libSchedulers[sched] = kernel[s].sched
  BY NameIs DEF Listable
<1>3. flags \in Seq(Nat) /\ ToSet(flags) \cup {HASHED} = kernel[s].flags
  BY <1>1, FlagsIs DEF Listable
<1> HIDE DEF sched, flags
<1>4. k = [kind |-> s.kind, at |-> s.at, num |-> s.num, sched |-> sched, flags |-> flags]
  BY DEF KglbService, sched, flags
<1> HIDE DEF k
<1>5. k \in IpvsService
  BY <1>1, <1>2, <1>3, <1>4 DEF IpvsService, KernelSlot
<1>6. Slot(k) = [kind |-> s.kind, at |-> s.at, num |-> s.num]
  <2>1. s.num \in Nat
    BY <1>1 DEF KernelSlot
  <2>2. s.kind # "fwmark" => Uint16(s.num) = s.num
    BY <1>1, <2>1, Uint16Is
  <2>3. k.kind = s.kind /\ k.at = s.at /\ k.num = s.num
    BY <1>4
  <2> QED
    BY <1>1, <2>2, <2>3 DEF Slot, Place
<1>7. Slot(k) = s
  BY <1>1, <1>6 DEF KernelSlot
<1>8. LibService(k) = [sched |-> kernel[s].sched, flags |-> kernel[s].flags]
  BY <1>2, <1>3, <1>4 DEF LibService
<1> QED
  BY <1>5, <1>7, <1>8 DEF k

\* The reals that are read are those that are there.
LEMMA ReadReals ==
    ASSUME KernelServices(kernel), Listable, NEW s \in DOMAIN kernel,
           NEW hosts, \A a \in DOMAIN hosts : hosts[a] \in Name
    PROVE  /\ RealServers(s, hosts) \in Seq(UpstreamState) /\ Reads(kernel[s].dests, RealServers(s, hosts))
           /\ \A i \in DOMAIN RealServers(s, hosts) :
                 /\ RealServers(s, hosts)[i].host = Lookup(hosts, RealServers(s, hosts)[i].addr)
                 /\ RealServers(s, hosts)[i].addr = Canonical[RealServers(s, hosts)[i].addr]
<1> DEFINE dests == kernel[s].dests
           Real(d) == [host |-> Lookup(hosts, d[1]), addr |-> d[1], port |-> d[2],
                       weight |-> dests[d].weight, fwd |-> KglbName(libForwards, dests[d].fwd)]
           S == {Real(d) : d \in DOMAIN dests}
           ups == RealServers(s, hosts)
<1>1. KernelDests(dests)
  BY DEF KernelServices
<1>2. \A d \in DOMAIN dests : dests[d].fwd \in Range(libForwards)
  BY DEF Listable
<1>3. ASSUME NEW d \in DOMAIN dests
      PROVE  /\ Real(d) \in UpstreamState /\ UpstreamKey(Real(d)) = d /\ DestKey(Real(d)) = d
             /\ LibDest(Real(d)) = dests[d] /\ Real(d).host = Lookup(hosts, Real(d).addr)
             /\ Real(d).addr = Canonical[Real(d).addr]
  <2> DEFINE f == KglbName(libForwards, dests[d].fwd)
  <2>1. /\ d = <<d[1], d[2]>> /\ d[1] \in Name /\ d[2] \in Nat /\ d[2] < PortLimit
        /\ d[1] = Canonical[d[1]]
        /\ dests[d] = [weight |-> dests[d].weight, fwd |-> dests[d].fwd] /\ dests[d].weight \in Nat
    BY <1>1 DEF KernelDests
  <2>2. f \in DOMAIN libForwards /\ libForwards[f] = dests[d].fwd
    BY <1>2, NameIs
  <2>3. Lookup(hosts, d[1]) \in Name
    BY StatesAssumption DEF Lookup
  <2> HIDE DEF f
  <2>4. Real(d) = [host |-> Lookup(hosts, d[1]), addr |-> d[1], port |-> d[2],
                   weight |-> dests[d].weight, fwd |-> f]
    BY DEF f
  <2> HIDE DEF Real, dests
  <2>5. Real(d) \in UpstreamState
    BY <2>1, <2>2, <2>3, <2>4 DEF UpstreamState
  <2>6. UpstreamKey(Real(d)) = d /\ DestKey(Real(d)) = d
    BY <2>1, <2>4, Uint16Is DEF UpstreamKey, DestKey
  <2>7. LibDest(Real(d)) = dests[d]
    BY <2>1, <2>2, <2>4 DEF LibDest
  <2>8. Real(d).host = Lookup(hosts, Real(d).addr) /\ Real(d).addr = Canonical[Real(d).addr]
    BY <2>1, <2>4
  <2> QED
    BY <2>5, <2>6, <2>7, <2>8
<1>4. ups = SetToSeq(S)
  BY DEF RealServers
<1> HIDE DEF Real, ups, dests
<1>5. IsFiniteSet(S)
  <2>1. [d \in DOMAIN dests |-> Real(d)] \in Surjection(DOMAIN dests, S)
    BY DEF Surjection
  <2> QED
    BY <1>1, <2>1, FS_Surjection DEF KernelDests
<1>6. ups \in Seq(S) /\ \A x \in S : \E i \in DOMAIN ups : ups[i] = x
  BY <1>4, <1>5, SetList
<1>7. \A i \in DOMAIN ups : \E d \in DOMAIN dests : ups[i] = Real(d)
  BY <1>6
<1>8. ups \in Seq(UpstreamState)
  BY <1>3, <1>6, <1>7
<1>9. Reads(dests, ups)
  BY <1>3, <1>6, <1>7 DEF Reads
<1>10. \A i \in DOMAIN ups : ups[i].host = Lookup(hosts, ups[i].addr) /\ ups[i].addr = Canonical[ups[i].addr]
  BY <1>3, <1>7
<1> QED
  BY <1>8, <1>9, <1>10 DEF ups, dests

----------------------------------------------------------------------------
(***************************************************************************)
(* Calls for the upstreams of one service.                                  *)
(***************************************************************************)
\* What an accepted call makes of the destinations.
Next1(dests, call) ==
    IF call.op = "deleteReal" THEN Minus(dests, DestKey(call.up))
    ELSE With(dests, DestKey(call.up), LibDest(call.up))

\* Calls stay fine as the kernel accepts one after the other.
LEMMA FineStep ==
    ASSUME NEW dests, NEW final, NEW X, NEW todo \in Seq(X), todo # <<>>, Fine(dests, todo, final),
           todo[1].op = "addReal" => DestKey(todo[1].up) \notin DOMAIN dests
    PROVE  Fine(Next1(dests, todo[1]), Tail(todo), final)
<1> DEFINE rest == Tail(todo)
           key == DestKey(todo[1].up)
           new == Next1(dests, todo[1])
<1>1. /\ Len(todo) \in Nat \ {0} /\ DOMAIN todo = 1..Len(todo) /\ Len(rest) = Len(todo) - 1
      /\ DOMAIN rest = 1..(Len(todo) - 1) /\ \A i \in DOMAIN rest : rest[i] = todo[i + 1]
  OBVIOUS
<1> HIDE DEF rest
<1>2. \A i \in DOMAIN rest : i + 1 \in DOMAIN todo
  BY <1>1
<1>3. /\ todo[1].op = "deleteReal" => DOMAIN new = DOMAIN dests \ {key}
      /\ todo[1].op # "deleteReal" => DOMAIN new = DOMAIN dests \cup {key} /\ new[key] = LibDest(todo[1].up)
      /\ \A d : d # key => (d \in DOMAIN new <=> d \in DOMAIN dests)
                           /\ (d \in DOMAIN new => new[d] = dests[d])
  BY DEF Next1, Minus, With, Restrict
<1> HIDE DEF new, key
<1>4. \A i \in DOMAIN rest : rest[i].op = "addReal" => DestKey(rest[i].up) \in DOMAIN final
  BY <1>1, <1>2 DEF Fine
<1>5. CASE Leads(dests, todo, final)
  <2>1. \A i \in DOMAIN todo :
          IF todo[i].op = "deleteReal" THEN DestKey(todo[i].up) \notin DOMAIN final
          ELSE DestKey(todo[i].up) \in DOMAIN final /\ final[DestKey(todo[i].up)] = LibDest(todo[i].up)
    BY <1>5 DEF Leads
  <2>2. \A i \in DOMAIN rest :
          IF rest[i].op = "deleteReal" THEN DestKey(rest[i].up) \notin DOMAIN final
          ELSE DestKey(rest[i].up) \in DOMAIN final /\ final[DestKey(rest[i].up)] = LibDest(rest[i].up)
    BY <1>1, <1>2, <2>1
  <2>3. ASSUME NEW d, \A i \in DOMAIN rest : DestKey(rest[i].up) # d
        PROVE  /\ d \in DOMAIN final <=> d \in DOMAIN new
               /\ d \in DOMAIN final => final[d] = new[d]
    <3>1. CASE d = key
      <4>1. 1 \in DOMAIN todo
        BY <1>1
      <4> QED
        BY <1>3, <2>1, <3>1, <4>1 DEF key
    <3>2. CASE d # key
      <4>1. ASSUME NEW i \in DOMAIN todo PROVE DestKey(todo[i].up) # d
        <5>1. CASE i = 1
          BY <3>2, <5>1 DEF key
        <5>2. CASE i # 1
          <6>1. i - 1 \in DOMAIN rest /\ rest[i - 1] = todo[i]
            BY <1>1, <5>2
          <6> QED
            BY <2>3, <6>1
        <5> QED
          BY <5>1, <5>2
      <4>2. /\ d \in DOMAIN final <=> d \in DOMAIN dests
            /\ d \in DOMAIN final => final[d] = dests[d]
        BY <1>5, <4>1 DEF Leads
      <4> QED
        BY <1>3, <3>2, <4>2
    <3> QED
      BY <3>1, <3>2
  <2>4. Leads(new, rest, final)
    BY <2>2, <2>3 DEF Leads
  <2> QED
    BY <1>4, <2>4 DEF Fine, rest, new
<1>6. CASE Doomed(dests, todo)
  <2>1. PICK i \in DOMAIN todo :
          /\ \A j \in 1..i : todo[j].op = "addReal"
          /\ \/ DestKey(todo[i].up) \in DOMAIN dests
             \/ \E j \in 1..(i - 1) : DestKey(todo[j].up) = DestKey(todo[i].up)
    BY <1>6 DEF Doomed
  <2>2. todo[1].op = "addReal" /\ key \notin DOMAIN dests
    BY <1>1, <2>1 DEF key
  <2>3. i # 1
    BY <1>1, <2>1, <2>2 DEF key
  <2>4. i - 1 \in DOMAIN rest /\ rest[i - 1] = todo[i]
    BY <1>1, <2>3
  <2>5. \A j \in 1..(i - 1) : rest[j].op = "addReal"
    BY <1>1, <2>1, <2>4
  <2>6. \/ DestKey(rest[i - 1].up) \in DOMAIN new
        \/ \E j \in 1..((i - 1) - 1) : DestKey(rest[j].up) = DestKey(rest[i - 1].up)
    <3>1. CASE DestKey(todo[i].up) \in DOMAIN dests
      BY <1>3, <2>2, <2>4, <3>1
    <3>2. ASSUME NEW j \in 1..(i - 1), DestKey(todo[j].up) = DestKey(todo[i].up)
          PROVE  \/ DestKey(rest[i - 1].up) \in DOMAIN new
                 \/ \E m \in 1..((i - 1) - 1) : DestKey(rest[m].up) = DestKey(rest[i - 1].up)
      <4>1. CASE j = 1
        BY <1>3, <2>2, <2>4, <3>2, <4>1 DEF key
      <4>2. CASE j # 1
        <5>1. j - 1 \in 1..((i - 1) - 1) /\ j - 1 \in 1..(Len(todo) - 1) /\ (j - 1) + 1 = j
          BY <1>1, <4>2
        <5>2. rest[j - 1] = todo[j]
          BY <1>1, <5>1
        <5> QED
          BY <2>4, <3>2, <5>1, <5>2
      <4> QED
        BY <4>1, <4>2
    <3> QED
      BY <2>1, <3>1, <3>2
  <2>7. Doomed(new, rest)
    BY <2>4, <2>5, <2>6 DEF Doomed
  <2> QED
    BY <1>4, <2>7 DEF Fine, rest, new
<1> QED
  BY <1>5, <1>6 DEF Fine

\* Without calls left the destinations are final.
LEMMA FineEnd ==
    ASSUME NEW dests, NEW final, Fine(dests, <<>>, final),
           dests = [d \in DOMAIN dests |-> dests[d]], final = [d \in DOMAIN final |-> final[d]]
    PROVE  dests = final
<1>1. Leads(dests, <<>>, final)
  BY DEF Fine, Doomed
<1>2. \A d : (d \in DOMAIN final <=> d \in DOMAIN dests) /\ (d \in DOMAIN final => final[d] = dests[d])
  BY <1>1 DEF Leads
<1>3. DOMAIN final = DOMAIN dests
  BY <1>2
<1> QED
  BY <1>2, <1>3

\* AddBalancer's calls for the upstreams of a new service.
LEMMA AddFine ==
    ASSUME NEW ups \in Seq(UpstreamState), NEW svc
    PROVE  Fine([d \in {} |-> 0], [i \in DOMAIN ups |-> [op |-> "addReal", svc |-> svc, up |-> ups[i]]],
                DestsOf(ups))
<1> DEFINE todo == [i \in DOMAIN ups |-> [op |-> "addReal", svc |-> svc, up |-> ups[i]]]
           none == [d \in {} |-> 0]
           final == DestsOf(ups)
<1>1. /\ Len(ups) \in Nat /\ DOMAIN ups = 1..Len(ups)
      /\ DOMAIN todo = 1..Len(ups) /\ \A i \in 1..Len(ups) : todo[i].op = "addReal" /\ todo[i].up = ups[i]
      /\ DOMAIN none = {}
  OBVIOUS
<1>2. DOMAIN final = {DestKey(ups[i]) : i \in 1..Len(ups)}
  BY <1>1 DEF DestsOf
<1> HIDE DEF todo, none, final
<1>3. \A i \in DOMAIN todo : todo[i].op = "addReal" => DestKey(todo[i].up) \in DOMAIN final
  BY <1>1, <1>2
<1>4. CASE \E i \in 1..Len(ups) : \E j \in 1..(i - 1) : DestKey(ups[j]) = DestKey(ups[i])
  <2>1. PICK i \in 1..Len(ups) : \E j \in 1..(i - 1) : DestKey(ups[j]) = DestKey(ups[i])
    BY <1>4
  <2>2. \A j \in 1..i : j \in 1..Len(ups)
    BY <1>1
  <2>3. i \in DOMAIN todo /\ \A j \in 1..i : todo[j].op = "addReal" /\ todo[j].up = ups[j]
    BY <1>1, <2>2
  <2>4. \E j \in 1..(i - 1) : DestKey(todo[j].up) = DestKey(todo[i].up)
    BY <1>1, <2>1, <2>3
  <2>5. Doomed(none, todo)
    BY <2>3, <2>4 DEF Doomed
  <2> QED
    BY <1>3, <2>5 DEF Fine, todo, none, final
<1>5. CASE ~\E i \in 1..Len(ups) : \E j \in 1..(i - 1) : DestKey(ups[j]) = DestKey(ups[i])
  <2>1. ASSUME NEW i \in 1..Len(ups) PROVE DestKey(ups[i]) \in DOMAIN final /\ final[DestKey(ups[i])] = LibDest(ups[i])
    <3>1. \A j \in (i + 1)..Len(ups) : DestKey(ups[j]) # DestKey(ups[i])
      BY <1>1, <1>5
    <3> QED
      BY <1>1, <3>1, DestsOfIs DEF final
  <2>2. \A d : (\A i \in DOMAIN todo : DestKey(todo[i].up) # d) => d \notin DOMAIN final /\ d \notin DOMAIN none
    BY <1>1, <1>2
  <2>3. Leads(none, todo, final)
    BY <1>1, <2>1, <2>2 DEF Leads
  <2> QED
    BY <1>3, <2>3 DEF Fine, todo, none, final
<1> QED
  BY <1>4, <1>5

\* What there is between the upstreams that are read and those that are wanted.
LEMMA UpsDiff ==
    ASSUME NEW X, NEW old \in Seq(X), NEW new \in Seq(X)
    PROVE  LET diff == Ups!CompareArrays(old, new)
               O == Ups!keyGen(old)
               N == Ups!keyGen(new)
           IN  /\ DOMAIN O = Ups!Keys(old) /\ DOMAIN N = Ups!Keys(new)
               /\ diff.added = {N[k] : k \in DOMAIN N \ DOMAIN O}
               /\ diff.deleted = {O[k] : k \in DOMAIN O \ DOMAIN N}
               /\ {p.new : p \in diff.changed} = {N[k] : k \in {k \in DOMAIN O \cap DOMAIN N : O[k] # N[k]}}
               /\ IsFiniteSet(diff.added) /\ IsFiniteSet(diff.deleted)
               /\ IsFiniteSet({p.new : p \in diff.changed})
<1> DEFINE diff == Ups!CompareArrays(old, new)
           O == Ups!keyGen(old)
           N == Ups!keyGen(new)
<1>1. DOMAIN O = Ups!Keys(old) /\ DOMAIN N = Ups!Keys(new)
  BY DEF Ups!keyGen
<1>2. diff = [added   |-> {N[k] : k \in DOMAIN N \ DOMAIN O},
              deleted |-> {O[k] : k \in DOMAIN O \ DOMAIN N},
              changed |-> {[old |-> O[k], new |-> N[k]] :
                             k \in {k \in DOMAIN O \cap DOMAIN N : O[k] # N[k]}}]
  BY Zenon DEF Ups!CompareArrays, Same
<1> HIDE DEF diff, O, N
<1>3. /\ diff.added = {N[k] : k \in DOMAIN N \ DOMAIN O}
      /\ diff.deleted = {O[k] : k \in DOMAIN O \ DOMAIN N}
      /\ diff.changed = {[old |-> O[k], new |-> N[k]] :
                             k \in {k \in DOMAIN O \cap DOMAIN N : O[k] # N[k]}}
  BY <1>2
<1>4. {p.new : p \in diff.changed} = {N[k] : k \in {k \in DOMAIN O \cap DOMAIN N : O[k] # N[k]}}
  <2> DEFINE C == {k \in DOMAIN O \cap DOMAIN N : O[k] # N[k]}
             R(k) == [old |-> O[k], new |-> N[k]]
  <2>1. \A k : R(k).new = N[k]
    OBVIOUS
  <2>2. diff.changed = {R(k) : k \in C}
    BY <1>3
  <2> HIDE DEF C, R
  <2>3. {p.new : p \in diff.changed} = {N[k] : k \in C}
    BY <2>1, <2>2
  <2> QED
    BY <2>3 DEF C
<1>5. diff.added \subseteq ToSet(new) /\ {p.new : p \in diff.changed} \subseteq ToSet(new)
      /\ diff.deleted \subseteq ToSet(old)
  <2>1. \A k \in DOMAIN N : N[k] \in ToSet(new)
    BY <1>1, UpsMap DEF N, ToSet
  <2>2. \A k \in DOMAIN O : O[k] \in ToSet(old)
    BY <1>1, UpsMap DEF O, ToSet
  <2> QED
    BY <1>3, <1>4, <2>1, <2>2
<1>6. IsFiniteSet(ToSet(new)) /\ IsFiniteSet(ToSet(old))
  BY ToSetFinite
<1>7. IsFiniteSet(diff.added) /\ IsFiniteSet(diff.deleted) /\ IsFiniteSet({p.new : p \in diff.changed})
  BY <1>5, <1>6, FS_Subset
<1> QED
  BY <1>1, <1>3, <1>4, <1>7 DEF diff, O, N

\* The calls for a set of upstreams, in some order.
ListsCalls(c, op, svc, S) ==
    /\ c \in Seq(ToSet(c)) /\ DOMAIN c = 1..Len(c)
    /\ \A i \in DOMAIN c : /\ c[i].op = op /\ c[i].svc = svc /\ c[i].up \in S
                           /\ c[i] = [op |-> op, svc |-> svc, up |-> c[i].up]
    /\ \A x \in S : \E i \in DOMAIN c : c[i].up = x

LEMMA CallsList ==
    ASSUME NEW S, IsFiniteSet(S), NEW op, NEW svc, NEW c \in Calls(op, svc, S)
    PROVE  ListsCalls(c, op, svc, S)
<1>1. PICK seq \in SetToSeqs(S) : c = [i \in DOMAIN seq |-> [op |-> op, svc |-> svc, up |-> seq[i]]]
  BY DEF Calls
<1>2. /\ seq \in [1..Cardinality(S) -> S]
      /\ \A i, j \in 1..Cardinality(S) : i # j => seq[i] # seq[j]
  BY DEF SetToSeqs
<1>3. seq \in Seq(S) /\ \A x \in S : \E i \in DOMAIN seq : seq[i] = x
  BY <1>2, ListOfAll
<1>4. DOMAIN seq = 1..Len(seq) /\ Len(seq) \in Nat /\ \A i \in DOMAIN seq : seq[i] \in S
  BY <1>3
<1>5. /\ DOMAIN c = 1..Len(seq)
      /\ \A i \in DOMAIN c : /\ c[i].op = op /\ c[i].svc = svc /\ c[i].up = seq[i]
                             /\ c[i] = [op |-> op, svc |-> svc, up |-> c[i].up]
  BY <1>1, <1>4
<1>6. c = [i \in 1..Len(seq) |-> c[i]] /\ \A i \in 1..Len(seq) : c[i] \in ToSet(c)
  BY <1>1, <1>4, <1>5 DEF ToSet
<1>7. c \in Seq(ToSet(c))
  BY <1>4, <1>6
<1>8. DOMAIN c = 1..Len(c)
  BY <1>7
<1> QED
  BY <1>3, <1>4, <1>5, <1>7, <1>8 DEF ListsCalls

\* t is the lists a, u and d one after the other, d from place n on.
Joins(t, a, u, d, n) ==
    /\ n = Len(a) + Len(u) /\ Len(t) = n + Len(d) /\ DOMAIN t = 1..Len(t)
    /\ t \in Seq(ToSet(t))
    /\ Len(a) \in Nat /\ Len(u) \in Nat /\ Len(d) \in Nat
    /\ \A i \in DOMAIN t :
          t[i] = IF i <= Len(a) THEN a[i] ELSE IF i <= n THEN u[i - Len(a)] ELSE d[i - n]
    /\ \A i \in DOMAIN a : i \in DOMAIN t /\ t[i] = a[i]
    /\ \A i \in DOMAIN u : i + Len(a) \in DOMAIN t /\ t[i + Len(a)] = u[i]
    /\ \A i \in DOMAIN d : i + n \in DOMAIN t /\ t[i + n] = d[i]

LEMMA Joined ==
    ASSUME NEW a, NEW u, NEW d, a \in Seq(ToSet(a)), u \in Seq(ToSet(u)), d \in Seq(ToSet(d)),
           NEW t, t = a \o u \o d
    PROVE  \E n : Joins(t, a, u, d, n)
<1>n. PICK n : n = Len(a) + Len(u)
  OBVIOUS
<1>1. PICK V : a \in Seq(V) /\ u \in Seq(V) /\ d \in Seq(V)
  <2>1. \A X, Y, Z : /\ Seq(X) \subseteq Seq(X \cup Y \cup Z)
                     /\ Seq(Y) \subseteq Seq(X \cup Y \cup Z)
                     /\ Seq(Z) \subseteq Seq(X \cup Y \cup Z)
    OBVIOUS
  <2> QED
    BY <2>1
<1>b. PICK b : b = a \o u
  OBVIOUS
<1>t. t = b \o d
  BY <1>b
<1>2. /\ b \in Seq(V) /\ Len(b) = Len(a) + Len(u)
      /\ \A i \in 1..(Len(a) + Len(u)) : b[i] = IF i <= Len(a) THEN a[i] ELSE u[i - Len(a)]
  BY <1>1, <1>b
<1>3. /\ t \in Seq(V) /\ Len(t) = Len(b) + Len(d)
      /\ \A i \in 1..(Len(b) + Len(d)) : t[i] = IF i <= Len(b) THEN b[i] ELSE d[i - Len(b)]
  <2>1. b \in Seq(V)
    BY <1>2
  <2> QED
    BY <1>1, <1>t, <2>1
<1>4. /\ Len(a) \in Nat /\ Len(u) \in Nat /\ Len(d) \in Nat
      /\ DOMAIN a = 1..Len(a) /\ DOMAIN u = 1..Len(u) /\ DOMAIN d = 1..Len(d) /\ DOMAIN t = 1..Len(t)
  BY <1>1, <1>3
<1>5. \A i \in DOMAIN t : t[i] = IF i <= Len(a) THEN a[i] ELSE IF i <= Len(a) + Len(u) THEN u[i - Len(a)]
                                 ELSE d[i - (Len(a) + Len(u))]
  BY <1>2, <1>3, <1>4
<1>6. \A i \in DOMAIN a : i \in DOMAIN t /\ t[i] = a[i]
  BY <1>2, <1>3, <1>4
<1>7. \A i \in DOMAIN u : i + Len(a) \in DOMAIN t /\ t[i + Len(a)] = u[i]
  BY <1>2, <1>3, <1>4
<1>8. \A i \in DOMAIN d : i + (Len(a) + Len(u)) \in DOMAIN t /\ t[i + (Len(a) + Len(u))] = d[i]
  BY <1>2, <1>3, <1>4
<1>9. t \in Seq(ToSet(t))
  <2>1. \A i \in DOMAIN t : t[i] \in ToSet(t)
    BY DEF ToSet
  <2>2. t \in Seq(V)
    BY <1>3
  <2> QED
    BY <2>1, <2>2, ItemsIn, Zenon
<1> QED
  BY <1>n, <1>b, <1>t, <1>2, <1>3, <1>4, <1>5, <1>6, <1>7, <1>8, <1>9 DEF Joins

\* Step e) of SetState for the upstreams of one service.
LEMMA ChangeFine ==
    ASSUME NEW dests, NEW pair, pair.old.ups \in Seq(UpstreamState), pair.new.ups \in Seq(UpstreamState),
           pair.new.svc \in IpvsService, Reads(dests, pair.old.ups), NEW todo \in ChangeCalls(pair)
    PROVE  /\ Fine(dests, todo, DestsOf(pair.new.ups))
           /\ todo \in Seq(RealCall) /\ \A i \in DOMAIN todo : todo[i].svc = pair.new.svc
<1> DEFINE old == pair.old.ups
           new == pair.new.ups
           svc == pair.new.svc
           diff == Ups!CompareArrays(old, new)
           O == Ups!keyGen(old)
           N == Ups!keyGen(new)
           added == diff.added
           deleted == diff.deleted
           changed == {p.new : p \in diff.changed}
           final == DestsOf(new)
<1>1. /\ DOMAIN O = Ups!Keys(old) /\ DOMAIN N = Ups!Keys(new)
      /\ added = {N[k] : k \in DOMAIN N \ DOMAIN O}
      /\ deleted = {O[k] : k \in DOMAIN O \ DOMAIN N}
      /\ changed = {N[k] : k \in {k \in DOMAIN O \cap DOMAIN N : O[k] # N[k]}}
      /\ IsFiniteSet(added) /\ IsFiniteSet(deleted) /\ IsFiniteSet(changed)
  BY UpsDiff
<1>2. PICK a, u, d : /\ a \in Calls("addReal", svc, added) /\ u \in Calls("updateReal", svc, changed)
                      /\ d \in Calls("deleteReal", svc, deleted) /\ todo = a \o u \o d
  <2> DEFINE A == Calls("addReal", svc, added)
             U == Calls("updateReal", svc, changed)
             D == Calls("deleteReal", svc, deleted)
  <2>1. ChangeCalls(pair) = {a \o u \o d : a \in A, u \in U, d \in D}
    BY DEF ChangeCalls
  <2> HIDE DEF A, U, D
  <2>2. \E a \in A, u \in U, d \in D : todo = a \o u \o d
    BY <2>1
  <2> QED
    BY <2>2 DEF A, U, D
<1>3. /\ DOMAIN O = DOMAIN dests
      /\ \A k \in DOMAIN O : /\ O[k] \in ToSet(old) /\ UpstreamKey(O[k]) = k
                             /\ DestKey(O[k]) = k /\ LibDest(O[k]) = dests[k]
  <2>1. Ups!Keys(old) = DOMAIN dests
    BY DEF Ups!Keys, Reads
  <2>2. ASSUME NEW k \in DOMAIN O
        PROVE  O[k] \in ToSet(old) /\ UpstreamKey(O[k]) = k /\ DestKey(O[k]) = k /\ LibDest(O[k]) = dests[k]
    <3>1. PICK i \in DOMAIN old : UpstreamKey(old[i]) = k /\ O[k] = old[i]
      BY <1>1, UpsMap
    <3> QED
      BY <3>1 DEF Reads, ToSet
  <2> QED
    BY <1>1, <2>1, <2>2
<1>4. \A k \in DOMAIN N : \E i \in DOMAIN new : /\ UpstreamKey(new[i]) = k /\ N[k] = new[i]
                                                /\ \A j \in (i + 1)..Len(new) : UpstreamKey(new[j]) # k
  BY <1>1, UpsMap
<1>5. /\ DOMAIN new = 1..Len(new) /\ Len(new) \in Nat
      /\ \A i \in DOMAIN new : UpstreamKey(new[i]) \in DOMAIN N
      /\ DOMAIN final = {DestKey(new[i]) : i \in DOMAIN new}
  BY <1>1 DEF Ups!Keys, DestsOf
<1> HIDE DEF O, N, added, deleted, changed, final, svc, diff
<1>6. \A x \in ToSet(old) \cup ToSet(new) : x \in UpstreamState
  BY DEF ToSet
<1> HIDE DEF old, new
<1>7. /\ a \in Seq(ToSet(a)) /\ DOMAIN a = 1..Len(a)
      /\ \A i \in DOMAIN a : /\ a[i].op = "addReal" /\ a[i].svc = svc /\ a[i].up \in added
                             /\ a[i] = [op |-> "addReal", svc |-> svc, up |-> a[i].up]
      /\ \A x \in added : \E i \in DOMAIN a : a[i].up = x
  <2>1. IsFiniteSet(added) /\ a \in Calls("addReal", svc, added)
    BY <1>1, <1>2
  <2>2. ListsCalls(a, "addReal", svc, added)
    BY <2>1, CallsList, Zenon
  <2> QED
    BY <2>2, Zenon DEF ListsCalls
<1>8. /\ u \in Seq(ToSet(u)) /\ DOMAIN u = 1..Len(u)
      /\ \A i \in DOMAIN u : /\ u[i].op = "updateReal" /\ u[i].svc = svc /\ u[i].up \in changed
                             /\ u[i] = [op |-> "updateReal", svc |-> svc, up |-> u[i].up]
      /\ \A x \in changed : \E i \in DOMAIN u : u[i].up = x
  <2>1. IsFiniteSet(changed) /\ u \in Calls("updateReal", svc, changed)
    BY <1>1, <1>2
  <2>2. ListsCalls(u, "updateReal", svc, changed)
    BY <2>1, CallsList, Zenon
  <2> QED
    BY <2>2, Zenon DEF ListsCalls
<1>9. /\ d \in Seq(ToSet(d)) /\ DOMAIN d = 1..Len(d)
      /\ \A i \in DOMAIN d : /\ d[i].op = "deleteReal" /\ d[i].svc = svc /\ d[i].up \in deleted
                             /\ d[i] = [op |-> "deleteReal", svc |-> svc, up |-> d[i].up]
      /\ \A x \in deleted : \E i \in DOMAIN d : d[i].up = x
  <2>1. IsFiniteSet(deleted) /\ d \in Calls("deleteReal", svc, deleted)
    BY <1>1, <1>2
  <2>2. ListsCalls(d, "deleteReal", svc, deleted)
    BY <2>1, CallsList, Zenon
  <2> QED
    BY <2>2, Zenon DEF ListsCalls
<1>10. /\ DOMAIN todo = 1..Len(todo) /\ Len(todo) \in Nat /\ Len(a) \in Nat /\ todo \in Seq(ToSet(todo))
       /\ \A i \in DOMAIN todo :
             /\ todo[i].svc = svc /\ todo[i] = [op |-> todo[i].op, svc |-> svc, up |-> todo[i].up]
             /\ \/ i <= Len(a) /\ todo[i].op = "addReal" /\ todo[i].up \in added
                \/ i > Len(a) /\ todo[i].op = "updateReal" /\ todo[i].up \in changed
                \/ i > Len(a) /\ todo[i].op = "deleteReal" /\ todo[i].up \in deleted
       /\ \A x \in added : \E i \in DOMAIN todo : i <= Len(a) /\ todo[i].up = x
       /\ \A x \in changed \cup deleted : \E i \in DOMAIN todo : todo[i].up = x
  <2> DEFINE m == Len(a)
  <2>0. a \in Seq(ToSet(a)) /\ u \in Seq(ToSet(u)) /\ d \in Seq(ToSet(d)) /\ todo = a \o u \o d
    BY <1>2, <1>7, <1>8, <1>9
  <2>n. PICK n : Joins(todo, a, u, d, n)
    BY <2>0, Joined, Zenon
  <2>1. /\ n = Len(a) + Len(u) /\ Len(todo) = n + Len(d) /\ DOMAIN todo = 1..Len(todo)
        /\ todo \in Seq(ToSet(todo))
        /\ Len(a) \in Nat /\ Len(u) \in Nat /\ Len(d) \in Nat
        /\ \A i \in DOMAIN todo : todo[i] = IF i <= m THEN a[i] ELSE IF i <= n THEN u[i - m] ELSE d[i - n]
        /\ \A i \in DOMAIN a : i \in DOMAIN todo /\ todo[i] = a[i]
        /\ \A i \in DOMAIN u : i + m \in DOMAIN todo /\ todo[i + m] = u[i]
        /\ \A i \in DOMAIN d : i + n \in DOMAIN todo /\ todo[i + n] = d[i]
    BY <2>n, Zenon DEF Joins
  <2>2. /\ DOMAIN a = 1..Len(a) /\ \A i \in DOMAIN a : a[i].op = "addReal" /\ a[i].svc = svc /\ a[i].up \in added
                        /\ a[i] = [op |-> a[i].op, svc |-> svc, up |-> a[i].up]
        /\ DOMAIN u = 1..Len(u) /\ \A i \in DOMAIN u : u[i].op = "updateReal" /\ u[i].svc = svc /\ u[i].up \in changed
                        /\ u[i] = [op |-> u[i].op, svc |-> svc, up |-> u[i].up]
        /\ DOMAIN d = 1..Len(d) /\ \A i \in DOMAIN d : d[i].op = "deleteReal" /\ d[i].svc = svc /\ d[i].up \in deleted
                        /\ d[i] = [op |-> d[i].op, svc |-> svc, up |-> d[i].up]
    BY <1>7, <1>8, <1>9
  <2>3. ASSUME NEW i \in DOMAIN todo
        PROVE  /\ todo[i].svc = svc /\ todo[i] = [op |-> todo[i].op, svc |-> svc, up |-> todo[i].up]
               /\ \/ i <= Len(a) /\ todo[i].op = "addReal" /\ todo[i].up \in added
                  \/ i > Len(a) /\ todo[i].op = "updateReal" /\ todo[i].up \in changed
                  \/ i > Len(a) /\ todo[i].op = "deleteReal" /\ todo[i].up \in deleted
    <3>1. i \in 1..(n + Len(d))
      BY <2>1
    <3>2. CASE i <= m
      <4>1. i \in DOMAIN a /\ todo[i] = a[i]
        BY <2>1, <2>2, <3>1, <3>2
      <4> QED
        BY <2>2, <3>2, <4>1
    <3>3. CASE i > m /\ i <= n
      <4>1. i - m \in DOMAIN u /\ todo[i] = u[i - m]
        BY <2>1, <2>2, <3>1, <3>3
      <4> QED
        BY <2>2, <3>3, <4>1
    <3>4. CASE i > n
      <4>1. i - n \in DOMAIN d /\ todo[i] = d[i - n] /\ i > m
        BY <2>1, <2>2, <3>1, <3>4
      <4> QED
        BY <2>2, <3>4, <4>1
    <3> QED
      BY <2>1, <3>1, <3>2, <3>3, <3>4
  <2>4. \A x \in added : \E i \in DOMAIN todo : i <= Len(a) /\ todo[i].up = x
    BY <1>7, <2>1, <2>2
  <2>5. ASSUME NEW x \in changed PROVE \E i \in DOMAIN todo : todo[i].up = x
    <3>1. PICK i \in DOMAIN u : u[i].up = x
      BY <1>8
    <3>2. i + m \in DOMAIN todo /\ todo[i + m] = u[i]
      BY <2>1
    <3> QED
      BY <3>1, <3>2
  <2>6. ASSUME NEW x \in deleted PROVE \E i \in DOMAIN todo : todo[i].up = x
    <3>1. PICK i \in DOMAIN d : d[i].up = x
      BY <1>9
    <3>2. i + n \in DOMAIN todo /\ todo[i + n] = d[i]
      BY <2>1
    <3> QED
      BY <3>1, <3>2
  <2> QED
    BY <2>1, <2>3, <2>4, <2>5, <2>6
<1>11. \A x, y : UpstreamKey(x) = UpstreamKey(y) => DestKey(x) = DestKey(y)
  BY DEF UpstreamKey, DestKey
<1>12. ASSUME NEW k \in DOMAIN N
       PROVE  N[k] \in ToSet(new) /\ UpstreamKey(N[k]) = k /\ DestKey(N[k]) \in DOMAIN final
  BY <1>4, <1>5 DEF ToSet
<1>13. ASSUME NEW k \in DOMAIN N \cap DOMAIN O PROVE DestKey(N[k]) = k
  BY <1>3, <1>11, <1>12
<1>14. \A x \in added : DestKey(x) \in DOMAIN final
  BY <1>1, <1>12
<1>15. Doomed(dests, todo) \/ Leads(dests, todo, final)
  <2>1. CASE \E x \in added : DestKey(x) \in DOMAIN dests
    <3>1. PICK x \in added : DestKey(x) \in DOMAIN dests
      BY <2>1
    <3>2. PICK i \in DOMAIN todo : i <= Len(a) /\ todo[i].up = x
      BY <1>10
    <3>3. \A j \in 1..i : todo[j].op = "addReal"
      BY <1>10, <3>2
    <3> QED
      BY <3>1, <3>2, <3>3 DEF Doomed
  <2>2. CASE \E x, y \in added : x # y /\ DestKey(x) = DestKey(y)
    <3>1. PICK x \in added, y \in added : x # y /\ DestKey(x) = DestKey(y)
      BY <2>2
    <3>2. PICK i \in DOMAIN todo : i <= Len(a) /\ todo[i].up = x
      BY <1>10
    <3>3. PICK j \in DOMAIN todo : j <= Len(a) /\ todo[j].up = y
      BY <1>10
    <3>4. ASSUME NEW l \in DOMAIN todo, l <= Len(a) PROVE \A e \in 1..l : todo[e].op = "addReal"
      <4>1. \A e \in 1..l : e \in DOMAIN todo /\ e <= Len(a)
        BY <1>10, <3>4
      <4> QED
        BY <1>10, <4>1
    <3>5. i \in 1..(j - 1) \/ j \in 1..(i - 1)
      BY <1>10, <3>1, <3>2, <3>3
    <3> QED
      BY <3>1, <3>2, <3>3, <3>4, <3>5 DEF Doomed
  <2>3. ASSUME ~\E x \in added : DestKey(x) \in DOMAIN dests, ~\E x, y \in added : x # y /\ DestKey(x) = DestKey(y)
        PROVE  Leads(dests, todo, final)
    <3>1. ASSUME NEW k \in DOMAIN N, NEW l \in DOMAIN N, DestKey(N[k]) = DestKey(N[l]) PROVE k = l
      <4>1. CASE k \in DOMAIN O /\ l \in DOMAIN O
        BY <1>13, <3>1, <4>1
      <4>2. CASE k \notin DOMAIN O /\ l \notin DOMAIN O
        BY <1>1, <1>12, <2>3, <3>1, <4>2
      <4>3. CASE k \notin DOMAIN O /\ l \in DOMAIN O
        BY <1>1, <1>3, <1>13, <2>3, <3>1, <4>3
      <4>4. CASE k \in DOMAIN O /\ l \notin DOMAIN O
        BY <1>1, <1>3, <1>13, <2>3, <3>1, <4>4
      <4> QED
        BY <4>1, <4>2, <4>3, <4>4
    <3>2. ASSUME NEW k \in DOMAIN N PROVE final[DestKey(N[k])] = LibDest(N[k])
      <4>1. PICK i \in DOMAIN new : /\ UpstreamKey(new[i]) = k /\ N[k] = new[i]
                                    /\ \A j \in (i + 1)..Len(new) : UpstreamKey(new[j]) # k
        BY <1>4
      <4>2. ASSUME NEW j \in (i + 1)..Len(new) PROVE DestKey(new[j]) # DestKey(new[i])
        <5>1. j \in DOMAIN new
          BY <1>5
        <5>2. UpstreamKey(new[j]) \in DOMAIN N /\ UpstreamKey(new[j]) # k
          BY <1>5, <4>1, <5>1
        <5>3. DestKey(N[UpstreamKey(new[j])]) = DestKey(new[j])
          BY <1>11, <1>12, <5>2
        <5> QED
          BY <3>1, <4>1, <5>2, <5>3
      <4>3. new \in Seq(UpstreamState)
        BY DEF new
      <4> QED
        BY <4>1, <4>2, <4>3, DestsOfIs DEF final
    <3>3. ASSUME NEW e \in DOMAIN final PROVE \E k \in DOMAIN N : DestKey(N[k]) = e
      BY <1>5, <1>11, <1>12
    <3>4. ASSUME NEW i \in DOMAIN todo, todo[i].op = "deleteReal" PROVE DestKey(todo[i].up) \notin DOMAIN final
      <4>1. PICK e \in DOMAIN O \ DOMAIN N : todo[i].up = O[e]
        BY <1>1, <1>10, <3>4
      <4>2. DestKey(todo[i].up) = e /\ e \in DOMAIN dests
        BY <1>3, <4>1
      <4>3. ASSUME NEW k \in DOMAIN N, DestKey(N[k]) = e PROVE FALSE
        <5>1. k \notin DOMAIN O
          BY <1>13, <4>1, <4>3
        <5> QED
          BY <1>1, <2>3, <4>2, <4>3, <5>1
      <4> QED
        BY <3>3, <4>2, <4>3
    <3>5. ASSUME NEW i \in DOMAIN todo, todo[i].op # "deleteReal"
          PROVE  /\ DestKey(todo[i].up) \in DOMAIN final
                 /\ final[DestKey(todo[i].up)] = LibDest(todo[i].up)
      <4>1. \E k \in DOMAIN N : todo[i].up = N[k]
        BY <1>1, <1>10, <3>5
      <4> QED
        BY <1>12, <3>2, <4>1
    <3>6. ASSUME NEW e, \A i \in DOMAIN todo : DestKey(todo[i].up) # e
          PROVE  /\ e \in DOMAIN final <=> e \in DOMAIN dests
                 /\ e \in DOMAIN final => final[e] = dests[e]
      <4>1. \A x \in added \cup changed \cup deleted : DestKey(x) # e
        BY <1>10, <3>6
      <4>2. ASSUME NEW k \in DOMAIN N, DestKey(N[k]) = e PROVE e \in DOMAIN dests /\ final[e] = dests[e]
        <5>1. k \in DOMAIN O
          BY <1>1, <4>1, <4>2
        <5>2. k = e /\ O[k] = N[k]
          BY <1>1, <1>13, <4>1, <4>2, <5>1
        <5> QED
          BY <1>3, <3>2, <5>1, <5>2, <4>2
      <4>3. ASSUME e \in DOMAIN dests PROVE e \in DOMAIN final
        <5>1. e \in DOMAIN N
          BY <1>1, <1>3, <4>1, <4>3
        <5> QED
          BY <1>3, <1>12, <1>13, <4>3, <5>1
      <4> QED
        BY <3>3, <4>2, <4>3
    <3> QED
      BY <3>4, <3>5, <3>6 DEF Leads
  <2> QED
    BY <2>1, <2>2, <2>3
<1>16. \A i \in DOMAIN todo : todo[i].op = "addReal" => DestKey(todo[i].up) \in DOMAIN final
  BY <1>10, <1>14
<1>17. Fine(dests, todo, final)
  BY <1>15, <1>16 DEF Fine
<1>18. added \subseteq ToSet(new) /\ changed \subseteq ToSet(new) /\ deleted \subseteq ToSet(old)
  BY <1>1, <1>3, <1>12
<1>19. ASSUME NEW i \in DOMAIN todo PROVE todo[i] \in RealCall
  <2>1. todo[i].up \in UpstreamState /\ todo[i].op \in {"addReal", "updateReal", "deleteReal"}
    BY <1>6, <1>10, <1>18
  <2>2. svc \in IpvsService /\ todo[i] = [op |-> todo[i].op, svc |-> svc, up |-> todo[i].up]
    BY <1>10 DEF svc
  <2> QED
    BY <2>1, <2>2 DEF RealCall
<1>20. todo \in Seq(RealCall)
  BY <1>10, <1>19
<1> QED
  BY <1>10, <1>17, <1>20 DEF final, new, svc

----------------------------------------------------------------------------
(***************************************************************************)
(* The kernel after a call.                                                 *)
(***************************************************************************)
LEMMA SlotIs ==
    ASSUME NEW svc \in IpvsService
    PROVE  /\ Slot(svc) \in KernelSlot
           /\ Slot(svc).kind # "fwmark" => /\ Slot(svc).num < PortLimit
                                           /\ Slot(svc).at = Canonical[Slot(svc).at]
<1>1. svc.kind \in {"tcp", "udp", "fwmark"} /\ svc.at \in Name /\ svc.num \in Nat
  BY DEF IpvsService
<1>2. Uint16(svc.num) \in Nat /\ Uint16(svc.num) < PortLimit
  BY <1>1, Uint16Is
<1>3. /\ Place(svc) \in Name
      /\ svc.kind # "fwmark" => Place(svc) = Canonical[Place(svc)]
  BY <1>1, CanonicalIs DEF Place
<1> QED
  BY <1>1, <1>2, <1>3 DEF Slot, KernelSlot

LEMMA WithOK ==
    ASSUME NEW dests, KernelDests(dests), NEW up \in UpstreamState
    PROVE  KernelDests(With(dests, DestKey(up), LibDest(up))) /\ KernelDests(Minus(dests, DestKey(up)))
<1>1. /\ up.addr \in Name /\ up.port \in Nat /\ up.weight \in Nat
  BY DEF UpstreamState
<1>2. Uint16(up.port) \in Nat /\ Uint16(up.port) < PortLimit
  BY <1>1, Uint16Is
<1>3. PICK k : k = DestKey(up)
  OBVIOUS
<1>4. k = <<k[1], k[2]>> /\ k[1] \in Name /\ k[1] = Canonical[k[1]] /\ k[2] \in Nat /\ k[2] < PortLimit
  BY <1>1, <1>2, <1>3, CanonicalIs DEF DestKey
<1>5. PICK v : v = LibDest(up)
  OBVIOUS
<1>6. v = [weight |-> v.weight, fwd |-> v.fwd] /\ v.weight \in Nat
  BY <1>1, <1>5 DEF LibDest
<1>7. IsFiniteSet(DOMAIN dests \cup {k}) /\ IsFiniteSet(DOMAIN dests \ {k})
  <2>1. IsFiniteSet(DOMAIN dests)
    BY DEF KernelDests
  <2> QED
    BY <2>1, FS_AddElement, FS_RemoveElement
<1>8. KernelDests(With(dests, k, v))
  <2>1. PICK f : f = With(dests, k, v)
    OBVIOUS
  <2>2. DOMAIN f = DOMAIN dests \cup {k} /\ f = [d \in DOMAIN f |-> f[d]]
        /\ \A d \in DOMAIN f : f[d] = IF d = k THEN v ELSE dests[d]
    BY <2>1 DEF With
  <2>3. ASSUME NEW d \in DOMAIN f
        PROVE  /\ d = <<d[1], d[2]>> /\ d[1] \in Name /\ d[2] \in Nat /\ d[2] < PortLimit
               /\ d[1] = Canonical[d[1]]
               /\ f[d] = [weight |-> f[d].weight, fwd |-> f[d].fwd] /\ f[d].weight \in Nat
    <3>1. CASE d = k
      BY <1>4, <1>6, <2>2, <3>1
    <3>2. CASE d # k
      <4>1. d \in DOMAIN dests /\ f[d] = dests[d]
        BY <2>2, <3>2
      <4> QED
        BY <4>1 DEF KernelDests
    <3> QED
      BY <3>1, <3>2
  <2>4. KernelDests(f)
    BY <1>7, <2>2, <2>3 DEF KernelDests
  <2> QED
    BY <2>1, <2>4
<1>9. KernelDests(Minus(dests, k))
  <2>1. PICK f : f = Minus(dests, k)
    OBVIOUS
  <2>2. DOMAIN f = DOMAIN dests \ {k} /\ f = [d \in DOMAIN f |-> f[d]] /\ \A d \in DOMAIN f : f[d] = dests[d]
    BY <2>1 DEF Minus, Restrict
  <2>3. KernelDests(f)
    BY <1>7, <2>2 DEF KernelDests
  <2> QED
    BY <2>1, <2>3
<1> QED
  BY <1>3, <1>5, <1>8, <1>9

\* What a call changes in the kernel.
Made(new, call) ==
    LET s == Slot(call.svc)
    IN  /\ \A r : r # s => (r \in DOMAIN new <=> r \in DOMAIN kernel) /\ (r \in DOMAIN kernel => new[r] = kernel[r])
        /\ call.op = "addService" =>
              /\ s \notin DOMAIN kernel /\ s \in DOMAIN new
              /\ [sched |-> new[s].sched, flags |-> new[s].flags] = LibService(call.svc)
              /\ new[s].dests = [d \in {} |-> 0]
        /\ call.op = "deleteService" => s \in DOMAIN kernel /\ s \notin DOMAIN new
        /\ call.op \in {"addReal", "updateReal", "deleteReal"} =>
              /\ s \in DOMAIN kernel /\ s \in DOMAIN new
              /\ new[s].sched = kernel[s].sched /\ new[s].flags = kernel[s].flags
              /\ new[s].dests = Next1(kernel[s].dests, call)
              /\ call.op = "addReal" => DestKey(call.up) \notin DOMAIN kernel[s].dests
              /\ call.op # "addReal" => DestKey(call.up) \in DOMAIN kernel[s].dests

LEMMA CallIs ==
    ASSUME NEW call \in Call
    PROVE  /\ call.svc \in IpvsService
           /\ call.op \in {"addService", "deleteService", "addReal", "updateReal", "deleteReal"}
           /\ call.op \in {"addReal", "updateReal", "deleteReal"} => call.up \in UpstreamState /\ call \in RealCall
BY DEF Call, RealCall

LEMMA AfterIs ==
    ASSUME KernelServices(kernel), NEW call \in Call, Accepted(call)
    PROVE  KernelServices(After(call)) /\ Made(After(call), call)
<1>1. /\ call.svc \in IpvsService
      /\ call.op \in {"addService", "deleteService", "addReal", "updateReal", "deleteReal"}
      /\ call.op \in {"addReal", "updateReal", "deleteReal"} => call.up \in UpstreamState
  BY CallIs
<1>2. PICK s : s = Slot(call.svc)
  OBVIOUS
<1>3. PICK new : new = After(call)
  OBVIOUS
<1>4. s \in KernelSlot /\ (s.kind # "fwmark" => s.num < PortLimit /\ s.at = Canonical[s.at])
  BY <1>1, <1>2, SlotIs
<1>5. /\ kernel = [r \in DOMAIN kernel |-> kernel[r]] /\ IsFiniteSet(DOMAIN kernel)
      /\ \A r \in DOMAIN kernel :
            /\ r \in KernelSlot /\ (r.kind # "fwmark" => r.num < PortLimit /\ r.at = Canonical[r.at])
            /\ kernel[r] = [sched |-> kernel[r].sched, flags |-> kernel[r].flags, dests |-> kernel[r].dests]
            /\ kernel[r].flags \subseteq Nat /\ HASHED \in kernel[r].flags
            /\ KernelDests(kernel[r].dests)
  BY DEF KernelServices
<1>6. CASE call.op = "addService"
  <2>1. PICK lib : lib = LibService(call.svc)
    OBVIOUS
  <2>2. lib = [sched |-> lib.sched, flags |-> lib.flags] /\ lib.flags \subseteq Nat /\ HASHED \in lib.flags
    BY <1>1, <2>1 DEF LibService, IpvsService, ToSet, HASHED
  <2>3. PICK e : e = [sched |-> lib.sched, flags |-> lib.flags, dests |-> [d \in {} |-> 0]]
    OBVIOUS
  <2>4. /\ e.sched = lib.sched /\ e.flags = lib.flags /\ e.dests = [d \in {} |-> 0]
        /\ e = [sched |-> e.sched, flags |-> e.flags, dests |-> e.dests]
    BY <2>3
  <2>5. new = With(kernel, s, e)
    BY <1>2, <1>3, <1>6, <2>1, <2>3 DEF After
  <2>6. /\ DOMAIN new = DOMAIN kernel \cup {s} /\ new = [r \in DOMAIN new |-> new[r]]
        /\ \A r \in DOMAIN new : new[r] = IF r = s THEN e ELSE kernel[r]
    BY <2>5 DEF With
  <2>7. s \notin DOMAIN kernel
    BY <1>2, <1>6 DEF Accepted
  <2>8. KernelDests([d \in {} |-> 0])
    BY FS_EmptySet DEF KernelDests
  <2>9. IsFiniteSet(DOMAIN new)
    BY <1>5, <2>6, FS_AddElement
  <2>10. KernelServices(new)
    <3>1. ASSUME NEW r \in DOMAIN new
          PROVE  /\ r \in KernelSlot /\ (r.kind # "fwmark" => r.num < PortLimit /\ r.at = Canonical[r.at])
                 /\ new[r] = [sched |-> new[r].sched, flags |-> new[r].flags, dests |-> new[r].dests]
                 /\ new[r].flags \subseteq Nat /\ HASHED \in new[r].flags /\ KernelDests(new[r].dests)
      <4>1. CASE r = s
        BY <1>4, <2>2, <2>4, <2>6, <2>8, <4>1
      <4>2. CASE r # s
        <5>1. r \in DOMAIN kernel /\ new[r] = kernel[r]
          BY <2>6, <4>2
        <5> QED
          BY <1>5, <5>1
      <4> QED
        BY <4>1, <4>2
    <3> QED
      BY <2>6, <2>9, <3>1 DEF KernelServices
  <2>11. Made(new, call)
    BY <1>2, <1>6, <2>1, <2>2, <2>4, <2>6, <2>7 DEF Made
  <2> QED
    BY <1>3, <2>10, <2>11
<1>7. CASE call.op = "deleteService"
  <2>1. new = Minus(kernel, s)
    BY <1>2, <1>3, <1>7 DEF After
  <2>2. /\ DOMAIN new = DOMAIN kernel \ {s} /\ new = [r \in DOMAIN new |-> new[r]]
        /\ \A r \in DOMAIN new : new[r] = kernel[r]
    BY <2>1 DEF Minus, Restrict
  <2>3. s \in DOMAIN kernel
    BY <1>2, <1>7 DEF Accepted
  <2>4. IsFiniteSet(DOMAIN new)
    BY <1>5, <2>2, FS_RemoveElement
  <2>5. KernelServices(new)
    BY <1>5, <2>2, <2>4 DEF KernelServices
  <2>6. Made(new, call)
    BY <1>2, <1>7, <2>2, <2>3 DEF Made
  <2> QED
    BY <1>3, <2>5, <2>6
<1>8. CASE call.op \in {"addReal", "updateReal", "deleteReal"}
  <2>1. s \in DOMAIN kernel
    BY <1>2, <1>8 DEF Accepted
  <2>2. PICK dests : dests = Next1(kernel[s].dests, call)
    OBVIOUS
  <2>3. KernelDests(dests)
    BY <1>1, <1>5, <1>8, <2>1, <2>2, WithOK DEF Next1
  <2>4. new = [kernel EXCEPT ![s].dests = dests]
    BY <1>2, <1>3, <1>8, <2>2 DEF After, Next1
  <2>5. /\ DOMAIN new = DOMAIN kernel /\ new = [r \in DOMAIN new |-> new[r]]
        /\ \A r \in DOMAIN new : r # s => new[r] = kernel[r]
        /\ new[s] = [kernel[s] EXCEPT !.dests = dests]
    BY <1>5, <2>1, <2>4
  <2>6. /\ new[s].sched = kernel[s].sched /\ new[s].flags = kernel[s].flags /\ new[s].dests = dests
        /\ new[s] = [sched |-> new[s].sched, flags |-> new[s].flags, dests |-> new[s].dests]
    <3>1. PICK e : e = kernel[s]
      OBVIOUS
    <3>2. e = [sched |-> e.sched, flags |-> e.flags, dests |-> e.dests]
      BY <1>5, <2>1, <3>1
    <3>3. [e EXCEPT !.dests = dests] = [sched |-> e.sched, flags |-> e.flags, dests |-> dests]
      BY <3>2
    <3> QED
      BY <2>5, <3>1, <3>3
  <2>7. KernelServices(new)
    <3>1. ASSUME NEW r \in DOMAIN new
          PROVE  /\ r \in KernelSlot /\ (r.kind # "fwmark" => r.num < PortLimit /\ r.at = Canonical[r.at])
                 /\ new[r] = [sched |-> new[r].sched, flags |-> new[r].flags, dests |-> new[r].dests]
                 /\ new[r].flags \subseteq Nat /\ HASHED \in new[r].flags /\ KernelDests(new[r].dests)
      <4>1. CASE r = s
        BY <1>4, <1>5, <2>1, <2>3, <2>6, <4>1
      <4>2. CASE r # s
        <5>1. r \in DOMAIN kernel /\ new[r] = kernel[r]
          BY <2>5, <4>2
        <5> QED
          BY <1>5, <5>1
      <4> QED
        BY <4>1, <4>2
    <3> QED
      BY <1>5, <2>5, <3>1 DEF KernelServices
  <2>8. /\ call.op = "addReal" => DestKey(call.up) \notin DOMAIN kernel[s].dests
        /\ call.op # "addReal" => DestKey(call.up) \in DOMAIN kernel[s].dests
    BY <1>2, <1>8 DEF Accepted, HasDest
  <2>9. Made(new, call)
    BY <1>2, <1>8, <2>1, <2>2, <2>5, <2>6, <2>8 DEF Made
  <2> QED
    BY <1>3, <2>7, <2>9
<1> QED
  BY <1>1, <1>6, <1>7, <1>8

----------------------------------------------------------------------------
(***************************************************************************)
(* What SetState reads and how it differs from what is wanted.              *)
(***************************************************************************)
LEMMA NamesOK ==
    ASSUME TypeOK, NEW state \in Seq(BalancerState)
    PROVE  /\ \A k \in DOMAIN NewServiceCache(state) : NewServiceCache(state)[k] \in Name
           /\ \A a \in DOMAIN NewReverseCache(state) : NewReverseCache(state)[a] \in Name
<1>1. DOMAIN state = 1..Len(state) /\ Len(state) \in Nat /\ \A i \in DOMAIN state : state[i] \in BalancerState
  OBVIOUS
<1>2. \A b \in BalancerState : b.name \in Name /\ b.ups \in Seq(UpstreamState)
  BY DEF BalancerState
<1>3. \A up \in UpstreamState : up.host \in Name
  BY DEF UpstreamState
<1>4. ASSUME NEW k \in DOMAIN NewServiceCache(state) PROVE NewServiceCache(state)[k] \in Name
  <2> DEFINE at == {i \in DOMAIN state : keyByService(state[i].svc) = k}
  <2>1. NewServiceCache(state)[k] = IF at = {} THEN serviceCache[k] ELSE state[Max(at)].name
    BY <1>4 DEF NewServiceCache
  <2>2. CASE at = {}
    <3>1. k \in DOMAIN serviceCache
      BY <1>4, <2>2 DEF NewServiceCache
    <3> QED
      BY <2>1, <2>2, <3>1 DEF TypeOK
  <2>3. CASE at # {}
    <3>1. Max(at) \in at
      BY <1>1, <2>3, LastPlace
    <3> QED
      BY <1>1, <1>2, <2>1, <2>3, <3>1
  <2> QED
    BY <2>2, <2>3
<1>5. ASSUME NEW a \in DOMAIN NewReverseCache(state) PROVE NewReverseCache(state)[a] \in Name
  <2> DEFINE at == {i \in DOMAIN state : PlacesOf(state[i], a) # {}}
             b == state[Max(at)]
  <2>1. NewReverseCache(state)[a] = IF at = {} THEN reverseCache[a] ELSE b.ups[Max(PlacesOf(b, a))].host
    BY <1>5 DEF NewReverseCache
  <2>2. CASE at = {}
    <3>1. a \in DOMAIN reverseCache
      <4>1. DOMAIN NewReverseCache(state) =
              DOMAIN reverseCache \cup UNION {{Canonical[up.addr] : up \in ToSet(state[i].ups)} : i \in DOMAIN state}
        BY DEF NewReverseCache
      <4>2. ASSUME NEW i \in DOMAIN state, NEW up \in ToSet(state[i].ups), Canonical[up.addr] = a PROVE FALSE
        <5>1. PICK j \in DOMAIN state[i].ups : state[i].ups[j] = up
          BY DEF ToSet
        <5>2. j \in PlacesOf(state[i], a)
          BY <4>2, <5>1 DEF PlacesOf
        <5> QED
          BY <2>2, <5>2
      <4> QED
        BY <1>5, <4>1, <4>2
    <3> QED
      BY <2>1, <2>2, <3>1 DEF TypeOK
  <2>3. CASE at # {}
    <3>1. Max(at) \in at
      BY <1>1, <2>3, LastPlace
    <3>2. b \in BalancerState /\ PlacesOf(b, a) # {}
      BY <1>1, <3>1
    <3> HIDE DEF b
    <3>3. b.ups \in Seq(UpstreamState) /\ DOMAIN b.ups = 1..Len(b.ups) /\ Len(b.ups) \in Nat
      BY <1>2, <3>2
    <3>4. Max(PlacesOf(b, a)) \in DOMAIN b.ups
      <4>1. PlacesOf(b, a) \subseteq 1..Len(b.ups)
        BY <3>3 DEF PlacesOf
      <4> QED
        BY <3>2, <3>3, <4>1, LastPlace
    <3>5. b.ups[Max(PlacesOf(b, a))] \in UpstreamState
      BY <3>3, <3>4
    <3> QED
      BY <1>3, <2>1, <2>3, <3>5
  <2> QED
    BY <2>2, <2>3
<1> QED
  BY <1>4, <1>5

\* What GetBalancers returns, as a map.
Read(current, names, hosts) ==
    /\ current \in Seq(BalancerState)
    /\ Bals!Keys(current) = {KglbService(s) : s \in DOMAIN kernel}
    /\ \A k \in Bals!Keys(current) :
          LET b == Bals!keyGen(current)[k]
          IN  /\ k \in IpvsService /\ Slot(k) \in DOMAIN kernel /\ KglbService(Slot(k)) = k
              /\ b.svc = k /\ b.name = Lookup(names, keyByService(k))
              /\ b.ups = RealServers(Slot(k), hosts)

LEMMA CurrentIs ==
    ASSUME KernelServices(kernel), Listable, NEW names, NEW hosts,
           \A k \in DOMAIN names : names[k] \in Name, \A a \in DOMAIN hosts : hosts[a] \in Name
    PROVE  Read(Balancers(names, hosts), names, hosts)
<1> DEFINE Bal(s) == [name |-> Lookup(names, keyByService(KglbService(s))),
                      svc |-> KglbService(s), ups |-> RealServers(s, hosts)]
           S == {Bal(s) : s \in DOMAIN kernel}
<1>1. PICK current : current = Balancers(names, hosts)
  OBVIOUS
<1>2. current = SetToSeq(S)
  BY <1>1 DEF Balancers
<1>3. ASSUME NEW s \in DOMAIN kernel
      PROVE  /\ Bal(s) \in BalancerState /\ Bal(s).svc = KglbService(s) /\ Bal(s).ups = RealServers(s, hosts)
             /\ Bal(s).name = Lookup(names, keyByService(KglbService(s)))
             /\ KglbService(s) \in IpvsService /\ Slot(KglbService(s)) = s
  <2>1. KglbService(s) \in IpvsService /\ Slot(KglbService(s)) = s
    BY ReadService
  <2>2. RealServers(s, hosts) \in Seq(UpstreamState)
    BY ReadReals
  <2>3. Lookup(names, keyByService(KglbService(s))) \in Name
    BY StatesAssumption DEF Lookup
  <2> QED
    BY <2>1, <2>2, <2>3 DEF BalancerState
<1> HIDE DEF Bal
<1>4. IsFiniteSet(S)
  <2>1. [s \in DOMAIN kernel |-> Bal(s)] \in Surjection(DOMAIN kernel, S)
    BY DEF Surjection
  <2>2. IsFiniteSet(DOMAIN kernel)
    BY DEF KernelServices
  <2> QED
    BY <2>1, <2>2, FS_Surjection
<1>5. current \in Seq(S) /\ \A x \in S : \E i \in DOMAIN current : current[i] = x
  BY <1>2, <1>4, SetList
<1>6. \A i \in DOMAIN current : \E s \in DOMAIN kernel : current[i] = Bal(s)
  BY <1>5
<1>7. current \in Seq(BalancerState)
  <2>1. \A i \in DOMAIN current : current[i] \in BalancerState
    BY <1>3, <1>6
  <2> QED
    BY <1>5, <2>1, ItemsIn
<1>8. Bals!Keys(current) = {KglbService(s) : s \in DOMAIN kernel}
  <2>1. Bals!Keys(current) = {current[i].svc : i \in DOMAIN current}
    BY DEF Bals!Keys, BalancerKey
  <2> QED
    BY <1>3, <1>5, <1>6, <2>1
<1>9. ASSUME NEW k \in Bals!Keys(current), NEW b, b = Bals!keyGen(current)[k]
      PROVE  /\ k \in IpvsService /\ Slot(k) \in DOMAIN kernel /\ KglbService(Slot(k)) = k
             /\ b.svc = k /\ b.name = Lookup(names, keyByService(k))
             /\ b.ups = RealServers(Slot(k), hosts)
  <2>1. PICK i \in DOMAIN current : current[i].svc = k /\ b = current[i]
    BY <1>7, <1>9, BalsMap
  <2>2. PICK s \in DOMAIN kernel : current[i] = Bal(s)
    BY <1>6
  <2>3. k = KglbService(s) /\ Slot(k) = s /\ b = Bal(s)
    BY <1>3, <2>1, <2>2
  <2> QED
    BY <1>3, <2>3
<1> QED
  BY <1>1, <1>7, <1>8, <1>9 DEF Read

\* The difference between two lists of balancers.
Differ(diff, O, N) ==
    /\ DOMAIN diff = {"added", "changed", "deleted"}
    /\ diff = [added |-> diff.added, changed |-> diff.changed, deleted |-> diff.deleted]
    /\ \A b : b \in diff.added <=> \E k \in DOMAIN N \ DOMAIN O : b = N[k]
    /\ \A b : b \in diff.deleted <=> \E k \in DOMAIN O \ DOMAIN N : b = O[k]
    /\ \A p : p \in diff.changed <=> \E k \in DOMAIN O \cap DOMAIN N :
                 ~BalancerEqual(O[k], N[k]) /\ p = [old |-> O[k], new |-> N[k]]

LEMMA BalsDiff ==
    ASSUME NEW old, NEW new
    PROVE  /\ Differ(Bals!CompareArrays(old, new), Bals!keyGen(old), Bals!keyGen(new))
           /\ DOMAIN Bals!keyGen(old) = Bals!Keys(old) /\ DOMAIN Bals!keyGen(new) = Bals!Keys(new)
<1> DEFINE diff == Bals!CompareArrays(old, new)
           O == Bals!keyGen(old)
           N == Bals!keyGen(new)
<1>1. DOMAIN O = Bals!Keys(old) /\ DOMAIN N = Bals!Keys(new)
  BY DEF Bals!keyGen
<1>2. diff = [added   |-> {N[k] : k \in DOMAIN N \ DOMAIN O},
              deleted |-> {O[k] : k \in DOMAIN O \ DOMAIN N},
              changed |-> {[old |-> O[k], new |-> N[k]] :
                             k \in {k \in DOMAIN O \cap DOMAIN N : ~BalancerEqual(O[k], N[k])}}]
  BY Zenon DEF Bals!CompareArrays
<1> HIDE DEF diff, O, N
<1>3. /\ DOMAIN diff = {"added", "changed", "deleted"}
      /\ diff = [added |-> diff.added, changed |-> diff.changed, deleted |-> diff.deleted]
      /\ diff.added = {N[k] : k \in DOMAIN N \ DOMAIN O}
      /\ diff.deleted = {O[k] : k \in DOMAIN O \ DOMAIN N}
      /\ diff.changed = {[old |-> O[k], new |-> N[k]] :
                             k \in {k \in DOMAIN O \cap DOMAIN N : ~BalancerEqual(O[k], N[k])}}
  BY <1>2
<1>4. Differ(diff, O, N)
  BY <1>3 DEF Differ
<1> QED
  BY <1>1, <1>4 DEF diff, O, N

\* Upstreams that CompareArrays does not tell apart from those read are in place.
LEMMA SameUps ==
    ASSUME NEW dests, NEW old \in Seq(UpstreamState), NEW new \in Seq(UpstreamState),
           NEW svc \in IpvsService, Reads(dests, old), ~Ups!IsChanged(Ups!CompareArrays(old, new)),
           dests = [d \in DOMAIN dests |-> dests[d]]
    PROVE  dests = DestsOf(new)
<1>1. PICK pair : pair = [old |-> [ups |-> old], new |-> [ups |-> new, svc |-> svc]]
  OBVIOUS
<1>2. pair.old.ups = old /\ pair.new.ups = new /\ pair.new.svc = svc
  BY <1>1
<1>3. PICK diff : diff = Ups!CompareArrays(old, new)
  OBVIOUS
<1>4. diff.added = {} /\ diff.deleted = {} /\ diff.changed = {}
  BY <1>3 DEF Ups!IsChanged
<1>5. {p.new : p \in diff.changed} = {}
  BY <1>4
<1>6. ASSUME NEW op PROVE <<>> \in Calls(op, svc, {})
  <2>1. Cardinality({}) = 0
    BY FS_EmptySet
  <2>2. <<>> \in SetToSeqs({})
    BY <2>1 DEF SetToSeqs
  <2>3. [i \in DOMAIN <<>> |-> [op |-> op, svc |-> svc, up |-> <<>>[i]]] = <<>>
    OBVIOUS
  <2> QED
    BY <2>2, <2>3 DEF Calls
<1>7. <<>> = <<>> \o <<>> \o <<>>
  OBVIOUS
<1>8. <<>> \in ChangeCalls(pair)
  <2> DEFINE D0 == Ups!CompareArrays(pair.old.ups, pair.new.ups)
             A == Calls("addReal", pair.new.svc, D0.added)
             U == Calls("updateReal", pair.new.svc, {p.new : p \in D0.changed})
             D == Calls("deleteReal", pair.new.svc, D0.deleted)
  <2>1. ChangeCalls(pair) = {a \o u \o d : a \in A, u \in U, d \in D}
    BY DEF ChangeCalls
  <2>2. D0 = diff
    BY <1>2, <1>3
  <2> HIDE DEF D0
  <2>3. <<>> \in A /\ <<>> \in U /\ <<>> \in D
    BY <1>2, <1>4, <1>5, <1>6, <2>2
  <2> HIDE DEF A, U, D
  <2> QED
    BY <1>7, <2>1, <2>3
<1>9. Fine(dests, <<>>, DestsOf(new))
  BY <1>2, <1>8, ChangeFine
<1>10. DestsOf(new) = [d \in DOMAIN DestsOf(new) |-> DestsOf(new)[d]]
  BY DEF DestsOf
<1> QED
  BY <1>9, <1>10, FineEnd

----------------------------------------------------------------------------
(***************************************************************************)
(* The invariant is inductive.                                              *)
(***************************************************************************)
LEMMA MapIs ==
    ASSUME NEW state \in Seq(BalancerState), NEW k \in Bals!Keys(state)
    PROVE  Bals!keyGen(state)[k] \in BalancerState /\ Bals!keyGen(state)[k].svc = k /\ k \in IpvsService
<1>1. PICK i \in DOMAIN state : state[i].svc = k /\ Bals!keyGen(state)[k] = state[i]
  BY BalsMap
<1>2. state[i] \in BalancerState
  OBVIOUS
<1> QED
  BY <1>1, <1>2 DEF BalancerState

LEMMA InitInv == Init => IInv
<1> SUFFICES ASSUME Init PROVE IInv
  OBVIOUS
<1>1. KernelServices(kernel)
  BY StatesAssumption DEF Init
<1>2. work \in [added : SUBSET BalancerState, deleted : SUBSET BalancerState,
                changed : SUBSET [old : BalancerState, new : BalancerState]]
  BY DEF Init, NoWork
<1>3. TypeOK
  BY <1>1, <1>2, StatesAssumption DEF Init, TypeOK
<1> QED
  BY <1>3 DEF Init, IInv, OkExact

LEMMA SetStateInv == IInv /\ SetState => IInv'
<1> SUFFICES ASSUME IInv, SetState PROVE IInv'
  OBVIOUS
<1>1. /\ KernelServices(kernel) /\ TypeOK /\ wanted \in DesiredState /\ wanted \in Seq(BalancerState)
      /\ faults \in 0..MaxFaults /\ changes \in 0..MaxChanges /\ wanted # NoState
  BY StatesAssumption DEF IInv, TypeOK, SetState
<1>2. PICK names, hosts : names = NewServiceCache(wanted) /\ hosts = NewReverseCache(wanted)
  OBVIOUS
<1>3. (\A k \in DOMAIN names : names[k] \in Name) /\ (\A a \in DOMAIN hosts : hosts[a] \in Name)
  BY <1>1, <1>2, NamesOK
<1>4. /\ serviceCache' = names /\ reverseCache' = hosts /\ target' = wanted /\ calls' = <<>>
      /\ kernel' = kernel /\ wanted' = wanted /\ faults' = faults /\ changes' = changes
  BY <1>2 DEF SetState
<1>5. CASE ~Listable
  <2>1. work' = NoWork /\ result' = "err"
    BY <1>5 DEF SetState
  <2>2. work' \in [added : SUBSET BalancerState, deleted : SUBSET BalancerState,
                   changed : SUBSET [old : BalancerState, new : BalancerState]]
    BY <2>1 DEF NoWork
  <2>3. TypeOK'
    BY <1>1, <1>3, <1>4, <2>1, <2>2 DEF TypeOK
  <2> QED
    BY <1>4, <2>1, <2>3 DEF IInv, OkExact
<1>6. CASE Listable
  <2>1. PICK current : current = Balancers(names, hosts)
    OBVIOUS
  <2>2. work' = Bals!CompareArrays(current, wanted) /\ result' = "busy"
    BY <1>2, <1>6, <2>1 DEF SetState
  <2>3. PICK O, N : O = Bals!keyGen(current) /\ N = Bals!keyGen(wanted)
    OBVIOUS
  <2>4. PICK diff : diff = Bals!CompareArrays(current, wanted)
    OBVIOUS
  <2>5. Differ(diff, O, N) /\ DOMAIN O = Bals!Keys(current) /\ DOMAIN N = Bals!Keys(wanted)
    BY <2>3, <2>4, BalsDiff
  <2>6. Read(current, names, hosts)
    BY <1>1, <1>3, <1>6, <2>1, CurrentIs
  <2>7. \A k \in DOMAIN N : N[k] \in BalancerState /\ N[k].svc = k /\ k \in IpvsService
    BY <1>1, <2>3, <2>5, MapIs
  <2>8. \A k \in DOMAIN O : O[k] \in BalancerState /\ O[k].svc = k
    <3>1. current \in Seq(BalancerState)
      BY <2>6 DEF Read
    <3> QED
      BY <2>3, <2>5, <3>1, MapIs
  <2>9. /\ DOMAIN O = {KglbService(s) : s \in DOMAIN kernel}
        /\ \A k \in DOMAIN O : /\ Slot(k) \in DOMAIN kernel /\ KglbService(Slot(k)) = k
                               /\ O[k].ups = RealServers(Slot(k), hosts)
    BY <2>3, <2>5, <2>6 DEF Read
  <2>10. \A s \in DOMAIN kernel : Slot(KglbService(s)) = s
    BY <1>1, <1>6, ReadService
  <2>11. \A k \in DOMAIN O :
            /\ [sched |-> kernel[Slot(k)].sched, flags |-> kernel[Slot(k)].flags] = LibService(k)
            /\ Reads(kernel[Slot(k)].dests, O[k].ups)
            /\ kernel[Slot(k)].dests = [d \in DOMAIN kernel[Slot(k)].dests |-> kernel[Slot(k)].dests[d]]
    <3> SUFFICES ASSUME NEW k \in DOMAIN O
                 PROVE  /\ [sched |-> kernel[Slot(k)].sched, flags |-> kernel[Slot(k)].flags] = LibService(k)
                        /\ Reads(kernel[Slot(k)].dests, O[k].ups)
                        /\ kernel[Slot(k)].dests = [d \in DOMAIN kernel[Slot(k)].dests |-> kernel[Slot(k)].dests[d]]
      OBVIOUS
    <3>1. PICK s : s = Slot(k)
      OBVIOUS
    <3>2. s \in DOMAIN kernel /\ KglbService(s) = k /\ O[k].ups = RealServers(s, hosts)
      BY <2>9, <3>1
    <3>3. LibService(k) = [sched |-> kernel[s].sched, flags |-> kernel[s].flags]
      BY <1>1, <1>6, <3>2, ReadService
    <3>4. Reads(kernel[s].dests, O[k].ups)
      BY <1>1, <1>3, <1>6, <3>2, ReadReals
    <3>5. KernelDests(kernel[s].dests)
      BY <1>1, <3>2 DEF KernelServices
    <3>6. kernel[s].dests = [d \in DOMAIN kernel[s].dests |-> kernel[s].dests[d]]
      BY <3>5 DEF KernelDests
    <3> QED
      BY <3>1, <3>3, <3>4, <3>6
  <2>12. /\ \A b : b \in diff.added <=> \E k \in DOMAIN N \ DOMAIN O : b = N[k]
         /\ \A b : b \in diff.deleted <=> \E k \in DOMAIN O \ DOMAIN N : b = O[k]
         /\ \A p : p \in diff.changed <=> \E k \in DOMAIN O \cap DOMAIN N :
                      ~BalancerEqual(O[k], N[k]) /\ p = [old |-> O[k], new |-> N[k]]
         /\ diff = [added |-> diff.added, changed |-> diff.changed, deleted |-> diff.deleted]
    BY <2>5 DEF Differ
  <2>13. diff \in [added : SUBSET BalancerState, deleted : SUBSET BalancerState,
                   changed : SUBSET [old : BalancerState, new : BalancerState]]
    <3>1. diff.added \subseteq BalancerState /\ diff.deleted \subseteq BalancerState
      BY <2>7, <2>8, <2>12
    <3>2. diff.changed \subseteq [old : BalancerState, new : BalancerState]
      BY <2>7, <2>8, <2>12
    <3> QED
      BY <2>12, <3>1, <3>2
  <2>14. TypeOK'
    BY <1>1, <1>3, <1>4, <2>2, <2>4, <2>13 DEF TypeOK
  <2>15. Goal' = DOMAIN N /\ \A k : GoalOf(k)' = N[k]
    BY <1>4, <2>3, <2>5 DEF Goal, GoalOf
  <2>16. Adding' = DOMAIN N \ DOMAIN O /\ Dropping' = DOMAIN O \ DOMAIN N
    <3>1. \A op : Heads(op)' = {}
      BY <1>4 DEF Heads
    <3>2. ServicesOf(work.added)' = DOMAIN N \ DOMAIN O
      BY <2>2, <2>4, <2>7, <2>12 DEF ServicesOf
    <3>3. ServicesOf(work.deleted)' = DOMAIN O \ DOMAIN N
      BY <2>2, <2>4, <2>8, <2>12 DEF ServicesOf
    <3> QED
      BY <3>1, <3>2, <3>3 DEF Adding, Dropping
  <2>17. Located'
    <3>1. Present' = DOMAIN O
      BY <2>15, <2>16 DEF Present
    <3>2. DOMAIN kernel' = {Slot(k) : k \in DOMAIN O}
      BY <1>4, <2>9, <2>10
    <3>3. \A j, k \in DOMAIN O : Slot(j) = Slot(k) => j = k
      BY <2>9
    <3> QED
      BY <2>15, <2>16, <3>1, <3>2, <3>3 DEF Located
  <2>18. \A k : Dests(k)' = kernel[Slot(k)].dests
    BY <1>4 DEF Dests
  <2>19. Placed'
    <3>1. ASSUME NEW k \in DOMAIN N \cap DOMAIN O PROVE Dests(k)' = Final(k)' \/ k \in Changing'
      <4>1. CASE BalancerEqual(O[k], N[k])
        <5>1. O[k].ups \in Seq(UpstreamState) /\ N[k].ups \in Seq(UpstreamState)
          BY <2>7, <2>8 DEF BalancerState
        <5>2. kernel[Slot(k)].dests = DestsOf(N[k].ups)
          <6>1. PICK dests : dests = kernel[Slot(k)].dests
            OBVIOUS
          <6>2. Reads(dests, O[k].ups) /\ dests = [d \in DOMAIN dests |-> dests[d]]
            BY <2>11, <6>1
          <6>3. ~Ups!IsChanged(Ups!CompareArrays(O[k].ups, N[k].ups))
            BY <4>1 DEF BalancerEqual
          <6>4. k \in IpvsService
            BY <2>7
          <6>5. dests = DestsOf(N[k].ups)
            BY <5>1, <6>2, <6>3, <6>4, SameUps
          <6> QED
            BY <6>1, <6>5
        <5> QED
          BY <2>15, <2>18, <5>2 DEF Final
      <4>2. CASE ~BalancerEqual(O[k], N[k])
        <5>1. PICK p : p = [old |-> O[k], new |-> N[k]]
          OBVIOUS
        <5>2. p \in diff.changed /\ p.new.svc = k
          BY <2>7, <2>12, <4>2, <5>1
        <5> QED
          BY <2>2, <2>4, <5>2 DEF Changing
      <4> QED
        BY <4>1, <4>2
    <3>2. ASSUME NEW k \in DOMAIN N \cap DOMAIN O
          PROVE  [sched |-> kernel[Slot(k)].sched, flags |-> kernel[Slot(k)].flags]' = LibService(k)
      BY <1>4, <2>11
    <3>3. (Goal \ Adding)' = DOMAIN N \cap DOMAIN O
      BY <2>15, <2>16
    <3> QED
      BY <3>1, <3>2, <3>3 DEF Placed
  <2>20. WorkLeft'
    <3>1. \A b \in diff.added : b.svc \in DOMAIN N /\ b = N[b.svc]
      BY <2>7, <2>12
    <3>2. \A p \in diff.changed : p.new.svc \in DOMAIN N \cap DOMAIN O /\ p.new = N[p.new.svc] /\ p.old = O[p.new.svc]
      BY <2>7, <2>12
    <3>3. \A p, q \in diff.changed : p.new.svc = q.new.svc => p = q
      BY <2>7, <2>12
    <3>4. \A p \in diff.changed : Reads(kernel[Slot(p.new.svc)].dests, p.old.ups)
      BY <2>11, <3>2
    <3>5. \A b, c \in diff.deleted : b.svc = c.svc => b = c
      BY <2>8, <2>12
    <3>6. (Goal \ Adding)' = DOMAIN N \cap DOMAIN O
      BY <2>15, <2>16
    <3> QED
      BY <2>2, <2>4, <2>15, <2>18, <3>1, <3>2, <3>3, <3>4, <3>5, <3>6 DEF WorkLeft
  <2>21. InSetState'
    BY <1>1, <1>4, <2>17, <2>19, <2>20 DEF InSetState, CallsLeft
  <2> QED
    BY <2>2, <2>14, <2>21 DEF IInv, OkExact
<1> QED
  BY <1>5, <1>6

\* InSetState does not depend on the caches, the wanted state and the counters.
LEMMA InSetStateStays ==
    ASSUME InSetState, UNCHANGED <<kernel, target, work, calls>>
    PROVE  InSetState'
<1>1. Goal' = Goal /\ \A k : GoalOf(k)' = GoalOf(k) /\ Final(k)' = Final(k) /\ Dests(k)' = Dests(k)
  BY DEF Goal, GoalOf, Final, Dests
<1>2. Adding' = Adding /\ Dropping' = Dropping /\ Changing' = Changing
  BY DEF Adding, Dropping, Changing, Heads, ServicesOf
<1>3. Located'
  BY <1>1, <1>2 DEF InSetState, Located, Present
<1>4. Placed'
  BY <1>1, <1>2 DEF InSetState, Placed
<1>5. WorkLeft'
  BY <1>1, <1>2 DEF InSetState, WorkLeft
<1>6. CallsLeft'
  BY <1>1, <1>2 DEF InSetState, CallsLeft, ServicesOf
<1> QED
  BY <1>3, <1>4, <1>5, <1>6 DEF InSetState

LEMMA WantInv == IInv /\ Want => IInv'
<1> SUFFICES ASSUME IInv, Want PROVE IInv'
  OBVIOUS
<1>1. /\ changes' \in 0..MaxChanges /\ wanted' \in DesiredState
      /\ UNCHANGED <<kernel, serviceCache, reverseCache, target, work, calls, result, faults>>
  BY StatesAssumption DEF Want, cacheVars, IInv, TypeOK
<1>2. TypeOK'
  BY <1>1 DEF IInv, TypeOK
<1>3. result' = "busy" => InSetState'
  BY <1>1, InSetStateStays DEF IInv
<1> QED
  BY <1>1, <1>2, <1>3 DEF IInv, OkExact, InPlace

LEMMA StutterInv == IInv /\ UNCHANGED vars => IInv'
<1> SUFFICES ASSUME IInv, UNCHANGED vars PROVE IInv'
  OBVIOUS
<1>1. UNCHANGED <<kernel, serviceCache, reverseCache, wanted, target, work, calls, result, faults, changes>>
  BY DEF vars, cacheVars
<1>2. TypeOK'
  BY <1>1 DEF IInv, TypeOK
<1>3. result' = "busy" => InSetState'
  BY <1>1, InSetStateStays DEF IInv
<1> QED
  BY <1>1, <1>2, <1>3 DEF IInv, OkExact, InPlace

\* SetState ends with an error, or the process does.
LEMMA EndInv == IInv /\ (CallRefused \/ CallFails \/ Restart) => IInv'
<1> SUFFICES ASSUME IInv, CallRefused \/ CallFails \/ Restart PROVE IInv'
  OBVIOUS
<1>1. /\ work' = NoWork /\ calls' = <<>> /\ result' \in {"err", "none"} /\ kernel' = kernel
      /\ wanted' = wanted /\ changes' = changes /\ target' \in {target, NoState}
  BY DEF CallRefused, CallFails, Restart, Abort
<1>2. faults' \in 0..MaxFaults
  BY StatesAssumption DEF CallRefused, CallFails, Restart, IInv, TypeOK
<1>3. /\ \A k \in DOMAIN serviceCache' : serviceCache'[k] \in Name
      /\ \A a \in DOMAIN reverseCache' : reverseCache'[a] \in Name
  BY DEF CallRefused, CallFails, Restart, cacheVars, IInv, TypeOK
<1>4. work' \in [added : SUBSET BalancerState, deleted : SUBSET BalancerState,
                 changed : SUBSET [old : BalancerState, new : BalancerState]]
  BY <1>1 DEF NoWork
<1>5. TypeOK'
  BY <1>1, <1>2, <1>3, <1>4 DEF IInv, TypeOK
<1> QED
  BY <1>1, <1>5 DEF IInv, OkExact

\* With nothing left to do the kernel holds the target.
LEMMA AllDone ==
    ASSUME IInv, result = "busy", work = NoWork, calls = <<>>
    PROVE  InPlace(target)
<1>1. KernelServices(kernel) /\ target \in Seq(BalancerState) /\ target # NoState /\ Located /\ Placed
  BY StatesAssumption DEF IInv, TypeOK, InSetState
<1>2. Adding = {} /\ Dropping = {} /\ Changing = {}
  <2>1. \A op : Heads(op) = {}
    BY DEF Heads
  <2> QED
    BY <2>1 DEF Adding, Dropping, Changing, ServicesOf, NoWork
<1>3. DOMAIN kernel = {Slot(k) : k \in Goal} /\ \A j, k \in Goal : Slot(j) = Slot(k) => j = k
  BY <1>1, <1>2 DEF Located, Present
<1>4. \A k \in Goal : /\ [sched |-> kernel[Slot(k)].sched, flags |-> kernel[Slot(k)].flags] = LibService(k)
                      /\ kernel[Slot(k)].dests = DestsOf(GoalOf(k).ups)
  BY <1>1, <1>2 DEF Placed, Dests, Final
<1>5. Goal = {target[i].svc : i \in DOMAIN target}
  BY DEF Goal, Bals!Keys, BalancerKey
<1>6. DOMAIN kernel = {Slot(target[i].svc) : i \in DOMAIN target}
  BY <1>3, <1>5
<1> DEFINE Places(s) == {i \in DOMAIN target : Slot(target[i].svc) = s}
           Entry(s) == LET b == target[Max(Places(s))]
                       IN  [sched |-> LibService(b.svc).sched, flags |-> LibService(b.svc).flags,
                            dests |-> DestsOf(b.ups)]
<1>7. KernelOf(target) = [s \in {Slot(target[i].svc) : i \in DOMAIN target} |-> Entry(s)]
  BY DEF KernelOf
<1>8. ASSUME NEW s \in DOMAIN kernel PROVE kernel[s] = Entry(s)
  <2>1. DOMAIN target = 1..Len(target) /\ Len(target) \in Nat
    BY <1>1
  <2>2. Places(s) # {} /\ Places(s) \subseteq 1..Len(target)
    BY <1>6, <2>1
  <2>3. Max(Places(s)) \in Places(s) /\ \A j \in Places(s) : j <= Max(Places(s))
    BY <2>1, <2>2, LastPlace
  <2>4. PICK m : m = Max(Places(s))
    OBVIOUS
  <2>5. m \in DOMAIN target /\ Slot(target[m].svc) = s
        /\ \A j \in DOMAIN target : Slot(target[j].svc) = s => j <= m
    BY <2>3, <2>4
  <2>6. PICK k : k = target[m].svc
    OBVIOUS
  <2>7. k \in Goal
    BY <1>5, <2>5, <2>6
  <2>8. PICK i \in DOMAIN target : /\ target[i].svc = k /\ GoalOf(k) = target[i]
                                   /\ \A j \in (i + 1)..Len(target) : target[j].svc # k
    BY <1>1, <2>7, BalsMap DEF Goal, GoalOf
  <2>9. i = m
    <3>1. i <= m
      BY <2>5, <2>6, <2>8
    <3>2. m \notin (i + 1)..Len(target)
      BY <2>6, <2>8
    <3> QED
      BY <2>1, <2>5, <2>8, <3>1, <3>2
  <2>10. Entry(s) = [sched |-> LibService(k).sched, flags |-> LibService(k).flags, dests |-> DestsOf(GoalOf(k).ups)]
    BY <2>4, <2>6, <2>8, <2>9
  <2> HIDE DEF Entry
  <2>11. /\ [sched |-> kernel[s].sched, flags |-> kernel[s].flags] = LibService(k)
         /\ kernel[s].dests = DestsOf(GoalOf(k).ups)
    BY <1>4, <2>5, <2>6, <2>7
  <2>12. kernel[s].sched = LibService(k).sched /\ kernel[s].flags = LibService(k).flags
    BY <2>11
  <2>13. kernel[s] = [sched |-> kernel[s].sched, flags |-> kernel[s].flags, dests |-> kernel[s].dests]
    BY <1>1 DEF KernelServices
  <2> QED
    BY <2>10, <2>11, <2>12, <2>13
<1> HIDE DEF Entry
<1>9. kernel = [s \in DOMAIN kernel |-> kernel[s]]
  BY <1>1 DEF KernelServices
<1>10. kernel = KernelOf(target)
  BY <1>6, <1>7, <1>8, <1>9
<1> QED
  BY <1>1, <1>10 DEF InPlace

LEMMA ReturnInv == IInv /\ Return => IInv'
<1> SUFFICES ASSUME IInv, Return PROVE IInv'
  OBVIOUS
<1>1. /\ UNCHANGED <<kernel, serviceCache, reverseCache, wanted, target, work, calls, faults, changes>>
      /\ result' = "ok" /\ calls = <<>>
  BY DEF Return, cacheVars
<1>2. TypeOK'
  BY <1>1 DEF IInv, TypeOK
<1>3. InPlace(target)
  BY AllDone DEF Return
<1>4. InPlace(target)'
  BY <1>1, <1>3 DEF InPlace
<1> QED
  BY <1>1, <1>2, <1>4 DEF IInv, OkExact

LEMMA AddCallsIs ==
    ASSUME NEW b \in BalancerState
    PROVE  /\ AddCalls(b) \in Seq(Call) /\ AddCalls(b) # <<>> /\ 1 \in DOMAIN AddCalls(b)
           /\ AddCalls(b)[1] = [op |-> "addService", svc |-> b.svc]
           /\ Tail(AddCalls(b)) = [i \in DOMAIN b.ups |-> [op |-> "addReal", svc |-> b.svc, up |-> b.ups[i]]]
           /\ \A i \in DOMAIN AddCalls(b) : i # 1 => AddCalls(b)[i].op = "addReal"
<1>1. b.svc \in IpvsService /\ b.ups \in Seq(UpstreamState)
  BY DEF BalancerState
<1>2. PICK first : first = [op |-> "addService", svc |-> b.svc]
  OBVIOUS
<1>3. PICK rest : rest = [i \in DOMAIN b.ups |-> [op |-> "addReal", svc |-> b.svc, up |-> b.ups[i]]]
  OBVIOUS
<1>4. first \in Call
  BY <1>1, <1>2 DEF Call
<1>5. ASSUME NEW i \in DOMAIN b.ups PROVE rest[i] \in Call /\ rest[i].op = "addReal"
  <2>1. b.ups[i] \in UpstreamState
    BY <1>1
  <2>2. rest[i] = [op |-> "addReal", svc |-> b.svc, up |-> b.ups[i]]
    BY <1>3
  <2> QED
    BY <1>1, <2>1, <2>2 DEF Call
<1>6. rest \in Seq(Call) /\ DOMAIN rest = DOMAIN b.ups
  <2>1. DOMAIN b.ups = 1..Len(b.ups) /\ Len(b.ups) \in Nat
    BY <1>1
  <2>2. DOMAIN rest = DOMAIN b.ups /\ rest = [i \in DOMAIN rest |-> rest[i]]
    BY <1>3
  <2>3. rest \in [1..Len(b.ups) -> Call]
    BY <1>5, <2>1, <2>2
  <2> QED
    BY <2>1, <2>2, <2>3
<1>7. AddCalls(b) = <<first>> \o rest
  BY <1>2, <1>3 DEF AddCalls
<1>8. PICK all : all = <<first>> \o rest
  OBVIOUS
<1>9. <<first>> \in Seq(Call) /\ Len(<<first>>) = 1 /\ <<first>>[1] = first
  BY <1>4
<1>10. /\ all \in Seq(Call) /\ Len(all) = 1 + Len(rest)
       /\ \A i \in 1..(1 + Len(rest)) : all[i] = IF i <= 1 THEN <<first>>[i] ELSE rest[i - 1]
  BY <1>6, <1>8, <1>9, JoinedItems
<1>11. DOMAIN all = 1..(1 + Len(rest)) /\ Len(rest) \in Nat /\ DOMAIN rest = 1..Len(rest)
  BY <1>6, <1>10
<1>12. 1 \in DOMAIN all /\ all[1] = first /\ \A i \in DOMAIN all : i # 1 => i - 1 \in DOMAIN rest /\ all[i] = rest[i - 1]
  BY <1>9, <1>10, <1>11
<1>13. Tail(all) = rest
  BY <1>6, <1>10, <1>11
<1>14. \A i \in DOMAIN all : i # 1 => all[i].op = "addReal"
  BY <1>5, <1>6, <1>12
<1>15. all # <<>>
  BY <1>12
<1>16. AddCalls(b) = all
  BY <1>7, <1>8
<1> QED
  BY <1>2, <1>3, <1>10, <1>12, <1>13, <1>14, <1>15, <1>16, Zenon

LEMMA PickInv == IInv /\ Pick => IInv'
<1> SUFFICES ASSUME IInv, Pick PROVE IInv'
  OBVIOUS
<1>1. /\ UNCHANGED <<kernel, serviceCache, reverseCache, wanted, target, result, faults, changes>>
      /\ result = "busy" /\ calls = <<>>
  BY DEF Pick, cacheVars
<1>2. InSetState /\ TypeOK /\ KernelServices(kernel) /\ target \in Seq(BalancerState) /\ target # NoState
  BY <1>1, StatesAssumption DEF IInv, InSetState, TypeOK
<1>3. Located /\ Placed /\ WorkLeft
  BY <1>2 DEF InSetState
<1>4. /\ work.added \subseteq BalancerState /\ work.deleted \subseteq BalancerState
      /\ work.changed \subseteq [old : BalancerState, new : BalancerState]
      /\ work = [added |-> work.added, deleted |-> work.deleted, changed |-> work.changed]
  BY <1>2 DEF TypeOK
<1>5. Goal' = Goal /\ \A k : GoalOf(k)' = GoalOf(k) /\ Final(k)' = Final(k) /\ Dests(k)' = Dests(k)
  BY <1>1 DEF Goal, GoalOf, Final, Dests
<1>6. \A k \in Goal : GoalOf(k) \in BalancerState /\ GoalOf(k).svc = k /\ k \in IpvsService
  BY <1>2, MapIs DEF Goal, GoalOf
<1>7. Adding = ServicesOf(work.added) /\ Dropping = ServicesOf(work.deleted)
  <2>1. \A op : Heads(op) = {}
    BY <1>1 DEF Heads
  <2> QED
    BY <2>1 DEF Adding, Dropping
<1>8. \A k \in Goal \ Adding :
        /\ [sched |-> kernel[Slot(k)].sched, flags |-> kernel[Slot(k)].flags] = LibService(k)
        /\ Dests(k) = Final(k) \/ k \in Changing
  BY <1>1, <1>3 DEF Placed
<1>9. ASSUME Adding' = Adding, Dropping' = Dropping PROVE Located'
  BY <1>1, <1>3, <1>5, <1>9 DEF Located, Present
<1>10. ASSUME work' \in [added : SUBSET BalancerState, deleted : SUBSET BalancerState,
                         changed : SUBSET [old : BalancerState, new : BalancerState]],
              calls' \in Seq(Call), Located', Placed', WorkLeft', CallsLeft'
       PROVE  IInv'
  <2>1. TypeOK'
    BY <1>1, <1>2, <1>10 DEF TypeOK
  <2> QED
    BY <1>1, <1>2, <1>10, <2>1 DEF IInv, InSetState, OkExact
<1>11. ASSUME NEW b \in work.added, work' = [work EXCEPT !.added = @ \ {b}], calls' = AddCalls(b)
       PROVE  IInv'
  <2>1. /\ work'.added = work.added \ {b} /\ work'.deleted = work.deleted /\ work'.changed = work.changed
        /\ work' \in [added : SUBSET BalancerState, deleted : SUBSET BalancerState,
                      changed : SUBSET [old : BalancerState, new : BalancerState]]
    BY <1>4, <1>11
  <2>2. PICK k : k = b.svc
    OBVIOUS
  <2>3. b \in BalancerState /\ k \in Goal /\ b = GoalOf(k)
    BY <1>3, <1>4, <2>2 DEF WorkLeft
  <2>4. /\ calls' \in Seq(Call) /\ calls' # <<>> /\ 1 \in DOMAIN calls'
        /\ calls'[1] = [op |-> "addService", svc |-> k]
        /\ \A i \in DOMAIN calls' : i # 1 => calls'[i].op = "addReal"
    BY <1>11, <2>2, <2>3, AddCallsIs
  <2>5. Heads("addService")' = {k} /\ Heads("deleteService")' = {}
    BY <2>4 DEF Heads
  <2>6. ServicesOf(work.added)' = ServicesOf(work.added) \ {k} /\ k \in ServicesOf(work.added)
    <3>1. \A c \in work.added : c.svc = k => c = b
      BY <1>3, <2>3 DEF WorkLeft
    <3> QED
      BY <2>1, <2>2, <3>1 DEF ServicesOf
  <2>7. ServicesOf(work.deleted)' = ServicesOf(work.deleted) /\ Changing' = Changing
    BY <2>1 DEF ServicesOf, Changing
  <2>8. Adding' = Adding /\ Dropping' = Dropping
    BY <1>7, <2>5, <2>6, <2>7 DEF Adding, Dropping
  <2>9. Located'
    BY <1>9, <2>8
  <2>10. Placed'
    BY <1>1, <1>5, <1>8, <2>7, <2>8 DEF Placed
  <2>11. WorkLeft'
    BY <1>3, <1>5, <2>1, <2>8 DEF WorkLeft
  <2>12. CallsLeft'
    <3>1. k \notin Changing
      BY <1>3, <1>7, <2>6 DEF WorkLeft, Changing
    <3>2. k \notin ServicesOf(work.deleted)
      BY <1>3, <1>7, <2>3 DEF Located
    <3>3. k \notin (ServicesOf(work.added) \cup Changing \cup ServicesOf(work.deleted))'
      BY <2>6, <2>7, <3>1, <3>2
    <3>4. calls'[1].svc = k /\ calls'[1].op = "addService" /\ calls' = AddCalls(GoalOf(k)')
      BY <1>5, <1>11, <2>3, <2>4
    <3> QED
      BY <1>5, <2>3, <3>3, <3>4 DEF CallsLeft
  <2> QED
    BY <1>10, <2>1, <2>4, <2>9, <2>10, <2>11, <2>12
<1>12. ASSUME work.added = {}, NEW pair \in work.changed, work' = [work EXCEPT !.changed = @ \ {pair}],
              calls' \in ChangeCalls(pair)
       PROVE  IInv'
  <2>1. /\ work'.added = {} /\ work'.deleted = work.deleted /\ work'.changed = work.changed \ {pair}
        /\ work' \in [added : SUBSET BalancerState, deleted : SUBSET BalancerState,
                      changed : SUBSET [old : BalancerState, new : BalancerState]]
    BY <1>4, <1>12
  <2>2. PICK k : k = pair.new.svc
    OBVIOUS
  <2>3. /\ pair.old \in BalancerState /\ k \in Goal \ Adding /\ pair.new = GoalOf(k)
        /\ Reads(Dests(k), pair.old.ups) /\ \A p \in work.changed : p.new.svc = k => p = pair
    BY <1>3, <1>4, <2>2 DEF WorkLeft
  <2>4. /\ pair.old.ups \in Seq(UpstreamState) /\ pair.new.ups \in Seq(UpstreamState)
        /\ pair.new.svc \in IpvsService
    BY <1>6, <2>3 DEF BalancerState
  <2>5. PICK todo : todo = calls'
    OBVIOUS
  <2>6. /\ Fine(Dests(k), todo, Final(k)) /\ todo \in Seq(RealCall)
        /\ \A i \in DOMAIN todo : todo[i].svc = k
    BY <1>12, <2>2, <2>3, <2>4, <2>5, ChangeFine DEF Final
  <2>7. \A i \in DOMAIN todo : todo[i] \in RealCall /\ todo[i] \in Call /\ todo[i].op \notin {"addService", "deleteService"}
    <3>1. \A c \in RealCall : c \in Call /\ c.op \notin {"addService", "deleteService"}
      BY DEF RealCall, Call
    <3> QED
      BY <2>6, <3>1
  <2>8. Heads("addService")' = {} /\ Heads("deleteService")' = {}
    BY <2>5, <2>7 DEF Heads
  <2>9. /\ ServicesOf(work.added)' = {} /\ ServicesOf(work.added) = {}
        /\ ServicesOf(work.deleted)' = ServicesOf(work.deleted)
        /\ Changing' = Changing \ {k}
    BY <1>12, <2>1, <2>2, <2>3 DEF ServicesOf, Changing
  <2>10. Adding' = {} /\ Adding = {} /\ Dropping' = Dropping
    BY <1>7, <2>8, <2>9 DEF Adding, Dropping
  <2>11. Located'
    BY <1>9, <2>10
  <2>12. todo = <<>> => Dests(k) = Final(k)
    <3>1. Slot(k) \in DOMAIN kernel
      BY <1>3, <2>3 DEF Located, Present
    <3>2. KernelDests(Dests(k))
      BY <1>2, <3>1 DEF KernelServices, Dests
    <3>3. Dests(k) = [d \in DOMAIN Dests(k) |-> Dests(k)[d]]
      BY <3>2 DEF KernelDests
    <3>4. Final(k) = [d \in DOMAIN Final(k) |-> Final(k)[d]]
      BY DEF Final, DestsOf
    <3> QED
      BY <2>6, <3>3, <3>4, FineEnd
  <2>13. todo # <<>> => 1 \in DOMAIN todo
    BY <2>6
  <2>14. Placed'
    <3>1. ASSUME NEW j \in Goal
          PROVE  Dests(j)' = Final(j)' \/ j \in Changing' \/ (calls' # <<>> /\ calls'[1].svc = j)
      <4>1. Dests(j)' = Dests(j) /\ Final(j)' = Final(j)
        BY <1>5
      <4>2. todo # <<>> => todo[1].svc = k
        BY <2>6, <2>13
      <4>3. j # k => Dests(j) = Final(j) \/ j \in Changing'
        BY <1>8, <2>9, <2>10
      <4>4. j = k => Dests(j) = Final(j) \/ (calls' # <<>> /\ calls'[1].svc = j)
        BY <2>5, <2>12, <4>2
      <4> QED
        BY <4>1, <4>3, <4>4
    <3>2. ASSUME NEW j \in Goal
          PROVE  [sched |-> kernel[Slot(j)].sched, flags |-> kernel[Slot(j)].flags]' = LibService(j)
      BY <1>1, <1>8, <2>10
    <3> QED
      BY <1>5, <2>10, <3>1, <3>2 DEF Placed
  <2>15. WorkLeft'
    BY <1>3, <1>5, <2>1, <2>10 DEF WorkLeft
  <2>16. CallsLeft'
    <3> SUFFICES ASSUME todo # <<>> PROVE CallsLeft'
      BY <2>5 DEF CallsLeft
    <3>1. todo[1].svc = k /\ todo[1].op \notin {"addService", "deleteService"}
      BY <2>6, <2>7, <2>13
    <3>2. k \notin ServicesOf(work.deleted)
      BY <1>3, <1>7, <2>3 DEF Located
    <3>3. k \notin (ServicesOf(work.added) \cup Changing \cup ServicesOf(work.deleted))'
      BY <2>9, <3>2
    <3>4. Fine(Dests(k)', calls', Final(k)')
      BY <1>5, <2>5, <2>6
    <3> QED
      BY <1>5, <2>3, <2>5, <2>6, <2>7, <3>1, <3>3, <3>4 DEF CallsLeft
  <2>17. calls' \in Seq(Call)
    BY <2>5, <2>6, <2>7
  <2> QED
    BY <1>10, <2>1, <2>11, <2>14, <2>15, <2>16, <2>17
<1>13. ASSUME work.added = {}, work.changed = {}, NEW b \in work.deleted,
              work' = [work EXCEPT !.deleted = @ \ {b}], calls' = <<[op |-> "deleteService", svc |-> b.svc]>>
       PROVE  IInv'
  <2>1. /\ work'.added = {} /\ work'.deleted = work.deleted \ {b} /\ work'.changed = {}
        /\ work' \in [added : SUBSET BalancerState, deleted : SUBSET BalancerState,
                      changed : SUBSET [old : BalancerState, new : BalancerState]]
    BY <1>4, <1>13
  <2>2. PICK k : k = b.svc
    OBVIOUS
  <2>3. k \in IpvsService
    BY <1>4, <2>2 DEF BalancerState
  <2>4. PICK call : call = [op |-> "deleteService", svc |-> k]
    OBVIOUS
  <2>5. call \in Call /\ call.op = "deleteService" /\ call.svc = k
    BY <2>3, <2>4 DEF Call
  <2>6. calls' = <<call>>
    BY <1>13, <2>2, <2>4
  <2>7. calls' \in Seq(Call) /\ Len(calls') = 1 /\ DOMAIN calls' = {1} /\ calls'[1] = call
    BY <2>5, <2>6
  <2>8. Heads("addService")' = {} /\ Heads("deleteService")' = {k}
    BY <2>5, <2>7 DEF Heads
  <2>9. /\ ServicesOf(work.added)' = {} /\ ServicesOf(work.added) = {} /\ Changing' = {} /\ Changing = {}
        /\ ServicesOf(work.deleted)' = ServicesOf(work.deleted) \ {k} /\ k \in ServicesOf(work.deleted)
    <3>1. \A c \in work.deleted : c.svc = k => c = b
      BY <1>3, <2>2 DEF WorkLeft
    <3> QED
      BY <1>13, <2>1, <2>2, <3>1 DEF ServicesOf, Changing
  <2>10. Adding' = {} /\ Adding = {} /\ Dropping' = Dropping
    BY <1>7, <2>8, <2>9 DEF Adding, Dropping
  <2>11. Located'
    BY <1>9, <2>10
  <2>12. Placed'
    BY <1>1, <1>5, <1>8, <2>9, <2>10 DEF Placed
  <2>13. WorkLeft'
    BY <1>3, <2>1 DEF WorkLeft
  <2>14. CallsLeft'
    <3>1. k \notin (ServicesOf(work.added) \cup Changing \cup ServicesOf(work.deleted))'
      BY <2>9
    <3> QED
      BY <2>1, <2>5, <2>7, <3>1 DEF CallsLeft
  <2> QED
    BY <1>10, <2>1, <2>7, <2>11, <2>12, <2>13, <2>14
<1> QED
  BY <1>11, <1>12, <1>13 DEF Pick

LEMMA MakeCallInv == IInv /\ MakeCall => IInv'
<1> SUFFICES ASSUME IInv, MakeCall PROVE IInv'
  OBVIOUS
<1>1. /\ UNCHANGED <<serviceCache, reverseCache, wanted, target, work, result, faults, changes>>
      /\ result = "busy" /\ calls # <<>> /\ kernel' = After(Head(calls)) /\ calls' = Tail(calls)
      /\ Accepted(Head(calls))
  BY DEF MakeCall, cacheVars, IInv
<1>2. /\ TypeOK /\ KernelServices(kernel) /\ target \in Seq(BalancerState) /\ target # NoState
      /\ calls \in Seq(Call)
  BY <1>1, StatesAssumption DEF IInv, InSetState, TypeOK
<1>3. Located /\ Placed /\ WorkLeft /\ CallsLeft
  BY <1>1 DEF IInv, InSetState
<1>4. PICK call, rest : call = calls[1] /\ rest = Tail(calls)
  OBVIOUS
<1>5. /\ 1 \in DOMAIN calls /\ call \in Call /\ Head(calls) = call /\ rest \in Seq(Call)
      /\ Len(calls) \in Nat /\ DOMAIN calls = 1..Len(calls) /\ DOMAIN rest = 1..(Len(calls) - 1)
      /\ Len(rest) = Len(calls) - 1 /\ \A i \in DOMAIN rest : rest[i] = calls[i + 1]
  BY <1>1, <1>2, <1>4
<1>6. PICK k, s : k = call.svc /\ s = Slot(k)
  OBVIOUS
<1>7. PICK new : new = kernel'
  OBVIOUS
<1>8. KernelServices(new) /\ Made(new, call)
  BY <1>1, <1>2, <1>5, <1>7, AfterIs
<1>9. Goal' = Goal /\ \A j : GoalOf(j)' = GoalOf(j) /\ Final(j)' = Final(j)
  BY <1>1 DEF Goal, GoalOf, Final
<1>10. \A j \in Goal : GoalOf(j) \in BalancerState /\ GoalOf(j).svc = j /\ j \in IpvsService
  BY <1>2, MapIs DEF Goal, GoalOf
<1>11. ServicesOf(work.added)' = ServicesOf(work.added) /\ ServicesOf(work.deleted)' = ServicesOf(work.deleted)
       /\ Changing' = Changing
  BY <1>1 DEF ServicesOf, Changing
<1>12. k \notin ServicesOf(work.added) \cup Changing \cup ServicesOf(work.deleted)
  BY <1>1, <1>3, <1>4, <1>6 DEF CallsLeft
<1>13. /\ \A r : r # s => (r \in DOMAIN new <=> r \in DOMAIN kernel) /\ (r \in DOMAIN kernel => new[r] = kernel[r])
  BY <1>6, <1>8 DEF Made
<1>14. /\ DOMAIN kernel = {Slot(j) : j \in Present} /\ \A i, j \in Present : Slot(i) = Slot(j) => i = j
       /\ Present = (Goal \ Adding) \cup Dropping /\ Adding \subseteq Goal /\ Dropping \cap Goal = {}
  BY <1>3 DEF Located, Present
<1>15. \A j \in Goal \ Adding :
         /\ [sched |-> kernel[Slot(j)].sched, flags |-> kernel[Slot(j)].flags] = LibService(j)
         /\ Dests(j) = Final(j) \/ j \in Changing \/ k = j
  BY <1>3, <1>4, <1>6 DEF Placed
<1>16. \A j : Slot(j) \in DOMAIN kernel /\ Slot(j) # s =>
                new[Slot(j)] = kernel[Slot(j)] /\ Dests(j)' = Dests(j)
  BY <1>7, <1>13 DEF Dests
<1>17. ASSUME Located', Placed', WorkLeft', CallsLeft' PROVE IInv'
  <2>1. TypeOK'
    BY <1>1, <1>2, <1>4, <1>5, <1>7, <1>8 DEF TypeOK
  <2> QED
    BY <1>1, <1>2, <1>17, <2>1 DEF IInv, InSetState, OkExact
\* The other services of the goal stay as they are.
<1>18. ASSUME NEW j \in Goal \ Adding, Slot(j) # s
       PROVE  /\ [sched |-> kernel[Slot(j)].sched, flags |-> kernel[Slot(j)].flags]' = LibService(j)
              /\ Dests(j)' = Dests(j)
  <2>1. Slot(j) \in DOMAIN kernel
    BY <1>14
  <2>2. new[Slot(j)] = kernel[Slot(j)] /\ Dests(j)' = Dests(j)
    BY <1>16, <1>18, <2>1
  <2> QED
    BY <1>7, <1>15, <2>2
<1>19. ASSUME (Goal \ Adding) \subseteq (Goal \ Adding)', \A j \in Changing : Slot(j) # s
       PROVE  WorkLeft'
  <2>1. /\ \A b \in work.added : b.svc \in Goal /\ b = GoalOf(b.svc)
        /\ \A p \in work.changed :
              /\ p.new.svc \in Goal \ Adding /\ p.new = GoalOf(p.new.svc)
              /\ Reads(Dests(p.new.svc), p.old.ups)
        /\ \A p, q \in work.changed : p.new.svc = q.new.svc => p = q
        /\ \A b, c \in work.deleted : b.svc = c.svc => b = c
    BY <1>3 DEF WorkLeft
  <2>2. \A p \in work.changed : Dests(p.new.svc)' = Dests(p.new.svc)
    BY <1>18, <1>19, <2>1 DEF Changing
  <2> QED
    BY <1>1, <1>9, <1>19, <2>1, <2>2 DEF WorkLeft
<1>20. ASSUME NEW j \in Goal, Slot(j) \in DOMAIN new,
              Fine(new[Slot(j)].dests, <<>>, Final(j))
       PROVE  Dests(j)' = Final(j)'
  <2>1. PICK dests : dests = new[Slot(j)].dests
    OBVIOUS
  <2>2. KernelDests(dests)
    BY <1>8, <1>20, <2>1 DEF KernelServices
  <2>3. dests = [d \in DOMAIN dests |-> dests[d]]
    BY <2>2 DEF KernelDests
  <2>4. Final(j) = [d \in DOMAIN Final(j) |-> Final(j)[d]]
    BY DEF Final, DestsOf
  <2>5. dests = Final(j)
    BY <1>20, <2>1, <2>3, <2>4, FineEnd
  <2> QED
    BY <1>7, <1>9, <2>1, <2>5 DEF Dests
<1>21. CASE call.op = "addService"
  <2>1. k \in Goal /\ calls = AddCalls(GoalOf(k))
    BY <1>1, <1>3, <1>4, <1>6, <1>21 DEF CallsLeft
  <2>2. PICK b : b = GoalOf(k)
    OBVIOUS
  <2>3. b \in BalancerState /\ b.svc = k /\ b.ups \in Seq(UpstreamState)
    BY <1>10, <2>1, <2>2 DEF BalancerState
  <2>4. rest = [i \in DOMAIN b.ups |-> [op |-> "addReal", svc |-> k, up |-> b.ups[i]]]
        /\ \A i \in DOMAIN calls : i # 1 => calls[i].op = "addReal"
    BY <1>4, <2>1, <2>2, <2>3, AddCallsIs
  <2>5. \A i \in DOMAIN rest : rest[i].op = "addReal" /\ rest[i].svc = k /\ rest[i] \in RealCall
    <3>1. \A i \in DOMAIN rest : rest[i].op = "addReal" /\ rest[i].svc = k /\ rest[i] \in Call
      BY <1>5, <2>4
    <3> QED
      BY <3>1, CallIs
  <2>6. Heads("addService") = {k} /\ Heads("deleteService") = {}
    BY <1>4, <1>5, <1>6, <1>21, <2>4 DEF Heads
  <2>7. Heads("addService")' = {} /\ Heads("deleteService")' = {}
    BY <1>1, <1>4, <2>5 DEF Heads
  <2>8. Adding' = Adding \ {k} /\ Dropping' = Dropping /\ k \in Adding
    BY <1>11, <1>12, <2>6, <2>7 DEF Adding, Dropping
  <2>9. (Goal \ Adding)' = (Goal \ Adding) \cup {k}
    BY <1>9, <2>1, <2>8
  <2>10. /\ s \notin DOMAIN kernel /\ s \in DOMAIN new /\ new[s].dests = [d \in {} |-> 0]
         /\ [sched |-> new[s].sched, flags |-> new[s].flags] = LibService(k)
    BY <1>6, <1>8, <1>21 DEF Made
  <2>11. \A j \in Present : Slot(j) # s
    BY <1>14, <2>10
  <2>12. Present' = Present \cup {k}
    BY <1>14, <2>8, <2>9 DEF Present
  <2>13. DOMAIN new = DOMAIN kernel \cup {s}
    BY <1>13, <2>10
  <2>14. Located'
    <3>1. DOMAIN new = {Slot(j) : j \in Present \cup {k}}
      BY <1>6, <1>14, <2>13
    <3>2. \A i, j \in Present \cup {k} : Slot(i) = Slot(j) => i = j
      BY <1>6, <1>14, <2>11
    <3>3. Adding' \subseteq Goal' /\ Dropping' \cap Goal' = {}
      BY <1>9, <1>14, <2>8
    <3> QED
      BY <1>7, <2>12, <3>1, <3>2, <3>3 DEF Located
  <2>15. Fine(new[s].dests, rest, Final(k))
    BY <2>2, <2>3, <2>4, <2>10, AddFine DEF Final
  <2>16. Placed'
    <3>1. ASSUME NEW j \in Goal \ Adding
          PROVE  Dests(j)' = Final(j)' \/ j \in Changing'
      <4>1. Slot(j) # s /\ j # k
        BY <1>14, <2>8, <2>11
      <4>2. Dests(j)' = Dests(j) /\ Final(j)' = Final(j)
        BY <1>9, <1>18, <4>1
      <4> QED
        BY <1>11, <1>15, <4>1, <4>2
    <3>2. ASSUME NEW j \in Goal \ Adding
          PROVE  [sched |-> kernel[Slot(j)].sched, flags |-> kernel[Slot(j)].flags]' = LibService(j)
      BY <1>14, <1>18, <2>11
    <3>3. rest = <<>> => Dests(k)' = Final(k)'
      BY <1>6, <1>20, <2>1, <2>10, <2>15
    <3>4. rest # <<>> => calls' # <<>> /\ calls'[1].svc = k
      <4>1. rest # <<>> => 1 \in DOMAIN rest
        BY <1>5
      <4> QED
        BY <1>1, <1>4, <2>5, <4>1
    <3>5. [sched |-> kernel[Slot(k)].sched, flags |-> kernel[Slot(k)].flags]' = LibService(k)
      BY <1>6, <1>7, <2>10
    <3> QED
      BY <2>9, <3>1, <3>2, <3>3, <3>4, <3>5 DEF Placed
  <2>17. WorkLeft'
    <3>1. \A j \in Changing : j \in Goal \ Adding
      BY <1>3 DEF WorkLeft, Changing
    <3> QED
      BY <1>14, <1>19, <2>9, <2>11, <3>1
  <2>18. CallsLeft'
    <3> SUFFICES ASSUME rest # <<>> PROVE CallsLeft'
      BY <1>1, <1>4 DEF CallsLeft
    <3>1. 1 \in DOMAIN rest
      BY <1>5
    <3>2. rest[1].svc = k /\ rest[1].op = "addReal"
      BY <2>5, <3>1
    <3>3. Fine(Dests(k)', rest, Final(k)')
      BY <1>6, <1>7, <1>9, <2>15 DEF Dests
    <3>4. k \notin (ServicesOf(work.added) \cup Changing \cup ServicesOf(work.deleted))'
      BY <1>11, <1>12
    <3>5. calls' = rest
      BY <1>1, <1>4
    <3> QED
      BY <1>9, <2>1, <2>5, <3>2, <3>3, <3>4, <3>5 DEF CallsLeft
  <2> QED
    BY <1>17, <2>14, <2>16, <2>17, <2>18
<1>22. CASE call.op = "deleteService"
  <2>1. Len(calls) = 1 /\ work.added = {}
    BY <1>1, <1>3, <1>4, <1>22 DEF CallsLeft
  <2>2. calls' = <<>> /\ DOMAIN calls = {1}
    BY <1>1, <1>2, <1>5, <2>1
  <2>3. Heads("addService") = {} /\ Heads("deleteService") = {k}
    BY <1>4, <1>6, <1>22, <2>2 DEF Heads
  <2>4. Heads("addService")' = {} /\ Heads("deleteService")' = {}
    BY <2>2 DEF Heads
  <2>5. Adding' = Adding /\ Dropping' = Dropping \ {k} /\ k \in Dropping /\ k \notin Goal
    BY <1>11, <1>12, <1>14, <2>3, <2>4 DEF Adding, Dropping
  <2>6. Present' = Present \ {k} /\ k \in Present
    BY <1>9, <1>14, <2>5 DEF Present
  <2>7. DOMAIN new = DOMAIN kernel \ {s}
    <3>1. s \notin DOMAIN new
      BY <1>6, <1>8, <1>22 DEF Made
    <3> QED
      BY <1>13, <3>1
  <2>8. \A j \in Goal \ Adding : Slot(j) # s
    BY <1>6, <1>14, <2>5, <2>6
  <2>9. Located'
    <3>1. DOMAIN new = {Slot(j) : j \in Present \ {k}}
      BY <1>6, <1>14, <2>6, <2>7
    <3>2. Adding' \subseteq Goal' /\ Dropping' \cap Goal' = {}
      BY <1>9, <1>14, <2>5
    <3> QED
      BY <1>7, <1>14, <2>6, <3>1, <3>2 DEF Located
  <2>10. Placed'
    <3>1. ASSUME NEW j \in Goal \ Adding
          PROVE  Dests(j)' = Final(j)' \/ j \in Changing'
      <4>1. Dests(j)' = Dests(j) /\ Final(j)' = Final(j) /\ j # k
        BY <1>9, <1>18, <2>5, <2>8
      <4> QED
        BY <1>11, <1>15, <4>1
    <3>2. ASSUME NEW j \in Goal \ Adding
          PROVE  [sched |-> kernel[Slot(j)].sched, flags |-> kernel[Slot(j)].flags]' = LibService(j)
      BY <1>18, <2>8
    <3> QED
      BY <1>9, <2>5, <3>1, <3>2 DEF Placed
  <2>11. WorkLeft'
    <3>1. \A j \in Changing : j \in Goal \ Adding
      BY <1>3 DEF WorkLeft, Changing
    <3> QED
      BY <1>9, <1>19, <2>5, <2>8, <3>1
  <2>12. CallsLeft'
    BY <2>2 DEF CallsLeft
  <2> QED
    BY <1>17, <2>9, <2>10, <2>11, <2>12
<1>23. CASE call.op \in {"addReal", "updateReal", "deleteReal"}
  <2>1. /\ \A i \in DOMAIN calls : calls[i] \in RealCall /\ calls[i].svc = k
        /\ k \in Goal /\ Fine(Dests(k), calls, Final(k))
    BY <1>1, <1>3, <1>4, <1>6, <1>23 DEF CallsLeft
  <2>2. \A i \in DOMAIN calls : calls[i].op \notin {"addService", "deleteService"}
    <3>1. \A c \in RealCall : c.op \notin {"addService", "deleteService"}
      BY DEF RealCall
    <3> QED
      BY <2>1, <3>1
  <2>3. \A i \in DOMAIN rest : /\ rest[i] \in RealCall /\ rest[i].svc = k
                               /\ rest[i].op \notin {"addService", "deleteService"}
    BY <1>5, <2>1, <2>2
  <2>4. Heads("addService") = {} /\ Heads("deleteService") = {}
    BY <2>2 DEF Heads
  <2>5. Heads("addService")' = {} /\ Heads("deleteService")' = {}
    BY <1>1, <1>4, <2>3 DEF Heads
  <2>6. Adding' = Adding /\ Dropping' = Dropping /\ k \notin Adding
    BY <1>11, <1>12, <2>4, <2>5 DEF Adding, Dropping
  <2>7. Present' = Present /\ k \in Present
    BY <1>9, <1>14, <2>1, <2>6 DEF Present
  <2>8. /\ s \in DOMAIN kernel /\ s \in DOMAIN new
        /\ new[s].sched = kernel[s].sched /\ new[s].flags = kernel[s].flags
        /\ new[s].dests = Next1(kernel[s].dests, call)
        /\ call.op = "addReal" => DestKey(call.up) \notin DOMAIN kernel[s].dests
    BY <1>6, <1>8, <1>23 DEF Made
  <2>9. DOMAIN new = DOMAIN kernel
    BY <1>13, <2>8
  <2>10. \A j \in Goal \ Adding : j # k => Slot(j) # s
    BY <1>6, <1>14, <2>7
  <2>11. Located'
    BY <1>7, <1>9, <1>14, <2>6, <2>7, <2>9 DEF Located
  <2>12. Fine(new[s].dests, rest, Final(k))
    <3>1. PICK dests : dests = kernel[s].dests
      OBVIOUS
    <3>2. Fine(dests, calls, Final(k)) /\ (calls[1].op = "addReal" => DestKey(calls[1].up) \notin DOMAIN dests)
      BY <1>4, <1>6, <2>1, <2>8, <3>1 DEF Dests
    <3>3. Fine(Next1(dests, calls[1]), Tail(calls), Final(k))
      BY <1>1, <1>2, <3>2, FineStep
    <3> QED
      BY <1>4, <2>8, <3>1, <3>3
  <2>13. Placed'
    <3>1. ASSUME NEW j \in Goal \ Adding, j # k
          PROVE  Dests(j)' = Final(j)' \/ j \in Changing'
      <4>1. Dests(j)' = Dests(j) /\ Final(j)' = Final(j)
        BY <1>9, <1>18, <2>10, <3>1
      <4> QED
        BY <1>11, <1>15, <3>1, <4>1
    <3>2. ASSUME NEW j \in Goal \ Adding
          PROVE  [sched |-> kernel[Slot(j)].sched, flags |-> kernel[Slot(j)].flags]' = LibService(j)
      <4>1. CASE j = k
        BY <1>6, <1>7, <1>15, <2>8, <4>1
      <4>2. CASE j # k
        BY <1>18, <2>10, <4>2
      <4> QED
        BY <4>1, <4>2
    <3>3. rest = <<>> => Dests(k)' = Final(k)'
      BY <1>6, <1>20, <2>1, <2>8, <2>12
    <3>4. rest # <<>> => calls' # <<>> /\ calls'[1].svc = k
      <4>1. rest # <<>> => 1 \in DOMAIN rest
        BY <1>5
      <4> QED
        BY <1>1, <1>4, <2>3, <4>1
    <3> QED
      BY <1>9, <2>6, <3>1, <3>2, <3>3, <3>4 DEF Placed
  <2>14. WorkLeft'
    <3>1. \A j \in Changing : j \in Goal \ Adding /\ j # k
      BY <1>3, <1>12 DEF WorkLeft, Changing
    <3> QED
      BY <1>9, <1>19, <2>6, <2>10, <3>1
  <2>15. CallsLeft'
    <3> SUFFICES ASSUME rest # <<>> PROVE CallsLeft'
      BY <1>1, <1>4 DEF CallsLeft
    <3>1. 1 \in DOMAIN rest
      BY <1>5
    <3>2. rest[1].svc = k /\ rest[1].op \notin {"addService", "deleteService"}
      BY <2>3, <3>1
    <3>3. Fine(Dests(k)', rest, Final(k)')
      BY <1>6, <1>7, <1>9, <2>12 DEF Dests
    <3>4. k \notin (ServicesOf(work.added) \cup Changing \cup ServicesOf(work.deleted))'
      BY <1>11, <1>12
    <3>5. calls' = rest
      BY <1>1, <1>4
    <3> QED
      BY <1>9, <2>1, <2>3, <3>2, <3>3, <3>4, <3>5 DEF CallsLeft
  <2> QED
    BY <1>17, <2>11, <2>13, <2>14, <2>15
<1> QED
  BY <1>5, <1>21, <1>22, <1>23, CallIs

\* IInv holds always.
LEMMA Inductive == Spec => []IInv
<1>1. IInv /\ [Next]_vars => IInv'
  <2> SUFFICES ASSUME IInv, [Next]_vars PROVE IInv'
    OBVIOUS
  <2> QED
    BY SetStateInv, PickInv, MakeCallInv, EndInv, ReturnInv, WantInv, StutterInv DEF Next, Step
<1> QED
  BY InitInv, <1>1, PTL DEF Spec

\* TypeOK is an invariant: whatever is read back from the kernel, found or written, is
\* a list of balancers again, and the calls made leave it such that it can be read.
THEOREM TypeCorrect == Spec => []TypeOK
<1>1. IInv => TypeOK
  BY DEF IInv
<1> QED
  BY Inductive, <1>1, PTL

\* OkExact is an invariant: SetState returns nil only when the kernel holds exactly the
\* state it was called with, for any lists, with duplicates, and whatever was there.
THEOREM OkIsExact == Spec => []OkExact
<1>1. IInv => OkExact
  BY DEF IInv
<1> QED
  BY Inductive, <1>1, PTL

----------------------------------------------------------------------------
(***************************************************************************)
(* A state that is in place.                                                *)
(***************************************************************************)
\* The kernel, by the services of a state that is in place.
Holds(state) ==
    LET N == Bals!keyGen(state)
    IN  /\ DOMAIN kernel = {Slot(k) : k \in Bals!Keys(state)}
        /\ \A k \in Bals!Keys(state) :
              /\ kernel[Slot(k)].sched = LibService(k).sched /\ kernel[Slot(k)].flags = LibService(k).flags
              /\ kernel[Slot(k)].dests = DestsOf(N[k].ups)

LEMMA InPlaceIs ==
    ASSUME NEW state \in Seq(BalancerState), InPlace(state), SlotsDiffer(state)
    PROVE  Holds(state)
<1> DEFINE N == Bals!keyGen(state)
           Places(s) == {i \in DOMAIN state : Slot(state[i].svc) = s}
           Entry(s) == LET b == state[Max(Places(s))]
                       IN  [sched |-> LibService(b.svc).sched, flags |-> LibService(b.svc).flags,
                            dests |-> DestsOf(b.ups)]
<1>1. kernel = [s \in {Slot(state[i].svc) : i \in DOMAIN state} |-> Entry(s)]
  BY DEF InPlace, KernelOf
<1>2. Bals!Keys(state) = {state[i].svc : i \in DOMAIN state}
  BY DEF Bals!Keys, BalancerKey
<1>3. DOMAIN kernel = {Slot(k) : k \in Bals!Keys(state)}
  <2> HIDE DEF Entry
  <2> QED
    BY <1>1, <1>2
<1>4. DOMAIN state = 1..Len(state) /\ Len(state) \in Nat
  OBVIOUS
<1>5. ASSUME NEW k \in Bals!Keys(state)
      PROVE  /\ kernel[Slot(k)].sched = LibService(k).sched /\ kernel[Slot(k)].flags = LibService(k).flags
             /\ kernel[Slot(k)].dests = DestsOf(N[k].ups)
  <2>1. PICK i \in DOMAIN state : /\ state[i].svc = k /\ N[k] = state[i]
                                  /\ \A j \in (i + 1)..Len(state) : state[j].svc # k
    BY BalsMap
  <2>2. i \in Places(Slot(k)) /\ Places(Slot(k)) \subseteq 1..Len(state)
    BY <1>4, <2>1
  <2>3. Max(Places(Slot(k))) \in Places(Slot(k)) /\ \A j \in Places(Slot(k)) : j <= Max(Places(Slot(k)))
    BY <1>4, <2>2, LastPlace
  <2>4. PICK m : m = Max(Places(Slot(k)))
    OBVIOUS
  <2>5. m \in DOMAIN state /\ Slot(state[m].svc) = Slot(k) /\ i <= m
    BY <2>2, <2>3, <2>4
  <2>6. state[m].svc = k
    BY <2>1, <2>5 DEF SlotsDiffer
  <2>7. m = i
    <3>1. m \notin (i + 1)..Len(state)
      BY <2>1, <2>6
    <3> QED
      BY <1>4, <2>1, <2>5, <3>1
  <2>8. Entry(Slot(k)) = [sched |-> LibService(k).sched, flags |-> LibService(k).flags, dests |-> DestsOf(N[k].ups)]
    BY <2>1, <2>4, <2>7
  <2> HIDE DEF Entry
  <2>9. kernel[Slot(k)] = Entry(Slot(k))
    BY <1>1, <1>2
  <2> QED
    BY <2>8, <2>9
<1> QED
  BY <1>3, <1>5 DEF Holds

\* Putting what is there changes nothing.
LEMMA PutSame ==
    ASSUME NEW f, NEW d \in DOMAIN f, f = [x \in DOMAIN f |-> f[x]]
    PROVE  With(f, d, f[d]) = f
BY DEF With

LEMMA CallChangesNothing ==
    ASSUME IInv, MakeCall, InPlace(target), SlotsDiffer(target)
    PROVE  kernel' = kernel
<1>1. /\ result = "busy" /\ calls # <<>> /\ kernel' = After(Head(calls)) /\ Accepted(Head(calls))
  BY DEF MakeCall, IInv
<1>2. /\ KernelServices(kernel) /\ target \in Seq(BalancerState) /\ calls \in Seq(Call)
      /\ Located /\ CallsLeft
  BY <1>1, StatesAssumption DEF IInv, InSetState, TypeOK
<1>3. PICK call : call = calls[1]
  OBVIOUS
<1>4. 1 \in DOMAIN calls /\ call \in Call /\ Head(calls) = call
  BY <1>1, <1>2, <1>3
<1>5. PICK k, s : k = call.svc /\ s = Slot(k)
  OBVIOUS
<1>6. PICK new : new = kernel'
  OBVIOUS
<1>7. KernelServices(new) /\ Made(new, call)
  BY <1>1, <1>2, <1>4, <1>6, AfterIs
<1>8. Holds(target)
  BY <1>2, InPlaceIs
<1>9. DOMAIN kernel = {Slot(j) : j \in Goal} /\ \A j \in Goal : kernel[Slot(j)].dests = Final(j)
  BY <1>8 DEF Holds, Goal, GoalOf, Final
<1>10. call.op # "addService"
  <2>1. call.op = "addService" => k \in Goal /\ s \notin DOMAIN kernel
    BY <1>1, <1>2, <1>3, <1>5, <1>7 DEF CallsLeft, Made
  <2> QED
    BY <1>5, <1>9, <2>1
<1>11. call.op # "deleteService"
  <2> SUFFICES ASSUME call.op = "deleteService" PROVE FALSE
    OBVIOUS
  <2>1. Len(calls) = 1 /\ work.added = {} /\ s \in DOMAIN kernel
    BY <1>1, <1>2, <1>3, <1>5, <1>7 DEF CallsLeft, Made
  <2>2. DOMAIN calls = {1}
    BY <1>2, <2>1
  <2>3. Heads("addService") = {} /\ Heads("deleteService") = {k}
    BY <1>3, <1>5, <2>2 DEF Heads
  <2>4. Adding = {} /\ k \in Dropping
    BY <2>1, <2>3 DEF Adding, Dropping, ServicesOf
  <2>5. PICK j \in Goal : Slot(j) = s
    BY <1>9, <2>1
  <2>6. j \in Present /\ k \in Present
    BY <2>4 DEF Present
  <2> QED
    BY <1>2, <1>5, <2>4, <2>5, <2>6 DEF Located
<1>12. CASE call.op \in {"addReal", "updateReal", "deleteReal"}
  <2>1. k \in Goal /\ Fine(Dests(k), calls, Final(k))
    BY <1>1, <1>2, <1>3, <1>5, <1>12 DEF CallsLeft
  <2>2. /\ s \in DOMAIN kernel /\ s \in DOMAIN new
        /\ new[s].sched = kernel[s].sched /\ new[s].flags = kernel[s].flags
        /\ new[s].dests = Next1(kernel[s].dests, call)
        /\ call.op = "addReal" => DestKey(call.up) \notin DOMAIN kernel[s].dests
        /\ call.op # "addReal" => DestKey(call.up) \in DOMAIN kernel[s].dests
    BY <1>5, <1>7, <1>12 DEF Made
  <2>3. PICK dests, d : dests = kernel[s].dests /\ d = DestKey(call.up)
    OBVIOUS
  <2>4. dests = Final(k) /\ Fine(dests, calls, dests)
    BY <1>5, <1>9, <2>1, <2>3 DEF Dests
  <2>5. call.op # "addReal"
    BY <1>3, <1>4, <2>2, <2>3, <2>4 DEF Fine
  <2>6. ~Doomed(dests, calls)
    <3> SUFFICES ASSUME Doomed(dests, calls) PROVE FALSE
      OBVIOUS
    <3>1. PICK i \in DOMAIN calls : \A j \in 1..i : calls[j].op = "addReal"
      BY DEF Doomed
    <3>2. 1 \in 1..i
      BY <1>2
    <3> QED
      BY <1>3, <2>5, <3>1, <3>2
  <2>7. Leads(dests, calls, dests)
    BY <2>4, <2>6 DEF Fine
  <2>8. IF call.op = "deleteReal" THEN d \notin DOMAIN dests ELSE d \in DOMAIN dests /\ dests[d] = LibDest(call.up)
    BY <1>3, <1>4, <2>3, <2>7 DEF Leads
  <2>9. call.op = "updateReal" /\ dests[d] = LibDest(call.up) /\ d \in DOMAIN dests
    BY <1>12, <2>2, <2>3, <2>5, <2>8
  <2>10. KernelDests(dests)
    BY <1>2, <2>2, <2>3 DEF KernelServices
  <2>11. dests = [x \in DOMAIN dests |-> dests[x]]
    BY <2>10 DEF KernelDests
  <2>12. new[s].dests = dests
    BY <2>2, <2>3, <2>9, <2>11, PutSame DEF Next1
  <2>13. new[s] = kernel[s]
    <3>1. /\ new[s] = [sched |-> new[s].sched, flags |-> new[s].flags, dests |-> new[s].dests]
          /\ kernel[s] = [sched |-> kernel[s].sched, flags |-> kernel[s].flags, dests |-> kernel[s].dests]
      BY <1>2, <1>7, <2>2 DEF KernelServices
    <3> QED
      BY <2>2, <2>3, <2>12, <3>1
  <2>14. \A r : r # s => (r \in DOMAIN new <=> r \in DOMAIN kernel) /\ (r \in DOMAIN kernel => new[r] = kernel[r])
    BY <1>5, <1>7 DEF Made
  <2>15. DOMAIN new = DOMAIN kernel /\ \A r \in DOMAIN kernel : new[r] = kernel[r]
    BY <2>2, <2>13, <2>14
  <2>16. new = [r \in DOMAIN new |-> new[r]] /\ kernel = [r \in DOMAIN kernel |-> kernel[r]]
    BY <1>2, <1>7 DEF KernelServices
  <2>17. new = kernel
    BY <2>15, <2>16
  <2> QED
    BY <1>6, <2>17
<1> QED
  BY <1>4, <1>10, <1>11, <1>12, CallIs

\* AppliedStays holds: applying a state again that is in place leaves the kernel as it
\* is, also one that does not read back and is taken for missing on every tick.
THEOREM ReapplyingIsQuiet == Spec => AppliedStays
<1>1. ASSUME IInv, [Next]_vars, InPlace(wanted), SlotsDiffer(wanted), Idle \/ target = wanted
      PROVE  kernel' = kernel
  <2>1. MakeCall => target = wanted
    BY <1>1 DEF IInv, MakeCall, Idle
  <2>2. MakeCall => kernel' = kernel
    BY <1>1, <2>1, CallChangesNothing
  <2>3. ~MakeCall => kernel' = kernel
    BY <1>1 DEF Next, Step, SetState, Pick, CallRefused, Return, Want, CallFails, Restart, vars
  <2> QED
    BY <2>2, <2>3
<1>2. IInv /\ [Next]_vars =>
        [InPlace(wanted) /\ SlotsDiffer(wanted) /\ (Idle \/ target = wanted) => kernel' = kernel]_vars
  BY <1>1
<1> QED
  BY Inductive, <1>2, PTL DEF Spec, AppliedStays

----------------------------------------------------------------------------
(***************************************************************************)
(* A state in place that reads back is read back as it was written.         *)
(***************************************************************************)
LEMMA NameOf ==
    /\ \A n \in DOMAIN libSchedulers :
          libSchedulers[n] \in Range(libSchedulers) /\ KglbName(libSchedulers, libSchedulers[n]) = n
    /\ \A n \in DOMAIN libForwards :
          libForwards[n] \in Range(libForwards) /\ KglbName(libForwards, libForwards[n]) = n
<1>1. \A m, n \in DOMAIN libSchedulers : libSchedulers[m] = libSchedulers[n] => m = n
  BY DEF libSchedulers
<1>2. \A m, n \in DOMAIN libForwards : libForwards[m] = libForwards[n] => m = n
  BY DEF libForwards
<1>3. ASSUME NEW table, \A m, n \in DOMAIN table : table[m] = table[n] => m = n
      PROVE  \A n \in DOMAIN table : table[n] \in Range(table) /\ KglbName(table, table[n]) = n
  <2>1. \A n \in DOMAIN table : table[n] \in Range(table)
    BY DEF Range
  <2> QED
    BY <1>3, <2>1, NameIs
<1> QED
  BY <1>1, <1>2, <1>3, Zenon

\* HASHED is not looked at.
LEMMA WithoutHashed ==
    ASSUME NEW F
    PROVE  KglbFlags(F \cup {HASHED}) = KglbFlags(F)
<1>1. \A n : n # 2 => (n \in F \cup {HASHED} <=> n \in F)
  BY DEF HASHED
<1> DEFINE Flag(G, n) == IF n \in G THEN <<n>> ELSE <<>>
<1>2. \A G : KglbFlags(G) = Flag(G, 1) \o Flag(G, 3) \o Flag(G, 7) \o Flag(G, 8)
  BY DEF KglbFlags
<1>3. /\ Flag(F \cup {HASHED}, 1) = Flag(F, 1) /\ Flag(F \cup {HASHED}, 3) = Flag(F, 3)
      /\ Flag(F \cup {HASHED}, 7) = Flag(F, 7) /\ Flag(F \cup {HASHED}, 8) = Flag(F, 8)
  BY <1>1
<1> HIDE DEF Flag
<1> QED
  BY <1>2, <1>3, Zenon

\* The service of a state in place is read back as it is in the state.
LEMMA ServiceReadsBack ==
    ASSUME NEW k \in IpvsService, FlagsOK(k), k.flags = KglbFlags(ToSet(k.flags)),
           k.at = Place(k), k.kind # "fwmark" => k.num = Uint16(k.num),
           kernel[Slot(k)].sched = LibService(k).sched, kernel[Slot(k)].flags = LibService(k).flags
    PROVE  /\ KglbService(Slot(k)) = k
           /\ kernel[Slot(k)].sched \in Range(libSchedulers) /\ kernel[Slot(k)].flags \subseteq supportedFlags
<1>1. k = [kind |-> k.kind, at |-> k.at, num |-> k.num, sched |-> k.sched, flags |-> k.flags]
      /\ k.sched \in DOMAIN libSchedulers
  BY DEF IpvsService
<1>2. PICK s : s = Slot(k)
  OBVIOUS
<1>3. s.kind = k.kind /\ s.at = k.at /\ s.num = k.num
  BY <1>2 DEF Slot
<1>4. kernel[s].sched = libSchedulers[k.sched] /\ kernel[s].flags = ToSet(k.flags) \cup {HASHED}
  BY <1>2 DEF LibService
<1>5. KglbName(libSchedulers, kernel[s].sched) = k.sched /\ kernel[s].sched \in Range(libSchedulers)
  BY <1>1, <1>4, NameOf
<1>6. KglbFlags(kernel[s].flags) = k.flags
  BY <1>4, WithoutHashed
<1>7. KglbService(s) = [kind |-> k.kind, at |-> k.at, num |-> k.num, sched |-> k.sched, flags |-> k.flags]
  BY <1>3, <1>5, <1>6 DEF KglbService
<1>8. kernel[s].flags \subseteq supportedFlags
  BY <1>4 DEF FlagsOK, HASHED, supportedFlags
<1> QED
  BY <1>1, <1>2, <1>5, <1>7, <1>8

\* The name of a service of the state, from the updated cache.
LEMMA NameFound ==
    ASSUME NEW state \in Seq(BalancerState), OneName(state), NEW i \in DOMAIN state
    PROVE  Lookup(NewServiceCache(state), keyByService(state[i].svc)) = state[i].name
<1>1. PICK key : key = keyByService(state[i].svc)
  OBVIOUS
<1> DEFINE at == {j \in DOMAIN state : keyByService(state[j].svc) = key}
<1>2. at # {} /\ at \subseteq 1..Len(state) /\ Len(state) \in Nat
  BY <1>1
<1>3. Max(at) \in at
  BY <1>2, LastPlace
<1>4. key \in DOMAIN NewServiceCache(state)
  BY <1>1 DEF NewServiceCache
<1>5. NewServiceCache(state)[key] = state[Max(at)].name
  BY <1>2, <1>4 DEF NewServiceCache
<1>6. state[Max(at)].name = state[i].name
  BY <1>1, <1>3 DEF OneName
<1> QED
  BY <1>1, <1>4, <1>5, <1>6 DEF Lookup

\* The name of a host of the state, from the updated cache.
LEMMA HostFound ==
    ASSUME NEW state \in Seq(BalancerState), OneName(state), NEW i \in DOMAIN state, NEW j \in DOMAIN state[i].ups
    PROVE  Lookup(NewReverseCache(state), Canonical[state[i].ups[j].addr]) = state[i].ups[j].host
<1>1. PICK a : a = Canonical[state[i].ups[j].addr]
  OBVIOUS
<1> DEFINE at == {n \in DOMAIN state : PlacesOf(state[n], a) # {}}
<1>2. j \in PlacesOf(state[i], a)
  BY <1>1 DEF PlacesOf
<1>3. at # {} /\ at \subseteq 1..Len(state) /\ Len(state) \in Nat
  <2>1. i \in at
    BY <1>2
  <2>2. DOMAIN state = 1..Len(state) /\ Len(state) \in Nat
    OBVIOUS
  <2> QED
    BY <2>1, <2>2
<1>4. Max(at) \in at
  BY <1>3, LastPlace
<1>5. PICK m : m = Max(at)
  OBVIOUS
<1>6. m \in DOMAIN state /\ PlacesOf(state[m], a) # {}
  BY <1>4, <1>5
<1>7. state[m] \in BalancerState
  BY <1>6
<1>8. state[m].ups \in Seq(UpstreamState)
  BY <1>7 DEF BalancerState
<1>9. PlacesOf(state[m], a) \subseteq 1..Len(state[m].ups) /\ Len(state[m].ups) \in Nat
  BY <1>8 DEF PlacesOf
<1>10. Max(PlacesOf(state[m], a)) \in PlacesOf(state[m], a)
  BY <1>6, <1>9, LastPlace
<1>11. PICK l : l = Max(PlacesOf(state[m], a))
  OBVIOUS
<1>12. l \in DOMAIN state[m].ups /\ Canonical[state[m].ups[l].addr] = a
  BY <1>10, <1>11 DEF PlacesOf
<1>13. state[m].ups[l].host = state[i].ups[j].host
  BY <1>1, <1>6, <1>12 DEF OneName
<1>14. a \in DOMAIN NewReverseCache(state)
  <2>1. DOMAIN NewReverseCache(state) =
          DOMAIN reverseCache \cup UNION {{Canonical[up.addr] : up \in ToSet(state[n].ups)} : n \in DOMAIN state}
    BY DEF NewReverseCache
  <2>2. a \in {Canonical[up.addr] : up \in ToSet(state[i].ups)}
    BY <1>1 DEF ToSet
  <2> QED
    BY <2>1, <2>2
<1>15. NewReverseCache(state)[a] = state[Max(at)].ups[Max(PlacesOf(state[Max(at)], a))].host
  BY <1>3, <1>14 DEF NewReverseCache
<1> QED
  BY <1>1, <1>5, <1>11, <1>13, <1>14, <1>15 DEF Lookup

\* Upstreams in place are read back as they are in the state.
LEMMA UpsReadBack ==
    ASSUME KernelServices(kernel), Listable, NEW s \in DOMAIN kernel,
           NEW hosts, \A a \in DOMAIN hosts : hosts[a] \in Name,
           NEW ups \in Seq(UpstreamState), kernel[s].dests = DestsOf(ups),
           \A j \in DOMAIN ups : /\ ups[j].port = Uint16(ups[j].port) /\ ups[j].addr = Canonical[ups[j].addr]
                                 /\ Lookup(hosts, ups[j].addr) = ups[j].host
    PROVE  ~Ups!IsChanged(Ups!CompareArrays(RealServers(s, hosts), ups))
<1>1. PICK old, dests : old = RealServers(s, hosts) /\ dests = kernel[s].dests
  OBVIOUS
<1>2. /\ old \in Seq(UpstreamState) /\ Reads(dests, old)
      /\ \A i \in DOMAIN old : old[i].host = Lookup(hosts, old[i].addr) /\ old[i].addr = Canonical[old[i].addr]
  BY <1>1, ReadReals
<1> DEFINE diff == Ups!CompareArrays(old, ups)
           O == Ups!keyGen(old)
           N == Ups!keyGen(ups)
<1>3. /\ DOMAIN O = Ups!Keys(old) /\ DOMAIN N = Ups!Keys(ups)
      /\ diff.added = {N[k] : k \in DOMAIN N \ DOMAIN O}
      /\ diff.deleted = {O[k] : k \in DOMAIN O \ DOMAIN N}
      /\ {p.new : p \in diff.changed} = {N[k] : k \in {k \in DOMAIN O \cap DOMAIN N : O[k] # N[k]}}
      /\ IsFiniteSet(diff.added) /\ IsFiniteSet(diff.deleted)
      /\ IsFiniteSet({p.new : p \in diff.changed})
  BY <1>2, UpsDiff
<1>4. /\ \A k \in DOMAIN O : \E i \in DOMAIN old : UpstreamKey(old[i]) = k /\ O[k] = old[i]
      /\ \A k \in DOMAIN N : \E j \in DOMAIN ups : /\ UpstreamKey(ups[j]) = k /\ N[k] = ups[j]
                                                   /\ \A l \in (j + 1)..Len(ups) : UpstreamKey(ups[l]) # k
  BY <1>2, <1>3, UpsMap
<1> HIDE DEF diff, O, N
<1>5. \A j \in DOMAIN ups : DestKey(ups[j]) = UpstreamKey(ups[j])
  BY DEF DestKey, UpstreamKey
<1>6. DOMAIN O = DOMAIN dests
  <2>1. /\ \A d \in DOMAIN dests : \E i \in DOMAIN old : UpstreamKey(old[i]) = d
        /\ \A i \in DOMAIN old : UpstreamKey(old[i]) \in DOMAIN dests
    BY <1>2 DEF Reads
  <2>2. DOMAIN O = {UpstreamKey(old[i]) : i \in DOMAIN old}
    BY <1>3 DEF Ups!Keys
  <2> QED
    BY <2>1, <2>2
<1>7. DOMAIN N = DOMAIN dests
  <2>1. DOMAIN dests = {DestKey(ups[i]) : i \in DOMAIN ups}
    BY <1>1 DEF DestsOf
  <2> QED
    BY <1>3, <1>5, <2>1 DEF Ups!Keys
<1>8. ASSUME NEW k \in DOMAIN dests PROVE O[k] = N[k]
  <2>1. PICK i \in DOMAIN old : UpstreamKey(old[i]) = k /\ O[k] = old[i]
    BY <1>4, <1>6
  <2>2. PICK j \in DOMAIN ups : /\ UpstreamKey(ups[j]) = k /\ N[k] = ups[j]
                                /\ \A l \in (j + 1)..Len(ups) : UpstreamKey(ups[l]) # k
    BY <1>4, <1>7
  <2>3. PICK x, y : x = old[i] /\ y = ups[j]
    OBVIOUS
  <2>4. x \in UpstreamState /\ y \in UpstreamState
    BY <1>2, <2>3
  <2>5. x.addr = y.addr /\ x.port = y.port
    <3>1. x.addr = Canonical[x.addr] /\ y.addr = Canonical[y.addr]
      BY <1>2, <2>3
    <3> QED
      BY <2>1, <2>2, <2>3, <3>1 DEF UpstreamKey
  <2>6. x.host = Lookup(hosts, x.addr) /\ y.host = Lookup(hosts, y.addr)
    BY <1>2, <2>3
  <2>7. LibDest(x) = dests[k]
    BY <1>2, <2>1, <2>3 DEF Reads
  <2>8. LibDest(y) = dests[k]
    <3>1. \A l \in (j + 1)..Len(ups) : DestKey(ups[l]) # DestKey(ups[j])
      <4>1. \A l \in (j + 1)..Len(ups) : l \in DOMAIN ups
        OBVIOUS
      <4> QED
        BY <1>5, <2>2, <4>1
    <3>2. DestsOf(ups)[DestKey(ups[j])] = LibDest(ups[j])
      BY <3>1, DestsOfIs
    <3> QED
      BY <1>1, <1>5, <2>2, <2>3, <3>2
  <2>9. x.weight = y.weight /\ libForwards[x.fwd] = libForwards[y.fwd]
    BY <2>7, <2>8 DEF LibDest
  <2>10. x.fwd \in DOMAIN libForwards /\ y.fwd \in DOMAIN libForwards
    BY <2>4 DEF UpstreamState
  <2>11. x.fwd = y.fwd
    BY <2>9, <2>10, NameOf
  <2>12. /\ x = [host |-> x.host, addr |-> x.addr, port |-> x.port, weight |-> x.weight, fwd |-> x.fwd]
         /\ y = [host |-> y.host, addr |-> y.addr, port |-> y.port, weight |-> y.weight, fwd |-> y.fwd]
    BY <2>4 DEF UpstreamState
  <2>13. x = y
    BY <2>5, <2>6, <2>9, <2>11, <2>12
  <2> QED
    BY <2>1, <2>2, <2>3, <2>13
<1>9. diff.added = {} /\ diff.deleted = {} /\ {p.new : p \in diff.changed} = {}
  BY <1>3, <1>6, <1>7, <1>8
<1>10. diff.changed = {}
  BY <1>9
<1> QED
  BY <1>1, <1>9, <1>10 DEF diff, Ups!IsChanged

\* Recognised is an invariant: a state in place that can be read back (ReadsBack: its
\* addresses are in canonical text, among others) is seen to be in place, whatever
\* names the caches hold, and SetState finds nothing to do.
THEOREM InPlaceIsSeen == Spec => []Recognised
<1>1. ASSUME IInv, Idle, InPlace(wanted), ReadsBack(wanted), OneName(wanted), SlotsDiffer(wanted)
      PROVE  Listable /\ ~Bals!IsChanged(Difference(wanted))
  <2>1. TypeOK /\ KernelServices(kernel) /\ wanted \in Seq(BalancerState)
    BY <1>1, StatesAssumption DEF IInv, TypeOK, InPlace
  <2>2. PICK N, K : N = Bals!keyGen(wanted) /\ K = Bals!Keys(wanted)
    OBVIOUS
  <2>3. Holds(wanted)
    BY <1>1, <2>1, InPlaceIs
  <2>4. /\ DOMAIN kernel = {Slot(k) : k \in K}
        /\ \A k \in K :
              /\ kernel[Slot(k)].sched = LibService(k).sched /\ kernel[Slot(k)].flags = LibService(k).flags
              /\ kernel[Slot(k)].dests = DestsOf(N[k].ups)
    BY <2>2, <2>3 DEF Holds
  <2>5. \A k \in K : \E i \in DOMAIN wanted : wanted[i].svc = k /\ N[k] = wanted[i]
    BY <2>1, <2>2, BalsMap
  <2>6. \A k \in K : N[k] \in BalancerState /\ N[k].svc = k /\ k \in IpvsService
    BY <2>1, <2>2, MapIs
  <2>7. ASSUME NEW k \in K
        PROVE  /\ KglbService(Slot(k)) = k
               /\ kernel[Slot(k)].sched \in Range(libSchedulers) /\ kernel[Slot(k)].flags \subseteq supportedFlags
               /\ Slot(k).kind \in {"tcp", "udp", "fwmark"}
    <3>1. /\ FlagsOK(k) /\ k.flags = KglbFlags(ToSet(k.flags)) /\ k.at = Place(k)
          /\ k.kind # "fwmark" => k.num = Uint16(k.num)
      BY <1>1, <2>5 DEF ReadsBack, KeysReadBack
    <3>2. Slot(k).kind \in {"tcp", "udp", "fwmark"}
      BY <2>6 DEF Slot, IpvsService
    <3> QED
      BY <2>4, <2>6, <3>1, <3>2, ServiceReadsBack
  <2>8. ASSUME NEW k \in K, NEW d \in DOMAIN kernel[Slot(k)].dests
        PROVE  kernel[Slot(k)].dests[d].fwd \in Range(libForwards)
    <3>1. PICK ups : ups = N[k].ups
      OBVIOUS
    <3>2. ups \in Seq(UpstreamState)
      BY <2>6, <3>1 DEF BalancerState
    <3>3. kernel[Slot(k)].dests = DestsOf(ups)
      BY <2>4, <3>1
    <3> DEFINE T == {i \in DOMAIN ups : DestKey(ups[i]) = d}
    <3>4. d \in {DestKey(ups[i]) : i \in DOMAIN ups} /\ DestsOf(ups)[d] = LibDest(ups[Max(T)])
      BY <2>8, <3>3 DEF DestsOf
    <3>5. T # {} /\ T \subseteq 1..Len(ups) /\ Len(ups) \in Nat
      BY <3>2, <3>4
    <3>6. Max(T) \in DOMAIN ups
      BY <3>5, LastPlace
    <3>7. PICK up : up = ups[Max(T)]
      OBVIOUS
    <3>8. up \in UpstreamState
      BY <3>2, <3>6, <3>7
    <3>9. up.fwd \in DOMAIN libForwards
      BY <3>8 DEF UpstreamState
    <3>10. LibDest(up).fwd = libForwards[up.fwd]
      BY DEF LibDest
    <3> QED
      BY <3>3, <3>4, <3>7, <3>9, <3>10, NameOf
  <2>9. Listable
    <3>1. \A s \in DOMAIN kernel : \E k \in K : s = Slot(k)
      BY <2>4
    <3> QED
      BY <2>7, <2>8, <3>1 DEF Listable
  <2>10. PICK names, hosts : names = NewServiceCache(wanted) /\ hosts = NewReverseCache(wanted)
    OBVIOUS
  <2>11. (\A k \in DOMAIN names : names[k] \in Name) /\ (\A a \in DOMAIN hosts : hosts[a] \in Name)
    BY <2>1, <2>10, NamesOK
  <2>12. PICK current, diff, O :
           /\ current = Balancers(names, hosts) /\ diff = Bals!CompareArrays(current, wanted)
           /\ O = Bals!keyGen(current)
    OBVIOUS
  <2>13. Read(current, names, hosts)
    BY <2>1, <2>9, <2>11, <2>12, CurrentIs
  <2>14. Differ(diff, O, N) /\ DOMAIN O = Bals!Keys(current) /\ DOMAIN N = K
    BY <2>2, <2>12, BalsDiff
  <2>15. DOMAIN O = K
    <3>1. DOMAIN O = {KglbService(s) : s \in DOMAIN kernel}
      BY <2>13, <2>14 DEF Read
    <3> QED
      BY <2>4, <2>7, <3>1
  <2>16. ASSUME NEW k \in K PROVE BalancerEqual(O[k], N[k])
    <3>1. O[k].name = Lookup(names, keyByService(k)) /\ O[k].ups = RealServers(Slot(k), hosts)
      BY <2>12, <2>13, <2>14, <2>15 DEF Read
    <3>2. PICK i \in DOMAIN wanted : wanted[i].svc = k /\ N[k] = wanted[i]
      BY <2>5
    <3>3. O[k].name = N[k].name
      BY <1>1, <2>1, <2>10, <3>1, <3>2, NameFound
    <3>4. PICK ups : ups = N[k].ups
      OBVIOUS
    <3>5. ups \in Seq(UpstreamState)
      BY <2>6, <3>4 DEF BalancerState
    <3>6. \A j \in DOMAIN ups : ups[j].port = Uint16(ups[j].port) /\ ups[j].addr = Canonical[ups[j].addr]
      BY <1>1, <3>2, <3>4 DEF ReadsBack, KeysReadBack
    <3>7. \A j \in DOMAIN ups : Lookup(hosts, ups[j].addr) = ups[j].host
      BY <1>1, <2>1, <2>10, <3>2, <3>4, <3>6, HostFound
    <3>8. PICK s : s = Slot(k)
      OBVIOUS
    <3>9. s \in DOMAIN kernel /\ kernel[s].dests = DestsOf(ups)
      BY <2>4, <3>4, <3>8
    <3>10. ~Ups!IsChanged(Ups!CompareArrays(RealServers(s, hosts), ups))
      BY <2>1, <2>9, <2>11, <3>5, <3>6, <3>7, <3>9, UpsReadBack
    <3> QED
      BY <3>1, <3>3, <3>4, <3>8, <3>10 DEF BalancerEqual
  <2>17. diff.added = {} /\ diff.deleted = {} /\ diff.changed = {}
    <3>1. /\ \A b : b \in diff.added <=> \E k \in DOMAIN N \ DOMAIN O : b = N[k]
          /\ \A b : b \in diff.deleted <=> \E k \in DOMAIN O \ DOMAIN N : b = O[k]
          /\ \A p : p \in diff.changed => \E k \in DOMAIN O \cap DOMAIN N : ~BalancerEqual(O[k], N[k])
      BY <2>14 DEF Differ
    <3> QED
      BY <2>14, <2>15, <2>16, <3>1
  <2>18. Difference(wanted) = diff
    BY <2>10, <2>12 DEF Difference
  <2> QED
    BY <2>9, <2>17, <2>18 DEF Bals!IsChanged
<1>2. IInv => Recognised
  BY <1>1 DEF Recognised
<1> QED
  BY Inductive, <1>2, PTL
=============================================================================
