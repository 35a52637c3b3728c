---------------------------- MODULE FwmarkProofs ----------------------------
(***************************************************************************)
(* Proofs about FwmarkManager, for every pool, any number of balancers and  *)
(* whatever lists of upstreams they get, with duplicates or not.            *)
(***************************************************************************)
EXTENDS FwmarkManager, FiniteSetTheorems, WellFoundedInduction, TLAPS

\* The manager's own state has its type; an entry has a reference.
ManagerOK ==
    /\ pool \in Seq(Fwmark)
    /\ \A a \in DOMAIN allocated : allocated[a] \in [fwmark : Fwmark, refcount : Nat \ {0}]

IInv == ManagerOK /\ Partition

----------------------------------------------------------------------------
\* AllocateFwmark takes the first fwmark out of the pool and gives it to the address.
LEMMA AllocateKeeps ==
    ASSUME IInv, NEW a, AllocateFwmark(a)
    PROVE  IInv'
<1> USE DEF ManagerOK, Partition
<1>1. CASE a \in DOMAIN allocated /\ allocated' = [allocated EXCEPT ![a].refcount = @ + 1]
           /\ UNCHANGED pool
  <2>1. DOMAIN allocated' = DOMAIN allocated
    BY <1>1
  <2>2. \A c \in DOMAIN allocated : /\ allocated'[c].fwmark = allocated[c].fwmark
                                    /\ allocated'[c] \in [fwmark : Fwmark, refcount : Nat \ {0}]
    BY <1>1 DEF IInv
  <2>3. pool' = pool
    BY <1>1
  <2>4. ManagerOK'
    BY <2>1, <2>2, <2>3 DEF IInv
  <2>5. Partition'
    BY <2>1, <2>2, <2>3 DEF IInv
  <2> QED
    BY <2>4, <2>5 DEF IInv
<1>2. CASE /\ a \notin DOMAIN allocated /\ pool # <<>>
           /\ allocated' = [x \in DOMAIN allocated \cup {a} |->
                               IF x = a THEN [fwmark |-> Head(pool), refcount |-> 1]
                                        ELSE allocated[x]]
           /\ pool' = Tail(pool)
  <2>1. pool \in Seq(Fwmark) /\ Len(pool) \in Nat \ {0} /\ DOMAIN pool = 1..Len(pool)
    BY <1>2 DEF IInv
  <2>2. /\ pool' \in Seq(Fwmark) /\ DOMAIN pool' = 1..(Len(pool) - 1)
        /\ \A i \in DOMAIN pool' : pool'[i] = pool[i + 1] /\ i + 1 \in DOMAIN pool
        /\ Head(pool) = pool[1] /\ pool[1] \in Fwmark /\ 1 \in DOMAIN pool
    BY <1>2, <2>1
  <2>3. /\ DOMAIN allocated' = DOMAIN allocated \cup {a}
        /\ allocated'[a] = [fwmark |-> pool[1], refcount |-> 1]
        /\ \A c \in DOMAIN allocated : allocated'[c] = allocated[c]
    BY <1>2, <2>2
  <2>4. ManagerOK'
    BY <2>2, <2>3 DEF IInv
  <2>5. \A i, j \in DOMAIN pool' : pool'[i] = pool'[j] => i = j
    BY <2>1, <2>2 DEF IInv
  <2>6. \A i \in DOMAIN pool' : pool'[i] # pool[1]
    BY <2>1, <2>2 DEF IInv
  <2>7. \A i \in DOMAIN pool', c \in DOMAIN allocated' : pool'[i] # allocated'[c].fwmark
    BY <2>2, <2>3, <2>6 DEF IInv
  <2>8. \A c, d \in DOMAIN allocated' : allocated'[c].fwmark = allocated'[d].fwmark => c = d
    BY <2>2, <2>3 DEF IInv
  <2>9. ASSUME NEW m \in Fwmark
        PROVE  (\E i \in DOMAIN pool' : pool'[i] = m)
               \/ (\E c \in DOMAIN allocated' : allocated'[c].fwmark = m)
    <3>1. CASE \E c \in DOMAIN allocated : allocated[c].fwmark = m
      BY <2>3, <3>1
    <3>2. CASE \E i \in DOMAIN pool : pool[i] = m
      <4> PICK i \in DOMAIN pool : pool[i] = m
        BY <3>2
      <4>1. CASE i = 1
        BY <2>3, <4>1
      <4>2. CASE i # 1
        <5>1. i - 1 \in DOMAIN pool' /\ pool'[i - 1] = pool[i]
          BY <2>1, <2>2, <4>2
        <5> QED
          BY <5>1
      <4> QED
        BY <4>1, <4>2
    <3> QED
      BY <3>1, <3>2 DEF IInv
  <2> QED
    BY <2>4, <2>5, <2>7, <2>8, <2>9 DEF IInv
<1> QED
  BY <1>1, <1>2 DEF AllocateFwmark

\* ReleaseFwmark puts a fwmark back at the end of the pool with its last reference.
LEMMA ReleaseKeeps ==
    ASSUME IInv, NEW a, ReleaseFwmark(a)
    PROVE  IInv'
<1> USE DEF ManagerOK, Partition
<1>1. CASE /\ a \in DOMAIN allocated /\ allocated[a].refcount > 1
           /\ allocated' = [allocated EXCEPT ![a].refcount = @ - 1]
           /\ UNCHANGED pool
  <2>1. DOMAIN allocated' = DOMAIN allocated
    BY <1>1
  <2>2. \A c \in DOMAIN allocated : /\ allocated'[c].fwmark = allocated[c].fwmark
                                    /\ allocated'[c] \in [fwmark : Fwmark, refcount : Nat \ {0}]
    BY <1>1 DEF IInv
  <2> QED
    BY <1>1, <2>1, <2>2 DEF IInv
<1>2. CASE /\ a \in DOMAIN allocated /\ allocated[a].refcount = 1
           /\ pool' = Append(pool, allocated[a].fwmark)
           /\ allocated' = [x \in DOMAIN allocated \ {a} |-> allocated[x]]
  <2>1. pool \in Seq(Fwmark) /\ Len(pool) \in Nat /\ DOMAIN pool = 1..Len(pool)
        /\ allocated[a].fwmark \in Fwmark
    BY <1>2 DEF IInv
  <2>2. /\ pool' \in Seq(Fwmark) /\ DOMAIN pool' = 1..(Len(pool) + 1)
        /\ \A i \in DOMAIN pool : pool'[i] = pool[i] /\ i \in DOMAIN pool'
        /\ pool'[Len(pool) + 1] = allocated[a].fwmark
    BY <1>2, <2>1
  <2>3. /\ DOMAIN allocated' = DOMAIN allocated \ {a}
        /\ \A c \in DOMAIN allocated' : allocated'[c] = allocated[c] /\ c # a
    BY <1>2
  <2>4. ManagerOK'
    BY <2>2, <2>3 DEF IInv
  <2>5. \A i \in DOMAIN pool' : i \in DOMAIN pool \/ i = Len(pool) + 1
    BY <2>1, <2>2
  <2>6. \A i, j \in DOMAIN pool' : pool'[i] = pool'[j] => i = j
    BY <1>2, <2>1, <2>2, <2>5 DEF IInv
  <2>7. \A i \in DOMAIN pool', c \in DOMAIN allocated' : pool'[i] # allocated'[c].fwmark
    BY <1>2, <2>2, <2>3, <2>5 DEF IInv
  <2>8. \A c, d \in DOMAIN allocated' : allocated'[c].fwmark = allocated'[d].fwmark => c = d
    BY <2>3 DEF IInv
  <2>9. ASSUME NEW m \in Fwmark
        PROVE  (\E i \in DOMAIN pool' : pool'[i] = m)
               \/ (\E c \in DOMAIN allocated' : allocated'[c].fwmark = m)
    <3>1. CASE \E i \in DOMAIN pool : pool[i] = m
      BY <2>2, <3>1
    <3>2. CASE m = allocated[a].fwmark
      <4>1. Len(pool) + 1 \in DOMAIN pool'
        BY <2>1, <2>2
      <4> QED
        BY <2>2, <3>2, <4>1
    <3>3. CASE \E c \in DOMAIN allocated \ {a} : allocated[c].fwmark = m
      BY <2>3, <3>3
    <3> QED
      BY <3>1, <3>2, <3>3 DEF IInv
  <2> QED
    BY <2>4, <2>6, <2>7, <2>8, <2>9 DEF IInv
<1>3. CASE a \notin DOMAIN allocated /\ UNCHANGED mngVars
  BY <1>3 DEF mngVars, IInv
<1> QED
  BY <1>1, <1>2, <1>3 DEF ReleaseFwmark

\* A step that leaves the manager alone.
LEMMA ManagerStutters ==
    ASSUME IInv, UNCHANGED mngVars
    PROVE  IInv'
BY DEF mngVars, IInv, ManagerOK, Partition

----------------------------------------------------------------------------
\* NewManager: all fwmarks are in the pool, none twice.
LEMMA InitOK == Init => IInv
<1> SUFFICES ASSUME Init PROVE IInv
  OBVIOUS
<1>1. /\ pool = [i \in 1..MaxFwmark |-> Base + i - 1] /\ DOMAIN allocated = {}
      /\ Base \in Nat /\ MaxFwmark \in Nat
  BY FwmarkAssumption DEF Init
<1>2. pool \in Seq(Fwmark) /\ DOMAIN pool = 1..MaxFwmark
  BY <1>1 DEF Fwmark
<1>3. \A m \in Fwmark : m - Base + 1 \in DOMAIN pool /\ pool[m - Base + 1] = m
  BY <1>1 DEF Fwmark
<1>4. \A i, j \in DOMAIN pool : pool[i] = pool[j] => i = j
  BY <1>1
<1> QED
  BY <1>1, <1>2, <1>3, <1>4 DEF IInv, ManagerOK, Partition

\* What a balancer does.
Step(b) == Work(b) \/ Close(b) \/ \E list \in Lists : UpdateState(b, list)

\* It keeps the manager's state in order,
LEMMA ManagerStep ==
    ASSUME IInv, NEW b \in Balancer, Step(b)
    PROVE  IInv'
<1>1. ASSUME NEW list \in Lists, UpdateState(b, list) PROVE IInv'
  BY <1>1, ManagerStutters DEF UpdateState
<1>2. CASE Allocate(b)
  BY <1>2, AllocateKeeps DEF Allocate
<1>3. CASE AllocateError(b)
  BY <1>3, ManagerStutters DEF AllocateError, AllocateFails
<1>4. CASE Release(b)
  BY <1>4, ReleaseKeeps DEF Release
<1>5. CASE Generate(b)
  BY <1>5, ManagerStutters DEF Generate
<1>6. CASE Store(b)
  BY <1>6, ManagerStutters DEF Store
<1>7. CASE Close(b)
  BY <1>7, ManagerStutters DEF Close
<1> QED
  BY <1>1, <1>2, <1>3, <1>4, <1>5, <1>6, <1>7 DEF Step, Work

\* and so does every step.
LEMMA StepOK == IInv /\ [Next]_vars => IInv'
<1> SUFFICES ASSUME IInv, [Next]_vars PROVE IInv'
  OBVIOUS
<1>1. CASE UNCHANGED vars
  BY <1>1, ManagerStutters DEF vars, mngVars
<1>2. CASE Next
  <2>1. PICK b \in Balancer : Step(b)
    BY <1>2 DEF Next, Step
  <2> QED
    BY <2>1, ManagerStep
<1> QED
  BY <1>1, <1>2

\* For every size of the pool and any number of balancers, whatever upstreams they
\* have: each fwmark is once in the pool or belongs to exactly one address, so
\* AllocateFwmark and ReleaseFwmark neither lose a fwmark nor give it out twice.
THEOREM PoolPartition == Spec => []Partition
<1>1. IInv => Partition
  BY DEF IInv
<1> QED
  BY InitOK, StepOK, <1>1, PTL DEF Spec

----------------------------------------------------------------------------
(***************************************************************************)
(* References.  A balancer holds a reference to the fwmark of an address    *)
(* from its allocation to its release; refcount is the number of holders.   *)
(***************************************************************************)
Pending(b, op, a) == \E i \in DOMAIN calls[b] : calls[b][i].op = op /\ calls[b][i].addr = a

Holds(b, a) ==
    IF calls[b] = <<>> THEN a \in ToSet(upstreams[b])
    ELSE IF a \in ToSet(upstreams[b]) THEN a \in ToSet(target[b]) \/ Pending(b, "release", a)
    ELSE a \in ToSet(target[b]) /\ ~Pending(b, "allocate", a)

Holders(a) == {b \in Balancer : Holds(b, a)}

Count(a) == IF a \in DOMAIN allocated THEN allocated[a].refcount ELSE 0

\* Errors make the count too small, closed balancers make it too large.
Counted ==
    \A a \in Addr \ twice :
        /\ a \notin refused => Cardinality(Holders(a)) <= Count(a)
        /\ a \notin left => Count(a) <= Cardinality(Holders(a))

Calls == [op : {"allocate", "release", "get"}, addr : Addr] \cup [op : {"store"}]

Changing == {"allocate", "release"}

\* What manageFwmarkAllocations and updateState of b have still to do: new addresses
\* are allocated and old ones released, each once, before anything is looked up.
CallsOK(b) ==
    /\ Doubles(upstreams[b]) \subseteq twice /\ Doubles(target[b]) \subseteq twice
    /\ \A i \in DOMAIN calls[b] :
          LET c == calls[b][i] IN
          /\ c.op = "allocate" => c.addr \in ToSet(target[b]) \ ToSet(upstreams[b])
          /\ c.op = "release" => c.addr \in ToSet(upstreams[b]) \ ToSet(target[b])
          /\ c.op = "get" => c.addr \in ToSet(target[b])
          /\ c.op = "store" <=> i = Len(calls[b])
    /\ \A i, j \in DOMAIN calls[b] : i < j /\ calls[b][j].op \in Changing =>
          /\ calls[b][i].op \in Changing
          /\ calls[b][i] = calls[b][j] => calls[b][i].addr \in twice

\* s is a service with the fwmark of its address.
Marked(s) ==
    s.addr \in refused \cup twice \/ (Allocated(s.addr) /\ allocated[s.addr].fwmark = s.fwmark)

\* The services of b have the fwmarks of the addresses b holds.
Marks(b) ==
    /\ \A s \in services[b] : s.addr \in ToSet(upstreams[b]) /\ (Holds(b, s.addr) => Marked(s))
    /\ calls[b] # <<>> => \A s \in generated[b] :
          s.addr \in ToSet(target[b]) /\ Marked(s) /\ calls[b][1].op \notin Changing

Balancers ==
    /\ calls \in [Balancer -> Seq(Calls)]
    /\ \A b \in Balancer : CallsOK(b) /\ Marks(b)

----------------------------------------------------------------------------
\* A set of numbers has a least one.
LEMMA LeastNat ==
    ASSUME NEW T, T \subseteq Nat, T # {}
    PROVE  \E n \in T : \A m \in T : n <= m
<1>1. PICK n \in T : \A m \in T : ~(<<m, n>> \in OpToRel(<, Nat))
  BY NatLessThanWellFounded, WFMin
<1>2. ASSUME NEW m \in T, m < n PROVE FALSE
  <2>1. <<m, n>> \in {ss \in Nat \X Nat : ss[1] < ss[2]}
    BY <1>2
  <2>2. <<m, n>> \in OpToRel(<, Nat)
    BY <2>1, Zenon DEF OpToRel
  <2> QED
    BY <1>1, <2>2
<1>3. \A m \in T : n <= m
  <2> SUFFICES ASSUME NEW m \in T PROVE n <= m
    OBVIOUS
  <2>1. n \in Nat /\ m \in Nat /\ ~(m < n)
    BY <1>2
  <2> QED
    BY <2>1
<1> QED
  BY <1>3

\* The loop of Without up to element i.
WithoutStep(g, list, other, i) ==
    IF i = 0 THEN <<>>
    ELSE IF list[i] \in ToSet(other) THEN g[i - 1] ELSE Append(g[i - 1], list[i])

\* The loop of Without has a value for every element.
LEMMA WithoutDefined ==
    ASSUME NEW S, NEW list \in Seq(S), NEW other
    PROVE  \E g : g = [i \in 0..Len(list) |-> WithoutStep(g, list, other, i)]
<1> DEFINE Loop(n) == \E g \in [0..n -> Seq(S)] : \A i \in 0..n : g[i] = WithoutStep(g, list, other, i)
           Bad == {n \in 0..Len(list) : ~Loop(n)}
<1>1. Loop(0)
  <2> DEFINE g == [i \in 0..0 |-> <<>>]
  <2>1. g \in [0..0 -> Seq(S)] /\ \A i \in 0..0 : g[i] = WithoutStep(g, list, other, i)
    BY DEF WithoutStep
  <2> QED
    BY <2>1
<1>2. ASSUME NEW n \in 1..Len(list), Loop(n - 1) PROVE Loop(n)
  <2>1. PICK g \in [0..(n - 1) -> Seq(S)] : \A i \in 0..(n - 1) : g[i] = WithoutStep(g, list, other, i)
    BY <1>2
  <2> DEFINE v == WithoutStep(g, list, other, n)
             h == [i \in 0..n |-> IF i = n THEN v ELSE g[i]]
  <2>2. g[n - 1] \in Seq(S) /\ list[n] \in S /\ n # 0
    OBVIOUS
  <2>3. v \in Seq(S)
    BY <2>2 DEF WithoutStep
  <2>4. \A i \in 0..n : i # n => i \in 0..(n - 1)
    OBVIOUS
  <2>5. h \in [0..n -> Seq(S)]
    BY <2>3, <2>4
  <2>6. \A i \in 0..(n - 1) : h[i] = g[i]
    OBVIOUS
  <2>7. ASSUME NEW i \in 0..n PROVE WithoutStep(h, list, other, i) = WithoutStep(g, list, other, i)
    <3>1. i # 0 => i - 1 \in 0..(n - 1)
      OBVIOUS
    <3> QED
      BY <2>6, <3>1 DEF WithoutStep
  <2>8. \A i \in 0..n : h[i] = WithoutStep(h, list, other, i)
    BY <2>1, <2>4, <2>6, <2>7
  <2> QED
    BY <2>5, <2>8
<1>3. Bad = {}
  <2> SUFFICES ASSUME Bad # {} PROVE FALSE
    OBVIOUS
  <2> HIDE DEF Loop
  <2>0. Bad \subseteq Nat
    OBVIOUS
  <2>1. PICK n \in Bad : \A m \in Bad : n <= m
    BY <2>0, LeastNat
  <2>2. n # 0 /\ n \in 1..Len(list)
    BY <1>1
  <2>3. n - 1 \notin Bad /\ n - 1 \in 0..Len(list)
    BY <2>1, <2>2
  <2> QED
    BY <1>2, <2>2, <2>3
<1>4. Len(list) \in 0..Len(list)
  OBVIOUS
<1>5. PICK g \in [0..Len(list) -> Seq(S)] : \A i \in 0..Len(list) : g[i] = WithoutStep(g, list, other, i)
  BY <1>3, <1>4
<1> QED
  BY <1>5

\* The elements of list that other does not have, and no element more than once that
\* list has only once.
LEMMA WithoutIs ==
    ASSUME NEW S, NEW list \in Seq(S), NEW other
    PROVE  /\ Without(list, other) \in Seq(S)
           /\ ToSet(Without(list, other)) = ToSet(list) \ ToSet(other)
           /\ Doubles(Without(list, other)) \subseteq Doubles(list)
<1> DEFINE N == Len(list)
           f == CHOOSE g : g = [i \in 0..N |-> WithoutStep(g, list, other, i)]
<1>1. f = [i \in 0..N |-> WithoutStep(f, list, other, i)]
  <2>1. \E g : g = [i \in 0..N |-> WithoutStep(g, list, other, i)]
    BY WithoutDefined
  <2> QED
    BY <2>1, Zenon
<1>2. Without(list, other) = f[N]
  BY Zenon DEF Without, WithoutStep
<1> HIDE DEF f
<1> DEFINE Good(i) ==
        /\ f[i] \in Seq(S)
        /\ \A x : (\E k \in 1..Len(f[i]) : f[i][k] = x) <=> (\E k \in 1..i : list[k] = x) /\ x \notin ToSet(other)
        /\ \A k, l \in 1..Len(f[i]) : k < l /\ f[i][k] = f[i][l] =>
              \E m, n \in 1..i : m < n /\ list[m] = list[n] /\ list[n] = f[i][l]
    Bad == {i \in 0..N : ~Good(i)}
<1>3. Good(0)
  BY <1>1 DEF WithoutStep
<1>4. ASSUME NEW i \in 1..N, Good(i - 1) PROVE Good(i)
  <2> DEFINE p == f[i - 1]
  <2>0. f[i] = IF list[i] \in ToSet(other) THEN p ELSE Append(p, list[i])
    <3>1. i \in 0..N /\ i # 0
      OBVIOUS
    <3>2. f[i] = WithoutStep(f, list, other, i)
      BY <1>1, <3>1
    <3> QED
      BY <3>1, <3>2, Zenon DEF WithoutStep
  <2>1. /\ p \in Seq(S)
        /\ \A x : (\E k \in 1..Len(p) : p[k] = x) <=> (\E k \in 1..(i - 1) : list[k] = x) /\ x \notin ToSet(other)
        /\ \A k, l \in 1..Len(p) : k < l /\ p[k] = p[l] =>
              \E m, n \in 1..(i - 1) : m < n /\ list[m] = list[n] /\ list[n] = p[l]
    BY <1>4
  <2>2. list[i] \in S /\ \A k : k \in 1..i <=> k \in 1..(i - 1) \/ k = i
    OBVIOUS
  <2> HIDE DEF p
  <2>3. CASE list[i] \in ToSet(other)
    <3>1. f[i] = p
      BY <2>0, <2>3
    <3>2. \A x : (\E k \in 1..i : list[k] = x) <=> (\E k \in 1..(i - 1) : list[k] = x) \/ x = list[i]
      BY <2>2
    <3>3. \A x : (\E k \in 1..Len(p) : p[k] = x) <=> (\E k \in 1..i : list[k] = x) /\ x \notin ToSet(other)
      BY <2>1, <2>3, <3>2
    <3>4. \A k, l \in 1..Len(p) : k < l /\ p[k] = p[l] =>
             \E m, n \in 1..i : m < n /\ list[m] = list[n] /\ list[n] = p[l]
      BY <2>1, <2>2
    <3> QED
      BY <2>1, <3>1, <3>3, <3>4
  <2>4. CASE list[i] \notin ToSet(other)
    <3>1. /\ f[i] \in Seq(S) /\ Len(p) \in Nat /\ Len(f[i]) = Len(p) + 1 /\ f[i][Len(p) + 1] = list[i]
          /\ \A k \in 1..Len(p) : f[i][k] = p[k]
      BY <2>0, <2>1, <2>2, <2>4
    <3>2. \A k : k \in 1..Len(f[i]) <=> k \in 1..Len(p) \/ k = Len(p) + 1
      BY <3>1
    <3>3. \A x : (\E k \in 1..Len(f[i]) : f[i][k] = x) <=> (\E k \in 1..Len(p) : p[k] = x) \/ x = list[i]
      BY <3>1, <3>2
    <3>4. \A x : (\E k \in 1..i : list[k] = x) <=> (\E k \in 1..(i - 1) : list[k] = x) \/ x = list[i]
      BY <2>2
    <3>5. \A x : (\E k \in 1..Len(f[i]) : f[i][k] = x) <=> (\E k \in 1..i : list[k] = x) /\ x \notin ToSet(other)
      BY <2>1, <2>4, <3>3, <3>4
    <3>6. ASSUME NEW k \in 1..Len(f[i]), NEW l \in 1..Len(f[i]), k < l, f[i][k] = f[i][l]
          PROVE  \E m, n \in 1..i : m < n /\ list[m] = list[n] /\ list[n] = f[i][l]
      <4>1. CASE l \in 1..Len(p)
        <5>1. k \in 1..Len(p)
          BY <3>1, <3>6, <4>1
        <5> QED
          BY <2>1, <2>2, <3>1, <3>6, <4>1, <5>1
      <4>2. CASE l = Len(p) + 1
        <5>1. k \in 1..Len(p) /\ p[k] = list[i]
          BY <3>1, <3>2, <3>6, <4>2
        <5>2. PICK m \in 1..(i - 1) : list[m] = list[i]
          BY <2>1, <5>1
        <5>3. m < i /\ m \in 1..i /\ i \in 1..i /\ list[i] = f[i][l]
          BY <3>1, <4>2
        <5> QED
          BY <5>2, <5>3
      <4> QED
        BY <3>2, <4>1, <4>2
    <3> QED
      BY <3>1, <3>5, <3>6
  <2> QED
    BY <2>3, <2>4
<1>5. Bad = {}
  <2> SUFFICES ASSUME Bad # {} PROVE FALSE
    OBVIOUS
  <2> HIDE DEF Good
  <2>0. Bad \subseteq Nat
    OBVIOUS
  <2>1. PICK n \in Bad : \A m \in Bad : n <= m
    BY <2>0, LeastNat
  <2>2. n # 0 /\ n \in 1..N
    BY <1>3
  <2>3. n - 1 \notin Bad /\ n - 1 \in 0..N
    BY <2>1, <2>2
  <2> QED
    BY <1>4, <2>2, <2>3
<1>6. Good(N)
  <2> HIDE DEF Good
  <2> QED
    BY <1>5
<1>7. DOMAIN list = 1..N /\ DOMAIN f[N] = 1..Len(f[N]) /\ N \in Nat /\ Len(f[N]) \in Nat
  BY <1>6
<1>8. ToSet(f[N]) = ToSet(list) \ ToSet(other)
  <2> SUFFICES ASSUME NEW x PROVE x \in ToSet(f[N]) <=> x \in ToSet(list) \ ToSet(other)
    OBVIOUS
  <2>1. x \in ToSet(f[N]) <=> \E k \in 1..Len(f[N]) : f[N][k] = x
    BY <1>7 DEF ToSet
  <2>2. x \in ToSet(list) <=> \E k \in 1..N : list[k] = x
    BY <1>7 DEF ToSet
  <2> QED
    BY <1>6, <2>1, <2>2
<1>9. Doubles(f[N]) \subseteq Doubles(list)
  <2> SUFFICES ASSUME NEW x \in Doubles(f[N]) PROVE x \in Doubles(list)
    OBVIOUS
  <2>1. PICK l \in 1..Len(f[N]) : x = f[N][l] /\ \E k \in 1..(l - 1) : f[N][k] = f[N][l]
    BY <1>7 DEF Doubles
  <2>2. PICK k \in 1..(l - 1) : f[N][k] = f[N][l]
    BY <2>1
  <2>3. k \in 1..Len(f[N]) /\ k < l
    BY <1>7
  <2>4. PICK m, n \in 1..N : m < n /\ list[m] = list[n] /\ list[n] = f[N][l]
    BY <1>6, <2>2, <2>3
  <2>5. n \in DOMAIN list /\ m \in 1..(n - 1) /\ list[m] = list[n] /\ x = list[n]
    BY <1>7, <2>1, <2>4
  <2> QED
    BY <2>5 DEF Doubles
<1> QED
  BY <1>2, <1>6, <1>8, <1>9

----------------------------------------------------------------------------
\* The elements of a list.
LEMMA Members ==
    ASSUME NEW S, NEW l \in Seq(S)
    PROVE  /\ DOMAIN l = 1..Len(l) /\ Len(l) \in Nat
           /\ \A x : x \in ToSet(l) <=> \E i \in 1..Len(l) : l[i] = x
           /\ \A i \in 1..Len(l) : l[i] \in ToSet(l) /\ l[i] \in S
           /\ \A i, j \in 1..Len(l) : i < j /\ l[i] = l[j] => l[i] \in Doubles(l)
BY DEF ToSet, Doubles

\* The elements of two sequences put together,
LEMMA JoinedTwo ==
    ASSUME NEW S, NEW A \in Seq(S), NEW D \in Seq(S), NEW n, NEW m, n = Len(A), m = n + Len(D)
    PROVE  /\ A \o D \in Seq(S) /\ Len(A \o D) = m /\ n \in Nat /\ m \in Nat /\ n <= m
           /\ \A i \in 1..n : (A \o D)[i] = A[i]
           /\ \A i \in (n + 1)..m : (A \o D)[i] = D[i - n] /\ i - n \in 1..Len(D)
<1>1. Len(A) \in Nat /\ Len(D) \in Nat
  OBVIOUS
<1>2. \A i \in (n + 1)..m : i - n \in 1..Len(D)
  BY <1>1
<1>3. A \o D \in Seq(S) /\ Len(A \o D) = m
  OBVIOUS
<1>4. \A i \in 1..n : (A \o D)[i] = A[i]
  OBVIOUS
<1>5. \A i \in (n + 1)..m : (A \o D)[i] = D[i - n]
  OBVIOUS
<1> QED
  BY <1>1, <1>2, <1>3, <1>4, <1>5

\* and of three and a last element: c consists of them, they end at n1, n2 and n3.
Pieces(c, A, D, G, z, n1, n2, n3) ==
    /\ Len(c) = n3 + 1 /\ DOMAIN c = 1..(n3 + 1)
    /\ n1 \in Nat /\ n2 \in Nat /\ n3 \in Nat /\ n1 <= n2 /\ n2 <= n3
    /\ \A i \in 1..n1 : c[i] = A[i]
    /\ \A i \in (n1 + 1)..n2 : c[i] = D[i - n1] /\ i - n1 \in 1..Len(D)
    /\ \A i \in (n2 + 1)..n3 : c[i] = G[i - n2] /\ i - n2 \in 1..Len(G)
    /\ c[n3 + 1] = z

LEMMA Joined ==
    ASSUME NEW S, NEW A \in Seq(S), NEW D \in Seq(S), NEW G \in Seq(S), NEW z \in S,
           NEW n1, n1 = Len(A), NEW n2, n2 = n1 + Len(D), NEW n3, n3 = n2 + Len(G)
    PROVE  /\ A \o D \o G \o <<z>> \in Seq(S)
           /\ Pieces(A \o D \o G \o <<z>>, A, D, G, z, n1, n2, n3)
<1> DEFINE B == A \o D
           C == B \o G
<1>1. /\ B \in Seq(S) /\ Len(B) = n2 /\ n1 \in Nat /\ n2 \in Nat /\ n1 <= n2
      /\ \A i \in 1..n1 : B[i] = A[i]
      /\ \A i \in (n1 + 1)..n2 : B[i] = D[i - n1] /\ i - n1 \in 1..Len(D)
  <2>1. B \in Seq(S) /\ Len(B) = n2 /\ n1 \in Nat /\ n2 \in Nat /\ n1 <= n2
    OBVIOUS
  <2>2. \A i \in 1..n1 : B[i] = A[i]
    OBVIOUS
  <2>3. \A i \in (n1 + 1)..n2 : B[i] = D[i - n1] /\ i - n1 \in 1..Len(D)
    BY JoinedTwo
  <2> QED
    BY <2>1, <2>2, <2>3
<1>2. A \o D \o G \o <<z>> = C \o <<z>>
  OBVIOUS
<1> HIDE DEF B
<1>3. /\ C \in Seq(S) /\ Len(C) = n3 /\ n3 \in Nat /\ n2 <= n3
      /\ \A i \in 1..n2 : C[i] = B[i]
      /\ \A i \in (n2 + 1)..n3 : C[i] = G[i - n2] /\ i - n2 \in 1..Len(G)
  <2>1. C \in Seq(S) /\ Len(C) = n3 /\ n3 \in Nat /\ n2 <= n3
    BY <1>1
  <2>2. \A i \in 1..n2 : C[i] = B[i]
    BY <1>1
  <2>3. \A i \in (n2 + 1)..n3 : C[i] = G[i - n2] /\ i - n2 \in 1..Len(G)
    BY <1>1, JoinedTwo
  <2> QED
    BY <2>1, <2>2, <2>3
<1> HIDE DEF C
<1> DEFINE c == C \o <<z>>
<1>4. /\ c \in Seq(S) /\ Len(c) = n3 + 1 /\ DOMAIN c = 1..(n3 + 1)
      /\ \A i \in 1..n3 : c[i] = C[i]
      /\ c[n3 + 1] = z
  BY <1>3
<1> HIDE DEF c
<1>5. \A i : (i \in 1..n1 => i \in 1..n2 /\ i \in 1..n3) /\ (i \in (n1 + 1)..n2 => i \in 1..n2 /\ i \in 1..n3)
             /\ (i \in (n2 + 1)..n3 => i \in 1..n3)
  BY <1>1, <1>3
<1>6. /\ \A i \in 1..n1 : c[i] = A[i]
      /\ \A i \in (n1 + 1)..n2 : c[i] = D[i - n1] /\ i - n1 \in 1..Len(D)
      /\ \A i \in (n2 + 1)..n3 : c[i] = G[i - n2] /\ i - n2 \in 1..Len(G)
  BY <1>1, <1>3, <1>4, <1>5
<1> QED
  <2>1. Pieces(c, A, D, G, z, n1, n2, n3)
    BY <1>1, <1>3, <1>4, <1>6 DEF Pieces
  <2> QED
    BY <1>2, <1>4, <2>1 DEF c

\* The calls that an update from the upstreams old to the upstreams new makes.
UpdateCalls(new, old) ==
    Call("allocate", Without(new, old)) \o Call("release", Without(old, new)) \o Call("get", new)
    \o <<[op |-> "store"]>>

\* New addresses are allocated, old ones released, then all are looked up.
LEMMA NewCalls ==
    ASSUME NEW new \in Seq(Addr), NEW old \in Seq(Addr)
    PROVE  LET c == UpdateCalls(new, old) IN
           /\ c \in Seq(Calls) /\ c # <<>>
           /\ \A i \in DOMAIN c :
                 /\ c[i].op = "allocate" => c[i].addr \in ToSet(new) \ ToSet(old)
                 /\ c[i].op = "release" => c[i].addr \in ToSet(old) \ ToSet(new)
                 /\ c[i].op = "get" => c[i].addr \in ToSet(new)
                 /\ c[i].op = "store" <=> i = Len(c)
           /\ \A i, j \in DOMAIN c : i < j /\ c[j].op \in Changing =>
                 /\ c[i].op \in Changing
                 /\ c[i] = c[j] => c[i].addr \in Doubles(new) \cup Doubles(old)
           /\ \A a \in ToSet(new) \ ToSet(old) : \E i \in DOMAIN c : c[i].op = "allocate" /\ c[i].addr = a
           /\ \A a \in ToSet(old) \ ToSet(new) : \E i \in DOMAIN c : c[i].op = "release" /\ c[i].addr = a
           /\ \A a \in ToSet(new) : \E i \in DOMAIN c : c[i].op = "get" /\ c[i].addr = a
<1> DEFINE c == UpdateCalls(new, old)
           add == Without(new, old)
           del == Without(old, new)
           A == Call("allocate", add)
           D == Call("release", del)
           G == Call("get", new)
           Z == <<[op |-> "store"]>>
<1>1. /\ add \in Seq(Addr) /\ ToSet(add) = ToSet(new) \ ToSet(old) /\ Doubles(add) \subseteq Doubles(new)
      /\ del \in Seq(Addr) /\ ToSet(del) = ToSet(old) \ ToSet(new) /\ Doubles(del) \subseteq Doubles(old)
  BY WithoutIs
<1>5. c = A \o D \o G \o Z
  BY DEF UpdateCalls
<1> HIDE DEF c, add, del
<1>2. ASSUME NEW l \in Seq(Addr), NEW o \in {"allocate", "release", "get"}
      PROVE  /\ Call(o, l) \in Seq(Calls) /\ Len(Call(o, l)) = Len(l)
             /\ \A i \in 1..Len(l) : Call(o, l)[i].op = o /\ Call(o, l)[i].addr = l[i]
  <2>1. DOMAIN l = 1..Len(l) /\ Len(l) \in Nat /\ \A i \in 1..Len(l) : l[i] \in Addr
    OBVIOUS
  <2>2. Call(o, l) = [i \in 1..Len(l) |-> [op |-> o, addr |-> l[i]]]
    BY <2>1 DEF Call
  <2>3. \A i \in 1..Len(l) : [op |-> o, addr |-> l[i]] \in Calls
    BY <2>1 DEF Calls
  <2> QED
    BY <2>1, <2>2, <2>3
<1>3. /\ A \in Seq(Calls) /\ Len(A) = Len(add) /\ Len(add) \in Nat
      /\ D \in Seq(Calls) /\ Len(D) = Len(del) /\ Len(del) \in Nat
      /\ G \in Seq(Calls) /\ Len(G) = Len(new) /\ Len(new) \in Nat
      /\ [op |-> "store"] \in Calls
  BY <1>1, <1>2 DEF Calls
<1>4. /\ \A i \in 1..Len(add) : A[i].op = "allocate" /\ A[i].addr = add[i]
      /\ \A i \in 1..Len(del) : D[i].op = "release" /\ D[i].addr = del[i]
      /\ \A i \in 1..Len(new) : G[i].op = "get" /\ G[i].addr = new[i]
  BY <1>1, <1>2
<1> DEFINE n1 == Len(add)
           n2 == n1 + Len(del)
           n3 == n2 + Len(new)
<1> HIDE DEF A, D, G, Z
<1>6. /\ c \in Seq(Calls) /\ Len(c) = n3 + 1 /\ DOMAIN c = 1..(n3 + 1)
      /\ n1 \in Nat /\ n2 \in Nat /\ n3 \in Nat /\ n1 <= n2 /\ n2 <= n3
      /\ \A i \in 1..n1 : c[i] = A[i]
      /\ \A i \in (n1 + 1)..n2 : c[i] = D[i - n1] /\ i - n1 \in 1..Len(D)
      /\ \A i \in (n2 + 1)..n3 : c[i] = G[i - n2] /\ i - n2 \in 1..Len(G)
      /\ c[n3 + 1] = [op |-> "store"]
  <2>1. c = A \o D \o G \o <<[op |-> "store"]>>
    BY <1>5 DEF Z
  <2>2. n1 = Len(A) /\ n2 = n1 + Len(D) /\ n3 = n2 + Len(G)
    BY <1>3
  <2> HIDE DEF n1, n2, n3
  <2>3. c \in Seq(Calls) /\ Pieces(c, A, D, G, [op |-> "store"], n1, n2, n3)
    BY <1>3, <2>1, <2>2, Joined
  <2> QED
    BY <2>3 DEF Pieces
<1> HIDE DEF n1, n2, n3
<1>8. /\ \A i \in (n1 + 1)..n2 : i - n1 \in 1..Len(del)
      /\ \A i \in (n2 + 1)..n3 : i - n2 \in 1..Len(new)
  BY <1>3, <1>6
<1>10. /\ \A i \in 1..n1 : c[i].op = "allocate" /\ c[i].addr = add[i]
       /\ \A i \in (n1 + 1)..n2 : c[i].op = "release" /\ c[i].addr = del[i - n1]
       /\ \A i \in (n2 + 1)..n3 : c[i].op = "get" /\ c[i].addr = new[i - n2]
       /\ c[n3 + 1].op = "store"
  <2>1. \A i \in 1..n1 : c[i].op = "allocate" /\ c[i].addr = add[i]
    BY <1>4, <1>6 DEF n1
  <2>2. ASSUME NEW i \in (n1 + 1)..n2 PROVE c[i].op = "release" /\ c[i].addr = del[i - n1]
    <3>1. c[i] = D[i - n1] /\ i - n1 \in 1..Len(del)
      BY <1>6, <1>8
    <3> QED
      BY <1>4, <3>1
  <2>3. ASSUME NEW i \in (n2 + 1)..n3 PROVE c[i].op = "get" /\ c[i].addr = new[i - n2]
    <3>1. c[i] = G[i - n2] /\ i - n2 \in 1..Len(new)
      BY <1>6, <1>8
    <3> QED
      BY <1>4, <3>1
  <2>4. c[n3 + 1].op = "store"
    BY <1>6
  <2> QED
    BY <2>1, <2>2, <2>3, <2>4
<1>11. \A i \in DOMAIN c : i \in 1..n1 \/ i \in (n1 + 1)..n2 \/ i \in (n2 + 1)..n3 \/ i = n3 + 1
  BY <1>6
<1>12. /\ \A i \in 1..n1 : add[i] \in ToSet(add)
       /\ \A i \in (n1 + 1)..n2 : del[i - n1] \in ToSet(del)
       /\ \A i \in (n2 + 1)..n3 : new[i - n2] \in ToSet(new)
  <2>1. /\ \A i \in 1..Len(add) : add[i] \in ToSet(add)
        /\ \A i \in 1..Len(del) : del[i] \in ToSet(del)
        /\ \A i \in 1..Len(new) : new[i] \in ToSet(new)
    BY <1>1, Members
  <2> QED
    BY <1>8, <2>1 DEF n1
<1>13. ASSUME NEW i \in DOMAIN c
       PROVE  /\ c[i].op = "allocate" => c[i].addr \in ToSet(new) \ ToSet(old)
              /\ c[i].op = "release" => c[i].addr \in ToSet(old) \ ToSet(new)
              /\ c[i].op = "get" => c[i].addr \in ToSet(new)
              /\ c[i].op = "store" <=> i = Len(c)
  BY <1>1, <1>6, <1>10, <1>11, <1>12
<1>14. ASSUME NEW i \in DOMAIN c, NEW j \in DOMAIN c, i < j, c[j].op \in Changing
       PROVE  c[i].op \in Changing /\ (c[i] = c[j] => c[i].addr \in Doubles(new) \cup Doubles(old))
  <2>1. j \in 1..n1 \/ j \in (n1 + 1)..n2
    BY <1>10, <1>11, <1>14 DEF Changing
  <2>2. i \in 1..n1 \/ i \in (n1 + 1)..n2
    BY <1>6, <1>14, <2>1
  <2>3. c[i].op \in Changing
    BY <1>10, <2>2 DEF Changing
  <2>4. CASE i \in 1..n1 /\ j \in 1..n1 /\ c[i] = c[j]
    <3>1. add[i] = add[j] /\ i \in 1..Len(add) /\ j \in 1..Len(add) /\ c[i].addr = add[i]
      BY <1>10, <2>4 DEF n1
    <3>2. add[i] \in Doubles(add)
      BY <1>1, <1>14, <3>1, Members
    <3> QED
      BY <1>1, <2>3, <3>1, <3>2
  <2>5. CASE i \in (n1 + 1)..n2 /\ j \in (n1 + 1)..n2 /\ c[i] = c[j]
    <3>1. del[i - n1] = del[j - n1] /\ c[i].addr = del[i - n1]
      BY <1>10, <2>5
    <3>2. i - n1 \in 1..Len(del) /\ j - n1 \in 1..Len(del) /\ i - n1 < j - n1
      BY <1>6, <1>8, <1>14, <2>5
    <3>3. del[i - n1] \in Doubles(del)
      BY <1>1, <3>1, <3>2, Members
    <3> QED
      BY <1>1, <2>3, <3>1, <3>3
  <2>6. c[i] = c[j] => (i \in 1..n1 <=> j \in 1..n1)
    BY <1>10, <2>1, <2>2
  <2> QED
    BY <2>1, <2>2, <2>3, <2>4, <2>5, <2>6
<1>15. ASSUME NEW a \in ToSet(new) \ ToSet(old)
       PROVE  \E i \in DOMAIN c : c[i].op = "allocate" /\ c[i].addr = a
  <2>1. PICK i \in 1..Len(add) : add[i] = a
    BY <1>1, Members
  <2>2. i \in DOMAIN c /\ i \in 1..n1
    BY <1>6 DEF n1
  <2> QED
    BY <1>10, <2>1, <2>2
<1>16. ASSUME NEW a \in ToSet(old) \ ToSet(new)
       PROVE  \E i \in DOMAIN c : c[i].op = "release" /\ c[i].addr = a
  <2>1. PICK i \in 1..Len(del) : del[i] = a
    BY <1>1, Members
  <2>2. n1 + i \in DOMAIN c /\ n1 + i \in (n1 + 1)..n2 /\ (n1 + i) - n1 = i
    BY <1>3, <1>6 DEF n2
  <2> QED
    BY <1>10, <2>1, <2>2
<1>17. ASSUME NEW a \in ToSet(new)
       PROVE  \E i \in DOMAIN c : c[i].op = "get" /\ c[i].addr = a
  <2>1. PICK i \in 1..Len(new) : new[i] = a
    BY Members
  <2>2. n2 + i \in DOMAIN c /\ n2 + i \in (n2 + 1)..n3 /\ (n2 + i) - n2 = i
    BY <1>3, <1>6 DEF n3
  <2> QED
    BY <1>10, <2>1, <2>2
<1>18. c # <<>>
  BY <1>6
<1> QED
  BY <1>6, <1>13, <1>14, <1>15, <1>16, <1>17, <1>18 DEF c

----------------------------------------------------------------------------
\* The head and the tail of a list.
LEMMA HeadTail ==
    ASSUME NEW S, NEW c \in Seq(S), c # <<>>
    PROVE  /\ Len(c) \in Nat \ {0} /\ DOMAIN c = 1..Len(c) /\ Head(c) = c[1] /\ c[1] \in S
           /\ Tail(c) \in Seq(S) /\ Len(Tail(c)) = Len(c) - 1 /\ DOMAIN Tail(c) = 1..(Len(c) - 1)
           /\ \A i \in 1..(Len(c) - 1) : Tail(c)[i] = c[i + 1]
           /\ Tail(c) = <<>> <=> Len(c) = 1
<1>1. /\ Len(c) \in Nat \ {0} /\ DOMAIN c = 1..Len(c) /\ Head(c) = c[1] /\ c[1] \in S
      /\ Tail(c) \in Seq(S) /\ Len(Tail(c)) = Len(c) - 1 /\ DOMAIN Tail(c) = 1..(Len(c) - 1)
  OBVIOUS
<1>2. \A i \in 1..(Len(c) - 1) : Tail(c)[i] = c[i + 1]
  OBVIOUS
<1>3. Tail(c) = <<>> <=> Len(c) = 1
  <2>1. ASSUME NEW d \in Seq(S) PROVE d = <<>> <=> Len(d) = 0
    OBVIOUS
  <2>2. Tail(c) = <<>> <=> Len(Tail(c)) = 0
    BY <1>1, <2>1
  <2> QED
    BY <1>1, <2>2
<1> QED
  BY <1>1, <1>2, <1>3

\* A balancer makes its next call.
LEMMA PopIs ==
    ASSUME Balancers, NEW b \in Balancer, NEW op, Pop(b, op)
    PROVE  /\ Len(calls[b]) \in Nat \ {0} /\ DOMAIN calls[b] = 1..Len(calls[b])
           /\ Head(calls[b]) = calls[b][1] /\ calls[b][1].op = op /\ calls[b][1] \in Calls
           /\ calls' \in [Balancer -> Seq(Calls)] /\ \A x \in Balancer \ {b} : calls'[x] = calls[x]
           /\ DOMAIN calls'[b] = 1..(Len(calls[b]) - 1) /\ Len(calls'[b]) = Len(calls[b]) - 1
           /\ \A i \in 1..(Len(calls[b]) - 1) : calls'[b][i] = calls[b][i + 1]
           /\ calls'[b] = <<>> <=> op = "store"
<1>1. calls \in [Balancer -> Seq(Calls)] /\ calls[b] \in Seq(Calls) /\ calls[b] # <<>>
      /\ Head(calls[b]).op = op /\ calls' = [calls EXCEPT ![b] = Tail(calls[b])]
  BY DEF Balancers, Pop
<1> DEFINE c == calls[b]
<1>2. /\ Len(c) \in Nat \ {0} /\ DOMAIN c = 1..Len(c) /\ Head(c) = c[1] /\ c[1] \in Calls
      /\ Tail(c) \in Seq(Calls) /\ Len(Tail(c)) = Len(c) - 1 /\ DOMAIN Tail(c) = 1..(Len(c) - 1)
      /\ \A i \in 1..(Len(c) - 1) : Tail(c)[i] = c[i + 1]
      /\ Tail(c) = <<>> <=> Len(c) = 1
  BY <1>1, HeadTail
<1>3. calls'[b] = Tail(c) /\ \A x \in Balancer \ {b} : calls'[x] = calls[x]
  BY <1>1
<1>4. calls' \in [Balancer -> Seq(Calls)]
  BY <1>1, <1>2
<1>5. op = "store" <=> Len(c) = 1
  BY <1>1, <1>2 DEF Balancers, CallsOK
<1> QED
  BY <1>1, <1>2, <1>3, <1>4, <1>5

\* What it has still to do remains in order.
LEMMA PopCallsOK ==
    ASSUME Balancers, NEW b \in Balancer, NEW op, Pop(b, op), op # "store", UNCHANGED upstreams
    PROVE  \A x \in Balancer : CallsOK(x)'
<1>1. UNCHANGED <<target, twice, upstreams>>
  BY DEF Pop
<1>2. ASSUME NEW x \in Balancer \ {b} PROVE CallsOK(x)'
  <2>1. calls'[x] = calls[x] /\ CallsOK(x)
    BY PopIs DEF Balancers
  <2> QED
    BY <1>1, <2>1 DEF CallsOK
<1>3. CallsOK(b)'
  <2> DEFINE n == Len(calls[b])
  <2>1. /\ n \in Nat \ {0} /\ DOMAIN calls[b] = 1..n /\ DOMAIN calls'[b] = 1..(n - 1)
        /\ Len(calls'[b]) = n - 1 /\ \A i \in 1..(n - 1) : calls'[b][i] = calls[b][i + 1]
    BY PopIs
  <2> HIDE DEF n
  <2>2. \A i \in 1..(n - 1) : i + 1 \in 1..n
    BY <2>1
  <2>3. CallsOK(b) /\ Len(calls[b]) = n
    BY DEF Balancers, n
  <2>4. Doubles(upstreams'[b]) \subseteq twice' /\ Doubles(target'[b]) \subseteq twice'
    BY <1>1, <2>3 DEF CallsOK
  <2>5. ASSUME NEW i \in 1..(n - 1)
        PROVE  LET c == calls'[b][i] IN
               /\ c.op = "allocate" => c.addr \in ToSet(target'[b]) \ ToSet(upstreams'[b])
               /\ c.op = "release" => c.addr \in ToSet(upstreams'[b]) \ ToSet(target'[b])
               /\ c.op = "get" => c.addr \in ToSet(target'[b])
               /\ c.op = "store" <=> i = Len(calls'[b])
    <3>1. i + 1 = n <=> i = n - 1
      BY <2>1
    <3>2. i + 1 \in DOMAIN calls[b] /\ calls'[b][i] = calls[b][i + 1]
      BY <2>1, <2>2
    <3> QED
      BY <1>1, <2>1, <2>3, <3>1, <3>2 DEF CallsOK
  <2>6. ASSUME NEW i \in 1..(n - 1), NEW j \in 1..(n - 1), i < j, calls'[b][j].op \in Changing
        PROVE  calls'[b][i].op \in Changing /\ (calls'[b][i] = calls'[b][j] => calls'[b][i].addr \in twice')
    <3>1. i + 1 \in DOMAIN calls[b] /\ j + 1 \in DOMAIN calls[b] /\ i + 1 < j + 1
          /\ calls'[b][i] = calls[b][i + 1] /\ calls'[b][j] = calls[b][j + 1]
      BY <2>1, <2>2, <2>6
    <3> QED
      BY <1>1, <2>3, <2>6, <3>1 DEF CallsOK
  <2> QED
    BY <2>1, <2>4, <2>5, <2>6 DEF CallsOK
<1> QED
  BY <1>2, <1>3

\* Pending calls other than that one stay; that one is not pending any more, unless
\* it was twice in a list.
LEMMA PopPending ==
    ASSUME Balancers, NEW b \in Balancer, NEW op, Pop(b, op), NEW a, a = calls[b][1].addr
    PROVE  /\ \A x \in Balancer, o \in Changing, e \in Addr :
                 x # b \/ o # op \/ e # a => (Pending(x, o, e)' <=> Pending(x, o, e))
           /\ op \in Changing => Pending(b, op, a) /\ (a \notin twice => ~Pending(b, op, a)')
<1> DEFINE n == Len(calls[b])
<1>1. /\ n \in Nat \ {0} /\ DOMAIN calls[b] = 1..n /\ DOMAIN calls'[b] = 1..(n - 1)
      /\ \A i \in 1..(n - 1) : calls'[b][i] = calls[b][i + 1]
      /\ calls[b][1].op = op /\ \A x \in Balancer \ {b} : calls'[x] = calls[x]
  BY PopIs
<1> HIDE DEF n
<1>2. /\ \A i \in 1..(n - 1) : i + 1 \in 1..n /\ 1 < i + 1
      /\ \A i \in 1..n : i = 1 \/ (i - 1 \in 1..(n - 1) /\ (i - 1) + 1 = i)
      /\ 1 \in 1..n
  BY <1>1
<1>3. ASSUME NEW x \in Balancer, NEW o \in Changing, NEW e \in Addr,
             x # b \/ o # op \/ e # a
      PROVE  Pending(x, o, e)' <=> Pending(x, o, e)
  <2>1. CASE x # b
    BY <1>1, <2>1 DEF Pending
  <2>2. CASE x = b
    <3>1. ASSUME Pending(b, o, e)' PROVE Pending(b, o, e)
      <4>1. PICK i \in 1..(n - 1) : calls'[b][i].op = o /\ calls'[b][i].addr = e
        BY <1>1, <3>1 DEF Pending
      <4> QED
        BY <1>1, <1>2, <4>1 DEF Pending
    <3>2. ASSUME Pending(b, o, e) PROVE Pending(b, o, e)'
      <4>1. PICK i \in 1..n : calls[b][i].op = o /\ calls[b][i].addr = e
        BY <1>1, <3>2 DEF Pending
      <4>2. i - 1 \in 1..(n - 1) /\ calls'[b][i - 1] = calls[b][i]
        BY <1>1, <1>2, <1>3, <2>2, <4>1
      <4> QED
        BY <1>1, <4>1, <4>2 DEF Pending
    <3> QED
      BY <2>2, <3>1, <3>2
  <2> QED
    BY <2>1, <2>2
<1>4. Pending(b, op, a)
  BY <1>1, <1>2 DEF Pending
<1>5. ASSUME op \in Changing, a \notin twice, Pending(b, op, a)' PROVE FALSE
  <2>1. PICK i \in 1..(n - 1) : calls'[b][i].op = op /\ calls'[b][i].addr = a
    BY <1>1, <1>5 DEF Pending
  <2>2. i + 1 \in 1..n /\ 1 < i + 1 /\ calls[b][i + 1].op = op /\ calls[b][i + 1].addr = a
    BY <1>1, <1>2, <2>1
  <2>3. calls[b][i + 1] \in Calls /\ calls[b][1] \in Calls
    BY <1>1, <1>2, <2>2 DEF Balancers
  <2>4. calls[b][i + 1] = calls[b][1]
    BY <1>1, <1>5, <2>2, <2>3 DEF Calls, Changing
  <2> QED
    <3>1. \A i1, j \in DOMAIN calls[b] : i1 < j /\ calls[b][j].op \in Changing =>
             (calls[b][i1] = calls[b][j] => calls[b][i1].addr \in twice)
      BY DEF Balancers, CallsOK
    <3> QED
      BY <1>1, <1>2, <1>5, <2>2, <2>4, <3>1
<1> QED
  BY <1>3, <1>4, <1>5

----------------------------------------------------------------------------
\* When a balancer looks up fwmarks it has made all its allocations and releases.
LEMMA NoPending ==
    ASSUME Balancers, NEW b \in Balancer, calls[b] # <<>>, calls[b][1].op \notin Changing
    PROVE  \A o \in Changing : \A e : ~Pending(b, o, e)
<1> SUFFICES ASSUME NEW o \in Changing, NEW e, Pending(b, o, e) PROVE FALSE
  OBVIOUS
<1>1. calls[b] \in Seq(Calls)
  BY DEF Balancers
<1>2. DOMAIN calls[b] = 1..Len(calls[b]) /\ Len(calls[b]) \in Nat \ {0}
  BY <1>1, HeadTail
<1>3. PICK i \in DOMAIN calls[b] : calls[b][i].op = o
  BY DEF Pending
<1>4. i # 1 /\ 1 < i /\ 1 \in DOMAIN calls[b]
  BY <1>2, <1>3
<1>5. calls[b][1].op \in Changing
  BY <1>3, <1>4 DEF Balancers, CallsOK
<1> QED
  BY <1>5

\* A call that looks an address up stays pending until it is made.
LEMMA PopGet ==
    ASSUME Balancers, NEW b \in Balancer, NEW op, Pop(b, op), NEW a, a = calls[b][1].addr
    PROVE  \A e : Pending(b, "get", e) => Pending(b, "get", e)' \/ (op = "get" /\ e = a)
<1>1. /\ DOMAIN calls[b] = 1..Len(calls[b]) /\ Len(calls[b]) \in Nat \ {0} /\ calls[b][1].op = op
      /\ DOMAIN calls'[b] = 1..(Len(calls[b]) - 1)
      /\ \A i \in 1..(Len(calls[b]) - 1) : calls'[b][i] = calls[b][i + 1]
  BY PopIs
<1>2. ASSUME NEW e, NEW i \in DOMAIN calls[b], calls[b][i].op = "get", calls[b][i].addr = e
      PROVE  Pending(b, "get", e)' \/ (op = "get" /\ e = a)
  <2>1. CASE i = 1
    BY <1>1, <1>2, <2>1
  <2>2. CASE i # 1
    <3>1. i - 1 \in DOMAIN calls'[b] /\ i - 1 \in 1..(Len(calls[b]) - 1) /\ (i - 1) + 1 = i
      BY <1>1, <2>2
    <3>2. calls'[b][i - 1] = calls[b][i]
      BY <1>1, <3>1
    <3> QED
      BY <1>2, <3>1, <3>2 DEF Pending
  <2> QED
    BY <2>1, <2>2
<1> QED
  BY <1>2 DEF Pending

\* Allocate takes a reference, Release gives one back, nothing else does.
LEMMA PopHolds ==
    ASSUME Balancers, NEW b \in Balancer, NEW op, Pop(b, op), op # "store", UNCHANGED upstreams,
           NEW a, a = calls[b][1].addr
    PROVE  /\ \A x \in Balancer, e \in Addr :
                 x # b \/ e # a \/ op \notin Changing => (Holds(x, e)' <=> Holds(x, e))
           /\ op = "allocate" => ~Holds(b, a) /\ (a \notin twice => Holds(b, a)')
           /\ op = "release" => Holds(b, a) /\ (a \notin twice => ~Holds(b, a)')
<1>1. UNCHANGED <<target, upstreams>>
  BY DEF Pop
<1>2. /\ \A x \in Balancer, o \in Changing, e \in Addr :
            x # b \/ o # op \/ e # a => (Pending(x, o, e)' <=> Pending(x, o, e))
      /\ op \in Changing => Pending(b, op, a) /\ (a \notin twice => ~Pending(b, op, a)')
  BY PopPending
<1>3. calls[b] # <<>> /\ calls'[b] # <<>> /\ calls[b][1].op = op
      /\ \A x \in Balancer \ {b} : calls'[x] = calls[x]
  BY PopIs DEF Pop
<1>4. ASSUME NEW x \in Balancer, NEW e \in Addr, x # b \/ e # a \/ op \notin Changing
      PROVE  Holds(x, e)' <=> Holds(x, e)
  <2>1. \A o \in Changing : Pending(x, o, e)' <=> Pending(x, o, e)
    BY <1>2, <1>4
  <2>2. calls'[x] = <<>> <=> calls[x] = <<>>
    BY <1>3
  <2> QED
    BY <1>1, <2>1, <2>2 DEF Holds, Changing
<1>5. CallsOK(b) /\ 1 \in DOMAIN calls[b]
  BY PopIs DEF Balancers
<1>6. CASE op = "allocate"
  <2>1. a \in ToSet(target[b]) \ ToSet(upstreams[b])
    BY <1>3, <1>5, <1>6 DEF CallsOK
  <2> QED
    BY <1>1, <1>2, <1>3, <1>4, <1>6, <2>1 DEF Holds, Changing
<1>7. CASE op = "release"
  <2>1. a \in ToSet(upstreams[b]) \ ToSet(target[b])
    BY <1>3, <1>5, <1>7 DEF CallsOK
  <2> QED
    BY <1>1, <1>2, <1>3, <1>4, <1>7, <2>1 DEF Holds, Changing
<1> QED
  BY <1>4, <1>6, <1>7

\* Storing the new state makes no difference to what is held,
LEMMA StoreHolds ==
    ASSUME TypeOK, Balancers, NEW b \in Balancer, Store(b)
    PROVE  \A x \in Balancer, e \in Addr : Holds(x, e)' <=> Holds(x, e)
<1> SUFFICES ASSUME NEW x \in Balancer, NEW e \in Addr PROVE Holds(x, e)' <=> Holds(x, e)
  OBVIOUS
<1>1. calls[b] # <<>> /\ calls'[b] = <<>> /\ calls[b][1].op = "store"
      /\ \A y \in Balancer \ {b} : calls'[y] = calls[y]
  BY PopIs DEF Pop, Store
<1>2. target' = target /\ upstreams' = [upstreams EXCEPT ![b] = target[b]]
  BY DEF Store, Pop
<1>3. CASE x # b
  BY <1>1, <1>2, <1>3 DEF Holds, Pending, TypeOK
<1>4. CASE x = b
  <2>1. ~Pending(b, "allocate", e) /\ ~Pending(b, "release", e)
    BY <1>1, NoPending DEF Changing
  <2>2. upstreams'[b] = target[b]
    BY <1>2 DEF TypeOK
  <2> QED
    BY <1>1, <1>4, <2>1, <2>2 DEF Holds
<1> QED
  BY <1>3, <1>4

\* nor does starting an update, which is to look every address up.
LEMMA StartHolds ==
    ASSUME TypeOK, Balancers, NEW b \in Balancer, NEW list \in Seq(Addr), UpdateState(b, list)
    PROVE  /\ \A x \in Balancer, e \in Addr : Holds(x, e)' <=> Holds(x, e)
           /\ calls' \in [Balancer -> Seq(Calls)] /\ \A x \in Balancer : CallsOK(x)'
           /\ \A a \in ToSet(list) : Pending(b, "get", a)'
<1> DEFINE c == UpdateCalls(list, upstreams[b])
<1>1. upstreams[b] \in Seq(Addr)
  BY DEF TypeOK
<1>2. /\ c \in Seq(Calls) /\ c # <<>>
      /\ \A i \in DOMAIN c :
            /\ c[i].op = "allocate" => c[i].addr \in ToSet(list) \ ToSet(upstreams[b])
            /\ c[i].op = "release" => c[i].addr \in ToSet(upstreams[b]) \ ToSet(list)
            /\ c[i].op = "get" => c[i].addr \in ToSet(list)
            /\ c[i].op = "store" <=> i = Len(c)
      /\ \A i, j \in DOMAIN c : i < j /\ c[j].op \in Changing =>
            /\ c[i].op \in Changing
            /\ c[i] = c[j] => c[i].addr \in Doubles(list) \cup Doubles(upstreams[b])
      /\ \A a \in ToSet(list) \ ToSet(upstreams[b]) : \E i \in DOMAIN c : c[i].op = "allocate" /\ c[i].addr = a
      /\ \A a \in ToSet(upstreams[b]) \ ToSet(list) : \E i \in DOMAIN c : c[i].op = "release" /\ c[i].addr = a
      /\ \A a \in ToSet(list) : \E i \in DOMAIN c : c[i].op = "get" /\ c[i].addr = a
  BY <1>1, NewCalls
<1>3. /\ calls[b] = <<>> /\ calls' = [calls EXCEPT ![b] = c] /\ target' = [target EXCEPT ![b] = list]
      /\ twice' = twice \cup Doubles(list) /\ upstreams' = upstreams
  BY DEF UpdateState, UpdateCalls, storedVars
<1> HIDE DEF c
<1>4. /\ calls'[b] = c /\ target'[b] = list
      /\ \A x \in Balancer \ {b} : calls'[x] = calls[x] /\ target'[x] = target[x]
      /\ calls' \in [Balancer -> Seq(Calls)]
  BY <1>2, <1>3 DEF TypeOK, Balancers
<1>5. ASSUME NEW x \in Balancer, NEW e \in Addr PROVE Holds(x, e)' <=> Holds(x, e)
  <2>1. CASE x # b
    BY <1>3, <1>4, <2>1 DEF Holds, Pending
  <2>2. CASE x = b
    <3>1. e \in ToSet(list) \ ToSet(upstreams[b]) => Pending(b, "allocate", e)'
      BY <1>2, <1>4 DEF Pending
    <3>2. e \in ToSet(upstreams[b]) \ ToSet(list) => Pending(b, "release", e)'
      BY <1>2, <1>4 DEF Pending
    <3> QED
      BY <1>2, <1>3, <1>4, <2>2, <3>1, <3>2 DEF Holds
  <2> QED
    BY <2>1, <2>2
<1>6. ASSUME NEW x \in Balancer PROVE CallsOK(x)'
  <2>0. CallsOK(x)
    BY DEF Balancers
  <2>1. CASE x # b
    BY <1>3, <1>4, <2>0, <2>1 DEF CallsOK
  <2>2. CASE x = b
    <3>1. Doubles(upstreams[b]) \subseteq twice
      BY <2>0, <2>2 DEF CallsOK
    <3> QED
      BY <1>2, <1>3, <1>4, <2>2, <3>1 DEF CallsOK
  <2> QED
    BY <2>1, <2>2
<1>7. ASSUME NEW a \in ToSet(list) PROVE Pending(b, "get", a)'
  BY <1>2, <1>4 DEF Pending
<1> QED
  BY <1>4, <1>5, <1>6, <1>7

----------------------------------------------------------------------------
\* There are finitely many holders.
LEMMA HoldersFinite ==
    ASSUME NEW H, H \subseteq Balancer
    PROVE  IsFiniteSet(H) /\ Cardinality(H) \in Nat
BY FwmarkAssumption, FS_Subset, FS_CardinalityType

\* The count is kept by a step that leaves the manager and the references alone.
LEMMA CountedSame ==
    ASSUME Counted, UNCHANGED <<mngVars, refused, left>>, twice \subseteq twice',
           \A x \in Balancer, e \in Addr : Holds(x, e)' <=> Holds(x, e)
    PROVE  Counted'
<1>1. \A e \in Addr : Holders(e)' = Holders(e)
  BY DEF Holders
<1>2. \A e : Count(e)' = Count(e)
  BY DEF Count, mngVars
<1> QED
  BY <1>1, <1>2 DEF Counted

\* What AllocateFwmark and ReleaseFwmark do to the count of an address.
LEMMA CountStep ==
    ASSUME ManagerOK, NEW a
    PROVE  /\ \A e : Count(e) \in Nat /\ (e \in DOMAIN allocated <=> Count(e) # 0)
           /\ AllocateFwmark(a) => Count(a)' = Count(a) + 1 /\ \A e : e # a => Count(e)' = Count(e)
           /\ ReleaseFwmark(a) => /\ Count(a)' = IF Count(a) = 0 THEN 0 ELSE Count(a) - 1
                                  /\ \A e : e # a => Count(e)' = Count(e)
<1>1. \A e \in DOMAIN allocated : allocated[e].refcount \in Nat \ {0}
  BY DEF ManagerOK
<1>2. \A e : Count(e) \in Nat /\ (e \in DOMAIN allocated <=> Count(e) # 0)
  BY <1>1 DEF Count
<1>3. ASSUME AllocateFwmark(a) PROVE Count(a)' = Count(a) + 1 /\ \A e : e # a => Count(e)' = Count(e)
  <2>1. CASE a \in DOMAIN allocated /\ allocated' = [allocated EXCEPT ![a].refcount = @ + 1]
    <3>1. DOMAIN allocated' = DOMAIN allocated /\ allocated'[a].refcount = allocated[a].refcount + 1
          /\ \A e \in DOMAIN allocated : e # a => allocated'[e] = allocated[e]
      BY <2>1 DEF ManagerOK
    <3> QED
      BY <1>1, <2>1, <3>1 DEF Count
  <2>2. CASE a \notin DOMAIN allocated
    <3>1. DOMAIN allocated' = DOMAIN allocated \cup {a} /\ allocated'[a].refcount = 1
          /\ \A e \in DOMAIN allocated : allocated'[e] = allocated[e]
      BY <1>3, <2>2 DEF AllocateFwmark
    <3> QED
      BY <2>2, <3>1 DEF Count
  <2> QED
    BY <1>3, <2>1, <2>2 DEF AllocateFwmark
<1>4. ASSUME ReleaseFwmark(a)
      PROVE  /\ Count(a)' = IF Count(a) = 0 THEN 0 ELSE Count(a) - 1
             /\ \A e : e # a => Count(e)' = Count(e)
  <2>1. CASE a \in DOMAIN allocated /\ allocated' = [allocated EXCEPT ![a].refcount = @ - 1]
    <3>1. DOMAIN allocated' = DOMAIN allocated /\ allocated'[a].refcount = allocated[a].refcount - 1
          /\ \A e \in DOMAIN allocated : e # a => allocated'[e] = allocated[e]
      BY <2>1 DEF ManagerOK
    <3> QED
      BY <1>1, <2>1, <3>1 DEF Count
  <2>2. CASE /\ a \in DOMAIN allocated /\ allocated[a].refcount = 1
             /\ allocated' = [x \in DOMAIN allocated \ {a} |-> allocated[x]]
    BY <1>1, <2>2 DEF Count
  <2>3. CASE a \notin DOMAIN allocated /\ UNCHANGED mngVars
    BY <2>3 DEF Count, mngVars
  <2> QED
    BY <1>4, <2>1, <2>2, <2>3 DEF ReleaseFwmark
<1> QED
  BY <1>2, <1>3, <1>4

\* Every step keeps the count.
LEMMA CountedStep ==
    ASSUME TypeOK, IInv, Balancers, Counted, NEW b \in Balancer, Step(b)
    PROVE  Counted'
<1> PICK a : a = calls[b][1].addr
  OBVIOUS
<1>0. /\ \A e : Count(e) \in Nat
      /\ \A e : IsFiniteSet(Holders(e)) /\ Cardinality(Holders(e)) \in Nat
      /\ \A e : IsFiniteSet(Holders(e)') /\ Cardinality(Holders(e)') \in Nat
  BY CountStep, HoldersFinite DEF Holders, IInv
<1>1. ASSUME NEW op, Pop(b, op), op \in Changing, UNCHANGED upstreams, refused \subseteq refused',
             \A e : e # a => Count(e)' = Count(e),
             a \in Addr \ twice =>
                /\ a \notin refused' => Cardinality(Holders(a)') <= Count(a)'
                /\ a \notin left => Count(a)' <= Cardinality(Holders(a)')
      PROVE  Counted'
  <2>1. \A x \in Balancer, e \in Addr : x # b \/ e # a => (Holds(x, e)' <=> Holds(x, e))
    BY <1>1, PopHolds DEF Changing
  <2>2. \A e \in Addr : e # a => Holders(e)' = Holders(e)
    BY <2>1 DEF Holders
  <2>3. UNCHANGED <<twice, left>>
    BY <1>1 DEF Pop
  <2> QED
    BY <1>1, <2>2, <2>3 DEF Counted
<1>2. ASSUME NEW op, Pop(b, op), op \in Changing, UNCHANGED upstreams
      PROVE  /\ Head(calls[b]) = calls[b][1] /\ a \in Addr
             /\ op = "allocate" /\ a \notin twice =>
                   Cardinality(Holders(a)') = Cardinality(Holders(a)) + 1
             /\ op = "release" /\ a \notin twice =>
                   Cardinality(Holders(a)') = Cardinality(Holders(a)) - 1 /\ Cardinality(Holders(a)) # 0
  <2>1. Head(calls[b]) = calls[b][1] /\ calls[b][1] \in Calls /\ calls[b][1].op = op
    BY <1>2, PopIs
  <2>2. a \in Addr
    BY <1>2, <2>1 DEF Calls, Changing
  <2>3. /\ \A x \in Balancer \ {b} : Holds(x, a)' <=> Holds(x, a)
        /\ op = "allocate" => ~Holds(b, a) /\ (a \notin twice => Holds(b, a)')
        /\ op = "release" => Holds(b, a) /\ (a \notin twice => ~Holds(b, a)')
    BY <1>2, <2>2, PopHolds DEF Changing
  <2>4. CASE op = "allocate" /\ a \notin twice
    <3>1. Holders(a)' = Holders(a) \cup {b} /\ b \notin Holders(a)
      BY <2>3, <2>4 DEF Holders
    <3> QED
      BY <1>0, <2>1, <2>2, <2>4, <3>1, FS_AddElement
  <2>5. CASE op = "release" /\ a \notin twice
    <3>1. Holders(a)' = Holders(a) \ {b} /\ b \in Holders(a)
      BY <2>3, <2>5 DEF Holders
    <3>2. Cardinality(Holders(a)') = Cardinality(Holders(a)) - 1
      <4>1. IsFiniteSet(Holders(a))
        BY <1>0
      <4>2. Cardinality(Holders(a) \ {b}) = Cardinality(Holders(a)) - 1
        BY <3>1, <4>1, FS_RemoveElement, Zenon
      <4> QED
        BY <3>1, <4>2
    <3>3. Cardinality(Holders(a)) # 0
      BY <1>0, <3>1, FS_EmptySet
    <3> QED
      BY <2>1, <2>2, <2>5, <3>2, <3>3
  <2> QED
    BY <2>1, <2>2, <2>4, <2>5
<1>3. CASE Allocate(b)
  <2>1. Pop(b, "allocate") /\ "allocate" \in Changing /\ UNCHANGED <<upstreams, refused>>
        /\ AllocateFwmark(Head(calls[b]).addr)
    BY <1>3 DEF Allocate, storedVars, Changing
  <2>2. AllocateFwmark(a) /\ a \in Addr
        /\ (a \notin twice => Cardinality(Holders(a)') = Cardinality(Holders(a)) + 1)
    BY <1>2, <2>1
  <2>3. Count(a)' = Count(a) + 1 /\ \A e : e # a => Count(e)' = Count(e)
    BY <2>2, CountStep DEF IInv
  <2>4. a \in Addr \ twice => /\ a \notin refused' => Cardinality(Holders(a)') <= Count(a)'
                              /\ a \notin left => Count(a)' <= Cardinality(Holders(a)')
    BY <1>0, <2>1, <2>2, <2>3 DEF Counted
  <2> QED
    BY <1>1, <2>1, <2>3, <2>4
<1>4. CASE AllocateError(b)
  <2>1. Pop(b, "allocate") /\ "allocate" \in Changing /\ UNCHANGED <<upstreams, mngVars>>
        /\ refused' = refused \cup {Head(calls[b]).addr}
    BY <1>4 DEF AllocateError, AllocateFails, storedVars, Changing
  <2>2. a \in Addr /\ refused' = refused \cup {a}
        /\ (a \notin twice => Cardinality(Holders(a)') = Cardinality(Holders(a)) + 1)
    BY <1>2, <2>1
  <2>3. \A e : Count(e)' = Count(e)
    BY <2>1 DEF Count, mngVars
  <2>4. a \in Addr \ twice => /\ a \notin refused' => Cardinality(Holders(a)') <= Count(a)'
                              /\ a \notin left => Count(a)' <= Cardinality(Holders(a)')
    BY <1>0, <2>2, <2>3 DEF Counted
  <2> QED
    BY <1>1, <2>1, <2>2, <2>3, <2>4
<1>5. CASE Release(b)
  <2>1. Pop(b, "release") /\ "release" \in Changing /\ UNCHANGED <<upstreams, refused>>
        /\ ReleaseFwmark(Head(calls[b]).addr)
    BY <1>5 DEF Release, storedVars, Changing
  <2>2. ReleaseFwmark(a) /\ a \in Addr
        /\ (a \notin twice =>
              Cardinality(Holders(a)') = Cardinality(Holders(a)) - 1 /\ Cardinality(Holders(a)) # 0)
    BY <1>2, <2>1
  <2>3. Count(a)' = (IF Count(a) = 0 THEN 0 ELSE Count(a) - 1) /\ \A e : e # a => Count(e)' = Count(e)
    BY <2>2, CountStep DEF IInv
  <2>4. a \in Addr \ twice => /\ a \notin refused' => Cardinality(Holders(a)') <= Count(a)'
                              /\ a \notin left => Count(a)' <= Cardinality(Holders(a)')
    BY <1>0, <2>1, <2>2, <2>3 DEF Counted
  <2> QED
    BY <1>1, <2>1, <2>3, <2>4
<1>6. CASE Generate(b)
  <2>1. Pop(b, "get") /\ "get" \notin Changing /\ UNCHANGED <<mngVars, upstreams, refused>>
    BY <1>6 DEF Generate, storedVars, Changing
  <2>2. \A x \in Balancer, e \in Addr : Holds(x, e)' <=> Holds(x, e)
    BY <2>1, PopHolds
  <2> QED
    BY <2>1, <2>2, CountedSame DEF Pop
<1>7. CASE Store(b)
  BY <1>7, StoreHolds, CountedSame DEF Store, Pop
<1>8. ASSUME NEW list \in Lists, UpdateState(b, list) PROVE Counted'
  <2>1. list \in Seq(Addr)
    BY FwmarkAssumption
  <2> QED
    BY <1>8, <2>1, StartHolds, CountedSame DEF UpdateState
<1>9. CASE Close(b)
  <2>1. /\ calls[b] = <<>> /\ calls' = calls /\ target' = target /\ UNCHANGED <<mngVars, refused, twice>>
        /\ upstreams' = [upstreams EXCEPT ![b] = <<>>] /\ left' = left \cup ToSet(upstreams[b])
    BY <1>9 DEF Close, workVars
  <2>2. upstreams'[b] = <<>> /\ \A x \in Balancer \ {b} : upstreams'[x] = upstreams[x]
    BY <2>1 DEF TypeOK
  <2>3. ToSet(<<>>) = {}
    BY DEF ToSet
  <2>4. \A e : (Holds(b, e) <=> e \in ToSet(upstreams[b])) /\ ~Holds(b, e)'
    BY <2>1, <2>2, <2>3 DEF Holds
  <2>5. \A x \in Balancer \ {b}, e \in Addr : Holds(x, e)' <=> Holds(x, e)
    BY <2>1, <2>2 DEF Holds, Pending
  <2>6. \A e : Count(e)' = Count(e)
    BY <2>1 DEF Count, mngVars
  <2>7. \A e \in Addr : Holders(e)' = Holders(e) \ {b} /\ (b \in Holders(e) <=> e \in ToSet(upstreams[b]))
    BY <2>4, <2>5 DEF Holders
  <2>8. \A e \in Addr : Cardinality(Holders(e)') <= Cardinality(Holders(e))
    BY <1>0, <2>7, FS_RemoveElement
  <2>9. \A e \in Addr : e \notin left' => Holders(e)' = Holders(e)
    BY <2>1, <2>7
  <2> QED
    BY <1>0, <2>1, <2>6, <2>8, <2>9 DEF Counted
<1> QED
  BY <1>3, <1>4, <1>5, <1>6, <1>7, <1>8, <1>9 DEF Step, Work

----------------------------------------------------------------------------
\* The addresses of the services generated so far are held.
LEMMA GeneratedHeld ==
    ASSUME Balancers, NEW x \in Balancer, calls[x] # <<>>, NEW s \in generated[x]
    PROVE  Holds(x, s.addr)
<1>1. s.addr \in ToSet(target[x]) /\ calls[x][1].op \notin Changing
  BY DEF Balancers, Marks
<1>2. ~Pending(x, "allocate", s.addr)
  BY <1>1, NoPending DEF Changing
<1> QED
  BY <1>1, <1>2 DEF Holds

\* A step that changes no stored state and no reference but that of b to address a.
LEMMA MarksKept ==
    ASSUME Balancers, NEW b \in Balancer, NEW op, Pop(b, op), op \in Changing,
           UNCHANGED <<upstreams, services, generated>>, NEW a, a = calls[b][1].addr, TypeOK,
           \A x \in Balancer : \A s \in services[x] : Holds(x, s.addr) /\ Holds(x, s.addr)' /\ Marked(s) => Marked(s)',
           \A x \in Balancer \ {b} : \A s \in generated[x] : Holds(x, s.addr) /\ Holds(x, s.addr)' /\ Marked(s) => Marked(s)'
    PROVE  \A x \in Balancer : Marks(x)'
<1>1. calls[b][1].op = op /\ calls[b] # <<>> /\ \A x \in Balancer \ {b} : calls'[x] = calls[x]
  BY PopIs DEF Pop
<1>2. op \in {"allocate", "release"} /\ op # "store"
  BY DEF Changing
<1>3. /\ \A x \in Balancer, e \in Addr : x # b \/ e # a => (Holds(x, e)' <=> Holds(x, e))
      /\ op = "allocate" => ~Holds(b, a)
      /\ op = "release" => Holds(b, a)
  BY <1>2, PopHolds
<1>4. /\ \A x \in Balancer : \A s \in services[x] : s.addr \in Addr
      /\ \A x \in Balancer : \A s \in generated[x] : s.addr \in Addr
  <2>1. \A x \in Balancer : services[x] \subseteq [addr : Addr, fwmark : Fwmark]
                            /\ generated[x] \subseteq [addr : Addr, fwmark : Fwmark]
    BY DEF TypeOK
  <2> QED
    BY <2>1
<1>5. ASSUME NEW x \in Balancer, NEW s \in services[x], Holds(x, s.addr)' PROVE Marked(s)'
  <2>1. Marks(x) /\ s.addr \in ToSet(upstreams[x])
    BY DEF Balancers, Marks
  <2>2. CASE x # b \/ s.addr # a \/ op = "release"
    <3>1. Holds(x, s.addr)
      BY <1>3, <1>4, <1>5, <2>2
    <3> QED
      BY <1>5, <2>1, <3>1 DEF Marks
  <2>3. CASE x = b /\ s.addr = a /\ op = "allocate"
    <3>1. a \notin ToSet(upstreams[b])
      BY <1>1, <2>3, PopIs DEF Balancers, CallsOK
    <3> QED
      BY <2>1, <2>3, <3>1
  <2> QED
    BY <1>2, <2>2, <2>3
<1>6. ASSUME NEW x \in Balancer, calls'[x] # <<>>, NEW s \in generated[x]
      PROVE  s.addr \in ToSet(target[x]) /\ Marked(s)' /\ calls'[x][1].op \notin Changing
  <2>1. x # b
    BY <1>1 DEF Balancers, Marks
  <2>2. calls[x] # <<>> /\ calls'[x] = calls[x]
    BY <1>1, <1>6, <2>1
  <2>3. s.addr \in ToSet(target[x]) /\ Marked(s) /\ calls[x][1].op \notin Changing
    BY <2>2 DEF Balancers, Marks
  <2>4. Holds(x, s.addr) /\ Holds(x, s.addr)'
    BY <1>3, <1>4, <2>1, <2>2, GeneratedHeld
  <2> QED
    BY <2>1, <2>2, <2>3, <2>4
<1> QED
  BY <1>5, <1>6 DEF Marks, Pop, Balancers

\* Every step keeps the marks.
LEMMA MarksStep ==
    ASSUME TypeOK, IInv, Balancers, Counted, NEW b \in Balancer, Step(b)
    PROVE  \A x \in Balancer : Marks(x)'
<1> PICK a : a = calls[b][1].addr
  OBVIOUS
<1>1. CASE Allocate(b)
  <2>1. Pop(b, "allocate") /\ "allocate" \in Changing /\ UNCHANGED <<upstreams, services, generated, refused>>
        /\ AllocateFwmark(Head(calls[b]).addr)
    BY <1>1 DEF Allocate, storedVars, Changing
  <2>2. AllocateFwmark(a)
    BY <2>1, PopIs
  <2>3. ASSUME NEW s, Marked(s) PROVE Marked(s)'
    <3>1. UNCHANGED <<twice, refused>>
      BY <2>1 DEF Pop
    <3>2. \A e \in DOMAIN allocated : e \in DOMAIN allocated' /\ allocated'[e].fwmark = allocated[e].fwmark
      BY <2>2 DEF AllocateFwmark, IInv, ManagerOK
    <3> QED
      BY <2>3, <3>1, <3>2 DEF Marked, Allocated
  <2> QED
    BY <2>1, <2>3, MarksKept
<1>2. CASE AllocateError(b)
  <2>1. Pop(b, "allocate") /\ "allocate" \in Changing /\ UNCHANGED <<upstreams, services, generated, mngVars>>
        /\ refused \subseteq refused'
    BY <1>2 DEF AllocateError, AllocateFails, storedVars, Changing
  <2>2. ASSUME NEW s, Marked(s) PROVE Marked(s)'
    BY <2>1, <2>2 DEF Marked, Allocated, mngVars, Pop
  <2> QED
    BY <2>1, <2>2, MarksKept
<1>3. CASE Release(b)
  <2>1. Pop(b, "release") /\ "release" \in Changing /\ UNCHANGED <<upstreams, services, generated, refused>>
        /\ ReleaseFwmark(Head(calls[b]).addr)
    BY <1>3 DEF Release, storedVars, Changing
  <2>2. ReleaseFwmark(a)
    BY <2>1, PopIs
  <2>3. Holds(b, a) /\ (a \notin twice => ~Holds(b, a)') /\ UNCHANGED <<twice, refused>>
    BY <2>1, PopHolds DEF Pop
  <2>4. a \in Addr
    BY <2>1, PopIs DEF Calls
  <2>5. ASSUME NEW x \in Balancer, NEW s, Holds(x, s.addr), Holds(x, s.addr)', Marked(s) PROVE Marked(s)'
    <3>1. CASE s.addr \in refused \cup twice
      BY <2>3, <3>1 DEF Marked
    <3>2. CASE s.addr # a
      <4>1. \A e \in DOMAIN allocated \ {a} : e \in DOMAIN allocated' /\ allocated'[e].fwmark = allocated[e].fwmark
        BY <2>2 DEF ReleaseFwmark, mngVars
      <4> QED
        BY <2>3, <2>5, <3>2, <4>1 DEF Marked, Allocated
    <3>3. CASE s.addr = a /\ a \notin refused \cup twice
      <4>1. x # b
        BY <2>3, <2>5, <3>3
      <4>2. Count(a) # 1
        <5>1. b \in Holders(a) /\ x \in Holders(a)
          BY <2>3, <2>5, <3>3 DEF Holders
        <5>2. IsFiniteSet(Holders(a)) /\ Cardinality(Holders(a)) \in Nat
          BY HoldersFinite DEF Holders
        <5>3. Cardinality(Holders(a)) # 1
          BY <4>1, <5>1, <5>2, FS_Singleton
        <5>4. Cardinality(Holders(a)) # 0
          BY <5>1, <5>2, FS_EmptySet
        <5>5. Cardinality(Holders(a)) <= Count(a) /\ Count(a) \in Nat
          BY <2>4, <3>3, CountStep DEF Counted, IInv
        <5> QED
          BY <5>2, <5>3, <5>4, <5>5
      <4>3. a \in DOMAIN allocated /\ allocated[a].fwmark = s.fwmark
        BY <2>5, <3>3 DEF Marked, Allocated
      <4>4. allocated' = [allocated EXCEPT ![a].refcount = @ - 1]
        BY <2>2, <4>2, <4>3 DEF ReleaseFwmark, Count
      <4>5. a \in DOMAIN allocated' /\ allocated'[a].fwmark = allocated[a].fwmark
        BY <4>3, <4>4 DEF IInv, ManagerOK
      <4> QED
        BY <3>3, <4>3, <4>5 DEF Marked, Allocated
    <3> QED
      BY <3>1, <3>2, <3>3
  <2> QED
    BY <2>1, <2>5, MarksKept
<1>4. CASE Generate(b)
  <2>1. /\ Pop(b, "get") /\ "get" \notin Changing /\ UNCHANGED <<mngVars, upstreams, services, refused>>
        /\ generated' = [generated EXCEPT ![b] = @ \cup
              (IF Allocated(Head(calls[b]).addr)
               THEN {[addr |-> Head(calls[b]).addr, fwmark |-> allocated[Head(calls[b]).addr].fwmark]} ELSE {})]
    BY <1>4 DEF Generate, storedVars, Changing
  <2>2. /\ Head(calls[b]) = calls[b][1] /\ calls[b] # <<>> /\ calls[b][1].op = "get"
        /\ DOMAIN calls[b] = 1..Len(calls[b]) /\ Len(calls[b]) \in Nat \ {0}
        /\ \A x \in Balancer \ {b} : calls'[x] = calls[x]
        /\ DOMAIN calls'[b] = 1..(Len(calls[b]) - 1) /\ Len(calls'[b]) = Len(calls[b]) - 1
        /\ \A i \in 1..(Len(calls[b]) - 1) : calls'[b][i] = calls[b][i + 1]
    BY <2>1, PopIs DEF Pop
  <2>3. \A x \in Balancer, e \in Addr : Holds(x, e)' <=> Holds(x, e)
    BY <2>1, PopHolds
  <2>4. UNCHANGED <<allocated, refused, twice, target, upstreams, services>>
    BY <2>1 DEF Pop, mngVars
  <2>5. \A s : Marked(s)' <=> Marked(s)
    BY <2>4 DEF Marked, Allocated
  <2>6. a \in ToSet(target[b])
    <3>1. \A i \in DOMAIN calls[b] : calls[b][i].op = "get" => calls[b][i].addr \in ToSet(target[b])
      BY DEF Balancers, CallsOK
    <3>2. 1 \in DOMAIN calls[b]
      BY <2>2
    <3> QED
      BY <2>2, <3>1, <3>2
  <2>7. \A s \in generated'[b] : s \in generated[b] \/ (s.addr = a /\ Allocated(a) /\ s.fwmark = allocated[a].fwmark)
    BY <2>1, <2>2 DEF TypeOK
  <2>8. \A x \in Balancer \ {b} : generated'[x] = generated[x]
    BY <2>1 DEF TypeOK
  <2>9. ASSUME NEW x \in Balancer, NEW s \in services[x], Holds(x, s.addr)' PROVE Marked(s)
    <3>1. s.addr \in Addr
      <4>1. services[x] \subseteq [addr : Addr, fwmark : Fwmark]
        BY DEF TypeOK
      <4> QED
        BY <4>1
    <3> QED
      BY <2>3, <2>9, <3>1 DEF Balancers, Marks
  <2>10. ASSUME calls'[b] # <<>> PROVE calls'[b][1].op \notin Changing
    <3>1. calls'[b] \in Seq(Calls)
      BY <2>1, PopIs
    <3>2. Len(calls'[b]) # 0 /\ 2 \in DOMAIN calls[b] /\ 1 \in DOMAIN calls[b]
      BY <2>2, <2>10, <3>1, HeadTail
    <3>3. calls'[b][1] = calls[b][2]
      BY <2>2, <3>2
    <3> QED
      <4>1. \A i, j \in DOMAIN calls[b] : i < j /\ calls[b][j].op \in Changing => calls[b][i].op \in Changing
        BY DEF Balancers, CallsOK
      <4> QED
        BY <2>1, <2>2, <3>2, <3>3, <4>1
  <2>11. ASSUME NEW s \in generated'[b] PROVE s.addr \in ToSet(target[b]) /\ Marked(s)
    BY <2>2, <2>6, <2>7 DEF Balancers, Marks, Marked
  <2>12. Marks(b)'
    BY <2>4, <2>5, <2>9, <2>10, <2>11 DEF Marks, Balancers
  <2>13. ASSUME NEW x \in Balancer \ {b} PROVE Marks(x)'
    BY <2>2, <2>4, <2>5, <2>8, <2>9 DEF Marks, Balancers
  <2> QED
    BY <2>12, <2>13
<1>5. CASE Store(b)
  <2>1. /\ Pop(b, "store") /\ UNCHANGED <<mngVars, generated, refused>>
        /\ upstreams' = [upstreams EXCEPT ![b] = target[b]]
        /\ services' = [services EXCEPT ![b] = generated[b]]
    BY <1>5 DEF Store
  <2>2. UNCHANGED <<allocated, refused, twice, target>>
    BY <2>1 DEF Pop, mngVars
  <2>3. \A s : Marked(s)' <=> Marked(s)
    BY <2>2 DEF Marked, Allocated
  <2>4. calls[b] # <<>> /\ calls'[b] = <<>> /\ \A x \in Balancer \ {b} : calls'[x] = calls[x]
    BY <2>1, PopIs DEF Pop
  <2>5. upstreams'[b] = target[b] /\ services'[b] = generated[b]
        /\ \A x \in Balancer \ {b} : upstreams'[x] = upstreams[x] /\ services'[x] = services[x]
    BY <2>1 DEF TypeOK
  <2>6. Marks(b)'
    BY <2>3, <2>4, <2>5 DEF Marks, Balancers
  <2>7. ASSUME NEW x \in Balancer \ {b} PROVE Marks(x)'
    <3>1. \A e : Holds(x, e)' <=> Holds(x, e)
      BY <2>2, <2>4, <2>5 DEF Holds, Pending
    <3> QED
      BY <2>1, <2>2, <2>3, <2>4, <2>5, <3>1 DEF Marks, Balancers
  <2> QED
    BY <2>6, <2>7
<1>6. ASSUME NEW list \in Lists, UpdateState(b, list) PROVE \A x \in Balancer : Marks(x)'
  <2>1. list \in Seq(Addr)
    BY FwmarkAssumption
  <2>2. /\ UNCHANGED <<allocated, upstreams, services, refused>> /\ twice \subseteq twice'
        /\ target' = [target EXCEPT ![b] = list] /\ generated' = [generated EXCEPT ![b] = {}]
        /\ calls[b] = <<>>
    BY <1>6 DEF UpdateState, mngVars, storedVars
  <2>3. \A s : Marked(s) => Marked(s)'
    BY <2>2 DEF Marked, Allocated
  <2>4. \A x \in Balancer, e \in Addr : Holds(x, e)' <=> Holds(x, e)
    BY <1>6, <2>1, StartHolds
  <2>5. generated'[b] = {} /\ \A x \in Balancer \ {b} : generated'[x] = generated[x] /\ target'[x] = target[x]
    BY <2>2 DEF TypeOK
  <2>6. \A x \in Balancer \ {b} : calls'[x] = calls[x]
    BY <1>6 DEF UpdateState, Balancers
  <2>7. ASSUME NEW x \in Balancer PROVE Marks(x)'
    <3>1. \A s \in services[x] : s.addr \in Addr
      <4>1. services[x] \subseteq [addr : Addr, fwmark : Fwmark]
        BY DEF TypeOK
      <4> QED
        BY <4>1
    <3>2. \A s \in services[x] : s.addr \in ToSet(upstreams[x]) /\ (Holds(x, s.addr)' => Marked(s)')
      BY <2>3, <2>4, <3>1 DEF Balancers, Marks
    <3> QED
      BY <2>2, <2>3, <2>5, <2>6, <3>2 DEF Balancers, Marks
  <2> QED
    BY <2>7
<1>7. CASE Close(b)
  <2>1. /\ calls[b] = <<>> /\ UNCHANGED <<allocated, calls, target, generated, refused, twice>>
        /\ upstreams' = [upstreams EXCEPT ![b] = <<>>] /\ services' = [services EXCEPT ![b] = {}]
    BY <1>7 DEF Close, workVars, mngVars
  <2>2. \A s : Marked(s)' <=> Marked(s)
    BY <2>1 DEF Marked, Allocated
  <2>3. services'[b] = {} /\ \A x \in Balancer \ {b} : upstreams'[x] = upstreams[x] /\ services'[x] = services[x]
    BY <2>1 DEF TypeOK
  <2>4. Marks(b)'
    BY <2>1, <2>3 DEF Marks
  <2>5. ASSUME NEW x \in Balancer \ {b} PROVE Marks(x)'
    <3>1. \A e : Holds(x, e)' <=> Holds(x, e)
      BY <2>1, <2>3 DEF Holds, Pending
    <3> QED
      BY <2>1, <2>2, <2>3, <3>1 DEF Marks, Balancers
  <2> QED
    BY <2>4, <2>5
<1> QED
  BY <1>1, <1>2, <1>3, <1>4, <1>5, <1>6, <1>7 DEF Step, Work

----------------------------------------------------------------------------
RInv == TypeOK /\ IInv /\ Balancers /\ Counted

\* NewManager and balancers without upstreams.
LEMMA InitRefs == Init => RInv
<1> SUFFICES ASSUME Init PROVE RInv
  OBVIOUS
<1>0. <<>> \in Seq(Addr) /\ <<>> \in Seq(Calls) /\ DOMAIN <<>> = {} /\ MaxUpdates \in Nat
  BY FwmarkAssumption
<1>1. IInv
  BY InitOK
<1>2. TypeOK
  BY <1>0, <1>1 DEF Init, TypeOK, IInv, ManagerOK
<1>3. ToSet(<<>>) = {} /\ Doubles(<<>>) = {}
  BY DEF ToSet, Doubles
<1>4. Balancers
  BY <1>0, <1>3 DEF Init, Balancers, CallsOK, Marks
<1>5. \A e : Holders(e) = {} /\ Count(e) = 0
  BY <1>3 DEF Init, Holders, Holds, Count
<1>6. Counted
  BY <1>5, FS_EmptySet DEF Counted
<1> QED
  BY <1>1, <1>2, <1>4, <1>6 DEF RInv

\* The types of the variables.
LEMMA TypeStep ==
    ASSUME RInv, IInv', updates' \in 0..MaxUpdates, NEW b \in Balancer, Step(b)
    PROVE  TypeOK'
<1> USE DEF RInv
<1> DEFINE Svc == [addr : Addr, fwmark : Fwmark]
<1>1. pool' \in Seq(Fwmark)
      /\ \A a \in DOMAIN allocated' : allocated'[a] \in [fwmark : Fwmark, refcount : Nat \ {0}]
  BY DEF IInv, ManagerOK
<1>2. updates' \in 0..MaxUpdates
  OBVIOUS
<1>3. ASSUME NEW op \in {"allocate", "release", "get"}, Pop(b, op)
      PROVE  Head(calls[b]).addr \in Addr /\ UNCHANGED <<target, twice, left>>
  <2>1. Head(calls[b]) \in Calls /\ Head(calls[b]).op = op
    BY <1>3, PopIs
  <2> QED
    BY <1>3, <2>1 DEF Calls, Pop
<1>4. CASE Allocate(b) \/ Release(b)
  <2>1. Head(calls[b]).addr \in Addr /\ UNCHANGED <<target, twice, left, storedVars, generated, refused>>
    BY <1>3, <1>4 DEF Allocate, Release
  <2>2. AllocateFwmark(Head(calls[b]).addr) \/ ReleaseFwmark(Head(calls[b]).addr)
    BY <1>4 DEF Allocate, Release
  <2>3. DOMAIN allocated' \subseteq DOMAIN allocated \cup {Head(calls[b]).addr}
    BY <2>2 DEF AllocateFwmark, ReleaseFwmark, mngVars
  <2> QED
    BY <1>1, <1>2, <2>1, <2>3 DEF TypeOK, storedVars
<1>5. CASE AllocateError(b)
  <2>1. Head(calls[b]).addr \in Addr /\ UNCHANGED <<target, twice, left, storedVars, generated, mngVars>>
        /\ refused' = refused \cup {Head(calls[b]).addr}
    BY <1>3, <1>5 DEF AllocateError, AllocateFails
  <2> QED
    BY <1>1, <1>2, <2>1 DEF TypeOK, storedVars, mngVars
<1>6. CASE Generate(b)
  <2> PICK a : a = Head(calls[b]).addr
    OBVIOUS
  <2>1. /\ a \in Addr /\ UNCHANGED <<target, twice, left, storedVars, refused, mngVars>>
        /\ generated' = [generated EXCEPT ![b] = generated[b] \cup
              (IF Allocated(a) THEN {[addr |-> a, fwmark |-> allocated[a].fwmark]} ELSE {})]
    BY <1>3, <1>6 DEF Generate
  <2>2. Allocated(a) => [addr |-> a, fwmark |-> allocated[a].fwmark] \in Svc
    <3>1. Allocated(a) => allocated[a] \in [fwmark : Fwmark, refcount : Nat \ {0}]
      BY DEF Allocated, TypeOK
    <3> QED
      BY <2>1, <3>1
  <2>3. generated \in [Balancer -> SUBSET Svc]
    BY DEF TypeOK
  <2> HIDE DEF Svc
  <2>4. generated' \in [Balancer -> SUBSET Svc]
    BY <2>1, <2>2, <2>3
  <2> QED
    BY <1>1, <1>2, <2>1, <2>4 DEF TypeOK, storedVars, mngVars, Svc
<1>7. CASE Store(b)
  <2>1. UNCHANGED <<target, twice, left, generated, refused, mngVars>>
        /\ upstreams' = [upstreams EXCEPT ![b] = target[b]] /\ services' = [services EXCEPT ![b] = generated[b]]
    BY <1>7 DEF Store, Pop
  <2>2. upstreams' \in [Balancer -> Seq(Addr)]
    BY <2>1 DEF TypeOK
  <2>3. services \in [Balancer -> SUBSET Svc] /\ generated \in [Balancer -> SUBSET Svc]
    BY DEF TypeOK
  <2> HIDE DEF Svc
  <2>4. services' \in [Balancer -> SUBSET Svc]
    BY <2>1, <2>3
  <2> QED
    BY <1>1, <1>2, <2>1, <2>2, <2>4 DEF TypeOK, mngVars, Svc
<1>8. ASSUME NEW list \in Lists, UpdateState(b, list) PROVE TypeOK'
  <2>1. list \in Seq(Addr)
    BY FwmarkAssumption
  <2>2. Doubles(list) \subseteq Addr
    BY <2>1, Members DEF Doubles
  <2>3. UNCHANGED <<mngVars, storedVars, refused, left>> /\ target' = [target EXCEPT ![b] = list]
        /\ generated' = [generated EXCEPT ![b] = {}] /\ twice' = twice \cup Doubles(list)
    BY <1>8 DEF UpdateState
  <2>4. target' \in [Balancer -> Seq(Addr)]
    BY <2>1, <2>3 DEF TypeOK
  <2>5. generated \in [Balancer -> SUBSET Svc]
    BY DEF TypeOK
  <2> HIDE DEF Svc
  <2>6. generated' \in [Balancer -> SUBSET Svc]
    BY <2>3, <2>5
  <2> QED
    BY <1>1, <1>2, <2>2, <2>3, <2>4, <2>6 DEF TypeOK, mngVars, storedVars, Svc
<1>9. CASE Close(b)
  <2>1. UNCHANGED <<mngVars, workVars, refused, twice>> /\ left' = left \cup ToSet(upstreams[b])
        /\ upstreams' = [upstreams EXCEPT ![b] = <<>>] /\ services' = [services EXCEPT ![b] = {}]
    BY <1>9 DEF Close
  <2>2. upstreams[b] \in Seq(Addr) /\ upstreams' \in [Balancer -> Seq(Addr)]
    BY <2>1 DEF TypeOK
  <2>3. ToSet(upstreams[b]) \subseteq Addr
    BY <2>2, Members
  <2>4. services \in [Balancer -> SUBSET Svc]
    BY DEF TypeOK
  <2> HIDE DEF Svc
  <2>5. services' \in [Balancer -> SUBSET Svc]
    BY <2>1, <2>4
  <2> QED
    BY <1>1, <1>2, <2>1, <2>2, <2>3, <2>5 DEF TypeOK, mngVars, workVars, Svc
<1> QED
  BY <1>4, <1>5, <1>6, <1>7, <1>8, <1>9 DEF Step, Work

\* A step that changes nothing, and one of a balancer, keep the references in order;
LEMMA StutterRefs ==
    ASSUME RInv, UNCHANGED vars
    PROVE  RInv'
<1> USE DEF RInv
<1>0. UNCHANGED <<pool, allocated, upstreams, services, calls, target, generated, refused, twice, left, updates>>
  BY DEF vars, mngVars, storedVars, workVars, histVars
<1>1. IInv'
  BY ManagerStutters DEF vars
<1>2. TypeOK'
  BY <1>0 DEF TypeOK
<1>3. \A x, e : Holds(x, e)' <=> Holds(x, e)
  BY <1>0 DEF Holds, Pending
<1>4. Counted'
  BY <1>0, <1>3, CountedSame DEF mngVars
<1>5. \A s : Marked(s)' <=> Marked(s)
  BY <1>0 DEF Marked, Allocated
<1>6. \A x \in Balancer : Marks(x)'
  BY <1>0, <1>3, <1>5 DEF Marks, Balancers
<1>7. \A x \in Balancer : CallsOK(x)'
  BY <1>0 DEF CallsOK, Balancers
<1> QED
  BY <1>0, <1>1, <1>2, <1>4, <1>6, <1>7 DEF Balancers

LEMMA BalancerStep ==
    ASSUME RInv, updates' \in 0..MaxUpdates, NEW b \in Balancer, Step(b)
    PROVE  RInv'
<1> USE DEF RInv
<1>2. IInv' /\ TypeOK'
  BY ManagerStep, TypeStep
<1>3. Counted' /\ \A x \in Balancer : Marks(x)'
  BY CountedStep, MarksStep
<1>4. calls' \in [Balancer -> Seq(Calls)] /\ \A x \in Balancer : CallsOK(x)'
  <2>1. ASSUME NEW list \in Lists, UpdateState(b, list)
        PROVE  calls' \in [Balancer -> Seq(Calls)] /\ \A x \in Balancer : CallsOK(x)'
    BY <2>1, FwmarkAssumption, StartHolds
  <2>2. CASE Close(b)
    <3>1. UNCHANGED <<calls, target, twice>> /\ calls[b] = <<>>
          /\ upstreams' = [upstreams EXCEPT ![b] = <<>>]
      BY <2>2 DEF Close, workVars
    <3>2. upstreams'[b] = <<>> /\ \A x \in Balancer \ {b} : upstreams'[x] = upstreams[x]
      BY <3>1 DEF TypeOK
    <3>3. Doubles(<<>>) = {} /\ DOMAIN <<>> = {}
      BY DEF Doubles
    <3>4. CallsOK(b)'
      BY <3>1, <3>2, <3>3 DEF CallsOK, Balancers
    <3>5. ASSUME NEW x \in Balancer \ {b} PROVE CallsOK(x)'
      BY <3>1, <3>2 DEF CallsOK, Balancers
    <3> QED
      BY <3>1, <3>4, <3>5 DEF Balancers
  <2>3. CASE Allocate(b) \/ AllocateError(b) \/ Release(b) \/ Generate(b)
    BY <2>3, PopIs, PopCallsOK DEF Allocate, AllocateError, Release, Generate, storedVars
  <2>4. CASE Store(b)
    <3>1. /\ Pop(b, "store") /\ UNCHANGED <<target, twice>>
          /\ upstreams' = [upstreams EXCEPT ![b] = target[b]]
      BY <2>4 DEF Store, Pop
    <3>2. upstreams'[b] = target[b] /\ \A x \in Balancer \ {b} : upstreams'[x] = upstreams[x]
      BY <3>1 DEF TypeOK
    <3>3. /\ calls' \in [Balancer -> Seq(Calls)] /\ calls'[b] = <<>>
          /\ \A x \in Balancer \ {b} : calls'[x] = calls[x]
      BY <3>1, PopIs
    <3>4. DOMAIN <<>> = {}
      OBVIOUS
    <3>5. CallsOK(b)'
      BY <3>1, <3>2, <3>3, <3>4 DEF CallsOK, Balancers
    <3>6. ASSUME NEW x \in Balancer \ {b} PROVE CallsOK(x)'
      BY <3>1, <3>2, <3>3 DEF CallsOK, Balancers
    <3> QED
      BY <3>3, <3>5, <3>6
  <2> QED
    BY <2>1, <2>2, <2>3, <2>4 DEF Step, Work
<1> QED
  BY <1>2, <1>3, <1>4 DEF Balancers

\* so does every step.
LEMMA StepRefs == RInv /\ [Next]_vars => RInv'
<1> SUFFICES ASSUME RInv, [Next]_vars PROVE RInv'
  OBVIOUS
<1>1. CASE UNCHANGED vars
  BY <1>1, StutterRefs
<1>2. CASE Next
  <2>1. PICK b \in Balancer : Step(b)
    BY <1>2 DEF Next, Step
  <2>2. updates' \in 0..MaxUpdates
    BY <1>2, FwmarkAssumption DEF Next, RInv, TypeOK
  <2> QED
    BY <2>1, <2>2, BalancerStep
<1> QED
  BY <1>1, <1>2

\* The types of the manager's and the balancers' state; an entry of the manager has a
\* reference.
THEOREM TypeCorrect == Spec => []TypeOK
<1>1. RInv => TypeOK
  BY DEF RInv
<1> QED
  BY InitRefs, StepRefs, <1>1, PTL DEF Spec

\* For any number of balancers that share the manager, however their allocations and
\* releases interleave: the fwmark of a stored service still belongs to its address,
\* unless the pool was exhausted or a balancer has had the address twice.
THEOREM MarksAreKept == Spec => []ServicesKeepMarks
<1>1. RInv => ServicesKeepMarks
  BY DEF RInv, Balancers, Marks, Marked, ServicesKeepMarks, Holds
<1> QED
  BY InitRefs, StepRefs, <1>1, PTL DEF Spec

\* No fwmark leaks but that of an address a closed balancer had, or of one that a
\* balancer had twice: every other allocated one is that of some balancer's upstream.
THEOREM NoMarkLeaks == Spec => []MarksAccountedFor
<1>1. RInv => MarksAccountedFor
  <2> SUFFICES ASSUME RInv, NEW a \in DOMAIN allocated, a \notin left \cup twice
               PROVE  \E b \in Balancer : \/ a \in ToSet(upstreams[b])
                                          \/ calls[b] # <<>> /\ a \in ToSet(target[b])
    BY DEF MarksAccountedFor
  <2>1. a \in Addr /\ Count(a) \in Nat /\ Count(a) # 0
    BY CountStep DEF RInv, TypeOK, IInv
  <2>2. Count(a) <= Cardinality(Holders(a))
    BY <2>1 DEF RInv, Counted
  <2>3. Holders(a) # {}
    BY <2>1, <2>2, FS_EmptySet
  <2> QED
    BY <2>3 DEF Holders, Holds
<1> QED
  BY InitRefs, StepRefs, <1>1, PTL DEF Spec
=============================================================================
