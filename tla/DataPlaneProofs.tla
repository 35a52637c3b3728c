-------------------------- MODULE DataPlaneProofs --------------------------
(***************************************************************************)
(* Proofs about DataPlane, for every set of services, routes, upstreams and *)
(* well-formed states, and whatever calls fail.                             *)
(***************************************************************************)
EXTENDS DataPlane, TLAPS

\* The states SetState is called with are those the control plane promises.
StatesOK ==
    /\ wanted = NoState \/ WellFormed(wanted)
    /\ WellFormed(target)

\* What is left to do fits the target and the kernel: a service to change is in
\* both, nothing of the target is to be deleted.
WorkOK ==
    /\ busy = "idle" => work = NoWork
    /\ work.add \cup work.change \subseteq Services(target.ipvs)
    /\ work.change \subseteq Services(ipvs) /\ work.add \cap Services(ipvs) = {}
    /\ work.delete \cap Services(target.ipvs) = {}
    /\ work.delAddrs \cap target.addrs = {} /\ work.addrs \subseteq target.addrs
    /\ work.advertise \subseteq target.routes
    /\ work.adds \cup work.upds \cup work.dels # {} =>
          /\ work.cur \in Services(ipvs) \cap Services(target.ipvs)
          /\ work.cur \notin work.change
          /\ work.adds \cup work.upds \subseteq RealsOf(target.ipvs[work.cur])
          /\ work.dels \cap RealsOf(target.ipvs[work.cur]) = {}

\* Whatever of the target is not in place yet is still in the work that is left.
Progress ==
    busy # "idle" =>
        /\ paths \subseteq work.withdraw \cup target.routes
        /\ target.addrs \subseteq linkAddrs \cup work.addrs
        /\ Services(target.ipvs) \subseteq Services(ipvs) \cup work.add
        /\ \A s \in Services(target.ipvs) \ (work.add \cup work.change) :
              \A u \in RealsOf(target.ipvs[s]) :
                  ipvs[s][u] # NoReal \/ (s = work.cur /\ u \in work.adds)

IInv == TypeOK /\ StatesOK /\ WorkOK /\ Progress /\ AnnouncedServed

----------------------------------------------------------------------------
\* The empty state, which Shutdown moves to, is one of the states and well-formed.
LEMMA EmptyStateOK == EmptyState \in States /\ WellFormed(EmptyState)
BY ConstantsAssumption DEF EmptyState, States, Tables, WellFormed, Services

\* No work left is a value of work.
LEMMA NoWorkType == NoWork \in Works
BY DEF NoWork, Works

\* The difference with a state is work that fits both sides, and covers all of the
\* target that is not in place.
LEMMA DifferenceOK ==
    ASSUME TypeOK, NEW d \in States
    PROVE  LET w == Difference(d) IN
           /\ w \in Works
           /\ w.cur = NoCur /\ w.adds = {} /\ w.upds = {} /\ w.dels = {}
           /\ w.add \cup w.change \subseteq Services(d.ipvs)
           /\ w.change \subseteq Services(ipvs) /\ w.add \cap Services(ipvs) = {}
           /\ w.delete \cap Services(d.ipvs) = {}
           /\ w.delAddrs \cap d.addrs = {} /\ w.addrs \subseteq d.addrs
           /\ w.advertise \subseteq d.routes
           /\ paths \subseteq w.withdraw \cup d.routes
           /\ d.addrs \subseteq linkAddrs \cup w.addrs
           /\ Services(d.ipvs) \subseteq Services(ipvs) \cup w.add
           /\ \A s \in Services(d.ipvs) \ (w.add \cup w.change) : ipvs[s] = d.ipvs[s]
<1>1. \A r \in Route : ListedHold(r) \in Nat
  BY ConstantsAssumption DEF TypeOK, ListedHold
<1>2. Difference(d) \in Works
  BY <1>1, ConstantsAssumption
  DEF TypeOK, Difference, Works, Services, AddressState, States
<1>3. QED
  BY <1>2 DEF Difference, AddressState, Services

\* The initial state satisfies the invariant.
LEMMA InitInv == Init => IInv
<1> SUFFICES ASSUME Init PROVE IInv
  OBVIOUS
<1>0. EmptyState.ipvs \in Tables
  BY EmptyStateOK DEF States
<1>a. work.adds \cup work.upds \cup work.dels = {}
  BY DEF Init, NoWork
<1>b. failures \in 0..MaxFailures /\ restarts \in 0..MaxRestarts /\ changes \in 0..MaxChanges
  BY ConstantsAssumption DEF Init
<1>c. wanted \in States \cup {NoState} /\ target \in States /\ work \in Works
  BY EmptyStateOK, NoWorkType DEF Init
<1>d. ipvs \in Tables /\ holdTimeouts \in [Prefix -> Nat \cup {NoHold}]
  BY <1>0 DEF Init
<1>1. TypeOK
  BY <1>a, <1>b, <1>c, <1>d DEF Init, TypeOK
<1>2. StatesOK /\ WorkOK /\ Progress /\ AnnouncedServed
  BY EmptyStateOK DEF Init, StatesOK, WorkOK, Progress, AnnouncedServed, NoWork
<1> QED
  BY <1>1, <1>2 DEF IInv

\* A call that starts with target d, well-formed, keeps the invariant.
LEMMA StartInv ==
    ASSUME IInv, NEW d \in States, WellFormed(d),
           busy' \in {"set", "shutdown"}, target' = d, work' = Difference(d), result' = "none",
           shutdownOnce' \in BOOLEAN,
           UNCHANGED <<wanted, external, tracked, holdTimeouts, bounds>>
    PROVE  IInv'
<1> USE DEF IInv, external, bounds
<1>1. TypeOK'
  BY DifferenceOK DEF TypeOK
<1>2. StatesOK'
  BY DEF StatesOK
<1>3. WorkOK'
  BY DifferenceOK DEF WorkOK
<1>4. Progress'
  BY DifferenceOK DEF Progress, Services, RealsOf
<1>5. AnnouncedServed'
  BY DEF AnnouncedServed, Serving
<1> QED
  BY <1>1, <1>2, <1>3, <1>4, <1>5

\* A call that returns keeps the invariant: it leaves routes and kernel as they are.
LEMMA ReturnInv ==
    ASSUME IInv, NEW res \in {"ok", "err"}, Return(res),
           failures' \in 0..MaxFailures, UNCHANGED <<restarts, changes>>
    PROVE  IInv'
<1> USE DEF IInv, Return, external, memory
<1>1. TypeOK'
  BY NoWorkType DEF TypeOK, NoWork
<1>2. StatesOK' /\ WorkOK' /\ Progress' /\ AnnouncedServed'
  BY DEF StatesOK, WorkOK, Progress, AnnouncedServed, Serving, NoWork
<1> QED
  BY <1>1, <1>2

\* Once services, reals and addresses are in place, every route of the target has
\* a balancer that serves it.
LEMMA TargetServed ==
    ASSUME IInv, busy # "idle", NEW r \in target.routes,
           work.add = {}, work.change = {}, work.adds = {}, work.addrs = {}
    PROVE  \E s \in Services(target.ipvs) :
              /\ s \in Services(ipvs) /\ VipOf[s] \in Covers[r] \cap target.addrs
              /\ VipOf[s] \in linkAddrs /\ RealsOf(ipvs[s]) # {}
<1>1. r \in Route
  BY DEF IInv, TypeOK, States
<1>2. PICK s \in Services(target.ipvs) : VipOf[s] \in Covers[r]
  BY DEF IInv, StatesOK, WellFormed
<1>3. PICK u \in Upstream : u \in RealsOf(target.ipvs[s])
  BY <1>2 DEF IInv, StatesOK, WellFormed, RealsOf
<1>4. VipOf[s] \in target.addrs
  BY <1>1, <1>2, ConstantsAssumption DEF IInv, StatesOK, WellFormed
<1>5. s \in Services(ipvs) /\ VipOf[s] \in linkAddrs
  BY <1>4 DEF IInv, Progress
<1>6. ipvs[s][u] # NoReal
  BY <1>3 DEF IInv, Progress
<1> QED
  BY <1>2, <1>3, <1>4, <1>5, <1>6 DEF RealsOf

\* Withdrawing a route only takes a path away.
LEMMA WithdrawRouteInv ==
    ASSUME IInv, NEW r \in Route, WithdrawRoute(r)
    PROVE  IInv'
<1> USE DEF IInv, WithdrawRoute, InCall, bounds
<1>1. TypeOK'
  BY ConstantsAssumption DEF TypeOK, Works
<1>2. StatesOK'
  BY DEF StatesOK
<1>3. WorkOK'
  BY DEF WorkOK, TypeOK, Works, Stage
<1>4. Progress'
  BY DEF Progress, TypeOK, Works
<1>5. AnnouncedServed'
  BY DEF AnnouncedServed, Serving
<1> QED
  BY <1>1, <1>2, <1>3, <1>4, <1>5

\* Waiting for the hold time leaves kernel and routes alone.
LEMMA WaitHoldInv ==
    ASSUME IInv, WaitHold
    PROVE  IInv'
<1> USE DEF IInv, WaitHold, InCall, bounds
<1>1. TypeOK'
  BY DEF TypeOK, Works
<1>2. StatesOK'
  BY DEF StatesOK
<1>3. WorkOK'
  BY DEF WorkOK, TypeOK, Works, Stage
<1>4. Progress'
  BY DEF Progress, TypeOK, Works
<1>5. AnnouncedServed'
  BY DEF AnnouncedServed, Serving
<1> QED
  BY <1>1, <1>2, <1>3, <1>4, <1>5

\* A route is advertised when all balancers and addresses of the target are there.
LEMMA AdvertiseRouteInv ==
    ASSUME IInv, NEW r \in Route, AdvertiseRoute(r)
    PROVE  IInv'
<1> USE DEF IInv, AdvertiseRoute, InCall, bounds
<1>1. TypeOK'
  BY ConstantsAssumption DEF TypeOK, Works
<1>2. StatesOK'
  BY DEF StatesOK
<1>3. WorkOK'
  BY DEF WorkOK, TypeOK, Works, Stage
<1>4. Progress'
  BY DEF Progress, WorkOK, TypeOK, Works
<1>5. AnnouncedServed'
  <2>1. r \in target.routes /\ work.adds = {} /\ work.add = {} /\ work.change = {} /\ work.addrs = {}
    BY DEF Stage, WorkOK
  <2>2. Serving(r)
    BY <2>1, TargetServed DEF Stage, Serving
  <2> QED
    BY <2>2 DEF AnnouncedServed, Serving
<1> QED
  BY <1>1, <1>2, <1>3, <1>4, <1>5

\* Setting a real server of the current balancer to its target keeps the services
\* and every real server there is.
LEMMA CurRealInv ==
    ASSUME TypeOK, NEW u \in RealsOf(target.ipvs[work.cur]),
           work.cur \in Services(ipvs) \cap Services(target.ipvs),
           ipvs' = [ipvs EXCEPT ![work.cur][u] = target.ipvs[work.cur][u]]
    PROVE  /\ ipvs' \in Tables /\ Services(ipvs') = Services(ipvs)
           /\ \A s \in Service, v \in Upstream :
                 ipvs[s] # NoService /\ ipvs[s][v] # NoReal => ipvs'[s][v] # NoReal
           /\ ipvs'[work.cur][u] # NoReal
<1>1. ipvs[work.cur] \in Reals /\ target.ipvs[work.cur] \in Reals /\ work.cur \in Service
  BY DEF TypeOK, Tables, Services, States
<1>2. u \in Upstream /\ target.ipvs[work.cur][u] \in Weight /\ target.ipvs[work.cur][u] # NoReal
  BY <1>1 DEF RealsOf, Reals
<1>3. [ipvs[work.cur] EXCEPT ![u] = target.ipvs[work.cur][u]] \in Reals
  BY <1>1, <1>2 DEF Reals
<1>4. ipvs' = [ipvs EXCEPT ![work.cur] = [ipvs[work.cur] EXCEPT ![u] = target.ipvs[work.cur][u]]]
  BY <1>1 DEF TypeOK, Tables
<1>5. ipvs' \in Tables
  BY <1>1, <1>3, <1>4 DEF TypeOK, Tables
<1>6. Services(ipvs') = Services(ipvs)
  BY <1>1, <1>3, <1>4, ConstantsAssumption DEF TypeOK, Tables, Services
<1>7. \A s \in Service, v \in Upstream :
         ipvs[s] # NoService /\ ipvs[s][v] # NoReal => ipvs'[s][v] # NoReal
  BY <1>1, <1>2, <1>4 DEF TypeOK, Tables, Reals
<1>8. ipvs'[work.cur][u] # NoReal
  BY <1>1, <1>2, <1>4 DEF TypeOK, Tables, Reals
<1> QED
  BY <1>5, <1>6, <1>7, <1>8

\* A new service takes nothing away; its reals become the next work.
LEMMA AddServiceInv ==
    ASSUME IInv, NEW s \in Service, AddService(s)
    PROVE  IInv'
<1> USE DEF IInv, AddService, InCall, bounds
<1>1. TypeOK'
  <2>1. NoReals \in Reals
    BY DEF NoReals, Reals
  <2>2. ipvs' \in Tables /\ s \in Services(ipvs')
    BY <2>1, ConstantsAssumption DEF TypeOK, Tables, Services
  <2>3. work' \in Works /\ work'.cur = s
    BY DEF TypeOK, Works, RealsOf
  <2> QED
    BY <2>2, <2>3 DEF TypeOK
<1>2. StatesOK'
  BY DEF StatesOK
<1>3. WorkOK'
  <2>1. work.adds = {} /\ work.upds = {} /\ work.dels = {} /\ busy # "idle"
    BY DEF Stage
  <2>2. NoReals \in Reals
    BY DEF NoReals, Reals
  <2>3. Services(ipvs') = Services(ipvs) \cup {s}
    BY <2>2, ConstantsAssumption DEF TypeOK, Tables, Services
  <2>4. s \in Services(target.ipvs) /\ s \notin Services(ipvs)
    BY DEF WorkOK, SlotTaken
  <2> QED
    BY <2>1, <2>3, <2>4 DEF WorkOK, TypeOK, Works
<1>4. Progress'
  <2>1. work.adds = {} /\ busy # "idle"
    BY DEF Stage
  <2>2. NoReals \in Reals
    BY DEF NoReals, Reals
  <2>3. Services(ipvs') = Services(ipvs) \cup {s}
    BY <2>2, ConstantsAssumption DEF TypeOK, Tables, Services
  <2>4. \A t \in Service : t # s => ipvs'[t] = ipvs[t]
    BY DEF TypeOK, Tables
  <2>5. work'.add = work.add \ {s} /\ work'.change = work.change /\ work'.withdraw = work.withdraw
        /\ work'.addrs = work.addrs /\ work'.cur = s /\ work'.adds = RealsOf(target.ipvs[s])
    BY DEF TypeOK, Works
  <2> QED
    BY <2>1, <2>3, <2>4, <2>5 DEF Progress, Services
<1>5. AnnouncedServed'
  <2>1. s \notin Services(ipvs)
    BY DEF SlotTaken
  <2>2. \A t \in Service : t # s => ipvs'[t] = ipvs[t]
    BY DEF TypeOK, Tables
  <2> QED
    BY <2>1, <2>2 DEF AnnouncedServed, Serving, Services
<1> QED
  BY <1>1, <1>2, <1>3, <1>4, <1>5

\* Choosing the next balancer to change only splits its work up.
LEMMA ChangeBalancerInv ==
    ASSUME IInv, NEW s \in Service, ChangeBalancer(s)
    PROVE  IInv'
<1> USE DEF IInv, ChangeBalancer, InCall, bounds, external
<1>1. TypeOK'
  <2>1. work' \in Works /\ work'.cur = s
    BY DEF TypeOK, Works, RealsOf, CompareUpstreams
  <2>2. s \in Services(ipvs)
    BY DEF WorkOK
  <2> QED
    BY <2>1, <2>2 DEF TypeOK
<1>2. StatesOK'
  BY DEF StatesOK
<1>3. WorkOK'
  <2>1. work.adds = {} /\ work.upds = {} /\ work.dels = {} /\ busy # "idle"
    BY DEF Stage
  <2>2. s \in Services(ipvs) /\ s \in Services(target.ipvs)
    BY DEF WorkOK
  <2> QED
    BY <2>1, <2>2 DEF WorkOK, TypeOK, Works, CompareUpstreams
<1>4. Progress'
  <2>1. work.adds = {} /\ busy # "idle"
    BY DEF Stage
  <2>2. work'.add = work.add /\ work'.change = work.change \ {s} /\ work'.withdraw = work.withdraw
        /\ work'.addrs = work.addrs /\ work'.cur = s
        /\ work'.adds = RealsOf(target.ipvs[s]) \ RealsOf(ipvs[s])
    BY DEF TypeOK, Works, CompareUpstreams
  <2> QED
    BY <2>1, <2>2 DEF Progress, RealsOf
<1>5. AnnouncedServed'
  BY DEF AnnouncedServed, Serving
<1> QED
  BY <1>1, <1>2, <1>3, <1>4, <1>5

\* Adding a real server takes nothing away.
LEMMA AddRealInv ==
    ASSUME IInv, NEW u \in Upstream, AddReal(u)
    PROVE  IInv'
<1> USE DEF IInv, AddReal, InCall, bounds
<1>1. TypeOK'
  <2>1. ipvs' \in Tables /\ Services(ipvs') = Services(ipvs)
    BY CurRealInv DEF WorkOK
  <2>2. work' \in Works /\ work'.cur = work.cur
    BY DEF TypeOK, Works
  <2> QED
    BY <2>1, <2>2 DEF TypeOK
<1>2. StatesOK'
  BY DEF StatesOK
<1>3. WorkOK'
  <2>1. Services(ipvs') = Services(ipvs)
    BY CurRealInv DEF WorkOK
  <2> QED
    BY <2>1 DEF WorkOK, TypeOK, Works, Stage
<1>4. Progress'
  <2>1. /\ Services(ipvs') = Services(ipvs)
        /\ \A s \in Service, v \in Upstream :
              ipvs[s] # NoService /\ ipvs[s][v] # NoReal => ipvs'[s][v] # NoReal
        /\ ipvs'[work.cur][u] # NoReal
    BY CurRealInv DEF WorkOK, RealsOf
  <2>2. work'.add = work.add /\ work'.change = work.change /\ work'.withdraw = work.withdraw
        /\ work'.addrs = work.addrs /\ work'.cur = work.cur
        /\ work'.adds \subseteq work.adds /\ work.adds \subseteq work'.adds \cup {u}
    BY DEF TypeOK, Works
  <2>3. busy # "idle"
    BY DEF Stage
  <2>4. ASSUME NEW s \in Services(target.ipvs) \ (work.add \cup work.change),
               NEW v \in RealsOf(target.ipvs[s])
        PROVE  ipvs'[s][v] # NoReal \/ (s = work.cur /\ v \in work'.adds)
    <3>1. s \in Services(ipvs) /\ (ipvs[s][v] # NoReal \/ (s = work.cur /\ v \in work.adds))
      BY <2>3 DEF Progress
    <3>2. CASE ipvs[s][v] # NoReal
      BY <3>1, <3>2, <2>1 DEF Services, RealsOf
    <3>3. CASE s = work.cur /\ v \in work.adds
      <4>1. v = u \/ v \in work'.adds
        BY <3>3, <2>2
      <4>2. ipvs'[s][u] # NoReal
        BY <3>3, <2>1
      <4> QED
        BY <3>3, <4>1, <4>2
    <3> QED
      BY <3>1, <3>2, <3>3
  <2> QED
    BY <2>1, <2>2, <2>3, <2>4 DEF Progress
<1>5. AnnouncedServed'
  <2>1. /\ Services(ipvs') = Services(ipvs)
        /\ \A s \in Service, v \in Upstream :
              ipvs[s] # NoService /\ ipvs[s][v] # NoReal => ipvs'[s][v] # NoReal
    BY CurRealInv DEF WorkOK, RealsOf
  <2> QED
    BY <2>1 DEF AnnouncedServed, Serving, Services, RealsOf
<1> QED
  BY <1>1, <1>2, <1>3, <1>4, <1>5

\* Updating a weight keeps the real server.
LEMMA UpdateRealInv ==
    ASSUME IInv, NEW u \in Upstream, UpdateReal(u)
    PROVE  IInv'
<1> USE DEF IInv, UpdateReal, InCall, bounds
<1>1. TypeOK'
  <2>1. ipvs' \in Tables /\ Services(ipvs') = Services(ipvs)
    BY CurRealInv DEF WorkOK
  <2>2. work' \in Works /\ work'.cur = work.cur
    BY DEF TypeOK, Works
  <2> QED
    BY <2>1, <2>2 DEF TypeOK
<1>2. StatesOK'
  BY DEF StatesOK
<1>3. WorkOK'
  <2>1. Services(ipvs') = Services(ipvs)
    BY CurRealInv DEF WorkOK
  <2> QED
    BY <2>1 DEF WorkOK, TypeOK, Works, Stage
<1>4. Progress'
  <2>1. /\ Services(ipvs') = Services(ipvs)
        /\ \A s \in Service, v \in Upstream :
              ipvs[s] # NoService /\ ipvs[s][v] # NoReal => ipvs'[s][v] # NoReal
        /\ ipvs'[work.cur][u] # NoReal
    BY CurRealInv DEF WorkOK, RealsOf
  <2>2. work'.add = work.add /\ work'.change = work.change /\ work'.withdraw = work.withdraw
        /\ work'.addrs = work.addrs /\ work'.cur = work.cur
        /\ work'.adds \subseteq work.adds /\ work.adds \subseteq work'.adds \cup {u}
    BY DEF TypeOK, Works
  <2>3. busy # "idle"
    BY DEF Stage
  <2>4. ASSUME NEW s \in Services(target.ipvs) \ (work.add \cup work.change),
               NEW v \in RealsOf(target.ipvs[s])
        PROVE  ipvs'[s][v] # NoReal \/ (s = work.cur /\ v \in work'.adds)
    <3>1. s \in Services(ipvs) /\ (ipvs[s][v] # NoReal \/ (s = work.cur /\ v \in work.adds))
      BY <2>3 DEF Progress
    <3>2. CASE ipvs[s][v] # NoReal
      BY <3>1, <3>2, <2>1 DEF Services, RealsOf
    <3>3. CASE s = work.cur /\ v \in work.adds
      <4>1. v = u \/ v \in work'.adds
        BY <3>3, <2>2
      <4>2. ipvs'[s][u] # NoReal
        BY <3>3, <2>1
      <4> QED
        BY <3>3, <4>1, <4>2
    <3> QED
      BY <3>1, <3>2, <3>3
  <2> QED
    BY <2>1, <2>2, <2>3, <2>4 DEF Progress
<1>5. AnnouncedServed'
  <2>1. /\ Services(ipvs') = Services(ipvs)
        /\ \A s \in Service, v \in Upstream :
              ipvs[s] # NoService /\ ipvs[s][v] # NoReal => ipvs'[s][v] # NoReal
    BY CurRealInv DEF WorkOK, RealsOf
  <2> QED
    BY <2>1 DEF AnnouncedServed, Serving, Services, RealsOf
<1> QED
  BY <1>1, <1>2, <1>3, <1>4, <1>5

\* Deleting a real server of the current balancer that the target does not have
\* keeps the services and every real server of the target.
LEMMA DeleteRealEffect ==
    ASSUME IInv, NEW u \in Upstream, DeleteReal(u)
    PROVE  /\ ipvs' \in Tables /\ Services(ipvs') = Services(ipvs)
           /\ work.cur \in Services(ipvs) \cap Services(target.ipvs)
           /\ u \notin RealsOf(target.ipvs[work.cur])
           /\ \A s \in Service : s # work.cur => ipvs'[s] = ipvs[s]
           /\ \A v \in Upstream : v # u => ipvs'[work.cur][v] = ipvs[work.cur][v]
<1> USE DEF IInv, DeleteReal
<1>1. work.cur \in Services(ipvs) \cap Services(target.ipvs) /\ u \notin RealsOf(target.ipvs[work.cur])
  BY DEF WorkOK
<1>2. work.cur \in Service /\ ipvs[work.cur] \in Reals
  BY <1>1 DEF TypeOK, Tables, Services
<1>3. [ipvs[work.cur] EXCEPT ![u] = NoReal] \in Reals
  BY <1>2 DEF Reals
<1>4. ipvs' = [ipvs EXCEPT ![work.cur] = [ipvs[work.cur] EXCEPT ![u] = NoReal]]
  BY <1>2 DEF TypeOK, Tables
<1>5. ipvs' \in Tables /\ Services(ipvs') = Services(ipvs)
  BY <1>2, <1>3, <1>4, ConstantsAssumption DEF TypeOK, Tables, Services
<1>6. \A s \in Service : s # work.cur => ipvs'[s] = ipvs[s]
  BY <1>2, <1>4 DEF TypeOK, Tables
<1>7. \A v \in Upstream : v # u => ipvs'[work.cur][v] = ipvs[work.cur][v]
  BY <1>2, <1>4 DEF TypeOK, Tables, Reals
<1> QED
  BY <1>1, <1>5, <1>6, <1>7

\* A real server is deleted after those of the target are there, so a balancer
\* that serves a route keeps one.
LEMMA DeleteRealInv ==
    ASSUME IInv, NEW u \in Upstream, DeleteReal(u)
    PROVE  IInv'
<1> USE DEF IInv, DeleteReal, InCall, bounds
<1>1. TypeOK'
  <2>1. work' \in Works /\ work'.cur = work.cur
    BY DEF TypeOK, Works
  <2> QED
    BY <2>1, DeleteRealEffect DEF TypeOK
<1>2. StatesOK'
  BY DEF StatesOK
<1>3. WorkOK'
  <2>1. Services(ipvs') = Services(ipvs)
    BY DeleteRealEffect
  <2> QED
    BY <2>1 DEF WorkOK, TypeOK, Works, Stage
<1>4. Progress'
  <2>0. busy # "idle"
    BY DEF Stage
  <2>1. work'.add = work.add /\ work'.change = work.change /\ work'.withdraw = work.withdraw
        /\ work'.addrs = work.addrs /\ work'.cur = work.cur /\ work'.adds = work.adds
    BY DEF TypeOK, Works
  <2>2. ASSUME NEW s \in Services(target.ipvs) \ (work.add \cup work.change),
               NEW v \in RealsOf(target.ipvs[s])
        PROVE  ipvs'[s][v] # NoReal \/ (s = work.cur /\ v \in work.adds)
    <3>1. ipvs[s][v] # NoReal \/ (s = work.cur /\ v \in work.adds)
      BY <2>0 DEF Progress
    <3>2. ipvs'[s][v] = ipvs[s][v]
      BY DeleteRealEffect DEF Services, RealsOf
    <3> QED
      BY <3>1, <3>2
  <2>3. Services(ipvs') = Services(ipvs)
    BY DeleteRealEffect
  <2> QED
    BY <2>0, <2>1, <2>2, <2>3 DEF Progress
<1>5. AnnouncedServed'
  <2>0. busy # "idle"
    BY DEF Stage
  <2>1. work.withdraw = {} /\ work.adds = {}
    BY DEF Stage
  <2>2. SUFFICES ASSUME NEW r \in paths PROVE Serving(r)'
    BY DEF AnnouncedServed
  <2>3. PICK s \in Services(ipvs) : VipOf[s] \in Covers[r] \cap linkAddrs /\ RealsOf(ipvs[s]) # {}
    BY DEF AnnouncedServed, Serving
  <2>4. CASE s # work.cur
    BY <2>3, <2>4, DeleteRealEffect DEF Serving, Services
  <2>5. CASE s = work.cur
    <3>1. r \in target.routes /\ s \in Services(target.ipvs)
      BY <2>0, <2>1, <2>5, DeleteRealEffect DEF Progress
    <3>2. PICK v \in Upstream : v \in RealsOf(target.ipvs[s])
      BY <3>1, <2>3 DEF StatesOK, WellFormed, RealsOf
    <3>3. s \notin work.change /\ s \notin work.add
      BY <2>5 DEF WorkOK
    <3>4. ipvs[s][v] # NoReal
      BY <2>0, <2>1, <3>1, <3>2, <3>3 DEF Progress
    <3>5. ipvs'[s][v] # NoReal /\ s \in Services(ipvs')
      BY <2>5, <3>2, <3>4, DeleteRealEffect
    <3> QED
      BY <2>3, <3>5 DEF Serving, RealsOf
  <2> QED
    BY <2>4, <2>5
<1> QED
  BY <1>1, <1>2, <1>3, <1>4, <1>5

\* A service is deleted when those of the target are complete, so every route
\* that is left has one of them.
LEMMA DeleteServiceInv ==
    ASSUME IInv, NEW s \in Service, DeleteService(s)
    PROVE  IInv'
<1> USE DEF IInv, DeleteService, InCall, bounds
<1>1. TypeOK'
  <2>1. ipvs' \in Tables /\ work' \in Works
    BY DEF TypeOK, Tables, Works
  <2>2. work'.adds = {} /\ work'.upds = {} /\ work'.dels = {}
    BY DEF Stage, TypeOK, Works
  <2> QED
    BY <2>1, <2>2 DEF TypeOK
<1>2. StatesOK'
  BY DEF StatesOK
<1>3. WorkOK'
  <2>1. work.adds = {} /\ work.upds = {} /\ work.dels = {} /\ work.change = {} /\ work.add = {} /\ busy # "idle"
    BY DEF Stage
  <2> QED
    BY <2>1 DEF WorkOK, TypeOK, Works
<1>4. Progress'
  <2>0. busy # "idle"
    BY DEF Stage
  <2>1. Services(ipvs') = Services(ipvs) \ {s} /\ s \notin Services(target.ipvs)
    BY DEF WorkOK, TypeOK, Tables, Services
  <2>2. \A t \in Service : t # s => ipvs'[t] = ipvs[t]
    BY DEF TypeOK, Tables
  <2>3. work'.add = work.add /\ work'.change = work.change /\ work'.withdraw = work.withdraw
        /\ work'.addrs = work.addrs /\ work'.cur = work.cur /\ work'.adds = work.adds
    BY DEF TypeOK, Works
  <2> QED
    BY <2>0, <2>1, <2>2, <2>3 DEF Progress, Services
<1>5. AnnouncedServed'
  <2>0. busy # "idle"
    BY DEF Stage
  <2>1. work.withdraw = {} /\ work.add = {} /\ work.change = {} /\ work.adds = {} /\ work.addrs = {}
    BY DEF Stage
  <2>2. SUFFICES ASSUME NEW r \in paths PROVE Serving(r)'
    BY DEF AnnouncedServed
  <2>3. r \in target.routes
    BY <2>0, <2>1 DEF Progress
  <2>4. PICK t \in Services(target.ipvs) :
           /\ t \in Services(ipvs) /\ VipOf[t] \in Covers[r] \cap linkAddrs /\ RealsOf(ipvs[t]) # {}
    BY <2>0, <2>1, <2>3, TargetServed
  <2>5. t # s /\ ipvs'[t] = ipvs[t]
    BY <2>4 DEF WorkOK, TypeOK, Tables, Services
  <2> QED
    BY <2>4, <2>5 DEF Serving, Services
<1> QED
  BY <1>1, <1>2, <1>3, <1>4, <1>5

\* A new address takes nothing away.
LEMMA AddAddressInv ==
    ASSUME IInv, NEW v \in Vip, AddAddress(v)
    PROVE  IInv'
<1> USE DEF IInv, AddAddress, InCall, bounds
<1>1. TypeOK'
  BY DEF TypeOK, Works
<1>2. StatesOK'
  BY DEF StatesOK
<1>3. WorkOK'
  BY DEF WorkOK, TypeOK, Works, Stage
<1>4. Progress'
  BY DEF Progress, TypeOK, Works
<1>5. AnnouncedServed'
  BY DEF AnnouncedServed, Serving
<1> QED
  BY <1>1, <1>2, <1>3, <1>4, <1>5

\* An address is deleted when no balancer of the target needs it.
LEMMA DeleteAddressInv ==
    ASSUME IInv, NEW v \in Vip, DeleteAddress(v)
    PROVE  IInv'
<1> USE DEF IInv, DeleteAddress, InCall, bounds
<1>1. TypeOK'
  BY DEF TypeOK, Works
<1>2. StatesOK'
  BY DEF StatesOK
<1>3. WorkOK'
  BY DEF WorkOK, TypeOK, Works, Stage
<1>4. Progress'
  BY DEF Progress, WorkOK, TypeOK, Works
<1>5. AnnouncedServed'
  <2>0. busy # "idle"
    BY DEF Stage
  <2>1. work.withdraw = {} /\ work.add = {} /\ work.change = {} /\ work.adds = {} /\ work.addrs = {}
    BY DEF Stage
  <2>2. SUFFICES ASSUME NEW r \in paths PROVE Serving(r)'
    BY DEF AnnouncedServed
  <2>3. r \in target.routes
    BY <2>0, <2>1 DEF Progress
  <2>4. PICK t \in Services(target.ipvs) :
           /\ t \in Services(ipvs) /\ VipOf[t] \in Covers[r] \cap linkAddrs /\ RealsOf(ipvs[t]) # {}
           /\ VipOf[t] \in target.addrs
    BY <2>0, <2>1, <2>3, TargetServed
  <2>5. VipOf[t] # v
    BY <2>4 DEF WorkOK
  <2> QED
    BY <2>4, <2>5 DEF Serving
<1> QED
  BY <1>1, <1>2, <1>3, <1>4, <1>5

\* What happens around a call keeps the invariant: a new state is well-formed,
\* a restart announces nothing.
LEMMA EnvironmentInv ==
    ASSUME IInv, Environment
    PROVE  IInv'
<1> USE DEF IInv, external, memory, bounds
<1>1. ASSUME NEW d \in DesiredState, Want(d) PROVE IInv'
  <2>1. d \in States /\ WellFormed(d)
    BY DesiredAssumption DEF States
  <2>2. TypeOK'
    BY <1>1, <2>1, ConstantsAssumption DEF Want, TypeOK
  <2>3. StatesOK' /\ WorkOK' /\ Progress' /\ AnnouncedServed'
    BY <1>1, <2>1 DEF Want, StatesOK, WorkOK, Progress, AnnouncedServed, Serving
  <2> QED
    BY <2>2, <2>3
<1>2. CASE SetStateRefused \/ ShutdownSkipped \/ GetStateFails
  <2>1. TypeOK'
    BY <1>2, ConstantsAssumption DEF SetStateRefused, ShutdownSkipped, GetStateFails, TypeOK
  <2>2. StatesOK' /\ WorkOK' /\ Progress' /\ AnnouncedServed'
    BY <1>2 DEF SetStateRefused, ShutdownSkipped, GetStateFails,
                StatesOK, WorkOK, Progress, AnnouncedServed, Serving
  <2> QED
    BY <2>1, <2>2
<1>3. CASE Shutdown
  BY <1>3, EmptyStateOK, StartInv DEF Shutdown
<1>4. CASE Fail
  <2>1. failures' \in 0..MaxFailures
    BY <1>4, ConstantsAssumption DEF Fail, TypeOK
  <2> QED
    BY <1>4, <2>1, ReturnInv DEF Fail
<1>5. CASE Restart
  <2>1. TypeOK'
    <3>1. work'.adds \cup work'.upds \cup work'.dels = {}
      BY <1>5 DEF Restart, NoWork
    <3>2. restarts' \in 0..MaxRestarts
      BY <1>5, ConstantsAssumption DEF Restart, TypeOK
    <3>3. holdTimeouts' \in [Prefix -> Nat \cup {NoHold}]
      BY <1>5 DEF Restart
    <3> QED
      BY <1>5, <3>1, <3>2, <3>3, EmptyStateOK, NoWorkType DEF Restart, TypeOK
  <2>2. StatesOK' /\ WorkOK' /\ Progress' /\ AnnouncedServed'
    BY <1>5, EmptyStateOK DEF Restart, StatesOK, WorkOK, Progress, AnnouncedServed, NoWork
  <2> QED
    BY <2>1, <2>2
<1>6. ASSUME NEW r \in Route, HoldElapses(r) PROVE IInv'
  <2>1. TypeOK'
    BY <1>6 DEF HoldElapses, TypeOK
  <2>2. StatesOK' /\ WorkOK' /\ Progress' /\ AnnouncedServed'
    BY <1>6 DEF HoldElapses, StatesOK, WorkOK, Progress, AnnouncedServed, Serving
  <2> QED
    BY <2>1, <2>2
<1> QED
  BY <1>1, <1>2, <1>3, <1>4, <1>5, <1>6 DEF Environment

\* Every step keeps the invariant.
LEMMA NextInv == IInv /\ [Next]_vars => IInv'
<1> SUFFICES ASSUME IInv, [Next]_vars PROVE IInv'
  OBVIOUS
<1>1. CASE SetState
  <2>1. wanted \in States /\ WellFormed(wanted)
    BY <1>1 DEF IInv, TypeOK, StatesOK, SetState
  <2> QED
    BY <1>1, <2>1, StartInv DEF SetState, memory, IInv, TypeOK
<1>2. CASE Step
  <2>1. CASE Finish \/ AddServiceRefused
    BY <2>1, ReturnInv DEF Finish, AddServiceRefused, bounds, IInv, TypeOK
  <2> QED
    BY <1>2, <2>1, WaitHoldInv, WithdrawRouteInv, AdvertiseRouteInv, AddServiceInv,
       ChangeBalancerInv, DeleteServiceInv, AddRealInv, UpdateRealInv, DeleteRealInv,
       AddAddressInv, DeleteAddressInv
    DEF Step
<1>3. CASE Environment
  BY <1>3, EnvironmentInv
<1>4. CASE UNCHANGED vars
  BY <1>4 DEF vars, external, memory, bounds, IInv, TypeOK, StatesOK, WorkOK, Progress,
              AnnouncedServed, Serving
<1> QED
  BY <1>1, <1>2, <1>3, <1>4 DEF Next

\* The inductive invariant holds throughout every behaviour of the data plane.
THEOREM Invariance == Spec => []IInv
BY InitInv, NextInv, PTL DEF Spec

\* The variables of the data plane manager keep their types, and the balancer it
\* works on is one of the kernel's.
THEOREM TypeCorrect == Spec => []TypeOK
<1>1. IInv => TypeOK
  BY DEF IInv
<1> QED
  BY <1>1, Invariance, PTL

\* SetState, Shutdown, their failures half-way and restarts never leave a route
\* announced without a balancer that has a real server and its vip on the loopback.
THEOREM RoutesAreServed == Spec => []AnnouncedServed
<1>1. IInv => AnnouncedServed
  BY DEF IInv
<1> QED
  BY <1>1, Invariance, PTL

----------------------------------------------------------------------------
\* After Shutdown has begun the only call that runs is its own.
ShutdownAlone == shutdownOnce /\ busy # "idle" => target = EmptyState

\* No SetState runs once shutdownOnce is set.
LEMMA ShutdownAloneInvariant == Spec => []ShutdownAlone
<1>1. Init => ShutdownAlone
  BY DEF Init, ShutdownAlone
<1>2. ShutdownAlone /\ [Next]_vars => ShutdownAlone'
  <2> SUFFICES ASSUME ShutdownAlone, [Next]_vars PROVE ShutdownAlone'
    OBVIOUS
  <2> USE DEF ShutdownAlone, external, memory, bounds
  <2>1. CASE SetState \/ Environment
    BY <2>1 DEF SetState, Environment, Want, SetStateRefused, Shutdown, ShutdownSkipped,
                GetStateFails, Fail, Return, Restart, HoldElapses
  <2>2. CASE Step
    BY <2>2 DEF Step, InCall, WaitHold, Finish, AddServiceRefused, Return, WithdrawRoute,
                AdvertiseRoute, AddService, ChangeBalancer, DeleteService, AddReal, UpdateReal,
                DeleteReal, AddAddress, DeleteAddress
  <2>3. CASE UNCHANGED vars
    BY <2>3 DEF vars
  <2> QED
    BY <2>1, <2>2, <2>3 DEF Next
<1> QED
  BY <1>1, <1>2, PTL DEF Spec

\* After Shutdown has begun, services, addresses and routes only disappear,
\* whatever SetState is called with.
THEOREM ShutdownRemovesOnly == Spec => ShutdownOnlyRemoves
<1> DEFINE A == shutdownOnce /\ shutdownOnce' =>
                  /\ Services(ipvs') \subseteq Services(ipvs)
                  /\ linkAddrs' \subseteq linkAddrs /\ paths' \subseteq paths
<1>1. IInv /\ IInv' /\ ShutdownAlone /\ [Next]_vars => [A]_vars
  <2> SUFFICES ASSUME IInv, IInv', ShutdownAlone, Next, shutdownOnce, shutdownOnce'
               PROVE  A
    OBVIOUS
  <2>1. busy # "idle" => work.add = {} /\ work.addrs = {} /\ work.advertise = {} /\ work.adds \cup work.upds \cup work.dels = {}
    BY DEF ShutdownAlone, IInv, WorkOK, EmptyState, Services
  <2>2. CASE SetState \/ Environment
    BY <2>2 DEF SetState, Environment, Want, SetStateRefused, Shutdown, ShutdownSkipped,
                GetStateFails, Fail, Return, Restart, HoldElapses, external
  <2>3. ASSUME NEW s \in Service, DeleteService(s) PROVE A
    BY <2>3 DEF DeleteService, IInv, TypeOK, Tables, Services
  <2>4. CASE WaitHold \/ Finish \/ AddServiceRefused
    BY <2>4 DEF WaitHold, Finish, AddServiceRefused, Return, external
  <2>5. ASSUME NEW r \in Route, WithdrawRoute(r) \/ AdvertiseRoute(r) PROVE A
    BY <2>5, <2>1 DEF WithdrawRoute, AdvertiseRoute, Stage
  <2>6. ASSUME NEW s \in Service, AddService(s) \/ ChangeBalancer(s) PROVE A
    BY <2>6, <2>1 DEF AddService, ChangeBalancer, Stage, external
  <2>7. ASSUME NEW u \in Upstream, AddReal(u) \/ UpdateReal(u) \/ DeleteReal(u) PROVE A
    BY <2>7, <2>1 DEF AddReal, UpdateReal, DeleteReal, Stage
  <2>8. ASSUME NEW v \in Vip, AddAddress(v) \/ DeleteAddress(v) PROVE A
    BY <2>8, <2>1 DEF AddAddress, DeleteAddress, Stage
  <2> QED
    BY <2>2, <2>3, <2>4, <2>5, <2>6, <2>7, <2>8 DEF Next, Step
<1> QED
  BY <1>1, Invariance, ShutdownAloneInvariant, PTL DEF Spec, ShutdownOnlyRemoves
=============================================================================
