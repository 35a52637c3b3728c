-------------------------- MODULE ReconcilerProofs --------------------------
(***************************************************************************)
(* DataPlane implements Reconciler, for all services, routes, upstreams and *)
(* well-formed states, whatever calls fail and whenever the process dies.   *)
(***************************************************************************)
EXTENDS DataPlaneProofs

\* SetState is only called with states of the control plane.
WantedOK == wanted \in DesiredState \cup {NoState}

\* What is left to do is all that lies between the data plane and the target.
Remaining ==
    busy # "idle" =>
        /\ busy = "set" => target \in DesiredState
        /\ busy = "shutdown" => shutdownOnce
        /\ result = "none"
        /\ work.withdraw \cap target.routes = {} /\ paths \subseteq work.withdraw \cup target.routes
        /\ target.routes \subseteq paths \cup work.advertise
        /\ target.addrs \subseteq AddressState \cup work.addrs
        /\ AddressState \subseteq target.addrs \cup work.delAddrs
        /\ Services(ipvs) \subseteq Services(target.ipvs) \cup work.delete
        /\ \A s \in Services(target.ipvs) \ (work.add \cup work.change) : \A u \in Upstream :
              \/ ipvs[s][u] = target.ipvs[s][u]
              \/ s = work.cur /\ u \in work.adds \cup work.upds \cup work.dels

\* Without a restart, no address is on the loopback that the manager does not know.
OwnAddresses == restarts = 0 => linkAddrs = tracked

\* The call that returned last has left the data plane at its target.
AtTarget == busy = "idle" /\ result = "ok" /\ ~shutdownOnce => Actual = target

RInv == IInv /\ WantedOK /\ Remaining /\ OwnAddresses /\ AtTarget

----------------------------------------------------------------------------
\* Items that every step of Reconciler's Work is about, in DataPlane's terms.
ActualTowards ==
    /\ \A s \in Service : (ipvs'[s] # NoService) \in {ipvs[s] # NoService, target.ipvs[s] # NoService}
    /\ \A s \in Service, u \in Upstream :
          R!Real(Actual', s, u) \in {R!Real(Actual, s, u), R!Real(target, s, u)}
    /\ AddressState \cap target.addrs \subseteq AddressState'
    /\ AddressState' \subseteq AddressState \cup target.addrs
    /\ paths \cap target.routes \subseteq paths' /\ paths' \subseteq paths \cup target.routes

\* Everything but the routes is as in the target.
ActualMade ==
    /\ Services(target.ipvs) \subseteq Services(ipvs)
    /\ \A s \in Services(target.ipvs), u \in Upstream : ipvs[s][u] = target.ipvs[s][u]
    /\ target.addrs \subseteq AddressState

\* ActualMade is Reconciler's Made.
LEMMA MadeIs ==
    ASSUME ActualMade PROVE R!Made(Actual, target)
BY DEF ActualMade, Services, Actual, R!Made, R!Has, R!Real

\* A step of a call in these terms is a step of Reconciler.
LEMMA WorkIs ==
    ASSUME busy # "idle", UNCHANGED <<busy, target, shutdownOnce, result>>, ActualTowards,
           paths \subseteq target.routes \/ (ipvs' = ipvs /\ AddressState' = AddressState),
           paths' \subseteq paths \/ ActualMade,
           \/ Services(ipvs) \subseteq Services(ipvs') /\ AddressState \subseteq AddressState'
           \/ ActualMade /\ target.routes \subseteq paths
    PROVE  R!Work
<1>1. R!Towards(Actual, Actual', target)
  BY DEF ActualTowards, R!Towards, R!Has, Actual
<1>2. R!MakeBeforeBreak(Actual, Actual', target)
  BY MadeIs DEF R!MakeBeforeBreak, R!Has, Actual, Services
<1> QED
  BY <1>1, <1>2 DEF R!Work

\* When reals, services and addresses are done, all but the routes is in place.
LEMMA MadeAtStage ==
    ASSUME RInv, busy # "idle", work.adds = {}, work.upds = {}, work.dels = {}, work.add = {},
           work.addrs = {}, work.change = {}
    PROVE  ActualMade
BY DEF RInv, IInv, Progress, Remaining, ActualMade, Services

\* Withdrawing takes away a route that the target does not have.
LEMMA WithdrawRouteStep ==
    ASSUME RInv, NEW r \in Route, WithdrawRoute(r)
    PROVE  R!Work /\ Remaining'
<1> USE DEF RInv, IInv, WithdrawRoute, InCall
<1>0. busy # "idle"
  BY DEF Stage
<1>1. r \notin target.routes
  BY <1>0 DEF Remaining
<1>2. ActualTowards
  BY <1>1 DEF ActualTowards, AddressState, R!Real, R!Has, Actual
<1>3. R!Work
  BY <1>0, <1>2, WorkIs DEF AddressState, Services
<1>4. Remaining'
  BY <1>0, <1>1 DEF Remaining, AddressState, TypeOK, Works, Services
<1> QED
  BY <1>3, <1>4

\* The wait and the choice of the next balancer change nothing of the data plane.
LEMMA WaitHoldStep ==
    ASSUME RInv, WaitHold
    PROVE  R!Work /\ Remaining'
<1> USE DEF RInv, IInv, WaitHold, InCall
<1>0. busy # "idle"
  BY DEF Stage
<1>2. ActualTowards
  BY DEF ActualTowards, AddressState, R!Real, R!Has, Actual
<1>3. R!Work
  BY <1>0, <1>2, WorkIs DEF AddressState, Services
<1>4. Remaining'
  BY <1>0 DEF Remaining, AddressState, TypeOK, Works, Services
<1> QED
  BY <1>3, <1>4

\* A route is announced when everything it needs is in place.
LEMMA AdvertiseRouteStep ==
    ASSUME RInv, NEW r \in Route, AdvertiseRoute(r)
    PROVE  R!Work /\ Remaining'
<1> USE DEF RInv, IInv, AdvertiseRoute, InCall
<1>0. busy # "idle" /\ ActualMade /\ r \in target.routes
  BY MadeAtStage DEF Stage, WorkOK
<1>2. ActualTowards
  BY <1>0 DEF ActualTowards, AddressState, R!Real, R!Has, Actual
<1>3. R!Work
  BY <1>0, <1>2, WorkIs DEF AddressState, Services
<1>4. Remaining'
  BY <1>0 DEF Remaining, AddressState, TypeOK, Works, Services
<1> QED
  BY <1>3, <1>4

\* A new service starts without reals; all reals of the target are the next work.
LEMMA AddServiceStep ==
    ASSUME RInv, NEW s \in Service, AddService(s)
    PROVE  R!Work /\ Remaining'
<1> USE DEF RInv, IInv, AddService, InCall
<1>0. busy # "idle" /\ work.withdraw = {} /\ work.adds = {} /\ work.upds = {} /\ work.dels = {}
  BY DEF Stage
<1>1. s \in Services(target.ipvs) /\ s \notin Services(ipvs)
  BY DEF WorkOK, SlotTaken
<1>2. /\ \A t \in Service : t # s => ipvs'[t] = ipvs[t]
      /\ ipvs'[s] = NoReals /\ NoReals # NoService
  <2>1. NoReals \in Reals
    BY DEF NoReals, Reals
  <2> QED
    BY <2>1, ConstantsAssumption DEF TypeOK, Tables
<1>3. \A u \in Upstream : NoReals[u] = NoReal
  BY DEF NoReals
<1>4. ActualTowards
  BY <1>1, <1>2, <1>3 DEF ActualTowards, AddressState, R!Real, R!Has, Actual, Services
<1>5. paths \subseteq target.routes
  BY <1>0 DEF Remaining
<1>6. R!Work
  BY <1>0, <1>2, <1>4, <1>5, WorkIs DEF AddressState, Services
<1>7. work'.add = work.add \ {s} /\ work'.cur = s /\ work'.adds = RealsOf(target.ipvs[s])
      /\ work'.change = work.change /\ work'.withdraw = work.withdraw /\ work'.addrs = work.addrs
      /\ work'.advertise = work.advertise /\ work'.delAddrs = work.delAddrs /\ work'.delete = work.delete
  BY DEF TypeOK, Works
<1>8. \A t \in Services(target.ipvs) \ (work'.add \cup work'.change) : \A u \in Upstream :
         \/ ipvs'[t][u] = target.ipvs[t][u]
         \/ t = s /\ u \in work'.adds
  BY <1>0, <1>2, <1>3, <1>7 DEF Remaining, Services, RealsOf
<1>9. Remaining'
  BY <1>0, <1>1, <1>2, <1>7, <1>8 DEF Remaining, AddressState, Services
<1> QED
  BY <1>6, <1>9

\* The work on a balancer is all its reals that differ from the target's.
LEMMA ChangeBalancerStep ==
    ASSUME RInv, NEW s \in Service, ChangeBalancer(s)
    PROVE  R!Work /\ Remaining'
<1> USE DEF RInv, IInv, ChangeBalancer, InCall, external
<1>0. busy # "idle" /\ work.adds = {} /\ work.upds = {} /\ work.dels = {}
  BY DEF Stage
<1>2. ActualTowards
  BY DEF ActualTowards, AddressState, R!Real, R!Has, Actual
<1>3. R!Work
  BY <1>0, <1>2, WorkIs DEF AddressState, Services
<1>4. work'.add = work.add /\ work'.change = work.change \ {s} /\ work'.cur = s
      /\ work'.adds = RealsOf(target.ipvs[s]) \ RealsOf(ipvs[s])
      /\ work'.upds = {u \in RealsOf(target.ipvs[s]) \cap RealsOf(ipvs[s]) : target.ipvs[s][u] # ipvs[s][u]}
      /\ work'.dels = RealsOf(ipvs[s]) \ RealsOf(target.ipvs[s])
      /\ work'.withdraw = work.withdraw /\ work'.addrs = work.addrs
      /\ work'.advertise = work.advertise /\ work'.delAddrs = work.delAddrs /\ work'.delete = work.delete
  BY DEF TypeOK, Works, CompareUpstreams
<1>5. \A u \in Upstream : ipvs[s][u] = target.ipvs[s][u] \/ u \in work'.adds \cup work'.upds \cup work'.dels
  BY <1>4 DEF RealsOf
<1>6. Remaining'
  BY <1>0, <1>4, <1>5 DEF Remaining, AddressState
<1> QED
  BY <1>3, <1>6

\* Real u of the current balancer becomes what it is in the target.
CurSet(u) ==
    /\ \A s \in Service : s # work.cur => ipvs'[s] = ipvs[s]
    /\ \A v \in Upstream : v # u => ipvs'[work.cur][v] = ipvs[work.cur][v]
    /\ ipvs'[work.cur][u] = target.ipvs[work.cur][u]
    /\ ipvs'[work.cur] # NoService
    /\ UNCHANGED <<linkAddrs, paths, tracked, busy, target, shutdownOnce, result>>

\* Writing the target's value of a real to the table does that.
LEMMA SetCur ==
    ASSUME TypeOK, NEW u \in Upstream, work.cur \in Service, ipvs[work.cur] # NoService,
           NEW w \in Weight \cup {NoReal}, w = target.ipvs[work.cur][u],
           ipvs' = [ipvs EXCEPT ![work.cur][u] = w],
           UNCHANGED <<linkAddrs, paths, tracked, busy, target, shutdownOnce, result>>
    PROVE  CurSet(u)
<1>1. ipvs[work.cur] \in Reals
  BY DEF TypeOK, Tables
<1>2. [ipvs[work.cur] EXCEPT ![u] = w] \in Reals
  BY <1>1 DEF Reals
<1>3. ipvs' = [ipvs EXCEPT ![work.cur] = [ipvs[work.cur] EXCEPT ![u] = w]]
  BY <1>1 DEF TypeOK, Tables
<1>4. ipvs'[work.cur] = [ipvs[work.cur] EXCEPT ![u] = w] /\ ipvs'[work.cur] # NoService
  BY <1>2, <1>3, ConstantsAssumption DEF TypeOK, Tables
<1>5. \A s \in Service : s # work.cur => ipvs'[s] = ipvs[s]
  BY <1>3 DEF TypeOK, Tables
<1> QED
  BY <1>1, <1>4, <1>5 DEF CurSet, Reals

\* It is a step of Reconciler,
LEMMA CurSetWork ==
    ASSUME busy # "idle", NEW u \in Upstream, CurSet(u), paths \subseteq target.routes,
           work.cur \in Services(ipvs) \cap Services(target.ipvs)
    PROVE  R!Work
<1>1. ActualTowards
  BY DEF CurSet, ActualTowards, AddressState, R!Real, R!Has, Actual, Services
<1>2. Services(ipvs) \subseteq Services(ipvs')
  BY DEF CurSet, Services
<1> QED
  BY <1>1, <1>2, WorkIs DEF CurSet, AddressState

\* and leaves everything else to do.
LEMMA CurSetRemaining ==
    ASSUME Remaining, busy # "idle", NEW u \in Upstream, CurSet(u),
           work.cur \in Services(ipvs) \cap Services(target.ipvs),
           work'.add = work.add, work'.change = work.change, work'.cur = work.cur,
           work.adds \cup work.upds \cup work.dels \subseteq work'.adds \cup work'.upds \cup work'.dels \cup {u},
           work'.withdraw = work.withdraw, work'.addrs = work.addrs, work'.advertise = work.advertise,
           work'.delAddrs = work.delAddrs, work'.delete = work.delete
    PROVE  Remaining'
<1>1. ASSUME NEW s \in Services(target.ipvs) \ (work.add \cup work.change), NEW v \in Upstream
      PROVE  \/ ipvs'[s][v] = target.ipvs[s][v]
             \/ s = work.cur /\ v \in work'.adds \cup work'.upds \cup work'.dels
  <2>1. CASE s # work.cur
    BY <1>1, <2>1 DEF Remaining, CurSet, Services
  <2>2. CASE s = work.cur
    BY <1>1, <2>2 DEF Remaining, CurSet
  <2> QED
    BY <2>1, <2>2
<1>2. Services(ipvs') = Services(ipvs)
  BY DEF CurSet, Services
<1> QED
  BY <1>1, <1>2 DEF Remaining, CurSet, AddressState

\* A real is added with the weight it has in the target.
LEMMA AddRealStep ==
    ASSUME RInv, NEW u \in Upstream, AddReal(u)
    PROVE  R!Work /\ Remaining'
<1> USE DEF RInv, IInv, AddReal, InCall
<1>0. busy # "idle" /\ work.withdraw = {}
  BY DEF Stage
<1>1. work.cur \in Services(ipvs) \cap Services(target.ipvs) /\ work.cur \in Service
  BY DEF WorkOK, Services
<1>2. CurSet(u)
  <2>1. target.ipvs[work.cur] \in Reals
    BY <1>1 DEF Services, TypeOK, States, Tables
  <2>2. target.ipvs[work.cur][u] \in Weight \cup {NoReal}
    BY <2>1 DEF Reals
  <2> QED
    BY <1>1, <2>2, SetCur DEF Services, external
<1>3. R!Work
  BY <1>0, <1>1, <1>2, CurSetWork DEF Remaining
<1>4. work'.add = work.add /\ work'.change = work.change /\ work'.cur = work.cur
      /\ work.adds \cup work.upds \cup work.dels \subseteq work'.adds \cup work'.upds \cup work'.dels \cup {u}
      /\ work'.withdraw = work.withdraw /\ work'.addrs = work.addrs
      /\ work'.advertise = work.advertise /\ work'.delAddrs = work.delAddrs /\ work'.delete = work.delete
  BY DEF TypeOK, Works
<1>5. Remaining'
  BY <1>0, <1>1, <1>2, <1>4, CurSetRemaining
<1> QED
  BY <1>3, <1>5

\* A real gets the weight it has in the target.
LEMMA UpdateRealStep ==
    ASSUME RInv, NEW u \in Upstream, UpdateReal(u)
    PROVE  R!Work /\ Remaining'
<1> USE DEF RInv, IInv, UpdateReal, InCall
<1>0. busy # "idle" /\ work.withdraw = {}
  BY DEF Stage
<1>1. work.cur \in Services(ipvs) \cap Services(target.ipvs) /\ work.cur \in Service
  BY DEF WorkOK, Services
<1>2. CurSet(u)
  <2>1. target.ipvs[work.cur] \in Reals
    BY <1>1 DEF Services, TypeOK, States, Tables
  <2>2. target.ipvs[work.cur][u] \in Weight \cup {NoReal}
    BY <2>1 DEF Reals
  <2> QED
    BY <1>1, <2>2, SetCur DEF Services, external
<1>3. R!Work
  BY <1>0, <1>1, <1>2, CurSetWork DEF Remaining
<1>4. work'.add = work.add /\ work'.change = work.change /\ work'.cur = work.cur
      /\ work.adds \cup work.upds \cup work.dels \subseteq work'.adds \cup work'.upds \cup work'.dels \cup {u}
      /\ work'.withdraw = work.withdraw /\ work'.addrs = work.addrs
      /\ work'.advertise = work.advertise /\ work'.delAddrs = work.delAddrs /\ work'.delete = work.delete
  BY DEF TypeOK, Works
<1>5. Remaining'
  BY <1>0, <1>1, <1>2, <1>4, CurSetRemaining
<1> QED
  BY <1>3, <1>5

\* A real is deleted that the target does not have.
LEMMA DeleteRealStep ==
    ASSUME RInv, NEW u \in Upstream, DeleteReal(u)
    PROVE  R!Work /\ Remaining'
<1> USE DEF RInv, IInv, DeleteReal, InCall
<1>0. busy # "idle" /\ work.withdraw = {}
  BY DEF Stage
<1>1. work.cur \in Services(ipvs) \cap Services(target.ipvs) /\ work.cur \in Service
  BY DEF WorkOK, Services
<1>2. CurSet(u)
  BY <1>1, SetCur DEF WorkOK, RealsOf, Services, TypeOK, States, Tables, Reals
<1>3. R!Work
  BY <1>0, <1>1, <1>2, CurSetWork DEF Remaining
<1>4. work'.add = work.add /\ work'.change = work.change /\ work'.cur = work.cur
      /\ work.adds \cup work.upds \cup work.dels \subseteq work'.adds \cup work'.upds \cup work'.dels \cup {u}
      /\ work'.withdraw = work.withdraw /\ work'.addrs = work.addrs
      /\ work'.advertise = work.advertise /\ work'.delAddrs = work.delAddrs /\ work'.delete = work.delete
  BY DEF TypeOK, Works
<1>5. Remaining'
  BY <1>0, <1>1, <1>2, <1>4, CurSetRemaining
<1> QED
  BY <1>3, <1>5

\* A service goes that the target does not have, when all of the target is there.
LEMMA DeleteServiceStep ==
    ASSUME RInv, NEW s \in Service, DeleteService(s)
    PROVE  R!Work /\ Remaining'
<1> USE DEF RInv, IInv, DeleteService, InCall
<1>0. busy # "idle" /\ ActualMade /\ work.withdraw = {} /\ work.advertise = {}
  BY MadeAtStage DEF Stage
<1>1. s \notin Services(target.ipvs)
  BY DEF WorkOK
<1>2. (\A t \in Service : t # s => ipvs'[t] = ipvs[t]) /\ ipvs'[s] = NoService
  BY DEF TypeOK, Tables
<1>3. ActualTowards
  BY <1>1, <1>2 DEF ActualTowards, AddressState, R!Real, R!Has, Actual, Services
<1>4. R!Work
  BY <1>0, <1>3, WorkIs DEF AddressState, Remaining
<1>5. work'.add = work.add /\ work'.change = work.change /\ work'.cur = work.cur
      /\ work'.adds = work.adds /\ work'.upds = work.upds /\ work'.dels = work.dels
      /\ work'.withdraw = work.withdraw /\ work'.addrs = work.addrs
      /\ work'.advertise = work.advertise /\ work'.delAddrs = work.delAddrs /\ work'.delete = work.delete \ {s}
  BY DEF TypeOK, Works
<1>6. Remaining'
  BY <1>0, <1>1, <1>2, <1>5 DEF Remaining, AddressState, Services
<1> QED
  BY <1>4, <1>6

\* An address of the target is added.
LEMMA AddAddressStep ==
    ASSUME RInv, NEW v \in Vip, AddAddress(v)
    PROVE  R!Work /\ Remaining' /\ OwnAddresses'
<1> USE DEF RInv, IInv, AddAddress, InCall
<1>0. busy # "idle" /\ work.withdraw = {} /\ v \in target.addrs
  BY DEF Stage, WorkOK
<1>1. AddressState' = AddressState \cup {v}
  BY DEF AddressState
<1>2. ActualTowards
  BY <1>0, <1>1 DEF ActualTowards, R!Real, R!Has, Actual
<1>3. R!Work
  BY <1>0, <1>1, <1>2, WorkIs DEF Remaining, Services
<1>4. Remaining'
  BY <1>0, <1>1 DEF Remaining, TypeOK, Works, Services
<1>5. OwnAddresses'
  BY DEF OwnAddresses, bounds
<1> QED
  BY <1>3, <1>4, <1>5

\* An address goes that the target does not have, when all of the target is there.
LEMMA DeleteAddressStep ==
    ASSUME RInv, NEW v \in Vip, DeleteAddress(v)
    PROVE  R!Work /\ Remaining' /\ OwnAddresses'
<1> USE DEF RInv, IInv, DeleteAddress, InCall
<1>0. busy # "idle" /\ ActualMade /\ work.withdraw = {} /\ work.advertise = {}
  BY MadeAtStage DEF Stage
<1>1. AddressState' = AddressState \ {v} /\ v \notin target.addrs
  BY DEF AddressState, WorkOK
<1>2. ActualTowards
  BY <1>1 DEF ActualTowards, R!Real, R!Has, Actual
<1>3. R!Work
  BY <1>0, <1>1, <1>2, WorkIs DEF Remaining, Services
<1>4. Remaining'
  BY <1>0, <1>1 DEF Remaining, TypeOK, Works, Services
<1>5. OwnAddresses'
  BY DEF OwnAddresses, bounds
<1> QED
  BY <1>3, <1>4, <1>5

----------------------------------------------------------------------------
\* A call starts: all the differences are work.
LEMMA StartRemaining ==
    ASSUME RInv, NEW d \in States, target' = d, work' = Difference(d), result' = "none",
           busy' = "set" => d \in DesiredState, busy' = "shutdown" => shutdownOnce',
           UNCHANGED external, UNCHANGED tracked
    PROVE  Remaining'
<1> USE DEF RInv, IInv, external
<1>1. AddressState' = AddressState
  BY DEF AddressState
<1>2. LET w == Difference(d) IN
      /\ w.withdraw = paths \ d.routes /\ w.advertise = d.routes \ paths
      /\ w.addrs = d.addrs \ AddressState /\ w.delAddrs = AddressState \ d.addrs
      /\ w.delete = Services(ipvs) \ Services(d.ipvs)
  BY DEF Difference
<1>3. LET w == Difference(d) IN
      \A s \in Services(d.ipvs) \ (w.add \cup w.change) : ipvs[s] = d.ipvs[s]
  BY DifferenceOK
<1> QED
  BY <1>1, <1>2, <1>3 DEF Remaining

\* When no work is left the data plane is at the target.
LEMMA FinishStep ==
    ASSUME RInv, Finish
    PROVE  R!Succeed /\ AtTarget'
<1> USE DEF RInv, IInv, Finish, Return
<1>0. busy # "idle" /\ ActualMade /\ work.withdraw = {} /\ work.advertise = {} /\ work.delete = {}
      /\ work.delAddrs = {}
  BY MadeAtStage DEF Stage
<1>1. paths = target.routes /\ AddressState = target.addrs /\ Services(ipvs) = Services(target.ipvs)
  BY <1>0 DEF Remaining, ActualMade
<1>2. ipvs = target.ipvs
  <2>1. ipvs \in Tables /\ target.ipvs \in Tables
    BY DEF TypeOK, States
  <2>2. ASSUME NEW s \in Service PROVE ipvs[s] = target.ipvs[s]
    <3>1. CASE s \in Services(target.ipvs)
      <4>1. ipvs[s] \in Reals /\ target.ipvs[s] \in Reals
        BY <1>1, <2>1, <3>1 DEF Services, Tables
      <4> QED
        BY <1>0, <3>1, <4>1 DEF ActualMade, Reals
    <3>2. CASE s \notin Services(target.ipvs)
      BY <1>1, <3>2 DEF Services
    <3> QED
      BY <3>1, <3>2
  <2> QED
    BY <2>1, <2>2 DEF Tables
<1>3. Actual = target
  BY <1>1, <1>2 DEF Actual, TypeOK, States
<1>4. Actual' = Actual
  BY DEF Actual, AddressState, external, memory
<1> QED
  BY <1>0, <1>3, <1>4 DEF R!Succeed, AtTarget, memory

\* A call that ends early is a failure of Reconciler.
LEMMA FailStep ==
    ASSUME RInv, Fail \/ AddServiceRefused
    PROVE  R!Fail /\ AtTarget'
<1>1. Actual' = Actual
  BY DEF Actual, AddressState, Fail, AddServiceRefused, Return, external, memory
<1>2. busy # "idle"
  BY DEF Fail, AddServiceRefused, Stage
<1> QED
  BY <1>1, <1>2 DEF R!Fail, AtTarget, Fail, AddServiceRefused, Return, memory

\* Steps of a call do not end it.
LEMMA InCallStep ==
    ASSUME RInv, InCall, busy # "idle", linkAddrs' = linkAddrs, tracked' = tracked
    PROVE  WantedOK' /\ OwnAddresses' /\ AtTarget'
BY DEF RInv, InCall, WantedOK, OwnAddresses, AtTarget, bounds

\* Every step within a call is Work, Succeed or Fail of Reconciler.
LEMMA StepImplements ==
    ASSUME RInv, Step
    PROVE  R!Next /\ WantedOK' /\ Remaining' /\ OwnAddresses' /\ AtTarget'
<1> USE DEF R!Next
<1>1. CASE Finish
  BY <1>1, FinishStep DEF RInv, Finish, Return, WantedOK, Remaining, OwnAddresses, external, memory, bounds
<1>2. CASE AddServiceRefused
  BY <1>2, FailStep DEF RInv, AddServiceRefused, Return, WantedOK, Remaining, OwnAddresses, external,
                        memory, bounds
<1>3. CASE WaitHold
  BY <1>3, WaitHoldStep, InCallStep DEF WaitHold, Stage
<1>4. ASSUME NEW r \in Route, WithdrawRoute(r)
      PROVE  R!Work /\ WantedOK' /\ Remaining' /\ OwnAddresses' /\ AtTarget'
  BY <1>4, WithdrawRouteStep, InCallStep DEF WithdrawRoute, Stage
<1>5. ASSUME NEW r \in Route, AdvertiseRoute(r)
      PROVE  R!Work /\ WantedOK' /\ Remaining' /\ OwnAddresses' /\ AtTarget'
  BY <1>5, AdvertiseRouteStep, InCallStep DEF AdvertiseRoute, Stage
<1>6. ASSUME NEW s \in Service, AddService(s)
      PROVE  R!Work /\ WantedOK' /\ Remaining' /\ OwnAddresses' /\ AtTarget'
  BY <1>6, AddServiceStep, InCallStep DEF AddService, Stage
<1>7. ASSUME NEW s \in Service, ChangeBalancer(s)
      PROVE  R!Work /\ WantedOK' /\ Remaining' /\ OwnAddresses' /\ AtTarget'
  BY <1>7, ChangeBalancerStep, InCallStep DEF ChangeBalancer, Stage, external
<1>8. ASSUME NEW s \in Service, DeleteService(s)
      PROVE  R!Work /\ WantedOK' /\ Remaining' /\ OwnAddresses' /\ AtTarget'
  BY <1>8, DeleteServiceStep, InCallStep DEF DeleteService, Stage
<1>9. ASSUME NEW u \in Upstream, AddReal(u)
      PROVE  R!Work /\ WantedOK' /\ Remaining' /\ OwnAddresses' /\ AtTarget'
  BY <1>9, AddRealStep, InCallStep DEF AddReal, Stage
<1>10. ASSUME NEW u \in Upstream, UpdateReal(u)
      PROVE  R!Work /\ WantedOK' /\ Remaining' /\ OwnAddresses' /\ AtTarget'
  BY <1>10, UpdateRealStep, InCallStep DEF UpdateReal, Stage
<1>11. ASSUME NEW u \in Upstream, DeleteReal(u)
      PROVE  R!Work /\ WantedOK' /\ Remaining' /\ OwnAddresses' /\ AtTarget'
  BY <1>11, DeleteRealStep, InCallStep DEF DeleteReal, Stage
<1>12. ASSUME NEW v \in Vip, AddAddress(v)
      PROVE  R!Work /\ WantedOK' /\ Remaining' /\ OwnAddresses' /\ AtTarget'
  BY <1>12, AddAddressStep DEF AddAddress, Stage, InCall, RInv, WantedOK, AtTarget
<1>13. ASSUME NEW v \in Vip, DeleteAddress(v)
      PROVE  R!Work /\ WantedOK' /\ Remaining' /\ OwnAddresses' /\ AtTarget'
  BY <1>13, DeleteAddressStep DEF DeleteAddress, Stage, InCall, RInv, WantedOK, AtTarget
<1> QED
  BY <1>1, <1>2, <1>3, <1>4, <1>5, <1>6, <1>7, <1>8, <1>9, <1>10, <1>11, <1>12, <1>13 DEF Step

\* Every other step starts or refuses a call, is a crash, or is not seen from outside.
LEMMA CallImplements ==
    ASSUME RInv, SetState \/ Environment
    PROVE  (R!Next \/ UNCHANGED R!vars) /\ WantedOK' /\ Remaining' /\ OwnAddresses' /\ AtTarget'
<1> USE DEF RInv, R!Next, external, memory, bounds
<1>1. CASE SetState
  <2>1. wanted \in DesiredState /\ wanted \in States
    BY <1>1 DEF SetState, WantedOK, IInv, TypeOK
  <2>2. R!Set
    BY <1>1, <2>1 DEF SetState, R!Set, Actual, AddressState
  <2>3. Remaining'
    BY <1>1, <2>1, StartRemaining DEF SetState
  <2> QED
    BY <1>1, <2>2, <2>3 DEF SetState, WantedOK, OwnAddresses, AtTarget
<1>2. CASE Shutdown
  <2>1. R!Shutdown
    BY <1>2 DEF Shutdown, R!Shutdown, Actual, AddressState
  <2>2. Remaining'
    BY <1>2, EmptyStateOK, StartRemaining DEF Shutdown
  <2> QED
    BY <1>2, <2>1, <2>2 DEF Shutdown, WantedOK, OwnAddresses, AtTarget
<1>3. CASE SetStateRefused \/ ShutdownSkipped \/ GetStateFails
  <2>1. R!Refuse
    BY <1>3 DEF SetStateRefused, ShutdownSkipped, GetStateFails, R!Refuse, Actual, AddressState, IInv, TypeOK
  <2> QED
    BY <1>3, <2>1 DEF SetStateRefused, ShutdownSkipped, GetStateFails, WantedOK, Remaining, OwnAddresses, AtTarget
<1>4. CASE Fail
  BY <1>4, FailStep DEF Fail, Return, WantedOK, Remaining, OwnAddresses
<1>5. CASE Restart
  <2>1. AddressState' = {}
    BY <1>5 DEF Restart, AddressState
  <2>2. R!Crash
    BY <1>5, <2>1 DEF Restart, R!Crash, Actual
  <2>3. restarts' # 0
    BY <1>5 DEF Restart, IInv, TypeOK
  <2> QED
    BY <1>5, <2>2, <2>3 DEF Restart, WantedOK, Remaining, OwnAddresses, AtTarget
<1>6. ASSUME NEW d \in DesiredState, Want(d)
      PROVE  UNCHANGED R!vars /\ WantedOK' /\ Remaining' /\ OwnAddresses' /\ AtTarget'
  BY <1>6 DEF Want, R!vars, Actual, AddressState, WantedOK, Remaining, OwnAddresses, AtTarget
<1>7. ASSUME NEW r \in Route, HoldElapses(r)
      PROVE  UNCHANGED R!vars /\ WantedOK' /\ Remaining' /\ OwnAddresses' /\ AtTarget'
  BY <1>7 DEF HoldElapses, R!vars, Actual, AddressState, WantedOK, Remaining, OwnAddresses, AtTarget
<1> QED
  BY <1>1, <1>2, <1>3, <1>4, <1>5, <1>6, <1>7 DEF Environment

\* Every step keeps the invariant and is one of Reconciler.
LEMMA NextImplements == RInv /\ [Next]_vars => RInv' /\ [R!Next]_(R!vars)
<1> SUFFICES ASSUME RInv, [Next]_vars PROVE RInv' /\ [R!Next]_(R!vars)
  OBVIOUS
<1>0. IInv'
  BY NextInv DEF RInv
<1>1. CASE Next
  BY <1>0, <1>1, StepImplements, CallImplements DEF Next, RInv
<1>2. CASE UNCHANGED vars
  BY <1>0, <1>2 DEF vars, external, memory, bounds, RInv, WantedOK, Remaining, OwnAddresses, AtTarget,
                    R!vars, Actual, AddressState
<1> QED
  BY <1>1, <1>2

\* The initial state satisfies the invariant and is Reconciler's.
LEMMA InitImplements == Init => RInv /\ R!Init
<1> SUFFICES ASSUME Init PROVE RInv /\ R!Init
  OBVIOUS
<1>1. WantedOK /\ Remaining /\ OwnAddresses /\ AtTarget
  BY DEF Init, WantedOK, Remaining, OwnAddresses, AtTarget
<1>2. R!Init
  BY DEF Init, R!Init, Actual, AddressState, EmptyState
<1> QED
  BY <1>1, <1>2, InitInv DEF RInv

\* SetState and Shutdown of the data plane manager implement Reconciler: only moves
\* towards the target, make before break, success only at the target.
THEOREM DataPlaneReconciles == Spec => ImplementsReconciler
BY InitImplements, NextImplements, PTL DEF Spec, ImplementsReconciler, R!Spec

\* SetState returns nil only when the whole state is in place, whatever earlier
\* calls that failed half-way, or an earlier process, left behind.
THEOREM SuccessIsApplied == Spec => []OkMeansApplied
<1>1. RInv => OkMeansApplied
  <2> SUFFICES ASSUME RInv, busy = "idle", result = "ok", ~shutdownOnce PROVE Applied(target)
    BY DEF OkMeansApplied
  <2>1. Actual = target
    BY DEF RInv, AtTarget
  <2>2. ipvs = target.ipvs /\ paths = target.routes /\ AddressState = target.addrs
    BY <2>1 DEF Actual
  <2> QED
    BY <2>2 DEF RInv, OwnAddresses, Applied, AddressState
<1> QED
  BY <1>1, InitImplements, NextImplements, PTL DEF Spec

----------------------------------------------------------------------------
(***************************************************************************)
(* Hold times.  holdTimeouts is keyed by the address of a prefix: routes    *)
(* with one address that are announced together must have one hold time,    *)
(* and a withdrawal that fails half-way leaves out the waiting.             *)
(***************************************************************************)
HoldsAgree ==
    /\ "withdraw" \notin Failing
    /\ \A d \in DesiredState : \A r, q \in d.routes :
          PrefixOf[r] = PrefixOf[q] => HoldOf[r] = HoldOf[q]

\* What is listed for an announced route, and kept for one that is to be withdrawn,
\* is its hold time, and WithdrawRoutes will sleep for every route that drains.
DrainOK ==
    /\ \A r \in paths : holdTimeouts[PrefixOf[r]] \in {NoHold, HoldOf[r]}
    /\ \A r \in work.withdraw : work.holds[r] = HoldOf[r]
    /\ \A r \in draining : HoldOf[r] > 0 /\ HoldOf[r] <= work.maxHold

\* A new call finds the hold times of the announced routes.
LEMMA StartDrain ==
    ASSUME RInv, DrainOK, busy = "idle", NEW d, work' = Difference(d),
           UNCHANGED <<external, holdTimeouts>>
    PROVE  DrainOK'
<1>1. work.maxHold = 0 /\ draining \subseteq Route /\ paths \subseteq Route
  BY DEF RInv, IInv, WorkOK, NoWork, TypeOK
<1>2. draining = {}
  BY <1>1, ConstantsAssumption DEF DrainOK
<1>3. work'.withdraw \subseteq paths /\ \A r \in Route : work'.holds[r] = ListedHold(r)
  BY DEF Difference
<1>4. \A r \in paths : ListedHold(r) = HoldOf[r]
  BY DEF ListedHold, DrainOK
<1> QED
  BY <1>1, <1>2, <1>3, <1>4 DEF DrainOK, external

\* The steps of a call.
LEMMA StepDrain ==
    ASSUME RInv, ShutdownAlone, DrainOK, HoldsAgree, Step
    PROVE  DrainOK'
<1> USE DEF RInv, IInv
<1>0. /\ draining \subseteq Route /\ paths \subseteq Route /\ work.withdraw \subseteq Route
      /\ HoldOf \in [Route -> Nat] /\ PrefixOf \in [Route -> Prefix]
      /\ holdTimeouts \in [Prefix -> Nat \cup {NoHold}] /\ work \in Works
      /\ work.maxHold \in Nat /\ NoWork.withdraw = {}
  BY ConstantsAssumption DEF TypeOK, Works, NoWork
<1>1. ASSUME NEW r \in Route, WithdrawRoute(r) PROVE DrainOK'
  <2>1. /\ paths' = paths \ {r} /\ work'.withdraw = work.withdraw \ {r} /\ work'.holds = work.holds
        /\ work'.maxHold = IF work.holds[r] > work.maxHold THEN work.holds[r] ELSE work.maxHold
        /\ draining' = IF HoldOf[r] > 0 THEN draining \cup {r} ELSE draining
        /\ holdTimeouts' = [holdTimeouts EXCEPT ![PrefixOf[r]] = NoHold]
        /\ r \in work.withdraw
    BY <1>0, <1>1 DEF WithdrawRoute, Works
  <2>2. work.holds[r] = HoldOf[r] /\ HoldOf[r] \in Nat
    BY <1>0, <2>1 DEF DrainOK
  <2>3. \A q \in draining' : HoldOf[q] > 0 /\ HoldOf[q] <= work'.maxHold
    BY <1>0, <2>1, <2>2 DEF DrainOK
  <2> QED
    BY <1>0, <2>1, <2>3 DEF DrainOK
<1>2. CASE WaitHold
  <2>1. /\ UNCHANGED <<paths, holdTimeouts>> /\ work'.withdraw = work.withdraw /\ work'.holds = work.holds
        /\ draining' = {r \in draining : HoldOf[r] > work.maxHold}
    BY <1>0, <1>2 DEF WaitHold, Works
  <2>2. draining' = {}
    BY <1>0, <2>1 DEF DrainOK
  <2> QED
    BY <2>1, <2>2 DEF DrainOK
<1>3. ASSUME NEW r \in Route, AdvertiseRoute(r) PROVE DrainOK'
  <2>1. /\ paths' = paths \cup {r} /\ draining' = draining \ {r} /\ r \in work.advertise
        /\ work'.withdraw = work.withdraw /\ work'.holds = work.holds /\ work'.maxHold = work.maxHold
        /\ holdTimeouts' = [holdTimeouts EXCEPT ![PrefixOf[r]] = HoldOf[r]]
    BY <1>0, <1>3 DEF AdvertiseRoute, Works
  <2>2. busy # "idle" /\ work.withdraw = {}
    BY <1>3 DEF AdvertiseRoute, Stage
  <2>3. paths \cup {r} \subseteq target.routes
    BY <2>1, <2>2 DEF Remaining, WorkOK
  <2>4. target \in DesiredState \/ target = EmptyState
    BY <2>2 DEF Remaining, ShutdownAlone, TypeOK
  <2>5. \A q \in paths : PrefixOf[q] = PrefixOf[r] => HoldOf[q] = HoldOf[r]
    BY <2>3, <2>4 DEF HoldsAgree, EmptyState
  <2> QED
    BY <1>0, <2>1, <2>5 DEF DrainOK
<1>4. CASE Finish \/ AddServiceRefused
  <2>1. work.maxHold = 0 /\ UNCHANGED <<paths, holdTimeouts, draining>> /\ work' = NoWork
    BY <1>0, <1>4 DEF Finish, AddServiceRefused, Return, Stage, external, memory
  <2> QED
    BY <1>0, <2>1 DEF DrainOK
<1>5. ASSUME UNCHANGED <<paths, holdTimeouts, draining>>, work'.withdraw = work.withdraw,
             work'.holds = work.holds, work'.maxHold = work.maxHold
      PROVE  DrainOK'
  BY <1>5 DEF DrainOK
<1>6. ASSUME NEW s \in Service, AddService(s) \/ ChangeBalancer(s) \/ DeleteService(s) PROVE DrainOK'
  BY <1>0, <1>5, <1>6 DEF AddService, ChangeBalancer, DeleteService, Works, external
<1>7. ASSUME NEW u \in Upstream, AddReal(u) \/ UpdateReal(u) \/ DeleteReal(u) PROVE DrainOK'
  BY <1>0, <1>5, <1>7 DEF AddReal, UpdateReal, DeleteReal, Works
<1>8. ASSUME NEW v \in Vip, AddAddress(v) \/ DeleteAddress(v) PROVE DrainOK'
  BY <1>0, <1>5, <1>8 DEF AddAddress, DeleteAddress, Works
<1> QED
  BY <1>1, <1>2, <1>3, <1>4, <1>6, <1>7, <1>8 DEF Step

\* Everything around the calls, and their start and failure.
LEMMA CallDrain ==
    ASSUME RInv, DrainOK, HoldsAgree, SetState \/ Environment
    PROVE  DrainOK'
<1> USE DEF external, memory
<1>0. /\ draining \subseteq Route /\ HoldOf \in [Route -> Nat] /\ NoWork.withdraw = {}
      /\ work.maxHold \in Nat
  BY ConstantsAssumption DEF RInv, IInv, TypeOK, Works, NoWork
<1>1. CASE SetState \/ Shutdown
  BY <1>1, StartDrain DEF SetState, Shutdown
<1>2. CASE SetStateRefused \/ ShutdownSkipped \/ GetStateFails \/ \E d \in DesiredState : Want(d)
  BY <1>2 DEF SetStateRefused, ShutdownSkipped, GetStateFails, Want, DrainOK
<1>3. CASE Fail
  <2>1. Stage \notin {"idle", "withdraw", "sleep"} /\ work' = NoWork
        /\ UNCHANGED <<paths, holdTimeouts, draining>>
    BY <1>3 DEF Fail, Return, HoldsAgree
  <2>2. work.maxHold = 0
    BY <1>0, <2>1 DEF Stage
  <2> QED
    BY <1>0, <2>1, <2>2 DEF DrainOK
<1>4. CASE Restart
  BY <1>0, <1>4 DEF Restart, DrainOK
<1>5. ASSUME NEW r \in Route, HoldElapses(r) PROVE DrainOK'
  BY <1>5 DEF HoldElapses, DrainOK
<1> QED
  BY <1>1, <1>2, <1>3, <1>4, <1>5 DEF Environment

\* WithdrawRoutes waits for the hold time: neither a service nor its address is
\* taken away while peers may still send traffic along a route that the running
\* process withdrew.  It needs HoldsAgree; run dp_hold shows what a failed withdrawal
\* does to it.  Routes withdrawn by a process that has died since (lost) are not
\* covered: nothing waits for them.
THEOREM DrainsFirst == ASSUME HoldsAgree PROVE Spec => OwnDrainBeforeDelete
<1> DEFINE A == Untouched(draining)
<1>1. Init => DrainOK
  BY DEF Init, DrainOK, NoWork
<1>2. RInv /\ ShutdownAlone /\ DrainOK /\ [Next]_vars => DrainOK'
  <2>1. ASSUME DrainOK, UNCHANGED vars PROVE DrainOK'
    BY <2>1 DEF DrainOK, vars, external, memory
  <2> QED
    BY <2>1, StepDrain, CallDrain DEF Next
<1>3. RInv /\ DrainOK /\ [Next]_vars => [A]_vars
  <2> SUFFICES ASSUME RInv, DrainOK, Next PROVE A
    OBVIOUS
  <2> USE DEF RInv, IInv, Untouched
  <2>1. ASSUME Stage \in {"deleteService", "deleteAddress"} PROVE A
    <3>1. work.maxHold = 0 /\ draining \subseteq Route
      BY <2>1 DEF Stage, TypeOK, Works
    <3> QED
      BY <3>1, ConstantsAssumption DEF DrainOK
  <2>2. ASSUME linkAddrs \subseteq linkAddrs', ipvs' = ipvs PROVE A
    BY <2>2 DEF Services
  <2>3. CASE SetState \/ Environment
    BY <2>2, <2>3 DEF SetState, Environment, Want, SetStateRefused, Shutdown, ShutdownSkipped,
                GetStateFails, Fail, Return, Restart, HoldElapses, external
  <2>4. ASSUME NEW s \in Service, AddService(s) PROVE A
    <3>1. NoReals # NoService
      BY ConstantsAssumption DEF NoReals, Reals
    <3> QED
      BY <2>4, <3>1 DEF AddService, TypeOK, Tables, Services
  <2>5. ASSUME NEW u \in Upstream, AddReal(u) \/ UpdateReal(u) \/ DeleteReal(u) PROVE A
    <3>1. work.cur \in Services(ipvs) \cap Services(target.ipvs) /\ work.cur \in Service
      BY <2>5 DEF AddReal, UpdateReal, DeleteReal, WorkOK, Services
    <3>2. target.ipvs[work.cur] \in Reals
      BY <3>1 DEF Services, TypeOK, States, Tables
    <3>3. target.ipvs[work.cur][u] \in Weight \cup {NoReal}
      BY <3>2 DEF Reals
    <3>4. CASE AddReal(u) \/ UpdateReal(u)
      <4>1. CurSet(u)
        BY <3>1, <3>3, <3>4, SetCur DEF AddReal, UpdateReal, InCall, Services
      <4> QED
        BY <3>1, <4>1 DEF CurSet, Services
    <3>5. CASE DeleteReal(u)
      <4>1. CurSet(u)
        BY <3>1, <3>5, SetCur DEF DeleteReal, InCall, WorkOK, RealsOf, Services, TypeOK, States, Tables, Reals
      <4> QED
        BY <3>1, <4>1 DEF CurSet, Services
    <3> QED
      BY <2>5, <3>4, <3>5
  <2>6. CASE WaitHold \/ Finish \/ AddServiceRefused
    BY <2>2, <2>6 DEF WaitHold, Finish, AddServiceRefused, Return, external
  <2>7. ASSUME NEW r \in Route, WithdrawRoute(r) \/ AdvertiseRoute(r) PROVE A
    BY <2>2, <2>7 DEF WithdrawRoute, AdvertiseRoute
  <2>8. ASSUME NEW s \in Service, ChangeBalancer(s) PROVE A
    BY <2>2, <2>8 DEF ChangeBalancer, external
  <2>9. ASSUME NEW v \in Vip, AddAddress(v) PROVE A
    BY <2>2, <2>9 DEF AddAddress
  <2>10. ASSUME NEW s \in Service, DeleteService(s) PROVE A
    BY <2>1, <2>10 DEF DeleteService
  <2>11. ASSUME NEW v \in Vip, DeleteAddress(v) PROVE A
    BY <2>1, <2>11 DEF DeleteAddress
  <2> QED
    BY <2>3, <2>4, <2>5, <2>6, <2>7, <2>8, <2>9, <2>10, <2>11 DEF Next, Step
<1> QED
  BY <1>1, <1>2, <1>3, InitImplements, NextImplements, ShutdownAloneInvariant, PTL
  DEF Spec, OwnDrainBeforeDelete

----------------------------------------------------------------------------
\* The default shutdown handler, when none of its calls fails, leaves nothing that
\* a SetState, complete or not, ever put in place.
THEOREM ShutdownLeavesNothing == Spec => ShutdownCleans
<1> DEFINE A == busy = "shutdown" /\ busy' = "idle" /\ result' = "ok" => Clean'
<1>1. RInv /\ ShutdownAlone /\ [Next]_vars => [A]_vars
  <2> SUFFICES ASSUME RInv, ShutdownAlone, Next, busy = "shutdown", busy' = "idle", result' = "ok"
               PROVE  Clean'
    OBVIOUS
  <2>1. CASE Finish
    <3>1. Actual = target /\ Actual' = Actual
      BY <2>1, FinishStep DEF R!Succeed
    <3>2. target = EmptyState
      BY DEF RInv, Remaining, ShutdownAlone
    <3>3. ipvs' = EmptyState.ipvs /\ paths' = {} /\ AddressState' = {}
      BY <3>1, <3>2 DEF Actual, EmptyState
    <3> QED
      BY <3>3 DEF Clean, Services, EmptyState
  <2>2. CASE SetState \/ Environment
    BY <2>2 DEF SetState, Environment, Want, SetStateRefused, Shutdown, ShutdownSkipped,
                GetStateFails, Fail, Return, Restart, HoldElapses
  <2>3. CASE Step /\ ~Finish
    BY <2>3 DEF Step, InCall, WaitHold, AddServiceRefused, Return, WithdrawRoute, AdvertiseRoute,
                AddService, ChangeBalancer, DeleteService, AddReal, UpdateReal, DeleteReal,
                AddAddress, DeleteAddress
  <2> QED
    BY <2>1, <2>2, <2>3 DEF Next
<1> QED
  BY <1>1, InitImplements, NextImplements, ShutdownAloneInvariant, PTL DEF Spec, ShutdownCleans
=============================================================================
