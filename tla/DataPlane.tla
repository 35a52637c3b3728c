----------------------------- MODULE DataPlane -----------------------------
(***************************************************************************)
(* The data plane manager of kglb: Manager.SetState and Manager.Shutdown    *)
(* (data_plane/manager.go) with the three managers they drive, the ipvs     *)
(* balancers, the loopback addresses and the BGP routes.  SetState reads    *)
(* the current state, computes the difference with the requested one once,  *)
(* and then applies it with one call of an external module at a time; any   *)
(* of those calls may fail, which ends SetState with everything done so far *)
(* left in place.  The whole call runs under Manager.mutex.                 *)
(*                                                                          *)
(* The kernel (ipvs tables, loopback) outlives the process.  The BGP        *)
(* speaker and the memory of the managers do not.                           *)
(***************************************************************************)
EXTENDS Integers, FiniteSets

CONSTANTS
    Vip,          \* addresses of services, put on the loopback
    NoVip,        \* the address of a fwmark service
    Service,      \* LbService values: the key of BalancerStateComparable
    Slot,         \* what the kernel tells services apart by: vip:port/proto or fwmark
    VipOf,        \* Service -> Vip or NoVip
    SlotOf,       \* Service -> Slot
    Upstream,     \* real servers, address:port
    Weight,       \* weights of real servers
    Route,        \* BGP route attributes but for the hold time
    Prefix,       \* the address of a route's prefix, the key of holdTimeouts
    PrefixOf,     \* Route -> Prefix
    Covers,       \* Route -> the vips that it attracts traffic for
    HoldOf,       \* Route -> HoldTimeMs of the route
    DesiredState, \* data plane states the control plane sends
    NoService,    \* no such service in a table of services
    NoReal,       \* no such real server in a service
    NoCur,        \* no balancer is being worked on
    NoHold,       \* no entry in holdTimeouts
    NoState,      \* the control plane has no state yet
    Failing,      \* stages in which a call of an external module may fail
    MaxFailures, MaxRestarts, MaxChanges   \* bounds of the environment

Reals == [Upstream -> Weight \cup {NoReal}]     \* the real servers of a service
NoReals == [u \in Upstream |-> NoReal]
Tables == [Service -> Reals \cup {NoService}]   \* ipvs services with their reals
EmptyState == [ipvs |-> [s \in Service |-> NoService], addrs |-> {}, routes |-> {}]

RealsOf(t) == {u \in Upstream : t[u] # NoReal}
Services(ipvs) == {s \in Service : ipvs[s] # NoService}

\* What the control plane promises of a state (RoutesReady of ControlPlane): the
\* vip of every balancer is among the link addresses, and a route is announced
\* only for balancers, at least one, that all have upstreams.  That is so when a
\* balancer with a route is configured with a vip in the route's prefix and when
\* the prefixes of two balancers are equal or disjoint: generateRoutes does not
\* hold back a wide prefix because of a balancer that is not ready in a narrow one.
WellFormed(d) ==
    /\ \A s \in Services(d.ipvs) : VipOf[s] \in d.addrs \cup {NoVip}
    /\ \A r \in d.routes :
          /\ \E s \in Services(d.ipvs) : VipOf[s] \in Covers[r]
          /\ \A s \in Services(d.ipvs) : VipOf[s] \in Covers[r] => RealsOf(d.ipvs[s]) # {}

Stages == {"idle", "withdraw", "sleep", "addReal", "updateReal", "deleteReal",
           "addService", "addAddress", "changeBalancer", "advertise",
           "deleteService", "deleteAddress", "done"}

ASSUME ConstantsAssumption ==
    /\ VipOf \in [Service -> Vip \cup {NoVip}] /\ NoVip \notin Vip
    /\ SlotOf \in [Service -> Slot]
    /\ PrefixOf \in [Route -> Prefix]
    /\ Covers \in [Route -> SUBSET Vip]
    /\ HoldOf \in [Route -> Nat]
    /\ NoReal \notin Weight /\ NoService \notin Reals /\ NoHold \notin Nat
    /\ NoCur \notin Service
    /\ MaxFailures \in Nat /\ MaxRestarts \in Nat /\ MaxChanges \in Nat
    /\ Failing \subseteq Stages \cup {"getState"}

ASSUME DesiredAssumption ==
    \A d \in DesiredState :
        /\ d # NoState
        /\ d \in [ipvs : Tables, addrs : SUBSET Vip, routes : SUBSET Route]
        /\ WellFormed(d)

VARIABLES
    wanted,       \* ControlPlaneServicer.state, what every SetState is called with
    ipvs,         \* the kernel's services and their real servers
    linkAddrs,    \* the addresses on the loopback
    paths,        \* the routes the BGP speaker announces
    draining,     \* routes this process withdrew whose hold time has not passed yet
    lost,         \* such routes of a process that died: no process knows of them
    tracked,      \* AddressManager.state
    holdTimeouts, \* DynamicRoutingManager.holdTimeouts
    shutdownOnce, \* Manager.shutdownOnce
    busy,         \* who holds Manager.mutex: "idle", "set" or "shutdown"
    target,       \* the state the call that holds the mutex moves to
    work,         \* what is left of the difference it computed
    result,       \* what the last call returned: "none" before it returns
    failures, restarts, changes

external == <<ipvs, linkAddrs, paths, draining, lost>>
memory == <<tracked, holdTimeouts, shutdownOnce>>
bounds == <<failures, restarts, changes>>
vars == <<wanted, external, memory, busy, target, work, result, bounds>>

NoWork == [withdraw |-> {}, holds |-> [r \in Route |-> 0], maxHold |-> 0,
           add |-> {}, addrs |-> {}, change |-> {},
           cur |-> NoCur, adds |-> {}, upds |-> {}, dels |-> {},
           advertise |-> {}, delete |-> {}, delAddrs |-> {}]

Init ==
    /\ wanted = NoState
    /\ ipvs = EmptyState.ipvs /\ linkAddrs = {} /\ paths = {} /\ draining = {} /\ lost = {}
    /\ tracked = {} /\ holdTimeouts = [p \in Prefix |-> NoHold] /\ shutdownOnce = FALSE
    /\ busy = "idle" /\ target = EmptyState /\ work = NoWork /\ result = "none"
    /\ failures = 0 /\ restarts = 0 /\ changes = 0

----------------------------------------------------------------------------
\* The difference between the current state and a requested one.

\* Mutant: the hold time is taken from the map without looking whether it is there.
BugListedHold(r) == holdTimeouts[PrefixOf[r]]

\* DynamicRoutingManager.ListRoutes: the hold time of a listed route.
ListedHold(r) ==
    IF holdTimeouts[PrefixOf[r]] # NoHold THEN holdTimeouts[PrefixOf[r]] ELSE HoldOf[r]

\* AddressManager.State: the tracked addresses that still exist.
AddressState == tracked \cap linkAddrs

\* Mutant: reals with a new weight are not told apart from unchanged ones.
BugCompareUpstreams(s, old, new) ==
    [cur |-> s, adds |-> RealsOf(new) \ RealsOf(old), upds |-> {},
     dels |-> RealsOf(old) \ RealsOf(new)]

\* CompareUpstreamState of the reals old and new of a service s.
CompareUpstreams(s, old, new) ==
    [cur |-> s,
     adds |-> RealsOf(new) \ RealsOf(old),
     upds |-> {u \in RealsOf(new) \cap RealsOf(old) : new[u] # old[u]},
     dels |-> RealsOf(old) \ RealsOf(new)]

\* The three comparisons SetState starts with; d is EmptyState for Shutdown.
Difference(d) ==
    [withdraw  |-> paths \ d.routes,
     holds     |-> [r \in Route |-> ListedHold(r)], maxHold |-> 0,
     add       |-> Services(d.ipvs) \ Services(ipvs),
     addrs     |-> d.addrs \ AddressState,
     change    |-> {s \in Services(d.ipvs) \cap Services(ipvs) : d.ipvs[s] # ipvs[s]},
     cur |-> NoCur, adds |-> {}, upds |-> {}, dels |-> {},
     advertise |-> d.routes \ paths,
     delete    |-> Services(ipvs) \ Services(d.ipvs),
     delAddrs  |-> AddressState \ d.addrs]

\* Mutant: routes are announced before the balancers and addresses they need.
BugStage ==
    IF busy = "idle" THEN "idle"
    ELSE IF work.withdraw # {} THEN "withdraw"
    ELSE IF work.maxHold > 0 THEN "sleep"
    ELSE IF work.advertise # {} THEN "advertise"
    ELSE IF work.adds # {} THEN "addReal"
    ELSE IF work.upds # {} THEN "updateReal"
    ELSE IF work.dels # {} THEN "deleteReal"
    ELSE IF work.add # {} THEN "addService"
    ELSE IF work.addrs # {} THEN "addAddress"
    ELSE IF work.change # {} THEN "changeBalancer"
    ELSE IF work.delete # {} THEN "deleteService"
    ELSE IF work.delAddrs # {} THEN "deleteAddress"
    ELSE "done"

\* The order in which the difference is applied, a) to h) in SetState.  A
\* balancer that is being added or changed is finished before anything else:
\* its reals are added, then updated, then deleted.
Stage ==
    IF busy = "idle" THEN "idle"
    ELSE IF work.withdraw # {} THEN "withdraw"
    ELSE IF work.maxHold > 0 THEN "sleep"
    ELSE IF work.adds # {} THEN "addReal"
    ELSE IF work.upds # {} THEN "updateReal"
    ELSE IF work.dels # {} THEN "deleteReal"
    ELSE IF work.add # {} THEN "addService"
    ELSE IF work.addrs # {} THEN "addAddress"
    ELSE IF work.change # {} THEN "changeBalancer"
    ELSE IF work.advertise # {} THEN "advertise"
    ELSE IF work.delete # {} THEN "deleteService"
    ELSE IF work.delAddrs # {} THEN "deleteAddress"
    ELSE "done"

\* What a step of the call that holds the mutex leaves alone.
InCall == UNCHANGED <<wanted, shutdownOnce, busy, target, result, bounds>>

----------------------------------------------------------------------------
(***************************************************************************)
(* Calls.  SetState is called with the control plane's latest state, when   *)
(* that changes and again on every tick.                                    *)
(***************************************************************************)
Want(d) ==
    /\ changes < MaxChanges
    /\ wanted' = d
    /\ changes' = changes + 1
    /\ UNCHANGED <<external, memory, busy, target, work, result, failures, restarts>>

\* Mutant: SetState does not look at shutdownOnce.
BugSetState ==
    /\ busy = "idle" /\ wanted # NoState
    /\ busy' = "set" /\ target' = wanted /\ work' = Difference(wanted) /\ result' = "none"
    /\ UNCHANGED <<wanted, external, memory, bounds>>

SetState ==
    /\ busy = "idle" /\ ~shutdownOnce /\ wanted # NoState
    /\ busy' = "set" /\ target' = wanted /\ work' = Difference(wanted) /\ result' = "none"
    /\ UNCHANGED <<wanted, external, memory, bounds>>

SetStateRefused ==
    /\ busy = "idle" /\ shutdownOnce /\ wanted # NoState
    /\ result' = "err"
    /\ UNCHANGED <<wanted, external, memory, busy, target, work, bounds>>

\* Mutant: Shutdown takes down what the last SetState was asked for, not what is there.
BugShutdown ==
    /\ busy = "idle" /\ ~shutdownOnce
    /\ shutdownOnce' = TRUE
    /\ busy' = "shutdown" /\ target' = EmptyState
    /\ work' = [Difference(EmptyState) EXCEPT !.delete = @ \cap Services(target.ipvs)]
    /\ result' = "none"
    /\ UNCHANGED <<wanted, external, tracked, holdTimeouts, bounds>>

Shutdown ==
    /\ busy = "idle" /\ ~shutdownOnce
    /\ shutdownOnce' = TRUE
    /\ busy' = "shutdown" /\ target' = EmptyState /\ work' = Difference(EmptyState)
    /\ result' = "none"
    /\ UNCHANGED <<wanted, external, tracked, holdTimeouts, bounds>>

ShutdownSkipped ==
    /\ busy = "idle" /\ shutdownOnce
    /\ result' = "ok"
    /\ UNCHANGED <<wanted, external, memory, busy, target, work, bounds>>

\* getStateNonThreadSafe fails: SetState changes nothing, Shutdown has already
\* set shutdownOnce.
GetStateFails ==
    /\ busy = "idle" /\ ~shutdownOnce
    /\ "getState" \in Failing /\ failures < MaxFailures
    /\ shutdownOnce' \in BOOLEAN
    /\ result' = "err"
    /\ failures' = failures + 1
    /\ UNCHANGED <<wanted, external, tracked, holdTimeouts, busy, target, work, restarts, changes>>

----------------------------------------------------------------------------
(***************************************************************************)
(* DynamicRoutingManager.                                                   *)
(***************************************************************************)
\* Mutant: only the hold time of the last route that is withdrawn counts.
BugWithdrawRoute(r) ==
    /\ Stage = "withdraw" /\ r \in work.withdraw
    /\ paths' = paths \ {r}
    /\ draining' = IF HoldOf[r] > 0 THEN draining \cup {r} ELSE draining
    /\ holdTimeouts' = [holdTimeouts EXCEPT ![PrefixOf[r]] = NoHold]
    /\ work' = [work EXCEPT !.withdraw = @ \ {r}, !.maxHold = work.holds[r]]
    /\ InCall /\ UNCHANGED <<ipvs, linkAddrs, lost, tracked>>

WithdrawRoute(r) ==
    /\ Stage = "withdraw" /\ r \in work.withdraw
    /\ paths' = paths \ {r}
    /\ draining' = IF HoldOf[r] > 0 THEN draining \cup {r} ELSE draining
    /\ holdTimeouts' = [holdTimeouts EXCEPT ![PrefixOf[r]] = NoHold]
    /\ work' = [work EXCEPT !.withdraw = @ \ {r},
                            !.maxHold = IF work.holds[r] > @ THEN work.holds[r] ELSE @]
    /\ InCall /\ UNCHANGED <<ipvs, linkAddrs, lost, tracked>>

\* time.Sleep(maxTimeout) at the end of WithdrawRoutes.
WaitHold ==
    /\ Stage = "sleep"
    /\ draining' = {r \in draining : HoldOf[r] > work.maxHold}
    /\ lost' = {r \in lost : HoldOf[r] > work.maxHold}
    /\ work' = [work EXCEPT !.maxHold = 0]
    /\ InCall /\ UNCHANGED <<ipvs, linkAddrs, paths, tracked, holdTimeouts>>

AdvertiseRoute(r) ==
    /\ Stage = "advertise" /\ r \in work.advertise
    /\ paths' = paths \cup {r}
    /\ draining' = draining \ {r} /\ lost' = lost \ {r}
    /\ holdTimeouts' = [holdTimeouts EXCEPT ![PrefixOf[r]] = HoldOf[r]]
    /\ work' = [work EXCEPT !.advertise = @ \ {r}]
    /\ InCall /\ UNCHANGED <<ipvs, linkAddrs, tracked>>

(***************************************************************************)
(* BalancerManager.  The kernel refuses a service whose slot is taken.      *)
(***************************************************************************)
SlotTaken(s) == \E t \in Services(ipvs) : SlotOf[t] = SlotOf[s]

AddService(s) ==
    /\ Stage = "addService" /\ s \in work.add
    /\ ~SlotTaken(s)
    /\ ipvs' = [ipvs EXCEPT ![s] = NoReals]
    /\ work' = [work EXCEPT !.add = @ \ {s}, !.cur = s, !.adds = RealsOf(target.ipvs[s])]
    /\ InCall /\ UNCHANGED <<linkAddrs, paths, draining, lost, tracked, holdTimeouts>>

ChangeBalancer(s) ==
    /\ Stage = "changeBalancer" /\ s \in work.change
    /\ LET diff == CompareUpstreams(s, ipvs[s], target.ipvs[s])
       IN  work' = [work EXCEPT !.change = @ \ {s}, !.cur = s, !.adds = diff.adds,
                                !.upds = diff.upds, !.dels = diff.dels]
    /\ InCall /\ UNCHANGED <<external, tracked, holdTimeouts>>

AddReal(u) ==
    /\ Stage = "addReal" /\ u \in work.adds
    /\ ipvs' = [ipvs EXCEPT ![work.cur][u] = target.ipvs[work.cur][u]]
    /\ work' = [work EXCEPT !.adds = @ \ {u}]
    /\ InCall /\ UNCHANGED <<linkAddrs, paths, draining, lost, tracked, holdTimeouts>>

UpdateReal(u) ==
    /\ Stage = "updateReal" /\ u \in work.upds
    /\ ipvs' = [ipvs EXCEPT ![work.cur][u] = target.ipvs[work.cur][u]]
    /\ work' = [work EXCEPT !.upds = @ \ {u}]
    /\ InCall /\ UNCHANGED <<linkAddrs, paths, draining, lost, tracked, holdTimeouts>>

DeleteReal(u) ==
    /\ Stage = "deleteReal" /\ u \in work.dels
    /\ ipvs' = [ipvs EXCEPT ![work.cur][u] = NoReal]
    /\ work' = [work EXCEPT !.dels = @ \ {u}]
    /\ InCall /\ UNCHANGED <<linkAddrs, paths, draining, lost, tracked, holdTimeouts>>

DeleteService(s) ==
    /\ Stage = "deleteService" /\ s \in work.delete
    /\ ipvs' = [ipvs EXCEPT ![s] = NoService]
    /\ work' = [work EXCEPT !.delete = @ \ {s}]
    /\ InCall /\ UNCHANGED <<linkAddrs, paths, draining, lost, tracked, holdTimeouts>>

(***************************************************************************)
(* AddressManager.  An address that is already on the link is only tracked. *)
(***************************************************************************)
\* Mutant: an address that is already on the link is not tracked.
BugAddAddress(v) ==
    /\ Stage = "addAddress" /\ v \in work.addrs
    /\ linkAddrs' = linkAddrs \cup {v}
    /\ tracked' = IF v \in linkAddrs THEN tracked ELSE tracked \cup {v}
    /\ work' = [work EXCEPT !.addrs = @ \ {v}]
    /\ InCall /\ UNCHANGED <<ipvs, paths, draining, lost, holdTimeouts>>

AddAddress(v) ==
    /\ Stage = "addAddress" /\ v \in work.addrs
    /\ linkAddrs' = linkAddrs \cup {v}
    /\ tracked' = tracked \cup {v}
    /\ work' = [work EXCEPT !.addrs = @ \ {v}]
    /\ InCall /\ UNCHANGED <<ipvs, paths, draining, lost, holdTimeouts>>

DeleteAddress(v) ==
    /\ Stage = "deleteAddress" /\ v \in work.delAddrs
    /\ linkAddrs' = linkAddrs \ {v}
    /\ tracked' = tracked \ {v}
    /\ work' = [work EXCEPT !.delAddrs = @ \ {v}]
    /\ InCall /\ UNCHANGED <<ipvs, paths, draining, lost, holdTimeouts>>

----------------------------------------------------------------------------
(***************************************************************************)
(* The end of a call, and what happens around it.                           *)
(***************************************************************************)
Return(res) ==
    /\ busy' = "idle" /\ result' = res /\ work' = NoWork
    /\ UNCHANGED <<wanted, external, memory, target>>

Finish == Stage = "done" /\ Return("ok") /\ UNCHANGED bounds

\* A call of an external module fails; the operation did not happen.
Fail ==
    /\ Stage \in Failing \ {"idle", "sleep", "changeBalancer", "done"}
    /\ failures < MaxFailures
    /\ failures' = failures + 1
    /\ Return("err")
    /\ UNCHANGED <<restarts, changes>>

\* The kernel refuses the next service to be added.
AddServiceRefused ==
    /\ Stage = "addService" /\ \E s \in work.add : SlotTaken(s)
    /\ Return("err")
    /\ UNCHANGED bounds

\* The hold time of a withdrawn route passes while nobody waits for it.
HoldElapses(r) ==
    /\ r \in draining \cup lost
    /\ draining' = draining \ {r} /\ lost' = lost \ {r}
    /\ UNCHANGED <<wanted, ipvs, linkAddrs, paths, memory, busy, target, work, result, bounds>>

\* The process dies at any point, in the sleep of WithdrawRoutes too, and is
\* started again.  Peers still send traffic along the routes it had withdrawn.
\* The routes it announced end with its BGP session, without a hold time.
Restart ==
    /\ restarts < MaxRestarts
    /\ restarts' = restarts + 1
    /\ paths' = {} /\ draining' = {} /\ lost' = lost \cup draining
    /\ tracked' = {} /\ holdTimeouts' = [p \in Prefix |-> NoHold] /\ shutdownOnce' = FALSE
    /\ busy' = "idle" /\ target' = EmptyState /\ work' = NoWork /\ result' = "none"
    /\ wanted' = NoState
    /\ UNCHANGED <<ipvs, linkAddrs, failures, changes>>

Step ==
    \/ WaitHold \/ Finish \/ AddServiceRefused
    \/ \E r \in Route : WithdrawRoute(r) \/ AdvertiseRoute(r)
    \/ \E s \in Service : AddService(s) \/ ChangeBalancer(s) \/ DeleteService(s)
    \/ \E u \in Upstream : AddReal(u) \/ UpdateReal(u) \/ DeleteReal(u)
    \/ \E v \in Vip : AddAddress(v) \/ DeleteAddress(v)

Environment ==
    \/ \E d \in DesiredState : Want(d)
    \/ SetStateRefused \/ Shutdown \/ ShutdownSkipped \/ GetStateFails \/ Fail \/ Restart
    \/ \E r \in Route : HoldElapses(r)

Next == SetState \/ Step \/ Environment

Spec == Init /\ [][Next]_vars

\* The pusher's ticker keeps calling SetState, and a call that has started runs.
FairSpec == Spec /\ WF_vars(SetState) /\ WF_vars(Step)
----------------------------------------------------------------------------
(***************************************************************************)
(* Properties.                                                              *)
(***************************************************************************)
States == [ipvs : Tables, addrs : SUBSET Vip, routes : SUBSET Route]

Works == [withdraw : SUBSET Route, holds : [Route -> Nat], maxHold : Nat,
          add : SUBSET Service, addrs : SUBSET Vip, change : SUBSET Service,
          cur : Service \cup {NoCur},
          adds : SUBSET Upstream, upds : SUBSET Upstream, dels : SUBSET Upstream,
          advertise : SUBSET Route, delete : SUBSET Service, delAddrs : SUBSET Vip]

\* The types of the variables; the balancer that SetState (manager.go) works on
\* is one of the services in the kernel.
TypeOK ==
    /\ wanted \in States \cup {NoState}
    /\ ipvs \in Tables /\ linkAddrs \in SUBSET Vip
    /\ paths \in SUBSET Route /\ draining \in SUBSET Route /\ lost \in SUBSET Route
    /\ tracked \in SUBSET Vip
    /\ holdTimeouts \in [Prefix -> Nat \cup {NoHold}]
    /\ shutdownOnce \in BOOLEAN
    /\ busy \in {"idle", "set", "shutdown"} /\ result \in {"none", "ok", "err"}
    /\ target \in States
    /\ work \in Works
    /\ work.adds \cup work.upds \cup work.dels # {} => work.cur \in Services(ipvs)
    /\ failures \in 0..MaxFailures /\ restarts \in 0..MaxRestarts /\ changes \in 0..MaxChanges

\* Some balancer of the route is in the kernel with a real server, and its vip
\* is on the loopback.
Serving(r) ==
    \E s \in Services(ipvs) :
        VipOf[s] \in Covers[r] \cap linkAddrs /\ RealsOf(ipvs[s]) # {}

\* The order a) to h) of SetState, and of the default shutdown handler: a route
\* is never announced, not even in the middle of a call, after a failed one or
\* after a restart, without a balancer that can take its traffic.
AnnouncedServed == \A r \in paths : Serving(r)

\* Every address of state d is there, every service and route is there, and
\* nothing else is, but for addresses put on the loopback by an earlier process.
Applied(d) ==
    /\ ipvs = d.ipvs /\ paths = d.routes
    /\ d.addrs \subseteq linkAddrs /\ AddressState = d.addrs
    /\ restarts = 0 => linkAddrs = d.addrs

\* SetState returns nil only when the whole state is in place, whatever earlier
\* calls that failed half-way, or an earlier process, left behind.
OkMeansApplied ==
    busy = "idle" /\ result = "ok" /\ ~shutdownOnce => Applied(target)

\* No service and no address that a route in D attracts traffic for is taken away.
Untouched(D) ==
    \A r \in D :
        /\ linkAddrs \cap Covers[r] \subseteq linkAddrs'
        /\ \A s \in Services(ipvs) : VipOf[s] \in Covers[r] => ipvs'[s] # NoService

\* WithdrawRoutes waits for the hold time: neither a service nor its address is
\* taken away while peers may still send traffic along a route that was withdrawn,
\* by this process or by one before it that died in the wait.
DrainBeforeDelete == [][Untouched(draining \cup lost)]_vars

\* The same of the routes that the running process withdrew, in this call or in
\* an earlier one.  It says nothing of the routes withdrawn by a process that has
\* died since (lost): the process after it does not wait for those.
OwnDrainBeforeDelete == [][Untouched(draining)]_vars

\* Once Shutdown has begun, no later or concurrent SetState brings anything back:
\* services, addresses and routes only disappear until the process restarts.
ShutdownOnlyRemoves ==
    [][shutdownOnce /\ shutdownOnce' =>
          /\ Services(ipvs') \subseteq Services(ipvs)
          /\ linkAddrs' \subseteq linkAddrs /\ paths' \subseteq paths]_vars

\* No service, no route and no address this process put on the loopback.
Clean == Services(ipvs) = {} /\ paths = {} /\ AddressState = {}

\* The default shutdown handler, when none of its calls fails, leaves nothing
\* that a SetState, complete or not, ever put in place.
ShutdownCleans ==
    [][busy = "shutdown" /\ busy' = "idle" /\ result' = "ok" => Clean']_vars

\* Shutdown returns nil, and logs "Shutdown skipped, because it was already
\* done.", only when the data plane has been taken down (manager.go).
ShutdownDone ==
    busy = "idle" /\ result = "ok" /\ shutdownOnce => Clean

\* A service of state d cannot be added: SetState adds new services before it
\* deletes old ones, and an old one holds the slot (a changed scheduler or flag
\* makes another service of the same vip:port).
Blocked(d) == \E s \in Services(d.ipvs) \ Services(ipvs) : SlotTaken(s)

\* Re-applying the state on every tick repairs what a failed call or a lost data
\* plane left: once the state stops changing and calls stop failing, the data
\* plane has it for good.  Nothing but a taken slot prevents it.
EventuallyApplied ==
    <>[](\/ shutdownOnce \/ wanted = NoState
         \/ Applied(wanted) \/ Blocked(wanted))

\* The manager seen from outside: the addresses are those it counts as its own.
Actual == [ipvs |-> ipvs, addrs |-> AddressState, routes |-> paths]

R == INSTANCE Reconciler WITH
    Target <- DesiredState, Nowhere <- EmptyState,
    actual <- Actual, call <- busy, down <- shutdownOnce

\* SetState and Shutdown implement Reconciler: whatever fails and whenever the
\* process dies, every step takes an item from its old value to that of the target
\* and never anywhere else, make before break, and nil is returned at the target only.
ImplementsReconciler == R!Spec
=============================================================================
