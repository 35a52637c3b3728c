# Formal models of kglb

kglb is an IPVS load balancer: a control plane watches upstreams and decides
which balancers and routes there should be, a data plane puts that into the
kernel (ipvs services, addresses on the loopback) and announces routes by BGP.
This directory holds TLA+ models of both, TLC configurations that check them on
small instances, and TLAPS proofs of the properties that matter most.

Paths below are relative to the repository (`src/` here).

## The system

    config loader ──> ControlPlaneServicer ──Set──> data plane Manager
                        │  ▲ balancersUpdatesChan (1)      │
                        ▼  │                               ├─ BalancerManager ── ipvs
     resolver ──> HealthManager ──updateChan(1)──> Balancer├─ AddressManager ─── loopback
                   │ workers                        │      └─ DynamicRoutingManager ── BGP
                   ▼                                ▼
                 health checkers              fwmark.Manager (shared)

| component | state | operations | what makes it correct |
|---|---|---|---|
| data plane Manager (`kglb/data_plane/manager.go`) | `shutdownOnce`; the kernel's services, the addresses, the announced routes behind its three managers | `SetState`, `Shutdown`, under one mutex | no route without a working balancer; nil means applied; nothing comes back after Shutdown; repeated calls repair |
| BalancerManager, AddressManager, DynamicRoutingManager | tracked addresses, `holdTimeouts` | add, change, delete; announce, withdraw and wait | withdrawn routes drain before their services go |
| HealthManager (`kglb/utils/health_manager`) | entries with their health, `lastUpdateState`, a one-place channel | a loop that selects among resolver, timer, configuration and cancellation; workers; `Update`, `UpdateResolver`, `Close` | no lost update; damped health; the first state has been checked; the balancer ends up with the truth |
| CompleteTasks (`kglb/utils/concurrency`) | workers of one call | run tasks, return early when cancelled | nobody writes to the state while it is copied |
| StaticResolver (`kglb/utils/discovery`) | a one-place channel | `Update`, `Close` | the last discovery state arrives |
| Balancer (`kglb/control_plane/balancer.go`) | configuration, `initialState`, the published state | `updateLoop`, `updateState`, `Update`, `Close`, a retry timer | failsafe mode, retries |
| ControlPlaneServicer (`kglb/control_plane/servicer.go`) | balancers, `state`, `initialState` | `updateConfig`, `GenerateDataPlaneState`, `applyDataPlaneState`, the pusher's loop | no lost update behind a shared one-place channel; routes only to ready balancers |
| fwmark.Manager (`kglb/utils/fwmark`) | pool, allocations with reference counts | allocate, get, release | a fwmark in use belongs to one address |
| checks with fwmarks (`health_checker_factory.go`, `fwmark_conn.go`, the checkers) | sockets | look the fwmark up, connect to the vip, wrap, ask, close | a check asks the host it is about; no descriptor leaks |
| CacheResolver, conversions, CompareArrays (`cache_resolver.go`, `ipvs_mqliang_types.go`, `comparable/arrays.go`) | names of services and addresses | `UpdateCache`, lookups; to and from libipvs; differences of lists by key | what is in place is recognised as that |

The hard parts are goroutines that hand over conflated states through one-place
channels, a select statement whose operands are evaluated early, `SetState`
failing half-way or dying with the process while the kernel keeps its tables,
hold times, reference counts shared by balancers, what the kernel hands back in
another form than it was given, and health checks that go through the services
whose health they decide. `PROJECT.json` lists them one by one as hazards.

## Modules

Each module's variables carry the names of the fields they stand for where there
is one; `PROJECT.json` ("map") gives the lines of every definition. Operators
named `Bug...` are the mutated forms the mutants of `PROJECT.json` put in place
of the definition that follows them; no specification uses them.

**DataPlane** is one `Manager`. A call takes the mutex (`busy`), reads the current
state and computes the difference once (`work`); `Stage` is the order a) to h) of
`SetState`, and every call of an external module is a step. Shutdown's handler
does what SetState would do for the empty state. Any call may fail (`Fail`), the
kernel refuses a service whose slot is taken (`AddServiceRefused`), the process
may die anywhere (`Restart`: kernel and loopback stay, the in-process BGP module
and the managers' memory go). `draining` and `lost` are history: routes that were
withdrawn and whose hold time has not passed, by the running process and by one that
died in the wait. (Routes still announced when a process dies end with its BGP
session; nobody withdrew them and they are not counted.) Services are keyed by their whole LbService as
in `BalancerStateComparable`, routes by their attributes without the hold time as
in `BgpRoutingAttributesComparable`.

**HealthManager** is one health manager with its loop (`pc`), the select statement
that keeps looking at the resolver it has evaluated (`selected`), workers that read
an entry when they start and write to `h.state[numTask]` when they end, the
hand-over to the balancer in three steps (store, drain, send) and the balancer's
receive and load. `recent` and `late` are history. Counters saturate at `MaxCount`,
beyond every threshold. A disabled host counts as failing. Tasks are shared out as
**CompleteTasks** says, with a concurrency limit that `Update` changes. Replacing the checker is the same as hosts whose checks change their outcome.
Discovery states have no host twice.

**ControlPlane** has all balancers and the pusher. A health manager is reduced to
what HealthManager shows: it stores, then sends through a one-place channel. The
generation reads one balancer after another, and `generateLinkAddrs` reads them
again. `zombies` are removed balancers whose goroutine may send once more. A
configuration is a list; `ok` says whether creating or updating that balancer
succeeds, and the first that does not ends `updateConfig`. Ratios are percentages. A balancer
for a fwmark has no vip (`NoVip`) and adds no address. A health manager closes its
channel only when its balancer is closed or its resolver is (HealthManager has that);
here `updateLoop` ends with Close.
`Covers` is `prohibitedNet.Contains(allowedNet.IP)`.

**FwmarkManager** has the manager and balancers with `enable_fwmarks`. The calls
of one `updateState` are a list worked off one at a time, so that the calls of two
balancers interleave. `refused`, `twice` and `left` are history: addresses an
allocation was refused for, addresses listed twice, addresses of closed balancers.
`Close` comes between two updates; in the code an update under way goes on after it,
which leaves the same references behind as a Close right after that update.

**IpvsSync** looks closer at what DataPlane takes for granted about ipvs. States are
lists of balancers with lists of upstreams, in which items may have one key; the
kernel has slots with destinations, 16-bit ports and flags as sets; `KglbService`
and `RealServers` read it back with the names of the resolver's caches, and
**CompareArrays** (lists to maps by key, the last one wins) compares that with what
is wanted. SetState's steps c), e) and g) are here, addresses and routes are not.
The kernel may hold services of someone else in the beginning (`Found`), with
protocols, schedulers or forwarding methods that kglb cannot list. Addresses are texts;
`Canonical` is the text that parsing (KglbAddrToNetIp) and writing it again
(NetIpToKglbAddr) gives. The kernel's slots, the keys of upstreams and the caches have
canonical text, what is read back has it too, but vips are compared as they are
written. Texts that are no address do not pass ValidateDataPlaneState. Flags read from the kernel always come with a full mask.

**FwmarkChecks** composes three parts: health checks with `enable_fwmarks`, the
balancer's fwmark calls (it instantiates FwmarkManager) and the data plane's order
of changes. A check looks the fwmark up, makes a socket, connects to the vip, wraps
the descriptor (FileConn duplicates it), asks and closes; descriptors are numbers,
the lowest free one is taken, and closing is by number, so that the second close
of a dropped `os.File` hits whoever has the number. The kernel (`Reach`) sends a
marked connection to a real of the fwmark's service and, without one, to one of
the vip's. The health manager is reduced to cycles of concurrent checks without
damping and the rules for when a state is sent; the balancer's own lookup does not
fail (ControlPlane has that), and a fwmark service is added with its real in one step
(IpvsSync has the calls one by one). Dial and check are one goroutine,
as in the tcp and dns checkers; the http checker's transport dials in its own,
which ends with the same deadline.

Two modules state what a component promises, without how:

- **Reconciler**: a call moves the data plane item by item to a target, make before
  break, reports success only at the target, may fail or die anywhere, and after
  Shutdown the target is empty. `DataPlane!ImplementsReconciler` maps the services
  of the kernel, the addresses kglb tracks and the announced paths to `actual`.
- **HandOver**: a stored state is seen unless a newer one is, and a reader without a
  signal has looked at the last one. `HealthManager!ImplementsHandOver` maps
  `lastUpdate` to `stored`; a full channel, a state that is stored and not sent yet,
  and a balancer that has received and not loaded yet are all `pending`. This is the
  channel that ControlPlane assumes of a health manager.

**DataPlaneProofs**, **ReconcilerProofs**, **HealthManagerProofs**,
**ControlPlaneProofs**, **FwmarkProofs**, **FwmarkChecksProofs** and
**IpvsSyncProofs** hold the theorems; **MC...** the instances.

## Runs

| run | instance | shows |
|---|---|---|
| `data_plane` | 2 vips, 4 services (two ports, one with another scheduler), 2 reals, 3 routes with 2 hold times, 7 states, 3 changes, 2 failures, 1 restart | `AnnouncedServed`, `OkMeansApplied`, `OwnDrainBeforeDelete`, `ShutdownOnlyRemoves`, `ShutdownCleans`, `EventuallyApplied`, `ImplementsReconciler` |
| `dp_hold` | the same, withdrawals may fail, no restart | **violated** `DrainBeforeDelete` |
| `dp_shutdown` | the same | **violated** `ShutdownDone` |
| `health_manager` | 2 hosts, 3 discovery states, 2 resolvers, configurations with rise/fall 2/1 and 1/2 and different limits, 2 changes | `PublishedFresh`, `NoLostUpdate`, `FirstStateChecked`, `FlipsDamped`, `EventuallySeen`, `ImplementsHandOver` |
| `hm_dns` | lookups may fail, 1 change | **violated** `KeepsHealth` |
| `hm_cancel` | 1 change | **violated** `CloneAlone` |
| `control_plane` | 2 balancers on one vip, 2 hosts, nested prefixes, 4 configurations, 3 changes, 1 fault | `NoLostUpdate`, `RoutesReady`, `FailsafeKeepsRoutes`, `EventuallyPushed` |
| `cp_afterinit` | no faults | **violated** `AfterInitChecked` |
| `cp_missedbgp` | no faults | **violated** `GenerateSucceeds` |
| `fwmark` | 2 balancers, 3 addresses, 2 fwmarks, lists with one address twice, 5 updates or closes | `Partition`, `ServicesKeepMarks`, `MarksAccountedFor` |
| `ipvs_sync` | tcp and fwmark services, duplicate upstreams, flags that do not read back, a port beyond 16 bits, alone and next to the port it is cut to, a vip and an upstream in text that is not canonical, foreign services, one of them sctp, 3 states in a row, 2 failures or restarts | `OkExact`, `Recognised`, `AppliedStays`, `Converges` |
| `fwmark_checks` | 2 hosts, one of which may move to another address, 1 fwmark, 2 changes of hosts, names or discovery, 1 failing call | `NoLeak`, `CheckReachesHost`, `HealthTrue` |

Every passing run also checks its module's `TypeOK`. The runs expected to be
violated each show where the code departs from one of its comments, log lines or
tests; the findings of `PROJECT.json` quote them.

*Bounds.* Only the environment is bounded: changes, failures, restarts. A
`SetState` that fails, a `SetState` for another state that fails, one that
succeeds, and a shutdown or restart in between fit into the bounds of
`data_plane`; a hold time needs two routes with different ones; the slot
conflict needs two services with one slot. In `health_manager`, two changes are
enough for a change of discovery or configuration in the middle of checks and
another one before the first has been received; it starts from one initial state
(`MCInit`), as every other one is one or two changes away. In `control_plane`,
three changes let two balancers have health and one be reconfigured. In `fwmark`
the pool is smaller than the set of addresses, so it runs out. In `ipvs_sync` three
states in a row are enough to go away from one and come back with other names in
the caches. In `fwmark_checks` one fwmark is both refused and, by two changes of
discovery, given to another address while the kernel still has it for the old one
and checks with it are under way; one fault is enough for a failed FileConn whose
finalizer runs in a later check.

`DrainBeforeDelete` is about all routes that were withdrawn and have not drained. The
code breaks it in two ways: an error of a later withdrawal skips the wait (`dp_hold`),
and a process that dies in the wait leaves nothing behind that tells the next one of it:
with `Failing = {}` and `MaxRestarts = 1` in `MCDataPlaneHold.cfg`, TLC withdraws a
route, restarts in the wait and deletes the service at once. `OwnDrainBeforeDelete`, which `data_plane` checks, is what is left: the
routes that the running process withdrew. The withdrawals do not fail there; the
theorems, but for the one about hold times, hold for any set of failing calls.
`CHECK_DEADLOCK` is off where the system may stop: a closed health manager, and
models whose only further steps are bounded changes.

*Fairness.* Goroutines that can run do: weak fairness on the loop, the workers,
the balancers and the pusher. Health checks and calls of external modules end.
The ticker fires, hence weak fairness on `SetState`. Go's select picks at random
among the ready cases, so a case that is ready again and again is taken: strong
fairness on `OnResolverState`, on `OnBalancerUpdate` and, in FwmarkChecks, on
`ApplyResolverState`. No fairness is assumed of finalizers. Nothing is assumed of
failures and changes except that there are finitely many.

*Exceptions the liveness properties make.* `EventuallyApplied` excepts a state
that needs a slot an old service holds: services are added before old ones are
deleted, so a changed scheduler on the same vip:port is refused for ever.
`EventuallyPushed` excepts a generation that fails (`cp_missedbgp`), and
`EventuallySeen` a closed or panicked health manager. `Converges` excepts a foreign
service that cannot be listed, a slot held by a service with another scheduler or
other flags, and states whose keys do not read back as they were written
(`KeysReadBack`: HASHED or unsorted flags, ports beyond 16 bits, vips in text that is
not canonical, whose services are never recognised and so keep the upstreams they were
first given); `AppliedStays` says that even then a state in place is left alone.
`Recognised` leaves out the same states and those with such text for an upstream, which
is updated on every tick (`ReadsBack`). `HealthTrue` excepts addresses whose allocation was refused,
which nobody tries again, hosts whose name has moved unless both the health manager
and the balancer have resolved it since, and runs in which finalizers keep closing
sockets of other checks: each socket closed between connect and FileConn makes
another such finalizer, so one failure can go on for ever.

## Proofs

*DataPlane.* For all services, routes, upstreams, weights, hold times, any set of
states and any failing calls: `TypeCorrect`, `RoutesAreServed`
(`Spec => []AnnouncedServed`) and `ShutdownRemovesOnly`
(`Spec => ShutdownOnlyRemoves`). Assumed: `ConstantsAssumption` (types, null values
that differ from the values) and `DesiredAssumption`: the states are `WellFormed`,
that is, vips of balancers are among the addresses and an announced route has
balancers, all with upstreams. `AnnouncedServed` is not inductive: that announcing
a route is safe depends on everything SetState has done before. The inductive
invariant `IInv` adds `StatesOK` (the state being applied is well-formed), `WorkOK`
(what is left to do fits target and kernel, nothing of the target is ever deleted)
and `Progress` (whatever of the target is not in place is still in the work that
is left, and every announced route outside the target is still to be withdrawn).
At stage f) the work that `Progress` mentions is empty, so the target is in place;
at g) and h) only routes of the target are announced and those keep their
balancers. There is one lemma for each action.

*DataPlane implements Reconciler.* `DataPlaneReconciles`
(`Spec => ImplementsReconciler`) and `SuccessIsApplied` (`Spec => []OkMeansApplied`),
from the invariant of DataPlaneProofs and the fact that the work left is the whole
difference between what is in place and the target: every action that changes the
kernel, the addresses or the paths does so by an item of that difference
(`Towards`), at a stage at which the earlier lists are empty (`MakeBeforeBreak`),
and at the end nothing differs.

*DataPlane's hold times and shutdown.* `DrainsFirst` (`OwnDrainBeforeDelete`:
routes withdrawn by a process that died since are left out, nothing waits for them) assumes
`HoldsAgree`: withdrawals do not fail, as in the run, and the routes of one state that
have one address have one hold time. Both are needed: `holdTimeouts` is keyed by the
address, and a withdrawal that fails half-way skips the sleep (`dp_hold`). `DrainOK`
follows the hold time of an announced route into the work of the call that withdraws
it. `ShutdownLeavesNothing` (`ShutdownCleans`) needs no such assumption: it follows
from the refinement, as a call that succeeds is at its target and Shutdown's is empty.

*HealthManager.* For any discovery states, any counts and limits and any number of
resolvers: `SharedOut` (the ranges of CompleteTasks cover every task exactly once,
by the properties of the rounded-up quotient), `TypeCorrect`, `PublishedIsFresh`,
`FirstIsChecked`, `FlipsAreDamped`, `NothingLost` and `HealthManagerHandsOver`.
Assumed: types of the constants, and that discovery states list no host twice. The
invariant `IInv` has `Basic` (types), `Busy` (which tasks can be left at which place
of the loop, and that they index the state they were started for), `Stored` (where
the loop waits, the stored state is that of the entries), `Covered` (in the first
cycle every entry has been checked or has a task left), `Received` (what the
balancer has seen against what is stored, by the place of the hand-over) and
`Counted` (the counter of an entry is the length of the run of equal results in its
history, while they contradict its health).

*ControlPlane.* For any balancers, hosts, routes and configurations without a
balancer twice, and any interleaving of balancers and pusher: `TypeCorrect`,
`NothingLost` (`NoLostUpdate`), `RoutesAreReady` (`RoutesReady`) and `FailsafeKeeps`
(`FailsafeKeepsRoutes`). `Noticed` is the inductive form of `NoLostUpdate`: what a
balancer has published last is in the pushed state, or has been read by the
generation under way, or is still to be read, or a message says there is something
new. For routes, `Read` relates the two passes of a generation over balancers that
change between them: a balancer that had published when the first pass read it has
published when the second asks for its address. `Stored` is the failsafe rule for
single balancers.

*FwmarkManager.* For any pool, any finite set of balancers and any lists:
`PoolPartition` (`Partition`), `TypeCorrect`, `MarksAreKept` (`ServicesKeepMarks`) and
`NoMarkLeaks` (`MarksAccountedFor`). For the first, `IInv` adds that the pool is a
sequence of fwmarks and that entries have a positive reference count. The others need
to know whose references those are: a balancer `Holds` a reference from its
allocation to its release, also in the middle of `updateState`, and `Counted` compares
the reference count with the number of holders: at least as many unless an
allocation was refused, at most as many unless a balancer was closed, nothing at all
for addresses listed twice. `CallsOK` says what the calls left may be, `Marks` that
the services of a holder have the fwmark of their address. What `Without` computes is
shown by induction, as the least counterexample of a set of numbers (`LeastNat`).

*FwmarkChecks.* For any hosts, addresses, fwmarks and file descriptors, with hosts
that share no address: `TypeCorrect`, `NothingLeaks` (`NoLeak`) and
`ChecksReachHosts` (`CheckReachesHost`). The fwmark calls are those of FwmarkManager
with one balancer whose lists have no doubles, so the module instantiates
FwmarkProofs, discharges its assumptions (`Assumed`) and has its invariant. On top,
`Exact` says that with one balancer the stored services are those of the allocated
fwmarks, and `Descriptors` who owns which number and that a number is owned once;
`Sockets`, `Entries`, `Kernel` and `Counters` are types.

*IpvsSync.* For any lists of balancers and upstreams, items with one key included, any
names in the caches and whatever the kernel holds at the start: `TypeCorrect`,
`OkIsExact` (`OkExact`), `ReapplyingIsQuiet` (`AppliedStays`) and `InPlaceIsSeen`
(`Recognised`). Assumed (`StatesAssumption`): the states have the types of the
protobuf messages and pass ValidateDataPlaneState, canonical text is its own canonical
text, and the kernel starts with canonical addresses, 16-bit ports, sets of flags with
HASHED and finitely many services. `OkExact` speaks of the
end of SetState only; `IInv` says where it is in between. `Located`: the kernel has
the services of the target but those still to be added, and those still to be
deleted, each in a slot of its own. `Placed`: those of the target have their
scheduler, flags and destinations, except that one whose upstreams are to be changed
still has destinations `Reads` relates to what was read. `WorkLeft` and `CallsLeft`
say what the work and the calls for the balancer at hand are. For the latter,
`Fine` is the point of the proof: calls that add a destination twice are `Doomed`,
the kernel will refuse one before any other is updated or deleted, and all others lead
from the destinations there are to the wanted ones (`Leads`). The lemmas below it are
about CompareArrays (`UpsMap`, `UpsDiff`, `BalsDiff`), the conversions (`ReadService`,
`ReadReals`: reading is a right inverse of writing) and the kernel after a call
(`AfterIs`). `AppliedStays` and `Recognised` assume `SlotsDiffer`: with two services for
one slot, as a port beyond 16 bits can make it, SetState passes through a kernel that is
that of the last service while it still has calls to make.

*Left to TLC:* liveness (fairness and ENABLED are out of TLAPS' reach): that states get
applied, seen, pushed, that the kernel converges and health becomes true.

## Not modelled

What checkers send and expect, TLS sessions, the syslog and dummy checkers, and file
loading. DNS lookups succeed, fail or name another address; the resolver with a
cache (`dns_resolver.go`) is not used by kglbd. Of the CacheResolver, `hostnameCache`
with `Lookup` and `Cluster` is read by no code of the program. Statistics, logging
and printing have no effect on the modelled state. Validation appears as
assumptions on configurations (ControlPlane) and on generated states (IpvsSync); a
generated state that ValidateDataPlaneState refuses is not modelled: that happens
with `enable_fwmarks` and MASQ, as fwmark services have upstreams with port 0
(balancer.go:404, validate.go:50), and then no state is generated at all. An
`enable_fwmarks` that changes is not modelled, nor is time: a slow check that keeps
`Balancer.Update`, and with it the pusher, waiting shows as a delay only.

## Plan

1. *Composition.* ControlPlane with Reconciler in place of its data plane client, so
   that `WellFormed` follows from `RoutesReady`; two announced prefixes with one
   address, which share an entry of `holdTimeouts`.
2. *Validation.* The generation with states that validation refuses.
