---------------------------- MODULE ControlPlane ----------------------------
(***************************************************************************)
(* The control plane: the balancers' updateLoop goroutines                  *)
(* (control_plane/balancer.go), which turn the health managers' states into *)
(* balancer states, and the servicer's startBackgroundPusher goroutine      *)
(* (control_plane/servicer.go), which applies configurations, generates the *)
(* data plane state from the balancers' states and pushes it.  All          *)
(* balancers wake the pusher through one channel with room for one message. *)
(*                                                                          *)
(* A health manager is what HealthManager shows it to be: it stores its     *)
(* state before it sends, and its one-place channel conflates.              *)
(***************************************************************************)
EXTENDS Integers, Sequences, FiniteSets, SequencesExt

CONSTANTS
    Balancer,    \* keys of balancers: name, vip:vport and protocol
    Vip,         \* Balancer -> its virtual address, or NoVip for one with a fwmark
    NoVip,
    Host,        \* upstream hosts
    Route,       \* prefixes that can be announced
    NoRoute,     \* no BgpAttributes in the configuration
    NoState,     \* no state yet
    Covers,      \* <<p, q>>: prefix p contains the first address of prefix q
    Config,      \* configurations: sequences of [key, conf]
    MaxWeight,   \* bound on weight_up
    MaxChanges,  \* bound on configurations and health changes
    MaxFaults    \* bound on failed name lookups and failed Set calls

\* ok: Balancer.Update or NewBalancer succeeds with it.
Conf == [weight : 1..MaxWeight, route : Route \cup {NoRoute}, ratio : 0..100, ok : BOOLEAN]

Keys(c) == {c[i].key : i \in DOMAIN c}

\* Partial functions; upstreams' weights and health; states of the data plane (conf is
\* no part of the state, it is the configuration it has been generated under).
Partial(S, T) == UNION {[D -> T] : D \in SUBSET S}
Weights == Partial(Host, 0..MaxWeight)
Health == Partial(Host, BOOLEAN)
State == [balancers : Partial(Balancer, Weights), routes : SUBSET Route,
          addrs : SUBSET {Vip[b] : b \in Balancer}, conf : Partial(Balancer, Conf)]

ASSUME ConstantsAssumption ==
    /\ NoState \notin Weights \cup State
    /\ NoRoute \notin Route
    /\ Covers \subseteq Route \X Route /\ \A r \in Route : <<r, r>> \in Covers
    /\ \A c \in Config : /\ c \in Seq([key : Balancer, conf : Conf])
                         /\ Cardinality(Keys(c)) = Len(c)
    /\ MaxWeight \in Nat /\ MaxChanges \in Nat /\ MaxFaults \in Nat

VARIABLES
    bal,         \* s.balancers: key -> Balancer (see NewBalancer)
    zombies,     \* removed balancers whose goroutine may still send
    chan,        \* a message is in balancersUpdatesChan
    pusher,      \* where startBackgroundPusher is
    todo,        \* balancers the generation has still to read
    read,        \* balancer states read so far
    addrs,       \* link addresses generated so far
    svc,         \* s.state, or NoState
    initialState, \* s.initialState
    genError,    \* the last generation has failed
    dp,          \* the last state Set has accepted, or NoState
    afterInit,   \* AfterInitHandler has been called
    changes, faults

genVars == <<todo, read, addrs>>
svcVars == <<svc, initialState, genError>>
dpVars == <<dp, afterInit>>
pusherVars == <<pusher, genVars, svcVars, dpVars>>
vars == <<bal, zombies, chan, pusherVars, changes, faults>>

Empty == <<>>

\* A Balancer: its configuration; the state its health manager has stored last,
\* host -> healthy, and whether there has been one (checked); messages in
\* healthMng.updateChan and updatesConf; a pending retry timer; u.initialState;
\* where updateLoop is, with the state it has loaded; and u.state: the upstreams'
\* weights (NoState: none yet) with the InitialState flag.
NewBalancer(conf) ==
    [conf |-> conf, hm |-> Empty, checked |-> FALSE, hmChan |-> FALSE, confChan |-> FALSE,
     retry |-> FALSE, initial |-> TRUE, pc |-> "idle", loaded |-> Empty,
     state |-> [ups |-> NoState, initial |-> TRUE]]

Init ==
    /\ bal = Empty /\ zombies = {} /\ chan = FALSE
    /\ pusher = "select" /\ todo = {} /\ read = Empty /\ addrs = {}
    /\ svc = NoState /\ initialState = TRUE /\ genError = FALSE
    /\ dp = NoState /\ afterInit = FALSE
    /\ changes = 0 /\ faults = 0

Change == changes < MaxChanges /\ changes' = changes + 1
Fault == faults < MaxFaults /\ faults' = faults + 1

----------------------------------------------------------------------------
(***************************************************************************)
(* A balancer.                                                              *)
(***************************************************************************)
Alive(ups) == {h \in DOMAIN ups : ups[h] # 0}

\* common.AliveUpstreamsRatio is at least ratio percent.
RatioAtLeast(ups, ratio) == Cardinality(Alive(ups)) * 100 >= ratio * Cardinality(DOMAIN ups)

\* What only changes balancer b.
Step(b, new) ==
    /\ bal' = [bal EXCEPT ![b] = new]
    /\ UNCHANGED <<zombies, pusherVars>>

\* The health manager has a new state of the enabled hosts.
HealthChanges(b) ==
    /\ Change
    /\ \E hosts \in SUBSET Host : \E hm \in [hosts -> BOOLEAN] :
          Step(b, [bal[b] EXCEPT !.hm = hm, !.checked = TRUE, !.hmChan = TRUE])
    /\ UNCHANGED <<chan, faults>>

\* updateLoop receives from the health manager or from updatesConf.  That the
\* health manager's channel is closed, which ends the loop, is left out: it follows
\* the Close of the balancer, which the servicer has removed by then (zombies), or
\* the replacement of its resolver by one of another type (HealthManager has that),
\* and BaseDiscoveryFactory makes resolvers of one type only.
Wake(b) ==
    /\ bal[b].pc = "idle"
    /\ \/ bal[b].hmChan /\ Step(b, [bal[b] EXCEPT !.pc = "load", !.hmChan = FALSE])
       \/ bal[b].confChan /\ Step(b, [bal[b] EXCEPT !.pc = "load", !.confChan = FALSE])
    /\ UNCHANGED <<chan, changes, faults>>

GetState(b) ==
    /\ bal[b].pc = "load"
    /\ Step(b, [bal[b] EXCEPT !.pc = "update", !.loaded = bal[b].hm])
    /\ UNCHANGED <<chan, changes, faults>>

\* Mutant: no failsafe mode.
BugUpstreams(loaded, weight, initial) ==
    [h \in DOMAIN loaded |-> IF loaded[h] THEN weight ELSE 0]

\* The weights of the upstreams.  Failsafe mode: once the balancer has had a
\* healthy upstream, all count as healthy when none is.
Upstreams(loaded, weight, initial) ==
    LET failsafe == ~initial /\ \A h \in DOMAIN loaded : ~loaded[h]
    IN  [h \in DOMAIN loaded |-> IF loaded[h] \/ failsafe THEN weight ELSE 0]

\* updateState up to u.state.Store.
UpdateState(b) ==
    /\ bal[b].pc = "update"
    /\ LET initial == bal[b].initial /\ \A h \in DOMAIN bal[b].loaded : ~bal[b].loaded[h]
           ups == Upstreams(bal[b].loaded, bal[b].conf.weight, initial)
       IN  Step(b, [bal[b] EXCEPT !.pc = "send", !.initial = initial,
                                  !.state = [ups |-> ups, initial |-> initial]])
    /\ UNCHANGED <<chan, changes, faults>>

\* Mutant: there is no retry.
BugLookupFails(b) ==
    /\ bal[b].pc = "update" /\ bal[b].loaded # Empty
    /\ Fault
    /\ Step(b, [bal[b] EXCEPT !.pc = "idle"])
    /\ UNCHANGED <<chan, changes>>

\* updateState when a host cannot be resolved: nothing is published, a timer will
\* have it tried again.
LookupFails(b) ==
    /\ bal[b].pc = "update" /\ bal[b].loaded # Empty
    /\ Fault
    /\ Step(b, [bal[b] EXCEPT !.pc = "idle", !.retry = TRUE])
    /\ UNCHANGED <<chan, changes>>

RetryFires(b) ==
    /\ bal[b].retry
    /\ Step(b, [bal[b] EXCEPT !.retry = FALSE, !.confChan = TRUE])
    /\ UNCHANGED <<chan, changes, faults>>

\* The end of updateState, still under the mutex: a send that does not block.
Notify(b) ==
    /\ bal[b].pc = "send"
    /\ Step(b, [bal[b] EXCEPT !.pc = "idle"])
    /\ chan' = TRUE
    /\ UNCHANGED <<changes, faults>>

\* The goroutine of a removed balancer gets through updateState once more, or not.
ZombieEnds ==
    /\ \E b \in zombies : zombies' = zombies \ {b}
    /\ chan' \in {chan, TRUE}
    /\ UNCHANGED <<bal, pusherVars, changes, faults>>

UpdateLoop(b) == Wake(b) \/ GetState(b) \/ UpdateState(b) \/ LookupFails(b) \/ Notify(b)

----------------------------------------------------------------------------
(***************************************************************************)
(* The servicer.                                                            *)
(***************************************************************************)

\* updateConfig stops at the first balancer that fails.
Applied(c) == {i \in DOMAIN c : \A j \in 1..i : c[j].conf.ok}

ConfOf(c, b) == c[CHOOSE i \in DOMAIN c : c[i].key = b].conf

\* Balancer.Update: a new weight makes updateLoop regenerate the state.
BalancerUpdate(b, conf) ==
    [bal[b] EXCEPT !.conf = conf, !.confChan = @ \/ conf.weight # bal[b].conf.weight]

\* Mutant: configurations are applied while a state is being generated.
BugUpdateConfig ==
    /\ Change
    /\ \E c \in Config :
          LET done == {c[i].key : i \in Applied(c)}
              keys == IF Applied(c) = DOMAIN c THEN Keys(c) ELSE done \cup DOMAIN bal
          IN  /\ \A b \in done \cap DOMAIN bal : bal[b].pc # "send"
              /\ bal' = [b \in keys |-> IF b \notin done THEN bal[b]
                                        ELSE IF b \in DOMAIN bal THEN BalancerUpdate(b, ConfOf(c, b))
                                        ELSE NewBalancer(ConfOf(c, b))]
              /\ zombies' = zombies \cup (DOMAIN bal \ keys)
    /\ UNCHANGED <<chan, pusherVars, faults>>

\* updateConfig: balancers are created and updated in turn, up to the first that
\* fails; when none does, those that are not in the configuration are closed.
\* Balancer.Update waits for updateState to release the mutex.  Nothing is sent to
\* balancersUpdatesChan.
UpdateConfig ==
    /\ pusher = "select"
    /\ Change
    /\ \E c \in Config :
          LET done == {c[i].key : i \in Applied(c)}
              keys == IF Applied(c) = DOMAIN c THEN Keys(c) ELSE done \cup DOMAIN bal
          IN  /\ \A b \in done \cap DOMAIN bal : bal[b].pc # "send"
              /\ bal' = [b \in keys |-> IF b \notin done THEN bal[b]
                                        ELSE IF b \in DOMAIN bal THEN BalancerUpdate(b, ConfOf(c, b))
                                        ELSE NewBalancer(ConfOf(c, b))]
              /\ zombies' = zombies \cup (DOMAIN bal \ keys)
    /\ UNCHANGED <<chan, pusherVars, faults>>

\* A message in balancersUpdatesChan: GenerateDataPlaneState begins.
OnBalancerUpdate ==
    /\ pusher = "select" /\ chan
    /\ chan' = FALSE /\ pusher' = "states"
    /\ todo' = DOMAIN bal /\ read' = Empty /\ addrs' = {}
    /\ UNCHANGED <<bal, zombies, svcVars, dpVars, changes, faults>>

\* GenerateDataPlaneState looks at one balancer after the other.
ReadState ==
    /\ pusher = "states"
    /\ \/ \E b \in todo :
             /\ todo' = todo \ {b}
             /\ read' = [c \in DOMAIN read \cup {b} |-> IF c = b THEN bal[b].state ELSE read[c]]
             /\ UNCHANGED pusher
       \/ todo = {} /\ todo' = DOMAIN bal /\ pusher' = "addrs" /\ UNCHANGED read
    /\ UNCHANGED <<bal, zombies, chan, addrs, svcVars, dpVars, changes, faults>>

\* The vip of a balancer.  A service with a fwmark has none: neither a balancer that
\* is configured with one, nor those that are made for a balancer's upstreams.
Vips(b) == {Vip[b]} \ {NoVip}

\* generateLinkAddrs reads the balancers' states a second time.
ReadAddrs ==
    /\ pusher = "addrs"
    /\ \E b \in todo :
          /\ todo' = todo \ {b}
          /\ addrs' = IF bal[b].state.ups = NoState THEN addrs ELSE addrs \cup Vips(b)
    /\ UNCHANGED <<bal, zombies, chan, pusher, read, svcVars, dpVars, changes, faults>>

\* The balancers whose route may be announced.
Ready ==
    {b \in DOMAIN read :
        /\ bal[b].conf.route # NoRoute
        /\ ~read[b].initial
        /\ Alive(read[b].ups) # {} /\ RatioAtLeast(read[b].ups, bal[b].conf.ratio)}

Prohibited == {bal[b].conf.route : b \in DOMAIN read \ Ready}
Allowed == {bal[b].conf.route : b \in Ready}

\* Mutant: a route is announced as soon as one of its balancers is ready.
BugRoutes == Allowed

\* generateRoutes: the allowed routes that lie in no prohibited one.
Routes == {r \in Allowed : \A p \in Prohibited \ {NoRoute} : <<p, r>> \notin Covers}

\* Mutant: the message is taken out of the channel when the state is done.
BugGenerated ==
    /\ pusher = "addrs" /\ todo = {}
    /\ svc' = [balancers |-> [b \in {b \in DOMAIN read : read[b].ups # NoState} |-> read[b].ups],
               routes |-> Routes, addrs |-> addrs, conf |-> [b \in DOMAIN read |-> bal[b].conf]]
    /\ initialState' = (initialState /\ \E b \in DOMAIN read : read[b].ups = NoState)
    /\ genError' = FALSE /\ pusher' = "apply"
    /\ chan' = FALSE
    /\ UNCHANGED <<bal, zombies, genVars, dpVars, changes, faults>>

\* GenerateDataPlaneState ends.
Generated ==
    /\ pusher = "addrs" /\ todo = {}
    /\ NoRoute \in Prohibited => Routes = {}
    /\ svc' = [balancers |-> [b \in {b \in DOMAIN read : read[b].ups # NoState} |-> read[b].ups],
               routes |-> Routes, addrs |-> addrs, conf |-> [b \in DOMAIN read |-> bal[b].conf]]
    /\ initialState' = (initialState /\ \E b \in DOMAIN read : read[b].ups = NoState)
    /\ genError' = FALSE /\ pusher' = "apply"
    /\ UNCHANGED <<bal, zombies, chan, genVars, dpVars, changes, faults>>

\* generateRoutes compares an allowed route with the prohibited ones in some order;
\* one that is nil is no valid prefix, unless another one has decided before.
GenerateFails ==
    /\ pusher = "addrs" /\ todo = {}
    /\ NoRoute \in Prohibited /\ Allowed # {}
    /\ genError' = TRUE /\ pusher' = "select"
    /\ UNCHANGED <<bal, zombies, chan, genVars, svc, initialState, dpVars, changes, faults>>

\* The ticker applies the last state again.
OnTicker ==
    /\ pusher = "select" /\ svc # NoState
    /\ pusher' = "apply"
    /\ UNCHANGED <<bal, zombies, chan, genVars, svcVars, dpVars, changes, faults>>

\* applyDataPlaneState.
Apply ==
    /\ pusher = "apply" /\ pusher' = "select"
    /\ dp' = svc /\ afterInit' = (afterInit \/ ~initialState)
    /\ UNCHANGED <<bal, zombies, chan, genVars, svcVars, changes, faults>>

ApplyFails ==
    /\ pusher = "apply" /\ pusher' = "select"
    /\ Fault
    /\ UNCHANGED <<bal, zombies, chan, genVars, svcVars, dpVars, changes>>

Pusher ==
    \/ OnBalancerUpdate \/ ReadState \/ ReadAddrs \/ Generated \/ GenerateFails
    \/ OnTicker \/ Apply \/ ApplyFails

Next ==
    \/ \E b \in DOMAIN bal : HealthChanges(b) \/ UpdateLoop(b) \/ RetryFires(b)
    \/ ZombieEnds \/ UpdateConfig \/ Pusher

Spec == Init /\ [][Next]_vars

\* Goroutines keep running, timers and the ticker fire, and a select statement
\* picks at random among what is ready.
FairSpec ==
    /\ Spec
    /\ WF_vars(Pusher) /\ SF_vars(OnBalancerUpdate)
    /\ \A b \in Balancer : /\ WF_vars(b \in DOMAIN bal /\ UpdateLoop(b))
                           /\ WF_vars(b \in DOMAIN bal /\ RetryFires(b))

----------------------------------------------------------------------------
(***************************************************************************)
(* Properties.                                                              *)
(***************************************************************************)
BalancerRecord ==
    [conf : Conf, hm : Health, checked : BOOLEAN, hmChan : BOOLEAN, confChan : BOOLEAN,
     retry : BOOLEAN, initial : BOOLEAN, pc : {"idle", "load", "update", "send"}, loaded : Health,
     state : [ups : Weights \cup {NoState}, initial : BOOLEAN]]
\* s is a member of State, and has no balancer that is not configured.
IsState(s) ==
    /\ DOMAIN s.conf \subseteq Balancer /\ \A b \in DOMAIN s.conf : s.conf[b] \in Conf
    /\ DOMAIN s.balancers \subseteq DOMAIN s.conf
    /\ \A b \in DOMAIN s.balancers : s.balancers[b] \in Weights
    /\ s.routes \subseteq Route /\ s.addrs \subseteq {Vip[b] : b \in Balancer}

\* Types; a generation works on balancers that the servicer has.
TypeOK ==
    /\ DOMAIN bal \subseteq Balancer /\ \A b \in DOMAIN bal : bal[b] \in BalancerRecord
    /\ zombies \subseteq Balancer /\ chan \in BOOLEAN
    /\ pusher \in {"select", "states", "addrs", "apply"}
    /\ todo \subseteq DOMAIN bal
    /\ pusher \in {"states", "addrs"} => DOMAIN read \subseteq DOMAIN bal
    /\ addrs \subseteq {Vip[b] : b \in Balancer}
    /\ (svc # NoState => IsState(svc)) /\ (dp # NoState => IsState(dp))
    /\ initialState \in BOOLEAN /\ genError \in BOOLEAN /\ afterInit \in BOOLEAN
    /\ changes \in 0..MaxChanges /\ faults \in 0..MaxFaults

\* The balancers share a channel that holds one message and drop what does not fit.
\* No update is lost by that: with the channel empty, the pusher waiting and no
\* balancer about to send, the servicer's state has what every balancer has stored
\* last.
NoLostUpdate ==
    (pusher = "select" /\ ~chan /\ ~genError /\ \A b \in DOMAIN bal : bal[b].pc # "send") =>
        \A b \in DOMAIN bal : bal[b].state.ups # NoState =>
            svc # NoState /\ b \in DOMAIN svc.balancers /\ svc.balancers[b] = bal[b].state.ups

\* A route that the servicer hands to the data plane leads to working balancers:
\* each balancer configured with it is in the same state, has its address there and
\* an upstream with a weight, even though GenerateDataPlaneState and
\* generateLinkAddrs read the balancers' states at different times.
RoutesReady ==
    \A s \in {svc, dp} \ {NoState} : \A r \in s.routes :
        /\ \E b \in DOMAIN s.conf : s.conf[b].route = r
        /\ \A b \in DOMAIN s.conf : s.conf[b].route = r =>
              b \in DOMAIN s.balancers /\ Alive(s.balancers[b]) # {} /\ Vips(b) \subseteq s.addrs

\* All upstreams failing their checks does not take a route down: when a balancer
\* that stays configured loses its route, some balancer whose prefix covers it has
\* not been initialized, has no upstreams, or has some healthy ones but too few.
FailsafeKeepsRoutes ==
    [][\A r \in Route :
          (svc # NoState /\ svc' # NoState /\ r \in svc.routes \ svc'.routes
              /\ \E b \in DOMAIN svc'.conf : svc'.conf[b].route = r) =>
             \E b \in DOMAIN svc'.conf :
                 /\ <<svc'.conf[b].route, r>> \in Covers
                 /\ \/ read[b].initial \/ read[b].ups = Empty
                    \/ /\ Alive(read[b].ups) # {}
                       /\ ~RatioAtLeast(read[b].ups, svc'.conf[b].ratio)]_vars

\* The handler runs once every balancer has completed one cycle of discovery and
\* health checking.
AfterInitChecked ==
    [][~afterInit /\ afterInit' => \A b \in DOMAIN bal : bal[b].checked]_vars

\* A valid configuration may leave out the BGP attributes of a balancer: states are
\* generated all the same.
GenerateSucceeds == ~genError

\* Once health and configuration stay as they are and lookups and Set calls succeed,
\* the data plane gets what the health managers say of every balancer, with the
\* configured weights, unless no state can be generated.
EventuallyPushed ==
    <>[](genError \/ \A b \in DOMAIN bal : bal[b].checked =>
            /\ dp # NoState /\ b \in DOMAIN dp.balancers
            /\ dp.balancers[b] = Upstreams(bal[b].hm, bal[b].conf.weight, bal[b].initial))
=============================================================================
