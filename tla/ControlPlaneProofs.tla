------------------------- MODULE ControlPlaneProofs -------------------------
(***************************************************************************)
(* Proofs about ControlPlane, for any balancers, hosts, routes and          *)
(* configurations and however the goroutines interleave.                    *)
(***************************************************************************)
EXTENDS ControlPlane, TLAPS

\* GenerateDataPlaneState is running.
Generating == pusher \in {"states", "addrs"}

\* What a balancer publishes.
Published == [ups : Weights \cup {NoState}, initial : BOOLEAN]

\* Types, of what a generation has read too.  Between generations none is under way.
Basic ==
    /\ TypeOK
    /\ ~Generating => todo = {}
    /\ Generating => \A b \in DOMAIN read : read[b] \in Published

\* A balancer that has not published is not initialized and, in failsafe mode, one
\* that is initialized has no upstream with a weight only if it has none at all.
Sound(state) ==
    /\ state.ups = NoState => state.initial
    /\ ~state.initial /\ Alive(state.ups) = {} => state.ups = Empty

Stored == \A b \in DOMAIN bal : Sound(bal[b].state)

\* What a generation has read was published, and a balancer does not unpublish; the
\* second pass finds the address of every balancer that had published by the first.
Read ==
    Generating =>
        /\ \A b \in DOMAIN read :
              Sound(read[b]) /\ (read[b].ups # NoState => bal[b].state.ups # NoState)
        /\ pusher = "states" => DOMAIN bal \subseteq todo \cup DOMAIN read
        /\ pusher = "addrs" =>
              /\ DOMAIN bal \subseteq DOMAIN read
              /\ \A b \in DOMAIN read \ todo : read[b].ups # NoState => Vips(b) \subseteq addrs

\* Where the last state that balancer b has published is known, or will be noticed.
Known(b) ==
    \/ chan \/ bal[b].pc = "send" \/ bal[b].state.ups = NoState
    \/ pusher = "states" /\ b \in todo
    \/ Generating /\ b \in DOMAIN read /\ read[b].ups = bal[b].state.ups
    \/ /\ ~Generating
       /\ \/ genError
          \/ svc # NoState /\ b \in DOMAIN svc.balancers /\ svc.balancers[b] = bal[b].state.ups

Noticed == \A b \in DOMAIN bal : Known(b)

IInv == Basic /\ Stored /\ Read /\ Noticed /\ RoutesReady

----------------------------------------------------------------------------
\* A step of updateLoop, the retry timer or the health manager of balancer b: the
\* state it publishes is sound, it does not unpublish, and after publishing something
\* new it is about to send; it has sent when it no longer is.
LEMMA BalancerStep ==
    ASSUME IInv, NEW b \in DOMAIN bal, NEW new \in BalancerRecord, Step(b, new),
           chan' \in BOOLEAN, chan => chan',
           changes' \in 0..MaxChanges, faults' \in 0..MaxFaults,
           Sound(new.state), bal[b].state.ups # NoState => new.state.ups # NoState,
           \/ new.pc = "send"
           \/ new.state = bal[b].state /\ (bal[b].pc = "send" => chan')
    PROVE  IInv'
<1> USE DEF IInv, Basic, Step, pusherVars, genVars, svcVars, dpVars, Generating
<1>1. /\ DOMAIN bal' = DOMAIN bal /\ bal'[b] = new
      /\ \A c \in DOMAIN bal \ {b} : bal'[c] = bal[c]
  OBVIOUS
<1>2. TypeOK'
  BY <1>1 DEF TypeOK
<1>3. Basic'
  BY <1>2
<1>4. Stored'
  BY <1>1 DEF Stored
<1>5. Read'
  BY <1>1 DEF Read, TypeOK
<1>6. Noticed'
  BY <1>1 DEF Noticed, Known
<1>7. RoutesReady'
  BY DEF RoutesReady
<1> QED
  BY <1>3, <1>4, <1>5, <1>6, <1>7


\* The same for a step that leaves the published state alone and sends nothing.
LEMMA QuietStep ==
    ASSUME IInv, NEW b \in DOMAIN bal, NEW new \in BalancerRecord, Step(b, new),
           chan' = chan, changes' \in 0..MaxChanges, faults' \in 0..MaxFaults,
           new.state = bal[b].state, bal[b].pc = "send" => new.pc = "send"
    PROVE  IInv'
BY BalancerStep DEF IInv, Stored, Basic, TypeOK

\* The weights that updateState computes, and whether it leaves the initial state: an
\* initialized balancer has weights for all its upstreams if none is healthy.
LEMMA UpstreamsSound ==
    ASSUME NEW loaded \in Health, NEW weight \in 1..MaxWeight, NEW was \in BOOLEAN
    PROVE  LET initial == was /\ \A h \in DOMAIN loaded : ~loaded[h]
               ups == Upstreams(loaded, weight, initial)
           IN  ups \in Weights /\ Sound([ups |-> ups, initial |-> initial])
<1> DEFINE initial == was /\ \A h \in DOMAIN loaded : ~loaded[h]
           ups == Upstreams(loaded, weight, initial)
<1>1. DOMAIN loaded \subseteq Host /\ DOMAIN ups = DOMAIN loaded
  BY DEF Health, Partial, Upstreams
<1>2. \A h \in DOMAIN ups : ups[h] \in 0..MaxWeight
  BY ConstantsAssumption DEF Upstreams
<1>3. ups \in [DOMAIN loaded -> 0..MaxWeight]
  BY <1>1, <1>2 DEF Upstreams
<1>4. ups \in Weights
  BY <1>1, <1>3 DEF Weights, Partial
<1>5. ups # NoState
  BY <1>4, ConstantsAssumption
<1>6. ASSUME ~initial, Alive(ups) = {} PROVE ups = Empty
  <2>1. \A h \in DOMAIN ups : ups[h] = 0
    BY <1>6 DEF Alive
  <2>2. DOMAIN loaded = {}
    BY <1>1, <1>6, <2>1 DEF Upstreams
  <2> QED
    BY <1>1, <1>3, <2>2 DEF Empty
<1> QED
  BY <1>4, <1>5, <1>6 DEF Sound

\* The steps of a balancer.
LEMMA BalancerInv ==
    ASSUME IInv, NEW b \in DOMAIN bal, HealthChanges(b) \/ UpdateLoop(b) \/ RetryFires(b)
    PROVE  IInv'
<1> DEFINE r == bal[b]
<1>1. /\ r \in BalancerRecord /\ chan \in BOOLEAN
      /\ changes \in 0..MaxChanges /\ faults \in 0..MaxFaults
      /\ MaxChanges \in Nat /\ MaxFaults \in Nat
  BY ConstantsAssumption DEF IInv, Basic, TypeOK
<1>2. CASE HealthChanges(b)
  <2>1. PICK hm \in Health :
           Step(b, [r EXCEPT !.hm = hm, !.checked = TRUE, !.hmChan = TRUE])
    BY <1>2 DEF HealthChanges, Health, Partial
  <2>2. Change /\ UNCHANGED <<chan, faults>>
    BY <1>2, Zenon DEF HealthChanges
  <2>3. changes' \in 0..MaxChanges /\ faults' = faults /\ chan' = chan
    BY <1>1, <2>2 DEF Change
  <2>4. [r EXCEPT !.hm = hm, !.checked = TRUE, !.hmChan = TRUE] \in BalancerRecord
    BY <1>1 DEF BalancerRecord
  <2> QED
    BY <1>1, <2>1, <2>3, <2>4, QuietStep DEF BalancerRecord
<1>3. CASE Wake(b)
  <2>1. PICK new \in {[r EXCEPT !.pc = "load", !.hmChan = FALSE],
                      [r EXCEPT !.pc = "load", !.confChan = FALSE]} : Step(b, new)
    BY <1>3 DEF Wake
  <2>2. new \in BalancerRecord /\ new.state = r.state
    BY <1>1 DEF BalancerRecord
  <2> QED
    BY <1>1, <1>3, <2>1, <2>2, QuietStep DEF Wake
<1>4. CASE GetState(b)
  <2> DEFINE new == [r EXCEPT !.pc = "update", !.loaded = r.hm]
  <2>1. new \in BalancerRecord /\ new.state = r.state
    BY <1>1 DEF BalancerRecord
  <2> QED
    BY <1>1, <1>4, <2>1, QuietStep DEF GetState
<1>5. CASE UpdateState(b)
  <2> DEFINE initial == r.initial /\ \A h \in DOMAIN r.loaded : ~r.loaded[h]
             ups == Upstreams(r.loaded, r.conf.weight, initial)
             new == [r EXCEPT !.pc = "send", !.initial = initial,
                              !.state = [ups |-> ups, initial |-> initial]]
  <2>1. r.loaded \in Health /\ r.conf.weight \in 1..MaxWeight /\ r.initial \in BOOLEAN
    BY <1>1 DEF BalancerRecord, Conf
  <2>2. ups \in Weights /\ Sound([ups |-> ups, initial |-> initial])
    BY <2>1, UpstreamsSound
  <2>3. initial \in BOOLEAN /\ ups # NoState
    BY <2>2, ConstantsAssumption
  <2>4. /\ new \in BalancerRecord /\ new.pc = "send"
        /\ new.state = [ups |-> ups, initial |-> initial]
    BY <1>1, <2>2, <2>3 DEF BalancerRecord
  <2>5. Step(b, new) /\ UNCHANGED <<chan, changes, faults>>
    BY <1>5 DEF UpdateState
  <2> HIDE DEF initial, ups, new
  <2> QED
    BY <1>1, <2>2, <2>3, <2>4, <2>5, BalancerStep
<1>6. CASE LookupFails(b)
  <2> DEFINE new == [r EXCEPT !.pc = "idle", !.retry = TRUE]
  <2>1. new \in BalancerRecord /\ new.state = r.state
    BY <1>1 DEF BalancerRecord
  <2>2. faults' \in 0..MaxFaults
    BY <1>1, <1>6 DEF LookupFails, Fault
  <2> QED
    BY <1>1, <1>6, <2>1, <2>2, QuietStep DEF LookupFails
<1>7. CASE RetryFires(b)
  <2> DEFINE new == [r EXCEPT !.retry = FALSE, !.confChan = TRUE]
  <2>1. new \in BalancerRecord /\ new.state = r.state /\ new.pc = r.pc
    BY <1>1 DEF BalancerRecord
  <2> QED
    BY <1>1, <1>7, <2>1, QuietStep DEF RetryFires
<1>8. CASE Notify(b)
  <2> DEFINE new == [r EXCEPT !.pc = "idle"]
  <2>1. new \in BalancerRecord /\ new.state = r.state
    BY <1>1 DEF BalancerRecord
  <2>2. Sound(r.state)
    BY DEF IInv, Stored
  <2> QED
    BY <1>1, <1>8, <2>1, <2>2, BalancerStep DEF Notify
<1> QED
  BY <1>2, <1>3, <1>4, <1>5, <1>6, <1>7, <1>8 DEF UpdateLoop


----------------------------------------------------------------------------
\* updateConfig runs between generations: it creates balancers that have published
\* nothing and leaves what the others have published alone.
LEMMA UpdateConfigInv ==
    ASSUME IInv, UpdateConfig
    PROVE  IInv'
<1> DEFINE Done(c) == {c[i].key : i \in Applied(c)}
           KeysAfter(c) == IF Applied(c) = DOMAIN c THEN Keys(c) ELSE Done(c) \cup DOMAIN bal
<1>1. PICK c \in Config :
        /\ \A b \in Done(c) \cap DOMAIN bal : bal[b].pc # "send"
        /\ bal' = [b \in KeysAfter(c) |-> IF b \notin Done(c) THEN bal[b]
                                          ELSE IF b \in DOMAIN bal THEN BalancerUpdate(b, ConfOf(c, b))
                                          ELSE NewBalancer(ConfOf(c, b))]
        /\ zombies' = zombies \cup (DOMAIN bal \ KeysAfter(c))
  BY DEF UpdateConfig
<1>2. /\ pusher = "select" /\ Change /\ UNCHANGED <<chan, pusherVars, faults>>
  BY DEF UpdateConfig
<1>3. changes' \in 0..MaxChanges
  BY <1>2, ConstantsAssumption DEF Change, IInv, Basic, TypeOK
<1>4. /\ TypeOK /\ ~Generating
      /\ DOMAIN bal \subseteq Balancer /\ \A b \in DOMAIN bal : bal[b] \in BalancerRecord
  BY <1>2 DEF IInv, Basic, TypeOK, Generating
<1>5. \A i \in DOMAIN c : c[i].key \in Balancer /\ c[i].conf \in Conf
  <2> DEFINE Item == [key : Balancer, conf : Conf]
  <2>1. c \in Seq(Item)
    BY ConstantsAssumption, Zenon
  <2> HIDE DEF Item
  <2>2. \A i \in DOMAIN c : c[i] \in Item
    BY <2>1
  <2> QED
    BY <2>2 DEF Item
<1>6. Applied(c) \subseteq DOMAIN c
  BY DEF Applied
<1>7. KeysAfter(c) \subseteq Balancer /\ Done(c) \subseteq KeysAfter(c)
  BY <1>4, <1>5, <1>6 DEF Keys
<1>8. \A b \in Done(c) : ConfOf(c, b) \in Conf
  <2> SUFFICES ASSUME NEW b \in Done(c) PROVE ConfOf(c, b) \in Conf
    OBVIOUS
  <2>1. \E i \in DOMAIN c : c[i].key = b
    BY <1>6
  <2> QED
    BY <1>5, <2>1 DEF ConfOf
<1>9. ASSUME NEW b \in KeysAfter(c), b \notin Done(c) PROVE b \in DOMAIN bal /\ bal'[b] = bal[b]
  <2>1. b \in DOMAIN bal
    BY <1>9 DEF Keys
  <2> QED
    BY <1>1, <1>9, <2>1
<1>10. ASSUME NEW b \in Done(c), b \in DOMAIN bal
       PROVE  bal'[b] \in BalancerRecord /\ bal'[b].state = bal[b].state /\ bal'[b].pc = bal[b].pc
  <2> DEFINE conf == ConfOf(c, b)
  <2>1. bal'[b] = BalancerUpdate(b, conf)
    BY <1>1, <1>7, <1>10
  <2>2. bal[b] \in BalancerRecord /\ conf \in Conf
    BY <1>4, <1>8, <1>10
  <2> HIDE DEF conf
  <2>3. (bal[b].confChan \/ conf.weight # bal[b].conf.weight) \in BOOLEAN
    OBVIOUS
  <2> QED
    BY <2>1, <2>2, <2>3 DEF BalancerUpdate, BalancerRecord
<1>11. ASSUME NEW b \in Done(c), b \notin DOMAIN bal
       PROVE  bal'[b] \in BalancerRecord /\ bal'[b].state = [ups |-> NoState, initial |-> TRUE]
  <2> DEFINE conf == ConfOf(c, b)
  <2>1. bal'[b] = NewBalancer(conf)
    BY <1>1, <1>7, <1>11
  <2>2. conf \in Conf
    BY <1>8, <1>11
  <2>3. Empty \in Health
    <3>1. Empty \in [{} -> BOOLEAN]
      BY DEF Empty
    <3> QED
      BY <3>1 DEF Health, Partial
  <2> HIDE DEF conf
  <2> QED
    BY <2>1, <2>2, <2>3 DEF NewBalancer, BalancerRecord
<1>12. DOMAIN bal' = KeysAfter(c)
  BY <1>1
<1> HIDE DEF Done, KeysAfter
<1>13. \A b \in DOMAIN bal' : bal'[b] \in BalancerRecord
  BY <1>4, <1>9, <1>10, <1>11, <1>12
<1>14. todo = {} /\ UNCHANGED <<pusher, todo, read, addrs, svc, dp, initialState, genError, afterInit, chan, faults>>
  BY <1>2, <1>4 DEF IInv, Basic, pusherVars, genVars, svcVars, dpVars
<1>15. TypeOK'
  <2>1. zombies' \subseteq Balancer
    BY <1>1, <1>4 DEF TypeOK
  <2>2. todo' \subseteq DOMAIN bal' /\ ~(pusher' \in {"states", "addrs"})
    BY <1>2, <1>14
  <2> QED
    BY <1>3, <1>4, <1>7, <1>12, <1>13, <1>14, <2>1, <2>2 DEF TypeOK
<1>16. Basic' /\ Read'
  BY <1>4, <1>14, <1>15 DEF Basic, Read, Generating
<1>17. \A b \in DOMAIN bal' : \/ b \in DOMAIN bal /\ bal'[b].state = bal[b].state /\ bal'[b].pc = bal[b].pc
                              \/ bal'[b].state = [ups |-> NoState, initial |-> TRUE]
  BY <1>9, <1>10, <1>11, <1>12
<1>18. Stored'
  BY <1>17 DEF IInv, Stored, Sound
<1>19. Noticed'
  BY <1>2, <1>14, <1>17 DEF IInv, Noticed, Known, Generating
<1>20. RoutesReady'
  BY <1>14 DEF IInv, RoutesReady
<1> QED
  BY <1>16, <1>18, <1>19, <1>20 DEF IInv


----------------------------------------------------------------------------
\* The servicer's steps leave the balancers alone.
LEMMA OnBalancerUpdateInv ==
    ASSUME IInv, OnBalancerUpdate
    PROVE  IInv'
<1> USE DEF OnBalancerUpdate, IInv, svcVars, dpVars
<1>0. DOMAIN read' = {} /\ todo' = DOMAIN bal' /\ bal' = bal /\ pusher' = "states"
  BY DEF Empty
<1>1. Basic'
  BY <1>0 DEF Basic, TypeOK, Generating
<1>2. Stored' /\ RoutesReady'
  BY DEF Stored, RoutesReady
<1>3. Read'
  BY DEF Read, Generating, Empty
<1>4. Noticed'
  BY DEF Noticed, Known
<1> QED
  BY <1>1, <1>2, <1>3, <1>4

\* The first pass reads a state that is sound and that was published.
LEMMA ReadStateInv ==
    ASSUME IInv, ReadState
    PROVE  IInv'
<1> USE DEF IInv, svcVars, dpVars
<1>0. /\ pusher = "states" /\ UNCHANGED <<bal, zombies, chan, addrs, svc, initialState, genError>>
      /\ UNCHANGED <<dp, afterInit, changes, faults>>
  BY DEF ReadState
<1>1. ASSUME NEW b \in todo, todo' = todo \ {b}, pusher' = pusher,
             read' = [c \in DOMAIN read \cup {b} |-> IF c = b THEN bal[b].state ELSE read[c]]
      PROVE  IInv'
  <2>1. b \in DOMAIN bal /\ bal[b].state \in Published /\ Sound(bal[b].state)
    BY DEF Basic, TypeOK, BalancerRecord, Published, Stored
  <2>2. /\ DOMAIN read' = DOMAIN read \cup {b} /\ read'[b] = bal[b].state
        /\ \A c \in DOMAIN read \ {b} : read'[c] = read[c]
    BY <1>1
  <2>3. Basic'
    BY <1>0, <1>1, <2>1, <2>2 DEF Basic, TypeOK, Generating
  <2>4. Stored' /\ RoutesReady'
    BY <1>0 DEF Stored, RoutesReady
  <2>5. Read'
    BY <1>0, <1>1, <2>1, <2>2 DEF Read, Generating
  <2>6. Noticed'
    BY <1>0, <1>1, <2>2 DEF Noticed, Known, Generating
  <2> QED
    BY <2>3, <2>4, <2>5, <2>6
<1>2. ASSUME todo = {}, todo' = DOMAIN bal, pusher' = "addrs", read' = read
      PROVE  IInv'
  <2>1. Basic'
    BY <1>0, <1>2 DEF Basic, TypeOK, Generating
  <2>2. Stored' /\ RoutesReady'
    BY <1>0 DEF Stored, RoutesReady
  <2>3. Read'
    BY <1>0, <1>2 DEF Read, Generating, Basic, TypeOK
  <2>4. Noticed'
    BY <1>0, <1>2 DEF Noticed, Known, Generating
  <2> QED
    BY <2>1, <2>2, <2>3, <2>4
<1> QED
  BY <1>1, <1>2 DEF ReadState

\* The second pass: a balancer that had published when it was read first still has.
LEMMA ReadAddrsInv ==
    ASSUME IInv, ReadAddrs
    PROVE  IInv'
<1> USE DEF IInv, svcVars, dpVars
<1>1. PICK b \in todo :
        /\ todo' = todo \ {b}
        /\ addrs' = IF bal[b].state.ups = NoState THEN addrs ELSE addrs \cup Vips(b)
  BY DEF ReadAddrs
<1>2. /\ pusher = "addrs" /\ UNCHANGED <<bal, zombies, chan, pusher, read, svc, initialState>>
      /\ UNCHANGED <<genError, dp, afterInit, changes, faults>>
  BY DEF ReadAddrs
<1>3. Basic'
  BY <1>1, <1>2 DEF Basic, TypeOK, Generating, Vips
<1>4. Stored' /\ RoutesReady'
  BY <1>2 DEF Stored, RoutesReady
<1>5. Read'
  BY <1>1, <1>2 DEF Read, Generating
<1>6. Noticed'
  BY <1>1, <1>2 DEF Noticed, Known, Generating
<1> QED
  BY <1>3, <1>4, <1>5, <1>6

\* A route that is generated leads to balancers that are ready, all of them.
LEMMA GeneratedInv ==
    ASSUME IInv, Generated
    PROVE  IInv'
<1> USE DEF IInv
<1> DEFINE known == {b \in DOMAIN read : read[b].ups # NoState}
           balancers == [b \in known |-> read[b].ups]
           conf == [b \in DOMAIN read |-> bal[b].conf]
<1>1. /\ pusher = "addrs" /\ todo = {} /\ pusher' = "apply" /\ genError' = FALSE
      /\ svc' = [balancers |-> balancers, routes |-> Routes, addrs |-> addrs, conf |-> conf]
      /\ initialState' \in BOOLEAN
      /\ UNCHANGED <<bal, zombies, chan, todo, read, addrs, dp, afterInit, changes, faults>>
  BY DEF Generated, genVars, dpVars
<1>2. /\ DOMAIN read \subseteq DOMAIN bal /\ DOMAIN read \subseteq Balancer
      /\ \A b \in DOMAIN read : bal[b].conf \in Conf /\ read[b] \in Published
  BY <1>1 DEF Basic, TypeOK, Generating, BalancerRecord
<1>3. Routes \subseteq Route
  BY <1>2 DEF Routes, Allowed, Ready, Conf
<1>4. balancers \in [known -> Weights] /\ conf \in [DOMAIN read -> Conf] /\ known \subseteq DOMAIN read
  BY <1>2 DEF Published
<1>5. addrs \subseteq {Vip[b] : b \in Balancer}
  BY DEF Basic, TypeOK
<1>6. svc' \in State
  BY <1>1, <1>2, <1>3, <1>4, <1>5 DEF State, Partial
<1>7. svc' # NoState
  BY <1>6, ConstantsAssumption
<1>8. IsState(svc')
  BY <1>1, <1>2, <1>3, <1>4, <1>5 DEF IsState
<1>9. Basic'
  BY <1>1, <1>8 DEF Basic, TypeOK, Generating
<1>10. Stored' /\ Read'
  BY <1>1 DEF Stored, Read, Generating
<1>11. Noticed'
  <2> SUFFICES ASSUME NEW b \in DOMAIN bal, ~chan, bal[b].pc # "send", bal[b].state.ups # NoState
               PROVE  b \in DOMAIN balancers /\ balancers[b] = bal[b].state.ups
    BY <1>1, <1>7 DEF Noticed, Known, Generating
  <2> QED
    BY <1>1 DEF Noticed, Known, Generating
<1>12. ASSUME NEW r \in Routes
       PROVE  /\ \E b \in DOMAIN read : bal[b].conf.route = r
              /\ \A b \in DOMAIN read : bal[b].conf.route = r =>
                    b \in known /\ Alive(read[b].ups) # {} /\ Vips(b) \subseteq addrs
  <2>1. r \in Route /\ r # NoRoute /\ <<r, r>> \in Covers
    BY <1>3, ConstantsAssumption
  <2>2. \E b \in Ready : bal[b].conf.route = r
    BY DEF Routes, Allowed
  <2>3. \A b \in DOMAIN read : bal[b].conf.route = r => b \in Ready
    BY <2>1 DEF Routes, Prohibited
  <2>4. \A b \in Ready : b \in known /\ Alive(read[b].ups) # {}
    BY <1>1 DEF Ready, Read, Generating, Sound
  <2>5. \A b \in known : Vips(b) \subseteq addrs
    BY <1>1 DEF Read, Generating
  <2> QED
    BY <2>2, <2>3, <2>4, <2>5 DEF Ready
<1>13. RoutesReady'
  <2>1. /\ svc'.routes = Routes /\ svc'.addrs = addrs
        /\ DOMAIN svc'.conf = DOMAIN read /\ DOMAIN svc'.balancers = known
        /\ \A b \in DOMAIN read : svc'.conf[b] = bal[b].conf
        /\ \A b \in known : svc'.balancers[b] = read[b].ups
    BY <1>1
  <2> HIDE DEF known, balancers, conf
  <2>2. ASSUME NEW r \in svc'.routes
        PROVE  /\ \E b \in DOMAIN svc'.conf : svc'.conf[b].route = r
               /\ \A b \in DOMAIN svc'.conf : svc'.conf[b].route = r =>
                    b \in DOMAIN svc'.balancers /\ Alive(svc'.balancers[b]) # {} /\ Vips(b) \subseteq svc'.addrs
    BY <1>12, <2>1, <2>2
  <2>3. dp' = dp
    BY <1>1
  <2> QED
    BY <2>2, <2>3 DEF RoutesReady
<1> QED
  BY <1>9, <1>10, <1>11, <1>13

\* The other steps of the pusher.
LEMMA PusherInv ==
    ASSUME IInv, GenerateFails \/ OnTicker \/ Apply \/ ApplyFails
    PROVE  IInv'
<1> USE DEF IInv, genVars, svcVars, dpVars
<1>1. CASE GenerateFails
  <2>1. Basic'
    BY <1>1 DEF GenerateFails, Basic, TypeOK, Generating
  <2> QED
    BY <1>1, <2>1 DEF GenerateFails, Stored, Read, Noticed, Known, RoutesReady, Generating
<1>2. CASE OnTicker
  <2>1. Basic'
    BY <1>2 DEF OnTicker, Basic, TypeOK, Generating
  <2> QED
    BY <1>2, <2>1 DEF OnTicker, Stored, Read, Noticed, Known, RoutesReady, Generating
<1>3. CASE Apply
  <2>1. Basic'
    BY <1>3 DEF Apply, Basic, TypeOK, Generating
  <2> QED
    BY <1>3, <2>1 DEF Apply, Stored, Read, Noticed, Known, RoutesReady, Generating
<1>4. CASE ApplyFails
  <2>1. Basic'
    BY <1>4, ConstantsAssumption DEF ApplyFails, Fault, Basic, TypeOK, Generating
  <2> QED
    BY <1>4, <2>1 DEF ApplyFails, Stored, Read, Noticed, Known, RoutesReady, Generating
<1> QED
  BY <1>1, <1>2, <1>3, <1>4

\* The goroutine of a removed balancer only sends.
LEMMA ZombieInv ==
    ASSUME IInv, ZombieEnds
    PROVE  IInv'
<1> USE DEF IInv, ZombieEnds, pusherVars, genVars, svcVars, dpVars
<1>1. Basic'
  BY DEF Basic, TypeOK, Generating
<1>2. Stored' /\ RoutesReady'
  BY DEF Stored, RoutesReady
<1>3. Read'
  BY DEF Read, Generating
<1>4. chan => chan'
  BY DEF Basic, TypeOK
<1>5. Noticed'
  BY <1>4 DEF Noticed, Known, Generating
<1> QED
  BY <1>1, <1>2, <1>3, <1>5

----------------------------------------------------------------------------
\* The initial state: no balancers.
LEMMA InitInv == Init => IInv
<1> SUFFICES ASSUME Init PROVE IInv
  OBVIOUS
<1>1. DOMAIN bal = {} /\ DOMAIN read = {}
  BY DEF Init, Empty
<1>2. Basic
  <2>1. changes \in 0..MaxChanges /\ faults \in 0..MaxFaults
    BY ConstantsAssumption DEF Init
  <2> QED
    BY <1>1, <2>1 DEF Init, Basic, TypeOK, Generating
<1>3. Stored /\ Read /\ Noticed
  BY <1>1 DEF Init, Stored, Read, Noticed, Generating
<1>4. RoutesReady
  BY DEF Init, RoutesReady
<1> QED
  BY <1>2, <1>3, <1>4 DEF IInv

LEMMA StutterInv ==
    ASSUME IInv, UNCHANGED vars
    PROVE  IInv'
<1> USE DEF vars, pusherVars, genVars, svcVars, dpVars, IInv
<1>1. Basic'
  BY DEF Basic, TypeOK, Generating
<1> QED
  BY <1>1 DEF Stored, Read, Noticed, Known, RoutesReady, Generating

\* Every step keeps the invariant.
LEMMA StepInv == IInv /\ [Next]_vars => IInv'
<1> SUFFICES ASSUME IInv, [Next]_vars PROVE IInv'
  OBVIOUS
<1>1. CASE \E b \in DOMAIN bal : HealthChanges(b) \/ UpdateLoop(b) \/ RetryFires(b)
  BY <1>1, BalancerInv
<1>2. CASE Pusher
  BY <1>2, OnBalancerUpdateInv, ReadStateInv, ReadAddrsInv, GeneratedInv, PusherInv DEF Pusher
<1> QED
  BY <1>1, <1>2, ZombieInv, UpdateConfigInv, StutterInv DEF Next

\* Every behaviour has the invariant.
LEMMA Invariant == Spec => []IInv
BY InitInv, StepInv, PTL DEF Spec

\* The variables of the control plane keep their types, and a generation works on
\* balancers that the servicer has.
THEOREM TypeCorrect == Spec => []TypeOK
<1>1. IInv => TypeOK
  BY DEF IInv, Basic
<1> QED
  BY Invariant, <1>1, PTL

\* However many balancers share the channel with one place: once the pusher waits at
\* an empty channel, after a generation that has not failed, the servicer's state has
\* what every balancer has stored last.
THEOREM NothingLost == Spec => []NoLostUpdate
<1>1. IInv => NoLostUpdate
  BY DEF IInv, Noticed, Known, NoLostUpdate, Generating
<1> QED
  BY Invariant, <1>1, PTL

\* Every route in a state of the servicer, and in what the data plane was given, has
\* balancers, and all of them are there with an address and an upstream with a weight.
THEOREM RoutesAreReady == Spec => []RoutesReady
<1>1. IInv => RoutesReady
  BY DEF IInv
<1> QED
  BY Invariant, <1>1, PTL

\* Failsafe mode: all upstreams of an initialized balancer failing their checks takes
\* no route down.
THEOREM FailsafeKeeps == Spec => FailsafeKeepsRoutes
<1> DEFINE Excuse(r) ==
             \E b \in DOMAIN svc'.conf :
                 /\ <<svc'.conf[b].route, r>> \in Covers
                 /\ \/ read[b].initial \/ read[b].ups = Empty
                    \/ /\ Alive(read[b].ups) # {}
                       /\ ~RatioAtLeast(read[b].ups, svc'.conf[b].ratio)
           Kept == \A r \in Route :
                     (svc # NoState /\ svc' # NoState /\ r \in svc.routes \ svc'.routes
                         /\ \E b \in DOMAIN svc'.conf : svc'.conf[b].route = r) => Excuse(r)
<1>1. ASSUME IInv, Generated PROVE Kept
  <2> SUFFICES ASSUME NEW r \in Route, r \notin svc'.routes,
                      NEW b \in DOMAIN svc'.conf, svc'.conf[b].route = r
               PROVE  Excuse(r)
    BY Zenon
  <2>1. /\ pusher = "addrs" /\ svc'.routes = Routes
        /\ svc'.conf = [c \in DOMAIN read |-> bal[c].conf]
    BY <1>1 DEF Generated
  <2>2. b \in DOMAIN read /\ bal[b].conf.route = r /\ r # NoRoute /\ <<r, r>> \in Covers
    BY <2>1, ConstantsAssumption
  <2>3. ASSUME NEW c \in DOMAIN read \ Ready, bal[c].conf.route # NoRoute,
               <<bal[c].conf.route, r>> \in Covers
        PROVE  Excuse(r)
    <3>1. c \in DOMAIN svc'.conf /\ svc'.conf[c] = bal[c].conf
      BY <2>1
    <3>2. Sound(read[c])
      BY <1>1, <2>1 DEF IInv, Read, Generating
    <3>3. \/ read[c].initial \/ Alive(read[c].ups) = {}
          \/ Alive(read[c].ups) # {} /\ ~RatioAtLeast(read[c].ups, bal[c].conf.ratio)
      BY <2>3 DEF Ready
    <3> QED
      BY <2>3, <3>1, <3>2, <3>3 DEF Sound
  <2>4. CASE b \notin Ready
    BY <2>2, <2>3, <2>4
  <2>5. CASE b \in Ready
    <3>1. PICK p \in Prohibited \ {NoRoute} : <<p, r>> \in Covers
      BY <2>1, <2>2, <2>5 DEF Routes, Allowed
    <3> QED
      BY <2>3, <3>1 DEF Prohibited
  <2> QED
    BY <2>4, <2>5
<1>2. ASSUME [Next]_vars, ~Generated PROVE svc' = svc
  <2> USE DEF svcVars, pusherVars
  <2>1. CASE \E b \in DOMAIN bal : HealthChanges(b) \/ UpdateLoop(b) \/ RetryFires(b)
    <3> PICK b \in DOMAIN bal : HealthChanges(b) \/ UpdateLoop(b) \/ RetryFires(b)
      BY <2>1
    <3>1. \E new : Step(b, new)
      BY DEF HealthChanges, UpdateLoop, RetryFires, Wake, GetState, UpdateState, LookupFails, Notify
    <3> QED
      BY <3>1 DEF Step
  <2>2. CASE ZombieEnds \/ UpdateConfig
    BY <2>2 DEF ZombieEnds, UpdateConfig
  <2>3. CASE Pusher
    BY <1>2, <2>3 DEF Pusher, OnBalancerUpdate, ReadState, ReadAddrs, GenerateFails, OnTicker,
       Apply, ApplyFails
  <2>4. CASE UNCHANGED vars
    BY <2>4 DEF vars
  <2> QED
    BY <1>2, <2>1, <2>2, <2>3, <2>4 DEF Next
<1>3. IInv /\ [Next]_vars => [Kept]_vars
  BY <1>1, <1>2
<1> QED
  BY Invariant, <1>3, PTL DEF Spec, FailsafeKeepsRoutes
=============================================================================
