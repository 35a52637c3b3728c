--------------------------- MODULE HealthManager ---------------------------
(***************************************************************************)
(* One health manager (utils/health_manager): the healthCheckLoop           *)
(* goroutine that selects among the resolver's updates, the check timer,    *)
(* configuration changes and cancellation; the workers CompleteTasks runs   *)
(* the checks on; and the hand-over of states to the balancer through       *)
(* lastUpdateState and the one-place channel updateChan.                    *)
(*                                                                          *)
(* Around it: the static resolvers (utils/discovery) that feed it, the      *)
(* upstreams whose checks pass or fail, and the balancer that receives the  *)
(* states, changes the configuration and finally cancels the context.       *)
(***************************************************************************)
EXTENDS CompleteTasks, Sequences, FiniteSets, SequencesExt

CONSTANTS
    Host,        \* upstream host:port
    Discovery,   \* states a resolver delivers: sequences of [host, enabled]
    Resolver,    \* resolver instances
    First,       \* the resolver the manager is created with
    Config,      \* configurable <<riseCount, fallCount, concurrencyLimit>>
    DnsOutcome,  \* results of ResolveHost: TRUE, or TRUE and FALSE
    Nothing,     \* an empty channel
    MaxCount,    \* where healthCount saturates: no threshold is beyond it
    MaxChanges   \* bound on changes of upstreams, discovery and configuration

ASSUME ConstantsAssumption ==
    /\ First \in Resolver
    /\ \A c \in Config : c \in (1..MaxCount) \X (1..MaxCount) \X (Nat \ {0})
    /\ \A d \in Discovery : d \in Seq([host : Host, enabled : BOOLEAN])
    /\ DnsOutcome \subseteq BOOLEAN /\ TRUE \in DnsOutcome
    /\ Nothing \notin Discovery
    /\ MaxCount \in Nat /\ MaxChanges \in Nat

\* No host is discovered twice: entries of equal hosts would come to share one
\* status, which the model does not say.
ASSUME DiscoveryAssumption ==
    \A d \in Discovery : \A i, j \in DOMAIN d : d[i].host = d[j].host => i = j

VARIABLES
    up,           \* the hosts that pass a check
    resolver,     \* HealthManager.resolver
    resolverChan, \* Resolver -> the state waiting in its updateChan, or Nothing
    resolverClosed, \* resolvers whose channel is closed
    closing,      \* resolvers the balancer is about to close
    rise, fall, limit, \* riseCount, fallCount, concurrencyLimit
    confChan,     \* a token is in updateConfChan
    ctxDone,      \* the context is cancelled
    state,        \* HealthManager.state
    initialSent, initialRecv, \* initialStateSent, initialResolverStateRecv
    lastUpdate,   \* lastUpdateState
    updateChan,   \* "empty" or "full"; closed when pc = "stopped"
    pc,           \* where healthCheckLoop is
    selected,     \* the resolver whose channel the select statement looks at
    todo,         \* tasks of the running CompleteTasks no worker has started
    inflight,     \* tasks a worker is at, with the host it checks
    changed,      \* performHealthChecks: some status has changed
    balancer,     \* the receiving balancer: "idle", "load" or "stopped"
    seen,         \* the state the balancer has last loaded
    changes

resolverVars == <<resolver, resolverChan, resolverClosed, closing>>
confVars == <<rise, fall, limit, confChan, ctxDone>>
stateVars == <<state, initialSent, initialRecv>>
taskVars == <<todo, inflight, changed>>
chanVars == <<lastUpdate, updateChan>>
balancerVars == <<balancer, seen>>
vars == <<up, resolverVars, confVars, stateVars, chanVars, pc, selected, taskVars, balancerVars, changes>>

Init ==
    /\ up \in SUBSET Host
    /\ resolver = First /\ resolverClosed = {} /\ closing = {}
    /\ \E d \in Discovery : resolverChan = [r \in Resolver |-> IF r = First THEN d ELSE Nothing]
    /\ \E c \in Config : rise = c[1] /\ fall = c[2] /\ limit = c[3]
    /\ confChan = TRUE /\ ctxDone = FALSE
    /\ state = <<>> /\ initialSent = FALSE /\ initialRecv = FALSE
    /\ lastUpdate = <<>> /\ updateChan = "empty"
    /\ pc = "top" /\ selected = First
    /\ todo = {} /\ inflight = {} /\ changed = FALSE
    /\ balancer = "idle" /\ seen = <<>>
    /\ changes = 0

----------------------------------------------------------------------------
\* States of the health manager.  The field recent is no part of the program: it
\* records the results of the last checks of an entry.

Entry == [host : Host, resolved : BOOLEAN, enabled : BOOLEAN, healthy : BOOLEAN,
          count : -MaxCount..MaxCount, recent : BoundedSeq(BOOLEAN, MaxCount)]

\* HostPort.Equal.
Key(e) == <<e.host, e.resolved, e.enabled>>

\* What Clone and the balancer keep of an entry.
View(s) == [i \in DOMAIN s |-> [host |-> s[i].host, enabled |-> s[i].enabled,
                                healthy |-> s[i].healthy]]

\* Mutant: entries are compared by host name alone.
BugSameHosts(s, t) ==
    Len(s) = Len(t) /\ {s[i].host : i \in DOMAIN s} = {t[i].host : i \in DOMAIN t}

\* HealthManagerState.Equal.
SameHosts(s, t) ==
    Len(s) = Len(t) /\ {Key(s[i]) : i \in DOMAIN s} = {Key(t[i]) : i \in DOMAIN t}

NewEntry(hp, ok) ==
    [host |-> hp.host, resolved |-> ok, enabled |-> hp.enabled, healthy |-> FALSE,
     count |-> 0, recent |-> <<>>]

\* The state for discovery state d; dns[h] tells whether h resolves.  An entry
\* is kept when host, address and enabled are as before.
NewState(d, dns) ==
    [i \in DOMAIN d |->
        LET new == NewEntry(d[i], dns[d[i].host])
            old == {j \in DOMAIN state : Key(state[j]) = Key(new)}
        IN  IF old = {} THEN new ELSE state[CHOOSE j \in old : \A k \in old : j <= k]]

Saturate(n) == IF n > MaxCount THEN MaxCount ELSE IF n < -MaxCount THEN -MaxCount ELSE n

Remember(recent, passed) ==
    Append(IF Len(recent) = MaxCount THEN Tail(recent) ELSE recent, passed)

\* Mutant: a failed check does not wipe out the successes before it.
BugUpdateHealthCheckStatus(e, passed) ==
    LET count == Saturate(IF passed THEN (IF e.count < 0 THEN 1 ELSE e.count + 1)
                                    ELSE (IF e.count > 0 THEN e.count ELSE e.count - 1))
        healthy == IF passed THEN e.healthy \/ count >= rise ELSE e.healthy /\ -count < fall
    IN  [e EXCEPT !.count = count, !.healthy = healthy, !.recent = Remember(@, passed)]

\* healthStatusEntry.UpdateHealthCheckStatus.
UpdateHealthCheckStatus(e, passed) ==
    LET count == Saturate(IF passed THEN (IF e.count < 0 THEN 1 ELSE e.count + 1)
                                    ELSE (IF e.count > 0 THEN -1 ELSE e.count - 1))
        healthy == IF passed THEN e.healthy \/ count >= rise ELSE e.healthy /\ -count < fall
    IN  [e EXCEPT !.count = count, !.healthy = healthy, !.recent = Remember(@, passed)]

----------------------------------------------------------------------------
(***************************************************************************)
(* healthCheckLoop.  The operands of its select statement are evaluated     *)
(* when it is reached: the channel is that of the resolver of that moment.  *)
(***************************************************************************)
LoopTop ==
    /\ pc = "top"
    /\ pc' = "select" /\ selected' = resolver
    /\ UNCHANGED <<up, resolverVars, confVars, stateVars, chanVars, taskVars, balancerVars, changes>>

\* Mutant: every resolver state is taken for one that nobody has to hear of.
BugOnResolverState ==
    /\ pc = "select" /\ resolverChan[selected] # Nothing
    /\ \E dns \in [Host -> DnsOutcome] : state' = NewState(resolverChan[selected], dns)
    /\ pc' = "top"
    /\ initialRecv' = TRUE
    /\ resolverChan' = [resolverChan EXCEPT ![selected] = Nothing]
    /\ UNCHANGED <<up, resolver, resolverClosed, closing, confVars, initialSent, chanVars, selected,
                   taskVars, balancerVars, changes>>

\* applyResolverState.
OnResolverState ==
    /\ pc = "select" /\ resolverChan[selected] # Nothing
    /\ \E dns \in [Host -> DnsOutcome] : state' = NewState(resolverChan[selected], dns)
    /\ pc' = IF ~SameHosts(state, state') /\ initialSent THEN "store" ELSE "top"
    /\ initialRecv' = TRUE
    /\ resolverChan' = [resolverChan EXCEPT ![selected] = Nothing]
    /\ UNCHANGED <<up, resolver, resolverClosed, closing, confVars, initialSent, chanVars, selected,
                   taskVars, balancerVars, changes>>

\* The context is cancelled, or the resolver's channel is closed and empty: the
\* manager cancels its own context and ends.
OnClosed ==
    /\ pc = "select"
    /\ ctxDone \/ (selected \in resolverClosed /\ resolverChan[selected] = Nothing)
    /\ ctxDone' = TRUE /\ pc' = "stopped"
    /\ UNCHANGED <<up, resolverVars, rise, fall, limit, confChan, stateVars, chanVars, selected, taskVars,
                   balancerVars, changes>>

OnConfChange ==
    /\ pc = "select" /\ confChan
    /\ confChan' = FALSE /\ pc' = "top"
    /\ UNCHANGED <<up, resolverVars, rise, fall, limit, ctxDone, stateVars, chanVars, selected, taskVars,
                   balancerVars, changes>>

\* The entries worker w checks (counted from 1 here), and all that are checked.
TasksOf(w) == {pos + 1 : pos \in Share(limit, Len(state), w)}
Tasks == UNION {TasksOf(w) : w \in Workers(limit, Len(state))}

\* Mutant: the first cycle does not wait for the resolver.
BugOnTimer ==
    /\ pc = "select"
    /\ pc' = "check" /\ todo' = Tasks /\ changed' = FALSE /\ UNCHANGED inflight
    /\ UNCHANGED <<up, resolverVars, confVars, stateVars, chanVars, selected, balancerVars, changes>>

\* The timer fires; without a state from the resolver there is nothing to check.
\* While the checks run, performHealthChecks holds countLock for reading.
OnTimer ==
    /\ pc = "select"
    /\ IF state = <<>> /\ ~initialRecv
       THEN pc' = "top" /\ UNCHANGED taskVars
       ELSE pc' = "check" /\ todo' = Tasks /\ changed' = FALSE /\ UNCHANGED inflight
    /\ UNCHANGED <<up, resolverVars, confVars, stateVars, chanVars, selected, balancerVars, changes>>

\* A worker takes its tasks one by one; before each it looks at the context, then
\* it reads the host to check.
StartTask(i) ==
    /\ i \in todo /\ ~ctxDone
    /\ \E w \in Workers(limit, Len(state)) :
          LET mine == TasksOf(w)
          IN  /\ i \in mine /\ \A j \in todo \cap mine : i <= j
              /\ \A t \in inflight : t.task \notin mine
    /\ todo' = todo \ {i}
    /\ inflight' = inflight \cup {[task |-> i, host |-> state[i].host, enabled |-> state[i].enabled,
                                   late |-> FALSE]}
    /\ UNCHANGED <<up, resolverVars, confVars, stateVars, chanVars, pc, selected, changed,
                   balancerVars, changes>>

\* The check has an answer, which goes to whatever h.state[numTask] is now.  A
\* disabled host counts as failed.
EndTask(t) ==
    /\ t \in inflight /\ t.task \in DOMAIN state
    /\ LET old == state[t.task]
           new == UpdateHealthCheckStatus(old, t.enabled /\ t.host \in up)
       IN  /\ state' = [state EXCEPT ![t.task] = new]
           /\ changed' = (changed \/ (~t.late /\ new.healthy # old.healthy))
    /\ inflight' = inflight \ {t}
    /\ UNCHANGED <<up, resolverVars, confVars, initialSent, initialRecv, chanVars, pc, selected, todo,
                   balancerVars, changes>>

\* A worker left over from a cancelled call indexes a state that has become
\* shorter: the process panics.
TaskPanics(t) ==
    /\ t \in inflight /\ t.task \notin DOMAIN state
    /\ pc' = "panic" /\ balancer' = "stopped" /\ todo' = {} /\ inflight' = {}
    /\ UNCHANGED <<up, resolverVars, confVars, stateVars, chanVars, selected, changed, seen, changes>>

\* Mutant: the call does not wait for its workers.
BugChecksDone ==
    /\ pc = "check"
    /\ ctxDone \/ todo = {}
    /\ pc' = IF changed \/ ~initialSent THEN "store" ELSE "top"
    /\ initialSent' = TRUE
    /\ todo' = {} /\ inflight' = {[t EXCEPT !.late = TRUE] : t \in inflight}
    /\ UNCHANGED <<up, resolverVars, confVars, state, initialRecv, chanVars, selected, changed,
                   balancerVars, changes>>

\* CompleteTasks returns when all workers are done, or as soon as the context is
\* cancelled, while workers may still be at a task.
ChecksDone ==
    /\ pc = "check"
    /\ ctxDone \/ (todo = {} /\ inflight = {})
    /\ pc' = IF changed \/ ~initialSent THEN "store" ELSE "top"
    /\ initialSent' = TRUE
    /\ todo' = {} /\ inflight' = {[t EXCEPT !.late = TRUE] : t \in inflight}
    /\ UNCHANGED <<up, resolverVars, confVars, state, initialRecv, chanVars, selected, changed,
                   balancerVars, changes>>

\* Mutant: the state is handed over before it is stored.
BugNotifyStateChange ==
    /\ \/ /\ pc = "store" /\ pc' = "drain"
          /\ updateChan' = "empty" /\ UNCHANGED lastUpdate
       \/ /\ pc = "drain" /\ updateChan = "empty" /\ pc' = "send"
          /\ updateChan' = "full" /\ UNCHANGED lastUpdate
       \/ /\ pc = "send" /\ pc' = "top"
          /\ lastUpdate' = View(state) /\ UNCHANGED updateChan
    /\ UNCHANGED <<up, resolverVars, confVars, stateVars, selected, taskVars, balancerVars, changes>>

\* notifyStateChange: the state is stored, an update nobody has received yet is
\* taken out of the channel, and the new one is sent (the send would block on a
\* full channel).
notifyStateChange ==
    /\ \/ /\ pc = "store" /\ pc' = "drain"
          /\ lastUpdate' = View(state) /\ UNCHANGED updateChan
       \/ /\ pc = "drain" /\ pc' = "send"
          /\ updateChan' = "empty" /\ UNCHANGED lastUpdate
       \/ /\ pc = "send" /\ updateChan = "empty" /\ pc' = "top"
          /\ updateChan' = "full" /\ UNCHANGED lastUpdate
    /\ UNCHANGED <<up, resolverVars, confVars, stateVars, selected, taskVars, balancerVars, changes>>

Loop ==
    \/ LoopTop \/ OnResolverState \/ OnClosed \/ OnConfChange \/ OnTimer
    \/ ChecksDone \/ notifyStateChange

Worker ==
    \/ \E i \in todo : StartTask(i)
    \/ \E t \in inflight : EndTask(t)
    \/ \E t \in inflight : TaskPanics(t)

----------------------------------------------------------------------------
(***************************************************************************)
(* The balancer: its updateLoop receives from updateChan and then loads     *)
(* lastUpdateState; when the channel is closed or the context is cancelled  *)
(* it closes the balancer, which cancels the context and closes the         *)
(* resolver.                                                                *)
(***************************************************************************)
Receive ==
    /\ balancer = "idle" /\ updateChan = "full"
    /\ balancer' = "load" /\ updateChan' = "empty"
    /\ UNCHANGED <<up, resolverVars, confVars, stateVars, lastUpdate, pc, selected, taskVars, seen, changes>>

BalancerStops ==
    /\ balancer = "idle" /\ ctxDone
    /\ balancer' = "stopped" /\ ctxDone' = TRUE
    /\ closing' = closing \cup ({resolver} \ resolverClosed)
    /\ UNCHANGED <<up, resolver, resolverChan, resolverClosed, rise, fall, limit, confChan, stateVars, chanVars,
                   pc, selected, taskVars, seen, changes>>

GetState ==
    /\ balancer = "load"
    /\ balancer' = "idle" /\ seen' = lastUpdate
    /\ UNCHANGED <<up, resolverVars, confVars, stateVars, chanVars, pc, selected, taskVars, changes>>

Consumer == Receive \/ BalancerStops \/ GetState

(***************************************************************************)
(* What the balancer's configuration does to the manager, and the world.    *)
(***************************************************************************)
Change == changes < MaxChanges /\ changes' = changes + 1

\* StaticResolver.Update replaces what is in the channel.
ResolverUpdate ==
    /\ Change /\ ~ctxDone /\ resolver \notin resolverClosed
    /\ \E d \in Discovery : resolverChan' = [resolverChan EXCEPT ![resolver] = d]
    /\ UNCHANGED <<up, resolver, resolverClosed, closing, confVars, stateVars, chanVars, pc, selected,
                   taskVars, balancerVars>>

\* HealthManager.Update waits for countLock, which running checks hold.
Update ==
    /\ Change /\ ~ctxDone /\ pc # "check"
    /\ \E c \in Config : rise' = c[1] /\ fall' = c[2] /\ limit' = c[3]
    /\ confChan' = TRUE
    /\ UNCHANGED <<up, resolverVars, ctxDone, stateVars, chanVars, pc, selected, taskVars, balancerVars>>

\* Balancer.Update with a resolver of another type: UpdateResolver first, then
\* the old resolver is closed.  (A DiscoveryFactory with several types of resolvers
\* is needed for that; BaseDiscoveryFactory knows the static one.)
UpdateResolver ==
    /\ Change /\ ~ctxDone /\ closing = {}
    /\ \E r \in Resolver \ ({resolver} \cup resolverClosed), d \in Discovery :
          /\ resolver' = r
          /\ resolverChan' = [resolverChan EXCEPT ![r] = d]
    /\ closing' = {resolver}
    /\ confChan' = TRUE
    /\ UNCHANGED <<up, resolverClosed, rise, fall, limit, ctxDone, stateVars, chanVars, pc, selected, taskVars,
                   balancerVars>>

\* Balancer.Close cancels the context and closes the resolver.
Close ==
    /\ Change /\ ~ctxDone
    /\ ctxDone' = TRUE /\ closing' = closing \cup {resolver}
    /\ UNCHANGED <<up, resolver, resolverChan, resolverClosed, rise, fall, limit, confChan, stateVars, chanVars,
                   pc, selected, taskVars, balancerVars>>

CloseResolver ==
    /\ \E r \in closing : closing' = closing \ {r} /\ resolverClosed' = resolverClosed \cup {r}
    /\ UNCHANGED <<up, resolver, resolverChan, confVars, stateVars, chanVars, pc, selected, taskVars,
                   balancerVars, changes>>

HostChanges ==
    /\ Change
    /\ \E h \in Host : up' = (up \cup {h}) \ (up \cap {h})
    /\ UNCHANGED <<resolverVars, confVars, stateVars, chanVars, pc, selected, taskVars, balancerVars>>

Environment ==
    ResolverUpdate \/ Update \/ UpdateResolver \/ Close \/ CloseResolver \/ HostChanges

Next == Loop \/ Worker \/ Consumer \/ Environment

Spec == Init /\ [][Next]_vars

\* Goroutines keep running, the timer keeps firing, checks end (they have time
\* limits), and Balancer.Update goes on to close the resolver.  A select statement
\* picks at random among what is ready, so a state that waits in the resolver's
\* channel is received after finitely many turns of the loop.
Fairness ==
    /\ WF_vars(Loop) /\ SF_vars(OnResolverState)
    /\ WF_vars(Worker) /\ WF_vars(Consumer) /\ WF_vars(CloseResolver)

FairSpec == Spec /\ Fairness

----------------------------------------------------------------------------
(***************************************************************************)
(* Properties.                                                              *)
(***************************************************************************)

\* Types; only tasks of a running or a cancelled call of CompleteTasks are left.
TypeOK ==
    /\ up \subseteq Host
    /\ resolver \in Resolver /\ selected \in Resolver
    /\ resolverChan \in [Resolver -> Discovery \cup {Nothing}]
    /\ resolverClosed \subseteq Resolver /\ closing \subseteq Resolver
    /\ <<rise, fall, limit>> \in Config /\ confChan \in BOOLEAN /\ ctxDone \in BOOLEAN
    /\ state \in Seq(Entry)
    /\ initialSent \in BOOLEAN /\ initialRecv \in BOOLEAN
    /\ updateChan \in {"empty", "full"}
    /\ pc \in {"top", "select", "check", "store", "drain", "send", "stopped", "panic"}
    /\ balancer \in {"idle", "load", "stopped"}
    /\ changed \in BOOLEAN /\ changes \in 0..MaxChanges
    /\ todo # {} => pc = "check" /\ todo \subseteq DOMAIN state
    /\ inflight \subseteq [task : Nat, host : Host, enabled : BOOLEAN, late : BOOLEAN]
    /\ \A t \in inflight : t.late => ctxDone

\* notifyStateChange is called whenever a host, its enabled flag or its health
\* changes: between two events of healthCheckLoop the stored state tells the same
\* of every host as the manager's own.
PublishedFresh ==
    pc \in {"top", "select"} /\ initialSent /\ ~ctxDone => ToSet(lastUpdate) = ToSet(View(state))

\* The one-place channel that is drained before every send loses nothing: with
\* nothing in it and no notification under way, the balancer has loaded the
\* state that was stored last.
NoLostUpdate ==
    pc \notin {"drain", "send"} /\ updateChan = "empty" /\ balancer = "idle" =>
        seen = lastUpdate

\* The first state handed over (TestInitialState) is one the resolver has given
\* and that has been through a whole cycle of checks, whatever resolver updates
\* arrive in between; only cancellation cuts that short.
FirstStateChecked ==
    [][~initialSent /\ initialSent' /\ ~ctxDone =>
          initialRecv /\ \A i \in DOMAIN state : state[i].recent # <<>>]_vars

\* UpdateHealthCheckStatus damps flapping: a host that stays discovered turns
\* healthy after riseCount passed checks in a row, unhealthy after fallCount
\* failed ones, and never otherwise.
FlipsDamped ==
    [][\A i \in DOMAIN state, j \in DOMAIN state' :
          Key(state[i]) = Key(state'[j]) /\ state[i].healthy # state'[j].healthy =>
             LET e == state'[j]
                 n == IF e.healthy THEN rise ELSE fall
             IN  /\ Len(e.recent) >= n
                 /\ \A k \in (Len(e.recent) - n + 1)..Len(e.recent) : e.recent[k] = e.healthy]_vars

\* applyResolverState adds the new entries and removes the nonexistent ones: a
\* host that is discovered before and after, equally enabled, keeps its health.
KeepsHealth ==
    [][\A i \in DOMAIN state, j \in DOMAIN state' :
          (inflight' = inflight /\ state[i].host = state'[j].host
              /\ state[i].enabled = state'[j].enabled) => state[i].healthy = state'[j].healthy]_vars

\* notifyStateChange needs no lock to copy the state, because the checks run
\* within the same goroutine: no worker is at a task when it does.
CloneAlone == pc = "store" => inflight = {}

\* Once hosts, discovery and configuration stay as they are, the balancer ends up
\* with the health of exactly the discovered hosts, unless the manager is closed.
EventuallySeen ==
    <>[](\/ ctxDone \/ pc = "panic"
         \/ /\ resolverChan[resolver] = Nothing
            /\ ToSet(seen) = ToSet(View(state))
            /\ \A i \in DOMAIN seen : seen[i].healthy <=> (seen[i].enabled /\ seen[i].host \in up))

\* The hand-over seen from the balancer.
H == INSTANCE HandOver WITH
    stored <- lastUpdate, seen <- seen,
    pending <- pc \in {"drain", "send"} \/ updateChan = "full" \/ balancer # "idle"

\* lastUpdateState, the channel that is drained before each send, and a receiver
\* that loads after it has received implement HandOver, however the two interleave.
ImplementsHandOver == H!Spec
=============================================================================
