--------------------------- MODULE FwmarkChecks ---------------------------
(***************************************************************************)
(* Health checks with enable_fwmarks go through the load balancer they are  *)
(* to steer: a check of an upstream connects to the vip with the fwmark     *)
(* that the balancer has allocated for the upstream's address, and the      *)
(* kernel sends it there if the fwmark's service is in place, which the     *)
(* data plane sees to after the balancer has published it.  This module     *)
(* composes the check (fwMarkDialContext, fwmark_conn.go and the checkers), *)
(* the fwmark calls of the balancer (FwmarkManager), and the data plane     *)
(* with the order in which SetState changes ipvs.                           *)
(*                                                                          *)
(* The health manager is reduced to cycles of concurrent checks without     *)
(* damping that store a new state when something has changed; HealthManager *)
(* has the rest.  All weights count as up, as in failsafe mode.             *)
(***************************************************************************)
EXTENDS Integers, Sequences, FiniteSets, SequencesExt

CONSTANTS
    Host,        \* hosts that discovery can return
    Addr,
    AddrsOf,     \* Host -> addresses its name can resolve to
    InitHosts,   \* hosts that it returns in the beginning
    InitDns,     \* what they resolve to in the beginning
    Base, MaxFwmark,
    Fd,          \* file descriptors, natural numbers
    NoPeer,      \* a socket that is not connected
    NoGoal,      \* SetState is not running
    MaxChanges,  \* bound on changes of hosts, names and discovery
    MaxFaults    \* bound on failing calls

ASSUME ChecksAssumption ==
    /\ IsFiniteSet(Host) /\ AddrsOf \in [Host -> SUBSET Addr]
    /\ InitHosts \subseteq Host
    /\ InitDns \in [Host -> Addr] /\ \A h \in Host : InitDns[h] \in AddrsOf[h]
    /\ \A g, h \in Host : g # h => AddrsOf[g] \cap AddrsOf[h] = {}
    /\ Base \in Nat /\ MaxFwmark \in Nat
    /\ Fd \subseteq Nat /\ NoPeer \notin Addr
    /\ MaxChanges \in Nat /\ MaxFaults \in Nat

B == "b"    \* the balancer

VARIABLES
    up,          \* addresses whose host answers
    dns,         \* what the names of hosts resolve to
    discovered,  \* the hosts discovery returns
    unapplied,   \* applyResolverState has not been called with them yet
    moved,       \* history: hosts whose name has changed
    entries,     \* HealthManager.state: host -> [addr, healthy]
    checks,      \* host -> where the check of the host is
    checking,    \* performHealthChecks is running
    phase,       \* "new", "received" once initialResolverStateRecv, "sent" once initialStateSent
    changed,     \* in performHealthChecks: a check has changed an entry
    stored,      \* the hosts of lastUpdateState
    pending,     \* the balancer has not received it yet
    pool, allocated, upstreams, services, calls, target, generated, refused,
    kmarks,      \* the kernel's fwmark services: fwmark -> real servers, {} if there is none
    kvip,        \* the real servers of the service of the vip
    goal,        \* what SetState is applying
    open,        \* open file descriptors: fd -> [mark, peer] of the socket
    finalizers,  \* descriptors of os.Files whose finalizer has yet to run
    changes, faults

\* One balancer, whose lists have no address twice and that is not closed.
F == INSTANCE FwmarkManager WITH
        Balancer <- {B}, Lists <- {<<>>}, MaxUpdates <- 0, updates <- 0, twice <- {}, left <- {}

envVars == <<up, dns, discovered, unapplied, moved>>
hmVars == <<entries, checks, checking, phase, changed, stored, pending>>
fwVars == <<pool, allocated, upstreams, services, calls, target, generated, refused>>
dpVars == <<kmarks, kvip, goal>>
fdVars == <<open, finalizers>>
vars == <<envVars, hmVars, fwVars, dpVars, fdVars, changes, faults>>

NotChecked == [pc |-> "none", fds |-> <<>>]
Function0 == [x \in {} |-> 0]

Init ==
    /\ up = Addr /\ dns = InitDns
    /\ discovered = InitHosts /\ unapplied = TRUE /\ moved = {}
    /\ entries = Function0 /\ checks = [h \in Host |-> NotChecked] /\ checking = FALSE /\ phase = "new"
    /\ changed = FALSE /\ stored = {} /\ pending = FALSE
    /\ F!Init
    /\ kmarks = [m \in F!Fwmark |-> {}] /\ kvip = {} /\ goal = NoGoal
    /\ open = Function0 /\ finalizers = {}
    /\ changes = 0 /\ faults = 0

----------------------------------------------------------------------------
(***************************************************************************)
(* The world.                                                               *)
(***************************************************************************)
Change == changes < MaxChanges /\ changes' = changes + 1
          /\ UNCHANGED <<hmVars, fwVars, dpVars, fdVars, faults>>

HostFlips ==
    /\ Change
    /\ \E h \in Host : up' = IF dns[h] \in up THEN up \ {dns[h]} ELSE up \cup {dns[h]}
    /\ UNCHANGED <<dns, discovered, unapplied, moved>>

NameChanges ==
    /\ Change
    /\ \E h \in Host : \E a \in AddrsOf[h] \ {dns[h]} :
          dns' = [dns EXCEPT ![h] = a] /\ moved' = moved \cup {h}
    /\ UNCHANGED <<up, discovered, unapplied>>

\* Discovery sends a state, which may have the same hosts.
Discover ==
    /\ Change
    /\ discovered' \in SUBSET Host /\ unapplied' = TRUE
    /\ UNCHANGED <<up, dns, moved>>

Fault == faults < MaxFaults /\ faults' = faults + 1

----------------------------------------------------------------------------
(***************************************************************************)
(* The loop of the health manager.                                          *)
(***************************************************************************)
\* Mutant: the names are not resolved.
BugUnresolved ==
    /\ ~checking /\ unapplied
    /\ unapplied' = FALSE
    /\ entries' = [h \in discovered |->
          IF h \in DOMAIN entries THEN entries[h] ELSE [addr |-> h, healthy |-> FALSE]]
    /\ phase' = IF phase = "new" THEN "received" ELSE phase
    /\ UNCHANGED <<up, dns, discovered, moved, checks, checking, changed, stored, pending,
                   fwVars, dpVars, fdVars, changes, faults>>

\* Mutant: hosts that discovery adds are not sent until a check changes something.
BugNotSent ==
    /\ ~checking /\ unapplied
    /\ unapplied' = FALSE
    /\ entries' = [h \in discovered |->
          IF h \in DOMAIN entries /\ entries[h].addr = dns[h]
          THEN entries[h] ELSE [addr |-> dns[h], healthy |-> FALSE]]
    /\ phase' = IF phase = "new" THEN "received" ELSE phase
    /\ UNCHANGED <<up, dns, discovered, moved, checks, checking, changed, stored, pending,
                   fwVars, dpVars, fdVars, changes, faults>>

\* applyResolverState: the address of an entry is what its name resolves to now.  A
\* change is sent at once, but for the first.
ApplyResolverState ==
    /\ ~checking /\ unapplied
    /\ unapplied' = FALSE
    /\ entries' = [h \in discovered |->
          IF h \in DOMAIN entries /\ entries[h].addr = dns[h]
          THEN entries[h] ELSE [addr |-> dns[h], healthy |-> FALSE]]
    /\ phase' = IF phase = "new" THEN "received" ELSE phase
    /\ IF entries' # entries /\ phase = "sent"
       THEN stored' = DOMAIN entries' /\ pending' = TRUE
       ELSE UNCHANGED <<stored, pending>>
    /\ UNCHANGED <<up, dns, discovered, moved, checks, checking, changed,
                   fwVars, dpVars, fdVars, changes, faults>>

StartChecks ==
    /\ ~checking /\ phase # "new"
    /\ checking' = TRUE /\ changed' = FALSE
    /\ checks' = [h \in Host |-> [NotChecked EXCEPT !.pc = IF h \in DOMAIN entries THEN "todo" ELSE "done"]]
    /\ UNCHANGED <<envVars, entries, phase, stored, pending, fwVars, dpVars, fdVars, changes, faults>>

\* performHealthChecks returns, and notifyStateChange stores and sends what is new.
ChecksDone ==
    /\ checking /\ \A h \in Host : checks[h].pc = "done"
    /\ checking' = FALSE /\ phase' = "sent"
    /\ checks' = [h \in Host |-> NotChecked]
    /\ IF changed \/ phase # "sent"
       THEN stored' = DOMAIN entries /\ pending' = TRUE
       ELSE UNCHANGED <<stored, pending>>
    /\ changed' = FALSE
    /\ UNCHANGED <<envVars, entries, fwVars, dpVars, fdVars, changes, faults>>

----------------------------------------------------------------------------
(***************************************************************************)
(* A check, from the worker that runs it.                                   *)
(***************************************************************************)
\* Closing descriptors, by number: whatever socket has that number.
Closed(fds) == [fd \in DOMAIN open \ fds |-> open[fd]]

Opened(mark, peer) ==
    LET fd == CHOOSE n \in Fd \ DOMAIN open : \A m \in Fd \ DOMAIN open : n <= m
    IN  [fd |-> fd, open |-> [n \in DOMAIN open \cup {fd} |->
                                IF n = fd THEN [mark |-> mark, peer |-> peer] ELSE open[n]]]

At(h, pc) == checking /\ checks[h].pc = pc
Frame == UNCHANGED <<envVars, checking, phase, stored, pending, fwVars, dpVars, changes>>
GoesTo(h, pc, fds) ==
    checks' = [checks EXCEPT ![h] = [pc |-> pc, fds |-> fds]] /\ UNCHANGED <<entries, changed>>
Ends(h, healthy) ==
    /\ checks' = [checks EXCEPT ![h] = [pc |-> "done", fds |-> <<>>]]
    /\ entries' = [entries EXCEPT ![h].healthy = healthy]
    /\ changed' = (changed \/ entries[h].healthy # healthy)

\* fwMarkDialContext looks the fwmark up.
NoMark(h) ==
    /\ At(h, "todo") /\ ~F!Allocated(entries[h].addr)
    /\ Ends(h, FALSE)
    /\ Frame /\ UNCHANGED <<fdVars, faults>>

\* NewTcpConnection: a socket with the fwmark, bound to the fwmark's local port.
Dial(h) ==
    /\ At(h, "todo") /\ F!Allocated(entries[h].addr) /\ Fd \ DOMAIN open # {}
    /\ LET new == Opened(allocated[entries[h].addr].fwmark, NoPeer)
       IN  open' = new.open /\ GoesTo(h, "dialing", <<new.fd>>)
    /\ Frame /\ UNCHANGED <<finalizers, faults>>

\* Where the kernel may send a connection to the vip from socket s: to the service of
\* its fwmark and, if there is none, to that of the vip.
Reach(s) == IF kmarks[s.mark] # {} THEN kmarks[s.mark] ELSE kvip

\* A socket that can be connected.  The local port is that of the fwmark, so there is
\* one connection with a fwmark to the vip at a time.
Connectable(fd) ==
    /\ fd \in DOMAIN open /\ open[fd].peer = NoPeer
    /\ \A f \in DOMAIN open : open[f].mark = open[fd].mark => open[f].peer = NoPeer

\* tcpConn succeeds.
Connect(h) ==
    /\ At(h, "dialing")
    /\ LET fd == checks[h].fds[1]
       IN  /\ Connectable(fd)
           /\ \E p \in Reach(open[fd]) \cap up : open' = [open EXCEPT ![fd].peer = p]
    /\ GoesTo(h, "connected", checks[h].fds)
    /\ Frame /\ UNCHANGED <<finalizers, faults>>

\* tcpConn fails, or times out although it need not: the descriptor is closed.  (When
\* Socket() fails there is none to close, and the check ends in the same way.)
ConnectFails(h) ==
    /\ At(h, "dialing")
    /\ LET fd == checks[h].fds[1]
       IN  /\ \/ Fault
              \/ /\ UNCHANGED faults
                 /\ Connectable(fd) => Reach(open[fd]) = {} \/ Reach(open[fd]) \ up # {}
           /\ open' = Closed({fd})
    /\ Ends(h, FALSE)
    /\ Frame /\ UNCHANGED finalizers

\* os.NewFile and net.FileConn, which duplicates the descriptor.
Wrap(h) ==
    /\ At(h, "connected") /\ Fd \ DOMAIN open # {}
    /\ LET fd == checks[h].fds[1]
           new == Opened(open[fd].mark, open[fd].peer)
       IN  fd \in DOMAIN open /\ open' = new.open /\ GoesTo(h, "wrapped", <<fd, new.fd>>)
    /\ Frame /\ UNCHANGED <<finalizers, faults>>

\* net.FileConn fails, on a closed descriptor or for lack of one.  NewTcpConnection
\* closes the descriptor and drops the os.File, whose finalizer closes it again.
WrapFails(h) ==
    /\ At(h, "connected")
    /\ LET fd == checks[h].fds[1]
       IN  /\ Fault \/ (fd \notin DOMAIN open /\ UNCHANGED faults)
           /\ open' = Closed({fd}) /\ finalizers' = finalizers \cup {fd}
    /\ Ends(h, FALSE)
    /\ Frame

Finalize(fd) ==
    /\ fd \in finalizers
    /\ finalizers' = finalizers \ {fd} /\ open' = Closed({fd})
    /\ UNCHANGED <<envVars, hmVars, fwVars, dpVars, changes, faults>>

\* Mutant: only the connection is closed, not the file it was made from.
BugExchange(h) ==
    /\ At(h, "wrapped")
    /\ LET conn == checks[h].fds[2]
       IN  /\ Ends(h, conn \in DOMAIN open /\ open[conn].peer \in up)
           /\ open' = Closed({conn})
    /\ Frame /\ UNCHANGED <<finalizers, faults>>

\* The checker's request and answer, and Close of connWrap.
Exchange(h) ==
    /\ At(h, "wrapped")
    /\ LET conn == checks[h].fds[2]
       IN  /\ Ends(h, conn \in DOMAIN open /\ open[conn].peer \in up)
           /\ open' = Closed(ToSet(checks[h].fds))
    /\ Frame /\ UNCHANGED <<finalizers, faults>>

Check(h) ==
    \/ NoMark(h) \/ Dial(h) \/ Connect(h) \/ ConnectFails(h)
    \/ Wrap(h) \/ WrapFails(h) \/ Exchange(h)

----------------------------------------------------------------------------
(***************************************************************************)
(* The balancer.                                                            *)
(***************************************************************************)
\* updateState resolves the names again.  When a lookup fails it returns before it has
\* changed anything and is called again later: pending stays as it is, so that this is
\* no step of the model.
Receive ==
    /\ pending
    /\ LET hosts == SetToSeq(stored)
       IN  F!UpdateState(B, [i \in DOMAIN hosts |-> dns[hosts[i]]])
    /\ pending' = FALSE
    /\ UNCHANGED <<envVars, entries, checks, checking, phase, changed, stored, dpVars, fdVars, changes, faults>>

FwmarkCall ==
    /\ F!Work(B)
    /\ UNCHANGED <<envVars, hmVars, dpVars, fdVars, changes, faults>>

(***************************************************************************)
(* The data plane.                                                          *)
(***************************************************************************)
MarksOf(svcs) == [m \in F!Fwmark |-> {s.addr : s \in {s \in svcs : s.fwmark = m}}]
DpFrame == UNCHANGED <<envVars, hmVars, fwVars, fdVars, changes>>

\* SetState is called with the state the balancer has stored.  When it finds nothing
\* to do, it changes nothing.
Push ==
    /\ goal = NoGoal
    /\ goal' = [marks |-> MarksOf(services[B]), vip |-> ToSet(upstreams[B])]
    /\ goal' # [marks |-> kmarks, vip |-> kvip]
    /\ DpFrame /\ UNCHANGED <<kmarks, kvip, faults>>

ToAdd == {m \in F!Fwmark : kmarks[m] = {} /\ goal.marks[m] # {}}
ToChange == {m \in F!Fwmark : kmarks[m] # {} /\ goal.marks[m] # {} /\ kmarks[m] # goal.marks[m]}
ToDelete == {m \in F!Fwmark : kmarks[m] # {} /\ goal.marks[m] = {}}

\* One change of ipvs: services are added; then the reals of services change, new ones
\* first; then services are deleted.  A service and its real are added in one step: in
\* between, or when the second call fails, a check that meets the empty service gets no
\* connection (as in ConnectFails), and the next SetState adds the real.
Apply ==
    /\ goal # NoGoal
    /\ \/ \E m \in ToAdd : kmarks' = [kmarks EXCEPT ![m] = goal.marks[m]] /\ UNCHANGED <<kvip, goal>>
       \/ /\ ToAdd = {} /\ kvip # goal.vip
          /\ kvip' = goal.vip /\ UNCHANGED <<kmarks, goal>>
       \/ /\ ToAdd = {}
          /\ \E m \in ToChange :
                kmarks' = [kmarks EXCEPT ![m] = IF goal.marks[m] \subseteq @ THEN goal.marks[m]
                                                ELSE @ \cup goal.marks[m]]
          /\ UNCHANGED <<kvip, goal>>
       \/ /\ ToAdd = {} /\ ToChange = {} /\ kvip = goal.vip
          /\ \E m \in ToDelete : kmarks' = [kmarks EXCEPT ![m] = {}]
          /\ UNCHANGED <<kvip, goal>>
       \/ /\ ToAdd = {} /\ ToChange = {} /\ ToDelete = {} /\ kvip = goal.vip
          /\ goal' = NoGoal /\ UNCHANGED <<kmarks, kvip>>
    /\ DpFrame /\ UNCHANGED faults

\* A call fails, which ends SetState.
ApplyFails ==
    /\ goal # NoGoal /\ Fault
    /\ goal' = NoGoal
    /\ DpFrame /\ UNCHANGED <<kmarks, kvip>>

----------------------------------------------------------------------------
HealthLoop == StartChecks \/ ChecksDone \/ \E h \in Host : Check(h)
Balance == Receive \/ FwmarkCall
DataPlane == Push \/ Apply

Next ==
    \/ HostFlips \/ NameChanges \/ Discover
    \/ ApplyResolverState \/ HealthLoop \/ Balance \/ DataPlane \/ ApplyFails
    \/ \E fd \in Fd : Finalize(fd)

\* Goroutines that can run do; the select of the health manager takes the resolver's
\* state at some time; ticks keep coming.
Fairness ==
    /\ SF_vars(ApplyResolverState) /\ WF_vars(HealthLoop)
    /\ WF_vars(Balance) /\ WF_vars(DataPlane)

Spec == Init /\ [][Next]_vars /\ Fairness

----------------------------------------------------------------------------
(***************************************************************************)
(* Properties.                                                              *)
(***************************************************************************)

\* Types.
TypeOK ==
    /\ DOMAIN entries \subseteq Host /\ stored \subseteq Host
    /\ \A h \in DOMAIN entries : entries[h] \in [addr : Addr, healthy : BOOLEAN]
    /\ \A h \in Host : checks[h].pc \in {"none", "todo", "dialing", "connected", "wrapped", "done"}
    /\ kmarks \in [F!Fwmark -> SUBSET Addr] /\ kvip \subseteq Addr
    /\ DOMAIN open \subseteq Fd /\ finalizers \subseteq Fd
    /\ changes \in 0..MaxChanges /\ faults \in 0..MaxFaults

\* NewTcpConnection and connWrap.Close leak no descriptor: an open one is that of a
\* check that is running, however checks fail and whatever a late finalizer closes.
NoLeak ==
    \A fd \in DOMAIN open : \E h \in Host : fd \in ToSet(checks[h].fds)

\* The balancer and the kernel are in step.
Settled ==
    calls[B] = <<>> /\ kmarks = MarksOf(services[B])

\* A step that connects the check of h connects it to the address of h, if the balancer
\* and the kernel are in step and the fwmark of its socket is that of the address by now.
ReachesHost(h) ==
    LET fd == checks[h].fds[1]
        a == entries[h].addr
    IN  At(h, "dialing") /\ checks'[h].pc = "connected"
        /\ Settled /\ F!Allocated(a) /\ allocated[a].fwmark = open[fd].mark
            => open'[fd].peer = a

\* A check is connected to the host that it is about, although fwMarkDialContext looks
\* the fwmark up first and connects later, and descriptors and fwmarks are reused.
CheckReachesHost == [][\A h \in Host : ReachesHost(h)]_vars

\* The circle closes: health ends up being what the hosts are, although the first
\* checks fail for want of a fwmark, later ones may reach other hosts while a fwmark
\* is on its way to the kernel, calls fail, and finalizers close sockets (finitely
\* often).  Except for an address that got no fwmark because the pool was empty, which
\* is not tried again, and for a host whose name has moved, unless the health manager
\* and the balancer have both resolved it since.
HealthTrue ==
    <>[](finalizers = {}) =>
    <>[](~unapplied /\ \A h \in discovered :
            h \in DOMAIN entries
            /\ (dns[h] \in refused
                \/ (h \in moved /\ ~(entries[h].addr = dns[h] /\ dns[h] \in ToSet(target[B])))
                \/ (entries[h].healthy <=> dns[h] \in up)))
=============================================================================
