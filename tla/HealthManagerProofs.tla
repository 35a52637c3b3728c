------------------------ MODULE HealthManagerProofs ------------------------
(***************************************************************************)
(* Proofs about HealthManager and the task runner, for any hosts, discovery *)
(* states, thresholds, limits and number of changes.                        *)
(***************************************************************************)
EXTENDS HealthManager, SequenceTheorems, TLAPS

----------------------------------------------------------------------------
\* Division rounded up, the size of a worker's range in CompleteTasks.
LEMMA DivUp ==
    ASSUME NEW t \in Nat \ {0}, NEW n \in Nat \ {0}
    PROVE  (t + n - 1) \div n \in Nat \ {0} /\ t <= ((t + n - 1) \div n) * n
<1> DEFINE a == t + n - 1
           q == a \div n
           m == a % n
<1>1. a \in Nat /\ a >= n
  OBVIOUS
<1>2. q \in Int /\ m \in 0..(n - 1) /\ a = q * n + m
  BY <1>1
<1> HIDE DEF q, m
<1>3. q * n >= t
  BY <1>2
<1>4. q > 0
  <2>1. SUFFICES ASSUME q <= 0 PROVE FALSE
    BY <1>2
  <2>2. q * n <= 0
    BY <1>2, <2>1
  <2> QED
    BY <1>2, <1>3, <2>2
<1> QED
  BY <1>2, <1>3, <1>4 DEF q

\* CompleteTasks: whatever the numbers of tasks and workers, the ranges
\* start..end of the workers cover every task exactly once.
THEOREM SharedOut ==
    ASSUME NEW limit0 \in Nat, NEW tasks \in Nat, NEW pos \in 0..(tasks - 1)
    PROVE  \E w \in Workers(limit0, tasks) :
              /\ pos \in Share(limit0, tasks, w)
              /\ \A v \in Workers(limit0, tasks) : pos \in Share(limit0, tasks, v) => v = w
<1> DEFINE n == NumWorkers(limit0, tasks)
           q == NumToCheck(limit0, tasks)
           w == pos \div q
<1>1. n \in Nat \ {0} /\ tasks \in Nat \ {0}
  BY DEF NumWorkers
<1>2. q \in Nat \ {0} /\ tasks <= q * n
  BY <1>1, DivUp DEF NumToCheck
<1> HIDE DEF n, q
<1>3. w \in Nat /\ w * q <= pos /\ pos < (w + 1) * q
  <2>1. w \in Int /\ pos % q \in 0..(q - 1) /\ pos = w * q + (pos % q)
    BY <1>2
  <2> HIDE DEF w
  <2>2. w * q <= pos /\ pos < (w + 1) * q
    BY <1>2, <2>1
  <2>3. w >= 0
    <3>1. SUFFICES ASSUME w + 1 <= 0 PROVE FALSE
      BY <2>1
    <3>2. (w + 1) * q <= 0
      BY <1>2, <2>1, <3>1
    <3> QED
      BY <2>2, <3>2, <2>1, <1>2
  <2> QED
    BY <2>1, <2>2, <2>3
<1> HIDE DEF w
<1>4. \A v, x \in Nat : v < x => (v + 1) * q <= x * q
  <2> TAKE v \in Nat, x \in Nat
  <2> HAVE v < x
  <2>1. x * q - (v + 1) * q = (x - (v + 1)) * q
    BY <1>2
  <2>2. (x - (v + 1)) * q >= 0
    BY <1>2
  <2> QED
    BY <1>2, <2>1, <2>2
<1>5. w < n
  <2>1. SUFFICES ASSUME n <= w PROVE FALSE
    BY <1>1, <1>3
  <2>2. n * q <= w * q
    BY <1>1, <1>2, <1>3, <1>4, <2>1
  <2> QED
    BY <1>1, <1>2, <1>3, <2>2
<1>6. w \in Workers(limit0, tasks) /\ pos \in Share(limit0, tasks, w)
  BY <1>1, <1>3, <1>5 DEF Workers, Share, n, q
<1>7. ASSUME NEW v \in Workers(limit0, tasks), pos \in Share(limit0, tasks, v)
      PROVE  v = w
  <2>1. v \in Nat /\ v * q <= pos /\ pos < (v + 1) * q
    BY <1>1, <1>7 DEF Workers, Share, n, q
  <2> QED
    BY <1>2, <1>3, <1>4, <2>1
<1> QED
  BY <1>6, <1>7

\* The tasks of a cycle of checks are all the entries of the state.
LEMMA AllTasks ==
    ASSUME TypeOK
    PROVE  Tasks = DOMAIN state
<1> DEFINE n == Len(state)
<1>1. limit \in Nat /\ n \in Nat /\ DOMAIN state = 1..n
  BY ConstantsAssumption DEF TypeOK
<1>2. ASSUME NEW i \in DOMAIN state
      PROVE  i \in Tasks
  <2>1. i - 1 \in 0..(n - 1)
    BY <1>1
  <2>2. PICK w \in Workers(limit, n) : i - 1 \in Share(limit, n, w)
    BY <1>1, <2>1, SharedOut
  <2>3. i \in TasksOf(w)
    BY <1>1, <2>2 DEF TasksOf
  <2> QED
    BY <2>3 DEF Tasks
<1>3. ASSUME NEW w \in Workers(limit, n), NEW i \in TasksOf(w)
      PROVE  i \in DOMAIN state
  <2>1. PICK pos \in Share(limit, n, w) : i = pos + 1
    BY DEF TasksOf
  <2>2. pos \in 0..(n - 1)
    BY DEF Share
  <2> QED
    BY <1>1, <2>1, <2>2
<1> QED
  BY <1>2, <1>3 DEF Tasks

----------------------------------------------------------------------------
\* The bounded sequences are the sequences that are not longer.
LEMMA Bounded ==
    ASSUME NEW S, NEW n \in Nat
    PROVE  \A s : s \in BoundedSeq(S, n) <=> s \in Seq(S) /\ Len(s) <= n
<1>1. ASSUME NEW s, s \in BoundedSeq(S, n)
      PROVE  s \in Seq(S) /\ Len(s) <= n
  <2>1. PICK m \in 0..n : s \in [1..m -> S]
    BY <1>1 DEF BoundedSeq, SeqOf
  <2>2. m \in Nat
    OBVIOUS
  <2>3. s \in Seq(S) /\ Len(s) = m
    BY <2>1, <2>2
  <2> QED
    BY <2>3
<1>2. ASSUME NEW s, s \in Seq(S), Len(s) <= n
      PROVE  s \in BoundedSeq(S, n)
  <2>1. Len(s) \in 0..n /\ s \in [1..Len(s) -> S]
    BY <1>2
  <2> QED
    BY <2>1 DEF BoundedSeq, SeqOf
<1> QED
  BY <1>1, <1>2

\* Entries, with the record of their checks as a sequence.
LEMMA Entries ==
    ASSUME NEW e
    PROVE  e \in Entry <=>
             /\ e \in [host : Host, resolved : BOOLEAN, enabled : BOOLEAN, healthy : BOOLEAN,
                       count : -MaxCount..MaxCount, recent : Seq(BOOLEAN)]
             /\ Len(e.recent) <= MaxCount
<1>1. \A s : s \in BoundedSeq(BOOLEAN, MaxCount) <=> s \in Seq(BOOLEAN) /\ Len(s) <= MaxCount
  BY Bounded, ConstantsAssumption
<1> QED
  BY <1>1 DEF Entry

\* Remember adds the result of a check at the end; what is before it stays.
LEMMA Remembers ==
    ASSUME MaxCount \in Nat \ {0}, NEW r \in Seq(BOOLEAN), Len(r) <= MaxCount, NEW p \in BOOLEAN
    PROVE  LET new == Remember(r, p)
           IN  /\ new \in Seq(BOOLEAN) /\ Len(new) \in 1..MaxCount /\ new # <<>>
               /\ Len(new) = Len(r) + 1 \/ (Len(new) = MaxCount /\ Len(r) = MaxCount)
               /\ new[Len(new)] = p
               /\ \A k \in 1..(Len(new) - 1) : new[Len(new) - k] = r[Len(r) + 1 - k]
<1> DEFINE new == Remember(r, p)
           b == IF Len(r) = MaxCount THEN Tail(r) ELSE r
<1>1. Len(r) \in Nat
  OBVIOUS
<1>2. /\ b \in Seq(BOOLEAN) /\ Len(b) \in Nat /\ Len(b) < MaxCount
      /\ Len(b) = Len(r) \/ (Len(b) = MaxCount - 1 /\ Len(r) = MaxCount)
      /\ \A k \in 1..Len(b) : b[Len(b) + 1 - k] = r[Len(r) + 1 - k]
  <2>1. CASE Len(r) = MaxCount
    <3>1. r # <<>>
      BY <1>1, <2>1
    <3>2. /\ Tail(r) \in Seq(BOOLEAN) /\ Len(Tail(r)) = Len(r) - 1
          /\ \A i \in 1..Len(Tail(r)) : Tail(r)[i] = r[i + 1]
      BY <3>1, HeadTailProperties
    <3>3. b = Tail(r) /\ Len(b) = MaxCount - 1 /\ Len(b) \in Nat
      BY <2>1, <3>2
    <3>4. ASSUME NEW k \in 1..Len(b) PROVE b[Len(b) + 1 - k] = r[Len(r) + 1 - k]
      <4>1. Len(b) + 1 - k \in 1..Len(b) /\ Len(b) + 1 - k + 1 = Len(r) + 1 - k
        BY <2>1, <3>3
      <4> QED
        BY <3>2, <3>3, <4>1
    <3> QED
      BY <2>1, <3>2, <3>3, <3>4
  <2>2. CASE Len(r) # MaxCount
    BY <1>1, <2>2
  <2> QED
    BY <2>1, <2>2
<1> HIDE DEF b
<1>3. new = Append(b, p)
  BY DEF Remember, b
<1>4. /\ new \in Seq(BOOLEAN) /\ new # <<>> /\ Len(new) = Len(b) + 1
      /\ \A i \in 1..Len(b) : new[i] = b[i]
      /\ new[Len(b) + 1] = p
  BY <1>2, <1>3, AppendProperties
<1> HIDE DEF new
<1>5. ASSUME NEW k \in 1..(Len(new) - 1) PROVE new[Len(new) - k] = r[Len(r) + 1 - k]
  <2>1. k \in 1..Len(b) /\ Len(new) - k = Len(b) + 1 - k /\ Len(b) + 1 - k \in 1..Len(b)
    BY <1>2, <1>4
  <2> QED
    BY <1>2, <1>4, <2>1
<1>6. Len(new) \in 1..MaxCount /\ new[Len(new)] = p
  BY <1>2, <1>4
<1>7. Len(new) = Len(r) + 1 \/ (Len(new) = MaxCount /\ Len(r) = MaxCount)
  BY <1>1, <1>2, <1>4
<1> QED
  BY <1>4, <1>5, <1>6, <1>7 DEF new

\* What UpdateHealthCheckStatus does to an entry.
LEMMA CheckEntry ==
    ASSUME TypeOK, NEW e \in Entry, NEW passed \in BOOLEAN
    PROVE  LET new == UpdateHealthCheckStatus(e, passed)
           IN  /\ new \in Entry /\ new.recent # <<>>
               /\ new.host = e.host /\ new.enabled = e.enabled /\ new.resolved = e.resolved
               /\ new.recent = Remember(e.recent, passed)
<1> DEFINE new == UpdateHealthCheckStatus(e, passed)
<1>1. MaxCount \in Nat \ {0} /\ rise \in Nat \ {0} /\ fall \in Nat \ {0}
  BY ConstantsAssumption DEF TypeOK
<1>2. /\ e \in [host : Host, resolved : BOOLEAN, enabled : BOOLEAN, healthy : BOOLEAN,
                count : -MaxCount..MaxCount, recent : Seq(BOOLEAN)]
      /\ Len(e.recent) <= MaxCount
  BY Entries
<1>3. /\ Remember(e.recent, passed) \in Seq(BOOLEAN) /\ Remember(e.recent, passed) # <<>>
      /\ Len(Remember(e.recent, passed)) <= MaxCount
  BY <1>1, <1>2, Remembers
<1>4. \A n \in Int : Saturate(n) \in -MaxCount..MaxCount
  BY <1>1 DEF Saturate
<1>5. new.count \in -MaxCount..MaxCount
  BY <1>1, <1>2, <1>4 DEF UpdateHealthCheckStatus
<1>6. new.healthy \in BOOLEAN
  BY <1>2 DEF UpdateHealthCheckStatus
<1>7. /\ new = [e EXCEPT !.count = new.count, !.healthy = new.healthy, !.recent = new.recent]
      /\ new.recent = Remember(e.recent, passed)
  BY <1>2 DEF UpdateHealthCheckStatus
<1> HIDE DEF new
<1>8. new \in Entry
  BY <1>2, <1>3, <1>5, <1>6, <1>7, Entries
<1> QED
  BY <1>2, <1>3, <1>7, <1>8 DEF new

\* No host has two entries.
UniqueHosts == \A i, j \in DOMAIN state : state[i].host = state[j].host => i = j

\* A new entry: unhealthy and never checked.
Fresh(e) == e.healthy = FALSE /\ e.count = 0 /\ e.recent = <<>>

\* The state applyResolverState makes of discovery state d: an entry for each host,
\* either an old one with the same key or, when there is none, a new one.
LEMMA NewStateIs ==
    ASSUME TypeOK, UniqueHosts, NEW d \in Discovery, NEW dns \in [Host -> DnsOutcome]
    PROVE  LET new == NewState(d, dns)
           IN  /\ new \in Seq(Entry) /\ DOMAIN new = DOMAIN d
               /\ \A i \in DOMAIN new :
                     /\ new[i].host = d[i].host
                     /\ \/ \E j \in DOMAIN state : Key(state[j]) = Key(new[i]) /\ new[i] = state[j]
                        \/ /\ \A j \in DOMAIN state : Key(state[j]) # Key(new[i])
                           /\ Fresh(new[i])
<1> DEFINE new == NewState(d, dns)
           Old(i) == {j \in DOMAIN state : Key(state[j]) = Key(NewEntry(d[i], dns[d[i].host]))}
<1>1. d \in Seq([host : Host, enabled : BOOLEAN])
  BY ConstantsAssumption
<1>2. Len(d) \in Nat /\ DOMAIN d = 1..Len(d)
  BY <1>1
<1>3. /\ DOMAIN new = DOMAIN d /\ new = [i \in DOMAIN d |-> new[i]]
      /\ \A i \in DOMAIN d :
            new[i] = IF Old(i) = {} THEN NewEntry(d[i], dns[d[i].host])
                     ELSE state[CHOOSE j \in Old(i) : \A k \in Old(i) : j <= k]
  BY DEF NewState
<1>4. /\ state \in Seq(Entry) /\ Len(state) \in Nat /\ DOMAIN state = 1..Len(state)
      /\ \A j \in DOMAIN state : state[j] \in Entry
  BY DEF TypeOK
<1> HIDE DEF new
<1>5. ASSUME NEW i \in DOMAIN d
      PROVE  /\ new[i] \in Entry /\ new[i].host = d[i].host
             /\ \/ \E j \in DOMAIN state : Key(state[j]) = Key(new[i]) /\ new[i] = state[j]
                \/ /\ \A j \in DOMAIN state : Key(state[j]) # Key(new[i])
                   /\ Fresh(new[i])
  <2> DEFINE n == NewEntry(d[i], dns[d[i].host])
  <2>1. d[i] \in [host : Host, enabled : BOOLEAN] /\ dns[d[i].host] \in BOOLEAN
    <3>1. d[i] \in [host : Host, enabled : BOOLEAN]
      BY <1>1, <1>2, ElementOfSeq
    <3>2. dns[d[i].host] \in DnsOutcome
      BY <3>1
    <3> QED
      BY <3>1, <3>2, ConstantsAssumption
  <2>2. n = [host |-> d[i].host, resolved |-> dns[d[i].host], enabled |-> d[i].enabled,
             healthy |-> FALSE, count |-> 0, recent |-> <<>>]
    BY DEF NewEntry
  <2>3. n \in Entry /\ n.host = d[i].host /\ Fresh(n)
    <3>1. <<>> \in Seq(BOOLEAN) /\ Len(<<>>) = 0 /\ MaxCount \in Nat
      BY EmptySeq, ConstantsAssumption
    <3>2. /\ n \in [host : Host, resolved : BOOLEAN, enabled : BOOLEAN, healthy : BOOLEAN,
                    count : -MaxCount..MaxCount, recent : Seq(BOOLEAN)]
          /\ n.recent = <<>> /\ n.host = d[i].host /\ Fresh(n)
      BY <2>1, <2>2, <3>1 DEF Fresh
    <3> HIDE DEF n
    <3> QED
      BY <3>1, <3>2, Entries
  <2>4. CASE Old(i) = {}
    <3>1. new[i] = n
      BY <1>3, <2>4
    <3>2. \A j \in DOMAIN state : Key(state[j]) # Key(n)
      BY <2>4
    <3> QED
      BY <2>3, <3>1, <3>2
  <2>5. CASE Old(i) # {}
    <3> DEFINE m == CHOOSE j \in Old(i) : \A k \in Old(i) : j <= k
    <3>1. \E j \in Old(i) : \A k \in Old(i) : j <= k
      <4>1. PICK j \in Old(i) : TRUE
        BY <2>5
      <4>2. \A k \in Old(i) : k = j
        BY <4>1 DEF UniqueHosts, Key
      <4> QED
        BY <1>4, <4>1, <4>2
    <3>2. m \in Old(i)
      BY <3>1
    <3>3. new[i] = state[m]
      BY <1>3, <2>5
    <3> HIDE DEF m
    <3>4. m \in DOMAIN state /\ Key(state[m]) = Key(n)
      BY <3>2
    <3>5. state[m].host = n.host
      BY <3>4 DEF Key
    <3> QED
      BY <1>4, <2>3, <3>3, <3>4, <3>5
  <2> QED
    BY <2>4, <2>5
<1>6. new \in Seq(Entry)
  <2>1. new \in [1..Len(d) -> Entry]
    BY <1>2, <1>3, <1>5
  <2> QED
    BY <1>2, <2>1
<1> QED
  BY <1>3, <1>5, <1>6 DEF new

----------------------------------------------------------------------------
\* The types, and that the hosts of the state are distinct.
Basic == TypeOK /\ UniqueHosts

\* A configuration is made of its parts.
LEMMA Configs == \A c \in Config : <<c[1], c[2], c[3]>> = c
BY ConstantsAssumption

LEMMA BasicInit == Init => Basic
<1> SUFFICES ASSUME Init PROVE Basic
  OBVIOUS
<1>1. <<>> \in Seq(Entry) /\ DOMAIN <<>> = {}
  BY EmptySeq
<1>2. TypeOK
  <2>1. <<rise, fall, limit>> \in Config
    BY Configs DEF Init
  <2>2. resolverChan \in [Resolver -> Discovery \cup {Nothing}]
    BY DEF Init
  <2>3. up \subseteq Host /\ resolver \in Resolver /\ selected \in Resolver
    BY ConstantsAssumption DEF Init
  <2>4. /\ resolverClosed = {} /\ closing = {} /\ confChan = TRUE /\ ctxDone = FALSE
        /\ state = <<>> /\ initialSent = FALSE /\ initialRecv = FALSE /\ changed = FALSE
        /\ updateChan = "empty" /\ pc = "top" /\ balancer = "idle"
        /\ todo = {} /\ inflight = {} /\ changes = 0
    BY DEF Init
  <2>5. changes \in 0..MaxChanges
    BY <2>4, ConstantsAssumption
  <2> QED
    BY <1>1, <2>1, <2>2, <2>3, <2>4, <2>5 DEF TypeOK
<1>3. UniqueHosts
  BY <1>1 DEF Init, UniqueHosts
<1> QED
  BY <1>2, <1>3 DEF Basic

\* Every step of every goroutine, and of the world around them, keeps the types.
LEMMA BasicStep ==
    ASSUME Basic, [Next]_vars
    PROVE  Basic'
<1> USE DEF resolverVars, confVars, stateVars, taskVars, chanVars, balancerVars
<1>a. TypeOK /\ UniqueHosts
  BY DEF Basic
<1>b. state' = state => UniqueHosts'
  BY <1>a DEF UniqueHosts
<1>1. CASE LoopTop
  <2>1. TypeOK'
    BY <1>a, <1>1 DEF TypeOK, LoopTop
  <2> QED
    BY <1>b, <1>1, <2>1 DEF Basic, LoopTop
<1>2. CASE OnClosed
  <2>1. TypeOK'
    BY <1>a, <1>2 DEF TypeOK, OnClosed
  <2> QED
    BY <1>b, <1>2, <2>1 DEF Basic, OnClosed
<1>3. CASE OnConfChange
  <2>1. TypeOK'
    BY <1>a, <1>3 DEF TypeOK, OnConfChange
  <2> QED
    BY <1>b, <1>3, <2>1 DEF Basic, OnConfChange
<1>4. CASE notifyStateChange
  <2>1. TypeOK'
    BY <1>a, <1>4 DEF TypeOK, notifyStateChange
  <2> QED
    BY <1>b, <1>4, <2>1 DEF Basic, notifyStateChange
<1>5. CASE Receive
  <2>1. TypeOK'
    BY <1>a, <1>5 DEF TypeOK, Receive
  <2> QED
    BY <1>b, <1>5, <2>1 DEF Basic, Receive
<1>6. CASE BalancerStops
  <2>1. TypeOK'
    BY <1>a, <1>6 DEF TypeOK, BalancerStops
  <2> QED
    BY <1>b, <1>6, <2>1 DEF Basic, BalancerStops
<1>7. CASE GetState
  <2>1. TypeOK'
    BY <1>a, <1>7 DEF TypeOK, GetState
  <2> QED
    BY <1>b, <1>7, <2>1 DEF Basic, GetState
<1>8. CASE HostChanges
  <2>1. TypeOK'
    BY <1>a, <1>8, ConstantsAssumption DEF TypeOK, HostChanges, Change
  <2> QED
    BY <1>b, <1>8, <2>1 DEF Basic, HostChanges
<1>9. CASE Close
  <2>1. TypeOK'
    BY <1>a, <1>9, ConstantsAssumption DEF TypeOK, Close, Change
  <2> QED
    BY <1>b, <1>9, <2>1 DEF Basic, Close
<1>10. CASE CloseResolver
  <2>1. TypeOK'
    BY <1>a, <1>10 DEF TypeOK, CloseResolver
  <2> QED
    BY <1>b, <1>10, <2>1 DEF Basic, CloseResolver
<1>11. CASE ResolverUpdate
  <2>1. TypeOK'
    BY <1>a, <1>11, ConstantsAssumption DEF TypeOK, ResolverUpdate, Change
  <2> QED
    BY <1>b, <1>11, <2>1 DEF Basic, ResolverUpdate
<1>12. CASE Update
  <2>1. <<rise', fall', limit'>> \in Config
    BY <1>12, Configs DEF Update
  <2>2. TypeOK'
    BY <1>a, <1>12, <2>1, ConstantsAssumption DEF TypeOK, Update, Change
  <2> QED
    BY <1>b, <1>12, <2>2 DEF Basic, Update
<1>13. CASE UpdateResolver
  <2>1. TypeOK'
    BY <1>a, <1>13, ConstantsAssumption DEF TypeOK, UpdateResolver, Change
  <2> QED
    BY <1>b, <1>13, <2>1 DEF Basic, UpdateResolver
<1>14. CASE OnResolverState
  <2>1. resolverChan[selected] \in Discovery
    BY <1>a, <1>14 DEF OnResolverState, TypeOK
  <2>2. PICK dns \in [Host -> DnsOutcome] : state' = NewState(resolverChan[selected], dns)
    BY <1>14 DEF OnResolverState
  <2>3. /\ state' \in Seq(Entry) /\ DOMAIN state' = DOMAIN resolverChan[selected]
        /\ \A i \in DOMAIN state' : state'[i].host = resolverChan[selected][i].host
    BY <1>a, <2>1, <2>2, NewStateIs
  <2>4. UniqueHosts'
    BY <2>1, <2>3, DiscoveryAssumption DEF UniqueHosts
  <2>5. todo' = {}
    BY <1>a, <1>14 DEF TypeOK, OnResolverState
  <2>6. TypeOK'
    BY <1>a, <1>14, <2>3, <2>5 DEF TypeOK, OnResolverState
  <2> QED
    BY <2>4, <2>6 DEF Basic
<1>15. CASE OnTimer
  <2>1. Tasks = DOMAIN state
    BY <1>a, AllTasks
  <2>2. TypeOK'
    BY <1>a, <1>15, <2>1 DEF TypeOK, OnTimer
  <2> QED
    BY <1>b, <1>15, <2>2 DEF Basic, OnTimer
<1>16. CASE ChecksDone
  <2>1. \A t \in inflight : [t EXCEPT !.late = TRUE] \in [task : Nat, host : Host, enabled : BOOLEAN, late : BOOLEAN]
    BY <1>a DEF TypeOK
  <2>2. TypeOK'
    BY <1>a, <1>16, <2>1 DEF TypeOK, ChecksDone
  <2> QED
    BY <1>b, <1>16, <2>2 DEF Basic, ChecksDone
<1>17. ASSUME NEW i \in todo, StartTask(i)
      PROVE  Basic'
  <2>1. i \in DOMAIN state /\ i \in Nat /\ state[i].host \in Host /\ state[i].enabled \in BOOLEAN
    BY <1>a, Entries DEF TypeOK
  <2> DEFINE new == [task |-> i, host |-> state[i].host, enabled |-> state[i].enabled, late |-> FALSE]
  <2>2. new \in [task : Nat, host : Host, enabled : BOOLEAN, late : BOOLEAN] /\ ~new.late
    BY <2>1
  <2>3. inflight' = inflight \cup {new} /\ todo' = todo \ {i}
    BY <1>17 DEF StartTask
  <2> HIDE DEF new
  <2>4. TypeOK'
    BY <1>a, <1>17, <2>2, <2>3 DEF TypeOK, StartTask
  <2> QED
    BY <1>b, <1>17, <2>4 DEF Basic, StartTask
<1>18. ASSUME NEW t \in inflight, EndTask(t)
      PROVE  Basic'
  <2> DEFINE new == UpdateHealthCheckStatus(state[t.task], t.enabled /\ t.host \in up)
  <2>1. t.task \in DOMAIN state /\ state[t.task] \in Entry /\ (t.enabled /\ t.host \in up) \in BOOLEAN
    BY <1>a, <1>18 DEF TypeOK, EndTask
  <2>2. new \in Entry /\ new.host = state[t.task].host
    BY <1>a, <2>1, CheckEntry
  <2> HIDE DEF new
  <2>3. state' = [state EXCEPT ![t.task] = new]
    BY <1>18 DEF EndTask, new
  <2>4. state' \in Seq(Entry) /\ DOMAIN state' = DOMAIN state
    BY <1>a, <2>1, <2>2, <2>3 DEF TypeOK
  <2>5. UniqueHosts'
    BY <1>a, <2>1, <2>2, <2>3, <2>4 DEF UniqueHosts
  <2>6. changed' \in BOOLEAN
    BY <1>a, <1>18 DEF TypeOK, EndTask
  <2>7. TypeOK'
    BY <1>a, <1>18, <2>4, <2>6 DEF TypeOK, EndTask
  <2> QED
    BY <2>5, <2>7 DEF Basic
<1>19. ASSUME NEW t \in inflight, TaskPanics(t)
      PROVE  Basic'
  <2>1. TypeOK'
    BY <1>a, <1>19 DEF TypeOK, TaskPanics
  <2> QED
    BY <1>b, <1>19, <2>1 DEF Basic, TaskPanics
<1>20. CASE UNCHANGED vars
  BY <1>a, <1>20 DEF Basic, TypeOK, UniqueHosts, vars
<1> QED
  BY <1>1, <1>2, <1>3, <1>4, <1>5, <1>6, <1>7, <1>8, <1>9, <1>10, <1>11, <1>12, <1>13, <1>14, <1>15, <1>16, <1>17, <1>18, <1>19, <1>20
     DEF Next, Loop, Worker, Consumer, Environment

\* The health manager keeps its types: only tasks of a running or cancelled call
\* of CompleteTasks are left, and they index the state they were started for.
THEOREM TypeCorrect == Spec => []TypeOK
<1>1. Basic => TypeOK
  BY DEF Basic
<1> QED
  BY BasicInit, BasicStep, <1>1, PTL DEF Spec

----------------------------------------------------------------------------
(***************************************************************************)
(* The inductive invariant behind PublishedFresh, FirstStateChecked and     *)
(* FlipsDamped.  They do not carry themselves: during a cycle of checks the *)
(* stored state is behind the manager's own, but then changed says so; and  *)
(* the checked entries are those nobody has left to check.                  *)
(***************************************************************************)
\* Unless the context is cancelled, workers are at tasks only during a cycle, and
\* at tasks of the present state.
Busy == ~ctxDone => \A t \in inflight : pc = "check" /\ t.task \in DOMAIN state

\* Unless it is about to be stored, or a change of this cycle is, the manager's
\* state has been stored.
Stored ==
    (/\ ~ctxDone /\ initialSent
     /\ pc \in {"top", "select", "drain", "send"} \/ (pc = "check" /\ ~changed)) =>
        ToSet(lastUpdate) = ToSet(View(state))

\* Every entry waits to be checked, is being checked or has been.
Covered ==
    pc = "check" /\ ~ctxDone =>
        \A i \in DOMAIN state :
            i \in todo \/ (\E t \in inflight : t.task = i) \/ state[i].recent # <<>>

Received == state # <<>> \/ pc = "check" => initialRecv

\* The last n results of a record are all p.
AtEnd(recent, n, p) == n <= Len(recent) /\ \A k \in 0..(n - 1) : recent[Len(recent) - k] = p

\* healthCount counts the checks since the last one that came out differently,
\* upwards when they passed and downwards when they failed.
Sign(p, n) == IF p THEN n ELSE -n
Counts(e) == \A p \in BOOLEAN : Sign(p, e.count) > 0 => AtEnd(e.recent, Sign(p, e.count), p)
Counted == \A i \in DOMAIN state : Counts(state[i])

IInv == Basic /\ Busy /\ Stored /\ Covered /\ Received /\ Counted

\* A check moves the counter of an entry together with the record, and flips its
\* health at the threshold only.
LEMMA CheckCounts ==
    ASSUME TypeOK, NEW e \in Entry, Counts(e), NEW passed \in BOOLEAN
    PROVE  LET new == UpdateHealthCheckStatus(e, passed)
           IN  /\ Counts(new)
               /\ new.healthy # e.healthy =>
                     /\ new.healthy = passed
                     /\ AtEnd(new.recent, IF new.healthy THEN rise ELSE fall, new.healthy)
<1> DEFINE new == UpdateHealthCheckStatus(e, passed)
           r == e.recent
           s == Remember(r, passed)
           n == Sign(passed, new.count)
           m == IF Sign(passed, e.count) > 0 THEN Sign(passed, e.count) ELSE 0
<1>1. /\ MaxCount \in Nat \ {0} /\ rise \in 1..MaxCount /\ fall \in 1..MaxCount
  BY ConstantsAssumption DEF TypeOK
<1>2. /\ e.count \in -MaxCount..MaxCount /\ e.healthy \in BOOLEAN
      /\ r \in Seq(BOOLEAN) /\ Len(r) <= MaxCount /\ Len(r) \in Nat
  BY Entries
<1>3. new.recent = s
  BY CheckEntry
<1>4. /\ Len(s) \in 1..MaxCount
      /\ Len(s) = Len(r) + 1 \/ (Len(s) = MaxCount /\ Len(r) = MaxCount)
      /\ s[Len(s)] = passed
      /\ \A k \in 1..(Len(s) - 1) : s[Len(s) - k] = r[Len(r) + 1 - k]
  <2> HIDE DEF r
  <2> QED
    BY <1>1, <1>2, Remembers
<1>5. /\ new.count = Saturate(IF passed THEN (IF e.count < 0 THEN 1 ELSE e.count + 1)
                                        ELSE (IF e.count > 0 THEN -1 ELSE e.count - 1))
      /\ new.healthy = IF passed THEN e.healthy \/ new.count >= rise
                                 ELSE e.healthy /\ -new.count < fall
  <2>1. e \in [host : Host, resolved : BOOLEAN, enabled : BOOLEAN, healthy : BOOLEAN,
               count : -MaxCount..MaxCount, recent : Seq(BOOLEAN)]
    BY Entries
  <2> QED
    BY <2>1 DEF UpdateHealthCheckStatus
<1> HIDE DEF new, r, s
<1>6. /\ n \in 1..MaxCount /\ m \in 0..MaxCount /\ n <= m + 1 /\ new.count \in Int
      /\ \A p \in BOOLEAN : Sign(p, new.count) > 0 => p = passed
  <2>1. CASE passed
    <3>1. n = new.count /\ m = IF e.count > 0 THEN e.count ELSE 0
      BY <2>1 DEF Sign
    <3>2. new.count = Saturate(IF e.count < 0 THEN 1 ELSE e.count + 1)
      BY <1>5, <2>1
    <3>3. n \in 1..MaxCount /\ m \in 0..MaxCount /\ n <= m + 1
      BY <1>1, <1>2, <3>1, <3>2 DEF Saturate
    <3>4. \A p \in BOOLEAN : Sign(p, new.count) > 0 => p
      BY <1>1, <3>1, <3>3 DEF Sign
    <3>5. \A p \in BOOLEAN : Sign(p, new.count) > 0 => p = passed
      BY <2>1, <3>4, Zenon
    <3> HIDE DEF n, m
    <3> QED
      BY <1>1, <3>1, <3>3, <3>5
  <2>2. CASE ~passed
    <3>1. n = -new.count /\ m = IF -e.count > 0 THEN -e.count ELSE 0
      BY <2>2 DEF Sign
    <3>2. new.count = Saturate(IF e.count > 0 THEN -1 ELSE e.count - 1)
      BY <1>5, <2>2
    <3>3. new.count \in -MaxCount..(-1) /\ m \in 0..MaxCount /\ n <= m + 1
      BY <1>1, <1>2, <3>1, <3>2 DEF Saturate
    <3>4. \A p \in BOOLEAN : Sign(p, new.count) > 0 => ~p
      BY <1>1, <3>1, <3>3 DEF Sign
    <3> QED
      BY <1>1, <2>2, <3>1, <3>3, <3>4
  <2> QED
    BY <2>1, <2>2
<1>7. AtEnd(r, m, passed)
  <2>1. CASE Sign(passed, e.count) > 0
    BY <2>1 DEF Counts, r
  <2>2. CASE ~(Sign(passed, e.count) > 0)
    BY <1>2, <2>2 DEF AtEnd
  <2> QED
    BY <2>1, <2>2
<1> HIDE DEF m
<1>8. ASSUME NEW x \in 1..n PROVE AtEnd(s, x, passed)
  <2>1. x \in 1..MaxCount /\ x <= m + 1 /\ x <= Len(s)
    BY <1>1, <1>2, <1>4, <1>6, <1>7 DEF AtEnd
  <2>2. ASSUME NEW k \in 0..(x - 1) PROVE s[Len(s) - k] = passed
    <3>1. CASE k = 0
      <4>1. Len(s) - k = Len(s)
        BY <1>4, <3>1
      <4> QED
        BY <1>4, <4>1
    <3>2. CASE k # 0
      <4>1. k \in 1..(Len(s) - 1) /\ k - 1 \in 0..(m - 1) /\ Len(r) - (k - 1) = Len(r) + 1 - k
        BY <1>1, <1>2, <1>4, <1>6, <2>1, <3>2
      <4>2. s[Len(s) - k] = r[Len(r) + 1 - k]
        BY <1>4, <4>1
      <4>3. r[Len(r) - (k - 1)] = passed
        BY <1>7, <4>1 DEF AtEnd
      <4> QED
        BY <4>1, <4>2, <4>3
    <3> QED
      BY <3>1, <3>2
  <2> QED
    BY <2>1, <2>2 DEF AtEnd
<1> HIDE DEF n
<1>9. Counts(new)
  <2> SUFFICES ASSUME NEW p \in BOOLEAN, Sign(p, new.count) > 0
               PROVE  AtEnd(s, Sign(p, new.count), p)
    BY <1>3 DEF Counts
  <2>1. p = passed
    BY <1>6
  <2>2. Sign(p, new.count) = n
    BY <2>1 DEF n
  <2>3. n \in 1..n
    BY <1>6
  <2>4. AtEnd(s, n, passed)
    BY <1>8, <2>3
  <2> QED
    BY <2>1, <2>2, <2>4
<1>10. ASSUME new.healthy # e.healthy
      PROVE  new.healthy = passed /\ AtEnd(new.recent, IF new.healthy THEN rise ELSE fall, new.healthy)
  <2> DEFINE x == IF passed THEN rise ELSE fall
  <2>1. new.healthy = passed /\ x \in 1..n
    BY <1>1, <1>2, <1>5, <1>6, <1>10 DEF Sign, n
  <2>2. AtEnd(s, x, passed)
    BY <1>8, <2>1
  <2> QED
    BY <1>3, <2>1, <2>2
<1> QED
  BY <1>9, <1>10 DEF new

----------------------------------------------------------------------------
LEMMA InitOK == Init => IInv
<1> SUFFICES ASSUME Init PROVE IInv
  OBVIOUS
<1>1. Basic
  BY BasicInit
<1>2. DOMAIN state = {} /\ inflight = {} /\ ~initialSent /\ pc = "top" /\ state = <<>>
  BY EmptySeq DEF Init
<1> QED
  BY <1>1, <1>2 DEF IInv, Busy, Stored, Covered, Received, Counted

\* Nothing but the place of the loop between two events, or a cancellation, changes.
Quiet ==
    /\ UNCHANGED <<state, todo, inflight, changed, initialSent, initialRecv, lastUpdate>>
    /\ ctxDone => ctxDone'
    /\ \/ pc' = pc
       \/ pc \in {"top", "select"} /\ pc' \in {"top", "select", "stopped"}
       \/ pc = "drain" /\ pc' = "send"
       \/ pc = "send" /\ pc' = "top"

LEMMA QuietKeeps ==
    ASSUME IInv, Basic', Quiet
    PROVE  IInv'
<1> USE DEF Quiet
<1>1. Busy'
  BY DEF IInv, Busy
<1>2. Stored'
  BY DEF IInv, Stored
<1>3. Covered'
  BY DEF IInv, Covered
<1>4. Received'
  BY DEF IInv, Received
<1>5. Counted'
  BY DEF IInv, Counted
<1> QED
  BY <1>1, <1>2, <1>3, <1>4, <1>5 DEF IInv

\* The loop's own steps and the workers'.
LEMMA ResolverStateKeeps ==
    ASSUME IInv, Basic', OnResolverState
    PROVE  IInv'
<1>1. TypeOK /\ UniqueHosts
  BY DEF IInv, Basic
<1>2. resolverChan[selected] \in Discovery
  BY <1>1 DEF OnResolverState, TypeOK
<1>3. PICK dns \in [Host -> DnsOutcome] : state' = NewState(resolverChan[selected], dns)
  BY DEF OnResolverState
<1>4. \A i \in DOMAIN state' :
         \/ \E j \in DOMAIN state : Key(state[j]) = Key(state'[i]) /\ state'[i] = state[j]
         \/ (\A j \in DOMAIN state : Key(state[j]) # Key(state'[i])) /\ Fresh(state'[i])
  BY <1>1, <1>2, <1>3, NewStateIs
<1>5. /\ pc = "select" /\ pc' \in {"store", "top"} /\ initialRecv' = TRUE
      /\ UNCHANGED <<ctxDone, initialSent, lastUpdate, inflight>>
      /\ pc' = "top" => SameHosts(state, state') \/ ~initialSent
  BY DEF OnResolverState, confVars, chanVars, taskVars
<1>6. Busy'
  BY <1>5 DEF IInv, Busy
<1>7. Stored'
  <2> SUFFICES ASSUME ~ctxDone, initialSent, pc' = "top"
               PROVE  ToSet(lastUpdate) = ToSet(View(state'))
    BY <1>5 DEF Stored
  <2>1. ToSet(lastUpdate) = ToSet(View(state))
    BY <1>5 DEF IInv, Stored
  <2>2. {Key(state[i]) : i \in DOMAIN state} = {Key(state'[i]) : i \in DOMAIN state'}
    BY <1>5 DEF SameHosts
  <2>3. \A i \in DOMAIN state' : \E j \in DOMAIN state : state'[i] = state[j]
    BY <1>4, <2>2
  <2>4. \A j \in DOMAIN state : \E i \in DOMAIN state' : state'[i] = state[j]
    <3> TAKE j \in DOMAIN state
    <3>1. PICK i \in DOMAIN state' : Key(state'[i]) = Key(state[j])
      BY <2>2
    <3>2. PICK k \in DOMAIN state : Key(state[k]) = Key(state'[i]) /\ state'[i] = state[k]
      BY <1>4, <3>1
    <3>3. k = j
      BY <1>1, <3>1, <3>2 DEF UniqueHosts, Key
    <3> QED
      BY <3>2, <3>3
  <2>5. \A v : (\E i \in DOMAIN state : v = View(state)[i]) <=> (\E i \in DOMAIN state' : v = View(state')[i])
    <3>1. \A i \in DOMAIN state, j \in DOMAIN state' :
             state[i] = state'[j] => View(state)[i] = View(state')[j]
      BY DEF View
    <3> QED
      BY <2>3, <2>4, <3>1
  <2>6. ToSet(View(state)) = ToSet(View(state'))
    <3>1. DOMAIN View(state) = DOMAIN state /\ DOMAIN View(state') = DOMAIN state'
      BY DEF View
    <3> QED
      BY <2>5, <3>1 DEF ToSet
  <2> QED
    BY <2>1, <2>6
<1>8. Covered'
  BY <1>5 DEF Covered
<1>9. Received'
  BY <1>5 DEF Received
<1>10. Counted'
  <2> SUFFICES ASSUME NEW i \in DOMAIN state' PROVE Counts(state'[i])
    BY DEF Counted
  <2>1. CASE Fresh(state'[i])
    BY <2>1 DEF Fresh, Counts, Sign
  <2>2. CASE \E j \in DOMAIN state : state'[i] = state[j]
    BY <2>2 DEF IInv, Counted
  <2> QED
    BY <1>4, <2>1, <2>2
<1> QED
  BY <1>6, <1>7, <1>8, <1>9, <1>10 DEF IInv

LEMMA TimerKeeps ==
    ASSUME IInv, Basic', OnTimer
    PROVE  IInv'
<1>1. CASE state = <<>> /\ ~initialRecv
  <2>1. Quiet
    BY <1>1 DEF OnTimer, Quiet, taskVars, stateVars, chanVars, confVars
  <2> QED
    BY <2>1, QuietKeeps
<1>2. CASE ~(state = <<>> /\ ~initialRecv)
  <2>1. /\ pc = "select" /\ pc' = "check" /\ todo' = DOMAIN state /\ changed' = FALSE
        /\ UNCHANGED <<inflight, state, initialSent, initialRecv, lastUpdate, ctxDone>>
    BY <1>2, AllTasks DEF IInv, Basic, OnTimer, stateVars, chanVars, confVars
  <2>2. Busy'
    BY <2>1 DEF IInv, Busy
  <2>3. Stored'
    BY <2>1 DEF IInv, Stored
  <2>4. Covered' /\ Counted'
    BY <2>1 DEF IInv, Covered, Counted
  <2>5. Received'
    BY <1>2, <2>1 DEF IInv, Received
  <2> QED
    BY <2>2, <2>3, <2>4, <2>5 DEF IInv
<1> QED
  BY <1>1, <1>2

LEMMA StartKeeps ==
    ASSUME IInv, Basic', NEW i \in todo, StartTask(i)
    PROVE  IInv'
<1>1. pc = "check" /\ i \in DOMAIN state
  BY DEF IInv, Basic, TypeOK
<1>2. /\ todo' = todo \ {i}
      /\ inflight' = inflight \cup {[task |-> i, host |-> state[i].host,
                                     enabled |-> state[i].enabled, late |-> FALSE]}
      /\ UNCHANGED <<pc, state, changed, initialSent, initialRecv, lastUpdate, ctxDone>>
  BY DEF StartTask, stateVars, chanVars, confVars
<1>3. \E t \in inflight' : t.task = i
  <2> DEFINE new == [task |-> i, host |-> state[i].host, enabled |-> state[i].enabled, late |-> FALSE]
  <2>1. new \in inflight' /\ new.task = i
    BY <1>2
  <2> QED
    BY <2>1
<1>4. Busy'
  BY <1>1, <1>2 DEF IInv, Busy
<1>5. Stored' /\ Received' /\ Counted'
  BY <1>2 DEF IInv, Stored, Received, Counted
<1>6. Covered'
  BY <1>2, <1>3 DEF IInv, Covered
<1> QED
  BY <1>4, <1>5, <1>6 DEF IInv

LEMMA EndKeeps ==
    ASSUME IInv, Basic', NEW t \in inflight, EndTask(t)
    PROVE  IInv'
<1> DEFINE i == t.task
           old == state[i]
           new == UpdateHealthCheckStatus(old, t.enabled /\ t.host \in up)
<1>1. TypeOK /\ i \in DOMAIN state /\ old \in Entry /\ (t.enabled /\ t.host \in up) \in BOOLEAN
  BY DEF IInv, Basic, TypeOK, EndTask
<1>2. Counts(old)
  BY <1>1 DEF IInv, Counted
<1>3. new.recent # <<>> /\ new.host = old.host /\ new.enabled = old.enabled /\ Counts(new)
  BY <1>1, <1>2, CheckEntry, CheckCounts
<1> HIDE DEF new
<1>4. /\ state' = [state EXCEPT ![i] = new] /\ inflight' = inflight \ {t}
      /\ changed' = (changed \/ (~t.late /\ new.healthy # old.healthy))
      /\ UNCHANGED <<pc, todo, initialSent, initialRecv, lastUpdate, ctxDone>>
  BY DEF EndTask, chanVars, confVars, new
<1> HIDE DEF old
<1>5. DOMAIN state' = DOMAIN state /\ state'[i] = new /\ \A j \in DOMAIN state : j # i => state'[j] = state[j]
  BY <1>1, <1>4
<1>6. Busy'
  BY <1>4, <1>5 DEF IInv, Busy
<1>7. Stored'
  <2> SUFFICES ASSUME ~ctxDone, initialSent,
                      pc \in {"top", "select", "drain", "send"} \/ (pc = "check" /\ ~changed')
               PROVE  ToSet(lastUpdate) = ToSet(View(state'))
    BY <1>4 DEF Stored
  <2>1. pc = "check" /\ ~t.late
    BY <1>1 DEF IInv, Busy, TypeOK
  <2>2. ~changed /\ new.healthy = old.healthy
    BY <1>4, <2>1
  <2>3. \A j \in DOMAIN state : /\ state'[j].host = state[j].host /\ state'[j].enabled = state[j].enabled
                                /\ state'[j].healthy = state[j].healthy
    BY <1>3, <1>5, <2>2 DEF old
  <2>4. ToSet(View(state')) = ToSet(View(state))
    <3>1. View(state') = View(state)
      BY <1>5, <2>3 DEF View
    <3> QED
      BY <3>1
  <2>5. ToSet(lastUpdate) = ToSet(View(state))
    BY <2>1, <2>2 DEF IInv, Stored
  <2> QED
    BY <2>4, <2>5
<1>8. Covered'
  <2> SUFFICES ASSUME pc = "check", ~ctxDone, NEW j \in DOMAIN state
               PROVE  j \in todo \/ (\E x \in inflight' : x.task = j) \/ state'[j].recent # <<>>
    BY <1>4, <1>5 DEF Covered
  <2>1. CASE j = i
    BY <1>3, <1>5, <2>1
  <2>2. CASE j # i
    <3>1. j \in todo \/ (\E x \in inflight : x.task = j) \/ state[j].recent # <<>>
      BY DEF IInv, Covered
    <3>2. \A x \in inflight : x.task = j => x \in inflight'
      BY <1>4, <2>2
    <3> QED
      BY <1>5, <2>2, <3>1, <3>2
  <2> QED
    BY <2>1, <2>2
<1>9. Received'
  BY <1>1, <1>4, <1>5 DEF IInv, Received
<1>10. Counted'
  BY <1>3, <1>5 DEF IInv, Counted
<1> QED
  BY <1>6, <1>7, <1>8, <1>9, <1>10 DEF IInv

LEMMA DoneKeeps ==
    ASSUME IInv, Basic', ChecksDone
    PROVE  IInv'
<1>1. /\ pc = "check" /\ initialSent' = TRUE
      /\ pc' \in {"store", "top"} /\ (pc' = "top" => ~changed /\ initialSent)
      /\ ctxDone \/ inflight = {}
      /\ inflight' = {[t EXCEPT !.late = TRUE] : t \in inflight}
      /\ UNCHANGED <<state, changed, initialRecv, lastUpdate, ctxDone>>
  BY DEF ChecksDone, chanVars, confVars
<1>2. Busy'
  BY <1>1 DEF Busy
<1>3. Stored'
  BY <1>1 DEF IInv, Stored
<1>4. Covered' /\ Received' /\ Counted'
  BY <1>1 DEF IInv, Covered, Received, Counted
<1> QED
  BY <1>2, <1>3, <1>4 DEF IInv

LEMMA NotifyKeeps ==
    ASSUME IInv, Basic', notifyStateChange
    PROVE  IInv'
<1> USE DEF confVars, stateVars, taskVars
<1>1. CASE pc = "store"
  <2>1. /\ pc' = "drain" /\ lastUpdate' = View(state)
        /\ UNCHANGED <<state, todo, inflight, changed, initialSent, initialRecv, ctxDone>>
    BY <1>1 DEF notifyStateChange
  <2>2. Busy' /\ Stored' /\ Covered' /\ Received' /\ Counted'
    BY <1>1, <2>1 DEF IInv, Busy, Stored, Covered, Received, Counted
  <2> QED
    BY <2>2 DEF IInv
<1>2. CASE pc # "store"
  <2>1. Quiet
    BY <1>2 DEF notifyStateChange, Quiet
  <2> QED
    BY <2>1, QuietKeeps
<1> QED
  BY <1>1, <1>2

LEMMA PanicKeeps ==
    ASSUME IInv, Basic', NEW t \in inflight, TaskPanics(t)
    PROVE  IInv'
<1>1. /\ pc' = "panic" /\ inflight' = {}
      /\ UNCHANGED <<state, initialRecv, ctxDone>>
  BY DEF TaskPanics, confVars, stateVars
<1> QED
  BY <1>1 DEF IInv, Busy, Stored, Covered, Received, Counted

LEMMA StepOK ==
    ASSUME IInv, [Next]_vars
    PROVE  IInv'
<1> USE DEF resolverVars, confVars, stateVars, taskVars, chanVars, balancerVars
<1>a. Basic'
  BY BasicStep DEF IInv
<1>1. CASE LoopTop
  <2>1. Quiet
    BY <1>1 DEF Quiet, LoopTop
  <2> QED
    BY <1>a, <2>1, QuietKeeps
<1>2. CASE OnClosed
  <2>1. Quiet
    BY <1>2 DEF Quiet, OnClosed
  <2> QED
    BY <1>a, <2>1, QuietKeeps
<1>3. CASE OnConfChange
  <2>1. Quiet
    BY <1>3 DEF Quiet, OnConfChange
  <2> QED
    BY <1>a, <2>1, QuietKeeps
<1>4. CASE Receive
  <2>1. Quiet
    BY <1>4 DEF Quiet, Receive
  <2> QED
    BY <1>a, <2>1, QuietKeeps
<1>5. CASE BalancerStops
  <2>1. Quiet
    BY <1>5 DEF Quiet, BalancerStops
  <2> QED
    BY <1>a, <2>1, QuietKeeps
<1>6. CASE GetState
  <2>1. Quiet
    BY <1>6 DEF Quiet, GetState
  <2> QED
    BY <1>a, <2>1, QuietKeeps
<1>7. CASE HostChanges
  <2>1. Quiet
    BY <1>7 DEF Quiet, HostChanges
  <2> QED
    BY <1>a, <2>1, QuietKeeps
<1>8. CASE Close
  <2>1. Quiet
    BY <1>8 DEF Quiet, Close
  <2> QED
    BY <1>a, <2>1, QuietKeeps
<1>9. CASE CloseResolver
  <2>1. Quiet
    BY <1>9 DEF Quiet, CloseResolver
  <2> QED
    BY <1>a, <2>1, QuietKeeps
<1>10. CASE ResolverUpdate
  <2>1. Quiet
    BY <1>10 DEF Quiet, ResolverUpdate
  <2> QED
    BY <1>a, <2>1, QuietKeeps
<1>11. CASE Update
  <2>1. Quiet
    BY <1>11 DEF Quiet, Update
  <2> QED
    BY <1>a, <2>1, QuietKeeps
<1>12. CASE UpdateResolver
  <2>1. Quiet
    BY <1>12 DEF Quiet, UpdateResolver
  <2> QED
    BY <1>a, <2>1, QuietKeeps
<1>13. CASE UNCHANGED vars
  <2>1. Quiet
    BY <1>13 DEF Quiet, vars
  <2> QED
    BY <1>a, <2>1, QuietKeeps
<1> QED
  BY <1>a, <1>1, <1>2, <1>3, <1>4, <1>5, <1>6, <1>7, <1>8, <1>9, <1>10, <1>11, <1>12, <1>13,
     ResolverStateKeeps, TimerKeeps, StartKeeps, EndKeeps, DoneKeeps, NotifyKeeps, PanicKeeps
     DEF Next, Loop, Worker, Consumer, Environment

LEMMA Invariance == Spec => []IInv
BY InitOK, StepOK, PTL DEF Spec

----------------------------------------------------------------------------
\* notifyStateChange is called often enough: between two events the state stored
\* for the balancer tells of every host what the manager's own does.
THEOREM PublishedIsFresh == Spec => []PublishedFresh
<1>1. IInv => PublishedFresh
  BY DEF IInv, Stored, PublishedFresh
<1> QED
  BY Invariance, <1>1, PTL

\* Every entry of the first state that is handed over has been checked, whatever
\* the concurrency limit and whenever resolver updates arrive.
THEOREM FirstIsChecked == Spec => FirstStateChecked
<1> DEFINE A == ~initialSent /\ initialSent' /\ ~ctxDone =>
                   initialRecv /\ \A i \in DOMAIN state : state[i].recent # <<>>
<1>1. ASSUME IInv, [Next]_vars PROVE [A]_vars
  <2> SUFFICES ASSUME ~initialSent, initialSent', ~ctxDone, Next
               PROVE  initialRecv /\ \A i \in DOMAIN state : state[i].recent # <<>>
    BY <1>1 DEF vars
  <2>1. ChecksDone
    BY DEF Next, Loop, Worker, Consumer, Environment, LoopTop, OnResolverState, OnClosed,
           OnConfChange, OnTimer, notifyStateChange, StartTask, EndTask, TaskPanics, Receive,
           BalancerStops, GetState, ResolverUpdate, Update, UpdateResolver, Close, CloseResolver,
           HostChanges, stateVars
  <2>2. pc = "check" /\ todo = {} /\ inflight = {}
    BY <2>1 DEF ChecksDone
  <2> QED
    BY <1>1, <2>2 DEF IInv, Covered, Received
<1>2. Spec => [][A]_vars
  BY Invariance, <1>1, PTL DEF Spec
<1> QED
  BY <1>2 DEF FirstStateChecked

\* The health of a host that stays discovered flips after riseCount or fallCount
\* equal results in a row, and never otherwise.
THEOREM FlipsAreDamped == Spec => FlipsDamped
<1> DEFINE P(i, j) == Key(state[i]) = Key(state'[j]) /\ state[i].healthy # state'[j].healthy =>
                        LET e == state'[j]
                            n == IF e.healthy THEN rise ELSE fall
                        IN  /\ Len(e.recent) >= n
                            /\ \A k \in (Len(e.recent) - n + 1)..Len(e.recent) : e.recent[k] = e.healthy
           A == \A i \in DOMAIN state, j \in DOMAIN state' : P(i, j)
<1>1. ASSUME IInv, [Next]_vars PROVE A
  <2> SUFFICES ASSUME NEW i \in DOMAIN state, NEW j \in DOMAIN state',
                      Key(state[i]) = Key(state'[j]), state[i].healthy # state'[j].healthy
               PROVE  LET e == state'[j]
                          n == IF e.healthy THEN rise ELSE fall
                      IN  /\ Len(e.recent) >= n
                          /\ \A k \in (Len(e.recent) - n + 1)..Len(e.recent) : e.recent[k] = e.healthy
    OBVIOUS
  <2>1. TypeOK /\ UniqueHosts
    BY <1>1 DEF IInv, Basic
  <2>2. state' # state
    BY <2>1 DEF UniqueHosts, Key
  <2>3. ~OnResolverState
    <3> SUFFICES ASSUME OnResolverState PROVE FALSE
      OBVIOUS
    <3>1. resolverChan[selected] \in Discovery
      BY <2>1 DEF OnResolverState, TypeOK
    <3>2. PICK dns \in [Host -> DnsOutcome] : state' = NewState(resolverChan[selected], dns)
      BY DEF OnResolverState
    <3>3. \/ \E k \in DOMAIN state : Key(state[k]) = Key(state'[j]) /\ state'[j] = state[k]
          \/ \A k \in DOMAIN state : Key(state[k]) # Key(state'[j])
      BY <2>1, <3>1, <3>2, NewStateIs
    <3>4. PICK k \in DOMAIN state : Key(state[k]) = Key(state'[j]) /\ state'[j] = state[k]
      BY <3>3
    <3>5. k = i
      BY <2>1, <3>4 DEF UniqueHosts, Key
    <3> QED
      BY <3>4, <3>5
  <2>4. PICK t \in inflight : EndTask(t)
    BY <1>1, <2>2, <2>3
       DEF Next, Loop, Worker, Consumer, Environment, LoopTop, OnClosed, ChecksDone,
           OnConfChange, OnTimer, notifyStateChange, StartTask, TaskPanics, Receive,
           BalancerStops, GetState, ResolverUpdate, Update, UpdateResolver, Close, CloseResolver,
           HostChanges, stateVars, vars
  <2> DEFINE old == state[t.task]
             new == UpdateHealthCheckStatus(old, t.enabled /\ t.host \in up)
  <2>5. /\ t.task \in DOMAIN state /\ old \in Entry /\ Counts(old)
        /\ (t.enabled /\ t.host \in up) \in BOOLEAN /\ state' = [state EXCEPT ![t.task] = new]
    BY <1>1, <2>1, <2>4 DEF EndTask, TypeOK, IInv, Counted
  <2>6. /\ new \in Entry /\ new.host = old.host
        /\ new.healthy # old.healthy => AtEnd(new.recent, IF new.healthy THEN rise ELSE fall, new.healthy)
    BY <2>1, <2>5, CheckEntry, CheckCounts
  <2> HIDE DEF new
  <2>7. j = t.task /\ i = j /\ state'[j] = new
    <3>1. CASE j = t.task
      <4>1. state'[j] = new /\ state[i].host = state[j].host
        BY <2>5, <2>6, <3>1 DEF Key
      <4> QED
        BY <2>1, <2>5, <3>1, <4>1 DEF UniqueHosts
    <3>2. CASE j # t.task
      <4>1. j \in DOMAIN state /\ state'[j] = state[j] /\ state[i].host = state[j].host
        BY <2>5, <3>2 DEF Key
      <4> QED
        BY <2>1, <4>1 DEF UniqueHosts
    <3> QED
      BY <3>1, <3>2
  <2> DEFINE n == IF new.healthy THEN rise ELSE fall
  <2>8. AtEnd(new.recent, n, new.healthy) /\ n \in Nat /\ Len(new.recent) \in Nat
    <3>1. rise \in Nat /\ fall \in Nat
      BY <2>1, ConstantsAssumption DEF TypeOK
    <3>2. new.recent \in Seq(BOOLEAN)
      BY <2>6, Entries
    <3> QED
      BY <2>6, <2>7, <3>1, <3>2
  <2> HIDE DEF n
  <2>9. ASSUME NEW k \in (Len(new.recent) - n + 1)..Len(new.recent)
        PROVE  new.recent[k] = new.healthy
    <3>1. Len(new.recent) - k \in 0..(n - 1) /\ Len(new.recent) - (Len(new.recent) - k) = k
      BY <2>8
    <3> QED
      BY <2>8, <3>1 DEF AtEnd
  <2> QED
    BY <2>7, <2>8, <2>9 DEF AtEnd, n
<1>2. Spec => [][A]_vars
  BY Invariance, <1>1, PTL DEF Spec
<1> QED
  BY <1>2 DEF FlipsDamped

----------------------------------------------------------------------------
\* The channel of one place loses no update.
THEOREM NothingLost == Spec => []NoLostUpdate
<1>1. Init => NoLostUpdate
  BY DEF Init, NoLostUpdate
<1>2. ASSUME TypeOK, NoLostUpdate, [Next]_vars PROVE NoLostUpdate'
  BY <1>2
     DEF NoLostUpdate, TypeOK, Next, Loop, Worker, Consumer, Environment, LoopTop, OnResolverState,
         OnClosed, ChecksDone, OnConfChange, OnTimer, notifyStateChange, StartTask, EndTask,
         TaskPanics, Receive, BalancerStops, GetState, ResolverUpdate, Update, UpdateResolver, Close,
         CloseResolver, HostChanges, stateVars, vars, chanVars, balancerVars
<1> QED
  BY TypeCorrect, <1>1, <1>2, PTL DEF Spec

\* lastUpdateState with the one-place channel implements the hand-over the balancer
\* relies on, for any interleaving of the loop and its receiver.
THEOREM HealthManagerHandsOver == Spec => ImplementsHandOver
<1> DEFINE pending == pc \in {"drain", "send"} \/ updateChan = "full" \/ balancer # "idle"
<1>1. Init => H!Init
  BY DEF Init, H!Init
<1>2. ASSUME TypeOK, [Next]_vars PROVE [H!Next]_(H!vars)
  <2> USE DEF chanVars, balancerVars, H!vars
  <2>1. CASE notifyStateChange
    <3>1. UNCHANGED seen /\ pending'
      BY <2>1 DEF notifyStateChange
    <3> QED
      BY <3>1 DEF H!Next, H!Store
  <2>2. CASE Receive
    BY <2>2 DEF Receive, H!Next, H!Stop
  <2>3. CASE GetState
    BY <2>3 DEF GetState, H!Next, H!Load
  <2>4. CASE BalancerStops
    BY <2>4 DEF BalancerStops, H!Next, H!Stop
  <2>5. ASSUME NEW t \in inflight, TaskPanics(t) PROVE H!Next
    BY <2>5 DEF TaskPanics, H!Next, H!Stop
  <2>6. CASE ~(notifyStateChange \/ Receive \/ GetState \/ BalancerStops
               \/ \E t \in inflight : TaskPanics(t))
    <3>1. UNCHANGED <<lastUpdate, seen, updateChan, balancer>> /\ (pending' <=> pending)
      BY <1>2, <2>6
         DEF Next, Loop, Worker, Consumer, Environment, LoopTop, OnResolverState,
             OnClosed, ChecksDone, OnConfChange, OnTimer, StartTask, EndTask,
             ResolverUpdate, Update, UpdateResolver, Close, CloseResolver, HostChanges, vars
    <3> QED
      BY <3>1
  <2> QED
    BY <2>1, <2>2, <2>3, <2>4, <2>5, <2>6
<1> QED
  BY TypeCorrect, <1>1, <1>2, PTL DEF Spec, ImplementsHandOver, H!Spec
=============================================================================
