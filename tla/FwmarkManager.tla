--------------------------- MODULE FwmarkManager ---------------------------
(***************************************************************************)
(* The fwmark manager (utils/fwmark/fwmark_manager.go) and the balancers    *)
(* with enable_fwmarks that share it: manageFwmarkAllocations and           *)
(* generateFwmarkService of control_plane/balancer.go.  The manager's lock  *)
(* makes each of its calls atomic; the calls of two balancers interleave.   *)
(***************************************************************************)
EXTENDS Integers, Sequences, FiniteSets, SequencesExt

CONSTANTS
    Addr,       \* addresses of upstreams
    Balancer,   \* balancers
    Base,       \* the first fwmark
    MaxFwmark,  \* how many there are
    Lists,      \* the lists of upstream addresses a balancer can get
    MaxUpdates  \* bound on updates and closed balancers

ASSUME FwmarkAssumption ==
    /\ Base \in Nat /\ MaxFwmark \in Nat /\ MaxUpdates \in Nat
    /\ Lists \subseteq Seq(Addr) /\ <<>> \in Lists
    /\ IsFiniteSet(Balancer)

Fwmark == Base..(Base + MaxFwmark - 1)

VARIABLES
    pool,       \* fwmarksPool
    allocated,  \* allocated: address -> fwmark and refcount
    upstreams,  \* b -> upstream addresses of the state b has stored
    services,   \* b -> fwmark services of the state b has stored
    calls,      \* b -> calls updateState has still to make
    target,     \* b -> upstream addresses of the state b is generating
    generated,  \* b -> fwmark services generated so far
    \* No part of the program: addresses that an allocation has failed for, that a
    \* balancer has had twice in a list, that a balancer had when it was closed.
    refused, twice, left,
    updates

mngVars == <<pool, allocated>>
workVars == <<calls, target, generated>>
storedVars == <<upstreams, services>>
histVars == <<refused, twice, left>>
vars == <<mngVars, storedVars, workVars, histVars, updates>>

\* NewManager.
Init ==
    /\ pool = [i \in 1..MaxFwmark |-> Base + i - 1]
    /\ allocated = [a \in {} |-> 0]
    /\ upstreams = [b \in Balancer |-> <<>>] /\ services = [b \in Balancer |-> {}]
    /\ calls = [b \in Balancer |-> <<>>] /\ target = [b \in Balancer |-> <<>>]
    /\ generated = [b \in Balancer |-> {}]
    /\ refused = {} /\ twice = {} /\ left = {}
    /\ updates = 0

----------------------------------------------------------------------------
(***************************************************************************)
(* The manager.                                                             *)
(***************************************************************************)
\* Mutant: the fwmark stays in the pool.
BugAllocateFwmark(a) ==
    \/ /\ a \in DOMAIN allocated
       /\ allocated' = [allocated EXCEPT ![a].refcount = @ + 1]
       /\ UNCHANGED pool
    \/ /\ a \notin DOMAIN allocated /\ pool # <<>>
       /\ allocated' = [x \in DOMAIN allocated \cup {a} |->
                           IF x = a THEN [fwmark |-> Head(pool), refcount |-> 1] ELSE allocated[x]]
       /\ UNCHANGED pool

AllocateFwmark(a) ==
    \/ /\ a \in DOMAIN allocated
       /\ allocated' = [allocated EXCEPT ![a].refcount = @ + 1]
       /\ UNCHANGED pool
    \/ /\ a \notin DOMAIN allocated /\ pool # <<>>
       /\ allocated' = [x \in DOMAIN allocated \cup {a} |->
                           IF x = a THEN [fwmark |-> Head(pool), refcount |-> 1] ELSE allocated[x]]
       /\ pool' = Tail(pool)

AllocateFails(a) ==
    a \notin DOMAIN allocated /\ pool = <<>> /\ UNCHANGED mngVars

\* Mutant: the entry stays when its last reference goes.
BugReleaseFwmark(a) ==
    \/ /\ a \in DOMAIN allocated
       /\ allocated' = [allocated EXCEPT ![a].refcount = @ - 1]
       /\ pool' = IF allocated[a].refcount = 1 THEN Append(pool, allocated[a].fwmark) ELSE pool
    \/ a \notin DOMAIN allocated /\ UNCHANGED mngVars

\* Mutant: references are not counted.
BugReleaseAlways(a) ==
    \/ /\ a \in DOMAIN allocated
       /\ pool' = Append(pool, allocated[a].fwmark)
       /\ allocated' = [x \in DOMAIN allocated \ {a} |-> allocated[x]]
    \/ a \notin DOMAIN allocated /\ UNCHANGED mngVars

\* Mutant: the last reference is not given back.
BugReleaseLast(a) ==
    \/ /\ a \in DOMAIN allocated
       /\ allocated' = [allocated EXCEPT ![a].refcount = IF @ > 1 THEN @ - 1 ELSE @]
       /\ UNCHANGED pool
    \/ a \notin DOMAIN allocated /\ UNCHANGED mngVars

\* ReleaseFwmark; an address without a fwmark is an error that is only reported.
ReleaseFwmark(a) ==
    \/ /\ a \in DOMAIN allocated /\ allocated[a].refcount > 1
       /\ allocated' = [allocated EXCEPT ![a].refcount = @ - 1]
       /\ UNCHANGED pool
    \/ /\ a \in DOMAIN allocated /\ allocated[a].refcount = 1
       /\ pool' = Append(pool, allocated[a].fwmark)
       /\ allocated' = [x \in DOMAIN allocated \ {a} |-> allocated[x]]
    \/ a \notin DOMAIN allocated /\ UNCHANGED mngVars

\* GetAllocatedFwmark.
Allocated(a) == a \in DOMAIN allocated

----------------------------------------------------------------------------
(***************************************************************************)
(* The balancers.                                                           *)
(***************************************************************************)
Call(op, list) == [i \in DOMAIN list |-> [op |-> op, addr |-> list[i]]]

\* The addresses of list that other does not have, as often as list has them.
Without(list, other) ==
    LET f[i \in 0..Len(list)] ==
            IF i = 0 THEN <<>>
            ELSE IF list[i] \in ToSet(other) THEN f[i - 1] ELSE Append(f[i - 1], list[i])
    IN  f[Len(list)]

Doubles(list) == {list[i] : i \in {i \in DOMAIN list : \E j \in 1..(i - 1) : list[j] = list[i]}}

\* updateState with new upstreams: allocate what is new, release what is gone, then
\* look up the fwmark of every upstream.
UpdateState(b, list) ==
    /\ calls[b] = <<>>
    /\ target' = [target EXCEPT ![b] = list]
    /\ calls' = [calls EXCEPT ![b] = Call("allocate", Without(list, upstreams[b]))
                                     \o Call("release", Without(upstreams[b], list))
                                     \o Call("get", list)
                                     \o <<[op |-> "store"]>>]
    /\ generated' = [generated EXCEPT ![b] = {}]
    /\ twice' = twice \cup Doubles(list)
    /\ UNCHANGED <<mngVars, storedVars, refused, left>>

Pop(b, op) ==
    /\ calls[b] # <<>> /\ Head(calls[b]).op = op
    /\ calls' = [calls EXCEPT ![b] = Tail(@)]
    /\ UNCHANGED <<target, twice, left>>

Allocate(b) ==
    /\ Pop(b, "allocate")
    /\ AllocateFwmark(Head(calls[b]).addr)
    /\ UNCHANGED <<storedVars, generated, refused>>

\* The error is reported; the upstream stays in the balancer's state.
AllocateError(b) ==
    /\ Pop(b, "allocate")
    /\ AllocateFails(Head(calls[b]).addr)
    /\ refused' = refused \cup {Head(calls[b]).addr}
    /\ UNCHANGED <<storedVars, generated>>

Release(b) ==
    /\ Pop(b, "release")
    /\ ReleaseFwmark(Head(calls[b]).addr)
    /\ UNCHANGED <<storedVars, generated, refused>>

\* generateFwmarkService: none for an upstream without a fwmark.
Generate(b) ==
    /\ Pop(b, "get")
    /\ LET a == Head(calls[b]).addr
       IN  generated' = [generated EXCEPT ![b] =
              @ \cup (IF Allocated(a) THEN {[addr |-> a, fwmark |-> allocated[a].fwmark]} ELSE {})]
    /\ UNCHANGED <<mngVars, storedVars, refused>>

Store(b) ==
    /\ Pop(b, "store")
    /\ upstreams' = [upstreams EXCEPT ![b] = target[b]]
    /\ services' = [services EXCEPT ![b] = generated[b]]
    /\ UNCHANGED <<mngVars, generated, refused>>

\* Balancer.Close releases nothing; a balancer with the same key can come back.  One
\* that is closed in the middle of updateState goes on to its end, allocations
\* included, and nobody reads what it stores: as if it was closed afterwards.  A
\* balancer with its key that is created meanwhile is another member of Balancer.
Close(b) ==
    /\ calls[b] = <<>> /\ upstreams[b] # <<>>
    /\ upstreams' = [upstreams EXCEPT ![b] = <<>>]
    /\ services' = [services EXCEPT ![b] = {}]
    /\ left' = left \cup ToSet(upstreams[b])
    /\ UNCHANGED <<mngVars, workVars, refused, twice>>

\* A call of updateState that has begun.
Work(b) == Allocate(b) \/ AllocateError(b) \/ Release(b) \/ Generate(b) \/ Store(b)

Next ==
    \E b \in Balancer :
        \/ Work(b) /\ UNCHANGED updates
        \/ /\ updates < MaxUpdates /\ updates' = updates + 1
           /\ Close(b) \/ \E list \in Lists : UpdateState(b, list)

Spec == Init /\ [][Next]_vars

----------------------------------------------------------------------------
(***************************************************************************)
(* Properties.                                                              *)
(***************************************************************************)

\* Types; an entry has a reference.
TypeOK ==
    /\ pool \in Seq(Fwmark)
    /\ DOMAIN allocated \subseteq Addr
    /\ \A a \in DOMAIN allocated : allocated[a] \in [fwmark : Fwmark, refcount : Nat \ {0}]
    /\ upstreams \in [Balancer -> Seq(Addr)]
    /\ services \in [Balancer -> SUBSET [addr : Addr, fwmark : Fwmark]]
    /\ target \in [Balancer -> Seq(Addr)]
    /\ generated \in [Balancer -> SUBSET [addr : Addr, fwmark : Fwmark]]
    /\ refused \subseteq Addr /\ twice \subseteq Addr /\ left \subseteq Addr
    /\ updates \in 0..MaxUpdates

\* However the balancers' calls interleave, every fwmark is either once in the pool
\* or that of exactly one address: none is lost and no two addresses share one.
Partition ==
    /\ \A i, j \in DOMAIN pool : pool[i] = pool[j] => i = j
    /\ \A i \in DOMAIN pool, a \in DOMAIN allocated : pool[i] # allocated[a].fwmark
    /\ \A a, c \in DOMAIN allocated : allocated[a].fwmark = allocated[c].fwmark => a = c
    /\ \A m \in Fwmark : (\E i \in DOMAIN pool : pool[i] = m)
                         \/ (\E a \in DOMAIN allocated : allocated[a].fwmark = m)

\* ReleaseFwmark returns unused fwmarks only: the fwmark of a service that a balancer
\* has stored, and is not about to replace, still belongs to the service's address,
\* unless the pool was exhausted when a balancer asked for that address, or a balancer
\* had the address twice: it is allocated once and released twice then.
ServicesKeepMarks ==
    \A b \in Balancer : calls[b] = <<>> =>
        \A s \in services[b] :
            \/ s.addr \in refused \cup twice
            \/ Allocated(s.addr) /\ allocated[s.addr].fwmark = s.fwmark

\* A fwmark that is not in the pool is that of an upstream of some balancer.  What
\* leaks is what a balancer had when it was closed and, going from two upstreams with
\* one address to one, an address that was allocated twice and is released once.
MarksAccountedFor ==
    \A a \in DOMAIN allocated :
        \/ a \in left \cup twice
        \/ \E b \in Balancer : a \in ToSet(upstreams[b]) \/ (calls[b] # <<>> /\ a \in ToSet(target[b]))
=============================================================================
