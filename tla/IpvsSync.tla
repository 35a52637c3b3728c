----------------------------- MODULE IpvsSync -----------------------------
(***************************************************************************)
(* What DataPlane takes for granted about ipvs: how Manager.SetState sees   *)
(* the kernel and how what it asks for gets there.  The state that is asked *)
(* for is a list of balancers with lists of upstreams; the kernel has       *)
(* services and destinations; ipvs_mqliang_types.go converts between them,  *)
(* cache_resolver.go supplies the names the kernel does not know, and       *)
(* CompareArrays compares what was read back with what is wanted.           *)
(*                                                                          *)
(* A balancer is [name, svc, ups], its service [kind, at, num, sched,       *)
(* flags]: kind "tcp" or "udp" with the vip and the port, or "fwmark" with  *)
(* the address family and the mark; flags is a list of the numbers of       *)
(* IpvsService_Flag.  An upstream is [host, addr, port, weight, fwd].       *)
(*                                                                          *)
(* An address has many texts (2001:DB8::1, 2001:db8:0::1), each of which is *)
(* valid.  They are parsed for the kernel, which knows the address only,    *)
(* and what is read back is the canonical text.  The canonical text stands  *)
(* for the address.                                                         *)
(***************************************************************************)
EXTENDS Integers, Sequences, FiniteSets, SequencesExt, Functions

CONSTANTS
    Name,          \* texts of addresses and the names of services and hosts
    Canonical,     \* Name -> Name: KglbAddrToNetIp, then NetIpToKglbAddr
    DesiredState,  \* the lists of balancers the control plane sends
    Found,         \* what the kernel may hold when kglb starts
    NoState,       \* nothing has been sent yet
    MaxFaults,     \* bound on calls the kernel refuses without a reason, and restarts
    MaxChanges     \* bound on new states

HASHED == 2
supportedFlags == {1, 2, 3, 7, 8}
PortLimit == 65536
Uint16(n) == n % PortLimit

libSchedulers == [RR |-> "rr", WRR |-> "wrr", IP_VS_SCH |-> "ip_vs_sch"]
libForwards == [TUNNEL |-> "tunnel", MASQ |-> "masq"]

IpvsService ==
    [kind : {"tcp", "udp", "fwmark"}, at : Name, num : Nat,
     sched : DOMAIN libSchedulers, flags : Seq(Nat)]
UpstreamState ==
    [host : Name, addr : Name, port : Nat, weight : Nat, fwd : DOMAIN libForwards]
BalancerState == [name : Name, svc : IpvsService, ups : Seq(UpstreamState)]

\* What the kernel can hold: addresses, 16-bit ports, protocols that kglb has no
\* name for, and HASHED set for every service.
KernelSlot == [kind : {"tcp", "udp", "sctp", "fwmark"}, at : Name, num : Nat]
KernelDests(dests) ==
    /\ dests = [d \in DOMAIN dests |-> dests[d]] /\ IsFiniteSet(DOMAIN dests)
    /\ \A d \in DOMAIN dests :
          /\ d = <<d[1], d[2]>> /\ d[1] \in Name /\ d[1] = Canonical[d[1]]
          /\ d[2] \in Nat /\ d[2] < PortLimit
          /\ dests[d] = [weight |-> dests[d].weight, fwd |-> dests[d].fwd]
          /\ dests[d].weight \in Nat
KernelServices(services) ==
    /\ services = [s \in DOMAIN services |-> services[s]] /\ IsFiniteSet(DOMAIN services)
    /\ \A s \in DOMAIN services :
          /\ s \in KernelSlot
          /\ s.kind # "fwmark" => s.num < PortLimit /\ s.at = Canonical[s.at]
          /\ services[s] = [sched |-> services[s].sched, flags |-> services[s].flags,
                            dests |-> services[s].dests]
          /\ services[s].flags \subseteq Nat /\ HASHED \in services[s].flags
          /\ KernelDests(services[s].dests)

\* ValidateIpvsService, for a configuration, and ValidateDataPlaneState, for a
\* generated state.  Addresses must parse (those of upstreams, and vips as link
\* addresses), in whatever text; flags and the size of ports are not looked at.
ValidIpvsService(svc) == svc.kind \in {"tcp", "udp", "fwmark"} /\ svc.num # 0
ValidUpstreamState(up) == up.host # "" /\ (up.port # 0 \/ up.fwd = "TUNNEL")
ValidDataPlaneState(state) ==
    \A i \in DOMAIN state :
        /\ ValidIpvsService(state[i].svc) /\ state[i].name # ""
        /\ \A j \in DOMAIN state[i].ups : ValidUpstreamState(state[i].ups[j])

ASSUME StatesAssumption ==
    /\ MaxFaults \in Nat /\ MaxChanges \in Nat
    /\ Canonical \in [Name -> Name] /\ \A a \in Name : Canonical[Canonical[a]] = Canonical[a]
    /\ "default" \in Name /\ NoState \notin DesiredState
    /\ DesiredState \subseteq Seq(BalancerState)
    /\ \A state \in DesiredState : ValidDataPlaneState(state)
    /\ \A services \in Found : KernelServices(services)

VARIABLES
    kernel,        \* slot -> [sched, flags, dests]
    serviceCache,  \* CacheResolver.serviceCache: key of a service -> name
    reverseCache,  \* CacheResolver.reverseCache: address -> hostname
    wanted,        \* what SetState is called with on every tick
    target,        \* what the current or last SetState was called with
    work,          \* balancers it has still to add, change and delete
    calls,         \* calls left for the balancer it is at
    result,        \* "busy", or what it returned; "none" before the first one
    faults, changes

cacheVars == <<serviceCache, reverseCache>>
vars == <<kernel, cacheVars, wanted, target, work, calls, result, faults, changes>>

----------------------------------------------------------------------------
(***************************************************************************)
(* Conversions to and from libipvs (ipvs_mqliang_types.go).                 *)
(***************************************************************************)
\* toLibIpvsFlags refuses flags it has no bit for.
FlagsOK(svc) == ToSet(svc.flags) \subseteq supportedFlags

\* What is at the place of a service: its address, or the family of a fwmark.
Place(svc) == IF svc.kind = "fwmark" THEN svc.at ELSE Canonical[svc.at]

\* Mutant: the port is not cut to 16 bits.
BugSlot(svc) == [kind |-> svc.kind, at |-> Place(svc), num |-> svc.num]

\* toLibipvsService: what tells services apart in the kernel.
Slot(svc) ==
    [kind |-> svc.kind, at |-> Place(svc),
     num |-> IF svc.kind = "fwmark" THEN svc.num ELSE Uint16(svc.num)]

\* NewService of the kernel sets HASHED.
LibService(svc) ==
    [sched |-> libSchedulers[svc.sched], flags |-> ToSet(svc.flags) \cup {HASHED}]

\* toLibipvsDestination.
DestKey(up) == <<Canonical[up.addr], Uint16(up.port)>>
LibDest(up) == [weight |-> up.weight, fwd |-> libForwards[up.fwd]]

\* Mutant: HASHED, which the kernel sets, is not taken out.
BugKglbFlags(flags) ==
    LET Flag(n) == IF n \in flags THEN <<n>> ELSE <<>>
    IN  Flag(1) \o Flag(2) \o Flag(3) \o Flag(7) \o Flag(8)

\* toKglbFlags of flags that are supported: in ascending order, without HASHED.
KglbFlags(flags) ==
    LET Flag(n) == IF n \in flags THEN <<n>> ELSE <<>>
    IN  Flag(1) \o Flag(3) \o Flag(7) \o Flag(8)

\* ListServices and GetRealServers fail on a protocol, scheduler, flag or forwarding
\* method that kglb does not know.  (The mask of the flags, which toKglbFlags looks
\* at too, is always full when it comes from the kernel.)
Listable ==
    \A s \in DOMAIN kernel :
        /\ s.kind \in {"tcp", "udp", "fwmark"}
        /\ kernel[s].sched \in Range(libSchedulers)
        /\ kernel[s].flags \subseteq supportedFlags
        /\ \A d \in DOMAIN kernel[s].dests : kernel[s].dests[d].fwd \in Range(libForwards)

KglbName(table, name) == CHOOSE n \in DOMAIN table : table[n] = name

----------------------------------------------------------------------------
(***************************************************************************)
(* The names of services and reals (cache_resolver.go).                     *)
(***************************************************************************)
Lookup(cache, key) == IF key \in DOMAIN cache THEN cache[key] ELSE "default"

\* keyByService: the parsed address, or a fwmark without its address family.
keyByService(svc) ==
    IF svc.kind = "fwmark" THEN <<svc.kind, svc.num>> ELSE <<svc.kind, Place(svc), svc.num>>

\* UpdateCache adds and replaces names and removes none.
NewServiceCache(state) ==
    [k \in DOMAIN serviceCache \cup {keyByService(state[i].svc) : i \in DOMAIN state} |->
        LET at == {i \in DOMAIN state : keyByService(state[i].svc) = k}
        IN  IF at = {} THEN serviceCache[k] ELSE state[Max(at)].name]

\* The upstreams of b with the parsed address a, by their places in its list.
PlacesOf(b, a) == {j \in DOMAIN b.ups : Canonical[b.ups[j].addr] = a}
NewReverseCache(state) ==
    [a \in DOMAIN reverseCache \cup
               UNION {{Canonical[up.addr] : up \in ToSet(state[i].ups)} : i \in DOMAIN state} |->
        LET at == {i \in DOMAIN state : PlacesOf(state[i], a) # {}}
            b == state[Max(at)]
        IN  IF at = {} THEN reverseCache[a] ELSE b.ups[Max(PlacesOf(b, a))].host]

----------------------------------------------------------------------------
(***************************************************************************)
(* Reading the kernel and comparing.                                        *)
(***************************************************************************)
\* tokglbVirtualService of the service in slot s, with the canonical text of its vip.
KglbService(s) ==
    [kind |-> s.kind, at |-> s.at, num |-> s.num,
     sched |-> KglbName(libSchedulers, kernel[s].sched), flags |-> KglbFlags(kernel[s].flags)]

\* GetRealServers: tokglbRealServer, with the canonical text of the address, and the
\* hostname from the cache.
RealServers(s, hosts) ==
    LET dests == kernel[s].dests
    IN  SetToSeq({[host |-> Lookup(hosts, d[1]), addr |-> d[1], port |-> d[2],
                   weight |-> dests[d].weight, fwd |-> KglbName(libForwards, dests[d].fwd)] :
                     d \in DOMAIN dests})

\* GetBalancers, with the caches names and hosts.
Balancers(names, hosts) ==
    SetToSeq({[name |-> Lookup(names, keyByService(KglbService(s))),
               svc |-> KglbService(s), ups |-> RealServers(s, hosts)] : s \in DOMAIN kernel})

\* UpstreamStateComparable: keys have the parsed address, but the texts must be equal.
UpstreamKey(up) == <<Canonical[up.addr], up.port>>
Same(x, y) == x = y
Ups == INSTANCE CompareArrays WITH Key <- UpstreamKey, Equal <- Same

\* BalancerStateComparable: the key is the whole service, the text of its vip too.
BalancerKey(b) == b.svc
BalancerEqual(b, c) ==
    b.name = c.name /\ ~Ups!IsChanged(Ups!CompareArrays(b.ups, c.ups))
Bals == INSTANCE CompareArrays WITH Key <- BalancerKey, Equal <- BalancerEqual

\* balancersDiff of SetState, which has updated the caches before.
Difference(state) ==
    Bals!CompareArrays(Balancers(NewServiceCache(state), NewReverseCache(state)), state)

----------------------------------------------------------------------------
(***************************************************************************)
(* SetState and the calls it makes.                                         *)
(***************************************************************************)
NoWork == [added |-> {}, changed |-> {}, deleted |-> {}]
Idle == result # "busy"

\* The order of the calls for a set of upstreams is that of a Go map.
Calls(op, svc, ups) == {[i \in DOMAIN seq |-> [op |-> op, svc |-> svc, up |-> seq[i]]] :
                           seq \in SetToSeqs(ups)}

\* AddBalancer: the upstreams in the order of the list, items with one key too.
AddCalls(b) ==
    <<[op |-> "addService", svc |-> b.svc]>>
    \o [i \in DOMAIN b.ups |-> [op |-> "addReal", svc |-> b.svc, up |-> b.ups[i]]]

\* Mutant: only added and deleted upstreams are applied.
BugChangeCalls(pair) ==
    LET diff == Ups!CompareArrays(pair.old.ups, pair.new.ups)
    IN  {a \o d : a \in Calls("addReal", pair.new.svc, diff.added),
                  d \in Calls("deleteReal", pair.new.svc, diff.deleted)}

\* Step e) of SetState: upstreams are added, then updated, then deleted.
ChangeCalls(pair) ==
    LET diff == Ups!CompareArrays(pair.old.ups, pair.new.ups)
    IN  {a \o u \o d : a \in Calls("addReal", pair.new.svc, diff.added),
                       u \in Calls("updateReal", pair.new.svc, {p.new : p \in diff.changed}),
                       d \in Calls("deleteReal", pair.new.svc, diff.deleted)}

Init ==
    /\ kernel \in Found
    /\ serviceCache = [k \in {} |-> ""] /\ reverseCache = [a \in {} |-> ""]
    /\ wanted = NoState /\ target = NoState
    /\ work = NoWork /\ calls = <<>> /\ result = "none"
    /\ faults = 0 /\ changes = 0

\* The control plane has a new state.
Want ==
    /\ changes < MaxChanges
    /\ wanted' \in DesiredState \ {wanted}
    /\ changes' = changes + 1
    /\ UNCHANGED <<kernel, cacheVars, target, work, calls, result, faults>>

SetState ==
    /\ Idle /\ wanted # NoState
    /\ \E names \in {NewServiceCache(wanted)}, hosts \in {NewReverseCache(wanted)} :
          /\ serviceCache' = names /\ reverseCache' = hosts
          /\ \/ /\ Listable
                /\ \E current \in {Balancers(names, hosts)} :
                      work' = Bals!CompareArrays(current, wanted)
                /\ result' = "busy"
             \/ ~Listable /\ work' = NoWork /\ result' = "err"
    /\ target' = wanted /\ calls' = <<>>
    /\ UNCHANGED <<kernel, wanted, faults, changes>>

\* Mutant: balancers are deleted before the new ones are added.
BugPick ==
    /\ result = "busy" /\ calls = <<>>
    /\ \/ \E b \in work.deleted :
             /\ work' = [work EXCEPT !.deleted = @ \ {b}]
             /\ calls' = <<[op |-> "deleteService", svc |-> b.svc]>>
       \/ /\ work.deleted = {}
          /\ \E b \in work.added :
                /\ work' = [work EXCEPT !.added = @ \ {b}]
                /\ calls' = AddCalls(b)
       \/ /\ work.deleted = {} /\ work.added = {}
          /\ \E pair \in work.changed :
                /\ work' = [work EXCEPT !.changed = @ \ {pair}]
                /\ calls' \in ChangeCalls(pair)
    /\ UNCHANGED <<kernel, cacheVars, wanted, target, result, faults, changes>>

\* Steps c), e) and g) of SetState, one balancer at a time.
Pick ==
    /\ result = "busy" /\ calls = <<>>
    /\ \/ \E b \in work.added :
             /\ work' = [work EXCEPT !.added = @ \ {b}]
             /\ calls' = AddCalls(b)
       \/ /\ work.added = {}
          /\ \E pair \in work.changed :
                /\ work' = [work EXCEPT !.changed = @ \ {pair}]
                /\ calls' \in ChangeCalls(pair)
       \/ /\ work.added = {} /\ work.changed = {}
          /\ \E b \in work.deleted :
                /\ work' = [work EXCEPT !.deleted = @ \ {b}]
                /\ calls' = <<[op |-> "deleteService", svc |-> b.svc]>>
    /\ UNCHANGED <<kernel, cacheVars, wanted, target, result, faults, changes>>

\* The kernel has the destination that the call is about.
HasDest(call) == DestKey(call.up) \in DOMAIN kernel[Slot(call.svc)].dests

\* The call can be converted and the kernel has no reason to refuse it: ENOENT or EEXIST.
Accepted(call) ==
    /\ FlagsOK(call.svc)
    /\ call.op = "addService" <=> Slot(call.svc) \notin DOMAIN kernel
    /\ call.op = "addReal" => ~HasDest(call)
    /\ call.op \in {"updateReal", "deleteReal"} => HasDest(call)

With(f, k, v) == [x \in DOMAIN f \cup {k} |-> IF x = k THEN v ELSE f[x]]
Minus(f, k) == Restrict(f, DOMAIN f \ {k})

\* The kernel after a call it has accepted.
After(call) ==
    LET s == Slot(call.svc)
    IN  CASE call.op = "addService" ->
               With(kernel, s, [sched |-> LibService(call.svc).sched,
                                flags |-> LibService(call.svc).flags, dests |-> [d \in {} |-> 0]])
          [] call.op = "deleteService" -> Minus(kernel, s)
          [] call.op \in {"addReal", "updateReal"} ->
               [kernel EXCEPT ![s].dests = With(@, DestKey(call.up), LibDest(call.up))]
          [] call.op = "deleteReal" ->
               [kernel EXCEPT ![s].dests = Minus(@, DestKey(call.up))]

MakeCall ==
    /\ calls # <<>> /\ Accepted(Head(calls))
    /\ kernel' = After(Head(calls))
    /\ calls' = Tail(calls)
    /\ UNCHANGED <<cacheVars, wanted, target, work, result, faults, changes>>

\* The first error ends SetState.
Abort == result' = "err" /\ work' = NoWork /\ calls' = <<>>

CallRefused ==
    /\ calls # <<>> /\ ~Accepted(Head(calls))
    /\ Abort
    /\ UNCHANGED <<kernel, cacheVars, wanted, target, faults, changes>>

CallFails ==
    /\ calls # <<>> /\ faults < MaxFaults
    /\ Abort
    /\ faults' = faults + 1
    /\ UNCHANGED <<kernel, cacheVars, wanted, target, changes>>

Return ==
    /\ result = "busy" /\ work = NoWork /\ calls = <<>>
    /\ result' = "ok"
    /\ UNCHANGED <<kernel, cacheVars, wanted, target, work, calls, faults, changes>>

\* The kernel and the configuration outlive the process, the caches do not.
Restart ==
    /\ faults < MaxFaults
    /\ serviceCache' = [k \in {} |-> ""] /\ reverseCache' = [a \in {} |-> ""]
    /\ target' = NoState /\ work' = NoWork /\ calls' = <<>> /\ result' = "none"
    /\ faults' = faults + 1
    /\ UNCHANGED <<kernel, wanted, changes>>

Step == SetState \/ Pick \/ MakeCall \/ CallRefused \/ Return
Next == Step \/ Want \/ CallFails \/ Restart

\* Ticks keep coming and calls return.
Spec == Init /\ [][Next]_vars /\ WF_vars(Step)

----------------------------------------------------------------------------
(***************************************************************************)
(* Properties.                                                              *)
(***************************************************************************)

Call ==
    [op : {"addService", "deleteService"}, svc : IpvsService]
    \cup [op : {"addReal", "updateReal", "deleteReal"}, svc : IpvsService, up : UpstreamState]

\* Types.
TypeOK ==
    /\ KernelServices(kernel)
    /\ \A k \in DOMAIN serviceCache : serviceCache[k] \in Name
    /\ \A a \in DOMAIN reverseCache : reverseCache[a] \in Name
    /\ wanted \in DesiredState \cup {NoState} /\ target \in DesiredState \cup {NoState}
    /\ work \in [added : SUBSET BalancerState, deleted : SUBSET BalancerState,
                 changed : SUBSET [old : BalancerState, new : BalancerState]]
    /\ calls \in Seq(Call)
    /\ result \in {"none", "busy", "ok", "err"}
    /\ faults \in 0..MaxFaults /\ changes \in 0..MaxChanges

\* What a state means for the kernel: of upstreams with one address and port the last.
DestsOf(ups) ==
    [d \in {DestKey(ups[i]) : i \in DOMAIN ups} |->
        LibDest(ups[Max({i \in DOMAIN ups : DestKey(ups[i]) = d})])]
KernelOf(state) ==
    [s \in {Slot(state[i].svc) : i \in DOMAIN state} |->
        LET b == state[Max({i \in DOMAIN state : Slot(state[i].svc) = s})]
        IN  [sched |-> LibService(b.svc).sched, flags |-> LibService(b.svc).flags,
             dests |-> DestsOf(b.ups)]]
InPlace(state) == state # NoState /\ kernel = KernelOf(state)

\* When SetState returns nil the kernel holds exactly the state it was called with,
\* whatever was there before, lists with duplicates and truncated ports included.
OkExact == result = "ok" => InPlace(target)

\* The keys SetState compares by are read back as they were written: sorted,
\* supported flags without HASHED, the canonical text of a vip, ports of 16 bits.
KeysReadBack(state) ==
    \A i \in DOMAIN state :
        /\ FlagsOK(state[i].svc) /\ state[i].svc.flags = KglbFlags(ToSet(state[i].svc.flags))
        /\ state[i].svc.at = Place(state[i].svc)
        /\ state[i].svc.kind # "fwmark" => state[i].svc.num = Uint16(state[i].svc.num)
        /\ \A j \in DOMAIN state[i].ups : state[i].ups[j].port = Uint16(state[i].ups[j].port)

\* So is everything else: the addresses of upstreams are in canonical text.
ReadsBack(state) ==
    /\ KeysReadBack(state)
    /\ \A i \in DOMAIN state : \A j \in DOMAIN state[i].ups :
          state[i].ups[j].addr = Canonical[state[i].ups[j].addr]

\* An address goes by one name, and so does a service.
OneName(state) ==
    \A i, k \in DOMAIN state :
        /\ keyByService(state[i].svc) = keyByService(state[k].svc) => state[i].name = state[k].name
        /\ \A j \in DOMAIN state[i].ups, l \in DOMAIN state[k].ups :
              Canonical[state[i].ups[j].addr] = Canonical[state[k].ups[l].addr]
                  => state[i].ups[j].host = state[k].ups[l].host

\* No two services of a state need the same place in the kernel.
SlotsDiffer(state) ==
    \A i, j \in DOMAIN state : Slot(state[i].svc) = Slot(state[j].svc) => state[i].svc = state[j].svc

\* SetState sees that a state is in place already and does nothing, whatever names
\* the caches hold: after a restart, and when names were cached for other states.
\* A state that does not read back, such as one with a vip whose text is not
\* canonical, is not recognised, and the property says nothing of it.
Recognised ==
    Idle /\ InPlace(wanted) /\ ReadsBack(wanted) /\ OneName(wanted) /\ SlotsDiffer(wanted)
        => Listable /\ ~Bals!IsChanged(Difference(wanted))

\* Re-applying a state that is in place does not touch the kernel, not even one that
\* does not read back and that SetState takes for missing on every tick.  A state with
\* two services for one slot passes through what counts as in place and goes on.
AppliedStays ==
    [][InPlace(wanted) /\ SlotsDiffer(wanted) /\ (Idle \/ target = wanted) => kernel' = kernel]_vars

\* A service in the kernel that is to have another scheduler or other flags: added
\* before the old one is deleted, it is refused.
Blocked(state) ==
    \E i \in DOMAIN state :
        LET s == Slot(state[i].svc)
        IN  s \in DOMAIN kernel /\ [sched |-> kernel[s].sched, flags |-> kernel[s].flags]
                                     # LibService(state[i].svc)

\* Re-applying brings the kernel to the wanted state, also when the first attempt
\* fails on upstreams listed twice, unless a service of the kernel cannot be listed
\* or is in the way, or a key of the state does not read back: then what is there is
\* taken for missing, and adding it is refused on every tick.
Converges ==
    <>[](wanted # NoState /\ Listable /\ KeysReadBack(wanted) /\ ~Blocked(wanted)
            => InPlace(wanted))
=============================================================================
