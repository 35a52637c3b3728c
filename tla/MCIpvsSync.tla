---------------------------- MODULE MCIpvsSync ----------------------------
(***************************************************************************)
(* An instance of IpvsSync for TLC.  The states have a changed weight, a    *)
(* second balancer, an upstream listed twice, with different names and      *)
(* weights, flags out of order, HASHED and unsupported flags, a port of     *)
(* more than 16 bits, alone and next to the port it is cut to, another      *)
(* scheduler for the same port, and a vip and an upstream in texts, V1 and  *)
(* A1, that are not the canonical ones of their addresses.                  *)
(***************************************************************************)
EXTENDS IpvsSync

TcpAt(vip, port, sched, flags) ==
    [kind |-> "tcp", at |-> vip, num |-> port, sched |-> sched, flags |-> flags]
Tcp(port, sched, flags) == TcpAt("v1", port, sched, flags)
Fwmark(n) == [kind |-> "fwmark", at |-> "inet", num |-> n, sched |-> "RR", flags |-> <<>>]
Up(host, addr, w) == [host |-> host, addr |-> addr, port |-> 0, weight |-> w, fwd |-> "TUNNEL"]
Masq(host, addr, port) == [host |-> host, addr |-> addr, port |-> port, weight |-> 1, fwd |-> "MASQ"]
Bal(name, svc, ups) == [name |-> name, svc |-> svc, ups |-> ups]

MCName == {"n1", "n2", "n3", "n4", "h1", "h2", "h3", "a1", "A1", "a2", "v1", "V1", "v2", "inet", "default"}
MCCanonical == [n \in MCName |-> CASE n = "A1" -> "a1" [] n = "V1" -> "v1" [] OTHER -> n]
MCDesired ==
    {<<Bal("n1", Tcp(80, "RR", <<>>), <<Up("h1", "a1", 1), Up("h2", "a2", 1)>>)>>,
     <<Bal("n1", Tcp(80, "RR", <<>>), <<Up("h1", "a1", 2)>>),
       Bal("n2", Fwmark(5), <<Up("h2", "a2", 1)>>)>>,
     <<Bal("n1", Tcp(80, "RR", <<>>), <<Up("h1", "a1", 1), Up("h3", "A1", 2)>>)>>,
     <<Bal("n1", Tcp(80, "WRR", <<7, 8>>), <<Masq("h1", "a1", 80), Masq("h3", "a1", 65616)>>)>>,
     <<Bal("n3", Tcp(65616, "RR", <<>>), <<Up("h1", "a1", 1)>>)>>,
     <<Bal("n1", TcpAt("V1", 80, "RR", <<>>), <<Up("h1", "a1", 1)>>)>>,
     <<Bal("n1", Tcp(81, "RR", <<8, 7>>), <<Up("h1", "a1", 1)>>),
       Bal("n4", Tcp(82, "RR", <<>>), <<>>)>>,
     <<Bal("n1", Tcp(81, "RR", <<8, 7>>), <<Up("h2", "a2", 1)>>)>>,
     <<Bal("n1", Tcp(81, "RR", <<2>>), <<>>), Bal("n4", Tcp(82, "RR", <<9>>), <<>>)>>,
     <<Bal("n1", Tcp(80, "RR", <<>>), <<Up("h1", "a1", 1), Up("h2", "a2", 1)>>),
       Bal("n3", Tcp(65616, "RR", <<>>), <<Up("h1", "a1", 1)>>)>>}

Other(kind, sched, fwd) ==
    [s \in {[kind |-> kind, at |-> "v2", num |-> 53]} |->
        [sched |-> sched, flags |-> {HASHED},
         dests |-> [d \in {<<"a1", 53>>} |-> [weight |-> 1, fwd |-> fwd]]]]
MCFound ==
    {[s \in {} |-> 0], Other("udp", "rr", "tunnel"), Other("sctp", "rr", "tunnel"),
     Other("udp", "lc", "tunnel"), Other("udp", "rr", "route")}
=============================================================================
