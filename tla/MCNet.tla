------------------------------- MODULE MCNet --------------------------------
(* An instance of Net for TLC. *)
EXTENDS Net, TLC

\* The hosts on the link other than the gateway differ in nothing.
NetSymmetry == Permutations(Callbacks) \cup Permutations(LinkHosts \ {Gateway})

PingsRun == {n \in 1 .. MaxPings : result[n] # "not run"}
NoDatagrams ==
    /\ \A p \in Ports : bound[p] = None
    /\ \A m \in wire : m.kind # "udp"
NoHosts == PingsRun = {} /\ learning = None /\ \A i \in DOMAIN cache : ~InUse(i)

\* Nobody speaks but the gateway and what is behind it.
OnlyGateway ==
    \A x \in LinkHosts \ {Gateway} :
        /\ \A m \in wire : x \notin {m.from, m.to}
        /\ \A i \in DOMAIN cache : cache[i].ip # x
        /\ ping # None => ping.dest # x
        /\ learning # None => learning.ip # x
        /\ \A r \in onWire : r[1] # x

\* One ping to the gateway, among ARP requests of the others.
OnePing ==
    /\ Cardinality(PingsRun) <= 1 /\ (ping # None => ping.dest = Gateway)
    /\ \A m \in wire : m.kind = "echo request" => m.from = Me

\* Two operations of any kind, or more of one: two pings and a third operation with
\* the gateway, a ping and two requests that fill the cache, datagrams only.
OneSubject ==
    \/ ops <= 2
    \/ ops <= 3 /\ NoDatagrams /\ OnlyGateway
    \/ ops <= 3 /\ NoDatagrams /\ OnePing
    \/ NoHosts
=============================================================================
