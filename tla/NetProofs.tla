----------------------------- MODULE NetProofs ------------------------------
(***************************************************************************)
(* Proofs about Net, for any number of hosts, ports, cache slots, pings    *)
(* and frames in flight.  WireInv says what the frames on the wire say of  *)
(* the past; the three properties rest on it, each with an invariant of    *)
(* its own: LearnInv, of the main loop's cache_learn() cut off; that of    *)
(* the bindings; and PingInv, which ties a ping under way to icmp.c's one  *)
(* pending request.                                                        *)
(***************************************************************************)
EXTENDS Net, BasicProofs

USE DEF Frame

Inv == WireInv /\ CacheInv /\ LearnInv /\ ArpNamesOnce /\ BindingInv /\ DatagramsReachOwner
       /\ PingInv /\ PingTellsTruth

-----------------------------------------------------------------------------
(* The wire *)

\* A step that adds an honest frame, loses any and forgets nothing.
LEMMA WireGrows ==
    ASSUME WireInv, NEW f, wire' \subseteq wire \cup {f}, f \in wire' => Honest(f)',
           onWire \subseteq onWire', answered \subseteq answered'
    PROVE  WireInv'
<1> SUFFICES ASSUME NEW m \in wire' PROVE Honest(m)'
  BY DEF WireInv
<1>1. CASE m \in wire
  BY <1>1 DEF WireInv, Honest
<1>2. CASE m = f
  BY <1>2
<1> QED
  BY <1>1, <1>2

\* eth_send() and eth_answer() add at most the frame they are given.
LEMMA Sent ==
    ASSUME NEW f, NEW m, NEW outcome, NEW again,
           eth_send(f, outcome) \/ eth_answer(m, f, outcome, again)
    PROVE  /\ wire' \subseteq wire \cup {f}
           /\ f \in wire' => outcome = "goes out" \/ f \in wire
BY DEF eth_send, eth_answer, Travels

\* What the commands and calls on this machine send.
LEMMA WeSend ==
    ASSUME WireInv,
           \/ \E outcome \in Outcomes : PingSends(outcome)
           \/ \E dest \in Hosts, outcome \in Outcomes : udp_send(dest, outcome)
    PROVE  WireInv'
<1>1. ASSUME NEW outcome \in Outcomes, PingSends(outcome) PROVE WireInv'
  <2>1. PICK f : f = ip_frame("echo request", ping.dest, ping.sequence)
    OBVIOUS
  <2>2. eth_send(f, outcome) /\ answered' = answered /\ onWire \subseteq onWire'
        /\ (ip_accepts(ping.dest, outcome) => <<ping.dest, ping.sequence>> \in onWire')
    BY <1>1, <2>1 DEF PingSends
  <2>3. CASE f \in wire
    <3>1. wire' \subseteq wire \cup {f}
      BY <2>2, Sent
    <3>2. Honest(f)'
      BY <2>2, <2>3 DEF WireInv, Honest
    <3> QED
      BY <2>2, <3>1, <3>2, WireGrows
  <2>4. CASE f \notin wire
    <3>1. wire' \subseteq wire \cup {f} /\ (f \in wire' => outcome = "goes out")
      BY <2>2, <2>4, Sent
    <3>2. f \in wire' => Honest(f)'
      <4> SUFFICES ASSUME outcome = "goes out" PROVE Honest(f)'
        BY <3>1
      <4>1. /\ f.from = Me
            /\ \/ f.kind = "arp request"
               \/ /\ f.kind = "echo request" /\ f.to = ping.dest /\ f.data = ping.sequence
                  /\ <<ping.dest, ping.sequence>> \in onWire'
        BY <2>1, <2>2 DEF ip_accepts, ip_frame, arp_request
      <4> QED
        BY <4>1 DEF Honest
    <3> QED
      BY <2>2, <3>1, <3>2, WireGrows
  <2> QED
    BY <2>3, <2>4
<1>2. ASSUME NEW dest \in Hosts, NEW outcome \in Outcomes, udp_send(dest, outcome)
      PROVE  WireInv'
  <2>1. PICK f : f = ip_frame("udp", dest, None)
    OBVIOUS
  <2>2. eth_send(f, outcome) /\ answered' = answered /\ onWire' = onWire
    BY <1>2, <2>1 DEF udp_send, pastVars
  <2>3. wire' \subseteq wire \cup {f}
    BY <2>2, Sent
  <2>4. f.from = Me /\ f.kind \in {"arp request", "udp"}
    BY <2>1 DEF ip_frame, arp_request
  <2>5. Honest(f)'
    BY <2>4 DEF Honest
  <2> QED
    BY <2>2, <2>3, <2>5, WireGrows
<1> QED
  BY <1>1, <1>2

\* What the handlers answer: an ARP reply of ours, or an echo reply.
LEMMA WeAnswer ==
    ASSUME WireInv, NEW m \in wire, net_poll(m)
    PROVE  WireInv' /\ onWire' = onWire /\ answered' = answered
<1>0. onWire' = onWire /\ answered' = answered
  BY DEF net_poll, Dropped, udp_handle_packet, arp_handle_packet, MainSearches, icmp_handle_packet,
     EchoRequest, EchoReply, pastVars
<1>1. CASE Dropped(m)
  <2>1. wire' \subseteq wire
    BY <1>1 DEF Dropped
  <2> QED
    BY <1>0, <2>1 DEF WireInv, Honest
<1>2. ASSUME NEW again \in BOOLEAN,
             udp_handle_packet(m, again) \/ EchoReply(m, again) \/ MainSearches(m, again)
      PROVE  WireInv'
  <2>1. eth_answer(m, m, "lost", again)
    BY <1>2 DEF udp_handle_packet, EchoReply, MainSearches
  <2>2. wire' \subseteq wire
    BY <2>1 DEF eth_answer, Travels
  <2> QED
    BY <1>0, <2>2 DEF WireInv, Honest
<1>3. ASSUME NEW again \in BOOLEAN, NEW outcome \in Outcomes, arp_handle_packet(m, outcome, again)
      PROVE  WireInv'
  <2>1. PICK f : f = Frame("arp reply", m.data, Me, m.from, Me)
    OBVIOUS
  <2>2. eth_answer(m, f, outcome, again) \/ eth_answer(m, m, "lost", again)
    BY <1>3, <2>1 DEF arp_handle_packet, ArpReply
  <2>3. wire' \subseteq wire \cup {f}
    BY <2>2 DEF eth_answer
  <2>4. Honest(f)'
    BY <2>1 DEF Honest
  <2> QED
    BY <1>0, <2>3, <2>4, WireGrows
<1>4. ASSUME NEW again \in BOOLEAN, NEW outcome \in Outcomes, EchoRequest(m, outcome, again)
      PROVE  WireInv'
  <2>1. PICK f : f = ip_frame("echo reply", m.from, m.data)
    OBVIOUS
  <2>2. eth_answer(m, f, outcome, again)
    BY <1>4, <2>1 DEF EchoRequest
  <2>3. wire' \subseteq wire \cup {f}
    BY <2>2, Sent
  <2>4. f.from = Me /\ f.kind \in {"arp request", "echo reply"}
    BY <2>1 DEF ip_frame, arp_request
  <2>5. Honest(f)'
    BY <2>4 DEF Honest
  <2> QED
    BY <1>0, <2>3, <2>5, WireGrows
<1> QED
  BY <1>0, <1>1, <1>2, <1>3, <1>4 DEF net_poll, icmp_handle_packet

\* The main loop's stores, and its answer at the end of them.
LEMMA MainAnswers ==
    ASSUME WireInv, MainLearns
    PROVE  WireInv' /\ onWire' = onWire /\ answered' = answered
<1>1. PICK f : f = ArpReply(learning.ip, learning.mac)
  OBVIOUS
<1>2. onWire' = onWire /\ answered' = answered /\ wire' \subseteq wire \cup {f}
  BY <1>1 DEF MainLearns, StoreIp, StoreMac, StoreInUse, eth_send, pastVars
<1>3. Honest(f)'
  BY <1>1 DEF Honest, ArpReply
<1> QED
  BY <1>2, <1>3, WireGrows

\* What the network and the hosts do.
LEMMA TheySend ==
    ASSUME WireInv, Me \notin Hosts, answered \subseteq onWire,
           \/ \E m \in wire : NetLoses(m) \/ NetCorrupts(m) \/ HostAnswersArp(m) \/ HostAnswersEcho(m)
           \/ HostAsksArp \/ HostPings \/ HostSendsDatagram
    PROVE  WireInv' /\ onWire' = onWire /\ answered \subseteq answered' /\ answered' \subseteq onWire
<1>1. ASSUME NEW m \in wire, NetLoses(m)
      PROVE  WireInv' /\ onWire' = onWire /\ answered' = answered
  BY <1>1 DEF NetLoses, pastVars, WireInv, Honest
<1>2. ASSUME NEW m \in wire, NetCorrupts(m)
      PROVE  WireInv' /\ onWire' = onWire /\ answered' = answered
  <2>1. PICK f : f = Corrupted(m)
    OBVIOUS
  <2>2. f.kind = m.kind /\ f.from = m.from /\ f.to = m.to /\ f.data = m.data
    BY <2>1 DEF Corrupted
  <2>3. wire' \subseteq wire \cup {f} /\ onWire' = onWire /\ answered' = answered
    BY <1>2, <2>1 DEF NetCorrupts, pastVars
  <2>4. Honest(f)'
    BY <2>2, <2>3 DEF WireInv, Honest
  <2> QED
    BY <2>3, <2>4, WireGrows
<1>3. ASSUME NEW m \in wire, HostAnswersArp(m)
      PROVE  WireInv' /\ onWire' = onWire /\ answered' = answered
  <2>1. PICK f : f = Frame("arp reply", Me, m.to, Me, m.to)
    OBVIOUS
  <2>2. wire' \subseteq wire \cup {f} /\ onWire' = onWire /\ answered' = answered
    BY <1>3, <2>1 DEF HostAnswersArp, eth_answer, pastVars
  <2>3. Honest(f)'
    BY <1>3, <2>1 DEF Honest, HostAnswersArp
  <2> QED
    BY <2>2, <2>3, WireGrows
<1>4. ASSUME NEW m \in wire, HostAnswersEcho(m)
      PROVE  WireInv' /\ onWire' = onWire /\ answered \subseteq answered' /\ answered' \subseteq onWire
  <2>1. PICK f : f = Frame("echo reply", Me, m.to, Me, m.data)
    OBVIOUS
  <2>2. wire' \subseteq wire \cup {f} /\ onWire' = onWire /\ m.to \in Hosts
        /\ answered' = answered \cup {<<m.to, m.data>>}
    BY <1>4, <2>1 DEF HostAnswersEcho, eth_answer
  <2>3. Honest(f)'
    BY <2>1, <2>2 DEF Honest
  <2>4. <<m.to, m.data>> \in onWire
    BY <1>4 DEF HostAnswersEcho, WireInv, Honest
  <2>5. WireInv'
    BY <2>2, <2>3, WireGrows
  <2> QED
    BY <2>2, <2>4, <2>5
<1>5. ASSUME NEW f, HostSends(f), f.kind = "arp request" => f.from \in LinkHosts /\ f.data = f.from,
             f.kind \in {"arp request", "echo request", "udp"},
             f.kind = "echo request" => f.from # Me,
             f.kind = "udp" => f.data \in Datagrams
      PROVE  WireInv' /\ onWire' = onWire /\ answered' = answered
  <2>1. wire' \subseteq wire \cup {f} /\ onWire' = onWire /\ answered' = answered
    BY <1>5 DEF HostSends, eth_send, pastVars
  <2>2. Honest(f)'
    BY <1>5 DEF Honest
  <2> QED
    BY <2>1, <2>2, WireGrows
<1>6. CASE HostAsksArp
  BY <1>5, <1>6 DEF HostAsksArp
<1>7. CASE HostPings
  BY <1>5, <1>7 DEF HostPings
<1>8. CASE HostSendsDatagram
  BY <1>5, <1>8 DEF HostSendsDatagram
<1> QED
  BY <1>1, <1>2, <1>3, <1>4, <1>6, <1>7, <1>8

-----------------------------------------------------------------------------
(* The ARP cache *)

\* ArpNamesOnce, slot by slot.
Unique(i) == \A j \in 1 .. CacheSize : InUse(j) /\ cache[j].ip = cache[i].ip => j = i
Right(i) == cache[i].mac = cache[i].ip \/ (learning # None /\ learning.at = "mac" /\ learning.slot = i)

AllRight == \A i \in 1 .. CacheSize : ~raced /\ InUse(i) => Unique(i) /\ Right(i)

LEMMA NamesOnce == CacheInv => (ArpNamesOnce <=> AllRight)
<1> SUFFICES ASSUME CacheInv PROVE ArpNamesOnce <=> AllRight
  OBVIOUS
<1>1. DOMAIN cache = 1 .. CacheSize
  BY DEF CacheInv
<1>2. ASSUME NEW i \in 1 .. CacheSize, InUse(i) PROVE SlotsOf(cache[i].ip) = {i} <=> Unique(i)
  BY <1>1, <1>2 DEF SlotsOf, Unique
<1> QED
  BY <1>1, <1>2 DEF ArpNamesOnce, AllRight, Right

\* Which slot cache_learn() picks.
LEMMA PickedSlot ==
    ASSUME CacheInv, NEW ip
    PROVE  LET s == LearnSlot(ip) IN
           /\ s \in 1 .. CacheSize
           /\ SlotsOf(ip) # {} => s \in SlotsOf(ip)
           /\ SlotsOf(ip) = {} /\ FreeSlots # {} => ~InUse(s) /\ \A j \in 1 .. (s - 1) : InUse(j)
           /\ SlotsOf(ip) = {} /\ FreeSlots = {} => s = 1
<1>1. DOMAIN cache = 1 .. CacheSize /\ 1 \in 1 .. CacheSize /\ 1 .. CacheSize \subseteq Nat
  BY NetAssumption DEF CacheInv
<1>2. /\ SlotsOf(ip) \in SUBSET Nat /\ FreeSlots \in SUBSET Nat
      /\ SlotsOf(ip) \subseteq 1 .. CacheSize /\ FreeSlots \subseteq 1 .. CacheSize
  BY <1>1 DEF SlotsOf, FreeSlots
<1>3. CASE SlotsOf(ip) # {}
  BY <1>2, <1>3, LowestOfSet DEF LearnSlot
<1>4. CASE SlotsOf(ip) = {} /\ FreeSlots # {}
  <2>1. PICK s : s = Lowest(FreeSlots)
    OBVIOUS
  <2>2. s \in FreeSlots /\ \A j \in FreeSlots : s <= j
    BY <1>2, <1>4, <2>1, LowestOfSet
  <2>3. s \in 1 .. CacheSize /\ ~InUse(s) /\ \A j \in 1 .. (s - 1) : InUse(j)
    BY <1>1, <1>2, <2>2, NetAssumption DEF FreeSlots
  <2> QED
    BY <1>4, <2>1, <2>3 DEF LearnSlot
<1>5. CASE SlotsOf(ip) = {} /\ FreeSlots = {}
  BY <1>1, <1>5 DEF LearnSlot
<1> QED
  BY <1>3, <1>4, <1>5

\* What holds of the slots while the main loop's cache_learn() is cut off.
Pending ==
    LET t == learning.slot
        ip == learning.ip
    IN  /\ \A j \in 1 .. CacheSize : InUse(j) /\ cache[j].ip = ip => j = t
        /\ learning.at # "ip" => cache[t].ip = ip
        /\ learning.at = "in_use" => cache[t].mac = ip
        /\ \/ InUse(t) /\ cache[t].ip = ip
           \/ ~InUse(t) /\ \A j \in 1 .. (t - 1) : InUse(j)
           \/ t = 1 /\ \A j \in 1 .. CacheSize : InUse(j)

IsPending == learning # None => /\ learning \in Learnings /\ learning.mac = learning.ip
                                /\ ~raced => Pending

LEMMA LearnInvDef == CacheInv => (LearnInv <=> IsPending)
<1> SUFFICES ASSUME CacheInv PROVE LearnInv <=> IsPending
  OBVIOUS
<1>1. DOMAIN cache = 1 .. CacheSize
  BY DEF CacheInv
<1>2. FreeSlots = {} <=> \A j \in 1 .. CacheSize : InUse(j)
  BY <1>1 DEF FreeSlots
<1> QED
  BY <1>1, <1>2 DEF LearnInv, IsPending, Pending

\* The two invariants after a step, slot by slot.
LEMMA SlotBySlot ==
    ASSUME CacheInv', \A i \in 1 .. CacheSize : ~raced' /\ InUse(i)' => Unique(i)' /\ Right(i)',
           learning' # None => /\ learning' \in Learnings /\ learning'.mac = learning'.ip
                               /\ ~raced' => Pending'
    PROVE  LearnInv' /\ ArpNamesOnce'
<1>1. CacheInv' => (LearnInv' <=> IsPending')
  BY LearnInvDef, PTL
<1>2. CacheInv' => (ArpNamesOnce' <=> AllRight')
  BY NamesOnce, PTL
<1>3. IsPending'
  BY DEF IsPending, Learnings
<1>4. AllRight'
  BY DEF AllRight
<1> QED
  BY <1>1, <1>2, <1>3, <1>4

\* A ping learns an address: the slot it picks is the main loop's if the address is,
\* and no other in-use slot has it.
LEMMA PingLearns ==
    ASSUME CacheInv, LearnInv, ArpNamesOnce, NEW ip \in LinkHosts, cache_learn(ip, ip),
           UNCHANGED learning,
           raced' = (raced \/ (learning # None /\ ip # learning.ip
                               /\ LearnSlot(ip) = learning.slot))
    PROVE  CacheInv' /\ LearnInv' /\ ArpNamesOnce'
<1> DEFINE s == LearnSlot(ip)
           new == [ip |-> ip, mac |-> ip, in_use |-> TRUE]
<1>1. cache' = [cache EXCEPT ![s] = new] /\ new \in Entries
  BY DEF cache_learn, Entries
<1>2. /\ s \in 1 .. CacheSize
      /\ SlotsOf(ip) # {} => s \in SlotsOf(ip)
      /\ SlotsOf(ip) = {} /\ FreeSlots # {} => ~InUse(s) /\ \A j \in 1 .. (s - 1) : InUse(j)
      /\ SlotsOf(ip) = {} /\ FreeSlots = {} => s = 1
  BY PickedSlot
<1> HIDE DEF s
<1>3. CacheInv'
  BY <1>1, <1>2 DEF CacheInv
<1>4. /\ cache'[s].ip = ip /\ cache'[s].mac = ip /\ cache'[s].in_use = TRUE
      /\ \A j \in 1 .. CacheSize : j # s => cache'[j] = cache[j]
  BY <1>1, <1>2 DEF CacheInv
<1> HIDE DEF new
<1>d. DOMAIN cache = 1 .. CacheSize
  BY DEF CacheInv
<1>5. ASSUME ~raced PROVE \A j \in 1 .. CacheSize : j # s /\ InUse(j) => cache[j].ip # ip
  <2>1. CASE SlotsOf(ip) = {}
    BY <1>d, <2>1 DEF SlotsOf
  <2>2. CASE SlotsOf(ip) # {}
    <3>1. InUse(s) /\ cache[s].ip = ip
      BY <1>2, <2>2 DEF SlotsOf
    <3> QED
      BY <1>2, <1>5, <3>1, NamesOnce DEF AllRight, Unique
  <2> QED
    BY <2>1, <2>2
<1>6. ASSUME NEW i \in 1 .. CacheSize, ~raced', InUse(i)' PROVE Unique(i)' /\ Right(i)'
  <2>0. ~raced
    BY <1>6
  <2>1. CASE i = s
    BY <1>2, <1>4, <1>5, <2>0, <2>1 DEF Unique, Right, InUse
  <2>2. CASE i # s
    <3>1. InUse(i) /\ cache'[i] = cache[i] /\ Unique(i) /\ Right(i) /\ cache[i].ip # ip
      BY <1>4, <1>5, <1>6, <2>0, <2>2, NamesOnce DEF AllRight, InUse
    <3>2. Unique(i)'
      BY <1>4, <3>1 DEF Unique, InUse
    <3> QED
      BY <3>1, <3>2 DEF Right
  <2> QED
    BY <2>1, <2>2
<1>7. ASSUME learning # None, ~raced' PROVE Pending'
  <2> DEFINE t == learning.slot
  <2>1. ~raced /\ Pending /\ t \in 1 .. CacheSize
    BY <1>7, LearnInvDef DEF IsPending, Learnings
  <2>2. CASE ip = learning.ip
    <3>1. s = t
      <4>1. CASE InUse(t) /\ cache[t].ip = ip
        <5>1. t \in SlotsOf(ip)
          BY <1>d, <2>1, <4>1 DEF SlotsOf
        <5>2. s \in SlotsOf(ip)
          BY <1>2, <5>1
        <5> QED
          BY <1>2, <2>1, <2>2, <5>2 DEF SlotsOf, Pending
      <4>2. CASE ~InUse(t) /\ \A j \in 1 .. (t - 1) : InUse(j)
        <5>1. SlotsOf(ip) = {}
          BY <1>d, <2>1, <2>2, <4>2 DEF SlotsOf, Pending
        <5>2. FreeSlots # {}
          BY <1>d, <2>1, <4>2 DEF FreeSlots
        <5>3. ~InUse(s) /\ \A j \in 1 .. (s - 1) : InUse(j)
          BY <1>2, <5>1, <5>2
        <5> QED
          BY <1>2, <2>1, <4>2, <5>3, NetAssumption
      <4>3. CASE t = 1 /\ \A j \in 1 .. CacheSize : InUse(j)
        <5>1. FreeSlots = {}
          BY <1>d, <4>3 DEF FreeSlots
        <5>2. CASE SlotsOf(ip) = {}
          BY <1>2, <4>3, <5>1, <5>2
        <5>3. CASE SlotsOf(ip) # {}
          <6>1. InUse(s) /\ cache[s].ip = ip
            BY <1>2, <5>3 DEF SlotsOf
          <6> QED
            BY <1>2, <2>1, <2>2, <6>1 DEF Pending
        <5> QED
          BY <5>2, <5>3
      <4> QED
        BY <2>1, <2>2, <4>1, <4>2, <4>3 DEF Pending
    <3> QED
      BY <1>4, <1>5, <2>1, <2>2, <3>1 DEF Pending, InUse
  <2>3. CASE ip # learning.ip
    <3>1. s # t
      BY <1>7, <2>3 DEF s
    <3>2. cache'[t] = cache[t]
      BY <1>4, <2>1, <3>1
    <3>3. \A j \in 1 .. CacheSize : cache[j].in_use => cache'[j].in_use
      BY <1>4
    <3>4. \A j \in 1 .. CacheSize : cache'[j].in_use /\ cache'[j].ip = learning.ip => j = t
      BY <1>4, <2>1, <2>3 DEF Pending, InUse
    <3>5. 1 .. (t - 1) \subseteq 1 .. CacheSize
      BY <2>1, NetAssumption
    <3> QED
      BY <2>1, <3>2, <3>3, <3>4, <3>5 DEF Pending, InUse
  <2> QED
    BY <2>2, <2>3
<1>8. learning' # None => learning' \in Learnings /\ learning'.mac = learning'.ip
  BY LearnInvDef DEF IsPending
<1> QED
  BY <1>3, <1>6, <1>7, <1>8, SlotBySlot

\* The main loop's search.
LEMMA SearchKeeps ==
    ASSUME WireInv, CacheInv, LearnInv, ArpNamesOnce, NEW m \in wire, NEW again,
           MainSearches(m, again)
    PROVE  CacheInv' /\ LearnInv' /\ ArpNamesOnce'
<1> DEFINE s == LearnSlot(m.from)
           at == IF SlotsOf(m.from) # {} THEN "mac" ELSE "ip"
<1>1. m.from \in LinkHosts /\ m.data = m.from /\ learning = None
  BY DEF MainSearches, IsArp, Mine, WireInv, Honest
<1>2. /\ learning' = [ip |-> m.from, mac |-> m.data, slot |-> s, at |-> at, answers |-> ForUs(m)]
      /\ UNCHANGED <<cache, raced>>
  BY DEF MainSearches, pastVars
<1>3. CacheInv' /\ DOMAIN cache = 1 .. CacheSize
  BY <1>2 DEF CacheInv
<1>4. /\ s \in 1 .. CacheSize
      /\ SlotsOf(m.from) # {} => s \in SlotsOf(m.from)
      /\ SlotsOf(m.from) = {} /\ FreeSlots # {} => ~InUse(s) /\ \A j \in 1 .. (s - 1) : InUse(j)
      /\ SlotsOf(m.from) = {} /\ FreeSlots = {} => s = 1
  BY PickedSlot
<1>5. ForUs(m) \in BOOLEAN
  BY DEF ForUs
<1> HIDE DEF s
<1>6. learning' \in Learnings /\ learning'.mac = learning'.ip
  BY <1>1, <1>2, <1>4, <1>5 DEF Learnings
<1>7. learning'.slot = s /\ learning'.ip = m.from /\ learning'.at = at
  BY <1>2
<1>8. \A i \in 1 .. CacheSize : ~raced' /\ InUse(i)' => Unique(i)' /\ Right(i)'
  BY <1>1, <1>2, NamesOnce DEF AllRight, Unique, Right, InUse
<1>9. ASSUME ~raced' PROVE Pending'
  <2>1. CASE SlotsOf(m.from) # {}
    <3>1. InUse(s) /\ cache[s].ip = m.from
      BY <1>4, <2>1 DEF SlotsOf
    <3>2. Unique(s)
      BY <1>2, <1>4, <1>9, <3>1, NamesOnce DEF AllRight
    <3> QED
      BY <1>2, <1>7, <2>1, <3>1, <3>2 DEF Pending, Unique, InUse
  <2>2. CASE SlotsOf(m.from) = {}
    <3>1. \A j \in 1 .. CacheSize : ~(InUse(j) /\ cache[j].ip = m.from)
      BY <1>3, <2>2 DEF SlotsOf
    <3>2. FreeSlots = {} => \A j \in 1 .. CacheSize : InUse(j)
      BY <1>3 DEF FreeSlots
    <3> QED
      BY <1>2, <1>4, <1>7, <2>2, <3>1, <3>2 DEF Pending, InUse
  <2> QED
    BY <2>1, <2>2
<1> QED
  BY <1>3, <1>6, <1>8, <1>9, SlotBySlot

\* One of the main loop's stores changes one field of its slot.
LEMMA StoreKeeps ==
    ASSUME CacheInv, LearnInv, ArpNamesOnce, MainLearns
    PROVE  CacheInv' /\ LearnInv' /\ ArpNamesOnce'
<1> DEFINE t == learning.slot
           ip == learning.ip
<1>1. /\ learning # None /\ learning \in Learnings /\ learning.mac = ip
      /\ (~raced => Pending) /\ t \in 1 .. CacheSize /\ ip \in LinkHosts
  BY LearnInvDef DEF IsPending, MainLearns, StoreIp, StoreMac, StoreInUse, MainAt, Learnings
<1>2. raced' = raced
  BY DEF MainLearns, StoreIp, StoreMac, StoreInUse, pastVars
<1>3. ASSUME NEW e \in Entries, cache' = [cache EXCEPT ![t] = e]
      PROVE  /\ CacheInv' /\ cache'[t] = e
             /\ \A j \in 1 .. CacheSize : j # t => cache'[j] = cache[j]
  BY <1>1, <1>3 DEF CacheInv
<1>t. cache[t] \in Entries
  BY <1>1 DEF CacheInv
<1>4. CASE StoreIp
  <2> DEFINE e == [cache[t] EXCEPT !.ip = ip]
  <2>1. cache' = [cache EXCEPT ![t] = e] /\ learning' = [learning EXCEPT !.at = "mac"]
        /\ learning.at = "ip"
    BY <1>4 DEF StoreIp, MainAt
  <2>2. e \in Entries /\ e.ip = ip /\ e.mac = cache[t].mac /\ e.in_use = cache[t].in_use
    BY <1>1, <1>t DEF Entries
  <2>3. /\ learning' \in Learnings /\ learning'.slot = t /\ learning'.ip = ip
        /\ learning'.mac = ip /\ learning'.at = "mac"
    BY <1>1, <2>1 DEF Learnings
  <2> HIDE DEF e
  <2>4. /\ CacheInv' /\ cache'[t].ip = ip /\ cache'[t].in_use = cache[t].in_use
        /\ \A j \in 1 .. CacheSize : j # t => cache'[j] = cache[j]
    BY <1>3, <2>1, <2>2
  <2>5. ASSUME NEW i \in 1 .. CacheSize, ~raced', InUse(i)' PROVE Unique(i)' /\ Right(i)'
    <3>1. Pending /\ InUse(i) /\ Unique(i) /\ Right(i)
      BY <1>1, <1>2, <2>4, <2>5, NamesOnce DEF AllRight, InUse
    <3>2. Unique(i)'
      BY <2>4, <3>1 DEF Unique, Pending, InUse
    <3>3. Right(i)'
      BY <2>1, <2>3, <2>4, <3>1, NetAssumption DEF Right
    <3> QED
      BY <3>2, <3>3
  <2>6. ASSUME ~raced' PROVE Pending'
    <3>1. Pending /\ 1 .. (t - 1) \subseteq 1 .. CacheSize
      BY <1>1, <1>2, <2>6, NetAssumption
    <3> QED
      BY <1>1, <2>3, <2>4, <3>1 DEF Pending, InUse
  <2> QED
    BY <2>3, <2>4, <2>5, <2>6, SlotBySlot
<1>5. CASE StoreMac
  <2> DEFINE e == [cache[t] EXCEPT !.mac = ip]
  <2>1. cache' = [cache EXCEPT ![t] = e] /\ learning' = [learning EXCEPT !.at = "in_use"]
        /\ learning.at = "mac"
    BY <1>1, <1>5 DEF StoreMac, MainAt
  <2>2. e \in Entries /\ e.ip = cache[t].ip /\ e.mac = ip /\ e.in_use = cache[t].in_use
    BY <1>1, <1>t DEF Entries
  <2>3. /\ learning' \in Learnings /\ learning'.slot = t /\ learning'.ip = ip
        /\ learning'.mac = ip /\ learning'.at = "in_use"
    BY <1>1, <2>1 DEF Learnings
  <2> HIDE DEF e
  <2>4. /\ CacheInv' /\ cache'[t].ip = cache[t].ip /\ cache'[t].mac = ip /\ cache'[t].in_use = cache[t].in_use
        /\ \A j \in 1 .. CacheSize : j # t => cache'[j] = cache[j]
    BY <1>3, <2>1, <2>2
  <2>5. ASSUME NEW i \in 1 .. CacheSize, ~raced', InUse(i)' PROVE Unique(i)' /\ Right(i)'
    <3>1. Pending /\ InUse(i) /\ Unique(i) /\ Right(i)
      BY <1>1, <1>2, <2>4, <2>5, NamesOnce DEF AllRight, InUse
    <3>2. \A j \in 1 .. CacheSize : cache'[j].ip = cache[j].ip /\ cache'[j].in_use = cache[j].in_use
      BY <2>4
    <3>3. Unique(i)'
      BY <3>1, <3>2 DEF Unique, InUse
    <3>4. Right(i)'
      BY <1>1, <2>1, <2>4, <3>1 DEF Right, Pending
    <3> QED
      BY <3>3, <3>4
  <2>6. ASSUME ~raced' PROVE Pending'
    <3>1. Pending /\ 1 .. (t - 1) \subseteq 1 .. CacheSize
      BY <1>1, <1>2, <2>6, NetAssumption
    <3> QED
      BY <1>1, <2>1, <2>3, <2>4, <3>1 DEF Pending, InUse
  <2> QED
    BY <2>3, <2>4, <2>5, <2>6, SlotBySlot
<1>6. CASE \E outcome \in Outcomes : StoreInUse(outcome)
  <2> DEFINE e == [cache[t] EXCEPT !.in_use = TRUE]
  <2>1. cache' = [cache EXCEPT ![t] = e] /\ learning' = None /\ learning.at = "in_use"
    BY <1>6 DEF StoreInUse, MainAt
  <2>2. e \in Entries /\ e.ip = cache[t].ip /\ e.mac = cache[t].mac /\ e.in_use = TRUE
    BY <1>1, <1>t DEF Entries
  <2> HIDE DEF e
  <2>4. /\ CacheInv' /\ cache'[t].ip = cache[t].ip /\ cache'[t].mac = cache[t].mac 
        /\ cache'[t].in_use = TRUE
        /\ \A j \in 1 .. CacheSize : j # t => cache'[j] = cache[j]
    BY <1>3, <2>1, <2>2
  <2>5. ASSUME NEW i \in 1 .. CacheSize, ~raced', InUse(i)' PROVE Unique(i)' /\ Right(i)'
    <3>1. Pending /\ cache[t].ip = ip /\ cache[t].mac = ip
      BY <1>1, <1>2, <2>1, <2>5 DEF Pending
    <3>2. \A j \in 1 .. CacheSize : cache'[j].ip = cache[j].ip /\ cache'[j].mac = cache[j].mac
      BY <2>4
    <3>3. CASE i = t
      BY <2>4, <3>1, <3>2, <3>3 DEF Unique, Right, Pending, InUse
    <3>4. CASE i # t
      <4>1. InUse(i) /\ Unique(i) /\ cache[i].mac = cache[i].ip /\ cache[i].ip # ip
        BY <1>2, <2>1, <2>4, <2>5, <3>1, <3>4, NamesOnce DEF AllRight, Right, Pending, InUse
      <4> QED
        BY <2>4, <3>1, <3>2, <4>1 DEF Unique, Right, InUse
    <3> QED
      BY <3>3, <3>4
  <2> QED
    BY <2>1, <2>4, <2>5, SlotBySlot
<1> QED
  BY <1>4, <1>5, <1>6 DEF MainLearns

\* Only the two ways to learn write to the cache, and what is learned comes from an
\* honest frame.
LEMMA CacheStep ==
    ASSUME WireInv, CacheInv, LearnInv, ArpNamesOnce, [Next]_vars
    PROVE  CacheInv' /\ LearnInv' /\ ArpNamesOnce'
<1>1. ASSUME UNCHANGED <<cache, learning, raced>> PROVE CacheInv' /\ LearnInv' /\ ArpNamesOnce'
  <2>1. CacheInv'
    BY <1>1 DEF CacheInv
  <2>2. LearnInv'
    BY <1>1 DEF LearnInv, InUse, FreeSlots
  <2>3. ArpNamesOnce'
    BY <1>1 DEF ArpNamesOnce, SlotsOf, InUse
  <2> QED
    BY <2>1, <2>2, <2>3
<1>2. ASSUME NEW m \in wire, NEW outcome, NEW again, arp_handle_packet(m, outcome, again)
      PROVE  CacheInv' /\ LearnInv' /\ ArpNamesOnce'
  <2>1. m.from \in LinkHosts /\ m.data = m.from
    BY <1>2 DEF arp_handle_packet, IsArp, Mine, WireInv, Honest
  <2>2. PICK ip \in LinkHosts : ip = m.from
    BY <2>1
  <2>3. /\ cache_learn(ip, ip) /\ UNCHANGED learning
        /\ raced' = (raced \/ (learning # None /\ ip # learning.ip
                                /\ LearnSlot(ip) = learning.slot))
    BY <1>2, <2>1, <2>2 DEF arp_handle_packet
  <2> QED
    BY <2>3, PingLearns
<1>3. ASSUME NEW m \in wire, net_poll(m) PROVE CacheInv' /\ LearnInv' /\ ArpNamesOnce'
  <2>1. ASSUME ~ \E outcome \in Outcomes, again \in BOOLEAN : arp_handle_packet(m, outcome, again),
               ~ \E again \in BOOLEAN : MainSearches(m, again)
        PROVE  UNCHANGED <<cache, learning, raced>>
    BY <1>3, <2>1 DEF net_poll, Dropped, udp_handle_packet, icmp_handle_packet, EchoRequest,
       EchoReply, pastVars
  <2> QED
    BY <1>1, <1>2, <2>1, SearchKeeps
<1>4. ASSUME ~ \E m \in wire : net_poll(m), ~MainLearns PROVE UNCHANGED <<cache, learning, raced>>
  BY <1>4 DEF Next, vars, netVars, pastVars, shell_cmd_ping, PingSends, PingEnds, udp_bind,
     udp_unbind, udp_send, NetLoses, NetCorrupts, HostAnswersArp, HostAnswersEcho, HostAsksArp,
     HostPings, HostSendsDatagram, HostSends
<1> QED
  BY <1>1, <1>3, <1>4, StoreKeeps

-----------------------------------------------------------------------------
(* The bindings *)

\* udp_bind() takes the slot that has the port, if one has.
LEMMA BindKeeps ==
    ASSUME BindingInv, NEW port \in Ports, NEW callback, udp_bind(port, callback)
    PROVE  BindingInv'
<1> DEFINE slots == IF BoundTo(port) # {} THEN BoundTo(port) ELSE FreeBindings
           r == [port |-> port, callback |-> callback]
<1>1. slots # {} /\ slots \in SUBSET (1 .. MaxBindings) /\ slots \in SUBSET Nat
  BY NetAssumption DEF udp_bind, BoundTo, FreeBindings, BindingInv
<1>2. PICK slot \in slots : slot = Lowest(slots)
  BY <1>1, LowestOfSet
<1>3. bindings' = [bindings EXCEPT ![slot] = r] /\ bound' = [bound EXCEPT ![port] = callback]
  BY <1>2 DEF udp_bind
<1>4. \A j \in 1 .. MaxBindings : j # slot => PortOf(j) # port
  <2>1. CASE BoundTo(port) = {}
    BY <2>1 DEF BoundTo, BindingInv
  <2>2. CASE BoundTo(port) # {}
    <3>1. PortOf(slot) = port /\ slot \in 1 .. MaxBindings
      BY <1>1, <1>2, <2>2 DEF BoundTo, BindingInv
    <3> QED
      BY <3>1, NetAssumption DEF BindingInv
  <2> QED
    BY <2>1, <2>2
<1>5. slot \in 1 .. MaxBindings
  BY <1>1, <1>2
<1>6. /\ DOMAIN bindings' = 1 .. MaxBindings /\ DOMAIN bound' = Ports
      /\ bindings'[slot] = r
      /\ \A j \in (1 .. MaxBindings) \ {slot} : bindings'[j] = bindings[j]
      /\ bound'[port] = callback /\ \A p \in Ports \ {port} : bound'[p] = bound[p]
  BY <1>3, <1>5 DEF BindingInv
<1>7. r.port = port /\ r.callback = callback
  OBVIOUS
<1> HIDE DEF r
<1>8. /\ PortOf(slot)' \in {None, port}
      /\ \A j \in (1 .. MaxBindings) \ {slot} : PortOf(j)' = PortOf(j)
  BY <1>6, <1>7 DEF PortOf
<1>9. \A i, j \in 1 .. MaxBindings : PortOf(i)' = PortOf(j)' => i = j \/ PortOf(i)' = None
  BY <1>4, <1>8, NetAssumption DEF BindingInv
<1>10. \A i \in 1 .. MaxBindings : bindings'[i] # None =>
          bindings'[i].port \in Ports /\ bound'[bindings'[i].port] = bindings'[i].callback
  BY <1>4, <1>6, <1>7 DEF BindingInv, PortOf
<1> QED
  BY <1>6, <1>9, <1>10 DEF BindingInv

\* udp_unbind() leaves the other ports alone.
LEMMA UnbindKeeps ==
    ASSUME BindingInv, NEW port \in Ports, udp_unbind(port)
    PROVE  BindingInv'
<1>1. /\ bindings' = [i \in 1 .. MaxBindings |-> IF PortOf(i) = port THEN None ELSE bindings[i]]
      /\ bound' = [bound EXCEPT ![port] = None]
  BY DEF udp_unbind, BindingInv
<1>2. \A i \in 1 .. MaxBindings : PortOf(i)' = IF PortOf(i) = port THEN None ELSE PortOf(i)
  BY <1>1 DEF PortOf
<1>3. \A i, j \in 1 .. MaxBindings : PortOf(i)' = PortOf(j)' => i = j \/ PortOf(i)' = None
  BY <1>2 DEF BindingInv
<1>4. \A i \in 1 .. MaxBindings : bindings'[i] # None =>
          bindings'[i].port \in Ports /\ bound'[bindings'[i].port] = bindings'[i].callback
  BY <1>1 DEF BindingInv, PortOf
<1> QED
  BY <1>1, <1>3, <1>4 DEF BindingInv

\* A datagram is handed to the callback bound to its port.
LEMMA DeliveryKeeps ==
    ASSUME WireInv, BindingInv, DatagramsReachOwner, NEW m \in wire, NEW again, udp_handle_packet(m, again)
    PROVE  BindingInv' /\ DatagramsReachOwner'
<1>1. BindingInv'
  BY DEF udp_handle_packet, BindingInv, PortOf
<1> DEFINE slots == BoundTo(m.data.port)
<1>2. m.data.port \in Ports
  BY DEF udp_handle_packet, Handed, Mine, WireInv, Honest, Datagrams
<1>3. CASE slots = {}
  BY <1>1, <1>3 DEF udp_handle_packet, DatagramsReachOwner
<1>4. CASE slots # {}
  <2>1. slots \in SUBSET Nat /\ slots \subseteq 1 .. MaxBindings
    BY NetAssumption DEF BoundTo, BindingInv
  <2>2. Lowest(slots) \in slots
    BY <1>4, <2>1, LowestOfSet
  <2>3. PICK i \in 1 .. MaxBindings : i = Lowest(slots) /\ PortOf(i) = m.data.port
    BY <2>1, <2>2 DEF BoundTo
  <2>4. bindings[i].callback = bound[m.data.port]
    BY <1>2, <2>3, NetAssumption DEF PortOf, BindingInv
  <2>5. delivered' = [callback |-> bindings[i].callback, expected |-> bound[m.data.port]]
    BY <1>4, <2>3 DEF udp_handle_packet
  <2> QED
    BY <1>1, <2>4, <2>5 DEF DatagramsReachOwner
<1> QED
  BY <1>1, <1>3, <1>4

\* Nobody else touches the bindings.
LEMMA BindingStep ==
    ASSUME WireInv, BindingInv, DatagramsReachOwner, [Next]_vars
    PROVE  BindingInv' /\ DatagramsReachOwner'
<1>1. CASE UNCHANGED <<bindings, bound, delivered>>
  BY <1>1 DEF BindingInv, PortOf, DatagramsReachOwner
<1>2. CASE \E p \in Ports, c \in Callbacks : udp_bind(p, c)
  <2>1. BindingInv'
    BY <1>2, BindKeeps
  <2> QED
    BY <1>2, <2>1 DEF udp_bind, DatagramsReachOwner
<1>3. CASE \E p \in Ports : udp_unbind(p)
  <2>1. BindingInv'
    BY <1>3, UnbindKeeps
  <2> QED
    BY <1>3, <2>1 DEF udp_unbind, DatagramsReachOwner
<1>4. CASE \E m \in wire, again \in BOOLEAN : udp_handle_packet(m, again)
  BY <1>4, DeliveryKeeps
<1>5. ASSUME NEW m \in wire, net_poll(m), ~ \E again \in BOOLEAN : udp_handle_packet(m, again)
      PROVE  UNCHANGED <<bindings, bound, delivered>>
  BY <1>5 DEF net_poll, Dropped, arp_handle_packet, MainSearches, icmp_handle_packet, EchoRequest,
     EchoReply, pastVars
<1>6. ASSUME ~ \E m \in wire : net_poll(m), ~ \E p \in Ports : udp_unbind(p),
             ~ \E p \in Ports, c \in Callbacks : udp_bind(p, c)
      PROVE  UNCHANGED <<bindings, bound, delivered>>
  BY <1>6 DEF Next, vars, netVars, pastVars, MainLearns, StoreIp, StoreMac, StoreInUse,
     shell_cmd_ping, PingSends, PingEnds, udp_send,
     NetLoses, NetCorrupts, HostAnswersArp, HostAnswersEcho, HostAsksArp, HostPings,
     HostSendsDatagram, HostSends
<1> QED
  BY <1>1, <1>2, <1>3, <1>4, <1>5, <1>6

-----------------------------------------------------------------------------
(* The pings *)

\* A new ping has a number that no earlier one had.
LEMMA PingBegins ==
    ASSUME PingInv, PingTellsTruth, NEW dest \in Hosts \cup {Me}, shell_cmd_ping(dest)
    PROVE  PingInv' /\ PingTellsTruth'
<1>1. PICK n \in 1 .. MaxPings :
        /\ result[n] = "not run" /\ result' = [result EXCEPT ![n] = "runs"]
        /\ ping' = [dest |-> dest, sequence |-> n, sent |-> FALSE, tries |-> 0]
  <2>1. PICK n \in 1 .. MaxPings :
          /\ result[n] = "not run" /\ result' = [result EXCEPT ![n] = "runs"]
          /\ ping' = [dest |-> dest, sequence |-> n % SequenceNumbers, sent |-> FALSE, tries |-> 0]
    BY DEF shell_cmd_ping
  <2>2. n % SequenceNumbers = n
    BY NetAssumption DEF SequenceNumbers
  <2> QED
    BY <2>1, <2>2
<1>2. UNCHANGED <<ping_state, answered, onWire, replied, known, refused>> /\ Asked' = Asked
  BY DEF shell_cmd_ping, Asked
<1>3. n \notin Asked /\ n \notin replied
  BY <1>1 DEF PingInv
<1>4. ping' \in Pings /\ ping'.sequence = n /\ ping'.sent = FALSE
  BY <1>1 DEF Pings
<1>5. result' \in [1 .. MaxPings -> Results] /\ result'[n] = "runs"
      /\ \A k \in (1 .. MaxPings) \ {n} : result'[k] = result[k]
  BY <1>1 DEF PingInv, Results
<1>6. PingInv'
  BY <1>2, <1>3, <1>4, <1>5 DEF PingInv
<1>7. PingTellsTruth'
  BY <1>2, <1>5 DEF PingTellsTruth
<1> QED
  BY <1>6, <1>7

\* Another try changes what is known of the request and the number of tries.
LEMMA TriedAgain ==
    ASSUME NEW p \in Pings, NEW b \in BOOLEAN
    PROVE  LET q == [p EXCEPT !.sent = b, !.tries = @ + 1]
           IN  q \in Pings /\ q.sequence = p.sequence /\ q.sent = b
<1> DEFINE q == [p EXCEPT !.sent = b, !.tries = @ + 1]
<1>1. p.tries + 1 \in Nat
  BY DEF Pings
<1>2. \A t \in Nat : [p EXCEPT !.sent = b, !.tries = t] \in Pings
  BY Zenon DEF Pings
<1>3. q \in Pings
  BY <1>1, <1>2
<1>4. q.sequence = p.sequence /\ q.sent = b
  BY DEF Pings
<1> QED
  BY <1>3, <1>4

\* icmp_send_echo_request() forgets whatever was received before.
LEMMA PingSendKeeps ==
    ASSUME PingInv, PingTellsTruth, NEW outcome \in Outcomes, PingSends(outcome)
    PROVE  PingInv' /\ PingTellsTruth'
<1> DEFINE acc == ip_accepts(ping.dest, outcome)
           new(sent) == [ping EXCEPT !.sent = sent, !.tries = @ + 1]
<1>1. /\ ping # None /\ ~ping.sent
      /\ ping \in Pings /\ result[ping.sequence] = "runs" /\ ping.sequence \notin Asked
      /\ ping.sequence \notin replied
  BY DEF PingSends, PingInv
<1>n. ping.sequence \in 1 .. MaxPings /\ ping.sequence \in Nat /\ ping.tries \in Nat
  BY <1>1, NetAssumption DEF Pings
<1>2. /\ ping_state' = [outstanding |-> TRUE, sequence |-> ping.sequence, reply_received |-> FALSE]
      /\ ping' = new(acc)
      /\ onWire' = IF acc THEN onWire \cup {<<ping.dest, ping.sequence>>} ELSE onWire
      /\ UNCHANGED <<result, answered, replied>>
      /\ known \subseteq known' /\ refused \subseteq refused'
      /\ known' \subseteq known \cup {ping.sequence}
      /\ ping.sequence \in known' /\ ~acc => ping.sequence \in known \/ ping.sequence \in refused'
  BY DEF PingSends, Noted, ip_accepts
<1>3. acc \in BOOLEAN
  BY DEF ip_accepts
<1> HIDE DEF acc
<1>4. ping' \in Pings /\ ping'.sequence = ping.sequence /\ ping'.sent = acc
  BY <1>1, <1>2, <1>3, TriedAgain
<1>5. Asked' = IF acc THEN Asked \cup {ping.sequence} ELSE Asked
  <2>1. CASE acc
    <3>1. onWire' = onWire \cup {<<ping.dest, ping.sequence>>}
      BY <1>2, <2>1
    <3>2. Asked' = Asked \cup {<<ping.dest, ping.sequence>>[2]}
      BY <3>1, Zenon DEF Asked
    <3> QED
      BY <2>1, <3>2
  <2>2. CASE ~acc
    BY <1>2, <2>2 DEF Asked
  <2> QED
    BY <2>1, <2>2
<1>6. /\ ping_state' \in [outstanding : BOOLEAN, sequence : Nat, reply_received : BOOLEAN]
      /\ ping_state'.outstanding /\ ping_state'.sequence = ping.sequence
      /\ ~ping_state'.reply_received
  BY <1>n, <1>2
<1>7. answered' \subseteq onWire' /\ known' \subseteq Asked' \cup refused'
  BY <1>2, <1>5 DEF PingInv
<1>8. \A n \in 1 .. MaxPings : n \in Asked' \/ n \in replied' => result'[n] # "not run"
  BY <1>1, <1>2, <1>5 DEF PingInv
<1>9. PingInv'
  <2>1. result' \in [1 .. MaxPings -> Results] /\ result'[ping'.sequence] = "runs"
    BY <1>1, <1>2, <1>4 DEF PingInv
  <2>2. ping'.sent <=> ping'.sequence \in Asked'
    BY <1>1, <1>4, <1>5
  <2>3. ping'.sequence \notin replied'
    BY <1>1, <1>2, <1>4
  <2> QED
    BY <1>4, <1>6, <1>7, <1>8, <2>1, <2>2, <2>3 DEF PingInv
<1>10. PingTellsTruth'
  BY <1>1, <1>2, <1>5 DEF PingTellsTruth
<1> QED
  BY <1>9, <1>10

\* The three ways a ping ends.
LEMMA PingEndKeeps ==
    ASSUME PingInv, PingTellsTruth, NEW what, PingEnds(what)
    PROVE  PingInv' /\ PingTellsTruth'
<1>1. /\ ping # None /\ ping \in Pings /\ ping.sequence \in 1 .. MaxPings
      /\ result \in [1 .. MaxPings -> Results]
  BY DEF PingEnds, PingInv, Pings
<1>2. /\ result' = [result EXCEPT ![ping.sequence] = what] /\ ping' = None
      /\ what \in Results \ {"not run", "runs"}
      /\ UNCHANGED <<ping_state, answered, onWire, replied, known, refused>> /\ Asked' = Asked
  BY DEF PingEnds, Results, Asked
<1>3. result' \in [1 .. MaxPings -> Results] /\ result'[ping.sequence] = what
      /\ \A k \in (1 .. MaxPings) \ {ping.sequence} : result'[k] = result[k]
  BY <1>1, <1>2
<1>4. PingInv'
  BY <1>1, <1>2, <1>3 DEF PingInv
<1>5. /\ what = "reply" => \E h \in Hosts : <<h, ping.sequence>> \in onWire \cap answered
      /\ what = "no reply" => ping.sequence \in Asked /\ ping.sequence \notin replied
      /\ what = "no address" => /\ ping.sequence \notin Asked
                                /\ ping.sequence \in known => ping.sequence \in refused
  <2>1. CASE what = "reply"
    <3>1. ping_state.reply_received /\ ping_state.sequence = ping.sequence
      BY <2>1 DEF PingEnds, ReplySeen
    <3>2. (\E h \in Hosts : <<h, ping.sequence>> \in answered) /\ answered \subseteq onWire
      BY <3>1 DEF PingInv
    <3> QED
      BY <2>1, <3>2
  <2>2. CASE what = "no reply"
    BY <1>1, <2>2 DEF PingEnds, PingInv
  <2>3. CASE what = "no address"
    BY <1>1, <2>3 DEF PingEnds, PingInv
  <2> QED
    BY <2>1, <2>2, <2>3
<1>6. PingTellsTruth'
  BY <1>2, <1>3, <1>5 DEF PingTellsTruth
<1> QED
  BY <1>4, <1>6

\* An echo reply counts only if it answers the pending request, and it is a host's.
LEMMA EchoReplyKeeps ==
    ASSUME WireInv, PingInv, PingTellsTruth, NEW m \in wire, NEW again, EchoReply(m, again)
    PROVE  PingInv' /\ PingTellsTruth'
<1> DEFINE hit == ping_state.outstanding /\ ping_state.sequence = m.data
<1>1. m.from \in Hosts /\ <<m.from, m.data>> \in answered
  BY DEF EchoReply, Handed, Mine, WireInv, Honest
<1>2. /\ ping_state' = [ping_state EXCEPT !.reply_received = ping_state.reply_received \/ hit]
      /\ replied' = IF ping # None /\ ping.sent /\ m.data = ping.sequence
                    THEN replied \cup {m.data} ELSE replied
      /\ UNCHANGED <<ping, result, answered, onWire, known, refused>> /\ Asked' = Asked
  BY DEF EchoReply, Asked
<1>3. ping_state \in [outstanding : BOOLEAN, sequence : Nat, reply_received : BOOLEAN]
  BY DEF PingInv
<1>4. /\ ping_state' \in [outstanding : BOOLEAN, sequence : Nat, reply_received : BOOLEAN]
      /\ ping_state'.outstanding = ping_state.outstanding
      /\ ping_state'.sequence = ping_state.sequence
      /\ ping_state'.reply_received = (ping_state.reply_received \/ hit)
  BY <1>2, <1>3
<1>5. ping_state'.reply_received => \E h \in Hosts : <<h, ping_state'.sequence>> \in answered'
  BY <1>1, <1>2, <1>4 DEF PingInv
<1>6. \A n \in 1 .. MaxPings : n \in Asked' \/ n \in replied' => result'[n] # "not run"
  BY <1>2 DEF PingInv
<1>7. ASSUME ping # None
      PROVE  /\ ping.sent => ping_state'.outstanding /\ ping_state'.sequence = ping.sequence
             /\ ping.sequence \in replied' => ping.sent /\ ReplySeen'
  <2>1. /\ ping.sent => ping_state.outstanding /\ ping_state.sequence = ping.sequence
        /\ ping.sequence \in replied => ping.sent /\ ReplySeen
    BY <1>7 DEF PingInv
  <2>2. ping.sequence \in replied => ReplySeen'
    BY <1>2, <1>4, <2>1 DEF ReplySeen
  <2>3. ping.sent /\ m.data = ping.sequence => ReplySeen'
    BY <1>2, <1>4, <2>1 DEF ReplySeen
  <2> QED
    BY <1>2, <1>4, <2>1, <2>2, <2>3
<1>8. PingInv'
  BY <1>2, <1>4, <1>5, <1>6, <1>7 DEF PingInv
<1>9. PingTellsTruth'
  BY <1>2 DEF PingTellsTruth, PingInv
<1> QED
  BY <1>8, <1>9

\* Nobody else touches the pending request; a host may answer more requests.
LEMMA PingStep ==
    ASSUME WireInv, PingInv, PingTellsTruth, [Next]_vars
    PROVE  PingInv' /\ PingTellsTruth'
<1>1. ASSUME UNCHANGED <<ping, ping_state, result, onWire, replied, known, refused>>,
             answered \subseteq answered', answered' \subseteq onWire
      PROVE  PingInv' /\ PingTellsTruth'
  <2>1. Asked' = Asked /\ ReplySeen' = ReplySeen
    BY <1>1 DEF Asked, ReplySeen
  <2>2. PingInv'
    BY <1>1, <2>1 DEF PingInv
  <2>3. PingTellsTruth'
    BY <1>1, <2>1 DEF PingTellsTruth
  <2> QED
    BY <2>2, <2>3
<1>a. answered \subseteq onWire
  BY DEF PingInv
<1>2. CASE UNCHANGED <<ping, ping_state, pastVars>>
  BY <1>1, <1>2, <1>a DEF pastVars
<1>3. ASSUME NEW m \in wire, net_poll(m) PROVE PingInv' /\ PingTellsTruth'
  <2>1. CASE \E again \in BOOLEAN : EchoReply(m, again)
    BY <2>1, EchoReplyKeeps
  <2>2. ASSUME ~ \E again \in BOOLEAN : EchoReply(m, again)
        PROVE  UNCHANGED <<ping, ping_state, result, onWire, replied, known, refused, answered>>
    BY <1>3, <2>2 DEF net_poll, Dropped, arp_handle_packet, MainSearches, icmp_handle_packet, EchoRequest,
       udp_handle_packet, pastVars
  <2> QED
    BY <1>1, <1>a, <2>1, <2>2
<1>4. ASSUME NEW m \in wire, HostAnswersEcho(m) PROVE PingInv' /\ PingTellsTruth'
  <2>1. <<m.to, m.data>> \in onWire
    BY <1>4 DEF HostAnswersEcho, WireInv, Honest
  <2>2. UNCHANGED <<ping, ping_state, result, onWire, replied, known, refused>>
        /\ answered' = answered \cup {<<m.to, m.data>>}
    BY <1>4 DEF HostAnswersEcho
  <2> QED
    BY <1>1, <1>a, <2>1, <2>2
<1>5. CASE \E dest \in Hosts \cup {Me} : shell_cmd_ping(dest)
  BY <1>5, PingBegins
<1>6. CASE \E outcome \in Outcomes : PingSends(outcome)
  BY <1>6, PingSendKeeps
<1>7. CASE \E what \in {"reply", "no reply", "no address"} : PingEnds(what)
  BY <1>7, PingEndKeeps
<1>8. CASE \E p \in Ports : udp_unbind(p) \/ \E c \in Callbacks : udp_bind(p, c)
  <2>1. UNCHANGED <<ping, ping_state, result, onWire, replied, known, refused, answered>>
    BY <1>8 DEF udp_unbind, udp_bind
  <2> QED
    BY <1>1, <1>a, <2>1
<1>9. ASSUME ~ \E m \in wire : net_poll(m) \/ HostAnswersEcho(m),
             ~ \E dest \in Hosts \cup {Me} : shell_cmd_ping(dest),
             ~ \E outcome \in Outcomes : PingSends(outcome),
             ~ \E what \in {"reply", "no reply", "no address"} : PingEnds(what),
             ~ \E p \in Ports : udp_unbind(p) \/ \E c \in Callbacks : udp_bind(p, c)
      PROVE  UNCHANGED <<ping, ping_state, pastVars>>
  BY <1>9 DEF Next, vars, netVars, MainLearns, StoreIp, StoreMac, StoreInUse, udp_send, NetLoses, NetCorrupts, HostAnswersArp, HostAsksArp,
     HostPings, HostSendsDatagram, HostSends
<1> QED
  BY <1>2, <1>3, <1>4, <1>5, <1>6, <1>7, <1>8, <1>9

-----------------------------------------------------------------------------
(* All together *)

\* At boot the tables are empty and nothing is on the wire.
LEMMA NetStart == Init => Inv
<1> SUFFICES ASSUME Init PROVE Inv
  OBVIOUS
<1>1. WireInv /\ ArpNamesOnce /\ LearnInv /\ BindingInv /\ DatagramsReachOwner
  BY DEF Init, WireInv, ArpNamesOnce, LearnInv, InUse, BindingInv, PortOf, DatagramsReachOwner
<1>c. CacheInv
  BY DEF Init, CacheInv, Entries
<1>2. Asked = {} /\ answered = {} /\ onWire = {} /\ replied = {} /\ known = {} /\ ping = None
      /\ ~ping_state.reply_received
  BY DEF Init, Asked
<1>3. result \in [1 .. MaxPings -> Results] /\ \A n \in 1 .. MaxPings : result[n] = "not run"
      /\ ping_state \in [outstanding : BOOLEAN, sequence : Nat, reply_received : BOOLEAN]
  BY DEF Init, Results
<1>4. PingInv
  <2>1. \A n \in 1 .. MaxPings : ~(n \in Asked \/ n \in replied)
    BY <1>2
  <2>2. answered \subseteq onWire /\ known \subseteq Asked \cup refused
    BY <1>2
  <2>3. result \in [1 .. MaxPings -> Results] /\ ~ping_state.reply_received /\ ~(ping # None)
    BY <1>2, <1>3
  <2>4. ping_state \in [outstanding : BOOLEAN, sequence : Nat, reply_received : BOOLEAN]
    BY DEF Init
  <2> QED
    BY <2>1, <2>2, <2>3, <2>4, Zenon DEF PingInv
<1>5. PingTellsTruth
  BY <1>3 DEF PingTellsTruth
<1> QED
  BY <1>1, <1>c, <1>4, <1>5 DEF Inv

\* Every step keeps the wire honest.
LEMMA WireStep == ASSUME WireInv, answered \subseteq onWire, [Next]_vars PROVE WireInv'
<1>1. ASSUME UNCHANGED <<wire, onWire, answered>> PROVE WireInv'
  BY <1>1 DEF WireInv, Honest
<1>2. CASE \E m \in wire : net_poll(m)
  BY <1>2, WeAnswer
<1>3. CASE \/ \E outcome \in Outcomes : PingSends(outcome)
           \/ \E dest \in Hosts, outcome \in Outcomes : udp_send(dest, outcome)
  BY <1>3, WeSend
<1>4. CASE \/ \E m \in wire : NetLoses(m) \/ NetCorrupts(m) \/ HostAnswersArp(m) \/ HostAnswersEcho(m)
           \/ HostAsksArp \/ HostPings \/ HostSendsDatagram
  BY <1>4, TheySend, NetAssumption
<1>6. CASE MainLearns
  BY <1>6, MainAnswers
<1>5. CASE \/ UNCHANGED vars
           \/ \E dest \in Hosts \cup {Me} : shell_cmd_ping(dest)
           \/ \E what \in {"reply", "no reply", "no address"} : PingEnds(what)
           \/ \E p \in Ports : udp_unbind(p) \/ \E c \in Callbacks : udp_bind(p, c)
  <2>1. UNCHANGED <<wire, onWire, answered>>
    BY <1>5 DEF vars, netVars, pastVars, shell_cmd_ping, PingEnds, udp_unbind, udp_bind
  <2> QED
    BY <1>1, <2>1
<1> QED
  BY <1>2, <1>3, <1>4, <1>5, <1>6 DEF Next

\* The invariant is inductive.
LEMMA NetStep == Inv /\ [Next]_vars => Inv'
<1> SUFFICES ASSUME Inv, [Next]_vars PROVE Inv'
  OBVIOUS
<1>1. /\ WireInv /\ CacheInv /\ LearnInv /\ ArpNamesOnce /\ BindingInv
      /\ DatagramsReachOwner /\ PingInv /\ PingTellsTruth /\ answered \subseteq onWire
  BY DEF Inv, PingInv
<1>2. WireInv'
  BY <1>1, WireStep
<1>3. CacheInv' /\ LearnInv' /\ ArpNamesOnce'
  BY <1>1, CacheStep
<1>4. BindingInv' /\ DatagramsReachOwner'
  BY <1>1, BindingStep
<1>5. PingInv' /\ PingTellsTruth'
  BY <1>1, PingStep
<1> QED
  BY <1>2, <1>3, <1>4, <1>5 DEF Inv

(* With any number of hosts and a cache of any size, however frames are lost,
   repeated and reordered and wherever pings cut off the main loop's cache_learn(),
   the cache names an address once and rightly until a ping stores another address
   into the slot the main loop had picked. *)
THEOREM CacheIsSound == Spec => []ArpNamesOnce
<1>1. Inv => ArpNamesOnce
  BY DEF Inv
<1> QED
  BY <1>1, NetStart, NetStep, PTL DEF Spec

(* With any number of ports and binding slots, a datagram goes to the callback that
   was bound to its port last. *)
THEOREM DatagramsDelivered == Spec => []DatagramsReachOwner
<1>1. Inv => DatagramsReachOwner
  BY DEF Inv
<1> QED
  BY <1>1, NetStart, NetStep, PTL DEF Spec

(* With any number of hosts, tries and frames in flight, and as many pings as
   ping_sequence has numbers, a ping that prints "reply received" was answered, one
   that reports a timeout after sending saw no reply, and one that reports no address
   sent nothing, its next hop unknown or the card refusing at every try. *)
THEOREM PingIsTruthful == Spec => []PingTellsTruth
<1>1. Inv => PingTellsTruth
  BY DEF Inv
<1> QED
  BY <1>1, NetStart, NetStep, PTL DEF Spec
=============================================================================
