-------------------------------- MODULE Net ---------------------------------
(***************************************************************************)
(* The network stack above the card: src/kernel/ethernet.c, arp.c, ip.c,   *)
(* icmp.c, udp.c and net.c, and the `ping` command of src/shell/shell.c.   *)
(* A ping runs in the keyboard interrupt, to its end: the net_poll() in it *)
(* handles a frame in one action.  The main loop's net_poll() runs with    *)
(* interrupts on, and a ping can begin inside it: there cache_learn(),     *)
(* which writes what a ping writes too, goes store by store.  The main     *)
(* loop's other handlers take one action: they leave nothing behind but a  *)
(* frame, or a flag that icmp_send_echo_request() resets.                  *)
(*                                                                         *)
(* A host's hardware address is modelled by the host.  The network loses,  *)
(* reorders, duplicates and corrupts frames; the hosts on the link answer  *)
(* ARP requests and echo requests truthfully, and a distant host is        *)
(* reached through the gateway.                                            *)
(***************************************************************************)
EXTENDS Naturals, FiniteSets, Least

CONSTANTS
    Me,                 \* local_ip
    Gateway,            \* gateway_ip
    LinkHosts,          \* the hosts whose address matches under subnet_mask
    FarHosts,           \* hosts beyond the gateway
    CacheSize,          \* ARP_CACHE_SIZE
    Ports, Callbacks,   \* what udp_bind() is called with
    MaxBindings,        \* UDP_MAX_BINDINGS
    MaxTries,           \* PING_MAX_ITERATIONS / PING_ARP_RETRY_EVERY
    MaxPings,           \* bound: ping commands
    MaxOps,             \* bound: commands, calls and unasked-for frames
    MaxInFlight,        \* bound: frames on the wire
    None

Hosts == LinkHosts \cup FarHosts
Everyone == "broadcast"
SequenceNumbers == 65536        \* ping_sequence is a uint16_t

\* What the main loop's cache_learn() has in hand.
Learnings == [ip : LinkHosts, mac : LinkHosts, slot : 1 .. CacheSize,
              at : {"ip", "mac", "in_use"}, answers : BOOLEAN]

ASSUME NetAssumption ==
    /\ Gateway \in LinkHosts /\ Me \notin Hosts /\ LinkHosts \cap FarHosts = {}
    /\ None \notin Ports \cup Learnings
    /\ CacheSize \in Nat \ {0} /\ MaxBindings \in Nat /\ MaxTries \in Nat
    /\ MaxPings \in 0 .. SequenceNumbers - 1 /\ MaxOps \in Nat /\ MaxInFlight \in Nat

VARIABLES
    cache,              \* the ARP cache: slot -> [ip, mac, in_use]
    learning,           \* the main loop's cache_learn() under way: what it has yet to store
    bindings,           \* slot -> [port, callback] or None
    ping_state,         \* outstanding, sequence, reply_received
    ping,               \* the command under way: destination, sequence, sent, tries
    wire,               \* the frames in flight, in both directions
    ops,
    result,             \* history: what each ping printed
    answered,           \* history: the echo requests a host has answered
    onWire,             \* history: the echo requests handed to the card
    replied,            \* history: the pings whose reply was handled while they ran
    known,              \* history: the pings that tried with the next hop in the cache
    refused,            \* history: those of them that the card refused a frame
    raced,              \* history: a ping stored into the slot the main loop was storing to
    bound,              \* history: the callback last bound to each port
    delivered           \* history: the last callback call

netVars == <<cache, learning, bindings, ping_state, ping, wire, ops>>
pastVars == <<result, answered, onWire, replied, known, refused, raced, bound, delivered>>
vars == <<netVars, pastVars>>

Init ==
    /\ cache = [i \in 1 .. CacheSize |-> [ip |-> None, mac |-> None, in_use |-> FALSE]]
    /\ learning = None
    /\ bindings = [i \in 1 .. MaxBindings |-> None]
    /\ ping_state = [outstanding |-> FALSE, sequence |-> 0, reply_received |-> FALSE]
    /\ ping = None /\ wire = {} /\ ops = 0
    /\ result = [n \in 1 .. MaxPings |-> "not run"]
    /\ answered = {} /\ onWire = {} /\ replied = {}
    /\ known = {} /\ refused = {} /\ raced = FALSE
    /\ bound = [p \in Ports |-> None] /\ delivered = None

-----------------------------------------------------------------------------
(* Frames: their kind, the address on the Ethernet header, sender and target of
   the ARP or IP packet, and what it carries. *)
Frame(kind, mac, from, to, data) ==
    [kind |-> kind, from |-> from, to |-> to, mac |-> mac, data |-> data, intact |-> TRUE]

\* eth_send(): a frame goes out, or is lost on the way, or the card refuses it.  A
\* frame of ours that asks for no answer is of no further interest.
Outcomes == {"goes out", "lost", "refused"}
Travels(f, outcome) ==
    outcome = "goes out" /\ (f.from = Me => f.kind \in {"arp request", "echo request"})
eth_send(f, outcome) ==
    /\ Travels(f, outcome) => Cardinality(wire \cup {f}) <= MaxInFlight
    /\ wire' = IF Travels(f, outcome) THEN wire \cup {f} ELSE wire

\* A frame that was in flight is handled, and perhaps arrives once more.
eth_answer(m, f, outcome, again) ==
    LET rest == IF again THEN wire ELSE wire \ {m} IN
    /\ Travels(f, outcome) => Cardinality(rest \cup {f}) <= MaxInFlight
    /\ wire' = IF Travels(f, outcome) THEN rest \cup {f} ELSE rest

-----------------------------------------------------------------------------
(* arp.c *)

InUse(i) == cache[i].in_use
SlotsOf(ip) == {i \in DOMAIN cache : InUse(i) /\ cache[i].ip = ip}
FreeSlots == {i \in DOMAIN cache : ~InUse(i)}

\* cache_learn() takes the entry of this address, else a free one, else the first.
LearnSlot_freeFirst(ip) ==
    IF FreeSlots # {} THEN Lowest(FreeSlots)
    ELSE IF SlotsOf(ip) # {} THEN Lowest(SlotsOf(ip)) ELSE 1
LearnSlot(ip) ==
    IF SlotsOf(ip) # {} THEN Lowest(SlotsOf(ip))
    ELSE IF FreeSlots # {} THEN Lowest(FreeSlots) ELSE 1

\* Called by a ping, it is not interrupted.
cache_learn(ip, mac) ==
    cache' = [cache EXCEPT ![LearnSlot(ip)] = [ip |-> ip, mac |-> mac, in_use |-> TRUE]]

\* arp_resolve(): the set holds the hardware address, or nothing.
arp_resolve(ip) ==
    IF SlotsOf(ip) = {} THEN {} ELSE {cache[Lowest(SlotsOf(ip))].mac}

arp_request(target) == Frame("arp request", Everyone, Me, target, None)

-----------------------------------------------------------------------------
(* ip.c *)

resolve_next_hop(dest) == IF dest \in LinkHosts \cup {Me} THEN dest ELSE Gateway

\* What ip_send() puts on the wire, and whether it returns 1: with an unknown next
\* hop it is an ARP request, and the packet is gone.
ip_frame(kind, dest, data) ==
    LET hop == resolve_next_hop(dest) IN
    IF arp_resolve(hop) = {} THEN arp_request(hop)
    ELSE Frame(kind, CHOOSE mac \in arp_resolve(hop) : TRUE, Me, dest, data)
ip_accepts(dest, outcome) ==
    arp_resolve(resolve_next_hop(dest)) # {} /\ outcome # "refused"

-----------------------------------------------------------------------------
(* icmp.c and the ping command, which increments ping_sequence. *)

shell_cmd_ping(dest) ==
    /\ ping = None /\ ops < MaxOps /\ ops' = ops + 1
    /\ \E n \in 1 .. MaxPings :
          /\ result[n] = "not run" /\ \A k \in 1 .. (n - 1) : result[k] # "not run"
          /\ result' = [result EXCEPT ![n] = "runs"]
          /\ ping' = [dest |-> dest, sequence |-> n % SequenceNumbers, sent |-> FALSE,
                      tries |-> 0]
    /\ UNCHANGED <<cache, learning, bindings, ping_state, wire, answered, onWire, replied,
                   known, refused, raced, bound, delivered>>

\* What a try shows of its ping: its next hop's address was known, the card refused.
Noted(outcome) ==
    LET now == IF arp_resolve(resolve_next_hop(ping.dest)) # {} THEN {ping.sequence} ELSE {} IN
    /\ known' = known \cup now
    /\ refused' = IF outcome = "refused" THEN refused \cup now ELSE refused

\* icmp_send_echo_request(): the state is reset before ip_send() is tried.  The
\* ping repeats it until it is accepted once.
PingSends_again(outcome) ==
    /\ ping # None /\ ping.tries < MaxTries
    /\ ping_state' = [outstanding |-> TRUE, sequence |-> ping.sequence,
                      reply_received |-> FALSE]
    /\ eth_send(ip_frame("echo request", ping.dest, ping.sequence), outcome)
    /\ ping' = [ping EXCEPT !.sent = @ \/ ip_accepts(ping.dest, outcome), !.tries = @ + 1]
    /\ onWire' = IF ip_accepts(ping.dest, outcome) THEN onWire \cup {<<ping.dest, ping.sequence>>}
                 ELSE onWire
    /\ Noted(outcome)
    /\ UNCHANGED <<cache, learning, bindings, ops, result, answered, replied, raced, bound,
                   delivered>>
PingSends(outcome) ==
    /\ ping # None /\ ~ping.sent /\ ping.tries < MaxTries
    /\ ping_state' = [outstanding |-> TRUE, sequence |-> ping.sequence,
                      reply_received |-> FALSE]
    /\ eth_send(ip_frame("echo request", ping.dest, ping.sequence), outcome)
    /\ ping' = [ping EXCEPT !.sent = ip_accepts(ping.dest, outcome), !.tries = @ + 1]
    /\ onWire' = IF ip_accepts(ping.dest, outcome) THEN onWire \cup {<<ping.dest, ping.sequence>>}
                 ELSE onWire
    /\ Noted(outcome)
    /\ UNCHANGED <<cache, learning, bindings, ops, result, answered, replied, raced, bound,
                   delivered>>

\* icmp_reply_received()
ReplySeen == ping_state.reply_received /\ ping_state.sequence = ping.sequence

\* The loop ends with a reply, or when its iterations are used up.
PingEnds(what) ==
    /\ ping # None
    /\ \/ what = "reply" /\ ping.sent /\ ReplySeen
       \/ what = "no reply" /\ ping.sent /\ ~ReplySeen
       \/ what = "no address" /\ ~ping.sent
    /\ result' = [result EXCEPT ![ping.sequence] = what] /\ ping' = None
    /\ UNCHANGED <<cache, learning, bindings, ping_state, wire, ops, answered, onWire, replied,
                   known, refused, raced, bound, delivered>>

-----------------------------------------------------------------------------
(* udp.c *)

PortOf(i) == IF bindings[i] = None THEN None ELSE bindings[i].port
BoundTo(port) == {i \in DOMAIN bindings : PortOf(i) = port}
FreeBindings == {i \in DOMAIN bindings : bindings[i] = None}

udp_bind_noReplace(port, callback) ==
    /\ ops < MaxOps /\ ops' = ops + 1 /\ FreeBindings # {}
    /\ bindings' = [bindings EXCEPT ![Lowest(FreeBindings)] =
                       [port |-> port, callback |-> callback]]
    /\ bound' = [bound EXCEPT ![port] = callback]
    /\ UNCHANGED <<cache, learning, ping_state, ping, wire, result, answered, onWire, replied, known,
                   refused, raced, delivered>>
udp_bind(port, callback) ==
    /\ ops < MaxOps /\ ops' = ops + 1
    /\ LET slots == IF BoundTo(port) # {} THEN BoundTo(port) ELSE FreeBindings IN
       /\ slots # {}            \* otherwise udp_bind() returns 0
       /\ bindings' = [bindings EXCEPT ![Lowest(slots)] =
                          [port |-> port, callback |-> callback]]
    /\ bound' = [bound EXCEPT ![port] = callback]
    /\ UNCHANGED <<cache, learning, ping_state, ping, wire, result, answered, onWire, replied, known,
                   refused, raced, delivered>>

udp_unbind(port) ==
    /\ ops < MaxOps /\ ops' = ops + 1 /\ BoundTo(port) # {}
    /\ bindings' = [i \in DOMAIN bindings |->
                       IF PortOf(i) = port THEN None ELSE bindings[i]]
    /\ bound' = [bound EXCEPT ![port] = None]
    /\ UNCHANGED <<cache, learning, ping_state, ping, wire, result, answered, onWire, replied, known,
                   refused, raced, delivered>>

\* A datagram carries a port, may be longer than UDP_MAX_PAYLOAD, and may have no
\* checksum.
Datagrams == [port : Ports, oversized : BOOLEAN, summed : BOOLEAN]

\* (A datagram of ours; of one that is too long nothing is sent.)
udp_send(dest, outcome) ==
    /\ ops < MaxOps /\ ops' = ops + 1
    /\ eth_send(ip_frame("udp", dest, None), outcome)
    /\ UNCHANGED <<cache, learning, bindings, ping_state, ping, pastVars>>

-----------------------------------------------------------------------------
(* What is received: net_poll(), eth_handle_frame() and the handlers. *)

\* A frame for this machine, taken by a ping, or by the main loop when it has done
\* with the one before.
Mine(m) ==
    /\ m \in wire /\ m.from # Me /\ m.mac \in {Me, Everyone}
    /\ ping # None \/ learning = None

\* arp_handle_packet() learns from whatever it sees and answers what is for us.
IsArp(m) == Mine(m) /\ m.kind \in {"arp request", "arp reply"}
ForUs(m) == m.kind = "arp request" /\ m.to = Me
ArpReply(ip, mac) == Frame("arp reply", mac, Me, ip, Me)

\* In a ping, where it may be the main loop's slot that is stored to.
arp_handle_packet(m, outcome, again) ==
    /\ IsArp(m) /\ ping # None
    /\ cache_learn(m.from, m.data)
    /\ raced' = (raced \/ (/\ learning # None /\ m.from # learning.ip
                          /\ LearnSlot(m.from) = learning.slot))
    /\ IF ForUs(m) THEN eth_answer(m, ArpReply(m.from, m.data), outcome, again)
       ELSE eth_answer(m, m, "lost", again)
    /\ UNCHANGED <<learning, bindings, ping_state, ping, ops, result, answered, onWire, replied,
                   known, refused, bound, delivered>>

\* In the main loop: the search, which picks the slot; then the stores.
MainSearches(m, again) ==
    /\ IsArp(m) /\ ping = None
    /\ learning' = [ip |-> m.from, mac |-> m.data, slot |-> LearnSlot(m.from),
                    at |-> IF SlotsOf(m.from) # {} THEN "mac" ELSE "ip", answers |-> ForUs(m)]
    /\ eth_answer(m, m, "lost", again)
    /\ UNCHANGED <<cache, bindings, ping_state, ping, ops, pastVars>>

MainAt(at) == ping = None /\ learning # None /\ learning.at = at

StoreIp ==
    /\ MainAt("ip")
    /\ cache' = [cache EXCEPT ![learning.slot].ip = learning.ip]
    /\ learning' = [learning EXCEPT !.at = "mac"]
    /\ UNCHANGED <<bindings, ping_state, ping, wire, ops, pastVars>>

\* (An address copied by half is no more the host's than the one before.)
StoreMac ==
    /\ MainAt("mac")
    /\ cache' = [cache EXCEPT ![learning.slot].mac = learning.mac]
    /\ learning' = [learning EXCEPT !.at = "in_use"]
    /\ UNCHANGED <<bindings, ping_state, ping, wire, ops, pastVars>>

\* cache_learn() ends (an entry that was found is in use already), and the answer.
StoreInUse(outcome) ==
    /\ MainAt("in_use")
    /\ cache' = [cache EXCEPT ![learning.slot].in_use = TRUE]
    /\ learning' = None
    /\ IF learning.answers THEN eth_send(ArpReply(learning.ip, learning.mac), outcome)
       ELSE UNCHANGED wire
    /\ UNCHANGED <<bindings, ping_state, ping, ops, pastVars>>

MainLearns == StoreIp \/ StoreMac \/ \E outcome \in Outcomes : StoreInUse(outcome)

\* ip_handle_packet() hands on what is whole and addressed to us; a checksum finds
\* a corrupted packet.
Handed(m, kind) == Mine(m) /\ m.kind = kind /\ m.to = Me

EchoRequest(m, outcome, again) ==
    /\ Handed(m, "echo request") /\ m.intact
    /\ eth_answer(m, ip_frame("echo reply", m.from, m.data), outcome, again)
    /\ UNCHANGED <<cache, learning, bindings, ping_state, ping, ops, pastVars>>

EchoReply(m, again) ==
    /\ Handed(m, "echo reply") /\ m.intact
    /\ ping_state' = [ping_state EXCEPT !.reply_received =
                         @ \/ (ping_state.outstanding /\ ping_state.sequence = m.data)]
    /\ replied' = IF ping # None /\ ping.sent /\ m.data = ping.sequence
                  THEN replied \cup {m.data} ELSE replied
    /\ eth_answer(m, m, "lost", again)
    /\ UNCHANGED <<cache, learning, bindings, ping, ops, result, answered, onWire, known, refused,
                   raced, bound, delivered>>

icmp_handle_packet(m, outcome, again) == EchoRequest(m, outcome, again) \/ EchoReply(m, again)

udp_handle_packet(m, again) ==
    /\ Handed(m, "udp") /\ ~m.data.oversized /\ (m.data.summed => m.intact)
    /\ LET slots == BoundTo(m.data.port) IN
       delivered' = IF slots = {} THEN delivered
                    ELSE [callback |-> bindings[Lowest(slots)].callback,
                          expected |-> bound[m.data.port]]
    /\ eth_answer(m, m, "lost", again)
    /\ UNCHANGED <<cache, learning, bindings, ping_state, ping, ops, result, answered, onWire,
                   replied, known, refused, raced, bound>>

\* Everything else is dropped by one of the handlers' checks.
Dropped(m) ==
    /\ Mine(m) /\ m.kind \in {"echo request", "echo reply", "udp"}
    /\ \/ m.to # Me
       \/ m.kind # "udp" /\ ~m.intact
       \/ m.kind = "udp" /\ (m.data.oversized \/ (m.data.summed /\ ~m.intact))
    /\ wire' = wire \ {m}
    /\ UNCHANGED <<cache, learning, bindings, ping_state, ping, ops, pastVars>>

net_poll(m) ==
    \/ Dropped(m)
    \/ \E again \in BOOLEAN :
          \/ udp_handle_packet(m, again) \/ MainSearches(m, again)
          \/ \E outcome \in Outcomes : \/ arp_handle_packet(m, outcome, again)
                                       \/ icmp_handle_packet(m, outcome, again)

-----------------------------------------------------------------------------
(* The network and the hosts. *)

NetLoses(m) == wire' = wire \ {m} /\ UNCHANGED <<cache, learning, bindings, ping_state, ping, ops, pastVars>>

Corrupted(m) == [Frame(m.kind, m.mac, m.from, m.to, m.data) EXCEPT !.intact = FALSE]

\* (A host drops a frame of ours that is corrupted: it is lost.)
NetCorrupts(m) ==
    /\ m.kind \notin {"arp request", "arp reply"} /\ m.intact /\ m.from # Me
    /\ wire' = (wire \ {m}) \cup {Corrupted(m)}
    /\ UNCHANGED <<cache, learning, bindings, ping_state, ping, ops, pastVars>>

\* A host answers a request that reached it: its own Ethernet address, or the
\* gateway's for a distant one.
HostAnswersArp(m) ==
    /\ m.kind = "arp request" /\ m.from = Me /\ m.to \in LinkHosts
    /\ eth_answer(m, Frame("arp reply", Me, m.to, Me, m.to), "goes out", FALSE)
    /\ UNCHANGED <<cache, learning, bindings, ping_state, ping, ops, pastVars>>

HostAnswersEcho(m) ==
    /\ m.kind = "echo request" /\ m.from = Me /\ m.intact /\ m.to \in Hosts
    /\ m.mac = IF m.to \in LinkHosts THEN m.to ELSE Gateway
    /\ eth_answer(m, Frame("echo reply", Me, m.to, Me, m.data), "goes out", FALSE)
    /\ answered' = answered \cup {<<m.to, m.data>>}
    /\ UNCHANGED <<cache, learning, bindings, ping_state, ping, ops, result, onWire, replied, known,
                   refused, raced, bound, delivered>>

\* A host sends something of its own accord.
HostSends(f) ==
    /\ ops < MaxOps /\ ops' = ops + 1
    /\ eth_send(f, "goes out")
    /\ UNCHANGED <<cache, learning, bindings, ping_state, ping, pastVars>>

\* It asks for our address, or for one that is not ours.
HostAsksArp == \E h \in LinkHosts, to \in {Me, None} :
                  HostSends(Frame("arp request", Everyone, h, to, h))
HostPings == \E h \in Hosts : HostSends(Frame("echo request", Me, h, Me, 0))
\* (The sender of a datagram is only passed on to the callback.)
HostSendsDatagram == \E d \in Datagrams : HostSends(Frame("udp", Me, Gateway, Me, d))

Next ==
    \/ \E dest \in Hosts \cup {Me} : shell_cmd_ping(dest)
    \/ \E outcome \in Outcomes : PingSends(outcome)
    \/ \E what \in {"reply", "no reply", "no address"} : PingEnds(what)
    \/ \E p \in Ports : udp_unbind(p) \/ \E c \in Callbacks : udp_bind(p, c)
    \/ \E dest \in Hosts, outcome \in Outcomes : udp_send(dest, outcome)
    \/ \E m \in wire : \/ net_poll(m) \/ NetLoses(m) \/ NetCorrupts(m)
                       \/ HostAnswersArp(m) \/ HostAnswersEcho(m)
    \/ MainLearns
    \/ HostAsksArp \/ HostPings \/ HostSendsDatagram

Spec == Init /\ [][Next]_vars

-----------------------------------------------------------------------------
Asked == {r[2] : r \in onWire}
Pings == [dest : Hosts \cup {Me}, sequence : 1 .. MaxPings, sent : BOOLEAN, tries : Nat]
Results == {"not run", "runs", "reply", "no reply", "no address"}

\* What a frame on the wire says is so, unless this machine sent it.
Honest(m) ==
    /\ m.kind \in {"arp request", "arp reply"} /\ m.from # Me =>
          m.from \in LinkHosts /\ m.data = m.from
    /\ m.kind = "echo request" /\ m.from = Me => <<m.to, m.data>> \in onWire
    /\ m.kind = "echo reply" /\ m.from # Me => m.from \in Hosts /\ <<m.from, m.data>> \in answered
    /\ m.kind = "udp" /\ m.from # Me => m.data \in Datagrams
WireInv == \A m \in wire : Honest(m)

\* The main loop's cache_learn() cut off: nothing but its slot has its address, and it
\* is the slot that a ping learning the same address would take.
LearnInv ==
    learning # None =>
        LET slot == learning.slot
            ip == learning.ip
        IN  /\ learning \in Learnings /\ learning.mac = ip
            /\ ~raced => /\ \A j \in DOMAIN cache : InUse(j) /\ cache[j].ip = ip => j = slot
                         /\ learning.at # "ip" => cache[slot].ip = ip
                         /\ learning.at = "in_use" => cache[slot].mac = ip
                         /\ \/ InUse(slot) /\ cache[slot].ip = ip
                            \/ ~InUse(slot) /\ \A j \in 1 .. (slot - 1) : InUse(j)
                            \/ slot = 1 /\ FreeSlots = {}

\* The slots of the cache.
Entries == [ip : LinkHosts \cup {None}, mac : LinkHosts \cup {None}, in_use : BOOLEAN]
CacheInv == cache \in [1 .. CacheSize -> Entries]

\* A port is bound once, to the callback bound last.
BindingInv ==
    /\ DOMAIN bindings = 1 .. MaxBindings /\ DOMAIN bound = Ports
    /\ \A i, j \in 1 .. MaxBindings : PortOf(i) = PortOf(j) => i = j \/ PortOf(i) = None
    /\ \A i \in 1 .. MaxBindings : bindings[i] # None =>
          bindings[i].port \in Ports /\ bound[bindings[i].port] = bindings[i].callback

\* A ping under way against icmp.c's one pending echo request.
PingInv ==
    /\ result \in [1 .. MaxPings -> Results]
    /\ ping_state \in [outstanding : BOOLEAN, sequence : Nat, reply_received : BOOLEAN]
    /\ answered \subseteq onWire /\ known \subseteq Asked \cup refused
    /\ \A n \in 1 .. MaxPings : n \in Asked \/ n \in replied => result[n] # "not run"
    /\ ping_state.reply_received => \E h \in Hosts : <<h, ping_state.sequence>> \in answered
    /\ ping # None =>
          /\ ping \in Pings /\ result[ping.sequence] = "runs"
          /\ ping.sent <=> ping.sequence \in Asked
          /\ ping.sent => ping_state.outstanding /\ ping_state.sequence = ping.sequence
          /\ ping.sequence \in replied => ping.sent /\ ReplySeen

(* What the ping command prints, and what it can be relied on for: "reply received"
   only if a host answered this very request; a timeout after sending only if no reply
   to it was handled while it ran; "MAC never resolved" only if no request left, and
   none did because at every try the next hop was unknown or the card refused the
   frame (in which case the words are wrong: the address was there).  Late replies to
   earlier pings, and retries, do not mix this up. *)
PingTellsTruth ==
    \A n \in 1 .. MaxPings :
        /\ result[n] = "reply" => \E h \in Hosts : <<h, n>> \in onWire \cap answered
        /\ result[n] = "no reply" => n \in Asked /\ n \notin replied
        /\ result[n] = "no address" => n \notin Asked /\ (n \in known => n \in refused)

(* The ARP cache names an address once, with the hardware address its host gave,
   through updates, through overwriting when it is full, and although pings learn
   while the main loop's cache_learn() is cut off between its search and its stores.
   Two exceptions are the code's: the slot whose hardware address is yet to be stored,
   and a cache in which a ping has stored another address into the slot the main loop
   had picked. *)
ArpNamesOnce ==
    ~raced => \A i \in DOMAIN cache : InUse(i) =>
        /\ SlotsOf(cache[i].ip) = {i}
        /\ \/ cache[i].mac = cache[i].ip
           \/ learning # None /\ learning.at = "mac" /\ learning.slot = i

(* Datagrams reach the callback bound last to their port, and only that one. *)
DatagramsReachOwner ==
    delivered # None => delivered.callback = delivered.expected
=============================================================================
