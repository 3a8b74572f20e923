------------------------------- MODULE Rtl8139 ------------------------------
(***************************************************************************)
(* The network card driver of src/kernel/rtl8139.c under net_poll() of     *)
(* src/kernel/net.c: the ring the card writes received packets into, and   *)
(* the transmit descriptors.                                               *)
(*                                                                         *)
(* net_poll() is called by the kernel's main loop with interrupts on, and  *)
(* by the `ping` command, which runs inside the keyboard interrupt.  So a  *)
(* ping can begin between any two steps of the main loop's net_poll(), and *)
(* the main loop stands still until it is over.  The build does not        *)
(* optimise: every mention of rx_offset in the source is a fresh read.     *)
(* A copy loop is one step, and so is the whole rtl8139_send() of a ping,  *)
(* beside which only the card runs.                                        *)
(*                                                                         *)
(* Offsets and lengths are in bytes.  A packet is a 4-byte header, then    *)
(* packet_length bytes that end in a 4-byte checksum, rounded up to 4.     *)
(* Memory is modelled in 4-byte words: a word is the header of packet id   *)
(* (part 0), the part-th word of its data, or zero.                        *)
(***************************************************************************)
EXTENDS Integers, Sequences, FiniteSets

CONSTANTS
    RingLen,            \* RX_BUFFER_LEN
    Padding,            \* RX_BUFFER_PADDING
    Lengths,            \* the packet lengths that occur, checksum included
    MaxLength,          \* ETH_MAX_FRAME + 4
    PerCall,            \* NET_POLL_MAX_FRAMES_PER_CALL
    TxSlots,            \* TX_DESCRIPTOR_COUNT
    MaxPackets,         \* bound: packets that arrive
    MaxPings,           \* bound: ping commands
    MaxSends            \* bound: calls of rtl8139_send()

Words == 0 .. ((RingLen + Padding) \div 4 - 1)
Align(n) == 4 * ((n + 3) \div 4)
Occupies(length) == Align(4 + length)
RegWidth == 65536       \* CAPR is a 16-bit register

\* A packet carries more than its checksum.
ASSUME Rtl8139Assumption ==
    /\ RingLen \in Nat \ {0} /\ RingLen % 4 = 0 /\ Padding \in Nat /\ Padding % 4 = 0
    /\ RegWidth % RingLen = 0
    /\ Lengths \subseteq Nat
    /\ \A n \in Lengths : n > 4 /\ Occupies(n) < RingLen /\ Occupies(n) <= Padding + 4
    /\ MaxLength \in Nat /\ PerCall \in Nat \ {0} /\ TxSlots \in Nat \ {0}
    /\ MaxPackets \in Nat /\ MaxPings \in Nat /\ MaxSends \in Nat

Contexts == {"main", "irq"}

VARIABLES
    present,            \* the card was found and reset
    rx_buffer,          \* the ring's memory
    rx_offset,
    cbr, capr,          \* the card: where it writes next, and register CAPR
    arrived,            \* history: the lengths of the packets it has stored
    pc,                 \* where each context stands in net_poll()
    packet_length,      \* locals of rtl8139_poll_receive() and net_poll()
    next_offset,
    frame,
    polled,
    handled,            \* history: the frames given to eth_handle_frame()
    overlapped,         \* history: a ping received while a receive was under way
    pings,
    tx_next,
    own,                \* OWN bit of each transmit descriptor
    tx_buffer,          \* the frame in each descriptor's buffer
    tx_slot, tx_after,  \* the main loop in rtl8139_send(): its slot, what it makes
    tx_frame,           \* of tx_next, and its frame
    sends,              \* calls of rtl8139_send(): frames are numbered by them
    accepted, wire,     \* history: frames whose send returned 1, frames transmitted
    circled             \* history: a ping sent through the main loop's slot after
                        \* the main loop had found it free

rxVars == <<present, rx_buffer, rx_offset, cbr, capr, arrived, pc, packet_length,
            next_offset, frame, polled, handled, overlapped, pings>>
txVars == <<tx_next, own, tx_buffer, tx_slot, tx_after, tx_frame, sends, accepted, wire,
            circled>>
rtlVars == <<rxVars, txVars>>

TxSlot == 0 .. (TxSlots - 1)
Zero == [id |-> 0, part |-> 0]

RtlInit ==
    /\ present \in BOOLEAN          \* rtl8139_init() finds a card that resets, or not
    /\ rx_buffer = [w \in Words |-> Zero] /\ rx_offset = 0
    /\ cbr = 0 /\ capr = RegWidth - 16
    /\ arrived = <<>>
    /\ pc = [c \in Contexts |-> "out"]
    /\ packet_length = [c \in Contexts |-> 0] /\ next_offset = [c \in Contexts |-> 0]
    /\ frame = [c \in Contexts |-> <<>>] /\ polled = [c \in Contexts |-> 0]
    /\ handled = <<>> /\ overlapped = FALSE /\ pings = 0
    /\ tx_next = 0 /\ own = [s \in TxSlot |-> TRUE]
    /\ tx_buffer = [s \in TxSlot |-> 0] /\ tx_slot = 0 /\ tx_after = 0 /\ tx_frame = 0
    /\ sends = 0 /\ accepted = {} /\ wire = {} /\ circled = FALSE

-----------------------------------------------------------------------------
(* The card. *)

\* Where the card thinks the driver reads; BUFE when it has caught up.
ReadPointer == (capr + 16) % RingLen
BufferEmpty == cbr = ReadPointer
Unread == (cbr - ReadPointer) % RingLen

\* A packet arrives and is stored, contiguously even across the end of the ring
\* (WRAP); without room for it the card drops it.
PacketArrives(length) ==
    /\ present /\ ~overlapped /\ Len(arrived) < MaxPackets
    /\ Occupies(length) < RingLen - Unread
    /\ LET id == Len(arrived) + 1
           first == cbr \div 4
           last == first + Occupies(length) \div 4 - 1
       IN  rx_buffer' = [w \in Words |-> IF w \in first .. last
                                         THEN [id |-> id, part |-> w - first]
                                         ELSE rx_buffer[w]]
    /\ arrived' = Append(arrived, length)
    /\ cbr' = (cbr + Occupies(length)) % RingLen
    /\ UNCHANGED <<present, rx_offset, capr, pc, packet_length, next_offset, frame, polled,
                   handled, overlapped, pings, txVars>>

\* The card has transmitted a descriptor.
TransmitDone(s) ==
    /\ ~own[s]
    /\ own' = [own EXCEPT ![s] = TRUE] /\ wire' = wire \cup {tx_buffer[s]}
    /\ UNCHANGED <<rxVars, tx_next, tx_buffer, tx_slot, tx_after, tx_frame, sends, accepted,
                   circled>>

-----------------------------------------------------------------------------
(* net_poll() and rtl8139_poll_receive(), in context c. *)

\* Once a ping has moved rx_offset under the main loop's receive, what the two make
\* of the ring is anybody's guess, and the model ends.
Runs(c, p) ==
    present /\ ~overlapped /\ pc[c] = p /\ (c = "irq" \/ pc["irq"] = "out")
Goto(c, p) == pc' = [pc EXCEPT ![c] = p]
\* A return of 0 ends net_poll(); the ping goes on with its next iteration.
Return(c) == Goto(c, IF c = "irq" THEN "ping" ELSE "out")

\* net_poll() enters rtl8139_poll_receive(), which tests BUFE.
PollBegins(c) ==
    /\ Runs(c, IF c = "irq" THEN "ping" ELSE "out")
    /\ ~BufferEmpty
    /\ Goto(c, "header")
    /\ UNCHANGED <<present, rx_buffer, rx_offset, cbr, capr, arrived, packet_length,
                   next_offset, frame, polled, handled, overlapped, pings, txVars>>

\* The loop of net_poll() after a frame: up to PerCall frames, or until BUFE.
PollAgain(c) ==
    /\ Runs(c, "again")
    /\ IF polled[c] < PerCall /\ ~BufferEmpty
       THEN Goto(c, "header") /\ UNCHANGED polled
       ELSE Return(c) /\ polled' = [polled EXCEPT ![c] = 0]
    /\ UNCHANGED <<present, rx_buffer, rx_offset, cbr, capr, arrived, packet_length,
                   next_offset, frame, handled, overlapped, pings, txVars>>

\* What the word at rx_offset says when it is taken for a header: status and
\* length of a packet, or, in the middle of some packet, anything.
Bad == 0
HeaderReads(word) ==
    IF word = Zero THEN {Bad}
    ELSE IF word.part = 0 THEN {arrived[word.id]}
    ELSE {Bad} \cup Lengths

\* A header that makes no sense, or one of a packet that is too long, ends the
\* call and leaves rx_offset where it is.
ReadHeader(c) ==
    /\ Runs(c, "header")
    /\ \E n \in HeaderReads(rx_buffer[rx_offset \div 4]) :
          IF n = Bad \/ n > MaxLength
          THEN Return(c) /\ polled' = [polled EXCEPT ![c] = 0] /\ UNCHANGED packet_length
          ELSE /\ packet_length' = [packet_length EXCEPT ![c] = n] /\ UNCHANGED polled
               /\ Goto(c, "copy")
    /\ UNCHANGED <<present, rx_buffer, rx_offset, cbr, capr, arrived, next_offset, frame,
                   handled, overlapped, pings, txVars>>

\* The words of the frame, without the checksum.
FrameWords(n) == (n - 4 + 3) \div 4

CopyFrame(c) ==
    /\ Runs(c, "copy")
    /\ frame' = [frame EXCEPT ![c] = [i \in 1 .. FrameWords(packet_length[c]) |->
                    rx_buffer[(rx_offset \div 4 + i) % Cardinality(Words)]]]
    /\ Goto(c, "advance")
    /\ UNCHANGED <<present, rx_buffer, rx_offset, cbr, capr, arrived, packet_length,
                   next_offset, polled, handled, overlapped, pings, txVars>>

Advance_unaligned(c) ==
    /\ Runs(c, "advance")
    /\ next_offset' = [next_offset EXCEPT
                          ![c] = (4 * ((rx_offset + 4 + packet_length[c]) \div 4)) % RingLen]
    /\ packet_length' = [packet_length EXCEPT ![c] = 0] /\ Goto(c, "store")
    /\ UNCHANGED <<present, rx_buffer, rx_offset, cbr, capr, arrived, frame,
                   polled, handled, overlapped, pings, txVars>>
Advance(c) ==
    /\ Runs(c, "advance")
    /\ next_offset' = [next_offset EXCEPT
                          ![c] = Align(rx_offset + 4 + packet_length[c]) % RingLen]
    /\ packet_length' = [packet_length EXCEPT ![c] = 0] /\ Goto(c, "store")
    /\ UNCHANGED <<present, rx_buffer, rx_offset, cbr, capr, arrived, frame,
                   polled, handled, overlapped, pings, txVars>>

Receiving == {"header", "copy", "advance", "store", "capr"}

StoreOffset(c) ==
    /\ Runs(c, "store")
    /\ rx_offset' = next_offset[c] /\ next_offset' = [next_offset EXCEPT ![c] = 0]
    /\ Goto(c, "capr")
    /\ overlapped' = (overlapped \/ (c = "irq" /\ pc["main"] \in Receiving))
    /\ UNCHANGED <<present, rx_buffer, cbr, capr, arrived, packet_length,
                   frame, polled, handled, pings, txVars>>

\* The value written back is 16 less than the offset, modulo the register.
WriteCapr_noBias(c) ==
    /\ Runs(c, "capr")
    /\ capr' = rx_offset
    /\ Goto(c, "handle")
    /\ UNCHANGED <<present, rx_buffer, rx_offset, cbr, arrived, packet_length, next_offset,
                   frame, polled, handled, overlapped, pings, txVars>>
WriteCapr(c) ==
    /\ Runs(c, "capr")
    /\ capr' = (rx_offset - 16) % RegWidth
    /\ Goto(c, "handle")
    /\ UNCHANGED <<present, rx_buffer, rx_offset, cbr, arrived, packet_length, next_offset,
                   frame, polled, handled, overlapped, pings, txVars>>

-----------------------------------------------------------------------------
(* rtl8139_send(): a descriptor that the card does not give back in time is
   skipped, and the frame is not sent. *)

\* In a ping, with interrupts off.
rtl8139_send_noWait ==
    /\ sends < MaxSends /\ sends' = sends + 1
    /\ tx_next' = (tx_next + 1) % TxSlots
    /\ tx_buffer' = [tx_buffer EXCEPT ![tx_next] = sends + 1]
    /\ own' = [own EXCEPT ![tx_next] = FALSE] /\ accepted' = accepted \cup {sends + 1}
    /\ circled' = (circled \/ (pc["main"] \in {"fill", "start"} /\ tx_slot = tx_next))
    /\ UNCHANGED <<tx_slot, tx_after, tx_frame, wire>>
rtl8139_send ==
    /\ sends < MaxSends /\ sends' = sends + 1
    /\ tx_next' = (tx_next + 1) % TxSlots
    /\ IF own[tx_next]
       THEN /\ tx_buffer' = [tx_buffer EXCEPT ![tx_next] = sends + 1]
            /\ own' = [own EXCEPT ![tx_next] = FALSE] /\ accepted' = accepted \cup {sends + 1}
            /\ circled' = (circled \/ (pc["main"] \in {"fill", "start"} /\ tx_slot = tx_next))
       ELSE UNCHANGED <<tx_buffer, own, accepted, circled>>
    /\ UNCHANGED <<tx_slot, tx_after, tx_frame, wire>>

\* In the main loop, step by step: a ping may come between any two.  A local is 0
\* when it is not in use.
MainSendBegins ==
    /\ sends < MaxSends /\ sends' = sends + 1 /\ tx_frame' = sends + 1
    /\ UNCHANGED <<tx_next, own, tx_buffer, tx_slot, tx_after, accepted, wire, circled>>

SendStep(p, q) ==
    /\ Runs("main", p) /\ Goto("main", q)
    /\ UNCHANGED <<present, rx_buffer, rx_offset, cbr, capr, arrived, packet_length,
                   next_offset, frame, polled, handled, overlapped, pings,
                   sends, wire, circled>>

TakeSlot ==
    /\ SendStep("slot", "next") /\ tx_slot' = tx_next
    /\ UNCHANGED <<tx_next, own, tx_buffer, tx_after, tx_frame, accepted>>
ReadNext ==
    /\ SendStep("next", "pass") /\ tx_after' = (tx_next + 1) % TxSlots
    /\ UNCHANGED <<tx_next, own, tx_buffer, tx_slot, tx_frame, accepted>>
StoreNext ==
    /\ SendStep("pass", "own") /\ tx_next' = tx_after /\ tx_after' = 0
    /\ UNCHANGED <<own, tx_buffer, tx_slot, tx_frame, accepted>>
WaitOwn ==
    /\ IF own[tx_slot] THEN SendStep("own", "fill") /\ UNCHANGED <<tx_slot, tx_frame>>
       ELSE SendStep("own", "again") /\ tx_slot' = 0 /\ tx_frame' = 0
    /\ UNCHANGED <<tx_next, own, tx_buffer, tx_after, accepted>>
FillBuffer ==
    /\ SendStep("fill", "start") /\ tx_buffer' = [tx_buffer EXCEPT ![tx_slot] = tx_frame]
    /\ UNCHANGED <<tx_next, own, tx_slot, tx_after, tx_frame, accepted>>
StartSend ==
    /\ SendStep("start", "again")
    /\ own' = [own EXCEPT ![tx_slot] = FALSE] /\ accepted' = accepted \cup {tx_frame}
    /\ tx_slot' = 0 /\ tx_frame' = 0 /\ UNCHANGED <<tx_next, tx_buffer, tx_after>>

MainSends == TakeSlot \/ ReadNext \/ StoreNext \/ WaitOwn \/ FillBuffer \/ StartSend

-----------------------------------------------------------------------------
\* eth_handle_frame(), which may answer.
HandleFrame(c) ==
    /\ Runs(c, "handle")
    /\ handled' = Append(handled, frame[c]) /\ frame' = [frame EXCEPT ![c] = <<>>]
    /\ polled' = [polled EXCEPT ![c] = @ + 1]
    /\ \/ Goto(c, "again") /\ UNCHANGED txVars
       \/ Goto(c, "again") /\ c = "irq" /\ rtl8139_send
       \/ Goto(c, "slot") /\ c = "main" /\ MainSendBegins
    /\ UNCHANGED <<present, rx_buffer, rx_offset, cbr, capr, arrived, packet_length,
                   next_offset, overlapped, pings>>

net_poll(c) ==
    \/ PollBegins(c) \/ ReadHeader(c) \/ CopyFrame(c) \/ Advance(c)
    \/ StoreOffset(c) \/ WriteCapr(c) \/ HandleFrame(c) \/ PollAgain(c)
    \/ c = "main" /\ MainSends

\* The keyboard interrupt that runs `ping`: polls, sends its request, and ends
\* when it has its answer or has given up.
PingBegins ==
    /\ present /\ pc["irq"] = "out" /\ pings < MaxPings
    /\ pings' = pings + 1 /\ Goto("irq", "ping")
    /\ UNCHANGED <<present, rx_buffer, rx_offset, cbr, capr, arrived, packet_length,
                   next_offset, frame, polled, handled, overlapped, txVars>>

PingSends ==
    /\ pc["irq"] = "ping"
    /\ rtl8139_send /\ UNCHANGED rxVars

PingEnds ==
    /\ pc["irq"] = "ping" /\ Goto("irq", "out")
    /\ UNCHANGED <<present, rx_buffer, rx_offset, cbr, capr, arrived, packet_length,
                   next_offset, frame, polled, handled, overlapped, pings, txVars>>

RtlNext ==
    \/ \E n \in Lengths : PacketArrives(n)
    \/ \E s \in TxSlot : TransmitDone(s)
    \/ \E c \in Contexts : net_poll(c)
    \/ PingBegins \/ PingSends \/ PingEnds

-----------------------------------------------------------------------------
\* Packet id as it should reach eth_handle_frame().
Sent(id) == [i \in 1 .. FrameWords(arrived[id]) |-> [id |-> id, part |-> i]]

\* What main has copied out of the ring while a ping goes on.
InHand == IF pc["main"] = "handle" THEN <<frame["main"]>> ELSE <<>>

(* nic.h says of poll_receive(): "Copies one received frame into `buffer`".  As long
   as no ping receives in the middle of the main loop's receive, every frame comes
   out of the ring once, whole, with none left out, through any number of wraps. *)
FramesOnce ==
    ~overlapped =>
        LET out == handled \o InHand
        IN  \A id \in 1 .. Len(out) :
               id <= Len(arrived) /\ Cardinality({k \in 1 .. Len(out) : out[k] = Sent(id)}) = 1

\* rtl8139_poll_receive() refuses a packet that is too long and does not pass it.
Blocked(n) == \E k \in 1 .. n : k <= Len(arrived) /\ arrived[k] > MaxLength

(* The ring never gets stuck but on a packet longer than the driver takes: what
   the card has stored before the first such packet is handled in the end. *)
RingDrains ==
    \A n \in 1 .. MaxPackets :
        Len(arrived) >= n ~> (Len(handled) >= n \/ overlapped \/ Blocked(n))

(* A frame that rtl8139_send() accepted is not overwritten by another one before
   the card has transmitted it, although a ping may send between any two steps of
   the main loop's send.  Unless its sends come round to the very descriptor that
   the main loop has found free and not yet handed to the card. *)
TransmitsAll ==
    ~circled => accepted = wire \cup {tx_buffer[s] : s \in {t \in TxSlot : ~own[t]}}
=============================================================================
