-------------------------------- MODULE Disk --------------------------------
(***************************************************************************)
(* The path of a sector from the file system to the disk: the choice of    *)
(* device in src/kernel/fs.c, the registry of src/kernel/blockdev.c, the   *)
(* encrypting slots of src/kernel/crypto_disk.c and the polled driver of   *)
(* src/kernel/ata.c, through boots and power failures.                     *)
(*                                                                         *)
(* What the file system puts into sectors is the subject of Fs; here it is *)
(* a text.  A sector on the disk is a text under a set of keystreams:      *)
(* encrypting and decrypting are the same exclusive or.                    *)
(*                                                                         *)
(* At boot there is one caller, with interrupts off.  Afterwards a process *)
(* uses the disk with interrupts on ("main"), and the keyboard interrupt   *)
(* runs shell commands, from begin to end, between any two of its steps    *)
(* ("irq").  An address is written to the drive in several registers; two  *)
(* of one bit each stand for them.                                         *)
(***************************************************************************)
EXTENDS Integers, Sequences, FiniteSets, Least

CONSTANTS
    Texts,              \* what the file system writes
    BlockdevMax,        \* BLOCKDEV_MAX
    CryptoSlots,        \* CRYPTO_DISK_MAX_SLOTS
    MaxBoots,           \* bound: boots
    MaxErrors,          \* bound: errors of the drive
    MaxCalls,           \* bound: sectors read and written after the boot
    ShellSectors,       \* bound: the sectors shell commands use
    SuperReadMayFail    \* whether the read of the superblock at boot may fail

Sectors == 0 .. 3       \* two registers of one bit
FormatSectors == {1}    \* the sectors fs_format() writes before the superblock
FileSectors == Sectors \ {0}

ASSUME DiskAssumption ==
    /\ Texts # {} /\ Texts \cap {"blank", "super", "garbage", "unknown", "fresh"} = {}
    /\ BlockdevMax \in Nat \ {0} /\ CryptoSlots \in Nat
    /\ MaxBoots \in Nat /\ MaxErrors \in Nat /\ MaxCalls \in Nat /\ SuperReadMayFail \in BOOLEAN
    /\ ShellSectors \subseteq FileSectors

VARIABLES
    stage,              \* how far the boot is: off, probe, format, save, ready, halted
    devices,            \* blockdev.c's registry, a device's id is its place, from 0
    slots,              \* crypto_disk.c
    superblock,         \* superblock.reserved[]
    fs_disk_device_id,
    call,               \* each caller's ata_read_sector() or ata_write_sector()
    regs,               \* the address registers of the drive
    drive,              \* the drive: its status, and the command it carries out
    platter,            \* what is on the disk
    drawn,              \* how often rng_get_bytes() was called
    errors, boots, calls,
    last,               \* history: the texts a sector may hold
    suspect,            \* history: the sectors that two calls at a time put at risk
    misread             \* history: a read returned another text

memoryVars == <<stage, devices, slots, superblock, fs_disk_device_id>>
driveVars == <<regs, drive, platter>>
pastVars == <<last, suspect, misread>>
countVars == <<drawn, errors, boots, calls>>
diskVars == <<memoryVars, call, driveVars, countVars, pastVars>>

-----------------------------------------------------------------------------
Magic == -1             \* FS_ENCRYPTION_MAGIC
NoReserved == [i \in 0 .. 6 |-> 0]
Content(text, reserved) == [text |-> text, reserved |-> reserved, pads |-> {}]
Plain(text) == Content(text, NoReserved)

\* rng_get_bytes(), the n-th time: words no other call returns.
RandomWords(n) == [w \in 0 .. 5 |-> 6 * n + w]

NoSlot == [in_use |-> FALSE, key |-> <<>>, nonce |-> <<>>]
Nowhere == [op |-> "none", lba |-> 0, data |-> Plain("unknown")]
IdleDrive == [state |-> "idle", does |-> Nowhere]
NoCall == [at |-> "out", ok |-> FALSE, cut |-> FALSE, does |-> Nowhere]

DiskInit ==
    /\ stage = "off" /\ devices = <<>> /\ slots = [i \in 0 .. (CryptoSlots - 1) |-> NoSlot]
    /\ superblock = NoReserved /\ fs_disk_device_id = 0
    /\ call = [c \in {"main", "irq"} |-> NoCall]
    /\ regs = [low |-> 0, high |-> 0] /\ drive = IdleDrive
    /\ drawn = 0 /\ errors = 0 /\ boots = 0 /\ calls = 0
    /\ suspect = {} /\ misread = FALSE
    \* A blank disk, or one an older version formatted without encryption.
    /\ \/ /\ platter = [s \in Sectors |-> Plain("blank")]
          /\ last = [s \in FileSectors |-> {"unknown"}]
       \/ /\ platter = [s \in Sectors |-> Plain(IF s = 0 THEN "super" ELSE "fresh")]
          /\ last = [s \in FileSectors |-> {"fresh"}]

-----------------------------------------------------------------------------
(* Block devices and encryption. *)

\* blockdev_register(): the registry after it and the id it returns.
blockdev_register(known, device) ==
    IF Len(known) < BlockdevMax THEN [id |-> Len(known), devices |-> Append(known, device)]
    ELSE [id |-> -1, devices |-> known]
blockdev_get(id) == devices[id + 1]

\* crypto_disk_create_internal().  The slot stays taken when the registry is full.
crypto_disk_create_internal(name, known, used, key, nonce) ==
    LET free == {i \in DOMAIN used : ~used[i].in_use} IN
    IF free = {} THEN [id |-> -1, devices |-> known, slots |-> used]
    ELSE LET i == Lowest(free)
             r == blockdev_register(known, [name |-> name, slot |-> i])
         IN  [id |-> r.id, devices |-> r.devices,
              slots |-> [used EXCEPT ![i] = [in_use |-> TRUE, key |-> key, nonce |-> nonce]]]

\* crypto_xor_sector(): the keystream depends on key, nonce and sector.
crypto_xor_sector(slot, lba, content) ==
    LET pad == <<slot.key, slot.nonce, lba>>
    IN  [content EXCEPT !.pads = (@ \ {pad}) \cup ({pad} \ @)]

\* The slot the functions registered for a device use.
Trampoline(device) == slots[device.slot]

\* What fs_disk_read_sector() and fs_disk_write_sector() make of a sector.
ThroughDevice(lba, content) ==
    LET device == blockdev_get(fs_disk_device_id)
    IN  IF device.name = "ata0" THEN content
        ELSE crypto_xor_sector(Trampoline(device), lba, content)

SeedOf(reserved) == [w \in 0 .. 3 |-> reserved[1 + w]]
NonceOf(reserved) == [w \in 0 .. 1 |-> reserved[5 + w]]
Sealing(n) == LET words == RandomWords(n)
              IN  [i \in 0 .. 6 |-> IF i = 0 THEN Magic ELSE words[i - 1]]

\* fs_setup_disk_device() with a superblock: direct, or through a slot.  Without a
\* slot or a place in the registry the boot ends.
fs_setup_disk_device(reserved, next) ==
    IF reserved[0] # Magic
    THEN fs_disk_device_id' = 0 /\ stage' = next /\ UNCHANGED <<devices, slots>>
    ELSE LET made == crypto_disk_create_internal("fsenc0", devices, slots,
                                                 SeedOf(reserved), NonceOf(reserved))
         IN  /\ fs_disk_device_id' = made.id
             /\ devices' = made.devices /\ slots' = made.slots
             /\ stage' = IF made.id >= 0 THEN next ELSE "halted"

-----------------------------------------------------------------------------
(* The drive. *)
Busy == drive.state = "busy"
\* It runs into an error.
Errs == /\ errors < MaxErrors /\ errors' = errors + 1
        /\ stage = "probe" => SuperReadMayFail
HasData == drive.does.op = "write" /\ drive.does.data.text # "unknown"

\* It has found the sector and asks for the data or offers it, or gives up.
DriveSeeks ==
    /\ Busy /\ ~HasData
    /\ \/ drive' = [drive EXCEPT !.state = "drq"] /\ UNCHANGED errors
       \/ drive' = [drive EXCEPT !.state = "error"] /\ Errs
    /\ UNCHANGED <<memoryVars, call, regs, platter, drawn, boots, calls, pastVars>>

Stored == [platter EXCEPT ![drive.does.lba] = drive.does.data]

\* It has the data and stores it; an error may come before or after.
DriveStores ==
    /\ Busy /\ HasData
    /\ \/ platter' = Stored /\ drive' = IdleDrive /\ UNCHANGED errors
       \/ /\ platter' \in {platter, Stored} /\ drive' = [IdleDrive EXCEPT !.state = "error"]
          /\ Errs
    /\ UNCHANGED <<memoryVars, call, regs, drawn, boots, calls, pastVars>>

-----------------------------------------------------------------------------
(* ata_read_sector() and ata_write_sector(), in caller c. *)
CallAt(c, at) == stage # "off" /\ call[c].at = at /\ (c = "irq" \/ call["irq"].at = "out")
CallGoes(c, at) == call' = [call EXCEPT ![c].at = at]
\* The boot goes on with the outcome of its call; other callers are done.
Returned(c, ok) ==
    [call EXCEPT ![c] = IF stage = "ready" THEN NoCall
                        ELSE [@ EXCEPT !.at = "returned", !.ok = ok]]
CallUnchanged == UNCHANGED <<memoryVars, countVars>>

\* A call as it begins: waiting for the drive, with nothing written to it.
Entered(op, lba, content) ==
    [NoCall EXCEPT !.at = "low", !.does = [op |-> op, lba |-> lba, data |-> content]]

\* ata_select(): the registers, once the drive is not busy.  A busy drive, one
\* that a call in between has left so, takes no notice of a register.
SelectLow(c) ==
    /\ CallAt(c, "low") /\ ~Busy
    /\ regs' = [regs EXCEPT !.low = call[c].does.lba % 2]
    /\ CallGoes(c, "high") /\ CallUnchanged /\ UNCHANGED <<drive, platter, pastVars>>
SelectHigh(c) ==
    /\ CallAt(c, "high")
    /\ regs' = IF Busy THEN regs ELSE [regs EXCEPT !.high = call[c].does.lba \div 2]
    /\ CallGoes(c, "command") /\ CallUnchanged /\ UNCHANGED <<drive, platter, pastVars>>

IssueCommand(c) ==
    /\ CallAt(c, "command")
    /\ drive' = IF Busy THEN drive
                ELSE [state |-> "busy",
                      does |-> [Nowhere EXCEPT !.op = call[c].does.op,
                                               !.lba = 2 * regs.high + regs.low]]
    /\ CallGoes(c, "drq") /\ CallUnchanged /\ UNCHANGED <<regs, platter, pastVars>>

ata_wait_drq(c) ==
    /\ CallAt(c, "drq") /\ drive.state \in {"drq", "error"}
    /\ IF drive.state = "drq" THEN CallGoes(c, "data")
       ELSE call' = Returned(c, FALSE)
    /\ CallUnchanged /\ UNCHANGED <<driveVars, pastVars>>

\* Only a drive that waits for the same kind of transfer takes part in one.
Transfers(c) == drive.state = "drq" /\ drive.does.op = call[c].does.op

ReadData(c) ==
    /\ CallAt(c, "data") /\ call[c].does.op = "read"
    /\ call' = [call EXCEPT ![c].at = "status",
                            ![c].does.data = IF Transfers(c) THEN platter[drive.does.lba]
                                             ELSE Plain("garbage")]
    /\ IF Transfers(c)
       THEN \/ drive' = IdleDrive /\ UNCHANGED errors
            \/ /\ drive' = [IdleDrive EXCEPT !.state = "error"]
               /\ Errs
       ELSE UNCHANGED <<drive, errors>>
    /\ UNCHANGED <<memoryVars, drawn, boots, calls, regs, platter, pastVars>>

MayHold(lba, texts) ==
    last' = IF lba = 0 THEN last ELSE [last EXCEPT ![lba] = texts]

WriteData(c) ==
    /\ CallAt(c, "data") /\ call[c].does.op = "write"
    /\ CallGoes(c, "busy")
    /\ IF Transfers(c)
       THEN drive' = [drive EXCEPT !.state = "busy", !.does.data = call[c].does.data]
       ELSE UNCHANGED drive
    /\ LET w == call[c].does
       IN  MayHold(w.lba, IF w.lba = 0 THEN {} ELSE last[w.lba] \cup {w.data.text})
    /\ CallUnchanged /\ UNCHANGED <<regs, platter, suspect, misread>>

WaitNotBusy(c) ==
    /\ CallAt(c, "busy") /\ ~Busy
    /\ CallGoes(c, "status") /\ CallUnchanged /\ UNCHANGED <<driveVars, pastVars>>

\* After a call that nothing cut into, the sector is what was asked for.
Settled(c) == ~call[c].cut /\ \A d \in DOMAIN call : d = c \/ call[d].at = "out"
WriteSettles(c) ==
    LET w == call[c].does IN
    /\ MayHold(w.lba, {w.data.text})
    /\ suspect' = IF Settled(c) THEN suspect \ {w.lba} ELSE suspect
    /\ UNCHANGED misread

Right(lba, content) == "unknown" \in last[lba] \/ (content.text \in last[lba] /\ content.pads = {})

ReadSettles(c) ==
    LET r == call[c].does IN
    /\ misread' = (misread \/ ~(\/ r.lba = 0 \/ call[c].cut \/ r.lba \in suspect
                                \/ Right(r.lba, ThroughDevice(r.lba, r.data))))
    /\ UNCHANGED <<last, suspect>>

ReadStatus(c) ==
    /\ CallAt(c, "status")
    /\ call' = Returned(c, drive.state # "error")
    /\ IF drive.state = "error" THEN UNCHANGED pastVars
       ELSE IF call[c].does.op = "read" THEN ReadSettles(c)
       ELSE WriteSettles(c)
    /\ CallUnchanged /\ UNCHANGED driveVars

\* Each wait ends after ATA_TIMEOUT turns with what it waits for not there.  The
\* drive goes on with what it was doing.
TimesOut(c) ==
    /\ \/ CallAt(c, "low") /\ Busy
       \/ CallAt(c, "drq") /\ drive.state \in {"busy", "idle"}
       \/ CallAt(c, "busy") /\ Busy
    /\ stage = "probe" => SuperReadMayFail
    /\ call' = Returned(c, FALSE)
    /\ CallUnchanged /\ UNCHANGED <<driveVars, pastVars>>

ata_transfer(c) ==
    \/ SelectLow(c) \/ SelectHigh(c) \/ IssueCommand(c) \/ ata_wait_drq(c)
    \/ ReadData(c) \/ WriteData(c) \/ WaitNotBusy(c) \/ ReadStatus(c) \/ TimesOut(c)

-----------------------------------------------------------------------------
(* kernel_main() and fs_init(). *)

\* The drivers register, cenc0 takes a slot, and fs_init() reads sector 0.
Boot ==
    /\ stage = "off" /\ boots < MaxBoots /\ boots' = boots + 1
    /\ LET ata == blockdev_register(<<>>, [name |-> "ata0", slot |-> 0])
           ram == blockdev_register(ata.devices, [name |-> "ram0", slot |-> 0])
           cenc == crypto_disk_create_internal("cenc0", ram.devices, slots,
                       SeedOf(Sealing(drawn + 1)), NonceOf(Sealing(drawn + 2)))
       IN  devices' = cenc.devices /\ slots' = cenc.slots
    /\ drawn' = drawn + 2
    /\ stage' = "probe" /\ call' = [call EXCEPT !["main"] = Entered("read", 0, Plain("unknown"))]
    /\ UNCHANGED <<superblock, fs_disk_device_id, driveVars, errors, calls, pastVars>>

SectorZero == call["main"].does.data
Loaded == call["main"].ok /\ SectorZero.text = "super"

\* A superblock that is there is used, seed and nonce as they were.
MountExisting_freshNonce ==
    /\ stage = "probe" /\ call["main"].at = "returned" /\ Loaded
    /\ drawn' = drawn + 1
    /\ superblock' = [SectorZero.reserved EXCEPT ![5] = IF @ = 0 THEN 0 ELSE 6 * drawn + 11]
    /\ fs_setup_disk_device(superblock', "ready")
    /\ call' = [call EXCEPT !["main"] = NoCall]
    /\ UNCHANGED <<driveVars, errors, boots, calls, pastVars>>
MountExisting ==
    /\ stage = "probe" /\ call["main"].at = "returned" /\ Loaded
    /\ superblock' = SectorZero.reserved
    /\ fs_setup_disk_device(superblock', "ready")
    /\ call' = [call EXCEPT !["main"] = NoCall]
    /\ UNCHANGED <<driveVars, countVars, pastVars>>

\* Any other outcome of the read formats: new seed and nonce, the format's
\* sectors through the device, the superblock last.
FormatBegins ==
    /\ stage = "probe" /\ call["main"].at = "returned" /\ ~Loaded
    /\ drawn' = drawn + 1
    /\ superblock' = Sealing(drawn') /\ fs_setup_disk_device(superblock', "format")
    /\ call' = [call EXCEPT !["main"] = NoCall]
    /\ last' = [s \in FileSectors |-> {"unknown"}]
    /\ UNCHANGED <<driveVars, errors, boots, calls, suspect, misread>>

FormatWrites ==
    /\ stage = "format" /\ call["main"].at = "out"
    /\ \E lba \in FormatSectors :
          call' = [call EXCEPT !["main"] =
                      Entered("write", lba, ThroughDevice(lba, Plain("fresh")))]
    /\ UNCHANGED <<memoryVars, driveVars, countVars, pastVars>>

FormatGoesOn ==
    /\ stage = "format" /\ call["main"].at = "returned" /\ call["main"].ok
    /\ stage' = "save"
    /\ call' = [call EXCEPT !["main"] = Entered("write", 0, Content("super", superblock))]
    /\ UNCHANGED <<devices, slots, superblock, fs_disk_device_id, driveVars, countVars,
                   pastVars>>

FormatEnds ==
    /\ stage = "save" /\ call["main"].at = "returned" /\ call["main"].ok
    /\ stage' = "ready" /\ call' = [call EXCEPT !["main"] = NoCall]
    /\ UNCHANGED <<devices, slots, superblock, fs_disk_device_id, driveVars, countVars,
                   pastVars>>

\* A failing write ends fs_format(), and kernel_main() halts.
BootFails ==
    /\ stage \in {"format", "save"} /\ call["main"].at = "returned" /\ ~call["main"].ok
    /\ stage' = "halted" /\ call' = [call EXCEPT !["main"] = NoCall]
    /\ UNCHANGED <<devices, slots, superblock, fs_disk_device_id, driveVars, countVars,
                   pastVars>>

fs_init == MountExisting \/ FormatBegins \/ FormatWrites \/ FormatGoesOn \/ FormatEnds \/ BootFails

-----------------------------------------------------------------------------
(* fs_disk_read_sector() and fs_disk_write_sector() afterwards. *)

\* The sectors that two half-written addresses can make.
Mixed(a, b) == {2 * (h \div 2) + (l % 2) : h \in {a, b}, l \in {a, b}}

\* A shell command that uses the disk while a process's call is under way cuts
\* into it.
Calls(c, op, lba, content) ==
    LET cuts == c = "irq" /\ call["main"].at \notin {"out", "low"} IN
    /\ stage = "ready" /\ CallAt(c, "out") /\ calls < MaxCalls /\ calls' = calls + 1
    /\ call' = [call EXCEPT ![c] = Entered(op, lba, content),
                            !["main"].cut = IF c = "main" THEN FALSE ELSE @ \/ cuts]
    /\ suspect' = IF cuts THEN suspect \cup Mixed(lba, call["main"].does.lba) ELSE suspect
    /\ UNCHANGED <<memoryVars, driveVars, drawn, errors, boots, last, misread>>

fs_disk_read_sector(c, lba) == Calls(c, "read", lba, Plain("unknown"))
fs_disk_write_sector(c, lba, text) == Calls(c, "write", lba, ThroughDevice(lba, Plain(text)))

\* The power fails; a sector the drive is storing is stored or not.
PowerFailure ==
    /\ stage # "off" /\ stage' = "off"
    /\ platter' \in IF Busy /\ HasData THEN {platter, Stored} ELSE {platter}
    /\ devices' = <<>> /\ slots' = [i \in DOMAIN slots |-> NoSlot]
    /\ superblock' = NoReserved /\ fs_disk_device_id' = 0
    /\ call' = [c \in DOMAIN call |-> NoCall]
    /\ regs' = [low |-> 0, high |-> 0] /\ drive' = IdleDrive
    /\ UNCHANGED <<countVars, pastVars>>

DiskNext ==
    \/ Boot \/ fs_init \/ DriveSeeks \/ DriveStores \/ PowerFailure
    \/ \E c \in {"main", "irq"} :
          \/ ata_transfer(c)
          \/ \E lba \in IF c = "irq" THEN ShellSectors ELSE FileSectors :
                \/ fs_disk_read_sector(c, lba)
                \/ \E text \in Texts : fs_disk_write_sector(c, lba, text)

-----------------------------------------------------------------------------
\* A sector as the superblock on the disk would have it read at the next boot.
AtNextBoot(lba) ==
    LET reserved == platter[0].reserved
    IN  IF reserved[0] = Magic
        THEN crypto_xor_sector([key |-> SeedOf(reserved), nonce |-> NonceOf(reserved)],
                               lba, platter[lba])
        ELSE platter[lba]

(* A sector reads as it was last written, at once and after any number of boots,
   on an encrypted disk and on an older plain one, whatever the drive or the power
   failed to do: a write that failed leaves the old text or the new one.  The
   superblock stays the one the disk was mounted with.  The exceptions are the
   sectors whose addresses a shell command and a process it interrupted can make
   between them in the drive's registers (ata_select()). *)
SectorsKept ==
    /\ ~misread
    /\ 0 \notin suspect =>
          /\ stage = "ready" => platter[0] = Content("super", superblock)
          /\ platter[0].text = "super" =>
                \A lba \in FileSectors \ suspect : Right(lba, AtNextBoot(lba))
=============================================================================
