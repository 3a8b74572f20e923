# A TLA+ model of SpectreOS

SpectreOS is a 32-bit teaching kernel: one processor, one address space, nothing
that runs in user mode yet.  This directory holds TLA+ modules for the parts of it that keep state
and can go wrong over several steps, TLC configurations that check them on small
instances, and TLAPS proofs of the properties that matter most for every size.
`PROJECT.json` maps each definition to the source lines it stands for, and lists
components, runs, mutants, hazards, findings and theorems.

Run `tlc -config X.cfg M` for a run and `tlapm M.tla` for a proof module, inside
this directory.

## The system

### How code runs

Every gate of the IDT is an interrupt gate, so every handler, the system call
gate included, runs with interrupts off.  Three kinds of code follow from that:

| runs as | code | can be interrupted |
|---|---|---|
| keyboard interrupt | login, nano, the shell and all its commands, hence most calls of fs.c and of the network stack | no |
| timer interrupt | `scheduler_tick()` | no |
| threads and processes | `threadtest`, `processtest`, users of sync.c; thread 0 polls the network and halts | by timer and keyboard, between any two instructions |

So a shell command is atomic for every thread, and a thread is atomic for
nobody.  The interleavings are those of threads at a timer tick, and those of a
thread with a command that the keyboard interrupt runs from begin to end in the
middle of whatever the thread was doing; the only other surprises are a failing
device, a network and a power failure.  Each module says which of these it admits.

### Components

| component | state | operations | interacts with | what is hard |
|---|---|---|---|---|
| file system (`fs.c`) | bitmap, inodes, handles in memory; superblock, bitmap, inodes, directory, data on the disk | mount, format, create, delete, open, close, read, write | disk below; shell, nano, login, identity, processes above | several sector writes per operation, each of which can fail or be the last before a power failure |
| threads, scheduler (`thread.c`, `scheduler.c`) | thread table, current index, policy | create, exit, block, unblock, wake, tick, set policy | timer interrupt, processes, sync | a tick between any two steps; starvation; slots that are never reused |
| processes (`process.c`) | process table, registered handles | create, trampoline, register, state | thread table, fs.c's global handles | a process finds itself by thread index; handle races |
| sync (`sync.c`) | lock word, owner, count, waiter queue | spinlock, mutex, semaphore | thread block and unblock | preemption inside critical sections, lost wake-ups |
| shell commands (`shell.c`) | two handles, a chunk | touch, rm, cat, write, cp, mv, ping, logout | fs.c, network stack, login | undo after partial failure |
| editor (`nano.c`) | line grid, cursor, scroll, dirty flag, prompt | one handler per key, load, save | fs.c, keyboard | limits of the grid; save deletes first |
| keyboard (`keyboard.c`) | modifiers, extended prefix | scancode handler, dispatch | login, nano, shell | bytes of a key in several interrupts; who gets a key |
| shell line editor (`shell.c`) | line, cursor, history | one handler per key | keyboard | a walk through the history that an edit must end; limits |
| login, identity (`auth.c`, `identity.c`) | stage, fields, account table, two files | stages, load, save, logout | fs.c, keyboard, shell | one buffer for all prompts; failures of fs.c that are not looked at |
| physical memory (`pmm.c`) | bitmap, counter | init, reserve, release, alloc, free | boot | rounding and 32-bit wrap |
| block devices, encryption, ATA (`blockdev.c`, `crypto_disk.c`, `ata.c`) | registry, slots, the drive's registers | register, read, write | fs.c | keys across boots; timeouts; two callers at once |
| network card (`rtl8139.c`) | receive ring, transmit descriptors | send, poll | net.c | ring wrap; poll inside a poll |
| network stack (`net.c`, `arp.c`, `ip.c`, `icmp.c`, `udp.c`) | ARP cache, pending echo, bindings | handlers, ping, bind, unbind, send | card, shell | lost, late and repeated frames; full tables |

## Modules

    Least          the lowest of a set: how every table scan of the kernel chooses
    Fs             fs.c, one action per sector write
    FileStore      what fs.c promises: named byte strings and handles
    StoreMapping   EXTENDS Fs: how its tables and sectors represent FileStore's strings
    Scheduler      thread.c and scheduler.c
    Process        EXTENDS Scheduler: process.c, and fs_open() as two processes run it
    SyncThread     EXTENDS Scheduler: threads with a place in an operation of sync.c
    Mutex          EXTENDS SyncThread: mutex
    Semaphore      EXTENDS SyncThread: spinlock and semaphore
    Sync           a mutex and a semaphore used by the same threads
    Commands       touch, rm, cat, write, cp, mv over fs.c's interface
    Nano           nano.c
    KeyMap         the characters keys give
    Keyboard       scancode bytes, prefix, modifiers
    LineEditor     the shell's line and history
    Login          auth.c and identity.c with their two files
    Console        Keyboard, LineEditor and Login together: keyboard.c's dispatch, restarts
    Pmm            pmm.c
    Disk           fs.c's choice of device, blockdev.c, crypto_disk.c, ata.c and the drive
    Rtl8139        the network card, its driver, net_poll()
    Drivers        Disk and Rtl8139, each with a main program and an interrupting command
    Net            the network stack and ping over an unreliable network
    MC*            instances for TLC
    BasicProofs    lemmas the other proofs share: what Lowest returns, induction, sequences
    FsProofs, CommandsProofs, NanoProofs, ConsoleProofs,
    NetProofs      theorems on the module of that name
    ThreadProofs   theorems on Scheduler, Sync and Process
    HardwareProofs theorems on Pmm, Rtl8139 and Disk, the latter two as Drivers joins them

**Fs** keeps memory and disk apart.  An operation is a record `op` with a program
counter and the C locals that live across a sector write; every action ends with
at most one metadata or data write, so `PowerFailure` and a failing access
(`Faults`, `MaxFailures`) can fall between any two.  What the code computes
before a write belongs to that write's action.  Names are model values;
a sector holds `BlockSize` units instead of 512 bytes, the directory
`DirPerSector` entries per sector.  A sector never written under the disk's key
reads as `Junk`: formatting makes a new key, so what was there before does not
decrypt.  The variable `torn` is a history variable: it records that a power
failure fell inside `fs_delete()` after its first write.  `DisciplinedSpec` is Fs for
callers that never leave a handle open on a deleted file (`NoStale`).

**FileStore** is the abstract specification: a function from names to byte
strings, handles with a position, and a write that may store a prefix.
**StoreMapping** maps Fs to it; during a write the progress counts as part of the file, as the
code stores size and position only at the end.

**Scheduler** has the table (`state`), the current index as thread.c holds it,
the policy, and `cpu`, the thread whose stack the processor is really on: the
difference of the last two is what `CurrentRuns` is about.  **Process**, **Mutex**
and **Semaphore** add a program counter per thread; each of their
actions needs `cpu = t` and `scheduler_tick` interleaves with all of them.

**Commands** takes fs.c by its interface, with names that lead to inodes: a call
succeeds, or fails in the ways fs.c can fail and leaves behind what fs.c leaves
behind (a create that failed at the directory entry and may have stored it, a delete
whose save failed and whose name leads to a FREE inode, a write that stored a prefix,
a read that returned less).  It also has the failures fs.c does not report: a delete
that did not clear the name, a write whose inode or bitmap was not saved (`unsaved`).
`Sound` says that every name leads to an inode in use and of its own; what a command
may be relied on for depends on whether it started so (`cmd.sound`).  `torn` records a
power failure while something was unsaved.  A process may hold handles.  That a lookup
meets an unreadable directory sector is left to Fs.

**Nano** has the grid as a sequence of lines with the limits of the code, and
an action per key handler; the prompts are states.  `Loaded` and `Serialized` are
`buffer_load()` and the first half of `buffer_save()`, and drop what the code drops;
`Reads` is what `buffer_load()` gets when `fs_open()` or `fs_read()` fails on a file that
exists.  `lost` records that it did not get the whole file, or that a save of an
unchanged buffer failed.

**Keyboard** has the keys that are down and the bytes they have sent; each byte is
one call of `keyboard_handler()` and one action.  Grey keys send the prefix and may
wrap themselves in prefixed shift codes, as keyboards do, and a held key repeats its
make code.  What a byte asks for is
an event, and **Console** gives it to the reader that owns the keyboard: the prompts
of **Login**, nano (here only whether it is open) or **LineEditor**.  Login keeps the
account table in memory and `users.dat` and the identity file on the disk; the two
writes of a sign-up are steps of their own so that the power can fail between them.
`prompted`, `entered` and `created` are histories of what was really typed and
reported.

**Pmm** reads a memory map entry by entry, in any order and combination; sums of
addresses wrap at `Word`.  `ram` is a history: the frames that lie inside available
memory in unbounded arithmetic.  Nothing in the kernel calls the allocator yet, so
`Clients` stand for the code that will, and are trusted to free what they hold.

**Disk** follows a sector from fs.c to the drive.  A sector is a text under a set
of keystreams, so that a sector read with another key, nonce or address than it was
written with is not a text.  A call of ata.c is a program counter with a step per
access to the drive; the drive seeks, stores, errs and is slow on its own, and every
wait of the driver may time out and leave it at work.  "main" is the boot, then a
process with interrupts on; "irq" is a command in the keyboard interrupt.  Two
one-bit registers stand for the four address registers.  `last` is the history of
the texts a sector may hold, `suspect` of the sectors that two overlapping calls can
reach.

**Rtl8139** has the ring as memory words, so that a wrong offset reads what is
there; the card writes behind the driver and the driver's copies of `rx_offset` are
separate reads.  A packet may be longer than the driver takes (`MaxLength`).
`rtl8139_send()` is one step in a ping, which nothing interrupts, and six in the main
loop: the slot, the two halves of `tx_next`'s increment, the wait for OWN, the copy, the
start.  `overlapped` records that a ping received in the middle of the main loop's
receive, `circled` that a ping sent through the descriptor the main loop had found free
and not yet started.  **Drivers** puts the two next to one another: they share no state,
and a behaviour exercises one of them, its `subject`.

**Net** handles one frame per action, with one exception: `cache_learn()` as the main
loop runs it, with interrupts on, is a search and up to three stores (`learning` is what
it has in hand), and a ping may run between any two.  A ping's own is one step.  Hosts on the link and a distant one answer
truthfully; the network loses, reorders, duplicates and corrupts what they send.
`onWire` and `answered` are histories: the pairs of host and sequence number that an
echo request went out with, and that the host answered; `replied` has the requests
for which `icmp_handle_packet()` accepted a reply, `known` and `refused` those that were
tried with the next hop's address in the cache and those of them the card refused a frame,
`raced` that a ping stored into the slot the main loop had picked, and `bound` the callback
bound last to a port.

## Runs

| run | instance | shows |
|---|---|---|
| FsStore | 2 names, 3 inodes, 4 sectors, 2 blocks of 2 units, 1 handle, 1 restart at rest, callers that close before deleting | `ImplementsFileStore`, `DurableAtRest`, `NoLeak` |
| FsCrash | 2 names, 5 sectors, 2 blocks, 2 power failures anywhere, 1 failing read at a mount | `SectorsOwned`, `MountableDisk`, `DirectorySound` |
| FsFault | 2 names, 3 sectors, 1 block, 1 failing access anywhere | `OtherFilesUntouched`, `OperationsEnd` |
| Scheduler | 5 threads, all policies | `CurrentRuns`, `TerminatedForGood`, `RoundRobinServes` |
| Process | 4 threads, 3 process slots, 2 handles | `FindsItself`, `ReturnedLeavesNothingOpen`, `ProcessesFinish` |
| Sync | 3 workers, a mutex, a semaphore of count 1 with a queue of 1 | `HolderAlone`, `LockComesFree`, `NeverOverAdmits`, `QueueSound` |
| Commands | 3 names, 2 inodes, texts of 1 and 2 units, 2 handles, every failure but unreadable data, unreported ones too | `SaysTheTruth`, `HandlesReleased`, `MoveKeepsText` |
| Nano | 3 lines of 2 characters, 2 visible, every failure of load and save | `CursorInside`, `RoundTrip`, `CleanIsOnDisk`, `OneCharacterPerKey` |
| Pmm | 7 frames of 4 bytes, 6-bit addresses, maps of up to 3 of 11 regions, 2 clients | `UsedIsCounted`, `FreeIsUsable`, `HeldOnce` |
| Drivers | disk: 4 sectors, 2 boots, 1 error, 2 calls after the boot; card: a ring of 32 bytes, 3 packets of three lengths, one of them too long, 2 descriptors, 3 sends, 1 ping | `SectorsKept`; `FramesOnce`, `RingDrains`, `TransmitsAll` |
| Net | 3 hosts on the link, 1 beyond, a cache of 2, 3 ports over 2 bindings, 2 callbacks, 2 pings of 2 tries, 2 frames in flight, up to 5 calls or unasked-for frames on one subject (`OneSubject`) | `PingTellsTruth`, `ArpNamesOnce`, `DatagramsReachOwner` |
| Console | 6 persons, lines of 2, histories of 2, 2 accounts, 2 restarts, 1 failing file call | `ModifiersFollowKeys`, `SessionIsEarned`, `AccountsSurvive`, `HistoryShown`, `SessionsApart` |

### Why the bounds are enough

- *Fs.*  Two names make every pair of files; three inodes are the root and two
  files; four or five sectors, two of them the directory's, make space run out
  with two files of two blocks.  `BlockSize = 2` with buffers of one and three
  units makes writes start and end in the middle of a block and cross one.  Two
  power failures let the second fall on what the first left, and a restart in
  between format or mount.  FsFault trades blocks for failures: one failing access
  is enough for every error path, since each operation returns or breaks at its
  first error except for the two saves at the end of `fs_write()`.  Its one block means
  that there `OperationsEnd` takes one turn of the write loop; several turns are in
  FsStore, which has no liveness.  FileStore's write asks of the bytes it stores only
  that they are data: which bytes they are is what Fs's own action says.
- *Scheduler.*  Five threads put the current index at the first, a middle and the
  last place, with ready threads on both sides.
- *Process.*  Two processes race for a handle while a third is created; with more
  they only wait in line.  A process opens at most as many files as it can register.
- *Sync.*  One holder, one that spins, one that arrives; a queue of one with three
  waiters makes the queue full; two signals make a woken waiter compete with a late one.
  With a queue of one nobody can stand in it twice or out of order: that part of
  `QueueSound` rests on the theorem.
- *Commands.*  Two-unit texts take two turns of the copy loop (`Chunk = 1`);
  a file of `MaxSize` is reached.  Three names over two inodes let a name that a failed
  delete has left behind meet the file that is created next on its inode, and run out of
  inodes.
- *Nano.*  Three lines of which two are visible make the view scroll; a line
  of two characters makes merges that fit and merges that do not; the texts
  loaded exceed both limits.
- *Pmm.*  The regions start and end inside frames, overlap, are empty, wrap, exceed
  32 bits and lie beyond the tracked memory; three of them make every pair overlap
  in either order before a third.
- *Disk.*  Two boots are a format and a mount, or two mounts of an older disk; two
  calls are a process's and the command that cuts into it, and a write followed by
  the read that finds what it left.  Three calls with two shell sectors (900,000
  states) and four with one (2.6 million) were checked once with Disk alone.
- *Rtl8139.*  Packets of 12, 16 and 20 bytes in a ring of 32 wrap at several offsets, the
  third one inside a packet; the longest is refused.  Three sends over two descriptors
  come round to the first while the main loop is still at it.
- *Net.*  All behaviours of two operations (a ping, a call of `udp_bind()`,
  `udp_unbind()` or `udp_send()`, a frame nobody asked for), and longer ones on one
  subject, which the constraint `OneSubject` names: three operations with the gateway and
  what is behind it, where the reply to the first of two pings arrives during the second
  and two tries are a retry; a ping to the gateway and two ARP requests, where three hosts
  overflow a cache of two and a ping learns one address while the main loop learns another
  or the same; five operations on datagrams, where three ports over two bindings make
  `udp_bind()` refuse and leave room for a rebinding and a datagram after that.
- *Console.*  Each of `MCPersons` types without end, but with a subset of the keys and
  a bound on how many are down and how many bytes wait: one signs up and logs in, one
  edits and walks the history, one uses Ctrl and Alt, one types ahead of the decoder,
  two play with the modifiers.  Names of two characters are longer than `NameMax`.

### Fairness

- `Scheduler`, `Process`, `Sync`: weak fairness of `scheduler_tick`, the PIT
  never stops and interrupts are on whenever a thread runs; strong fairness of a
  thread's own steps, because a thread that has the processor again and again
  executes instructions each time although a tick may come before any one of them.
  Calling an operation at all is never assumed.
- `Fs`: weak fairness of an operation's next step.  Nothing in fs.c
  waits for anybody, the ATA driver's polls are bounded.
- `Drivers`: weak fairness of the steps of `net_poll()`, which the main loop calls
  after every timer interrupt, and strong fairness of a ping's end, whose loop is
  bounded by `PING_MAX_ITERATIONS`.  Nothing is assumed of the network.

The deadlock check is off in Net and Drivers, where the bounds on calls and frames
let a behaviour stop.  Everywhere else something goes on for ever: the timer ticks,
keys are pressed, and a file system that failed to mount answers every call with an
error (`NotReady`).

## Where the code is exposed

What the models reach that the code does not handle, with the line in
`PROJECT.json`'s findings or hazards.  Where a property of a passing run has to
except one of them, it does so by the name given here, and by nothing wider.

1. *An unreadable superblock is formatted over.*  `fs_init()` formats when
   `load_superblock()` returns 0, which also means a failed read (`fs.c:1073`).  Fs
   with `"superread"` among its `Faults` violates `FormatsOnlyBlankDisk`; Disk with
   `SuperReadMayFail = TRUE` violates `SectorsKept`.
2. *A signal can be lost.*  `semaphore_signal()` to a queued waiter does not count
   the signal, and the waiter it wakes tries the count again, which is still 0
   (`sync.c:229`).
3. *A waiter can sleep with the spinlock.*  It blocks before it releases
   (`sync.c:180`); a tick between the two leaves its waker spinning for ever.
   `ARCHITECTURE.md:927` leaves deadlock analysis to future work.
4. *A move can lose text.*  `fs_read()` answers an unreadable sector with 0, `mv`
   takes 0 as the end of the file and removes the source, against the comment at
   `shell.c:1866`.  Commands with `"read"` among its `Faults` violates `MoveKeepsText`.
   It can also lose text when the power fails after a save that failed: `fs_write()`
   ignores the result of `save_inode()` and `save_bitmap()` (`fs.c:1592-1596`) and reports
   every byte, so `write`, `cp` and `mv` report as done what the next boot does not find
   (`torn` in Commands).
5. *A delete that fails half way* leaves its name with a FREE inode, when a save
   failed (`fs.c:1289-1298`, it returns 0) or when the entry was not read or not
   cleared (`fs.c:1310-1326`, it returns 1 and `rm` says so). A create whose entry was
   stored although its write failed does the same (`fs.c:1231-1243`). The next
   `fs_create()` takes that inode (`fs.c:1177-1217`), two names share it, and a later
   command on one of them changes or loses the other's text. `SaysTheTruth` and
   `MoveKeepsText` are about commands that start before that (`Sound`). A delete *cut
   by a power failure* can leave a sector with two owners (`torn` in Fs);
   `ARCHITECTURE.md:895` leaves crash recovery to future work.
6. *Two callers at once.* Process A of `processtest` calls `fs_exists()`,
   `fs_create()` and `fs_open()` with interrupts on (`shell.c:1174-1180`), and a shell
   command can run whole operations of fs.c in the middle; Fs has one caller and
   leaves that out. Of the two processes that the race in `fs_open()` gives one
   handle, the first to end closes the other's: `ReturnedLeavesNothingOpen` does not
   cover that. And a process's sector access and a command's in the middle of it mix
   their addresses in the drive's registers: a third sector, even the superblock, can
   be overwritten (`suspect` in Disk). With `Mixed(a, b)` reduced to `{a, b}`
   SectorsKept fails. `SelectLow` has the last not-busy read (`ata.c:179`) and the
   first register write (`ata.c:186`) in one step, and two processes that interleave
   are not modelled.
7. *A ping inside the main loop's network code.*  The ping's `net_poll()` moves
   `rx_offset` under the main loop's (`overlapped` in Rtl8139).  Its sends, up to 60 ARP
   retries, can come round to the descriptor the main loop has found free and not yet
   started (`rtl8139.c:134-158`), and one of the two frames is overwritten (`circled`).
   It can learn an address into the slot that the main loop's `cache_learn()` has picked
   and not yet filled (`arp.c:39-57`): the cache then names an address twice, or one with
   another host's hardware address (`raced` in Net); and in an overwritten slot 0 the new
   address stands with the old hardware address between two stores.  The other handlers
   are one step in Net, so a ping between the test and the copy of the main loop's
   `arp_resolve()` (`arp.c:112-114`), which can misdirect one answer, is left out.
8. *An over-long packet stops the receiver.*  `rtl8139_poll_receive()` refuses a packet
   longer than `ETH_MAX_FRAME + 4` without passing it (`rtl8139.c:201-206`), and meets it
   again at every poll; `RingDrains` promises what came before it (`Blocked`).
9. *Ping's words.*  "MAC never resolved via ARP" (`shell.c:1341-1346`) is printed whenever
   no request was accepted: also when the address was in the cache and the card refused
   every frame (`refused` in Net), or when the answer came after the last try.
   `ping_sequence` is 16 bits wide, and what `PingTellsTruth` says of replies is of the
   first 65535 pings.
10. *The editor.*  A file that cannot be opened or read whole opens as an empty or partial
    buffer without a mark (`nano.c:140-156`), and saving it replaces the file; a failed
    save of an unchanged buffer has deleted the file and shows no mark either
    (`nano.c:241-268`).  `lost` in Nano.
11. *Caps Lock* is toggled by every make code (`keyboard.c:446-450`), so holding it flips it
    at the repeat rate.
12. *Accounts.*  A failing save is not reported, so an account can be gone after the
   next boot; a table that cannot be read counts as none, and the sign-up that
   follows overwrites it (`failures = 0` in `AccountsSurvive`).  A power failure
   between the two files of the first sign-up leaves a machine without identity for good.
13. *Smaller ones.*  `fs_delete()` does not look for open handles, and no caller in
   the repository leaves one open (`NoStale`).  `process_register_fd()` drops a handle
   beyond `PROCESS_MAX_FDS`; no process opens that many.  FCFS and PRIORITY starve
   threads, and nothing selects them.  `process.h:109` says an exited process is
   `PROCESS_UNUSED`; the code answers `PROCESS_TERMINATED` (`ExitedIsUnused` in
   Process states the header's version).  `icmp.h:14` says 1 is returned when only an
   ARP request went out; it is 0, and ping relies on the 0.

## What is proved

Each theorem holds for every value of the constants that satisfies the `ASSUME` of the
module, and the hypotheses given here.  In each case the property is not inductive by
itself; the invariant that is stands in the component's module (parts of it named
`...Inv`), and has one lemma per action or group of actions in the proof module.  The
invariants of Fs, Commands, Nano, Net and Disk were checked with TLC as well, on instances like
those of the runs (`DiskInv` on 900,926 states, `CommandsInv` on 294,756).

Every invariant and action property of the runs is proved.  Nano's proofs need induction
over data.  The library's induction theorems take a predicate as a
parameter, which the installed provers cannot instantiate, so BasicProofs has induction in
the form of a set: `InductionOnSet`, that a set with 0 and the successors of its members
holds every natural number, from the least number outside it.  A recursive function is
used through the equations of its unfolding; that it satisfies them follows from
`RecursionExists`, also proved by induction.  Elsewhere induction is avoided by putting what
it would compute into the invariant as a witness: the flags after each waiting byte
(keyboard), the position of each packet (network card).

**FsProofs.**  All of them assume that the superblock can be read
(`"superread" \notin Faults`): otherwise a mounted disk is formatted (exposure 1) and none
of this is true.

| theorem | states | further hypotheses | invariant |
|---|---|---|---|
| `MetadataSound` | `Spec => []MetaInv` | | itself |
| `SectorsAreOwned` | `Spec => []SectorsOwned` | accesses or the power fail, not both | `MetaInv`, `OwnershipInv` |
| `MetadataDurable` | `Spec => []DurableAtRest` | no access fails | the same |
| `DiskMountable` | `Spec => []MountableDisk` | | `MetaInv`, `DataInv` |
| `DirectoryIsSound` | `Spec => []DirectorySound` | no access fails | `MetaInv`, `OwnershipInv`, `DirectoryInv` |
| `NothingLeaks` | `DisciplinedSpec => []NoLeak` | no access fails, power goes only at rest | all of these and `LeakInv` |
| `FsImplementsStore` | `DisciplinedSpec => ImplementsFileStore` | no access fails, power goes only at rest | those of `NothingLeaks` and `TextInv` |
| `FilesKeepTheirBytes` | `Spec => OtherFilesUntouched` | the power holds | `MetaInv`, `OwnershipInv`, `DataInv`, `ExtentInv` |

- `MetaInv` is the typing of all metadata, `FormatOrder` (how much of the disk each
  stage of `fs_format()` has initialised, and that the superblock is valid only after
  all of it) and `WriteLocals`.
- `OwnershipInv`: a mount replaces the tables by those of the disk, so the disk must
  satisfy `SectorsOwned` too, hence `DiskFollows`, which says by how much the disk may
  lag behind memory at each point of each operation; and the sector that
  `allocate_sector()` has marked and not returned must be nobody's, hence `FreshSector`.
  A failing save followed by a power failure does lose the correspondence: that is why
  not both may occur.
- `DataInv`: a sector is written before an inode leads to it, in memory and on the disk.
  It needs no hypothesis on failures, because `allocate_sector()` returns a sector only
  after zeroing it, and no failing step undoes a write.
- `DirectoryInv`: the directory lives only on the disk and the inodes also in memory, so
  what an entry leads to has to be said of both; `Naming` says what `fs_create()` knows
  between the inode it saved and the entry it is about to write.  With failing accesses
  the property is false: a name that cannot be read is created again.
- `LeakInv`: the bitmap is exactly the sectors of the inodes and the one being zeroed
  (`Pending`), a free inode has none, and only the file `fs_create()` is about to name
  has no name.  A stale handle would write sectors into a free inode, hence
  `DisciplinedSpec`; a power failure inside an operation does leak sectors.
- `TextInv`: a file has a sector wherever it has text, counting what a running
  `fs_write()` has stored so far (`Covered`), and an open handle stands inside a file that
  has a name (`HandleInside`).  The refinement then goes action by action: `fs_create()`
  creates when it writes the entry, `fs_delete()` deletes at its first step, each
  `WriteBlock` is one portion of a write, `fs_read()` returns exactly the stretch asked
  for because it meets no hole, a power failure is `Restart`, and every other step is
  invisible.  That the bytes of the other files and of the rest of the block stay is where
  `NoSharedSector` and `FreshSector` are used.
- `ExtentInv`: files end within their blocks, and `fs_write()` asks for a sector only
  where the block has none.  With `OwnershipInv` the block a step writes is then no other
  file's.  A power failure is excluded because a mount after failing saves takes the
  disk's older tables.

**ThreadProofs, Scheduler.**  `SchedulerInSync` (`CurrentRuns`), inductive with the type invariant,
and from it `ExitIsFinal` (`TerminatedForGood`); for every number of threads and policy.

**ThreadProofs, Sync.**  `MutexExcludes` (`HolderAlone`), `SemaphoreAdmits` (`NeverOverAdmits`) and
`WaitersAreQueued` (`QueueSound`), of the composition Sync, for any number of threads, any
initial count and any queue.  One invariant serves all: the scheduler's, `MutexInv` (for
each program counter what the lock word and the owner are) and `SemaphoreInv` (the
spinlock's holder is alone; a thread in the queue is on its way to `BLOCKED` or is
`BLOCKED`, and nobody else is).  `NeverOverAdmits` rests on the spinlock being exclusive
between the test of the count and its decrement.

**ThreadProofs, Process.**  `TrampolineFindsItself` (`FindsItself`), from `TableInv`: thread slots
are never reused, so an entry's thread index is its own for good.  `CleanupClosesAll`
(`ReturnedLeavesNothingOpen`), from `HandleInv`: an open handle is one its holder will
still come to close, or of a thread that ended by `thread_exit()` without cleanup.
Hypothesis: no process opens more files than it can register, for
`process_register_fd()` drops the rest.

**HardwareProofs, Pmm.**  `CountIsExact`, `FreeMemoryIsUsable`, `FramesHeldOnce`: the three properties
of Pmm, from one invariant that adds `WhileMapping` (what `pmm_init()` has released so
far lies in available memory).  The argument is in the lemmas on rounding (`RoundDown`,
`RoundUp`), on the end of a range that may wrap (`EndOfRange`), and on what is released
and reserved (`ReleasesOnlyInside`, `ReservesAllTouched`).  Assumption: the tracked memory
is smaller than the address space, and clients free only what they hold or what is free.

**NetProofs.**  `CacheIsSound` (`ArpNamesOnce`), `DatagramsDelivered` (`DatagramsReachOwner`)
and `PingIsTruthful` (`PingTellsTruth`), for any number of hosts, cache and binding slots,
tries and frames in flight, and up to 65535 pings.  `WireInv` says that a frame in flight is
honest unless this machine sent it, `BindingInv` that a port is bound at most once, `PingInv`
ties the one pending echo of `icmp.c` to the ping under way: sequence numbers are fresh, so a
late reply to an earlier ping cannot pass for this one's.  `LearnInv` is about the main loop's
`cache_learn()` cut off by a ping: unless the ping has stored another address into its slot
(`raced`), nothing but that slot has the address, and it is the slot a ping that learns the
same address takes too, so both fill the same one.

**ConsoleProofs.**  `HistoryIsShown` (`HistoryShown`), `SessionsAreEarned` (`SessionIsEarned`),
`AccountsAreKept` (`AccountsSurvive`) and `SessionsAreApart` (`SessionsApart`), of the
composition Console: any keys in any order, any limits, restarts and power failures
anywhere.  `BufferInv` bounds line and history; `AttemptInv` says that what is pending is
what was typed, although one buffer serves all prompts; `SavedInv` that `users.dat` holds
the table except between a new record and its save.
`DecoderFollowsKeys` (`ModifiersFollowKeys`) is about bytes that are still on the wire.
`KeyboardInv` says that there is a history of flags, one set per byte waiting, that starts
with the decoder's own, follows each byte as `keyboard_handler()` will, and ends with the
keys that are down and the parity of Caps Lock's make codes.  A key that goes down, repeats
or comes up lengthens the history at its end, the handler takes its first element away.
Assumption: no key's own code is the prefix E0.

**CommandsProofs.**  `CommandsCloseTheirHandles` (`HandlesReleased`), `MoveLosesNothing`
(`MoveKeepsText`) and `ReportsAreTrue` (`SaysTheTruth`), for any names, texts, chunk, file
size, inodes and handles, from `CommandsInv` (`CommandsSound`).  It has two layers.  On any
directory, names of free or shared inodes included, `OpenInv` says per program counter which
handles the command has and that they stand inside their files; that is all
`HandlesReleased` needs.  For a command that started on a sound directory `SoundInv` says that
it still is sound, what `cat` has printed, what `write` is about to store and, for `cp` and
`mv`, that the destination is the part of the source read so far (`CatInv`, `WriteInv`,
`CopyInv`).  A command's calls may make the directory unsound, but only the call that is
its last.  The second and third theorem assume that stored data can be read back
(`"read" \notin Faults`): otherwise they are false (exposure 4).  Creates, deletes, writes and
saves may fail, reported or not, and the power may go anywhere.

**NanoProofs.**  `EditorStaysInside` (`CursorInside`), `SavedBuffersComeBack` (`RoundTrip`),
`CleanBufferIsSaved` (`CleanIsOnDisk`) and `KeysChangeOneCharacter` (`OneCharacterPerKey`), for
every grid, window, alphabet and file, from `NanoInv` (`EditorSound`): types, cursor and
lines within the grid, and what the modified flag means, with the exceptions recorded in
`lost` (exposure 10).  The two loops, `buffer_load()` and
`buffer_save()`, are recursive functions of the number of steps taken; by induction on it
the saved text is the concatenation of the lines with their newlines, and loading is back at
a line's beginning after each newline, with exactly the lines saved so far.  That needs the
grid to fit into a file, `MaxLines * (MaxLineLen + 1) <= MaxFileSize` in the module, which
nano.c's 200 lines of 79 and fs.h's 16384 bytes satisfy.  `KeysChangeOneCharacter` sees the
buffer as one string (`Flat`) with the cursor at an `Offset` in it, and shows for each
handler what it does to that string.

**HardwareProofs, network card.**  `FramesComeOnce` (`FramesOnce`) and `NothingUnsent`
(`TransmitsAll`), for every ring, any packet lengths that fit it, any number of descriptors,
packets, pings and sends.  The ring is a window of an endless one: a packet has a position
that never wraps, and `RingInv` says that, unless a receive was cut into (`overlapped`,
exposure 7), reader and card stand at packet boundaries of the endless ring, that the ring
holds every word from the one to the other, and what each of the two pollers has read so
far.  The main loop and the ping may both poll, one call after the other.  A packet too long
for the driver stays where it is and the reader before it.  `TxInv` counts the frames accepted
as those on the wire and those in descriptors, at each step of the main loop's send: unless a
ping came round to it (`circled`), the descriptor found free stays free until it is started.  Assumptions, all true of the
card: ring and padding are multiples of 4, a packet with its header is smaller than the ring
and its overhang fits the padding, and a packet is longer than its checksum (`n > 4`).

**HardwareProofs, disk.**  `SectorsStay` (`SectorsKept`), for any texts, registry, slots, boots,
errors and calls, when the superblock's read at boot does not fail (`~SuperReadMayFail`):
otherwise `fs_init()` formats a disk with files, and a format cut short leaves the old
superblock over sectors under the new key (exposure 1).  `DiskInv` has a part for each reason
why a sector may be trusted: the device the file system uses has the keys of the superblock
(`DeviceFits`); nothing is stored before the superblock is read (`BootQuiet`); the calls fit
the stage of the boot (`CallsFit`); a call nothing cut into knows how far the drive has
followed it, after any wait and any timeout (`CallsFollow`); a call that was cut into reaches
suspect sectors only, whatever registers and drive hold when it goes on (`CutFits`); what the
drive is storing (`StoreFits`) and what it has stored (`PlatterFits`) is under the keys of the
superblock in force, except in suspect sectors.  Assumption: the registry has room for the
disk itself (`BlockdevMax` is not 0).

### Only model-checked

Everything under fairness: `OperationsEnd`, `RoundRobinServes`, `ProcessesFinish`,
`LockComesFree`, `RingDrains`.  The prover does no liveness.

## Not modelled

The cryptography (bit-level, checked by vectors in the code), descriptor tables
and paging (written once), the rest of `kernel_main()`, PCI probing (port input), output to
terminal and serial line, and the commands that only print.  System calls check
their arguments and end in an operation of another component.  The disk's self
tests, IDENTIFY and the contents of the RAM disk are left out of Disk, and checksums
are taken to find every corruption in Net.

## Plan

What remains would extend the model rather than the proofs: the argument checks of
`syscall.c`, IDENTIFY and the reset of the network card as steps of their own, and the
semaphore with its two defects (exposures 2 and 3) repaired, for which a liveness property
of `semaphore_wait()` could then be stated.
