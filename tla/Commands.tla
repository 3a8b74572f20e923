------------------------------ MODULE Commands ------------------------------
(***************************************************************************)
(* The file commands of src/shell/shell.c: touch, rm, cat, write, cp, mv.  *)
(*                                                                         *)
(* A command is a sequence of calls of fs.c, and a step below is one call  *)
(* that can fail or change the disk: power can fail between any two.  What *)
(* a call does is what module Fs shows of it, seen from the caller, with   *)
(* the failures that fs.c passes over in silence: a deletion that failed   *)
(* to store an inode leaves a name that leads to a FREE one, which the     *)
(* next fs_create() takes; one that failed to clear the name reports       *)
(* success; a write reports all its bytes although neither inode nor       *)
(* bitmap were stored.  Commands run one at a time, inside the keyboard    *)
(* interrupt; between two of them a process may have taken or given back   *)
(* a file handle.                                                          *)
(***************************************************************************)
EXTENDS Naturals, Sequences, Least

CONSTANTS
    Names,
    Data,           \* values of a unit of data
    Texts,          \* what the user passes to write
    Chunk,          \* units in the buffer of cat, cp and mv (512 bytes)
    NumInodes,      \* FS_MAX_FILES less the root directory's inode
    NumHandles,     \* FS_MAX_HANDLES
    MaxSize,        \* FS_MAX_FILE_SIZE
    Faults,         \* which calls of fs.c may fail
    Absent,         \* the contents of a name that does not exist
    Closed          \* a handle nobody has opened

Inodes == 1 .. NumInodes
HandleIdx == 0 .. (NumHandles - 1)

ASSUME CommandsAssumption ==
    /\ Texts \subseteq Seq(Data) /\ Chunk \in Nat \ {0} /\ NumHandles \in Nat
    /\ NumInodes \in Nat
    /\ MaxSize \in Nat /\ \A t \in Texts : Len(t) <= MaxSize
    /\ Faults \subseteq {"create", "delete", "full", "read", "save", "crash"}
    /\ Absent \notin Seq(Data) /\ Closed \notin [inode : Inodes, pos : Nat]

VARIABLES
    entry,      \* the directory: the inode of every name, 0 for a name without one
    text,       \* what every inode holds
    free,       \* the inodes whose mode is FS_MODE_FREE
    unsaved,    \* the inodes of which a save has failed and none succeeded since
    handles,    \* the open handles: an inode and a position
    busy,       \* the handles that processes hold
    cmd,        \* the command under way, or the last one
    moving,     \* history: what the last mv was to move, and between which names
    torn        \* history: power failed while some inode was unsaved

disk == <<entry, text, free, unsaved>>
vars == <<entry, text, free, unsaved, handles, busy, cmd, moving, torn>>

NoCmd == [op |-> "none", pc |-> "idle", src |-> Absent, dst |-> Absent, text |-> <<>>,
          sfd |-> 0, dfd |-> 0, ok |-> TRUE, orig |-> Absent, sound |-> TRUE,
          said |-> "nothing"]
NoMove == [from |-> Absent, to |-> Absent, text |-> Absent]

Init ==
    /\ entry = [n \in Names |-> 0] /\ text = [i \in Inodes |-> <<>>]
    /\ free = Inodes /\ unsaved = {} /\ torn = FALSE
    /\ handles = [h \in HandleIdx |-> Closed] /\ busy = {}
    /\ cmd = NoCmd /\ moving = NoMove

-----------------------------------------------------------------------------
(* fs.c as its callers see it.                                             *)

\* The contents of every name.
files == [n \in Names |-> IF entry[n] = 0 THEN Absent ELSE text[entry[n]]]
Exists(n) == entry[n] # 0
\* A name that has no file any more, though it may still be listed.
Gone(n) == entry[n] = 0 \/ entry[n] \in free

\* Every name leads to an inode that is in use, and no two to the same one.
Sound ==
    /\ \A n \in Names : entry[n] \notin free
    /\ \A m, n \in Names : m # n /\ entry[m] = entry[n] => entry[m] = 0

Unopened == {h \in HandleIdx \ busy : handles[h] = Closed}
Opened(n) == [handles EXCEPT ![Lowest(Unopened)] = [inode |-> entry[n], pos |-> 0]]

\* fs_create() takes the first FREE inode.
Blank(i) == text' = [text EXCEPT ![i] = <<>>]
CreateOk(n) ==
    /\ free # {}
    /\ LET i == Lowest(free) IN
       /\ entry' = [entry EXCEPT ![n] = i] /\ Blank(i)
       /\ free' = free \ {i} /\ unsaved' = unsaved \ {i}
\* The inode is in use and no name leads to it.
InodeNotSaved(i) ==
    free' = free \ {i} /\ unsaved' = unsaved \cup {i} /\ UNCHANGED entry
\* The entry's write failed, and may have been stored; the inode is FREE again.
EntryNotWritten(n, i) ==
    /\ entry' \in {entry, [entry EXCEPT ![n] = i]}
    /\ unsaved' \in {unsaved \ {i}, unsaved \cup {i}} /\ UNCHANGED free
CreateFails(n) ==
    \/ ("create" \in Faults \/ free = {}) /\ UNCHANGED disk
    \/ /\ "save" \in Faults /\ free # {}
       /\ LET i == Lowest(free) IN
          Blank(i) /\ (InodeNotSaved(i) \/ EntryNotWritten(n, i))

\* fs_delete() clears the first entry it reads that leads to the inode, if any, and
\* does not look at whether that was stored.
DeleteOk(n) ==
    LET i == entry[n] IN
    /\ Blank(i) /\ free' = free \cup {i} /\ unsaved' = unsaved \ {i}
    /\ \/ \E m \in Names : entry[m] = i /\ entry' = [entry EXCEPT ![m] = 0]
       \/ "save" \in Faults /\ UNCHANGED entry
\* A bitmap or an inode that is not saved: the name still leads to the FREE inode.
DeleteFails(n) ==
    \/ "delete" \in Faults /\ UNCHANGED disk
    \/ /\ "save" \in Faults /\ Blank(entry[n]) /\ free' = free \cup {entry[n]}
       /\ unsaved' = unsaved \cup {entry[n]} /\ UNCHANGED entry

\* How much fs_read() may return, and what it returns and does then.
Rest(h) == Len(text[handles[h].inode]) - handles[h].pos
Readable(h) == IF Rest(h) < Chunk THEN Rest(h) ELSE Chunk
ReadCounts(h) == IF "read" \in Faults THEN 0 .. Readable(h) ELSE {Readable(h)}
ReadText(h, k) == SubSeq(text[handles[h].inode], handles[h].pos + 1, handles[h].pos + k)
Advanced(h, k) == [handles EXCEPT ![h].pos = @ + k]

\* How much fs_write() may store, and the file after that.
Fits(h, t) == IF handles[h].pos + Len(t) > MaxSize
              THEN MaxSize - handles[h].pos ELSE Len(t)
WriteCounts(h, t) == IF Faults \cap {"full", "save"} = {} THEN {Fits(h, t)}
                     ELSE 0 .. Fits(h, t)
Overwritten(old, pos, t) ==
    [i \in 1 .. (IF pos + Len(t) > Len(old) THEN pos + Len(t) ELSE Len(old)) |->
        IF i \in (pos + 1) .. (pos + Len(t)) THEN t[i - pos] ELSE old[i]]
\* k units count as written.  A sector whose write failed may have been stored, which
\* shows where the file was as long already; a save that failed shows nowhere.
WriteFile(h, t, k) ==
    LET i == handles[h].inode IN
    /\ \E j \in k .. Fits(h, t) :
        /\ j = k \/ ("save" \in Faults /\ handles[h].pos + j <= Len(text[i]))
        /\ text' = [text EXCEPT ![i] = Overwritten(@, handles[h].pos, SubSeq(t, 1, j))]
    /\ \/ unsaved' = unsaved \ {i}
       \/ "save" \in Faults /\ unsaved' = unsaved \cup {i}
    /\ UNCHANGED <<entry, free>>

-----------------------------------------------------------------------------
Goto(pc) == cmd' = [cmd EXCEPT !.pc = pc]
Say(what) == cmd' = [cmd EXCEPT !.pc = "idle", !.said = what]
Idle == cmd.pc = "idle"
Starts == Idle /\ ~torn
Command(op, pc, n) ==
    [NoCmd EXCEPT !.op = op, !.pc = pc, !.dst = n, !.orig = files[n], !.sound = Sound]
Close(H) == handles' = [h \in HandleIdx |-> IF h \in H THEN Closed ELSE handles[h]]

touch(n) ==
    /\ Starts /\ ~Exists(n)
    /\ \/ CreateOk(n) /\ cmd' = [Command("touch", "idle", n) EXCEPT !.said = "created"]
       \/ CreateFails(n) /\ cmd' = [Command("touch", "idle", n) EXCEPT !.said = "failed"]
    /\ moving' = NoMove /\ UNCHANGED <<handles, busy, torn>>

rm(n) ==
    /\ Starts /\ Exists(n)
    /\ \/ DeleteOk(n) /\ cmd' = [Command("rm", "idle", n) EXCEPT !.said = "deleted"]
       \/ DeleteFails(n) /\ cmd' = [Command("rm", "idle", n) EXCEPT !.said = "failed"]
    /\ moving' = NoMove /\ UNCHANGED <<handles, busy, torn>>

\* cat: prints what it reads until a read returns 0.
cat(n) ==
    /\ Starts /\ Exists(n) /\ Unopened # {}
    /\ handles' = Opened(n)
    /\ cmd' = [Command("cat", "print", n) EXCEPT !.sfd = Lowest(Unopened)]
    /\ moving' = NoMove /\ UNCHANGED <<disk, busy, torn>>

CatRead ==
    /\ cmd.pc = "print"
    /\ \E k \in ReadCounts(cmd.sfd) :
        IF k = 0 THEN Close({cmd.sfd}) /\ Say("printed")
        ELSE /\ handles' = Advanced(cmd.sfd, k)
             /\ cmd' = [cmd EXCEPT !.text = @ \o ReadText(cmd.sfd, k)]
    /\ UNCHANGED <<disk, busy, moving, torn>>

\* write: creates the file unless it is there, then writes over its beginning.
WriteCreate(n, t) ==
    /\ Starts
    /\ LET this == [Command("write", "w_open", n) EXCEPT !.text = t] IN
       \/ Exists(n) /\ UNCHANGED disk /\ cmd' = this
       \/ ~Exists(n) /\ CreateOk(n) /\ cmd' = this
       \/ /\ ~Exists(n) /\ CreateFails(n)
          /\ cmd' = [this EXCEPT !.pc = "idle", !.said = "failed"]
    /\ moving' = NoMove /\ UNCHANGED <<handles, busy, torn>>

WriteOpen ==
    /\ cmd.pc = "w_open"
    /\ \/ /\ Unopened = {} /\ Say("failed") /\ UNCHANGED <<disk, handles>>
       \/ /\ Unopened # {}
          /\ handles' = Opened(cmd.dst)
          /\ cmd' = [cmd EXCEPT !.pc = "w_write", !.dfd = Lowest(Unopened)]
          /\ UNCHANGED disk
    /\ UNCHANGED <<busy, moving, torn>>

WriteText ==
    /\ cmd.pc = "w_write"
    /\ \E k \in WriteCounts(cmd.dfd, cmd.text) :
        /\ WriteFile(cmd.dfd, cmd.text, k)
        /\ Say(IF k = Len(cmd.text) THEN "written" ELSE "failed")
    /\ Close({cmd.dfd}) /\ UNCHANGED <<busy, moving, torn>>

-----------------------------------------------------------------------------
(* cp and mv: the same copy, after which mv deletes the source.            *)

CopyStart(op, s, d) ==
    /\ Starts /\ Exists(s) /\ ~Exists(d) /\ Unopened # {}
    /\ handles' = Opened(s)
    /\ cmd' = [NoCmd EXCEPT !.op = op, !.pc = "create", !.src = s, !.dst = d,
                            !.sfd = Lowest(Unopened), !.orig = files[s], !.sound = Sound]
    /\ moving' = IF op = "mv" /\ Sound THEN [text |-> files[s], from |-> s, to |-> d] ELSE NoMove
    /\ UNCHANGED <<disk, busy, torn>>

CopyCreate_leaks ==
    /\ cmd.pc = "create"
    /\ \/ CreateOk(cmd.dst) /\ Goto("open")
       \/ CreateFails(cmd.dst) /\ Say("failed")
    /\ UNCHANGED <<handles, busy, moving, torn>>
CopyCreate ==
    /\ cmd.pc = "create"
    /\ \/ CreateOk(cmd.dst) /\ Goto("open") /\ UNCHANGED handles
       \/ CreateFails(cmd.dst) /\ Close({cmd.sfd}) /\ Say("failed")
    /\ UNCHANGED <<busy, moving, torn>>

\* Without a handle the new, empty file stays.
CopyOpen ==
    /\ cmd.pc = "open"
    /\ \/ /\ Unopened = {} /\ Close({cmd.sfd}) /\ Say("failed")
       \/ /\ Unopened # {}
          /\ handles' = Opened(cmd.dst)
          /\ cmd' = [cmd EXCEPT !.pc = "read", !.dfd = Lowest(Unopened)]
    /\ UNCHANGED <<disk, busy, moving, torn>>

\* A read that returns 0 ends the loop as the end of the file does.
CopyRead ==
    /\ cmd.pc = "read"
    /\ \E k \in ReadCounts(cmd.sfd) :
        /\ handles' = Advanced(cmd.sfd, k)
        /\ cmd' = IF k = 0 THEN [cmd EXCEPT !.pc = "close"]
                  ELSE [cmd EXCEPT !.pc = "copy", !.text = ReadText(cmd.sfd, k)]
    /\ UNCHANGED <<disk, busy, moving, torn>>

CopyWrite_unchecked ==
    /\ cmd.pc = "copy"
    /\ \E k \in WriteCounts(cmd.dfd, cmd.text) :
        WriteFile(cmd.dfd, cmd.text, k) /\ handles' = Advanced(cmd.dfd, k)
    /\ Goto("read") /\ UNCHANGED <<busy, moving, torn>>
CopyWrite ==
    /\ cmd.pc = "copy"
    /\ \E k \in WriteCounts(cmd.dfd, cmd.text) :
        /\ WriteFile(cmd.dfd, cmd.text, k)
        /\ handles' = Advanced(cmd.dfd, k)
        /\ cmd' = IF k = Len(cmd.text) THEN [cmd EXCEPT !.pc = "read"]
                  ELSE [cmd EXCEPT !.pc = "close", !.ok = FALSE]
    /\ UNCHANGED <<busy, moving, torn>>

CopyClose ==
    /\ cmd.pc = "close"
    /\ Close({cmd.sfd, cmd.dfd})
    /\ cmd' = IF ~cmd.ok THEN [cmd EXCEPT !.pc = "undo"]
              ELSE IF cmd.op = "mv" THEN [cmd EXCEPT !.pc = "remove"]
              ELSE [cmd EXCEPT !.pc = "idle", !.said = "copied"]
    /\ UNCHANGED <<disk, busy, moving, torn>>

\* The partial copy goes, and whether that worked is not looked at.
CopyUndo_wrongName ==
    /\ cmd.pc = "undo"
    /\ DeleteOk(cmd.src) \/ DeleteFails(cmd.src)
    /\ Say("failed") /\ UNCHANGED <<handles, busy, moving, torn>>
CopyUndo ==
    /\ cmd.pc = "undo"
    /\ DeleteOk(cmd.dst) \/ DeleteFails(cmd.dst)
    /\ Say("failed") /\ UNCHANGED <<handles, busy, moving, torn>>

MoveRemove ==
    /\ cmd.pc = "remove"
    /\ \/ DeleteOk(cmd.src) /\ Say("moved")
       \/ DeleteFails(cmd.src) /\ Say("not removed")
    /\ UNCHANGED <<handles, busy, moving, torn>>

Copy == CopyCreate \/ CopyOpen \/ CopyRead \/ CopyWrite \/ CopyClose \/ CopyUndo
        \/ MoveRemove

-----------------------------------------------------------------------------
\* Between two commands a process opens a file or closes its own.
ProcessHandle(h) ==
    /\ Idle /\ handles[h] = Closed
    /\ busy' = IF h \in busy THEN busy \ {h} ELSE busy \cup {h}
    /\ UNCHANGED <<disk, handles, cmd, moving, torn>>

\* Power fails between two calls.  The disk keeps what the calls left, unless a save
\* had failed: what is mounted then is the matter of Fs, and no command follows here.
PowerFailure ==
    /\ "crash" \in Faults /\ ~torn
    /\ handles' = [h \in HandleIdx |-> Closed] /\ busy' = {}
    /\ cmd' = NoCmd /\ torn' = (unsaved # {}) /\ UNCHANGED <<disk, moving>>

Running == CatRead \/ WriteOpen \/ WriteText \/ Copy

Next ==
    \/ \E n \in Names : touch(n) \/ rm(n) \/ cat(n)
    \/ \E n \in Names, t \in Texts : WriteCreate(n, t)
    \/ \E s, d \in Names : CopyStart("cp", s, d) \/ CopyStart("mv", s, d)
    \/ Running
    \/ \E h \in HandleIdx : ProcessHandle(h)
    \/ PowerFailure

Spec == Init /\ [][Next]_vars

-----------------------------------------------------------------------------
(* What a command reports is so, when it started on a directory whose names lead to
   inodes in use, each to its own: a copy is the source's whole text under the new
   name, a move or a removal also left nothing under the old one (fs_delete() may
   leave the name itself), a failed copy or move left the source as it was, written
   text stands at the file's beginning with the rest of the old file behind it, and
   cat printed the file. *)
SaysTheTruth ==
    Idle /\ cmd.sound =>
        /\ cmd.said = "copied" => files[cmd.src] = cmd.orig /\ files[cmd.dst] = cmd.orig
        /\ cmd.said = "moved" => Gone(cmd.src) /\ files[cmd.dst] = cmd.orig
        /\ cmd.said = "not removed" => files[cmd.dst] = cmd.orig
        /\ cmd.said = "failed" /\ cmd.op \in {"cp", "mv"} => files[cmd.src] = cmd.orig
        /\ cmd.said = "written" =>
               files[cmd.dst] =
                   Overwritten(IF cmd.orig = Absent THEN <<>> ELSE cmd.orig, 0, cmd.text)
        /\ cmd.said = "printed" => cmd.text = cmd.orig
        /\ cmd.said = "deleted" => Gone(cmd.dst)

(* Whichever way a command ends, and whatever the directory was like, it has closed
   the handles it opened: only processes hold any. *)
HandlesReleased == Idle => \A h \in HandleIdx : handles[h] = Closed

(* shell_cmd_mv(): "the full contents of src are read into dst and src is only
   removed once that copy has fully succeeded": wherever a mv that started on a
   sound directory stops, on an error or by a power failure, the text is whole under
   one of the two names.  A power failure while the save of an inode has failed is
   excepted: fs_write() does not report that. *)
MoveKeepsText ==
    moving # NoMove /\ ~torn => moving.text \in {files[moving.from], files[moving.to]}
-----------------------------------------------------------------------------
(* The inductive invariant.  On any directory: what is open.  On a sound one: what
   each command has done at each of its steps. *)

Contents == Seq(Data) \cup {Absent}
Copying == {"create", "open", "read", "copy", "close", "undo", "remove"}
Said == {"nothing", "created", "deleted", "printed", "written", "copied", "moved",
         "not removed", "failed"}
Ops == {"none", "touch", "rm", "cat", "write", "cp", "mv"}
PCs == Copying \cup {"idle", "print", "w_open", "w_write"}
CmdRec == [op : Ops, pc : PCs,
           src : Names \cup {Absent}, dst : Names \cup {Absent}, text : Seq(Data),
           sfd : Nat, dfd : Nat, ok : BOOLEAN, orig : Contents, sound : BOOLEAN,
           said : Said]
Handle == [inode : Inodes, pos : Nat]
CommandsTypeOK ==
    /\ entry \in [Names -> 0 .. NumInodes] /\ text \in [Inodes -> Seq(Data)]
    /\ free \subseteq Inodes /\ unsaved \subseteq Inodes /\ torn \in BOOLEAN
    /\ handles \in [HandleIdx -> Handle \cup {Closed}] /\ busy \subseteq HandleIdx
    /\ cmd \in CmdRec

OnlyOpen(H) == \A h \in HandleIdx \ H : handles[h] = Closed
\* The open handles: none is behind the end of its file, which nobody cuts meanwhile.
Inside(h) ==
    /\ h \in HandleIdx /\ handles[h] # Closed
    /\ handles[h].pos <= Len(text[handles[h].inode])
Writable(h) == Inside(h) /\ handles[h].pos <= MaxSize
Named(n) == n \in Names /\ Exists(n)
Source == Named(cmd.src) /\ cmd.dst \in Names
OpenInv ==
    /\ HandlesReleased
    /\ cmd.pc = "print" => Inside(cmd.sfd) /\ OnlyOpen({cmd.sfd})
    /\ cmd.pc = "w_open" => Named(cmd.dst) /\ OnlyOpen({})
    /\ cmd.pc = "w_write" => Writable(cmd.dfd) /\ OnlyOpen({cmd.dfd})
    /\ cmd.pc \in {"create", "open"} =>
           Inside(cmd.sfd) /\ handles[cmd.sfd].pos = 0 /\ OnlyOpen({cmd.sfd})
    /\ cmd.pc \in {"read", "copy"} =>
           /\ Inside(cmd.sfd) /\ Writable(cmd.dfd) /\ cmd.sfd # cmd.dfd
           /\ OnlyOpen({cmd.sfd, cmd.dfd})
    /\ cmd.pc = "close" => OnlyOpen({cmd.sfd, cmd.dfd})
    /\ cmd.pc \in {"undo", "remove"} => OnlyOpen({})
    /\ cmd.pc \in Copying => Source
    /\ cmd.pc \in Copying \ {"create"} => Named(cmd.dst)

\* The command's handle h is on the file n, at the position p.
At(h, n, p) == h \in HandleIdx /\ handles[h] = [inode |-> entry[n], pos |-> p]

CatInv ==
    cmd.pc = "print" =>
        /\ cmd.op = "cat" /\ cmd.dst \in Names
        /\ cmd.orig \in Seq(Data) /\ files[cmd.dst] = cmd.orig
        /\ Len(cmd.text) <= Len(cmd.orig) /\ cmd.text = SubSeq(cmd.orig, 1, Len(cmd.text))
        /\ At(cmd.sfd, cmd.dst, Len(cmd.text))

WriteInv ==
    cmd.pc \in {"w_open", "w_write"} =>
        /\ cmd.op = "write" /\ cmd.dst \in Names /\ Len(cmd.text) <= MaxSize
        /\ files[cmd.dst] = IF cmd.orig = Absent THEN <<>> ELSE cmd.orig
        /\ cmd.pc = "w_write" => At(cmd.dfd, cmd.dst, 0)

\* Between read and write the copy is the first q units of the source, and the
\* buffer holds the units behind them.
CopyLoop(q) ==
    /\ q <= Len(cmd.orig) /\ files[cmd.dst] = SubSeq(cmd.orig, 1, q) /\ cmd.ok
    /\ At(cmd.dfd, cmd.dst, q)
    /\ cmd.pc = "read" => At(cmd.sfd, cmd.src, q)
    /\ cmd.pc = "copy" =>
           /\ q + Len(cmd.text) <= Len(cmd.orig)
           /\ cmd.text = SubSeq(cmd.orig, q + 1, q + Len(cmd.text))
           /\ At(cmd.sfd, cmd.src, q + Len(cmd.text))

\* All along the source is as it was.
CopyTask ==
    /\ cmd.op \in {"cp", "mv"} /\ cmd.src \in Names /\ cmd.dst \in Names
    /\ cmd.src # cmd.dst /\ cmd.orig \in Seq(Data) /\ files[cmd.src] = cmd.orig

CopyInv ==
    cmd.pc \in Copying =>
        /\ CopyTask
        /\ cmd.pc \in {"create", "open"} => cmd.ok /\ At(cmd.sfd, cmd.src, 0)
        /\ cmd.pc = "create" => ~Exists(cmd.dst)
        /\ cmd.pc = "open" => files[cmd.dst] = <<>>
        /\ cmd.pc \in {"read", "copy"} => \E q \in 0 .. MaxSize : CopyLoop(q)
        /\ cmd.pc = "remove" => cmd.op = "mv"
        /\ (cmd.pc = "close" /\ cmd.ok) \/ cmd.pc = "remove" =>
               "read" \in Faults \/ files[cmd.dst] = cmd.orig

\* What the move under way is to move.
MovingInv ==
    ~Idle => moving = IF cmd.op = "mv" /\ cmd.sound
                      THEN [from |-> cmd.src, to |-> cmd.dst, text |-> cmd.orig]
                      ELSE NoMove

SoundInv == cmd.sound /\ ~Idle => Sound /\ CatInv /\ WriteInv /\ CopyInv

CommandsInv ==
    /\ CommandsTypeOK /\ OpenInv /\ MovingInv /\ SoundInv
    /\ "read" \in Faults \/ (SaysTheTruth /\ MoveKeepsText)
=============================================================================
