-------------------------- MODULE CommandsProofs ----------------------------
(***************************************************************************)
(* Proofs about Commands, for any names, texts, inodes, buffer size and    *)
(* number of handles.  CommandsInv has two parts.  On any directory, also  *)
(* one that an unnoticed failure has spoilt, OpenInv says which handles    *)
(* the command holds.  For a command that started on a sound directory,    *)
(* SoundInv says what it has done at each of its steps: for the copy, that *)
(* the new file is the part of the source read so far.                     *)
(***************************************************************************)
EXTENDS Commands, BasicProofs

\* fs_write() at a position inside the file or at its end.
LEMMA OverwrittenIs ==
    ASSUME NEW old \in Seq(Data), NEW pos \in Nat, pos <= Len(old), NEW new \in Seq(Data)
    PROVE  /\ Overwritten(old, pos, new) \in Seq(Data)
           /\ Len(Overwritten(old, pos, new)) =
                  IF pos + Len(new) > Len(old) THEN pos + Len(new) ELSE Len(old)
           /\ \A i \in 1 .. Len(Overwritten(old, pos, new)) :
                  Overwritten(old, pos, new)[i] =
                      IF i \in (pos + 1) .. (pos + Len(new)) THEN new[i - pos] ELSE old[i]
<1>1. PICK n \in Nat : n = IF pos + Len(new) > Len(old) THEN pos + Len(new) ELSE Len(old)
  OBVIOUS
<1>2. PICK w : w = Overwritten(old, pos, new)
  OBVIOUS
<1>3. w = [i \in 1 .. n |->
              IF i \in (pos + 1) .. (pos + Len(new)) THEN new[i - pos] ELSE old[i]]
  BY <1>1, <1>2 DEF Overwritten
<1>4. ASSUME NEW i \in 1 .. n
      PROVE  (IF i \in (pos + 1) .. (pos + Len(new)) THEN new[i - pos] ELSE old[i]) \in Data
  <2>1. CASE i \in (pos + 1) .. (pos + Len(new))
    <3>1. i - pos \in 1 .. Len(new)
      BY <2>1
    <3> QED
      BY <2>1, <3>1
  <2>2. CASE i \notin (pos + 1) .. (pos + Len(new))
    <3>1. i \in 1 .. Len(old)
      BY <1>1, <2>2
    <3> QED
      BY <2>2, <3>1
  <2> QED
    BY <2>1, <2>2
<1>5. w \in [1 .. n -> Data]
  BY <1>3, <1>4
<1>6. w \in Seq(Data) /\ Len(w) = n
  BY <1>5
<1>7. \A i \in 1 .. n :
          w[i] = IF i \in (pos + 1) .. (pos + Len(new)) THEN new[i - pos] ELSE old[i]
  BY <1>3
<1> QED
  BY <1>1, <1>2, <1>6, <1>7

\* Writing the first k units of a stretch of s behind the part of s before it gives a
\* longer part of s.
LEMMA CopyGrows ==
    ASSUME NEW s \in Seq(Data), NEW q \in Nat, NEW n \in Nat, NEW k \in Nat, k <= n,
           q + n <= Len(s)
    PROVE  Overwritten(SubSeq(s, 1, q), q, SubSeq(SubSeq(s, q + 1, q + n), 1, k))
               = SubSeq(s, 1, q + k)
<1>1. PICK a : a = SubSeq(s, 1, q)
  OBVIOUS
<1>2. PICK b : b = SubSeq(s, q + 1, q + n)
  OBVIOUS
<1>3. PICK c : c = SubSeq(b, 1, k)
  OBVIOUS
<1>4. PICK d : d = SubSeq(s, 1, q + k)
  OBVIOUS
<1>5. a \in Seq(Data) /\ Len(a) = q /\ \A i \in 1 .. q : a[i] = s[i]
  <2>1. q <= Len(s)
    OBVIOUS
  <2> QED
    BY <1>1, <2>1, PrefixIs
<1>6. b \in Seq(Data) /\ Len(b) = n /\ \A i \in 1 .. n : b[i] = s[q + i]
  BY <1>2, StretchIs
<1>7. c \in Seq(Data) /\ Len(c) = k /\ \A i \in 1 .. k : c[i] = b[i]
  BY <1>3, <1>6, PrefixIs
<1>8. d \in Seq(Data) /\ Len(d) = q + k /\ \A i \in 1 .. (q + k) : d[i] = s[i]
  <2>1. q + k \in Nat /\ q + k <= Len(s)
    OBVIOUS
  <2> QED
    BY <1>4, <2>1, PrefixIs
<1>9. PICK w : w = Overwritten(a, q, c)
  OBVIOUS
<1>10. /\ w \in Seq(Data) /\ Len(w) = q + k
       /\ \A i \in 1 .. (q + k) : w[i] = IF i \in (q + 1) .. (q + k) THEN c[i - q] ELSE a[i]
  <2>1. q <= Len(a) /\ Len(c) = k /\ Len(a) = q
    BY <1>5, <1>7
  <2>2. /\ w \in Seq(Data)
        /\ Len(w) = IF q + Len(c) > Len(a) THEN q + Len(c) ELSE Len(a)
        /\ \A i \in 1 .. Len(w) :
              w[i] = IF i \in (q + 1) .. (q + Len(c)) THEN c[i - q] ELSE a[i]
    <3>1. a \in Seq(Data) /\ c \in Seq(Data)
      BY <1>5, <1>7
    <3>2. q <= Len(a)
      BY <2>1
    <3>3. /\ Overwritten(a, q, c) \in Seq(Data)
          /\ Len(Overwritten(a, q, c)) =
                 IF q + Len(c) > Len(a) THEN q + Len(c) ELSE Len(a)
          /\ \A i \in 1 .. Len(Overwritten(a, q, c)) :
                 Overwritten(a, q, c)[i] =
                     IF i \in (q + 1) .. (q + Len(c)) THEN c[i - q] ELSE a[i]
      BY <3>1, <3>2, OverwrittenIs, Zenon
    <3> QED
      BY <1>9, <3>3
  <2>3. Len(w) = q + k
    BY <2>1, <2>2
  <2> QED
    BY <2>1, <2>2, <2>3
<1>11. ASSUME NEW i \in 1 .. (q + k) PROVE w[i] = d[i]
  <2>1. CASE i \in (q + 1) .. (q + k)
    <3>1. i - q \in 1 .. k /\ i - q \in 1 .. n /\ q + (i - q) = i
      BY <2>1
    <3>2. w[i] = c[i - q] /\ c[i - q] = b[i - q] /\ b[i - q] = s[q + (i - q)]
      BY <1>6, <1>7, <1>10, <2>1, <3>1
    <3> QED
      BY <1>8, <3>1, <3>2
  <2>2. CASE i \notin (q + 1) .. (q + k)
    <3>1. i \in 1 .. q
      BY <2>2
    <3> QED
      BY <1>5, <1>8, <1>10, <2>2, <3>1
  <2> QED
    BY <2>1, <2>2
<1>12. w = d
  BY <1>8, <1>10, <1>11, SeqEqual
<1> QED
  BY <1>1, <1>2, <1>3, <1>4, <1>9, <1>12

-----------------------------------------------------------------------------
(* First the part that holds on any directory.                             *)

BaseInv == CommandsTypeOK /\ OpenInv

\* What the file system's variables are, whatever call was made.
DiskTypeOK ==
    /\ entry \in [Names -> 0 .. NumInodes] /\ text \in [Inodes -> Seq(Data)]
    /\ free \subseteq Inodes /\ unsaved \subseteq Inodes

\* No command at all.
LEMMA NoCmdIs ==
    /\ NoCmd \in CmdRec /\ NoCmd.pc = "idle" /\ NoCmd.said = "nothing" /\ NoCmd.ok = TRUE
    /\ NoCmd.text = <<>> /\ NoCmd.sound = TRUE
<1>1. <<>> \in Seq(Data)
  OBVIOUS
<1> QED
  BY <1>1 DEF NoCmd, CmdRec, Contents, Said, Ops, PCs

\* What a name holds.
LEMMA FilesIs ==
    ASSUME CommandsTypeOK
    PROVE  /\ files \in [Names -> Contents]
           /\ \A n \in Names : /\ ~Exists(n) => files[n] = Absent
                               /\ Exists(n) => /\ entry[n] \in Inodes /\ files[n] \in Seq(Data)
                                               /\ files[n] = text[entry[n]]
<1>1. ASSUME NEW n \in Names
      PROVE  /\ ~Exists(n) => files[n] = Absent
             /\ Exists(n) => /\ entry[n] \in Inodes /\ files[n] = text[entry[n]]
                             /\ text[entry[n]] \in Seq(Data)
  <2>1. Exists(n) => entry[n] \in Inodes
    BY CommandsAssumption DEF CommandsTypeOK, Exists, Inodes
  <2> QED
    BY <2>1 DEF CommandsTypeOK, Exists, files
<1> QED
  BY <1>1 DEF files, Contents

\* fs_create() takes a FREE inode.
LEMMA FirstFree ==
    ASSUME CommandsTypeOK, free # {}
    PROVE  Lowest(free) \in free /\ Lowest(free) \in Inodes /\ Lowest(free) # 0
<1>1. free \subseteq Inodes /\ Inodes \subseteq Nat /\ 0 \notin Inodes
  BY CommandsAssumption DEF CommandsTypeOK, Inodes
<1>2. PICK F \in SUBSET Nat : F = free
  BY <1>1
<1>3. Lowest(F) \in F
  BY <1>2, LowestOfSet
<1> QED
  BY <1>1, <1>2, <1>3

\* A new file is empty.
LEMMA CreatedType ==
    ASSUME CommandsTypeOK, NEW n \in Names, CreateOk(n)
    PROVE  /\ DiskTypeOK' /\ Named(n)' /\ (\A m \in Names : Named(m) => Named(m)')
           /\ \A i \in Inodes : text'[i] = text[i] \/ text'[i] = <<>>
<1>1. PICK i \in Inodes : i = Lowest(free) /\ i # 0
  BY FirstFree DEF CreateOk
<1>2. /\ entry' = [entry EXCEPT ![n] = i] /\ text' = [text EXCEPT ![i] = <<>>]
      /\ free' = free \ {i} /\ unsaved' = unsaved \ {i}
  BY <1>1 DEF CreateOk, Blank
<1>3. i \in 0 .. NumInodes /\ <<>> \in Seq(Data)
  BY <1>1, CommandsAssumption DEF Inodes
<1>4. DiskTypeOK'
  BY <1>1, <1>2, <1>3 DEF CommandsTypeOK, DiskTypeOK
<1>5. Named(n)' /\ (\A m \in Names : Named(m) => Named(m)')
  BY <1>1, <1>2 DEF CommandsTypeOK, Named, Exists
<1> QED
  BY <1>2, <1>4, <1>5 DEF CommandsTypeOK

\* A creation that failed.
LEMMA NotCreatedType ==
    ASSUME CommandsTypeOK, NEW n \in Names, CreateFails(n)
    PROVE  DiskTypeOK'
<1>1. CASE UNCHANGED disk
  BY <1>1 DEF disk, CommandsTypeOK, DiskTypeOK
<1>2. CASE /\ free # {} /\ Blank(Lowest(free))
           /\ InodeNotSaved(Lowest(free)) \/ EntryNotWritten(n, Lowest(free))
  <2>1. PICK i \in Inodes : i = Lowest(free)
    BY <1>2, FirstFree
  <2>2. i \in 0 .. NumInodes /\ <<>> \in Seq(Data)
    BY CommandsAssumption DEF Inodes
  <2>3. /\ entry' \in {entry, [entry EXCEPT ![n] = i]} /\ text' = [text EXCEPT ![i] = <<>>]
        /\ free' \in {free, free \ {i}} /\ unsaved' \in {unsaved \ {i}, unsaved \cup {i}}
    BY <1>2, <2>1 DEF Blank, InodeNotSaved, EntryNotWritten
  <2> QED
    BY <2>1, <2>2, <2>3 DEF CommandsTypeOK, DiskTypeOK
<1> QED
  BY <1>1, <1>2 DEF CreateFails

\* A deletion, reported or not.
LEMMA DeletedType ==
    ASSUME CommandsTypeOK, NEW n, Named(n), DeleteOk(n) \/ DeleteFails(n)
    PROVE  DiskTypeOK'
<1>1. PICK i \in Inodes : i = entry[n]
  BY FilesIs DEF Named
<1>2. <<>> \in Seq(Data) /\ 0 \in 0 .. NumInodes
  BY CommandsAssumption
<1>3. CASE UNCHANGED disk
  BY <1>3 DEF disk, CommandsTypeOK, DiskTypeOK
<1>4. CASE /\ text' = [text EXCEPT ![i] = <<>>] /\ free' = free \cup {i}
           /\ unsaved' \in {unsaved \ {i}, unsaved \cup {i}}
           /\ entry' = entry \/ \E m \in Names : entry' = [entry EXCEPT ![m] = 0]
  BY <1>1, <1>2, <1>4 DEF CommandsTypeOK, DiskTypeOK
<1> QED
  BY <1>1, <1>3, <1>4 DEF DeleteOk, DeleteFails, Blank

\* fs_write(): the file keeps its length or grows to the end of what counts as written.
LEMMA WrittenType ==
    ASSUME CommandsTypeOK, NEW h, Writable(h), NEW t \in Seq(Data),
           NEW k \in WriteCounts(h, t), WriteFile(h, t, k)
    PROVE  /\ k \in Nat /\ k <= Len(t) /\ handles[h].pos + k <= MaxSize
           /\ DiskTypeOK' /\ entry' = entry /\ free' = free
           /\ handles[h].pos + k <= Len(text'[handles[h].inode])
           /\ \A i \in Inodes : Len(text[i]) <= Len(text'[i])
<1>1. PICK i \in Inodes, p \in Nat :
          i = handles[h].inode /\ p = handles[h].pos /\ p <= Len(text[i]) /\ p <= MaxSize
  BY DEF Writable, Inside, CommandsTypeOK, Handle
<1>2. MaxSize \in Nat /\ Len(t) \in Nat
  BY CommandsAssumption
<1>3. PICK f \in Nat : f = Fits(h, t) /\ f <= Len(t) /\ p + f <= MaxSize
  <2>1. Fits(h, t) = IF p + Len(t) > MaxSize THEN MaxSize - p ELSE Len(t)
    BY <1>1 DEF Fits
  <2> QED
    BY <1>1, <1>2, <2>1
<1>4. k \in Nat /\ k <= f
  BY <1>3 DEF WriteCounts
<1>5. k <= Len(t) /\ p + k <= MaxSize
  BY <1>1, <1>2, <1>3, <1>4
<1>6. PICK j \in k .. f :
          text' = [text EXCEPT ![i] = Overwritten(@, p, SubSeq(t, 1, j))]
  BY <1>1, <1>3 DEF WriteFile
<1>7. PICK c : c = SubSeq(t, 1, j)
  OBVIOUS
<1>8. j \in Nat /\ j <= Len(t) /\ k <= j
  BY <1>2, <1>3, <1>4, <1>6
<1>9. c \in Seq(Data) /\ Len(c) = j
  BY <1>7, <1>8, PrefixIs
<1>10. PICK old \in Seq(Data) : old = text[i]
  BY <1>1 DEF CommandsTypeOK
<1>11. PICK w : w = Overwritten(old, p, c)
  OBVIOUS
<1>12. w \in Seq(Data) /\ Len(w) = IF p + Len(c) > Len(old) THEN p + Len(c) ELSE Len(old)
  BY <1>1, <1>9, <1>10, <1>11, OverwrittenIs
<1>13. Len(old) <= Len(w) /\ p + k <= Len(w)
  BY <1>1, <1>4, <1>8, <1>9, <1>10, <1>12
<1>14. text' = [text EXCEPT ![i] = w] /\ text \in [Inodes -> Seq(Data)]
  BY <1>6, <1>7, <1>10, <1>11 DEF CommandsTypeOK
<1>15. /\ entry' = entry /\ free' = free
       /\ unsaved' \in {unsaved \ {i}, unsaved \cup {i}}
  BY <1>1 DEF WriteFile
<1>16. DiskTypeOK'
  BY <1>1, <1>12, <1>14, <1>15 DEF CommandsTypeOK, DiskTypeOK
<1>17. ASSUME NEW l \in Inodes PROVE Len(text[l]) <= Len(text'[l])
  <2>1. Len(text[l]) \in Nat
    BY <1>14
  <2> QED
    BY <1>10, <1>13, <1>14, <2>1
<1>18. p + k <= Len(text'[i])
  BY <1>1, <1>13, <1>14
<1> QED
  BY <1>1, <1>4, <1>5, <1>15, <1>16, <1>17, <1>18

-----------------------------------------------------------------------------
\* The type invariant, put together.
LEMMA TypeParts ==
    ASSUME DiskTypeOK', torn' \in BOOLEAN, busy' \subseteq HandleIdx, cmd' \in CmdRec,
           handles' \in [HandleIdx -> Handle \cup {Closed}]
    PROVE  CommandsTypeOK'
BY DEF DiskTypeOK, CommandsTypeOK

\* A command that is over holds no handle.
LEMMA OpenEnds ==
    ASSUME cmd'.pc = "idle", \A h \in HandleIdx : handles'[h] = Closed
    PROVE  OpenInv'
BY DEF OpenInv, HandlesReleased, Copying

\* The record a command starts with.
LEMMA CommandIs ==
    ASSUME CommandsTypeOK, NEW n \in Names, NEW op \in Ops, NEW pc \in PCs
    PROVE  /\ Command(op, pc, n) \in CmdRec
           /\ Command(op, pc, n).op = op /\ Command(op, pc, n).pc = pc
           /\ Command(op, pc, n).dst = n /\ Command(op, pc, n).orig = files[n]
           /\ Command(op, pc, n).text = <<>> /\ Command(op, pc, n).sound = Sound
<1>1. PICK r \in CmdRec : r = NoCmd /\ r.text = <<>>
  BY NoCmdIs
<1>2. files[n] \in Contents /\ n \in Names \cup {Absent}
  BY FilesIs
<1>3. PICK b \in BOOLEAN : b = Sound
  BY DEF Sound
<1>4. Command(op, pc, n)
          = [r EXCEPT !.op = op, !.pc = pc, !.dst = n, !.orig = files[n], !.sound = b]
  BY <1>1, <1>3 DEF Command
<1> QED
  BY <1>1, <1>2, <1>3, <1>4 DEF CmdRec

\* fs_open() takes a handle that nobody has, and puts it at the file's beginning.
LEMMA OpenedIs ==
    ASSUME CommandsTypeOK, NEW n, Named(n), NEW l, l = Lowest(Unopened), Unopened # {},
           handles' = Opened(n)
    PROVE  /\ l \in HandleIdx /\ l \in Nat /\ handles[l] = Closed
           /\ handles'[l] = [inode |-> entry[n], pos |-> 0] /\ handles'[l] # Closed
           /\ handles'[l].pos = 0 /\ handles'[l].inode \in Inodes
           /\ \A h \in HandleIdx \ {l} : handles'[h] = handles[h]
           /\ handles' \in [HandleIdx -> Handle \cup {Closed}]
<1>0. Unopened \subseteq HandleIdx /\ HandleIdx \subseteq Nat
  BY CommandsAssumption DEF Unopened, HandleIdx
<1>1. PICK U \in SUBSET Nat : U = Unopened
  BY <1>0
<1>2. Lowest(U) \in U
  BY <1>1, LowestOfSet
<1>3. l \in HandleIdx /\ handles[l] = Closed /\ l \in Nat
  BY <1>0, <1>1, <1>2 DEF Unopened
<1>4. PICK r \in Handle : r = [inode |-> entry[n], pos |-> 0]
  BY FilesIs DEF Named, Handle
<1>5. r # Closed /\ r.pos = 0 /\ r.inode \in Inodes
  BY <1>4, CommandsAssumption DEF Handle
<1>6. handles' = [handles EXCEPT ![l] = r]
  BY <1>4 DEF Opened
<1> QED
  BY <1>3, <1>4, <1>5, <1>6 DEF CommandsTypeOK

\* It is inside its file.
LEMMA OpenedInside ==
    ASSUME CommandsTypeOK, NEW n, Named(n), NEW l, l = Lowest(Unopened), Unopened # {},
           handles' = Opened(n), text' = text
    PROVE  Inside(l)' /\ Writable(l)'
<1>1. /\ l \in HandleIdx /\ handles'[l] # Closed /\ handles'[l].pos = 0
      /\ handles'[l].inode \in Inodes
  BY OpenedIs
<1>2. Len(text'[handles'[l].inode]) \in Nat
  BY <1>1 DEF CommandsTypeOK
<1> QED
  BY <1>1, <1>2, CommandsAssumption DEF Inside, Writable

\* fs_close().
LEMMA ClosedIs ==
    ASSUME CommandsTypeOK, NEW H, Close(H)
    PROVE  /\ handles' \in [HandleIdx -> Handle \cup {Closed}]
           /\ \A h \in HandleIdx : handles'[h] = IF h \in H THEN Closed ELSE handles[h]
           /\ OnlyOpen(H) => \A h \in HandleIdx : handles'[h] = Closed
BY DEF Close, CommandsTypeOK, OnlyOpen

\* A handle that moves on.
LEMMA AdvancedIs ==
    ASSUME CommandsTypeOK, NEW h \in HandleIdx, handles[h] # Closed, NEW k \in Nat,
           handles' = Advanced(h, k)
    PROVE  /\ handles' \in [HandleIdx -> Handle \cup {Closed}]
           /\ handles'[h] = [inode |-> handles[h].inode, pos |-> handles[h].pos + k]
           /\ handles'[h] # Closed /\ handles'[h].inode = handles[h].inode
           /\ handles'[h].pos = handles[h].pos + k
           /\ \A g \in HandleIdx \ {h} : handles'[g] = handles[g]
<1>1. PICK r \in Handle : r = handles[h]
  BY DEF CommandsTypeOK
<1>2. PICK u : u = [inode |-> r.inode, pos |-> r.pos + k]
  OBVIOUS
<1>a. u \in Handle /\ u = [r EXCEPT !.pos = r.pos + k]
  BY <1>2 DEF Handle
<1>3. handles' = [handles EXCEPT ![h] = u]
  BY <1>1, <1>a DEF Advanced
<1>4. u # Closed /\ u.inode = r.inode /\ u.pos = r.pos + k
  BY <1>2, <1>a, CommandsAssumption DEF Handle
<1> QED
  BY <1>1, <1>2, <1>3, <1>4, <1>a DEF CommandsTypeOK

\* fs_read() stops at the end of the file.
LEMMA ReadType ==
    ASSUME CommandsTypeOK, NEW h, Inside(h), NEW k \in ReadCounts(h)
    PROVE  /\ k \in Nat /\ handles[h].pos + k <= Len(text[handles[h].inode])
           /\ ReadText(h, k) \in Seq(Data) /\ Len(ReadText(h, k)) = k
           /\ "read" \notin Faults /\ k = 0 => handles[h].pos = Len(text[handles[h].inode])
<1>1. PICK i \in Inodes, p \in Nat, s \in Seq(Data) :
          i = handles[h].inode /\ p = handles[h].pos /\ p <= Len(s) /\ s = text[i]
  BY DEF Inside, CommandsTypeOK, Handle
<1>2. Rest(h) = Len(s) - p /\ Len(s) - p \in Nat
  BY <1>1 DEF Rest
<1>3. PICK r \in Nat : r = Rest(h)
  BY <1>2
<1>4. PICK m \in Nat : m = Readable(h)
  BY <1>3, CommandsAssumption DEF Readable
<1>5. m <= r /\ (m = 0 => r = 0)
  BY <1>3, <1>4, CommandsAssumption DEF Readable
<1>6. k \in 0 .. m /\ ("read" \notin Faults => k = m)
  BY <1>4 DEF ReadCounts
<1>7. k \in Nat /\ p + k <= Len(s) /\ ("read" \notin Faults /\ k = 0 => p = Len(s))
  <2>1. r = Len(s) - p /\ Len(s) \in Nat
    BY <1>2, <1>3
  <2> QED
    BY <1>1, <1>5, <1>6, <2>1
<1>8. PICK t : t = SubSeq(s, p + 1, p + k)
  OBVIOUS
<1>9. t \in Seq(Data) /\ Len(t) = k
  <2>1. PICK j \in Nat : j = k
    BY <1>7
  <2>2. p + j <= Len(s)
    BY <1>7, <2>1
  <2>3. SubSeq(s, p + 1, p + j) \in Seq(Data) /\ Len(SubSeq(s, p + 1, p + j)) = j
    BY <2>2, StretchIs
  <2> QED
    BY <1>8, <2>1, <2>3
<1>10. ReadText(h, k) = t
  BY <1>1, <1>8 DEF ReadText
<1> QED
  BY <1>1, <1>7, <1>9, <1>10

-----------------------------------------------------------------------------
(* Every step keeps it.                                                    *)

\* The commands of one call, or of one call so far.
LEMMA BaseSingle ==
    ASSUME BaseInv, NEW n \in Names, touch(n) \/ rm(n)
    PROVE  BaseInv'
<1>1. CommandsTypeOK /\ \A h \in HandleIdx : handles[h] = Closed
  BY DEF BaseInv, OpenInv, HandlesReleased, touch, rm, Starts
<1>2. UNCHANGED <<handles, busy, torn>>
  BY DEF touch, rm
<1>3. DiskTypeOK'
  BY <1>1, CreatedType, NotCreatedType, DeletedType DEF touch, rm, Named
<1>4. cmd' \in CmdRec /\ cmd'.pc = "idle"
  <2>1. ASSUME NEW op \in {"touch", "rm"}, NEW what \in {"created", "deleted", "failed"},
               cmd' = [Command(op, "idle", n) EXCEPT !.said = what]
        PROVE  cmd' \in CmdRec /\ cmd'.pc = "idle"
    <3>1. op \in Ops /\ "idle" \in PCs /\ what \in Said
      BY DEF Ops, PCs, Said
    <3>2. PICK r \in CmdRec : r = Command(op, "idle", n) /\ r.pc = "idle"
      BY <1>1, <3>1, CommandIs
    <3>3. cmd' = [r EXCEPT !.said = what]
      BY <2>1, <3>2
    <3> QED
      BY <3>1, <3>2, <3>3 DEF CmdRec
  <2> QED
    BY <2>1 DEF touch, rm
<1>5. CommandsTypeOK'
  BY <1>1, <1>2, <1>3, <1>4, TypeParts DEF CommandsTypeOK
<1>6. OpenInv'
  BY <1>1, <1>2, <1>4, OpenEnds
<1> QED
  BY <1>5, <1>6 DEF BaseInv

\* cat opens its file.
LEMMA BaseCat ==
    ASSUME BaseInv, NEW n \in Names, cat(n)
    PROVE  BaseInv'
<1>1. CommandsTypeOK /\ \A h \in HandleIdx : handles[h] = Closed
  BY DEF BaseInv, OpenInv, HandlesReleased, cat, Starts
<1>2. PICK l : l = Lowest(Unopened)
  OBVIOUS
<1>3. Unopened # {} /\ handles' = Opened(n) /\ Named(n) /\ UNCHANGED <<disk, busy, torn>>
  BY DEF cat, Named
<1>4. /\ l \in HandleIdx /\ l \in Nat /\ handles' \in [HandleIdx -> Handle \cup {Closed}]
      /\ \A h \in HandleIdx \ {l} : handles'[h] = handles[h]
  BY <1>1, <1>2, <1>3, OpenedIs
<1>5. cmd' \in CmdRec /\ cmd'.pc = "print" /\ cmd'.sfd = l
  <2>1. "cat" \in Ops /\ "print" \in PCs
    BY DEF Ops, PCs
  <2>2. PICK r \in CmdRec : r = Command("cat", "print", n) /\ r.pc = "print"
    BY <1>1, <2>1, CommandIs
  <2>3. cmd' = [r EXCEPT !.sfd = l]
    BY <1>2, <2>2 DEF cat
  <2> QED
    BY <1>4, <2>2, <2>3 DEF CmdRec
<1>6. CommandsTypeOK' /\ text' = text
  BY <1>1, <1>3, <1>4, <1>5 DEF CommandsTypeOK, disk
<1>7. Inside(l)'
  BY <1>1, <1>2, <1>3, <1>6, OpenedInside
<1>8. Inside(cmd.sfd)' /\ OnlyOpen({cmd.sfd})'
  BY <1>1, <1>4, <1>5, <1>7 DEF Inside, OnlyOpen
<1>9. OpenInv'
  BY <1>5, <1>8 DEF OpenInv, HandlesReleased, Idle, Copying
<1> QED
  BY <1>6, <1>9 DEF BaseInv

\* write creates its file, unless it is there.
LEMMA BaseWrite ==
    ASSUME BaseInv, NEW n \in Names, NEW t \in Texts, WriteCreate(n, t)
    PROVE  BaseInv'
<1>1. CommandsTypeOK /\ \A h \in HandleIdx : handles[h] = Closed
  BY DEF BaseInv, OpenInv, HandlesReleased, WriteCreate, Starts
<1>2. UNCHANGED <<handles, busy, torn>> /\ t \in Seq(Data)
  BY CommandsAssumption DEF WriteCreate
<1>3. PICK r \in CmdRec : /\ r = [Command("write", "w_open", n) EXCEPT !.text = t]
                          /\ r.pc = "w_open" /\ r.dst = n
  <2>1. "write" \in Ops /\ "w_open" \in PCs
    BY DEF Ops, PCs
  <2>2. PICK q \in CmdRec : q = Command("write", "w_open", n) /\ q.pc = "w_open" /\ q.dst = n
    BY <1>1, <2>1, CommandIs
  <2>3. PICK r : r = [q EXCEPT !.text = t]
    OBVIOUS
  <2>4. r \in CmdRec /\ r.pc = "w_open" /\ r.dst = n
    BY <1>2, <2>2, <2>3 DEF CmdRec
  <2> QED
    BY <2>2, <2>3, <2>4
<1>4. \/ Exists(n) /\ UNCHANGED disk /\ cmd' = r
      \/ ~Exists(n) /\ CreateOk(n) /\ cmd' = r
      \/ CreateFails(n) /\ cmd' = [r EXCEPT !.pc = "idle", !.said = "failed"]
  BY <1>3 DEF WriteCreate
<1>5. CASE CreateFails(n) /\ cmd' = [r EXCEPT !.pc = "idle", !.said = "failed"]
  <2>1. cmd' \in CmdRec /\ cmd'.pc = "idle"
    BY <1>3, <1>5 DEF CmdRec, PCs, Said
  <2>2. DiskTypeOK'
    BY <1>1, <1>5, NotCreatedType
  <2>3. CommandsTypeOK'
    BY <1>1, <1>2, <2>1, <2>2, TypeParts DEF CommandsTypeOK
  <2>4. OpenInv'
    BY <1>1, <1>2, <2>1, OpenEnds
  <2> QED
    BY <2>3, <2>4 DEF BaseInv
<1>6. CASE cmd' = r /\ ((Exists(n) /\ UNCHANGED disk) \/ CreateOk(n))
  <2>1. DiskTypeOK' /\ Named(n)'
    <3>1. CASE Exists(n) /\ UNCHANGED disk
      BY <1>1, <3>1 DEF CommandsTypeOK, DiskTypeOK, Named, Exists, disk
    <3>2. CASE CreateOk(n)
      BY <1>1, <3>2, CreatedType
    <3> QED
      BY <1>6, <3>1, <3>2
  <2>2. CommandsTypeOK'
    BY <1>1, <1>2, <1>3, <1>6, <2>1, TypeParts DEF CommandsTypeOK
  <2>3. Named(cmd.dst)' /\ OnlyOpen({})'
    BY <1>1, <1>2, <1>3, <1>6, <2>1 DEF Named, Exists, OnlyOpen
  <2>4. OpenInv'
    BY <1>3, <1>6, <2>3 DEF OpenInv, HandlesReleased, Idle, Copying
  <2> QED
    BY <2>2, <2>4 DEF BaseInv
<1> QED
  BY <1>4, <1>5, <1>6

\* cp and mv open the source.
LEMMA BaseCopyStart ==
    ASSUME BaseInv, NEW s \in Names, NEW d \in Names, NEW op \in {"cp", "mv"},
           CopyStart(op, s, d)
    PROVE  BaseInv'
<1>1. CommandsTypeOK /\ \A h \in HandleIdx : handles[h] = Closed
  BY DEF BaseInv, OpenInv, HandlesReleased, CopyStart, Starts
<1>2. PICK l : l = Lowest(Unopened)
  OBVIOUS
<1>3. Unopened # {} /\ handles' = Opened(s) /\ Named(s) /\ UNCHANGED <<disk, busy, torn>>
  BY DEF CopyStart, Named
<1>4. /\ l \in HandleIdx /\ l \in Nat /\ handles' \in [HandleIdx -> Handle \cup {Closed}]
      /\ handles'[l].pos = 0 /\ \A h \in HandleIdx \ {l} : handles'[h] = handles[h]
  BY <1>1, <1>2, <1>3, OpenedIs
<1>5. /\ cmd' \in CmdRec /\ cmd'.pc = "create" /\ cmd'.sfd = l /\ cmd'.src = s
      /\ cmd'.dst = d
  <2>1. op \in Ops /\ "create" \in PCs /\ files[s] \in Contents
    BY <1>1, FilesIs DEF Ops, PCs, Copying
  <2>2. PICK r \in CmdRec : r = NoCmd
    BY NoCmdIs
  <2>3. PICK b \in BOOLEAN : b = Sound
    BY DEF Sound
  <2>4. cmd' = [r EXCEPT !.op = op, !.pc = "create", !.src = s, !.dst = d, !.sfd = l,
                         !.orig = files[s], !.sound = b]
    BY <1>2, <2>2, <2>3 DEF CopyStart
  <2> QED
    BY <1>4, <2>1, <2>2, <2>3, <2>4 DEF CmdRec
<1>6. CommandsTypeOK' /\ text' = text /\ entry' = entry
  BY <1>1, <1>3, <1>4, <1>5 DEF CommandsTypeOK, disk
<1>7. Inside(l)'
  BY <1>1, <1>2, <1>3, <1>6, OpenedInside
<1>8. /\ Inside(cmd.sfd)' /\ OnlyOpen({cmd.sfd})' /\ Source'
      /\ handles'[cmd'.sfd].pos = 0
  BY <1>1, <1>3, <1>4, <1>5, <1>6, <1>7 DEF Inside, OnlyOpen, Source, Named, Exists
<1>9. OpenInv'
  BY <1>5, <1>8 DEF OpenInv, HandlesReleased, Idle, Copying
<1> QED
  BY <1>6, <1>9 DEF BaseInv

\* cat reads on, or closes its file.
LEMMA BaseCatRead ==
    ASSUME BaseInv, CatRead
    PROVE  BaseInv'
<1>1. CommandsTypeOK /\ cmd \in CmdRec /\ Inside(cmd.sfd) /\ OnlyOpen({cmd.sfd})
  BY DEF BaseInv, OpenInv, CatRead, CommandsTypeOK
<1>2. UNCHANGED <<entry, text, free, unsaved, busy, torn>> /\ cmd.pc = "print"
  BY DEF CatRead, disk
<1>3. PICK h \in HandleIdx : h = cmd.sfd /\ handles[h] # Closed
  BY <1>1 DEF Inside
<1>4. PICK k \in ReadCounts(h) :
          IF k = 0 THEN Close({h}) /\ Say("printed")
          ELSE handles' = Advanced(h, k) /\ cmd' = [cmd EXCEPT !.text = @ \o ReadText(h, k)]
  BY <1>3 DEF CatRead
<1>5. /\ k \in Nat /\ handles[h].pos + k <= Len(text[handles[h].inode])
      /\ ReadText(h, k) \in Seq(Data)
  BY <1>1, <1>3, ReadType
<1>6. CASE k = 0
  <2>0. cmd' = [cmd EXCEPT !.pc = "idle", !.said = "printed"] /\ Close({h})
    BY <1>4, <1>6 DEF Say
  <2>1. cmd' \in CmdRec /\ cmd'.pc = "idle" /\ Close({h})
    BY <1>1, <2>0 DEF CmdRec, PCs, Said
  <2>2. /\ handles' \in [HandleIdx -> Handle \cup {Closed}]
        /\ \A g \in HandleIdx : handles'[g] = Closed
    BY <1>1, <1>3, <2>1, ClosedIs
  <2>3. CommandsTypeOK'
    BY <1>1, <1>2, <2>1, <2>2 DEF CommandsTypeOK
  <2> QED
    BY <2>1, <2>2, <2>3, OpenEnds DEF BaseInv
<1>7. CASE k # 0
  <2>1. cmd.text \o ReadText(h, k) \in Seq(Data)
    BY <1>1, <1>5 DEF CmdRec
  <2>2. cmd' \in CmdRec /\ cmd'.pc = "print" /\ cmd'.sfd = h
    BY <1>1, <1>2, <1>3, <1>4, <1>7, <2>1 DEF CmdRec
  <2>3. /\ handles' \in [HandleIdx -> Handle \cup {Closed}]
        /\ handles'[h] # Closed /\ handles'[h].inode = handles[h].inode
        /\ handles'[h].pos = handles[h].pos + k
        /\ \A g \in HandleIdx \ {h} : handles'[g] = handles[g]
    BY <1>1, <1>3, <1>4, <1>5, <1>7, AdvancedIs
  <2>4. CommandsTypeOK'
    BY <1>1, <1>2, <2>2, <2>3 DEF CommandsTypeOK
  <2>5. Inside(cmd.sfd)' /\ OnlyOpen({cmd.sfd})'
    BY <1>1, <1>2, <1>3, <1>5, <2>2, <2>3 DEF Inside, OnlyOpen
  <2>6. OpenInv'
    BY <2>2, <2>5 DEF OpenInv, HandlesReleased, Idle, Copying
  <2> QED
    BY <2>4, <2>6 DEF BaseInv
<1> QED
  BY <1>6, <1>7

\* write opens its file.
LEMMA BaseWriteOpen ==
    ASSUME BaseInv, WriteOpen
    PROVE  BaseInv'
<1>1. CommandsTypeOK /\ cmd \in CmdRec /\ Named(cmd.dst) /\ OnlyOpen({})
  BY DEF BaseInv, OpenInv, WriteOpen, CommandsTypeOK
<1>2. UNCHANGED <<entry, text, free, unsaved, busy, torn>>
  BY DEF WriteOpen, disk
<1>3. CASE Unopened = {}
  <2>1. UNCHANGED handles /\ cmd' \in CmdRec /\ cmd'.pc = "idle"
    BY <1>1, <1>3 DEF WriteOpen, Say, CmdRec, PCs, Said
  <2>2. CommandsTypeOK' /\ \A h \in HandleIdx : handles'[h] = Closed
    BY <1>1, <1>2, <2>1 DEF CommandsTypeOK, OnlyOpen
  <2> QED
    BY <2>1, <2>2, OpenEnds DEF BaseInv
<1>4. CASE Unopened # {}
  <2>1. PICK l, n : l = Lowest(Unopened) /\ n = cmd.dst /\ Named(n)
    BY <1>1
  <2>2. handles' = Opened(n) /\ cmd' = [cmd EXCEPT !.pc = "w_write", !.dfd = l]
    BY <1>4, <2>1 DEF WriteOpen
  <2>3. /\ l \in HandleIdx /\ l \in Nat /\ handles' \in [HandleIdx -> Handle \cup {Closed}]
        /\ \A h \in HandleIdx \ {l} : handles'[h] = handles[h]
    BY <1>1, <1>4, <2>1, <2>2, OpenedIs
  <2>4. cmd' \in CmdRec /\ cmd'.pc = "w_write" /\ cmd'.dfd = l
    BY <1>1, <2>2, <2>3 DEF CmdRec, PCs
  <2>5. CommandsTypeOK'
    BY <1>1, <1>2, <2>3, <2>4 DEF CommandsTypeOK
  <2>6. Writable(l)'
    BY <1>1, <1>2, <1>4, <2>1, <2>2, OpenedInside
  <2>7. Writable(cmd.dfd)' /\ OnlyOpen({cmd.dfd})'
    BY <1>1, <2>3, <2>4, <2>6 DEF Writable, Inside, OnlyOpen
  <2>8. OpenInv'
    BY <2>4, <2>7 DEF OpenInv, HandlesReleased, Idle, Copying
  <2> QED
    BY <2>5, <2>8 DEF BaseInv
<1> QED
  BY <1>3, <1>4

\* write writes and closes it.
LEMMA BaseWriteText ==
    ASSUME BaseInv, WriteText
    PROVE  BaseInv'
<1>1. CommandsTypeOK /\ cmd \in CmdRec /\ Writable(cmd.dfd) /\ OnlyOpen({cmd.dfd})
  BY DEF BaseInv, OpenInv, WriteText, CommandsTypeOK
<1>2. UNCHANGED <<busy, torn>> /\ Close({cmd.dfd})
  BY DEF WriteText
<1>3. PICK t \in Seq(Data), h \in Nat : t = cmd.text /\ h = cmd.dfd
  BY <1>1 DEF CmdRec
<1>4. PICK k \in WriteCounts(h, t), what \in {"written", "failed"} :
          WriteFile(h, t, k) /\ Say(what)
  BY <1>3 DEF WriteText
<1>5. DiskTypeOK'
  BY <1>1, <1>3, <1>4, WrittenType
<1>6. cmd' \in CmdRec /\ cmd'.pc = "idle"
  BY <1>1, <1>4 DEF Say, CmdRec, PCs, Said
<1>7. /\ handles' \in [HandleIdx -> Handle \cup {Closed}]
      /\ \A g \in HandleIdx : handles'[g] = Closed
  BY <1>1, <1>2, ClosedIs
<1>8. CommandsTypeOK'
  BY <1>1, <1>2, <1>5, <1>6, <1>7, TypeParts DEF CommandsTypeOK
<1> QED
  BY <1>6, <1>7, <1>8, OpenEnds DEF BaseInv

\* A copy creates the destination.
LEMMA BaseCopyCreate ==
    ASSUME BaseInv, CopyCreate
    PROVE  BaseInv'
<1>1. /\ CommandsTypeOK /\ cmd \in CmdRec /\ Source
      /\ Inside(cmd.sfd) /\ handles[cmd.sfd].pos = 0 /\ OnlyOpen({cmd.sfd})
  BY DEF BaseInv, OpenInv, CopyCreate, CommandsTypeOK, Copying
<1>2. UNCHANGED <<busy, torn>>
  BY DEF CopyCreate
<1>3. CASE CreateOk(cmd.dst) /\ Goto("open") /\ UNCHANGED handles
  <2>1. /\ cmd' \in CmdRec /\ cmd'.pc = "open" /\ cmd'.sfd = cmd.sfd /\ cmd'.src = cmd.src
        /\ cmd'.dst = cmd.dst
    BY <1>1, <1>3 DEF Goto, CmdRec, PCs, Copying
  <2>2. PICK d \in Names : d = cmd.dst
    BY <1>1 DEF Source
  <2>3. /\ DiskTypeOK' /\ Named(d)' /\ \A m \in Names : Named(m) => Named(m)'
        /\ \A i \in Inodes : text'[i] = text[i] \/ text'[i] = <<>>
    BY <1>1, <1>3, <2>2, CreatedType
  <2>4. CommandsTypeOK'
    BY <1>1, <1>2, <1>3, <2>1, <2>3, TypeParts DEF CommandsTypeOK
  <2>5. Source' /\ Named(cmd.dst)'
    BY <1>1, <2>1, <2>2, <2>3 DEF Source, Named, Exists
  <2>6. Inside(cmd.sfd)'
    <3>1. PICK i \in Inodes : i = handles[cmd.sfd].inode
      BY <1>1 DEF Inside, CommandsTypeOK, Handle
    <3>2. Len(text'[i]) \in Nat
      BY <2>3 DEF DiskTypeOK
    <3> QED
      BY <1>1, <1>3, <2>1, <3>1, <3>2 DEF Inside
  <2>7. handles'[cmd'.sfd].pos = 0 /\ OnlyOpen({cmd.sfd})'
    BY <1>1, <1>3, <2>1 DEF OnlyOpen
  <2>8. OpenInv'
    BY <2>1, <2>5, <2>6, <2>7 DEF OpenInv, HandlesReleased, Idle, Copying
  <2> QED
    BY <2>4, <2>8 DEF BaseInv
<1>4. CASE CreateFails(cmd.dst) /\ Close({cmd.sfd}) /\ Say("failed")
  <2>1. cmd' \in CmdRec /\ cmd'.pc = "idle"
    BY <1>1, <1>4 DEF Say, CmdRec, PCs, Said
  <2>2. DiskTypeOK'
    BY <1>1, <1>4, NotCreatedType DEF Source
  <2>3. /\ handles' \in [HandleIdx -> Handle \cup {Closed}]
        /\ \A g \in HandleIdx : handles'[g] = Closed
    BY <1>1, <1>4, ClosedIs
  <2>4. CommandsTypeOK'
    BY <1>1, <1>2, <2>1, <2>2, <2>3, TypeParts DEF CommandsTypeOK
  <2> QED
    BY <2>1, <2>3, <2>4, OpenEnds DEF BaseInv
<1> QED
  BY <1>3, <1>4 DEF CopyCreate

\* It opens the destination.
LEMMA BaseCopyOpen ==
    ASSUME BaseInv, CopyOpen
    PROVE  BaseInv'
<1>1. /\ CommandsTypeOK /\ cmd \in CmdRec /\ Source /\ Named(cmd.dst)
      /\ Inside(cmd.sfd) /\ OnlyOpen({cmd.sfd})
  BY DEF BaseInv, OpenInv, CopyOpen, CommandsTypeOK, Copying
<1>2. UNCHANGED <<entry, text, free, unsaved, busy, torn>>
  BY DEF CopyOpen, disk
<1>3. CASE Close({cmd.sfd}) /\ Say("failed")
  <2>1. cmd' \in CmdRec /\ cmd'.pc = "idle"
    BY <1>1, <1>3 DEF Say, CmdRec, PCs, Said
  <2>2. /\ handles' \in [HandleIdx -> Handle \cup {Closed}]
        /\ \A g \in HandleIdx : handles'[g] = Closed
    BY <1>1, <1>3, ClosedIs
  <2>3. CommandsTypeOK'
    BY <1>1, <1>2, <2>1, <2>2 DEF CommandsTypeOK
  <2> QED
    BY <2>1, <2>2, <2>3, OpenEnds DEF BaseInv
<1>4. CASE /\ Unopened # {} /\ handles' = Opened(cmd.dst)
           /\ cmd' = [cmd EXCEPT !.pc = "read", !.dfd = Lowest(Unopened)]
  <2>1. PICK l, n : l = Lowest(Unopened) /\ n = cmd.dst /\ Named(n)
    BY <1>1
  <2>2. handles' = Opened(n) /\ cmd' = [cmd EXCEPT !.pc = "read", !.dfd = l]
    BY <1>4, <2>1
  <2>3. /\ l \in HandleIdx /\ l \in Nat /\ handles' \in [HandleIdx -> Handle \cup {Closed}]
        /\ handles[l] = Closed /\ \A h \in HandleIdx \ {l} : handles'[h] = handles[h]
    BY <1>1, <1>4, <2>1, <2>2, OpenedIs
  <2>4. /\ cmd' \in CmdRec /\ cmd'.pc = "read" /\ cmd'.dfd = l /\ cmd'.sfd = cmd.sfd
        /\ cmd'.src = cmd.src /\ cmd'.dst = cmd.dst
    BY <1>1, <2>2, <2>3 DEF CmdRec, PCs, Copying
  <2>5. CommandsTypeOK'
    BY <1>1, <1>2, <2>3, <2>4 DEF CommandsTypeOK
  <2>6. Writable(l)'
    BY <1>1, <1>2, <1>4, <2>1, <2>2, OpenedInside
  <2>7. Writable(cmd.dfd)' /\ Inside(cmd.sfd)' /\ OnlyOpen({cmd.sfd, cmd.dfd})'
    BY <1>1, <1>2, <2>3, <2>4, <2>6 DEF Writable, Inside, OnlyOpen
  <2>8. Source' /\ Named(cmd.dst)'
    BY <1>1, <1>2, <2>4 DEF Source, Named, Exists
  <2>a. cmd'.sfd # cmd'.dfd
    BY <1>1, <2>3, <2>4 DEF Inside
  <2>9. OpenInv'
    BY <2>4, <2>7, <2>8, <2>a DEF OpenInv, HandlesReleased, Idle, Copying
  <2> QED
    BY <2>5, <2>9 DEF BaseInv
<1> QED
  BY <1>3, <1>4 DEF CopyOpen

\* It reads a buffer.
LEMMA BaseCopyRead ==
    ASSUME BaseInv, CopyRead
    PROVE  BaseInv'
<1>1. /\ CommandsTypeOK /\ cmd \in CmdRec /\ Source /\ Named(cmd.dst)
      /\ Inside(cmd.sfd) /\ Writable(cmd.dfd) /\ cmd.sfd # cmd.dfd
      /\ OnlyOpen({cmd.sfd, cmd.dfd})
  BY DEF BaseInv, OpenInv, CopyRead, CommandsTypeOK, Copying
<1>2. UNCHANGED <<entry, text, free, unsaved, busy, torn>>
  BY DEF CopyRead, disk
<1>3. PICK h \in HandleIdx : h = cmd.sfd /\ handles[h] # Closed
  BY <1>1 DEF Inside
<1>4. PICK k \in ReadCounts(h) :
          /\ handles' = Advanced(h, k)
          /\ cmd' = IF k = 0 THEN [cmd EXCEPT !.pc = "close"]
                    ELSE [cmd EXCEPT !.pc = "copy", !.text = ReadText(h, k)]
  BY <1>3 DEF CopyRead
<1>5. /\ k \in Nat /\ handles[h].pos + k <= Len(text[handles[h].inode])
      /\ ReadText(h, k) \in Seq(Data)
  BY <1>1, <1>3, ReadType
<1>6. /\ cmd' \in CmdRec /\ cmd'.pc \in {"close", "copy"} /\ cmd'.sfd = h
      /\ cmd'.dfd = cmd.dfd /\ cmd'.src = cmd.src /\ cmd'.dst = cmd.dst
  BY <1>1, <1>3, <1>4, <1>5 DEF CmdRec, PCs, Copying
<1>7. /\ handles' \in [HandleIdx -> Handle \cup {Closed}]
      /\ handles'[h] # Closed /\ handles'[h].inode = handles[h].inode
      /\ handles'[h].pos = handles[h].pos + k
      /\ \A g \in HandleIdx \ {h} : handles'[g] = handles[g]
  BY <1>1, <1>3, <1>4, <1>5, AdvancedIs
<1>8. CommandsTypeOK'
  BY <1>1, <1>2, <1>6, <1>7 DEF CommandsTypeOK
<1>9. Inside(cmd.sfd)' /\ Writable(cmd.dfd)' /\ OnlyOpen({cmd.sfd, cmd.dfd})'
  BY <1>1, <1>2, <1>3, <1>5, <1>6, <1>7 DEF Writable, Inside, OnlyOpen
<1>10. Source' /\ Named(cmd.dst)' /\ cmd'.sfd # cmd'.dfd
  BY <1>1, <1>2, <1>3, <1>6 DEF Source, Named, Exists
<1>11. OpenInv'
  BY <1>6, <1>9, <1>10 DEF OpenInv, HandlesReleased, Idle, Copying
<1> QED
  BY <1>8, <1>11 DEF BaseInv

\* It writes the buffer.
LEMMA BaseCopyWrite ==
    ASSUME BaseInv, CopyWrite
    PROVE  BaseInv'
<1>1. /\ CommandsTypeOK /\ cmd \in CmdRec /\ Source /\ Named(cmd.dst)
      /\ Inside(cmd.sfd) /\ Writable(cmd.dfd) /\ cmd.sfd # cmd.dfd
      /\ OnlyOpen({cmd.sfd, cmd.dfd})
  BY DEF BaseInv, OpenInv, CopyWrite, CommandsTypeOK, Copying
<1>2. UNCHANGED <<busy, torn>>
  BY DEF CopyWrite
<1>3. PICK h \in HandleIdx, t \in Seq(Data) :
          h = cmd.dfd /\ t = cmd.text /\ handles[h] # Closed /\ Writable(h)
  BY <1>1 DEF Writable, Inside, CmdRec
<1>4. PICK k \in WriteCounts(h, t) :
          /\ WriteFile(h, t, k) /\ handles' = Advanced(h, k)
          /\ cmd' = IF k = Len(t) THEN [cmd EXCEPT !.pc = "read"]
                    ELSE [cmd EXCEPT !.pc = "close", !.ok = FALSE]
  BY <1>3 DEF CopyWrite
<1>5. /\ k \in Nat /\ handles[h].pos + k <= MaxSize
      /\ DiskTypeOK' /\ entry' = entry
      /\ handles[h].pos + k <= Len(text'[handles[h].inode])
      /\ \A i \in Inodes : Len(text[i]) <= Len(text'[i])
  BY <1>1, <1>3, <1>4, WrittenType
<1>6. /\ cmd' \in CmdRec /\ cmd'.pc \in {"close", "read"} /\ cmd'.sfd = cmd.sfd
      /\ cmd'.dfd = h /\ cmd'.src = cmd.src /\ cmd'.dst = cmd.dst
  BY <1>1, <1>3, <1>4 DEF CmdRec, PCs, Copying
<1>7. /\ handles' \in [HandleIdx -> Handle \cup {Closed}]
      /\ handles'[h] # Closed /\ handles'[h].inode = handles[h].inode
      /\ handles'[h].pos = handles[h].pos + k
      /\ \A g \in HandleIdx \ {h} : handles'[g] = handles[g]
  BY <1>1, <1>3, <1>4, <1>5, AdvancedIs
<1>8. CommandsTypeOK'
  BY <1>1, <1>2, <1>5, <1>6, <1>7, TypeParts DEF CommandsTypeOK
<1>9. Inside(cmd.sfd)'
  <2>1. PICK i \in Inodes, p \in Nat :
            i = handles[cmd.sfd].inode /\ p = handles[cmd.sfd].pos /\ p <= Len(text[i])
    BY <1>1 DEF Inside, CommandsTypeOK, Handle
  <2>2. Len(text[i]) \in Nat /\ Len(text'[i]) \in Nat /\ Len(text[i]) <= Len(text'[i])
    BY <1>1, <1>5 DEF CommandsTypeOK, DiskTypeOK
  <2>3. p <= Len(text'[i])
    BY <2>1, <2>2
  <2> QED
    BY <1>1, <1>3, <1>6, <1>7, <2>1, <2>3 DEF Inside
<1>10. Writable(cmd.dfd)' /\ OnlyOpen({cmd.sfd, cmd.dfd})'
  BY <1>1, <1>3, <1>5, <1>6, <1>7 DEF Writable, Inside, OnlyOpen
<1>11. Source' /\ Named(cmd.dst)' /\ cmd'.sfd # cmd'.dfd
  BY <1>1, <1>3, <1>5, <1>6 DEF Source, Named, Exists
<1>12. OpenInv'
  BY <1>6, <1>9, <1>10, <1>11 DEF OpenInv, HandlesReleased, Idle, Copying
<1> QED
  BY <1>8, <1>12 DEF BaseInv

\* It closes both files.
LEMMA BaseCopyClose ==
    ASSUME BaseInv, CopyClose
    PROVE  BaseInv'
<1>1. /\ CommandsTypeOK /\ cmd \in CmdRec /\ Source /\ Named(cmd.dst)
      /\ OnlyOpen({cmd.sfd, cmd.dfd})
  BY DEF BaseInv, OpenInv, CopyClose, CommandsTypeOK, Copying
<1>2. UNCHANGED <<entry, text, free, unsaved, busy, torn>> /\ Close({cmd.sfd, cmd.dfd})
  BY DEF CopyClose, disk
<1>3. /\ handles' \in [HandleIdx -> Handle \cup {Closed}]
      /\ \A g \in HandleIdx : handles'[g] = Closed
  BY <1>1, <1>2, ClosedIs
<1>4. /\ cmd' \in CmdRec /\ cmd'.pc \in {"undo", "remove", "idle"} /\ cmd'.src = cmd.src
      /\ cmd'.dst = cmd.dst
  <2>1. {"undo", "remove", "idle"} \subseteq PCs /\ "copied" \in Said
    BY DEF PCs, Copying, Said
  <2>2. \/ \E pc \in {"undo", "remove"} : cmd' = [cmd EXCEPT !.pc = pc]
        \/ cmd' = [cmd EXCEPT !.pc = "idle", !.said = "copied"]
    BY DEF CopyClose
  <2> QED
    BY <1>1, <2>1, <2>2 DEF CmdRec
<1>5. CommandsTypeOK'
  BY <1>1, <1>2, <1>3, <1>4 DEF CommandsTypeOK
<1>6. Source' /\ Named(cmd.dst)' /\ OnlyOpen({})'
  BY <1>1, <1>2, <1>3, <1>4 DEF Source, Named, Exists, OnlyOpen
<1>7. OpenInv'
  BY <1>3, <1>4, <1>6 DEF OpenInv, HandlesReleased, Idle, Copying
<1> QED
  BY <1>5, <1>7 DEF BaseInv

\* It deletes the copy, or the source.
LEMMA BaseCopyDelete ==
    ASSUME BaseInv, CopyUndo \/ MoveRemove
    PROVE  BaseInv'
<1>1. /\ CommandsTypeOK /\ cmd \in CmdRec /\ Named(cmd.src) /\ Named(cmd.dst)
      /\ OnlyOpen({})
  BY DEF BaseInv, OpenInv, CopyUndo, MoveRemove, CommandsTypeOK, Copying, Source
<1>2. UNCHANGED <<handles, busy, torn>>
  BY DEF CopyUndo, MoveRemove
<1>3. PICK n : Named(n) /\ (DeleteOk(n) \/ DeleteFails(n))
  BY <1>1 DEF CopyUndo, MoveRemove
<1>4. DiskTypeOK'
  BY <1>1, <1>3, DeletedType
<1>5. cmd' \in CmdRec /\ cmd'.pc = "idle"
  <2>1. PICK what \in {"failed", "moved", "not removed"} : Say(what)
    BY DEF CopyUndo, MoveRemove
  <2>2. "idle" \in PCs /\ what \in Said
    BY DEF PCs, Said
  <2> QED
    BY <1>1, <2>1, <2>2 DEF CmdRec, Say
<1>6. CommandsTypeOK' /\ \A h \in HandleIdx : handles'[h] = Closed
  BY <1>1, <1>2, <1>4, <1>5, TypeParts DEF CommandsTypeOK, OnlyOpen
<1> QED
  BY <1>5, <1>6, OpenEnds DEF BaseInv

\* Between commands, and when the power fails.
LEMMA BaseSurroundings ==
    ASSUME BaseInv, PowerFailure \/ \E h \in HandleIdx : ProcessHandle(h)
    PROVE  BaseInv'
<1>1. CommandsTypeOK /\ HandlesReleased
  BY DEF BaseInv, OpenInv
<1>2. CASE PowerFailure
  <2>1. /\ UNCHANGED <<entry, text, free, unsaved>> /\ busy' = {} /\ cmd' = NoCmd
        /\ handles' = [h \in HandleIdx |-> Closed] /\ torn' \in BOOLEAN
    BY <1>2 DEF PowerFailure, disk
  <2>2. cmd' \in CmdRec /\ cmd'.pc = "idle"
    BY <2>1, NoCmdIs
  <2>3. CommandsTypeOK' /\ \A h \in HandleIdx : handles'[h] = Closed
    BY <1>1, <2>1, <2>2 DEF CommandsTypeOK
  <2> QED
    BY <2>2, <2>3, OpenEnds DEF BaseInv
<1>3. CASE \E h \in HandleIdx : ProcessHandle(h)
  <2>1. /\ UNCHANGED <<entry, text, free, unsaved, handles, cmd, torn>>
        /\ busy' \subseteq HandleIdx /\ cmd.pc = "idle"
    BY <1>1, <1>3 DEF ProcessHandle, CommandsTypeOK, Idle, disk
  <2>2. CommandsTypeOK' /\ \A h \in HandleIdx : handles'[h] = Closed
    BY <1>1, <2>1 DEF CommandsTypeOK, HandlesReleased, Idle
  <2> QED
    BY <2>1, <2>2, OpenEnds DEF BaseInv
<1> QED
  BY <1>2, <1>3

\* Every step keeps what is open in order, on any directory.
LEMMA BaseStep ==
    ASSUME BaseInv, [Next]_vars
    PROVE  BaseInv'
<1>1. CASE UNCHANGED vars
  <2>1. UNCHANGED <<entry, text, free, unsaved, handles, busy, cmd, torn>>
    BY <1>1 DEF vars
  <2> QED
    BY <2>1 DEF BaseInv, CommandsTypeOK, OpenInv, HandlesReleased, Idle, OnlyOpen, Inside,
                Writable, Source, Named, Exists
<1>2. CASE \E n \in Names : touch(n) \/ rm(n) \/ cat(n)
  BY <1>2, BaseSingle, BaseCat
<1>3. CASE \E n \in Names, t \in Texts : WriteCreate(n, t)
  BY <1>3, BaseWrite
<1>4. CASE \E s, d \in Names : CopyStart("cp", s, d) \/ CopyStart("mv", s, d)
  BY <1>4, BaseCopyStart
<1>5. CASE Running
  BY <1>5, BaseCatRead, BaseWriteOpen, BaseWriteText, BaseCopyCreate, BaseCopyOpen,
     BaseCopyRead, BaseCopyWrite, BaseCopyClose, BaseCopyDelete DEF Running, Copy
<1>6. CASE PowerFailure \/ \E h \in HandleIdx : ProcessHandle(h)
  BY <1>6, BaseSurroundings
<1> QED
  BY <1>1, <1>2, <1>3, <1>4, <1>5, <1>6 DEF Next

-----------------------------------------------------------------------------
(* What the calls of fs.c do on a sound directory.                         *)

\* Nothing was called that changes a file.
LEMMA FilesKept ==
    ASSUME entry' = entry, text' = text
    PROVE  files' = files
BY DEF files

\* fs_create() made an empty file and touched no other.
LEMMA CreatedIs ==
    ASSUME CommandsTypeOK, CommandsTypeOK', Sound, NEW n \in Names, ~Exists(n), CreateOk(n)
    PROVE  /\ Sound' /\ Exists(n)' /\ files'[n] = <<>>
           /\ \A m \in Names \ {n} : entry'[m] = entry[m] /\ files'[m] = files[m]
<1>1. PICK i \in Inodes : i = Lowest(free) /\ i # 0 /\ i \in free
  BY FirstFree DEF CreateOk
<1>2. /\ entry' = [entry EXCEPT ![n] = i] /\ text' = [text EXCEPT ![i] = <<>>]
      /\ free' = free \ {i}
  BY <1>1 DEF CreateOk, Blank
<1>3. entry'[n] = i /\ \A m \in Names \ {n} : entry'[m] = entry[m] /\ entry[m] # i
  BY <1>1, <1>2 DEF CommandsTypeOK, Sound
<1>4. text'[i] = <<>> /\ \A j \in Inodes \ {i} : text'[j] = text[j]
  BY <1>1, <1>2 DEF CommandsTypeOK
<1>5. Sound'
  BY <1>1, <1>2, <1>3 DEF Sound
<1>6. ASSUME NEW m \in Names \ {n} PROVE files'[m] = files[m]
  <2>1. entry[m] = 0 \/ entry[m] \in Inodes
    BY FilesIs DEF Exists
  <2> QED
    BY <1>3, <1>4, <2>1 DEF files
<1>7. files'[n] = <<>> /\ Exists(n)'
  BY <1>1, <1>3, <1>4 DEF files, Exists
<1> QED
  BY <1>3, <1>5, <1>6, <1>7

\* fs_create() failed and touched no other file.
LEMMA NotCreatedKeeps ==
    ASSUME CommandsTypeOK, CommandsTypeOK', Sound, NEW n \in Names, CreateFails(n)
    PROVE  \A m \in Names \ {n} : files'[m] = files[m]
<1>1. CASE UNCHANGED disk
  BY <1>1, FilesKept DEF disk
<1>2. CASE /\ free # {} /\ Blank(Lowest(free))
           /\ InodeNotSaved(Lowest(free)) \/ EntryNotWritten(n, Lowest(free))
  <2>1. PICK i \in Inodes : i = Lowest(free) /\ i # 0 /\ i \in free
    BY <1>2, FirstFree
  <2>2. entry' \in {entry, [entry EXCEPT ![n] = i]} /\ text' = [text EXCEPT ![i] = <<>>]
    BY <1>2, <2>1 DEF Blank, InodeNotSaved, EntryNotWritten
  <2>3. \A m \in Names \ {n} : entry'[m] = entry[m] /\ entry[m] # i
    BY <2>1, <2>2 DEF CommandsTypeOK, Sound
  <2>4. \A j \in Inodes \ {i} : text'[j] = text[j]
    BY <2>1, <2>2 DEF CommandsTypeOK
  <2>5. ASSUME NEW m \in Names \ {n} PROVE files'[m] = files[m]
    <3>1. entry[m] = 0 \/ entry[m] \in Inodes
      BY FilesIs DEF Exists
    <3> QED
      BY <2>3, <2>4, <3>1 DEF files
  <2> QED
    BY <2>5
<1> QED
  BY <1>1, <1>2 DEF CreateFails

\* fs_delete() touched no other file; when it reports success the file is gone.
LEMMA DeletedKeeps ==
    ASSUME CommandsTypeOK, CommandsTypeOK', Sound, NEW n, Named(n),
           DeleteOk(n) \/ DeleteFails(n)
    PROVE  /\ \A m \in Names \ {n} : files'[m] = files[m]
           /\ DeleteOk(n) => Gone(n)'
<1>1. PICK i \in Inodes : i = entry[n] /\ n \in Names /\ i # 0
  BY FilesIs DEF Named, Exists
<1>2. CASE DeleteFails(n) /\ UNCHANGED disk /\ ~DeleteOk(n)
  BY <1>2, FilesKept DEF disk
<1>3. ASSUME text' = [text EXCEPT ![i] = <<>>],
             entry' = entry \/ entry' = [entry EXCEPT ![n] = 0]
      PROVE  \A m \in Names \ {n} : files'[m] = files[m]
  <2>1. \A m \in Names \ {n} : entry'[m] = entry[m] /\ entry[m] # i
    BY <1>1, <1>3 DEF CommandsTypeOK, Sound
  <2>2. \A j \in Inodes \ {i} : text'[j] = text[j]
    BY <1>1, <1>3 DEF CommandsTypeOK
  <2>3. ASSUME NEW m \in Names \ {n} PROVE files'[m] = files[m]
    <3>1. entry[m] = 0 \/ entry[m] \in Inodes
      BY FilesIs DEF Exists
    <3> QED
      BY <2>1, <2>2, <3>1 DEF files
  <2> QED
    BY <2>3
<1>4. CASE DeleteOk(n)
  <2>1. text' = [text EXCEPT ![i] = <<>>] /\ free' = free \cup {i}
    BY <1>1, <1>4 DEF DeleteOk, Blank
  <2>2. entry' = entry \/ entry' = [entry EXCEPT ![n] = 0]
    <3>1. ASSUME NEW m \in Names, entry[m] = i PROVE m = n
      BY <1>1, <3>1 DEF Sound
    <3> QED
      BY <1>1, <1>4, <3>1 DEF DeleteOk
  <2>3. Gone(n)'
    BY <1>1, <2>1, <2>2 DEF Gone, CommandsTypeOK
  <2> QED
    BY <1>3, <2>1, <2>2, <2>3
<1>5. CASE DeleteFails(n) /\ ~DeleteOk(n) /\ ~UNCHANGED disk
  <2>1. text' = [text EXCEPT ![i] = <<>>] /\ entry' = entry
    BY <1>1, <1>5 DEF DeleteFails, Blank
  <2> QED
    BY <1>3, <1>5, <2>1
<1> QED
  BY <1>2, <1>4, <1>5

\* The handle h is at the position p of the file n, which holds s.
On(h, n, p, s) ==
    /\ h \in HandleIdx /\ Named(n) /\ p \in Nat /\ s \in Seq(Data)
    /\ files[n] = s /\ p <= Len(s) /\ handles[h] = [inode |-> entry[n], pos |-> p]

\* The command's own handles.
LEMMA OnIs ==
    ASSUME CommandsTypeOK, NEW h, NEW n, NEW p \in Nat, Named(n), At(h, n, p),
           p <= Len(files[n])
    PROVE  On(h, n, p, files[n])
BY FilesIs DEF On, At, Named

\* What the handle leads to.
LEMMA OnLeads ==
    ASSUME CommandsTypeOK, NEW h, NEW n, NEW p, NEW s, On(h, n, p, s)
    PROVE  /\ Inside(h) /\ handles[h].inode = entry[n] /\ handles[h].pos = p
           /\ entry[n] \in Inodes /\ text[entry[n]] = s
<1>1. handles[h] = [inode |-> entry[n], pos |-> p] /\ entry[n] \in Inodes
      /\ text[entry[n]] = s /\ h \in HandleIdx /\ p \in Nat /\ p <= Len(s)
  BY FilesIs DEF On, Named
<1>2. PICK r \in Handle : r = handles[h] /\ r.inode = entry[n] /\ r.pos = p
  BY <1>1 DEF Handle
<1>3. r # Closed
  BY <1>2, CommandsAssumption DEF Handle
<1> QED
  BY <1>1, <1>2, <1>3 DEF Inside

\* fs_read() from the position p of a file that holds s.
LEMMA ReadIs ==
    ASSUME CommandsTypeOK, NEW h, NEW n, NEW p, NEW s, On(h, n, p, s),
           NEW k \in ReadCounts(h)
    PROVE  /\ k \in Nat /\ p + k <= Len(s)
           /\ ReadText(h, k) = SubSeq(s, p + 1, p + k)
           /\ "read" \notin Faults /\ k = 0 => p = Len(s)
           /\ handles' = Advanced(h, k) =>
                 /\ handles'[h] = [inode |-> entry[n], pos |-> p + k]
                 /\ \A g \in HandleIdx \ {h} : handles'[g] = handles[g]
<1>1. /\ Inside(h) /\ handles[h].inode = entry[n] /\ handles[h].pos = p
      /\ text[entry[n]] = s
  BY OnLeads
<1>2. /\ k \in Nat /\ p + k <= Len(s)
      /\ "read" \notin Faults /\ k = 0 => p = Len(s)
  BY <1>1, ReadType
<1>3. ReadText(h, k) = SubSeq(s, p + 1, p + k)
  BY <1>1 DEF ReadText
<1>4. ASSUME handles' = Advanced(h, k)
      PROVE  /\ handles'[h] = [inode |-> entry[n], pos |-> p + k]
             /\ \A g \in HandleIdx \ {h} : handles'[g] = handles[g]
  <2>1. h \in HandleIdx /\ handles[h] # Closed
    BY <1>1 DEF Inside
  <2> QED
    BY <1>1, <1>2, <1>4, <2>1, AdvancedIs
<1> QED
  BY <1>2, <1>3, <1>4

\* fs_write() through the handle h: at the end of the file, or of the whole text.
LEMMA WrittenIs ==
    ASSUME CommandsTypeOK, CommandsTypeOK', Sound, NEW h, NEW n, NEW p, NEW old,
           On(h, n, p, old), p <= MaxSize, NEW t \in Seq(Data),
           NEW k \in WriteCounts(h, t), WriteFile(h, t, k)
    PROVE  /\ k \in Nat /\ k <= Len(t) /\ p + k <= MaxSize /\ Sound' /\ entry' = entry
           /\ p = Len(old) \/ k = Len(t) => files'[n] = Overwritten(old, p, SubSeq(t, 1, k))
           /\ \A m \in Names \ {n} : files'[m] = files[m]
<1>1. PICK i \in Inodes : /\ i = entry[n] /\ i = handles[h].inode /\ handles[h].pos = p
                          /\ Inside(h) /\ text[i] = old
  BY OnLeads
<1>2. n \in Names /\ p \in Nat /\ old \in Seq(Data) /\ i # 0
  BY <1>1 DEF On, Named, Exists
<1>3. Writable(h)
  BY <1>1 DEF Writable
<1>4. k \in Nat /\ k <= Len(t) /\ p + k <= MaxSize /\ entry' = entry /\ free' = free
  BY <1>1, <1>3, WrittenType
<1>5. Sound'
  BY <1>4 DEF Sound
<1>6. PICK j \in k .. Fits(h, t) :
          /\ j = k \/ p + j <= Len(old)
          /\ text' = [text EXCEPT ![i] = Overwritten(@, p, SubSeq(t, 1, j))]
  BY <1>1 DEF WriteFile
<1>7. p = Len(old) \/ k = Len(t) => j = k
  <2>1. Fits(h, t) = IF p + Len(t) > MaxSize THEN MaxSize - p ELSE Len(t)
    BY <1>1 DEF Fits
  <2>2. Fits(h, t) <= Len(t) /\ Fits(h, t) \in Nat
    BY <1>2, <2>1, CommandsAssumption
  <2>3. PICK f \in Nat : f = Fits(h, t) /\ f <= Len(t)
    BY <2>2
  <2>4. j \in k .. f
    BY <1>6, <2>3
  <2> QED
    BY <1>2, <1>4, <1>6, <2>3, <2>4
<1>8. text'[i] = Overwritten(old, p, SubSeq(t, 1, j)) /\ \A l \in Inodes \ {i} : text'[l] = text[l]
  BY <1>1, <1>6 DEF CommandsTypeOK
<1>9. files'[n] = Overwritten(old, p, SubSeq(t, 1, j))
  BY <1>1, <1>2, <1>4, <1>8 DEF files
<1>10. ASSUME NEW m \in Names \ {n} PROVE files'[m] = files[m]
  <2>1. entry[m] = 0 \/ (entry[m] \in Inodes /\ entry[m] # i)
    BY <1>1, <1>2, FilesIs DEF Exists, Sound
  <2> QED
    BY <1>4, <1>8, <2>1 DEF files
<1> QED
  BY <1>4, <1>5, <1>7, <1>9, <1>10

-----------------------------------------------------------------------------
(* Then the part that says what the commands did.                          *)

TaskInv ==
    /\ MovingInv /\ SoundInv
    /\ "read" \in Faults \/ (SaysTheTruth /\ MoveKeepsText)

\* A command on an unsound directory promises nothing.
LEMMA NoPromise ==
    ASSUME ~cmd'.sound, moving' = NoMove
    PROVE  TaskInv'
BY DEF TaskInv, MovingInv, SoundInv, SaysTheTruth, MoveKeepsText

\* What is left to show of a step that ends its command, and of one that does not.
LEMMA CommandEnds ==
    ASSUME cmd'.pc = "idle", "read" \in Faults \/ (SaysTheTruth' /\ MoveKeepsText')
    PROVE  TaskInv'
BY DEF TaskInv, MovingInv, SoundInv, Idle

\* While a command is under way only its own part of the invariant says anything.
LEMMA CommandGoesOn ==
    ASSUME CommandsTypeOK', cmd'.pc # "idle", Sound', MovingInv', CatInv', WriteInv', CopyInv'
    PROVE  TaskInv'
<1>1. SaysTheTruth' /\ SoundInv'
  BY DEF SaysTheTruth, SoundInv, Idle
<1>2. cmd'.pc \in Copying \cup {"print", "w_open", "w_write"}
  BY DEF CommandsTypeOK, CmdRec, PCs
<1>3. moving' = IF cmd'.op = "mv" /\ cmd'.sound
                THEN [from |-> cmd'.src, to |-> cmd'.dst, text |-> cmd'.orig] ELSE NoMove
  BY DEF MovingInv, Idle
<1>4. MoveKeepsText'
  <2>1. CASE cmd'.pc \in {"print", "w_open", "w_write"}
    <3>1. cmd'.op # "mv"
      BY <2>1 DEF CatInv, WriteInv
    <3> QED
      BY <1>3, <3>1 DEF MoveKeepsText
  <2>2. CASE cmd'.pc \in Copying /\ cmd'.op = "mv" /\ cmd'.sound
    <3>1. files'[cmd'.src] = cmd'.orig
      BY <2>2 DEF CopyInv, CopyTask
    <3>2. moving'.text = cmd'.orig /\ moving'.from = cmd'.src
      BY <1>3, <2>2
    <3> QED
      BY <3>1, <3>2 DEF MoveKeepsText
  <2>3. CASE ~(cmd'.op = "mv" /\ cmd'.sound)
    BY <1>3, <2>3 DEF MoveKeepsText
  <2> QED
    BY <1>2, <2>1, <2>2, <2>3
<1> QED
  BY <1>1, <1>4 DEF TaskInv

\* touch and rm are one call.
LEMMA SingleCalls ==
    ASSUME BaseInv, BaseInv', NEW n \in Names, touch(n) \/ rm(n)
    PROVE  TaskInv'
<1>1. CommandsTypeOK /\ CommandsTypeOK' /\ moving' = NoMove
  BY DEF BaseInv, touch, rm
<1>2. ASSUME NEW op \in {"touch", "rm"}, NEW what \in {"created", "deleted", "failed"},
             cmd' = [Command(op, "idle", n) EXCEPT !.said = what]
      PROVE  /\ cmd'.pc = "idle" /\ cmd'.op = op /\ cmd'.said = what /\ cmd'.dst = n
             /\ cmd'.sound = Sound
  <2>1. op \in Ops /\ "idle" \in PCs
    BY DEF Ops, PCs
  <2>2. PICK r \in CmdRec : /\ r = Command(op, "idle", n) /\ r.op = op /\ r.pc = "idle"
                            /\ r.dst = n /\ r.sound = Sound
    BY <1>1, <2>1, CommandIs
  <2>3. cmd' = [r EXCEPT !.said = what]
    BY <1>2, <2>2
  <2> QED
    BY <2>2, <2>3 DEF CmdRec
<1>3. cmd'.pc = "idle" /\ cmd'.op \in {"touch", "rm"}
      /\ cmd'.said \in {"created", "deleted", "failed"}
  BY <1>2 DEF touch, rm
<1>4. cmd'.said = "deleted" /\ cmd'.sound => Gone(cmd.dst)'
  <2>1. CASE touch(n)
    BY <1>2, <2>1 DEF touch
  <2>2. CASE rm(n) /\ DeleteOk(n) /\ Sound /\ cmd'.dst = n
    <3>1. Named(n)
      BY <2>2 DEF rm, Named
    <3>2. Gone(n)'
      BY <1>1, <2>2, <3>1, DeletedKeeps
    <3> QED
      BY <2>2, <3>2 DEF Gone
  <2> QED
    BY <1>2, <2>1, <2>2 DEF rm
<1>5. SaysTheTruth' /\ MoveKeepsText'
  BY <1>1, <1>3, <1>4 DEF SaysTheTruth, MoveKeepsText
<1> QED
  BY <1>3, <1>5, CommandEnds

\* cat opens its file.
LEMMA CatStarts ==
    ASSUME BaseInv, BaseInv', NEW n \in Names, cat(n)
    PROVE  TaskInv'
<1>1. CommandsTypeOK /\ CommandsTypeOK' /\ moving' = NoMove
  BY DEF BaseInv, cat
<1>2. PICK l : l = Lowest(Unopened)
  OBVIOUS
<1>3. /\ Unopened # {} /\ handles' = Opened(n) /\ Named(n)
      /\ UNCHANGED <<entry, text, free>>
  BY DEF cat, Named, disk
<1>4. l \in HandleIdx /\ handles'[l] = [inode |-> entry[n], pos |-> 0]
  BY <1>1, <1>2, <1>3, OpenedIs
<1>5. /\ cmd'.pc = "print" /\ cmd'.dst = n /\ cmd'.orig = files[n] /\ cmd'.op = "cat"
      /\ cmd'.text = <<>> /\ cmd'.sfd = l /\ cmd'.sound = Sound
  <2>1. "cat" \in Ops /\ "print" \in PCs
    BY DEF Ops, PCs
  <2>2. PICK r \in CmdRec : /\ r = Command("cat", "print", n) /\ r.pc = "print" /\ r.dst = n
                            /\ r.orig = files[n] /\ r.text = <<>> /\ r.op = "cat"
                            /\ r.sound = Sound
    BY <1>1, <2>1, CommandIs
  <2>3. cmd' = [r EXCEPT !.sfd = l]
    BY <1>2, <2>2 DEF cat
  <2> QED
    BY <2>2, <2>3 DEF CmdRec
<1>6. files' = files /\ files[n] \in Seq(Data)
  BY <1>1, <1>3, FilesKept, FilesIs DEF Named
<1>7. CatInv'
  <2>1. /\ Len(cmd'.text) = 0 /\ 0 <= Len(cmd'.orig)
        /\ cmd'.text = SubSeq(cmd'.orig, 1, Len(cmd'.text))
    <3>1. SubSeq(cmd'.orig, 1, 0) = <<>>
      BY SubSeqEmpty
    <3>2. Len(cmd'.orig) \in Nat /\ Len(cmd'.text) = 0
      BY <1>5, <1>6
    <3> QED
      BY <1>5, <3>1, <3>2
  <2>2. At(cmd.sfd, cmd.dst, Len(cmd.text))'
    BY <1>3, <1>4, <1>5, <2>1 DEF At
  <2> QED
    BY <1>5, <1>6, <2>1, <2>2 DEF CatInv
<1>8. WriteInv' /\ CopyInv' /\ MovingInv'
  BY <1>1, <1>5 DEF WriteInv, CopyInv, Copying, MovingInv
<1>9. CASE Sound
  <2>1. Sound'
    BY <1>3, <1>9 DEF Sound
  <2> QED
    BY <1>1, <1>5, <1>7, <1>8, <2>1, CommandGoesOn
<1>10. CASE ~Sound
  BY <1>1, <1>5, <1>10, NoPromise
<1> QED
  BY <1>9, <1>10

\* write creates its file, unless it is there.
LEMMA WriteStarts ==
    ASSUME BaseInv, BaseInv', NEW n \in Names, NEW t \in Texts, WriteCreate(n, t)
    PROVE  TaskInv'
<1>1. CommandsTypeOK /\ CommandsTypeOK' /\ moving' = NoMove
  BY DEF BaseInv, WriteCreate
<1>2. t \in Seq(Data) /\ Len(t) <= MaxSize
  BY CommandsAssumption
<1>3. PICK r \in CmdRec : /\ r = [Command("write", "w_open", n) EXCEPT !.text = t]
                          /\ r.op = "write" /\ r.pc = "w_open" /\ r.dst = n
                          /\ r.orig = files[n] /\ r.text = t /\ r.sound = Sound
  <2>1. "write" \in Ops /\ "w_open" \in PCs
    BY DEF Ops, PCs
  <2>2. PICK q \in CmdRec :
            /\ q = Command("write", "w_open", n) /\ q.op = "write" /\ q.pc = "w_open"
            /\ q.dst = n /\ q.orig = files[n] /\ q.sound = Sound
    BY <1>1, <2>1, CommandIs
  <2>3. PICK r : r = [q EXCEPT !.text = t]
    OBVIOUS
  <2>4. /\ r \in CmdRec /\ r.op = "write" /\ r.pc = "w_open" /\ r.dst = n
        /\ r.orig = files[n] /\ r.text = t /\ r.sound = Sound
    BY <1>2, <2>2, <2>3 DEF CmdRec
  <2> QED
    BY <2>2, <2>3, <2>4
<1>4. \/ Exists(n) /\ UNCHANGED disk /\ cmd' = r
      \/ ~Exists(n) /\ CreateOk(n) /\ cmd' = r
      \/ cmd' = [r EXCEPT !.pc = "idle", !.said = "failed"]
  BY <1>3 DEF WriteCreate
<1>5. CASE cmd' = [r EXCEPT !.pc = "idle", !.said = "failed"]
  <2>1. cmd'.pc = "idle" /\ cmd'.said = "failed" /\ cmd'.op = "write"
    BY <1>3, <1>5 DEF CmdRec
  <2>2. SaysTheTruth' /\ MoveKeepsText'
    BY <1>1, <2>1 DEF SaysTheTruth, MoveKeepsText
  <2> QED
    BY <2>1, <2>2, CommandEnds
<1>6. CASE cmd' = r /\ ~Sound
  BY <1>1, <1>3, <1>6, NoPromise
<1>7. CASE /\ cmd' = r /\ Sound
           /\ (Exists(n) /\ UNCHANGED disk) \/ (~Exists(n) /\ CreateOk(n))
  <2>1. Sound' /\ files'[n] = IF files[n] = Absent THEN <<>> ELSE files[n]
    <3>1. CASE Exists(n) /\ UNCHANGED disk
      <4>1. Sound' /\ files' = files
        BY <1>7, <3>1, FilesKept DEF Sound, disk
      <4>2. files[n] # Absent
        BY <1>1, <3>1, FilesIs, CommandsAssumption
      <4> QED
        BY <4>1, <4>2
    <3>2. CASE ~Exists(n) /\ CreateOk(n)
      <4>1. Sound' /\ files'[n] = <<>>
        BY <1>1, <1>7, <3>2, CreatedIs
      <4>2. files[n] = Absent
        BY <1>1, <3>2, FilesIs
      <4> QED
        BY <4>1, <4>2
    <3> QED
      BY <1>7, <3>1, <3>2
  <2>2. WriteInv'
    BY <1>2, <1>3, <1>7, <2>1 DEF WriteInv
  <2>3. CatInv' /\ CopyInv' /\ MovingInv' /\ cmd'.pc # "idle"
    BY <1>1, <1>3, <1>7 DEF CatInv, CopyInv, Copying, MovingInv
  <2> QED
    BY <1>1, <2>1, <2>2, <2>3, CommandGoesOn
<1> QED
  BY <1>4, <1>5, <1>6, <1>7

\* cp and mv open the source.
LEMMA CopyStarts ==
    ASSUME BaseInv, BaseInv', NEW s \in Names, NEW d \in Names, NEW op \in {"cp", "mv"},
           CopyStart(op, s, d)
    PROVE  TaskInv'
<1>1. CommandsTypeOK /\ CommandsTypeOK'
  BY DEF BaseInv
<1>2. PICK l : l = Lowest(Unopened)
  OBVIOUS
<1>3. /\ Unopened # {} /\ handles' = Opened(s) /\ Named(s) /\ ~Exists(d) /\ s # d
      /\ UNCHANGED <<entry, text, free>>
  BY DEF CopyStart, Named, disk
<1>4. l \in HandleIdx /\ handles'[l] = [inode |-> entry[s], pos |-> 0]
  BY <1>1, <1>2, <1>3, OpenedIs
<1>5. files' = files /\ files[s] \in Seq(Data)
  BY <1>1, <1>3, FilesKept, FilesIs DEF Named
<1>6. PICK b \in BOOLEAN : b = Sound
  BY DEF Sound
<1>7. /\ cmd'.op = op /\ cmd'.pc = "create" /\ cmd'.src = s /\ cmd'.dst = d
      /\ cmd'.sfd = l /\ cmd'.orig = files[s] /\ cmd'.ok = TRUE /\ cmd'.sound = b
  <2>1. PICK r \in CmdRec : r = NoCmd /\ r.ok = TRUE
    BY NoCmdIs
  <2>2. cmd' = [r EXCEPT !.op = op, !.pc = "create", !.src = s, !.dst = d, !.sfd = l,
                         !.orig = files[s], !.sound = b]
    BY <1>2, <1>6, <2>1 DEF CopyStart
  <2> QED
    BY <2>1, <2>2 DEF CmdRec
<1>8. moving' = IF op = "mv" /\ b THEN [from |-> s, to |-> d, text |-> files[s]] ELSE NoMove
  BY <1>6 DEF CopyStart
<1>9. CASE b
  <2>1. Sound'
    BY <1>3, <1>6, <1>9 DEF Sound
  <2>2. CopyTask'
    BY <1>3, <1>5, <1>7 DEF CopyTask
  <2>3. At(cmd.sfd, cmd.src, 0)' /\ ~Exists(cmd.dst)'
    BY <1>3, <1>4, <1>7 DEF At, Exists
  <2>4. CopyInv'
    BY <1>7, <2>2, <2>3 DEF CopyInv
  <2>5. CatInv' /\ WriteInv' /\ cmd'.pc # "idle"
    BY <1>7 DEF CatInv, WriteInv
  <2>6. MovingInv'
    BY <1>7, <1>8 DEF MovingInv
  <2> QED
    BY <1>1, <2>1, <2>4, <2>5, <2>6, CommandGoesOn
<1>10. CASE ~b
  BY <1>7, <1>8, <1>10, NoPromise
<1> QED
  BY <1>9, <1>10

-----------------------------------------------------------------------------
\* What a step of a command under way keeps.
LEMMA RunningKeeps ==
    ASSUME BaseInv, Running
    PROVE  /\ cmd.pc # "idle" /\ moving' = moving
           /\ cmd'.op = cmd.op /\ cmd'.src = cmd.src /\ cmd'.dst = cmd.dst
           /\ cmd'.orig = cmd.orig /\ cmd'.sound = cmd.sound
<1>1. cmd \in CmdRec
  BY DEF BaseInv, CommandsTypeOK
<1>2. CASE CatRead
  BY <1>1, <1>2 DEF CatRead, Say, CmdRec
<1>3. CASE WriteOpen \/ WriteText
  BY <1>1, <1>3 DEF WriteOpen, WriteText, Say, CmdRec
<1>4. CASE CopyCreate \/ CopyOpen
  BY <1>1, <1>4 DEF CopyCreate, CopyOpen, Say, Goto, CmdRec
<1>5. CASE CopyRead \/ CopyWrite
  BY <1>1, <1>5 DEF CopyRead, CopyWrite, CmdRec
<1>6. CASE CopyClose \/ CopyUndo \/ MoveRemove
  BY <1>1, <1>6 DEF CopyClose, CopyUndo, MoveRemove, Say, CmdRec
<1> QED
  BY <1>2, <1>3, <1>4, <1>5, <1>6 DEF Running, Copy

\* The move under way stays the same.
LEMMA MovingKept ==
    ASSUME BaseInv, MovingInv, Running
    PROVE  /\ MovingInv'
           /\ moving' = IF cmd'.op = "mv" /\ cmd'.sound
                        THEN [from |-> cmd'.src, to |-> cmd'.dst, text |-> cmd'.orig]
                        ELSE NoMove
<1>1. /\ cmd.pc # "idle" /\ moving' = moving
      /\ cmd'.op = cmd.op /\ cmd'.src = cmd.src /\ cmd'.dst = cmd.dst
      /\ cmd'.orig = cmd.orig /\ cmd'.sound = cmd.sound
  BY RunningKeeps
<1>2. moving = IF cmd.op = "mv" /\ cmd.sound
               THEN [from |-> cmd.src, to |-> cmd.dst, text |-> cmd.orig] ELSE NoMove
  BY <1>1 DEF MovingInv, Idle
<1> QED
  BY <1>1, <1>2 DEF MovingInv

\* A command under way on a sound directory.
OnSound == BaseInv /\ TaskInv /\ cmd.sound /\ Sound /\ CatInv /\ WriteInv /\ CopyInv

\* cat reads, until the end or an error.
LEMMA CatReads ==
    ASSUME OnSound, BaseInv', CatRead
    PROVE  TaskInv'
<1>0. Running
  BY DEF Running
<1>1. /\ CommandsTypeOK /\ CommandsTypeOK' /\ cmd \in CmdRec /\ cmd.pc = "print"
      /\ CatInv /\ Sound /\ MovingInv /\ BaseInv /\ Inside(cmd.sfd)
  BY DEF OnSound, BaseInv, TaskInv, CatRead, CommandsTypeOK, OpenInv
<1>2. PICK h \in HandleIdx, n \in Names, s \in Seq(Data), t \in Seq(Data) :
          /\ cmd.sfd = h /\ cmd.dst = n /\ cmd.orig = s /\ cmd.text = t /\ files[n] = s
          /\ Len(t) <= Len(s) /\ t = SubSeq(s, 1, Len(t))
          /\ handles[h] = [inode |-> entry[n], pos |-> Len(t)]
  BY <1>1 DEF CatInv, At, CmdRec
<1>3. cmd.op = "cat"
  BY <1>1 DEF CatInv
<1>4. PICK k \in ReadCounts(h) :
          IF k = 0 THEN Close({h}) /\ Say("printed")
          ELSE /\ handles' = Advanced(h, k)
               /\ cmd' = [cmd EXCEPT !.text = t \o ReadText(h, k)]
  BY <1>2 DEF CatRead
<1>5. UNCHANGED <<entry, text, free>> /\ files' = files
  BY FilesKept DEF CatRead, disk
<1>6. MovingInv' /\ moving' = NoMove
  BY <1>0, <1>1, <1>3, MovingKept, RunningKeeps
<1>p. PICK p \in Nat : p = Len(t)
  OBVIOUS
<1>7. /\ k \in Nat /\ p + k <= Len(s)
      /\ ReadText(h, k) = SubSeq(s, p + 1, p + k)
      /\ "read" \notin Faults /\ k = 0 => p = Len(s)
      /\ handles' = Advanced(h, k) =>
            /\ handles'[h] = [inode |-> entry[n], pos |-> p + k]
            /\ \A g \in HandleIdx \ {h} : handles'[g] = handles[g]
  <2>1. Named(n)
    <3>1. files[n] # Absent
      BY <1>2, CommandsAssumption
    <3> QED
      BY <1>1, <3>1, FilesIs DEF Named
  <2>2. On(h, n, p, s) /\ CommandsTypeOK
    BY <1>1, <1>2, <1>p, <2>1 DEF On
  <2> QED
    BY <2>2, ReadIs, Zenon
<1>8. CASE k = 0
  <2>1. cmd' = [cmd EXCEPT !.pc = "idle", !.said = "printed"]
    BY <1>4, <1>8 DEF Say
  <2>2. cmd'.pc = "idle" /\ cmd'.said = "printed" /\ cmd'.text = t /\ cmd'.orig = s
    BY <1>1, <1>2, <2>1 DEF CmdRec
  <2>3. "read" \in Faults \/ (SaysTheTruth' /\ MoveKeepsText')
    <3>1. "read" \notin Faults => t = s
      BY <1>2, <1>7, <1>8, <1>p, SubSeqFull
    <3> QED
      BY <1>6, <2>2, <3>1 DEF SaysTheTruth, MoveKeepsText
  <2> QED
    BY <2>2, <2>3, CommandEnds
<1>9. CASE k # 0
  <2>1. PICK u : u = SubSeq(s, 1, p + k)
    OBVIOUS
  <2>2. u \in Seq(Data) /\ Len(u) = p + k
    <3>1. p + k \in Nat
      BY <1>7
    <3> QED
      BY <1>7, <2>1, <3>1, PrefixIs
  <2>3. t \o ReadText(h, k) = u
    <3>1. SubSeq(s, 1, p) \o SubSeq(s, p + 1, p + k) = u
      BY <1>7, <2>1, PrefixJoined
    <3> QED
      BY <1>2, <1>7, <1>p, <3>1
  <2>4. cmd' = [cmd EXCEPT !.text = u] /\ handles' = Advanced(h, k)
    BY <1>4, <1>9, <2>3
  <2>5. /\ cmd'.pc = "print" /\ cmd'.text = u /\ cmd'.orig = s /\ cmd'.op = "cat"
        /\ cmd'.dst = n /\ cmd'.sfd = h
    BY <1>1, <1>2, <1>3, <2>4 DEF CmdRec
  <2>6. handles'[h] = [inode |-> entry'[n], pos |-> Len(u)]
    BY <1>5, <1>7, <2>2, <2>4
  <2>7. CatInv'
    <3>1. Len(u) <= Len(s) /\ u = SubSeq(s, 1, Len(u))
      BY <1>7, <2>1, <2>2
    <3>2. At(cmd.sfd, cmd.dst, Len(cmd.text))'
      BY <2>5, <2>6 DEF At
    <3> QED
      BY <1>2, <1>5, <2>5, <3>1, <3>2 DEF CatInv
  <2>8. WriteInv' /\ CopyInv' /\ Sound'
    BY <1>1, <1>5, <2>5 DEF WriteInv, CopyInv, Copying, Sound
  <2> QED
    BY <1>1, <1>6, <2>5, <2>7, <2>8, CommandGoesOn
<1> QED
  BY <1>8, <1>9

\* write opens its file.
LEMMA WriteOpens ==
    ASSUME OnSound, BaseInv', WriteOpen
    PROVE  TaskInv'
<1>0. Running
  BY DEF Running
<1>1. /\ CommandsTypeOK /\ CommandsTypeOK' /\ cmd \in CmdRec /\ cmd.pc = "w_open"
      /\ WriteInv /\ Sound /\ MovingInv /\ BaseInv /\ Named(cmd.dst)
  BY DEF OnSound, BaseInv, TaskInv, WriteOpen, CommandsTypeOK, OpenInv
<1>2. /\ cmd.op = "write" /\ cmd.dst \in Names /\ Len(cmd.text) <= MaxSize
      /\ files[cmd.dst] = IF cmd.orig = Absent THEN <<>> ELSE cmd.orig
  BY <1>1 DEF WriteInv
<1>3. UNCHANGED <<entry, text, free>> /\ files' = files
  BY FilesKept DEF WriteOpen, disk
<1>4. MovingInv' /\ moving' = NoMove
  BY <1>0, <1>1, <1>2, MovingKept, RunningKeeps
<1>5. CASE Unopened = {}
  <2>1. cmd'.pc = "idle" /\ cmd'.said = "failed" /\ cmd'.op = "write"
    BY <1>1, <1>2, <1>5 DEF WriteOpen, Say, CmdRec
  <2>2. SaysTheTruth' /\ MoveKeepsText'
    BY <1>4, <2>1 DEF SaysTheTruth, MoveKeepsText
  <2> QED
    BY <2>1, <2>2, CommandEnds
<1>6. CASE Unopened # {}
  <2>1. PICK l, n : l = Lowest(Unopened) /\ n = cmd.dst /\ Named(n)
    BY <1>1
  <2>2. handles' = Opened(n) /\ cmd' = [cmd EXCEPT !.pc = "w_write", !.dfd = l]
    BY <1>6, <2>1 DEF WriteOpen
  <2>3. l \in HandleIdx /\ handles'[l] = [inode |-> entry[n], pos |-> 0]
    BY <1>1, <1>6, <2>1, <2>2, OpenedIs
  <2>4. /\ cmd'.pc = "w_write" /\ cmd'.dfd = l /\ cmd'.dst = n
        /\ cmd'.op = "write" /\ cmd'.text = cmd.text /\ cmd'.orig = cmd.orig
    BY <1>1, <1>2, <2>1, <2>2 DEF CmdRec
  <2>5. At(cmd.dfd, cmd.dst, 0)'
    BY <1>3, <2>3, <2>4 DEF At
  <2>6. WriteInv'
    BY <1>2, <1>3, <2>1, <2>4, <2>5 DEF WriteInv
  <2>7. CatInv' /\ CopyInv' /\ Sound' /\ cmd'.pc # "idle"
    BY <1>1, <1>3, <2>4 DEF CatInv, CopyInv, Copying, Sound
  <2> QED
    BY <1>1, <1>4, <2>6, <2>7, CommandGoesOn
<1> QED
  BY <1>5, <1>6

\* write writes its text and closes the file.
LEMMA WriteEnds ==
    ASSUME OnSound, BaseInv', WriteText
    PROVE  TaskInv'
<1>0. Running
  BY DEF Running
<1>1. /\ CommandsTypeOK /\ CommandsTypeOK' /\ cmd \in CmdRec /\ cmd.pc = "w_write"
      /\ WriteInv /\ Sound /\ MovingInv /\ BaseInv
  BY DEF OnSound, BaseInv, TaskInv, WriteText, CommandsTypeOK
<1>2. PICK h \in HandleIdx, n \in Names, t \in Seq(Data), old \in Seq(Data) :
          /\ cmd.dfd = h /\ cmd.dst = n /\ cmd.text = t /\ files[n] = old
          /\ old = IF cmd.orig = Absent THEN <<>> ELSE cmd.orig
          /\ handles[h] = [inode |-> entry[n], pos |-> 0]
  <2>1. cmd.orig \in Contents /\ <<>> \in Seq(Data) /\ cmd.text \in Seq(Data)
    BY <1>1 DEF CmdRec
  <2>2. (IF cmd.orig = Absent THEN <<>> ELSE cmd.orig) \in Seq(Data)
    BY <2>1 DEF Contents
  <2> QED
    BY <1>1, <2>1, <2>2 DEF WriteInv, At
<1>3. cmd.op = "write"
  BY <1>1 DEF WriteInv
<1>4. PICK k \in WriteCounts(h, t) :
          WriteFile(h, t, k) /\ Say(IF k = Len(t) THEN "written" ELSE "failed")
  BY <1>2 DEF WriteText
<1>5. moving' = NoMove
  BY <1>0, <1>1, <1>3, MovingKept, RunningKeeps
<1>6. k = Len(t) => files'[n] = Overwritten(old, 0, SubSeq(t, 1, k))
  <2>1. PICK p \in Nat : p = 0
    OBVIOUS
  <2>2. p <= MaxSize /\ p <= Len(old)
    BY <2>1, CommandsAssumption
  <2>3. Named(n)
    <3>1. files[n] # Absent
      BY <1>2, CommandsAssumption
    <3> QED
      BY <1>1, <3>1, FilesIs DEF Named
  <2>4. On(h, n, p, old) /\ WriteFile(h, t, k)
    BY <1>2, <1>4, <2>1, <2>2, <2>3 DEF On
  <2>5. CommandsTypeOK /\ CommandsTypeOK' /\ Sound /\ p <= MaxSize
    BY <1>1, <2>2
  <2>6. /\ k \in Nat /\ k <= Len(t) /\ p + k <= MaxSize /\ Sound' /\ entry' = entry
        /\ p = Len(old) \/ k = Len(t) => files'[n] = Overwritten(old, p, SubSeq(t, 1, k))
        /\ \A m \in Names \ {n} : files'[m] = files[m]
    BY <2>4, <2>5, WrittenIs, Zenon
  <2> QED
    BY <2>1, <2>6
<1>7. PICK what \in {"written", "failed"} :
          what = (IF k = Len(t) THEN "written" ELSE "failed") /\ Say(what)
  BY <1>4
<1>8. /\ cmd'.pc = "idle" /\ cmd'.said = what /\ cmd'.op = "write"
      /\ cmd'.text = t /\ cmd'.dst = n /\ cmd'.orig = cmd.orig
  BY <1>1, <1>2, <1>3, <1>7 DEF CmdRec, Say
<1>9. SaysTheTruth' /\ MoveKeepsText'
  <2>1. k = Len(t) => files'[n] = Overwritten(old, 0, t)
    BY <1>6, SubSeqFull
  <2>2. cmd'.said = "written" => files'[n] = Overwritten(old, 0, t)
    BY <1>7, <1>8, <2>1
  <2> QED
    BY <1>2, <1>5, <1>8, <2>2 DEF SaysTheTruth, MoveKeepsText
<1> QED
  BY <1>8, <1>9, CommandEnds

-----------------------------------------------------------------------------
(* cp and mv.                                                              *)

\* The source and the task stay while the copy goes on.
LEMMA TaskKept ==
    ASSUME CopyTask, files'[cmd.src] = files[cmd.src],
           cmd'.op = cmd.op, cmd'.src = cmd.src, cmd'.dst = cmd.dst, cmd'.orig = cmd.orig
    PROVE  CopyTask'
BY DEF CopyTask

\* A copy that fails leaves the source as it was.
LEMMA CopyFails ==
    ASSUME BaseInv, MovingInv, Running, cmd'.pc = "idle", cmd'.said = "failed", CopyTask'
    PROVE  TaskInv'
<1>1. SaysTheTruth'
  BY DEF SaysTheTruth, CopyTask
<1>2. MoveKeepsText'
  <2>1. /\ files'[cmd'.src] = cmd'.orig
        /\ moving' = IF cmd'.op = "mv" /\ cmd'.sound
                     THEN [from |-> cmd'.src, to |-> cmd'.dst, text |-> cmd'.orig] ELSE NoMove
    BY MovingKept DEF CopyTask
  <2>2. CASE cmd'.op = "mv" /\ cmd'.sound
    <3>1. moving'.text = cmd'.orig /\ moving'.from = cmd'.src
      BY <2>1, <2>2
    <3> QED
      BY <2>1, <3>1 DEF MoveKeepsText
  <2>3. CASE ~(cmd'.op = "mv" /\ cmd'.sound)
    BY <2>1, <2>3 DEF MoveKeepsText
  <2> QED
    BY <2>2, <2>3
<1> QED
  BY <1>1, <1>2, CommandEnds

\* They create the destination.
LEMMA CopyCreates ==
    ASSUME OnSound, BaseInv', CopyCreate
    PROVE  TaskInv'
<1>0. Running
  BY DEF Running, Copy
<1>1. /\ CommandsTypeOK /\ CommandsTypeOK' /\ cmd \in CmdRec /\ cmd.pc = "create"
      /\ CopyInv /\ Sound /\ MovingInv /\ BaseInv
  BY DEF OnSound, BaseInv, TaskInv, CopyCreate, CommandsTypeOK
<1>2. CopyTask /\ cmd.ok /\ At(cmd.sfd, cmd.src, 0) /\ ~Exists(cmd.dst)
  BY <1>1 DEF CopyInv, Copying
<1>3. PICK s \in Names, d \in Names : s = cmd.src /\ d = cmd.dst /\ s # d /\ ~Exists(d)
  BY <1>2 DEF CopyTask
<1>4. CASE CreateOk(d) /\ Goto("open") /\ UNCHANGED handles
  <2>1. /\ cmd'.pc = "open" /\ cmd'.op = cmd.op /\ cmd'.src = cmd.src
        /\ cmd'.dst = cmd.dst /\ cmd'.orig = cmd.orig /\ cmd'.sfd = cmd.sfd /\ cmd'.ok = cmd.ok
    BY <1>1, <1>4 DEF Goto, CmdRec
  <2>2. /\ Sound' /\ files'[d] = <<>> /\ entry'[s] = entry[s] /\ files'[s] = files[s]
    BY <1>1, <1>3, <1>4, CreatedIs
  <2>3. CopyTask'
    BY <1>2, <1>3, <2>1, <2>2, TaskKept
  <2>4. At(cmd.sfd, cmd.src, 0)'
    BY <1>2, <1>3, <1>4, <2>1, <2>2 DEF At
  <2>5. CopyInv'
    BY <1>2, <1>3, <2>1, <2>2, <2>3, <2>4 DEF CopyInv
  <2>6. CatInv' /\ WriteInv' /\ cmd'.pc # "idle"
    BY <2>1 DEF CatInv, WriteInv
  <2>7. MovingInv'
    BY <1>0, <1>1, MovingKept
  <2> QED
    BY <1>1, <2>2, <2>5, <2>6, <2>7, CommandGoesOn
<1>5. CASE CreateFails(d) /\ Say("failed")
  <2>1. /\ cmd'.pc = "idle" /\ cmd'.said = "failed" /\ cmd'.op = cmd.op
        /\ cmd'.src = cmd.src /\ cmd'.dst = cmd.dst /\ cmd'.orig = cmd.orig
    BY <1>1, <1>5 DEF Say, CmdRec
  <2>2. files'[s] = files[s]
    BY <1>1, <1>3, <1>5, NotCreatedKeeps
  <2>3. CopyTask'
    BY <1>2, <1>3, <2>1, <2>2, TaskKept
  <2> QED
    BY <1>0, <1>1, <2>1, <2>3, CopyFails
<1> QED
  BY <1>3, <1>4, <1>5 DEF CopyCreate

\* They open it.
LEMMA CopyOpens ==
    ASSUME OnSound, BaseInv', CopyOpen
    PROVE  TaskInv'
<1>0. Running
  BY DEF Running, Copy
<1>1. /\ CommandsTypeOK /\ CommandsTypeOK' /\ cmd \in CmdRec /\ cmd.pc = "open"
      /\ CopyInv /\ Sound /\ MovingInv /\ BaseInv /\ Named(cmd.dst) /\ Inside(cmd.sfd)
  BY DEF OnSound, BaseInv, TaskInv, CopyOpen, CommandsTypeOK, OpenInv, Copying
<1>2. CopyTask /\ cmd.ok /\ At(cmd.sfd, cmd.src, 0) /\ files[cmd.dst] = <<>>
  BY <1>1 DEF CopyInv, Copying
<1>3. UNCHANGED <<entry, text, free>> /\ files' = files
  BY FilesKept DEF CopyOpen, disk
<1>4. CASE Say("failed")
  <2>1. /\ cmd'.pc = "idle" /\ cmd'.said = "failed" /\ cmd'.op = cmd.op
        /\ cmd'.src = cmd.src /\ cmd'.dst = cmd.dst /\ cmd'.orig = cmd.orig
    BY <1>1, <1>4 DEF Say, CmdRec
  <2>2. CopyTask'
    BY <1>2, <1>3, <2>1, TaskKept
  <2> QED
    BY <1>0, <1>1, <2>1, <2>2, CopyFails
<1>5. CASE /\ Unopened # {} /\ handles' = Opened(cmd.dst)
           /\ cmd' = [cmd EXCEPT !.pc = "read", !.dfd = Lowest(Unopened)]
  <2>1. PICK l, n : l = Lowest(Unopened) /\ n = cmd.dst /\ Named(n)
    BY <1>1
  <2>2. handles' = Opened(n) /\ cmd' = [cmd EXCEPT !.pc = "read", !.dfd = l]
    BY <1>5, <2>1
  <2>3. /\ l \in HandleIdx /\ handles[l] = Closed
        /\ handles'[l] = [inode |-> entry[n], pos |-> 0]
        /\ \A h \in HandleIdx \ {l} : handles'[h] = handles[h]
    BY <1>1, <1>5, <2>1, <2>2, OpenedIs
  <2>4. /\ cmd'.pc = "read" /\ cmd'.op = cmd.op /\ cmd'.src = cmd.src
        /\ cmd'.dst = cmd.dst /\ cmd'.orig = cmd.orig /\ cmd'.sfd = cmd.sfd
        /\ cmd'.dfd = l /\ cmd'.ok = cmd.ok
    BY <1>1, <2>2 DEF CmdRec
  <2>5. CopyTask'
    BY <1>2, <1>3, <2>4, TaskKept
  <2>6. cmd.sfd # l
    BY <1>1, <2>3 DEF Inside
  <2>7. CopyLoop(0)'
    <3>1. cmd'.orig \in Seq(Data)
      BY <2>5 DEF CopyTask
    <3>2. 0 <= Len(cmd'.orig) /\ files'[cmd'.dst] = SubSeq(cmd'.orig, 1, 0)
      <4>1. SubSeq(cmd'.orig, 1, 0) = <<>>
        BY SubSeqEmpty
      <4>2. files'[cmd'.dst] = <<>>
        BY <1>2, <1>3, <2>4
      <4>3. Len(cmd'.orig) \in Nat
        BY <3>1
      <4> QED
        BY <4>1, <4>2, <4>3
    <3>3. At(cmd.dfd, cmd.dst, 0)' /\ At(cmd.sfd, cmd.src, 0)'
      BY <1>2, <1>3, <2>1, <2>3, <2>4, <2>6 DEF At
    <3> QED
      BY <1>2, <2>4, <3>2, <3>3 DEF CopyLoop
  <2>8. CopyInv'
    <3>1. 0 \in 0 .. MaxSize
      BY CommandsAssumption
    <3>2. \E q \in 0 .. MaxSize : CopyLoop(q)'
      BY <2>7, <3>1
    <3> QED
      BY <2>4, <2>5, <3>2 DEF CopyInv
  <2>9. CatInv' /\ WriteInv' /\ Sound' /\ cmd'.pc # "idle"
    BY <1>1, <1>3, <2>4 DEF CatInv, WriteInv, Sound
  <2>10. MovingInv'
    BY <1>0, <1>1, MovingKept
  <2> QED
    BY <1>1, <2>8, <2>9, <2>10, CommandGoesOn
<1> QED
  BY <1>4, <1>5 DEF CopyOpen

\* Where the loop stands: q units copied from s to d through the handles f and g.
LoopAt(q, f, g, s, d, o) ==
    /\ q \in 0 .. MaxSize /\ f \in HandleIdx /\ g \in HandleIdx /\ s \in Names /\ d \in Names
    /\ o \in Seq(Data) /\ CopyTask /\ cmd.ok /\ cmd.sfd = f /\ cmd.dfd = g /\ f # g
    /\ cmd.src = s /\ cmd.dst = d /\ s # d /\ cmd.orig = o /\ files[s] = o
    /\ q <= Len(o) /\ files[d] = SubSeq(o, 1, q) /\ Named(s) /\ Named(d)
    /\ handles[g] = [inode |-> entry[d], pos |-> q]
    /\ cmd.pc = "read" => handles[f] = [inode |-> entry[s], pos |-> q]
    /\ cmd.pc = "copy" =>
          /\ q + Len(cmd.text) <= Len(o)
          /\ cmd.text = SubSeq(o, q + 1, q + Len(cmd.text))
          /\ handles[f] = [inode |-> entry[s], pos |-> q + Len(cmd.text)]

\* In the loop, the destination is the part of the source read so far.
LEMMA LoopIs ==
    ASSUME OnSound, cmd.pc \in {"read", "copy"}
    PROVE  \E q \in 0 .. MaxSize, f, g \in HandleIdx, s, d \in Names, o \in Seq(Data) :
               LoopAt(q, f, g, s, d, o)
<1>1. CopyInv /\ cmd.pc \in Copying /\ OpenInv
  BY DEF OnSound, Copying, BaseInv
<1>2. PICK q \in 0 .. MaxSize : CopyLoop(q)
  BY <1>1 DEF CopyInv
<1>3. CopyTask
  BY <1>1 DEF CopyInv
<1>4. /\ cmd.src \in Names /\ cmd.dst \in Names /\ cmd.orig \in Seq(Data)
      /\ cmd.src # cmd.dst /\ files[cmd.src] = cmd.orig
  BY <1>3 DEF CopyTask
<1>5. Named(cmd.src) /\ Named(cmd.dst) /\ cmd.sfd # cmd.dfd /\ cmd.sfd \in HandleIdx
  BY <1>1 DEF OpenInv, Source, Inside, Copying
<1>6. cmd.dfd \in HandleIdx /\ handles[cmd.dfd] = [inode |-> entry[cmd.dst], pos |-> q]
  BY <1>2 DEF CopyLoop, At
<1>7. LoopAt(q, cmd.sfd, cmd.dfd, cmd.src, cmd.dst, cmd.orig)
  BY <1>2, <1>3, <1>4, <1>5, <1>6 DEF CopyLoop, At, LoopAt
<1> QED
  BY <1>4, <1>5, <1>6, <1>7, Zenon

\* The loop reads a buffer.
LEMMA CopyReads ==
    ASSUME OnSound, BaseInv', CopyRead
    PROVE  TaskInv'
<1>0. Running
  BY DEF Running, Copy
<1>1. /\ CommandsTypeOK /\ CommandsTypeOK' /\ cmd \in CmdRec /\ cmd.pc = "read"
      /\ Sound /\ MovingInv /\ BaseInv
  BY DEF OnSound, BaseInv, TaskInv, CopyRead, CommandsTypeOK
<1>a. PICK q \in 0 .. MaxSize, f, g \in HandleIdx, s, d \in Names, o \in Seq(Data) :
          LoopAt(q, f, g, s, d, o)
  BY <1>1, LoopIs
<1>2. /\ CopyTask /\ cmd.ok /\ cmd.sfd = f /\ cmd.dfd = g /\ f # g
      /\ cmd.src = s /\ cmd.dst = d /\ s # d /\ cmd.orig = o /\ files[s] = o
      /\ q <= Len(o) /\ files[d] = SubSeq(o, 1, q) /\ Named(s)
      /\ handles[g] = [inode |-> entry[d], pos |-> q]
      /\ handles[f] = [inode |-> entry[s], pos |-> q]
  BY <1>1, <1>a DEF LoopAt
<1>3. PICK k \in ReadCounts(f) :
          /\ handles' = Advanced(f, k)
          /\ cmd' = IF k = 0 THEN [cmd EXCEPT !.pc = "close"]
                    ELSE [cmd EXCEPT !.pc = "copy", !.text = ReadText(f, k)]
  BY <1>2 DEF CopyRead
<1>4. UNCHANGED <<entry, text, free>> /\ files' = files
  BY FilesKept DEF CopyRead, disk
<1>5. q \in Nat /\ On(f, s, q, o)
  BY <1>2, CommandsAssumption DEF On
<1>6. /\ k \in Nat /\ q + k <= Len(o)
      /\ ReadText(f, k) = SubSeq(o, q + 1, q + k)
      /\ "read" \notin Faults /\ k = 0 => q = Len(o)
      /\ handles' = Advanced(f, k) =>
            /\ handles'[f] = [inode |-> entry[s], pos |-> q + k]
            /\ \A h \in HandleIdx \ {f} : handles'[h] = handles[h]
  <2>1. CommandsTypeOK /\ On(f, s, q, o)
    BY <1>1, <1>5
  <2> QED
    BY <2>1, ReadIs, Zenon
<1>7. /\ handles'[f] = [inode |-> entry'[s], pos |-> q + k]
      /\ handles'[g] = [inode |-> entry'[d], pos |-> q]
  BY <1>2, <1>3, <1>4, <1>6
<1>b. MovingInv' /\ Sound'
  BY <1>0, <1>1, <1>4, MovingKept DEF Sound
<1>8. CASE k = 0
  <2>1. /\ cmd'.pc = "close" /\ cmd'.op = cmd.op /\ cmd'.src = s
        /\ cmd'.dst = d /\ cmd'.orig = o
    BY <1>1, <1>2, <1>3, <1>8 DEF CmdRec
  <2>2. CopyTask'
    BY <1>2, <1>4, <2>1, TaskKept
  <2>3. "read" \in Faults \/ files'[cmd'.dst] = cmd'.orig
    <3>1. SubSeq(o, 1, Len(o)) = o
      BY SubSeqFull
    <3> QED
      BY <1>2, <1>4, <1>6, <1>8, <2>1, <3>1
  <2>4. CopyInv'
    BY <2>1, <2>2, <2>3 DEF CopyInv
  <2>5. CatInv' /\ WriteInv' /\ cmd'.pc # "idle"
    BY <2>1 DEF CatInv, WriteInv
  <2> QED
    BY <1>1, <1>b, <2>4, <2>5, CommandGoesOn
<1>9. CASE k # 0
  <2>1. PICK t : t = SubSeq(o, q + 1, q + k)
    OBVIOUS
  <2>2. t \in Seq(Data) /\ Len(t) = k
    <3>1. PICK m \in Nat : m = k /\ q + m <= Len(o)
      BY <1>6
    <3>2. SubSeq(o, q + 1, q + m) \in Seq(Data) /\ Len(SubSeq(o, q + 1, q + m)) = m
      BY <1>5, <3>1, StretchIs
    <3> QED
      BY <2>1, <3>1, <3>2
  <2>3. cmd' = [cmd EXCEPT !.pc = "copy", !.text = t]
    BY <1>3, <1>6, <1>9, <2>1
  <2>4. /\ cmd'.pc = "copy" /\ cmd'.op = cmd.op /\ cmd'.src = s
        /\ cmd'.dst = d /\ cmd'.orig = o /\ cmd'.sfd = f /\ cmd'.dfd = g /\ cmd'.text = t
        /\ cmd'.ok = cmd.ok
    BY <1>1, <1>2, <2>3 DEF CmdRec
  <2>5. CopyTask'
    BY <1>2, <1>4, <2>4, TaskKept
  <2>6. CopyLoop(q)'
    <3>1. At(cmd.dfd, cmd.dst, q)'
      BY <1>7, <2>4 DEF At
    <3>2. At(cmd.sfd, cmd.src, q + Len(cmd.text))'
      BY <1>7, <2>2, <2>4 DEF At
    <3>3. q + Len(t) <= Len(o) /\ t = SubSeq(o, q + 1, q + Len(t))
      BY <1>6, <2>1, <2>2
    <3> QED
      BY <1>2, <1>4, <2>4, <3>1, <3>2, <3>3 DEF CopyLoop
  <2>7. CopyInv'
    <3>1. \E p \in 0 .. MaxSize : CopyLoop(p)'
      BY <2>6
    <3> QED
      BY <2>4, <2>5, <3>1 DEF CopyInv
  <2>8. CatInv' /\ WriteInv' /\ cmd'.pc # "idle"
    BY <2>4 DEF CatInv, WriteInv
  <2> QED
    BY <1>1, <1>b, <2>7, <2>8, CommandGoesOn
<1> QED
  BY <1>8, <1>9

\* The loop writes the buffer.
LEMMA CopyWrites ==
    ASSUME OnSound, BaseInv', CopyWrite
    PROVE  TaskInv'
<1>0. Running
  BY DEF Running, Copy
<1>1. /\ CommandsTypeOK /\ CommandsTypeOK' /\ cmd \in CmdRec /\ cmd.pc = "copy"
      /\ Sound /\ MovingInv /\ BaseInv
  BY DEF OnSound, BaseInv, TaskInv, CopyWrite, CommandsTypeOK
<1>2. PICK q \in 0 .. MaxSize, f, g \in HandleIdx, s, d \in Names, o \in Seq(Data) :
          LoopAt(q, f, g, s, d, o)
  BY <1>1, LoopIs
<1>3. PICK t \in Seq(Data) : t = cmd.text
  BY <1>1 DEF CmdRec
<1>4. /\ CopyTask /\ cmd.ok /\ cmd.sfd = f /\ cmd.dfd = g /\ f # g
      /\ cmd.src = s /\ cmd.dst = d /\ s # d /\ cmd.orig = o /\ files[s] = o
      /\ q <= Len(o) /\ files[d] = SubSeq(o, 1, q) /\ Named(d)
      /\ handles[g] = [inode |-> entry[d], pos |-> q]
      /\ q + Len(t) <= Len(o) /\ t = SubSeq(o, q + 1, q + Len(t))
      /\ handles[f] = [inode |-> entry[s], pos |-> q + Len(t)]
  BY <1>1, <1>2, <1>3 DEF LoopAt
<1>5. q \in Nat /\ q <= MaxSize /\ Len(t) \in Nat
  BY CommandsAssumption
<1>6. PICK k \in WriteCounts(g, t) :
          /\ WriteFile(g, t, k) /\ handles' = Advanced(g, k)
          /\ cmd' = IF k = Len(t) THEN [cmd EXCEPT !.pc = "read"]
                    ELSE [cmd EXCEPT !.pc = "close", !.ok = FALSE]
  BY <1>3, <1>4 DEF CopyWrite
<1>7. PICK c \in Seq(Data) : c = SubSeq(o, 1, q) /\ Len(c) = q
  BY <1>4, <1>5, PrefixIs
<1>a. CommandsTypeOK /\ On(g, d, q, c)
  BY <1>1, <1>4, <1>5, <1>7 DEF On
<1>8. /\ k \in Nat /\ k <= Len(t) /\ q + k <= MaxSize /\ Sound' /\ entry' = entry
      /\ files'[d] = Overwritten(c, q, SubSeq(t, 1, k)) /\ files'[s] = files[s]
  <2>1. CommandsTypeOK /\ CommandsTypeOK' /\ Sound /\ q <= MaxSize /\ WriteFile(g, t, k)
    BY <1>1, <1>5, <1>6
  <2>2. /\ k \in Nat /\ k <= Len(t) /\ q + k <= MaxSize /\ Sound' /\ entry' = entry
        /\ q = Len(c) \/ k = Len(t) => files'[d] = Overwritten(c, q, SubSeq(t, 1, k))
        /\ \A m \in Names \ {d} : files'[m] = files[m]
    BY <1>a, <2>1, WrittenIs, Zenon
  <2> QED
    BY <1>4, <1>7, <2>2
<1>9. files'[d] = SubSeq(o, 1, q + k)
  <2>1. PICK n \in Nat : n = Len(t)
    BY <1>5
  <2>2. q \in Nat /\ k \in Nat /\ k <= n /\ q + n <= Len(o)
    BY <1>4, <1>5, <1>8, <2>1
  <2>3. Overwritten(SubSeq(o, 1, q), q, SubSeq(SubSeq(o, q + 1, q + n), 1, k))
            = SubSeq(o, 1, q + k)
    BY <2>2, CopyGrows, Zenon
  <2>4. t = SubSeq(o, q + 1, q + n)
    BY <1>4, <2>1
  <2> QED
    BY <1>7, <1>8, <2>3, <2>4
<1>10. /\ handles'[g] = [inode |-> entry'[d], pos |-> q + k]
       /\ handles'[f] = [inode |-> entry'[s], pos |-> q + Len(t)]
  <2>1. Inside(g) /\ handles[g].inode = entry[d] /\ handles[g].pos = q
    BY <1>a, OnLeads
  <2>2. handles[g] # Closed
    BY <2>1 DEF Inside
  <2>3. /\ handles'[g] = [inode |-> handles[g].inode, pos |-> handles[g].pos + k]
        /\ \A h \in HandleIdx \ {g} : handles'[h] = handles[h]
    BY <1>1, <1>6, <1>8, <2>2, AdvancedIs
  <2> QED
    BY <1>4, <1>8, <2>1, <2>3
<1>11. MovingInv'
  BY <1>0, <1>1, MovingKept
<1>12. CASE k = Len(t)
  <2>1. /\ cmd'.pc = "read" /\ cmd'.op = cmd.op /\ cmd'.src = s
        /\ cmd'.dst = d /\ cmd'.orig = o /\ cmd'.sfd = f /\ cmd'.dfd = g /\ cmd'.ok = cmd.ok
    BY <1>1, <1>4, <1>6, <1>12 DEF CmdRec
  <2>2. CopyTask'
    BY <1>4, <1>8, <2>1, TaskKept
  <2>3. PICK r \in 0 .. MaxSize : r = q + k /\ r <= Len(o)
    BY <1>4, <1>5, <1>8, <1>12, CommandsAssumption
  <2>4. CopyLoop(r)'
    <3>1. At(cmd.dfd, cmd.dst, r)' /\ At(cmd.sfd, cmd.src, r)'
      BY <1>10, <1>12, <2>1, <2>3 DEF At
    <3> QED
      BY <1>4, <1>9, <2>1, <2>3, <3>1 DEF CopyLoop
  <2>5. CopyInv'
    <3>1. \E p \in 0 .. MaxSize : CopyLoop(p)'
      BY <2>4
    <3> QED
      BY <2>1, <2>2, <3>1 DEF CopyInv
  <2>6. CatInv' /\ WriteInv' /\ cmd'.pc # "idle"
    BY <2>1 DEF CatInv, WriteInv
  <2> QED
    BY <1>1, <1>8, <1>11, <2>5, <2>6, CommandGoesOn
<1>13. CASE k # Len(t)
  <2>1. /\ cmd'.pc = "close" /\ cmd'.op = cmd.op /\ cmd'.src = s
        /\ cmd'.dst = d /\ cmd'.orig = o /\ cmd'.ok = FALSE
    BY <1>1, <1>4, <1>6, <1>13 DEF CmdRec
  <2>2. CopyTask'
    BY <1>4, <1>8, <2>1, TaskKept
  <2>3. CopyInv'
    BY <2>1, <2>2 DEF CopyInv
  <2>4. CatInv' /\ WriteInv' /\ cmd'.pc # "idle"
    BY <2>1 DEF CatInv, WriteInv
  <2> QED
    BY <1>1, <1>8, <1>11, <2>3, <2>4, CommandGoesOn
<1> QED
  BY <1>12, <1>13

\* Both files are closed, and mv removes the source.
LEMMA CopyCloses ==
    ASSUME OnSound, BaseInv', CopyClose
    PROVE  TaskInv'
<1>0. Running
  BY DEF Running, Copy
<1>1. /\ CommandsTypeOK /\ CommandsTypeOK' /\ cmd \in CmdRec /\ cmd.pc = "close"
      /\ CopyInv /\ Sound /\ MovingInv /\ BaseInv
  BY DEF OnSound, BaseInv, TaskInv, CopyClose, CommandsTypeOK
<1>2. CopyTask /\ (cmd.ok => "read" \in Faults \/ files[cmd.dst] = cmd.orig)
  BY <1>1 DEF CopyInv, Copying
<1>3. UNCHANGED <<entry, text, free>> /\ files' = files
  BY FilesKept DEF CopyClose, disk
<1>4. Sound' /\ MovingInv' /\ (cmd.op # "mv" => moving' = NoMove)
  BY <1>0, <1>1, <1>3, MovingKept, RunningKeeps DEF Sound
<1>5. ASSUME NEW pc \in {"undo", "remove"}, cmd' = [cmd EXCEPT !.pc = pc],
             pc = "remove" => cmd.ok /\ cmd.op = "mv"
      PROVE  TaskInv'
  <2>1. /\ cmd'.pc = pc /\ cmd'.op = cmd.op /\ cmd'.src = cmd.src
        /\ cmd'.dst = cmd.dst /\ cmd'.orig = cmd.orig
    BY <1>1, <1>5 DEF CmdRec
  <2>2. CopyTask'
    BY <1>2, <1>3, <2>1, TaskKept
  <2>3. CopyInv'
    BY <1>2, <1>3, <1>5, <2>1, <2>2 DEF CopyInv
  <2>4. CatInv' /\ WriteInv' /\ cmd'.pc # "idle"
    BY <2>1 DEF CatInv, WriteInv
  <2> QED
    BY <1>1, <1>4, <2>3, <2>4, CommandGoesOn
<1>6. CASE cmd.ok /\ cmd.op # "mv" /\ cmd' = [cmd EXCEPT !.pc = "idle", !.said = "copied"]
  <2>1. /\ cmd'.pc = "idle" /\ cmd'.said = "copied" /\ cmd'.op = cmd.op
        /\ cmd'.src = cmd.src /\ cmd'.dst = cmd.dst /\ cmd'.orig = cmd.orig
    BY <1>1, <1>6 DEF CmdRec
  <2>2. files[cmd.src] = cmd.orig
    BY <1>2 DEF CopyTask
  <2>3. "read" \in Faults \/ (SaysTheTruth' /\ MoveKeepsText')
    BY <1>2, <1>3, <1>4, <1>6, <2>1, <2>2 DEF SaysTheTruth, MoveKeepsText
  <2> QED
    BY <2>1, <2>3, CommandEnds
<1>7. cmd.ok \in BOOLEAN
  BY <1>1 DEF CmdRec
<1> QED
  BY <1>5, <1>6, <1>7 DEF CopyClose

\* The undoing of a failed copy, and the deletion of the source of a whole one.
LEMMA CopyDeletes ==
    ASSUME OnSound, BaseInv', CopyUndo \/ MoveRemove
    PROVE  TaskInv'
<1>0. Running
  BY DEF Running, Copy
<1>1. /\ CommandsTypeOK /\ CommandsTypeOK' /\ cmd \in CmdRec /\ cmd.pc \in {"undo", "remove"}
      /\ CopyInv /\ Sound /\ MovingInv /\ BaseInv /\ OpenInv
  BY DEF OnSound, BaseInv, TaskInv, CopyUndo, MoveRemove, CommandsTypeOK
<1>2. /\ CopyTask /\ Named(cmd.src) /\ Named(cmd.dst)
      /\ cmd.pc = "remove" => /\ cmd.op = "mv"
                              /\ "read" \in Faults \/ files[cmd.dst] = cmd.orig
  BY <1>1 DEF CopyInv, Copying, OpenInv, Source
<1>3. PICK s \in Names, d \in Names :
          s = cmd.src /\ d = cmd.dst /\ s # d /\ Named(s) /\ Named(d)
  BY <1>2 DEF CopyTask
<1>4. ASSUME NEW what \in {"failed", "moved", "not removed"}, Say(what)
      PROVE  /\ cmd'.pc = "idle" /\ cmd'.said = what /\ cmd'.op = cmd.op
             /\ cmd'.src = s /\ cmd'.dst = d /\ cmd'.orig = cmd.orig
  BY <1>1, <1>3, <1>4 DEF CmdRec, Say
<1>5. CASE CopyUndo
  <2>1. Say("failed") /\ (DeleteOk(d) \/ DeleteFails(d))
    BY <1>3, <1>5 DEF CopyUndo
  <2>2. files'[s] = files[s]
    BY <1>1, <1>3, <2>1, DeletedKeeps
  <2>3. CopyTask'
    BY <1>2, <1>3, <1>4, <2>1, <2>2, TaskKept
  <2> QED
    BY <1>0, <1>1, <1>4, <2>1, <2>3, CopyFails
<1>6. CASE MoveRemove
  <2>1. PICK what \in {"moved", "not removed"} :
            Say(what) /\ (DeleteOk(s) \/ DeleteFails(s)) /\ (what = "moved" => DeleteOk(s))
    BY <1>3, <1>6 DEF MoveRemove
  <2>2. /\ cmd'.pc = "idle" /\ cmd'.said = what /\ cmd'.op = "mv"
        /\ cmd'.src = s /\ cmd'.dst = d /\ cmd'.orig = cmd.orig
    BY <1>2, <1>4, <1>6, <2>1 DEF MoveRemove
  <2>3. files'[d] = files[d] /\ (what = "moved" => Gone(s)')
    BY <1>1, <1>3, <2>1, DeletedKeeps
  <2>4. "read" \in Faults \/ files[d] = cmd.orig
    BY <1>2, <1>3, <1>6 DEF MoveRemove
  <2>5. cmd'.sound = cmd.sound /\ cmd.sound
    BY <1>0, <1>1, RunningKeeps DEF OnSound
  <2>6. moving' = [from |-> s, to |-> d, text |-> cmd.orig]
    BY <1>0, <1>1, <2>2, <2>5, MovingKept
  <2>7. moving'.text = cmd.orig /\ moving'.to = d
    BY <2>6
  <2>8. what = "moved" => Gone(cmd.src)'
    BY <2>2, <2>3 DEF Gone
  <2>9. "read" \in Faults \/ (SaysTheTruth' /\ MoveKeepsText')
    BY <2>2, <2>3, <2>4, <2>7, <2>8 DEF SaysTheTruth, MoveKeepsText
  <2> QED
    BY <2>2, <2>9, CommandEnds
<1> QED
  BY <1>5, <1>6

-----------------------------------------------------------------------------
\* Between commands, and when the power fails.
LEMMA Surroundings ==
    ASSUME BaseInv, TaskInv, PowerFailure \/ \E h \in HandleIdx : ProcessHandle(h)
    PROVE  TaskInv'
<1>1. "read" \in Faults \/ (SaysTheTruth /\ MoveKeepsText)
  BY DEF TaskInv
<1>2. CASE PowerFailure
  <2>1. UNCHANGED <<entry, text>> /\ moving' = moving /\ cmd' = NoCmd /\ ~torn
    BY <1>2 DEF PowerFailure, disk
  <2>2. cmd'.pc = "idle" /\ cmd'.said = "nothing" /\ files' = files
    BY <2>1, NoCmdIs, FilesKept
  <2>3. "read" \in Faults \/ (SaysTheTruth' /\ MoveKeepsText')
    BY <1>1, <2>1, <2>2 DEF SaysTheTruth, MoveKeepsText
  <2> QED
    BY <2>2, <2>3, CommandEnds
<1>3. CASE \E h \in HandleIdx : ProcessHandle(h)
  <2>1. UNCHANGED <<entry, text, free, cmd, moving, torn>> /\ cmd.pc = "idle"
    BY <1>3 DEF ProcessHandle, Idle, disk
  <2>2. files' = files
    BY <2>1, FilesKept
  <2>3. "read" \in Faults \/ (SaysTheTruth' /\ MoveKeepsText')
    BY <1>1, <2>1, <2>2 DEF SaysTheTruth, MoveKeepsText, Idle, Gone
  <2> QED
    BY <2>1, <2>3, CommandEnds
<1> QED
  BY <1>2, <1>3

\* A step of the command under way.
LEMMA Runs ==
    ASSUME BaseInv, BaseInv', TaskInv, Running
    PROVE  TaskInv'
<1>1. /\ cmd.pc # "idle" /\ moving' = moving /\ cmd'.sound = cmd.sound
      /\ cmd.sound \in BOOLEAN
  BY RunningKeeps DEF BaseInv, CommandsTypeOK, CmdRec
<1>2. CASE cmd.sound
  <2>1. OnSound
    BY <1>1, <1>2 DEF OnSound, TaskInv, SoundInv, Idle
  <2> QED
    BY <2>1, CatReads, WriteOpens, WriteEnds, CopyCreates, CopyOpens, CopyReads,
       CopyWrites, CopyCloses, CopyDeletes DEF Running, Copy
<1>3. CASE ~cmd.sound
  <2>1. moving = NoMove
    BY <1>1, <1>3 DEF TaskInv, MovingInv, Idle
  <2> QED
    BY <1>1, <1>3, <2>1, NoPromise
<1> QED
  BY <1>1, <1>2, <1>3

\* Before the first command.
LEMMA CommandsStart == Init => CommandsInv
<1> SUFFICES ASSUME Init PROVE CommandsInv
  OBVIOUS
<1>1. <<>> \in Seq(Data) /\ cmd = NoCmd /\ moving = NoMove
  BY DEF Init
<1>2. cmd \in CmdRec /\ cmd.pc = "idle" /\ cmd.said = "nothing"
  BY <1>1, NoCmdIs
<1>3. CommandsTypeOK
  <2>1. 0 \in 0 .. NumInodes
    BY CommandsAssumption
  <2>2. entry \in [Names -> 0 .. NumInodes] /\ text \in [Inodes -> Seq(Data)]
    BY <1>1, <2>1 DEF Init
  <2>3. handles \in [HandleIdx -> Handle \cup {Closed}] /\ busy \subseteq HandleIdx
    BY DEF Init
  <2>4. free \subseteq Inodes /\ unsaved \subseteq Inodes /\ torn \in BOOLEAN
    BY DEF Init
  <2> QED
    BY <1>2, <2>2, <2>3, <2>4 DEF CommandsTypeOK
<1>4. OpenInv
  BY <1>2 DEF Init, OpenInv, HandlesReleased, Copying
<1>5. MovingInv /\ SoundInv /\ SaysTheTruth /\ MoveKeepsText
  BY <1>1, <1>2 DEF MovingInv, SoundInv, SaysTheTruth, MoveKeepsText, Idle
<1> QED
  BY <1>3, <1>4, <1>5 DEF CommandsInv

\* Every step.
LEMMA CommandsStep == CommandsInv /\ [Next]_vars => CommandsInv'
<1> SUFFICES ASSUME CommandsInv, [Next]_vars PROVE CommandsInv'
  OBVIOUS
<1>1. BaseInv /\ TaskInv
  BY DEF CommandsInv, BaseInv, TaskInv
<1>2. BaseInv'
  BY <1>1, BaseStep
<1>3. CASE UNCHANGED vars
  <2>1. UNCHANGED <<entry, text, free, unsaved, handles, busy, cmd, moving, torn>>
    BY <1>3 DEF vars
  <2>2. files' = files
    BY <2>1, FilesKept
  <2>3. MovingInv' /\ ("read" \in Faults \/ (SaysTheTruth' /\ MoveKeepsText'))
    BY <1>1, <2>1, <2>2 DEF TaskInv, MovingInv, SaysTheTruth, MoveKeepsText, Idle, Gone
  <2>4. SoundInv'
    <3>1. ASSUME Sound, CatInv, WriteInv, CopyInv
          PROVE  Sound' /\ CatInv' /\ WriteInv' /\ CopyInv'
      <4>1. Sound' /\ CatInv' /\ WriteInv'
        BY <2>1, <2>2, <3>1 DEF Sound, CatInv, WriteInv, At
      <4>2. CopyTask => CopyTask'
        BY <2>1, <2>2 DEF CopyTask
      <4>3. \A q \in 0 .. MaxSize : CopyLoop(q) => CopyLoop(q)'
        BY <2>1, <2>2 DEF CopyLoop, At
      <4>4. CopyInv'
        BY <2>1, <2>2, <3>1, <4>2, <4>3 DEF CopyInv, At, Exists
      <4> QED
        BY <4>1, <4>4
    <3> QED
      BY <1>1, <2>1, <3>1 DEF TaskInv, SoundInv, Idle
  <2>5. TaskInv'
    BY <2>3, <2>4 DEF TaskInv
  <2> QED
    BY <1>2, <2>5 DEF CommandsInv, BaseInv, TaskInv
<1>4. CASE Next
  <2>1. TaskInv'
    <3>1. CASE \E n \in Names : touch(n) \/ rm(n) \/ cat(n)
      BY <1>1, <1>2, <3>1, SingleCalls, CatStarts
    <3>2. CASE \E n \in Names, t \in Texts : WriteCreate(n, t)
      BY <1>1, <1>2, <3>2, WriteStarts
    <3>3. CASE \E s, d \in Names : CopyStart("cp", s, d) \/ CopyStart("mv", s, d)
      BY <1>1, <1>2, <3>3, CopyStarts
    <3>4. CASE Running
      BY <1>1, <1>2, <3>4, Runs
    <3>5. CASE PowerFailure \/ \E h \in HandleIdx : ProcessHandle(h)
      BY <1>1, <3>5, Surroundings
    <3> QED
      BY <1>4, <3>1, <3>2, <3>3, <3>4, <3>5 DEF Next
  <2> QED
    BY <1>2, <2>1 DEF CommandsInv, BaseInv, TaskInv
<1> QED
  BY <1>3, <1>4

\* The invariant holds throughout, whichever calls fail, noticed or not, and wherever the
\* power does.
THEOREM CommandsSound == Spec => []CommandsInv
BY CommandsStart, CommandsStep, PTL DEF Spec

\* However a command of shell.c ends, with any number of handles, whichever calls of
\* fs.c fail and even on a directory such a failure has spoilt, it has closed the handles
\* it opened.
THEOREM CommandsCloseTheirHandles == Spec => []HandlesReleased
<1>1. CommandsInv => HandlesReleased
  BY DEF CommandsInv, OpenInv
<1> QED
  BY <1>1, CommandsSound, PTL

\* As long as data can be read back, a mv that starts on a sound directory loses no text,
\* wherever it fails, saves of fs_create(), fs_write() and fs_delete() included, and
\* wherever the power does, unless a save had failed before: the comment on
\* shell_cmd_mv(), for any file, buffer and file size.
THEOREM MoveLosesNothing ==
    ASSUME "read" \notin Faults
    PROVE  Spec => []MoveKeepsText
<1>1. CommandsInv => MoveKeepsText
  BY DEF CommandsInv
<1> QED
  BY <1>1, CommandsSound, PTL

\* As long as data can be read back, what cp, mv, rm, write and cat report of a command
\* that starts on a sound directory is so in the running system, for any file, buffer and
\* file size, also when fs.c passes over a save that failed.
THEOREM ReportsAreTrue ==
    ASSUME "read" \notin Faults
    PROVE  Spec => []SaysTheTruth
<1>1. CommandsInv => SaysTheTruth
  BY DEF CommandsInv
<1> QED
  BY <1>1, CommandsSound, PTL
=============================================================================
