-------------------------------- MODULE Nano --------------------------------
(***************************************************************************)
(* The full-screen editor of src/kernel/nano.c: its line buffer, cursor    *)
(* and scrolling window, the save prompt, and the file a save replaces.    *)
(*                                                                         *)
(* lines holds the first line_count rows of the grid, each of line_length  *)
(* characters; rows and columns are counted from 0 as in the code.  Every  *)
(* action is one key, handled inside the keyboard interrupt, with the      *)
(* redraw() that ends it.  The save prompt can only be shortened, so a     *)
(* file name is modelled by its length.                                    *)
(***************************************************************************)
EXTENDS Naturals, Sequences

CONSTANTS
    MaxLines,       \* NANO_MAX_LINES
    MaxLineLen,     \* NANO_MAX_LINE_LEN
    VisibleRows,    \* NANO_TEXT_VISIBLE_ROWS
    MaxFileSize,    \* FS_MAX_FILE_SIZE
    NameLen,        \* the length of the name nano is opened with
    Chars,          \* printable characters
    NL,             \* the newline character
    Texts,          \* what files hold before nano is opened on them
    Absent,         \* no such file
    Some,           \* a file whose text no longer matters
    Faults          \* which calls of fs.c may fail, "full" a short fs_write()

ASSUME NanoAssumption ==
    /\ MaxLines \in Nat \ {0} /\ MaxLineLen \in Nat \ {0} /\ VisibleRows \in Nat \ {0}
    /\ MaxFileSize \in Nat /\ MaxLines * (MaxLineLen + 1) <= MaxFileSize
    /\ NameLen \in Nat \ {0} /\ NL \notin Chars
    /\ Texts \subseteq Seq(Chars \cup {NL})
    /\ Absent \notin Seq(Chars \cup {NL}) /\ Some \notin Seq(Chars \cup {NL}) \cup {Absent}
    /\ Faults \subseteq {"delete", "create", "open", "read", "full"}

VARIABLES
    lines, cursor_line, cursor_col, view_top, dirty, active,
    prompt_active, prompt_length, prompt_cursor,
    name,           \* the length of current_filename
    disk,           \* the file of that name: a text, Absent or Some
    lost            \* history: the file was not read whole, or a save of a
                    \* buffer without changes failed

cursor == <<cursor_line, cursor_col, view_top>>
prompt == <<prompt_active, prompt_length, prompt_cursor>>
vars == <<lines, cursor, dirty, active, prompt, name, disk, lost>>

-----------------------------------------------------------------------------
Line(i) == lines[i + 1]
Current == Line(cursor_line)
Take(s, k) == SubSeq(s, 1, k)
Drop(s, k) == SubSeq(s, k + 1, Len(s))

\* buffer_load(): the finished lines and the current one after the first i
\* characters.  Characters beyond a full line are dropped, and everything beyond
\* a full grid.
LoadStep(p, c) ==
    IF Len(p.done) >= MaxLines THEN p
    ELSE IF c = NL THEN [done |-> Append(p.done, p.cur), cur |-> <<>>]
    ELSE IF Len(p.cur) < MaxLineLen THEN [p EXCEPT !.cur = Append(@, c)]
    ELSE p
LoadStates(raw) ==
    LET upTo[i \in 0 .. Len(raw)] ==
            IF i = 0 THEN [done |-> <<>>, cur |-> <<>>] ELSE LoadStep(upTo[i - 1], raw[i])
    IN  upTo
Loaded(raw) ==
    LET end == LoadStates(raw)[Len(raw)]
    IN  IF end.cur # <<>> \/ end.done = <<>> THEN Append(end.done, end.cur) ELSE end.done
\* buffer_reset() leaves one empty line, for a file that is not loaded.
Buffer(raw) == IF raw = Absent THEN <<<<>>>> ELSE Loaded(raw)

\* buffer_save(): the first k lines, each with its newline, while they fit.
SaveStep(p, line) ==
    IF p.full \/ Len(p.raw) + Len(line) + 1 > MaxFileSize THEN [p EXCEPT !.full = TRUE]
    ELSE [p EXCEPT !.raw = @ \o line \o <<NL>>]
SaveStates(ls) ==
    LET upTo[k \in 0 .. Len(ls)] ==
            IF k = 0 THEN [raw |-> <<>>, full |-> FALSE] ELSE SaveStep(upTo[k - 1], ls[k])
    IN  upTo
Serialized_unterminated(ls) ==
    LET upTo[k \in 0 .. Len(ls)] ==
            IF k = 0 THEN <<>> ELSE IF k = 1 THEN ls[1]
            ELSE upTo[k - 1] \o <<NL>> \o ls[k]
    IN  upTo[Len(ls)]
Serialized(ls) == SaveStates(ls)[Len(ls)].raw

\* redraw(): ensure_cursor_visible() for a cursor on line l.
ScrollTo_pastEnd(l) ==
    IF l < view_top THEN l
    ELSE IF l > view_top + VisibleRows THEN l - VisibleRows + 1 ELSE view_top
ScrollTo(l) ==
    IF l < view_top THEN l
    ELSE IF l >= view_top + VisibleRows THEN l - VisibleRows + 1 ELSE view_top
MoveTo(l, c) == cursor_line' = l /\ cursor_col' = c /\ view_top' = ScrollTo(l)

Edit(new) ==
    /\ lines' = new /\ dirty' = TRUE
    /\ disk' = IF disk = Absent THEN Absent ELSE Some
    /\ UNCHANGED <<active, prompt, name, lost>>

Editing == active /\ ~prompt_active
ReplaceLine(text) == [lines EXCEPT ![cursor_line + 1] = text]

-----------------------------------------------------------------------------
Init ==
    /\ lines = <<>> /\ cursor_line = 0 /\ cursor_col = 0 /\ view_top = 0
    /\ dirty = FALSE /\ active = FALSE
    /\ prompt_active = FALSE /\ prompt_length = 0 /\ prompt_cursor = 0
    /\ name = NameLen /\ disk = Absent /\ lost = FALSE

\* What buffer_load() gets of a file: fs_open() may fail although it exists, and
\* fs_read() returns what it read before a sector it cannot read, or 0.
Reads(file) ==
    {file} \cup (IF file # Absent /\ "open" \in Faults THEN {Absent} ELSE {})
           \cup (IF file # Absent /\ "read" \in Faults
                 THEN {Take(file, k) : k \in 0 .. Len(file)} ELSE {})

nano_open(file, raw) ==
    /\ ~active /\ active' = TRUE
    /\ raw \in Reads(file) /\ lines' = Buffer(raw)
    /\ cursor_line' = 0 /\ cursor_col' = 0 /\ view_top' = 0 /\ dirty' = FALSE
    /\ prompt_active' = FALSE /\ prompt_length' = 0 /\ prompt_cursor' = 0
    /\ name' = NameLen /\ disk' = file /\ lost' = (raw # file)

nano_keyboard_character(c) ==
    /\ Editing /\ Len(Current) < MaxLineLen
    /\ Edit(ReplaceLine(Take(Current, cursor_col) \o <<c>> \o Drop(Current, cursor_col)))
    /\ MoveTo(cursor_line, cursor_col + 1)

\* Enter in the text: splits the line, unless the grid is full.
EnterSplits ==
    /\ Editing /\ Len(lines) < MaxLines
    /\ Edit(Take(lines, cursor_line)
            \o <<Take(Current, cursor_col), Drop(Current, cursor_col)>>
            \o Drop(lines, cursor_line + 1))
    /\ MoveTo(cursor_line + 1, 0)

BackspaceInLine_under ==
    /\ Editing
    /\ Edit(ReplaceLine(Take(Current, cursor_col) \o Drop(Current, cursor_col + 1)))
    /\ cursor_col > 0 /\ MoveTo(cursor_line, cursor_col - 1)
BackspaceInLine ==
    /\ Editing /\ cursor_col > 0
    /\ Edit(ReplaceLine(Take(Current, cursor_col - 1) \o Drop(Current, cursor_col)))
    /\ MoveTo(cursor_line, cursor_col - 1)

\* The lines i and i + 1 become one.
Merged(i) == Take(lines, i) \o <<Line(i) \o Line(i + 1)>> \o Drop(lines, i + 2)

BackspaceMerges ==
    /\ Editing /\ cursor_col = 0 /\ cursor_line > 0
    /\ Len(Line(cursor_line - 1)) + Len(Current) <= MaxLineLen
    /\ Edit(Merged(cursor_line - 1))
    /\ MoveTo(cursor_line - 1, Len(Line(cursor_line - 1)))

DeleteInLine ==
    /\ Editing /\ cursor_col < Len(Current)
    /\ Edit(ReplaceLine(Take(Current, cursor_col) \o Drop(Current, cursor_col + 1)))
    /\ MoveTo(cursor_line, cursor_col)

DeleteMerges ==
    /\ Editing /\ cursor_col >= Len(Current) /\ cursor_line + 1 < Len(lines)
    /\ Len(Current) + Len(Line(cursor_line + 1)) <= MaxLineLen
    /\ Edit(Merged(cursor_line))
    /\ MoveTo(cursor_line, cursor_col)

-----------------------------------------------------------------------------
(* Cursor keys.                                                            *)

Min2(a, b) == IF a < b THEN a ELSE b

Moves(l, c) ==
    /\ MoveTo(l, c) /\ UNCHANGED <<lines, dirty, active, prompt, name, disk, lost>>

nano_keyboard_left ==
    /\ Editing
    /\ \/ cursor_col > 0 /\ Moves(cursor_line, cursor_col - 1)
       \/ /\ cursor_col = 0 /\ cursor_line > 0
          /\ Moves(cursor_line - 1, Len(Line(cursor_line - 1)))

nano_keyboard_right ==
    /\ Editing
    /\ \/ cursor_col < Len(Current) /\ Moves(cursor_line, cursor_col + 1)
       \/ /\ cursor_col >= Len(Current) /\ cursor_line + 1 < Len(lines)
          /\ Moves(cursor_line + 1, 0)

nano_keyboard_up ==
    /\ Editing /\ cursor_line > 0
    /\ Moves(cursor_line - 1, Min2(cursor_col, Len(Line(cursor_line - 1))))

nano_keyboard_down ==
    /\ Editing /\ cursor_line + 1 < Len(lines)
    /\ Moves(cursor_line + 1, Min2(cursor_col, Len(Line(cursor_line + 1))))

nano_keyboard_home == Editing /\ Moves(cursor_line, 0)
nano_keyboard_end == Editing /\ Moves(cursor_line, Len(Current))

-----------------------------------------------------------------------------
(* The save prompt.  Characters typed into it are ignored.                  *)

Prompting == active /\ prompt_active
PromptTo(len, cur) ==
    /\ prompt_length' = len /\ prompt_cursor' = cur
    /\ UNCHANGED <<lines, cursor, dirty, active, prompt_active, name, disk, lost>>

CtrlO ==
    /\ Editing
    /\ prompt_active' = TRUE /\ prompt_length' = name /\ prompt_cursor' = name
    /\ UNCHANGED <<lines, cursor, dirty, active, name, disk, lost>>

PromptKeys ==
    /\ Prompting
    /\ \/ prompt_cursor > 0 /\ PromptTo(prompt_length - 1, prompt_cursor - 1)
       \/ prompt_cursor > 0 /\ PromptTo(prompt_length, prompt_cursor - 1)
       \/ prompt_cursor < prompt_length /\ PromptTo(prompt_length, prompt_cursor + 1)
       \/ PromptTo(prompt_length, 0)
       \/ PromptTo(prompt_length, prompt_length)

\* Ctrl+X cancels an open prompt, and otherwise leaves the editor.
CtrlX ==
    /\ active
    /\ \/ prompt_active /\ prompt_active' = FALSE /\ UNCHANGED active
       \/ ~prompt_active /\ active' = FALSE /\ UNCHANGED prompt_active
    /\ UNCHANGED <<lines, cursor, dirty, prompt_length, prompt_cursor, name, disk, lost>>

\* buffer_save() over the file old: delete, create, open, write.  A save that
\* fails has changed the file all the same: fs_delete() may have emptied it and
\* left its entry, fs_create() may have stored an entry and failed, and a short
\* write leaves a part of it.  The file is what fs.c gives until a restart.
SaveOk ==
    /\ disk' = Serialized(lines) /\ dirty' = FALSE /\ lost' = FALSE
FailedFile(old) ==
    \/ "delete" \in Faults /\ old # Absent /\ disk' \in {old, <<>>}
    \/ "create" \in Faults /\ disk' \in {Absent, <<>>}
    \/ "open" \in Faults /\ disk' = <<>>
    \/ "full" \in Faults /\ disk' = Some
SaveFails_clean(old) ==
    /\ lost' = (lost \/ ~dirty) /\ dirty' = FALSE /\ FailedFile(old)
SaveFails(old) ==
    /\ lost' = (lost \/ ~dirty) /\ UNCHANGED dirty /\ FailedFile(old)

\* Enter in the prompt.  A shortened name is another file, which may exist.
EnterSaves ==
    /\ Prompting /\ prompt_active' = FALSE
    /\ name' = IF prompt_length > 0 THEN prompt_length ELSE name
    /\ \E old \in (IF name' = name THEN {disk} ELSE {Absent, Some}) :
           SaveOk \/ SaveFails(old)
    /\ UNCHANGED <<lines, cursor, active, prompt_length, prompt_cursor>>

nano_keyboard_enter == EnterSplits \/ EnterSaves
nano_keyboard_backspace == BackspaceInLine \/ BackspaceMerges
nano_keyboard_delete == DeleteInLine \/ DeleteMerges
nano_keyboard_ctrl == CtrlO \/ CtrlX

Next ==
    \/ \E file \in Texts \cup {Absent} : \E raw \in Reads(file) : nano_open(file, raw)
    \/ \E c \in Chars : nano_keyboard_character(c)
    \/ nano_keyboard_enter \/ nano_keyboard_backspace \/ nano_keyboard_delete
    \/ nano_keyboard_left \/ nano_keyboard_right \/ nano_keyboard_up
    \/ nano_keyboard_down \/ nano_keyboard_home \/ nano_keyboard_end
    \/ nano_keyboard_ctrl \/ PromptKeys

Spec == Init /\ [][Next]_vars

-----------------------------------------------------------------------------
(* The cursor is on a character or just behind the line's last one, on a line
   the window shows; no line and no buffer has outgrown the grid; so every
   access of lines[][] and of the screen is inside it. *)
CursorInside ==
    active =>
        /\ Len(lines) \in 1 .. MaxLines
        /\ \A i \in 1 .. Len(lines) : Len(lines[i]) <= MaxLineLen
        /\ cursor_line < Len(lines) /\ cursor_col <= Len(Current)
        /\ view_top <= cursor_line /\ cursor_line < view_top + VisibleRows
        /\ prompt_cursor <= prompt_length

(* A saved buffer comes back as it was: buffer_load() of what buffer_save()
   writes gives the same lines, empty last lines and full grids included. *)
RoundTrip == active => Loaded(Serialized(lines)) = lines

\* The text as one string, and where in it the cursor stands.
Flat(ls) ==
    LET upTo[k \in 0 .. Len(ls)] == IF k = 0 THEN <<>> ELSE upTo[k - 1] \o ls[k] \o <<NL>>
    IN  upTo[Len(ls)]
Offset == Len(Flat(Take(lines, cursor_line))) + cursor_col

OneCharacter(old, new, at, to) ==
    \/ /\ to = at + 1 /\ Len(new) = Len(old) + 1
       /\ Take(new, at) = Take(old, at) /\ Drop(new, at + 1) = Drop(old, at)
    \/ to = at - 1 /\ new = Take(old, at - 1) \o Drop(old, at)
    \/ to = at /\ new = Take(old, at) \o Drop(old, at + 1)

(* Every key changes the text by at most one character, a newline included,
   right at the cursor, and leaves the cursor there: splitting and merging
   lines loses nothing, even when the line or the grid is full. *)
OneCharacterPerKey ==
    [][active /\ active' /\ lines' # lines =>
          OneCharacter(Flat(lines), Flat(lines'), Offset, Offset')]_vars

(* "dirty" is clear only when the file the title bar names holds the buffer:
   opened again it would show the same lines.  So a save that fails may not
   clear it, whatever it has left of the file.  The exceptions are a file that
   buffer_load() could not read whole, and a save of an unchanged buffer that
   failed: buffer_save() deletes the file first and does not set dirty. *)
CleanIsOnDisk ==
    active /\ ~dirty /\ ~lost => disk # Some /\ lines = Buffer(disk)

-----------------------------------------------------------------------------
(* The inductive invariant of the theorems.                                *)

NanoTypeOK ==
    /\ lines \in Seq(Seq(Chars)) /\ cursor_line \in Nat /\ cursor_col \in Nat
    /\ view_top \in Nat /\ prompt_length \in Nat /\ prompt_cursor \in Nat /\ name \in Nat
    /\ active \in BOOLEAN /\ dirty \in BOOLEAN /\ prompt_active \in BOOLEAN
    /\ lost \in BOOLEAN /\ disk \in Seq(Chars \cup {NL}) \cup {Absent, Some}

NanoInv == NanoTypeOK /\ CursorInside /\ CleanIsOnDisk
=============================================================================
