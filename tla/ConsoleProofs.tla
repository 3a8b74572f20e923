--------------------------- MODULE ConsoleProofs ----------------------------
(***************************************************************************)
(* What the keyboard's readers promise, for every person, buffer size and  *)
(* number of accounts: the line editor's history walk, sessions that are   *)
(* earned and kept apart, accounts that survive the power failing, and a   *)
(* decoder whose modifier flags follow the keys that are held down.        *)
(***************************************************************************)
EXTENDS Console, BasicProofs, SequenceTheorems

-----------------------------------------------------------------------------
(* The line editor *)

\* A character put into a line makes it one longer.
LEMMA InsertAtLen ==
    ASSUME NEW S, NEW s \in Seq(S), NEW p \in 0 .. Len(s), NEW c \in S
    PROVE  InsertAt(s, p + 1, c) \in Seq(S) /\ Len(InsertAt(s, p + 1, c)) = Len(s) + 1
<1>0. Len(s) \in Nat /\ p \in Nat /\ p <= Len(s) /\ \A i \in 1 .. Len(s) : s[i] \in S
  OBVIOUS
<1> DEFINE front == SubSeq(s, 1, p)
           back == SubSeq(s, p + 1, Len(s))
<1>1. InsertAt(s, p + 1, c) = (front \o <<c>>) \o back
  <2>1. (p + 1) - 1 = p
    OBVIOUS
  <2> QED
    BY <2>1 DEF InsertAt
<1>2. front \in Seq(S) /\ Len(front) = p
  BY <1>0, SubSeqProperties
<1>3. back \in Seq(S) /\ Len(back) = Len(s) - p
  BY <1>0, SubSeqProperties
<1>4. <<c>> \in Seq(S) /\ Len(<<c>>) = 1
  OBVIOUS
<1> HIDE DEF front, back
<1> DEFINE longer == front \o <<c>>
<1>5. longer \in Seq(S) /\ Len(longer) = p + 1
  BY <1>2, <1>4, ConcatProperties
<1>6. InsertAt(s, p + 1, c) = longer \o back
  BY <1>1
<1> HIDE DEF longer
<1>7. longer \o back \in Seq(S) /\ Len(longer \o back) = Len(longer) + Len(back)
  BY <1>3, <1>5, ConcatProperties
<1>8. Len(longer) + Len(back) = Len(s) + 1
  BY <1>0, <1>3, <1>5
<1> QED
  BY <1>6, <1>7, <1>8

\* A character taken out of a line makes it one shorter.
LEMMA RemoveAtLen ==
    ASSUME NEW S, NEW s \in Seq(S), NEW p \in 1 .. Len(s)
    PROVE  RemoveAt(s, p) \in Seq(S) /\ Len(RemoveAt(s, p)) = Len(s) - 1
<1>0. Len(s) \in Nat /\ p \in Nat /\ p <= Len(s) /\ \A i \in 1 .. Len(s) : s[i] \in S
  OBVIOUS
<1> DEFINE front == SubSeq(s, 1, p - 1)
           back == SubSeq(s, p + 1, Len(s))
<1>1. RemoveAt(s, p) = front \o back
  BY DEF RemoveAt
<1>2. front \in Seq(S) /\ Len(front) = p - 1
  BY <1>0, SubSeqProperties
<1>3. back \in Seq(S) /\ Len(back) = Len(s) - p
  BY <1>0, SubSeqProperties
<1> HIDE DEF front, back
<1>4. front \o back \in Seq(S) /\ Len(front \o back) = Len(front) + Len(back)
  BY <1>2, <1>3, ConcatProperties
<1>5. Len(front) + Len(back) = Len(s) - 1
  BY <1>0, <1>2, <1>3
<1> QED
  BY <1>1, <1>4, <1>5

EditorInv == BufferInv /\ HistoryShown

\* An edit that keeps line and cursor within the buffer ends the walk.
LEMMA EditedKeeps ==
    ASSUME EditorInv, NEW line \in Seq(Characters), NEW p \in 0 .. Len(line), Len(line) < MaxLine,
           Edited(line, p)
    PROVE  EditorInv'
BY DEF EditorInv, BufferInv, HistoryShown, Edited

\* An arrow shows the entry it goes to.
LEMMA LoadKeeps ==
    ASSUME EditorInv, NEW p \in 0 .. Len(history) - 1, shell_load_history(p)
    PROVE  EditorInv'
<1>1. p + 1 \in 1 .. Len(history)
  BY DEF EditorInv, BufferInv
<1>2. history[p + 1] \in Seq(Characters) /\ Len(history[p + 1]) < MaxLine
  BY <1>1 DEF EditorInv, BufferInv
<1> QED
  BY <1>1, <1>2 DEF EditorInv, BufferInv, HistoryShown, shell_load_history

\* A movement of the cursor stays within the line.
LEMMA MoveKeeps ==
    ASSUME EditorInv, NEW p \in 0 .. Len(command_line), MoveTo(p)
    PROVE  EditorInv'
BY DEF EditorInv, BufferInv, HistoryShown, MoveTo

\* shell_save_history() drops the oldest entry when it is full.
LEMMA EnterKeeps ==
    ASSUME EditorInv, LineEntered
    PROVE  EditorInv'
<1> DEFINE kept == IF Len(history) < HistorySize THEN history ELSE Tail(history)
<1>1. /\ command_line \in Seq(Characters) /\ history \in Seq(Seq(Characters))
      /\ Len(history) <= HistorySize /\ HistorySize \in Nat /\ HistorySize # 0
      /\ MaxLine \in Nat /\ MaxLine > 0 /\ Len(command_line) < MaxLine
      /\ \A i \in 1 .. Len(history) : Len(history[i]) < MaxLine
      /\ \A i \in 1 .. Len(history) : history[i] # <<>> /\ (i > 1 => history[i] # history[i - 1])
  BY LineEditorAssumption DEF EditorInv, BufferInv, HistoryShown
<1>2. command_line' = <<>> /\ cursor_position' = 0 /\ history_position' = -1
  BY DEF LineEntered
<1>3. CASE history' = history
  BY <1>1, <1>2, <1>3 DEF EditorInv, BufferInv, HistoryShown
<1>4. CASE /\ command_line # <<>> /\ (history # <<>> => Last(history) # command_line)
           /\ history' = Append(kept, command_line)
  <2>1. /\ kept \in Seq(Seq(Characters)) /\ Len(kept) < HistorySize
        /\ \A i \in 1 .. Len(kept) : Len(kept[i]) < MaxLine
        /\ \A i \in 1 .. Len(kept) : kept[i] # <<>> /\ (i > 1 => kept[i] # kept[i - 1])
        /\ kept # <<>> => kept[Len(kept)] # command_line
    <3>1. CASE Len(history) < HistorySize
      BY <1>1, <1>4, <3>1 DEF Last
    <3>2. CASE ~(Len(history) < HistorySize)
      <4>1. history # <<>> /\ kept = Tail(history)
        BY <1>1, <3>2
      <4> HIDE DEF kept
      <4>2. /\ kept \in Seq(Seq(Characters)) /\ Len(kept) = Len(history) - 1
            /\ \A i \in 1 .. Len(kept) : kept[i] = history[i + 1]
        BY <1>1, <4>1, HeadTailProperties
      <4>3. \A i \in 1 .. Len(kept) : i + 1 \in 1 .. Len(history) /\ i + 1 > 1 /\ (i + 1) - 1 = i
        BY <1>1, <4>2
      <4>4. \A i \in 1 .. Len(kept) : Len(kept[i]) < MaxLine /\ kept[i] # <<>>
        BY <1>1, <4>2, <4>3
      <4>5. ASSUME NEW i \in 1 .. Len(kept), i > 1 PROVE kept[i] # kept[i - 1]
        <5>1. i - 1 \in 1 .. Len(kept) /\ (i - 1) + 1 = i
          BY <4>2, <4>5
        <5>2. kept[i] = history[i + 1] /\ kept[i - 1] = history[i]
          BY <4>2, <5>1
        <5> QED
          BY <1>1, <4>3, <5>2
      <4>6. kept # <<>> => kept[Len(kept)] # command_line
        BY <1>1, <1>4, <4>1, <4>2 DEF Last
      <4>7. Len(kept) < HistorySize
        BY <1>1, <4>2
      <4> QED
        BY <4>2, <4>4, <4>5, <4>6, <4>7, Zenon
    <3> QED
      BY <3>1, <3>2
  <2> HIDE DEF kept
  <2>2. /\ history' \in Seq(Seq(Characters)) /\ Len(history') = Len(kept) + 1
        /\ history'[Len(kept) + 1] = command_line
        /\ \A i \in 1 .. Len(kept) : history'[i] = kept[i]
    BY <1>1, <1>4, <2>1, AppendProperties
  <2>3. \A i \in 1 .. Len(history') : Len(history'[i]) < MaxLine /\ history'[i] # <<>>
    BY <1>1, <1>4, <2>1, <2>2
  <2>4. ASSUME NEW i \in 1 .. Len(history'), i > 1 PROVE history'[i] # history'[i - 1]
    <3>0. Len(kept) \in Nat /\ i \in 1 .. Len(kept) + 1
      BY <2>1, <2>2
    <3>a. i - 1 \in 1 .. Len(kept)
      BY <2>4, <3>0
    <3>1. i - 1 \in 1 .. Len(kept) /\ history'[i - 1] = kept[i - 1]
      BY <2>2, <3>a
    <3>2. CASE i \in 1 .. Len(kept)
      BY <2>1, <2>2, <2>4, <3>1, <3>2
    <3>3. CASE i = Len(kept) + 1
      BY <2>1, <2>2, <3>1, <3>3
    <3> QED
      BY <2>1, <2>2, <3>2, <3>3
  <2> QED
    BY <1>1, <1>2, <2>1, <2>2, <2>3, <2>4 DEF EditorInv, BufferInv, HistoryShown
<1> QED
  BY <1>3, <1>4 DEF LineEntered, shell_save_history

\* A new session starts with empty buffers.
LEMMA ClearedKeeps ==
    ASSUME shell_init
    PROVE  EditorInv'
BY LineEditorAssumption DEF EditorInv, BufferInv, HistoryShown, shell_init

-----------------------------------------------------------------------------
(* Keys *)

\* Every character the two maps give is one.
LEMMA MapsTyped ==
    ASSUME NEW c \in DOMAIN keyboard_map
    PROVE  keyboard_map[c] \in Characters /\ keyboard_shift_map[c] \in Characters
<1>1. c \in DOMAIN keyboard_shift_map
  BY DEF keyboard_shift_map
<1> QED
  BY <1>1, Zenon DEF Characters

\* No grey key gives a character.
LEMMA GreyIsNoCharacter ==
    ASSUME NEW c \in DOMAIN GreyEvent
    PROVE  GreyEvent[c] # "character"
<1>1. c \in {"KP4", "KP6", "KP8", "KP2", "KPDOT", "KP7", "KP1"}
  BY DEF GreyEvent
<1> QED
  BY <1>1 DEF GreyEvent

\* A character event carries a character.
LEMMA CharacterTyped ==
    ASSUME KeyEvent.kind = "character"
    PROVE  KeyEvent.char \in Characters
<1>2. NoEvent.kind # "character" /\ Event("ctrl").kind # "character"
      /\ Event("enter").kind # "character" /\ Event("backspace").kind # "character"
  BY DEF NoEvent, Event
<1>3. code \in DOMAIN GreyEvent => Event(GreyEvent[code]).kind # "character"
  BY GreyIsNoCharacter DEF Event
<1>4. code \in DOMAIN keyboard_map => apply_case(code) \in Characters
  BY MapsTyped DEF apply_case
<1>5. KeyEvent = Typed("tab") \/ (code \in DOMAIN keyboard_map /\ KeyEvent = Typed(apply_case(code)))
  BY <1>2, <1>3 DEF KeyEvent
<1> HIDE DEF KeyEvent
<1>6. CASE KeyEvent = Typed("tab")
  <2>1. KeyEvent.char = "tab"
    BY <1>6 DEF Typed
  <2> QED
    BY <2>1 DEF Characters
<1>7. CASE code \in DOMAIN keyboard_map /\ KeyEvent = Typed(apply_case(code))
  BY <1>4, <1>7 DEF Typed
<1> QED
  BY <1>5, <1>6, <1>7

\* Every key of the shell keeps the line editor's buffers.
LEMMA ShellEditKeeps ==
    ASSUME EditorInv, NEW e, e.kind = "character" => e.char \in Characters, ShellEdit(e)
    PROVE  EditorInv'
<1>1. /\ command_line \in Seq(Characters) /\ Len(command_line) \in Nat /\ cursor_position \in Nat
      /\ cursor_position <= Len(command_line) /\ Len(command_line) < MaxLine
      /\ MaxLine \in Nat /\ history \in Seq(Seq(Characters)) /\ Len(history) \in Nat
      /\ history_position \in -1 .. Len(history) - 1
      /\ history # <<>> => Len(history) > 0
  BY LineEditorAssumption DEF EditorInv, BufferInv, HistoryShown
<1>2. ASSUME UNCHANGED editorVars PROVE EditorInv'
  BY <1>2 DEF editorVars, EditorInv, BufferInv, HistoryShown
<1>3. CASE e.kind = "character" /\ shell_keyboard_character(e.char)
  <2>1. CASE UNCHANGED editorVars
    BY <1>2, <2>1
  <2>2. CASE /\ Len(command_line) < MaxLine - 1
             /\ Edited(InsertAt(command_line, cursor_position + 1, e.char), cursor_position + 1)
    <3> DEFINE line == InsertAt(command_line, cursor_position + 1, e.char)
    <3>1. line \in Seq(Characters) /\ Len(line) = Len(command_line) + 1
      <4>1. cursor_position \in 0 .. Len(command_line) /\ e.char \in Characters
        BY <1>1, <1>3
      <4> QED
        BY <1>1, <4>1, InsertAtLen, Zenon
    <3>2. Edited(line, cursor_position + 1)
      BY <2>2
    <3> HIDE DEF line
    <3>3. cursor_position + 1 \in 0 .. Len(line) /\ Len(line) < MaxLine
      BY <1>1, <2>2, <3>1
    <3> QED
      BY <3>1, <3>2, <3>3, EditedKeeps
  <2> QED
    BY <1>1, <1>3, <2>1, <2>2 DEF shell_keyboard_character
<1>4. CASE shell_keyboard_backspace
  <2>1. CASE cursor_position = 0
    BY <1>2, <1>4, <2>1 DEF shell_keyboard_backspace
  <2>2. CASE cursor_position # 0
    <3> DEFINE line == RemoveAt(command_line, cursor_position)
    <3>1. line \in Seq(Characters) /\ Len(line) = Len(command_line) - 1
      BY <1>1, <2>2, RemoveAtLen
    <3>2. Edited(line, cursor_position - 1)
      BY <1>4, <2>2 DEF shell_keyboard_backspace
    <3> HIDE DEF line
    <3>3. cursor_position - 1 \in 0 .. Len(line) /\ Len(line) < MaxLine
      BY <1>1, <2>2, <3>1
    <3> QED
      BY <3>1, <3>2, <3>3, EditedKeeps
  <2> QED
    BY <2>1, <2>2
<1>5. CASE shell_keyboard_delete
  <2>1. CASE cursor_position >= Len(command_line)
    BY <1>2, <1>5, <2>1 DEF shell_keyboard_delete
  <2>2. CASE cursor_position < Len(command_line)
    <3> DEFINE line == RemoveAt(command_line, cursor_position + 1)
    <3>1. line \in Seq(Characters) /\ Len(line) = Len(command_line) - 1
      BY <1>1, <2>2, RemoveAtLen
    <3>2. Edited(line, cursor_position)
      BY <1>1, <1>5, <2>2 DEF shell_keyboard_delete
    <3> HIDE DEF line
    <3>3. cursor_position \in 0 .. Len(line) /\ Len(line) < MaxLine
      BY <1>1, <2>2, <3>1
    <3> QED
      BY <3>1, <3>2, <3>3, EditedKeeps
  <2> QED
    BY <1>1, <2>1, <2>2
<1>6. CASE shell_keyboard_left \/ shell_keyboard_right \/ shell_keyboard_home \/ shell_keyboard_end
  <2>1. \E p \in 0 .. Len(command_line) : MoveTo(p)
    BY <1>1, <1>6 DEF shell_keyboard_left, shell_keyboard_right, shell_keyboard_home,
       shell_keyboard_end
  <2> QED
    BY <2>1, MoveKeeps
<1>7. CASE shell_keyboard_up
  <2>1. CASE history = <<>>
    BY <1>2, <1>7, <2>1 DEF shell_keyboard_up
  <2>2. CASE history # <<>>
    <3>1. \E p \in 0 .. Len(history) - 1 : shell_load_history(p)
      BY <1>1, <1>7, <2>2 DEF shell_keyboard_up
    <3> QED
      BY <3>1, LoadKeeps
  <2> QED
    BY <2>1, <2>2
<1>8. CASE shell_keyboard_down
  <2>1. CASE history = <<>> \/ history_position = -1
    BY <1>2, <1>8, <2>1 DEF shell_keyboard_down
  <2>2. CASE history_position # -1 /\ history_position < Len(history) - 1 /\ history # <<>>
    <3>1. history_position + 1 \in 0 .. Len(history) - 1
      BY <1>1, <2>2
    <3>2. shell_load_history(history_position + 1)
      BY <1>8, <2>2 DEF shell_keyboard_down
    <3> QED
      BY <3>1, <3>2, LoadKeeps
  <2>3. CASE Edited(<<>>, 0)
    <3>1. <<>> \in Seq(Characters) /\ 0 \in 0 .. Len(<<>>) /\ Len(<<>>) < MaxLine
      BY <1>1
    <3> QED
      BY <2>3, <3>1, EditedKeeps
  <2> QED
    BY <1>8, <2>1, <2>2, <2>3 DEF shell_keyboard_down
<1> QED
  BY <1>3, <1>4, <1>5, <1>6, <1>7, <1>8 DEF ShellEdit

-----------------------------------------------------------------------------
(* The login gate *)

GateInv == LoginInv /\ AttemptInv /\ SavedInv /\ SessionIsEarned /\ AccountsSurvive

\* A copied name is a name.
LEMMA CopyTyped ==
    ASSUME NEW s \in Seq(Characters)
    PROVE  string_copy_bounded(s, NameMax) \in Seq(Characters)
<1>1. CASE Len(s) <= NameMax
  BY <1>1 DEF string_copy_bounded
<1>2. CASE ~(Len(s) <= NameMax)
  <2>1. \A i \in 1 .. NameMax : s[i] \in Characters
    BY <1>2, LoginAssumption
  <2>2. SubSeq(s, 1, NameMax) \in Seq(Characters)
    BY <2>1, LoginAssumption, SubSeqProperties
  <2> QED
    BY <1>2, <2>2 DEF string_copy_bounded
<1> QED
  BY <1>1, <1>2

\* Backspace leaves a line.
LEMMA ShortenedTyped ==
    ASSUME NEW s \in Seq(Characters)
    PROVE  Shortened(s) \in Seq(Characters)
<1>1. CASE s = <<>>
  BY <1>1 DEF Shortened
<1>2. CASE s # <<>>
  <2>1. Len(s) \in Nat /\ \A i \in 1 .. Len(s) - 1 : s[i] \in Characters
    OBVIOUS
  <2>2. SubSeq(s, 1, Len(s) - 1) \in Seq(Characters)
    BY <2>1, SubSeqProperties
  <2> QED
    BY <1>2, <2>2 DEF Shortened
<1> QED
  BY <1>1, <1>2

\* No sign-up is offered while there are accounts.
LEMMA FirstStageOf ==
    ASSUME NEW base \in Databases
    PROVE  /\ FirstStage(base) \in {"SIGNUP_USERNAME", "LOGIN_USERNAME"}
           /\ Accounts(base) # {} => FirstStage(base) = "LOGIN_USERNAME"
BY DEF FirstStage, Databases

\* A character or a backspace changes the line, and what was typed alike.
LEMMA TypingKeeps ==
    ASSUME GateInv, line_buffer' \in Seq(Characters), prompted' = line_buffer',
           UNCHANGED <<db, stage, pending_username, pending_password, logged_in,
                       active_username, current, saving, loginDisk, entered, created>>
    PROVE  GateInv'
<1>1. UNCHANGED <<usersFile, identityFile, failures>>
  BY DEF loginDisk
<1> QED
  BY <1>1 DEF GateInv, LoginInv, AttemptInv, SavedInv, SessionIsEarned, AccountsSurvive,
     auth_login_active, Signing, Accounts, Loaded, Signup

\* A character goes into both or into neither.
LEMMA CharacterKeeps ==
    ASSUME GateInv, NEW c \in Characters, auth_keyboard_character(c)
    PROVE  GateInv'
<1>1. line_buffer \in Seq(Characters) /\ prompted = line_buffer
  BY DEF GateInv, LoginInv
<1>2. line_buffer' \in Seq(Characters) /\ prompted' = line_buffer'
  BY <1>1 DEF auth_keyboard_character
<1> QED
  BY <1>2, TypingKeeps DEF auth_keyboard_character

\* Backspace shortens both.
LEMMA BackspaceKeeps ==
    ASSUME GateInv, auth_keyboard_backspace
    PROVE  GateInv'
<1>1. line_buffer \in Seq(Characters) /\ prompted = line_buffer
  BY DEF GateInv, LoginInv
<1>2. line_buffer' \in Seq(Characters) /\ prompted' = line_buffer'
  BY <1>1, ShortenedTyped DEF auth_keyboard_backspace
<1> QED
  BY <1>2, TypingKeeps DEF auth_keyboard_backspace

\* A step from one prompt to another that leaves the accounts and their file alone.
LEMMA PromptKeeps ==
    ASSUME GateInv, auth_login_active, NEW next, next # "INACTIVE", auth_prompt(next),
           created # {} /\ failures = 0 => next \notin Signup,
           saving = "none",
           pending_username' \in Seq(Characters), pending_password' \in Seq(Characters),
           entered' \in Records,
           next \in {"SIGNUP_PASSWORD", "SIGNUP_CONFIRM", "LOGIN_PASSWORD"} =>
               pending_username' = string_copy_bounded(entered'.username, NameMax),
           next = "SIGNUP_CONFIRM" => pending_password' = entered'.password,
           UNCHANGED <<db, session, current, saving, loginDisk, created>>
    PROVE  GateInv'
<1>1. /\ UNCHANGED <<usersFile, identityFile, failures, logged_in, active_username>>
      /\ stage' = next /\ line_buffer' = <<>> /\ prompted' = <<>> /\ ~logged_in
  BY DEF loginDisk, session, auth_prompt, GateInv, LoginInv
<1>2. LoginInv'
  BY <1>1 DEF GateInv, LoginInv, auth_login_active
<1>3. AttemptInv'
  BY <1>1 DEF GateInv, AttemptInv
<1>4. SavedInv'
  BY <1>1 DEF GateInv, SavedInv, Loaded
<1>5. SessionIsEarned' /\ AccountsSurvive'
  BY <1>1 DEF GateInv, SessionIsEarned, AccountsSurvive, Accounts, Signup
<1> QED
  BY <1>2, <1>3, <1>4, <1>5 DEF GateInv

\* Sign-up prompts are shown only as long as no account was reported.
LEMMA SignupMeansNone ==
    ASSUME GateInv, stage \in Signup, failures = 0
    PROVE  created = {}
BY DEF GateInv, AccountsSurvive

\* At a name prompt.
LEMMA NameKeeps ==
    ASSUME GateInv, saving = "none", NameEntered
    PROVE  GateInv'
<1>1. /\ line_buffer \in Seq(Characters) /\ prompted = line_buffer /\ entered \in Records
      /\ pending_username \in Seq(Characters) /\ pending_password \in Seq(Characters)
  BY DEF GateInv, LoginInv
<1>2. stage \in {"SIGNUP_USERNAME", "LOGIN_USERNAME"} /\ auth_login_active
  BY DEF NameEntered, auth_login_active
<1>3. UNCHANGED <<db, session, current, saving, loginDisk, created>> /\ pending_password' = pending_password
  BY DEF NameEntered
<1>4. CASE stage = "SIGNUP_USERNAME" /\ line_buffer = <<>>
  <2>1. auth_prompt("SIGNUP_USERNAME") /\ UNCHANGED <<pending_username, entered>>
    BY <1>4 DEF NameEntered
  <2>2. created # {} /\ failures = 0 => "SIGNUP_USERNAME" \notin Signup
    BY <1>4, SignupMeansNone DEF Signup
  <2> QED
    BY <1>1, <1>2, <1>3, <2>1, <2>2, PromptKeeps
<1>5. CASE ~(stage = "SIGNUP_USERNAME" /\ line_buffer = <<>>)
  <2> DEFINE next == IF stage = "SIGNUP_USERNAME" THEN "SIGNUP_PASSWORD" ELSE "LOGIN_PASSWORD"
  <2>1. /\ pending_username' = string_copy_bounded(line_buffer, NameMax)
        /\ entered' = [entered EXCEPT !.username = prompted]
        /\ auth_prompt(next)
    BY <1>5 DEF NameEntered
  <2>2. created # {} /\ failures = 0 => next \notin Signup
    BY <1>2, SignupMeansNone DEF Signup
  <2>3. next # "INACTIVE" /\ next # "SIGNUP_CONFIRM"
    OBVIOUS
  <2> HIDE DEF next
  <2>4. entered' \in Records /\ entered'.username = line_buffer
    BY <1>1, <2>1 DEF Records
  <2>5. /\ pending_username' \in Seq(Characters)
        /\ pending_username' = string_copy_bounded(entered'.username, NameMax)
    BY <1>1, <2>1, <2>4, CopyTyped
  <2> QED
    BY <1>1, <1>2, <1>3, <2>1, <2>2, <2>3, <2>4, <2>5, PromptKeeps
<1> QED
  BY <1>4, <1>5

\* At the prompt for a new password.
LEMMA PasswordKeeps ==
    ASSUME GateInv, saving = "none", PasswordChosen
    PROVE  GateInv'
<1>1. /\ line_buffer \in Seq(Characters) /\ prompted = line_buffer /\ entered \in Records
      /\ pending_username \in Seq(Characters) /\ pending_password \in Seq(Characters)
      /\ pending_username = string_copy_bounded(entered.username, NameMax)
  BY DEF GateInv, LoginInv, AttemptInv, PasswordChosen
<1>2. stage = "SIGNUP_PASSWORD" /\ auth_login_active
  BY DEF PasswordChosen, auth_login_active
<1>3. UNCHANGED <<db, session, current, saving, loginDisk, created>> /\ pending_username' = pending_username
  BY DEF PasswordChosen
<1>4. created # {} => failures # 0
  BY <1>2, SignupMeansNone DEF Signup
<1>5. CASE line_buffer = <<>>
  <2>1. auth_prompt("SIGNUP_PASSWORD") /\ UNCHANGED <<pending_password, entered>>
    BY <1>2, <1>5 DEF PasswordChosen
  <2> QED
    BY <1>1, <1>2, <1>3, <1>4, <2>1, PromptKeeps
<1>6. CASE line_buffer # <<>>
  <2>1. /\ pending_password' = line_buffer /\ entered' = [entered EXCEPT !.password = prompted]
        /\ auth_prompt("SIGNUP_CONFIRM")
    BY <1>6 DEF PasswordChosen
  <2>2. entered' \in Records /\ entered'.password = line_buffer /\ entered'.username = entered.username
    BY <1>1, <2>1 DEF Records
  <2> QED
    BY <1>1, <1>2, <1>3, <1>4, <2>1, <2>2, PromptKeeps
<1> QED
  BY <1>5, <1>6

\* A refusal goes back to the first prompt.
LEMMA RefusalKeeps ==
    ASSUME GateInv, saving = "none", SignupRefused \/ LoginDenied
    PROVE  GateInv'
<1>1. auth_login_active
  BY DEF SignupRefused, LoginDenied, auth_login_active
<1>2. NoEntry \in Records /\ <<>> \in Seq(Characters)
  BY DEF NoEntry, Records
<1>3. PICK next \in {"SIGNUP_USERNAME", "LOGIN_USERNAME"} :
          StartsOver(next) /\ (next = "SIGNUP_USERNAME" => stage = "SIGNUP_CONFIRM")
  BY DEF SignupRefused, LoginDenied
<1>4. created # {} /\ failures = 0 => next \notin Signup
  BY <1>3, SignupMeansNone DEF Signup
<1> QED
  BY <1>1, <1>2, <1>3, <1>4, PromptKeeps DEF StartsOver

\* auth_create_user() puts the pending account into a free slot.
LEMMA CreateKeeps ==
    ASSUME GateInv, saving = "none", auth_create_user
    PROVE  GateInv'
<1> DEFINE slot == Lowest(FreeSlots)
<1>1. /\ db \in Databases /\ Signing \in Records /\ Signing # None
      /\ stage = "SIGNUP_CONFIRM" /\ ~logged_in
  BY FileAssumption DEF GateInv, LoginInv, Signing, Records, auth_create_user, auth_login_active
<1>2. slot \in Slots
  <2>1. FreeSlots # {} /\ FreeSlots \in SUBSET Nat /\ FreeSlots \subseteq Slots
    BY LoginAssumption DEF auth_create_user, Creatable, FreeSlots, Slots
  <2> QED
    BY <2>1, LowestOfSet
<1>3. /\ db' = [count |-> db.count + 1, users |-> [db.users EXCEPT ![slot] = Signing]]
      /\ saving' = "users"
      /\ UNCHANGED <<stage, line_buffer, pending_username, pending_password, logged_in, active_username,
                     usersFile, failures, prompted, entered, created>>
  BY DEF auth_create_user, Signing, session, loginDisk, loginPast
<1> HIDE DEF slot
<1>4. db.count \in Nat /\ db.users \in [Slots -> Records \cup {None}]
  BY <1>1 DEF Databases
<1>5. db'.count = db.count + 1 /\ db'.users \in [Slots -> Records \cup {None}]
      /\ db'.users[slot] = Signing
      /\ db' \in [count : Nat, users : [Slots -> Records \cup {None}]]
  BY <1>1, <1>2, <1>3, <1>4
<1>6. db' \in Databases
  BY <1>4, <1>5 DEF Databases
<1>7. Signing \in Accounts(db')
  BY <1>1, <1>2, <1>5 DEF Accounts
<1>8. Signing' = Signing
  BY <1>3 DEF Signing
<1>9. LoginInv'
  BY <1>3, <1>6 DEF GateInv, LoginInv, auth_login_active
<1>10. AttemptInv' /\ SavedInv'
  BY <1>1, <1>3, <1>7, <1>8 DEF GateInv, AttemptInv, SavedInv
<1>11. SessionIsEarned' /\ AccountsSurvive'
  BY <1>1, <1>3, SignupMeansNone DEF SessionIsEarned, AccountsSurvive, Signup
<1> QED
  BY <1>9, <1>10, <1>11 DEF GateInv

\* auth_db_save() leaves the table, or a file that tells of the failure.
LEMMA SaveKeeps ==
    ASSUME GateInv, auth_db_save
    PROVE  GateInv'
<1>1. /\ db \in Databases /\ usersFile \in Databases \cup {Absent, Empty} /\ failures \in Nat
      /\ saving = "users" /\ stage = "SIGNUP_CONFIRM" /\ Signing \in Accounts(db)
  BY DEF GateInv, LoginInv, AttemptInv, auth_db_save
<1>2. /\ saving' = "identity"
      /\ UNCHANGED <<db, stage, line_buffer, pending_username, pending_password, logged_in,
                     active_username, prompted, entered, created>>
  BY DEF auth_db_save, session, loginPast
<1>3. \/ usersFile' = db /\ failures' = failures
      \/ failures' = failures + 1 /\ usersFile' \in Databases \cup {Absent, Empty}
  BY <1>1 DEF auth_db_save, Unsaved
<1>4. usersFile' \in Databases \cup {Absent, Empty} /\ failures' \in Nat
      /\ (failures' = 0 => failures = 0 /\ usersFile' = db)
  BY <1>1, <1>3
<1>5. LoginInv'
  BY <1>2, <1>4 DEF GateInv, LoginInv, auth_login_active
<1>6. AttemptInv'
  BY <1>1, <1>2 DEF GateInv, AttemptInv, Signing, Accounts
<1>7. SavedInv'
  BY <1>1, <1>2, <1>4, FileAssumption DEF SavedInv, Loaded
<1>8. SessionIsEarned' /\ AccountsSurvive'
  BY <1>2, <1>4 DEF GateInv, SessionIsEarned, AccountsSurvive, Accounts, Signup
<1> QED
  BY <1>5, <1>6, <1>7, <1>8 DEF GateInv

\* A session starts for an account of the table under the name and password typed.
LEMMA FinishKeeps ==
    ASSUME GateInv, auth_finish_session, Signing \in Records,
           NEW word, entered'.password = word, entered' \in Records,
           pending_username = string_copy_bounded(entered'.username, NameMax),
           [username |-> pending_username, password |-> word] \in Accounts(db),
           saving' = "none", UNCHANGED <<db, usersFile>>,
           failures' \in Nat, failures' = 0 => failures = 0 /\ saving # "users",
           created' # {} /\ failures' = 0 => created' \subseteq Accounts(db)
    PROVE  GateInv'
<1>1. /\ logged_in' = TRUE /\ active_username' = pending_username
      /\ stage' = "INACTIVE" /\ line_buffer' = <<>> /\ prompted' = <<>>
      /\ pending_username' = <<>> /\ pending_password' = <<>>
  BY DEF auth_finish_session
<1>2. <<>> \in Seq(Characters)
  OBVIOUS
<1>3. LoginInv'
  BY <1>1, <1>2 DEF GateInv, LoginInv, auth_login_active
<1>4. AttemptInv'
  BY <1>1 DEF AttemptInv
<1>5. SavedInv'
  BY DEF GateInv, SavedInv, Loaded
<1>6. SessionIsEarned'
  BY <1>1 DEF SessionIsEarned, Accounts
<1>7. AccountsSurvive'
  BY <1>1 DEF AccountsSurvive, Accounts, Signup
<1> QED
  BY <1>3, <1>4, <1>5, <1>6, <1>7 DEF GateInv

\* The sign-up that was saved becomes a session.
LEMMA IdentityKeeps ==
    ASSUME GateInv, IdentityMade
    PROVE  GateInv'
<1>1. /\ saving = "identity" /\ stage = "SIGNUP_CONFIRM" /\ Signing \in Accounts(db)
      /\ Signing \in Records /\ entered \in Records /\ failures \in Nat
      /\ pending_username = string_copy_bounded(entered.username, NameMax)
      /\ pending_password = entered.password
  BY DEF GateInv, LoginInv, AttemptInv, IdentityMade, Signing, Records
<1>2. /\ auth_finish_session /\ saving' = "none" /\ UNCHANGED <<db, usersFile, entered>>
      /\ created' = created \cup {Signing}
      /\ failures' = failures \/ failures' = failures + 1
  BY DEF IdentityMade, Signing
<1>3. failures' \in Nat /\ (failures' = 0 => failures = 0)
  BY <1>1, <1>2
<1>4. failures' = 0 => created' \subseteq Accounts(db)
  <2>1. failures = 0 => created = {}
    BY <1>1, SignupMeansNone DEF Signup
  <2> QED
    BY <1>1, <1>2, <1>3, <2>1
<1>5. [username |-> pending_username, password |-> pending_password] \in Accounts(db)
  BY <1>1 DEF Signing
<1>6. entered'.password = pending_password /\ entered' \in Records
      /\ pending_username = string_copy_bounded(entered'.username, NameMax)
  BY <1>1, <1>2
<1> QED
  BY <1>1, <1>2, <1>3, <1>4, <1>5, <1>6, FinishKeeps

\* A log-in with the password of the account that was named.
LEMMA GrantedKeeps ==
    ASSUME GateInv, saving = "none", LoginGranted
    PROVE  GateInv'
<1>1. /\ stage = "LOGIN_PASSWORD" /\ db \in Databases /\ entered \in Records /\ failures \in Nat
      /\ prompted = line_buffer /\ line_buffer \in Seq(Characters) /\ Signing \in Records
      /\ pending_username = string_copy_bounded(entered.username, NameMax)
  BY DEF GateInv, LoginInv, AttemptInv, LoginGranted, Signing, Records
<1>2. /\ auth_finish_session /\ saving' = saving /\ UNCHANGED <<db, usersFile, failures, created>>
      /\ entered' = [entered EXCEPT !.password = prompted]
  BY DEF LoginGranted, loginDisk
<1>3. entered' \in Records /\ entered'.password = line_buffer /\ entered'.username = entered.username
  BY <1>1, <1>2 DEF Records
<1>4. PICK s \in Slots : /\ db.users[s] # None /\ db.users[s].username = pending_username
                         /\ db.users[s].password = line_buffer
  BY DEF LoginGranted, auth_verify_user, auth_find_user
<1>5. db.users[s] \in Records
  BY <1>1, <1>4 DEF Databases
<1>6. [username |-> pending_username, password |-> line_buffer] = db.users[s]
  BY <1>4, <1>5 DEF Records
<1>7. [username |-> pending_username, password |-> line_buffer] \in Accounts(db)
  BY <1>4, <1>6 DEF Accounts
<1>8. created' # {} /\ failures' = 0 => created' \subseteq Accounts(db)
  BY <1>2 DEF GateInv, AccountsSurvive
<1>9. pending_username = string_copy_bounded(entered'.username, NameMax)
  BY <1>1, <1>3
<1>10. failures' \in Nat /\ (failures' = 0 => failures = 0 /\ saving # "users") /\ saving' = "none"
  BY <1>1, <1>2
<1> QED
  BY <1>1, <1>2, <1>3, <1>7, <1>8, <1>9, <1>10, FinishKeeps

\* auth_logout() asks for a log-in again.
LEMMA LogoutKeeps ==
    ASSUME GateInv, saving = "none", auth_logout
    PROVE  GateInv'
<1> DEFINE first == FirstStage(db)
<1>1. db \in Databases
  BY DEF GateInv, LoginInv
<1>2. /\ logged_in' = FALSE /\ stage' = first /\ line_buffer' = <<>> /\ prompted' = <<>>
      /\ entered' = NoEntry
      /\ UNCHANGED <<db, pending_username, pending_password, saving, usersFile, failures, created>>
  BY DEF auth_logout, auth_prompt, loginDisk
<1>3. first \in {"SIGNUP_USERNAME", "LOGIN_USERNAME"}
      /\ (Accounts(db) # {} => first = "LOGIN_USERNAME")
  BY <1>1, FirstStageOf
<1> HIDE DEF first
<1>4. NoEntry \in Records /\ <<>> \in Seq(Characters)
  BY DEF NoEntry, Records
<1>5. LoginInv'
  BY <1>2, <1>3, <1>4 DEF GateInv, LoginInv, auth_login_active
<1>6. AttemptInv'
  BY <1>2, <1>3 DEF AttemptInv
<1>7. SavedInv'
  BY <1>2 DEF GateInv, SavedInv, Loaded
<1>8. SessionIsEarned' /\ AccountsSurvive'
  BY <1>2, <1>3 DEF GateInv, SessionIsEarned, AccountsSurvive, Accounts, Signup
<1> QED
  BY <1>5, <1>6, <1>7, <1>8 DEF GateInv

\* What a boot loads is a table of accounts.
LEMMA LoadedTyped ==
    ASSUME NEW file \in Databases \cup {Absent, Empty}, NEW readable \in BOOLEAN
    PROVE  Loaded(file, NoAccounts, readable) \in Databases
<1>1. NoAccounts \in Databases
  BY DEF NoAccounts, Databases, Accounts
<1> QED
  BY <1>1 DEF Loaded

\* After a restart the table is what users.dat held.
LEMMA BootKeeps ==
    ASSUME GateInv, NEW readable \in BOOLEAN, LoginBoots(readable)
    PROVE  GateInv'
<1> DEFINE base == Loaded(usersFile, NoAccounts, readable)
           first == FirstStage(base)
<1>1. usersFile \in Databases \cup {Absent, Empty} /\ failures \in Nat
  BY DEF GateInv, LoginInv
<1>2. /\ db' = base /\ stage' = first /\ line_buffer' = <<>> /\ prompted' = <<>>
      /\ pending_username' = <<>> /\ pending_password' = <<>>
      /\ logged_in' = FALSE /\ saving' = "none" /\ entered' = NoEntry
      /\ UNCHANGED <<usersFile, created>>
      /\ failures' = IF readable THEN failures ELSE failures + 1
  BY DEF LoginBoots, auth_prompt, FirstStage
<1>3. base \in Databases
  BY <1>1, LoadedTyped
<1>4. failures' \in Nat /\ (failures' = 0 => failures = 0 /\ readable)
  BY <1>1, <1>2
<1>5. readable => base = Loaded(usersFile, NoAccounts, TRUE)
  BY DEF Loaded
<1> HIDE DEF base
<1>6. first \in {"SIGNUP_USERNAME", "LOGIN_USERNAME"}
      /\ (Accounts(base) # {} => first = "LOGIN_USERNAME")
  BY <1>3, FirstStageOf
<1> HIDE DEF first
<1>7. NoEntry \in Records /\ <<>> \in Seq(Characters)
  BY DEF NoEntry, Records
<1>8. LoginInv'
  BY <1>1, <1>2, <1>3, <1>4, <1>6, <1>7 DEF LoginInv, auth_login_active
<1>9. AttemptInv'
  BY <1>2, <1>6 DEF AttemptInv
<1>10. SavedInv'
  BY <1>2, <1>4, <1>5 DEF SavedInv, Loaded
<1>11. SessionIsEarned'
  BY <1>2 DEF SessionIsEarned
<1>12. ASSUME failures' = 0, created # {} PROVE created \subseteq Accounts(base)
  <2>1. stage \notin Signup /\ created \subseteq Accounts(db)
    BY <1>4, <1>12 DEF GateInv, AccountsSurvive
  <2>2. saving = "none"
    BY <2>1 DEF GateInv, AttemptInv, Signup
  <2>3. db = base
    BY <1>4, <1>5, <1>12, <2>2 DEF GateInv, SavedInv
  <2> QED
    BY <2>1, <2>3
<1>13. AccountsSurvive'
  BY <1>2, <1>6, <1>12 DEF AccountsSurvive, Accounts, Signup
<1> QED
  BY <1>8, <1>9, <1>10, <1>11, <1>13 DEF GateInv

-----------------------------------------------------------------------------
(* All together *)

Inv == EditorInv /\ GateInv /\ NanoInv

\* The first boot.
LEMMA ConsoleStart == Init => Inv
<1> SUFFICES ASSUME Init PROVE Inv
  OBVIOUS
<1>1. EditorInv
  BY LineEditorAssumption DEF Init, EditorInit, EditorInv, BufferInv, HistoryShown
<1>2. usersFile \in Databases \cup {Absent, Empty}
  BY ConsoleAssumption DEF Init, LoginInit, KeyboardInit
<1>3. db \in Databases /\ db = Loaded(usersFile, NoAccounts, TRUE)
  BY <1>2, LoadedTyped DEF Init, LoginInit
<1>4. /\ stage = FirstStage(db) /\ line_buffer = <<>> /\ pending_username = <<>>
      /\ pending_password = <<>> /\ logged_in = FALSE /\ saving = "none" /\ failures = 0
      /\ prompted = <<>> /\ entered = NoEntry /\ created = Accounts(db) /\ nano_active = FALSE
  BY DEF Init, LoginInit
<1>5. stage \in {"SIGNUP_USERNAME", "LOGIN_USERNAME"}
      /\ (Accounts(db) # {} => stage = "LOGIN_USERNAME")
  BY <1>3, <1>4, FirstStageOf
<1>6. NoEntry \in Records /\ <<>> \in Seq(Characters)
  BY DEF NoEntry, Records
<1>7. LoginInv
  BY <1>2, <1>3, <1>4, <1>5, <1>6 DEF LoginInv, auth_login_active
<1>8. AttemptInv /\ SavedInv /\ SessionIsEarned
  BY <1>3, <1>4, <1>5 DEF AttemptInv, SavedInv, SessionIsEarned
<1>9. AccountsSurvive
  BY <1>4, <1>5 DEF AccountsSurvive, Signup
<1>10. NanoInv
  BY <1>4 DEF NanoInv
<1> QED
  BY <1>1, <1>7, <1>8, <1>9, <1>10 DEF Inv, GateInv

\* Steps that leave a reader's variables alone.
LEMMA EditorIdle == EditorInv /\ UNCHANGED editorVars => EditorInv'
BY DEF editorVars, EditorInv, BufferInv, HistoryShown

\* The same at the gate.
LEMMA GateIdle == GateInv /\ UNCHANGED allLogin => GateInv'
<1> SUFFICES ASSUME GateInv, UNCHANGED allLogin PROVE GateInv'
  OBVIOUS
<1>1. UNCHANGED <<db, stage, line_buffer, pending_username, pending_password, logged_in,
                  active_username, saving, usersFile, failures, prompted, entered, created>>
  BY DEF allLogin, loginVars, loginDisk, loginPast
<1> QED
  BY <1>1 DEF GateInv, LoginInv, AttemptInv, SavedInv, SessionIsEarned, AccountsSurvive,
     auth_login_active, Signing, Accounts, Loaded, Signup

\* A key at the login gate.
LEMMA LoginKeyKeeps ==
    ASSUME Inv, saving = "none", auth_login_active, NEW e,
           e.kind = "character" => e.char \in Characters, LoginKey(e), UNCHANGED nano_active
    PROVE  Inv'
<1>1. EditorInv /\ GateInv /\ NanoInv /\ ~logged_in /\ nano_active = FALSE
  BY DEF Inv, GateInv, LoginInv, NanoInv
<1>2. NanoInv'
  BY <1>1 DEF NanoInv
<1>3. EditorInv'
  BY <1>1, ClearedKeeps, EditorIdle DEF LoginKey
<1>4. CASE e.kind = "character" /\ auth_keyboard_character(e.char)
  BY <1>1, <1>2, <1>3, <1>4, CharacterKeeps DEF Inv
<1>5. CASE auth_keyboard_backspace
  BY <1>1, <1>2, <1>3, <1>5, BackspaceKeeps DEF Inv
<1>6. CASE PromptAnswered
  BY <1>1, <1>2, <1>3, <1>6, NameKeeps, PasswordKeeps, RefusalKeeps, CreateKeeps
  DEF Inv, PromptAnswered
<1>7. CASE LoginGranted
  BY <1>1, <1>2, <1>3, <1>7, GrantedKeeps DEF Inv
<1>8. CASE UNCHANGED <<allLogin, editorVars>>
  BY <1>1, <1>2, <1>3, <1>8, GateIdle DEF Inv
<1> QED
  BY <1>4, <1>5, <1>6, <1>7, <1>8 DEF LoginKey

\* A key reaches the reader that owns the keyboard.
LEMMA DispatchKeeps ==
    ASSUME Inv, saving = "none", NEW e, e.kind = "character" => e.char \in Characters, dispatch(e)
    PROVE  Inv'
<1>1. EditorInv /\ GateInv /\ NanoInv
  BY DEF Inv
<1>2. CASE auth_login_active /\ LoginKey(e) /\ UNCHANGED nano_active
  BY <1>2, LoginKeyKeeps
<1>3. ASSUME UNCHANGED <<allLogin, nano_active>> PROVE NanoInv'
  BY <1>1, <1>3 DEF NanoInv, allLogin, loginVars
<1>4. CASE UNCHANGED <<allLogin, editorVars, nano_active>>
  BY <1>1, <1>3, <1>4, EditorIdle, GateIdle DEF Inv
<1>5. CASE ShellEdit(e) /\ UNCHANGED <<allLogin, nano_active>>
  BY <1>1, <1>3, <1>5, ShellEditKeeps, GateIdle DEF Inv
<1>6. CASE ~auth_login_active /\ shell_keyboard_enter
  <2>1. EditorInv'
    BY <1>1, <1>6, EnterKeeps DEF shell_keyboard_enter
  <2>2. GateInv'
    BY <1>1, <1>6, LogoutKeeps, GateIdle DEF shell_keyboard_enter
  <2>3. logged_in
    BY <1>1, <1>6 DEF GateInv, LoginInv
  <2>4. NanoInv'
    <3>1. CASE command_line = LogoutLine
      <4>1. nano_active' = FALSE
        BY <1>6, <3>1, ConsoleAssumption DEF shell_keyboard_enter
      <4> QED
        BY <4>1 DEF NanoInv
    <3>2. CASE command_line # LogoutLine
      <4>1. logged_in' = logged_in /\ nano_active' = (command_line = NanoLine)
        BY <1>6, <3>2 DEF shell_keyboard_enter, allLogin, loginVars
      <4> QED
        BY <2>3, <4>1 DEF NanoInv
    <3> QED
      BY <3>1, <3>2
  <2> QED
    BY <2>1, <2>2, <2>4 DEF Inv
<1> QED
  BY <1>2, <1>4, <1>5, <1>6 DEF dispatch

\* Every step keeps the three readers' invariants.
LEMMA ConsoleStep == Inv /\ [Next]_vars => Inv'
<1> SUFFICES ASSUME Inv, [Next]_vars PROVE Inv'
  OBVIOUS
<1>1. EditorInv /\ GateInv /\ NanoInv
  BY DEF Inv
<1>2. ASSUME UNCHANGED <<allLogin, editorVars, nano_active>> PROVE Inv'
  <2>1. NanoInv'
    BY <1>1, <1>2 DEF NanoInv, allLogin, loginVars
  <2> QED
    BY <1>1, <1>2, <2>1, EditorIdle, GateIdle DEF Inv
<1>3. CASE UNCHANGED vars
  BY <1>2, <1>3 DEF vars
<1>4. CASE KeyMoves
  BY <1>2, <1>4 DEF KeyMoves
<1>5. CASE keyboard_handler
  <2>1. saving = "none"
    BY <1>5 DEF keyboard_handler
  <2>2. CASE HandlesModifier
    BY <1>2, <2>2 DEF HandlesModifier
  <2>3. CASE HandlesKey
    <3>1. CASE dispatch(KeyEvent)
      BY <2>1, <3>1, CharacterTyped, DispatchKeeps
    <3>2. CASE CtrlKey
      <4>1. NanoInv'
        BY <1>1, <3>2 DEF NanoInv, CtrlKey, allLogin, loginVars
      <4> QED
        BY <1>1, <3>2, <4>1, EditorIdle, GateIdle DEF Inv, CtrlKey
    <3>3. CASE UNCHANGED <<allLogin, editorVars, nano_active>>
      BY <1>2, <3>3
    <3> QED
      BY <2>3, <3>1, <3>2, <3>3 DEF HandlesKey
  <2> QED
    BY <1>5, <2>2, <2>3 DEF keyboard_handler
<1>6. CASE SignupSaves
  <2>1. GateInv'
    BY <1>1, <1>6, SaveKeeps, IdentityKeeps DEF SignupSaves
  <2>2. EditorInv'
    BY <1>1, <1>6, ClearedKeeps, EditorIdle DEF SignupSaves
  <2>3. nano_active = FALSE /\ nano_active' = FALSE
    BY <1>1, <1>6 DEF SignupSaves, auth_db_save, IdentityMade, GateInv, AttemptInv, LoginInv,
       auth_login_active, NanoInv
  <2> QED
    BY <2>1, <2>2, <2>3 DEF Inv, NanoInv
<1>7. CASE \E readable \in BOOLEAN : Reboots(readable)
  <2>1. PICK readable \in BOOLEAN : Reboots(readable)
    BY <1>7
  <2>2. GateInv'
    BY <1>1, <2>1, BootKeeps DEF Reboots
  <2>3. shell_init /\ nano_active' = FALSE
    BY <2>1 DEF Reboots, shell_init
  <2> QED
    BY <2>2, <2>3, ClearedKeeps DEF Inv, NanoInv
<1> QED
  BY <1>3, <1>4, <1>5, <1>6, <1>7 DEF Next

\* Every state the console reaches satisfies the three invariants.
LEMMA ConsoleInvariant == Spec => []Inv
<1>1. Init => Inv
  BY ConsoleStart
<1>2. Inv /\ [Next]_vars => Inv'
  BY ConsoleStep
<1> QED
  BY <1>1, <1>2, PTL DEF Spec

(* Whatever keys come in whatever order, the line the history arrows show is the
   entry they stand on, and line and cursor stay within the buffer (shell.c). *)
THEOREM HistoryIsShown == Spec => []HistoryShown
<1>1. Inv => HistoryShown
  BY DEF Inv, EditorInv
<1> QED
  BY <1>1, ConsoleInvariant, PTL

(* auth.c grants a session only for an account of the table whose name and
   password were typed at the prompts before it. *)
THEOREM SessionsAreEarned == Spec => []SessionIsEarned
<1>1. Inv => SessionIsEarned
  BY DEF Inv, GateInv
<1> QED
  BY <1>1, ConsoleInvariant, PTL

(* As long as fs.c fails no call, every account auth.c reported as created is
   there after every restart, the power failing at any step of the sign-up. *)
THEOREM AccountsAreKept == Spec => []AccountsSurvive
<1>1. Inv => AccountsSurvive
  BY DEF Inv, GateInv
<1> QED
  BY <1>1, ConsoleInvariant, PTL

Counted == boots \in Nat

\* The restarts are counted.
LEMMA BootsCounted == Spec => []Counted
<1>1. Init => Counted
  BY DEF Init, Counted
<1>2. Counted /\ [Next]_vars => Counted'
  BY DEF Counted, Next, vars, KeyMoves, keyboard_handler, SignupSaves, Reboots
<1> QED
  BY <1>1, <1>2, PTL DEF Spec

\* What SessionsApart asks of one step.
Apart ==
    /\ auth_login_active /\ boots' = boots /\ ~logged_in' => UNCHANGED <<editorVars, nano_active>>
    /\ ~logged_in /\ logged_in' =>
          /\ command_line' = <<>> /\ cursor_position' = 0
          /\ history' = <<>> /\ history_position' = -1 /\ ~nano_active'

\* Only a grant or a finished sign-up touches the shell's buffers at the gate.
LEMMA StepsApart == Inv /\ Counted /\ [Next]_vars => [Apart]_vars
<1> SUFFICES ASSUME Inv, Counted, Next PROVE Apart
  OBVIOUS
<1>1. NanoInv /\ (logged_in <=> ~auth_login_active) /\ logged_in \in BOOLEAN
  BY DEF Inv, GateInv, LoginInv
<1>2. ASSUME UNCHANGED <<allLogin, editorVars, nano_active>> PROVE Apart
  BY <1>2 DEF Apart, allLogin, loginVars
<1>3. ASSUME shell_init, nano_active' = nano_active, ~logged_in, logged_in' PROVE Apart
  BY <1>1, <1>3 DEF Apart, shell_init, NanoInv
<1>4. ASSUME UNCHANGED <<editorVars, nano_active>>, logged_in' = logged_in PROVE Apart
  BY <1>4 DEF Apart
<1>5. CASE KeyMoves \/ HandlesModifier
  BY <1>2, <1>5 DEF KeyMoves, HandlesModifier
<1>6. CASE SignupSaves
  <2>1. ~logged_in
    BY <1>6 DEF SignupSaves, auth_db_save, IdentityMade, Inv, GateInv, AttemptInv, LoginInv,
       auth_login_active
  <2>2. CASE auth_db_save /\ UNCHANGED editorVars
    BY <1>4, <1>6, <2>2 DEF SignupSaves, auth_db_save, session
  <2>3. CASE IdentityMade /\ shell_init
    BY <1>3, <1>6, <2>1, <2>3 DEF SignupSaves, IdentityMade, auth_finish_session
  <2> QED
    BY <1>6, <2>2, <2>3 DEF SignupSaves
<1>7. CASE \E readable \in BOOLEAN : Reboots(readable)
  <2>1. boots' = boots + 1 /\ boots < MaxBoots /\ logged_in' = FALSE
    BY <1>7 DEF Reboots, LoginBoots
  <2> QED
    BY <2>1 DEF Apart, Counted
<1>8. CASE HandlesKey
  <2>1. CASE CtrlKey
    <3>1. logged_in' = logged_in /\ UNCHANGED editorVars /\ (~nano_active => nano_active' = FALSE)
      BY <2>1 DEF CtrlKey, allLogin, loginVars
    <3> QED
      BY <1>1, <3>1 DEF Apart, NanoInv
  <2>2. CASE UNCHANGED <<allLogin, editorVars, nano_active>>
    BY <1>2, <2>2
  <2>3. CASE ~auth_login_active /\ dispatch(KeyEvent)
    <3>1. logged_in
      BY <1>1, <2>3
    <3> QED
      BY <2>3, <3>1 DEF Apart
  <2>4. CASE auth_login_active /\ dispatch(KeyEvent)
    <3>1. LoginKey(KeyEvent) /\ UNCHANGED nano_active /\ ~logged_in
      BY <1>1, <2>4 DEF dispatch
    <3>2. CASE LoginGranted /\ shell_init
      BY <1>3, <3>1, <3>2 DEF LoginGranted, auth_finish_session
    <3>3. CASE UNCHANGED editorVars /\ logged_in' = logged_in
      BY <1>4, <3>1, <3>3
    <3> QED
      BY <3>1, <3>2, <3>3 DEF LoginKey, auth_keyboard_character, auth_keyboard_backspace,
         PromptAnswered, NameEntered, PasswordChosen, SignupRefused, LoginDenied, StartsOver,
         auth_create_user, session, allLogin, loginVars
  <2> QED
    BY <1>8, <2>1, <2>2, <2>3, <2>4 DEF HandlesKey
<1> QED
  BY <1>5, <1>6, <1>7, <1>8 DEF Next, keyboard_handler

(* No key pressed at the login gate reaches the shell's line or nano, and every
   session begins with empty buffers: keyboard.c's dispatch and shell_init(). *)
THEOREM SessionsAreApart == Spec => SessionsApart
<1>1. Inv /\ Counted /\ [Next]_vars => [Apart]_vars
  BY StepsApart
<1> QED
  BY <1>1, ConsoleInvariant, BootsCounted, PTL DEF Spec, SessionsApart, Apart
-----------------------------------------------------------------------------
(* The keyboard decoder.  Between two bytes its six flags are a set, a byte maps
   the set to the next one, and the bytes on the wire lead from the flags as
   they are to flags that agree with the keys that are down. *)

Flags == {"LSHIFT", "RSHIFT", "CAPS", "CTRL", "ALT", "E0"}
FlagUp(f) ==
    \/ f = "LSHIFT" /\ left_shift
    \/ f = "RSHIFT" /\ right_shift
    \/ f = "CAPS" /\ caps_lock
    \/ f = "CTRL" /\ ctrl_pressed
    \/ f = "ALT" /\ alt_pressed
    \/ f = "E0" /\ extended
Decoder == {f \in Flags : FlagUp(f)}

Known(d) == IF "E0" \in d THEN {"CTRL"} ELSE {"LSHIFT", "RSHIFT", "CTRL", "ALT", "CAPS"}

\* The flags after one byte.
AfterByte(d, b) ==
    IF b.code = "E0" THEN d \cup {"E0"}
    ELSE IF b.code \notin Known(d) \/ (b.code = "CAPS" /\ b.up) THEN d \ {"E0"}
    ELSE IF b.up \/ (b.code = "CAPS" /\ "CAPS" \in d) THEN d \ {b.code, "E0"}
    ELSE (d \ {"E0"}) \cup {b.code}

\* r is the history of the flags while the bytes w are handled.
Replays(r, d, w, e) ==
    /\ r \in [0 .. Len(w) -> SUBSET Flags]
    /\ r[0] = d /\ r[Len(w)] = e
    /\ \A i \in 1 .. Len(w) : r[i] = AfterByte(r[i - 1], w[i])
Leads(d, w, e) == \E r : Replays(r, d, w, e)

\* The flags agree with the keys that are down.
Settled(d, keys, caps) ==
    /\ "E0" \notin d
    /\ "LSHIFT" \in d <=> "LSHIFT" \in keys
    /\ "RSHIFT" \in d <=> "RSHIFT" \in keys
    /\ "ALT" \in d <=> "ALT" \in keys
    /\ "CAPS" \in d <=> caps
    /\ "CTRL" \in d => \E k \in keys : k \in {"CTRL", "RCTRL"}

GreyCodes == {"KP4", "KP6", "KP8", "KP2", "KPDOT", "KP7", "KP1", "CTRL", "ALT"}
KeyCodes == UNION {p.keys : p \in Persons}
Codes == KeyCodes \cup GreyCodes \cup {"E0", "LSHIFT"}
Bytes == [code : Codes, up : BOOLEAN]

KeysTyped ==
    /\ person \in Persons /\ held \in SUBSET person.keys /\ capsOdd \in BOOLEAN
    /\ left_shift \in BOOLEAN /\ right_shift \in BOOLEAN /\ caps_lock \in BOOLEAN
    /\ ctrl_pressed \in BOOLEAN /\ alt_pressed \in BOOLEAN /\ extended \in BOOLEAN
    /\ wire \in Seq(Bytes)
Agree(d, w, keys, caps) == \E e \in SUBSET Flags : Leads(d, w, e) /\ Settled(e, keys, caps)
KeysAgree == Agree(Decoder, wire, held, capsOdd)
KeyboardInv == KeysTyped /\ KeysAgree

\* A byte leaves a set of flags.
LEMMA AfterByteType ==
    ASSUME NEW d \in SUBSET Flags, NEW b
    PROVE  AfterByte(d, b) \in SUBSET Flags
BY DEF AfterByte, Known, Flags

\* No bytes, no change.
LEMMA LeadsNowhere ==
    ASSUME NEW d \in SUBSET Flags
    PROVE  /\ Leads(d, <<>>, d)
           /\ \A e : Leads(d, <<>>, e) => e = d
<1>1. Len(<<>>) = 0
  OBVIOUS
<1>2. ASSUME NEW e, Leads(d, <<>>, e) PROVE e = d
  BY <1>1, <1>2 DEF Leads, Replays
<1> DEFINE r == [i \in 0 .. 0 |-> d]
<1>3. r \in [0 .. 0 -> SUBSET Flags] /\ r[0] = d
  OBVIOUS
<1>4. \A i \in 1 .. 0 : FALSE
  OBVIOUS
<1> HIDE DEF r
<1>5. Replays(r, d, <<>>, d)
  BY <1>1, <1>3, <1>4 DEF Replays
<1> QED
  BY <1>2, <1>5 DEF Leads

\* The decoder handles the first byte: the rest still leads where it led.
LEMMA LeadsOn ==
    ASSUME NEW d \in SUBSET Flags, NEW w \in Seq(Bytes), w # <<>>, NEW e, Leads(d, w, e)
    PROVE  Leads(AfterByte(d, Head(w)), Tail(w), e)
<1>1. PICK r : Replays(r, d, w, e)
  BY DEF Leads
<1>2. PICK n \in Nat : n = Len(w) - 1
  BY Len(w) \in Nat, Len(w) # 0
<1>3. Len(w) = n + 1 /\ Len(Tail(w)) = n /\ Head(w) = w[1] /\ Tail(w) \in Seq(Bytes)
      /\ \A i \in 1 .. n : Tail(w)[i] = w[i + 1]
  BY <1>2
<1>4. /\ r \in [0 .. n + 1 -> SUBSET Flags] /\ r[0] = d /\ r[n + 1] = e
      /\ \A i \in 1 .. n + 1 : r[i] = AfterByte(r[i - 1], w[i])
  BY <1>1, <1>3 DEF Replays
<1> DEFINE q == [i \in 0 .. n |-> r[i + 1]]
<1>5. q \in [0 .. n -> SUBSET Flags] /\ q[n] = e /\ q[0] = r[1]
  BY <1>4
<1>6. r[1] = AfterByte(d, Head(w))
  <2>1. 1 \in 1 .. n + 1 /\ 1 - 1 = 0
    OBVIOUS
  <2> QED
    BY <1>3, <1>4, <2>1
<1>7. ASSUME NEW i \in 1 .. n PROVE q[i] = AfterByte(q[i - 1], Tail(w)[i])
  <2>1. i + 1 \in 1 .. n + 1 /\ (i + 1) - 1 = i /\ i \in 0 .. n /\ i - 1 \in 0 .. n
        /\ (i - 1) + 1 = i
    OBVIOUS
  <2>2. q[i] = r[i + 1] /\ q[i - 1] = r[i]
    BY <2>1
  <2>3. r[i + 1] = AfterByte(r[i], w[i + 1])
    BY <1>4, <2>1
  <2> QED
    BY <1>3, <2>2, <2>3
<1> HIDE DEF q
<1>8. Replays(q, AfterByte(d, Head(w)), Tail(w), e)
  BY <1>3, <1>5, <1>6, <1>7 DEF Replays
<1> QED
  BY <1>8 DEF Leads

\* The keyboard sends one more byte.
LEMMA LeadsFurther ==
    ASSUME NEW d, NEW w \in Seq(Bytes), NEW e \in SUBSET Flags, Leads(d, w, e), NEW b \in Bytes
    PROVE  Leads(d, Append(w, b), AfterByte(e, b))
<1>1. PICK r : Replays(r, d, w, e)
  BY DEF Leads
<1>2. PICK n \in Nat : n = Len(w)
  OBVIOUS
<1> DEFINE v == Append(w, b)
           f == AfterByte(e, b)
<1>3. Len(v) = n + 1 /\ v[n + 1] = b /\ \A i \in 1 .. n : v[i] = w[i]
  BY <1>2
<1>4. /\ r \in [0 .. n -> SUBSET Flags] /\ r[0] = d /\ r[n] = e
      /\ \A i \in 1 .. n : r[i] = AfterByte(r[i - 1], w[i])
  BY <1>1, <1>2 DEF Replays
<1>5. f \in SUBSET Flags
  BY AfterByteType
<1> HIDE DEF v, f
<1> DEFINE q == [i \in 0 .. n + 1 |-> IF i = n + 1 THEN f ELSE r[i]]
<1>6. q \in [0 .. n + 1 -> SUBSET Flags] /\ q[0] = d /\ q[n + 1] = f /\ q[n] = e
      /\ \A i \in 0 .. n : q[i] = r[i]
  BY <1>4, <1>5
<1> HIDE DEF q
<1>7. ASSUME NEW i \in 1 .. n + 1 PROVE q[i] = AfterByte(q[i - 1], v[i])
  <2>1. CASE i = n + 1
    <3>1. i - 1 = n
      BY <2>1
    <3> QED
      BY <1>3, <1>6, <2>1, <3>1 DEF f
  <2>2. CASE i # n + 1
    <3>1. i \in 1 .. n /\ i \in 0 .. n /\ i - 1 \in 0 .. n
      BY <2>2
    <3>2. q[i] = r[i] /\ q[i - 1] = r[i - 1] /\ v[i] = w[i]
      BY <1>3, <1>6, <3>1
    <3> QED
      BY <1>4, <3>1, <3>2
  <2> QED
    BY <2>1, <2>2
<1>8. Replays(q, d, v, f)
  BY <1>3, <1>6, <1>7 DEF Replays
<1> QED
  BY <1>8 DEF Leads, v, f

\* What the keys send: one code, or a prefixed code with or without a prefixed
\* shift around it.
LEMMA SendsWhat ==
    ASSUME NEW k \in Codes, k # "E0", NEW u \in BOOLEAN, NEW bytes \in Sends(k, u)
    PROVE  \/ k \notin DOMAIN GreyCode /\ bytes = <<Byte(k, u)>>
           \/ /\ k \in DOMAIN GreyCode
              /\ bytes \in {<<Prefix, Byte(GreyCode[k], u)>>,
                            <<Prefix, Byte(GreyCode[k], u), Prefix, Byte("LSHIFT", u)>>,
                            <<Prefix, Byte("LSHIFT", u), Prefix, Byte(GreyCode[k], u)>>}
BY DEF Sends

\* The codes of the grey keys.
LEMMA GreyCodeIs ==
    ASSUME NEW k \in DOMAIN GreyCode
    PROVE  /\ GreyCode[k] \in GreyCodes
           /\ GreyCode[k] = "CTRL" <=> k = "RCTRL"
           /\ k \notin {"LSHIFT", "RSHIFT", "ALT", "CTRL", "CAPS"}
BY DEF GreyCode, GreyCodes

\* Codes that need no person to send them.
LEMMA CodesHave == "E0" \in Codes /\ "LSHIFT" \in Codes /\ GreyCodes \subseteq Codes
BY DEF Codes

\* Bytes are bytes.
LEMMA ByteType ==
    ASSUME NEW c \in Codes, NEW u \in BOOLEAN
    PROVE  Byte(c, u) \in Bytes /\ Byte(c, u).code = c /\ Byte(c, u).up = u
BY DEF Byte, Bytes

\* The keys that are down after k went down or, with u, came up.
Moved(keys, k, u) == IF u THEN keys \ {k} ELSE keys \cup {k}

\* Caps Lock is to be `now` after that, if it was `caps` before.
CapsMoved(now, caps, k, u) == now <=> (caps # (k = "CAPS" /\ ~u))

\* A key without a prefix settles the decoder in one byte.
LEMMA PlainSettles ==
    ASSUME NEW d \in SUBSET Flags, NEW keys, NEW caps \in BOOLEAN, NEW k \in Codes, k # "E0",
           k \notin DOMAIN GreyCode, NEW u \in BOOLEAN, Settled(d, keys, caps),
           NEW now \in BOOLEAN, CapsMoved(now, caps, k, u)
    PROVE  Settled(AfterByte(d, Byte(k, u)), Moved(keys, k, u), now)
<1>1. Byte(k, u).code = k /\ Byte(k, u).up = u
  BY ByteType
<1>2. k # "RCTRL"
  BY DEF GreyCode
<1>3. CASE k \notin {"LSHIFT", "RSHIFT", "CTRL", "ALT", "CAPS"}
  <2>1. AfterByte(d, Byte(k, u)) = d \ {"E0"} /\ (now <=> caps)
    BY <1>1, <1>3 DEF CapsMoved, AfterByte, Known
  <2> QED
    BY <1>2, <1>3, <2>1 DEF Settled, Moved
<1>4. CASE k = "CAPS"
  <2>1. AfterByte(d, Byte(k, u)) = IF u \/ "CAPS" \in d
                                   THEN IF u THEN d \ {"E0"} ELSE d \ {"CAPS", "E0"}
                                   ELSE (d \ {"E0"}) \cup {"CAPS"}
    BY <1>1, <1>4 DEF AfterByte, Known, Settled
  <2> QED
    BY <1>4, <2>1 DEF Settled, Moved, CapsMoved
<1>5. CASE k \in {"LSHIFT", "RSHIFT", "CTRL", "ALT"}
  <2>1. AfterByte(d, Byte(k, u)) = (IF u THEN d \ {k, "E0"} ELSE (d \ {"E0"}) \cup {k})
        /\ (now <=> caps)
    BY <1>1, <1>5 DEF CapsMoved, AfterByte, Known, Settled
  <2> QED
    BY <1>5, <2>1 DEF Settled, Moved
<1> QED
  BY <1>3, <1>4, <1>5

\* A prefixed byte moves Ctrl or nothing.
LEMMA PrefixedByte ==
    ASSUME NEW d \in SUBSET Flags, "E0" \notin d, NEW c \in Codes, c # "E0", NEW u \in BOOLEAN
    PROVE  AfterByte(AfterByte(d, Prefix), Byte(c, u)) =
               IF c # "CTRL" THEN d ELSE IF u THEN d \ {"CTRL"} ELSE d \cup {"CTRL"}
<1>1. Byte(c, u).code = c /\ Byte(c, u).up = u
  BY ByteType
<1>2. AfterByte(d, Prefix) = d \cup {"E0"}
  BY DEF AfterByte, Prefix, Byte
<1>3. Known(d \cup {"E0"}) = {"CTRL"}
  BY DEF Known
<1> QED
  BY <1>1, <1>2, <1>3 DEF AfterByte

\* What a grey key does to the flags.
GreyAfter(d, k, u) ==
    IF k # "RCTRL" THEN d ELSE IF u THEN d \ {"CTRL"} ELSE d \cup {"CTRL"}

\* A grey key settles the decoder.
LEMMA GreySettles ==
    ASSUME NEW d \in SUBSET Flags, NEW keys, NEW caps \in BOOLEAN, NEW k \in DOMAIN GreyCode,
           NEW u \in BOOLEAN, Settled(d, keys, caps)
    PROVE  Settled(GreyAfter(d, k, u), Moved(keys, k, u), caps)
<1>1. k \notin {"LSHIFT", "RSHIFT", "ALT", "CTRL", "CAPS"}
  BY GreyCodeIs
<1> QED
  BY <1>1 DEF Settled, Moved, GreyAfter

\* A prefixed code goes by, prefix and all.
LEMMA LeadsPrefixed ==
    ASSUME NEW d, NEW w \in Seq(Bytes), NEW e \in SUBSET Flags, "E0" \notin e, Leads(d, w, e),
           NEW c \in Codes, c # "E0", NEW u \in BOOLEAN
    PROVE  /\ Leads(d, Append(Append(w, Prefix), Byte(c, u)),
                    IF c # "CTRL" THEN e ELSE IF u THEN e \ {"CTRL"} ELSE e \cup {"CTRL"})
           /\ Append(Append(w, Prefix), Byte(c, u)) \in Seq(Bytes)
<1>1. Prefix \in Bytes /\ Byte(c, u) \in Bytes
  BY ByteType, CodesHave DEF Prefix
<1>2. Append(w, Prefix) \in Seq(Bytes) /\ Leads(d, Append(w, Prefix), AfterByte(e, Prefix))
      /\ AfterByte(e, Prefix) \in SUBSET Flags
  BY <1>1, LeadsFurther, AfterByteType
<1>3. Leads(d, Append(Append(w, Prefix), Byte(c, u)), AfterByte(AfterByte(e, Prefix), Byte(c, u)))
  BY <1>1, <1>2, LeadsFurther
<1>4. Append(Append(w, Prefix), Byte(c, u)) \in Seq(Bytes)
  BY <1>1, <1>2
<1> QED
  BY <1>3, <1>4, PrefixedByte

\* A key moves: the bytes it sends lead on to flags that agree with it.
LEMMA KeyLeads ==
    ASSUME NEW d, NEW w \in Seq(Bytes), NEW keys, NEW caps \in BOOLEAN,
           Agree(d, w, keys, caps), NEW k \in Codes, k # "E0", NEW u \in BOOLEAN, NEW bytes \in Sends(k, u),
           NEW now \in BOOLEAN, CapsMoved(now, caps, k, u)
    PROVE  w \o bytes \in Seq(Bytes) /\ Agree(d, w \o bytes, Moved(keys, k, u), now)
<1> USE DEF Agree
<1>0. PICK e \in SUBSET Flags : Leads(d, w, e) /\ Settled(e, keys, caps)
  OBVIOUS
<1>1. CASE k \notin DOMAIN GreyCode /\ bytes = <<Byte(k, u)>>
  <2>1. Byte(k, u) \in Bytes
    BY ByteType
  <2>2. w \o bytes = Append(w, Byte(k, u)) /\ Append(w, Byte(k, u)) \in Seq(Bytes)
    BY <1>1, <2>1
  <2>3. Leads(d, Append(w, Byte(k, u)), AfterByte(e, Byte(k, u)))
    BY <1>0, <2>1, LeadsFurther
  <2>4. AfterByte(e, Byte(k, u)) \in SUBSET Flags
    BY AfterByteType
  <2>5. Settled(AfterByte(e, Byte(k, u)), Moved(keys, k, u), now)
    BY <1>0, <1>1, PlainSettles, Zenon
  <2> QED
    BY <2>2, <2>3, <2>4, <2>5
<1>2. ASSUME k \in DOMAIN GreyCode,
             bytes \in {<<Prefix, Byte(GreyCode[k], u)>>,
                        <<Prefix, Byte(GreyCode[k], u), Prefix, Byte("LSHIFT", u)>>,
                        <<Prefix, Byte("LSHIFT", u), Prefix, Byte(GreyCode[k], u)>>}
      PROVE  w \o bytes \in Seq(Bytes) /\ Agree(d, w \o bytes, Moved(keys, k, u), now)
  <2>1. PICK c \in Codes : c = GreyCode[k] /\ c # "E0" /\ (c = "CTRL" <=> k = "RCTRL")
    <3>1. GreyCode[k] \in GreyCodes /\ (GreyCode[k] = "CTRL" <=> k = "RCTRL")
      BY <1>2, GreyCodeIs
    <3>2. "E0" \notin GreyCodes
      BY DEF GreyCodes
    <3> QED
      BY <3>1, <3>2, CodesHave
  <2>2. "LSHIFT" \in Codes /\ "LSHIFT" # "E0" /\ "LSHIFT" # "CTRL"
    BY CodesHave
  <2>3. PICK f \in SUBSET Flags : f = GreyAfter(e, k, u)
    BY DEF GreyAfter, Flags
  <2>4. f = (IF c # "CTRL" THEN e ELSE IF u THEN e \ {"CTRL"} ELSE e \cup {"CTRL"})
    BY <2>1, <2>3 DEF GreyAfter
  <2>5. "E0" \notin e /\ "E0" \notin f
    BY <1>0, <2>4 DEF Settled
  <2>6. now = caps
    BY <1>2, GreyCodeIs DEF CapsMoved
  <2>7. Settled(f, Moved(keys, k, u), now)
    BY <1>0, <1>2, <2>3, <2>6, GreySettles
  <2> DEFINE key == Append(Append(w, Prefix), Byte(c, u))
             shift == Append(Append(w, Prefix), Byte("LSHIFT", u))
  <2>8. key \in Seq(Bytes) /\ Leads(d, key, f)
    BY <1>0, <2>1, <2>4, <2>5, LeadsPrefixed
  <2>9. shift \in Seq(Bytes) /\ Leads(d, shift, e)
    BY <1>0, <2>2, <2>5, LeadsPrefixed
  <2>10. Prefix \in Bytes /\ Byte(c, u) \in Bytes /\ Byte("LSHIFT", u) \in Bytes
    BY <2>1, <2>2, ByteType, CodesHave DEF Prefix
  <2>11. CASE bytes = <<Prefix, Byte(GreyCode[k], u)>>
    <3>1. w \o bytes = key
      BY <2>1, <2>10, <2>11
    <3> QED
      BY <2>7, <2>8, <3>1
  <2>12. CASE bytes = <<Prefix, Byte(GreyCode[k], u), Prefix, Byte("LSHIFT", u)>>
    <3>1. w \o bytes = Append(Append(key, Prefix), Byte("LSHIFT", u))
      BY <2>1, <2>10, <2>12
    <3> HIDE DEF key
    <3>2. /\ Append(Append(key, Prefix), Byte("LSHIFT", u)) \in Seq(Bytes)
          /\ Leads(d, Append(Append(key, Prefix), Byte("LSHIFT", u)), f)
      BY <2>2, <2>5, <2>8, LeadsPrefixed
    <3> QED
      BY <2>7, <3>1, <3>2
  <2>13. CASE bytes = <<Prefix, Byte("LSHIFT", u), Prefix, Byte(GreyCode[k], u)>>
    <3>1. w \o bytes = Append(Append(shift, Prefix), Byte(c, u))
      BY <2>1, <2>10, <2>13
    <3> HIDE DEF shift
    <3>2. /\ Append(Append(shift, Prefix), Byte(c, u)) \in Seq(Bytes)
          /\ Leads(d, Append(Append(shift, Prefix), Byte(c, u)), f)
      BY <2>1, <2>4, <2>5, <2>9, LeadsPrefixed
    <3> QED
      BY <2>7, <3>1, <3>2
  <2> QED
    BY <1>2, <2>11, <2>12, <2>13
<1> QED
  BY <1>1, <1>2, SendsWhat

\* keyboard_handler() maps the flags as AfterByte does.
LEMMA DecodesByte ==
    ASSUME KeysTyped, PrefixByte \/ ModifierByte \/ KeyByte
    PROVE  /\ wire # <<>> /\ wire' = Tail(wire) /\ UNCHANGED <<person, held, capsOdd>>
           /\ KeysTyped'
           /\ Decoder' = AfterByte(Decoder, Head(wire))
<1>1. wire # <<>> /\ wire' = Tail(wire) /\ UNCHANGED <<person, held, capsOdd>>
  BY DEF PrefixByte, ModifierByte, KeyByte, TakesByte
<1>2. wire \in Seq(Bytes)
  BY DEF KeysTyped
<1>3. Head(wire) \in Bytes /\ wire' \in Seq(Bytes)
  BY <1>1, <1>2
<1>4. PICK b \in Bytes : b = Head(wire)
  BY <1>3
<1>5. b.up \in BOOLEAN /\ code = b.code /\ up = b.up
  BY <1>4 DEF Bytes, code, up
<1>6. /\ left_shift' \in BOOLEAN /\ right_shift' \in BOOLEAN /\ caps_lock' \in BOOLEAN
      /\ ctrl_pressed' \in BOOLEAN /\ alt_pressed' \in BOOLEAN /\ extended' \in BOOLEAN
  BY DEF KeysTyped, PrefixByte, ModifierByte, KeyByte
<1>7. KeysTyped'
  BY <1>1, <1>3, <1>6 DEF KeysTyped
<1>8. "E0" \in Decoder <=> extended
  BY DEF Decoder, FlagUp, Flags
<1>9. Known(Decoder) = (IF extended THEN {"CTRL"}
                        ELSE {"LSHIFT", "RSHIFT", "CTRL", "ALT", "CAPS"})
  BY <1>8 DEF Known
<1>10. IsModifier <=> b.code \in Known(Decoder)
  BY <1>5, <1>9 DEF IsModifier
<1>11. ASSUME NEW f \in Flags PROVE f \in Decoder' <=> f \in AfterByte(Decoder, b)
  <2>1. f \in Decoder' <=> FlagUp(f)'
    BY DEF Decoder
  <2>2. f \in Decoder <=> FlagUp(f)
    BY DEF Decoder
  <2>3. CASE PrefixByte
    <3>1. FlagUp(f)' <=> FlagUp(f) \/ f = "E0"
      BY <2>3 DEF PrefixByte, FlagUp
    <3>2. AfterByte(Decoder, b) = Decoder \cup {"E0"}
      BY <1>5, <2>3 DEF PrefixByte, AfterByte
    <3> QED
      BY <2>1, <2>2, <3>1, <3>2
  <2>4. CASE KeyByte
    <3>1. FlagUp(f)' <=> FlagUp(f) /\ f # "E0"
      BY <2>4 DEF KeyByte, FlagUp
    <3>2. AfterByte(Decoder, b) = Decoder \ {"E0"}
      BY <1>5, <1>10, <2>4 DEF KeyByte, AfterByte
    <3> QED
      BY <2>1, <2>2, <3>1, <3>2
  <2>5. CASE ModifierByte
    <3>1. b.code # "E0" /\ b.code \in Known(Decoder)
      BY <1>9, <1>10, <2>5 DEF ModifierByte
    <3>2. b.code \in {"LSHIFT", "RSHIFT", "CTRL", "ALT", "CAPS"}
      BY <1>9, <3>1
    <3>3. AfterByte(Decoder, b) =
              IF b.code = "CAPS" /\ b.up THEN Decoder \ {"E0"}
              ELSE IF b.up \/ (b.code = "CAPS" /\ "CAPS" \in Decoder)
                   THEN Decoder \ {b.code, "E0"}
                   ELSE (Decoder \ {"E0"}) \cup {b.code}
      BY <3>1 DEF AfterByte
    <3>4. "CAPS" \in Decoder <=> caps_lock
      BY DEF Decoder, FlagUp, Flags
    <3>5. /\ left_shift' <=> IF b.code = "LSHIFT" THEN ~b.up ELSE left_shift
          /\ right_shift' <=> IF b.code = "RSHIFT" THEN ~b.up ELSE right_shift
          /\ ctrl_pressed' <=> IF b.code = "CTRL" THEN ~b.up ELSE ctrl_pressed
          /\ alt_pressed' <=> IF b.code = "ALT" THEN ~b.up ELSE alt_pressed
          /\ caps_lock' <=> (caps_lock # (b.code = "CAPS" /\ ~b.up))
          /\ ~extended'
      BY <1>5, <2>5 DEF ModifierByte
    <3>6. CASE f = "CAPS"
      <4>1. FlagUp(f)' <=> caps_lock'
        BY <3>6 DEF FlagUp
      <4> QED
        BY <1>5, <2>1, <3>2, <3>3, <3>4, <3>5, <3>6, <4>1 DEF KeysTyped
    <3>7. CASE f = "E0"
      BY <2>1, <3>1, <3>3, <3>5, <3>7 DEF FlagUp
    <3>8. CASE f \notin {"CAPS", "E0"}
      <4>1. FlagUp(f)' <=> IF b.code = f THEN ~b.up ELSE FlagUp(f)
        BY <3>5, <3>8 DEF FlagUp, Flags
      <4> QED
        BY <1>5, <2>1, <2>2, <3>2, <3>3, <3>8, <4>1
    <3> QED
      BY <3>6, <3>7, <3>8
  <2> QED
    BY <2>3, <2>4, <2>5
<1>12. Decoder \in SUBSET Flags /\ Decoder' \in SUBSET Flags
  BY DEF Decoder
<1>13. AfterByte(Decoder, b) \in SUBSET Flags
  BY <1>12, AfterByteType
<1>14. Decoder' = AfterByte(Decoder, b)
  BY <1>11, <1>12, <1>13
<1> QED
  BY <1>1, <1>4, <1>7, <1>14

\* A byte is handled: what is left still leads to the same flags.
LEMMA ByteKeeps ==
    ASSUME KeyboardInv, PrefixByte \/ ModifierByte \/ KeyByte
    PROVE  KeyboardInv'
<1>1. KeysTyped /\ wire \in Seq(Bytes)
  BY DEF KeyboardInv, KeysTyped
<1>2. /\ wire # <<>> /\ wire' = Tail(wire) /\ UNCHANGED <<held, capsOdd>>
      /\ KeysTyped' /\ Decoder' = AfterByte(Decoder, Head(wire))
  BY <1>1, DecodesByte
<1>3. PICK e \in SUBSET Flags : Leads(Decoder, wire, e) /\ Settled(e, held, capsOdd)
  BY DEF KeyboardInv, KeysAgree, Agree
<1>4. PICK d \in SUBSET Flags : d = Decoder
  BY DEF Decoder
<1>5. PICK w \in Seq(Bytes) : w = wire
  BY <1>1
<1>6. Leads(AfterByte(d, Head(w)), Tail(w), e)
  BY <1>2, <1>3, <1>4, <1>5, LeadsOn
<1>7. Leads(Decoder', wire', e)
  BY <1>2, <1>4, <1>5, <1>6
<1>8. Settled(e, held', capsOdd')
  BY <1>2, <1>3
<1> QED
  BY <1>2, <1>7, <1>8 DEF KeyboardInv, KeysAgree, Agree

\* A key moves.
LEMMA MoveOfKeyKeeps ==
    ASSUME KeyboardInv, NEW k, KeyDown(k) \/ KeyRepeats(k) \/ KeyUp(k)
    PROVE  KeyboardInv'
<1>1. /\ KeysTyped /\ wire \in Seq(Bytes) /\ capsOdd \in BOOLEAN
      /\ person \in Persons /\ held \in SUBSET person.keys
  BY DEF KeyboardInv, KeysTyped
<1>2. k \in person.keys
  BY <1>1 DEF KeyDown, KeyRepeats, KeyUp
<1>3. k \in Codes /\ k # "E0"
  <2>1. "E0" \notin person.keys
    BY <1>1, KeyboardAssumption
  <2>2. k \in KeyCodes
    BY <1>1, <1>2, Zenon DEF KeyCodes
  <2> QED
    BY <1>2, <2>1, <2>2 DEF Codes
<1>4. PICK u \in BOOLEAN : IF u THEN KeyUp(k) ELSE KeyDown(k) \/ KeyRepeats(k)
  BY Zenon
<1>5. /\ held' = Moved(held, k, u) /\ Queue(k, u) /\ UNCHANGED <<modifierVars, person>>
  BY <1>4 DEF KeyUp, KeyDown, KeyRepeats, Moved
<1>6. capsOdd' \in BOOLEAN /\ CapsMoved(capsOdd', capsOdd, k, u)
  <2>1. CASE u = TRUE
    <3>1. capsOdd' = capsOdd
      BY <1>4, <2>1 DEF KeyUp
    <3> QED
      BY <1>1, <2>1, <3>1, Zenon DEF CapsMoved
  <2>2. CASE u = FALSE
    <3>1. capsOdd' = (capsOdd # (k = "CAPS"))
      BY <1>4, <2>2 DEF KeyDown, KeyRepeats
    <3> QED
      BY <1>1, <2>2, <3>1, Zenon DEF CapsMoved
  <2> QED
    BY <2>1, <2>2
<1>7. PICK bytes \in Sends(k, u) : wire' = wire \o bytes
  BY <1>5 DEF Queue
<1>8. Agree(Decoder, wire, held, capsOdd)
  BY DEF KeyboardInv, KeysAgree
<1>9. PICK d : d = Decoder
  OBVIOUS
<1>10. PICK w \in Seq(Bytes) : w = wire
  BY <1>1
<1>11. PICK keys : keys = held
  OBVIOUS
<1>12. PICK caps \in BOOLEAN : caps = capsOdd
  BY <1>1
<1>13. PICK now \in BOOLEAN : now = capsOdd'
  BY <1>6
<1>14. CapsMoved(now, caps, k, u)
  BY <1>6, <1>12, <1>13
<1>15. Agree(d, w, keys, caps)
  BY <1>8, <1>9, <1>10, <1>11, <1>12
<1>16. w \o bytes \in Seq(Bytes) /\ Agree(d, w \o bytes, Moved(keys, k, u), now)
  BY <1>3, <1>14, <1>15, KeyLeads
<1>17. Decoder' = Decoder
  BY <1>5 DEF modifierVars, Decoder, FlagUp
<1>18. wire' = w \o bytes /\ held' = Moved(keys, k, u)
  BY <1>5, <1>7, <1>10, <1>11
<1>19. KeysAgree'
  BY <1>9, <1>13, <1>16, <1>17, <1>18 DEF KeysAgree
<1>20. held' \in SUBSET person.keys
  BY <1>1, <1>2, <1>5 DEF Moved
<1>21. KeysTyped'
  BY <1>1, <1>5, <1>6, <1>16, <1>18, <1>20 DEF KeysTyped, modifierVars
<1> QED
  BY <1>19, <1>21 DEF KeyboardInv

\* Power on and restart: no byte, no key, no flag.
LEMMA QuietKeyboard ==
    /\ KeyboardInit => KeyboardInv
    /\ KeyboardInv /\ keyboard_init => KeyboardInv'
<1>1. {} \in SUBSET Flags /\ Leads({}, <<>>, {}) /\ <<>> \in Seq(Bytes)
  BY LeadsNowhere
<1>2. Settled({}, {}, FALSE)
  BY DEF Settled
<1>3. ASSUME KeyboardInit PROVE KeyboardInv
  <2>1. KeysTyped
    BY <1>1, <1>3 DEF KeyboardInit, KeysTyped
  <2>2. Decoder = {} /\ wire = <<>> /\ held = {} /\ capsOdd = FALSE
    BY <1>3 DEF KeyboardInit, Decoder, FlagUp
  <2> QED
    BY <1>1, <1>2, <2>1, <2>2 DEF KeyboardInv, KeysAgree, Agree
<1>4. ASSUME KeyboardInv, keyboard_init PROVE KeyboardInv'
  <2>1. KeysTyped'
    BY <1>1, <1>4 DEF KeyboardInv, keyboard_init, KeysTyped
  <2>2. Decoder' = {} /\ wire' = <<>> /\ held' = {} /\ capsOdd' = FALSE
    BY <1>4 DEF keyboard_init, Decoder, FlagUp
  <2> QED
    BY <1>1, <1>2, <2>1, <2>2 DEF KeyboardInv, KeysAgree, Agree
<1> QED
  BY <1>3, <1>4

\* A step of the console that neither moves a key nor handles a byte.
LEMMA KeyboardIdle == KeyboardInv /\ UNCHANGED <<modifierVars, deviceVars>> => KeyboardInv'
<1> SUFFICES ASSUME KeyboardInv, UNCHANGED <<modifierVars, deviceVars>> PROVE KeyboardInv'
  OBVIOUS
<1>1. KeysTyped'
  BY DEF KeyboardInv, KeysTyped, modifierVars, deviceVars
<1>2. Decoder' = Decoder
  BY DEF Decoder, FlagUp, modifierVars
<1>3. wire' = wire /\ held' = held /\ capsOdd' = capsOdd
  BY DEF deviceVars
<1> QED
  BY <1>1, <1>2, <1>3 DEF KeyboardInv, KeysAgree

\* Every step of the console.
LEMMA KeyboardStep == KeyboardInv /\ [Next]_vars => KeyboardInv'
<1> SUFFICES ASSUME KeyboardInv, [Next]_vars PROVE KeyboardInv'
  OBVIOUS
<1>1. CASE UNCHANGED vars
  BY <1>1, KeyboardIdle DEF vars
<1>2. CASE KeyMoves
  BY <1>2, MoveOfKeyKeeps DEF KeyMoves
<1>3. CASE keyboard_handler
  BY <1>3, ByteKeeps DEF keyboard_handler, HandlesModifier, HandlesKey
<1>4. CASE SignupSaves
  BY <1>4, KeyboardIdle DEF SignupSaves
<1>5. CASE \E readable \in BOOLEAN : Reboots(readable)
  BY <1>5, QuietKeyboard DEF Reboots
<1> QED
  BY <1>1, <1>2, <1>3, <1>4, <1>5 DEF Next

\* With no byte left the flags are settled.
LEMMA FlagsSettled == KeyboardInv => ModifiersFollowKeys
<1> SUFFICES ASSUME KeyboardInv, wire = <<>> PROVE ModifiersFollowKeys
  BY DEF ModifiersFollowKeys
<1>1. PICK e \in SUBSET Flags : Leads(Decoder, wire, e) /\ Settled(e, held, capsOdd)
  BY DEF KeyboardInv, KeysAgree, Agree
<1>2. PICK d \in SUBSET Flags : d = Decoder
  BY DEF Decoder
<1>3. e = Decoder
  BY <1>1, <1>2, LeadsNowhere
<1>4. Settled(Decoder, held, capsOdd)
  BY <1>1, <1>3
<1>5. /\ "E0" \in Decoder <=> extended
      /\ "LSHIFT" \in Decoder <=> left_shift
      /\ "RSHIFT" \in Decoder <=> right_shift
      /\ "ALT" \in Decoder <=> alt_pressed
      /\ "CAPS" \in Decoder <=> caps_lock
      /\ "CTRL" \in Decoder <=> ctrl_pressed
  BY DEF Decoder, FlagUp, Flags
<1>6. KeysTyped
  BY DEF KeyboardInv
<1> QED
  BY <1>4, <1>5, <1>6 DEF ModifiersFollowKeys, Settled, KeysTyped

(* However keys overlap and repeat, and however far their bytes run ahead of
   keyboard_handler(): when the last byte is handled the decoder's flags are the
   keys that are down, and caps_lock is set after an odd number of make codes of
   Caps Lock, which a held key keeps sending. *)
THEOREM DecoderFollowsKeys == Spec => []ModifiersFollowKeys
<1>1. Init => KeyboardInv
  BY QuietKeyboard DEF Init
<1>2. KeyboardInv /\ [Next]_vars => KeyboardInv'
  BY KeyboardStep
<1>3. KeyboardInv => ModifiersFollowKeys
  BY FlagsSettled
<1> QED
  BY <1>1, <1>2, <1>3, PTL DEF Spec

=============================================================================
