----------------------------- MODULE LineEditor -----------------------------
(***************************************************************************)
(* The command line of src/shell/shell.c: the line, its cursor and the     *)
(* history the arrow keys walk through.  command_line holds the first      *)
(* command_length characters of the buffer; what lies behind them is cut   *)
(* off before anything reads it.  Positions count from 0, as in the code.  *)
(***************************************************************************)
EXTENDS Integers, SequencesExt, KeyMap

CONSTANTS
    MaxLine,            \* SHELL_MAX_LINE
    HistorySize,        \* SHELL_HISTORY_SIZE
    Unprintable         \* the characters below 32 a key may give

ASSUME LineEditorAssumption == MaxLine \in Nat \ {0} /\ HistorySize \in Nat \ {0}

VARIABLES command_line, cursor_position, history, history_position

editorVars == <<command_line, cursor_position, history, history_position>>

EditorInit ==
    /\ command_line = <<>> /\ cursor_position = 0
    /\ history = <<>> /\ history_position = -1

\* The commands of the session before stay.
shell_init_keepsHistory ==
    /\ command_line' = <<>> /\ cursor_position' = 0
    /\ history_position' = -1 /\ UNCHANGED history

shell_init ==
    /\ command_line' = <<>> /\ cursor_position' = 0
    /\ history' = <<>> /\ history_position' = -1

-----------------------------------------------------------------------------
Edited(line, cursor) ==
    /\ command_line' = line /\ cursor_position' = cursor
    /\ history_position' = -1 /\ UNCHANGED history

shell_keyboard_character(c) ==
    IF c \in Unprintable \/ Len(command_line) >= MaxLine - 1 THEN UNCHANGED editorVars
    ELSE Edited(InsertAt(command_line, cursor_position + 1, c), cursor_position + 1)

shell_keyboard_backspace ==
    IF cursor_position = 0 THEN UNCHANGED editorVars
    ELSE Edited(RemoveAt(command_line, cursor_position), cursor_position - 1)

\* Deleting the character under the cursor goes on with the walk.
shell_keyboard_delete_keepsPosition ==
    IF cursor_position >= Len(command_line) THEN UNCHANGED editorVars
    ELSE /\ command_line' = RemoveAt(command_line, cursor_position + 1)
         /\ UNCHANGED <<cursor_position, history, history_position>>

shell_keyboard_delete ==
    IF cursor_position >= Len(command_line) THEN UNCHANGED editorVars
    ELSE Edited(RemoveAt(command_line, cursor_position + 1), cursor_position)

MoveTo(position) ==
    cursor_position' = position /\ UNCHANGED <<command_line, history, history_position>>

shell_keyboard_left == MoveTo(IF cursor_position > 0 THEN cursor_position - 1 ELSE 0)
shell_keyboard_right ==
    MoveTo(IF cursor_position < Len(command_line) THEN cursor_position + 1 ELSE cursor_position)
shell_keyboard_home == MoveTo(0)
shell_keyboard_end == MoveTo(Len(command_line))

shell_load_history(position) ==
    /\ history_position' = position
    /\ command_line' = history[position + 1]
    /\ cursor_position' = Len(history[position + 1])
    /\ UNCHANGED history

shell_keyboard_up ==
    IF history = <<>> THEN UNCHANGED editorVars
    ELSE shell_load_history(
            IF history_position = -1 THEN Len(history) - 1
            ELSE IF history_position > 0 THEN history_position - 1 ELSE 0)

shell_keyboard_down ==
    IF history = <<>> \/ history_position = -1 THEN UNCHANGED editorVars
    ELSE IF history_position < Len(history) - 1 THEN shell_load_history(history_position + 1)
    ELSE Edited(<<>>, 0)

shell_save_history ==
    history' =
        IF command_line = <<>> \/ (history # <<>> /\ Last(history) = command_line)
        THEN history
        ELSE LET kept == IF Len(history) < HistorySize THEN history ELSE Tail(history)
             IN  Append(kept, command_line)

\* shell_keyboard_enter(), up to the command itself: whichever way it goes on,
\* it leaves an empty line.
LineEntered ==
    /\ shell_save_history
    /\ command_line' = <<>> /\ cursor_position' = 0 /\ history_position' = -1

-----------------------------------------------------------------------------
\* What the buffers hold: history entries were command lines once.
BufferInv ==
    /\ command_line \in Seq(Characters) /\ cursor_position \in Nat
    /\ history \in Seq(Seq(Characters)) /\ Len(history) <= HistorySize
    /\ \A i \in 1 .. Len(history) : Len(history[i]) < MaxLine
    /\ history_position \in -1 .. Len(history) - 1

(* While the arrows walk the history, the line on the screen is the entry they
   stand on; an edit ends the walk, so the next arrow starts from the newest
   command again (history_position).  The line never outgrows its buffer, and
   no entry is empty or repeats the one before it. *)
HistoryShown ==
    /\ Len(command_line) < MaxLine /\ cursor_position \in 0 .. Len(command_line)
    /\ history_position # -1 => command_line = history[history_position + 1]
    /\ \A i \in 1 .. Len(history) :
          /\ history[i] # <<>>
          /\ i > 1 => history[i] # history[i - 1]
=============================================================================
