------------------------------ MODULE Console -------------------------------
(***************************************************************************)
(* The keyboard and its three readers: the login gate, the editor nano and *)
(* the shell's command line, as keyboard.c dispatches to them.  Every byte *)
(* is handled inside its interrupt, commands and logins included; only the *)
(* two file updates of a sign-up are steps of their own, because the power *)
(* may fail between them.  The text nano edits is the subject of Nano, and *)
(* commands that touch no state of the console are all alike here.         *)
(***************************************************************************)
EXTENDS Keyboard, LineEditor, Login

\* A person has a disk, too: what users.dat holds when they first start the machine.

CONSTANTS
    LogoutLine, NanoLine,       \* the lines `logout` and `nano <file>`
    MaxBoots                    \* bound: restarts

ASSUME ConsoleAssumption ==
    /\ LogoutLine # NanoLine /\ MaxBoots \in Nat
    /\ \A p \in Persons : p.disk \in Databases \cup {Absent}

VARIABLES
    nano_active,
    boots

allLogin == <<loginVars, loginDisk, loginPast>>
vars == <<modifierVars, deviceVars, editorVars, allLogin, nano_active, boots>>

Init ==
    /\ KeyboardInit /\ EditorInit /\ LoginInit(person.disk)
    /\ nano_active = FALSE /\ boots = 0

-----------------------------------------------------------------------------
\* auth_login_active(): the gate takes characters, Enter and Backspace, and
\* drops the other keys.
LoginKey(e) ==
    \/ /\ e.kind = "character" /\ auth_keyboard_character(e.char) /\ UNCHANGED editorVars
    \/ /\ e.kind = "backspace" /\ auth_keyboard_backspace /\ UNCHANGED editorVars
    \/ /\ e.kind = "enter" /\ PromptAnswered /\ UNCHANGED editorVars
    \/ /\ e.kind = "enter" /\ LoginGranted /\ shell_init
    \/ /\ e.kind \notin {"character", "backspace", "enter"}
       /\ UNCHANGED <<allLogin, editorVars>>

ShellEdit(e) ==
    \/ e.kind = "character" /\ shell_keyboard_character(e.char)
    \/ e.kind = "backspace" /\ shell_keyboard_backspace
    \/ e.kind = "delete" /\ shell_keyboard_delete
    \/ e.kind = "left" /\ shell_keyboard_left
    \/ e.kind = "right" /\ shell_keyboard_right
    \/ e.kind = "up" /\ shell_keyboard_up
    \/ e.kind = "down" /\ shell_keyboard_down
    \/ e.kind = "home" /\ shell_keyboard_home
    \/ e.kind = "end" /\ shell_keyboard_end

shell_keyboard_enter ==
    /\ LineEntered
    /\ IF command_line = LogoutLine THEN auth_logout ELSE UNCHANGED allLogin
    /\ nano_active' = (command_line = NanoLine)

\* A key of the console reaches the reader that owns the keyboard.
dispatch(e) ==
    \/ auth_login_active /\ LoginKey(e) /\ UNCHANGED nano_active
    \/ ~auth_login_active /\ nano_active /\ UNCHANGED <<allLogin, editorVars, nano_active>>
    \/ ~auth_login_active /\ ~nano_active /\ ShellEdit(e) /\ UNCHANGED <<allLogin, nano_active>>
    \/ ~auth_login_active /\ ~nano_active /\ e.kind = "enter" /\ shell_keyboard_enter

\* nano_keyboard_ctrl(): Ctrl+X closes nano, unless it cancels a prompt.
CtrlKey ==
    /\ nano_active' \in (IF nano_active THEN BOOLEAN ELSE {FALSE})
    /\ UNCHANGED <<allLogin, editorVars>>

HandlesKey ==
    /\ KeyByte
    /\ LET e == KeyEvent IN
       \/ e.kind \notin {"none", "ctrl"} /\ dispatch(e)
       \/ e.kind = "ctrl" /\ CtrlKey
       \/ e.kind = "none" /\ UNCHANGED <<allLogin, editorVars, nano_active>>

HandlesModifier ==
    (PrefixByte \/ ModifierByte) /\ UNCHANGED <<allLogin, editorVars, nano_active>>

\* The interrupt is not taken while a sign-up is being saved.
keyboard_handler ==
    saving = "none" /\ (HandlesModifier \/ HandlesKey) /\ UNCHANGED boots

SignupSaves ==
    /\ \/ auth_db_save /\ UNCHANGED editorVars
       \/ IdentityMade /\ shell_init
    /\ UNCHANGED <<modifierVars, deviceVars, nano_active, boots>>

\* The power fails and comes back; kernel_main() runs up to auth_start().
Reboots(readable) ==
    /\ boots < MaxBoots /\ boots' = boots + 1
    /\ keyboard_init
    /\ LoginBoots(readable)
    /\ command_line' = <<>> /\ cursor_position' = 0
    /\ history' = <<>> /\ history_position' = -1
    /\ nano_active' = FALSE

KeyMoves ==
    /\ \E k \in person.keys : KeyDown(k) \/ KeyRepeats(k) \/ KeyUp(k)
    /\ UNCHANGED <<editorVars, allLogin, nano_active, boots>>

Next ==
    \/ KeyMoves \/ keyboard_handler \/ SignupSaves
    \/ \E readable \in BOOLEAN : Reboots(readable)

Spec == Init /\ [][Next]_vars

-----------------------------------------------------------------------------
\* nano is open in a session only.
NanoInv == nano_active \in BOOLEAN /\ (nano_active => logged_in)

(* While the login gate owns the keyboard no key reaches the shell or nano, as
   the comment above keyboard.c's dispatch functions asks, and a session finds
   an empty line, no history of the session before it and no open nano. *)
SessionsApart ==
    [][/\ auth_login_active /\ boots' = boots /\ ~logged_in' =>
             UNCHANGED <<editorVars, nano_active>>
       /\ ~logged_in /\ logged_in' =>
             /\ command_line' = <<>> /\ cursor_position' = 0
             /\ history' = <<>> /\ history_position' = -1 /\ ~nano_active']_vars
=============================================================================
