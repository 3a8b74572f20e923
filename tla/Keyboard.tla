------------------------------ MODULE Keyboard ------------------------------
(***************************************************************************)
(* The scancode decoder of src/kernel/keyboard.c and the keyboard it       *)
(* listens to. A key sends one or more bytes when it goes down, again and  *)
(* again while it is held, and when it comes up; each byte is an interrupt *)
(* of its own. A byte is the prefix E0, or a code with the release bit; a  *)
(* code is named after the key that sends it without the prefix.           *)
(***************************************************************************)
EXTENDS Naturals, Sequences, FiniteSets, KeyMap

CONSTANT
    Persons             \* who may be typing, and the bounds on what they do: the
                        \* keys they use, how many they hold down at a time, how
                        \* many bytes may be waiting when they move a key

\* E0 is a prefix: no key sends it as its code.
ASSUME KeyboardAssumption ==
    \A p \in Persons : p.atOnce \in Nat /\ p.ahead \in Nat /\ "E0" \notin p.keys

VARIABLES
    left_shift, right_shift, caps_lock, ctrl_pressed, alt_pressed, extended,
    person,             \* who is typing in this behaviour
    held,               \* the keys that are down
    wire,               \* the bytes on their way to keyboard_handler()
    capsOdd             \* history: Caps Lock sent its make code an odd number of times

modifierVars == <<left_shift, right_shift, caps_lock, ctrl_pressed, alt_pressed, extended>>
deviceVars == <<person, held, wire, capsOdd>>

KeyboardInit ==
    /\ left_shift = FALSE /\ right_shift = FALSE /\ caps_lock = FALSE
    /\ ctrl_pressed = FALSE /\ alt_pressed = FALSE /\ extended = FALSE
    /\ person \in Persons /\ held = {} /\ wire = <<>> /\ capsOdd = FALSE

\* keyboard_init() at a restart; the keys held before it have been let go.
keyboard_init ==
    /\ left_shift' = FALSE /\ right_shift' = FALSE /\ caps_lock' = FALSE
    /\ ctrl_pressed' = FALSE /\ alt_pressed' = FALSE /\ extended' = FALSE
    /\ held' = {} /\ wire' = <<>> /\ capsOdd' = FALSE /\ UNCHANGED person

-----------------------------------------------------------------------------
(* The keyboard.  A grey key shares its code with a key of the numeric pad or
   with its left-hand twin, and may come wrapped in a prefixed shift code. *)
GreyCode ==
    [LEFT |-> "KP4", RIGHT |-> "KP6", UP |-> "KP8", DOWN |-> "KP2", DEL |-> "KPDOT",
     HOME |-> "KP7", END |-> "KP1", RCTRL |-> "CTRL", RALT |-> "ALT"]
Byte(code, up) == [code |-> code, up |-> up]
Prefix == Byte("E0", FALSE)

Sends(k, up) ==
    IF k \notin DOMAIN GreyCode THEN {<<Byte(k, up)>>}
    ELSE LET key == <<Prefix, Byte(GreyCode[k], up)>>
             wrap == <<Prefix, Byte("LSHIFT", up)>>
         IN  {key, IF up THEN key \o wrap ELSE wrap \o key}

Queue(k, up) ==
    \E bytes \in Sends(k, up) :
        Len(wire) <= person.ahead /\ wire' = wire \o bytes

KeyDown(k) ==
    /\ k \in person.keys \ held /\ Cardinality(held) < person.atOnce
    /\ held' = held \cup {k}
    /\ Queue(k, FALSE)
    /\ capsOdd' = (capsOdd # (k = "CAPS"))
    /\ UNCHANGED <<modifierVars, person>>

\* A held key repeats: its make code comes again.  A keyboard repeats the key
\* that went down last; here any key that is down may.
KeyRepeats(k) ==
    /\ k \in held
    /\ Queue(k, FALSE)
    /\ capsOdd' = (capsOdd # (k = "CAPS"))
    /\ UNCHANGED <<modifierVars, person, held>>

KeyUp(k) ==
    /\ k \in held
    /\ held' = held \ {k}
    /\ Queue(k, TRUE)
    /\ UNCHANGED <<modifierVars, person, capsOdd>>

-----------------------------------------------------------------------------
(* keyboard_handler(): one byte. *)
code == Head(wire).code
up == Head(wire).up

TakesByte ==
    /\ wire # <<>>
    /\ wire' = Tail(wire)
    /\ UNCHANGED <<person, held, capsOdd>>

PrefixByte ==
    /\ TakesByte /\ code = "E0"
    /\ extended' = TRUE
    /\ UNCHANGED <<left_shift, right_shift, caps_lock, ctrl_pressed, alt_pressed>>

\* Only Ctrl has a prefixed twin the decoder knows.
IsModifier ==
    code \in IF extended THEN {"CTRL"} ELSE {"LSHIFT", "RSHIFT", "CTRL", "ALT", "CAPS"}

ModifierByte ==
    /\ TakesByte /\ IsModifier
    /\ left_shift' = IF code = "LSHIFT" THEN ~up ELSE left_shift
    /\ right_shift' = IF code = "RSHIFT" THEN ~up ELSE right_shift
    /\ ctrl_pressed' = IF code = "CTRL" THEN ~up ELSE ctrl_pressed
    /\ alt_pressed' = IF code = "ALT" THEN ~up ELSE alt_pressed
    /\ caps_lock' = (caps_lock # (code = "CAPS" /\ ~up))
    /\ extended' = FALSE

is_letter(c) == c = "A"
shift_active == left_shift \/ right_shift
apply_case(c) ==
    IF (IF is_letter(c) THEN shift_active # caps_lock ELSE shift_active)
    THEN keyboard_shift_map[c] ELSE keyboard_map[c]

NoEvent == [kind |-> "none"]
Event(kind) == [kind |-> kind]
Typed(c) == [kind |-> "character", char |-> c]
GreyEvent ==
    [KP4 |-> "left", KP6 |-> "right", KP8 |-> "up", KP2 |-> "down", KPDOT |-> "delete",
     KP7 |-> "home", KP1 |-> "end"]

\* What a byte that is neither the prefix nor a modifier asks for.
KeyEvent ==
    IF up THEN NoEvent
    ELSE IF extended THEN IF code \in DOMAIN GreyEvent THEN Event(GreyEvent[code]) ELSE NoEvent
    ELSE IF ctrl_pressed THEN IF is_letter(code) THEN Event("ctrl") ELSE NoEvent
    ELSE IF code = "ENTER" THEN Event("enter")
    ELSE IF code = "BACK" THEN Event("backspace")
    ELSE IF code = "TAB" THEN Typed("tab")
    ELSE IF alt_pressed THEN NoEvent
    ELSE IF code \in DOMAIN keyboard_map THEN Typed(apply_case(code))
    ELSE NoEvent

\* The prefix is forgotten only by a key that goes down.
KeyByte_upKeepsPrefix ==
    /\ TakesByte /\ code # "E0" /\ ~IsModifier
    /\ extended' = (extended /\ up)
    /\ UNCHANGED <<left_shift, right_shift, caps_lock, ctrl_pressed, alt_pressed>>

KeyByte ==
    /\ TakesByte /\ code # "E0" /\ ~IsModifier
    /\ extended' = FALSE
    /\ UNCHANGED <<left_shift, right_shift, caps_lock, ctrl_pressed, alt_pressed>>

(* Once every byte is handled, the decoder's flags are the keys that are down:
   no Shift or Alt sticks or drops out, whatever prefixed codes went by and
   however often held keys repeat, Ctrl is not taken for held when neither Ctrl
   key is, and caps_lock has turned once for each make code of Caps Lock,
   repeated ones included (keyboard_handler()). *)
ModifiersFollowKeys ==
    wire = <<>> =>
        /\ ~extended
        /\ left_shift = ("LSHIFT" \in held)
        /\ right_shift = ("RSHIFT" \in held)
        /\ alt_pressed = ("ALT" \in held)
        /\ caps_lock = capsOdd
        /\ ctrl_pressed => held \cap {"CTRL", "RCTRL"} # {}
=============================================================================
