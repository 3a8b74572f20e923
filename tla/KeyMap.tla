------------------------------- MODULE KeyMap -------------------------------
(* The characters a key can give, by the tables of src/kernel/keyboard.c. *)

\* The two key maps, reduced to a letter, a digit, Escape and the numeric pad.
keyboard_map ==
    [A |-> "a", ONE |-> "1", ESC |-> "escape", KP4 |-> "4", KP6 |-> "6", KP8 |-> "8",
     KP2 |-> "2", KPDOT |-> ".", KP7 |-> "7", KP1 |-> "1"]
keyboard_shift_map == [keyboard_map EXCEPT !.A = "A", !.ONE = "!"]

Characters ==
    {"tab"} \cup {keyboard_map[c] : c \in DOMAIN keyboard_map}
            \cup {keyboard_shift_map[c] : c \in DOMAIN keyboard_shift_map}
=============================================================================
