----------------------------- MODULE MCConsole ------------------------------
(* Instances of Console for TLC: one person types in each behaviour. *)
EXTENDS Console

Person(keys, atOnce, ahead, disk) ==
    [keys |-> keys, atOnce |-> atOnce, ahead |-> ahead, disk |-> disk]

OneAccount ==
    [count |-> 1, users |-> [s \in Slots |->
        IF s = 1 THEN [username |-> <<"a">>, password |-> <<"1">>] ELSE None]]

Modifiers == {"LSHIFT", "RSHIFT", "CTRL", "RCTRL", "ALT", "CAPS"}

MCPersons ==
    {Person({"A", "ENTER", "BACK"}, 1, 0, Absent),
     Person({"A", "ONE", "ENTER", "UP", "DOWN", "HOME", "END", "LEFT", "RIGHT", "BACK", "DEL"},
            1, 0, OneAccount),
     Person({"A", "CTRL", "ALT", "ENTER", "TAB", "ESC"}, 2, 0, Absent),
     Person({"A", "ENTER", "LEFT"}, 1, 3, Absent),
     Person(Modifiers \cup {"A", "RALT"}, 3, 0, Absent),
     Person({"A", "ONE", "LSHIFT", "LEFT"}, 2, 2, Absent)}

MCUnprintable == {"tab", "escape"}
MCLogout == <<"a", "a">>
MCNano == <<"a">>
=============================================================================
