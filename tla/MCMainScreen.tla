------------------------------ MODULE MCMainScreen ------------------------------
(***************************************************************************)
(* Small instances of MainScreen.  Events are of one line, or of two, or   *)
(* of three in a narrow list.                                              *)
(***************************************************************************)
EXTENDS MainScreen

MCLinesAt(kind, width) == IF kind = "accepted" THEN 1 ELSE IF width < 6 THEN 3 ELSE 2

\* Graph and log side by side, in a wide list and in a long one; the log alone, with a list
\* of two lines; and of none.
MCSizes ==
    {[width |-> 12, height |-> 6], [width |-> 8, height |-> 9],
     [width |-> 4, height |-> 6], [width |-> 4, height |-> 4]}

Plan(codes, kinds, within) ==
    [lines |-> 0, bytes |-> 0, waits |-> 0, sizes |-> 0, popups |-> 3, codes |-> codes,
     kinds |-> kinds, within |-> within]

Small == {[width |-> 4, height |-> 6]}

Wide == {[width |-> 8, height |-> 6]}

Broad == {[width |-> 10, height |-> 6]}

Flat == {[width |-> 4, height |-> 4]}

\* A log that fills its history, with a list resized once; the graph, as time passes; the
\* focus, with the terminal resized; a popup over it; then the forms for users, to add and
\* to change; those for sockets; the others; and the text of an entry.
MCPlans ==
    {[Plan({"Tab", "Up", "Down", "Home"}, {}, MCSizes) EXCEPT !.lines = 4, !.sizes = 1],
     [Plan({"1", "2", "3", "g"}, {}, Broad) EXCEPT !.bytes = 2, !.waits = 3],
     [Plan({"Up", "Down", "Left", "Right", "Tab", "Esc", "Enter", "g", "q"}, {}, Small \cup Wide \cup Flat)
        EXCEPT !.lines = 1, !.sizes = 1],
     [Plan({"Down", "Tab", "Esc", "menu", "g", "y"}, {"shutdown", "close"}, Small \cup Wide)
        EXCEPT !.lines = 1, !.sizes = 1],
     Plan({"Tab", "Enter", "y"}, {"users", "add user", "message"}, Small),
     [Plan({"Tab", "Enter", "Esc", "d"}, {"users", "update user", "delete user", "message"}, Small)
        EXCEPT !.popups = 4],
     Plan({"Tab", "Down", "Left", "Enter", "Esc", "1", "n"},
          {"sockets", "add socket", "close socket", "message"}, Small),
     Plan({"Tab", "Left", "Right", "Enter", "Esc", "1", "n"},
          {"buffer size", "auth methods", "message"}, Small),
     Plan({"menu", "Tab", "Left", "Right", "Home", "End", "Backspace", "Delete", "n", "e'"},
          {"users"}, Small)}

MCLabelsOn == [u \in {1, 2, 3} |-> IF u = 1 THEN 2 ELSE 2 * u]

MCCharBytes(c) == IF c = "e'" THEN 2 ELSE 1

MCIsWord(c) == c # "n"

MCParses(e, text) == text # <<>> /\ Range(text) = {"1"}

MCTimes == {44, 45, 46, 47, 51}

=================================================================================
