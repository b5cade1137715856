------------------------- MODULE MainScreenInvariant ---------------------------
(***************************************************************************)
(* What is always so of the terminal interface, in four inductive          *)
(* invariants, for the proofs of MainScreenProofs.                         *)
(*                                                                         *)
(* IInv is for the focus, the forms and the entries. It says of every      *)
(* popup that it is good: its fields have their types, its focus is in one *)
(* place, and it can be closed, is closing or waits for the server. It     *)
(* says of the stack that the kinds of its popups go up level by level,    *)
(* and that nothing is over a popup that waits, or on its way. And it says *)
(* of the interface under them that the focus is nowhere, in the menu bar  *)
(* or on an element that the layout shows, and that the list of the log    *)
(* has as many items as there are events.                                  *)
(*                                                                         *)
(* LinesInv and TrackerInv, inductive given IInv, are for what is kept     *)
(* between renders. The lines kept are those of events in a row, in the    *)
(* order of the history as it is now, at the width of now: what the search *)
(* of a render keeps, drops and adds depends on their being next to each   *)
(* other. And what the graph has is what was recorded in its seconds and   *)
(* in its units; the units start at a multiple of their length and end     *)
(* with the unit of the last second; there are none only when the unit is  *)
(* a second; and the history has no more room than at first unless a time  *)
(* far ahead was given.                                                    *)
(*                                                                         *)
(* GraphInv, inductive given IInv and TrackerInv, is for the graph on the  *)
(* screen. The labels of its axis are of multiples in a row, the last of   *)
(* which the axis knows: what a render drops and adds at either end        *)
(* depends on that. And between a draw and the next change, which asks for *)
(* a redraw, what is on the screen is what the tracker and the axis have,  *)
(* in the unit that is selected.                                           *)
(***************************************************************************)
EXTENDS MainScreen

--------------------------------------------------------------------------------
(***************************************************************************)
(* The interface under the popups, the popups, and the parts of them.      *)
(***************************************************************************)

\* The codes of the keys of any plan.
Codes == UNION {p.codes : p \in Plans}

\* Both indices of a cursor.
Cursors == [bytes : Nat, chars : Nat]

\* A text entry.
Entries == [text : Seq(Codes), length : Nat, cursor : Cursors \cup {NoCursor}]

\* A list that keeps these lines between renders.
ListsOf(cache) ==
    [count : Nat, cache : {cache}, selected : Nat \cup {NoIndex}, width : Nat, height : Nat]

\* The list of a popup keeps none.
Lists == ListsOf(<<>>)

\* The popups that ask for confirmation, those with a form, and those with a list.
ConfirmKinds == {"close", "shutdown", "delete user", "close socket"}

FormKinds == {"buffer size", "add socket", "add user", "update user"}

ListKinds == {"users", "sockets", "auth methods"}

Kinds == ConfirmKinds \cup FormKinds \cup ListKinds \cup {"message"}

\* What else may show the focus.
Lamps == {"ok", "role", "family", "add", "delete"}

\* A popup of a kind, field by field.
PopupOf(kind) ==
    [kind : {kind}, cell : BOOLEAN, at : Nat, lit : SUBSET Lamps, side : {"none", "left", "right"},
     selecting : BOOLEAN, option : {1, 2}, entries : [EntriesOf(kind) -> Entries],
     list : Lists, loading : BOOLEAN, changed : BOOLEAN, shown : BOOLEAN, closable : BOOLEAN,
     busy : BOOLEAN, task : {"none", "request", "farewell", "beep"}, closing : BOOLEAN]

\* The popup waits for the server.
Out(p) == p.task \in {"request", "farewell"}

\* A popup can be closed unless it is closing or waits for the server; as it waits its entries take
\* no key, or its buttons are gone; and only the buttons of one that waits, or closes, are gone.
PopupForm(p) ==
    /\ p.closable \/ p.closing \/ Out(p)
    /\ Out(p) => ~p.closable /\ (p.busy \/ (p.kind \in ConfirmKinds /\ ~p.shown))
    /\ p.task = "request" => ~p.closing /\ p.kind # "message"
    /\ p.shown \/ (~p.closable /\ p.kind \in ConfirmKinds \cup FormKinds)

\* An entry whose cursors agree.
EntryGood(entry) == entry \in Entries /\ EntryCoherent(entry)

\* A popup that is typed, has its form, and has its focus in one place.
PopupGood(p) ==
    /\ p.kind \in Kinds /\ p \in PopupOf(p.kind)
    /\ p.at \in 1 .. Len(Column(p.kind))
    /\ \A e \in EntriesOf(p.kind) : EntryGood(p.entries[e])
    /\ PopupForm(p) /\ PopupFocusTrue(p)

\* How far up a popup may be on the stack.
Level(kind) ==
    CASE kind \in {"close", "shutdown", "buffer size"} \cup ListKinds -> 1
      [] kind \in {"add user", "update user", "add socket", "close socket"} -> 2
      [] kind = "delete user" -> 3
      [] kind = "message" -> 4

\* Which popups may be under which others.
Under(below, above) == Level(below) < Level(above)

\* The popup has the focus.
HasFocus(p) == p.cell

\* Nothing may come over a popup that waits for the server, or whose buttons are gone.
Alone(p) == Out(p) \/ ~p.shown

\* A popup at an index of a stack of n, with those that come.
Placed(p, i, n, c) ==
    PopupGood(p) /\ (i < n => ~HasFocus(p)) /\ (Alone(p) => i = n /\ c = <<>>)

\* Every popup is good, and further up than those under it; and so is what comes.
Ordered(s, c) ==
    /\ \A i \in 1 .. Len(s) : Placed(s[i], i, Len(s), c)
    /\ \A i, j \in 1 .. Len(s) : i < j => Under(s[i].kind, s[j].kind)
    /\ c \in Seq(Kinds) /\ Len(c) <= 1
    /\ \A i \in 1 .. Len(s), j \in 1 .. Len(c) : Under(s[i].kind, c[j])

\* The sizes of areas, and the layouts.
Area == [width : Nat, height : Nat]

Modes == {"full", "logs", "expanded"}

\* The interface under the popups, field by field.
UiOf(cache) ==
    [list : ListsOf(cache), cell : BOOLEAN, split : {"menu", "main"}, item : Nat, main : BOOLEAN,
     element : Elements, lit : SUBSET {"expand", "precision"}, selecting : BOOLEAN,
     expanded : BOOLEAN, unit : Units]

\* What is selected is an item.
SelectsItem(list) == list.selected # NoIndex => list.selected < list.count

\* Its type; what is selected in its list is an item.
UiTyped(u) == u \in UiOf(u.list.cache) /\ SelectsItem(u.list)

\* What shows that it has the focus.
HoldersOf(u) ==
    u.lit \cup (IF u.list.selected = NoIndex THEN {} ELSE {"log"})
          \cup (IF u.item = 0 THEN {} ELSE {"menu"})

\* The first four parts of FocusTrue; but a selector may only be selecting in the main view.
UiFocused(u, mode) ==
    /\ HoldersOf(u) = IF ~u.cell THEN {} ELSE IF u.split = "menu" THEN {"menu"} ELSE {u.element}
    /\ u.main <=> u.cell /\ u.split = "main"
    /\ u.main => u.element \in VisibleIn(mode)
    /\ u.selecting => u.main /\ u.element = "precision"

\* An interface that is typed and has the focus in one place.
UiGood(u, mode) == UiTyped(u) /\ UiFocused(u, mode)

\* What is left is part of a plan.
PlanInv ==
    \E p \in Plans : left \in [lines : Nat, bytes : Nat, waits : Nat, sizes : Nat, popups : Nat,
                               codes : {p.codes}, kinds : SUBSET STRING, within : SUBSET Area]

\* The list of the log has as many items as there are events.
HistoryInv ==
    /\ history \in Seq([id : Nat, kind : EventKinds]) /\ Len(history) <= MaxEvents
    /\ ui.list.count = Len(history)

\* The terminal and the layout have their types.
AreasInv == terminal \in Area /\ layout \in [mode : Modes, log : Area, graph : BOOLEAN]

\* With a popup, nothing in the interface under it has the focus.
UiInv == UiGood(ui, layout.mode) /\ (stack # <<>> => ~ui.cell)

--------------------------------------------------------------------------------
(***************************************************************************)
(* The stack of popups, and all of it.                                     *)
(***************************************************************************)

\* Every popup there may be.
Every == UNION {PopupOf(k) : k \in Kinds}

\* A stack of popups, with those that come.
StackGood(s, c) == s \in Seq(Every) /\ Ordered(s, c)

\* The inductive invariant.  That no popup is on the stack twice needs the order of the kinds on it, as
\* a popup is sent without a look at the stack; that the focus can be taken from the popup on top as
\* another comes needs that it does not wait and its buttons are shown; and that a popup that waits
\* stays on top needs that nothing was on its way as it sent its request.
IInv ==
    /\ PlanInv /\ HistoryInv /\ AreasInv
    /\ UiInv
    /\ StackGood(stack, coming)

--------------------------------------------------------------------------------
(***************************************************************************)
(* The lines of the log.                                                   *)
(***************************************************************************)

\* The lines of an item, in a list of some width.
LineAt(h, i, width) == [index |-> i, made |-> h[i + 1].id, lines |-> LinesAt(h[i + 1].kind, width)]

\* The lines of any items.
LinesIn(h, width) == {LineAt(h, i, width) : i \in Nat}

\* Those of n items in a row, from one on.
InARow(s, h, width, b, n) ==
    /\ s \in Seq(LinesIn(h, width)) /\ Len(s) = n
    /\ \A i \in 1 .. n : s[i] = LineAt(h, b + i - 1, width)

\* What is kept is of items in a row.
KeptIn(cache, h, width) ==
    \E b \in Nat : \E n \in Nat : b + n <= Len(h) /\ InARow(cache, h, width, b, n)

\* The lines kept are those of events in a row, as they are now, at the width of now.
LinesInv == KeptIn(ui.list.cache, history, ui.list.width)

--------------------------------------------------------------------------------
(***************************************************************************)
(* The usage and its graph.                                                *)
(***************************************************************************)

\* The sum of a function over a set, as the graph and its check take it.
SumOver(f, S) == FoldSet(LAMBDA i, n : n + f[i], 0, S)

\* What a function has at an integer, with nothing outside of its domain.
AtOf(f, D, t) == IF t \in D THEN f[t] ELSE 0

\* The sum of what it has in a stretch of n, from a on.
Stretch(f, D, a, n) == SumOver(f, D \cap (a .. a + n - 1))

\* The seconds from a start on are what was recorded in them, and nothing was after them.
SecondsTrue(start, seconds, f) ==
    /\ start \in Nat /\ seconds \in Seq(Nat) /\ Len(seconds) > 0
    /\ \A i \in 1 .. Len(seconds) : seconds[i] = AtOf(f, Times, start + i - 1)
    /\ \A t \in Times : t >= start + Len(seconds) => f[t] = 0

\* The sums by units, up to the unit of the second before the end, are of what was recorded
\* in each unit that is in the history from its first second on.
UnitsTrue(start, end, units, unitStart, unit, f) ==
    /\ unit \in Nat \ {0} /\ units \in Seq(Nat) /\ start \in Nat /\ end \in Nat /\ start < end
    /\ \E q \in Nat : unitStart = q * unit /\ unitStart <= start /\ q + Len(units) = (end - 1) \div unit + 1
    /\ \A j \in 1 .. Len(units) :
          unitStart + (j - 1) * unit >= start => units[j] = Stretch(f, Times, unitStart + (j - 1) * unit, unit)

\* What a tracker is made of.
Trackers == [start : Nat, seconds : Seq(Nat), capacity : Nat \ {0}, unitStart : Nat, units : Seq(Nat),
             unit : Units]

\* What a tracker has is what was recorded.
TrackerTrue(t, f) ==
    /\ t \in Trackers /\ f \in [Times -> Nat] /\ Len(t.seconds) <= t.capacity
    /\ SecondsTrue(t.start, t.seconds, f)
    /\ t.units = <<>> => t.unit = 1
    /\ t.units # <<>> => UnitsTrue(t.start, t.start + Len(t.seconds), t.units, t.unitStart, t.unit, f)

\* What the graph has is what it was given; unless it was given a time far ahead, it has no
\* more room than at first, and ends no later than the server's clock may be.
TrackerInv ==
    /\ TrackerTrue(tracker, recorded) /\ now \in Times /\ gapped \in BOOLEAN
    /\ ~gapped => tracker.capacity = MaxHistory /\ tracker.start + Len(tracker.seconds) <= now + 2

\* Labels of an axis.
LabelsOf == [time : Int, unit : Units]

\* The label n places before the last, whose time is given.
LabelBefore(last, n, on, unit) == Label(last - n * on, unit)

\* The labels of n times next to each other, up to the last.
LabelRow(s, n, last, on, unit) ==
    /\ s \in Seq(LabelsOf) /\ Len(s) = n
    /\ \A i \in 1 .. n : s[i] = LabelBefore(last, n - i, on, unit)

\* The labels of an axis are of times next to each other, multiples of what there is one label on.
AxisTrue(a) ==
    /\ a.unit \in Units /\ a.latest \in Int /\ \E q \in Int : a.latest = q * LabelsOn[a.unit]
    /\ a = [unit |-> a.unit, latest |-> a.latest, labels |-> a.labels]
    /\ LabelRow(a.labels, Len(a.labels), a.latest, LabelsOn[a.unit], a.unit)

\* An axis that ends with a time has labels, the last of them for it.
AxisEnds(a, unit, latest) == AxisTrue(a) /\ a.unit = unit /\ a.latest = latest /\ a.labels # <<>>

\* What the screen shows of the usage is what the tracker has in the unit selected, and the axis
\* ends where the tracker does.
GraphDrawn(unit) ==
    /\ screen.unit = unit /\ tracker.unit = unit
    /\ screen.usage = UsageShown(tracker) /\ screen.labels = axis.labels
    /\ AxisEnds(axis, unit, Floor(LatestTimestamp(tracker), LabelsOn[unit]))

\* The labels kept are those of an axis, and the graph is drawn as it is when no redraw is asked for.
GraphInv ==
    /\ AxisTrue(axis)
    /\ ~dirty /\ ~IsEmpty(terminal) /\ layout.graph => GraphDrawn(ui.unit)

================================================================================
