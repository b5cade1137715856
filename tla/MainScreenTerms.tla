--------------------------- MODULE MainScreenTerms -----------------------------
(***************************************************************************)
(* The terms in which the lemmas of MainScreenProofs speak of the terminal *)
(* interface, from the bottom up. They are of two kinds: what is so of a   *)
(* part of it between two steps of an operator, as it is not yet good, or  *)
(* better than good; and names for what an operator puts together, so that *)
(* a lemma can speak of it.                                                *)
(***************************************************************************)
EXTENDS MainScreenInvariant

--------------------------------------------------------------------------------
(* Steps, and their folds. *)

\* A function that takes a value and an element to the next value.
IsStep(step, S, E) == step \in [S \X E -> S]

\* A step taken.
Applied(step, x, e) == step[<<x, e>>]

\* The values a step goes through along a sequence.
IsFold(f, S, base, step, seq) ==
    /\ f \in [0 .. Len(seq) -> S] /\ f[0] = base
    /\ \A n \in 1 .. Len(seq) : f[n] = step[<<f[n - 1], seq[n]>>]

\* The last of them.
Fold(S, base, step, seq) == (CHOOSE f : IsFold(f, S, base, step, seq))[Len(seq)]

\* A function that takes the step as long as it stays among the values.
GoesBy(h, S, base, step, seq) ==
    /\ h[0] = base
    /\ \A n \in 1 .. Len(seq) : h[n - 1] \in S => h[n] = step[<<h[n - 1], seq[n]>>]

--------------------------------------------------------------------------------
(* Text entries. *)

\* An entry with its cursor between two texts.
At(before, after) ==
    [text |-> before \o after, length |-> Len(before) + Len(after),
     cursor |-> [bytes |-> Bytes(before), chars |-> Len(before)]]

\* What EntryParts says, of two texts.
Parted(entry, before, after) ==
    /\ entry \in Entries /\ entry.cursor \in Cursors
    /\ entry.text \in Seq(Codes) /\ Len(entry.text) \in Nat
    /\ entry.length = Len(entry.text) /\ entry.length <= MaxChars
    /\ before \in Seq(Codes) /\ after \in Seq(Codes)
    /\ Len(before) = entry.cursor.chars /\ Len(before) \in Nat
    /\ Len(after) = Len(entry.text) - Len(before) /\ Len(after) \in Nat
    /\ entry.text = before \o after
    /\ entry.cursor = [bytes |-> Bytes(before), chars |-> Len(before)]

\* An entry with a cursor, field by field.
IsEntry(e) ==
    e = [text |-> e.text, length |-> e.length,
         cursor |-> [bytes |-> e.cursor.bytes, chars |-> e.cursor.chars]]

\* The cursor of an entry put forward.
Forward(e, bytes, chars) == [e EXCEPT !.cursor.bytes = @ + bytes, !.cursor.chars = @ + chars]

\* The text behind the cursor cut, and the text put anew.
CutBehind(e, n, k, after) == [e EXCEPT !.text = SubSeq(@, 1, n - k) \o after, !.length = @ - k]

\* The same entry with another text after the cursor.
PutAnew(e, text, k) == [e EXCEPT !.text = text, !.length = @ - k]

\* The numbers of a drawing.
Drawing(M, c, L, w, h, end, over, top, from, before, room, m, after, fits) ==
    /\ M \in Nat /\ c \in Nat /\ L \in Nat /\ c <= L /\ L <= M
    /\ w \in Nat /\ w >= 2 /\ h \in Nat /\ (h = w - h \/ h = w - h + 1)
    /\ end \in Int /\ end = IF c < h THEN w ELSE c + w - h
    /\ over \in Int /\ over = IF end > L THEN end - L ELSE 0
    /\ top \in Int /\ top = IF c < h THEN 0 ELSE c - h
    /\ from \in Int /\ from = IF top - over < 0 THEN 0 ELSE top - over
    /\ before \in Int /\ before = IF c - from < 0 THEN 0 ELSE c - from
    /\ room \in Int /\ room = IF c # M /\ before = w THEN before - 1 ELSE before
    /\ m \in Int /\ m = IF end - over - c < 0 THEN 0 ELSE end - over - c
    /\ after \in Int /\ after = IF m <= L - c THEN m ELSE L - c
    /\ fits \in Int /\ fits = IF c = L /\ L # M THEN w - 1 ELSE w

--------------------------------------------------------------------------------
(* Popups. *)

\* The elements of a sequence, and of a column.
ElementsIn(s) == {s[i] : i \in 1 .. Len(s)}

\* The elements of the column of a popup.
InColumn(kind) == ElementsIn(Column(kind))

\* What a key does not change as it passes the focus.
SameForm(q, p) ==
    /\ q.kind = p.kind /\ q.shown = p.shown /\ q.closable = p.closable /\ q.busy = p.busy
    /\ q.task = p.task /\ q.closing = p.closing

\* What it does not change as the popup does something.
SameFocus(q, p) ==
    /\ q.kind = p.kind /\ q.cell = p.cell /\ q.at = p.at /\ q.lit = p.lit /\ q.side = p.side
    /\ q.selecting = p.selecting /\ q.entries = p.entries /\ q.list = p.list

\* The fields have their types.
PopupTyped(p) ==
    /\ p.kind \in Kinds /\ p \in PopupOf(p.kind)
    /\ p.at \in 1 .. Len(Column(p.kind))
    /\ \A e \in EntriesOf(p.kind) : EntryGood(p.entries[e])

\* Nothing shows that it has the focus.
Blank(p) ==
    /\ PopupTyped(p)
    /\ p.lit = {} /\ p.side = "none" /\ ~p.selecting /\ p.list.selected = NoIndex
    /\ \A e \in EntriesOf(p.kind) : p.entries[e].cursor = NoCursor

\* A popup with a part of it replaced.
WithCell(p, at, cell) == [p EXCEPT !.at = at, !.cell = cell]

\* One entry replaced.
WithEntry(p, e, v) == [p EXCEPT !.entries[e] = v]

\* The side of the buttons replaced.
WithSide(p, side) == [p EXCEPT !.side = side]

\* The lamps replaced.
WithLit(p, lit, selecting) == [p EXCEPT !.lit = lit, !.selecting = selecting]

\* One lamp lit.
WithLamp(p, lit) == [p EXCEPT !.lit = lit]

\* The list replaced.
WithList(p, list) == [p EXCEPT !.list = list]

\* The focus may be taken away from where it is: the buttons take it away from
\* themselves only as long as they show.
Movable(p) == p.shown \/ ElementAt(p, p.at) \notin {"buttons", "delete"}

\* A popup whose user can still do everything with it.
Free(p) == PopupGood(p) /\ p.shown /\ p.closable /\ ~p.busy /\ ~p.closing /\ ~Out(p)

\* What a key may make of a popup: the same one, as good, that sends one further up at most,
\* and none while it has a request out or its buttons do not show.
ResultGood(r, p) ==
    /\ PopupGood(r.popup) /\ r.popup.kind = p.kind
    /\ r.sent # <<>> => /\ \E k \in Kinds : r.sent = <<k>> /\ Under(p.kind, k)
                        /\ ~Out(r.popup) /\ r.popup.shown

\* Only the kind of the popup matters.
Reaction(q, p) == PopupGood(q) /\ q.kind = p.kind

\* A popup sends another.
Sends(r, q, k) == r.popup = q /\ r.sent = <<k>>

\* Where a moved selection goes.
Moved(x, s, a, n) == x = Minus(s, a) \/ x = Min({s + a, Minus(n, 1)})

\* The element keys go to.
FocusAt(p, e) == HasFocus(p) /\ e = ElementAt(p, p.at)

--------------------------------------------------------------------------------
(* The interface under the popups. *)

\* Nothing shows that it has the focus.
Bare(u) == UiTyped(u) /\ HoldersOf(u) = {} /\ ~u.selecting

\* Nothing in the main view does.
Quiet(u) == UiTyped(u) /\ u.lit = {} /\ u.list.selected = NoIndex /\ ~u.selecting

\* Only one element does.
Holds(u, e) == UiTyped(u) /\ HoldersOf(u) = {e} /\ (u.selecting => e = "precision")

\* What does not change as the focus is passed.
SameUi(v, u) ==
    v.list.count = u.list.count /\ v.list.cache = u.list.cache /\ v.list.width = u.list.width

\* The interface with a part of it replaced.
UiList(u, list) == [u EXCEPT !.list = list]

\* Its lamps, and whether a selector is selecting.
UiLit(u, lit, selecting) == [u EXCEPT !.lit = lit, !.selecting = selecting]

\* Where it says that the focus is.
UiPlace(u, cell, split, item, main, element) ==
    [u EXCEPT !.cell = cell, !.split = split, !.item = item, !.main = main, !.element = element]

\* The focus is nowhere.
Off(u) == Bare(u) /\ ~u.cell /\ ~u.main

\* The focus is in the menu bar.
InMenu(u) ==
    /\ UiTyped(u) /\ HoldersOf(u) = {"menu"} /\ ~u.selecting
    /\ u.cell /\ u.split = "menu" /\ ~u.main

\* The focus is in the main view.
InMain(u, mode) ==
    /\ Holds(u, u.element) /\ u.cell /\ u.split = "main" /\ u.main
    /\ u.element \in VisibleIn(mode) /\ u.element \in Elements

\* The focus is somewhere, and not in the main view.
Ready(u) == Bare(u) /\ u.cell /\ ~u.main

\* Who has the focus has it.
Celled(u) == [u EXCEPT !.cell = TRUE]

\* What is next to an element, in a direction.
Beyond(mode, d, e) == {n[3] : n \in {m \in Neighbours(mode) : m[1] = d /\ m[2] = e}}

\* A step between two elements: both are visible, and not both are the log.
Fits(mode, n) == n[3] \in VisibleIn(mode) /\ (n[2] = "log" => n[3] # "log")

\* Where the focus goes in a direction from an element.
NextOf(u, mode, d, e) ==
    LET first == Beyond(mode, d, e)
    IN  IF first = {} THEN {} ELSE
        LET f == CHOOSE x \in first : TRUE IN IF Takes(u, f) THEN {f} ELSE Beyond(mode, d, f)

\* The interface with the focus on another element.
OnElement(u, e) == [u EXCEPT !.element = e]

\* What does not have to do with the focus, replaced.
UiRest(u, expanded, unit) == [u EXCEPT !.expanded = expanded, !.unit = unit]

\* The focus is the same.
SameWay(v, u) ==
    /\ UiTyped(v) /\ v.list = u.list /\ v.lit = u.lit /\ v.item = u.item
    /\ v.cell = u.cell /\ v.split = u.split /\ v.main = u.main /\ v.element = u.element
    /\ v.selecting = u.selecting

\* A key in the main view, before the focus is passed.
Stays(r, u, mode) ==
    InMain(r.ui, mode) /\ SameUi(r.ui, u) /\ r.status \in Directions \cup {"handled", "unhandled"}

\* The selector starts or ends to select.
SelectingUi(u, b) == [u EXCEPT !.selecting = b]

\* What a key leaves when the screen takes it.
Answers(r, u, mode) ==
    /\ UiGood(r.ui, mode) /\ SameUi(r.ui, u)
    /\ r.status \in Directions \cup {"handled", "unhandled", "popup"}

\* What the element with the focus makes of a key.
ElementKey(u, key) ==
    LET onLog == ListKey(u.list, key)
    IN  CASE u.element = "log" ->
               [ui |-> [u EXCEPT !.list = onLog.list], status |-> onLog.status]
          [] u.element = "expand" -> ButtonKey(u, key)
          [] u.element = "precision" -> SelectorKey(u, key)

\* The focus on another label of the menu bar.
OnItem(u, item) == [u EXCEPT !.item = item]

\* The focus enters the main view.
EnterMain(v) == [v EXCEPT !.item = 0, !.split = "main"]

\* What a key may do to the interface.
Leaves(v, u) == UiGood(v, layout.mode) /\ SameUi(v, u)

--------------------------------------------------------------------------------
(* The list of the log. *)

\* A list with other items.
PutItems(list, count, cache, selected) ==
    [list EXCEPT !.count = count, !.cache = cache, !.selected = selected]

\* What is kept of items fewer than n.
StillCounted(cache, n) == SubSeq(cache, 1, Max({0} \cup {i \in DOMAIN cache : cache[i].index < n}))

\* Indices one less.
MovedDown(s) ==
    [i \in 1 .. Len(s) |-> IF s[i].index > 0 THEN [s[i] EXCEPT !.index = @ - 1] ELSE s[i]]

\* What is kept when the first item goes.
WithoutFirst(cache) ==
    LET at == {i \in DOMAIN cache : cache[i].index = 0}
        kept == IF at = {} THEN cache ELSE RemoveAt(cache, Min(at))
    IN  MovedDown(kept)

\* Where the selection is once an event has come to a history of n.
SelectedAfter(k, n) == IF n < MaxEvents THEN k ELSE Minus(k, 1)

\* The history with one event more.
Longer(n) == IF n < MaxEvents THEN n + 1 ELSE MaxEvents

\* What is kept after that.
LoggedCache(cache, n) ==
    IF n < MaxEvents THEN StillCounted(cache, n + 1) ELSE StillCounted(WithoutFirst(cache), MaxEvents)

\* A list of which only what is kept, and its size, is another.
Resized(q, list) ==
    /\ q \in ListsOf(q.cache) /\ q.count = list.count /\ q.selected = list.selected

\* It keeps what it kept, at the same width, or nothing.
KeepsOrDrops(q, list) == q.cache = <<>> \/ (q.cache = list.cache /\ q.width = list.width)

\* The interface with such a list.
SameElse(v, u, mode) == UiGood(v, mode) /\ v.cell = u.cell

--------------------------------------------------------------------------------
(* Drawing. *)

\* The layouts there are.
Layouts == [mode : Modes, log : Area, graph : BOOLEAN]

\* What a draw goes by, named as in Draw: the terminal has another size.
DrawResized == terminal # area

\* The button that expands was pressed since the last draw.
DrawTurned == ~DrawResized /\ ~IsEmpty(terminal) /\ ui.expanded # (layout.mode = "expanded")

\* The layout it leaves.
DrawLayout == IF DrawResized \/ DrawTurned THEN LayoutOf(terminal, ui.expanded) ELSE layout

\* The interface with its list resized.
DrawSized ==
    IF (DrawResized \/ DrawTurned) /\ ~IsEmpty(DrawLayout.log)
    THEN [ui EXCEPT !.list = ListResized(@, DrawLayout.log.width, DrawLayout.log.height)]
    ELSE ui

\* And the focus moved to what is visible.
DrawFocused ==
    IF DrawResized \/ DrawTurned THEN Refocused(DrawSized, DrawLayout.mode) ELSE DrawSized

\* The lines that it makes.
DrawMade == [i \in 0 .. DrawFocused.list.count - 1 |-> EntryOf(i, DrawFocused.list.width)]

\* What it leaves of the interface.
DrawUi ==
    IF ~IsEmpty(terminal) /\ ~IsEmpty(DrawLayout.log)
    THEN [DrawFocused EXCEPT !.list.cache = ListRendered(DrawFocused.list, DrawMade).cache]
    ELSE DrawFocused

--------------------------------------------------------------------------------
(* Popups that change, and the stack. *)

\* The popup changes in nothing that has a part in the focus, or the form.
SameState(q, p) == Reaction(q, p) /\ q.cell = p.cell /\ q.shown = p.shown /\ q.task = p.task

\* How many items a list has now, and which of them may be selected.
Counts(p) ==
    IF p.kind = "auth methods" /\ p.list.count # 0 THEN {p.list.count} ELSE 0 .. MaxListed

\* And which of them may be selected.
Selections(p, n) ==
    IF p.kind = "auth methods" \/ p.list.selected = NoIndex THEN {p.list.selected}
    ELSE {NoIndex} \cup 0 .. n - 1

\* What a popup is under another one.
Covered(q, p) == PopupGood(q) /\ q.kind = p.kind /\ ~HasFocus(q) /\ ~Alone(q)

\* Under a popup that comes, nothing has the focus.
Under1(s) == [i \in 1 .. Len(s) |-> IF i = Len(s) THEN PopupUnfocused(s[i]) ELSE s[i]]

\* The interface with popups over it, or none.
Covering(u, s) == UiGood(u, layout.mode) /\ (s # <<>> => ~u.cell)

--------------------------------------------------------------------------------
(* The actions. *)

\* What is left of a plan.
PlanOf(p) ==
    [lines : Nat, bytes : Nat, waits : Nat, sizes : Nat, popups : Nat,
     codes : {p.codes}, kinds : SUBSET STRING, within : SUBSET Area]

\* An action takes one from what is left.
Less ==
    \/ left.lines > 0 /\ left' = [left EXCEPT !.lines = @ - 1]
    \/ left.bytes > 0 /\ left' = [left EXCEPT !.bytes = @ - 1]
    \/ left.waits > 0 /\ left' = [left EXCEPT !.waits = @ - 1]
    \/ left.sizes > 0 /\ left' = [left EXCEPT !.sizes = @ - 1]
    \/ left.popups > 0 /\ left' = [left EXCEPT !.popups = @ - 1]

\* What a task leaves of its popup.
Follows(q, p) == Reaction(q, p) /\ q.cell = p.cell /\ (Alone(q) => Alone(p))

\* The popups and the interface under them, with a layout.
Drawn(s, c, u, m) == StackGood(s, c) /\ UiGood(u, m) /\ (s # <<>> => ~u.cell)

\* The task of a popup.
TaskStep == Answered \/ BeepEnds \/ ListLoads \/ ListChanges

\* What is left of the log as an event comes.
Roomy(s) == IF Len(s) < MaxEvents THEN s ELSE Tail(s)

\* What has nothing to do with the focus.
OtherStep == BytesEvent \/ Ticker \/ TimePasses

--------------------------------------------------------------------------------
(* What the theorems say of a popup. *)

\* The kinds on the stack.
KindsOn(s) == [i \in 1 .. Len(s) |-> s[i].kind]

\* What FormsTrue says of each popup.
FormTrue(p, i, n, c) ==
    /\ p.task = "request" => i = n /\ c = <<>> /\ ~p.closing
    /\ p.closable \/ p.closing \/ p.task \in {"request", "farewell"}
    /\ p.task \in {"request", "farewell"} => ~p.closable
    /\ p.shown \/ ~p.closable

--------------------------------------------------------------------------------
(* Lines in a row, and the search for those to draw. *)

\* A part of them, of m items from c on.
PartOf(r, s, b, n, lo, hi, c, m) ==
    r = SubSeq(s, lo, hi) /\ 1 <= lo /\ lo <= hi + 1 /\ hi <= n /\ c = b + lo - 1 /\ m = hi - lo + 1

\* A sum, named.
Plus(a, b, c) == c = a + b

\* The entries in use, and the items they are of.
Spans(lo, hi, low, high, b, n) == 1 <= lo /\ lo <= hi /\ hi <= n /\ low = b + lo - 1 /\ high = b + hi

\* The search for what to draw.
Search(cache, lo, hi, low, high, below, above) ==
    [cache |-> cache, lo |-> lo, hi |-> hi, low |-> low, high |-> high, below |-> below, above |-> above]

\* The only one with these fields.
Searches(cache, lo, hi, low, high, below, above) ==
    [cache : {cache}, lo : {lo}, hi : {hi}, low : {low}, high : {high}, below : {below}, above : {above}]

\* It has items in a row at hand, and uses some of them.
Searching(s, h, width) ==
    /\ s = Search(s.cache, s.lo, s.hi, s.low, s.high, s.below, s.above)
    /\ s.lo \in Nat /\ s.hi \in Nat /\ s.low \in Nat /\ s.high \in Nat
    /\ \E b \in Nat : \E n \in Nat :
          b + n <= Len(h) /\ InARow(s.cache, h, width, b, n) /\ Spans(s.lo, s.hi, s.low, s.high, b, n)

\* The lines that are made.
MadeOf(h, width) == [i \in 0 .. Len(h) - 1 |-> LineAt(h, i, width)]

\* The turns of the loop, one after the other.
TurnsOf(list, center, height, made, N, f) ==
    f = [n \in 0 .. N |-> IF n = 0 THEN Centered(list, center, height, made)
                          ELSE Widened(f[n - 1], list.count, made)]

--------------------------------------------------------------------------------
(* Sums. *)

\* The element a fold takes first.
FirstOf(s) == CHOOSE x \in s : TRUE

\* The sums over the subsets of a set, by the elements taken first.
SumsTo(g, f, S) ==
    g = [s \in SUBSET S |-> IF s = {} THEN 0 ELSE g[s \ {FirstOf(s)}] + f[FirstOf(s)]]

\* Two stretches have the same in them.
SameIn(f, D, a, g, E, b, n) == \A i \in 0 .. n - 1 : AtOf(f, D, a + i) = AtOf(g, E, b + i)

\* A function with something more at a place.
MoreAt(f, e, x) == [f EXCEPT ![e] = @ + x]

--------------------------------------------------------------------------------
(* The seconds and the units of a tracker. *)

\* The doublings of a capacity.
Doubling(f, capacity, N) == f = [k \in 0 .. N |-> IF k = 0 THEN capacity ELSE Max({4, 2 * f[k - 1]})]

\* How many are left of some that lose the first n.
Left(length, n) == IF n <= length THEN length - n ELSE 0

\* A sequence of numbers that loses its first n, and gets k zeros at its end.
Slid(seq, n, k, s, rest) ==
    /\ seq \in Seq(Nat) /\ n \in Nat /\ k \in Nat
    /\ s = DropFirst(seq, n) \o Zeros(k) /\ rest = Left(Len(seq), n)

\* A record of usage, with the seconds it adds and those it drops.
Shift(start, length, capacity, time, fresh, remove) ==
    /\ start \in Nat /\ length \in Nat \ {0} /\ capacity \in Nat \ {0} /\ length <= capacity
    /\ time \in Nat /\ time >= start
    /\ fresh = IF time - start < length THEN 0 ELSE time - start + 1 - length
    /\ remove = Max({0, length + fresh - capacity})

\* What there is then: what is left, from when on, and how long it is.
Shifted(start, length, fresh, remove, rest, from, m) ==
    rest = Left(length, remove) /\ from = start + remove /\ m = rest + fresh

\* The seconds as they are moved, and when they are from then.
Sliding(seconds, start, fresh, remove, s, from) ==
    s = DropFirst(seconds, remove) \o Zeros(fresh) /\ from = start + remove

\* The units that go when the history starts later, and how many there are then to its
\* new end.
Dropping(unit, q, s, len, end, from, e, drop, s2, n) ==
    /\ unit \in Nat \ {0} /\ q \in Nat /\ s = q * unit /\ s <= from /\ from \in Nat
    /\ len \in Nat /\ end \in Nat \ {0} /\ q + len = (end - 1) \div unit + 1
    /\ e \in Nat /\ e > from /\ e >= end
    /\ drop = IF from <= s + unit THEN 0 ELSE (from - s - 1) \div unit
    /\ s2 = s + drop * unit /\ n = (Ceiling(e, unit) - s2) \div unit

\* The units as they are moved on to a later start and end.
Moving(units, unitStart, unit, from, e, drop, s2, rest, n, moved) ==
    /\ drop = IF from <= unitStart + unit THEN 0 ELSE (from - unitStart - 1) \div unit
    /\ s2 = unitStart + drop * unit /\ rest = DropFirst(units, drop)
    /\ n = (Ceiling(e, unit) - s2) \div unit
    /\ moved = rest \o Zeros(IF n > Len(rest) THEN n - Len(rest) ELSE 0)

\* The index of the unit a time is in.
AtUnit(unitStart, unit, time) == (time - unitStart) \div unit + 1

\* The seconds summed up again.
Summed(start, seconds, unit, unitStart, n, units) ==
    /\ unitStart = Floor(start, unit)
    /\ n = (Ceiling(start + Len(seconds), unit) - unitStart) \div unit
    /\ units = [j \in 1 .. n |->
                  FoldSet(LAMBDA i, s : s + seconds[i], 0,
                          {i \in 1 .. Len(seconds) : (start + i - 1 - unitStart) \div unit = j - 1})]

\* The indices of the seconds that are so many units after the first.
SecondsIn(start, seconds, unitStart, unit, h) ==
    {i \in 1 .. Len(seconds) : (start + i - 1 - unitStart) \div unit = h}

\* The units of a tracker are set.
UnitsSet(t, unit, unitStart, units, u) ==
    u = [t EXCEPT !.unit = unit, !.unitStart = unitStart, !.units = units]

\* The seconds of a tracker are set.
SecondsSet(t, start, seconds, capacity, u) ==
    u = [t EXCEPT !.start = start, !.seconds = seconds, !.capacity = capacity]

--------------------------------------------------------------------------------
(* Labels, and the unit of the interface. *)

\* A time, some multiples before another.
Back(last, m, on) == last - m * on

\* Those left without the first a and the last b.
LabelsLeft(r, s, a, b) == a \in Nat /\ b \in Nat /\ r = SubSeq(s, a + 1, Len(s) - b)

\* More of them, before the first and after the last.
LabelsAdded(older, first, s, newer, last, on, unit) ==
    [i \in 1 .. older |-> Label(first - (older + 1 - i) * on, unit)]
        \o s \o [i \in 1 .. newer |-> Label(last + i * on, unit)]

\* A time is a multiple.
Multiple(t, on) == \E q \in Int : t = q * on

\* An interface that has a unit, which is this one.
OfUnit(u, unit) == "unit" \in DOMAIN u /\ u.unit = unit

================================================================================
