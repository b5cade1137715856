-------------------------------- MODULE LongList --------------------------------
(***************************************************************************)
(* elements/long_list.rs: a list of items of one or more lines each, which *)
(* keeps the lines of the items in view only, between one render and the   *)
(* next.  Indices are from 0, as in the code.                              *)
(*                                                                         *)
(* The lines of an item are made, and thrown away, together: an entry of   *)
(* the cache stands for all of them, and says what it was made from.       *)
(***************************************************************************)
EXTENDS Integers, Sequences, FiniteSets, SequencesExt, FiniteSetsExt

CONSTANTS
    SelectLast,     \* select_last_first
    Deselect,       \* deselect_on_remove
    ShiftAmount,    \* KEY_SHIFT_SCROLL_AMOUNT
    NoIndex         \* None, as an index

ASSUME LongListAssumption ==
    /\ SelectLast \in BOOLEAN /\ Deselect \in BOOLEAN
    /\ ShiftAmount \in Nat \ {0} /\ NoIndex \notin Int

\* A list: item_count, lines, selected_index and current_area.
EmptyList == [count |-> 0, cache |-> <<>>, selected |-> NoIndex, width |-> 0, height |-> 0]

Minus(a, b) == IF a > b THEN a - b ELSE 0

\* selection_start_index
StartIndex(list) ==
    IF list.count = 0 THEN NoIndex ELSE IF SelectLast THEN list.count - 1 ELSE 0

\* Mutation of ItemRemoved: the items after it keep their indices.
ItemRemovedInPlace(list, index) ==
    [list EXCEPT !.count = Minus(@, 1),
                 !.cache = SelectSeq(@, LAMBDA e : e.index # index),
                 !.selected = IF list.count <= 1 \/ (Deselect /\ @ = index) THEN NoIndex ELSE @]

\* The item is taken out of the cache, if it is there.
ItemRemoved(list, index) ==
    LET at == {i \in DOMAIN list.cache : list.cache[i].index = index}
        kept == IF at = {} THEN list.cache ELSE RemoveAt(list.cache, Min(at))
        n == Minus(list.count, 1)
    IN  [list EXCEPT !.count = n,
                     !.cache = [i \in 1 .. Len(kept) |->
                                  IF kept[i].index > index THEN [kept[i] EXCEPT !.index = @ - 1]
                                  ELSE kept[i]],
                     !.selected = IF @ = NoIndex \/ n = 0 \/ (Deselect /\ @ = index) THEN NoIndex
                                  ELSE IF @ >= index THEN Minus(@, 1) ELSE @]

\* Items beyond the count are popped from the back of the cache.
ItemCountSet(list, n) ==
    IF list.count = n THEN list
    ELSE [list EXCEPT !.count = n,
                      !.cache = SubSeq(@, 1, Max({0} \cup {i \in DOMAIN @ : @[i].index < n})),
                      !.selected = IF @ = NoIndex \/ n = 0 THEN NoIndex ELSE Min({@, n - 1})]

\* The lines depend on the width.
ListResized(list, width, height) ==
    [list EXCEPT !.width = width, !.height = height,
                 !.cache = IF list.width = width /\ list.height = height THEN @ ELSE <<>>]

--------------------------------------------------------------------------------
(***************************************************************************)
(* Keys, and the wheel of the mouse.  A key is handled, or not, or it asks *)
(* for the focus to be passed in a direction.                              *)
(***************************************************************************)

Directions == {"up", "down", "left", "right", "forward", "away"}

DirectionOf ==
    [Up |-> "up", Down |-> "down", Left |-> "left", Right |-> "right", Tab |-> "forward",
     Esc |-> "away"]

Amount(list, key) ==
    (IF key.shift THEN ShiftAmount ELSE 1)
        * (IF key.code \in {"PageUp", "PageDown"} THEN Minus(list.height, 2) ELSE 1)

SelectionMoved(list, key) ==
    IF list.selected = NoIndex THEN StartIndex(list)
    ELSE IF key.code \in {"Up", "PageUp", "ScrollUp"} THEN Minus(list.selected, Amount(list, key))
    ELSE Min({list.selected + Amount(list, key), Minus(list.count, 1)})

\* The end of the list in the direction of an arrow.
AtEnd(list, code) ==
    IF list.selected = NoIndex THEN list.count = 0
    ELSE list.count = 0 \/ list.selected = (IF code = "Up" THEN 0 ELSE list.count - 1)

\* A focused list handles a key: what becomes of the list, and the status.
ListKey(list, key) ==
    LET passed(d) == [list |-> list, status |-> d]
        moved == [list |-> [list EXCEPT !.selected = SelectionMoved(list, key)],
                  status |-> "handled"]
        end == [list |-> [list EXCEPT !.selected =
                            IF list.count = 0 THEN NoIndex
                            ELSE IF key.code = "Home" THEN 0 ELSE list.count - 1],
                status |-> "handled"]
    IN  CASE key.code \in {"Left", "Right", "Tab", "Esc"} -> passed(DirectionOf[key.code])
          [] key.code \in {"Up", "Down"} ->
                IF key.ctrl \/ AtEnd(list, key.code) THEN passed(DirectionOf[key.code]) ELSE moved
          [] key.code \in {"PageUp", "PageDown", "ScrollUp", "ScrollDown"} -> moved
          [] key.code \in {"Home", "End"} -> end
          [] OTHER -> passed("unhandled")

ListTakesFocus(list) == list.count # 0

ListFocused(list) == [list EXCEPT !.selected = StartIndex(list)]

ListUnfocused(list) == [list EXCEPT !.selected = NoIndex]

--------------------------------------------------------------------------------
(***************************************************************************)
(* process_lines: which lines to draw around the item in the center, with  *)
(* the lines at hand used again.  made[index] is the entry made from the   *)
(* item now at an index, get_item_lines.                                   *)
(***************************************************************************)

Extent(cache) == FoldLeft(LAMBDA n, e : n + e.lines, 0, cache)

\* The search for the window begins with the item in the center, alone if its
\* lines are not at hand: lo and hi are its first and last entries in use, below
\* and above the lines wanted on each side.
Centered(list, center, height, made) ==
    LET found == {i \in 1 .. Len(list.cache) : list.cache[i].index = center}
        cache == IF found = {} THEN <<made[center]>> ELSE list.cache
        at == IF found = {} THEN 1 ELSE Min(found)
        more == Minus(height, cache[at].lines)
    IN  [cache |-> cache, lo |-> at, hi |-> at, low |-> center, high |-> center + 1,
         below |-> more \div 2, above |-> (more + 1) \div 2]

\* One more item on the side that needs more lines, or else what that side lacks
\* is handed to the other.
Widened(s, count, made) ==
    IF ~((s.below > 0 \/ s.above > 0) /\ (s.low > 0 \/ s.high < count)) THEN s
    ELSE IF s.above < s.below
    THEN IF s.low = 0 THEN [s EXCEPT !.above = @ + s.below, !.below = 0]
         ELSE IF s.lo = 1
         THEN LET e == made[s.low - 1]
              IN  [s EXCEPT !.low = @ - 1, !.cache = <<e>> \o @, !.hi = @ + 1,
                            !.below = @ - e.lines]
         ELSE [s EXCEPT !.low = @ - 1, !.lo = @ - 1, !.below = @ - s.cache[s.lo - 1].lines]
    ELSE IF s.high = count THEN [s EXCEPT !.below = @ + s.above, !.above = 0]
         ELSE IF s.hi = Len(s.cache)
         THEN LET e == made[s.high]
              IN  [s EXCEPT !.high = @ + 1, !.cache = Append(@, e), !.hi = @ + 1,
                            !.above = @ - e.lines]
         ELSE [s EXCEPT !.high = @ + 1, !.hi = @ + 1, !.above = @ - s.cache[s.hi + 1].lines]

\* The loop: every turn takes an item, or hands over, which each side does once.
Widest(list, center, height, made) ==
    LET turn[n \in 0 .. list.count + 2] ==
            IF n = 0 THEN Centered(list, center, height, made)
            ELSE Widened(turn[n - 1], list.count, made)
    IN  turn[list.count + 2]

LinesOf(cache) ==
    FlattenSeq([i \in 1 .. Len(cache) |->
                  [n \in 1 .. cache[i].lines |->
                     [index |-> cache[i].index, made |-> cache[i].made, line |-> n - 1]]])

\* Mutation of Numbered: the count begins anew in an item that is shown in part.
NumberedAnew(lines, skip) ==
    [i \in 1 .. Len(lines) |->
        [index |-> lines[i].index, made |-> lines[i].made, line |-> lines[i].line,
         number |-> Cardinality({j \in 1 .. i - 1 : lines[j].index = lines[i].index})]]

\* Lines are counted, for modify_line_to_selected, as they are drawn: from what is
\* skipped of the first item, and from 0 for every other.
Numbered(lines, skip) ==
    [i \in 1 .. Len(lines) |->
        [index |-> lines[i].index, made |-> lines[i].made, line |-> lines[i].line,
         number |-> (IF lines[i].index = lines[1].index THEN skip ELSE 0)
                    + Cardinality({j \in 1 .. i - 1 : lines[j].index = lines[i].index})]]

\* The lines kept, and those drawn, numbered within their items.
Processed(list, center, height, made) ==
    IF list.count = 0 \/ height = 0 THEN [cache |-> list.cache, drawn |-> <<>>]
    ELSE LET s == Widest(list, center, height, made)
             cache == SubSeq(s.cache, s.lo, s.hi)
             lines == LinesOf(cache)
             skip == Minus(0, s.below)
         IN  [cache |-> cache,
              drawn |-> Numbered(SubSeq(lines, skip + 1, Min({Len(lines), skip + height})), skip)]

CenterIndex(list) ==
    IF list.selected # NoIndex THEN list.selected
    ELSE IF list.count # 0 THEN StartIndex(list) ELSE 0

\* render: inside of the border.
ListRendered(list, made) ==
    Processed(list, CenterIndex(list), Minus(list.height, 2), made)

\* After the lines are drawn the code takes the first of them, if there seem to
\* be enough, and divides by the number of items less one to draw a scrollbar.
RenderPanics(list, rendered) ==
    LET height == Minus(list.height, 2)
        lines == Extent(rendered.cache)
    IN  /\ lines >= height
        /\ \/ rendered.cache = <<>>
           \/ list.count = 1 /\ lines > height

--------------------------------------------------------------------------------
\* What a list shows of its items, given how many lines each has: lines next to each
\* other, as many as there are or fit, with those of the item in the center, all that fit.
\* Unless this is to hold fully, there may be less, if they begin within the first item
\* and end with the last.
IsWindow(drawn, lines, center, height, fully) ==
    LET all == FlattenSeq([i \in 1 .. Len(lines) |->
                             [n \in 1 .. lines[i] |-> [index |-> i - 1, line |-> n - 1]]])
        shown == [i \in 1 .. Len(drawn) |-> [index |-> drawn[i].index, line |-> drawn[i].line]]
        wanted == Min({height, Len(all)})
    IN  /\ \A i \in 1 .. Len(drawn) : drawn[i].number = drawn[i].line
        /\ \E from \in 0 .. Len(all) - Len(shown) :
              /\ shown = SubSeq(all, from + 1, from + Len(shown))
              /\ \/ Len(shown) = wanted
                 \/ ~fully /\ Len(shown) < wanted /\ from < lines[1] /\ Len(shown) = Len(all) - from
        /\ Len(lines) # 0 =>
              \A n \in 0 .. Min({height, lines[center + 1]}) - 1 :
                  \E i \in 1 .. Len(shown) : shown[i] = [index |-> center, line |-> n]

=================================================================================
