------------------------------- MODULE MainScreen -------------------------------
(***************************************************************************)
(* The screen of the terminal interface under its popups: the menu bar and *)
(* the main view, with the list of the log's events, the graph of usage,   *)
(* its precision, and the button that expands it.  Events come from the    *)
(* server, keys from the user, time passes and the terminal is resized; the *)
(* main loop draws when something has asked for it.                        *)
(***************************************************************************)
EXTENDS Popups, UsageTracker

CONSTANTS
    MaxEvents,      \* MAXIMUM_EVENT_HISTORY_LENGTH
    LinesAt(_, _),  \* the lines of an event of a kind in a list of some width
    MinRightWidth,  \* MIN_RIGHT_AREA_WIDTH
    MinFullHeight,  \* the least height with the graph, usage_graph::MIN_HEIGHT + 3
    MinGraphHeight, \* the least height a graph can be drawn in, and the lines above it
    VerticalLabelsWidth, \* usage_graph::VERTICAL_LABELS_AREA_WIDTH
    MenuItems,      \* the number of labels of the menu bar
    Plans,          \* the keys the user may press, and the popups there may be; the sizes
                    \* the main view may get, with those of the terminal; and how often
                    \* everything else may happen
    Times,          \* the seconds of this behaviour
    StartClients    \* the client connections there are as we start

ASSUME MainScreenAssumption ==
    /\ MaxEvents \in Nat \ {0, 1} /\ MenuItems \in Nat \ {0, 1}
    /\ SelectLast /\ ~Deselect     \* what LogBlock::new makes its list with
    /\ \A p \in Plans : \A c \in p.codes : CharBytes(c) \in 1 .. 4
    /\ MinRightWidth \in Nat /\ MinFullHeight \in Nat /\ MinGraphHeight \in Nat
    /\ VerticalLabelsWidth \in Nat /\ VerticalLabelsWidth + 2 <= MinRightWidth
    /\ Plans \subseteq [lines : Nat, bytes : Nat, waits : Nat, sizes : Nat, popups : Nat,
                        codes : SUBSET STRING, kinds : SUBSET STRING,
                        within : SUBSET [width : Nat, height : Nat]]
    /\ Times \subseteq Nat /\ Times # {} /\ StartClients \in Nat
    /\ \A t \in Times, p \in Plans : \A s \in p.within :
            t > s.width * Max(Units) + Max({LabelsOn[u] : u \in Units})

VARIABLES
    left,           \* what of the plan is left
    history,        \* event_history
    metrics,        \* the metrics display
    tracker,        \* the usage tracker
    axis,           \* the axis under the graph
    ui,             \* the elements that take the focus, and what they control
    area,           \* UIManager's current_area, of the main view
    layout,         \* layout_mode, and the areas of the log and of the graph
    label,          \* what the button that expands and returns says
    terminal,       \* the size of the terminal
    now,            \* the clock
    stack,          \* the popups, the last on top
    coming,         \* those sent to the UIManager, by kind
    dirty,          \* redraw_notify
    crashed,        \* whether the program has panicked
    screen,         \* what was drawn last
    recorded,       \* the bytes of each second, as they were given to the graph
    gapped          \* whether the graph was given a time far ahead of its latest

vars == <<left, history, metrics, tracker, axis, ui, area, layout, label, terminal, now, stack,
          coming, dirty, crashed, screen, recorded, gapped>>

EventKinds == {"accepted", "finished"}

Elements == {"log", "expand", "precision"}

NoArea == [width |-> 0, height |-> 0]

IsEmpty(a) == a.width = 0 \/ a.height = 0

NoScreen == [log |-> <<>>, usage |-> <<>>, unit |-> 1, labels |-> <<>>]

\* The start of the interface: nothing has the focus, nothing is laid out.
Init ==
    /\ left \in Plans /\ terminal \in left.within /\ now = Min(Times)
    /\ history = <<>> /\ metrics = [current |-> StartClients, historic |-> StartClients, bytes |-> 0]
    /\ tracker = NewTracker(now) /\ axis = NewAxis
    /\ ui = [list |-> EmptyList, cell |-> FALSE, split |-> "menu", item |-> 0, main |-> FALSE,
             element |-> "log", lit |-> {}, selecting |-> FALSE, expanded |-> FALSE, unit |-> 1]
    /\ area = NoArea /\ layout = [mode |-> "full", log |-> NoArea, graph |-> FALSE]
    /\ label = "expand" /\ stack = <<>> /\ coming = <<>> /\ dirty = TRUE /\ crashed = FALSE /\ screen = NoScreen
    /\ recorded = [t \in Times |-> 0] /\ gapped = FALSE

--------------------------------------------------------------------------------
(***************************************************************************)
(* The main view's areas.                                                  *)
(***************************************************************************)

\* The width of what is beside the log.
RightWidth(size) == Minus(size.width - (size.width + 1) \div 2, 1)

\* distribute_areas and distribute_areas_expanded
LayoutOf(size, expanded) ==
    LET half == (size.width + 1) \div 2
        under == [width |-> size.width, height |-> Minus(size.height, 2)]
    IN  CASE expanded ->
                [mode |-> "expanded", log |-> NoArea,
                 graph |-> size.height >= MinGraphHeight /\ size.width >= VerticalLabelsWidth + 4]
          [] ~expanded /\ IsEmpty(size) -> [mode |-> "full", log |-> NoArea, graph |-> FALSE]
          [] OTHER ->
                IF RightWidth(size) < MinRightWidth \/ size.height < MinFullHeight
                THEN [mode |-> "logs", log |-> under, graph |-> FALSE]
                ELSE [mode |-> "full", log |-> [width |-> half, height |-> size.height],
                      graph |-> TRUE]

\* The units of time there is room for along the axis, in the area of the graph: it is
\* half of the main view's, or all of it but a column on each side.
AxisLength(size, mode) ==
    (IF mode = "expanded" THEN size.width - 2 ELSE RightWidth(size)) - (VerticalLabelsWidth + 2)

VisibleIn(mode) ==
    CASE mode = "full" -> Elements
      [] mode = "logs" -> {"log", "expand"}
      [] mode = "expanded" -> {"expand", "precision"}

\* FocusedElement's up, down, left, right and forward: a direction, where the
\* focus is, and where it goes.
Neighbours(mode) ==
    CASE mode = "full" ->
            {<<"up", "precision", "expand">>, <<"down", "expand", "precision">>,
             <<"left", "expand", "log">>, <<"left", "precision", "log">>,
             <<"right", "log", "precision">>,
             <<"forward", "log", "expand">>, <<"forward", "expand", "precision">>}
      [] mode = "logs" ->
            {<<"up", "log", "expand">>, <<"up", "precision", "expand">>,
             <<"down", "expand", "log">>, <<"down", "precision", "log">>,
             <<"forward", "expand", "log">>, <<"forward", "precision", "log">>}
      [] mode = "expanded" ->
            {<<"left", "precision", "expand">>, <<"right", "expand", "precision">>,
             <<"forward", "expand", "precision">>}

--------------------------------------------------------------------------------
(***************************************************************************)
(* The focus.  Only a list without items does not take it.                 *)
(***************************************************************************)

Takes(u, e) == e = "log" => ListTakesFocus(u.list)

Given(u, e) ==
    IF e = "log" THEN [u EXCEPT !.list = ListFocused(@)]
    ELSE [u EXCEPT !.lit = @ \cup {e}]

\* A selector that loses the focus is not selecting any more.
Taken(u, e) ==
    IF e = "log" THEN [u EXCEPT !.list = ListUnfocused(@)]
    ELSE [u EXCEPT !.lit = @ \ {e}, !.selecting = @ /\ e # "precision"]

\* MainView::receive_focus and focus_lost.
MainGiven(u, e) == [Given(u, e) EXCEPT !.main = TRUE, !.element = e]

MainTaken(u) == [Taken(u, u.element) EXCEPT !.main = FALSE]

MenuGiven(u, item) == [u EXCEPT !.split = "menu", !.item = item]

\* FocusCell::focus_lost, with those of the split, the menu bar and the main view.
AllTaken(u) ==
    IF ~u.cell THEN u
    ELSE [(IF u.split = "menu" THEN [u EXCEPT !.item = 0] ELSE MainTaken(u)) EXCEPT !.cell = FALSE]

\* Mutation of Passed: the element the focus comes from is not told.
PassedOver(u, mode, direction) ==
    LET to(e) == {n[3] : n \in {m \in Neighbours(mode) : m[1] = direction /\ m[2] = e}}
        first == to(u.element)
        next == IF first = {} THEN {} ELSE
                LET e == CHOOSE x \in first : TRUE IN IF Takes(u, e) THEN {e} ELSE to(e)
    IN  IF next = {} THEN [ui |-> u, status |-> direction]
        ELSE LET e == CHOOSE x \in next : TRUE
             IN  [ui |-> [Given(u, e) EXCEPT !.element = e], status |-> "handled"]

\* The main view passes the focus to the next element in the direction, past one that
\* does not take it, or else out of the main view.
Passed(u, mode, direction) ==
    LET to(e) == {n[3] : n \in {m \in Neighbours(mode) : m[1] = direction /\ m[2] = e}}
        first == to(u.element)
        next == IF first = {} THEN {} ELSE
                LET e == CHOOSE x \in first : TRUE IN IF Takes(u, e) THEN {e} ELSE to(e)
    IN  IF next = {} THEN [ui |-> u, status |-> direction]
        ELSE LET e == CHOOSE x \in next : TRUE
             IN  [ui |-> [Given(Taken(u, u.element), e) EXCEPT !.element = e],
                  status |-> "handled"]

\* Where the focus may come in from the menu bar: it depends on the label it was on.
Entrances(u, mode) ==
    CASE mode = "full" -> {e \in {"log", "expand"} : Takes(u, e)}
      [] mode = "logs" -> {"expand"}
      [] mode = "expanded" -> {"expand", "precision"}

\* The focus, given at the origin when its element was laid out away.
AtOrigin(u, mode) == IF mode = "full" /\ Takes(u, "log") THEN "log" ELSE "expand"

--------------------------------------------------------------------------------
(***************************************************************************)
(* Keys.                                                                   *)
(***************************************************************************)

UnitOf(code) == {u \in Units : ToString(u) = code}

Shortcut == IF label = "expand" THEN "g" ELSE "q"

Toggled(u) == [u EXCEPT !.expanded = ~@]

\* Characters are for whoever has them as a shortcut, with the focus or without.
Shortcuts(u, code) ==
    IF code = Shortcut THEN [ui |-> Toggled(u), status |-> "handled"]
    ELSE IF UnitOf(code) \ {u.unit} # {}
    THEN [ui |-> [u EXCEPT !.unit = CHOOSE x \in UnitOf(code) : TRUE], status |-> "handled"]
    ELSE [ui |-> u, status |-> "unhandled"]

\* The units next to one, in the order of the options.
UnitBeside(unit, code) ==
    LET beside == IF code = "Left" THEN {x \in Units : x < unit} ELSE {x \in Units : x > unit}
    IN  IF beside = {} THEN unit ELSE IF code = "Left" THEN Max(beside) ELSE Min(beside)

ButtonKey(u, key) ==
    CASE key.code = "Enter" -> [ui |-> Toggled(u), status |-> "handled"]
      [] key.code \in DOMAIN DirectionOf -> [ui |-> u, status |-> DirectionOf[key.code]]
      [] OTHER -> [ui |-> u, status |-> "unhandled"]

\* ArrowSelector::handle_event
SelectorKey(u, key) ==
    LET handled(v) == [ui |-> v, status |-> "handled"]
        inside == u.selecting /\ ~key.ctrl
    IN  CASE key.code = "Enter" -> handled([u EXCEPT !.selecting = ~@])
          [] inside /\ key.code \in {"Left", "Right"} ->
                handled([u EXCEPT !.unit = UnitBeside(@, key.code)])
          [] inside /\ key.code = "Esc" -> handled([u EXCEPT !.selecting = FALSE])
          [] OTHER -> IF key.code \in DOMAIN DirectionOf
                      THEN [ui |-> u, status |-> DirectionOf[key.code]]
                      ELSE [ui |-> u, status |-> "unhandled"]

\* MainView::handle_event
MainKey(u, key) ==
    LET onLog == ListKey(u.list, key)
        r == CASE u.element = "log" ->
                    [ui |-> [u EXCEPT !.list = onLog.list], status |-> onLog.status]
               [] u.element = "expand" -> ButtonKey(u, key)
               [] u.element = "precision" -> SelectorKey(u, key)
    IN  IF r.status \in Directions THEN Passed(r.ui, layout.mode, r.status) ELSE r

\* MenuBar::handle_event.  A label pressed asks for its popup.
MenuKey(u, key) ==
    LET on(i) == [ui |-> [u EXCEPT !.item = i], status |-> "handled"]
    IN  CASE key.code = "Enter" -> [ui |-> u, status |-> "popup"]
          [] key.code = "Left" /\ u.item > 1 -> on(u.item - 1)
          [] key.code \in {"Right", "Tab"} /\ u.item < MenuItems -> on(u.item + 1)
          [] OTHER -> IF key.code \in DOMAIN DirectionOf
                      THEN [ui |-> u, status |-> DirectionOf[key.code]]
                      ELSE [ui |-> u, status |-> "unhandled"]

\* VerticalSplit::handle_event: from the menu bar down, from the main view up.
SplitKey(u, key) ==
    IF u.split = "menu"
    THEN LET r == MenuKey(u, key)
         IN  IF r.status \in {"down", "forward"}
             THEN {[ui |-> [MainGiven(u, e) EXCEPT !.item = 0, !.split = "main"],
                    status |-> "handled"] : e \in Entrances(u, layout.mode)}
             ELSE {r}
    ELSE LET r == MainKey(u, key)
         IN  IF r.status = "up"
             THEN {[ui |-> MenuGiven(MainTaken(r.ui), i), status |-> "handled"] : i \in 1 .. MenuItems}
             ELSE {r}

\* FocusCell::handle_event
CellKey(u, key) ==
    IF IsChar(key.code)
    THEN IF key.code = "menu" THEN {[ui |-> u, status |-> "popup"]} ELSE {Shortcuts(u, key.code)}
    ELSE IF ~u.cell
    THEN IF key.code \in {"Left", "Right", "Up", "Down", "Tab"}
         THEN {[ui |-> MenuGiven([u EXCEPT !.cell = TRUE], IF key.code = "Left" THEN MenuItems ELSE 1),
                status |-> "handled"]}
         ELSE {[ui |-> u, status |-> "unhandled"]}
    ELSE {CASE r.status = "away" -> [ui |-> AllTaken(r.ui), status |-> "handled"]
            [] r.status = "forward" ->
                 [ui |-> MenuGiven([AllTaken(r.ui) EXCEPT !.cell = TRUE], 1), status |-> "handled"]
            [] OTHER -> r : r \in SplitKey(u, key)}

\* What the labels of the menu bar open.
MenuKinds == {"shutdown", "sockets", "users", "auth methods", "buffer size"}

\* push_popup: who had the focus loses it.
Push(popup) ==
    /\ ui' = IF stack = <<>> THEN AllTaken(ui) ELSE ui
    /\ stack' = Append([i \in 1 .. Len(stack) |->
                          IF i = Len(stack) THEN PopupUnfocused(stack[i]) ELSE stack[i]], popup)

\* Popups that were sent, or that close, are for the main loop to see to first.
Settled == coming = <<>> /\ \A i \in 1 .. Len(stack) : ~stack[i].closing

\* handle_terminal_event, with no popup to take the key.  A label pressed asks for its
\* popup, Escape, if nothing has the focus, for the one that asks whether to close.
RootKey(key) ==
    \E r \in CellKey(ui, key) :
        /\ dirty' = (dirty \/ r.ui # ui)
        /\ IF r.status = "unhandled" /\ key.code = "Esc"
           THEN "close" \in left.kinds /\ Push(NewPopup("close")) /\ UNCHANGED coming
           ELSE /\ ui' = r.ui /\ UNCHANGED stack
                /\ IF r.status = "popup" THEN \E kind \in MenuKinds \cap left.kinds : coming' = <<kind>>
                   ELSE UNCHANGED coming

\* With popups, the one on top takes every key.
TopKey(key) ==
    LET n == Len(stack)
        r == PopupKey(stack[n], key)
    IN  /\ stack' = [stack EXCEPT ![n] = r.popup] /\ coming' = coming \o r.sent
        /\ dirty' = (dirty \/ r.popup # stack[n])
        /\ UNCHANGED ui

\* handle_terminal_event
Key ==
    /\ ~crashed /\ Settled
    /\ \E code \in left.codes, shift, ctrl \in BOOLEAN :
          LET key == [code |-> code, shift |-> shift, ctrl |-> ctrl]
          IN  /\ shift => code \in {"Up", "Down", "PageUp", "PageDown", "ScrollUp", "ScrollDown"}
              /\ ctrl => code \in {"Up", "Down", "Left", "Right", "Backspace", "Delete"}
              /\ IF stack = <<>> THEN RootKey(key) ELSE TopKey(key)
    /\ UNCHANGED <<left, history, metrics, tracker, axis, area, layout, label, terminal, now,
                   crashed, screen, recorded, gapped>>

--------------------------------------------------------------------------------
(***************************************************************************)
(* Popups that come and go, and their tasks.                               *)
(***************************************************************************)

\* background_process, for a popup that was sent.
PopupArrives ==
    /\ ~crashed /\ coming # <<>> /\ Head(coming) \in left.kinds /\ left.popups > 0
    /\ left' = [left EXCEPT !.popups = @ - 1]
    /\ Push(NewPopup(Head(coming))) /\ coming' = Tail(coming) /\ dirty' = TRUE
    /\ UNCHANGED <<history, metrics, tracker, axis, area, layout, label, terminal, now,
                   crashed, screen, recorded, gapped>>

\* And for the last one that closes.  What is under it is not given the focus: its
\* FocusCell waits for a key.
PopupCloses ==
    /\ ~crashed
    /\ \E i \in 1 .. Len(stack) :
          /\ stack[i].closing /\ \A j \in i + 1 .. Len(stack) : ~stack[j].closing
          /\ stack' = RemoveAt(stack, i)
    /\ dirty' = TRUE
    /\ UNCHANGED <<left, history, metrics, tracker, axis, ui, area, layout, label, terminal, now,
                   coming, crashed, screen, recorded, gapped>>

\* A task of a popup goes on, and changes it, and may send a message.
PopupTask(i, popup, sent) ==
    /\ ~crashed
    /\ stack' = [stack EXCEPT ![i] = popup] /\ coming' = coming \o sent /\ dirty' = TRUE
    /\ UNCHANGED <<left, history, metrics, tracker, axis, ui, area, layout, label, terminal, now,
                   crashed, screen, recorded, gapped>>

\* The answer to a request: it was carried out, or not.
Answered ==
    \E i \in 1 .. Len(stack) :
        /\ stack[i].task = "request"
        /\ \/ PopupTask(i, Served(stack[i]), <<>>)
           \/ PopupTask(i, Refused(stack[i]), <<"message">>)

\* The end of text_entry_beep_red.
BeepEnds ==
    \E i \in 1 .. Len(stack) :
        stack[i].task = "beep" /\ PopupTask(i, [stack[i] EXCEPT !.task = "none"], <<>>)

\* users_loaded, and the same for sockets and methods.
ListLoads ==
    \E i \in 1 .. Len(stack) :
        stack[i].loading
            /\ PopupTask(i, [stack[i] EXCEPT !.loading = FALSE, !.changed = TRUE], <<>>)

\* user_changed, and the same for sockets.
ListChanges ==
    \E i \in 1 .. Len(stack) :
        /\ HasList(stack[i].kind) /\ ~stack[i].loading /\ ~stack[i].changed
        /\ PopupTask(i, [stack[i] EXCEPT !.changed = TRUE], <<>>)

--------------------------------------------------------------------------------
(***************************************************************************)
(* Events, and time.                                                       *)
(***************************************************************************)

\* Mutation of Logged: the list does not hear of the event that is dropped.
LoggedQuietly(list, old) ==
    ItemCountSet(list, IF Len(old) < MaxEvents THEN Len(old) + 1 ELSE MaxEvents)

\* LogBlock::new_stream_event, for the list: the oldest event makes room.
Logged(list, old) ==
    IF Len(old) < MaxEvents THEN ItemCountSet(list, Len(old) + 1)
    ELSE ItemCountSet(ItemRemoved(list, 0), MaxEvents)

\* on_new_client_connection_accepted and on_client_connection_finished
ConnectionAccepted(m) == [m EXCEPT !.current = @ + 1, !.historic = @ + 1]

ConnectionFinished(m) == [m EXCEPT !.current = @ - 1]

\* MainView::new_stream_event, for an event that is logged.
LogEvent ==
    /\ ~crashed /\ left.lines > 0
    /\ left' = [left EXCEPT !.lines = @ - 1]
    /\ \E kind \in EventKinds :
          /\ kind = "finished" => metrics.current > 0
          /\ metrics' = IF kind = "finished" THEN ConnectionFinished(metrics)
                        ELSE ConnectionAccepted(metrics)
          /\ history' = Append(IF Len(history) < MaxEvents THEN history ELSE Tail(history),
                               [id |-> left.lines, kind |-> kind])
    /\ ui' = [ui EXCEPT !.list = Logged(@, history)]
    /\ dirty' = TRUE
    /\ UNCHANGED <<tracker, axis, area, layout, label, terminal, now, stack, coming, crashed, screen,
                   recorded, gapped>>

\* The graph is given a time, by an event or by its ticker.
Recorded(time, bytes) ==
    /\ tracker' = UsageRecorded(tracker, time, bytes)
    /\ gapped' = (gapped \/ time - LatestTimestamp(tracker) > MaxHistory)
    /\ recorded' = IF time < tracker.start THEN recorded ELSE [recorded EXCEPT ![time] = @ + bytes]
    /\ dirty' = TRUE

\* Bytes sent or received, at a time of the server's clock.
BytesEvent ==
    /\ ~crashed /\ left.bytes > 0
    /\ left' = [left EXCEPT !.bytes = @ - 1]
    /\ metrics' = [metrics EXCEPT !.bytes = @ + 1]
    /\ \E time \in Times : time \in now - 1 .. now + 1 /\ Recorded(time, 1)
    /\ UNCHANGED <<history, axis, ui, area, layout, label, terminal, now, stack, coming, crashed, screen>>

\* background_ticker
Ticker ==
    /\ ~crashed /\ now > LatestTimestamp(tracker)
    /\ Recorded(now, 0)
    /\ UNCHANGED <<left, history, metrics, axis, ui, area, layout, label, terminal, now, stack, coming,
                   crashed, screen>>

\* Time may pass without the program: the computer is suspended.
TimePasses ==
    /\ ~crashed /\ left.waits > 0
    /\ left' = [left EXCEPT !.waits = @ - 1]
    /\ \E t \in Times : t > now /\ now' = t
    /\ UNCHANGED <<history, metrics, tracker, axis, ui, area, layout, label, terminal, stack, coming,
                   dirty, crashed, screen, recorded, gapped>>

\* The main loop is told of it by an event, and asks for a redraw.
TerminalResized ==
    /\ ~crashed /\ left.sizes > 0
    /\ left' = [left EXCEPT !.sizes = @ - 1]
    /\ \E size \in left.within \ {terminal} : terminal' = size
    /\ dirty' = TRUE
    /\ UNCHANGED <<history, metrics, tracker, axis, ui, area, layout, label, now, stack, coming,
                   crashed, screen, recorded, gapped>>

--------------------------------------------------------------------------------
(***************************************************************************)
(* Drawing.                                                                *)
(***************************************************************************)

\* get_item_lines, of the list of the log.
EntryOf(index, width) ==
    LET e == history[index + 1]
    IN  [index |-> index, made |-> e.id, lines |-> LinesAt(e.kind, width)]

\* perform_resize moves the focus from an element that is not visible any more.
Refocused(u, mode) ==
    IF u.main /\ u.element \notin VisibleIn(mode)
    THEN MainGiven(MainTaken(u), AtOrigin(MainTaken(u), mode))
    ELSE u

\* The popups are drawn over the main view, a list that has changed with what it has now.
Redrawn(popups) ==
    LET changed == {i \in 1 .. Len(popups) : popups[i].changed /\ ~popups[i].loading}
    IN  IF changed = {} THEN {popups}
        ELSE UNION {{[popups EXCEPT ![i] = q] : q \in Relisted(popups[i])} : i \in changed}

\* UIManager::draw.  The button is given its other text as the main view renders,
\* unless the same draw has resized it before.
Draw ==
    LET resized == terminal # area
        turned == ~resized /\ ~IsEmpty(terminal) /\ ui.expanded # (layout.mode = "expanded")
        relaid == resized \/ turned
        now_layout == IF relaid THEN LayoutOf(terminal, ui.expanded) ELSE layout
        sized == IF relaid /\ ~IsEmpty(now_layout.log)
                 THEN [ui EXCEPT !.list = ListResized(@, now_layout.log.width, now_layout.log.height)]
                 ELSE ui
        focused == IF relaid THEN Refocused(sized, now_layout.mode) ELSE sized
        withLog == ~IsEmpty(terminal) /\ ~IsEmpty(now_layout.log)
        withGraph == ~IsEmpty(terminal) /\ now_layout.graph
        made == [i \in 0 .. focused.list.count - 1 |-> EntryOf(i, focused.list.width)]
        drawn == ListRendered(focused.list, made)
        length == AxisLength(terminal, now_layout.mode)
    IN  /\ ~crashed /\ dirty
        /\ area' = terminal /\ layout' = now_layout
        /\ label' = IF turned THEN (IF ui.expanded THEN "return" ELSE "expand") ELSE label
        /\ ui' = IF withLog THEN [focused EXCEPT !.list.cache = drawn.cache] ELSE focused
        /\ dirty' = (focused # sized)
        /\ crashed' = (withLog /\ RenderPanics(focused.list, drawn))
        /\ stack' \in Redrawn(stack)
        /\ tracker' = IF withGraph THEN ByUnit(tracker, ui.unit) ELSE tracker
        /\ axis' = IF withGraph THEN AxisRendered(axis, ui.unit, LatestTimestamp(tracker), length) ELSE axis
        /\ screen' = [log |-> IF withLog THEN drawn.drawn ELSE <<>>,
                      usage |-> IF withGraph THEN UsageShown(tracker') ELSE <<>>,
                      unit |-> IF withGraph THEN ui.unit ELSE 1,
                      labels |-> IF withGraph THEN axis'.labels ELSE <<>>]
        /\ UNCHANGED <<left, history, metrics, terminal, now, coming, recorded, gapped>>

Next ==
    \/ Key \/ PopupArrives \/ PopupCloses
    \/ Answered \/ BeepEnds \/ ListLoads \/ ListChanges
    \/ LogEvent \/ BytesEvent \/ Ticker \/ TimePasses \/ TerminalResized
    \/ Draw

Spec == Init /\ [][Next]_vars

--------------------------------------------------------------------------------
\* What shows that it has the focus.
Holders ==
    ui.lit \cup (IF ui.list.selected = NoIndex THEN {} ELSE {"log"})
           \cup (IF ui.item = 0 THEN {} ELSE {"menu"})

\* At most one element has the focus, the one that keys go to, on any way the focus took
\* between elements, layouts and popups; and in the main view it is one that is visible.
FocusTrue ==
    /\ Holders = IF ~ui.cell THEN {} ELSE IF ui.split = "menu" THEN {"menu"} ELSE {ui.element}
    /\ ui.main <=> ui.cell /\ ui.split = "main"
    /\ ui.main => ui.element \in VisibleIn(layout.mode)
    /\ ui.selecting => ui.cell /\ ui.element = "precision"
    /\ stack # <<>> => ~ui.cell
    /\ \A i \in 1 .. Len(stack) : PopupFocusTrue(stack[i]) /\ (i < Len(stack) => ~stack[i].cell)

\* Popups that ask each other for more, answers, and keys in between: a request that is out
\* is that of the popup on top, the only one, with nothing on its way that would cover it;
\* whoever has none out can be closed and has buttons; and no popup is there twice.
FormsTrue ==
    LET n == Len(stack)
        kinds == [i \in 1 .. n |-> stack[i].kind] \o coming
    IN  /\ IsInjective(kinds)
        /\ \A i \in 1 .. n :
              LET p == stack[i]
              IN  /\ p.task = "request" => i = n /\ coming = <<>> /\ ~p.closing
                  /\ p.closable \/ p.closing \/ p.task \in {"request", "farewell"}
                  /\ p.task \in {"request", "farewell"} => ~p.closable
                  /\ p.shown \/ ~p.closable

\* What is typed, with characters of any size, erased by the word or one by one, and left
\* and come back to: the two cursors agree, and what is drawn of it is all that fits.
EntryTrue ==
    \A i \in 1 .. Len(stack) : \A e \in DOMAIN stack[i].entries :
        LET entry == stack[i].entries[e]
        IN  /\ EntryCoherent(entry)
            /\ entry.cursor # NoCursor => \A w \in 2 .. MaxChars : EntryVisible(entry, w)

\* The lines kept between renders are those of the items that are at their indices now,
\* at the width of now, next to each other; and what is selected is an item.
LinesKept ==
    LET list == ui.list
    IN  /\ list.count = Len(history)
        /\ list.selected # NoIndex => list.selected \in 0 .. list.count - 1
        /\ \A i \in 1 .. Len(list.cache) :
              /\ list.cache[i].index = list.cache[1].index + i - 1
              /\ list.cache[i].index \in 0 .. list.count - 1
              /\ list.cache[i] = EntryOf(list.cache[i].index, list.width)

RecordedIn(from, to) == FoldSet(LAMBDA t, n : n + recorded[t], 0, Times \cap (from .. to))

\* What the graph shows for each unit of time that the history reaches back to is what was
\* recorded in it, after any change of the precision and any drop of old seconds.
GraphTrue(shown, unit) ==
    LET last == Floor(LatestTimestamp(tracker), unit)
    IN  \A k \in 0 .. MaxHistory :
            LET from == last - k * unit
            IN  from >= tracker.start =>
                    /\ k < Len(shown)
                    /\ shown[Len(shown) - k] = RecordedIn(from, from + unit - 1)

LabelsTrue(labels, unit) ==
    LET on == LabelsOn[unit]
        last == Floor(LatestTimestamp(tracker), on)
    IN  /\ labels # <<>>
        /\ \A i \in 1 .. Len(labels) : labels[i] = Label(last - (Len(labels) - i) * on, unit)

\* When no redraw is asked for, the screen shows the events there are: the selected one, or
\* the last, with as many lines around it as there is room for.
LogShown ==
    ~dirty /\ ~crashed /\ ~IsEmpty(terminal) /\ ~IsEmpty(layout.log) =>
        /\ IsWindow(screen.log,
                    [i \in 1 .. Len(history) |-> LinesAt(history[i].kind, layout.log.width)],
                    CenterIndex(ui.list), Minus(layout.log.height, 2), FALSE)
        /\ \A i \in 1 .. Len(screen.log) :
              screen.log[i].made = history[screen.log[i].index + 1].id

\* And it shows the usage there was, whatever came between two redraws: in the units of the
\* precision that is selected, with the times of its axis.
GraphShown ==
    ~dirty /\ ~crashed /\ ~IsEmpty(terminal) /\ layout.graph =>
        /\ screen.unit = ui.unit
        /\ GraphTrue(screen.usage, screen.unit)
        /\ LabelsTrue(screen.labels, screen.unit)

\* The seconds of the history are what was recorded in them.  The history ends with the
\* latest time recorded and is no longer than it should be, unless there was a gap longer
\* than all of it.
UsageKept ==
    /\ \A i \in 1 .. Len(tracker.seconds) :
          tracker.seconds[i] = RecordedIn(tracker.start + i - 1, tracker.start + i - 1)
    /\ ~gapped => Len(tracker.seconds) <= MaxHistory /\ LatestTimestamp(tracker) <= now + 1
    /\ tracker.units # <<>> => GraphTrue(tracker.units, tracker.unit)

\* What is kept between renders is what it would be if it were made again.
CacheTrue == LinesKept /\ UsageKept

\* An event that comes leaves the selection on the event it was on, whatever index that
\* has now; only if that is the one dropped does the selection pass to the next.
SelectionFollows ==
    [][LET before == ui.list.selected
           after == ui.list.selected'
       IN  LogEvent /\ before # NoIndex =>
               \/ after # NoIndex /\ history'[after + 1] = history[before + 1]
               \/ before = 0 /\ after = 0 /\ Len(history) = MaxEvents]_vars

\* The lines of a list fill it, if there are enough: what one side lacks is made up for on
\* the other.
WindowFull ==
    ~dirty /\ ~crashed /\ ~IsEmpty(terminal) /\ ~IsEmpty(layout.log) =>
        IsWindow(screen.log,
                 [i \in 1 .. Len(history) |-> LinesAt(history[i].kind, layout.log.width)],
                 CenterIndex(ui.list), Minus(layout.log.height, 2), TRUE)

=================================================================================
