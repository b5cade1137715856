--------------------------------- MODULE Popups ---------------------------------
(***************************************************************************)
(* The popups of the terminal interface, each on its own: the elements one *)
(* has, in a column, where its focus is, and what a key does to it.  A     *)
(* popup is open for the user to close, or shut while a request of its is  *)
(* out.  What the lists show is the subject of ListPopups; here they have  *)
(* a number of items.                                                      *)
(***************************************************************************)
EXTENDS LongList, TextEntry, TLC

CONSTANTS
    MaxBytes,       \* u8::MAX, for user names and passwords
    MaxListed,      \* the most items a list may have
    Parses(_, _)    \* whether the text of an entry is a buffer size, or an address

ASSUME PopupsAssumption == MaxListed \in Nat

\* The lists of popups begin at the first item, and keep no selection of a removed one.
Listed == INSTANCE LongList WITH SelectLast <- FALSE, Deselect <- TRUE

KeyNames == DOMAIN DirectionOf \cup
    {"Enter", "Backspace", "Delete", "Home", "End", "PageUp", "PageDown", "ScrollUp", "ScrollDown"}

IsChar(code) == code \notin KeyNames

\* What takes the focus in each popup, from the top down.
ConfirmColumn == <<"buttons">>

MessageColumn == <<"ok">>

SizeColumn == <<"size", "buttons">>

AddSocketColumn == <<"address", "buttons">>

AddUserColumn == <<"role", "username", "password", "buttons">>

\* Those of DataEntries, and those of ButtonsOrTextLine under them.
UpdateUserColumn == <<"role", "password">> \o <<"buttons", "delete">>

UsersColumn == <<"role", "filter", "list", "add">>

SocketsColumn == <<"family", "list", "add">>

MethodsColumn == <<"list">>

Column(kind) ==
    CASE kind \in {"close", "shutdown", "delete user", "close socket"} -> ConfirmColumn
      [] kind = "message" -> MessageColumn
      [] kind = "buffer size" -> SizeColumn
      [] kind = "add socket" -> AddSocketColumn
      [] kind = "add user" -> AddUserColumn
      [] kind = "update user" -> UpdateUserColumn
      [] kind = "users" -> UsersColumn
      [] kind = "sockets" -> SocketsColumn
      [] kind = "auth methods" -> MethodsColumn

EntryNames == {"size", "address", "username", "password", "filter"}

OptionsOf == [role |-> 2, family |-> 2]

ElementsOf(kind) == Range(Column(kind))

EntriesOf(kind) == ElementsOf(kind) \cap EntryNames

HasList(kind) == "list" \in ElementsOf(kind)

\* Each new of a popup.  Lists are loaded when it has been opened.
NewPopup(kind) ==
    [kind |-> kind, cell |-> FALSE, at |-> 1, lit |-> {}, side |-> "none", selecting |-> FALSE,
     option |-> 1, entries |-> [e \in EntriesOf(kind) |-> NewEntry], list |-> EmptyList,
     loading |-> HasList(kind), changed |-> FALSE, shown |-> TRUE, closable |-> TRUE,
     busy |-> FALSE, task |-> "none", closing |-> FALSE]

--------------------------------------------------------------------------------
(***************************************************************************)
(* The focus in a popup.                                                   *)
(***************************************************************************)

ElementAt(p, at) == Column(p.kind)[at]

\* The buttons take the focus as long as they show, a list if it has items.
Accepts(p, e) ==
    /\ e \in {"buttons", "delete"} => p.shown
    /\ e = "list" => ListTakesFocus(p.list)

FocusOn(p, at, side) ==
    LET e == ElementAt(p, at)
        q == [p EXCEPT !.at = at, !.cell = TRUE]
    IN  CASE e \in EntryNames -> [q EXCEPT !.entries[e] = EntryFocused(@)]
          [] e = "buttons" -> [q EXCEPT !.side = side]
          [] e = "list" -> [q EXCEPT !.list = Listed!ListFocused(@)]
          [] OTHER -> [q EXCEPT !.lit = @ \cup {e}]

FocusOff(p) ==
    LET e == ElementAt(p, p.at)
    IN  CASE e \in {"buttons", "delete"} /\ ~p.shown -> p
          [] e = "buttons" /\ p.shown -> [p EXCEPT !.side = "none"]
          [] e \in EntryNames -> [p EXCEPT !.entries[e] = EntryUnfocused(@)]
          [] e = "list" -> [p EXCEPT !.list = ListUnfocused(@)]
          [] OTHER -> [p EXCEPT !.lit = @ \ {e}, !.selecting = FALSE]

\* FocusCell::focus_lost
PopupUnfocused(p) == IF p.cell THEN [FocusOff(p) EXCEPT !.cell = FALSE] ELSE p

Handled(p) == [popup |-> p, status |-> "handled", sent |-> <<>>]

Unhandled(p) == [popup |-> p, status |-> "unhandled", sent |-> <<>>]

\* The focus is passed on: up or down by one element, forward from the last to the
\* first, which is also where it goes if a list does not take it; or away from the popup.
PopupPassed(p, direction) ==
    LET n == Len(Column(p.kind))
        next == CASE direction = "up" -> Max({p.at - 1, 1})
                  [] direction = "down" -> Min({p.at + 1, n})
                  [] OTHER -> IF p.at = n \/ ~Accepts(p, ElementAt(p, p.at + 1)) THEN 1
                              ELSE p.at + 1
    IN  CASE direction = "away" -> PopupUnfocused(p)
          [] direction = "forward" -> FocusOn(FocusOff(p), next, "left")
          [] direction \in {"up", "down"} /\ next # p.at /\ Accepts(p, ElementAt(p, next)) ->
                FocusOn(FocusOff(p), next, "left")
          [] OTHER -> p

\* FocusCell::handle_event gives the focus to a popup that has none.
FocusIn(p, code) ==
    IF ~p.cell /\ code \in {"Left", "Right", "Up", "Down", "Tab"} /\ Accepts(p, ElementAt(p, 1))
    THEN Handled(FocusOn(p, 1, IF code = "Left" THEN "right" ELSE "left"))
    ELSE Unhandled(p)

--------------------------------------------------------------------------------
(***************************************************************************)
(* What the elements of a popup do.                                        *)
(***************************************************************************)

Closed(p) == [p EXCEPT !.closing = TRUE]

\* perform_request.  Only the popups with entries note that they wait.
Asking(p, task) ==
    [p EXCEPT !.task = task, !.closable = FALSE, !.shown = FALSE, !.busy = EntriesOf(p.kind) # {}]

\* What the forms ask of their entries: a size or an address that can be read, names and
\* passwords that a request has room for, which only an update may leave out.
Readable(p) == \A e \in EntriesOf(p.kind) : Parses(e, p.entries[e].text)

NamesUser(p) == \A e \in {"username", "password"} : Bytes(p.entries[e].text) \in 1 .. MaxBytes

PasswordFits(p) == Bytes(p.entries["password"].text) <= MaxBytes

Filled(p) ==
    CASE p.kind \in {"buffer size", "add socket"} -> Readable(p)
      [] p.kind = "add user" -> NamesUser(p)
      [] p.kind = "update user" -> PasswordFits(p)

\* on_yes_selected, of a form: what is not filled in as it should be beeps, in red.
Submitted(p) ==
    IF p.busy \/ p.task = "beep" THEN p
    ELSE IF Filled(p) THEN Asking(p, "request")
    ELSE [p EXCEPT !.task = "beep"]

\* on_left
Agreed(p) ==
    CASE p.kind \in {"close", "shutdown"} -> Asking(p, "farewell")
      [] p.kind \in {"delete user", "close socket"} -> Asking(p, "request")
      [] OTHER -> Submitted(p)

\* on_delete_selected: the popup hands over to one that asks for confirmation.
Deletion(p) ==
    IF p.busy \/ p.task = "beep" THEN Handled(p)
    ELSE [Handled([Closed(p) EXCEPT !.busy = TRUE]) EXCEPT !.sent = <<"delete user">>]

\* on_pressed, of the button of a list.
Addition(p) ==
    [Handled(p) EXCEPT !.sent = <<IF p.kind = "users" THEN "add user" ELSE "add socket">>]

\* set_auth_method
Toggling(p) == [p EXCEPT !.busy = TRUE, !.changed = TRUE, !.closable = FALSE, !.task = "request"]

\* on_enter, of a list, for an item.
ItemEntered(p) ==
    CASE p.kind = "auth methods" -> Handled(Toggling(p))
      [] OTHER -> [Handled(p) EXCEPT !.sent =
                     <<IF p.kind = "users" THEN "update user" ELSE "close socket">>]

\* selection_changed: another role, or another filter.
Selected(p, option) ==
    Handled([p EXCEPT !.option = option, !.changed = @ \/ HasList(p.kind)])

\* on_char, of the forms for sizes, sockets and users; a filter takes anything.
TakesDigit(c) == IsWord(c) /\ CharBytes(c) = 1

TakesOfAddress(c) == CharBytes(c) = 1

TakesOfName(text, c) == Bytes(text) + CharBytes(c) <= MaxBytes

Takable(p, e, c) ==
    CASE e = "size" -> TakesDigit(c)
      [] e = "address" -> TakesOfAddress(c)
      [] e \in {"username", "password"} -> TakesOfName(p.entries[e].text, c)
      [] OTHER -> TRUE

\* A change of the text of a filter changes the list.
EntryChanged(p, e, entry) ==
    Handled([p EXCEPT !.entries[e] = entry,
                      !.changed = @ \/ (e = "filter" /\ entry.text # p.entries[e].text)])

--------------------------------------------------------------------------------
(***************************************************************************)
(* Keys.                                                                   *)
(***************************************************************************)

\* A character that no entry takes is a shortcut, with the focus or without.
PopupChar(p, c) ==
    LET has == ElementsOf(p.kind)
        options == {o \in 1 .. 2 : ToString(o) = c}
    IN  CASE "buttons" \in has /\ p.shown /\ c = "y" -> Handled(Agreed(p))
          [] "buttons" \in has /\ p.shown /\ c = "n" -> Handled(Closed(p))
          [] "delete" \in has /\ p.shown /\ c = "d" -> Deletion(p)
          [] "ok" \in has /\ c = "y" -> Handled(Closed(p))
          [] "add" \in has /\ c = "a" -> Addition(p)
          [] has \cap {"role", "family"} # {} /\ options \ {p.option} # {} ->
                Selected(p, CHOOSE o \in options : TRUE)
          [] OTHER -> Unhandled(p)

EntryAtKey(p, e, key) ==
    CASE IsChar(key.code) ->
            IF p.entries[e].length < MaxChars /\ Takable(p, e, key.code)
            THEN EntryChanged(p, e, Typed(p.entries[e], key.code))
            ELSE Handled(p)
      [] key.code \in {"Up", "Down", "Tab", "Esc"} -> Handled(PopupPassed(p, DirectionOf[key.code]))
      [] key.code = "Enter" ->
            IF e = "filter" THEN Unhandled(p)
            ELSE LET q == Submitted(p)
                 IN  Handled(IF q.busy THEN PopupUnfocused(q) ELSE q)
      [] key.code \in {"PageUp", "PageDown", "ScrollUp", "ScrollDown"} -> Unhandled(p)
      [] OTHER -> EntryChanged(p, e, EntryKey(p.entries[e], key))

\* DualButtons::handle_event
ButtonsKey(p, key) ==
    IF ~p.shown THEN Unhandled(p)
    ELSE CASE key.code = "Enter" -> Handled(IF p.side = "left" THEN Agreed(p) ELSE Closed(p))
           [] key.code \in {"Tab", "Right"} /\ p.side # "right" -> Handled([p EXCEPT !.side = "right"])
           [] key.code = "Left" /\ p.side # "left" -> Handled([p EXCEPT !.side = "left"])
           [] OTHER -> IF key.code \in DOMAIN DirectionOf
                       THEN Handled(PopupPassed(p, DirectionOf[key.code])) ELSE Unhandled(p)

\* ArrowSelector::handle_event
OptionsKey(p, key) ==
    LET inside == p.selecting /\ ~key.ctrl
        beside == IF key.code = "Left" THEN Max({p.option - 1, 1}) ELSE Min({p.option + 1, 2})
    IN  CASE key.code = "Enter" -> Handled([p EXCEPT !.selecting = ~@])
          [] inside /\ key.code \in {"Left", "Right"} ->
                IF beside = p.option THEN Handled(p) ELSE Selected(p, beside)
          [] inside /\ key.code = "Esc" -> Handled([p EXCEPT !.selecting = FALSE])
          [] OTHER -> IF key.code \in DOMAIN DirectionOf
                      THEN Handled(PopupPassed(p, DirectionOf[key.code])) ELSE Unhandled(p)

ItemsKey(p, key) ==
    IF key.code = "Enter"
    THEN IF p.list.selected = NoIndex THEN Unhandled(p) ELSE ItemEntered(p)
    ELSE LET r == Listed!ListKey(p.list, key)
             q == [p EXCEPT !.list = r.list]
         IN  CASE r.status \in Directions -> Handled(PopupPassed(q, r.status))
               [] r.status = "handled" -> Handled(q)
               [] OTHER -> Unhandled(q)

\* CenteredButton::handle_event
OneButtonKey(p, e, key) ==
    CASE key.code = "Enter" ->
            (CASE e = "ok" -> Handled(Closed(p))
               [] e = "delete" -> Deletion(p)
               [] e = "add" -> Addition(p))
      [] key.code \in DOMAIN DirectionOf -> Handled(PopupPassed(p, DirectionOf[key.code]))
      [] OTHER -> Unhandled(p)

FocusedKey(p, key) ==
    LET e == ElementAt(p, p.at)
    IN  CASE e \in EntryNames -> EntryAtKey(p, e, key)
          [] e = "buttons" -> ButtonsKey(p, key)
          [] e \in DOMAIN OptionsOf -> OptionsKey(p, key)
          [] e = "list" -> ItemsKey(p, key)
          [] OTHER -> OneButtonKey(p, e, key)

\* Content that is loading has nothing to take a key; content that waits takes them all.
ContentKey(p, key) ==
    LET typing == p.cell /\ ElementAt(p, p.at) \in EntryNames
    IN  CASE p.loading -> Unhandled(p)
          [] ~p.loading /\ p.busy -> Handled(p)
          [] ~p.loading /\ ~p.busy /\ IsChar(key.code) /\ ~typing -> PopupChar(p, key.code)
          [] OTHER -> IF p.cell THEN FocusedKey(p, key) ELSE FocusIn(p, key.code)

\* PopupBase::handle_event: a key that nothing else takes may close the popup.
PopupKey(p, key) ==
    LET r == ContentKey(p, key)
    IN  IF r.status = "unhandled" /\ p.closable /\ key.code \in {"q", "Esc"}
        THEN Handled(Closed(p)) ELSE r

--------------------------------------------------------------------------------
(***************************************************************************)
(* What the tasks of a popup do to it.                                     *)
(***************************************************************************)

\* The end of set_auth_method_task, well or not.
MethodAnswered(p) ==
    [p EXCEPT !.task = "none", !.busy = FALSE, !.closable = TRUE, !.changed = TRUE]

\* The lines after the request of a task, when it was carried out.
Served(p) ==
    IF p.kind = "auth methods" THEN MethodAnswered(p) ELSE [Closed(p) EXCEPT !.task = "none"]

\* Mutation of Refused: the popup can still not be closed.
RefusedForGood(p) ==
    [p EXCEPT !.task = "none", !.busy = FALSE, !.shown = TRUE, !.changed = @ \/ HasList(p.kind)]

\* And when it was refused, or could not be sent: a message follows.
Refused(p) ==
    IF p.kind = "auth methods" THEN MethodAnswered(p)
    ELSE [p EXCEPT !.task = "none", !.busy = FALSE, !.closable = TRUE, !.shown = TRUE]

\* render, of a list that changed: that of the methods keeps its selection; of users and
\* sockets, the selected one may be somewhere else now, or gone.
Relisted(p) ==
    LET methods == p.kind = "auth methods"
        counts == IF methods /\ p.list.count # 0 THEN {p.list.count} ELSE 0 .. MaxListed
        selections(n) == IF methods \/ p.list.selected = NoIndex THEN {p.list.selected}
                         ELSE {NoIndex} \cup 0 .. n - 1
    IN  IF ~p.changed \/ p.loading THEN {p}
        ELSE UNION {{[p EXCEPT !.changed = FALSE, !.list.count = n, !.list.selected = s] :
                        s \in selections(n)} : n \in counts}

\* What shows that it has the focus in a popup.
FocusShown(p) ==
    p.lit \cup {e \in DOMAIN p.entries : p.entries[e].cursor # NoCursor}
          \cup (IF p.side = "none" THEN {} ELSE {"buttons"})
          \cup (IF p.list.selected = NoIndex THEN {} ELSE {"list"})

\* Only the element that keys go to may show that it has the focus, and it does, but
\* for a list that lost its selected item.
PopupFocusTrue(p) ==
    /\ FocusShown(p) \subseteq (IF p.cell THEN {ElementAt(p, p.at)} ELSE {})
    /\ p.cell => FocusShown(p) # {} \/ ElementAt(p, p.at) = "list"
    /\ p.selecting => p.cell /\ ElementAt(p, p.at) \in DOMAIN OptionsOf
    /\ p.list.selected # NoIndex => p.list.selected < p.list.count

=================================================================================
