------------------------------- MODULE ListPopups -------------------------------
(***************************************************************************)
(* The copies the terminal interface keeps of what the server knows: the   *)
(* lists of users, of sockets and of authentication methods in their       *)
(* popups, and the buffer size in the menu bar.  A copy starts with the    *)
(* answer to a request and follows the stream of events from then on; the  *)
(* forms that change the server's state tell the copy too, when they are   *)
(* answered.  Another manager changes the same state meanwhile.            *)
(*                                                                         *)
(* A change is counted, per key, as the server makes it.  The counts, and  *)
(* the sets stale, raced and had, are there for the properties only.       *)
(***************************************************************************)
EXTENDS Naturals, Sequences, FiniteSets, SequencesExt, FiniteSetsExt

CONSTANTS
    Kinds,          \* which of the four copies to look at
    Names,          \* usernames
    Addresses,      \* socket addresses
    Sizes,          \* buffer sizes
    Order,          \* the place of a name or an address in a sorted list
    StartUsers,     \* the users a server may have when we connect
    Filters,        \* what the role filter and the username filter may let pass
    ChannelCap,     \* SERVER_EVENTS_CHANNEL_SIZE
    WatchCap,       \* the capacity of the watches
    MaxOther,       \* bound on the changes of the other manager, for each kind
    MaxSubmits,     \* bound on the requests of forms
    MaxOpens,       \* bound on the times the popup is opened
    None

Roles == {"admin", "regular"}

Methods == {"NoAuth", "UsernameAndPassword"}

KeysOf(kind) ==
    CASE kind = "users" -> Names
      [] kind = "sockets" -> Addresses
      [] kind = "methods" -> Methods
      [] kind = "buffer" -> {"size"}

ValuesOf(kind) ==
    CASE kind = "users" -> Roles
      [] kind = "sockets" -> {"open"}
      [] kind = "methods" -> {"on", "off"}
      [] kind = "buffer" -> Sizes

Managers == {"mine", "other"}

\* What a watch carries: a value of a key, and for what a form tells, if it guessed it.
ItemsOf(kind) ==
    LET value == ValuesOf(kind) \cup {None}
    IN  [key : KeysOf(kind), value : value, count : Nat]
        \cup [key : KeysOf(kind), value : value, count : Nat, guess : BOOLEAN]

ASSUME ListPopupsAssumption ==
    /\ Kinds \subseteq {"users", "sockets", "methods", "buffer"}
    /\ IsFiniteSet(Names) /\ IsFiniteSet(Addresses)
    /\ Order \in [Names \cup Addresses -> Nat]
    /\ \A a, b \in Addresses : Order[a] = Order[b] => a = b
    /\ StartUsers \subseteq [Names -> Roles \cup {None}]
    /\ \A users \in StartUsers : \E k \in Names : users[k] = "admin"
    /\ Filters \subseteq [roles : SUBSET Roles, names : SUBSET Names]
    /\ ChannelCap \in Nat \ {0} /\ WatchCap \in Nat \ {0}
    /\ MaxOther \in [Kinds -> Nat] /\ MaxSubmits \in Nat /\ MaxOpens \in Nat
    /\ None \notin Roles \cup {"open", "on", "off"} /\ None \notin Sizes /\ None \notin Nat
    /\ \A k \in Kinds : None \notin Seq(ItemsOf(k))

VARIABLES
    kind,           \* the copy this behaviour is about
    truth,          \* what the server knows: a value for each key, or None
    server,         \* the request each connection's handler is in the middle of
    requests,       \* our requests the server has not begun with
    stream,         \* the events on their way to us
    answers,        \* the answers on their way to us
    alive,          \* whether our connection is
    channel,        \* the events read that the main loop has not taken
    popup,          \* the popup: its id, where its task is, what it was answered
    copy,           \* ControllerInner's users, sockets, auth_methods; buffer_size
    watch,          \* what each subscriber to the watch has yet to receive, or None
    form,           \* the form on top of the popup, and its request
    view,           \* the list as last rendered: items, selection, filters, did_list_change
    others,         \* the changes the other manager has made
    count,          \* the changes made to each key
    readAt,         \* the count at which the popup's answer was read, or None
    newest,         \* the count of the latest change the copy was given, or lost
    stale,          \* the keys whose latest change the copy lost or undid
    raced,          \* the size, if two handlers were in the middle of setting it
    had             \* every key and value the server has had

serverVars == <<truth, server, requests, stream, answers, others, count, readAt, raced, had>>

ghostVars == <<newest, stale>>

vars == <<kind, truth, server, requests, stream, answers, alive, channel, popup, copy,
          watch, form, view, others, count, readAt, newest, stale, raced, had>>

Keys == KeysOf(kind)

Entry == [key : Keys, value : ValuesOf(kind)]

Idle == [step |-> "idle"]

NoForm == [state |-> "none", id |-> 0, change |-> None, role |-> None, ok |-> FALSE, count |-> 0,
           value |-> None]

NoFilter == [roles |-> Roles, names |-> Names]

NoView == [shown |-> <<>>, selected |-> 0, filter |-> NoFilter, dirty |-> FALSE]

NoPopup == [state |-> "closed", id |-> 0, got |-> None]

Admins == {k \in Keys : truth[k] = "admin"}

\* The state a server may be in when we connect.  The menu bar subscribes to
\* the watch and asks for the buffer size as the interface starts.
Init ==
    /\ kind \in Kinds
    /\ truth \in CASE kind = "users" -> StartUsers
                  [] kind = "sockets" -> [Keys -> {"open", None}]
                  [] OTHER -> [Keys -> ValuesOf(kind)]
    /\ server = [m \in Managers |-> Idle]
    /\ stream = <<>> /\ answers = <<>> /\ alive = TRUE /\ channel = <<>>
    /\ IF kind = "buffer"
       THEN /\ popup = [state |-> "waiting", id |-> 1, got |-> None]
            /\ watch = [popup |-> <<>>, form |-> None]
            /\ requests = <<[type |-> "list", id |-> 1]>>
       ELSE /\ popup = NoPopup
            /\ watch = [popup |-> None, form |-> None]
            /\ requests = <<>>
    /\ copy = <<>> /\ form = NoForm /\ view = NoView /\ others = 0
    /\ count = [k \in Keys |-> 0]
    /\ readAt = [k \in Keys |-> None]
    /\ newest = [k \in Keys |-> 0]
    /\ stale = {} /\ raced = {}
    /\ had = {[key |-> k, value |-> truth[k]] : k \in Keys}

--------------------------------------------------------------------------------
(***************************************************************************)
(* The server.  The main loop does what is about sockets in one step.  A   *)
(* connection's handler stores and then logs a change to a user or to an   *)
(* authentication method; it logs and then stores the buffer size.         *)
(***************************************************************************)

Changes(k) ==
    CASE kind = "users" ->
            [op : {"add"}, key : {k}, value : Roles]
            \cup [op : {"update"}, key : {k}, value : Roles \cup {None}]
            \cup [op : {"delete"}, key : {k}, value : {None}]
      [] kind = "sockets" ->
            {[op |-> "add", key |-> k, value |-> "open"], [op |-> "delete", key |-> k, value |-> None]}
      [] OTHER -> [op : {"set"}, key : {k}, value : ValuesOf(kind)]

\* An update may leave the role, None, as it is.
ValueAfter(c) == IF c.op = "update" /\ c.value = None THEN truth[c.key] ELSE c.value

Refused(c) ==
    \/ c.op = "add" /\ truth[c.key] # None
    \/ c.op \in {"update", "delete"} /\ truth[c.key] = None
    \/ kind = "users" /\ Admins = {c.key} /\ ValueAfter(c) # "admin" /\ c.op # "add"

Busy(k) == {m \in Managers : server[m].step \in {"log", "store"} /\ server[m].key = k}

\* The first step of a change that is not refused.  Nobody else changes a
\* socket, the main loop does.
Begins(m, c, id) ==
    LET k == c.key
        v == ValueAfter(c)
        n == count[k] + 1
        event == [key |-> k, value |-> v, count |-> n]
        rest(step) == [step |-> step, key |-> k, value |-> v, count |-> n, id |-> id]
    IN  /\ count' = [count EXCEPT ![k] = n]
        /\ raced' = IF kind = "buffer" /\ Busy(k) # {} THEN raced \cup {k} ELSE raced \ {k}
        /\ had' = had \cup {[key |-> k, value |-> v]}
        /\ truth' = IF kind = "buffer" THEN truth ELSE [truth EXCEPT ![k] = v]
        /\ stream' = IF kind \in {"sockets", "buffer"} THEN Append(stream, event) ELSE stream
        /\ server' = CASE kind = "sockets" -> server
                       [] kind = "buffer" -> [server EXCEPT ![m] = rest("store")]
                       [] OTHER -> [server EXCEPT ![m] = rest("log")]

Answer(id, ok, c) == [type |-> "done", id |-> id, ok |-> ok, value |-> c.value, count |-> c.count]

\* The second step, and the answer if it is for us.
Finishes(m) ==
    LET c == server[m]
    IN  /\ c.step \in {"log", "store"}
        /\ server' = [server EXCEPT ![m] = Idle]
        /\ IF c.step = "log"
           THEN /\ stream' = Append(stream, [key |-> c.key, value |-> c.value, count |-> c.count])
                /\ truth' = truth
           ELSE /\ truth' = [truth EXCEPT ![c.key] = c.value]
                /\ stream' = stream
        /\ answers' = IF m = "mine" THEN Append(answers, Answer(c.id, TRUE, c)) ELSE answers
        /\ UNCHANGED <<kind, requests, alive, channel, popup, copy, watch, form, view, others,
                       count, readAt, ghostVars, raced, had>>

\* A socket may fail to be bound.
OtherChanges(c) ==
    /\ alive /\ others < MaxOther[kind]
    /\ server["other"] = Idle /\ ~Refused(c)
    /\ Begins("other", c, 0)
    /\ others' = others + 1
    /\ UNCHANGED <<kind, requests, answers, alive, channel, popup, copy, watch, form, view,
                   readAt, ghostVars>>

OurChange(c, id, bound) ==
    /\ requests' = Tail(requests)
    /\ IF Refused(c) \/ ~bound
       THEN /\ answers' = Append(answers, Answer(id, FALSE, [value |-> None, count |-> 0]))
            /\ UNCHANGED <<truth, server, stream, count, raced, had>>
       ELSE /\ Begins("mine", c, id)
            /\ answers' = IF kind # "sockets" THEN answers
                          ELSE Append(answers, Answer(id, TRUE, [value |-> c.value,
                                                                 count |-> count'[c.key]]))
    /\ UNCHANGED readAt

\* The handler takes our next request.
ServeChange ==
    /\ server["mine"] = Idle /\ requests # <<>> /\ Head(requests).type = "set"
    /\ \E bound \in {TRUE} \cup (IF kind = "sockets" /\ Head(requests).change.op = "add"
                                 THEN {FALSE} ELSE {}) :
          OurChange(Head(requests).change, Head(requests).id, bound)
    /\ UNCHANGED <<kind, alive, channel, popup, copy, watch, form, view, others, ghostVars>>

\* A list is read one shard, or one flag, after the other; the main loop reads
\* all of its sockets at once.
ServeList ==
    /\ server["mine"] = Idle /\ requests # <<>> /\ Head(requests).type = "list"
    /\ requests' = Tail(requests)
    /\ server' = [server EXCEPT !["mine"] =
                    [step |-> "read", left |-> Keys, got |-> [k \in Keys |-> None],
                     id |-> Head(requests).id]]
    /\ UNCHANGED <<kind, truth, stream, answers, alive, channel, popup, copy, watch, form, view,
                   others, count, readAt, ghostVars, raced, had>>

\* The changes of a key that its value shows.
Stored(k) == count[k] - Cardinality({m \in Busy(k) : server[m].step = "store"})

ReadKeys(ks) ==
    LET job == server["mine"]
        got == [k \in Keys |-> IF k \in ks THEN truth[k] ELSE job.got[k]]
    IN  /\ job.step = "read" /\ ks \subseteq job.left
        /\ readAt' = IF job.id # popup.id THEN readAt
                     ELSE [k \in Keys |-> IF k \in ks THEN Stored(k) ELSE readAt[k]]
        /\ IF ks = job.left
           THEN /\ server' = [server EXCEPT !["mine"] = Idle]
                /\ answers' = Append(answers, [type |-> "list", id |-> job.id, got |-> got])
           ELSE /\ server' = [server EXCEPT !["mine"].left = @ \ ks, !["mine"].got = got]
                /\ answers' = answers
        /\ UNCHANGED <<kind, truth, requests, stream, alive, channel, popup, copy, watch, form,
                       view, others, count, ghostVars, raced, had>>

ServeRead ==
    IF kind = "sockets" THEN ReadKeys(Keys) ELSE \E k \in Keys : ReadKeys({k})

--------------------------------------------------------------------------------
(***************************************************************************)
(* The watches: broadcast channels, on which a receiver that falls behind  *)
(* loses the oldest items.                                                 *)
(***************************************************************************)

\* Mutation of Received: a queue that is full keeps what it has.
ReceivedIfRoom(queue, item) == IF Len(queue) < WatchCap THEN Append(queue, item) ELSE queue

Received(queue, item) ==
    IF Len(queue) < WatchCap THEN Append(queue, item) ELSE Append(Tail(queue), item)

\* An item is sent to the receivers there are.  It is lost to a popup that is not one
\* of them yet, if the answer which that waits for was read before the change.
Publish(item, receivers) ==
    LET lost == IF watch.popup = None
                THEN {i \in {item} : /\ popup.state \in {"waiting", "ready"}
                                     /\ readAt[i.key] # None /\ i.count > readAt[i.key]}
                ELSE IF Len(watch.popup) < WatchCap THEN {}
                ELSE {i \in {Head(watch.popup)} : i.count > newest[i.key]}
    IN  /\ watch' = [s \in DOMAIN watch |->
                        IF watch[s] = None \/ s \notin receivers THEN None
                        ELSE Received(watch[s], item)]
        /\ stale' = stale \cup {i.key : i \in lost}
        /\ newest' = [k \in Keys |-> Max({newest[k]} \cup {i.count : i \in {j \in lost : j.key = k}})]

--------------------------------------------------------------------------------
(***************************************************************************)
(* The read loop and the main loop of the client.                          *)
(***************************************************************************)

\* read_events: into the bounded channel, or the read loop waits.
ReadEvent ==
    /\ alive /\ stream # <<>> /\ Len(channel) < ChannelCap
    /\ channel' = Append(channel, Head(stream))
    /\ stream' = Tail(stream)
    /\ UNCHANGED <<kind, truth, server, requests, answers, alive, popup, copy, watch, form, view,
                   others, count, readAt, ghostVars, raced, had>>

\* The handler of a response completes a oneshot; that of the buffer size sends
\* the answer into the watch.
ReadAnswer ==
    LET a == Head(answers)
        ours == IF a.type = "list" THEN popup.state = "waiting" /\ popup.id = a.id
                ELSE form.state = "waiting" /\ form.id = a.id
    IN  /\ alive /\ answers # <<>>
        /\ answers' = Tail(answers)
        /\ IF kind = "buffer" /\ a.type = "list"
           THEN /\ Publish([key |-> "size", value |-> a.got["size"], count |-> readAt["size"]],
                         {"popup"})
                /\ UNCHANGED <<popup, form>>
           ELSE /\ popup' = IF ours /\ a.type = "list"
                            THEN [popup EXCEPT !.state = "ready", !.got = a.got] ELSE popup
                /\ form' = IF ours /\ a.type = "done"
                           THEN [form EXCEPT !.state = "ready", !.ok = a.ok, !.value = a.value,
                                             !.count = a.count] ELSE form
                /\ UNCHANGED <<watch, ghostVars>>
        /\ UNCHANGED <<kind, truth, server, requests, stream, alive, channel, copy, view,
                       others, count, readAt, raced, had>>

\* handle_stream_event.
Forward ==
    /\ channel # <<>>
    /\ Publish(Head(channel), {"popup", "form"})
    /\ channel' = Tail(channel)
    /\ UNCHANGED <<kind, serverVars, alive, popup, copy, form, view>>

\* The connection fails: what waits for an answer will not have it.
ConnectionFails ==
    /\ alive
    /\ alive' = FALSE
    /\ UNCHANGED <<kind, serverVars, channel, popup, copy, watch, form, view, ghostVars>>

--------------------------------------------------------------------------------
(***************************************************************************)
(* A copy and its changes.                                                 *)
(***************************************************************************)

\* users_sort_cmp and socket_sort_cmp, as a number.
Rank(e) ==
    IF kind = "users" /\ e.value = "regular"
    THEN Order[e.key] + Max({Order[k] : k \in Names}) + 1
    ELSE Order[e.key]

InOrder(list) == \A i, j \in 1 .. Len(list) : i < j => Rank(list[i]) <= Rank(list[j])

At(list, k) == {i \in 1 .. Len(list) : list[i].key = k}

SameRank(list, e) == {i \in 1 .. Len(list) : Rank(list[i]) = Rank(e)}

\* binary_search finds any item of the same rank, or else the place for one.
Places(list, e) ==
    IF SameRank(list, e) # {} THEN SameRank(list, e)
    ELSE {1 + Cardinality({i \in 1 .. Len(list) : Rank(list[i]) < Rank(e)})}

Inserted(list, e) == {InsertAt(list, i, e) : i \in Places(list, e)}

\* The first item of the key is removed.
WithoutKey(list, k) == IF At(list, k) = {} THEN list ELSE RemoveAt(list, Min(At(list, k)))

\* users_loaded, sockets_loaded and auth_methods_loaded.
Loaded(got) ==
    LET entries == {[key |-> k, value |-> got[k]] : k \in {k \in Keys : got[k] # None}}
    IN  IF kind = "methods"
        THEN {<<[key |-> "NoAuth", value |-> got["NoAuth"]],
                [key |-> "UsernameAndPassword", value |-> got["UsernameAndPassword"]]>>}
        ELSE {list \in SetToSeqs(entries) : InOrder(list)}

\* Mutation of UserChanged: a new role is written in place.
UserChangedInPlace(list, e) ==
    IF e.value = None THEN {WithoutKey(list, e.key)}
    ELSE IF At(list, e.key) # {} THEN {[i \in 1 .. Len(list) |-> IF list[i].key = e.key THEN e ELSE list[i]]}
    ELSE Inserted(list, e)

UserChanged(list, e) ==
    IF e.value = None THEN {WithoutKey(list, e.key)}
    ELSE IF \E i \in At(list, e.key) : list[i].value = e.value THEN {list}
    ELSE Inserted(WithoutKey(list, e.key), e)

\* A socket is looked for by its rank.
SocketChanged(list, e) ==
    LET found == SameRank(list, e)
    IN  IF e.value = None
        THEN IF found = {} THEN {list} ELSE {RemoveAt(list, i) : i \in found}
        ELSE IF found # {} THEN {list} ELSE Inserted(list, e)

AuthMethodChanged(list, e) ==
    IF At(list, e.key) = {} THEN {Append(list, e)}
    ELSE {[i \in 1 .. Len(list) |-> IF list[i].key = e.key THEN e ELSE list[i]]}

Changed(list, e) ==
    CASE kind = "users" -> UserChanged(list, e)
      [] kind = "sockets" -> SocketChanged(list, e)
      [] kind = "methods" -> AuthMethodChanged(list, e)
      [] kind = "buffer" -> {<<e>>}

\* The popup's task has its answer: it fills the list, and subscribes only now.
PopupLoads ==
    /\ popup.state = "ready"
    /\ copy' \in Loaded(popup.got)
    /\ popup' = [popup EXCEPT !.state = "live", !.got = None]
    /\ watch' = [watch EXCEPT !.popup = <<>>]
    /\ view' = [view EXCEPT !.dirty = TRUE]
    /\ newest' = [k \in Keys |-> Max({newest[k], readAt[k]})]
    /\ UNCHANGED <<kind, serverVars, alive, channel, form, stale>>

\* The task receives from the watch.  The first size to come ends the loading.
PopupApplies ==
    /\ popup.state = "live" \/ kind = "buffer"
    /\ watch.popup # None /\ watch.popup # <<>>
    /\ LET item == Head(watch.popup)
           e == [key |-> item.key, value |-> item.value]
           late == item.count < newest[e.key] \/ ("guess" \in DOMAIN item /\ item.guess)
       IN  /\ copy' \in Changed(copy, e)
           /\ view' = [view EXCEPT !.dirty = @ \/ copy' # copy \/ kind = "methods"]
           /\ newest' = [newest EXCEPT ![e.key] = Max({@, item.count})]
           /\ stale' = IF late THEN stale \cup {e.key} ELSE stale \ {e.key}
    /\ watch' = [watch EXCEPT !.popup = Tail(@)]
    /\ popup' = [popup EXCEPT !.state = "live"]
    /\ UNCHANGED <<kind, serverVars, alive, channel, form>>

\* No answer will come: the text of the popup says so.  The menu bar waits on.
PopupFails ==
    /\ ~alive /\ popup.state = "waiting" /\ kind # "buffer"
    /\ popup' = [popup EXCEPT !.state = "failed"]
    /\ UNCHANGED <<kind, serverVars, alive, channel, copy, watch, form, view, ghostVars>>

--------------------------------------------------------------------------------
(***************************************************************************)
(* What the user does, and the list as it is shown.                        *)
(***************************************************************************)

OpenPopup ==
    /\ popup.state = "closed" /\ popup.id < MaxOpens
    /\ popup' = [state |-> "waiting", id |-> popup.id + 1, got |-> None]
    /\ requests' = Append(requests, [type |-> "list", id |-> popup.id + 1])
    /\ readAt' = [k \in Keys |-> None]
    /\ newest' = [k \in Keys |-> 0]
    /\ stale' = {}
    /\ copy' = <<>> /\ view' = NoView
    /\ UNCHANGED <<kind, truth, server, stream, answers, alive, channel, watch, form, others,
                   count, raced, had>>

\* Dropping the popup aborts its task, and what its controller was doing.
ClosePopup ==
    /\ kind # "buffer" /\ popup.state # "closed" /\ form.state = "none"
    /\ popup' = [popup EXCEPT !.state = "closed", !.got = None]
    /\ watch' = [watch EXCEPT !.popup = None]
    /\ copy' = <<>> /\ view' = NoView
    /\ UNCHANGED <<kind, serverVars, alive, channel, form, ghostVars>>

Usable == popup.state = "live" /\ form.state = "none"

\* Sockets have a filter of the same kind.
Passes(e) == kind = "users" => e.value \in view.filter.roles /\ e.key \in view.filter.names

\* filter_list_into: the items that pass, in their order.
Filtered(list) ==
    LET upTo[n \in 0 .. Len(list)] ==
            IF n = 0 THEN <<>>
            ELSE IF Passes(list[n]) THEN Append(upTo[n - 1], list[n]) ELSE upTo[n - 1]
    IN  upTo[Len(list)]

ChangeFilter ==
    /\ Usable /\ kind = "users"
    /\ \E f \in Filters \ {view.filter} : view' = [view EXCEPT !.filter = f, !.dirty = TRUE]
    /\ UNCHANGED <<kind, serverVars, alive, channel, popup, copy, watch, form, ghostVars>>

Select ==
    /\ Usable /\ kind # "buffer"
    /\ \E i \in (0 .. Len(view.shown)) \ {view.selected} : view' = [view EXCEPT !.selected = i]
    /\ UNCHANGED <<kind, serverVars, alive, channel, popup, copy, watch, form, ghostVars>>

\* The list of users finds its selected name again, the others keep the index if
\* there still is such an item.
Render ==
    /\ popup.state = "live" /\ view.dirty /\ kind # "buffer"
    /\ LET shown == Filtered(copy)
           again == IF view.selected = 0 THEN {} ELSE At(shown, view.shown[view.selected].key)
           selected == IF kind = "users"
                       THEN IF again = {} THEN 0 ELSE Min(again)
                       ELSE IF view.selected <= Len(shown) THEN view.selected ELSE 0
       IN  view' = [view EXCEPT !.shown = shown, !.selected = selected, !.dirty = FALSE]
    /\ UNCHANGED <<kind, serverVars, alive, channel, popup, copy, watch, form, ghostVars>>

--------------------------------------------------------------------------------
(***************************************************************************)
(* The forms that change what the server knows.  One is on top of the      *)
(* popup at a time; the list of authentication methods is its own form.    *)
(***************************************************************************)

Form(change, role) ==
    [NoForm EXCEPT !.state = "open", !.id = form.id, !.change = change, !.role = role]

Selected == view.shown[view.selected]

\* The form opens on an item as it is shown, and a user's form then follows the
\* watch from here on.
OpenForm ==
    /\ Usable /\ form.id < MaxSubmits /\ kind # "methods"
    /\ \/ /\ kind = "users" /\ view.selected # 0
          /\ form' = Form([op |-> "update", key |-> Selected.key, value |-> None], Selected.value)
          /\ watch' = [watch EXCEPT !.form = <<>>]
       \/ /\ kind = "sockets" /\ view.selected # 0
          /\ form' = Form([op |-> "delete", key |-> Selected.key, value |-> None], None)
          /\ UNCHANGED watch
       \/ /\ \E k \in Keys : \E c \in Changes(k) :
                c.op \in {"add", "set"} /\ form' = Form(c, None)
          /\ UNCHANGED watch
    /\ UNCHANGED <<kind, serverVars, alive, channel, popup, copy, view, ghostVars>>

Updating == form.state # "none" /\ form.change.op = "update"

\* user_role_changed, but for an event about a deletion.
FormFollows ==
    /\ watch.form # None /\ watch.form # <<>>
    /\ LET item == Head(watch.form)
       IN  form' = IF item.key = form.change.key /\ item.value # None
                   THEN [form EXCEPT !.role = item.value] ELSE form
    /\ watch' = [watch EXCEPT !.form = Tail(@)]
    /\ UNCHANGED <<kind, serverVars, alive, channel, popup, copy, view, ghostVars>>

\* The delete button of a user's form: another form takes its place.
TurnToDelete ==
    /\ Updating /\ form.state = "open"
    /\ form' = Form([form.change EXCEPT !.op = "delete", !.value = None], form.role)
    /\ watch' = [watch EXCEPT !.form = None]
    /\ UNCHANGED <<kind, serverVars, alive, channel, popup, copy, view, ghostVars>>

Submitted(f, change) ==
    /\ form' = [f EXCEPT !.state = "waiting", !.id = f.id + 1, !.change = change]
    /\ requests' = Append(requests, [type |-> "set", id |-> f.id + 1, change |-> change])
    /\ UNCHANGED <<kind, truth, server, stream, answers, alive, channel, popup, copy, watch,
                   view, others, count, readAt, ghostVars, raced, had>>

\* perform_request.  An update may be of the password only.
Submit ==
    /\ form.state = "open" /\ form.id < MaxSubmits
    /\ \E v \in {form.change.value} \cup (IF Updating THEN Roles ELSE {}) :
          Submitted(form, [form.change EXCEPT !.value = v])

\* set_auth_method, to the opposite of what the copy has by now.
Toggle ==
    /\ Usable /\ kind = "methods" /\ view.selected # 0 /\ form.id < MaxSubmits
    /\ LET e == copy[view.selected]
       IN  Submitted(form, [op |-> "set", key |-> e.key,
                            value |-> IF e.value = "on" THEN "off" ELSE "on"])

Closed == [NoForm EXCEPT !.id = form.id]

\* What a form tells the watch when its change was made: an update that leaves the
\* role takes it to be what the form has.
Told ==
    LET c == form.change
        v == IF Updating /\ c.value = None THEN form.role ELSE c.value
    IN  [key |-> c.key, value |-> v, count |-> form.count, guess |-> v # form.value]

\* Mutation of FormAnswered: any answer is taken for a success.
FormAnsweredWell ==
    /\ form.state = "ready"
    /\ Publish(Told, {"popup"}) /\ form' = Closed
    /\ view' = [view EXCEPT !.dirty = @ \/ kind = "methods"]
    /\ UNCHANGED <<kind, serverVars, alive, channel, popup, copy>>

\* The task of the request resumes.  A change that was made closes the form; else
\* a message comes up, and the form may be used again.
FormAnswered ==
    /\ form.state = "ready"
    /\ IF form.ok
       THEN Publish(Told, {"popup"}) /\ form' = Closed
       ELSE /\ form' = IF kind = "methods" THEN Closed ELSE [form EXCEPT !.state = "open"]
            /\ UNCHANGED <<watch, ghostVars>>
    /\ view' = [view EXCEPT !.dirty = @ \/ kind = "methods"]
    /\ UNCHANGED <<kind, serverVars, alive, channel, popup, copy>>

\* Mutation of FormFails: the task returns without another word.
FormFailsSilently == ~alive /\ form.state = "waiting" /\ UNCHANGED vars

\* The answer will not come, which is an error like the others.
FormFails ==
    /\ ~alive /\ form.state = "waiting"
    /\ form' = IF kind = "methods" THEN Closed ELSE [form EXCEPT !.state = "open"]
    /\ UNCHANGED <<kind, serverVars, alive, channel, popup, copy, watch, view, ghostVars>>

CloseForm ==
    /\ form.state = "open"
    /\ form' = Closed
    /\ watch' = [watch EXCEPT !.form = None]
    /\ UNCHANGED <<kind, serverVars, alive, channel, popup, copy, view, ghostVars>>

--------------------------------------------------------------------------------
(***************************************************************************)
(* The specification.  Every task, of the client and of the server, runs   *)
(* while it can; the users of the two clients need not do anything.        *)
(***************************************************************************)

ServerStep ==
    /\ alive
    /\ ServeChange \/ ServeList \/ ServeRead \/ \E m \in Managers : Finishes(m)

\* Without its connection the interface is about to end.
UserStep ==
    /\ alive
    /\ \/ OpenPopup \/ ClosePopup \/ ChangeFilter \/ Select
       \/ OpenForm \/ TurnToDelete \/ Submit \/ Toggle \/ CloseForm

Next ==
    \/ ServerStep
    \/ \E k \in Keys : \E c \in Changes(k) : OtherChanges(c)
    \/ ReadEvent \/ ReadAnswer \/ Forward \/ ConnectionFails
    \/ PopupLoads \/ PopupApplies \/ PopupFails \/ Render
    \/ FormFollows \/ FormAnswered \/ FormFails
    \/ UserStep

Spec ==
    /\ Init /\ [][Next]_vars
    /\ WF_vars(ServerStep)
    /\ WF_vars(ReadEvent) /\ WF_vars(ReadAnswer) /\ WF_vars(Forward)
    /\ WF_vars(PopupLoads) /\ WF_vars(PopupApplies) /\ WF_vars(PopupFails) /\ WF_vars(Render)
    /\ WF_vars(FormFollows) /\ WF_vars(FormAnswered) /\ WF_vars(FormFails)

--------------------------------------------------------------------------------
\* Only a list that has come is shown; what is selected is there; and no two
\* items are for the same key, in the order the searches in the list rely on.
ListInv ==
    /\ \A i, j \in 1 .. Len(copy) : copy[i].key = copy[j].key => i = j
    /\ kind \in {"users", "sockets"} => InOrder(copy) /\ InOrder(view.shown)
    /\ kind = "methods" /\ popup.state = "live" => Len(copy) = Cardinality(Methods)
    /\ kind = "buffer" => (popup.state = "live" <=> Len(copy) = 1)
    /\ copy # <<>> => popup.state = "live"
    /\ view.selected <= Len(view.shown)
    /\ {e \in Range(copy) : e.value = None} = {}

\* A copy never shows what the server never had: a refused or failed request
\* leaves no trace in it, and a late answer at most brings back what once was.
NothingInvented == Range(copy) \subseteq had /\ Range(view.shown) \subseteq had

Settled ==
    /\ alive /\ popup.state = "live"
    /\ \A m \in Managers : server[m] = Idle
    /\ requests = <<>> /\ stream = <<>> /\ answers = <<>> /\ channel = <<>>
    /\ watch.popup = <<>> /\ form.state \in {"none", "open"}

\* Once everything has arrived, the copy is what the server has, but for a key
\* whose last change the copy lost (it came before the subscription, or the watch
\* overflowed) or undid (by an answer, or an event, that came after that of a later
\* change), and for a buffer size that two managers set at the same time.
CopyTrue ==
    Settled => \A k \in Keys \ (stale \cup raced) :
                  truth[k] = IF At(copy, k) = {} THEN None ELSE copy[Min(At(copy, k))].value

\* Nobody waits for ever: an open popup comes to show its list, or an error, and
\* a form with a request becomes usable again or closes.
WaitsEnd ==
    /\ popup.state = "waiting" ~> (popup.state # "waiting" \/ (kind = "buffer" /\ ~alive))
    /\ form.state = "waiting" ~> form.state # "waiting"

=================================================================================
