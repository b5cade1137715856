# Verification of dust-devil

dust-devil is a socks5 proxy server written in Rust on tokio, with a monitoring
and administration protocol (*sandstorm*) and a client for it (command line and
terminal interface). This directory holds TLA+ models of it, the TLC
configurations that check them, and TLAPS proofs. Paths below are relative to
`dust-devil/src` (the server), `sandstorm/src` (the client) or
`dust-devil-core/src` (the types both use, with the text of the protocol in
`dust-devil-core/sandstorm_protocol.txt`).

1. [The system](#1-the-system) 2. [The modules and the
code](#2-the-modules-and-the-code) 3. [What the runs
check](#3-what-the-runs-check) 4. [Fairness](#4-fairness) 5. [What is
proved](#5-what-is-proved) 6. [What the code does otherwise than it
says](#6-what-the-code-does-otherwise-than-it-says) 7. [What is not
modelled](#7-what-is-not-modelled) 8. [Plan](#8-plan)

## 1. The system

```
 socks5 client --> handle_socks5 --------------------> destination
                     |   LogSender (broadcast)
                     v
                  metrics_task, logger_task x sinks <--- LogManager::join
                     ^                ^
                     | MetricsRequest | broadcast
 manager <--> handle_sandstorm (reader | writer) --- MessageType ---> main loop
                     |                                                  |
                     v                                                  v
                UserManager (DashMap + admin_count)            listeners, shutdown
                     |
                 users file

 sandstorm client:  handle_requests --> SandstormRequestManager --> socket
                    terminal interface tasks --(mutex)--^
                    reader task --> handlers, event sink --> output, interface
```

| component | state | operations | hard behaviour | what makes it correct |
|---|---|---|---|---|
| users (`users.rs`, `context.rs`) | DashMap of users in locked shards, `admin_count` atomic | `insert`, `update`, `delete`, `save_to_file`, `from_file`, `insert_or_update`, `try_login` | requests of several worker threads; the count is outside the shard locks; the save reads a live table, over several awaits | the last administrator stays; answers are those of an atomic table; the file holds what the table held; a restart brings it back |
| main loop (`server.rs`) | two lists of listeners, one message channel, two cancel tokens | start up, accept, answer messages, end | messages and signals race; everything still queued is dropped at the end | requests take effect in order; a shutdown reaches every connection; somebody can log in |
| sandstorm connection (`sandstorm/`) | reader position, notification channel, three queues of oneshots, write buffer, event receiver | read a request, notify, answer, stream, flush, end | four bounded channels in a circle, a biased select, half-closed sockets | each request answered once and in the order of its class; nothing lost at the end; the connection ends |
| event log (`logger.rs`) | broadcast ring, metrics counters, sink buffers | `send`, count, request metrics, subscribe, write, `join` | receivers lag; requests race events; tasks end when the last sender does | metrics are those of the events; sinks account for all events; the join returns |
| socks5 connection (`socks5/`) | position in the negotiation, two buffers, the state of each copy direction | handshake, authentication, name resolution, connect, copy | half-close, reset of one end, short writes, several addresses, settings that change meanwhile | a client that is not let in reaches nothing; nothing is lost or reordered; both directions end |
| client library (`sandstorm.rs`) | a queue of handlers per command, `remaining`, flush notifier, `was_shutdown` | a request function per command, reader task, `flush_and_wait`, shutdown | answers without identifiers that overtake each other; early end of the stream; the writer waits for the reader | each handler gets its own request's answer; the verdict on the end of the stream is true |
| command line client (`client.rs`, `handle_requests.rs`, `handle_output.rs`) | the requests still to send | run a list of requests, print answers and events, end | the end of the stream arrives by several ways | a good end is reported as one |
| terminal interface (`tui/`) | copies of users, sockets, settings and metrics; popups; focus; tasks that share the request manager | key events, server answers, log events, quit | copies kept from a list and a stream of events that overlap; tasks aborted at an await | a popup shows what the server has; quitting ends |
| users file, lines (`utils/process_lines.rs`) | a buffer of fixed size | read lines, parse, escape, write | lines cut between reads, a full buffer, a file of half a save | what is read is what the format says |
| arguments, encodings (`args.rs`, `serialize.rs`, ...) | none | parse, read, write | none that runs concurrently | round trips |

`PROJECT.json` lists the hazards of this code at their lines, with the
properties that look at each.

## 2. The modules and the code

| module | role | models |
|---|---|---|
| `Users` | data | roles, entries, tables and answers of `users.rs` |
| `UserRegistry` | abstract | a table of users whose requests are atomic and never take the last administrator |
| `UserManager` | detailed | `users.rs` and the user requests of `context.rs`, step by step under the shard locks, with the final save |
| `UsersFile` | functions | the format of the users file: reading a line, a file, writing a user |
| `UsersLifecycle` | detailed | starting (file, arguments, default administrator), requests, saving, dying, starting again |
| `Pipeline` | abstract | what the protocol asks of pipelined requests |
| `SandstormServer` | detailed | the two halves of sandstorm connections and the message branch of the main loop |
| `SandstormClient` | detailed, over `Pipeline` | the client library with its three ways of use |
| `EventLog` | detailed | `logger.rs`, with the server and the connections as holders of senders |
| `Tunnel` | abstract | a two-way byte stream with half-close |
| `Socks5` | detailed | one socks5 connection, from the handshake to the end of the copy |
| `ListPopups` | detailed | the copies of users, sockets, authentication methods and buffer size in the interface, with the server, the events, the watches and the forms they depend on |
| `LongList`, `TextEntry`, `UsageTracker` | functions | elements of the interface with a state of their own |
| `Popups` | functions, over `LongList` and `TextEntry` | each popup: its elements, its focus, keys, requests and their answers |
| `MainScreen` | detailed, over `Popups` and `UsageTracker` | the screen: menu bar, log, graph, the stack of popups, keys, time, sizes, drawing |
| `MainScreenInvariant` | the inductive invariants of `MainScreen` | `IInv`, `LinesInv`, `TrackerInv` and `GraphInv`, for the proofs |
| `MainScreenTerms` | the terms of their lemmas | what is so of a part between two steps of an operator, and names for what operators put together |
| `UserManagerProofs`, `UsersLifecycleProofs`, `EventLogProofs`, `SandstormServerProofs`, `SandstormClientProofs`, `Socks5Proofs`, `ListPopupsProofs`, `MainScreenProofs` | proofs | |
| `MC*` | instances | constants for TLC |

`UserManager` implements `UserRegistry`, `SandstormServer` implements `Pipeline`,
`Socks5` implements `Tunnel`; each refinement is a property of a run.
`SandstormClient` runs against an *instance* of `Pipeline`, so that client and
server meet at that specification: what the client is shown to do rests only on
what the server is shown to promise, and both halves are proved
(`SandstormServerProofs`, `SandstormClientProofs`). `UsersLifecycle` takes
requests as atomic, which is what `UserManager` implementing `UserRegistry`
allows. `ListPopups` takes from `UserManager` that a change and its event are two
steps, and from `SandstormServer` and `SandstormClient` that answers come in order
and one stream of bytes carries them and the events; `MainScreen` in turn leaves
what the lists show to `ListPopups`: there, a list has a number of items that may
change at any time.

Atomicity. The server runs on several threads: an action of its modules is what
happens under one lock, on one atomic or between two awaits, whichever is
shorter. The client runs on one thread: there, an action is what happens between
two awaits.

**UserManager.** One action per locked section. `Insert` is
`DashMap::entry` of `insert`, `InsertFetchAdd` the `fetch_add` that follows the
release of the shard (`users.rs:259`). `Update` and `Delete` take the shard and
pass the counter's closure (`:294`, `:328`); `Write` changes the entry and lets
go of the shard; `Return` and `LogEvent` are the rest of `context.rs:402-443`,
`LogEvent` appending the event after the lock is gone. The save is
`BeginSave`, `CollectShard` for each shard of the iterator, which holds read
guards through the references it collected, `EndCollect`, `SaveUser`, `EndSave`
or `SaveError`. Abstracted: the hash is the constant `ShardOf`; strings are
values; which of them are unprintable is a constant.

**UsersFile, UsersLifecycle.** The scanner of `parse_line_into_user` is a fold of
`ScanChar` over characters, one per byte. `ReadChunk` is one read of
`process_lines_utf8` of any size, `EndRead` and `ReadError` its ends;
`WithArguments` and `WithDefault` are the steps of `create_user_manager`.
`SaveUser` writes through a `BufWriter`, which may reach the file at any moment;
`Die` kills the server anywhere and leaves what had reached the file.

**SandstormServer.** `Read` takes a request and does what `run_command` does up
to its first await; `SendMessage`, `RequestMetrics` and `Notify` are the awaits
on the three bounded channels; `HandleMessage` and `Signal` are the main loop,
`HandleMetrics` the metrics task as a connection sees it. The writer is one
action per branch of the biased select (`response_handler.rs:182-225`), each with
the guard that the earlier branches are not ready, and the await in
`TakeNotification` when a receiver queue is full (`:282`). `Cancel` drops both
halves. The notification of a direct answer carries the answer; its class is the
protocol's (see `Pipeline`).

**EventLog.** `Send` appends to a log of which only the last `Buffer` entries
can still be read; each entry also remembers the true metrics, for the
properties. `CountEvent`, `MetricsLagged`, `TakeRequest`, `Reply` and
`EndMetrics` are the branches of `metrics_task`. A round of its biased select that
finds no event is two steps, the poll of the log (`PollLog`) and that of the
requests (`TakeRequest`, or `MetricsWaits` if there is none): the senders run on
other threads, and log and ask in between. `SinkEvent`, `SinkLagged` and
`EndSink` are the branches of `logger_task`. Connections hold senders until they end or are
cancelled, which is what `join` waits for.

**SandstormClient.** `Push` is the common part of the seventeen request functions
(handler queued, `remaining` raised, bytes written), `Flush`, `MainRegisters`
(`flush_and_wait`) and `Close` the rest of the manager; `ReaderAnswers`,
`ReaderForwards`, `ReaderEnds` the reader task. The main flow follows
`run_client_inner`, `handle_requests`, `handle_output` and the select of
`handle_interactive_inner`; tasks of the interface queue for the mutex, ask,
flush, and are aborted by popups that close.

**Socks5.** What a client sends is a sequence of tokens, a whole message of the
negotiation or a byte of data; it may be ahead of the answers, in which case it
waits in the `BufReader` that the copy goes on with. `ReadHello` to `ReadName`
are the messages, `TryNoAuth` and `TryUserPass` the two atomics that
`select_auth_method` reads one after the other, `Connect` one round of
`connect_socket`: a success, an address for which no socket can be made or bound, or
a connection that fails with any of the statuses `SocksStatus::from` makes of an
error (`ConnectErrors`). A name or a password that is not UTF-8, like one that never
comes, ends the connection without an answer. `Fill`, `Transfer`, `SeesEnd`, `ShutsDown` are the states of
`transfer_one_direction`; a write takes any part of the buffer. A direction
notices a reset only where it touches that end (`ReadFails`, `WriteFails`).

**ListPopups.** One behaviour is about one of the four copies, the variable
`kind`. The server's part is what `context.rs:398-490` does in each step: users
and authentication methods are stored and then logged, the buffer size is logged
and then stored, sockets are changed by the main loop in one step; `ServeRead`
reads a list shard by shard, or flag by flag. `ReadEvent` and `ReadAnswer` are the
reader task, `Forward` is `handle_stream_event`, which sends into the watch
(`Publish`) of those subscribed. `PopupLoads` fills the list and only then
subscribes; `PopupApplies` follows the watch. `UserChanged`, `SocketChanged` and
`AuthMethodChanged` are the three `*_changed`, with their binary searches: where
several items compare equal (two names that differ in case only, say) any of them
may be found. The list a filter leaves is the whole list without what the filter
does not take, in the same order (`Filtered`). A form follows its user's role
(`FormFollows`), asks, and tells the watch when it is answered (`Told`,
`FormAnswered`). Changes are counted per key, for the properties only.

**LongList.** The cache of lines has one entry per item, with what it was made
from: `ItemRemoved`, `ItemCountSet`, `ListResized` and `ListKey` are the methods
of the controller and its keys; `Centered`, `Widened` and `Processed` are the
loop of `process_lines` (`long_list.rs:524-717`) and `Numbered` the lines it
draws.

**TextEntry.** The text is a sequence of characters of one or more bytes, with
the cursor in characters and in bytes as in the code; `Erased`, `ErasedNext`,
`MovedBack` and `WordSkip` are the keys, `EntryDrawn` the scroll of `render`.

**UsageTracker.** `UsageRecorded`, `UnitSizeSet` and `ByUnit` are the methods;
the axis under the graph keeps labels (`LabelsEnsured`, `Relabelled`), which it
shifts or makes anew, for as many columns as the layout gives it (`AxisLength`).

**Popups.** A popup is its kind and, in a column, what can take the focus in it
(`UsersColumn`, ...). `PopupKey` is the way of a key: `PopupBase`, the content
while it loads or waits, the shortcuts, the element in focus; `PopupPassed` passes
the focus on. `Submitted`, `Agreed`, `Deletion`, `Addition` and `Toggling` are the
handlers, `Served` and `Refused` the ends of the tasks.

**MainScreen.** `Key` is a key for the top popup, or for the menu bar and the
main view through the focus cell (`CellKey`, `SplitKey`, `MainKey`, `MenuKey`).
`PopupArrives` and `PopupCloses` are the stack of `UIManager`, `Answered`,
`BeepEnds`, `ListLoads` and `ListChanges` what tasks of popups do to it,
`LogEvent` and `BytesEvent` the events, `Ticker` the background task of the graph,
`TerminalResized` the terminal. `Draw` is the whole of `draw`: a new layout if the
size or the expansion changed, the focus moved off what is no longer there
(`Refocused`), the lists, the graph, the label of the button.

## 3. What the runs check

| run | instance | checks |
|---|---|---|
| `users` | 2 managers, 2 names in 2 shards, 2 requests, the save, fair; 99 k states | `CountAccounting`: the counter differs from the table exactly by the insertions not yet counted; `AdminRemains`; `RefusalExplained`: refusing to touch "the only administrator" while there is another happens only within that window; `SaveTrue`: what is collected stays as it was until it is written; `ImplementsRegistry`; `EveryoneReturns`: neither a request nor the save waits for ever |
| `users_events` | 3 requests | *violated*: see 6 |
| `users_lifecycle` | 9 edited files, reads of any size, 2 starts, 2 requests; 5.5 M states | `LoadInv`: however the reads cut it, the file is read as the format says, and the count follows; `SomeoneCanLogIn`; `RestartKeepsSimpleUsers`: what was saved is what is loaded, if no name is empty or has a line break and no password is empty or has one or an escape; `PartialSaveInventsNothing`: half a save never makes a user nobody created |
| `users_restart` | passwords with an escape | *violated*: see 6 |
| `sandstorm` | a connection with 3 requests about sockets, or about streams and metrics, or two with one request each and a shutdown; all capacities 1, fair; 345 k states | `ServerInv` (types, capacities, no answer lost at the end), `SocketsTold`: pipelined socket requests answer as if each had waited for the one before; `ImplementsPipeline`; `AllAnswered`; `ConnectionsEnd`: after its client closed, if no events stream, and after a shutdown |
| `sandstorm_event_end` | 1 connection that streams | *violated*: see 6 |
| `log` | a client, a manager, one sink, ring of 1, counters modulo 4, debug build, 2 events beyond those of connections, fair; 272 k states | `MetricsTrue`: exact until an event is lost; `AnswersFresh`: metrics handed out count every event logged before they were asked for, unless they were asked for between the two polls of one select, then at least those that earlier answers counted, and the stream that follows repeats none; `SinksTrue`: lines tell of every event, lost ones by number, and wait in no buffer; `LogComplete`: a proper join leaves complete sinks; `JoinReturns` |
| `client` | 3 modes, 2 tasks, 3 requests, 2 events, channel of 1; 169 k states | `ClientInv` (types, `remaining` exact, each handler gets the answer to its own request), `FlushReturnsAnswered`, `EventsAllShown`, `EndsAsReported`: the verdict on the end is true, and nothing is written after the connection was closed; `EveryoneReturns`: a flush returns, a client that closes ends unless events are streamed to it, and one whose shutdown is answered ends in any case |
| `socks5` | 8 clients, 2 bytes back, buffers of 2, 1 change by a manager; 416 k states | `DialogueInv` (types, legal dialogues, nothing reached unadmitted), `TellsTheTruth`: addresses tried in order, the status (that of the last attempt that had a socket, `HostUnreachable` if none had) and the byte counts reported are those of what happened; `ImplementsTunnel`; `ServesAndEnds`: a half-closed connection goes on serving, and connections end |
| `lists` | each of the four copies, 2 keys, watches and channel of 1, one or two changes by another manager and one by a form; 554 k states | `ListInv`: no key twice, in the order the searches rely on, the selection there; `NothingInvented`: a copy shows only what the server once had; `CopyTrue`: once everything has arrived it shows what the server has, but for the cases below; `WaitsEnd`: no popup or form waits for ever |
| `main_screen` | 9 plans, each for one part of the screen; over 600 k states | `FocusTrue`: one element has the focus, the one that keys go to, and it is visible; `CacheTrue`: lines, seconds and units kept between draws are what they would be if made anew; `LogShown`: the log on the screen is of the events there are, around the selection; `GraphShown`: the graph is of the usage recorded, in the units selected, with its times; `FormsTrue`: a request that is out is the top popup's only one, every other popup can be closed and used; `EntryTrue`: the cursors agree and all of the text that fits is drawn; `SelectionFollows`: the selection stays on its event when the history drops old ones |
| `screen_window` | the same | *violated*: see 6 |

Each property of a passing run has a mutant in `PROJECT.json`: a small change of
one definition, of the kind a mistake in the code would be, under which TLC finds
the property violated in the same run. The mutated forms stand before the
definitions they change, marked *Mutation of*.

Why the bounds are enough. Every channel, queue and ring is given its smallest
capacity, 1, where the full case is met at once. The races on users are between
two requests on names in different shards; names that share a shard, more
managers and more names are what the proofs of section 5 are for, and so are the
wrap-around of the counters in a release build and rings of more than one event.
The two starts of `users_lifecycle` are one save and one load; its files have each
kind of line there is, and a line one byte below, and one above, the buffer. In
`client` two commands of different classes are the least that lets answers
overtake, two tasks the least that queue for the mutex. In `socks5` the buffer of
2 with three bytes of data meets full, partial and empty buffers; short writes
split it anywhere. In `lists` the two names differ only in their
case, so that the order of the list, which ignores it, ranks them as equal (two
addresses never are); two changes by the other manager and one by
the form are the least that overtake each other in each of the ways of section 6.
`main_screen` has nine plans, which are the keys, popups, sizes and events a
behaviour may have: a log of 3 events of 1 to 3 lines in four sizes; a graph of 3
seconds in units of 1, 2 and 3, with times that skip, and skip further than the
history, beside the log and expanded, so that its axis has several lengths; the focus with a resize in any place; each popup with those it opens; an
entry of 3 characters of one and two bytes, in and out of words. What a plan
leaves out cannot disturb what it is about (the log and the graph share the
layout and no other state; popups take all keys while there are any), which is
why one screen with everything at once is not needed.

`CHECK_DEADLOCK FALSE` is given where the system may stop: the server has ended,
or the bound on requests is used up. `Socks5` and `SandstormClient` say so with
an action `Terminated` instead, and are checked for deadlock. `ListPopups` and
`MainScreen` stop when their users have done all they may.

## 4. Fairness

All of it is weak fairness of steps the runtime takes by itself: tokio polls a
task again when what it waits for is there, and `select!` takes a ready branch.

* `UserManager`: a worker thread runs a request to its end; the main task is
  polled while the save is not over. Managers need not ask, the server need not
  stop.
* `SandstormServer`: each half of a connection, the main loop and the metrics
  task go on while they can; cancelled connections end. Clients are assumed to
  keep reading what they are sent (a client that does not read blocks its own
  connection, and is the reason flushes are not bounded); nothing makes them send
  or close.
* `EventLog`: the tasks run, cancelled connections end, the server goes on once
  it is stopping. Nothing makes it stop.
* `SandstormClient`: tasks are polled; the server keeps `Pipeline` and answers,
  or is gone. It closes once a shutdown is answered, and after the client's end if
  it does not stream; that it does so while it streams is not assumed, as
  `EndsAfterEof` shows that it need not (see 6), and so `EveryoneReturns` says
  nothing of a client that has closed and is streamed to. The user need not
  interrupt. `EveryoneReturns` starts when the
  connection has been closed: before that, `shutdown_task` looks every 200 ms
  whether it holds the only reference, and could be made to wait for ever by
  tasks that keep asking, which the bound on requests excludes.
* `ListPopups`: the tasks of the client and of the server run while they can, up
  to the failure of the connection; an answer is read if the events before it are
  taken, which `Forward` sees to. Neither user need do anything.
* `MainScreen` has none: its properties are about states and steps.
* `Socks5`: the connection's task is polled, an attempt to connect comes to an
  end, the two ends take what is written to them. Neither end need send, close
  or be reset, and no name need arrive.

## 5. What is proved

For any number of managers, names, shards, connections, sinks, and any
capacities, under the named assumptions on the constants
(`UsersAssumption`, `UserManagerAssumption`, `EventLogAssumption`,
`SandstormServerAssumption`, `SandstormClientAssumption`, `Socks5Assumption` and
the others of that form: finite sets, special values that are not ordinary ones, a
counter wider than the connections):

* `UserManagerProofs`: `TypeCorrect`, `ShardsExclusive`, `AdminsCounted`,
  `AnAdminRemains`, `SaveFrozen`, `SavesAreTrue`, `RefusalsExplained`,
  `Refinement`: all of the safety the run checks.
* `UsersLifecycleProofs`: `LoadingIsRight`, `SomeoneCanAlwaysLogIn`,
  `SimpleUsersComeBack` and `CutSavesInventNothing`: all of the safety the run
  checks, for any characters, file, reads, arguments, users and requests.
* `EventLogProofs`: `TypeCorrect`, `ConnectionsCounted`, `MetricsCorrect`,
  `NoPanicWithoutLoss`, `MetricsFresh`, `SinksTell`, `JoinCompletes`.
* `SandstormServerProofs`: `NoneLost` (the invariant `ServerInv` of the runs),
  `ManagersAreTold` (`SocketsTold`) and `PipelineImplemented`, the refinement of
  `Pipeline`: all of the safety the run checks.
* `SandstormClientProofs`: `AnswersReachTheirHandlers`, `FlushWaitsForAnswers`,
  `EventsComeThrough`, `EndIsAsReported`: all of the safety the run checks, for
  any tasks, scripts of requests, classes, events and capacity of the channel.
* `Socks5Proofs`: `DialogueStands`, `TruthTold` and `TunnelImplemented`, the
  refinement of `Tunnel`: again all of the safety the run checks, for any scripts,
  addresses, resolutions of names and size of the buffers.
* `ListPopupsProofs`: `ListsAreInOrder`, `NothingIsInvented` and
  `CopiesBecomeTrue`: all of the safety the run checks, for any keys, values,
  order of the list, changes by managers and forms, and capacities.
* `MainScreenProofs`: `OneHasTheFocus`, `FormsWork`, `EntriesAgree` and
  `SelectionStaysOnItsEvent` (`FocusTrue`, `FormsTrue`, `EntryTrue` and the action
  property `SelectionFollows`), from the inductive invariant of `Invariance`, and
  `CacheStays` (`CacheTrue`) and `GraphFollows` (`GraphShown`), from three more:
  for any plans of keys, popups, events and sizes, any length of the history and
  of the entries, any times and units, and characters of one to four bytes.

*Users.* The invariant `IInv` of `UserManager` is the conjunction of `TypeOK`,
`RequestPhases` (what a request in each phase knows), `ShardExclusion`,
`CountAccounting`, `AdminRemains`, `SavedShardsFrozen` and `SaveProgress`.
`AdminRemains` alone is not inductive: that a demotion may go ahead is decided on
`admin_count`, so one needs that the count never *over*states the
administrators, which is `CountAccounting`; that in turn needs the entry a
request counted on to be the one it overwrites, which is `ShardExclusion`. The
steps that change roles and the counter are treated by the lemmas `InsertEffect`,
`LockEffect` and `LockRoles` on what becomes of the set of administrators, whose
cardinality changes by one at most (`AdminsChange`, `AdminsCount`). For the
refinement the registry is the table with the pending writes of lock holders
already applied (`Effective`): a request takes effect when it has passed the
counter, `Write` is a stutter.

That a save writes what it collected needs, besides `SavedShardsFrozen` (an
entry collected is under a lock until the save is over, so no request changes it),
to know where each entry is: what was written of a user is nothing as long as the
user is to be written, and the entry collected from then on (`SaveAccounted`).

*The users file.* The invariant of `UsersLifecycle` has two halves. While a file
is read (`Loading`), the lines processed so far followed by the buffer are that
part of the file which has been read, the table is what `UsersOf` says of those
lines, none of them is malformed and each fitted the buffer: reads may stop
anywhere, and it does not matter where. While one is written (`Saved`), there is
an order of the users written so far, administrators first, of which the text is
the lines; a file that a save left is such a text (`Whole`) or the beginning of one
(`Cut`). What comes of it when it is read takes lemmas on texts: splitting what
lines were joined from gives the lines back, scanning an escaped name gives the
name back (from which follows that no line of a saved user is malformed and that
the colon found is the one written), and a last line that was cut is refused, or has
the name and the role and the beginning of the password. These are about the
recursive functions `Scan`, `LoadLines`, `Split`, `Escaped` and `WithArguments` on
sequences of any length, by induction; the library states induction for a
predicate, which the provers cannot instantiate, so it is derived here for a *set*
of numbers or sequences (`LeastNat`, `NatInduct`, `SeqInduct`), and with it a
property of a fold is one of its step.

What `UsersLifecycleAssumption` assumes of the constants: the characters the format
uses are among `Chars`; names and passwords of the arguments and of requests have at
most `MaxLength` characters (255: `parse_line_into_user` refuses longer ones and in a
request the length is one byte); and the buffer (8192 bytes) is longer than
`3 * MaxLength + 2`, which is the longest line a save can write: a role, a name in
which everything is escaped, a colon and a password. A file an operator edits may
have any lines. Without the last assumption `SimpleUsersComeBack` is false: a
line would be saved that is refused as too long. The proof also found that names
with a line break must be excluded from it: a request cannot give one
(`context.rs:402`), an argument can.

*Event log.* `IInv` follows the tasks: the log is a chain in which each total
comes from the one before (`LogChained`) and tells which connections are open;
the metrics task, until it has lost an event, holds the total at the position it
has read; a request being answered was asked before the task last found the log
empty, or since, between the two polls of one select (`RequestsOrdered`); a sink's
lines and losses add up to its position; who has ended found nobody left to log
(`EndsOrdered`). Freshness is the interesting one: that requests are the last
branch of a biased select makes the task read everything logged before it polls
the requests, but not what is logged, and followed by a request, between the two
polls. Such a request is answered without the latest events; what it is given is
still no older than what was given before, and a second request, whose round
begins with a poll of the log, gets the rest.

*Sandstorm connections.* `IInv` of `SandstormServer` says of each connection that
the requests it has handled so far, 1 to `Handled`, are each answered or waiting
in the queue of their class, oldest first, and none of them both (`InOrder`, which
counts: the answers and the three queues are `Handled` requests together); and
that the notifications between the two halves are the next requests, one after the
other, the one the writer waits at being the last it took (`InTurn`). So the head
of a queue, or the request the writer waits at when its class has no queue, is the
oldest of its class that is not answered (`MayAnswer`), which is what an answer of
`Pipeline` asks for. That messages of the main loop are about requests that were
asked (`MessagesTrue`) lets it answer them; what is in the buffer of the writer
has been answered (`BufferTrue`), and a connection finishes with an empty buffer
and nothing left to handle, so that a proper end loses no answer.

`ManagersAreTold` strengthens it to `TInv`. A request about sockets has no result
as long as it is on its way to the main loop, and then nothing of its connection
behind it has one (`WaitInv`): the main loop takes them in order. A request for
metrics is about no sockets (`MetricsInv`). So the sockets of a class that one
manager alone changes are what the results of its requests amount to, and each list
it was given is what those before it amount to (`TellInv`). `Told` is a function
along the requests of a connection; where a result is set, it changes from there on.

*The client library.* Answers carry nothing that says which request they are
for, so the invariant is about order. `CoreInv` says that the handlers of a
command are the requests of that command that wait, oldest first
(`HandlersWait`); that every answer on the wire is to a request that waits, and
that those to one class stand in the order of the requests (`WireAnswers`,
`WireOrdered`, which is what `Pipeline` promises), so the first answer of a
command is for the first handler of its queue (`AnswerForOldest`); and that
`remaining` is the number of requests that wait (`RemainingExact`). `PhaseInv`
says what a flush or an end in progress still has to see. `StreamInv` says that
the events are asked for once, that the answer to that is read before the events
behind it, and so that the sink is in place for them (`SinkInPlace`), and that
the numbers of the events shown, in the channel and on the wire follow each other
without a gap (`EventsNumbered`). A step of the client appends to the queues, a
step of the server to the wire, a step of the reader takes the head of both:
there is a lemma for what each of these leaves true (`CorePush`,
`CoreServerAnswers`, `CoreAnswered`, and the same for the events).

*Socks5 connections.* `IInv` says what each stage knows. `Dialogue`: what the
client has been told when the stage begins, so that a reply continues a dialogue
of the protocol. `Tries`: before the copy no attempt has succeeded, `last_error` is
what the last one with a socket came to, and the addresses tried followed by those
left are the resolution (`TriedMoves`). `Copied`: before the copy nothing was
delivered, and a direction that is no longer running has an end that closed its
side, with nothing unread and nothing in the buffer; this is what makes a copy that
ends well have delivered everything. For the tunnel, what a source has sent is what
was delivered, then what is in the buffer, then what has not been read, once a
destination is reached; what the client sends ahead is sent at that moment
(`NegotiationRefines`), filling a buffer moves bytes inside it (`FillRefines`), and
a write delivers its next bytes (`TransferRefines`).

*The copies of the interface.* Whatever travels, an event in a stream, a channel
or a watch, an answer, the value a form tells, bears (for the properties) the number
of the change of its key that it is about. `Sound` says of a key, a value and such a
number that the server has had the value, and that it is the one in force if there
was no change since. The invariant says that everything on its way is sound
(`FlowInv`, `ServerInv`, `ListsInv`, `FormInv`), that the latest change of a key has
reached the copy, is stale, or is on its way to it (`Coming`, `ReachInv`), and that
the copy holds for each key the value of the change it was last given
(`CopyInv`); when nothing is on its way any more, this is what the server has.
The popup subscribes only after its list was read, hence the interval in which
changes are lost, and what a form tells may overtake an event; `stale` and `raced`
record just that. For `ListInv` the binary searches are shown to return the
place of an item or the one where it belongs, for any order of the keys that is total
up to ties.

*The screen.* `IInv` (in `MainScreenInvariant`) has a part for each layer. A popup is good
(`PopupGood`) if what shows the focus in it is the element at its index, if both
cursors of its entries agree, and if it can be closed, is closing or waits
(`PopupForm`). On the stack the kinds go up level by level (`Ordered`), those on
their way included: a popup is sent without a look at what is there, and that none
is there twice follows from who can send which. A popup that waits, or that has no
buttons for it asked, has nothing over it and nothing on its way (`Alone`); this
is what makes it safe to take the focus from the one on top whenever another
comes. Under the popups the focus is nowhere, in the menu bar or on one element of
the main view that the layout shows (`UiCases`), and the list of the log has an item
for each event, with its selection on one of them (`LoggedIs`). There is a lemma for
each operator of the model that changes one of these; those on the entries rest on
the bytes of a text being counted character by character (`BytesFold`,
`BytesConcat`), by induction as above, and `EntryIsVisible` on the arithmetic of
`EntryDrawn` alone.

That what is kept between renders is true (`CacheTrue`) needs two more invariants.
`LinesInv`: the lines kept are those of the items `b .. b+n-1` for some `b` and
`n`, as they are in the history *now*, whose indices move whenever the oldest
event is dropped, and at the width of now. That they are *in a row* is what
`CacheTrue` lacks to be inductive: an item that is dropped is taken out of the
lines by its index, and the ones after it get a new one; a render looks for the
item under the selection by its distance from the first line kept, adds lines at
both ends only, and drops the rest. There is a lemma for each of these (`RowPart`
and those after it, `LinesStep`). `TrackerInv`: each second of the history is what
was recorded in it and nothing was recorded after its end; the units start at a
multiple of the unit and end with the unit of the last second, and each one that
starts in the history is the sum of what was recorded in it (`UnitsTrue`). Of a
unit that begins before the history the sum may still hold seconds that were
dropped, or lack them after a change of the unit, and neither the property nor the
invariant says anything of it. Unless a time was given that is further ahead than
the history is long (`gapped`), the history keeps to `MaxHistory` seconds and ends
at most two after the clock; after one the buffer has grown (`Grown`) and need
not. The sums are folds over sets, which are unrolled one element at a time
(`SumsTo`).

That the graph on the screen is that of the usage (`GraphShown`) needs `GraphInv`,
given `TrackerInv`. The labels of the axis are kept from one render to the next,
and only what is too old, too new or missing is changed, by counts that are
divisions: so the labels must be of multiples in a row, and the axis must know the
last of them (`AxisTrue`); then what goes at either end, and what comes, keeps
them in a row (`LabelsCut`, `LabelsMore`), and a render ends them with the
multiple of now, with at least one label (`AxisRenderedIs`). And between two
redraws the screen has what the tracker and the axis have (`GraphDrawn`): whatever
changes these, the layout or the unit selected asks for a redraw, and a key that
asks for none leaves the unit (`KeyUnit`).

What it assumes: `Times` has an element, the one at which the interface starts;
the list of the log is made with `SelectLast` and without `Deselect`
(`log_block.rs:87`); the history holds at least two events (65536,
`log_block.rs:25`); a character takes one to four bytes (`CharBytes`); and the
graph beside the log, which is no narrower than `MinRightWidth`, has two columns left
beside its labels (`main_view/mod.rs:420`, `usage_graph.rs`: 34 and 9).

Attempts at these proofs changed the models where they were wrong: in `MainScreen`
and `Popups` a `CASE` had arms that overlap, of which TLA+ does not say that the
first is taken (`Shortcuts`, `ButtonsKey`); in
`ListPopups` the form that deletes a user kept the value of the update form it
was opened from (`TurnToDelete`); in `UsersLifecycle` a name with a line break was
taken for one that comes back.

In `LongList` and `UsageTracker` three operators were written anew, as they could
not be reasoned about: `ItemRemoved` and `ItemCountSet` take out the one place and
the end that the code takes out, where they filtered all lines, and `Grown`
doubles the capacity as the buffer does, where it chose a power of two.

Only model-checked: `LogShown` of `MainScreen`, that the search of a render ends,
and with the lines that fit around the selection, whose proof would follow the
fold of the search with what it still has to add above and below, and has not been
carried out; and every liveness property (`EveryoneReturns`, `AllAnswered`,
`ConnectionsEnd`, `JoinReturns`, `ServesAndEnds`, `WaitsEnd`), which with
`ENABLED` is beyond the prover.

## 6. What the code does otherwise than it says

* **Events of users out of order** (`users_events`, `EventsTellUsers`). Requests
  send their event after the shard is released (`context.rs:425`); two managers
  that change one user may have the events in the other order, and whoever keeps
  a copy of the users from the stream keeps a wrong role.
  `sandstorm_protocol.txt:98` asks for the order in which things occurred.
* **A closed connection that streams** (`sandstorm_event_end`, `EndsAfterEof`).
  The branch of the events comes before the flush and refills the buffer the loop
  waits to be empty (`response_handler.rs:212`), so a steady stream keeps a
  connection open whose client has closed its half; `sandstorm_protocol.txt:262`
  asks for the opposite. `ConnectionsEnd`, without a stream, is what does hold.
* **Passwords with escapes** (`users_restart`, `RestartKeepsUsers`). `save_to`
  escapes names and not passwords (`users.rs:232`), which are read with escapes.
  `RestartKeepsSimpleUsers` is what does hold.

* **A window that is not full** (`screen_window`, `WindowFull`). When both ends
  of a list have been reached, `process_lines` stops (`long_list.rs:588`), although
  one side may have more lines than were missing while the other lacks some: the
  first lines of the first event are then cut off and the bottom of the block is
  empty, where all of it would fit. The comments of the function (`:491`, `:595`)
  say it makes up for this. `LogShown` has what does hold: lines next to each
  other, with those of the selected event, and none missing but at the top.

Smaller things met on the way, with no run of their own:

* Metrics and the subscription that follows them are taken in two steps
  (`logger.rs:180-190`): an event in between is in neither. The comment there
  (`:182-184`), that the branch does not run unless the receiver of the log is
  empty, is true of the moment the select polled it; an event may have come since.
  `AnswersFresh` has what does hold.
* An interface that closes while events are streamed to it waits for the server to
  close, which may take as long as events keep coming (`EndsAfterEof` above).
* `CannotDeleteOnlyAdmin` may be answered while another administrator exists
  (the window of `RefusalExplained`).
* If a *regular* user has the default administrator's name, a server without
  administrators stays without one (`server.rs:265`), whence the exception in
  `SomeoneCanLogIn`.
* A users file that cannot be read or parsed is taken for an empty one, and
  overwritten at the end. Empty names, empty passwords, and passwords with a line
  break make such a file.
* `read_domainname` (`utils/chunk_reader.rs:44`) takes the end of the stream for a
  read of no bytes and loops: a client that closes in the middle of a name keeps
  its task running. `ServesAndEnds` excludes the stage `name`.
* A proxied end that has closed its side and is reset later is noticed only when
  the other end sends something.
* A manager that enables one authentication method and disables the other may
  have a client refused which offers both (`select_auth_method` reads one after
  the other).
* A copy in the interface may stay wrong: for a key whose change came after the
  list was read by the server and before the popup subscribed; after a watch
  overflowed; if the events of two managers come in the other order; if the answer
  of a form comes after the event of a later change; if an update of a password
  tells the role its form believed in; and for a buffer size that two managers set
  at once, as its event precedes the change (`context.rs:455`, `:484`). `CopyTrue`
  excludes exactly these, which `stale` and `raced` record.
* Between the key `g` and the next draw, a new size of the terminal makes the
  layout follow without the label of the button (`main_view/mod.rs:516-547`): the
  button then says what it no longer does, until it is pressed again.
* A list whose block has no line inside the border makes `render` take the first
  of no lines, and a list of one item that is higher than its block makes
  `render_scrollbar` divide by zero: `RenderPanics`, after which the model's
  screen is `crashed` and nothing more is asked of it.
* `record_usage` for a time further ahead than the history is long keeps a history
  longer than it should be, until the next record (`gapped`).
* With no items in the list of users or sockets, the button under it cannot be
  reached with the arrows or Tab, only by its shortcut.

## 7. What is not modelled

* *Speed and size.* No clocks; the ring, channels and buffers have the small
  capacities above; bytes are tokens.
* *The byte encodings* (`serialize.rs`, `logging.rs`, the `sandstorm` messages of
  the core crate) and the argument parsers: sequential, without state, with unit
  tests of their own for the largest.
* *Handshakes of sandstorm connections*: both modules start after them.
* In `SandstormServer`: the panic of the metrics task (it is in `EventLog`);
  `RecvError::Closed` of an event receiver, which cannot happen while the
  connection holds a sender.
* In `UsersFile`: characters of several bytes (`users.rs:149` skips white space
  byte by byte and would panic in the middle of one), files that are not UTF-8,
  names and passwords of more than `MaxLength` characters beyond their rejection.
* In `SandstormClient`: the write of a request is whole. A task aborted in the
  middle of a write that found the buffer full would leave half a request; every
  request is flushed before the next, so it takes a server that has stopped
  reading.
* In `Socks5`: writes of zero bytes and a pending `poll_flush`, which a
  `TcpStream` does not have; a message cut between two reads is one that is late.
  The buffer size in force when each reader is made is the constant `BufferSize`.
* `try_login` of users reads one shard; `Socks5` has its outcome only.
* In `ListPopups`: passwords; the second address family of the socket filter,
  which is a filter like that of the roles; a list of more than two items.
* In `MainScreen` and `Popups`: the mouse; colours and wording; which letters a
  menu item or an entry takes beyond what tells characters apart (one byte or
  more, of a word or not, a digit); which label of the menu bar is under the
  cursor when the focus comes from below (any). The selector of an update form
  starts at its first option. The terminal is wide enough for two buttons in a
  row, so that the focus enters them on the left. Entries are at least two
  columns wide. The bars of the graph (`usage_graph.rs:60-220`) are taken to draw
  the usage they are given, and `colored_logs.rs`, `text_wrapper.rs` to make lines
  that depend on the event and on the width.

## 8. Plan

Done, in this order: users and registry, their proofs; sandstorm connections and
pipelining; event log and its proofs; users file and lifecycle; client library and
modes; socks5 connections; the copies of the interface; its elements, popups and
screen; the proofs of the connections, of the client and of the tunnel; those of
the copies of the interface, of the users file and of the save; those of the
focus, the forms, the entries and the selection of the screen; and those of what
the screen keeps between renders, and of its graph.

Left, most important first:

1. *Proofs*: what the log shows (`LogShown`): that the search of a render ends with the
   window it set out for, from `LinesInv`.
2. *Handshakes* on both sides of a sandstorm connection, with the login of a user
   who is being changed, and the phases of `run_server_inner` before the loop.
3. *Encodings*: that what `serialize.rs` writes is what it reads back, over
   bounded inputs; the argument parsers against their usage texts.
