---------------------------- MODULE SandstormClient ----------------------------
(***************************************************************************)
(* The sandstorm client after its handshake: SandstormRequestManager and   *)
(* its reader task (sandstorm/src/sandstorm.rs), and the three ways        *)
(* client.rs uses it.  In every mode the requests of the command line are  *)
(* written first.  Then "requests" closes the connection and waits for the *)
(* answers; "logs" waits for the answers, subscribes to the event stream   *)
(* and prints it until interrupted; "interactive" does the same for the    *)
(* terminal interface, whose tasks share the manager behind a mutex.       *)
(*                                                                         *)
(* Answers carry no identifier: the reader gives an answer to the oldest   *)
(* handler of its command.  All tasks run on one thread, so what happens   *)
(* between two awaits is one action here.  The server is the abstract      *)
(* Pipeline, which SandstormServer implements; it may also go away at any  *)
(* moment.                                                                 *)
(***************************************************************************)
EXTENDS Naturals, Sequences, FiniteSets, SequencesExt

CONSTANTS
    Commands,       \* the commands asked for, other than Shutdown and Events
    ClassOf,        \* the class in which the server answers each command
    Modes,          \* the modes the client may be started in
    Tasks,          \* the tasks of the terminal interface that ask for things
    MaxScript,      \* bound on the requests of the command line
    MaxRequests,    \* bound on all requests
    MaxEvents,      \* bound on the events the server streams
    ChannelCap      \* SERVER_EVENTS_CHANNEL_SIZE

\* Shutdown has handlers of its own and a part in the verdict; Events is
\* EventStreamConfig.
AllCommands == Commands \cup {"Shutdown", "Events"}

ASSUME SandstormClientAssumption ==
    /\ Commands \cap {"Shutdown", "Events", "EventStream"} = {}
    /\ DOMAIN ClassOf = AllCommands
    /\ Modes \subseteq {"requests", "logs", "interactive"}
    /\ MaxScript \in Nat /\ MaxRequests \in Nat /\ MaxScript < MaxRequests
    /\ MaxEvents \in Nat
    /\ ChannelCap \in Nat \ {0}

VARIABLES
    mode,           \* what the arguments asked for
    script,         \* the requests of the command line not yet made
    main,           \* where handle_connection is
    quit,           \* the terminal interface's way out: no, quitting, closed
    lock,           \* the tasks that hold or await the mutex, holder first
    asking,         \* whether the holder has pushed its request
    asked,          \* the requests pushed so far
    sent,           \* how many of them have left the writer's buffer
    ended,          \* whether the writer has been shut down
    handlers,       \* the requests whose handler is queued, by command
    remaining,      \* ResponseHandlers::remaining
    wasShutdown,    \* ResponseHandlers::was_shutdown
    notifier,       \* the oneshot of flush_and_wait: none, armed, fired
    given,          \* the answer each request's handler was called with
    subscription,   \* what the Events handler was told: none, refused, on
    sink,           \* event_stream_sender: none, function, channel
    channel,        \* the events in the interface's channel
    shown,          \* the events the client has shown
    verdict,        \* what the reader task ended with
    result,         \* what run_client_inner returns
    received,       \* the requests the server has read
    answered,       \* the ids of those it has answered, in order
    logging,        \* whether the server keeps events at all
    streaming,      \* whether it streams them to this client
    emitted,        \* how many it has streamed
    wire,           \* what it has written and the reader has not read
    server          \* its half of the connection: open, eof, cut

mainVars == <<mode, script, main, quit, result>>

taskVars == <<lock, asking>>

writerVars == <<asked, sent, ended>>

handlerVars == <<handlers, remaining, wasShutdown>>

readerVars == <<notifier, given, subscription, sink, channel, shown, verdict>>

serverVars == <<received, answered, logging, streaming, emitted, wire, server>>

vars == <<mode, script, main, quit, lock, asking, asked, sent, ended, handlers,
          remaining, wasShutdown, notifier, given, subscription, sink, channel,
          shown, verdict, result, received, answered, logging, streaming,
          emitted, wire, server>>

Ids == 1 .. MaxRequests

Messages ==
    [command : AllCommands, id : Ids] \cup [command : {"EventStream"}, id : 1 .. MaxEvents]

TypeOK ==
    /\ mode \in Modes
    /\ script \in Seq(Commands \cup {"Shutdown"})
    /\ main \in {"requests", "flushed", "waiting", "subscribe", "subscribing",
                 "streaming", "interface", "pending"}
    /\ quit \in {"no", "quitting", "closed"}
    /\ lock \in Seq(Tasks) /\ IsInjective(lock)
    /\ asking \in BOOLEAN
    /\ asked \in Seq(AllCommands) /\ Len(asked) <= MaxRequests
    /\ sent \in 0 .. Len(asked)
    /\ ended \in BOOLEAN /\ wasShutdown \in BOOLEAN
    /\ handlers \in [AllCommands -> Seq(Ids)]
    /\ remaining \in 0 .. MaxRequests
    /\ notifier \in {"none", "armed", "fired"}
    /\ given \in [Ids -> Ids \cup {0}]
    /\ subscription \in {"none", "refused", "on"}
    /\ sink \in {"none", "function", "channel"}
    /\ channel \in Seq(1 .. MaxEvents) /\ Len(channel) <= ChannelCap
    /\ shown \in Seq(1 .. MaxEvents)
    /\ verdict \in {"none", "ok", "unanswered", "closed", "unexpected", "broken"}
    /\ result \in {"none", "ok", "failed"}
    /\ received \in [{"client"} -> Seq([command : AllCommands, class : {ClassOf[k] : k \in AllCommands}])]
    /\ answered \in [{"client"} -> Seq(Ids)]
    /\ logging \in BOOLEAN /\ streaming \in BOOLEAN
    /\ emitted \in 0 .. MaxEvents
    /\ wire \in Seq(Messages)
    /\ server \in {"open", "eof", "cut"}

Init ==
    /\ mode \in Modes
    /\ script \in UNION {[1 .. n -> Commands \cup {"Shutdown"}] : n \in 0 .. MaxScript}
    /\ main = "requests" /\ quit = "no" /\ result = "none"
    /\ lock = <<>> /\ asking = FALSE
    /\ asked = <<>> /\ sent = 0 /\ ended = FALSE
    /\ handlers = [k \in AllCommands |-> <<>>]
    /\ remaining = 0 /\ wasShutdown = FALSE
    /\ notifier = "none" /\ verdict = "none"
    /\ given = [id \in Ids |-> 0]
    /\ subscription = "none" /\ sink = "none"
    /\ channel = <<>> /\ shown = <<>>
    /\ received = [c \in {"client"} |-> <<>>]
    /\ answered = [c \in {"client"} |-> <<>>]
    /\ logging \in BOOLEAN /\ streaming = FALSE /\ emitted = 0
    /\ wire = <<>> /\ server = "open"

Running == result = "none"

\* Mutation of Polled: the select is not biased.
PolledInAnyOrder == Running

\* select! is biased: a verdict is taken before handle_connection is polled.
Polled == Running /\ verdict = "none"

--------------------------------------------------------------------------------
(***************************************************************************)
(* The request functions and the writer                                    *)
(***************************************************************************)

\* Mutation of Push: shutdowns are not counted.
PushShutdownUncounted(command) ==
    LET id == Len(asked) + 1
    IN  /\ id <= MaxRequests
        /\ asked' = Append(asked, command)
        /\ handlers' = [handlers EXCEPT ![command] = Append(@, id)]
        /\ remaining' = IF command = "Shutdown" THEN remaining ELSE remaining + 1
        /\ wasShutdown' = (wasShutdown \/ command = "Shutdown")
        /\ sent' \in sent .. Len(asked)
        /\ UNCHANGED ended

\* Queues the handler, counts it, and writes the request.  A full buffer makes
\* room by writing some of it out.
Push(command) ==
    LET id == Len(asked) + 1
    IN  /\ id <= MaxRequests
        /\ asked' = Append(asked, command)
        /\ handlers' = [handlers EXCEPT ![command] = Append(@, id)]
        /\ remaining' = remaining + 1
        /\ wasShutdown' = (wasShutdown \/ command = "Shutdown")
        /\ sent' \in sent .. Len(asked)
        /\ UNCHANGED ended

\* The writer's flush, which fails only once the server has gone.
Flush ==
    /\ \/ sent' = Len(asked)
       \/ server # "open" /\ sent' = sent
    /\ UNCHANGED <<asked, ended>>

\* shutdown_and_close, up to the wait that never ends.
Close ==
    /\ wasShutdown' = TRUE
    /\ ended' = TRUE
    /\ \/ sent' = Len(asked)
       \/ server # "open" /\ sent' = sent
    /\ UNCHANGED <<asked, handlers, remaining>>

--------------------------------------------------------------------------------
(***************************************************************************)
(* handle_connection and its three endings                                 *)
(***************************************************************************)

MainAsks ==
    /\ Polled /\ main = "requests" /\ script # <<>>
    /\ script' = Tail(script)
    /\ Push(Head(script))
    /\ UNCHANGED <<mode, main, quit, result, taskVars, readerVars, serverVars>>

\* flush_and_wait, in the modes that go on after the requests.
MainFlushes ==
    /\ Polled /\ main = "requests" /\ script = <<>> /\ mode # "requests"
    /\ main' = "flushed"
    /\ sent' = Len(asked)
    /\ UNCHANGED <<mode, script, quit, result, taskVars, asked, ended,
                   handlerVars, readerVars, serverVars>>

\* Mutation of MainRegisters: it waits without looking at remaining.
MainRegistersUnchecked ==
    /\ Polled /\ main = "flushed"
    /\ main' = "waiting" /\ notifier' = "armed"
    /\ UNCHANGED <<mode, script, quit, result, taskVars, writerVars, handlerVars,
                   given, subscription, sink, channel, shown, verdict, serverVars>>

MainRegisters ==
    /\ Polled /\ main = "flushed"
    /\ IF remaining # 0
       THEN main' = "waiting" /\ notifier' = "armed"
       ELSE main' = "subscribe" /\ UNCHANGED notifier
    /\ UNCHANGED <<mode, script, quit, result, taskVars, writerVars, handlerVars,
                   given, subscription, sink, channel, shown, verdict, serverVars>>

MainIsNotified ==
    /\ Polled /\ main = "waiting" /\ notifier = "fired"
    /\ main' = "subscribe"
    /\ UNCHANGED <<mode, script, quit, result, taskVars, writerVars, handlerVars,
                   readerVars, serverVars>>

\* handle_output and StreamEventReceiver::new ask for the events.
MainSubscribes ==
    /\ Polled /\ main = "subscribe"
    /\ Push("Events")
    /\ main' = "subscribing"
    /\ UNCHANGED <<mode, script, quit, result, taskVars, readerVars, serverVars>>

MainFlushesSubscription ==
    /\ Polled /\ main = "subscribing" /\ sent < Len(asked)
    /\ sent' = Len(asked)
    /\ UNCHANGED <<mainVars, taskVars, asked, ended, handlerVars, readerVars, serverVars>>

\* Being refused closes the connection of handle_output and fails the interface.
MainIsSubscribed ==
    /\ Polled /\ main = "subscribing" /\ sent = Len(asked) /\ subscription # "none"
    /\ \/ /\ mode = "logs" /\ subscription = "on"
          /\ main' = "streaming" /\ UNCHANGED <<result, writerVars, handlerVars>>
       \/ /\ mode = "logs" /\ subscription = "refused"
          /\ main' = "pending" /\ Close /\ UNCHANGED result
       \/ /\ mode = "interactive" /\ subscription = "on"
          /\ main' = "interface" /\ UNCHANGED <<result, writerVars, handlerVars>>
       \/ /\ mode = "interactive" /\ subscription = "refused"
          /\ result' = "failed" /\ UNCHANGED <<main, writerVars, handlerVars>>
    /\ UNCHANGED <<mode, script, quit, taskVars, readerVars, serverVars>>

\* The end of the requests, or the user's interrupt.
MainCloses ==
    /\ Polled
    /\ \/ main = "requests" /\ script = <<>> /\ mode = "requests"
       \/ main = "streaming"
    /\ main' = "pending"
    /\ Close
    /\ UNCHANGED <<mode, script, quit, result, taskVars, readerVars, serverVars>>

\* A write may fail once the server has gone; the interface fails when the sender
\* of its events is dropped.
MeetsError ==
    \/ server # "open" /\ main \in {"requests", "subscribe", "subscribing", "streaming"}
    \/ main = "interface" /\ sink = "none" /\ channel = <<>>

\* An error of handle_connection ends the client.
MainFails ==
    /\ Polled
    /\ MeetsError
    /\ result' = "failed"
    /\ UNCHANGED <<mode, script, main, quit, taskVars, writerVars, handlerVars,
                   readerVars, serverVars>>

\* run_client_inner returns what the reader task ended with.
MainTakesVerdict ==
    /\ Running /\ verdict # "none"
    /\ result' = IF verdict = "ok" THEN "ok" ELSE "failed"
    /\ UNCHANGED <<mode, script, main, quit, taskVars, writerVars, handlerVars,
                   readerVars, serverVars>>

--------------------------------------------------------------------------------
(***************************************************************************)
(* The terminal interface                                                  *)
(***************************************************************************)

\* The interface takes an event of the stream.
MainShows ==
    /\ Polled /\ main = "interface" /\ channel # <<>>
    /\ shown' = Append(shown, Head(channel))
    /\ channel' = Tail(channel)
    /\ UNCHANGED <<mainVars, taskVars, writerVars, handlerVars, notifier, given,
                   subscription, sink, verdict, serverVars>>

\* Ctrl-C returns at once; confirming the close popup spawns shutdown_task.
MainInterrupted ==
    /\ Polled /\ main = "interface"
    /\ \/ result' = "ok" /\ UNCHANGED quit
       \/ quit = "no" /\ quit' = "quitting" /\ UNCHANGED result
    /\ UNCHANGED <<mode, script, main, taskVars, writerVars, handlerVars,
                   readerVars, serverVars>>

\* A task upgrades its weak reference to the manager and waits for the mutex.
TaskLocks(t) ==
    /\ Running /\ main = "interface" /\ quit # "closed"
    /\ t \notin ToSet(lock) /\ Len(asked) + Len(lock) < MaxRequests
    /\ lock' = Append(lock, t)
    /\ UNCHANGED <<mainVars, asking, writerVars, handlerVars, readerVars, serverVars>>

Holds(t) == lock # <<>> /\ Head(lock) = t

TaskAsks(t) ==
    /\ Running /\ Holds(t) /\ ~asking
    /\ asking' = TRUE
    /\ \E command \in Commands \cup {"Shutdown"} : Push(command)
    /\ UNCHANGED <<mainVars, lock, readerVars, serverVars>>

\* The flush, after which the guard and the reference are dropped.
TaskFlushes(t) ==
    /\ Running /\ Holds(t) /\ asking
    /\ Flush
    /\ lock' = Tail(lock)
    /\ asking' = FALSE
    /\ UNCHANGED <<mainVars, handlerVars, readerVars, serverVars>>

\* Closing a popup aborts its task wherever it waits.  Nobody aborts the task
\* that asks for the shutdown.
TaskAborts(t) ==
    /\ Running
    /\ \E i \in 1 .. Len(lock) : lock[i] = t /\ lock' = RemoveAt(lock, i)
    /\ IF Holds(t) /\ asking
       THEN Last(asked) # "Shutdown" /\ asking' = FALSE
       ELSE UNCHANGED asking
    /\ UNCHANGED <<mainVars, writerVars, handlerVars, readerVars, serverVars>>

\* Mutation of NoReferenceLeft: the manager is taken from under the tasks.
NoReferenceNeeded == Len(lock) >= 0

\* The only reference left is that of shutdown_task, which tries every 200 ms.
NoReferenceLeft == lock = <<>>

ShutdownTaskCloses ==
    /\ Running /\ quit = "quitting" /\ NoReferenceLeft
    /\ quit' = "closed"
    /\ Close
    /\ UNCHANGED <<mode, script, main, result, taskVars, readerVars, serverVars>>

--------------------------------------------------------------------------------
(***************************************************************************)
(* reader_task                                                             *)
(***************************************************************************)

Incoming == Running /\ verdict = "none" /\ wire # <<>>

\* What the handlers given to event_stream_config_fn return.
SinkOfMode == IF mode = "interactive" THEN "channel" ELSE "function"

\* Mutation of TakeHandler: the newest handler takes the answer.
TakeNewestHandler(queue) == [id |-> Last(queue), rest |-> Front(queue)]

\* The oldest handler of the command takes the answer; the last answer that was
\* awaited wakes flush_and_wait.
TakeHandler(queue) == [id |-> Head(queue), rest |-> Tail(queue)]

\* Mutation of WakesFlush: any answer wakes flush_and_wait.
WakesFlushAlways(left) == left >= 0

WakesFlush(left) == left = 0

ReaderAnswers ==
    /\ Incoming /\ Head(wire).command # "EventStream"
    /\ LET answer == Head(wire)
           queue == handlers[answer.command]
           taken == TakeHandler(queue)
       IN  IF queue = <<>>
           THEN /\ verdict' = "unexpected" /\ sink' = "none"
                /\ UNCHANGED <<handlers, remaining, given, notifier, subscription>>
           ELSE /\ handlers' = [handlers EXCEPT ![answer.command] = taken.rest]
                /\ remaining' = remaining - 1
                /\ given' = [given EXCEPT ![taken.id] = answer.id]
                /\ notifier' = IF notifier = "armed" /\ WakesFlush(remaining')
                               THEN "fired" ELSE notifier
                /\ IF answer.command = "Events"
                   THEN /\ subscription' = IF streaming THEN "on" ELSE "refused"
                        /\ sink' = IF streaming THEN SinkOfMode ELSE "none"
                   ELSE UNCHANGED <<subscription, sink>>
                /\ UNCHANGED verdict
    /\ wire' = Tail(wire)
    /\ UNCHANGED <<mainVars, taskVars, writerVars, wasShutdown, channel, shown,
                   received, answered, logging, streaming, emitted, server>>

\* Mutation of ReaderForwards: an event that finds the channel full is dropped.
ReaderForwardsOrDrops ==
    /\ Incoming /\ Head(wire).command = "EventStream"
    /\ channel' = IF sink = "channel" /\ Len(channel) < ChannelCap
                  THEN Append(channel, Head(wire).id) ELSE channel
    /\ shown' = IF sink = "function" THEN Append(shown, Head(wire).id) ELSE shown
    /\ wire' = Tail(wire)
    /\ UNCHANGED <<mainVars, taskVars, writerVars, handlerVars, notifier, given,
                   subscription, sink, verdict, received, answered, logging,
                   streaming, emitted, server>>

\* A full channel makes the reader wait.
ReaderForwards ==
    /\ Incoming /\ Head(wire).command = "EventStream"
    /\ sink = "channel" => Len(channel) < ChannelCap
    /\ channel' = IF sink = "channel" THEN Append(channel, Head(wire).id) ELSE channel
    /\ shown' = IF sink = "function" THEN Append(shown, Head(wire).id) ELSE shown
    /\ wire' = Tail(wire)
    /\ UNCHANGED <<mainVars, taskVars, writerVars, handlerVars, notifier, given,
                   subscription, sink, verdict, received, answered, logging,
                   streaming, emitted, server>>

\* Mutation of EndOfStream: what was not answered is not looked at.
EndOfStreamUnchecked == IF ~wasShutdown THEN "closed" ELSE "ok"

EndOfStream ==
    IF ~wasShutdown THEN "closed"
    ELSE IF remaining \in {0, Len(handlers["Shutdown"])} THEN "ok" ELSE "unanswered"

\* The verdict is sent in the step that drops the event stream's sender.
ReaderEnds ==
    /\ Running /\ verdict = "none" /\ wire = <<>> /\ server # "open"
    /\ verdict' = IF server = "cut" THEN "broken" ELSE EndOfStream
    /\ sink' = "none"
    /\ UNCHANGED <<mainVars, taskVars, writerVars, handlerVars, notifier, given,
                   subscription, channel, shown, serverVars>>

--------------------------------------------------------------------------------
(***************************************************************************)
(* The server, as Pipeline describes it                                    *)
(***************************************************************************)

Server == INSTANCE Pipeline WITH
    Connections <- {"client"},
    Menu <- {[command |-> k, class |-> ClassOf[k]] : k \in AllCommands},
    asked <- received

ServerReads ==
    /\ Running /\ server = "open" /\ Len(received["client"]) < sent
    /\ LET command == asked[Len(received["client"]) + 1]
       IN  received' = [received EXCEPT !["client"] =
                           Append(@, [command |-> command, class |-> ClassOf[command]])]
    /\ UNCHANGED <<mainVars, taskVars, writerVars, handlerVars, readerVars,
                   answered, logging, streaming, emitted, wire, server>>

ServerAnswers(id) ==
    /\ Running /\ server = "open"
    /\ Server!Answer("client", id)
    /\ LET command == received["client"][id].command
       IN  /\ wire' = Append(wire, [command |-> command, id |-> id])
           /\ streaming' = (streaming \/ (command = "Events" /\ logging))
    /\ UNCHANGED <<mainVars, taskVars, writerVars, handlerVars, readerVars,
                   logging, emitted, server>>

ServerStreams ==
    /\ Running /\ server = "open" /\ streaming /\ emitted < MaxEvents
    /\ emitted' = emitted + 1
    /\ wire' = Append(wire, [command |-> "EventStream", id |-> emitted'])
    /\ UNCHANGED <<mainVars, taskVars, writerVars, handlerVars, readerVars,
                   received, answered, logging, streaming, server>>

ShutdownAnswered ==
    \E id \in Server!Answered("client") : received["client"][id].command = "Shutdown"

\* It closes once the client has ended and is answered, or a shutdown is.
ServerCloses ==
    /\ Running /\ server = "open"
    /\ \/ ended /\ Len(received["client"]) = sent /\ Server!Unanswered("client") = {}
       \/ ShutdownAnswered
    /\ server' = "eof"
    /\ UNCHANGED <<mainVars, taskVars, writerVars, handlerVars, readerVars,
                   received, answered, logging, streaming, emitted, wire>>

\* It goes away: shut down by someone else, or cut off, which may lose what the
\* client has not read.
ServerGoes ==
    /\ Running /\ server = "open"
    /\ \/ server' = "eof" /\ UNCHANGED wire
       \/ server' = "cut" /\ \E n \in 0 .. Len(wire) : wire' = SubSeq(wire, 1, n)
    /\ UNCHANGED <<mainVars, taskVars, writerVars, handlerVars, readerVars,
                   received, answered, logging, streaming, emitted>>

--------------------------------------------------------------------------------

Terminated == ~Running /\ UNCHANGED vars

MainFlow ==
    \/ MainAsks \/ MainFlushes \/ MainRegisters \/ MainIsNotified
    \/ MainSubscribes \/ MainFlushesSubscription \/ MainIsSubscribed

Reader == ReaderAnswers \/ ReaderForwards \/ ReaderEnds

Task(t) == TaskLocks(t) \/ TaskAsks(t) \/ TaskFlushes(t) \/ TaskAborts(t)

Next ==
    \/ MainFlow \/ MainCloses \/ MainFails \/ MainTakesVerdict
    \/ MainShows \/ MainInterrupted \/ ShutdownTaskCloses
    \/ \E t \in Tasks : Task(t)
    \/ Reader
    \/ ServerReads \/ \E id \in Ids : ServerAnswers(id)
    \/ ServerStreams \/ ServerCloses \/ ServerGoes
    \/ Terminated

\* Tokio polls every task that is woken.  A request that was pushed is flushed or
\* aborted.  The user need not interrupt; a task need not start.  The server reads
\* and answers what it is sent, and closes when it may as far as SandstormServer
\* promises it (ConnectionsEnd there): once a shutdown is answered, but not for the
\* client's end alone while it streams events, as each of them can come before the
\* flush that the server waits for.
Fairness ==
    /\ WF_vars(MainFlow) /\ WF_vars(mode = "requests" /\ MainCloses)
    /\ WF_vars(MainTakesVerdict) /\ WF_vars(MainShows) /\ WF_vars(ShutdownTaskCloses)
    /\ WF_vars(Reader)
    /\ \A t \in Tasks : WF_vars(TaskAsks(t) \/ TaskFlushes(t))
    /\ WF_vars(ServerReads) /\ WF_vars((~streaming \/ ShutdownAnswered) /\ ServerCloses)
    /\ \A id \in Ids : WF_vars(ServerAnswers(id))

Spec == Init /\ [][Next]_vars /\ Fairness

--------------------------------------------------------------------------------
(***************************************************************************)
(* Properties                                                              *)
(***************************************************************************)

\* No handler is ever called with the answer to another request: the server answers
\* a command's requests in order and the reader pops their handlers in that order,
\* though answers to different commands overtake each other.
HandlersGetOwnAnswers == \A id \in Ids : given[id] \in {0, id}

\* remaining is the number of requests that have been pushed and whose handler has
\* not been called, in any interleaving of tasks, aborts and answers.
RemainingExact == remaining = Cardinality({id \in 1 .. Len(asked) : given[id] = 0})

\* Every handler is still to be called or was called with its own answer, and all are
\* counted, in states of their type.
ClientInv == TypeOK /\ RemainingExact /\ HandlersGetOwnAnswers

\* flush_and_wait returns only when every request made before it has been answered.
FlushReturnsAnswered ==
    main = "subscribe" => \A id \in 1 .. Len(asked) : given[id] = id

\* The reader reports a good end only if it has seen the answer to everything but
\* shutdowns, and a server that keeps to the protocol is never called unexpected.
VerdictTrue ==
    [][verdict' # verdict =>
          /\ verdict' # "unexpected"
          /\ verdict' = "ok" => \A id \in 1 .. Len(asked) :
                                   given[id] = id \/ asked[id] = "Shutdown"]_vars

\* When the reader has seen a good end, no error that the end itself provokes (a
\* write that fails, an event stream that stops) makes the client fail.
CleanEndReported == verdict = "ok" => result # "failed"

\* Once the writer has been shut down nothing is pushed or written: the interface
\* closes only when no task can still use the manager.
NothingAfterClose == [][ended => asked' = asked /\ sent' = sent]_vars

\* The connection ends with nothing after it, and as the client says it did.
EndsAsReported == VerdictTrue /\ []CleanEndReported /\ NothingAfterClose

\* The positions of the events the server has streamed and the reader has not read.
EventsOnWire == {p \in 1 .. Len(wire) : wire[p].command = "EventStream"}

\* Between the sink and the screen no event is lost, repeated or reordered, from the
\* first one after the subscription on.
EventsAllShown ==
    LET taken == shown \o channel
    IN  /\ \A i \in DOMAIN taken : taken[i] = i
        /\ server # "cut" => Len(taken) + Cardinality(EventsOnWire) = emitted

\* flush_and_wait returns, or the client ends with the reader's verdict.
FlushReturns == (main = "waiting") ~> (main # "waiting" \/ ~Running)

\* A client that closes its connection comes to an end, unless the server streams it
\* events: then the verdict it waits for need not come.
CloseEnds == (main = "pending" \/ quit = "closed") ~> (~Running \/ streaming)

\* A client whose shutdown the server has answered comes to an end, streamed to or
\* not, and whether it has closed or still shows what is in its channel.
ShutdownEnds == ShutdownAnswered ~> ~Running

\* The client waits for nothing that does not come, but for the end of a stream.
EveryoneReturns == FlushReturns /\ CloseEnds /\ ShutdownEnds

=============================================================================
