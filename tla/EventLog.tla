-------------------------------- MODULE EventLog --------------------------------
(***************************************************************************)
(* The event log of the server: LogSender, LogManager, metrics_task and    *)
(* logger_task of dust-devil/src/logger.rs, with the server and the        *)
(* connections that log, as far as they hold a sender.                     *)
(*                                                                         *)
(* Events go through a broadcast channel, a ring of the last Buffer events *)
(* that every receiver reads at its own pace.  A receiver that falls       *)
(* behind is told how many it lost and goes on with the oldest one left.   *)
(* The metrics task counts what it receives and answers requests for the   *)
(* metrics; each logger task writes to its sink what it receives.  At the  *)
(* end LogManager::join waits for all of them.                             *)
(***************************************************************************)
EXTENDS Integers, Sequences, FiniteSets

CONSTANTS
    Conns,              \* the connections the server may accept
    Sandstorm,          \* those of managers; the rest are socks5 clients
    Sinks,              \* the logger tasks: standard output, a file
    Buffer,             \* EVENT_LOG_BUFFER
    MetricsCap,         \* METRICS_REQUEST_CHANNEL_SIZE
    CounterMod,         \* the current_* counters are unsigned, modulo this
    OverflowChecks,     \* a subtraction below zero panics (a debug build)
    MaxEvents,          \* bound on the events
    None

ASSUME EventLogAssumption ==
    /\ Sandstorm \subseteq Conns /\ IsFiniteSet(Conns)
    /\ Buffer \in Nat \ {0}
    /\ MetricsCap \in Nat \ {0}
    /\ CounterMod \in Nat /\ CounterMod > Cardinality(Conns)
    /\ OverflowChecks \in BOOLEAN
    /\ MaxEvents \in Nat
    /\ None \notin Nat

Kinds == {"client", "sandstorm"}

KindOf(c) == IF c \in Sandstorm THEN "sandstorm" ELSE "client"

Directions == {"sent", "received"}

\* An event, as the metrics task tells it from others.
Events ==
    [type : {"accepted", "finished"}, of : Kinds]
    \cup [type : {"bytes"}, of : Directions]
    \cup [type : {"other"}, of : {None}]

Metrics == [current : [Kinds -> Nat], historic : [Kinds -> Nat], bytes : [Directions -> Nat]]

NoMetrics ==
    [current |-> [k \in Kinds |-> 0], historic |-> [k \in Kinds |-> 0],
     bytes |-> [d \in Directions |-> 0]]

\* An event with the true metrics after it.
Entries == [data : Events, total : Metrics]

\* A request for the metrics, how long the log was when it was made, and whether it
\* came between the two polls of a select.
Requests == [conn : Sandstorm, subscribe : BOOLEAN, asked : Nat, between : BOOLEAN]

VARIABLES
    server,     \* how far run_server is
    conn,       \* the state of each connection
    log,        \* every event ever sent, with the true metrics after it
    task,       \* where the metrics task is: at the poll of the log, of the requests, ...
    metrics,    \* its counters
    seen,       \* how many events it has read or lost
    lossy,      \* whether it has lost any
    requests,   \* the channel of metrics requests
    taken,      \* the request it is answering
    asking,     \* connections that wait for their metrics
    answers,    \* the last metrics each connection was given
    answered,   \* how long the log was when it last gave any
    sinkAt,     \* how many events each logger task has read or lost
    sink,       \* where each logger task is
    lines,      \* what it wrote: event numbers, and counts of lost events
    flushed     \* whether all of that has left its buffer

connVars == <<server, conn>>

metricsVars == <<task, metrics, seen, lossy, requests, taken, asking, answers, answered>>

sinkVars == <<sinkAt, sink, lines, flushed>>

vars == <<connVars, log, metricsVars, sinkVars>>

\* A line of a logger task covers the events it tells of: one, or those lost.
Line(type, first, last) == [type |-> type, after |-> first, upto |-> last]

Lines == [type : {"event", "lost"}, after : Nat, upto : Nat]

Answers ==
    [metrics : Metrics, at : Nat, from : Nat \cup {None}, asked : Nat,
     between : BOOLEAN, before : Nat, lossy : BOOLEAN]

ServerTypeOK ==
    /\ server \in {"running", "stopping", "joining", "sinks", "joined", "failed"}
    /\ conn \in [Conns -> {"new", "open", "ended", "cancelled"}]
    /\ log \in Seq(Entries)

MetricsTypeOK ==
    /\ task \in {"recv", "polled", "reply", "ended", "panicked"}
    /\ metrics \in Metrics /\ \A k \in Kinds : metrics.current[k] < CounterMod
    /\ seen \in 0 .. Len(log)
    /\ lossy \in BOOLEAN
    /\ requests \in Seq(Requests) /\ Len(requests) <= MetricsCap
    /\ taken \in (IF task = "reply" THEN Requests ELSE {None})
    /\ asking \subseteq Sandstorm
    /\ answers \in [Sandstorm -> Answers \cup {None}]
    /\ answered \in 0 .. Len(log)

SinksTypeOK ==
    /\ sinkAt \in [Sinks -> 0 .. Len(log)]
    /\ sink \in [Sinks -> {"recv", "ended", "error"}]
    /\ lines \in [Sinks -> Seq(Lines)]
    /\ flushed \in [Sinks -> BOOLEAN]

\* The types, with the bounds that the code relies on: the width of the counters,
\* the capacity of the channel, no position beyond the end of the log.
TypeOK == ServerTypeOK /\ MetricsTypeOK /\ SinksTypeOK

Init ==
    /\ server = "running"
    /\ conn = [c \in Conns |-> "new"]
    /\ log = <<>>
    /\ task = "recv"
    /\ metrics = NoMetrics
    /\ seen = 0
    /\ lossy = FALSE
    /\ requests = <<>>
    /\ taken = None
    /\ asking = {}
    /\ answers = [c \in Sandstorm |-> None]
    /\ answered = 0
    /\ sinkAt = [s \in Sinks |-> 0]
    /\ sink = [s \in Sinks |-> "recv"]
    /\ lines = [s \in Sinks |-> <<>>]
    /\ flushed = [s \in Sinks |-> TRUE]

-----------------------------------------------------------------------------
(* What is logged, and by whom                                             *)

\* The true metrics after the first n events.
TotalAt(n) == IF n = 0 THEN NoMetrics ELSE log[n].total

\* What an event does to metrics, counters of any width.
Counted(m, data) ==
    LET One(type, of) == IF data.type = type /\ data.of = of THEN 1 ELSE 0 IN
    [current  |-> [k \in Kinds |-> m.current[k] + One("accepted", k) - One("finished", k)],
     historic |-> [k \in Kinds |-> m.historic[k] + One("accepted", k)],
     bytes    |-> [d \in Directions |-> m.bytes[d] + One("bytes", d)]]

Send(data) ==
    /\ Len(log) < MaxEvents
    /\ log' = Append(log, [data |-> data, total |-> Counted(TotalAt(Len(log)), data)])

\* The main loop logs a connection before it spawns its task.
Accept(c) ==
    /\ server = "running" /\ conn[c] = "new"
    /\ Send([type |-> "accepted", of |-> KindOf(c)])
    /\ conn' = [conn EXCEPT ![c] = "open"]
    /\ UNCHANGED <<server, metricsVars, sinkVars>>

\* A connection comes to its end, which is the last thing its task logs.
EndConn(c) ==
    /\ conn[c] = "open"
    /\ Send([type |-> "finished", of |-> KindOf(c)])
    /\ conn' = [conn EXCEPT ![c] = "ended"]
    /\ UNCHANGED <<server, metricsVars, sinkVars>>

\* A connection is cancelled after the main loop, and logs nothing about it.
CancelConn(c) ==
    /\ server # "running" /\ conn[c] = "open"
    /\ conn' = [conn EXCEPT ![c] = "cancelled"]
    /\ UNCHANGED <<server, log, metricsVars, sinkVars>>

\* A client's bytes are copied.
CopyBytes(c) ==
    /\ conn[c] = "open" /\ c \notin Sandstorm
    /\ \E d \in Directions : Send([type |-> "bytes", of |-> d])
    /\ UNCHANGED <<connVars, metricsVars, sinkVars>>

\* Any other event, of a connection or of the server.
LogOther ==
    /\ server \in {"running", "stopping"} \/ \E c \in Conns : conn[c] = "open"
    /\ Send([type |-> "other", of |-> None])
    /\ UNCHANGED <<connVars, metricsVars, sinkVars>>

\* The main loop ends, and the connections are cancelled.
Stop ==
    /\ server = "running"
    /\ server' = "stopping"
    /\ UNCHANGED <<conn, log, metricsVars, sinkVars>>

\* run_server_inner returns and join drops the manager's own senders.
StartJoin ==
    /\ server = "stopping"
    /\ server' = "joining"
    /\ UNCHANGED <<conn, log, metricsVars, sinkVars>>

\* Mutation of NoSenders: join keeps the manager's own sender.
NoSendersButManager == FALSE

\* Nobody holds a sender, of events or of metrics requests.
NoSenders ==
    /\ server \notin {"running", "stopping"}
    /\ \A c \in Conns : conn[c] # "open"

-----------------------------------------------------------------------------
(* The broadcast channel                                                   *)

\* How many events have been overwritten.
Overwritten == IF Len(log) > Buffer THEN Len(log) - Buffer ELSE 0

Lags(position) == position < Overwritten

-----------------------------------------------------------------------------
(* metrics_task                                                            *)

\* The counters after an event; a subtraction from zero wraps around.
Wrapped(m) == [m EXCEPT !.current = [k \in Kinds |-> m.current[k] % CounterMod]]

Underflows(data) == data.type = "finished" /\ metrics.current[data.of] = 0

MetricsLagged ==
    /\ task = "recv" /\ Lags(seen)
    /\ seen' = Overwritten
    /\ lossy' = TRUE
    /\ UNCHANGED <<connVars, log, task, metrics, requests, taken, asking, answers,
                   answered, sinkVars>>

\* The panic of the task drops the receivers of both channels, and with them
\* the requests in one.
CountEvent ==
    /\ task = "recv" /\ seen < Len(log) /\ ~Lags(seen)
    /\ seen' = seen + 1
    /\ LET data == log[seen + 1].data IN
        \/ /\ Underflows(data) /\ OverflowChecks
           /\ task' = "panicked"
           /\ requests' = <<>>
           /\ asking' = {}
           /\ UNCHANGED metrics
        \/ /\ ~(Underflows(data) /\ OverflowChecks)
           /\ metrics' = Wrapped(Counted(metrics, data))
           /\ UNCHANGED <<task, requests, asking>>
    /\ UNCHANGED <<connVars, log, lossy, taken, answers, answered, sinkVars>>

\* request_metrics and request_metrics_and_subscribe of a connection.
Ask(c) ==
    /\ conn[c] = "open" /\ c \in Sandstorm \ asking
    /\ task \in {"recv", "polled", "reply"} /\ Len(requests) < MetricsCap
    /\ \E subscribe \in BOOLEAN :
          requests' = Append(requests,
                        [conn |-> c, subscribe |-> subscribe, asked |-> Len(log),
                         between |-> task = "polled"])
    /\ asking' = asking \cup {c}
    /\ UNCHANGED <<connVars, log, task, metrics, seen, lossy, taken, answers, answered,
                   sinkVars>>

\* The select is biased: it polls the log first, and the requests only if it finds
\* no event.  The two polls are not one step: others log and ask in between.
PollLog ==
    /\ task = "recv" /\ seen = Len(log)
    /\ task' = "polled"
    /\ UNCHANGED <<connVars, log, metrics, seen, lossy, requests, taken, asking, answers,
                   answered, sinkVars>>

\* Mutation of TakeRequest: the select is not biased.
TakeRequestAnyTime ==
    /\ task \in {"recv", "polled"} /\ requests # <<>>
    /\ taken' = Head(requests)
    /\ requests' = Tail(requests)
    /\ task' = "reply"
    /\ UNCHANGED <<connVars, log, metrics, seen, lossy, asking, answers, answered,
                   sinkVars>>

\* Mutation of TakeRequest: an event is received and not counted.
TakeRequestLosingEvent ==
    /\ task = "polled" /\ requests # <<>>
    /\ seen' = IF seen < Len(log) THEN seen + 1 ELSE seen
    /\ taken' = Head(requests)
    /\ requests' = Tail(requests)
    /\ task' = "reply"
    /\ UNCHANGED <<connVars, log, metrics, lossy, asking, answers, answered, sinkVars>>

\* The poll of the requests finds one.
TakeRequest ==
    /\ task = "polled" /\ requests # <<>>
    /\ taken' = Head(requests)
    /\ requests' = Tail(requests)
    /\ task' = "reply"
    /\ UNCHANGED <<connVars, log, metrics, seen, lossy, asking, answers, answered,
                   sinkVars>>

\* It finds none: whatever comes next wakes the task, which polls the log first.
MetricsWaits ==
    /\ task = "polled" /\ requests = <<>> /\ ~NoSenders
    /\ task' = "recv"
    /\ UNCHANGED <<connVars, log, metrics, seen, lossy, requests, taken, asking, answers,
                   answered, sinkVars>>

\* resubscribe starts the subscriber at the end of the log as it is by now.
Reply ==
    /\ task = "reply"
    /\ answers' = [answers EXCEPT ![taken.conn] =
                      [metrics |-> metrics, at |-> seen, asked |-> taken.asked,
                       between |-> taken.between, before |-> answered,
                       from |-> IF taken.subscribe THEN Len(log) ELSE None,
                       lossy |-> lossy]]
    /\ answered' = Len(log)
    /\ asking' = asking \ {taken.conn}
    /\ taken' = None
    /\ task' = "recv"
    /\ UNCHANGED <<connVars, log, metrics, seen, lossy, requests, sinkVars>>

\* One of the channels is closed and drained, which ends the task: it drops the
\* requests there are if it is the log, and what was logged since the last poll of
\* the log is not counted if it is that of the requests.
EndMetrics ==
    /\ NoSenders
    /\ \/ task = "recv" /\ seen = Len(log)
       \/ task = "polled" /\ requests = <<>>
    /\ task' = "ended"
    /\ requests' = <<>>
    /\ asking' = {}
    /\ UNCHANGED <<connVars, log, metrics, seen, lossy, taken, answers, answered, sinkVars>>

-----------------------------------------------------------------------------
(* logger_task                                                             *)

\* Mutation of WriteLine: no flush before waiting.
WriteLineUnflushed(s, type, position) ==
    /\ lines' = [lines EXCEPT ![s] = Append(@, Line(type, sinkAt[s], position))]
    /\ sinkAt' = [sinkAt EXCEPT ![s] = position]
    /\ \E out \in BOOLEAN : flushed' = [flushed EXCEPT ![s] = out]
    /\ UNCHANGED sink

\* A line goes into the task's BufWriter, which is flushed if no event waits;
\* otherwise it may or may not have been full.
WriteLine(s, type, position) ==
    /\ lines' = [lines EXCEPT ![s] = Append(@, Line(type, sinkAt[s], position))]
    /\ sinkAt' = [sinkAt EXCEPT ![s] = position]
    /\ \E out \in BOOLEAN :
        /\ position = Len(log) => out
        /\ flushed' = [flushed EXCEPT ![s] = out]
    /\ UNCHANGED sink

SinkEvent(s) ==
    /\ sink[s] = "recv" /\ sinkAt[s] < Len(log) /\ ~Lags(sinkAt[s])
    /\ WriteLine(s, "event", sinkAt[s] + 1)
    /\ UNCHANGED <<connVars, log, metricsVars>>

\* Mutation of SinkLagged: lost events are not mentioned.
SinkLaggedSilently(s) ==
    /\ sink[s] = "recv" /\ Lags(sinkAt[s])
    /\ sinkAt' = [sinkAt EXCEPT ![s] = Overwritten]
    /\ UNCHANGED <<connVars, log, metricsVars, sink, lines, flushed>>

SinkLagged(s) ==
    /\ sink[s] = "recv" /\ Lags(sinkAt[s])
    /\ WriteLine(s, "lost", Overwritten)
    /\ UNCHANGED <<connVars, log, metricsVars>>

\* A write fails: the task says so and ends.
SinkError(s) ==
    /\ sink[s] = "recv"
    /\ sink' = [sink EXCEPT ![s] = "error"]
    /\ UNCHANGED <<connVars, log, metricsVars, sinkAt, lines, flushed>>

\* Mutation of EndSink: the end of the channel is not waited for.
EndSinkUndrained(s) ==
    /\ sink[s] = "recv" /\ NoSenders
    /\ sink' = [sink EXCEPT ![s] = "ended"]
    /\ flushed' = [flushed EXCEPT ![s] = TRUE]
    /\ UNCHANGED <<connVars, log, metricsVars, sinkAt, lines>>

\* The channel is closed and drained; shutdown of the writer flushes it.
EndSink(s) ==
    /\ sink[s] = "recv" /\ sinkAt[s] = Len(log) /\ NoSenders
    /\ sink' = [sink EXCEPT ![s] = "ended"]
    /\ flushed' = [flushed EXCEPT ![s] = TRUE]
    /\ UNCHANGED <<connVars, log, metricsVars, sinkAt, lines>>

-----------------------------------------------------------------------------
(* LogManager::join                                                        *)

\* A panic of the metrics task makes join return before the logger tasks end.
JoinMetrics ==
    /\ server = "joining" /\ task \in {"ended", "panicked"}
    /\ server' = IF task = "ended" THEN "sinks" ELSE "failed"
    /\ UNCHANGED <<conn, log, metricsVars, sinkVars>>

JoinSinks ==
    /\ server = "sinks"
    /\ \A s \in Sinks : sink[s] # "recv"
    /\ server' = "joined"
    /\ UNCHANGED <<conn, log, metricsVars, sinkVars>>

-----------------------------------------------------------------------------

MetricsStep ==
    \/ MetricsLagged \/ CountEvent \/ PollLog \/ TakeRequest \/ MetricsWaits \/ Reply
    \/ EndMetrics

SinkStep(s) == SinkEvent(s) \/ SinkLagged(s) \/ EndSink(s)

Next ==
    \/ \E c \in Conns :
        Accept(c) \/ EndConn(c) \/ CancelConn(c) \/ CopyBytes(c) \/ Ask(c)
    \/ LogOther \/ Stop \/ StartJoin \/ JoinMetrics \/ JoinSinks
    \/ MetricsStep
    \/ \E s \in Sinks : SinkStep(s) \/ SinkError(s)

Spec == Init /\ [][Next]_vars

\* The tasks run while they can, a cancelled connection ends, and the server
\* goes on once it is stopping.  Nothing makes it stop, or an event happen.
Fairness ==
    /\ WF_vars(MetricsStep)
    /\ \A s \in Sinks : WF_vars(SinkStep(s))
    /\ \A c \in Conns : WF_vars(CancelConn(c))
    /\ WF_vars(StartJoin \/ JoinMetrics \/ JoinSinks)

FairSpec == Spec /\ Fairness

-----------------------------------------------------------------------------
(* Properties                                                              *)

Counts(c) == conn[c] \in {"open", "cancelled"}

\* The events tell the connections there are, in every state: each counts from
\* the event of its acceptance to that of its end, and at shutdown for ever.
EventsCountConnections ==
    \A k \in Kinds :
        TotalAt(Len(log)).current[k] = Cardinality({c \in Conns : KindOf(c) = k /\ Counts(c)})

\* As long as the metrics task has lost no event, its counters are exactly what
\* the events it has read amount to.
MetricsTrue == ~lossy => metrics = TotalAt(seen)

\* Only lost events can make a counter go below zero, and the task panic.
PanicNeedsLoss == task = "panicked" => lossy

\* Metrics given to a connection are true unless events were lost, and count every
\* event that was logged when it asked for them, unless it asked in between the two
\* polls of the select; even then they count all that was logged when metrics were
\* last given to anyone, so to ask a second time is enough.  None of the events they
\* count is streamed to it again (metrics_task, logger.rs:124-175).
AnswersFresh ==
    \A c \in Sandstorm : answers[c] # None =>
        LET a == answers[c] IN
        /\ a.asked <= a.at \/ a.between
        /\ a.before <= a.at /\ a.at <= Len(log)
        /\ a.from # None => a.at <= a.from /\ a.from <= Len(log)
        /\ ~a.lossy => a.metrics = TotalAt(a.at)

\* The lines of a sink tell of every event up to where it is, each once and in
\* order, be it by a line of its own or among a number of lost ones.
LinesAccount ==
    \A s \in Sinks :
        /\ \A i \in 1 .. Len(lines[s]) :
              /\ lines[s][i].after = IF i = 1 THEN 0 ELSE lines[s][i - 1].upto
              /\ lines[s][i].type = "event" => lines[s][i].upto = lines[s][i].after + 1
              /\ lines[s][i].type = "lost" => lines[s][i].upto > lines[s][i].after
        /\ sinkAt[s] = IF lines[s] = <<>> THEN 0 ELSE lines[s][Len(lines[s])].upto

\* A logger task never waits for an event with lines still in its buffer.
IdleFlushed ==
    \A s \in Sinks : sink[s] = "recv" /\ sinkAt[s] = Len(log) => flushed[s]

\* What a sink has written tells the whole log so far, and none of it waits for more.
SinksTrue == LinesAccount /\ IdleFlushed

\* When join has returned properly, nobody can log any more, and every sink that
\* did not fail has written out the whole log.
LogComplete ==
    server = "joined" =>
        /\ \A c \in Conns : conn[c] # "open"
        /\ \A s \in Sinks :
              sink[s] = "error" \/ (sink[s] = "ended" /\ sinkAt[s] = Len(log) /\ flushed[s])

\* A server that is stopping gets past the join of its logger.
JoinReturns == server = "stopping" ~> server \in {"joined", "failed"}
=============================================================================
