---------------------------- MODULE SandstormServer ----------------------------
(***************************************************************************)
(* The sandstorm connections of the server, after their handshake, and the *)
(* main loop they talk to: handle_requests, handle_responses (in           *)
(* dust-devil/src/sandstorm), the socket requests of SandstormContext and  *)
(* the message branch of run_server_inner.                                 *)
(*                                                                         *)
(* The two halves of a connection run as one task.  The reader takes the   *)
(* client's requests one by one.  A request about users, authentication or *)
(* the buffer is carried out at once; one about sockets, or the shutdown,  *)
(* becomes a message for the main loop, one for metrics a request for the  *)
(* metrics task, both through bounded channels, and its result comes back  *)
(* through a oneshot.  Either way the reader then notifies the writer, by  *)
(* another bounded channel.  The writer keeps the oneshots in one queue    *)
(* per class and answers whatever is ready, by the fixed priority of its   *)
(* biased select.                                                          *)
(***************************************************************************)
EXTENDS Naturals, Sequences, FiniteSets

CONSTANTS
    Connections,        \* the sandstorm connections
    Plans,              \* the connections made, and the requests their clients may send
    Addresses,          \* the addresses of listening sockets
    BadAddresses,       \* those with port zero
    InitialSockets,     \* what each listener set starts with
    MessageCap,         \* MESSAGING_CHANNEL_SIZE
    MetricsCap,         \* METRICS_REQUEST_CHANNEL_SIZE
    ResponseCap,        \* RESPONSE_NOTIFICATION_CHANNEL_SIZE
    ReceiverCap,        \* RECEIVER_BUFFER_SIZE
    Logging,            \* whether events are logged at all: there is a metrics task
    EventCap,           \* EVENT_LOG_BUFFER: events a subscriber may lag behind
    MaxRequests,        \* bound on the requests of a connection
    NoAddress

SocketClasses == {"socks5", "sandstorm"}

\* The queues of receivers a writer keeps.
QueueClasses == SocketClasses \cup {"metrics"}

Requests ==
    [type : {"List"}, class : SocketClasses, address : {NoAddress}]
    \cup [type : {"Add", "Remove"}, class : SocketClasses, address : Addresses]
    \cup [type : {"Metrics"}, class : {"metrics"}, address : {NoAddress}]
    \cup [type : {"Direct", "SetBufferSize"}, class : {"direct"}, address : {NoAddress}]
    \cup [type : {"EventsOn", "EventsOff"}, class : {"events"}, address : {NoAddress}]
    \cup [type : {"Shutdown"}, class : {"shutdown"}, address : {NoAddress}]

\* What a oneshot holds: nothing, the loss of its sender, or a result.
Results == {"none", "pending", "dropped", "Ok", "Error", "NotFound"}

ASSUME SandstormServerAssumption ==
    /\ \A p \in Plans : p.made \subseteq Connections /\ p.menu \subseteq Requests
                        /\ p.most \in 0 .. MaxRequests
    /\ BadAddresses \subseteq Addresses
    /\ InitialSockets \in [SocketClasses -> SUBSET (Addresses \ BadAddresses)]
    /\ {MessageCap, MetricsCap, ResponseCap, ReceiverCap} \subseteq Nat \ {0}
    /\ EventCap \in Nat \ {0}
    /\ Logging \in BOOLEAN
    /\ MaxRequests \in Nat
    /\ NoAddress \notin Addresses

VARIABLES
    plan,           \* the plan of this behaviour
    running,        \* the main loop has not ended
    listeners,      \* socks_listeners and sandstorm_listeners
    messages,       \* the main loop's channel: <<connection, id>>
    metrics,        \* the metrics task's channel: <<connection, id>>
    asked,          \* the requests each reader has read
    reader,         \* where each reader is
    result,         \* the oneshot of each request
    listed,         \* the sockets in it, when it answers a List
    responses,      \* each response_notifier channel: ids of requests
    queues,         \* the receivers each writer waits on, by class
    writer,         \* where each writer is, and the request it is at
    closed,         \* whether each writer saw the end of its channel
    events,         \* events each subscriber has not been sent, or Off
    answered,       \* the requests answered into the writer's buffer, in order
    unflushed,      \* how many of those may still be in the buffer
    dirty,          \* whether the writer's buffer holds anything
    phase           \* how each connection stands

\* A subscriber that has lost events, and a connection that has not subscribed.
Lagged == EventCap + 1

Off == EventCap + 2

loopVars == <<running, listeners, messages, listed>>

readerVars == <<plan, asked, reader>>

writerVars == <<queues, writer, closed, answered, unflushed, dirty>>

vars == <<plan, running, listeners, messages, metrics, asked, reader, result,
          listed, responses, queues, writer, closed, events, answered, unflushed,
          dirty, phase>>

Ids == 1 .. MaxRequests

Menu == UNION {p.menu : p \in Plans}

TypeOK ==
    /\ plan \in Plans
    /\ running \in BOOLEAN
    /\ listeners \in [SocketClasses -> SUBSET (Addresses \ BadAddresses)]
    /\ messages \in Seq(Connections \X Ids) /\ Len(messages) <= MessageCap
    /\ metrics \in Seq(Connections \X Ids) /\ Len(metrics) <= MetricsCap
    /\ asked \in [Connections -> Seq(Menu)]
    /\ reader \in [Connections -> {"read", "message", "metrics", "notify", "end"}]
    /\ result \in [Connections -> [Ids -> Results]]
    /\ listed \in [Connections -> [Ids -> SUBSET Addresses]]
    /\ responses \in [Connections -> Seq(Ids)]
    /\ queues \in [Connections -> [QueueClasses -> Seq(Ids)]]
    /\ writer \in [Connections -> [at : {"select", "front", "shutdown",
                                         "subscribe", "metrics"}, id : Ids \cup {0}]]
    /\ closed \in [Connections -> BOOLEAN]
    /\ events \in [Connections -> 0 .. Off]
    /\ answered \in [Connections -> Seq(Ids)]
    /\ unflushed \in [Connections -> 0 .. MaxRequests]
    /\ dirty \in [Connections -> BOOLEAN]
    /\ phase \in [Connections -> {"none", "open", "finished", "failed", "cancelled"}]
    /\ \A c \in Connections :
          /\ Len(responses[c]) <= ResponseCap
          /\ \A k \in QueueClasses : Len(queues[c][k]) <= ReceiverCap

Init ==
    /\ plan \in Plans
    /\ running = TRUE
    /\ listeners = InitialSockets
    /\ messages = <<>>
    /\ metrics = <<>>
    /\ asked = [c \in Connections |-> <<>>]
    /\ reader = [c \in Connections |-> "read"]
    /\ result = [c \in Connections |-> [id \in Ids |-> "none"]]
    /\ listed = [c \in Connections |-> [id \in Ids |-> {}]]
    /\ responses = [c \in Connections |-> <<>>]
    /\ queues = [c \in Connections |-> [k \in QueueClasses |-> <<>>]]
    /\ writer = [c \in Connections |-> [at |-> "select", id |-> 0]]
    /\ closed = [c \in Connections |-> FALSE]
    /\ events = [c \in Connections |-> Off]
    /\ answered = [c \in Connections |-> <<>>]
    /\ unflushed = [c \in Connections |-> 0]
    /\ dirty = [c \in Connections |-> FALSE]
    /\ phase = [c \in Connections |-> IF c \in plan.made THEN "open" ELSE "none"]

Open(c) == phase[c] = "open"

\* The request a connection asked as its id-th.
RequestAt(c, id) == asked[c][id]

-----------------------------------------------------------------------------
(* The reader: handle_requests                                             *)

\* Where the reader goes with a request it has read.
Route(request) ==
    CASE request.class \in SocketClasses \cup {"shutdown"} -> "message"
      [] request.class = "metrics" /\ Logging -> "metrics"
      [] OTHER -> "notify"

\* A request whose result is known at once: about users, authentication methods
\* or the buffer size, or about metrics that nobody keeps.
Immediate(request) == request.class = "direct" \/ (request.class = "metrics" /\ ~Logging)

Read(c) ==
    /\ Open(c) /\ reader[c] = "read"
    /\ Len(asked[c]) < plan.most
    /\ \E request \in plan.menu :
        /\ asked' = [asked EXCEPT ![c] = Append(@, request)]
        /\ reader' = [reader EXCEPT ![c] = Route(request)]
        /\ result' = [result EXCEPT ![c][Len(asked[c]) + 1] =
                        IF Immediate(request) THEN "Ok" ELSE "pending"]
    /\ UNCHANGED <<plan, loopVars, metrics, responses, writerVars, events, phase>>

\* The client shut down its half of the socket: the reader returns and its
\* end of the notification channel is dropped.
ReadEof(c) ==
    /\ Open(c) /\ reader[c] = "read"
    /\ reader' = [reader EXCEPT ![c] = "end"]
    /\ UNCHANGED <<plan, loopVars, metrics, asked, result, responses, writerVars,
                   events, phase>>

\* An unknown command, or an I/O error of either half: try_join! drops both.
ConnectionError(c) ==
    /\ Open(c)
    /\ phase' = [phase EXCEPT ![c] = "failed"]
    /\ UNCHANGED <<loopVars, metrics, readerVars, result, responses,
                   writerVars, events>>

Latest(c) == Len(asked[c])

\* message_sender.send waits for room; once the main loop has ended it fails,
\* and the oneshot's sender is dropped with the message.
SendMessage(c) ==
    /\ Open(c) /\ reader[c] = "message"
    /\ \/ /\ running /\ Len(messages) < MessageCap
          /\ messages' = Append(messages, <<c, Latest(c)>>)
          /\ UNCHANGED result
       \/ /\ ~running
          /\ result' = [result EXCEPT ![c][Latest(c)] = "dropped"]
          /\ UNCHANGED messages
    /\ reader' = [reader EXCEPT ![c] = "notify"]
    /\ UNCHANGED <<plan, running, listeners, listed, metrics, asked, responses, writerVars,
                   events, phase>>

RequestMetrics(c) ==
    /\ Open(c) /\ reader[c] = "metrics"
    /\ Len(metrics) < MetricsCap
    /\ metrics' = Append(metrics, <<c, Latest(c)>>)
    /\ reader' = [reader EXCEPT ![c] = "notify"]
    /\ UNCHANGED <<plan, loopVars, asked, result, responses, writerVars, events, phase>>

Notify(c) ==
    /\ Open(c) /\ reader[c] = "notify"
    /\ Len(responses[c]) < ResponseCap
    /\ responses' = [responses EXCEPT ![c] = Append(@, Latest(c))]
    /\ reader' = [reader EXCEPT ![c] = "read"]
    /\ UNCHANGED <<plan, loopVars, metrics, asked, result, writerVars, events, phase>>

-----------------------------------------------------------------------------
(* The main loop and the metrics task                                      *)

\* Mutation of EndLoop: the loop goes on.
EndLoopLater(left, results) ==
    /\ messages' = left
    /\ result' = results
    /\ UNCHANGED running

\* The loop ends: its receiver is dropped, and with it every message that is
\* still in the channel and the oneshot sender in it.
EndLoop(left, results) ==
    /\ running' = FALSE
    /\ messages' = <<>>
    /\ result' = [c \in Connections |-> [id \in Ids |->
                    IF <<c, id>> \in {left[i] : i \in 1 .. Len(left)}
                    THEN "dropped" ELSE results[c][id]]]

\* Mutation of Without: the wrong listener is removed.
WithoutAnother(k, address) ==
    listeners[k] \ {CHOOSE a \in listeners[k] : a # address \/ listeners[k] = {a}}

\* swap_remove of the listener at that address.
Without(k, address) == listeners[k] \ {address}

\* One message of the main loop, answered through its oneshot.
HandleMessage ==
    /\ running /\ messages # <<>>
    /\ LET c == Head(messages)[1]
           id == Head(messages)[2]
           request == RequestAt(c, id)
           k == request.class
           Reply(r) == [result EXCEPT ![c][id] = r]
       IN
        \/ /\ request.type = "Shutdown"
           /\ EndLoop(Tail(messages), Reply("Ok"))
           /\ UNCHANGED <<listeners, listed>>
        \/ /\ request.type # "Shutdown"
           /\ messages' = Tail(messages)
           /\ UNCHANGED running
           /\ \/ /\ request.type = "List"
                 /\ result' = Reply("Ok")
                 /\ listed' = [listed EXCEPT ![c][id] = listeners[k]]
                 /\ UNCHANGED listeners
              \/ /\ request.type = "Add"
                 /\ request.address \notin BadAddresses
                 /\ \A j \in SocketClasses : request.address \notin listeners[j]
                 /\ listeners' = [listeners EXCEPT ![k] = @ \cup {request.address}]
                 /\ result' = Reply("Ok")
                 /\ UNCHANGED listed
              \/ \* Port zero, an address in use, or a bind that fails otherwise.
                 /\ request.type = "Add"
                 /\ result' = Reply("Error")
                 /\ UNCHANGED <<listeners, listed>>
              \/ /\ request.type = "Remove"
                 /\ request.address \in listeners[k]
                 /\ listeners' = [listeners EXCEPT ![k] = Without(k, request.address)]
                 /\ result' = Reply("Ok")
                 /\ UNCHANGED listed
              \/ /\ request.type = "Remove"
                 /\ request.address \notin listeners[k]
                 /\ result' = Reply("NotFound")
                 /\ UNCHANGED <<listeners, listed>>
    /\ UNCHANGED <<metrics, readerVars, responses, writerVars, events, phase>>

\* Ctrl-C.
Signal ==
    /\ running
    /\ EndLoop(messages, result)
    /\ UNCHANGED <<listeners, listed, metrics, readerVars, responses, writerVars, events,
                   phase>>

\* The metrics task takes its requests in order.  One that comes from a writer
\* also subscribes it to the events from here on.
HandleMetrics ==
    /\ metrics # <<>>
    /\ LET c == Head(metrics)[1]
           id == Head(metrics)[2]
       IN /\ result' = [result EXCEPT ![c][id] = "Ok"]
          /\ events' = [events EXCEPT ![c] =
                          IF RequestAt(c, id).type = "EventsOn" THEN 0 ELSE @]
    /\ metrics' = Tail(metrics)
    /\ UNCHANGED <<loopVars, readerVars, responses, writerVars, phase>>

\* Some part of the server logs an event.  A subscriber that the channel has no
\* room for any more has lagged, and stays so until it finds out.
LogEvent ==
    /\ \E c \in Connections : Open(c) /\ events[c] < Lagged
    /\ events' = [c \in Connections |->
                    IF Open(c) /\ events[c] < Lagged THEN events[c] + 1 ELSE events[c]]
    /\ UNCHANGED <<loopVars, metrics, readerVars, result, responses, writerVars,
                   phase>>

-----------------------------------------------------------------------------
(* The writer: handle_responses                                            *)

\* Mutation of LoopOn: one queue is left out of the condition.
LoopOnForgettingMetrics(c) ==
    \/ ~closed[c]
    \/ dirty[c]
    \/ \E k \in SocketClasses : queues[c][k] # <<>>

\* The condition of the writer's loop.
LoopOn(c) ==
    \/ ~closed[c]
    \/ dirty[c]
    \/ \E k \in QueueClasses : queues[c][k] # <<>>

At(c, place) == Open(c) /\ writer[c].at = place

Selecting(c) == At(c, "select") /\ LoopOn(c)

\* The branches of the biased select that may complete, first to last.
NotificationReady(c) == ~closed[c] /\ (responses[c] # <<>> \/ reader[c] = "end")

HeadReady(c, k) == queues[c][k] # <<>> /\ result[c][Head(queues[c][k])] # "pending"

EventReady(c) == events[c] # Off /\ events[c] > 0

\* The queues whose branch comes before that of class k.
Before(k) ==
    CASE k = "socks5" -> {}
      [] k = "sandstorm" -> {"socks5"}
      [] k = "metrics" -> {"socks5", "sandstorm"}

\* An answer goes into the BufWriter, which may be full and flush what it held.
WriteAnswer(c, id) ==
    /\ answered' = [answered EXCEPT ![c] = Append(@, id)]
    /\ \E n \in {1, unflushed[c] + 1} : unflushed' = [unflushed EXCEPT ![c] = n]
    /\ dirty' = [dirty EXCEPT ![c] = TRUE]

WriteAndFlush(c, id) ==
    /\ answered' = [answered EXCEPT ![c] = Append(@, id)]
    /\ unflushed' = [unflushed EXCEPT ![c] = 0]
    /\ dirty' = [dirty EXCEPT ![c] = FALSE]

bufferVars == <<answered, unflushed, dirty>>

HasRoom(c, k) == Len(queues[c][k]) < ReceiverCap

Fail(c) == phase' = [phase EXCEPT ![c] = "failed"]

GoTo(c, place, id) == writer' = [writer EXCEPT ![c] = [at |-> place, id |-> id]]

\* handle_notification up to its first wait.  A queue at its capacity makes
\* the writer wait for its first receiver before the new one is queued.
TakeNotification(c) ==
    /\ Selecting(c) /\ ~closed[c] /\ responses[c] # <<>>
    /\ responses' = [responses EXCEPT ![c] = Tail(@)]
    /\ LET id == Head(responses[c])
           request == RequestAt(c, id)
           k == request.class
       IN
        \/ /\ k \in QueueClasses /\ HasRoom(c, k)
           /\ queues' = [queues EXCEPT ![c][k] = Append(@, id)]
           /\ UNCHANGED <<writer, events, bufferVars>>
        \/ /\ k \in QueueClasses /\ ~HasRoom(c, k)
           /\ GoTo(c, "front", id)
           /\ UNCHANGED <<queues, events, bufferVars>>
        \/ /\ request.type = "Shutdown"
           /\ GoTo(c, "shutdown", id)
           /\ UNCHANGED <<queues, events, bufferVars>>
        \/ /\ request.type = "EventsOn" /\ events[c] = Off /\ Logging
           /\ GoTo(c, "subscribe", id)
           /\ UNCHANGED <<queues, events, bufferVars>>
        \/ \* Already enabled, or impossible.
           /\ request.type = "EventsOn" /\ (events[c] # Off \/ ~Logging)
           /\ WriteAnswer(c, id)
           /\ UNCHANGED <<queues, writer, events>>
        \/ /\ request.type = "EventsOff"
           /\ events' = [events EXCEPT ![c] = Off]
           /\ WriteAnswer(c, id)
           /\ UNCHANGED <<queues, writer>>
        \/ /\ request.type = "Direct"
           /\ WriteAnswer(c, id)
           /\ UNCHANGED <<queues, writer, events>>
        \/ /\ request.type = "SetBufferSize"
           /\ WriteAndFlush(c, id)
           /\ UNCHANGED <<queues, writer, events>>
    /\ UNCHANGED <<loopVars, metrics, readerVars, result, closed, phase>>

\* Mutation of FrontReady: the new receiver is not queued.
FrontReadyForgetting(c) ==
    LET k == RequestAt(c, writer[c].id).class
        first == Head(queues[c][k])
    IN
    /\ At(c, "front")
    /\ HeadReady(c, k) /\ result[c][first] # "dropped"
    /\ WriteAnswer(c, first)
    /\ queues' = [queues EXCEPT ![c][k] = Tail(@)]
    /\ GoTo(c, "select", 0)
    /\ UNCHANGED <<loopVars, metrics, readerVars, result, responses, closed, events,
                   phase>>

\* Mutation of FrontReady: the new receiver is awaited, not the first.
FrontReadyNewest(c) ==
    LET id == writer[c].id IN
    /\ At(c, "front")
    /\ result[c][id] \notin {"pending", "dropped"}
    /\ WriteAnswer(c, id)
    /\ GoTo(c, "select", 0)
    /\ UNCHANGED <<loopVars, metrics, readerVars, result, responses, queues, closed,
                   events, phase>>

\* The first receiver of a full queue has completed, and makes room.
FrontReady(c) ==
    LET id == writer[c].id
        k == RequestAt(c, id).class
        first == Head(queues[c][k])
    IN
    /\ At(c, "front")
    /\ HeadReady(c, k)
    /\ \/ /\ result[c][first] = "dropped"
          /\ Fail(c)
          /\ UNCHANGED writerVars
       \/ /\ result[c][first] # "dropped"
          /\ WriteAnswer(c, first)
          /\ queues' = [queues EXCEPT ![c][k] = Append(Tail(@), id)]
          /\ GoTo(c, "select", 0)
          /\ UNCHANGED <<closed, phase>>
    /\ UNCHANGED <<loopVars, metrics, readerVars, result, responses, events>>

\* The shutdown is answered whether the main loop confirmed it or dropped it.
ShutdownReady(c) ==
    /\ At(c, "shutdown")
    /\ result[c][writer[c].id] # "pending"
    /\ WriteAnswer(c, writer[c].id)
    /\ GoTo(c, "select", 0)
    /\ UNCHANGED <<loopVars, metrics, readerVars, result, responses, queues, closed,
                   events, phase>>

\* request_metrics_and_subscribe, which the writer itself awaits.
Subscribe(c) ==
    /\ At(c, "subscribe")
    /\ Len(metrics) < MetricsCap
    /\ metrics' = Append(metrics, <<c, writer[c].id>>)
    /\ GoTo(c, "metrics", writer[c].id)
    /\ UNCHANGED <<loopVars, readerVars, result, responses, queues, closed,
                   bufferVars, events, phase>>

Subscribed(c) ==
    /\ At(c, "metrics")
    /\ result[c][writer[c].id] # "pending"
    /\ WriteAnswer(c, writer[c].id)
    /\ GoTo(c, "select", 0)
    /\ UNCHANGED <<loopVars, metrics, readerVars, result, responses, queues, closed,
                   events, phase>>

\* Mutation of CloseNotifications: closed is never set.
CloseNotificationsStill(c) ==
    /\ Selecting(c) /\ ~closed[c]
    /\ responses[c] = <<>> /\ reader[c] = "end"
    /\ UNCHANGED vars

\* recv returns None: the reader has ended and every notification was taken.
CloseNotifications(c) ==
    /\ Selecting(c) /\ ~closed[c]
    /\ responses[c] = <<>> /\ reader[c] = "end"
    /\ closed' = [closed EXCEPT ![c] = TRUE]
    /\ UNCHANGED <<loopVars, metrics, readerVars, result, responses, queues, writer,
                   bufferVars, events, phase>>

AnswerQueue(c, k) ==
    /\ Selecting(c) /\ ~NotificationReady(c)
    /\ \A j \in Before(k) : ~HeadReady(c, j)
    /\ HeadReady(c, k)
    /\ LET id == Head(queues[c][k]) IN
        \/ /\ result[c][id] = "dropped"
           /\ Fail(c)
           /\ UNCHANGED <<bufferVars, queues>>
        \/ /\ result[c][id] # "dropped"
           /\ WriteAnswer(c, id)
           /\ queues' = [queues EXCEPT ![c][k] = Tail(@)]
           /\ UNCHANGED phase
    /\ UNCHANGED <<loopVars, metrics, readerVars, result, responses, writer, closed,
                   events>>

NothingToAnswer(c) ==
    /\ ~NotificationReady(c)
    /\ \A k \in QueueClasses : ~HeadReady(c, k)

StreamEvent(c) ==
    /\ Selecting(c) /\ NothingToAnswer(c)
    /\ EventReady(c)
    /\ \/ /\ events[c] = Lagged
          /\ Fail(c)
          /\ UNCHANGED <<events, unflushed, dirty>>
       \/ /\ events[c] # Lagged
          /\ events' = [events EXCEPT ![c] = @ - 1]
          /\ \E n \in {0, unflushed[c]} : unflushed' = [unflushed EXCEPT ![c] = n]
          /\ dirty' = [dirty EXCEPT ![c] = TRUE]
          /\ UNCHANGED phase
    /\ UNCHANGED <<loopVars, metrics, readerVars, result, responses, queues, writer,
                   closed, answered>>

\* stall_if_empty: the buffer is flushed when there is nothing else to do.
Flush(c) ==
    /\ Selecting(c) /\ NothingToAnswer(c) /\ ~EventReady(c)
    /\ dirty[c]
    /\ dirty' = [dirty EXCEPT ![c] = FALSE]
    /\ unflushed' = [unflushed EXCEPT ![c] = 0]
    /\ UNCHANGED <<loopVars, metrics, readerVars, result, responses, queues, writer,
                   closed, answered, events, phase>>

\* Both halves have returned: the connection is over and was closed properly.
Finish(c) ==
    /\ At(c, "select") /\ ~LoopOn(c)
    /\ phase' = [phase EXCEPT ![c] = "finished"]
    /\ UNCHANGED <<loopVars, metrics, readerVars, result, responses, writerVars,
                   events>>

\* After the main loop, manager_cancel_token cancels the connection's task.
Cancel(c) ==
    /\ Open(c) /\ ~running
    /\ phase' = [phase EXCEPT ![c] = "cancelled"]
    /\ UNCHANGED <<loopVars, metrics, readerVars, result, responses, writerVars,
                   events>>

-----------------------------------------------------------------------------

ReaderStep(c) == SendMessage(c) \/ RequestMetrics(c) \/ Notify(c)

WriterStep(c) ==
    \/ TakeNotification(c) \/ FrontReady(c) \/ ShutdownReady(c)
    \/ Subscribe(c) \/ Subscribed(c) \/ CloseNotifications(c)
    \/ \E k \in QueueClasses : AnswerQueue(c, k)
    \/ StreamEvent(c) \/ Flush(c) \/ Finish(c)

Next ==
    \/ \E c \in Connections :
        \/ Read(c) \/ ReadEof(c) \/ ConnectionError(c)
        \/ ReaderStep(c) \/ WriterStep(c) \/ Cancel(c)
    \/ HandleMessage \/ Signal \/ HandleMetrics \/ LogEvent

Spec == Init /\ [][Next]_vars

\* The runtime polls a task again whenever what it waits for is there: each half
\* of a connection, the main loop (whose select is not biased) and the metrics
\* task go on while they can, and a cancelled connection ends.  Nothing makes a
\* client send a request or close, an event happen, or the server stop.
Fairness ==
    /\ \A c \in Connections :
          WF_vars(ReaderStep(c)) /\ WF_vars(WriterStep(c)) /\ WF_vars(Cancel(c))
    /\ WF_vars(HandleMessage)
    /\ WF_vars(HandleMetrics)

FairSpec == Spec /\ Fairness

-----------------------------------------------------------------------------
(* Properties                                                              *)

Answered(c) == {answered[c][i] : i \in 1 .. Len(answered[c])}

\* The requests that changed whether there is a socket of a class at an address.
Accepted(requests, results, k, address) ==
    {i \in DOMAIN requests :
        /\ requests[i].class = k /\ requests[i].type \in {"Add", "Remove"}
        /\ requests[i].address = address /\ results[i] = "Ok"}

\* What the answers to a connection's first n requests say the sockets of a class are:
\* the last one about an address tells, or else the server started with it.
Told(requests, results, k, n) ==
    {address \in Addresses :
        LET changes == Accepted(requests, results, k, address) \cap 1 .. n
        IN  \/ \E i \in changes : requests[i].type = "Add" /\ \A j \in changes : j <= i
            \/ changes = {} /\ address \in InitialSockets[k]}

\* No other connection asked for sockets of the class.
Alone(c, k) ==
    \A d \in Connections \ {c} : \A i \in 1 .. Len(asked[d]) : asked[d][i].class # k

\* A manager that is alone in asking for sockets of a class is told, by each
\* list, exactly what the answers before it amount to: pipelined requests are
\* carried out in their order, as if each had waited for its answer.
SocketsTold ==
    \A c \in Connections, k \in SocketClasses : \A id \in 1 .. Len(asked[c]) :
        /\ Alone(c, k) /\ asked[c][id].type = "List" /\ asked[c][id].class = k
        /\ result[c][id] = "Ok"
        => listed[c][id] = Told(asked[c], result[c], k, id)

\* A connection that ends properly, after its client closed its half, has
\* answered every request it read and sent every answer out.
NoAnswerLost ==
    \A c \in Connections :
        phase[c] = "finished" => Answered(c) = 1 .. Len(asked[c]) /\ unflushed[c] = 0

\* The channels and queues keep within their capacities while none is lost.
ServerInv == TypeOK /\ NoAnswerLost

\* The connections implement pipelining as the protocol asks for: every request
\* is answered at most once, and those of one class in the order they came.
P == INSTANCE Pipeline

ImplementsPipeline == P!Spec

\* Every request is answered while its connection lives, however many events
\* the connection streams and however full the channels are: whatever was asked,
\* there comes a time when nothing waits.
AllAnswered ==
    []<>(\A c \in Connections : Answered(c) = 1 .. Len(asked[c]) \/ ~Open(c))

\* A connection whose client has closed its half comes to its end: the protocol
\* asks for it, "even if event streaming is enabled".
EndsAfterEof ==
    \A c \in Connections : reader[c] = "end" ~> ~Open(c)

\* It does, unless the connection is streaming events by then.
EndsUnlessStreaming ==
    \A c \in Connections : reader[c] = "end" ~> ~Open(c) \/ events[c] # Off

AskedShutdown == {c \in Connections : \E id \in 1 .. Len(asked[c]) : asked[c][id].type = "Shutdown"}

\* A shutdown request that was read brings every connection down, unless an
\* error ends its own connection first.
ShutdownEndsAll ==
    AskedShutdown # {} ~> \/ \A c \in Connections : ~Open(c)
                         \/ \A c \in AskedShutdown : phase[c] = "failed"

\* A connection comes to its end when its client or a manager wants it to.
ConnectionsEnd == EndsUnlessStreaming /\ ShutdownEndsAll

=============================================================================
