----------------------------- MODULE EventLogProofs -----------------------------
(***************************************************************************)
(* Proofs about EventLog.  IInv, at the end, is inductive.  Its parts      *)
(* follow the tasks: the log itself and the connections it tells of, the   *)
(* metrics task, the logger tasks, the end of the server.  Each part is    *)
(* preserved by every step, given the parts before it.                     *)
(***************************************************************************)
EXTENDS EventLog, FiniteSetTheorems, TLAPS

\* Every total in the log comes from the one before it, and no kind has more
\* connections than there are.
LogChained ==
    \A i \in 1 .. Len(log) :
        /\ log[i].total = Counted(TotalAt(i - 1), log[i].data)
        /\ \A k \in Kinds : log[i].total.current[k] <= Cardinality(Conns)

\* The task has read what was logged when a request was made.
Covers(r) == r.asked <= seen \/ r.between

\* Requests were asked in the past.  Once the task has caught up with the log it has
\* read what was logged when it last gave metrics, and when a request was made that
\* it may take, unless this was made since.
RequestsOrdered ==
    /\ \A i \in 1 .. Len(requests) : requests[i].asked <= Len(log)
    /\ task = "polled" => \A i \in 1 .. Len(requests) : Covers(requests[i])
    /\ task = "reply" => Covers(taken)
    /\ task \in {"polled", "reply"} => answered <= seen

\* Who has ended has found nobody left to log.
EndsOrdered ==
    /\ task = "ended" => NoSenders
    /\ \A s \in Sinks : sink[s] = "ended" => NoSenders /\ sinkAt[s] = Len(log) /\ flushed[s]
    /\ server \in {"sinks", "joined"} => task = "ended"
    /\ server = "joined" => \A s \in Sinks : sink[s] # "recv"

-----------------------------------------------------------------------------
(* The counters                                                            *)

\* A counter modulo CounterMod is a counter of that width, and keeps its value
\* when it fits.
LEMMA ModFits ==
    ASSUME NEW x \in Int, NEW m \in Nat, m > 0
    PROVE  /\ x % m \in Nat /\ x % m < m
           /\ x >= 0 /\ x < m => x % m = x
  OBVIOUS

\* An event leaves metrics that are metrics, if the end of a connection finds one
\* to subtract, and adds at most one connection.
LEMMA CountedType ==
    ASSUME NEW m \in Metrics, NEW data \in Events,
           data.type = "finished" => m.current[data.of] >= 1
    PROVE  Counted(m, data) \in Metrics
  <1>1. \A k \in Kinds : m.current[k] \in Nat /\ m.historic[k] \in Nat
    BY DEF Metrics
  <1>2. \A d \in Directions : m.bytes[d] \in Nat
    BY DEF Metrics
  <1>3. Counted(m, data).current \in [Kinds -> Nat]
    BY <1>1 DEF Counted, Events
  <1>4. Counted(m, data).historic \in [Kinds -> Nat]
    BY <1>1 DEF Counted, Events
  <1>5. Counted(m, data).bytes \in [Directions -> Nat]
    BY <1>2 DEF Counted, Events
  <1> QED
    BY <1>3, <1>4, <1>5 DEF Counted, Metrics

\* What an event does to the number of connections of a kind.
LEMMA CountedCurrent ==
    ASSUME NEW m \in Metrics, NEW data \in Events, NEW k \in Kinds
    PROVE  Counted(m, data).current[k] =
             IF data.of # k THEN m.current[k]
             ELSE CASE data.type = "accepted" -> m.current[k] + 1
                    [] data.type = "finished" -> m.current[k] - 1
                    [] OTHER -> m.current[k]
  BY DEF Metrics, Counted, Events

\* The counters of the task stay within their width, whatever it counts.
LEMMA WrappedType ==
    ASSUME NEW m \in Metrics, NEW data \in Events
    PROVE  /\ Wrapped(Counted(m, data)) \in Metrics
           /\ \A k \in Kinds : Wrapped(Counted(m, data)).current[k] < CounterMod
  <1> DEFINE n == Counted(m, data)
  <1>1. CounterMod \in Nat /\ CounterMod > 0
    BY EventLogAssumption, FS_CardinalityType
  <1>2. n.historic \in [Kinds -> Nat] /\ n.bytes \in [Directions -> Nat]
    BY DEF Counted, Metrics
  <1>3. ASSUME NEW k \in Kinds PROVE n.current[k] \in Int
    BY DEF Counted, Metrics
  <1>4. ASSUME NEW k \in Kinds
        PROVE  n.current[k] % CounterMod \in Nat /\ n.current[k] % CounterMod < CounterMod
    BY <1>1, <1>3, ModFits
  <1>5. Wrapped(n) = [current |-> [k \in Kinds |-> n.current[k] % CounterMod],
                      historic |-> n.historic, bytes |-> n.bytes]
    <2>1. n = [current |-> n.current, historic |-> n.historic, bytes |-> n.bytes]
      BY DEF Counted
    <2> HIDE DEF n
    <2> QED
      BY <2>1 DEF Wrapped
  <1> HIDE DEF n
  <1>6. [k \in Kinds |-> n.current[k] % CounterMod] \in [Kinds -> Nat]
    BY <1>4
  <1>7. Wrapped(n) \in Metrics
    BY <1>2, <1>5, <1>6 DEF Metrics
  <1>8. ASSUME NEW k \in Kinds PROVE Wrapped(n).current[k] < CounterMod
    BY <1>4, <1>5
  <1> QED
    BY <1>7, <1>8 DEF n

\* A counter that fits does not wrap around.
LEMMA WrappedSame ==
    ASSUME NEW m \in Metrics, \A k \in Kinds : m.current[k] < CounterMod
    PROVE  Wrapped(m) = m
  <1>1. CounterMod \in Nat /\ CounterMod > 0
    BY EventLogAssumption, FS_CardinalityType
  <1>2. ASSUME NEW k \in Kinds PROVE m.current[k] % CounterMod = m.current[k]
    BY <1>1, ModFits DEF Metrics
  <1>3. [k \in Kinds |-> m.current[k] % CounterMod] = m.current
    BY <1>2 DEF Metrics
  <1> QED
    BY <1>3 DEF Wrapped, Metrics

LEMMA NoMetricsType == NoMetrics \in Metrics
  BY DEF NoMetrics, Metrics

\* The totals of the log are metrics.
LEMMA TotalType ==
    ASSUME log \in Seq(Entries), NEW n \in 0 .. Len(log)
    PROVE  TotalAt(n) \in Metrics
  <1>1. CASE n = 0
    BY <1>1, NoMetricsType DEF TotalAt
  <1>2. CASE n # 0
    <2>1. n \in 1 .. Len(log)
      BY <1>2
    <2>2. log[n] \in Entries
      BY <2>1
    <2> QED
      BY <1>2, <2>2 DEF TotalAt, Entries
  <1> QED
    BY <1>1, <1>2

-----------------------------------------------------------------------------
(* The log and the connections                                             *)

\* The connections of a kind that the events count.
Counting(k) == {c \in Conns : KindOf(c) = k /\ Counts(c)}

LEMMA CountingFinite ==
    ASSUME NEW k \in Kinds
    PROVE  /\ IsFiniteSet(Counting(k))
           /\ Cardinality(Counting(k)) \in Nat
           /\ Cardinality(Counting(k)) <= Cardinality(Conns)
  <1>1. Counting(k) \subseteq Conns /\ IsFiniteSet(Conns)
    BY EventLogAssumption DEF Counting
  <1> QED
    BY <1>1, FS_Subset, FS_CardinalityType

\* The log has a new last entry, and no other change.
Appended(data) ==
    /\ log' \in Seq(Entries)
    /\ Len(log') = Len(log) + 1
    /\ \A i \in 1 .. Len(log) : log'[i] = log[i]
    /\ log'[Len(log) + 1].data = data
    /\ log'[Len(log) + 1].total = Counted(TotalAt(Len(log)), data)
    /\ \A n \in 0 .. Len(log) : TotalAt(n)' = TotalAt(n)
    /\ \A n \in Nat : n = Len(log) + 1 => TotalAt(n)' = Counted(TotalAt(Len(log)), data)

\* That is what sending an event does.
LEMMA SendAppends ==
    ASSUME log \in Seq(Entries), NEW data \in Events, Send(data),
           data.type = "finished" => TotalAt(Len(log)).current[data.of] >= 1
    PROVE  Appended(data)
  <1> DEFINE entry == [data |-> data, total |-> Counted(TotalAt(Len(log)), data)]
  <1>1. TotalAt(Len(log)) \in Metrics
    BY TotalType
  <1>2. entry \in Entries
    BY <1>1, CountedType DEF Entries
  <1>3. log' = Append(log, entry)
    BY DEF Send
  <1>4. entry.data = data /\ entry.total = Counted(TotalAt(Len(log)), data)
    OBVIOUS
  <1> HIDE DEF entry
  <1>5. /\ log' \in Seq(Entries)
        /\ Len(log') = Len(log) + 1
        /\ \A i \in 1 .. Len(log) : log'[i] = log[i]
        /\ log'[Len(log) + 1] = entry
    BY <1>2, <1>3
  <1>6. \A n \in 0 .. Len(log) : TotalAt(n)' = TotalAt(n)
    BY <1>5 DEF TotalAt
  <1>7. ASSUME NEW n \in Nat, n = Len(log) + 1 PROVE TotalAt(n)' = entry.total
    BY <1>5, <1>7 DEF TotalAt
  <1> QED
    BY <1>4, <1>5, <1>6, <1>7 DEF Appended

\* The invariant of the log by itself.
LogInv ==
    /\ conn \in [Conns -> {"new", "open", "ended", "cancelled"}]
    /\ log \in Seq(Entries)
    /\ EventsCountConnections
    /\ LogChained

\* The log follows the connections through an event that changes the counters as
\* it changes the connections.
LEMMA SendKeepsLogInv ==
    ASSUME LogInv, NEW data \in Events, Send(data),
           conn' \in [Conns -> {"new", "open", "ended", "cancelled"}],
           data.type = "finished" => TotalAt(Len(log)).current[data.of] >= 1,
           \A k \in Kinds :
              Counted(TotalAt(Len(log)), data).current[k] = Cardinality(Counting(k)')
    PROVE  LogInv'
  <1> USE DEF LogInv
  <1>0. Appended(data)
    BY SendAppends
  <1>1. log' \in Seq(Entries) /\ Len(log') = Len(log) + 1
    BY <1>0 DEF Appended
  <1>2. EventsCountConnections'
    <2>1. PICK n \in Nat : n = Len(log')
      BY <1>1
    <2>2. TotalAt(n)' = Counted(TotalAt(Len(log)), data)
      BY <1>0, <1>1, <2>1 DEF Appended
    <2>3. TotalAt(Len(log))' = Counted(TotalAt(Len(log)), data)
      BY <2>1, <2>2 DEF TotalAt
    <2> QED
      BY <2>3 DEF EventsCountConnections, Counting
  <1>3. ASSUME NEW k \in Kinds PROVE Cardinality(Counting(k)') <= Cardinality(Conns)
    <2>1. Counting(k)' \subseteq Conns /\ IsFiniteSet(Conns)
      BY EventLogAssumption DEF Counting
    <2> QED
      BY <2>1, FS_Subset, FS_CardinalityType
  <1>4. ASSUME NEW i \in 1 .. Len(log')
        PROVE  /\ log'[i].total = Counted(TotalAt(i - 1)', log'[i].data)
               /\ \A k \in Kinds : log'[i].total.current[k] <= Cardinality(Conns)
    <2>1. CASE i \in 1 .. Len(log)
      <3>1. log'[i] = log[i] /\ TotalAt(i - 1)' = TotalAt(i - 1)
        BY <1>0, <2>1 DEF Appended
      <3> QED
        BY <2>1, <3>1 DEF LogChained
    <2>2. CASE i = Len(log) + 1
      <3>1. /\ log'[i].total = Counted(TotalAt(Len(log)), data) /\ log'[i].data = data
            /\ TotalAt(i - 1)' = TotalAt(Len(log))
        BY <1>0, <2>2 DEF Appended
      <3> QED
        BY <1>3, <3>1
    <2> QED
      BY <1>1, <2>1, <2>2
  <1>5. LogChained'
    BY <1>4 DEF LogChained
  <1> QED
    BY <1>1, <1>2, <1>5

\* The log does not change and nor does what it counts.
LEMMA SameLogInv ==
    ASSUME LogInv, log' = log,
           conn' \in [Conns -> {"new", "open", "ended", "cancelled"}],
           \A k \in Kinds : Counting(k)' = Counting(k)
    PROVE  LogInv'
  <1>1. \A n : TotalAt(n)' = TotalAt(n)
    BY DEF TotalAt
  <1>2. \A k \in Kinds : TotalAt(Len(log)).current[k] = Cardinality(Counting(k))
    BY DEF LogInv, EventsCountConnections, Counting
  <1>3. TotalAt(Len(log))' = TotalAt(Len(log))
    BY DEF TotalAt
  <1>4. EventsCountConnections'
    BY <1>2, <1>3 DEF EventsCountConnections, Counting
  <1>5. LogChained'
    BY <1>1 DEF LogInv, LogChained
  <1> QED
    BY <1>4, <1>5 DEF LogInv

\* The actions that change the log or the connections.
LogStep ==
    \/ \E c \in Conns : Accept(c) \/ EndConn(c) \/ CancelConn(c) \/ CopyBytes(c)
    \/ LogOther

\* All others leave both alone.
LEMMA OtherSteps ==
    ASSUME [Next]_vars, ~LogStep
    PROVE  conn' = conn /\ log' = log
  BY DEF Next, LogStep, Ask, Stop, StartJoin, JoinMetrics, JoinSinks, MetricsStep,
         MetricsLagged, CountEvent, PollLog, TakeRequest, MetricsWaits, Reply, EndMetrics,
         SinkStep, SinkEvent, SinkLagged, EndSink, SinkError, vars, connVars

LEMMA AcceptKeepsLog ==
    ASSUME LogInv, NEW c \in Conns, Accept(c)
    PROVE  LogInv'
  <1> DEFINE data == [type |-> "accepted", of |-> KindOf(c)]
  <1>1. data \in Events /\ data.type = "accepted" /\ data.of = KindOf(c) /\ Send(data)
    BY DEF Accept, Events, Kinds, KindOf
  <1>2. /\ conn[c] = "new" /\ conn' = [conn EXCEPT ![c] = "open"]
        /\ conn' \in [Conns -> {"new", "open", "ended", "cancelled"}]
    BY DEF Accept, LogInv
  <1> HIDE DEF data
  <1>3. ASSUME NEW k \in Kinds
        PROVE  Counted(TotalAt(Len(log)), data).current[k] = Cardinality(Counting(k)')
    <2>1. TotalAt(Len(log)) \in Metrics
      BY TotalType DEF LogInv
    <2>2. TotalAt(Len(log)).current[k] = Cardinality(Counting(k))
      BY DEF LogInv, EventsCountConnections, Counting
    <2>3. CASE k = KindOf(c)
      <3>1. Counting(k)' = Counting(k) \cup {c} /\ c \notin Counting(k)
        BY <1>2, <2>3 DEF Counting, Counts, LogInv
      <3>2. Cardinality(Counting(k)') = Cardinality(Counting(k)) + 1
        BY <3>1, CountingFinite, FS_AddElement
      <3> QED
        BY <1>1, <2>1, <2>2, <2>3, <3>2, CountedCurrent
    <2>4. CASE k # KindOf(c)
      <3>1. Counting(k)' = Counting(k)
        BY <1>2, <2>4 DEF Counting, Counts, LogInv
      <3> QED
        BY <1>1, <2>1, <2>2, <2>4, <3>1, CountedCurrent
    <2> QED
      BY <2>3, <2>4
  <1> QED
    BY <1>1, <1>2, <1>3, SendKeepsLogInv

\* The end of a connection finds it counted.
LEMMA EndConnFinds ==
    ASSUME LogInv, NEW c \in Conns, conn[c] = "open"
    PROVE  TotalAt(Len(log)).current[KindOf(c)] >= 1
  <1>1. KindOf(c) \in Kinds
    BY DEF Kinds, KindOf
  <1>2. c \in Counting(KindOf(c))
    BY DEF Counting, Counts
  <1>3. Cardinality(Counting(KindOf(c))) # 0
    BY <1>1, <1>2, CountingFinite, FS_EmptySet
  <1>4. Cardinality(Counting(KindOf(c))) \in Nat
    BY <1>1, CountingFinite
  <1> QED
    BY <1>1, <1>3, <1>4 DEF LogInv, EventsCountConnections, Counting

LEMMA EndConnKeepsLog ==
    ASSUME LogInv, NEW c \in Conns, EndConn(c)
    PROVE  LogInv'
  <1> DEFINE data == [type |-> "finished", of |-> KindOf(c)]
  <1>1. data \in Events /\ data.type = "finished" /\ data.of = KindOf(c) /\ Send(data)
    BY DEF EndConn, Events, Kinds, KindOf
  <1>2. /\ conn[c] = "open" /\ conn' = [conn EXCEPT ![c] = "ended"]
        /\ conn' \in [Conns -> {"new", "open", "ended", "cancelled"}]
    BY DEF EndConn, LogInv
  <1> HIDE DEF data
  <1>3. ASSUME NEW k \in Kinds
        PROVE  Counted(TotalAt(Len(log)), data).current[k] = Cardinality(Counting(k)')
    <2>1. TotalAt(Len(log)) \in Metrics
      BY TotalType DEF LogInv
    <2>2. TotalAt(Len(log)).current[k] = Cardinality(Counting(k))
      BY DEF LogInv, EventsCountConnections, Counting
    <2>3. CASE k = KindOf(c)
      <3>1. Counting(k)' = Counting(k) \ {c} /\ c \in Counting(k)
        BY <1>2, <2>3 DEF Counting, Counts, LogInv
      <3>2. Cardinality(Counting(k)') = Cardinality(Counting(k)) - 1
        BY <3>1, CountingFinite, FS_RemoveElement
      <3> QED
        BY <1>1, <2>1, <2>2, <2>3, <3>2, CountedCurrent
    <2>4. CASE k # KindOf(c)
      <3>1. Counting(k)' = Counting(k)
        BY <1>2, <2>4 DEF Counting, Counts, LogInv
      <3> QED
        BY <1>1, <2>1, <2>2, <2>4, <3>1, CountedCurrent
    <2> QED
      BY <2>3, <2>4
  <1>4. TotalAt(Len(log)).current[data.of] >= 1
    BY <1>1, <1>2, EndConnFinds
  <1> QED
    BY <1>1, <1>2, <1>3, <1>4, SendKeepsLogInv

\* An event that counts nothing.
LEMMA OtherSendKeepsLog ==
    ASSUME LogInv, conn' = conn, NEW data \in Events, data.type \in {"bytes", "other"},
           Send(data)
    PROVE  LogInv'
  <1>1. TotalAt(Len(log)) \in Metrics
    BY TotalType DEF LogInv
  <1>2. ASSUME NEW k \in Kinds
        PROVE  Counted(TotalAt(Len(log)), data).current[k] = Cardinality(Counting(k)')
    <2>1. TotalAt(Len(log)).current[k] = Cardinality(Counting(k))
      BY DEF LogInv, EventsCountConnections, Counting
    <2>2. Counting(k)' = Counting(k)
      BY DEF Counting, Counts
    <2> QED
      BY <1>1, <2>1, <2>2, CountedCurrent
  <1>3. conn' \in [Conns -> {"new", "open", "ended", "cancelled"}]
    BY DEF LogInv
  <1> QED
    BY <1>2, <1>3, SendKeepsLogInv

LEMMA LogInvStep ==
    ASSUME LogInv, [Next]_vars
    PROVE  LogInv'
  <1>1. ASSUME NEW c \in Conns, Accept(c) PROVE LogInv'
    BY <1>1, AcceptKeepsLog
  <1>2. ASSUME NEW c \in Conns, EndConn(c) PROVE LogInv'
    BY <1>2, EndConnKeepsLog
  <1>3. ASSUME NEW c \in Conns, CancelConn(c) PROVE LogInv'
    <2>1. conn' \in [Conns -> {"new", "open", "ended", "cancelled"}]
      BY <1>3 DEF CancelConn, LogInv
    <2>2. ASSUME NEW k \in Kinds PROVE Counting(k)' = Counting(k)
      BY <1>3 DEF CancelConn, Counting, Counts, LogInv
    <2> QED
      BY <1>3, <2>1, <2>2, SameLogInv DEF CancelConn
  <1>4. ASSUME NEW c \in Conns, CopyBytes(c) PROVE LogInv'
    <2>1. PICK d \in Directions : Send([type |-> "bytes", of |-> d])
      BY <1>4 DEF CopyBytes
    <2>2. [type |-> "bytes", of |-> d] \in Events
      BY DEF Events
    <2> QED
      BY <1>4, <2>1, <2>2, OtherSendKeepsLog DEF CopyBytes, connVars
  <1>5. CASE LogOther
    <2>1. [type |-> "other", of |-> None] \in Events
      BY DEF Events
    <2> QED
      BY <1>5, <2>1, OtherSendKeepsLog DEF LogOther, connVars
  <1>6. CASE ~LogStep
    <2>1. conn' = conn /\ log' = log
      BY <1>6, OtherSteps
    <2>2. \A k \in Kinds : Counting(k)' = Counting(k)
      BY <2>1 DEF Counting, Counts
    <2> QED
      BY <2>1, <2>2, SameLogInv DEF LogInv
  <1> QED
    BY <1>1, <1>2, <1>3, <1>4, <1>5, <1>6 DEF LogStep

\* A step may append to the log and changes nothing that is there.
LogGrows ==
    /\ log' \in Seq(Entries) /\ Len(log') >= Len(log)
    /\ \A i \in 1 .. Len(log) : log'[i] = log[i]
    /\ \A n \in 0 .. Len(log) : TotalAt(n)' = TotalAt(n)

LEMMA StepsGrow ==
    ASSUME LogInv, [Next]_vars
    PROVE  LogGrows
  <1>0. log \in Seq(Entries)
    BY DEF LogInv
  <1>1. ASSUME NEW data \in Events, Send(data),
               data.type = "finished" => TotalAt(Len(log)).current[data.of] >= 1
        PROVE  LogGrows
    BY <1>0, <1>1, SendAppends DEF Appended, LogGrows
  <1>2. ASSUME log' = log PROVE LogGrows
    BY <1>0, <1>2 DEF LogGrows, TotalAt
  <1>3. ASSUME NEW c \in Conns, Accept(c) PROVE LogGrows
    <2>1. [type |-> "accepted", of |-> KindOf(c)] \in Events
      BY DEF Events, Kinds, KindOf
    <2> QED
      BY <1>1, <1>3, <2>1 DEF Accept
  <1>4. ASSUME NEW c \in Conns, EndConn(c) PROVE LogGrows
    <2>1. [type |-> "finished", of |-> KindOf(c)] \in Events
      BY DEF Events, Kinds, KindOf
    <2>2. TotalAt(Len(log)).current[KindOf(c)] >= 1
      BY <1>4, EndConnFinds DEF EndConn
    <2> QED
      BY <1>1, <1>4, <2>1, <2>2 DEF EndConn
  <1>5. ASSUME NEW c \in Conns, CopyBytes(c) PROVE LogGrows
    <2>1. PICK d \in Directions : Send([type |-> "bytes", of |-> d])
      BY <1>5 DEF CopyBytes
    <2>2. [type |-> "bytes", of |-> d] \in Events
      BY DEF Events
    <2> QED
      BY <1>1, <2>1, <2>2
  <1>6. CASE LogOther
    <2>1. [type |-> "other", of |-> None] \in Events
      BY DEF Events
    <2> QED
      BY <1>1, <1>6, <2>1 DEF LogOther
  <1>7. ASSUME NEW c \in Conns, CancelConn(c) PROVE LogGrows
    BY <1>2, <1>7 DEF CancelConn
  <1>8. CASE ~LogStep
    BY <1>2, <1>8, OtherSteps
  <1> QED
    BY <1>3, <1>4, <1>5, <1>6, <1>7, <1>8 DEF LogStep

-----------------------------------------------------------------------------
(* The metrics task                                                        *)

\* The actions of others leave it alone, but for requests.
LEMMA OthersKeepMetrics ==
    ASSUME [Next]_vars, ~MetricsStep, ~\E c \in Conns : Ask(c)
    PROVE  UNCHANGED metricsVars
  BY DEF Next, Accept, EndConn, CancelConn, CopyBytes, LogOther, Stop, StartJoin,
         JoinMetrics, JoinSinks, SinkStep, SinkEvent, SinkLagged, EndSink, SinkError,
         vars

\* What the task counts when it has lost nothing is the next total.
LEMMA CountsNextTotal ==
    ASSUME LogInv, MetricsTypeOK, MetricsTrue, ~lossy, seen < Len(log)
    PROVE  /\ Wrapped(Counted(metrics, log[seen + 1].data)) = TotalAt(seen + 1)
           /\ ~Underflows(log[seen + 1].data)
  <1>1. seen \in Nat /\ seen + 1 \in 1 .. Len(log) /\ metrics = TotalAt(seen)
    BY DEF MetricsTypeOK, MetricsTrue, LogInv
  <1> DEFINE data == log[seen + 1].data
             total == log[seen + 1].total
  <1>2. data \in Events /\ total \in Metrics
    <2>1. log[seen + 1] \in Entries
      BY <1>1 DEF LogInv
    <2> QED
      BY <2>1 DEF Entries
  <1>3. total = Counted(metrics, data) /\ \A k \in Kinds : total.current[k] <= Cardinality(Conns)
    BY <1>1 DEF LogInv, LogChained
  <1>4. TotalAt(seen + 1) = total
    BY <1>1 DEF TotalAt
  <1> HIDE DEF data, total
  <1>5. \A k \in Kinds : total.current[k] \in Nat
    BY <1>2 DEF Metrics
  <1>6. \A k \in Kinds : total.current[k] < CounterMod
    BY <1>3, <1>5, EventLogAssumption, FS_CardinalityType
  <1>7. Wrapped(total) = total
    BY <1>2, <1>6, WrappedSame
  <1>8. ~Underflows(data)
    <2> SUFFICES ASSUME data.type = "finished" PROVE metrics.current[data.of] # 0
      BY DEF Underflows
    <2>1. data.of \in Kinds /\ metrics \in Metrics
      BY <1>2 DEF Events, MetricsTypeOK
    <2>2. total.current[data.of] = metrics.current[data.of] - 1
      BY <1>2, <1>3, <2>1, CountedCurrent
    <2>3. metrics.current[data.of] \in Nat
      BY <2>1 DEF Metrics
    <2> QED
      BY <1>5, <2>1, <2>2, <2>3
  <1> QED
    BY <1>3, <1>4, <1>7, <1>8 DEF data

LEMMA MetricsTypeStep ==
    ASSUME LogInv, MetricsTypeOK, [Next]_vars
    PROVE  MetricsTypeOK'
  <1>1. LogGrows /\ Len(log) \in Nat /\ seen \in Nat
    BY StepsGrow DEF LogInv, MetricsTypeOK
  <1>2. ASSUME NEW c \in Conns, Ask(c) PROVE MetricsTypeOK'
    <2>1. PICK r \in Requests : requests' = Append(requests, r)
      BY <1>1, <1>2 DEF Ask, Requests
    <2>2. c \in Sandstorm
      BY <1>2 DEF Ask
    <2>3. requests' \in Seq(Requests) /\ Len(requests') <= MetricsCap
      BY <1>2, <2>1, EventLogAssumption DEF Ask, MetricsTypeOK
    <2> QED
      BY <1>2, <2>2, <2>3 DEF Ask, MetricsTypeOK
  <1>3. CASE MetricsLagged
    <2>1. Overwritten \in 0 .. Len(log)
      BY <1>1, EventLogAssumption DEF Overwritten
    <2> QED
      BY <1>3, <2>1 DEF MetricsLagged, MetricsTypeOK
  <1>4. CASE CountEvent
    <2>1. seen' = seen + 1 /\ seen + 1 \in 1 .. Len(log) /\ log' = log
      BY <1>1, <1>4 DEF CountEvent
    <2>2. log[seen + 1] \in Entries
      BY <2>1 DEF LogInv
    <2>3. log[seen + 1].data \in Events
      BY <2>2 DEF Entries
    <2>4. CASE task' = "panicked" /\ requests' = <<>> /\ asking' = {} /\ metrics' = metrics
      BY <1>4, <2>1, <2>4, EventLogAssumption DEF CountEvent, MetricsTypeOK
    <2>5. CASE /\ metrics' = Wrapped(Counted(metrics, log[seen + 1].data))
               /\ UNCHANGED <<task, requests, asking>>
      <3>1. metrics' \in Metrics /\ \A k \in Kinds : metrics'.current[k] < CounterMod
        BY <2>3, <2>5, WrappedType DEF MetricsTypeOK
      <3> QED
        BY <1>4, <2>1, <2>5, <3>1 DEF CountEvent, MetricsTypeOK
    <2> QED
      BY <1>4, <2>4, <2>5 DEF CountEvent
  <1>5. CASE TakeRequest
    <2>1. Head(requests) \in Requests /\ Tail(requests) \in Seq(Requests)
          /\ Len(Tail(requests)) <= MetricsCap
      BY <1>5, EventLogAssumption DEF TakeRequest, MetricsTypeOK
    <2> QED
      BY <1>5, <2>1 DEF TakeRequest, MetricsTypeOK
  <1>6. CASE Reply
    <2>0. taken \in Requests
      BY <1>6 DEF Reply, MetricsTypeOK
    <2> DEFINE answer == [metrics |-> metrics, at |-> seen, asked |-> taken.asked,
                          between |-> taken.between, before |-> answered,
                          from |-> IF taken.subscribe THEN Len(log) ELSE None,
                          lossy |-> lossy]
    <2>1. answer \in Answers
      BY <1>1, <1>6, <2>0 DEF MetricsTypeOK, Requests, Answers
    <2>2. answers' = [answers EXCEPT ![taken.conn] = answer]
      BY <1>6 DEF Reply
    <2> HIDE DEF answer
    <2>3. answers' \in [Sandstorm -> Answers \cup {None}]
      BY <2>0, <2>1, <2>2 DEF MetricsTypeOK, Requests
    <2> QED
      BY <1>1, <1>6, <2>3 DEF Reply, MetricsTypeOK
  <1>7. CASE PollLog \/ MetricsWaits \/ EndMetrics
    <2>1. /\ UNCHANGED <<log, metrics, seen, lossy, taken, answers, answered>>
          /\ task' \in {"recv", "polled", "ended"} /\ taken = None
      BY <1>7 DEF PollLog, MetricsWaits, EndMetrics, MetricsTypeOK
    <2>2. asking' \in {asking, {}} /\ requests' \in {requests, <<>>}
      BY <1>7 DEF PollLog, MetricsWaits, EndMetrics
    <2>3. <<>> \in Seq(Requests) /\ Len(<<>>) <= MetricsCap
      BY EventLogAssumption
    <2>4. requests' \in Seq(Requests) /\ Len(requests') <= MetricsCap
      BY <2>2, <2>3 DEF MetricsTypeOK
    <2> QED
      BY <2>1, <2>2, <2>4 DEF MetricsTypeOK
  <1>8. CASE UNCHANGED metricsVars
    <2>1. seen \in 0 .. Len(log') /\ answered \in 0 .. Len(log')
      BY <1>1 DEF LogGrows, MetricsTypeOK
    <2> QED
      BY <1>8, <2>1 DEF metricsVars, MetricsTypeOK
  <1> QED
    BY <1>2, <1>3, <1>4, <1>5, <1>6, <1>7, <1>8, OthersKeepMetrics DEF MetricsStep

MetricsInv ==
    /\ MetricsTypeOK
    /\ MetricsTrue /\ PanicNeedsLoss
    /\ RequestsOrdered /\ AnswersFresh

\* Steps that leave the log alone leave the totals alone.
LEMMA SameTotals ==
    ASSUME log' = log
    PROVE  \A n : TotalAt(n)' = TotalAt(n)
  BY DEF TotalAt

LEMMA AskKeepsMetrics ==
    ASSUME LogInv, MetricsInv, NEW c \in Conns, Ask(c)
    PROVE  MetricsTrue' /\ PanicNeedsLoss' /\ RequestsOrdered' /\ AnswersFresh'
  <1>1. UNCHANGED <<log, task, metrics, seen, lossy, taken, answers, answered>>
    BY DEF Ask
  <1>2. \A n : TotalAt(n)' = TotalAt(n)
    BY <1>1, SameTotals
  <1>3. MetricsTrue' /\ PanicNeedsLoss' /\ AnswersFresh'
    BY <1>1, <1>2 DEF MetricsInv, MetricsTrue, PanicNeedsLoss, AnswersFresh
  <1>4. PICK r : /\ requests' = Append(requests, r)
                 /\ r.asked = Len(log) /\ (task = "polled" => r.between)
    <2> DEFINE R(b) == [conn |-> c, subscribe |-> b, asked |-> Len(log),
                        between |-> task = "polled"]
    <2>1. PICK b \in BOOLEAN : requests' = Append(requests, R(b))
      BY DEF Ask
    <2>2. R(b).asked = Len(log)
      OBVIOUS
    <2>3. R(b).between <=> task = "polled"
      BY Zenon
    <2> QED
      BY <2>1, <2>2, <2>3
  <1>5. Len(log) \in Nat /\ requests \in Seq(Requests)
    BY DEF LogInv, MetricsInv, MetricsTypeOK
  <1>6. ASSUME NEW i \in 1 .. Len(requests')
        PROVE  /\ requests'[i].asked <= Len(log)
               /\ task = "polled" => Covers(requests'[i])
    <2>1. CASE i \in 1 .. Len(requests)
      BY <1>4, <1>5, <2>1 DEF MetricsInv, RequestsOrdered
    <2>2. CASE i = Len(requests) + 1
      <3>1. requests'[i] = r
        BY <1>4, <1>5, <2>2
      <3> QED
        BY <1>4, <1>5, <3>1 DEF Covers
    <2> QED
      BY <1>4, <1>5, <2>1, <2>2
  <1> QED
    BY <1>1, <1>3, <1>6 DEF MetricsInv, RequestsOrdered, Covers

LEMMA CountKeepsMetrics ==
    ASSUME LogInv, MetricsInv, CountEvent
    PROVE  MetricsTrue' /\ PanicNeedsLoss' /\ RequestsOrdered' /\ AnswersFresh'
  <1>1. /\ UNCHANGED <<log, lossy, taken, answers, answered>> /\ task = "recv"
        /\ seen' = seen + 1 /\ seen < Len(log)
        /\ requests' \in {requests, <<>>} /\ task' \in {task, "panicked"}
    BY DEF CountEvent
  <1>2. \A n : TotalAt(n)' = TotalAt(n)
    BY <1>1, SameTotals
  <1>3. ASSUME lossy PROVE MetricsTrue' /\ PanicNeedsLoss'
    BY <1>1, <1>3 DEF MetricsTrue, PanicNeedsLoss
  <1>4. ASSUME ~lossy PROVE MetricsTrue' /\ PanicNeedsLoss'
    <2>1. /\ Wrapped(Counted(metrics, log[seen + 1].data)) = TotalAt(seen + 1)
          /\ ~Underflows(log[seen + 1].data)
      BY <1>1, <1>4, CountsNextTotal DEF MetricsInv
    <2>2. metrics' = TotalAt(seen + 1) /\ task' = task
      BY <2>1 DEF CountEvent
    <2>3. metrics' = TotalAt(seen)'
      BY <1>1, <2>2 DEF TotalAt
    <2> QED
      BY <1>1, <2>2, <2>3 DEF MetricsTrue, PanicNeedsLoss
  <1>5. RequestsOrdered'
    BY <1>1 DEF MetricsInv, RequestsOrdered
  <1>6. AnswersFresh'
    BY <1>1, <1>2 DEF MetricsInv, AnswersFresh
  <1> QED
    BY <1>3, <1>4, <1>5, <1>6

\* The log has been found empty.
LEMMA PollKeepsMetrics ==
    ASSUME LogInv, MetricsInv, PollLog
    PROVE  MetricsTrue' /\ PanicNeedsLoss' /\ RequestsOrdered' /\ AnswersFresh'
  <1>1. /\ UNCHANGED <<log, metrics, seen, lossy, requests, taken, answers, answered>>
        /\ seen = Len(log) /\ task' = "polled"
    BY DEF PollLog
  <1>2. \A n : TotalAt(n)' = TotalAt(n)
    BY <1>1, SameTotals
  <1>3. answered <= seen
    BY <1>1 DEF MetricsInv, MetricsTypeOK
  <1> QED
    BY <1>1, <1>2, <1>3 DEF MetricsInv, MetricsTrue, PanicNeedsLoss, RequestsOrdered,
       Covers, AnswersFresh

LEMMA TakeKeepsMetrics ==
    ASSUME LogInv, MetricsInv, TakeRequest
    PROVE  MetricsTrue' /\ PanicNeedsLoss' /\ RequestsOrdered' /\ AnswersFresh'
  <1>1. /\ UNCHANGED <<log, metrics, seen, lossy, answers, answered>> /\ task = "polled"
        /\ requests # <<>> /\ taken' = Head(requests) /\ requests' = Tail(requests)
        /\ task' = "reply"
    BY DEF TakeRequest
  <1>2. \A n : TotalAt(n)' = TotalAt(n)
    BY <1>1, SameTotals
  <1>3. MetricsTrue' /\ PanicNeedsLoss' /\ AnswersFresh'
    BY <1>1, <1>2 DEF MetricsInv, MetricsTrue, PanicNeedsLoss, AnswersFresh
  <1>4. requests \in Seq(Requests)
    BY DEF MetricsInv, MetricsTypeOK
  <1>5. taken' = requests[1] /\ Len(requests) >= 1
    BY <1>1, <1>4
  <1>6. Covers(taken)' /\ answered <= seen
    BY <1>1, <1>4, <1>5 DEF MetricsInv, RequestsOrdered, Covers
  <1>7. \A i \in 1 .. Len(requests') : i + 1 \in 1 .. Len(requests) /\ requests'[i] = requests[i + 1]
    BY <1>1, <1>4, <1>5
  <1> QED
    BY <1>1, <1>3, <1>6, <1>7 DEF MetricsInv, RequestsOrdered

LEMMA ReplyKeepsMetrics ==
    ASSUME LogInv, MetricsInv, Reply
    PROVE  MetricsTrue' /\ PanicNeedsLoss' /\ RequestsOrdered' /\ AnswersFresh'
  <1> DEFINE answer == [metrics |-> metrics, at |-> seen, asked |-> taken.asked,
                        between |-> taken.between, before |-> answered,
                        from |-> IF taken.subscribe THEN Len(log) ELSE None,
                        lossy |-> lossy]
  <1>1. /\ UNCHANGED <<log, metrics, seen, lossy, requests>> /\ task = "reply"
        /\ answers' = [answers EXCEPT ![taken.conn] = answer] /\ task' = "recv"
    BY DEF Reply
  <1>2. \A n : TotalAt(n)' = TotalAt(n)
    BY <1>1, SameTotals
  <1>3. taken \in Requests /\ seen \in 0 .. Len(log) /\ Len(log) \in Nat
        /\ answers \in [Sandstorm -> Answers \cup {None}]
    BY <1>1 DEF LogInv, MetricsInv, MetricsTypeOK
  <1>4. /\ answer.asked <= answer.at \/ answer.between
        /\ answer.before <= answer.at /\ answer.at <= Len(log)
        /\ answer.from # None => answer.at <= answer.from /\ answer.from <= Len(log)
        /\ ~answer.lossy => answer.metrics = TotalAt(answer.at)
    BY <1>1, <1>3 DEF MetricsInv, RequestsOrdered, Covers, MetricsTrue
  <1>5. ASSUME NEW c \in Sandstorm
        PROVE  answers'[c] = answers[c] \/ answers'[c] = answer
    BY <1>1, <1>3
  <1> HIDE DEF answer
  <1>6. AnswersFresh'
    BY <1>1, <1>2, <1>4, <1>5 DEF MetricsInv, AnswersFresh
  <1>7. MetricsTrue' /\ PanicNeedsLoss' /\ RequestsOrdered'
    BY <1>1, <1>2 DEF MetricsInv, MetricsTrue, PanicNeedsLoss, RequestsOrdered
  <1> QED
    BY <1>6, <1>7

LEMMA MetricsInvStep ==
    ASSUME LogInv, MetricsInv, [Next]_vars
    PROVE  MetricsInv'
  <1>1. MetricsTypeOK'
    BY MetricsTypeStep DEF MetricsInv
  <1> DEFINE Goal == MetricsTrue' /\ PanicNeedsLoss' /\ RequestsOrdered' /\ AnswersFresh'
  <1>2. ASSUME NEW c \in Conns, Ask(c) PROVE Goal
    BY <1>2, AskKeepsMetrics
  <1>3. ASSUME MetricsLagged PROVE Goal
    <2>1. /\ UNCHANGED <<log, task, metrics, requests, taken, answers, answered>>
          /\ lossy' = TRUE /\ task = "recv"
      BY <1>3 DEF MetricsLagged
    <2>2. \A n : TotalAt(n)' = TotalAt(n)
      BY <2>1, SameTotals
    <2> QED
      BY <2>1, <2>2 DEF MetricsInv, MetricsTrue, PanicNeedsLoss, RequestsOrdered, AnswersFresh
  <1>4. ASSUME CountEvent PROVE Goal
    BY <1>4, CountKeepsMetrics
  <1>5. ASSUME TakeRequest PROVE Goal
    BY <1>5, TakeKeepsMetrics
  <1>6. ASSUME Reply PROVE Goal
    BY <1>6, ReplyKeepsMetrics
  <1>7. ASSUME PollLog PROVE Goal
    BY <1>7, PollKeepsMetrics
  <1>8. ASSUME MetricsWaits \/ EndMetrics PROVE Goal
    <2>1. /\ UNCHANGED <<log, metrics, seen, lossy, taken, answers, answered>>
          /\ task' \in {"recv", "ended"} /\ requests' \in {requests, <<>>}
      BY <1>8 DEF MetricsWaits, EndMetrics
    <2>2. \A n : TotalAt(n)' = TotalAt(n)
      BY <2>1, SameTotals
    <2> QED
      BY <2>1, <2>2 DEF MetricsInv, MetricsTrue, PanicNeedsLoss, RequestsOrdered, AnswersFresh
  <1>9. ASSUME UNCHANGED metricsVars PROVE Goal
    <2>1. LogGrows /\ Len(log) \in Nat /\ Len(log') \in Nat
      BY StepsGrow DEF LogInv, LogGrows
    <2>2. seen \in 0 .. Len(log) /\ requests \in Seq(Requests)
          /\ answers \in [Sandstorm -> Answers \cup {None}]
      BY DEF MetricsInv, MetricsTypeOK
    <2>3. MetricsTrue' /\ PanicNeedsLoss'
      BY <1>9, <2>1, <2>2 DEF MetricsInv, MetricsTrue, PanicNeedsLoss, metricsVars, LogGrows, TotalAt
    <2>4. ASSUME NEW i \in 1 .. Len(requests) PROVE requests[i].asked <= Len(log')
      <3>1. requests[i] \in Requests /\ requests[i].asked <= Len(log)
        BY <2>2 DEF MetricsInv, RequestsOrdered
      <3> QED
        BY <2>1, <3>1 DEF LogGrows, Requests
    <2>5. RequestsOrdered'
      BY <1>9, <2>4 DEF MetricsInv, RequestsOrdered, Covers, metricsVars
    <2>6. ASSUME NEW c \in Sandstorm, answers[c] # None
          PROVE  /\ answers[c].asked <= answers[c].at \/ answers[c].between
                 /\ answers[c].before <= answers[c].at /\ answers[c].at <= Len(log')
                 /\ answers[c].from # None =>
                       answers[c].at <= answers[c].from /\ answers[c].from <= Len(log')
                 /\ ~answers[c].lossy => answers[c].metrics = TotalAt(answers[c].at)'
      <3>1. answers[c].at \in Nat /\ answers[c].from \in Nat \cup {None}
        BY <2>2, <2>6 DEF Answers
      <3>2. /\ answers[c].asked <= answers[c].at \/ answers[c].between
            /\ answers[c].before <= answers[c].at /\ answers[c].at <= Len(log)
            /\ answers[c].from # None =>
                  answers[c].at <= answers[c].from /\ answers[c].from <= Len(log)
            /\ ~answers[c].lossy => answers[c].metrics = TotalAt(answers[c].at)
        BY <2>6 DEF MetricsInv, AnswersFresh
      <3>3. PICK n \in 0 .. Len(log) : n = answers[c].at
        BY <2>1, <3>1, <3>2
      <3>4. TotalAt(n)' = TotalAt(n) /\ answers'[c].at = n
        BY <1>9, <2>1, <3>3 DEF LogGrows, metricsVars
      <3> QED
        BY <1>9, <2>1, <3>1, <3>2, <3>3, <3>4 DEF LogGrows, TotalAt, metricsVars
    <2>7. AnswersFresh'
      BY <1>9, <2>6 DEF AnswersFresh, metricsVars, TotalAt
    <2> QED
      BY <2>3, <2>5, <2>7
  <1>10. Goal
    BY <1>2, <1>3, <1>4, <1>5, <1>6, <1>7, <1>8, <1>9, OthersKeepMetrics DEF MetricsStep
  <1> QED
    BY <1>1, <1>10 DEF MetricsInv

-----------------------------------------------------------------------------
(* The logger tasks                                                        *)

SinksInv == SinksTypeOK /\ LinesAccount /\ IdleFlushed

\* The lines of one sink, and where they leave it.
Account(ls, at) ==
    /\ \A i \in 1 .. Len(ls) :
          /\ ls[i].after = IF i = 1 THEN 0 ELSE ls[i - 1].upto
          /\ ls[i].type = "event" => ls[i].upto = ls[i].after + 1
          /\ ls[i].type = "lost" => ls[i].upto > ls[i].after
    /\ at = IF ls = <<>> THEN 0 ELSE ls[Len(ls)].upto

\* A further line that starts where the last one ended.
LEMMA AccountAppend ==
    ASSUME NEW ls \in Seq(Lines), NEW at \in Nat, NEW line \in Lines,
           Account(ls, at), line.after = at,
           line.type = "event" => line.upto = line.after + 1,
           line.type = "lost" => line.upto > line.after
    PROVE  Account(Append(ls, line), line.upto)
  <1> DEFINE new == Append(ls, line)
  <1>1. /\ Len(new) = Len(ls) + 1 /\ new[Len(ls) + 1] = line /\ new # <<>>
        /\ \A i \in 1 .. Len(ls) : new[i] = ls[i]
    OBVIOUS
  <1> HIDE DEF new
  <1>2. ASSUME NEW i \in 1 .. Len(new)
        PROVE  /\ new[i].after = IF i = 1 THEN 0 ELSE new[i - 1].upto
               /\ new[i].type = "event" => new[i].upto = new[i].after + 1
               /\ new[i].type = "lost" => new[i].upto > new[i].after
    <2>1. CASE i \in 1 .. Len(ls)
      <3>1. new[i] = ls[i] /\ (i # 1 => new[i - 1] = ls[i - 1])
        BY <1>1, <2>1
      <3> QED
        BY <2>1, <3>1 DEF Account
    <2>2. CASE i = Len(ls) + 1
      <3>1. new[i] = line /\ (i # 1 => new[i - 1] = ls[Len(ls)])
        BY <1>1, <2>2
      <3>2. i = 1 <=> ls = <<>>
        BY <2>2
      <3> QED
        BY <3>1, <3>2 DEF Account
    <2> QED
      BY <1>1, <2>1, <2>2
  <1>3. line.upto = IF new = <<>> THEN 0 ELSE new[Len(new)].upto
    BY <1>1
  <1> QED
    BY <1>2, <1>3 DEF Account, new

LEMMA WriteLineKeepsSinks ==
    ASSUME LogInv, SinksInv, NEW s \in Sinks, NEW type \in {"event", "lost"},
           NEW position \in 0 .. Len(log), WriteLine(s, type, position), log' = log,
           type = "event" => position = sinkAt[s] + 1,
           type = "lost" => position > sinkAt[s]
    PROVE  SinksInv'
  <1> DEFINE line == Line(type, sinkAt[s], position)
  <1>1. /\ sinkAt \in [Sinks -> 0 .. Len(log)] /\ lines \in [Sinks -> Seq(Lines)]
        /\ sink \in [Sinks -> {"recv", "ended", "error"}] /\ flushed \in [Sinks -> BOOLEAN]
        /\ Len(log) \in Nat
    BY DEF SinksInv, SinksTypeOK, LogInv
  <1>2. PICK out \in BOOLEAN :
          (position = Len(log) => out) /\ flushed' = [flushed EXCEPT ![s] = out]
    BY DEF WriteLine
  <1>3. /\ lines' = [lines EXCEPT ![s] = Append(lines[s], line)]
        /\ sinkAt' = [sinkAt EXCEPT ![s] = position] /\ sink' = sink
    BY DEF WriteLine
  <1>4. /\ line \in Lines /\ line.after = sinkAt[s] /\ line.upto = position /\ line.type = type
    BY <1>1 DEF Line, Lines
  <1> HIDE DEF line
  <1>5. lines' \in [Sinks -> Seq(Lines)]
    BY <1>1, <1>3, <1>4
  <1>6. SinksTypeOK'
    BY <1>1, <1>2, <1>3, <1>5 DEF SinksTypeOK
  <1>7. IdleFlushed'
    BY <1>1, <1>2, <1>3 DEF SinksInv, IdleFlushed
  <1>8. ASSUME NEW r \in Sinks PROVE Account(lines[r], sinkAt[r])
    BY DEF SinksInv, LinesAccount, Account
  <1>9. ASSUME NEW r \in Sinks PROVE Account(lines'[r], sinkAt'[r])
    <2>1. CASE r # s
      BY <1>1, <1>3, <1>8, <2>1
    <2>2. CASE r = s
      <3>1. /\ lines[s] \in Seq(Lines) /\ sinkAt[s] \in Nat
            /\ Account(lines[s], sinkAt[s])
        BY <1>1, <1>8
      <3>2. /\ line.type = "event" => line.upto = line.after + 1
            /\ line.type = "lost" => line.upto > line.after
        BY <1>4
      <3>3. Account(Append(lines[s], line), line.upto)
        BY <1>4, <3>1, <3>2, AccountAppend
      <3> QED
        BY <1>1, <1>3, <1>4, <2>2, <3>3
    <2> QED
      BY <2>1, <2>2
  <1>10. LinesAccount'
    BY <1>9 DEF LinesAccount, Account
  <1> QED
    BY <1>6, <1>7, <1>10 DEF SinksInv

LEMMA OthersKeepSinks ==
    ASSUME [Next]_vars, ~\E s \in Sinks : SinkStep(s) \/ SinkError(s)
    PROVE  UNCHANGED sinkVars
  BY DEF Next, Accept, EndConn, CancelConn, CopyBytes, Ask, LogOther, Stop, StartJoin,
         JoinMetrics, JoinSinks, MetricsStep, MetricsLagged, CountEvent, PollLog, TakeRequest,
         MetricsWaits, Reply, EndMetrics, vars

LEMMA SinksInvStep ==
    ASSUME LogInv, SinksInv, [Next]_vars
    PROVE  SinksInv'
  <1>1. /\ sinkAt \in [Sinks -> 0 .. Len(log)] /\ Len(log) \in Nat
        /\ lines \in [Sinks -> Seq(Lines)]
        /\ sink \in [Sinks -> {"recv", "ended", "error"}] /\ flushed \in [Sinks -> BOOLEAN]
    BY DEF SinksInv, SinksTypeOK, LogInv
  <1>2. ASSUME NEW s \in Sinks, SinkEvent(s) PROVE SinksInv'
    <2>1. sinkAt[s] + 1 \in 0 .. Len(log)
      BY <1>1, <1>2 DEF SinkEvent
    <2> QED
      BY <1>2, <2>1, WriteLineKeepsSinks DEF SinkEvent
  <1>3. ASSUME NEW s \in Sinks, SinkLagged(s) PROVE SinksInv'
    <2>1. Overwritten \in 0 .. Len(log) /\ Overwritten > sinkAt[s]
      BY <1>1, <1>3, EventLogAssumption DEF SinkLagged, Lags, Overwritten
    <2> QED
      BY <1>3, <2>1, WriteLineKeepsSinks DEF SinkLagged
  <1>4. ASSUME NEW s \in Sinks, EndSink(s) PROVE SinksInv'
    <2>1. SinksTypeOK'
      BY <1>1, <1>4 DEF EndSink, SinksTypeOK
    <2>2. LinesAccount'
      BY <1>4 DEF EndSink, SinksInv, LinesAccount
    <2>3. IdleFlushed'
      BY <1>1, <1>4 DEF EndSink, SinksInv, IdleFlushed
    <2> QED
      BY <2>1, <2>2, <2>3 DEF SinksInv
  <1>5. ASSUME NEW s \in Sinks, SinkError(s) PROVE SinksInv'
    <2>1. SinksTypeOK'
      BY <1>1, <1>5 DEF SinkError, SinksTypeOK
    <2>2. LinesAccount'
      BY <1>5 DEF SinkError, SinksInv, LinesAccount
    <2>3. IdleFlushed'
      BY <1>1, <1>5 DEF SinkError, SinksInv, IdleFlushed
    <2> QED
      BY <2>1, <2>2, <2>3 DEF SinksInv
  <1>6. CASE UNCHANGED sinkVars
    <2>1. UNCHANGED <<sinkAt, sink, lines, flushed>> /\ Len(log') \in Nat /\ Len(log') >= Len(log)
      BY <1>6, StepsGrow DEF sinkVars, LogGrows
    <2>2. SinksTypeOK'
      <3>1. ASSUME NEW s \in Sinks PROVE sinkAt[s] \in 0 .. Len(log')
        BY <1>1, <2>1
      <3> QED
        BY <1>1, <2>1, <3>1 DEF SinksTypeOK
    <2>3. LinesAccount'
      BY <2>1 DEF SinksInv, LinesAccount
    <2>4. ASSUME NEW s \in Sinks, sink[s] = "recv", sinkAt[s] = Len(log') PROVE flushed[s]
      <3>1. sinkAt[s] = Len(log)
        BY <1>1, <2>1, <2>4
      <3> QED
        BY <2>4, <3>1 DEF SinksInv, IdleFlushed
    <2> QED
      BY <2>1, <2>2, <2>3, <2>4 DEF SinksInv, IdleFlushed
  <1> QED
    BY <1>2, <1>3, <1>4, <1>5, <1>6, OthersKeepSinks DEF SinkStep

-----------------------------------------------------------------------------
(* The end of the server                                                   *)

\* Once nobody holds a sender, nobody gets one, and the log stays as it is.
LEMMA NoSendersStays ==
    ASSUME ServerTypeOK, NoSenders, [Next]_vars
    PROVE  NoSenders' /\ log' = log
  <1>1. /\ server \notin {"running", "stopping"}
        /\ \A c \in Conns : conn[c] # "open"
    BY DEF NoSenders
  <1>2. ~LogStep
    BY <1>1 DEF LogStep, Accept, EndConn, CancelConn, CopyBytes, LogOther
  <1>3. conn' = conn /\ log' = log
    BY <1>2, OtherSteps
  <1>4. server' \notin {"running", "stopping"}
    BY <1>1, <1>2 DEF Next, LogStep, Ask, Stop, StartJoin, JoinMetrics, JoinSinks,
       MetricsStep, MetricsLagged, CountEvent, PollLog, TakeRequest, MetricsWaits, Reply,
       EndMetrics, SinkStep, SinkEvent, SinkLagged, WriteLine, EndSink, SinkError, vars,
       connVars
  <1> QED
    BY <1>1, <1>3, <1>4 DEF NoSenders

\* The server moves only by its own actions, and its tasks only by theirs.
LEMMA ServerSteps ==
    ASSUME [Next]_vars
    PROVE  \/ server' = server
           \/ server' \in {"stopping", "joining", "failed"}
           \/ JoinMetrics \/ JoinSinks
  BY DEF Next, Accept, EndConn, CancelConn, CopyBytes, LogOther, Ask, Stop, StartJoin,
         MetricsStep, MetricsLagged, CountEvent, PollLog, TakeRequest, MetricsWaits, Reply,
         EndMetrics, SinkStep, SinkEvent, SinkLagged, WriteLine, EndSink, SinkError, vars,
         connVars

LEMMA TaskSteps ==
    ASSUME [Next]_vars
    PROVE  \/ task' = task
           \/ task # "ended" /\ task' \in {"recv", "polled", "reply", "panicked"}
           \/ EndMetrics
  BY DEF Next, Accept, EndConn, CancelConn, CopyBytes, LogOther, Ask, Stop, StartJoin,
         JoinMetrics, JoinSinks, MetricsStep, MetricsLagged, CountEvent, PollLog, TakeRequest,
         MetricsWaits, Reply, SinkStep, SinkEvent, SinkLagged, EndSink, SinkError, vars,
         metricsVars

\* A logger task that is no longer receiving stays as it is.
LEMMA SinkStays ==
    ASSUME SinksTypeOK, [Next]_vars, NEW s \in Sinks
    PROVE  \/ sink[s] = "recv"
           \/ sink'[s] = sink[s] /\ sinkAt'[s] = sinkAt[s] /\ flushed'[s] = flushed[s]
  <1> SUFFICES ASSUME sink[s] # "recv"
               PROVE  /\ sink'[s] = sink[s] /\ sinkAt'[s] = sinkAt[s]
                      /\ flushed'[s] = flushed[s]
    OBVIOUS
  <1>1. ASSUME NEW r \in Sinks, SinkStep(r) \/ SinkError(r)
        PROVE  /\ sink'[s] = sink[s] /\ sinkAt'[s] = sinkAt[s]
               /\ flushed'[s] = flushed[s]
    <2>1. r # s
      BY <1>1 DEF SinkStep, SinkEvent, SinkLagged, EndSink, SinkError
    <2>2. CASE SinkEvent(r) \/ SinkLagged(r)
      BY <2>1, <2>2 DEF SinkEvent, SinkLagged, WriteLine, SinksTypeOK
    <2>3. CASE EndSink(r) \/ SinkError(r)
      BY <2>1, <2>3 DEF EndSink, SinkError, SinksTypeOK
    <2> QED
      BY <1>1, <2>2, <2>3 DEF SinkStep
  <1>2. CASE UNCHANGED sinkVars
    BY <1>2 DEF sinkVars
  <1> QED
    BY <1>1, <1>2, OthersKeepSinks

LEMMA EndsStep ==
    ASSUME ServerTypeOK, SinksTypeOK, EndsOrdered, [Next]_vars
    PROVE  EndsOrdered'
  <1>1. ASSUME task' = "ended" PROVE NoSenders'
    <2>1. NoSenders
      BY <1>1, TaskSteps DEF EndsOrdered, EndMetrics
    <2> QED
      BY <2>1, NoSendersStays
  <1>2. ASSUME NEW s \in Sinks, sink'[s] = "ended"
        PROVE  NoSenders' /\ sinkAt'[s] = Len(log') /\ flushed'[s]
    <2>1. CASE sink[s] = "recv"
      <3>1. EndSink(s)
        <4>1. ASSUME NEW r \in Sinks, SinkStep(r) \/ SinkError(r) PROVE EndSink(s)
          BY <1>2, <2>1, <4>1 DEF SinkStep, SinkEvent, SinkLagged, WriteLine, SinkError,
             EndSink, SinksTypeOK
        <4>2. ~UNCHANGED sinkVars
          BY <1>2, <2>1 DEF sinkVars
        <4> QED
          BY <4>1, <4>2, OthersKeepSinks
      <3>2. NoSenders /\ sinkAt'[s] = Len(log') /\ flushed'[s]
        BY <3>1 DEF EndSink, SinksTypeOK
      <3> QED
        BY <3>2, NoSendersStays
    <2>2. CASE sink[s] # "recv"
      <3>1. /\ sink[s] = "ended" /\ sinkAt'[s] = sinkAt[s] /\ flushed'[s] = flushed[s]
        BY <1>2, <2>2, SinkStays
      <3>2. NoSenders /\ sinkAt[s] = Len(log) /\ flushed[s]
        BY <3>1 DEF EndsOrdered
      <3> QED
        BY <3>1, <3>2, NoSendersStays
    <2> QED
      BY <2>1, <2>2
  <1>3. ASSUME server' \in {"sinks", "joined"} PROVE task' = "ended"
    <2>1. CASE server' = server
      BY <1>3, <2>1, TaskSteps DEF EndsOrdered, EndMetrics
    <2>2. CASE JoinMetrics \/ JoinSinks
      BY <1>3, <2>2 DEF JoinMetrics, JoinSinks, EndsOrdered, metricsVars
    <2> QED
      BY <1>3, <2>1, <2>2, ServerSteps
  <1>4. ASSUME server' = "joined", NEW s \in Sinks PROVE sink'[s] # "recv"
    <2>1. CASE server' = server
      BY <1>4, <2>1, SinkStays DEF EndsOrdered
    <2>2. CASE JoinMetrics \/ JoinSinks
      BY <1>4, <2>2 DEF JoinMetrics, JoinSinks, sinkVars
    <2> QED
      BY <1>4, <2>1, <2>2, ServerSteps
  <1> QED
    BY <1>1, <1>2, <1>3, <1>4 DEF EndsOrdered

-----------------------------------------------------------------------------
(* The theorems                                                            *)

IInv == ServerTypeOK /\ LogInv /\ MetricsInv /\ SinksInv /\ EndsOrdered

LEMMA InitIInv == Init => IInv
  <1> SUFFICES ASSUME Init PROVE IInv
    OBVIOUS
  <1> USE DEF Init
  <1>1. ServerTypeOK
    BY DEF ServerTypeOK
  <1>2. EventsCountConnections
    <2>1. ASSUME NEW k \in Kinds
          PROVE  TotalAt(Len(log)).current[k] = Cardinality({c \in Conns : KindOf(c) = k /\ Counts(c)})
      <3>1. {c \in Conns : KindOf(c) = k /\ Counts(c)} = {}
        BY DEF Counts
      <3>2. TotalAt(Len(log)).current[k] = 0
        BY DEF TotalAt, NoMetrics
      <3> QED
        BY <3>1, <3>2, FS_EmptySet
    <2> QED
      BY <2>1 DEF EventsCountConnections
  <1>3. LogInv
    BY <1>1, <1>2 DEF LogInv, ServerTypeOK, LogChained
  <1>4. ASSUME NEW k \in Kinds PROVE metrics.current[k] < CounterMod
    <2>1. CounterMod \in Nat /\ CounterMod > 0
      BY EventLogAssumption, FS_CardinalityType
    <2>2. metrics.current[k] = 0
      BY DEF NoMetrics
    <2> QED
      BY <2>1, <2>2
  <1>5. MetricsTypeOK
    <2>1. metrics \in Metrics
      BY NoMetricsType
    <2>2. requests \in Seq(Requests) /\ Len(requests) <= MetricsCap
      BY EventLogAssumption
    <2>3. seen \in 0 .. Len(log)
      OBVIOUS
    <2>4. answers \in [Sandstorm -> Answers \cup {None}]
      OBVIOUS
    <2>5. task = "recv" /\ taken = None /\ lossy \in BOOLEAN /\ asking \subseteq Sandstorm
      OBVIOUS
    <2> QED
      BY <1>4, <2>1, <2>2, <2>3, <2>4, <2>5 DEF MetricsTypeOK
  <1>6. MetricsInv
    BY <1>5 DEF MetricsInv, MetricsTrue, TotalAt, PanicNeedsLoss, RequestsOrdered, AnswersFresh
  <1>7. SinksInv
    BY DEF SinksInv, SinksTypeOK, LinesAccount, IdleFlushed
  <1>8. EndsOrdered
    BY DEF EndsOrdered
  <1> QED
    BY <1>1, <1>3, <1>6, <1>7, <1>8 DEF IInv

LEMMA NextIInv == IInv /\ [Next]_vars => IInv'
  <1> SUFFICES ASSUME IInv, [Next]_vars PROVE IInv'
    OBVIOUS
  <1>1. LogInv'
    BY LogInvStep DEF IInv
  <1>2. MetricsInv'
    BY MetricsInvStep DEF IInv
  <1>3. SinksInv'
    BY SinksInvStep DEF IInv
  <1>4. EndsOrdered'
    BY EndsStep DEF IInv, SinksInv
  <1>5. server' \in {"running", "stopping", "joining", "sinks", "joined", "failed"}
    BY ServerSteps DEF IInv, ServerTypeOK, JoinMetrics, JoinSinks
  <1>6. ServerTypeOK'
    BY <1>1, <1>5 DEF ServerTypeOK, LogInv
  <1> QED
    BY <1>1, <1>2, <1>3, <1>4, <1>6 DEF IInv

\* IInv holds in every state the event log can reach.
THEOREM Invariant == Spec => []IInv
  <1> QED
    BY InitIInv, NextIInv, PTL DEF Spec

\* The event log keeps its type, for any number of connections and sinks and any
\* capacity: the counters stay within their width, no reader gets ahead of the log.
THEOREM TypeCorrect == Spec => []TypeOK
  <1>1. IInv => TypeOK
    BY DEF IInv, MetricsInv, SinksInv, TypeOK
  <1> QED
    BY <1>1, Invariant, PTL

\* The events amount to the connections there are.
THEOREM ConnectionsCounted == Spec => []EventsCountConnections
  <1>1. IInv => EventsCountConnections
    BY DEF IInv, LogInv
  <1> QED
    BY <1>1, Invariant, PTL

\* Without loss the counters of the metrics task are the truth about what it read.
THEOREM MetricsCorrect == Spec => []MetricsTrue
  <1>1. IInv => MetricsTrue
    BY DEF IInv, MetricsInv
  <1> QED
    BY <1>1, Invariant, PTL

\* Without loss the metrics task does not panic, whatever order its events have.
THEOREM NoPanicWithoutLoss == Spec => []PanicNeedsLoss
  <1>1. IInv => PanicNeedsLoss
    BY DEF IInv, MetricsInv
  <1> QED
    BY <1>1, Invariant, PTL

\* Metrics are older than the request for them only if this came between two polls,
\* never older than metrics given before, nor newer than the stream that comes with
\* them.
THEOREM MetricsFresh == Spec => []AnswersFresh
  <1>1. IInv => AnswersFresh
    BY DEF IInv, MetricsInv
  <1> QED
    BY <1>1, Invariant, PTL

\* A sink's lines account for every event, and none of them waits in a buffer for
\* an event to come.
THEOREM SinksTell == Spec => []SinksTrue
  <1>1. IInv => SinksTrue
    BY DEF IInv, SinksInv, SinksTrue
  <1> QED
    BY <1>1, Invariant, PTL

\* After a proper join every sink that did not fail holds the whole log.
THEOREM JoinCompletes == Spec => []LogComplete
  <1>1. IInv => LogComplete
    <2> SUFFICES ASSUME IInv, server = "joined" PROVE LogComplete
      BY DEF LogComplete
    <2>1. task = "ended" /\ NoSenders
      BY DEF IInv, EndsOrdered
    <2>2. ASSUME NEW s \in Sinks
          PROVE  sink[s] = "error" \/ (sink[s] = "ended" /\ sinkAt[s] = Len(log) /\ flushed[s])
      <3>1. sink[s] \in {"ended", "error"}
        BY DEF IInv, SinksInv, SinksTypeOK, EndsOrdered
      <3> QED
        BY <3>1 DEF IInv, EndsOrdered
    <2> QED
      BY <2>1, <2>2 DEF LogComplete, NoSenders
  <1> QED
    BY <1>1, Invariant, PTL

=============================================================================
