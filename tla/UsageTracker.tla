------------------------------ MODULE UsageTracker ------------------------------
(***************************************************************************)
(* main_view/usage_tracker.rs, and the labels under the graph of           *)
(* main_view/usage_graph.rs: the bytes of each second of a stretch of time *)
(* up to the latest, summed up also by units of several seconds while the  *)
(* graph is shown with that precision.  Sent and received bytes, which are *)
(* added alike, are one number.                                            *)
(***************************************************************************)
EXTENDS Integers, Sequences, SequencesExt, FiniteSetsExt

CONSTANTS
    MaxHistory,     \* MAX_HISTORY_SECONDS
    Units,          \* the units of ALL_GRAPH_PRECISION_OPTIONS, in seconds
    LabelsOn        \* labels_on_multiples_of, for each unit

ASSUME UsageTrackerAssumption ==
    /\ MaxHistory \in Nat \ {0}
    /\ Units \subseteq Nat \ {0} /\ 1 \in Units
    /\ LabelsOn \in [Units -> Nat \ {0}]
    /\ \A u \in Units : LabelsOn[u] % u = 0

SumOf(seq) == FoldLeft(LAMBDA a, b : a + b, 0, seq)

Zeros(n) == [i \in 1 .. n |-> 0]

DropFirst(seq, n) == SubSeq(seq, n + 1, Len(seq))

\* A number of seconds down, or up, to a multiple of the unit.
Floor(t, unit) == (t \div unit) * unit

Ceiling(t, unit) == Floor(t + unit - 1, unit)

\* history_start_timestamp, history_by_second and its capacity;
\* history_by_unit_start_timestamp, history_by_unit and unit_size_seconds.
NewTracker(now) ==
    [start |-> now, seconds |-> <<0>>, capacity |-> MaxHistory,
     unitStart |-> 0, units |-> <<>>, unit |-> 1]

LatestTimestamp(t) == t.start + Len(t.seconds) - 1

\* The deque grows, when full, to twice its size.
Grown(capacity, length) ==
    LET doubled[k \in 0 .. length] == IF k = 0 THEN capacity ELSE Max({4, 2 * doubled[k - 1]})
    IN  doubled[Min({k \in 0 .. length : doubled[k] >= length})]

\* history_by_unit goes on from where it was to the end of the seconds.
UnitsMoved(t, start, length) ==
    LET drop == IF start <= t.unitStart + t.unit THEN 0
                ELSE (start - t.unitStart - 1) \div t.unit
        unitStart == t.unitStart + drop * t.unit
        left == DropFirst(t.units, drop)
        n == (Ceiling(start + length, t.unit) - unitStart) \div t.unit
    IN  [unitStart |-> unitStart,
         units |-> left \o Zeros(IF n > Len(left) THEN n - Len(left) ELSE 0)]

\* record_usage: what is older than the history is left out.
UsageRecorded(t, timestamp, bytes) ==
    IF timestamp < t.start THEN t
    ELSE LET index == timestamp - t.start
             length == Len(t.seconds)
             fresh == IF index < length THEN 0 ELSE index + 1 - length
             remove == Max({0, length + fresh - t.capacity})
             seconds == DropFirst(t.seconds, remove) \o Zeros(fresh)
             start == t.start + remove
             moved == UnitsMoved(t, start, Len(seconds))
             unit == (timestamp - moved.unitStart) \div t.unit + 1
             rest == IF t.units = <<>> THEN t
                     ELSE [t EXCEPT !.unitStart = moved.unitStart,
                                    !.units = [moved.units EXCEPT ![unit] = @ + bytes]]
         IN  [rest EXCEPT !.start = start,
                          !.seconds = [seconds EXCEPT ![index - remove + 1] = @ + bytes],
                          !.capacity = Grown(@, Len(seconds))]

\* set_unit_size
UnitSizeSet(t, unit) ==
    LET unitStart == Floor(t.start, unit)
        n == (Ceiling(t.start + Len(t.seconds), unit) - unitStart) \div unit
        inUnit(j) == {i \in 1 .. Len(t.seconds) :
                        (t.start + i - 1 - unitStart) \div unit = j - 1}
    IN  IF unit = 1 THEN [t EXCEPT !.unit = unit, !.units = <<>>]
        ELSE [t EXCEPT !.unit = unit, !.unitStart = unitStart,
                       !.units = [j \in 1 .. n |->
                                    FoldSet(LAMBDA i, s : s + t.seconds[i], 0, inUnit(j))]]

\* get_usage_by_unit, which may have to sum the seconds up again.
ByUnit(t, unit) == IF unit = t.unit THEN t ELSE UnitSizeSet(t, unit)

UsageShown(t) == IF t.units = <<>> THEN t.seconds ELSE t.units

--------------------------------------------------------------------------------
(***************************************************************************)
(* The labels of the horizontal axis: a string for each multiple in view,  *)
(* kept from one render to the next, and written anew for another          *)
(* precision only.  A label is the time it was written for, and how.       *)
(***************************************************************************)

NewAxis == [unit |-> 1, latest |-> 0, labels |-> <<>>]

Label(time, unit) == [time |-> time, unit |-> unit]

\* Mutation of Relabelled: the labels are those of the unit before.
RelabelledInName(axis, unit, timestamp) == [axis EXCEPT !.unit = unit]

\* recalculate_if_needed
Relabelled(axis, unit, timestamp) ==
    LET latest == Floor(timestamp, LabelsOn[unit])
        n == Len(axis.labels)
    IN  IF axis.unit = unit THEN axis
        ELSE [unit |-> unit, latest |-> latest,
              labels |-> [i \in 1 .. n |-> Label(latest - (n - i) * LabelsOn[unit], unit)]]

\* ensure_has_labels: those too old and those too new go, those missing at either
\* end are added.
LabelsEnsured(axis, oldest, latest) ==
    LET on == LabelsOn[axis.unit]
        first == axis.latest - (Len(axis.labels) - 1) * on
        tooOld == IF axis.labels # <<>> /\ first < oldest THEN (oldest - first + on - 1) \div on ELSE 0
        tooNew == IF axis.labels # <<>> /\ axis.latest > latest
                  THEN (axis.latest - latest + on - 1) \div on ELSE 0
        kept == SubSeq(axis.labels, tooOld + 1, Len(axis.labels) - tooNew)
        base == IF kept = <<>> THEN <<Label(latest, axis.unit)>> ELSE kept
        at == IF kept = <<>> THEN latest ELSE axis.latest - tooNew * on
        from == at - (Len(base) - 1) * on
        older == Max({0, (from - oldest + on - 1) \div on})
        newer == Max({0, (latest - at) \div on})
    IN  [axis EXCEPT !.latest = at + newer * on,
                     !.labels = [i \in 1 .. older |-> Label(from - (older + 1 - i) * on, axis.unit)]
                                \o base \o [i \in 1 .. newer |-> Label(at + i * on, axis.unit)]]

\* HorizontalAxis::render, with room for so many units of time: from the oldest of them.
AxisRendered(axis, unit, timestamp, length) ==
    LET on == LabelsOn[unit]
        oldest == Floor(timestamp - unit, unit) - length * unit
    IN  LabelsEnsured(Relabelled(axis, unit, timestamp),
                      Ceiling(oldest, on), Floor(timestamp, on))

=================================================================================
