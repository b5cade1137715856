------------------------- MODULE SandstormClientProofs -------------------------
(***************************************************************************)
(* Proofs about SandstormClient.  IInv, the inductive invariant, follows a *)
(* request from the handler that is queued for it, through the server and  *)
(* the wire, to the call of that handler (CoreInv); says where the tasks   *)
(* can be when (PhaseInv); and follows the events in the same way          *)
(* (StreamInv).                                                            *)
(***************************************************************************)
EXTENDS SandstormClient, FiniteSetTheorems, SequenceTheorems, TLAPS

read == received["client"]

done == Server!Answered("client")

\* The queue of a command holds its requests that wait for an answer, oldest first.
HandlersWait ==
    \A k \in AllCommands :
        /\ \A i, j \in 1 .. Len(handlers[k]) : i < j => handlers[k][i] < handlers[k][j]
        /\ \A i \in 1 .. Len(handlers[k]) :
              /\ handlers[k][i] \in 1 .. Len(asked)
              /\ asked[handlers[k][i]] = k
              /\ given[handlers[k][i]] = 0
        /\ \A id \in 1 .. Len(asked) :
              asked[id] = k /\ given[id] = 0
                 => \E i \in 1 .. Len(handlers[k]) : handlers[k][i] = id

\* An answer that was given is the server's answer to that request.
GivenTrue ==
    \A id \in Ids : given[id] # 0 => /\ given[id] = id
                                     /\ id \in 1 .. Len(asked)
                                     /\ id \in done

\* The server reads what was asked, as far as it was sent.
ReadTrue ==
    /\ Len(read) <= sent
    /\ \A i \in 1 .. Len(read) :
          /\ read[i].command = asked[i]
          /\ read[i].class = ClassOf[asked[i]]

\* The answers on the wire are those of different requests that wait for them.
WireAnswers ==
    /\ \A p \in 1 .. Len(wire) : wire[p].command # "EventStream" =>
          /\ wire[p].id \in 1 .. Len(read)
          /\ wire[p].id \in done
          /\ asked[wire[p].id] = wire[p].command
          /\ given[wire[p].id] = 0
    /\ \A p, q \in 1 .. Len(wire) :
          /\ wire[p].command # "EventStream" /\ wire[q].command # "EventStream"
          /\ wire[p].id = wire[q].id
          => p = q

\* An answer comes after those to the older requests for the same command.
WireOrdered ==
    \A p \in 1 .. Len(wire) : wire[p].command # "EventStream" =>
        \A id \in 1 .. Len(asked) :
            id < wire[p].id /\ asked[id] = wire[p].command /\ given[id] = 0
               => \E q \in 1 .. p - 1 : wire[q].command # "EventStream" /\ wire[q].id = id

\* While the connection stands, an answer has been given or is on the wire.
NothingLost ==
    server = "open" =>
        \A id \in done :
            \/ given[id] # 0
            \/ \E p \in 1 .. Len(wire) : wire[p].command # "EventStream" /\ wire[p].id = id

CoreInv ==
    /\ HandlersWait /\ GivenTrue /\ ReadTrue
    /\ WireAnswers /\ WireOrdered /\ NothingLost
    /\ RemainingExact

\* Only the terminal interface runs tasks, and the connection is closed when none of
\* them and no other flow can use it; a flush that returns leaves nothing to answer.
PhaseInv ==
    /\ lock # <<>> => main = "interface"
    /\ asking => lock # <<>>
    /\ quit # "no" => main = "interface"
    /\ quit = "closed" => lock = <<>>
    /\ ended => main = "pending" \/ quit = "closed"
    /\ main = "subscribe" \/ (main = "waiting" /\ notifier = "fired") => remaining = 0
    /\ verdict = "ok" => result # "failed"
    /\ verdict # "unexpected"

\* Events are asked for once.
SubscribesOnce ==
    /\ main \in {"requests", "flushed", "waiting", "subscribe"}
          => \A id \in 1 .. Len(asked) : asked[id] # "Events"
    /\ \A i, j \in 1 .. Len(asked) : asked[i] = "Events" /\ asked[j] = "Events" => i = j

\* The events that are streamed find their sink in place.
SinkInPlace ==
    /\ emitted # 0 => streaming
    /\ sink # "none" => streaming
    /\ streaming => \E id \in 1 .. Len(asked) : id \in done /\ asked[id] = "Events"
    /\ \A id \in 1 .. Len(asked) :
          asked[id] = "Events" /\ given[id] # 0 /\ streaming /\ verdict = "none"
             => sink # "none"
    /\ verdict # "none" => wire = <<>> /\ server # "open"
    /\ \A p \in 1 .. Len(wire) : wire[p].command = "EventStream" =>
          \/ sink # "none"
          \/ \E q \in 1 .. p - 1 : wire[q].command = "Events"

\* How many of the events have come through the wire.
Taken == Len(shown) + Len(channel)

\* The numbers of the events on a wire from which one may be missing at the end only.
Numbered(messages, first, last, whole) ==
    /\ \A p \in 1 .. Len(messages) : messages[p].command = "EventStream" =>
          /\ messages[p].id \in first .. last
          /\ \A n \in first .. messages[p].id :
                \E q \in 1 .. p : messages[q].command = "EventStream" /\ messages[q].id = n
    /\ \A p, q \in 1 .. Len(messages) :
          /\ messages[p].command = "EventStream" /\ messages[q].command = "EventStream"
          /\ p < q
          => messages[p].id < messages[q].id
    /\ whole => \A n \in first .. last :
          \E p \in 1 .. Len(messages) :
              messages[p].command = "EventStream" /\ messages[p].id = n

\* The events that have come through are those at the beginning.
TakenInOrder ==
    /\ sink # "none" => sink = SinkOfMode
    /\ channel # <<>> => mode = "interactive"
    /\ \A i \in 1 .. Len(shown) : shown[i] = i
    /\ \A i \in 1 .. Len(channel) : channel[i] = Len(shown) + i

\* The events are numbered as they are streamed, from the screen to the wire.
EventsNumbered ==
    /\ TakenInOrder
    /\ Numbered(wire, Taken + 1, emitted, server # "cut")
    /\ Taken <= emitted

StreamInv == SubscribesOnce /\ SinkInPlace /\ EventsNumbered

IInv == TypeOK /\ CoreInv /\ PhaseInv /\ StreamInv

-----------------------------------------------------------------------------
(* Sequences                                                               *)

\* What remains of a sequence without its first element.
LEMMA TailOf ==
    ASSUME NEW S, NEW s \in Seq(S), s # <<>>
    PROVE  /\ Head(s) = s[1] /\ Head(s) \in S
           /\ Tail(s) \in Seq(S)
           /\ Len(s) \in Nat \ {0}
           /\ Len(Tail(s)) = Len(s) - 1
           /\ \A i \in 1 .. Len(s) - 1 : Tail(s)[i] = s[i + 1]
  BY HeadTailProperties, EmptySeq

\* What remains of a sequence without one of its elements.
LEMMA RemovedAt ==
    ASSUME NEW S, NEW s \in Seq(S), NEW i \in 1 .. Len(s)
    PROVE  /\ RemoveAt(s, i) \in Seq(S)
           /\ Len(RemoveAt(s, i)) = Len(s) - 1
           /\ \A j \in 1 .. Len(s) - 1 :
                 RemoveAt(s, i)[j] = IF j < i THEN s[j] ELSE s[j + 1]
  <1> DEFINE front == SubSeq(s, 1, i - 1)
             back == SubSeq(s, i + 1, Len(s))
  <1>1. /\ front \in Seq(S) /\ Len(front) = i - 1
        /\ \A j \in 1 .. i - 1 : front[j] = s[j]
    OBVIOUS
  <1>2. /\ back \in Seq(S) /\ Len(back) = Len(s) - i
        /\ \A j \in 1 .. Len(s) - i : back[j] = s[j + i]
    OBVIOUS
  <1> HIDE DEF front, back
  <1>3. /\ front \o back \in Seq(S)
        /\ Len(front \o back) = Len(front) + Len(back)
        /\ \A j \in 1 .. Len(front) + Len(back) :
              (front \o back)[j] = IF j <= Len(front) THEN front[j] ELSE back[j - Len(front)]
    BY <1>1, <1>2, ConcatProperties
  <1>4. Len(s) \in Nat /\ Len(front) + Len(back) = Len(s) - 1
    BY <1>1, <1>2
  <1>5. ASSUME NEW j \in 1 .. Len(s) - 1
        PROVE  (front \o back)[j] = IF j < i THEN s[j] ELSE s[j + 1]
    <2>1. CASE j < i
      BY <1>1, <1>3, <1>4, <2>1
    <2>2. CASE j >= i
      BY <1>1, <1>2, <1>3, <1>4, <2>2
    <2> QED
      BY <1>4, <2>1, <2>2
  <1> QED
    BY <1>3, <1>4, <1>5 DEF RemoveAt, front, back

\* The tasks at the mutex are different ones, before and after one of them goes.
LEMMA LockShrinks ==
    ASSUME NEW s \in Seq(Tasks), IsInjective(s), NEW i \in 1 .. Len(s)
    PROVE  RemoveAt(s, i) \in Seq(Tasks) /\ IsInjective(RemoveAt(s, i))
  <1> DEFINE rest == RemoveAt(s, i)
             from(j) == IF j < i THEN j ELSE j + 1
  <1>1. /\ rest \in Seq(Tasks) /\ Len(rest) = Len(s) - 1
        /\ \A j \in 1 .. Len(s) - 1 : rest[j] = s[from(j)]
    BY RemovedAt
  <1> HIDE DEF rest
  <1>2. ASSUME NEW j \in 1 .. Len(rest), NEW k \in 1 .. Len(rest), rest[j] = rest[k]
        PROVE  j = k
    <2>1. from(j) \in 1 .. Len(s) /\ from(k) \in 1 .. Len(s)
      BY <1>1
    <2>2. s[from(j)] = s[from(k)]
      BY <1>1, <1>2
    <2> HIDE DEF from
    <2>3. from(j) = from(k)
      BY <2>1, <2>2 DEF IsInjective
    <2> QED
      BY <1>1, <2>3 DEF from
  <1> QED
    BY <1>1, <1>2 DEF IsInjective, rest

\* The task that leads the mutex gives it to the next one.
LEMMA LockReleased ==
    ASSUME NEW s \in Seq(Tasks), IsInjective(s), s # <<>>
    PROVE  Tail(s) \in Seq(Tasks) /\ IsInjective(Tail(s))
  BY TailOf DEF IsInjective

\* A task that asks for the mutex waits behind the others.
LEMMA LockGrows ==
    ASSUME NEW s \in Seq(Tasks), IsInjective(s), NEW t \in Tasks, t \notin ToSet(s)
    PROVE  Append(s, t) \in Seq(Tasks) /\ IsInjective(Append(s, t))
  BY DEF IsInjective, ToSet

-----------------------------------------------------------------------------
(* Requests, their handlers and their answers                              *)

\* The requests that wait for an answer.
Waiting == {id \in 1 .. Len(asked) : given[id] = 0}

\* They are finitely many, no more than were asked.
LEMMA WaitingFinite ==
    ASSUME TypeOK
    PROVE  /\ IsFiniteSet(Waiting)
           /\ Cardinality(Waiting) \in Nat
           /\ Cardinality(Waiting) <= Len(asked)
           /\ Cardinality(Waiting) = 0 <=> Waiting = {}
  <1>1. Len(asked) \in Nat
    BY DEF TypeOK
  <1>2. IsFiniteSet(1 .. Len(asked)) /\ Cardinality(1 .. Len(asked)) = Len(asked)
    <2>1. IsFiniteSet(1 .. Len(asked))
      BY <1>1, FS_Interval, SMTT(30)
    <2>2. Cardinality(1 .. Len(asked)) = Len(asked)
      BY <1>1, FS_Interval, SMTT(30)
    <2> QED
      BY <2>1, <2>2
  <1>3. Waiting \subseteq 1 .. Len(asked)
    BY DEF Waiting
  <1>4. IsFiniteSet(Waiting) /\ Cardinality(Waiting) <= Len(asked)
    BY <1>2, <1>3, FS_Subset
  <1> QED
    BY <1>4, FS_CardinalityType, FS_EmptySet

\* So `remaining` is their number: no more than were asked, and none if it is zero.
LEMMA RemainingIsWaiting ==
    RemainingExact <=> remaining = Cardinality(Waiting)
  BY DEF RemainingExact, Waiting

\* "EventStream" is no command, so its messages are no answers.
LEMMA NoSuchCommand ==
    "EventStream" \notin AllCommands
  BY SandstormClientAssumption DEF AllCommands

\* What the invariant is about does not change, whatever is flushed and whatever
\* becomes of the server.
LEMMA CoreSame ==
    ASSUME TypeOK, CoreInv,
           UNCHANGED <<asked, handlers, remaining, given, received, answered, wire>>,
           sent' \in sent .. Len(asked),
           server' = "open" => server = "open"
    PROVE  CoreInv'
  <1>1. Len(read) \in Nat /\ sent \in Nat /\ sent' >= sent
    BY DEF TypeOK, read
  <1>2. read' = read /\ done' = done
    BY DEF read, done, Server!Answered
  <1>3. HandlersWait' /\ GivenTrue' /\ WireAnswers' /\ WireOrdered'
    BY <1>2 DEF CoreInv, HandlersWait, GivenTrue, WireAnswers, WireOrdered
  <1>4. ReadTrue'
    BY <1>1, <1>2 DEF CoreInv, ReadTrue
  <1>5. NothingLost'
    BY <1>2 DEF CoreInv, NothingLost
  <1>6. RemainingExact'
    BY DEF CoreInv, RemainingExact
  <1> QED
    BY <1>3, <1>4, <1>5, <1>6 DEF CoreInv

\* What was asked, sent and read are sequences that follow each other.
LEMMA AskedType ==
    ASSUME TypeOK
    PROVE  /\ asked \in Seq(AllCommands) /\ Len(asked) \in Nat
           /\ sent \in Nat /\ sent <= Len(asked)
           /\ Len(read) \in Nat
  <1>1. asked \in Seq(AllCommands) /\ Len(asked) \in Nat
    BY DEF TypeOK
  <1>2. sent \in Nat /\ sent <= Len(asked)
    BY <1>1 DEF TypeOK
  <1>3. Len(read) \in Nat
    BY DEF TypeOK, read
  <1> QED
    BY <1>1, <1>2, <1>3

\* What Push does to the requests.
LEMMA PushEffect ==
    ASSUME TypeOK, NEW command \in AllCommands, Push(command)
    PROVE  LET id == Len(asked) + 1 IN
           /\ id \in Ids
           /\ asked' \in Seq(AllCommands) /\ Len(asked') = id /\ asked'[id] = command
           /\ \A i \in 1 .. Len(asked) : asked'[i] = asked[i]
           /\ handlers' \in [AllCommands -> Seq(Ids)]
           /\ \A k \in AllCommands \ {command} : handlers'[k] = handlers[k]
           /\ Len(handlers'[command]) = Len(handlers[command]) + 1
           /\ handlers'[command][Len(handlers[command]) + 1] = id
           /\ \A i \in 1 .. Len(handlers[command]) :
                 handlers'[command][i] = handlers[command][i]
           /\ sent' \in sent .. Len(asked)
  <1> DEFINE id == Len(asked) + 1
  <1>1. Len(asked) \in Nat /\ id \in Ids /\ asked \in Seq(AllCommands)
    <2>1. Len(asked) \in Nat /\ asked \in Seq(AllCommands)
      BY DEF TypeOK
    <2>2. Len(asked) + 1 <= MaxRequests
      BY DEF Push
    <2> QED
      BY <2>1, <2>2, SandstormClientAssumption DEF Ids
  <1>2. /\ asked' = Append(asked, command)
        /\ handlers' = [handlers EXCEPT ![command] = Append(@, id)]
        /\ sent' \in sent .. Len(asked)
    BY DEF Push
  <1>3. handlers \in [AllCommands -> Seq(Ids)] /\ handlers[command] \in Seq(Ids)
    BY DEF TypeOK
  <1>4. /\ asked' \in Seq(AllCommands) /\ Len(asked') = id /\ asked'[id] = command
        /\ \A i \in 1 .. Len(asked) : asked'[i] = asked[i]
    BY <1>1, <1>2, AppendProperties
  <1> HIDE DEF id
  <1>5. /\ Append(handlers[command], id) \in Seq(Ids)
        /\ Len(Append(handlers[command], id)) = Len(handlers[command]) + 1
        /\ Append(handlers[command], id)[Len(handlers[command]) + 1] = id
        /\ \A i \in 1 .. Len(handlers[command]) :
              Append(handlers[command], id)[i] = handlers[command][i]
    BY <1>1, <1>3, AppendProperties
  <1>6. /\ handlers' \in [AllCommands -> Seq(Ids)]
        /\ handlers'[command] = Append(handlers[command], id)
        /\ \A k \in AllCommands \ {command} : handlers'[k] = handlers[k]
    BY <1>2, <1>3, <1>5
  <1> QED
    BY <1>1, <1>2, <1>4, <1>5, <1>6 DEF id

\* A request that is pushed waits at the end of its queue.
LEMMA CorePush ==
    ASSUME TypeOK, CoreInv, NEW command \in AllCommands, Push(command),
           UNCHANGED <<given, received, answered, wire, server>>
    PROVE  CoreInv'
  <1> DEFINE id == Len(asked) + 1
  <1>1. /\ id \in Ids /\ Len(asked) \in Nat
        /\ Len(asked') = id /\ asked'[id] = command
        /\ \A i \in 1 .. Len(asked) : asked'[i] = asked[i]
    BY PushEffect, AskedType
  <1>2. given[id] = 0
    <2>1. ~(id \in 1 .. Len(asked))
      BY <1>1
    <2> QED
      BY <1>1, <2>1 DEF CoreInv, GivenTrue
  <1>3. read' = read /\ done' = done
    BY DEF read, done, Server!Answered
  <1>4. HandlersWait'
    <2> SUFFICES ASSUME NEW k \in AllCommands
                 PROVE  /\ \A i, j \in 1 .. Len(handlers'[k]) :
                              i < j => handlers'[k][i] < handlers'[k][j]
                        /\ \A i \in 1 .. Len(handlers'[k]) :
                              /\ handlers'[k][i] \in 1 .. Len(asked')
                              /\ asked'[handlers'[k][i]] = k
                              /\ given'[handlers'[k][i]] = 0
                        /\ \A r \in 1 .. Len(asked') :
                              asked'[r] = k /\ given'[r] = 0
                                 => \E i \in 1 .. Len(handlers'[k]) : handlers'[k][i] = r
      BY DEF HandlersWait
    <2>0. Len(handlers[k]) \in Nat
      BY DEF TypeOK
    <2>1. CASE k # command
      <3>1. handlers'[k] = handlers[k]
        BY <2>1, PushEffect
      <3> QED
        BY <1>1, <2>0, <2>1, <3>1 DEF CoreInv, HandlersWait
    <2>2. CASE k = command
      <3>1. /\ Len(handlers'[k]) = Len(handlers[k]) + 1
            /\ handlers'[k][Len(handlers[k]) + 1] = id
            /\ \A i \in 1 .. Len(handlers[k]) : handlers'[k][i] = handlers[k][i]
        BY <2>2, PushEffect
      <3>2. /\ \A i, j \in 1 .. Len(handlers[k]) : i < j => handlers[k][i] < handlers[k][j]
            /\ \A i \in 1 .. Len(handlers[k]) :
                  /\ handlers[k][i] \in 1 .. Len(asked)
                  /\ asked[handlers[k][i]] = k
                  /\ given[handlers[k][i]] = 0
        BY DEF CoreInv, HandlersWait
      <3>3. ASSUME NEW r \in 1 .. Len(asked), asked[r] = k, given[r] = 0
            PROVE  \E i \in 1 .. Len(handlers[k]) : handlers[k][i] = r
        BY <3>3 DEF CoreInv, HandlersWait
      <3>4. ASSUME NEW i \in 1 .. Len(handlers'[k]), NEW j \in 1 .. Len(handlers'[k]), i < j
            PROVE  handlers'[k][i] < handlers'[k][j]
        <4>1. i \in 1 .. Len(handlers[k]) /\ handlers'[k][i] = handlers[k][i]
          BY <2>0, <3>1, <3>4
        <4>2. CASE j \in 1 .. Len(handlers[k])
          BY <3>1, <3>2, <3>4, <4>1, <4>2
        <4>3. CASE j = Len(handlers[k]) + 1
          BY <1>1, <3>1, <3>2, <4>1, <4>3
        <4> QED
          BY <2>0, <3>1, <4>2, <4>3
      <3>5. ASSUME NEW i \in 1 .. Len(handlers'[k])
            PROVE  /\ handlers'[k][i] \in 1 .. Len(asked')
                   /\ asked'[handlers'[k][i]] = k
                   /\ given'[handlers'[k][i]] = 0
        <4>1. CASE i \in 1 .. Len(handlers[k])
          <5>1. handlers'[k][i] = handlers[k][i]
            BY <3>1, <4>1
          <5>2. /\ handlers[k][i] \in 1 .. Len(asked)
                /\ asked[handlers[k][i]] = k
                /\ given[handlers[k][i]] = 0
            BY <3>2, <4>1
          <5>3. /\ handlers[k][i] \in 1 .. Len(asked')
                /\ asked'[handlers[k][i]] = asked[handlers[k][i]]
            BY <1>1, <5>2
          <5> QED
            BY <5>1, <5>2, <5>3
        <4>2. CASE i = Len(handlers[k]) + 1
          BY <1>1, <1>2, <2>2, <3>1, <4>2
        <4> QED
          BY <2>0, <3>1, <4>1, <4>2
      <3>6. ASSUME NEW r \in 1 .. Len(asked'), asked'[r] = k, given'[r] = 0
            PROVE  \E i \in 1 .. Len(handlers'[k]) : handlers'[k][i] = r
        <4>1. CASE r = id
          <5>1. Len(handlers[k]) + 1 \in 1 .. Len(handlers'[k])
            BY <2>0, <3>1
          <5> QED
            BY <3>1, <4>1, <5>1
        <4>2. CASE r # id
          <5>1. r \in 1 .. Len(asked)
            BY <1>1, <4>2
          <5>2. asked[r] = k /\ given[r] = 0
            BY <1>1, <3>6, <5>1
          <5>3. PICK i \in 1 .. Len(handlers[k]) : handlers[k][i] = r
            BY <3>3, <5>1, <5>2
          <5>4. i \in 1 .. Len(handlers'[k]) /\ handlers'[k][i] = r
            BY <2>0, <3>1, <5>3
          <5> QED
            BY <5>4
        <4> QED
          BY <4>1, <4>2
      <3> QED
        BY <3>4, <3>5, <3>6
    <2> QED
      BY <2>1, <2>2
  <1>5. GivenTrue'
    BY <1>1, <1>3 DEF CoreInv, GivenTrue
  <1>6. /\ Len(read) \in Nat /\ sent \in Nat /\ sent' \in Nat
        /\ sent <= sent' /\ sent <= Len(asked)
    BY PushEffect, AskedType
  <1>7. ReadTrue'
    <2>1. Len(read') <= sent'
      BY <1>3, <1>6 DEF CoreInv, ReadTrue
    <2>2. \A i \in 1 .. Len(read) : asked'[i] = asked[i]
      BY <1>1, <1>6 DEF CoreInv, ReadTrue
    <2> QED
      BY <1>3, <2>1, <2>2 DEF CoreInv, ReadTrue
  <1>8. WireAnswers' /\ WireOrdered'
    <2>1. \A p \in 1 .. Len(wire) : wire[p].command # "EventStream" =>
             wire[p].id \in 1 .. Len(read) /\ wire[p].id \in 1 .. Len(asked)
      BY <1>1, <1>6 DEF CoreInv, WireAnswers, ReadTrue
    <2>2. WireAnswers'
      BY <1>1, <1>3, <2>1 DEF CoreInv, WireAnswers
    <2>3. ASSUME NEW p \in 1 .. Len(wire), wire[p].command # "EventStream",
                 NEW r \in 1 .. Len(asked'), r < wire[p].id, asked'[r] = wire[p].command,
                 given[r] = 0
          PROVE  \E q \in 1 .. p - 1 : wire[q].command # "EventStream" /\ wire[q].id = r
      <3>1. r \in 1 .. Len(asked)
        BY <1>1, <2>1, <2>3
      <3> QED
        BY <1>1, <2>3, <3>1 DEF CoreInv, WireOrdered
    <2> QED
      BY <2>2, <2>3 DEF WireOrdered
  <1>9. NothingLost'
    BY <1>3 DEF CoreInv, NothingLost
  <1>10. RemainingExact'
    <2>1. Waiting' = Waiting \cup {id}
      BY <1>1, <1>2 DEF Waiting
    <2>2. id \notin Waiting
      BY <1>1 DEF Waiting
    <2>3. Cardinality(Waiting') = Cardinality(Waiting) + 1
      BY <2>1, <2>2, WaitingFinite, FS_AddElement
    <2>4. remaining = Cardinality(Waiting) /\ remaining' = remaining + 1
      BY RemainingIsWaiting DEF CoreInv, Push
    <2> QED
      BY <2>3, <2>4 DEF RemainingExact, Waiting
  <1> QED
    BY <1>4, <1>5, <1>7, <1>8, <1>9, <1>10 DEF CoreInv

\* The first answer on the wire is for the oldest handler of its command.
LEMMA AnswerForOldest ==
    ASSUME TypeOK, CoreInv, wire # <<>>, Head(wire).command # "EventStream"
    PROVE  LET answer == Head(wire)
               queue == handlers[answer.command]
           IN  /\ answer.command \in AllCommands
               /\ answer.id \in 1 .. Len(asked) /\ answer.id \in Ids
               /\ answer.id \in done
               /\ asked[answer.id] = answer.command
               /\ given[answer.id] = 0
               /\ queue \in Seq(Ids) /\ queue # <<>>
               /\ Head(queue) = answer.id
  <1> DEFINE answer == Head(wire)
             queue == handlers[answer.command]
  <1>1. wire \in Seq(Messages)
    BY DEF TypeOK
  <1>2. answer = wire[1] /\ 1 \in 1 .. Len(wire)
    BY <1>1, TailOf
  <1>3. /\ answer.id \in 1 .. Len(read) /\ answer.id \in done
        /\ asked[answer.id] = answer.command /\ given[answer.id] = 0
    BY <1>2 DEF CoreInv, WireAnswers
  <1>4. Len(read) \in Nat /\ Len(asked) \in Nat /\ Len(read) <= Len(asked)
    BY DEF TypeOK, read, CoreInv, ReadTrue
  <1>5. answer.id \in 1 .. Len(asked) /\ answer.id \in Ids
    BY <1>3, <1>4, SandstormClientAssumption DEF TypeOK, Ids
  <1>6. answer.command \in AllCommands
    BY <1>3, <1>5, AskedType, ElementOfSeq
  <1>7. queue \in Seq(Ids)
    BY <1>6 DEF TypeOK
  <1>8. PICK i \in 1 .. Len(queue) : queue[i] = answer.id
    BY <1>3, <1>5, <1>6 DEF CoreInv, HandlersWait
  <1>9. Len(queue) \in Nat /\ Len(queue) >= 1 /\ queue # <<>>
    BY <1>7, <1>8
  <1>10. /\ queue[1] \in 1 .. Len(asked) /\ asked[queue[1]] = answer.command
         /\ given[queue[1]] = 0
         /\ 1 < i => queue[1] < queue[i]
    BY <1>6, <1>8, <1>9 DEF CoreInv, HandlersWait
  <1>11. ~(queue[1] < answer.id)
    <2> SUFFICES ASSUME queue[1] < answer.id
                 PROVE  FALSE
      OBVIOUS
    <2>1. \E q \in 1 .. 1 - 1 : wire[q].id = queue[1]
      BY <1>2, <1>10 DEF CoreInv, WireOrdered
    <2> QED
      BY <2>1
  <1>12. i = 1
    BY <1>8, <1>10, <1>11
  <1> HIDE DEF answer, queue
  <1>13. Head(queue) = answer.id
    BY <1>7, <1>8, <1>9, <1>12
  <1> QED
    BY <1>3, <1>5, <1>6, <1>7, <1>9, <1>13 DEF answer, queue

\* Reading the first message leaves the others in the order they were in.
LEMMA WirePopped ==
    ASSUME TypeOK, CoreInv, wire # <<>>, wire' = Tail(wire),
           UNCHANGED <<asked, received, answered, server>>,
           \A id \in Ids :
              given'[id] = 0 <=>
                 /\ given[id] = 0
                 /\ ~(Head(wire).command # "EventStream" /\ Head(wire).id = id)
    PROVE  WireAnswers' /\ WireOrdered' /\ NothingLost'
  <1>1. /\ Head(wire) = wire[1] /\ Len(wire) \in Nat \ {0}
        /\ Len(wire') = Len(wire) - 1
        /\ \A p \in 1 .. Len(wire') : wire'[p] = wire[p + 1] /\ p + 1 \in 1 .. Len(wire)
    <2>1. wire \in Seq(Messages)
      BY DEF TypeOK
    <2> QED
      BY <2>1, TailOf
  <1>2. read' = read /\ done' = done
    BY DEF read, done, Server!Answered
  <1>3. Len(asked) \in Nat /\ 1 .. Len(asked) \subseteq Ids
    BY SandstormClientAssumption DEF TypeOK, Ids
  <1>4. 1 .. Len(read) \subseteq 1 .. Len(asked)
    BY DEF TypeOK, read, CoreInv, ReadTrue
  <1>5. \A p \in 1 .. Len(wire) : wire[p].command # "EventStream" =>
           /\ wire[p].id \in 1 .. Len(read)
           /\ wire[p].id \in Ids
           /\ wire[p].id \in done
           /\ asked[wire[p].id] = wire[p].command
           /\ given[wire[p].id] = 0
    BY <1>3, <1>4 DEF CoreInv, WireAnswers
  <1>6. \A p, q \in 1 .. Len(wire) :
           /\ wire[p].command # "EventStream" /\ wire[q].command # "EventStream"
           /\ wire[p].id = wire[q].id
           => p = q
    BY DEF CoreInv, WireAnswers
  <1>7. ASSUME NEW p \in 1 .. Len(wire'), wire'[p].command # "EventStream"
        PROVE  given'[wire'[p].id] = 0
    <2>1. /\ p + 1 \in 1 .. Len(wire) /\ 1 \in 1 .. Len(wire)
          /\ wire'[p] = wire[p + 1] /\ p + 1 # 1
      BY <1>1
    <2>2. ~(wire[1].command # "EventStream" /\ wire[1].id = wire[p + 1].id)
      BY <1>6, <1>7, <2>1
    <2> QED
      BY <1>1, <1>5, <1>7, <2>1, <2>2
  <1>8. WireAnswers'
    <2>1. ASSUME NEW p \in 1 .. Len(wire'), NEW q \in 1 .. Len(wire'),
                 wire'[p].command # "EventStream", wire'[q].command # "EventStream",
                 wire'[p].id = wire'[q].id
          PROVE  p = q
      <3>1. p + 1 = q + 1
        BY <1>1, <1>6, <2>1
      <3> QED
        BY <3>1
    <2> QED
      BY <1>1, <1>2, <1>5, <1>7, <2>1 DEF WireAnswers
  <1>9. WireOrdered'
    <2> SUFFICES ASSUME NEW p \in 1 .. Len(wire'), wire'[p].command # "EventStream",
                        NEW id \in 1 .. Len(asked), id < wire'[p].id,
                        asked[id] = wire'[p].command, given'[id] = 0
                 PROVE  \E q \in 1 .. p - 1 :
                           wire'[q].command # "EventStream" /\ wire'[q].id = id
      BY DEF WireOrdered
    <2>1. p + 1 \in 1 .. Len(wire) /\ wire'[p] = wire[p + 1]
      BY <1>1
    <2>2. given[id] = 0 /\ ~(wire[1].command # "EventStream" /\ wire[1].id = id)
      BY <1>1, <1>3
    <2>3. PICK q \in 1 .. (p + 1) - 1 : wire[q].command # "EventStream" /\ wire[q].id = id
      BY <2>1, <2>2 DEF CoreInv, WireOrdered
    <2>4. q # 1
      BY <2>2, <2>3
    <2>5. q - 1 \in 1 .. p - 1 /\ q - 1 \in 1 .. Len(wire') /\ (q - 1) + 1 = q
      BY <1>1, <2>1, <2>3, <2>4
    <2>6. wire'[q - 1] = wire[q]
      BY <1>1, <2>5
    <2> QED
      BY <2>3, <2>5, <2>6
  <1>10. NothingLost'
    <2> SUFFICES ASSUME server = "open", NEW id \in done, given'[id] = 0
                 PROVE  \E p \in 1 .. Len(wire') :
                           wire'[p].command # "EventStream" /\ wire'[p].id = id
      BY <1>2 DEF NothingLost
    <2>1. id \in Ids
      BY DEF TypeOK, done, Server!Answered
    <2>2. given[id] = 0 /\ ~(wire[1].command # "EventStream" /\ wire[1].id = id)
      BY <1>1, <2>1
    <2>3. PICK q \in 1 .. Len(wire) : wire[q].command # "EventStream" /\ wire[q].id = id
      BY <2>2 DEF CoreInv, NothingLost
    <2>4. q # 1
      BY <2>2, <2>3
    <2>5. q - 1 \in 1 .. Len(wire') /\ (q - 1) + 1 = q
      BY <1>1, <2>3, <2>4
    <2>6. wire'[q - 1] = wire[q]
      BY <1>1, <2>5
    <2> QED
      BY <2>3, <2>5, <2>6
  <1> QED
    BY <1>8, <1>9, <1>10

\* What the reader does with an answer.
LEMMA AnswerEffect ==
    ASSUME TypeOK, CoreInv, ReaderAnswers
    PROVE  LET answer == Head(wire)
               queue == handlers[answer.command]
           IN  /\ wire # <<>> /\ answer.command # "EventStream"
               /\ verdict = "none" /\ verdict' = verdict
               /\ handlers' = [handlers EXCEPT ![answer.command] = Tail(queue)]
               /\ remaining' = remaining - 1
               /\ given' = [given EXCEPT ![answer.id] = answer.id]
               /\ notifier' = IF notifier = "armed" /\ remaining' = 0
                              THEN "fired" ELSE notifier
               /\ answer.command = "Events" =>
                     /\ subscription' = IF streaming THEN "on" ELSE "refused"
                     /\ sink' = IF streaming THEN SinkOfMode ELSE "none"
               /\ answer.command # "Events" => UNCHANGED <<subscription, sink>>
               /\ wire' = Tail(wire)
               /\ UNCHANGED <<mainVars, taskVars, writerVars, wasShutdown, channel,
                              shown, received, answered, logging, streaming, emitted,
                              server>>
  <1>1. wire # <<>> /\ Head(wire).command # "EventStream"
    BY DEF ReaderAnswers, Incoming
  <1>2. handlers[Head(wire).command] # <<>>
    BY <1>1, AnswerForOldest
  <1>3. Head(handlers[Head(wire).command]) = Head(wire).id
    BY <1>1, AnswerForOldest
  <1> QED
    BY <1>1, <1>2, <1>3 DEF ReaderAnswers, Incoming, TakeHandler, WakesFlush

\* An answer takes its request's handler, the first of its queue, with it.
LEMMA CoreAnswered ==
    ASSUME TypeOK, CoreInv, ReaderAnswers
    PROVE  CoreInv'
  <1> DEFINE answer == Head(wire)
             queue == handlers[answer.command]
  <1>1. /\ answer.command \in AllCommands
        /\ answer.id \in 1 .. Len(asked) /\ answer.id \in Ids /\ answer.id \in done
        /\ asked[answer.id] = answer.command /\ given[answer.id] = 0
        /\ queue \in Seq(Ids) /\ queue # <<>> /\ Head(queue) = answer.id
    BY AnswerForOldest, AnswerEffect
  <1>2. /\ wire # <<>> /\ answer.command # "EventStream"
        /\ handlers' = [handlers EXCEPT ![answer.command] = Tail(queue)]
        /\ remaining' = remaining - 1
        /\ given' = [given EXCEPT ![answer.id] = answer.id]
        /\ wire' = Tail(wire)
        /\ UNCHANGED <<asked, sent, received, answered, server>>
    BY AnswerEffect DEF writerVars
  <1>3. \A id \in Ids : given'[id] = IF id = answer.id THEN id ELSE given[id]
    BY <1>1, <1>2 DEF TypeOK
  <1>4. answer.id # 0 /\ 1 .. Len(asked) \subseteq Ids
    <2>1. Len(asked) \in Nat /\ Len(asked) <= MaxRequests /\ MaxRequests \in Nat
      BY SandstormClientAssumption DEF TypeOK
    <2> HIDE DEF answer
    <2> QED
      BY <1>1, <2>1 DEF Ids
  <1>5. read' = read /\ done' = done
    BY <1>2 DEF read, done, Server!Answered
  <1>6. /\ handlers'[answer.command] = Tail(queue)
        /\ \A k \in AllCommands \ {answer.command} : handlers'[k] = handlers[k]
    BY <1>1, <1>2 DEF TypeOK
  <1>7. /\ Len(Tail(queue)) = Len(queue) - 1 /\ Len(queue) \in Nat \ {0}
        /\ queue[1] = answer.id
        /\ \A i \in 1 .. Len(queue) - 1 : Tail(queue)[i] = queue[i + 1]
    BY <1>1, TailOf
  <1>8. WireAnswers' /\ WireOrdered' /\ NothingLost'
    <2>1. \A id \in Ids :
             given'[id] = 0 <=>
                /\ given[id] = 0
                /\ ~(Head(wire).command # "EventStream" /\ Head(wire).id = id)
      BY <1>2, <1>3, <1>4
    <2> QED
      BY <1>2, <2>1, WirePopped
  <1>9. GivenTrue'
    BY <1>1, <1>2, <1>3, <1>5 DEF CoreInv, GivenTrue
  <1>10. ReadTrue'
    BY <1>2, <1>5 DEF CoreInv, ReadTrue
  <1> HIDE DEF answer, queue
  <1>11. HandlersWait'
    <2> SUFFICES ASSUME NEW k \in AllCommands
                 PROVE  /\ \A i, j \in 1 .. Len(handlers'[k]) :
                              i < j => handlers'[k][i] < handlers'[k][j]
                        /\ \A i \in 1 .. Len(handlers'[k]) :
                              /\ handlers'[k][i] \in 1 .. Len(asked)
                              /\ asked[handlers'[k][i]] = k
                              /\ given'[handlers'[k][i]] = 0
                        /\ \A r \in 1 .. Len(asked) :
                              asked[r] = k /\ given'[r] = 0
                                 => \E i \in 1 .. Len(handlers'[k]) : handlers'[k][i] = r
      <3>1. asked' = asked
        BY <1>2
      <3> QED
        BY <3>1 DEF HandlersWait
    <2>1. /\ \A i, j \in 1 .. Len(handlers[k]) : i < j => handlers[k][i] < handlers[k][j]
          /\ \A i \in 1 .. Len(handlers[k]) :
                /\ handlers[k][i] \in 1 .. Len(asked)
                /\ asked[handlers[k][i]] = k
                /\ given[handlers[k][i]] = 0
          /\ \A r \in 1 .. Len(asked) :
                asked[r] = k /\ given[r] = 0
                   => \E i \in 1 .. Len(handlers[k]) : handlers[k][i] = r
      BY DEF CoreInv, HandlersWait
    <2>2. CASE k # answer.command
      <3>1. handlers'[k] = handlers[k]
        BY <1>6, <2>2
      <3>2. \A r \in 1 .. Len(asked) : asked[r] = k => given'[r] = given[r]
        BY <1>1, <1>3, <1>4, <2>2
      <3> QED
        BY <2>1, <3>1, <3>2
    <2>3. CASE k = answer.command
      <3>1. handlers[k] = queue /\ handlers'[k] = Tail(queue)
        BY <1>6, <2>3 DEF queue
      <3>2. ASSUME NEW i \in 1 .. Len(Tail(queue))
            PROVE  /\ i + 1 \in 1 .. Len(queue) /\ Tail(queue)[i] = queue[i + 1]
                   /\ queue[1] < queue[i + 1]
        BY <1>7, <2>1, <3>1
      <3>3. \A i, j \in 1 .. Len(Tail(queue)) : i < j => Tail(queue)[i] < Tail(queue)[j]
        BY <2>1, <3>1, <3>2
      <3>4. ASSUME NEW i \in 1 .. Len(Tail(queue))
            PROVE  /\ Tail(queue)[i] \in 1 .. Len(asked)
                   /\ asked[Tail(queue)[i]] = k
                   /\ given'[Tail(queue)[i]] = 0
        <4>1. /\ Tail(queue)[i] \in 1 .. Len(asked) /\ asked[Tail(queue)[i]] = k
              /\ given[Tail(queue)[i]] = 0
          BY <2>1, <3>1, <3>2
        <4>2. Tail(queue)[i] # answer.id
          BY <1>7, <2>1, <3>1, <3>2
        <4> QED
          BY <1>3, <1>4, <4>1, <4>2
      <3>5. ASSUME NEW r \in 1 .. Len(asked), asked[r] = k, given'[r] = 0
            PROVE  \E i \in 1 .. Len(Tail(queue)) : Tail(queue)[i] = r
        <4>1. r # answer.id /\ given[r] = 0
          BY <1>3, <1>4, <3>5
        <4>2. PICK i \in 1 .. Len(queue) : queue[i] = r
          BY <2>1, <3>1, <3>5, <4>1
        <4>3. i - 1 \in 1 .. Len(Tail(queue)) /\ (i - 1) + 1 = i
          BY <1>7, <4>1, <4>2
        <4> QED
          BY <3>2, <4>2, <4>3
      <3> QED
        BY <3>1, <3>3, <3>4, <3>5
    <2> QED
      BY <2>2, <2>3
  <1>12. RemainingExact'
    <2>1. Waiting' = Waiting \ {answer.id} /\ answer.id \in Waiting
      BY <1>1, <1>2, <1>3, <1>4 DEF Waiting
    <2>2. Cardinality(Waiting') = Cardinality(Waiting) - 1
      BY <2>1, WaitingFinite, FS_RemoveElement
    <2>3. remaining = Cardinality(Waiting)
      BY RemainingIsWaiting DEF CoreInv
    <2> QED
      BY <1>2, <2>2, <2>3 DEF RemainingExact, Waiting
  <1> QED
    BY <1>8, <1>9, <1>10, <1>11, <1>12 DEF CoreInv

\* An event leaves the answers as they are.
LEMMA CoreForwarded ==
    ASSUME TypeOK, CoreInv, ReaderForwards
    PROVE  CoreInv'
  <1>1. /\ wire # <<>> /\ Head(wire).command = "EventStream" /\ wire' = Tail(wire)
        /\ UNCHANGED <<asked, sent, handlers, remaining, given, received, answered, server>>
    BY DEF ReaderForwards, Incoming, writerVars, handlerVars
  <1>2. WireAnswers' /\ WireOrdered' /\ NothingLost'
    BY <1>1, WirePopped
  <1>3. read' = read /\ done' = done
    BY <1>1 DEF read, done, Server!Answered
  <1>4. HandlersWait' /\ GivenTrue' /\ ReadTrue'
    BY <1>1, <1>3 DEF CoreInv, HandlersWait, GivenTrue, ReadTrue
  <1>5. RemainingExact'
    BY <1>1 DEF CoreInv, RemainingExact
  <1> QED
    BY <1>2, <1>4, <1>5 DEF CoreInv

\* What the server reads next, as a request of Pipeline.
NextRequest ==
    LET command == asked[Len(read) + 1]
    IN  [command |-> command, class |-> ClassOf[command]]

\* What the server has read and not answered, once it reads a request more.
LEMMA ReadEffect ==
    ASSUME TypeOK, CoreInv, ServerReads
    PROVE  /\ Len(read) + 1 \in 1 .. Len(asked) /\ Len(read) < sent
           /\ NextRequest \in [command : AllCommands, class : {ClassOf[k] : k \in AllCommands}]
           /\ received' = [received EXCEPT !["client"] = Append(@, NextRequest)]
           /\ read' = Append(read, NextRequest)
  <1>1. Len(read) \in Nat /\ sent \in Nat /\ Len(asked) \in Nat /\ sent <= Len(asked)
    BY DEF TypeOK, read
  <1>2. Len(read) < sent
    BY DEF ServerReads, read
  <1>3. Len(read) + 1 \in 1 .. Len(asked)
    BY <1>1, <1>2
  <1>4. asked[Len(read) + 1] \in AllCommands
    BY <1>3 DEF TypeOK
  <1>5. received' = [received EXCEPT !["client"] = Append(@, NextRequest)]
    BY DEF ServerReads, NextRequest, read
  <1>6. "client" \in DOMAIN received
    BY DEF TypeOK
  <1>7. read' = Append(read, NextRequest)
    BY <1>5, <1>6 DEF read
  <1> QED
    BY <1>2, <1>3, <1>4, <1>5, <1>7 DEF NextRequest

\* The server reads the requests in the order in which they were asked.
LEMMA CoreRead ==
    ASSUME TypeOK, CoreInv, ServerReads
    PROVE  CoreInv'
  <1> DEFINE n == Len(read)
             S == [command : AllCommands, class : {ClassOf[k] : k \in AllCommands}]
  <1>1. UNCHANGED <<asked, sent, handlers, remaining, given, answered, wire, server>>
    BY DEF ServerReads, writerVars, handlerVars, readerVars
  <1>2. read \in Seq(S) /\ n \in Nat
    BY DEF TypeOK, read
  <1>3. /\ n + 1 \in 1 .. Len(asked) /\ n < sent /\ NextRequest \in S
        /\ read' = Append(read, NextRequest)
    BY ReadEffect
  <1>4. NextRequest.command = asked[n + 1] /\ NextRequest.class = ClassOf[asked[n + 1]]
    BY DEF NextRequest
  <1> HIDE DEF S
  <1>5. /\ Len(read') = n + 1 /\ read'[n + 1] = NextRequest
        /\ \A i \in 1 .. n : read'[i] = read[i]
    BY <1>2, <1>3, AppendProperties
  <1>6. done' = done
    BY <1>1 DEF done, Server!Answered
  <1>7. ReadTrue'
    <2>1. n + 1 <= sent
      BY <1>2, <1>3 DEF TypeOK
    <2>2. \A i \in 1 .. n : read[i].command = asked[i] /\ read[i].class = ClassOf[asked[i]]
      BY DEF CoreInv, ReadTrue
    <2> QED
      BY <1>1, <1>2, <1>4, <1>5, <2>1, <2>2 DEF ReadTrue
  <1>8. WireAnswers'
    BY <1>1, <1>2, <1>5, <1>6 DEF CoreInv, WireAnswers
  <1>9. HandlersWait' /\ GivenTrue' /\ WireOrdered' /\ NothingLost'
    BY <1>1, <1>6 DEF CoreInv, HandlersWait, GivenTrue, WireOrdered, NothingLost
  <1>10. RemainingExact'
    BY <1>1 DEF CoreInv, RemainingExact
  <1> QED
    BY <1>7, <1>8, <1>9, <1>10 DEF CoreInv

\* A message is added at the end of the wire.
LEMMA WireGrows ==
    ASSUME TypeOK, NEW message \in Messages, wire' = Append(wire, message)
    PROVE  /\ wire' \in Seq(Messages)
           /\ Len(wire) \in Nat /\ Len(wire') = Len(wire) + 1
           /\ wire'[Len(wire) + 1] = message
           /\ \A p \in 1 .. Len(wire) : wire'[p] = wire[p]
  BY AppendProperties DEF TypeOK

\* What the server does with a request it has read.
LEMMA ServerAnswersEffect ==
    ASSUME TypeOK, CoreInv, NEW id \in Ids, ServerAnswers(id)
    PROVE  LET answer == [command |-> asked[id], id |-> id] IN
           /\ id \in 1 .. Len(read) /\ id \in 1 .. Len(asked) /\ id \notin done
           /\ asked[id] \in AllCommands /\ answer \in Messages
           /\ server = "open"
           /\ \A earlier \in (1 .. Len(read)) \ done :
                 asked[earlier] = asked[id] => earlier >= id
           /\ answered' = [answered EXCEPT !["client"] = Append(@, id)]
           /\ done' = done \cup {id}
           /\ wire' = Append(wire, answer)
           /\ streaming' = (streaming \/ (asked[id] = "Events" /\ logging))
           /\ UNCHANGED <<mainVars, taskVars, writerVars, handlerVars, readerVars,
                          received, logging, emitted, server>>
  <1>1. /\ id \in (1 .. Len(read)) \ done /\ server = "open"
        /\ \A earlier \in (1 .. Len(read)) \ done :
              read[earlier].class = read[id].class => earlier >= id
        /\ answered' = [answered EXCEPT !["client"] = Append(@, id)]
        /\ received' = received
        /\ wire' = Append(wire, [command |-> read[id].command, id |-> id])
        /\ streaming' = (streaming \/ (read[id].command = "Events" /\ logging))
    BY DEF ServerAnswers, Server!Answer, Server!Unanswered, read, done
  <1>2. Len(read) \in Nat /\ Len(asked) \in Nat /\ Len(read) <= Len(asked)
    BY DEF TypeOK, read, CoreInv, ReadTrue
  <1>3. /\ read[id].command = asked[id]
        /\ \A i \in 1 .. Len(read) : read[i].class = ClassOf[asked[i]]
    BY <1>1 DEF CoreInv, ReadTrue
  <1>4. id \in 1 .. Len(asked) /\ asked[id] \in AllCommands
    <2>1. id \in 1 .. Len(asked)
      BY <1>1, <1>2
    <2>2. asked \in Seq(AllCommands)
      BY DEF TypeOK
    <2> QED
      BY <2>1, <2>2
  <1>5. [command |-> asked[id], id |-> id] \in Messages
    BY <1>4 DEF Messages
  <1>6. done' = done \cup {id}
    <2>1. answered["client"] \in Seq(Ids) /\ answered'["client"] = Append(answered["client"], id)
      BY <1>1 DEF TypeOK
    <2>2. /\ Len(answered["client"]) \in Nat
          /\ Len(answered'["client"]) = Len(answered["client"]) + 1
          /\ answered'["client"][Len(answered["client"]) + 1] = id
          /\ \A i \in 1 .. Len(answered["client"]) :
                answered'["client"][i] = answered["client"][i]
      BY <2>1, AppendProperties
    <2> QED
      BY <2>2 DEF done, Server!Answered
  <1>7. UNCHANGED <<mainVars, taskVars, writerVars, handlerVars, readerVars,
                    logging, emitted, server>>
    BY DEF ServerAnswers
  <1> QED
    BY <1>1, <1>3, <1>4, <1>5, <1>6, <1>7

\* An answer is put on the wire behind those to the older requests of its class.
LEMMA CoreServerAnswers ==
    ASSUME TypeOK, CoreInv, NEW id \in Ids, ServerAnswers(id)
    PROVE  CoreInv'
  <1> DEFINE answer == [command |-> asked[id], id |-> id]
             n == Len(wire)
  <1>1. /\ id \in 1 .. Len(read) /\ id \in 1 .. Len(asked) /\ id \notin done
        /\ asked[id] \in AllCommands /\ answer \in Messages /\ server = "open"
        /\ \A earlier \in (1 .. Len(read)) \ done :
              asked[earlier] = asked[id] => earlier >= id
        /\ done' = done \cup {id}
        /\ wire' = Append(wire, answer)
    BY ServerAnswersEffect
  <1>2. UNCHANGED <<asked, sent, handlers, remaining, given, received, server>>
    BY ServerAnswersEffect DEF writerVars, handlerVars, readerVars
  <1>3. /\ n \in Nat /\ Len(wire') = n + 1 /\ wire'[n + 1] = answer
        /\ \A p \in 1 .. n : wire'[p] = wire[p]
    BY <1>1, WireGrows
  <1>4. answer.command = asked[id] /\ answer.id = id /\ answer.command # "EventStream"
    BY <1>1, NoSuchCommand
  <1>5. read' = read
    BY <1>2 DEF read
  <1> HIDE DEF answer, n
  <1>6. given[id] = 0
    BY <1>1 DEF CoreInv, GivenTrue
  <1>7. \A p \in 1 .. n : wire[p].command # "EventStream" =>
           /\ wire[p].id \in 1 .. Len(read) /\ wire[p].id \in done
           /\ asked[wire[p].id] = wire[p].command /\ given[wire[p].id] = 0
           /\ wire[p].id # id
    BY <1>1 DEF CoreInv, WireAnswers, n
  <1>8. WireAnswers'
    <2>1. ASSUME NEW p \in 1 .. Len(wire'), wire'[p].command # "EventStream"
          PROVE  /\ wire'[p].id \in 1 .. Len(read) /\ wire'[p].id \in done'
                 /\ asked[wire'[p].id] = wire'[p].command /\ given[wire'[p].id] = 0
      <3>1. CASE p = n + 1
        BY <1>1, <1>3, <1>4, <1>6, <3>1
      <3>2. CASE p \in 1 .. n
        BY <1>1, <1>3, <1>7, <2>1, <3>2
      <3> QED
        BY <1>3, <3>1, <3>2
    <2>2. ASSUME NEW p \in 1 .. Len(wire'), NEW q \in 1 .. Len(wire'),
                 wire'[p].command # "EventStream", wire'[q].command # "EventStream",
                 wire'[p].id = wire'[q].id
          PROVE  p = q
      <3>1. CASE p \in 1 .. n /\ q \in 1 .. n
        BY <1>3, <2>2, <3>1 DEF CoreInv, WireAnswers, n
      <3>2. CASE p = n + 1 \/ q = n + 1
        BY <1>3, <1>4, <1>7, <2>2, <3>2
      <3> QED
        BY <1>3, <3>1, <3>2
    <2> QED
      BY <1>2, <1>5, <2>1, <2>2 DEF WireAnswers
  <1>9. WireOrdered'
    <2> SUFFICES ASSUME NEW p \in 1 .. Len(wire'), wire'[p].command # "EventStream",
                        NEW r \in 1 .. Len(asked), r < wire'[p].id,
                        asked[r] = wire'[p].command, given[r] = 0
                 PROVE  \E q \in 1 .. p - 1 :
                           wire'[q].command # "EventStream" /\ wire'[q].id = r
      BY <1>2 DEF WireOrdered
    <2>1. CASE p \in 1 .. n
      <3>1. PICK q \in 1 .. p - 1 : wire[q].command # "EventStream" /\ wire[q].id = r
        BY <1>3, <2>1 DEF CoreInv, WireOrdered, n
      <3>2. q \in 1 .. n
        BY <1>3, <2>1, <3>1
      <3> QED
        BY <1>3, <3>1, <3>2
    <2>2. CASE p = n + 1
      <3>1. r < id /\ asked[r] = asked[id]
        BY <1>3, <1>4, <2>2
      <3>2. r \in 1 .. Len(read)
        BY <1>1, <3>1
      <3>3. r \in done
        BY <1>1, <3>1, <3>2
      <3>4. PICK q \in 1 .. n : wire[q].command # "EventStream" /\ wire[q].id = r
        BY <1>1, <3>3 DEF CoreInv, NothingLost, n
      <3>5. q \in 1 .. p - 1 /\ wire'[q] = wire[q]
        BY <1>3, <2>2, <3>4
      <3> QED
        BY <3>4, <3>5
    <2> QED
      BY <1>3, <2>1, <2>2
  <1>10. NothingLost'
    <2> SUFFICES ASSUME NEW r \in done', given[r] = 0
                 PROVE  \E p \in 1 .. Len(wire') :
                           wire'[p].command # "EventStream" /\ wire'[p].id = r
      BY <1>2 DEF NothingLost
    <2>1. CASE r = id
      BY <1>3, <1>4, <2>1
    <2>2. CASE r \in done
      <3>1. PICK p \in 1 .. n : wire[p].command # "EventStream" /\ wire[p].id = r
        BY <1>1, <2>2 DEF CoreInv, NothingLost, n
      <3> QED
        BY <1>3, <3>1
    <2> QED
      BY <1>1, <2>1, <2>2
  <1>11. HandlersWait' /\ GivenTrue' /\ ReadTrue'
    <2>1. HandlersWait'
      BY <1>2 DEF CoreInv, HandlersWait
    <2>2. GivenTrue'
      BY <1>1, <1>2 DEF CoreInv, GivenTrue
    <2>3. ReadTrue'
      BY <1>2, <1>5 DEF CoreInv, ReadTrue
    <2> QED
      BY <2>1, <2>2, <2>3
  <1>12. RemainingExact'
    BY <1>2 DEF CoreInv, RemainingExact
  <1> QED
    BY <1>8, <1>9, <1>10, <1>11, <1>12 DEF CoreInv

\* An event that is added to the wire, or the loss of the last messages on it, leaves
\* the answers on it as they are.
LEMMA CoreWireEnd ==
    ASSUME TypeOK, CoreInv,
           UNCHANGED <<asked, sent, handlers, remaining, given, received, answered>>,
           NEW n \in 0 .. Len(wire), NEW m \in Nat, Len(wire') = m, n <= m,
           \A p \in 1 .. n : wire'[p] = wire[p],
           \A p \in n + 1 .. m : wire'[p].command = "EventStream",
           server' = "open" => server = "open" /\ n = Len(wire)
    PROVE  CoreInv'
  <1>1. Len(wire) \in Nat
    BY DEF TypeOK
  <1>2. read' = read /\ done' = done
    BY DEF read, done, Server!Answered
  <1>3. ASSUME NEW p \in 1 .. m, wire'[p].command # "EventStream"
        PROVE  p \in 1 .. n /\ p \in 1 .. Len(wire) /\ wire'[p] = wire[p]
    <2>1. ~(p \in n + 1 .. m)
      BY <1>3
    <2> QED
      BY <1>1, <2>1
  <1>4. WireAnswers'
    BY <1>2, <1>3 DEF CoreInv, WireAnswers
  <1>5. WireOrdered'
    <2> SUFFICES ASSUME NEW p \in 1 .. m, wire'[p].command # "EventStream",
                        NEW r \in 1 .. Len(asked), r < wire'[p].id,
                        asked[r] = wire'[p].command, given[r] = 0
                 PROVE  \E q \in 1 .. p - 1 :
                           wire'[q].command # "EventStream" /\ wire'[q].id = r
      BY DEF WireOrdered
    <2>1. p \in 1 .. n /\ p \in 1 .. Len(wire) /\ wire'[p] = wire[p]
      BY <1>3
    <2>2. PICK q \in 1 .. p - 1 : wire[q].command # "EventStream" /\ wire[q].id = r
      BY <2>1 DEF CoreInv, WireOrdered
    <2>3. q \in 1 .. n
      BY <2>1, <2>2
    <2> QED
      BY <2>2, <2>3
  <1>6. NothingLost'
    <2> SUFFICES ASSUME server' = "open", NEW r \in done, given[r] = 0
                 PROVE  \E p \in 1 .. m :
                           wire'[p].command # "EventStream" /\ wire'[p].id = r
      BY <1>2 DEF NothingLost
    <2>1. PICK p \in 1 .. Len(wire) : wire[p].command # "EventStream" /\ wire[p].id = r
      BY DEF CoreInv, NothingLost
    <2>2. p \in 1 .. n /\ p \in 1 .. m
      BY <2>1
    <2> QED
      BY <2>1, <2>2
  <1>7. HandlersWait' /\ GivenTrue' /\ ReadTrue'
    BY <1>2 DEF CoreInv, HandlersWait, GivenTrue, ReadTrue
  <1>8. RemainingExact'
    BY DEF CoreInv, RemainingExact
  <1> QED
    BY <1>4, <1>5, <1>6, <1>7, <1>8 DEF CoreInv

\* The client's side of a request: what it flushes, and what it asks.
LEMMA SentKept ==
    ASSUME TypeOK
    PROVE  sent \in sent .. Len(asked) /\ Len(asked) \in sent .. Len(asked)
  BY DEF TypeOK

\* A task asks for what its script says next.
LEMMA ScriptHead ==
    ASSUME TypeOK, script # <<>>
    PROVE  Head(script) \in AllCommands /\ Tail(script) \in Seq(Commands \cup {"Shutdown"})
  BY TailOf DEF TypeOK, AllCommands

\* Every step of the client or the server keeps CoreInv.
LEMMA CoreStep ==
    ASSUME TypeOK, CoreInv, [Next]_vars
    PROVE  CoreInv'
  <1> DEFINE Same == UNCHANGED <<asked, handlers, remaining, given, received, answered, wire>>
             Rest == UNCHANGED <<given, received, answered, wire, server>>
  <1>0. sent \in sent .. Len(asked) /\ Len(asked) \in sent .. Len(asked)
    BY SentKept
  <1>1. ASSUME MainAsks PROVE CoreInv'
    <2>1. Push(Head(script)) /\ Head(script) \in AllCommands /\ Rest
      BY <1>1, ScriptHead DEF MainAsks, readerVars, serverVars
    <2> QED
      BY <2>1, CorePush
  <1>2. ASSUME MainSubscribes PROVE CoreInv'
    <2>1. Push("Events") /\ "Events" \in AllCommands /\ Rest
      BY <1>2 DEF MainSubscribes, AllCommands, readerVars, serverVars
    <2> QED
      BY <2>1, CorePush
  <1>3. ASSUME NEW t \in Tasks, TaskAsks(t) PROVE CoreInv'
    <2>1. PICK command \in Commands \cup {"Shutdown"} : Push(command)
      BY <1>3 DEF TaskAsks
    <2>2. command \in AllCommands /\ Rest
      BY <1>3 DEF TaskAsks, AllCommands, readerVars, serverVars
    <2> QED
      BY <2>1, <2>2, CorePush
  <1>4. ASSUME \/ MainFlushes \/ MainFlushesSubscription
               \/ \E t \in Tasks : TaskFlushes(t)
        PROVE  CoreInv'
    <2>1. Same /\ server' = server /\ sent' \in sent .. Len(asked)
      BY <1>0, <1>4 DEF MainFlushes, MainFlushesSubscription, TaskFlushes, Flush,
                        handlerVars, readerVars, serverVars
    <2> QED
      BY <2>1, CoreSame
  <1>5. ASSUME MainIsSubscribed \/ MainCloses \/ ShutdownTaskCloses
        PROVE  CoreInv'
    <2>1. Same /\ server' = server /\ sent' \in sent .. Len(asked)
      BY <1>0, <1>5 DEF MainIsSubscribed, MainCloses, ShutdownTaskCloses, Close,
                        writerVars, handlerVars, readerVars, serverVars
    <2> QED
      BY <2>1, CoreSame
  <1>6. ASSUME \/ MainRegisters \/ MainIsNotified \/ MainFails \/ MainTakesVerdict
               \/ MainShows \/ MainInterrupted
               \/ \E t \in Tasks : TaskLocks(t) \/ TaskAborts(t)
               \/ ReaderEnds \/ ServerCloses \/ UNCHANGED vars
        PROVE  CoreInv'
    <2>1. Same /\ sent' = sent /\ (server' = "open" => server = "open")
      BY <1>6 DEF MainRegisters, MainIsNotified, MainFails, MainTakesVerdict, MainShows,
                  MainInterrupted, TaskLocks, TaskAborts, ReaderEnds, ServerCloses,
                  writerVars, handlerVars, readerVars, serverVars, vars
    <2> QED
      BY <1>0, <2>1, CoreSame
  <1>7. ASSUME ServerStreams PROVE CoreInv'
    <2> DEFINE event == [command |-> "EventStream", id |-> emitted + 1]
    <2>1. /\ UNCHANGED <<asked, sent, handlers, remaining, given, received, answered, server>>
          /\ wire' = Append(wire, event)
      BY <1>7 DEF ServerStreams, writerVars, handlerVars, readerVars
    <2>2. event \in Messages
      <3>1. emitted + 1 \in 1 .. MaxEvents
        BY <1>7, SandstormClientAssumption DEF TypeOK, ServerStreams
      <3> QED
        BY <3>1 DEF Messages
    <2>3. event.command = "EventStream"
      OBVIOUS
    <2> HIDE DEF event
    <2>4. /\ Len(wire) \in Nat /\ Len(wire') = Len(wire) + 1 /\ wire'[Len(wire) + 1] = event
          /\ \A p \in 1 .. Len(wire) : wire'[p] = wire[p]
      BY <2>1, <2>2, WireGrows
    <2>5. PICK n \in Nat : n = Len(wire) /\ n \in 0 .. Len(wire)
      BY <2>4
    <2>6. \A p \in n + 1 .. n + 1 : wire'[p].command = "EventStream"
      BY <2>3, <2>4, <2>5
    <2> QED
      BY <2>1, <2>4, <2>5, <2>6, CoreWireEnd
  <1>8. ASSUME ServerGoes PROVE CoreInv'
    <2>1. /\ UNCHANGED <<asked, sent, handlers, remaining, given, received, answered>>
          /\ server' # "open"
          /\ \/ wire' = wire
             \/ \E n \in 0 .. Len(wire) : wire' = SubSeq(wire, 1, n)
      BY <1>8 DEF ServerGoes, writerVars, handlerVars, readerVars
    <2>2. wire \in Seq(Messages) /\ Len(wire) \in Nat
      BY DEF TypeOK
    <2>3. PICK n \in 0 .. Len(wire) :
             Len(wire') = n /\ \A p \in 1 .. n : wire'[p] = wire[p]
      BY <2>1, <2>2
    <2>4. n \in Nat /\ n <= n /\ \A p \in n + 1 .. n : wire'[p].command = "EventStream"
      BY <2>3
    <2> QED
      BY <2>1, <2>3, <2>4, CoreWireEnd
  <1> QED
    BY <1>1, <1>2, <1>3, <1>4, <1>5, <1>6, <1>7, <1>8,
       CoreAnswered, CoreForwarded, CoreRead, CoreServerAnswers
    DEF Next, MainFlow, Reader, Task, Terminated

-----------------------------------------------------------------------------
(* Types                                                                   *)

\* The parts of the state that are changed together.
MainType ==
    /\ mode \in Modes
    /\ script \in Seq(Commands \cup {"Shutdown"})
    /\ main \in {"requests", "flushed", "waiting", "subscribe", "subscribing",
                 "streaming", "interface", "pending"}
    /\ quit \in {"no", "quitting", "closed"}
    /\ result \in {"none", "ok", "failed"}

TaskType == lock \in Seq(Tasks) /\ IsInjective(lock) /\ asking \in BOOLEAN

RequestType ==
    /\ asked \in Seq(AllCommands) /\ Len(asked) <= MaxRequests
    /\ sent \in 0 .. Len(asked)
    /\ ended \in BOOLEAN /\ wasShutdown \in BOOLEAN
    /\ handlers \in [AllCommands -> Seq(Ids)]
    /\ remaining \in 0 .. MaxRequests

ReaderType ==
    /\ notifier \in {"none", "armed", "fired"}
    /\ given \in [Ids -> Ids \cup {0}]
    /\ subscription \in {"none", "refused", "on"}
    /\ sink \in {"none", "function", "channel"}
    /\ channel \in Seq(1 .. MaxEvents) /\ Len(channel) <= ChannelCap
    /\ shown \in Seq(1 .. MaxEvents)
    /\ verdict \in {"none", "ok", "unanswered", "closed", "unexpected", "broken"}

ServerType ==
    /\ received \in [{"client"} -> Seq([command : AllCommands, class : {ClassOf[k] : k \in AllCommands}])]
    /\ answered \in [{"client"} -> Seq(Ids)]
    /\ logging \in BOOLEAN /\ streaming \in BOOLEAN
    /\ emitted \in 0 .. MaxEvents
    /\ wire \in Seq(Messages)
    /\ server \in {"open", "eof", "cut"}

\* The types, one group of variables at a time.
LEMMA TypeParts ==
    TypeOK <=> MainType /\ TaskType /\ RequestType /\ ReaderType /\ ServerType
  BY DEF TypeOK, MainType, TaskType, RequestType, ReaderType, ServerType

\* A group that a step leaves alone keeps its types: the main task,
LEMMA SameMain == MainType /\ UNCHANGED mainVars => MainType'
  BY DEF MainType, mainVars

\* the tasks,
LEMMA SameTask == TaskType /\ UNCHANGED taskVars => TaskType'
  BY DEF TaskType, taskVars

\* the requests and their handlers,
LEMMA SameRequest == RequestType /\ UNCHANGED <<writerVars, handlerVars>> => RequestType'
  BY DEF RequestType, writerVars, handlerVars

\* the reader,
LEMMA SameReader == ReaderType /\ UNCHANGED readerVars => ReaderType'
  BY DEF ReaderType, readerVars

\* the server and the wire.
LEMMA SameServer == ServerType /\ UNCHANGED serverVars => ServerType'
  BY DEF ServerType, serverVars

\* A request more is within the bounds.
LEMMA PushType ==
    ASSUME TypeOK, CoreInv, NEW command \in AllCommands, Push(command)
    PROVE  RequestType'
  <1>1. /\ Len(asked) + 1 \in Ids /\ Len(asked) \in Nat
        /\ asked' \in Seq(AllCommands) /\ Len(asked') = Len(asked) + 1
        /\ handlers' \in [AllCommands -> Seq(Ids)]
        /\ sent' \in sent .. Len(asked) /\ sent \in Nat
    BY PushEffect, AskedType
  <1>2. remaining \in Nat /\ remaining <= Len(asked)
    BY WaitingFinite, RemainingIsWaiting DEF CoreInv
  <1>3. /\ remaining' = remaining + 1 /\ ended' = ended
        /\ wasShutdown' = (wasShutdown \/ command = "Shutdown")
    BY DEF Push
  <1>4. ended' \in BOOLEAN /\ wasShutdown' \in BOOLEAN
    BY <1>3 DEF TypeOK
  <1> QED
    BY <1>1, <1>2, <1>3, <1>4, SandstormClientAssumption DEF RequestType, Ids

\* Flushing and closing keep to the requests there are.
LEMMA FlushType ==
    ASSUME TypeOK, sent' \in sent .. Len(asked), ended' \in BOOLEAN, wasShutdown' \in BOOLEAN,
           UNCHANGED <<asked, handlers, remaining>>
    PROVE  RequestType'
  BY DEF TypeOK, RequestType

\* Shutting down the writer only marks it.
LEMMA CloseType ==
    ASSUME TypeOK, Close
    PROVE  RequestType'
  BY SentKept, FlushType DEF Close

\* Every step keeps the types.
LEMMA TypeStep ==
    ASSUME TypeOK, CoreInv, [Next]_vars
    PROVE  TypeOK'
  <1>a. MainType /\ TaskType /\ RequestType /\ ReaderType /\ ServerType
    BY TypeParts
  <1>b. MainType' /\ TaskType' /\ RequestType' /\ ReaderType' /\ ServerType' => TypeOK'
    BY DEF TypeOK, MainType, TaskType, RequestType, ReaderType, ServerType
  <1> USE <1>a, <1>b, SameMain, SameTask, SameRequest, SameReader, SameServer
  <1>0. sent \in sent .. Len(asked) /\ Len(asked) \in sent .. Len(asked)
    BY SentKept
  <1>1. ASSUME MainAsks PROVE TypeOK'
    <2>1. RequestType'
      BY <1>1, ScriptHead, PushType DEF MainAsks
    <2>2. MainType'
      BY <1>1, ScriptHead DEF MainAsks, MainType
    <2> QED
      BY <1>1, <2>1, <2>2 DEF MainAsks
  <1>2. ASSUME MainSubscribes PROVE TypeOK'
    <2>1. RequestType'
      BY <1>2, PushType DEF MainSubscribes, AllCommands
    <2>2. MainType'
      BY <1>2 DEF MainSubscribes, MainType
    <2> QED
      BY <1>2, <2>1, <2>2 DEF MainSubscribes
  <1>3. ASSUME NEW t \in Tasks, TaskAsks(t) PROVE TypeOK'
    <2>1. PICK command \in Commands \cup {"Shutdown"} : Push(command)
      BY <1>3 DEF TaskAsks
    <2>2. RequestType'
      BY <2>1, PushType DEF AllCommands
    <2>3. TaskType'
      BY <1>3 DEF TaskAsks, TaskType
    <2> QED
      BY <1>3, <2>2, <2>3 DEF TaskAsks
  <1>4. ASSUME MainFlushes PROVE TypeOK'
    <2>1. RequestType'
      BY <1>0, <1>4, FlushType DEF MainFlushes, handlerVars, RequestType
    <2>2. MainType'
      BY <1>4 DEF MainFlushes, MainType
    <2> QED
      BY <1>4, <2>1, <2>2 DEF MainFlushes
  <1>5. ASSUME MainFlushesSubscription PROVE TypeOK'
    <2>1. RequestType'
      BY <1>0, <1>5, FlushType DEF MainFlushesSubscription, handlerVars, RequestType
    <2> QED
      BY <1>5, <2>1 DEF MainFlushesSubscription
  <1>6. ASSUME NEW t \in Tasks, TaskFlushes(t) PROVE TypeOK'
    <2>1. RequestType'
      BY <1>0, <1>6, FlushType DEF TaskFlushes, Flush, handlerVars, RequestType
    <2>2. TaskType'
      BY <1>6, LockReleased DEF TaskFlushes, Holds, TaskType
    <2> QED
      BY <1>6, <2>1, <2>2 DEF TaskFlushes
  <1>7. ASSUME MainRegisters PROVE TypeOK'
    <2>1. MainType' /\ ReaderType'
      BY <1>7 DEF MainRegisters, MainType, ReaderType
    <2> QED
      BY <1>7, <2>1 DEF MainRegisters
  <1>8. ASSUME MainIsNotified \/ MainFails \/ MainTakesVerdict \/ MainInterrupted
        PROVE  TypeOK'
    <2>1. MainType'
      BY <1>8 DEF MainIsNotified, MainFails, MainTakesVerdict, MainInterrupted, MainType
    <2> QED
      BY <1>8, <2>1 DEF MainIsNotified, MainFails, MainTakesVerdict, MainInterrupted
  <1>9. ASSUME MainIsSubscribed PROVE TypeOK'
    <2>1. MainType'
      BY <1>9 DEF MainIsSubscribed, MainType
    <2>2. RequestType'
      BY <1>9, CloseType DEF MainIsSubscribed
    <2> QED
      BY <1>9, <2>1, <2>2 DEF MainIsSubscribed
  <1>10. ASSUME MainCloses \/ ShutdownTaskCloses PROVE TypeOK'
    <2>1. MainType'
      BY <1>10 DEF MainCloses, ShutdownTaskCloses, MainType
    <2>2. RequestType'
      BY <1>10, CloseType DEF MainCloses, ShutdownTaskCloses
    <2> QED
      BY <1>10, <2>1, <2>2 DEF MainCloses, ShutdownTaskCloses
  <1>11. ASSUME MainShows PROVE TypeOK'
    <2>1. ReaderType'
      BY <1>11, TailOf, SandstormClientAssumption DEF MainShows, ReaderType
    <2> QED
      BY <1>11, <2>1 DEF MainShows
  <1>12. ASSUME NEW t \in Tasks, TaskLocks(t) PROVE TypeOK'
    <2>1. TaskType'
      BY <1>12, LockGrows DEF TaskLocks, TaskType
    <2> QED
      BY <1>12, <2>1 DEF TaskLocks
  <1>13. ASSUME NEW t \in Tasks, TaskAborts(t) PROVE TypeOK'
    <2>1. TaskType'
      BY <1>13, LockShrinks DEF TaskAborts, TaskType
    <2> QED
      BY <1>13, <2>1 DEF TaskAborts
  <1>14. ASSUME ReaderAnswers PROVE TypeOK'
    <2> DEFINE answer == Head(wire)
               queue == handlers[answer.command]
    <2>1. /\ answer.command \in AllCommands /\ answer.id \in Ids
          /\ answer.id \in Waiting /\ queue \in Seq(Ids) /\ queue # <<>>
      BY <1>14, AnswerForOldest, AnswerEffect DEF Waiting
    <2>2. /\ handlers' = [handlers EXCEPT ![answer.command] = Tail(queue)]
          /\ given' = [given EXCEPT ![answer.id] = answer.id]
          /\ remaining' = remaining - 1 /\ wire' = Tail(wire) /\ wire # <<>>
          /\ UNCHANGED <<mainVars, taskVars, writerVars, wasShutdown, channel, shown,
                         received, answered, logging, streaming, emitted, server>>
      BY <1>14, AnswerEffect
    <2>3. /\ notifier' \in {"none", "armed", "fired"} /\ verdict' = verdict
          /\ subscription' \in {"none", "refused", "on"}
          /\ sink' \in {"none", "function", "channel"}
      BY <1>14, AnswerEffect DEF ReaderType, SinkOfMode
    <2> HIDE DEF answer, queue
    <2>4. remaining \in 0 .. MaxRequests /\ remaining # 0
      BY <2>1, WaitingFinite, RemainingIsWaiting DEF CoreInv, RequestType
    <2>5. RequestType'
      <3>1. Tail(queue) \in Seq(Ids)
        BY <2>1, TailOf
      <3>2. handlers' \in [AllCommands -> Seq(Ids)]
        BY <2>1, <2>2, <3>1 DEF RequestType
      <3>3. remaining' \in 0 .. MaxRequests
        BY <2>2, <2>4, SandstormClientAssumption
      <3> QED
        BY <2>2, <3>2, <3>3 DEF RequestType, writerVars
    <2>6. ReaderType'
      BY <2>1, <2>2, <2>3 DEF ReaderType
    <2>7. ServerType'
      BY <2>2, TailOf DEF ServerType
    <2> QED
      BY <2>2, <2>5, <2>6, <2>7
  <1>15. ASSUME ReaderForwards PROVE TypeOK'
    <2>1. /\ wire # <<>> /\ Head(wire).command = "EventStream" /\ wire' = Tail(wire)
          /\ sink = "channel" => Len(channel) < ChannelCap
          /\ channel' = IF sink = "channel" THEN Append(channel, Head(wire).id) ELSE channel
          /\ shown' = IF sink = "function" THEN Append(shown, Head(wire).id) ELSE shown
          /\ UNCHANGED <<mainVars, taskVars, writerVars, handlerVars, notifier, given,
                         subscription, sink, verdict, received, answered, logging,
                         streaming, emitted, server>>
      BY <1>15 DEF ReaderForwards, Incoming
    <2>2. Head(wire) \in Messages
      BY <2>1, TailOf DEF ServerType
    <2>3. Head(wire).id \in 1 .. MaxEvents
      BY <2>1, <2>2, NoSuchCommand DEF Messages
    <2>4. ServerType'
      BY <2>1, TailOf DEF ServerType
    <2>5. ReaderType'
      <3>1. channel' \in Seq(1 .. MaxEvents) /\ Len(channel') <= ChannelCap
        <4>1. CASE sink = "channel"
          <5>1. Append(channel, Head(wire).id) \in Seq(1 .. MaxEvents)
            BY <2>3 DEF ReaderType
          <5>2. Len(Append(channel, Head(wire).id)) = Len(channel) + 1 /\ Len(channel) \in Nat
            BY <2>3 DEF ReaderType
          <5> QED
            BY <2>1, <4>1, <5>1, <5>2, SandstormClientAssumption
        <4>2. CASE sink # "channel"
          BY <2>1, <4>2 DEF ReaderType
        <4> QED
          BY <4>1, <4>2
      <3>2. shown' \in Seq(1 .. MaxEvents)
        <4>1. shown \in Seq(1 .. MaxEvents)
          BY DEF ReaderType
        <4>2. Append(shown, Head(wire).id) \in Seq(1 .. MaxEvents)
          BY <2>3, <4>1
        <4> QED
          BY <2>1, <4>1, <4>2
      <3> QED
        BY <2>1, <3>1, <3>2 DEF ReaderType
    <2> QED
      BY <2>1, <2>4, <2>5
  <1>16. ASSUME ReaderEnds PROVE TypeOK'
    <2>1. ReaderType'
      BY <1>16 DEF ReaderEnds, EndOfStream, ReaderType
    <2> QED
      BY <1>16, <2>1 DEF ReaderEnds
  <1>17. ASSUME ServerReads PROVE TypeOK'
    <2>1. ServerType'
      <3> DEFINE S == [command : AllCommands, class : {ClassOf[k] : k \in AllCommands}]
      <3>1. /\ NextRequest \in S
            /\ received' = [received EXCEPT !["client"] = Append(@, NextRequest)]
        BY <1>17, ReadEffect
      <3> HIDE DEF S
      <3>2. received \in [{"client"} -> Seq(S)]
        BY DEF ServerType, S
      <3>3. received' \in [{"client"} -> Seq(S)]
        BY <3>1, <3>2
      <3> QED
        BY <1>17, <3>3 DEF ServerReads, ServerType, S
    <2> QED
      BY <1>17, <2>1 DEF ServerReads
  <1>18. ASSUME NEW id \in Ids, ServerAnswers(id) PROVE TypeOK'
    <2>1. ServerType'
      <3> DEFINE answer == [command |-> asked[id], id |-> id]
      <3>1. /\ answer \in Messages
            /\ answered' = [answered EXCEPT !["client"] = Append(@, id)]
            /\ wire' = Append(wire, answer)
            /\ streaming' = (streaming \/ (asked[id] = "Events" /\ logging))
            /\ UNCHANGED <<received, logging, emitted, server>>
        BY <1>18, ServerAnswersEffect
      <3> HIDE DEF answer
      <3>2. wire' \in Seq(Messages)
        BY <3>1 DEF ServerType
      <3>3. answered' \in [{"client"} -> Seq(Ids)]
        BY <3>1 DEF ServerType
      <3>4. streaming' \in BOOLEAN
        BY <3>1 DEF ServerType
      <3> QED
        BY <3>1, <3>2, <3>3, <3>4 DEF ServerType
    <2> QED
      BY <1>18, <2>1 DEF ServerAnswers
  <1>19. ASSUME ServerStreams PROVE TypeOK'
    <2>1. ServerType'
      <3>1. emitted + 1 \in 1 .. MaxEvents
        BY <1>19, SandstormClientAssumption DEF ServerType, ServerStreams
      <3>2. [command |-> "EventStream", id |-> emitted + 1] \in Messages
        BY <3>1 DEF Messages
      <3> QED
        BY <1>19, <3>1, <3>2 DEF ServerStreams, ServerType
    <2> QED
      BY <1>19, <2>1 DEF ServerStreams
  <1>20. ASSUME ServerCloses \/ ServerGoes PROVE TypeOK'
    <2>1. ServerType'
      BY <1>20 DEF ServerCloses, ServerGoes, ServerType
    <2> QED
      BY <1>20, <2>1 DEF ServerCloses, ServerGoes
  <1>21. ASSUME UNCHANGED vars PROVE TypeOK'
    BY <1>21 DEF vars, mainVars, taskVars, writerVars, handlerVars, readerVars, serverVars
  <1> QED
    BY <1>1, <1>2, <1>3, <1>4, <1>5, <1>6, <1>7, <1>8, <1>9, <1>10, <1>11, <1>12, <1>13,
       <1>14, <1>15, <1>16, <1>17, <1>18, <1>19, <1>20, <1>21
    DEF Next, MainFlow, Reader, Task, Terminated

-----------------------------------------------------------------------------
(* Who can do what when                                                    *)

\* A waiting request keeps the count from zero.
LEMMA RemainingPositive ==
    ASSUME TypeOK, CoreInv, ReaderAnswers
    PROVE  remaining # 0 /\ remaining \in Nat
  <1>1. Head(wire).id \in Waiting
    BY AnswerForOldest, AnswerEffect DEF Waiting
  <1> QED
    BY <1>1, WaitingFinite, RemainingIsWaiting DEF CoreInv

\* Every step keeps PhaseInv.
LEMMA PhaseStep ==
    ASSUME TypeOK, CoreInv, PhaseInv, [Next]_vars
    PROVE  PhaseInv'
  <1> USE DEF PhaseInv
  <1>1. ASSUME MainFlow, ~MainIsSubscribed
        PROVE  PhaseInv'
    <2>1. CASE MainAsks
      BY <2>1 DEF MainAsks, Push, Polled, taskVars, readerVars
    <2>2. CASE MainFlushes \/ MainFlushesSubscription
      BY <2>2 DEF MainFlushes, MainFlushesSubscription, Polled, mainVars, taskVars,
                  handlerVars, readerVars
    <2>3. CASE MainRegisters
      BY <2>3 DEF MainRegisters, Polled, taskVars, writerVars, handlerVars
    <2>4. CASE MainIsNotified
      BY <2>4 DEF MainIsNotified, Polled, taskVars, writerVars, handlerVars, readerVars
    <2>5. CASE MainSubscribes
      BY <2>5 DEF MainSubscribes, Push, Polled, taskVars, readerVars
    <2> QED
      BY <1>1, <2>1, <2>2, <2>3, <2>4, <2>5 DEF MainFlow
  <1>2. ASSUME MainIsSubscribed PROVE PhaseInv'
    BY <1>2 DEF MainIsSubscribed, Close, Polled, Running, taskVars, writerVars, handlerVars,
                readerVars
  <1>3. ASSUME MainCloses \/ ShutdownTaskCloses PROVE PhaseInv'
    BY <1>3 DEF MainCloses, ShutdownTaskCloses, NoReferenceLeft, Close, Polled, Running,
                taskVars, readerVars
  <1>4. ASSUME MainFails \/ MainTakesVerdict \/ MainShows \/ MainInterrupted
        PROVE  PhaseInv'
    BY <1>4 DEF MainFails, MainTakesVerdict, MainShows, MainInterrupted, Polled, Running,
                mainVars, taskVars, writerVars, handlerVars, readerVars
  <1>5. ASSUME NEW t \in Tasks, TaskLocks(t) PROVE PhaseInv'
    <2>1. lock' # <<>>
      <3>1. lock \in Seq(Tasks) /\ lock' = Append(lock, t)
        BY <1>5 DEF TaskLocks, TypeOK
      <3>2. lock' \in Seq(Tasks) /\ Len(lock') # 0
        BY <3>1
      <3> QED
        BY <3>2
    <2> QED
      BY <1>5, <2>1 DEF TaskLocks, mainVars, writerVars, handlerVars, readerVars
  <1>6. ASSUME NEW t \in Tasks, TaskAsks(t) PROVE PhaseInv'
    <2>1. lock # <<>> /\ UNCHANGED <<main, quit, result, lock, notifier, verdict, ended>>
      BY <1>6 DEF TaskAsks, Holds, Push, mainVars, readerVars
    <2> QED
      BY <2>1
  <1>7. ASSUME NEW t \in Tasks, TaskFlushes(t) PROVE PhaseInv'
    <2>1. lock # <<>> /\ ~asking'
          /\ UNCHANGED <<main, quit, result, notifier, verdict, ended, remaining>>
      BY <1>7 DEF TaskFlushes, Holds, Flush, mainVars, handlerVars, readerVars
    <2> QED
      BY <2>1
  <1>8. ASSUME NEW t \in Tasks, TaskAborts(t) PROVE PhaseInv'
    <2>1. PICK i \in 1 .. Len(lock) : lock[i] = t /\ lock' = RemoveAt(lock, i)
      BY <1>8 DEF TaskAborts
    <2>2. lock \in Seq(Tasks) /\ lock # <<>> /\ Len(lock) \in Nat
      BY <2>1 DEF TypeOK
    <2>3. UNCHANGED <<main, quit, result, notifier, verdict, ended, remaining>>
      BY <1>8 DEF TaskAborts, mainVars, writerVars, handlerVars, readerVars
    <2>4. asking' => lock' # <<>>
      <3> SUFFICES ASSUME asking', lock' = <<>>
                   PROVE  FALSE
        OBVIOUS
      <3>1. ~Holds(t)
        BY <1>8 DEF TaskAborts
      <3>2. i # 1
        BY <2>1, <2>2, <3>1 DEF Holds
      <3>3. lock' \in Seq(Tasks) /\ Len(lock') = Len(lock) - 1
        BY <2>1, <2>2, RemovedAt
      <3>4. Len(lock') = 0
        OBVIOUS
      <3>5. Len(lock) = 1
        BY <2>2, <3>3, <3>4
      <3> QED
        BY <2>1, <3>2, <3>5
    <2> QED
      BY <2>2, <2>3, <2>4
  <1>9. ASSUME ReaderAnswers PROVE PhaseInv'
    <2>1. /\ remaining # 0
          /\ notifier' = IF notifier = "armed" /\ remaining' = 0 THEN "fired" ELSE notifier
          /\ verdict' = verdict
          /\ UNCHANGED <<main, quit, result, lock, asking, ended>>
      BY <1>9, RemainingPositive, AnswerEffect DEF mainVars, taskVars, writerVars
    <2> QED
      BY <2>1
  <1>10. ASSUME ReaderForwards PROVE PhaseInv'
    BY <1>10 DEF ReaderForwards, mainVars, taskVars, writerVars, handlerVars
  <1>11. ASSUME ReaderEnds PROVE PhaseInv'
    BY <1>11 DEF ReaderEnds, EndOfStream, Running, mainVars, taskVars, writerVars, handlerVars
  <1>12. ASSUME \/ ServerReads \/ (\E id \in Ids : ServerAnswers(id)) \/ ServerStreams
                \/ ServerCloses \/ ServerGoes
         PROVE  PhaseInv'
    <2>1. UNCHANGED <<mainVars, taskVars, writerVars, handlerVars, readerVars>>
      BY <1>12 DEF ServerReads, ServerAnswers, ServerStreams, ServerCloses, ServerGoes
    <2> QED
      BY <2>1 DEF mainVars, taskVars, writerVars, handlerVars, readerVars
  <1>13. ASSUME UNCHANGED vars PROVE PhaseInv'
    BY <1>13 DEF vars
  <1> QED
    BY <1>1, <1>2, <1>3, <1>4, <1>5, <1>6, <1>7, <1>8, <1>9, <1>10, <1>11, <1>12, <1>13
    DEF Next, MainFlow, Reader, Task, Terminated

-----------------------------------------------------------------------------
(* The events                                                              *)

\* A request other than for the events leaves them asked for at most once, as does
\* the one request for them.
LEMMA OncePush ==
    ASSUME TypeOK, CoreInv, SubscribesOnce, NEW command \in AllCommands, Push(command),
           command # "Events" \/ (main = "subscribe" /\ main' = "subscribing"),
           main' = main \/ main' = "subscribing"
    PROVE  SubscribesOnce'
  <1> DEFINE n == Len(asked)
  <1>1. /\ n \in Nat /\ Len(asked') = n + 1 /\ asked'[n + 1] = command
        /\ \A i \in 1 .. n : asked'[i] = asked[i]
    BY PushEffect, AskedType
  <1> HIDE DEF n
  <1>2. CASE command # "Events"
    BY <1>1, <1>2 DEF SubscribesOnce, n
  <1>3. CASE main = "subscribe" /\ main' = "subscribing"
    BY <1>1, <1>3 DEF SubscribesOnce, n
  <1> QED
    BY <1>2, <1>3

\* What asks for nothing leaves the events asked for at most once.
LEMMA OnceSame ==
    ASSUME SubscribesOnce, asked' = asked,
           main' \in {"requests", "flushed", "waiting", "subscribe"}
              => main \in {"requests", "flushed", "waiting", "subscribe"}
    PROVE  SubscribesOnce'
  BY DEF SubscribesOnce

\* Every step leaves the events asked for at most once.
LEMMA OnceStep ==
    ASSUME TypeOK, CoreInv, PhaseInv, SubscribesOnce, [Next]_vars
    PROVE  SubscribesOnce'
  <1>1. ASSUME MainAsks PROVE SubscribesOnce'
    <2>1. Head(script) \in Commands \cup {"Shutdown"}
      BY <1>1, TailOf DEF TypeOK, MainAsks
    <2>2. Head(script) \in AllCommands /\ Head(script) # "Events"
      BY <2>1, SandstormClientAssumption DEF AllCommands
    <2> QED
      BY <1>1, <2>2, OncePush DEF MainAsks
  <1>2. ASSUME MainSubscribes PROVE SubscribesOnce'
    BY <1>2, OncePush DEF MainSubscribes, AllCommands
  <1>3. ASSUME NEW t \in Tasks, TaskAsks(t) PROVE SubscribesOnce'
    <2>1. PICK command \in Commands \cup {"Shutdown"} : Push(command)
      BY <1>3 DEF TaskAsks
    <2>2. command \in AllCommands /\ command # "Events" /\ main' = main
      BY <1>3, SandstormClientAssumption DEF TaskAsks, AllCommands, mainVars
    <2> QED
      BY <2>1, <2>2, OncePush
  <1>4. ASSUME MainFlow, ~MainAsks, ~MainSubscribes PROVE SubscribesOnce'
    BY <1>4, OnceSame DEF MainFlow, MainFlushes, MainRegisters, MainIsNotified,
                          MainFlushesSubscription, MainIsSubscribed, Close, mainVars,
                          writerVars
  <1>5. ASSUME \/ MainCloses \/ MainFails \/ MainTakesVerdict \/ MainShows \/ MainInterrupted
               \/ ShutdownTaskCloses \/ UNCHANGED vars
        PROVE  SubscribesOnce'
    BY <1>5, OnceSame DEF MainCloses, MainFails, MainTakesVerdict, MainShows,
                          MainInterrupted, ShutdownTaskCloses, Close, mainVars, writerVars, vars
  <1>6. ASSUME NEW t \in Tasks, TaskLocks(t) \/ TaskFlushes(t) \/ TaskAborts(t)
        PROVE  SubscribesOnce'
    BY <1>6, OnceSame DEF TaskLocks, TaskFlushes, TaskAborts, Flush, mainVars, writerVars
  <1>7. ASSUME \/ Reader \/ ServerReads \/ (\E id \in Ids : ServerAnswers(id))
               \/ ServerStreams \/ ServerCloses \/ ServerGoes
        PROVE  SubscribesOnce'
    <2>1. UNCHANGED <<mainVars, writerVars>>
      BY <1>7 DEF Reader, ReaderAnswers, ReaderForwards, ReaderEnds, ServerReads,
                  ServerAnswers, ServerStreams, ServerCloses, ServerGoes
    <2> QED
      BY <2>1, OnceSame DEF mainVars, writerVars
  <1> QED
    BY <1>1, <1>2, <1>3, <1>4, <1>5, <1>6, <1>7 DEF Next, Task, Terminated

\* Neither a request nor a change of the server's state disturbs the events.
LEMMA SinkSame ==
    ASSUME TypeOK, CoreInv, SinkInPlace,
           asked' = asked \/ \E command \in AllCommands : Push(command),
           UNCHANGED <<given, sink, verdict, answered, streaming, emitted, wire>>,
           server' = "open" => server = "open"
    PROVE  SinkInPlace'
  <1>1. /\ Len(asked) \in Nat /\ Len(asked') \in Nat /\ Len(asked') >= Len(asked)
        /\ \A i \in 1 .. Len(asked) : asked'[i] = asked[i]
        /\ 1 .. Len(asked') \subseteq Ids
    <2>1. CASE asked' = asked
      BY <2>1, SandstormClientAssumption DEF TypeOK, Ids
    <2>2. CASE \E command \in AllCommands : Push(command)
      <3>1. PICK command \in AllCommands : Push(command)
        BY <2>2
      <3>2. /\ Len(asked) + 1 \in Ids /\ Len(asked) \in Nat /\ Len(asked') = Len(asked) + 1
            /\ \A i \in 1 .. Len(asked) : asked'[i] = asked[i]
        <4>1. Len(asked) \in Nat
          BY DEF TypeOK
        <4> QED
          BY <3>1, <4>1, PushEffect
      <3> QED
        BY <3>2, SandstormClientAssumption DEF Ids
    <2> QED
      BY <2>1, <2>2
  <1>2. done' = done
    BY DEF done, Server!Answered
  <1>3. ASSUME NEW id \in 1 .. Len(asked'), asked'[id] = "Events", given[id] # 0
        PROVE  id \in 1 .. Len(asked) /\ asked[id] = "Events"
    BY <1>1, <1>3 DEF CoreInv, GivenTrue
  <1> QED
    BY <1>1, <1>2, <1>3 DEF SinkInPlace

\* An answer puts the sink in place before the events behind it are read.
LEMMA SinkAnswered ==
    ASSUME TypeOK, CoreInv, SubscribesOnce, SinkInPlace, EventsNumbered, ReaderAnswers
    PROVE  SinkInPlace'
  <1> DEFINE answer == Head(wire)
  <1>1. /\ answer.command \in AllCommands /\ answer.id \in Ids
        /\ answer.id \in 1 .. Len(asked) /\ asked[answer.id] = answer.command
    BY AnswerForOldest, AnswerEffect
  <1>2. /\ wire # <<>> /\ wire' = Tail(wire) /\ verdict' = verdict /\ verdict = "none"
        /\ given' = [given EXCEPT ![answer.id] = answer.id]
        /\ answer.command = "Events" => sink' = IF streaming THEN SinkOfMode ELSE "none"
        /\ answer.command # "Events" => sink' = sink
        /\ UNCHANGED <<asked, answered, streaming, emitted, server>>
    BY AnswerEffect DEF writerVars
  <1>3. /\ answer = wire[1] /\ Len(wire) \in Nat \ {0} /\ Len(wire') = Len(wire) - 1
        /\ \A p \in 1 .. Len(wire') : wire'[p] = wire[p + 1] /\ p + 1 \in 1 .. Len(wire)
    <2>1. wire \in Seq(Messages)
      BY DEF TypeOK
    <2> QED
      BY <1>2, <2>1, TailOf
  <1>4. SinkOfMode # "none"
    BY DEF SinkOfMode
  <1>5. done' = done
    BY <1>2 DEF done, Server!Answered
  <1>6. \A id \in 1 .. Len(asked) : id # answer.id => given'[id] = given[id]
    <2>1. 1 .. Len(asked) \subseteq Ids
      BY SandstormClientAssumption DEF TypeOK, Ids
    <2> QED
      BY <1>1, <1>2, <2>1 DEF TypeOK
  <1> HIDE DEF answer
  <1>7. \A p \in 1 .. Len(wire) : wire[p].command = "EventStream" => streaming
    <2>1. ASSUME NEW p \in 1 .. Len(wire), wire[p].command = "EventStream"
          PROVE  emitted # 0
      <3>1. wire[p].id \in Taken + 1 .. emitted /\ Taken \in Nat /\ emitted \in Nat
        <4>1. wire[p].id \in Taken + 1 .. emitted
          BY <2>1 DEF EventsNumbered, Numbered
        <4> QED
          BY <4>1 DEF TypeOK, Taken
      <3> QED
        BY <3>1
    <2> QED
      BY <2>1 DEF SinkInPlace
  <1>8. sink' # "none" => streaming
    BY <1>1, <1>2 DEF SinkInPlace
  <1>9. ASSUME NEW id \in 1 .. Len(asked), asked[id] = "Events", given'[id] # 0, streaming
        PROVE  sink' # "none"
    <2>1. CASE id = answer.id
      BY <1>1, <1>2, <1>4, <1>9, <2>1
    <2>2. CASE id # answer.id
      <3>1. answer.command # "Events"
        BY <1>1, <1>9, <2>2 DEF SubscribesOnce
      <3> QED
        BY <1>2, <1>6, <1>9, <2>2, <3>1 DEF SinkInPlace
    <2> QED
      BY <2>1, <2>2
  <1>10. ASSUME NEW p \in 1 .. Len(wire'), wire'[p].command = "EventStream", sink' = "none"
         PROVE  \E q \in 1 .. p - 1 : wire'[q].command = "Events"
    <2>1. wire[p + 1].command = "EventStream" /\ p + 1 \in 1 .. Len(wire) /\ streaming
      BY <1>3, <1>7, <1>10
    <2>2. answer.command # "Events" /\ sink = "none"
      BY <1>2, <1>4, <1>10, <2>1
    <2>3. PICK q \in 1 .. (p + 1) - 1 : wire[q].command = "Events"
      BY <2>1, <2>2 DEF SinkInPlace
    <2>4. q # 1
      BY <1>3, <2>2, <2>3
    <2>5. q - 1 \in 1 .. p - 1 /\ q - 1 \in 1 .. Len(wire') /\ (q - 1) + 1 = q
      BY <1>3, <2>1, <2>3, <2>4
    <2>6. wire'[q - 1] = wire[q]
      BY <1>3, <2>5
    <2> QED
      BY <2>3, <2>5, <2>6
  <1> QED
    BY <1>2, <1>5, <1>8, <1>9, <1>10 DEF SinkInPlace

\* An event that is read leaves the sink where it is.
LEMMA SinkForwarded ==
    ASSUME TypeOK, CoreInv, SinkInPlace, ReaderForwards
    PROVE  SinkInPlace'
  <1>1. /\ wire # <<>> /\ Head(wire).command = "EventStream" /\ wire' = Tail(wire)
        /\ verdict = "none"
        /\ UNCHANGED <<asked, given, sink, verdict, answered, streaming, emitted, server>>
    BY DEF ReaderForwards, Incoming, writerVars
  <1>2. Head(wire) = wire[1] /\ 1 \in 1 .. Len(wire)
    <2>1. wire \in Seq(Messages)
      BY DEF TypeOK
    <2> QED
      BY <1>1, <2>1, TailOf
  <1>3. sink # "none"
    <2>1. sink # "none" \/ \E q \in 1 .. 1 - 1 : wire[q].command = "Events"
      BY <1>1, <1>2 DEF SinkInPlace
    <2> QED
      BY <2>1
  <1>4. done' = done
    BY <1>1 DEF done, Server!Answered
  <1> QED
    BY <1>1, <1>3, <1>4 DEF SinkInPlace

\* The server begins to stream with the one answer that says so.
LEMMA SinkServerAnswers ==
    ASSUME TypeOK, CoreInv, SubscribesOnce, SinkInPlace, NEW id \in Ids, ServerAnswers(id)
    PROVE  SinkInPlace'
  <1> DEFINE answer == [command |-> asked[id], id |-> id]
             n == Len(wire)
  <1>1. /\ id \in 1 .. Len(asked) /\ id \notin done /\ asked[id] \in AllCommands
        /\ answer \in Messages /\ server = "open"
        /\ done' = done \cup {id} /\ wire' = Append(wire, answer)
        /\ streaming' = (streaming \/ (asked[id] = "Events" /\ logging))
    BY ServerAnswersEffect
  <1>2. UNCHANGED <<asked, given, sink, verdict, emitted, server>>
    BY ServerAnswersEffect DEF writerVars, readerVars
  <1>3. /\ n \in Nat /\ Len(wire') = n + 1 /\ wire'[n + 1] = answer
        /\ \A p \in 1 .. n : wire'[p] = wire[p]
    BY <1>1, WireGrows
  <1>4. answer.command = asked[id] /\ answer.command # "EventStream"
    BY <1>1, NoSuchCommand
  <1> HIDE DEF answer, n
  <1>5. given[id] = 0
    BY <1>1 DEF CoreInv, GivenTrue
  <1>6. ASSUME NEW i \in 1 .. Len(asked), asked[i] = "Events", given[i] # 0,
               streaming', verdict = "none"
        PROVE  sink # "none"
    <2>1. asked[id] # "Events"
      BY <1>1, <1>5, <1>6 DEF SubscribesOnce
    <2> QED
      BY <1>1, <1>6, <2>1 DEF SinkInPlace
  <1>7. ASSUME NEW p \in 1 .. Len(wire'), wire'[p].command = "EventStream", sink = "none"
        PROVE  \E q \in 1 .. p - 1 : wire'[q].command = "Events"
    <2>1. p \in 1 .. n /\ wire[p].command = "EventStream"
      BY <1>3, <1>4, <1>7
    <2>2. PICK q \in 1 .. p - 1 : wire[q].command = "Events"
      BY <1>7, <2>1 DEF SinkInPlace, n
    <2> QED
      BY <1>3, <2>1, <2>2
  <1>8. verdict = "none"
    BY <1>1 DEF SinkInPlace
  <1>9. streaming' => \E i \in 1 .. Len(asked) : i \in done' /\ asked[i] = "Events"
    BY <1>1 DEF SinkInPlace
  <1>10. (emitted # 0 => streaming') /\ (sink # "none" => streaming')
    BY <1>1 DEF SinkInPlace
  <1> QED
    BY <1>2, <1>6, <1>7, <1>8, <1>9, <1>10 DEF SinkInPlace

\* It streams only behind that answer.
LEMMA SinkServerStreams ==
    ASSUME TypeOK, CoreInv, SinkInPlace, ServerStreams
    PROVE  SinkInPlace'
  <1> DEFINE event == [command |-> "EventStream", id |-> emitted + 1]
             n == Len(wire)
  <1>1. /\ server = "open" /\ streaming /\ emitted < MaxEvents /\ wire' = Append(wire, event)
        /\ UNCHANGED <<asked, given, sink, verdict, answered, streaming, server>>
    BY DEF ServerStreams, writerVars, readerVars
  <1>2. event \in Messages
    <2>1. emitted + 1 \in 1 .. MaxEvents
      BY <1>1, SandstormClientAssumption DEF TypeOK
    <2> QED
      BY <2>1 DEF Messages
  <1>3. /\ n \in Nat /\ Len(wire') = n + 1 /\ \A p \in 1 .. n : wire'[p] = wire[p]
    BY <1>1, <1>2, WireGrows
  <1> HIDE DEF event, n
  <1>4. verdict = "none"
    BY <1>1 DEF SinkInPlace
  <1>5. PICK id \in 1 .. Len(asked) : id \in done /\ asked[id] = "Events"
    BY <1>1 DEF SinkInPlace
  <1>6. sink # "none" \/ \E q \in 1 .. n : wire[q].command = "Events"
    <2>1. CASE given[id] # 0
      BY <1>1, <1>4, <1>5, <2>1 DEF SinkInPlace
    <2>2. CASE given[id] = 0
      <3>1. PICK q \in 1 .. Len(wire) : wire[q].command # "EventStream" /\ wire[q].id = id
        BY <1>1, <1>5, <2>2 DEF CoreInv, NothingLost
      <3>2. wire[q].command = "Events"
        BY <1>5, <3>1 DEF CoreInv, WireAnswers
      <3> QED
        BY <3>1, <3>2 DEF n
    <2> QED
      BY <2>1, <2>2
  <1>7. ASSUME NEW p \in 1 .. Len(wire'), wire'[p].command = "EventStream", sink = "none"
        PROVE  \E q \in 1 .. p - 1 : wire'[q].command = "Events"
    <2>1. CASE p \in 1 .. n
      <3>1. PICK q \in 1 .. p - 1 : wire[q].command = "Events"
        BY <1>3, <1>7, <2>1 DEF SinkInPlace, n
      <3> QED
        BY <1>3, <2>1, <3>1
    <2>2. CASE p = n + 1
      BY <1>3, <1>6, <1>7, <2>2
    <2> QED
      BY <1>3, <2>1, <2>2
  <1>8. done' = done
    BY <1>1 DEF done, Server!Answered
  <1> QED
    BY <1>1, <1>4, <1>7, <1>8 DEF SinkInPlace

\* What was taken, written, channelled and shown is a sequence of numbers of events.
LEMMA TakenType ==
    ASSUME TypeOK
    PROVE  /\ Len(shown) \in Nat /\ Len(channel) \in Nat /\ Taken \in Nat
           /\ emitted \in Nat /\ Len(wire) \in Nat
  BY DEF TypeOK, Taken

\* An answer that is appended is no event.
LEMMA NumberedAnswer ==
    ASSUME NEW s \in Seq(Messages), NEW m \in Messages, m.command # "EventStream",
           NEW first, NEW last, NEW whole, Numbered(s, first, last, whole)
    PROVE  Numbered(Append(s, m), first, last, whole)
  <1> DEFINE n == Len(s)
             t == Append(s, m)
  <1>1. n \in Nat /\ Len(t) = n + 1 /\ t[n + 1] = m /\ \A p \in 1 .. n : t[p] = s[p]
    BY AppendProperties
  <1> HIDE DEF n, t
  <1>2. \A p \in 1 .. Len(t) : t[p].command = "EventStream" => p \in 1 .. n /\ t[p] = s[p]
    BY <1>1
  <1>3. ASSUME NEW p \in 1 .. Len(t), t[p].command = "EventStream",
               NEW k \in first .. t[p].id
        PROVE  \E q \in 1 .. p : t[q].command = "EventStream" /\ t[q].id = k
    <2>1. p \in 1 .. n /\ s[p].command = "EventStream" /\ k \in first .. s[p].id
      BY <1>2, <1>3
    <2>2. PICK q \in 1 .. p : s[q].command = "EventStream" /\ s[q].id = k
      BY <2>1 DEF Numbered, n
    <2> QED
      BY <1>1, <2>1, <2>2
  <1>4. \A k : (\E p \in 1 .. n : s[p].command = "EventStream" /\ s[p].id = k)
                  => \E p \in 1 .. Len(t) : t[p].command = "EventStream" /\ t[p].id = k
    BY <1>1
  <1>5. Numbered(t, first, last, whole)
    BY <1>2, <1>3, <1>4 DEF Numbered, n
  <1> QED
    BY <1>5 DEF t

\* The next event is.
LEMMA NumberedEvent ==
    ASSUME NEW s \in Seq(Messages), NEW first \in Nat, NEW last \in Nat, first <= last + 1,
           NEW m \in Messages, m.command = "EventStream", m.id = last + 1,
           Numbered(s, first, last, TRUE)
    PROVE  Numbered(Append(s, m), first, last + 1, TRUE)
  <1> DEFINE n == Len(s)
             t == Append(s, m)
  <1>1. n \in Nat /\ Len(t) = n + 1 /\ t[n + 1] = m /\ \A p \in 1 .. n : t[p] = s[p]
    BY AppendProperties
  <1> HIDE DEF n, t
  <1>2. \A p \in 1 .. n : s[p].command = "EventStream" => s[p].id \in first .. last
    BY DEF Numbered, n
  <1>3. ASSUME NEW k \in first .. last
        PROVE  \E p \in 1 .. n : t[p].command = "EventStream" /\ t[p].id = k
    BY <1>1 DEF Numbered, n
  <1>4. ASSUME NEW p \in 1 .. Len(t), t[p].command = "EventStream"
        PROVE  /\ t[p].id \in first .. last + 1
               /\ \A k \in first .. t[p].id :
                     \E q \in 1 .. p : t[q].command = "EventStream" /\ t[q].id = k
    <2>1. CASE p = n + 1
      <3>1. t[p].id = last + 1 /\ t[p].command = "EventStream"
        BY <1>1, <2>1
      <3>2. ASSUME NEW k \in first .. t[p].id
            PROVE  \E q \in 1 .. p : t[q].command = "EventStream" /\ t[q].id = k
        <4>1. CASE k = last + 1
          BY <1>1, <2>1, <3>1, <4>1
        <4>2. CASE k \in first .. last
          BY <1>1, <1>3, <2>1, <4>2
        <4> QED
          BY <3>1, <4>1, <4>2
      <3> QED
        BY <3>1, <3>2
    <2>2. CASE p \in 1 .. n
      <3>1. t[p] = s[p] /\ s[p].id \in first .. last
        BY <1>1, <1>2, <1>4, <2>2
      <3>2. ASSUME NEW k \in first .. s[p].id
            PROVE  \E q \in 1 .. p : s[q].command = "EventStream" /\ s[q].id = k
        BY <1>4, <2>2, <3>1 DEF Numbered, n
      <3>3. \A q \in 1 .. p : t[q] = s[q]
        BY <1>1, <2>2
      <3>4. t[p].id \in first .. last + 1
        BY <3>1
      <3>5. \A k \in first .. t[p].id :
               \E q \in 1 .. p : t[q].command = "EventStream" /\ t[q].id = k
        BY <3>1, <3>2, <3>3
      <3> QED
        BY <3>4, <3>5
    <2> QED
      BY <1>1, <2>1, <2>2
  <1>5. ASSUME NEW p \in 1 .. Len(t), NEW q \in 1 .. Len(t), p < q,
               t[p].command = "EventStream", t[q].command = "EventStream"
        PROVE  t[p].id < t[q].id
    <2>1. p \in 1 .. n /\ t[p] = s[p] /\ s[p].id \in first .. last
      BY <1>1, <1>2, <1>5
    <2>2. CASE q = n + 1
      BY <1>1, <2>1, <2>2
    <2>3. CASE q \in 1 .. n
      BY <1>1, <1>5, <2>1, <2>3 DEF Numbered, n
    <2> QED
      BY <1>1, <2>2, <2>3
  <1>6. ASSUME NEW k \in first .. last + 1
        PROVE  \E p \in 1 .. Len(t) : t[p].command = "EventStream" /\ t[p].id = k
    <2>1. CASE k = last + 1
      BY <1>1, <2>1
    <2>2. CASE k \in first .. last
      BY <1>1, <1>3, <2>2
    <2> QED
      BY <2>1, <2>2
  <1>7. Numbered(t, first, last + 1, TRUE)
    BY <1>4, <1>5, <1>6 DEF Numbered
  <1> QED
    BY <1>7 DEF t

\* A message that is read was an answer, or the first of the events.
LEMMA NumberedTail ==
    ASSUME NEW s \in Seq(Messages), s # <<>>, NEW first \in Nat, NEW last \in Nat,
           first <= last + 1, NEW whole, Numbered(s, first, last, whole)
    PROVE  /\ Head(s).command # "EventStream" => Numbered(Tail(s), first, last, whole)
           /\ Head(s).command = "EventStream" =>
                 /\ Head(s).id = first /\ first <= last
                 /\ Numbered(Tail(s), first + 1, last, whole)
  <1> DEFINE t == Tail(s)
             n == Len(s)
  <1>1. /\ Head(s) = s[1] /\ n \in Nat \ {0} /\ Len(t) = n - 1
        /\ \A p \in 1 .. n - 1 : t[p] = s[p + 1] /\ p + 1 \in 1 .. n
    BY TailOf
  <1> HIDE DEF t, n
  <1> DEFINE f == IF Head(s).command = "EventStream" THEN first + 1 ELSE first
  <1>2. ASSUME s[1].command = "EventStream"
        PROVE  s[1].id = first /\ first <= last
    <2>1. 1 \in 1 .. n /\ s[1].id \in first .. last
      BY <1>1, <1>2 DEF Numbered, n
    <2>2. first \in first .. s[1].id /\ first <= last
      BY <2>1
    <2>3. PICK q \in 1 .. 1 : s[q].id = first
      BY <1>2, <2>1, <2>2 DEF Numbered, n
    <2> QED
      BY <2>2, <2>3
  <1>3. ASSUME NEW p \in 1 .. n, s[p].command = "EventStream", p # 1
        PROVE  s[p].id \in f .. last
    <2>1. s[p].id \in first .. last
      BY <1>3 DEF Numbered, n
    <2>2. s[1].command = "EventStream" => s[1].id < s[p].id
      BY <1>1, <1>3 DEF Numbered, n
    <2> QED
      BY <1>1, <1>2, <2>1, <2>2
  <1>4. ASSUME NEW k \in f .. last, NEW p \in 1 .. n, NEW q \in 1 .. p,
               s[q].command = "EventStream", s[q].id = k
        PROVE  q # 1 /\ q - 1 \in 1 .. p - 1 /\ q - 1 \in 1 .. n - 1 /\ t[q - 1] = s[q]
    <2>1. q # 1
      BY <1>1, <1>2, <1>4
    <2> QED
      BY <1>1, <1>4, <2>1
  <1>5. ASSUME NEW p \in 1 .. Len(t), t[p].command = "EventStream"
        PROVE  /\ t[p].id \in f .. last
               /\ \A k \in f .. t[p].id :
                     \E q \in 1 .. p : t[q].command = "EventStream" /\ t[q].id = k
    <2>1. p + 1 \in 1 .. n /\ p + 1 # 1 /\ t[p] = s[p + 1] /\ (p + 1) - 1 = p
      BY <1>1
    <2>2. s[p + 1].id \in f .. last
      BY <1>3, <1>5, <2>1
    <2>3. ASSUME NEW k \in f .. s[p + 1].id
          PROVE  \E q \in 1 .. p : t[q].command = "EventStream" /\ t[q].id = k
      <3>1. k \in first .. s[p + 1].id /\ k \in f .. last
        BY <2>2
      <3>2. PICK q \in 1 .. p + 1 : s[q].command = "EventStream" /\ s[q].id = k
        <4>1. p + 1 \in 1 .. Len(s) /\ s[p + 1].command = "EventStream"
          BY <1>5, <2>1 DEF n
        <4> QED
          BY <3>1, <4>1 DEF Numbered
      <3>3. q \in 1 .. n
        BY <1>1, <2>1, <3>2
      <3>4. q # 1 /\ q - 1 \in 1 .. n - 1 /\ t[q - 1] = s[q]
        BY <1>4, <3>1, <3>2, <3>3
      <3>5. q - 1 \in 1 .. p
        BY <1>1, <2>1, <3>2, <3>4
      <3> QED
        BY <3>2, <3>4, <3>5
    <2> QED
      BY <2>1, <2>2, <2>3
  <1>6. ASSUME NEW p \in 1 .. Len(t), NEW q \in 1 .. Len(t), p < q,
               t[p].command = "EventStream", t[q].command = "EventStream"
        PROVE  t[p].id < t[q].id
    <2>1. /\ p + 1 \in 1 .. n /\ q + 1 \in 1 .. n /\ p + 1 < q + 1
          /\ t[p] = s[p + 1] /\ t[q] = s[q + 1]
      BY <1>1, <1>6
    <2> QED
      BY <1>6, <2>1 DEF Numbered, n
  <1>7. ASSUME whole, NEW k \in f .. last
        PROVE  \E p \in 1 .. Len(t) : t[p].command = "EventStream" /\ t[p].id = k
    <2>1. k \in first .. last
      OBVIOUS
    <2>2. PICK q \in 1 .. n : s[q].command = "EventStream" /\ s[q].id = k
      BY <1>7, <2>1 DEF Numbered, n
    <2>3. q - 1 \in 1 .. n - 1 /\ t[q - 1] = s[q]
      BY <1>4, <2>2
    <2> QED
      BY <1>1, <2>2, <2>3
  <1>8. Numbered(t, f, last, whole)
    <2> HIDE DEF f
    <2> QED
      BY <1>5, <1>6, <1>7 DEF Numbered
  <1> QED
    BY <1>1, <1>2, <1>8 DEF t

\* What is left of a wire that was cut off.
LEMMA NumberedCut ==
    ASSUME NEW s \in Seq(Messages), NEW n \in 0 .. Len(s), NEW first, NEW last, NEW whole,
           Numbered(s, first, last, whole)
    PROVE  Numbered(SubSeq(s, 1, n), first, last, FALSE)
  <1> DEFINE t == SubSeq(s, 1, n)
  <1>1. Len(s) \in Nat /\ Len(t) = n /\ \A p \in 1 .. n : t[p] = s[p] /\ p \in 1 .. Len(s)
    OBVIOUS
  <1> HIDE DEF t
  <1>2. ASSUME NEW p \in 1 .. n, t[p].command = "EventStream", NEW k \in first .. t[p].id
        PROVE  \E q \in 1 .. p : t[q].command = "EventStream" /\ t[q].id = k
    <2>1. PICK q \in 1 .. p : s[q].command = "EventStream" /\ s[q].id = k
      BY <1>1, <1>2 DEF Numbered
    <2> QED
      BY <1>1, <2>1
  <1>3. Numbered(t, first, last, FALSE)
    BY <1>1, <1>2 DEF Numbered
  <1> QED
    BY <1>3 DEF t

\* Numbers in a range are in every larger one.
LEMMA NumberedWeaker ==
    ASSUME NEW s, NEW first, NEW last, NEW whole, NEW less, less => whole,
           Numbered(s, first, last, whole)
    PROVE  Numbered(s, first, last, less)
  BY DEF Numbered

\* The steps of the client that read nothing, as far as the events are concerned.
LEMMA QuietStep ==
    ASSUME TypeOK, CoreInv, [Next]_vars, ~Reader, ~(\E id \in Ids : ServerAnswers(id)),
           ~ServerStreams, ~ServerGoes
    PROVE  /\ asked' = asked \/ \E command \in AllCommands : Push(command)
           /\ UNCHANGED <<given, sink, verdict, answered, streaming, emitted, wire, mode>>
           /\ UNCHANGED <<shown, channel>> \/ MainShows
           /\ server' = "open" => server = "open"
           /\ server' = server \/ (server' = "eof" /\ server = "open")
  <1>1. CASE MainAsks
    BY <1>1, ScriptHead DEF MainAsks, readerVars, serverVars
  <1>2. CASE MainFlow /\ ~MainAsks
    <2>1. CASE MainSubscribes
      BY <2>1 DEF MainSubscribes, AllCommands, readerVars, serverVars
    <2>2. CASE ~MainSubscribes
      BY <1>2, <2>2 DEF MainFlow, MainFlushes, MainRegisters, MainIsNotified,
         MainFlushesSubscription, MainIsSubscribed, Close, mainVars, writerVars,
         readerVars, serverVars
    <2> QED
      BY <2>1, <2>2
  <1>3. CASE \/ MainCloses \/ MainFails \/ MainTakesVerdict \/ MainInterrupted
             \/ ShutdownTaskCloses \/ MainShows \/ UNCHANGED vars
    BY <1>3 DEF MainCloses, MainFails, MainTakesVerdict, MainInterrupted, MainShows,
       ShutdownTaskCloses, Close, mainVars, writerVars, readerVars, serverVars, vars
  <1>4. ASSUME NEW t \in Tasks, TaskAsks(t)
        PROVE  /\ \E command \in AllCommands : Push(command)
               /\ UNCHANGED <<mainVars, readerVars, serverVars>>
    BY <1>4 DEF TaskAsks, AllCommands
  <1>5. ASSUME NEW t \in Tasks, TaskLocks(t) \/ TaskFlushes(t) \/ TaskAborts(t)
        PROVE  asked' = asked /\ UNCHANGED <<mainVars, readerVars, serverVars>>
    BY <1>5 DEF TaskLocks, TaskFlushes, TaskAborts, Flush, writerVars
  <1>6. CASE \E t \in Tasks : Task(t)
    BY <1>4, <1>5, <1>6 DEF Task, mainVars, readerVars, serverVars
  <1>7. CASE ServerReads \/ ServerCloses
    BY <1>7 DEF ServerReads, ServerCloses, mainVars, writerVars, readerVars
  <1> QED
    BY <1>1, <1>2, <1>3, <1>6, <1>7 DEF Next, Terminated

\* Every step keeps the sink in place.
LEMMA SinkStep ==
    ASSUME TypeOK, CoreInv, StreamInv, [Next]_vars
    PROVE  SinkInPlace'
  <1> USE DEF StreamInv
  <1>1. ASSUME ReaderEnds PROVE SinkInPlace'
    <2>1. /\ sink' = "none" /\ verdict' # "none" /\ wire = <<>> /\ server # "open"
          /\ UNCHANGED <<asked, given, answered, streaming, emitted, wire, server>>
      BY <1>1 DEF ReaderEnds, EndOfStream, writerVars, serverVars
    <2>2. done' = done
      BY <2>1 DEF done, Server!Answered
    <2>3. ~(\E p \in 1 .. Len(wire') : TRUE)
      BY <2>1
    <2> QED
      BY <2>1, <2>2, <2>3 DEF SinkInPlace
  <1>2. ASSUME ServerGoes PROVE SinkInPlace'
    <2>1. /\ server = "open" /\ server' # "open"
          /\ UNCHANGED <<asked, given, sink, verdict, answered, streaming, emitted>>
          /\ \/ wire' = wire
             \/ \E n \in 0 .. Len(wire) : wire' = SubSeq(wire, 1, n)
      BY <1>2 DEF ServerGoes, writerVars, readerVars
    <2>2. wire \in Seq(Messages) /\ Len(wire) \in Nat
      BY DEF TypeOK
    <2>3. PICK n \in 0 .. Len(wire) :
             Len(wire') = n /\ \A p \in 1 .. n : wire'[p] = wire[p]
      BY <2>1, <2>2
    <2>4. ASSUME NEW p \in 1 .. Len(wire'), wire'[p].command = "EventStream", sink = "none"
          PROVE  \E q \in 1 .. p - 1 : wire'[q].command = "Events"
      <3>1. p \in 1 .. n /\ p \in 1 .. Len(wire) /\ wire[p].command = "EventStream"
        BY <2>3, <2>4
      <3>2. PICK q \in 1 .. p - 1 : wire[q].command = "Events"
        BY <2>4, <3>1 DEF SinkInPlace
      <3> QED
        BY <2>3, <3>1, <3>2
    <2>5. done' = done /\ verdict = "none"
      BY <2>1 DEF done, Server!Answered, SinkInPlace
    <2> QED
      BY <2>1, <2>4, <2>5 DEF SinkInPlace
  <1>3. ASSUME ~Reader, ~(\E id \in Ids : ServerAnswers(id)), ~ServerStreams, ~ServerGoes
        PROVE  SinkInPlace'
    BY <1>3, QuietStep, SinkSame
  <1> QED
    BY <1>1, <1>2, <1>3, SinkAnswered, SinkForwarded, SinkServerAnswers, SinkServerStreams
    DEF Reader

\* Every step keeps the events in order.
LEMMA EventsStep ==
    ASSUME TypeOK, CoreInv, StreamInv, [Next]_vars
    PROVE  EventsNumbered'
  <1> USE DEF StreamInv
  <1>0. /\ TakenInOrder /\ Numbered(wire, Taken + 1, emitted, server # "cut")
        /\ Taken <= emitted
        /\ Len(shown) \in Nat /\ Len(channel) \in Nat /\ Taken \in Nat
        /\ emitted \in Nat /\ wire \in Seq(Messages)
        /\ Taken + 1 \in Nat /\ Taken + 1 <= emitted + 1
    BY TakenType DEF EventsNumbered, TypeOK
  <1>1. ASSUME MainShows PROVE EventsNumbered'
    <2>1. /\ channel # <<>> /\ channel \in Seq(1 .. MaxEvents) /\ shown \in Seq(1 .. MaxEvents)
          /\ shown' = Append(shown, Head(channel)) /\ channel' = Tail(channel)
          /\ UNCHANGED <<sink, mode, wire, emitted, server>>
      BY <1>1 DEF MainShows, TypeOK, mainVars, serverVars
    <2>2. /\ Head(channel) = channel[1] /\ Len(channel) >= 1
          /\ Len(channel') = Len(channel) - 1
          /\ \A i \in 1 .. Len(channel) - 1 : channel'[i] = channel[i + 1]
      BY <2>1, TailOf
    <2>3. /\ Len(shown') = Len(shown) + 1 /\ shown'[Len(shown) + 1] = channel[1]
          /\ \A i \in 1 .. Len(shown) : shown'[i] = shown[i]
      BY <2>1, <2>2, TailOf, AppendProperties
    <2>4. channel[1] = Len(shown) + 1
      BY <1>0, <2>2 DEF TakenInOrder
    <2>5. Taken' = Taken
      BY <1>0, <2>2, <2>3 DEF Taken
    <2>6. \A i \in 1 .. Len(shown') : shown'[i] = i
      BY <1>0, <2>3, <2>4 DEF TakenInOrder
    <2>7. \A i \in 1 .. Len(channel') : channel'[i] = Len(shown') + i
      <3> SUFFICES ASSUME NEW i \in 1 .. Len(channel')
                   PROVE  channel'[i] = Len(shown') + i
        OBVIOUS
      <3>1. i + 1 \in 1 .. Len(channel) /\ channel'[i] = channel[i + 1]
        BY <1>0, <2>2
      <3>2. channel[i + 1] = Len(shown) + (i + 1)
        BY <1>0, <3>1 DEF TakenInOrder
      <3> QED
        BY <1>0, <2>3, <3>1, <3>2
    <2>8. TakenInOrder'
      BY <1>0, <2>1, <2>6, <2>7 DEF TakenInOrder, SinkOfMode
    <2> QED
      BY <1>0, <2>1, <2>5, <2>8 DEF EventsNumbered
  <1>2. ASSUME ReaderAnswers PROVE EventsNumbered'
    <2>1. /\ wire # <<>> /\ Head(wire).command # "EventStream" /\ wire' = Tail(wire)
          /\ sink' = sink \/ sink' = SinkOfMode \/ sink' = "none"
          /\ UNCHANGED <<mode, shown, channel, emitted, server>>
      BY <1>2, AnswerEffect DEF mainVars
    <2>2. Numbered(wire', Taken + 1, emitted, server # "cut")
      BY <1>0, <2>1, NumberedTail
    <2>3. Taken' = Taken /\ TakenInOrder'
      BY <1>0, <2>1 DEF Taken, TakenInOrder, SinkOfMode
    <2> QED
      BY <1>0, <2>1, <2>2, <2>3 DEF EventsNumbered
  <1>3. ASSUME ReaderForwards PROVE EventsNumbered'
    <2>1. /\ wire # <<>> /\ Head(wire).command = "EventStream" /\ wire' = Tail(wire)
          /\ channel' = IF sink = "channel" THEN Append(channel, Head(wire).id) ELSE channel
          /\ shown' = IF sink = "function" THEN Append(shown, Head(wire).id) ELSE shown
          /\ UNCHANGED <<mode, sink, emitted, server>>
      BY <1>3 DEF ReaderForwards, Incoming, mainVars
    <2>2. /\ Head(wire).id = Taken + 1 /\ Taken + 1 <= emitted
          /\ Numbered(wire', (Taken + 1) + 1, emitted, server # "cut")
      BY <1>0, <2>1, NumberedTail
    <2>3. sink # "none"
      <3>1. Head(wire) = wire[1] /\ 1 \in 1 .. Len(wire)
        BY <1>0, <2>1, TailOf
      <3>2. sink # "none" \/ \E q \in 1 .. 1 - 1 : wire[q].command = "Events"
        BY <2>1, <3>1 DEF SinkInPlace
      <3> QED
        BY <3>2
    <2>4. channel \in Seq(Nat) /\ shown \in Seq(Nat) /\ Head(wire).id \in Nat
      <3>1. channel \in Seq(1 .. MaxEvents) /\ shown \in Seq(1 .. MaxEvents)
        BY DEF TypeOK
      <3>2. 1 .. MaxEvents \subseteq Nat
        OBVIOUS
      <3> QED
        BY <1>0, <2>2, <3>1, <3>2, SeqMonotonic
    <2>5. CASE sink = "channel"
      <3>1. /\ shown' = shown /\ Len(channel') = Len(channel) + 1 /\ channel' # <<>>
            /\ channel'[Len(channel) + 1] = Head(wire).id
            /\ \A i \in 1 .. Len(channel) : channel'[i] = channel[i]
        BY <2>1, <2>4, <2>5, AppendProperties
      <3>2. mode = "interactive"
        BY <1>0, <2>5 DEF TakenInOrder, SinkOfMode
      <3>3. ASSUME NEW i \in 1 .. Len(channel')
            PROVE  channel'[i] = Len(shown) + i
        <4>1. CASE i \in 1 .. Len(channel)
          BY <1>0, <3>1, <4>1 DEF TakenInOrder
        <4>2. CASE i = Len(channel) + 1
          BY <1>0, <2>2, <3>1, <4>2 DEF Taken
        <4> QED
          BY <1>0, <3>1, <4>1, <4>2
      <3>4. Taken' = Taken + 1
        BY <1>0, <3>1 DEF Taken
      <3>5. TakenInOrder'
        BY <1>0, <2>1, <3>1, <3>2, <3>3 DEF TakenInOrder, SinkOfMode
      <3> QED
        BY <1>0, <2>1, <2>2, <3>4, <3>5 DEF EventsNumbered
    <2>6. CASE sink = "function"
      <3>1. /\ channel' = channel /\ Len(shown') = Len(shown) + 1
            /\ shown'[Len(shown) + 1] = Head(wire).id
            /\ \A i \in 1 .. Len(shown) : shown'[i] = shown[i]
        BY <2>1, <2>4, <2>6, AppendProperties
      <3>2. channel = <<>> /\ Len(channel) = 0
        BY <1>0, <2>6 DEF TakenInOrder, SinkOfMode
      <3>3. \A i \in 1 .. Len(shown') : shown'[i] = i
        BY <1>0, <2>2, <3>1, <3>2 DEF TakenInOrder, Taken
      <3>4. Taken' = Taken + 1
        BY <1>0, <3>1 DEF Taken
      <3>5. \A i \in 1 .. Len(channel') : channel'[i] = Len(shown') + i
        BY <3>1, <3>2
      <3>6. TakenInOrder'
        BY <1>0, <2>1, <3>1, <3>2, <3>3, <3>5 DEF TakenInOrder, SinkOfMode
      <3> QED
        BY <1>0, <2>1, <2>2, <3>4, <3>6 DEF EventsNumbered
    <2> QED
      BY <2>3, <2>5, <2>6 DEF TypeOK
  <1>4. ASSUME ReaderEnds PROVE EventsNumbered'
    <2>1. sink' = "none" /\ UNCHANGED <<mode, shown, channel, emitted, server, wire>>
      BY <1>4 DEF ReaderEnds, mainVars, serverVars
    <2>2. Taken' = Taken /\ TakenInOrder'
      BY <1>0, <2>1 DEF Taken, TakenInOrder
    <2> QED
      BY <1>0, <2>1, <2>2 DEF EventsNumbered
  <1>5. ASSUME NEW id \in Ids, ServerAnswers(id) PROVE EventsNumbered'
    <2> DEFINE answer == [command |-> asked[id], id |-> id]
    <2>1. /\ asked[id] \in AllCommands /\ answer \in Messages /\ wire' = Append(wire, answer)
          /\ UNCHANGED <<mode, sink, shown, channel, emitted, server>>
      BY <1>5, ServerAnswersEffect DEF mainVars, readerVars
    <2>2. answer.command # "EventStream"
      BY <2>1, NoSuchCommand
    <2> HIDE DEF answer
    <2>3. Numbered(wire', Taken + 1, emitted, server # "cut")
      BY <1>0, <2>1, <2>2, NumberedAnswer
    <2>4. Taken' = Taken /\ TakenInOrder'
      BY <1>0, <2>1 DEF Taken, TakenInOrder, SinkOfMode
    <2> QED
      BY <1>0, <2>1, <2>3, <2>4 DEF EventsNumbered
  <1>6. ASSUME ServerStreams PROVE EventsNumbered'
    <2> DEFINE event == [command |-> "EventStream", id |-> emitted + 1]
    <2>1. /\ server = "open" /\ emitted < MaxEvents /\ emitted' = emitted + 1
          /\ wire' = Append(wire, event)
          /\ UNCHANGED <<mode, sink, shown, channel, server>>
      BY <1>6 DEF ServerStreams, mainVars, readerVars
    <2>2. event \in Messages
      <3>1. emitted + 1 \in 1 .. MaxEvents
        BY <1>0, <2>1, SandstormClientAssumption
      <3> QED
        BY <3>1 DEF Messages
    <2>3. event.command = "EventStream" /\ event.id = emitted + 1
      OBVIOUS
    <2> HIDE DEF event
    <2>4. Numbered(wire, Taken + 1, emitted, TRUE)
      BY <1>0, <2>1, NumberedWeaker
    <2>5. Numbered(wire', Taken + 1, emitted + 1, TRUE)
      BY <1>0, <2>1, <2>2, <2>3, <2>4, NumberedEvent
    <2>6. Numbered(wire', Taken + 1, emitted + 1, server # "cut")
      BY <2>5, NumberedWeaker
    <2>7. Taken' = Taken /\ TakenInOrder'
      BY <1>0, <2>1 DEF Taken, TakenInOrder, SinkOfMode
    <2> QED
      BY <1>0, <2>1, <2>6, <2>7 DEF EventsNumbered
  <1>7. ASSUME ServerGoes PROVE EventsNumbered'
    <2>1. /\ UNCHANGED <<mode, sink, shown, channel, emitted>>
          /\ \/ server' = "eof" /\ server = "open" /\ wire' = wire
             \/ /\ server' = "cut"
                /\ \E n \in 0 .. Len(wire) : wire' = SubSeq(wire, 1, n)
      BY <1>7 DEF ServerGoes, mainVars, readerVars
    <2>2. Taken' = Taken /\ TakenInOrder'
      BY <1>0, <2>1 DEF Taken, TakenInOrder, SinkOfMode
    <2>3. Numbered(wire', Taken + 1, emitted, server' # "cut")
      <3>1. CASE server' = "eof" /\ server = "open" /\ wire' = wire
        BY <1>0, <3>1, NumberedWeaker
      <3>2. CASE server' = "cut" /\ \E n \in 0 .. Len(wire) : wire' = SubSeq(wire, 1, n)
        <4>1. Numbered(wire', Taken + 1, emitted, FALSE)
          BY <1>0, <3>2, NumberedCut
        <4> QED
          BY <3>2, <4>1, NumberedWeaker
      <3> QED
        BY <2>1, <3>1, <3>2
    <2> QED
      BY <1>0, <2>1, <2>2, <2>3 DEF EventsNumbered
  <1>8. ASSUME ~Reader, ~(\E id \in Ids : ServerAnswers(id)), ~ServerStreams, ~ServerGoes,
               ~MainShows
        PROVE  EventsNumbered'
    <2>1. /\ UNCHANGED <<sink, emitted, wire, mode, shown, channel>>
          /\ server' = server \/ (server' = "eof" /\ server = "open")
      BY <1>8, QuietStep
    <2>2. Taken' = Taken /\ TakenInOrder'
      BY <1>0, <2>1 DEF Taken, TakenInOrder, SinkOfMode
    <2>3. Numbered(wire', Taken + 1, emitted, server' # "cut")
      BY <1>0, <2>1, NumberedWeaker
    <2> QED
      BY <1>0, <2>1, <2>2, <2>3 DEF EventsNumbered
  <1> QED
    BY <1>1, <1>2, <1>3, <1>4, <1>5, <1>6, <1>7, <1>8 DEF Reader

-----------------------------------------------------------------------------
(* The invariant                                                           *)

\* Initially nothing has been asked, answered or streamed.
LEMMA InitIInv == Init => IInv
  <1> SUFFICES ASSUME Init
               PROVE  IInv
    OBVIOUS
  <1> USE DEF Init
  <1>1. /\ Len(asked) = 0 /\ Len(wire) = 0 /\ Len(read) = 0
        /\ Len(shown) = 0 /\ Len(channel) = 0
        /\ \A k \in AllCommands : Len(handlers[k]) = 0
    BY DEF read
  <1>2. TypeOK
    <2>1. script \in Seq(Commands \cup {"Shutdown"})
      <3>1. PICK n \in 0 .. MaxScript : script \in [1 .. n -> Commands \cup {"Shutdown"}]
        OBVIOUS
      <3>2. n \in Nat
        OBVIOUS
      <3> QED
        BY <3>1, <3>2, SeqDef
    <2>2. /\ lock \in Seq(Tasks) /\ IsInjective(lock)
          /\ asked \in Seq(AllCommands) /\ wire \in Seq(Messages)
          /\ channel \in Seq(1 .. MaxEvents) /\ shown \in Seq(1 .. MaxEvents)
      BY DEF IsInjective
    <2>3. handlers \in [AllCommands -> Seq(Ids)] /\ given \in [Ids -> Ids \cup {0}]
      OBVIOUS
    <2>4. /\ received \in [{"client"} -> Seq([command : AllCommands, class : {ClassOf[k] : k \in AllCommands}])]
          /\ answered \in [{"client"} -> Seq(Ids)]
      OBVIOUS
    <2>5. /\ 0 \in 0 .. MaxRequests /\ 0 \in 0 .. MaxEvents /\ 0 \in 0 .. 0
          /\ 0 <= MaxRequests /\ 0 <= ChannelCap
      BY SandstormClientAssumption
    <2>6. MainType
      BY <2>1 DEF MainType
    <2>7. TaskType
      BY <2>2 DEF TaskType
    <2>8. RequestType
      BY <1>1, <2>2, <2>3, <2>5 DEF RequestType
    <2>9. ReaderType
      BY <1>1, <2>2, <2>3, <2>5 DEF ReaderType
    <2>10. ServerType
      BY <2>2, <2>4, <2>5 DEF ServerType
    <2> QED
      BY <2>6, <2>7, <2>8, <2>9, <2>10, TypeParts
  <1>3. CoreInv
    <2>1. HandlersWait /\ ReadTrue /\ WireAnswers /\ WireOrdered
      BY <1>1 DEF HandlersWait, ReadTrue, WireAnswers, WireOrdered
    <2>2. GivenTrue
      BY DEF GivenTrue
    <2>3. done = {}
      BY DEF done, Server!Answered
    <2>4. NothingLost
      BY <2>3 DEF NothingLost
    <2>5. RemainingExact
      <3>1. {id \in 1 .. Len(asked) : given[id] = 0} = {}
        BY <1>1
      <3>2. Cardinality({}) = 0
        BY FS_EmptySet
      <3> QED
        BY <3>1, <3>2 DEF RemainingExact
    <2> QED
      BY <2>1, <2>2, <2>4, <2>5 DEF CoreInv
  <1>4. PhaseInv
    BY DEF PhaseInv
  <1>5. StreamInv
    <2>1. SubscribesOnce /\ SinkInPlace
      BY <1>1 DEF SubscribesOnce, SinkInPlace
    <2>2. TakenInOrder /\ Taken = 0
      BY <1>1 DEF TakenInOrder, Taken
    <2>3. Numbered(wire, Taken + 1, emitted, server # "cut")
      BY <1>1, <2>2 DEF Numbered
    <2> QED
      BY <2>1, <2>2, <2>3 DEF StreamInv, EventsNumbered
  <1> QED
    BY <1>2, <1>3, <1>4, <1>5 DEF IInv

\* Every step keeps the invariant.
LEMMA StepIInv == IInv /\ [Next]_vars => IInv'
  BY CoreStep, TypeStep, PhaseStep, OnceStep, SinkStep, EventsStep DEF IInv, StreamInv

\* So it always holds.
LEMMA Invariance == Spec => []IInv
  BY InitIInv, StepIInv, PTL DEF Spec

-----------------------------------------------------------------------------
(* What follows from it                                                    *)

\* Every answer goes to the handler of its own request and remaining counts the
\* requests whose answer is awaited, whatever is asked, in whatever interleaving of
\* the tasks, and however the server's answers overtake each other.
THEOREM AnswersReachTheirHandlers == Spec => []ClientInv
  <1>1. IInv => ClientInv
    BY DEF IInv, ClientInv, CoreInv, GivenTrue, HandlersGetOwnAnswers, TypeOK
  <1> QED
    BY <1>1, Invariance, PTL

\* flush_and_wait returns only when everything asked before it is answered.
THEOREM FlushWaitsForAnswers == Spec => []FlushReturnsAnswered
  <1>1. ASSUME IInv, main = "subscribe", NEW id \in 1 .. Len(asked)
        PROVE  given[id] = id
    <2>1. Cardinality(Waiting) = 0
      BY <1>1, RemainingIsWaiting DEF IInv, CoreInv, PhaseInv
    <2>2. given[id] # 0
      BY <1>1, <2>1, WaitingFinite DEF Waiting, IInv
    <2>3. id \in Ids
      BY <1>1, SandstormClientAssumption DEF IInv, TypeOK, Ids
    <2> QED
      BY <1>1, <2>2, <2>3 DEF IInv, CoreInv, GivenTrue
  <1>2. IInv => FlushReturnsAnswered
    BY <1>1 DEF FlushReturnsAnswered
  <1> QED
    BY <1>2, Invariance, PTL

\* The events on the wire are as many as their numbers.
LEMMA EventsOnWireCounted ==
    ASSUME TypeOK, EventsNumbered, server # "cut"
    PROVE  Taken + Cardinality(EventsOnWire) = emitted
  <1> DEFINE numbers == Taken + 1 .. emitted
             number == [p \in EventsOnWire |-> wire[p].id]
  <1>1. Taken \in Nat /\ emitted \in Nat /\ Len(wire) \in Nat /\ Taken <= emitted
    BY TakenType DEF EventsNumbered
  <1>2. Numbered(wire, Taken + 1, emitted, TRUE)
    BY NumberedWeaker DEF EventsNumbered
  <1>3. number \in [EventsOnWire -> numbers]
    BY <1>2 DEF Numbered, EventsOnWire
  <1>4. ASSUME NEW p \in EventsOnWire, NEW q \in EventsOnWire, number[p] = number[q]
        PROVE  p = q
    <2>1. wire[p].id = wire[q].id /\ wire[p].id \in numbers /\ p \in Int /\ q \in Int
      BY <1>2, <1>4 DEF Numbered, EventsOnWire
    <2>2. (p < q => wire[p].id < wire[q].id) /\ (q < p => wire[q].id < wire[p].id)
      BY <1>2 DEF Numbered, EventsOnWire
    <2> QED
      BY <1>1, <2>1, <2>2
  <1>5. ASSUME NEW n \in numbers
        PROVE  \E p \in EventsOnWire : number[p] = n
    BY <1>2 DEF Numbered, EventsOnWire
  <1>6. number \in Bijection(EventsOnWire, numbers)
    BY <1>3, <1>4, <1>5 DEF Bijection, Injection, IsInjective, Surjection
  <1>7. IsFiniteSet(EventsOnWire)
    <2>1. EventsOnWire \subseteq 1 .. Len(wire) /\ IsFiniteSet(1 .. Len(wire))
      BY <1>1, FS_Interval DEF EventsOnWire
    <2> QED
      BY <2>1, FS_Subset
  <1>8. Cardinality(numbers) = Cardinality(EventsOnWire)
    BY <1>6, <1>7, FS_Bijection DEF ExistsBijection
  <1>9. Cardinality(numbers) = emitted - Taken
    <2>1. Taken + 1 \in Int /\ emitted \in Int
      BY <1>1
    <2>2. Cardinality(numbers) = IF Taken + 1 > emitted THEN 0 ELSE emitted - (Taken + 1) + 1
      BY <2>1, FS_Interval
    <2> QED
      BY <1>1, <2>2
  <1> QED
    BY <1>1, <1>8, <1>9

\* No event is lost, repeated or reordered between the wire and the screen, for any
\* capacity of the channel and any number of events.
THEOREM EventsComeThrough == Spec => []EventsAllShown
  <1>1. ASSUME IInv
        PROVE  EventsAllShown
    <2> DEFINE taken == shown \o channel
    <2>1. /\ shown \in Seq(1 .. MaxEvents) /\ channel \in Seq(1 .. MaxEvents)
          /\ Len(shown) \in Nat /\ Len(channel) \in Nat
      BY <1>1, TakenType DEF IInv, TypeOK
    <2>2. /\ taken \in Seq(1 .. MaxEvents) /\ Len(taken) = Taken
          /\ \A i \in 1 .. Taken :
                taken[i] = IF i <= Len(shown) THEN shown[i] ELSE channel[i - Len(shown)]
      BY <2>1, ConcatProperties DEF Taken
    <2> HIDE DEF taken
    <2>3. ASSUME NEW i \in 1 .. Taken
          PROVE  taken[i] = i
      <3>1. CASE i <= Len(shown)
        BY <1>1, <2>1, <2>2, <3>1 DEF IInv, StreamInv, EventsNumbered, TakenInOrder
      <3>2. CASE i > Len(shown)
        <4>1. i - Len(shown) \in 1 .. Len(channel)
          BY <2>1, <3>2 DEF Taken
        <4>2. channel[i - Len(shown)] = Len(shown) + (i - Len(shown))
          BY <1>1, <4>1 DEF IInv, StreamInv, EventsNumbered, TakenInOrder
        <4> QED
          BY <2>1, <2>2, <3>2, <4>2
      <3> QED
        BY <2>1, <3>1, <3>2
    <2>4. DOMAIN taken = 1 .. Taken
      BY <2>2
    <2>5. server # "cut" => Taken + Cardinality(EventsOnWire) = emitted
      BY <1>1, EventsOnWireCounted DEF IInv, StreamInv
    <2> QED
      BY <2>2, <2>3, <2>4, <2>5 DEF EventsAllShown, taken
  <1> QED
    BY <1>1, Invariance, PTL

\* The handlers of one command are different requests, so they can be counted.
LEMMA HandlersCounted ==
    ASSUME TypeOK, CoreInv, NEW k \in AllCommands
    PROVE  Cardinality({id \in Waiting : asked[id] = k}) = Len(handlers[k])
  <1> DEFINE mine == {id \in Waiting : asked[id] = k}
             queue == handlers[k]
  <1>1. queue \in Seq(Ids) /\ Len(queue) \in Nat /\ queue \in [1 .. Len(queue) -> Ids]
    BY LenProperties DEF TypeOK
  <1>2. /\ \A i, j \in 1 .. Len(queue) : i < j => queue[i] < queue[j]
        /\ \A i \in 1 .. Len(queue) : queue[i] \in mine
        /\ \A id \in mine : \E i \in 1 .. Len(queue) : queue[i] = id
    BY DEF CoreInv, HandlersWait, Waiting
  <1> HIDE DEF mine, queue
  <1>3. queue \in [1 .. Len(queue) -> mine]
    BY <1>1, <1>2
  <1>4. ASSUME NEW i \in 1 .. Len(queue), NEW j \in 1 .. Len(queue), queue[i] = queue[j]
        PROVE  i = j
    <2>1. queue[i] \in Int /\ queue[j] \in Int
      BY <1>1 DEF Ids
    <2> QED
      BY <1>1, <1>2, <1>4, <2>1
  <1>5. queue \in Bijection(1 .. Len(queue), mine)
    BY <1>2, <1>3, <1>4 DEF Bijection, Injection, IsInjective, Surjection
  <1>6. IsFiniteSet(1 .. Len(queue)) /\ Cardinality(1 .. Len(queue)) = Len(queue)
    BY <1>1, FS_Interval
  <1>7. Cardinality(mine) = Len(queue)
    BY <1>5, <1>6, FS_Bijection DEF ExistsBijection
  <1> QED
    BY <1>7 DEF mine, queue

\* The reader ends well only if all that waits for an answer is a shutdown.
LEMMA GoodEnd ==
    ASSUME IInv, EndOfStream = "ok", NEW id \in 1 .. Len(asked)
    PROVE  given[id] = id \/ asked[id] = "Shutdown"
  <1> DEFINE shutdowns == {r \in Waiting : asked[r] = "Shutdown"}
  <1>1. remaining = Cardinality(Waiting) /\ IsFiniteSet(Waiting)
    BY RemainingIsWaiting, WaitingFinite DEF IInv, CoreInv
  <1>2. Cardinality(shutdowns) = Len(handlers["Shutdown"])
    BY HandlersCounted DEF IInv, AllCommands
  <1>3. remaining = 0 \/ remaining = Len(handlers["Shutdown"])
    BY DEF EndOfStream
  <1>4. Waiting = {} \/ Waiting = shutdowns
    <2>1. CASE remaining = 0
      BY <1>1, <2>1, WaitingFinite DEF IInv
    <2>2. CASE remaining = Len(handlers["Shutdown"])
      <3>1. shutdowns \subseteq Waiting /\ Cardinality(Waiting) = Cardinality(shutdowns)
        BY <1>1, <1>2, <2>2
      <3> QED
        BY <1>1, <3>1, FS_Subset
    <2> QED
      BY <1>3, <2>1, <2>2
  <1>5. given[id] = 0 => asked[id] = "Shutdown"
    BY <1>4 DEF Waiting
  <1>6. id \in Ids
    BY SandstormClientAssumption DEF IInv, TypeOK, Ids
  <1> QED
    BY <1>5, <1>6 DEF IInv, CoreInv, GivenTrue

\* The end of the connection is what the client says it was: a good one only if all
\* but shutdowns was answered, no failure after a good one, and nothing is asked or
\* written once the writer has been shut down.
THEOREM EndIsAsReported == Spec => EndsAsReported
  <1>1. ASSUME IInv, [Next]_vars
        PROVE  [verdict' # verdict =>
                  /\ verdict' # "unexpected"
                  /\ verdict' = "ok" => \A id \in 1 .. Len(asked) :
                                           given[id] = id \/ asked[id] = "Shutdown"]_vars
    <2> SUFFICES ASSUME verdict' # verdict
                 PROVE  /\ verdict' # "unexpected"
                        /\ verdict' = "ok" => \A id \in 1 .. Len(asked) :
                                                 given[id] = id \/ asked[id] = "Shutdown"
      OBVIOUS
    <2>1. ~ReaderAnswers
      BY <1>1, AnswerEffect DEF IInv
    <2>2. ~ReaderForwards /\ ~ServerStreams /\ ~ServerGoes
          /\ ~(\E id \in Ids : ServerAnswers(id))
      BY DEF ReaderForwards, ServerStreams, ServerGoes, ServerAnswers, readerVars
    <2>3. ReaderEnds
      <3>1. ASSUME ~Reader PROVE verdict' = verdict
        BY <1>1, <2>2, <3>1, QuietStep DEF IInv
      <3> QED
        BY <2>1, <2>2, <3>1 DEF Reader
    <2>4. verdict' = IF server = "cut" THEN "broken" ELSE EndOfStream
      BY <2>3 DEF ReaderEnds
    <2>5. verdict' # "unexpected"
      BY <2>4 DEF EndOfStream
    <2>6. verdict' = "ok" => EndOfStream = "ok"
      BY <2>4
    <2> QED
      BY <1>1, <2>5, <2>6, GoodEnd
  <1>2. IInv => CleanEndReported
    BY DEF IInv, PhaseInv, CleanEndReported
  <1>3. ASSUME IInv, [Next]_vars
        PROVE  [ended => asked' = asked /\ sent' = sent]_vars
    <2> SUFFICES ASSUME ended
                 PROVE  asked' = asked /\ sent' = sent
      OBVIOUS
    <2>1. /\ main = "pending" \/ quit = "closed"
          /\ main \notin {"requests", "flushed", "waiting", "subscribe", "subscribing", "streaming"}
          /\ lock = <<>>
      BY <1>3 DEF IInv, PhaseInv
    <2>2. ~MainFlow /\ ~MainCloses
      BY <2>1 DEF MainFlow, MainAsks, MainFlushes, MainRegisters, MainIsNotified,
         MainSubscribes, MainFlushesSubscription, MainIsSubscribed, MainCloses
    <2>3. ~ShutdownTaskCloses
      BY <1>3, <2>1 DEF ShutdownTaskCloses, IInv, PhaseInv
    <2>4. \A t \in Tasks : ~TaskAsks(t) /\ ~TaskFlushes(t)
      BY <2>1 DEF TaskAsks, TaskFlushes, Holds
    <2>5. CASE MainFails \/ MainTakesVerdict \/ MainShows \/ MainInterrupted \/ UNCHANGED vars
      BY <2>5 DEF MainFails, MainTakesVerdict, MainShows, MainInterrupted, writerVars, vars
    <2>6. CASE \E t \in Tasks : TaskLocks(t) \/ TaskAborts(t)
      BY <2>6 DEF TaskLocks, TaskAborts, writerVars
    <2>7. CASE Reader
      BY <2>7 DEF Reader, ReaderAnswers, ReaderForwards, ReaderEnds, writerVars
    <2>8. CASE \/ ServerReads \/ (\E id \in Ids : ServerAnswers(id)) \/ ServerStreams
               \/ ServerCloses \/ ServerGoes
      BY <2>8 DEF ServerReads, ServerAnswers, ServerStreams, ServerCloses, ServerGoes, writerVars
    <2> QED
      BY <1>3, <2>2, <2>3, <2>4, <2>5, <2>6, <2>7, <2>8 DEF Next, Task, Terminated
  <1> QED
    BY <1>1, <1>2, <1>3, Invariance, PTL
    DEF Spec, EndsAsReported, VerdictTrue, NothingAfterClose

=============================================================================
