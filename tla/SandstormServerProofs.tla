------------------------- MODULE SandstormServerProofs -------------------------
(***************************************************************************)
(* Proofs about SandstormServer: its types, that no answer is lost, that   *)
(* it implements Pipeline, and that managers are told the truth.  The      *)
(* inductive invariant, IInv, follows the requests of a connection from    *)
(* the reader through the channel of notifications to the writer, which    *)
(* has handled a first part of them: those are answered, or wait in the    *)
(* queue of their class (InOrder).  For what managers are told, TInv adds  *)
(* where requests about sockets wait, and in which order.                  *)
(***************************************************************************)
EXTENDS SandstormServer, SequenceTheorems, TLAPS

\* How many requests of a connection its writer was notified of,
Notified(c) == IF reader[c] \in {"read", "end"} THEN Len(asked[c]) ELSE Len(asked[c]) - 1

\* how many of these notifications it has taken,
Taken(c) == Notified(c) - Len(responses[c])

\* and how many of those it has done with, the one it waits at left aside.
Handled(c) == IF writer[c].at = "select" THEN Taken(c) ELSE Taken(c) - 1

\* Notifications are taken in the order of the requests.
InTurn(c) ==
    /\ \A i \in 1 .. Len(responses[c]) : responses[c][i] = Taken(c) + i
    /\ writer[c].at # "select" => writer[c].id = Taken(c)
    /\ writer[c].at = "front" => RequestAt(c, writer[c].id).class \in QueueClasses
    /\ writer[c].at \in {"shutdown", "subscribe", "metrics"}
          => RequestAt(c, writer[c].id).class \notin QueueClasses
    /\ closed[c] => responses[c] = <<>> /\ reader[c] = "end"

\* Of a sequence of requests of which the first n are handled, each of these is
\* answered or waits in the queue of its class, where the oldest is the first.
InOrder(requests, waiting, answers, n) ==
    /\ n \in 0 .. Len(requests)
    /\ answers \in Seq(1 .. n)
    /\ waiting \in [QueueClasses -> Seq(1 .. n)]
    /\ \A k \in QueueClasses : \A i \in 1 .. Len(waiting[k]) :
          /\ requests[waiting[k][i]].class = k
          /\ \A j \in 1 .. Len(answers) : answers[j] # waiting[k][i]
          /\ \A j \in 1 .. Len(waiting[k]) : i < j => waiting[k][i] < waiting[k][j]
    /\ \A id \in 1 .. n :
          \/ \E j \in 1 .. Len(answers) : answers[j] = id
          \/ \E k \in QueueClasses : \E i \in 1 .. Len(waiting[k]) : waiting[k][i] = id
    /\ Len(answers) + Len(waiting["socks5"]) + Len(waiting["sandstorm"])
          + Len(waiting["metrics"]) = n

\* What may still be in the writer's buffer was answered, and marks it as dirty.
BufferTrue(c) ==
    /\ unflushed[c] <= Len(answered[c])
    /\ ~dirty[c] => unflushed[c] = 0

ConnectionInv(c) ==
    /\ Len(asked[c]) <= MaxRequests
    /\ InTurn(c)
    /\ InOrder(asked[c], queues[c], answered[c], Handled(c))
    /\ BufferTrue(c)

\* A message is about a request that was asked.
MessagesTrue ==
    \A i \in 1 .. Len(messages) :
        messages[i][2] \in 1 .. Len(asked[messages[i][1]])

IInv ==
    /\ TypeOK
    /\ \A c \in Connections : ConnectionInv(c)
    /\ MessagesTrue
    /\ NoAnswerLost

-----------------------------------------------------------------------------
(* Sequences                                                               *)

\* What remains of a sequence without its first element.
LEMMA TailOf ==
    ASSUME NEW S, NEW s \in Seq(S), s # <<>>
    PROVE  /\ Head(s) = s[1] /\ Head(s) \in S
           /\ Tail(s) \in Seq(S)
           /\ Len(s) \in Nat \ {0}
           /\ Len(Tail(s)) = Len(s) - 1
           /\ \A i \in 1 .. Len(s) - 1 : Tail(s)[i] = s[i + 1]
  BY HeadTailProperties, EmptySeq

\* A sequence of numbers up to n is one of numbers up to n + 1.
LEMMA SeqWider ==
    ASSUME NEW n \in Nat, NEW s \in Seq(1 .. n)
    PROVE  s \in Seq(1 .. n + 1)
  BY SeqMonotonic, 1 .. n \subseteq 1 .. n + 1

-----------------------------------------------------------------------------
(* Requests, queues and answers                                            *)

\* The queues are three.
LEMMA Queues ==
    /\ QueueClasses = {"socks5", "sandstorm", "metrics"}
    /\ SocketClasses = {"socks5", "sandstorm"}
  BY DEF QueueClasses, SocketClasses

\* A request more changes nothing for those before it.
LEMMA OrderAsked ==
    ASSUME NEW S, NEW requests \in Seq(S), NEW r \in S,
           NEW waiting, NEW answers, NEW n, InOrder(requests, waiting, answers, n)
    PROVE  InOrder(Append(requests, r), waiting, answers, n)
  <1> DEFINE more == Append(requests, r)
  <1>1. /\ Len(more) = Len(requests) + 1 /\ Len(requests) \in Nat
        /\ \A i \in 1 .. Len(requests) : more[i] = requests[i]
    BY AppendProperties
  <1> HIDE DEF more
  <1>2. n \in 0 .. Len(more) /\ n \in 0 .. Len(requests)
    BY <1>1 DEF InOrder
  <1>3. ASSUME NEW k \in QueueClasses, NEW i \in 1 .. Len(waiting[k])
        PROVE  more[waiting[k][i]].class = k
    <2>1. waiting[k][i] \in 1 .. n /\ requests[waiting[k][i]].class = k
      BY DEF InOrder
    <2> QED
      BY <1>1, <1>2, <2>1
  <1> QED
    BY <1>2, <1>3 DEF InOrder, more

\* The next request joins the queue of its class.
LEMMA OrderQueued ==
    ASSUME NEW S, NEW requests \in Seq(S), NEW waiting, NEW answers, NEW n,
           InOrder(requests, waiting, answers, n),
           n + 1 <= Len(requests), requests[n + 1].class \in QueueClasses
    PROVE  InOrder(requests, [waiting EXCEPT ![requests[n + 1].class] = Append(@, n + 1)],
                   answers, n + 1)
  <1> DEFINE k == requests[n + 1].class
             now == [waiting EXCEPT ![k] = Append(@, n + 1)]
  <1>1. n \in Nat /\ Len(requests) \in Nat /\ answers \in Seq(1 .. n)
    BY DEF InOrder
  <1>2. \A j \in QueueClasses : waiting[j] \in Seq(1 .. n)
    BY DEF InOrder
  <1>3. /\ waiting[k] \in Seq(1 .. n + 1) /\ answers \in Seq(1 .. n + 1)
        /\ \A j \in QueueClasses : waiting[j] \in Seq(1 .. n + 1)
    BY <1>1, <1>2, SeqWider
  <1>4. /\ now[k] = Append(waiting[k], n + 1)
        /\ \A j \in QueueClasses \ {k} : now[j] = waiting[j]
        /\ now \in [QueueClasses -> Seq(1 .. n + 1)]
    <2>1. waiting \in [QueueClasses -> Seq(1 .. n)]
      BY DEF InOrder
    <2>2. Append(waiting[k], n + 1) \in Seq(1 .. n + 1)
      BY <1>1, <1>3, AppendProperties
    <2> HIDE DEF k
    <2> QED
      BY <1>3, <2>1, <2>2 DEF k
  <1>5. /\ Len(now[k]) = Len(waiting[k]) + 1 /\ Len(waiting[k]) \in Nat
        /\ now[k][Len(waiting[k]) + 1] = n + 1
        /\ \A i \in 1 .. Len(waiting[k]) : now[k][i] = waiting[k][i]
    BY <1>3, <1>4, AppendProperties
  <1>6. k \in QueueClasses /\ requests[n + 1].class = k
    OBVIOUS
  <1> HIDE DEF now, k
  <1>7. ASSUME NEW j \in QueueClasses, NEW i \in 1 .. Len(now[j])
        PROVE  /\ requests[now[j][i]].class = j
               /\ \A m \in 1 .. Len(answers) : answers[m] # now[j][i]
               /\ \A m \in 1 .. Len(now[j]) : i < m => now[j][i] < now[j][m]
    <2>1. CASE j # k
      <3>1. now[j] = waiting[j]
        BY <1>4, <2>1
      <3>2. i \in 1 .. Len(waiting[j])
        BY <3>1
      <3> QED
        BY <3>1, <3>2 DEF InOrder
    <2>2. CASE j = k /\ i = Len(waiting[k]) + 1
      <3>1. \A m \in 1 .. Len(answers) : answers[m] \in 1 .. n
        BY <1>1
      <3> QED
        <4>1. now[j][i] = n + 1 /\ requests[n + 1].class = j
          BY <1>5, <1>6, <2>2
        <4>2. \A m \in 1 .. Len(answers) : answers[m] # n + 1
          BY <1>1, <3>1
        <4>3. Len(now[j]) = i
          BY <1>5, <2>2
        <4>4. \A m \in 1 .. Len(now[j]) : ~(i < m)
          BY <1>5, <2>2, <4>3
        <4> QED
          BY <4>1, <4>2, <4>4
    <2>3. CASE j = k /\ i # Len(waiting[k]) + 1
      <3>1. i \in 1 .. Len(waiting[k]) /\ now[k][i] = waiting[k][i]
        BY <1>5, <2>3
      <3>2. /\ requests[waiting[k][i]].class = k
            /\ \A m \in 1 .. Len(answers) : answers[m] # waiting[k][i]
            /\ \A m \in 1 .. Len(waiting[k]) : i < m => waiting[k][i] < waiting[k][m]
        BY <1>6, <3>1 DEF InOrder
      <3>3. waiting[k][i] \in 1 .. n
        BY <1>2, <1>6, <3>1, ElementOfSeq
      <3>4. ASSUME NEW m \in 1 .. Len(now[k]), i < m
            PROVE  now[k][i] < now[k][m]
        <4>1. CASE m \in 1 .. Len(waiting[k])
          BY <1>5, <3>1, <3>2, <3>4, <4>1
        <4>2. CASE m = Len(waiting[k]) + 1
          BY <1>1, <1>5, <3>1, <3>3, <4>2
        <4> QED
          BY <1>5, <3>4, <4>1, <4>2
      <3> QED
        BY <2>3, <3>1, <3>2, <3>4
    <2> QED
      BY <2>1, <2>2, <2>3
  <1>8. ASSUME NEW id \in 1 .. n + 1
        PROVE  \/ \E j \in 1 .. Len(answers) : answers[j] = id
               \/ \E j \in QueueClasses : \E i \in 1 .. Len(now[j]) : now[j][i] = id
    <2>1. CASE id = n + 1
      BY <1>5, <1>6, <2>1
    <2>2. CASE id \in 1 .. n
      <3>1. CASE \E j \in 1 .. Len(answers) : answers[j] = id
        BY <3>1
      <3>2. CASE \E j \in QueueClasses : \E i \in 1 .. Len(waiting[j]) : waiting[j][i] = id
        <4>1. PICK j \in QueueClasses : \E i \in 1 .. Len(waiting[j]) : waiting[j][i] = id
          BY <3>2
        <4>2. PICK i \in 1 .. Len(waiting[j]) : waiting[j][i] = id
          BY <4>1
        <4>3. i \in 1 .. Len(now[j]) /\ now[j][i] = id
          BY <1>4, <1>5, <4>2
        <4> QED
          BY <4>3
      <3> QED
        BY <2>2, <3>1, <3>2 DEF InOrder
    <2> QED
      BY <1>1, <2>1, <2>2
  <1>9. Len(answers) + Len(now["socks5"]) + Len(now["sandstorm"])
           + Len(now["metrics"]) = n + 1
    <2> DEFINE a == Len(waiting["socks5"])
               b == Len(waiting["sandstorm"])
               c == Len(waiting["metrics"])
               x == Len(answers)
    <2> DEFINE d == Len(now["socks5"])
               e == Len(now["sandstorm"])
               f == Len(now["metrics"])
    <2>1. x + a + b + c = n
      BY DEF InOrder
    <2>2. x \in Nat /\ a \in Nat /\ b \in Nat /\ c \in Nat /\ n \in Nat
      BY <1>1, <1>2, Queues
    <2>3. ASSUME k = "socks5" PROVE x + d + e + f = n + 1
      <3>1. d = a + 1 /\ e = b /\ f = c
        BY <1>4, <1>5, <2>3, Queues
      <3> HIDE DEF a, b, c, d, e, f, x
      <3> QED
        BY <2>1, <2>2, <3>1
    <2>4. ASSUME k = "sandstorm" PROVE x + d + e + f = n + 1
      <3>1. d = a /\ e = b + 1 /\ f = c
        BY <1>4, <1>5, <2>4, Queues
      <3> HIDE DEF a, b, c, d, e, f, x
      <3> QED
        BY <2>1, <2>2, <3>1
    <2>5. ASSUME k = "metrics" PROVE x + d + e + f = n + 1
      <3>1. d = a /\ e = b /\ f = c + 1
        BY <1>4, <1>5, <2>5, Queues
      <3> HIDE DEF a, b, c, d, e, f, x
      <3> QED
        BY <2>1, <2>2, <3>1
    <2>6. x + d + e + f = n + 1
      BY <1>6, <2>3, <2>4, <2>5, Queues
    <2> QED
      BY <2>6
  <1>10. n + 1 \in 0 .. Len(requests)
    BY <1>1
  <1> QED
    BY <1>3, <1>4, <1>7, <1>8, <1>9, <1>10 DEF InOrder, now, k

\* What Pipeline asks of an answer: it is the first, and none of its class is missing.
MayAnswer(requests, answers, id) ==
    /\ id \in 1 .. Len(requests)
    /\ \A j \in 1 .. Len(answers) : answers[j] # id
    /\ \A earlier \in 1 .. Len(requests) :
          /\ \A j \in 1 .. Len(answers) : answers[j] # earlier
          /\ requests[earlier].class = requests[id].class
          => earlier >= id

\* The next request, if its class has no queue, is answered at once.
LEMMA OrderAnsweredNext ==
    ASSUME NEW S, NEW requests \in Seq(S), NEW waiting, NEW answers, NEW n,
           InOrder(requests, waiting, answers, n),
           n + 1 <= Len(requests), requests[n + 1].class \notin QueueClasses
    PROVE  /\ InOrder(requests, waiting, Append(answers, n + 1), n + 1)
           /\ MayAnswer(requests, answers, n + 1)
  <1> DEFINE now == Append(answers, n + 1)
  <1>1. n \in Nat /\ Len(requests) \in Nat /\ answers \in Seq(1 .. n)
    BY DEF InOrder
  <1>2. \A j \in QueueClasses : waiting[j] \in Seq(1 .. n)
    BY DEF InOrder
  <1>3. /\ answers \in Seq(1 .. n + 1)
        /\ \A j \in QueueClasses : waiting[j] \in Seq(1 .. n + 1)
    BY <1>1, <1>2, SeqWider
  <1>4. /\ now \in Seq(1 .. n + 1)
        /\ Len(now) = Len(answers) + 1 /\ Len(answers) \in Nat
        /\ now[Len(answers) + 1] = n + 1
        /\ \A i \in 1 .. Len(answers) : now[i] = answers[i]
    BY <1>1, <1>3, AppendProperties
  <1> HIDE DEF now
  <1>5. waiting \in [QueueClasses -> Seq(1 .. n + 1)]
    BY <1>3 DEF InOrder
  <1>6. ASSUME NEW k \in QueueClasses, NEW i \in 1 .. Len(waiting[k])
        PROVE  /\ requests[waiting[k][i]].class = k
               /\ \A j \in 1 .. Len(now) : now[j] # waiting[k][i]
               /\ \A j \in 1 .. Len(waiting[k]) : i < j => waiting[k][i] < waiting[k][j]
    <2>1. /\ requests[waiting[k][i]].class = k
          /\ \A j \in 1 .. Len(answers) : answers[j] # waiting[k][i]
          /\ \A j \in 1 .. Len(waiting[k]) : i < j => waiting[k][i] < waiting[k][j]
      BY DEF InOrder
    <2>2. waiting[k][i] \in 1 .. n
      BY <1>2, ElementOfSeq
    <2>3. ASSUME NEW j \in 1 .. Len(now) PROVE now[j] # waiting[k][i]
      <3>1. CASE j = Len(answers) + 1
        BY <1>1, <1>4, <2>2, <3>1
      <3>2. CASE j \in 1 .. Len(answers)
        BY <1>4, <2>1, <3>2
      <3> QED
        BY <1>4, <3>1, <3>2
    <2> QED
      BY <2>1, <2>3
  <1>7. ASSUME NEW id \in 1 .. n + 1
        PROVE  \/ \E j \in 1 .. Len(now) : now[j] = id
               \/ \E j \in QueueClasses : \E i \in 1 .. Len(waiting[j]) : waiting[j][i] = id
    <2>1. CASE id = n + 1
      BY <1>4, <2>1
    <2>2. CASE id \in 1 .. n
      <3>1. CASE \E j \in 1 .. Len(answers) : answers[j] = id
        <4>1. PICK j \in 1 .. Len(answers) : answers[j] = id
          BY <3>1
        <4>2. j \in 1 .. Len(now) /\ now[j] = id
          BY <1>4, <4>1
        <4> QED
          BY <4>2
      <3> QED
        BY <2>2, <3>1 DEF InOrder
    <2> QED
      BY <1>1, <2>1, <2>2
  <1>8. Len(now) + Len(waiting["socks5"]) + Len(waiting["sandstorm"])
           + Len(waiting["metrics"]) = n + 1
    <2> DEFINE a == Len(waiting["socks5"])
               b == Len(waiting["sandstorm"])
               c == Len(waiting["metrics"])
               x == Len(answers)
               y == Len(now)
    <2>1. x + a + b + c = n
      BY DEF InOrder
    <2>2. x \in Nat /\ a \in Nat /\ b \in Nat /\ c \in Nat /\ n \in Nat
      BY <1>1, <1>2, Queues
    <2>3. y = x + 1
      BY <1>4
    <2> HIDE DEF a, b, c, x, y
    <2>4. y + a + b + c = n + 1
      BY <2>1, <2>2, <2>3
    <2> QED
      BY <2>4 DEF a, b, c, y
  <1>9. n + 1 \in 0 .. Len(requests)
    BY <1>1
  <1>10. InOrder(requests, waiting, now, n + 1)
    BY <1>4, <1>5, <1>6, <1>7, <1>8, <1>9 DEF InOrder
  <1>11. \A j \in 1 .. Len(answers) : answers[j] # n + 1
    <2>1. \A j \in 1 .. Len(answers) : answers[j] \in 1 .. n
      BY <1>1
    <2> QED
      BY <1>1, <2>1
  <1>12. ASSUME NEW earlier \in 1 .. Len(requests),
                \A j \in 1 .. Len(answers) : answers[j] # earlier,
                requests[earlier].class = requests[n + 1].class
         PROVE  earlier >= n + 1
    <2>1. SUFFICES ASSUME earlier \in 1 .. n PROVE FALSE
      BY <1>1
    <2>2. PICK k \in QueueClasses : \E i \in 1 .. Len(waiting[k]) : waiting[k][i] = earlier
      BY <1>12, <2>1 DEF InOrder
    <2>3. requests[earlier].class = k
      BY <2>2 DEF InOrder
    <2> QED
      BY <1>12, <2>2, <2>3
  <1> QED
    BY <1>9, <1>1, <1>10, <1>11, <1>12 DEF MayAnswer, now

\* Or the first of a queue is answered.
LEMMA OrderAnsweredHead ==
    ASSUME NEW S, NEW requests \in Seq(S), NEW waiting, NEW answers, NEW n,
           InOrder(requests, waiting, answers, n),
           NEW k \in QueueClasses, waiting[k] # <<>>
    PROVE  /\ InOrder(requests, [waiting EXCEPT ![k] = Tail(@)],
                      Append(answers, Head(waiting[k])), n)
           /\ MayAnswer(requests, answers, Head(waiting[k]))
  <1> DEFINE first == Head(waiting[k])
             now == Append(answers, first)
             left == [waiting EXCEPT ![k] = Tail(@)]
  <1>1. n \in 0 .. Len(requests) /\ n \in Nat /\ Len(requests) \in Nat
        /\ answers \in Seq(1 .. n)
    BY DEF InOrder
  <1>2. \A j \in QueueClasses : waiting[j] \in Seq(1 .. n)
    BY DEF InOrder
  <1>3. /\ first = waiting[k][1] /\ first \in 1 .. n
        /\ Tail(waiting[k]) \in Seq(1 .. n)
        /\ Len(waiting[k]) \in Nat \ {0}
        /\ Len(Tail(waiting[k])) = Len(waiting[k]) - 1
        /\ \A i \in 1 .. Len(waiting[k]) - 1 : Tail(waiting[k])[i] = waiting[k][i + 1]
    BY <1>2, TailOf
  <1>4. /\ now \in Seq(1 .. n)
        /\ Len(now) = Len(answers) + 1 /\ Len(answers) \in Nat
        /\ now[Len(answers) + 1] = first
        /\ \A i \in 1 .. Len(answers) : now[i] = answers[i]
    BY <1>1, <1>3, AppendProperties
  <1>5. waiting \in [QueueClasses -> Seq(1 .. n)]
    BY DEF InOrder
  <1>6. /\ left[k] = Tail(waiting[k])
        /\ \A j \in QueueClasses \ {k} : left[j] = waiting[j]
        /\ left \in [QueueClasses -> Seq(1 .. n)]
    BY <1>3, <1>5
  <1>7. /\ Len(left[k]) = Len(waiting[k]) - 1
        /\ \A i \in 1 .. Len(waiting[k]) - 1 : left[k][i] = waiting[k][i + 1]
    BY <1>3, <1>6
  <1> HIDE DEF first, now, left
  <1>8. /\ requests[first].class = k
        /\ \A j \in 1 .. Len(answers) : answers[j] # first
        /\ \A j \in 1 .. Len(waiting[k]) : 1 < j => first < waiting[k][j]
    <2>1. 1 \in 1 .. Len(waiting[k])
      BY <1>3
    <2>2. ASSUME NEW i \in 1 .. Len(waiting[k])
          PROVE  /\ requests[waiting[k][i]].class = k
                 /\ \A j \in 1 .. Len(answers) : answers[j] # waiting[k][i]
                 /\ \A j \in 1 .. Len(waiting[k]) : i < j => waiting[k][i] < waiting[k][j]
      BY DEF InOrder
    <2> QED
      BY <1>3, <2>1, <2>2
  <1>9. ASSUME NEW j \in QueueClasses, NEW i \in 1 .. Len(left[j])
        PROVE  \E m \in 1 .. Len(waiting[j]) :
                  /\ left[j][i] = waiting[j][m]
                  /\ j = k => m = i + 1
                  /\ j # k => m = i
    <2>1. CASE j = k
      <3>1. i + 1 \in 1 .. Len(waiting[k])
        BY <1>3, <1>7, <2>1
      <3> QED
        BY <1>3, <1>7, <2>1, <3>1
    <2>2. CASE j # k
      BY <1>6, <2>2
    <2> QED
      BY <2>1, <2>2
  <1>10. ASSUME NEW j \in QueueClasses, NEW i \in 1 .. Len(left[j])
         PROVE  /\ requests[left[j][i]].class = j
                /\ \A m \in 1 .. Len(now) : now[m] # left[j][i]
                /\ \A m \in 1 .. Len(left[j]) : i < m => left[j][i] < left[j][m]
    <2>1. PICK p \in 1 .. Len(waiting[j]) :
              /\ left[j][i] = waiting[j][p]
              /\ j = k => p = i + 1
              /\ j # k => p = i
      BY <1>9
    <2>2. /\ requests[waiting[j][p]].class = j
          /\ \A m \in 1 .. Len(answers) : answers[m] # waiting[j][p]
          /\ \A m \in 1 .. Len(waiting[j]) : p < m => waiting[j][p] < waiting[j][m]
      BY <2>1 DEF InOrder
    <2>3. waiting[j][p] # first
      <3>1. CASE j = k
        <4>1. first < waiting[k][p]
          <5>1. p = i + 1 /\ p \in 1 .. Len(waiting[k])
            BY <2>1, <3>1
          <5>2. 1 < p
            BY <5>1
          <5> QED
            BY <1>8, <5>1, <5>2
        <4>2. waiting[k][p] \in 1 .. n
          BY <1>2, <2>1, <3>1, ElementOfSeq
        <4> QED
          BY <1>1, <1>3, <3>1, <4>1, <4>2
      <3>2. CASE j # k
        BY <1>8, <2>2, <3>2
      <3> QED
        BY <3>1, <3>2
    <2>4. ASSUME NEW m \in 1 .. Len(now) PROVE now[m] # left[j][i]
      <3>1. CASE m = Len(answers) + 1
        BY <1>4, <2>1, <2>3, <3>1
      <3>2. CASE m \in 1 .. Len(answers)
        BY <1>4, <2>1, <2>2, <3>2
      <3> QED
        BY <1>4, <3>1, <3>2
    <2>5. ASSUME NEW m \in 1 .. Len(left[j]), i < m PROVE left[j][i] < left[j][m]
      <3>1. PICK o \in 1 .. Len(waiting[j]) :
                /\ left[j][m] = waiting[j][o]
                /\ j = k => o = m + 1
                /\ j # k => o = m
        BY <1>9
      <3>2. Len(left[j]) \in Nat
        BY <1>6
      <3>3. p < o
        BY <2>1, <2>5, <3>1, <3>2
      <3> QED
        BY <2>1, <2>2, <3>1, <3>3
    <2> QED
      BY <2>1, <2>2, <2>4, <2>5
  <1>11. ASSUME NEW id \in 1 .. n
         PROVE  \/ \E m \in 1 .. Len(now) : now[m] = id
                \/ \E j \in QueueClasses : \E i \in 1 .. Len(left[j]) : left[j][i] = id
    <2>1. CASE \E m \in 1 .. Len(answers) : answers[m] = id
      <3>1. PICK m \in 1 .. Len(answers) : answers[m] = id
        BY <2>1
      <3>2. m \in 1 .. Len(now) /\ now[m] = id
        BY <1>4, <3>1
      <3> QED
        BY <3>2
    <2>2. CASE \E j \in QueueClasses : \E i \in 1 .. Len(waiting[j]) : waiting[j][i] = id
      <3>1. PICK j \in QueueClasses : \E i \in 1 .. Len(waiting[j]) : waiting[j][i] = id
        BY <2>2
      <3>2. PICK i \in 1 .. Len(waiting[j]) : waiting[j][i] = id
        BY <3>1
      <3>3. CASE j # k
        BY <1>6, <3>2, <3>3
      <3>4. CASE j = k /\ i = 1
        BY <1>3, <1>4, <3>2, <3>4
      <3>5. CASE j = k /\ i # 1
        <4>1. i - 1 \in 1 .. Len(waiting[k]) - 1 /\ i - 1 \in 1 .. Len(left[k])
          BY <1>3, <1>7, <3>2, <3>5
        <4>2. left[k][i - 1] = waiting[k][(i - 1) + 1]
          BY <1>7, <4>1
        <4>3. (i - 1) + 1 = i
          BY <1>3, <3>2, <3>5
        <4> QED
          BY <3>2, <3>5, <4>1, <4>2, <4>3
      <3> QED
        BY <3>3, <3>4, <3>5
    <2> QED
      BY <2>1, <2>2 DEF InOrder
  <1>12. Len(now) + Len(left["socks5"]) + Len(left["sandstorm"])
            + Len(left["metrics"]) = n
    <2> DEFINE a == Len(waiting["socks5"])
               b == Len(waiting["sandstorm"])
               c == Len(waiting["metrics"])
               x == Len(answers)
               y == Len(now)
    <2> DEFINE d == Len(left["socks5"])
               e == Len(left["sandstorm"])
               f == Len(left["metrics"])
    <2>0. y = x + 1
      BY <1>4
    <2>1. x + a + b + c = n
      BY DEF InOrder
    <2>2. x \in Nat /\ a \in Nat /\ b \in Nat /\ c \in Nat /\ n \in Nat
      BY <1>1, <1>2, Queues
    <2>3. ASSUME k = "socks5" PROVE y + d + e + f = n
      <3>1. d = a - 1 /\ e = b /\ f = c
        BY <1>6, <1>7, <2>3, Queues
      <3> HIDE DEF a, b, c, d, e, f, x, y
      <3> QED
        BY <2>0, <2>1, <2>2, <3>1
    <2>4. ASSUME k = "sandstorm" PROVE y + d + e + f = n
      <3>1. d = a /\ e = b - 1 /\ f = c
        BY <1>6, <1>7, <2>4, Queues
      <3> HIDE DEF a, b, c, d, e, f, x, y
      <3> QED
        BY <2>0, <2>1, <2>2, <3>1
    <2>5. ASSUME k = "metrics" PROVE y + d + e + f = n
      <3>1. d = a /\ e = b /\ f = c - 1
        BY <1>6, <1>7, <2>5, Queues
      <3> HIDE DEF a, b, c, d, e, f, x, y
      <3> QED
        BY <2>0, <2>1, <2>2, <3>1
    <2>6. y + d + e + f = n
      BY <2>3, <2>4, <2>5, Queues
    <2> QED
      BY <2>6
  <1>13. InOrder(requests, left, now, n)
    BY <1>1, <1>4, <1>6, <1>10, <1>11, <1>12 DEF InOrder
  <1>14. ASSUME NEW earlier \in 1 .. Len(requests),
                \A j \in 1 .. Len(answers) : answers[j] # earlier,
                requests[earlier].class = requests[first].class
         PROVE  earlier >= first
    <2>1. CASE earlier > n
      BY <1>1, <1>3, <2>1
    <2>2. CASE earlier \in 1 .. n
      <3>1. PICK j \in QueueClasses : \E i \in 1 .. Len(waiting[j]) : waiting[j][i] = earlier
        BY <1>14, <2>2 DEF InOrder
      <3>2. PICK i \in 1 .. Len(waiting[j]) : waiting[j][i] = earlier
        BY <3>1
      <3>3. j = k
        BY <1>8, <1>14, <3>1, <3>2 DEF InOrder
      <3>4. i = 1 \/ 1 < i
        BY <1>3, <3>2, <3>3
      <3> QED
        BY <1>1, <1>3, <1>8, <2>2, <3>2, <3>3, <3>4
    <2> QED
      BY <1>1, <2>1, <2>2
  <1>15. first \in 1 .. Len(requests)
    BY <1>1, <1>3
  <1> QED
    BY <1>8, <1>13, <1>14, <1>15 DEF MayAnswer, first, now, left

\* No more is answered than was asked.
LEMMA AnswersBounded ==
    ASSUME NEW S, NEW requests \in Seq(S), NEW waiting, NEW answers, NEW n,
           InOrder(requests, waiting, answers, n)
    PROVE  Len(answers) \in Nat /\ Len(answers) <= Len(requests)
  <1> DEFINE a == Len(waiting["socks5"])
             b == Len(waiting["sandstorm"])
             c == Len(waiting["metrics"])
             x == Len(answers)
             y == Len(requests)
  <1>1. x + a + b + c = n
    BY DEF InOrder
  <1>2. n \in 0 .. y /\ y \in Nat
    BY DEF InOrder
  <1>3. x \in Nat /\ a \in Nat /\ b \in Nat /\ c \in Nat
    <2>1. answers \in Seq(1 .. n) /\ \A k \in QueueClasses : waiting[k] \in Seq(1 .. n)
      BY DEF InOrder
    <2> QED
      BY <2>1, Queues
  <1> HIDE DEF a, b, c, x, y
  <1>4. x \in Nat /\ x <= y
    BY <1>1, <1>2, <1>3
  <1> QED
    BY <1>4 DEF x, y

-----------------------------------------------------------------------------
(* The turn of a request                                                   *)

\* The types, for one connection.
LEMMA TypeAt ==
    ASSUME TypeOK, NEW c \in Connections
    PROVE  /\ asked[c] \in Seq(Menu) /\ Len(asked[c]) \in Nat
           /\ reader[c] \in {"read", "message", "metrics", "notify", "end"}
           /\ responses[c] \in Seq(Ids) /\ Len(responses[c]) \in Nat
           /\ queues[c] \in [QueueClasses -> Seq(Ids)]
           /\ writer[c].at \in {"select", "front", "shutdown", "subscribe", "metrics"}
           /\ writer[c].id \in Ids \cup {0}
           /\ closed[c] \in BOOLEAN
           /\ answered[c] \in Seq(Ids)
           /\ unflushed[c] \in Nat
           /\ dirty[c] \in BOOLEAN
  BY DEF TypeOK

\* How far the writer is.
LEMMA Turn ==
    ASSUME TypeOK, NEW c \in Connections, ConnectionInv(c)
    PROVE  /\ Notified(c) \in Int /\ Taken(c) \in Nat /\ Handled(c) \in Nat
           /\ Handled(c) <= Len(asked[c]) /\ Taken(c) <= Notified(c)
           /\ Notified(c) <= Len(asked[c])
  <1>1. Handled(c) \in 0 .. Len(asked[c])
    BY DEF ConnectionInv, InOrder
  <1>2. Notified(c) \in Int /\ Taken(c) \in Int /\ Taken(c) <= Notified(c)
        /\ Notified(c) <= Len(asked[c])
    <2>1. Len(asked[c]) \in Nat /\ Len(responses[c]) \in Nat
      BY TypeAt
    <2>2. Notified(c) \in {Len(asked[c]), Len(asked[c]) - 1}
      BY DEF Notified
    <2>3. Notified(c) \in Int /\ Notified(c) <= Len(asked[c])
      BY <2>1, <2>2
    <2> QED
      BY <2>1, <2>3 DEF Taken
  <1>3. Taken(c) >= Handled(c)
    BY <1>2 DEF Handled
  <1> QED
    BY <1>1, <1>2, <1>3, TypeAt

\* A request that was asked is one that may be asked.
LEMMA AskedRequest ==
    ASSUME TypeOK, NEW c \in Connections, NEW id \in 1 .. Len(asked[c])
    PROVE  asked[c][id] \in Requests
  <1>1. asked[c][id] \in Menu
    BY TypeAt, ElementOfSeq
  <1> QED
    BY <1>1, SandstormServerAssumption DEF Menu

\* The first notification is of the next request.
LEMMA NextNotified ==
    ASSUME TypeOK, NEW c \in Connections, ConnectionInv(c),
           writer[c].at = "select", responses[c] # <<>>
    PROVE  /\ Head(responses[c]) = Taken(c) + 1
           /\ Head(responses[c]) = Handled(c) + 1
           /\ Head(responses[c]) \in 1 .. Len(asked[c])
           /\ Head(responses[c]) \in Ids
           /\ Head(responses[c]) # 0
           /\ ~closed[c]
  <1>1. /\ Head(responses[c]) = responses[c][1] /\ Head(responses[c]) \in Ids
        /\ Len(responses[c]) \in Nat \ {0}
    BY TypeAt, TailOf
  <1>2. responses[c][1] = Taken(c) + 1
    BY <1>1 DEF ConnectionInv, InTurn
  <1>3. Taken(c) + 1 <= Notified(c)
    BY <1>1, TypeAt, Turn DEF Taken
  <1>4. Handled(c) = Taken(c)
    BY DEF Handled
  <1>5. ~closed[c]
    BY DEF ConnectionInv, InTurn
  <1> QED
    BY <1>1, <1>2, <1>3, <1>4, <1>5, Turn, TypeAt

\* The writer waits for nothing but the next request.
LEMMA NextWaited ==
    ASSUME TypeOK, NEW c \in Connections, ConnectionInv(c), writer[c].at # "select"
    PROVE  /\ writer[c].id = Handled(c) + 1
           /\ writer[c].id \in 1 .. Len(asked[c])
           /\ writer[c].id \in Ids
  <1>1. writer[c].id = Taken(c) /\ Handled(c) = Taken(c) - 1
    BY DEF ConnectionInv, InTurn, Handled
  <1>2. Len(asked[c]) <= MaxRequests
    BY DEF ConnectionInv
  <1>3. writer[c].id \in 1 .. Len(asked[c])
    BY <1>1, Turn, TypeAt
  <1> QED
    BY <1>1, <1>2, <1>3, Turn, TypeAt, SandstormServerAssumption DEF Ids

\* What the reader and the channel leave alone keeps its turn.
LEMMA TurnSame ==
    ASSUME NEW c \in Connections, ConnectionInv(c),
           asked'[c] = asked[c], reader'[c] = reader[c], responses'[c] = responses[c],
           writer'[c] = writer[c], closed'[c] = closed[c]
    PROVE  InTurn(c)' /\ Handled(c)' = Handled(c)
  <1>1. Taken(c)' = Taken(c) /\ Handled(c)' = Handled(c)
    BY DEF Notified, Taken, Handled
  <1> QED
    BY <1>1 DEF ConnectionInv, InTurn, RequestAt

\* The reader goes on, but for a notification or a request more.
LEMMA TurnRead ==
    ASSUME TypeOK, NEW c \in Connections, ConnectionInv(c),
           asked'[c] = asked[c], responses'[c] = responses[c],
           writer'[c] = writer[c], closed'[c] = closed[c],
           \/ reader[c] = "read" /\ reader'[c] = "end"
           \/ reader[c] \in {"message", "metrics"} /\ reader'[c] = "notify"
    PROVE  InTurn(c)' /\ Handled(c)' = Handled(c)
  <1>1. Notified(c)' = Notified(c)
    BY DEF Notified
  <1>2. Taken(c)' = Taken(c) /\ Handled(c)' = Handled(c)
    BY <1>1 DEF Taken, Handled
  <1>3. ~closed[c]
    BY TypeAt DEF ConnectionInv, InTurn
  <1> QED
    BY <1>2, <1>3 DEF ConnectionInv, InTurn, RequestAt

\* A request more is asked.
LEMMA TurnAsked ==
    ASSUME TypeOK, NEW c \in Connections, ConnectionInv(c), NEW r,
           reader[c] = "read", asked'[c] = Append(asked[c], r),
           reader'[c] \in {"message", "metrics", "notify"},
           responses'[c] = responses[c], writer'[c] = writer[c], closed'[c] = closed[c]
    PROVE  InTurn(c)' /\ Handled(c)' = Handled(c)
  <1>1. /\ Len(asked'[c]) = Len(asked[c]) + 1 /\ Len(asked[c]) \in Nat
        /\ \A i \in 1 .. Len(asked[c]) : asked'[c][i] = asked[c][i]
    BY TypeAt
  <1>2. Notified(c)' = Notified(c)
    BY <1>1 DEF Notified
  <1>3. Taken(c)' = Taken(c) /\ Handled(c)' = Handled(c)
    BY <1>2 DEF Taken, Handled
  <1>4. ~closed[c]
    BY TypeAt DEF ConnectionInv, InTurn
  <1>5. writer[c].at # "select" => asked'[c][writer[c].id] = asked[c][writer[c].id]
    BY <1>1, NextWaited
  <1> QED
    BY <1>3, <1>4, <1>5 DEF ConnectionInv, InTurn, RequestAt

\* The writer is notified of the request that was read last.
LEMMA TurnNotified ==
    ASSUME TypeOK, NEW c \in Connections, ConnectionInv(c),
           reader[c] = "notify", reader'[c] = "read", asked'[c] = asked[c],
           responses'[c] = Append(responses[c], Len(asked[c])),
           writer'[c] = writer[c], closed'[c] = closed[c]
    PROVE  InTurn(c)' /\ Handled(c)' = Handled(c)
  <1>1. /\ Len(responses'[c]) = Len(responses[c]) + 1 /\ Len(responses[c]) \in Nat
        /\ responses'[c][Len(responses[c]) + 1] = Len(asked[c])
        /\ \A i \in 1 .. Len(responses[c]) : responses'[c][i] = responses[c][i]
    BY TypeAt
  <1>2. /\ Notified(c) = Len(asked[c]) - 1 /\ Notified(c)' = Len(asked[c])
        /\ Len(asked[c]) \in Nat
    BY TypeAt DEF Notified
  <1>3. Taken(c) = Notified(c) - Len(responses[c]) /\ Taken(c)' = Taken(c)
    BY <1>1, <1>2 DEF Taken
  <1>4. Handled(c)' = Handled(c)
    BY <1>3 DEF Handled
  <1>5. ~closed[c]
    BY TypeAt DEF ConnectionInv, InTurn
  <1>6. ASSUME NEW i \in 1 .. Len(responses'[c])
        PROVE  responses'[c][i] = Taken(c) + i
    <2>1. CASE i \in 1 .. Len(responses[c])
      BY <1>1, <2>1 DEF ConnectionInv, InTurn
    <2>2. CASE i = Len(responses[c]) + 1
      <3>1. responses'[c][i] = Len(asked[c])
        BY <1>1, <2>2
      <3> DEFINE t == Taken(c)  m == Len(responses[c])  l == Len(asked[c])
      <3>2. /\ t = (l - 1) - m /\ i = m + 1
            /\ t \in Int /\ l \in Int /\ m \in Int
        BY <1>1, <1>2, <1>3, <2>2, Turn
      <3> HIDE DEF t, m, l
      <3>3. t + i = l
        BY <3>2
      <3> QED
        BY <3>1, <3>3 DEF t, l
    <2> QED
      BY <1>1, <2>1, <2>2
  <1> QED
    BY <1>3, <1>4, <1>5, <1>6 DEF ConnectionInv, InTurn, RequestAt

\* A notification is taken: the writer is done with it, or waits.
LEMMA TurnTaken ==
    ASSUME TypeOK, NEW c \in Connections, ConnectionInv(c),
           writer[c].at = "select", responses[c] # <<>>,
           responses'[c] = Tail(responses[c]), asked'[c] = asked[c],
           reader'[c] = reader[c], closed'[c] = closed[c],
           \/ writer'[c] = writer[c]
           \/ /\ asked[c][Head(responses[c])].class \in QueueClasses
              /\ writer'[c] = [at |-> "front", id |-> Head(responses[c])]
           \/ /\ asked[c][Head(responses[c])].class \notin QueueClasses
              /\ \/ writer'[c] = [at |-> "shutdown", id |-> Head(responses[c])]
                 \/ writer'[c] = [at |-> "subscribe", id |-> Head(responses[c])]
    PROVE  /\ InTurn(c)'
           /\ Handled(c)' = IF writer'[c].at = "select" THEN Handled(c) + 1 ELSE Handled(c)
  <1>1. /\ Len(responses'[c]) = Len(responses[c]) - 1 /\ Len(responses[c]) \in Nat \ {0}
        /\ \A i \in 1 .. Len(responses[c]) - 1 : responses'[c][i] = responses[c][i + 1]
    BY TypeAt, TailOf
  <1>2. Notified(c)' = Notified(c)
    BY DEF Notified
  <1>3. Taken(c)' = Taken(c) + 1 /\ Taken(c) \in Nat
    BY <1>1, <1>2, Turn DEF Taken
  <1>4. /\ Head(responses[c]) = Taken(c) + 1 /\ ~closed[c]
        /\ Handled(c) = Taken(c)
    BY NextNotified DEF Handled
  <1>5. Handled(c)' = IF writer'[c].at = "select" THEN Handled(c) + 1 ELSE Handled(c)
    BY <1>3, <1>4 DEF Handled
  <1>6. ASSUME NEW i \in 1 .. Len(responses'[c])
        PROVE  responses'[c][i] = Taken(c)' + i
    <2>1. i + 1 \in 1 .. Len(responses[c]) /\ i \in 1 .. Len(responses[c]) - 1
      BY <1>1
    <2>2. responses[c][i + 1] = Taken(c) + (i + 1)
      BY <2>1 DEF ConnectionInv, InTurn
    <2> QED
      BY <1>1, <1>3, <2>1, <2>2
  <1>7. /\ writer'[c].at # "select" => writer'[c].id = Taken(c)'
        /\ writer'[c].at = "front" => asked[c][writer'[c].id].class \in QueueClasses
        /\ writer'[c].at \in {"shutdown", "subscribe", "metrics"}
              => asked[c][writer'[c].id].class \notin QueueClasses
    BY <1>3, <1>4
  <1> QED
    BY <1>4, <1>5, <1>6, <1>7 DEF ConnectionInv, InTurn, RequestAt

\* The writer has what it waited for, or asks for it.
LEMMA TurnWaited ==
    ASSUME TypeOK, NEW c \in Connections, ConnectionInv(c), writer[c].at # "select",
           responses'[c] = responses[c], asked'[c] = asked[c],
           reader'[c] = reader[c], closed'[c] = closed[c],
           \/ writer'[c] = [at |-> "select", id |-> 0]
           \/ /\ writer[c].at = "subscribe"
              /\ writer'[c] = [at |-> "metrics", id |-> writer[c].id]
    PROVE  /\ InTurn(c)'
           /\ Handled(c)' = IF writer'[c].at = "select" THEN Handled(c) + 1 ELSE Handled(c)
  <1>1. Taken(c)' = Taken(c) /\ Taken(c) \in Nat
    BY Turn DEF Taken, Notified
  <1>2. Handled(c)' = IF writer'[c].at = "select" THEN Handled(c) + 1 ELSE Handled(c)
    BY <1>1 DEF Handled
  <1> QED
    BY <1>1, <1>2 DEF ConnectionInv, InTurn, RequestAt

\* The reader has ended and everything was taken.
LEMMA TurnClosed ==
    ASSUME NEW c \in Connections, ConnectionInv(c),
           asked'[c] = asked[c], reader'[c] = reader[c], responses'[c] = responses[c],
           writer'[c] = writer[c], responses[c] = <<>>, reader[c] = "end"
    PROVE  InTurn(c)' /\ Handled(c)' = Handled(c)
  <1>1. Taken(c)' = Taken(c) /\ Handled(c)' = Handled(c)
    BY DEF Notified, Taken, Handled
  <1> QED
    BY <1>1 DEF ConnectionInv, InTurn, RequestAt

-----------------------------------------------------------------------------
(* The steps of a connection                                               *)

\* What a step leaves alone.
SameAt(d) ==
    /\ asked'[d] = asked[d] /\ reader'[d] = reader[d]
    /\ responses'[d] = responses[d] /\ queues'[d] = queues[d]
    /\ writer'[d] = writer[d] /\ closed'[d] = closed[d]
    /\ answered'[d] = answered[d] /\ unflushed'[d] = unflushed[d] /\ dirty'[d] = dirty[d]

OthersSame(c) == \A d \in Connections \ {c} : SameAt(d)

\* What a step is for Pipeline: nothing, a request, or an answer.
Quiet == UNCHANGED <<asked, answered>>

Asks(c) ==
    /\ \E request \in Menu : asked' = [asked EXCEPT ![c] = Append(@, request)]
    /\ UNCHANGED answered

Answers(c) ==
    /\ \E id : /\ MayAnswer(asked[c], answered[c], id)
               /\ answered' = [answered EXCEPT ![c] = Append(@, id)]
    /\ UNCHANGED asked

\* What a step of a connection preserves and is.
Effect(c) ==
    /\ ConnectionInv(c)'
    /\ OthersSame(c)
    /\ Quiet \/ Asks(c) \/ Answers(c)

\* A connection that nothing happens to keeps its invariant.
LEMMA SameKept ==
    ASSUME NEW d \in Connections, ConnectionInv(d), SameAt(d)
    PROVE  ConnectionInv(d)'
  <1>1. InTurn(d)' /\ Handled(d)' = Handled(d)
    BY TurnSame DEF SameAt
  <1> QED
    BY <1>1 DEF ConnectionInv, SameAt, BufferTrue

\* So do all when nothing happens to any.
LEMMA AllSame ==
    ASSUME UNCHANGED <<asked, reader, responses, queues, writer, closed, answered,
                       unflushed, dirty>>
    PROVE  (\A c \in Connections : SameAt(c)) /\ Quiet
  BY DEF SameAt, Quiet

\* An answer goes into the buffer, or through it.
LEMMA WriteEffect ==
    ASSUME TypeOK, NEW c \in Connections, ConnectionInv(c), NEW id,
           WriteAnswer(c, id) \/ WriteAndFlush(c, id)
    PROVE  /\ answered' = [answered EXCEPT ![c] = Append(@, id)]
           /\ answered'[c] = Append(answered[c], id)
           /\ \A d \in Connections \ {c} :
                 /\ answered'[d] = answered[d]
                 /\ unflushed'[d] = unflushed[d] /\ dirty'[d] = dirty[d]
           /\ BufferTrue(c)'
           /\ unflushed' \in [Connections -> Nat]
           /\ dirty' \in [Connections -> BOOLEAN]
  <1>1. /\ answered' = [answered EXCEPT ![c] = Append(@, id)]
        /\ \E n \in {0, 1, unflushed[c] + 1} :
              unflushed' = [unflushed EXCEPT ![c] = n]
        /\ dirty' = [dirty EXCEPT ![c] = TRUE] \/
              (dirty' = [dirty EXCEPT ![c] = FALSE] /\ unflushed' = [unflushed EXCEPT ![c] = 0])
    BY DEF WriteAnswer, WriteAndFlush
  <1>2. PICK n \in {0, 1, unflushed[c] + 1} : unflushed' = [unflushed EXCEPT ![c] = n]
    BY <1>1
  <1>3. /\ unflushed[c] \in Nat /\ unflushed[c] <= Len(answered[c])
        /\ Len(answered[c]) \in Nat
    BY TypeAt DEF ConnectionInv, BufferTrue
  <1>4. n \in Nat /\ n <= Len(answered[c]) + 1
    BY <1>3
  <1>5. /\ answered \in [Connections -> Seq(Ids)]
        /\ unflushed \in [Connections -> Nat] /\ dirty \in [Connections -> BOOLEAN]
    BY DEF TypeOK
  <1>6. answered'[c] = Append(answered[c], id) /\ Len(answered'[c]) = Len(answered[c]) + 1
    BY <1>1, <1>5, TypeAt
  <1>7. unflushed'[c] = n /\ unflushed' \in [Connections -> Nat]
    BY <1>2, <1>4, <1>5
  <1>8. dirty' \in [Connections -> BOOLEAN] /\ (~dirty'[c] => unflushed'[c] = 0)
    BY <1>1, <1>5
  <1>9. \A d \in Connections \ {c} :
           /\ answered'[d] = answered[d]
           /\ unflushed'[d] = unflushed[d] /\ dirty'[d] = dirty[d]
    BY <1>1, <1>2, <1>5
  <1>10. BufferTrue(c)'
    BY <1>4, <1>6, <1>7, <1>8 DEF BufferTrue
  <1> QED
    BY <1>1, <1>6, <1>7, <1>8, <1>9, <1>10

\* The reader reads a request.
LEMMA ReadEffect ==
    ASSUME TypeOK, NEW c \in Connections, ConnectionInv(c), Read(c)
    PROVE  Effect(c) /\ asked' \in [Connections -> Seq(Menu)]
  <1>1. PICK r \in plan.menu :
            /\ asked' = [asked EXCEPT ![c] = Append(@, r)]
            /\ reader' = [reader EXCEPT ![c] = Route(r)]
    BY DEF Read
  <1>2. /\ plan \in Plans /\ asked \in [Connections -> Seq(Menu)]
        /\ reader \in [Connections -> {"read", "message", "metrics", "notify", "end"}]
    BY DEF TypeOK
  <1>3. r \in Menu
    BY <1>1, <1>2 DEF Menu
  <1>4. /\ asked'[c] = Append(asked[c], r) /\ reader'[c] = Route(r)
        /\ \A d \in Connections \ {c} : asked'[d] = asked[d] /\ reader'[d] = reader[d]
        /\ asked' \in [Connections -> Seq(Menu)]
    BY <1>1, <1>2, <1>3, TypeAt
  <1>5. Len(asked'[c]) <= MaxRequests
    <2>1. plan.most \in 0 .. MaxRequests /\ MaxRequests \in Nat
      BY <1>2, SandstormServerAssumption
    <2>2. Len(asked[c]) < plan.most /\ Len(asked[c]) \in Nat
      BY TypeAt DEF Read
    <2>3. Len(asked'[c]) = Len(asked[c]) + 1
      BY <1>4, TypeAt
    <2> QED
      BY <2>1, <2>2, <2>3
  <1>6. Route(r) \in {"message", "metrics", "notify"}
    BY DEF Route
  <1>7. UNCHANGED <<responses, queues, writer, closed, answered, unflushed, dirty>>
    BY DEF Read, writerVars
  <1>8. InTurn(c)' /\ Handled(c)' = Handled(c)
    BY <1>4, <1>6, <1>7, TurnAsked DEF Read
  <1>9. InOrder(asked'[c], queues[c], answered[c], Handled(c))
    BY <1>3, <1>4, TypeAt, OrderAsked DEF ConnectionInv
  <1>10. BufferTrue(c)'
    BY <1>7 DEF ConnectionInv, BufferTrue
  <1>11. ConnectionInv(c)'
    BY <1>5, <1>7, <1>8, <1>9, <1>10 DEF ConnectionInv
  <1>12. OthersSame(c)
    BY <1>4, <1>7 DEF OthersSame, SameAt
  <1> QED
    BY <1>1, <1>3, <1>4, <1>7, <1>11, <1>12 DEF Effect, Asks

\* It goes on, or has come to the end.
LEMMA ReaderEffect ==
    ASSUME TypeOK, NEW c \in Connections, ConnectionInv(c),
           ReadEof(c) \/ SendMessage(c) \/ RequestMetrics(c)
    PROVE  Effect(c) /\ Quiet
  <1>1. /\ \/ reader[c] = "read" /\ reader'[c] = "end"
           \/ reader[c] \in {"message", "metrics"} /\ reader'[c] = "notify"
        /\ \A d \in Connections \ {c} : reader'[d] = reader[d]
    BY DEF TypeOK, ReadEof, SendMessage, RequestMetrics
  <1>2. UNCHANGED <<asked, responses, queues, writer, closed, answered, unflushed, dirty>>
    BY DEF ReadEof, SendMessage, RequestMetrics, writerVars
  <1>3. InTurn(c)' /\ Handled(c)' = Handled(c)
    BY <1>1, <1>2, TurnRead
  <1>4. ConnectionInv(c)'
    BY <1>2, <1>3 DEF ConnectionInv, BufferTrue
  <1> QED
    BY <1>1, <1>2, <1>4 DEF Effect, OthersSame, SameAt, Quiet

\* The reader notifies the writer.
LEMMA NotifyEffect ==
    ASSUME TypeOK, NEW c \in Connections, ConnectionInv(c), Notify(c)
    PROVE  Effect(c) /\ Quiet
  <1>1. /\ reader[c] = "notify" /\ reader'[c] = "read"
        /\ responses'[c] = Append(responses[c], Len(asked[c]))
        /\ \A d \in Connections \ {c} :
              reader'[d] = reader[d] /\ responses'[d] = responses[d]
    BY DEF TypeOK, Notify, Latest
  <1>2. UNCHANGED <<asked, queues, writer, closed, answered, unflushed, dirty>>
    BY DEF Notify, writerVars
  <1>3. InTurn(c)' /\ Handled(c)' = Handled(c)
    BY <1>1, <1>2, TurnNotified
  <1>4. ConnectionInv(c)'
    BY <1>2, <1>3 DEF ConnectionInv, BufferTrue
  <1> QED
    BY <1>1, <1>2, <1>4 DEF Effect, OthersSame, SameAt, Quiet

\* The class of a request says whether its receiver is queued.
LEMMA ClassOfType ==
    ASSUME NEW r \in Requests
    PROVE  r.class \in QueueClasses
              <=> r.type \notin {"Shutdown", "EventsOn", "EventsOff", "Direct", "SetBufferSize"}
  BY Queues DEF Requests

\* The writer takes a notification.
LEMMA TakeEffect ==
    ASSUME TypeOK, NEW c \in Connections, ConnectionInv(c), TakeNotification(c)
    PROVE  Effect(c)
  <1> DEFINE id == Head(responses[c])
             r == asked[c][id]
             k == r.class
             n == Handled(c)
  <1>1. /\ writer[c].at = "select" /\ responses[c] # <<>>
        /\ responses' = [responses EXCEPT ![c] = Tail(@)]
        /\ UNCHANGED <<asked, reader, closed>>
    BY DEF TakeNotification, Selecting, At, readerVars
  <1>2. /\ id = n + 1 /\ id \in 1 .. Len(asked[c]) /\ id \in Ids
        /\ r \in Requests
    BY <1>1, NextNotified, AskedRequest
  <1>3. /\ responses'[c] = Tail(responses[c])
        /\ \A d \in Connections \ {c} : responses'[d] = responses[d]
    BY <1>1 DEF TypeOK
  <1>4. InOrder(asked[c], queues[c], answered[c], n) /\ n + 1 <= Len(asked[c])
    BY <1>2, TypeAt, Turn DEF ConnectionInv
  <1>5. Len(asked[c]) <= MaxRequests /\ BufferTrue(c)
    BY DEF ConnectionInv
  <1>6. /\ queues \in [Connections -> [QueueClasses -> Seq(Ids)]]
        /\ \E S \in SUBSET [at : {"select", "front", "shutdown", "subscribe", "metrics"},
                            id : Ids \cup {0}] : writer \in [Connections -> S]
    BY DEF TypeOK
  <1>7. asked[c] \in Seq(Menu)
    BY TypeAt
  <1> HIDE DEF n
  <1>8. CASE /\ k \in QueueClasses
             /\ queues' = [queues EXCEPT ![c][k] = Append(@, id)]
             /\ UNCHANGED <<writer, answered, unflushed, dirty>>
    <2>1. InOrder(asked[c], [queues[c] EXCEPT ![k] = Append(@, n + 1)], answered[c], n + 1)
      BY <1>2, <1>4, <1>7, <1>8, OrderQueued
    <2>2. /\ queues'[c] = [queues[c] EXCEPT ![k] = Append(@, n + 1)]
          /\ \A d \in Connections \ {c} : queues'[d] = queues[d]
      BY <1>2, <1>6, <1>8
    <2>3. InTurn(c)' /\ Handled(c)' = n + 1
      BY <1>1, <1>3, <1>8, TurnTaken DEF n
    <2>4. ConnectionInv(c)'
      BY <1>1, <1>5, <1>8, <2>1, <2>2, <2>3 DEF ConnectionInv, BufferTrue
    <2> QED
      BY <1>1, <1>3, <1>8, <2>2, <2>4 DEF Effect, OthersSame, SameAt, Quiet
  <1>9. CASE /\ \/ k \in QueueClasses /\ GoTo(c, "front", id)
                \/ r.type = "Shutdown" /\ GoTo(c, "shutdown", id)
                \/ r.type = "EventsOn" /\ GoTo(c, "subscribe", id)
             /\ UNCHANGED <<queues, answered, unflushed, dirty>>
    <2>1. \/ k \in QueueClasses /\ writer'[c] = [at |-> "front", id |-> id]
          \/ /\ k \notin QueueClasses
             /\ \/ writer'[c] = [at |-> "shutdown", id |-> id]
                \/ writer'[c] = [at |-> "subscribe", id |-> id]
      BY <1>2, <1>6, <1>9, ClassOfType DEF GoTo
    <2>2. \A d \in Connections \ {c} : writer'[d] = writer[d]
      BY <1>6, <1>9 DEF GoTo
    <2>3. InTurn(c)' /\ Handled(c)' = n
      BY <1>1, <1>3, <2>1, TurnTaken DEF n
    <2>4. ConnectionInv(c)'
      BY <1>1, <1>4, <1>5, <1>9, <2>3 DEF ConnectionInv, BufferTrue
    <2> QED
      BY <1>1, <1>3, <1>9, <2>2, <2>4 DEF Effect, OthersSame, SameAt, Quiet
  <1>10. CASE /\ r.type \in {"EventsOn", "EventsOff", "Direct", "SetBufferSize"}
              /\ WriteAnswer(c, id) \/ WriteAndFlush(c, id)
              /\ UNCHANGED <<queues, writer>>
    <2>1. k \notin QueueClasses
      BY <1>2, <1>10, ClassOfType
    <2>2. /\ InOrder(asked[c], queues[c], Append(answered[c], n + 1), n + 1)
          /\ MayAnswer(asked[c], answered[c], n + 1)
      BY <1>2, <1>4, <1>7, <2>1, OrderAnsweredNext
    <2>3. /\ answered' = [answered EXCEPT ![c] = Append(@, id)]
          /\ answered'[c] = Append(answered[c], n + 1)
          /\ \A d \in Connections \ {c} :
                /\ answered'[d] = answered[d]
                /\ unflushed'[d] = unflushed[d] /\ dirty'[d] = dirty[d]
          /\ BufferTrue(c)'
      BY <1>2, <1>10, WriteEffect
    <2>4. InTurn(c)' /\ Handled(c)' = n + 1
      BY <1>1, <1>3, <1>10, TurnTaken DEF n
    <2>5. ConnectionInv(c)'
      BY <1>1, <1>5, <1>10, <2>2, <2>3, <2>4 DEF ConnectionInv
    <2>6. Answers(c)
      BY <1>1, <1>2, <2>2, <2>3 DEF Answers
    <2> QED
      BY <1>1, <1>3, <1>10, <2>3, <2>5, <2>6 DEF Effect, OthersSame, SameAt
  <1> QED
    BY <1>8, <1>9, <1>10 DEF TakeNotification, RequestAt, bufferVars

\* It has made room in a queue that was full.
LEMMA FrontEffect ==
    ASSUME TypeOK, NEW c \in Connections, ConnectionInv(c), FrontReady(c)
    PROVE  Effect(c)
  <1> DEFINE id == writer[c].id
             k == asked[c][id].class
             first == Head(queues[c][k])
             n == Handled(c)
  <1>1. /\ writer[c].at = "front" /\ queues[c][k] # <<>>
        /\ UNCHANGED <<asked, reader, responses>>
    BY DEF FrontReady, At, HeadReady, RequestAt, readerVars
  <1>2. id = n + 1 /\ id \in 1 .. Len(asked[c])
    BY <1>1, NextWaited
  <1>3. InOrder(asked[c], queues[c], answered[c], n) /\ n + 1 <= Len(asked[c])
    BY <1>2, TypeAt, Turn DEF ConnectionInv
  <1>4. k \in QueueClasses
    BY <1>1 DEF ConnectionInv, InTurn, RequestAt
  <1>5. asked[c] \in Seq(Menu)
    BY TypeAt
  <1>6. /\ queues \in [Connections -> [QueueClasses -> Seq(Ids)]]
        /\ \E S \in SUBSET [at : {"select", "front", "shutdown", "subscribe", "metrics"},
                            id : Ids \cup {0}] : writer \in [Connections -> S]
    BY DEF TypeOK
  <1> HIDE DEF n
  <1>7. CASE UNCHANGED writerVars
    <2>1. (\A d \in Connections : SameAt(d)) /\ Quiet
      BY <1>1, <1>7, AllSame DEF writerVars
    <2> QED
      BY <2>1, SameKept DEF Effect, OthersSame
  <1>8. CASE /\ WriteAnswer(c, first)
             /\ queues' = [queues EXCEPT ![c][k] = Append(Tail(@), id)]
             /\ GoTo(c, "select", 0)
             /\ UNCHANGED closed
    <2> DEFINE q == [queues[c] EXCEPT ![k] = Tail(@)]
               a == Append(answered[c], first)
    <2>1. InOrder(asked[c], q, a, n) /\ MayAnswer(asked[c], answered[c], first)
      BY <1>1, <1>3, <1>4, <1>5, OrderAnsweredHead
    <2>2. /\ q[k] = Tail(queues[c][k])
          /\ [q EXCEPT ![k] = Append(@, n + 1)]
                = [queues[c] EXCEPT ![k] = Append(Tail(@), n + 1)]
      BY <1>4, <1>6
    <2> HIDE DEF q, a
    <2>3. InOrder(asked[c], [q EXCEPT ![k] = Append(@, n + 1)], a, n + 1)
      BY <1>2, <1>3, <1>4, <1>5, <2>1, OrderQueued
    <2>4. /\ queues'[c] = [queues[c] EXCEPT ![k] = Append(Tail(@), n + 1)]
          /\ \A d \in Connections \ {c} : queues'[d] = queues[d]
      BY <1>2, <1>6, <1>8
    <2>5. /\ writer'[c] = [at |-> "select", id |-> 0]
          /\ \A d \in Connections \ {c} : writer'[d] = writer[d]
      BY <1>6, <1>8 DEF GoTo
    <2>6. InTurn(c)' /\ Handled(c)' = n + 1
      <3>1. writer[c].at # "select" /\ writer'[c].at = "select"
        BY <1>1, <2>5
      <3> QED
        BY <1>1, <1>8, <2>5, <3>1, TurnWaited DEF n
    <2>7. /\ answered' = [answered EXCEPT ![c] = Append(@, first)]
          /\ answered'[c] = a
          /\ \A d \in Connections \ {c} :
                /\ answered'[d] = answered[d]
                /\ unflushed'[d] = unflushed[d] /\ dirty'[d] = dirty[d]
          /\ BufferTrue(c)'
      BY <1>8, WriteEffect DEF a
    <2>8. ConnectionInv(c)'
      <3>1. queues'[c] = [q EXCEPT ![k] = Append(@, n + 1)]
        BY <2>2, <2>4
      <3>2. InOrder(asked'[c], queues'[c], answered'[c], Handled(c)')
        BY <1>1, <2>3, <2>6, <2>7, <3>1
      <3> QED
        BY <1>1, <2>6, <2>7, <3>2 DEF ConnectionInv
    <2>9. Answers(c)
      BY <1>1, <2>1, <2>7 DEF Answers
    <2> QED
      BY <1>1, <1>8, <2>4, <2>5, <2>7, <2>8, <2>9 DEF Effect, OthersSame, SameAt
  <1> QED
    BY <1>7, <1>8 DEF FrontReady, RequestAt

\* It has the answer to the request it waits at.
LEMMA WaitedEffect ==
    ASSUME TypeOK, NEW c \in Connections, ConnectionInv(c),
           ShutdownReady(c) \/ Subscribed(c)
    PROVE  Effect(c)
  <1> DEFINE id == writer[c].id
             n == Handled(c)
  <1>1. /\ writer[c].at \in {"shutdown", "metrics"}
        /\ WriteAnswer(c, id) /\ GoTo(c, "select", 0)
        /\ UNCHANGED <<asked, reader, responses, queues, closed>>
    BY DEF ShutdownReady, Subscribed, At, readerVars
  <1>2. id = n + 1 /\ id \in 1 .. Len(asked[c])
    BY <1>1, NextWaited
  <1>3. InOrder(asked[c], queues[c], answered[c], n) /\ n + 1 <= Len(asked[c])
    BY <1>2, TypeAt, Turn DEF ConnectionInv
  <1>4. asked[c][id].class \notin QueueClasses
    BY <1>1 DEF ConnectionInv, InTurn, RequestAt
  <1> HIDE DEF n
  <1>5. /\ InOrder(asked[c], queues[c], Append(answered[c], n + 1), n + 1)
        /\ MayAnswer(asked[c], answered[c], n + 1)
    BY <1>2, <1>3, <1>4, TypeAt, OrderAnsweredNext
  <1>6. /\ writer'[c] = [at |-> "select", id |-> 0]
        /\ \A d \in Connections \ {c} : writer'[d] = writer[d]
    BY <1>1 DEF GoTo, TypeOK
  <1>7. InTurn(c)' /\ Handled(c)' = n + 1
    <2>1. writer[c].at # "select" /\ writer'[c].at = "select"
      BY <1>1, <1>6
    <2> QED
      BY <1>1, <1>6, <2>1, TurnWaited DEF n
  <1>8. /\ answered' = [answered EXCEPT ![c] = Append(@, id)]
        /\ answered'[c] = Append(answered[c], n + 1)
        /\ \A d \in Connections \ {c} :
              /\ answered'[d] = answered[d]
              /\ unflushed'[d] = unflushed[d] /\ dirty'[d] = dirty[d]
        /\ BufferTrue(c)'
    BY <1>1, <1>2, WriteEffect
  <1>9. ConnectionInv(c)'
    BY <1>1, <1>5, <1>7, <1>8 DEF ConnectionInv
  <1>10. Answers(c)
    BY <1>1, <1>2, <1>5, <1>8 DEF Answers
  <1> QED
    BY <1>1, <1>6, <1>8, <1>9, <1>10 DEF Effect, OthersSame, SameAt

\* It answers the first of a queue, or fails.
LEMMA QueueEffect ==
    ASSUME TypeOK, NEW c \in Connections, ConnectionInv(c),
           NEW k \in QueueClasses, AnswerQueue(c, k)
    PROVE  Effect(c)
  <1> DEFINE id == Head(queues[c][k])
             n == Handled(c)
  <1>1. /\ queues[c][k] # <<>>
        /\ UNCHANGED <<asked, reader, responses, writer, closed>>
    BY DEF AnswerQueue, HeadReady, readerVars
  <1>2. CASE UNCHANGED <<bufferVars, queues>>
    <2>1. (\A d \in Connections : SameAt(d)) /\ Quiet
      BY <1>1, <1>2, AllSame DEF bufferVars
    <2> QED
      BY <2>1, SameKept DEF Effect, OthersSame
  <1>3. CASE /\ WriteAnswer(c, id)
             /\ queues' = [queues EXCEPT ![c][k] = Tail(@)]
    <2>1. /\ InOrder(asked[c], [queues[c] EXCEPT ![k] = Tail(@)],
                     Append(answered[c], id), n)
          /\ MayAnswer(asked[c], answered[c], id)
      <3>1. InOrder(asked[c], queues[c], answered[c], n)
        BY DEF ConnectionInv
      <3> QED
        BY <1>1, <3>1, TypeAt, OrderAnsweredHead
    <2>2. /\ queues'[c] = [queues[c] EXCEPT ![k] = Tail(@)]
          /\ \A d \in Connections \ {c} : queues'[d] = queues[d]
      BY <1>3 DEF TypeOK
    <2>3. /\ answered' = [answered EXCEPT ![c] = Append(@, id)]
          /\ answered'[c] = Append(answered[c], id)
          /\ \A d \in Connections \ {c} :
                /\ answered'[d] = answered[d]
                /\ unflushed'[d] = unflushed[d] /\ dirty'[d] = dirty[d]
          /\ BufferTrue(c)'
      BY <1>3, WriteEffect
    <2>4. InTurn(c)' /\ Handled(c)' = n
      BY <1>1, TurnSame
    <2>5. ConnectionInv(c)'
      BY <1>1, <2>1, <2>2, <2>3, <2>4 DEF ConnectionInv
    <2>6. Answers(c)
      BY <1>1, <2>1, <2>3 DEF Answers
    <2> QED
      BY <1>1, <2>2, <2>3, <2>5, <2>6 DEF Effect, OthersSame, SameAt
  <1> QED
    BY <1>2, <1>3 DEF AnswerQueue

\* What else the writer does answers nothing.
LEMMA WriterEffect ==
    ASSUME TypeOK, NEW c \in Connections, ConnectionInv(c),
           Subscribe(c) \/ CloseNotifications(c) \/ StreamEvent(c) \/ Flush(c)
    PROVE  Effect(c) /\ Quiet
  <1>1. UNCHANGED <<asked, reader, responses, queues, answered>>
    BY DEF Subscribe, CloseNotifications, StreamEvent, Flush, readerVars, bufferVars
  <1>2. BufferTrue(c) /\ unflushed[c] \in Nat /\ Len(answered[c]) \in Nat
    BY TypeAt DEF ConnectionInv
  <1>3. CASE Subscribe(c)
    <2>1. UNCHANGED <<closed, unflushed, dirty>> /\ writer[c].at = "subscribe"
      BY <1>3 DEF Subscribe, bufferVars, At
    <2>2. /\ writer'[c] = [at |-> "metrics", id |-> writer[c].id]
          /\ \A d \in Connections \ {c} : writer'[d] = writer[d]
      BY <1>3 DEF Subscribe, GoTo, TypeOK
    <2>3. InTurn(c)' /\ Handled(c)' = Handled(c)
      BY <1>1, <2>1, <2>2, TurnWaited
    <2>4. ConnectionInv(c)'
      BY <1>1, <2>1, <2>3 DEF ConnectionInv, BufferTrue
    <2> QED
      BY <1>1, <2>1, <2>2, <2>4 DEF Effect, OthersSame, SameAt, Quiet
  <1>4. CASE CloseNotifications(c)
    <2>1. /\ UNCHANGED <<writer, unflushed, dirty>>
          /\ responses[c] = <<>> /\ reader[c] = "end"
          /\ \A d \in Connections \ {c} : closed'[d] = closed[d]
      BY <1>4 DEF CloseNotifications, bufferVars, TypeOK
    <2>2. InTurn(c)' /\ Handled(c)' = Handled(c)
      BY <1>1, <2>1, TurnClosed
    <2>3. ConnectionInv(c)'
      BY <1>1, <2>1, <2>2 DEF ConnectionInv, BufferTrue
    <2> QED
      BY <1>1, <2>1, <2>3 DEF Effect, OthersSame, SameAt, Quiet
  <1>5. CASE StreamEvent(c) \/ Flush(c)
    <2>1. UNCHANGED <<writer, closed>>
      BY <1>5 DEF StreamEvent, Flush
    <2>2. /\ \A d \in Connections \ {c} :
                unflushed'[d] = unflushed[d] /\ dirty'[d] = dirty[d]
          /\ BufferTrue(c)'
      <3>1. CASE UNCHANGED <<unflushed, dirty>>
        BY <1>1, <1>2, <3>1 DEF BufferTrue
      <3>2. CASE /\ \E n \in {0, unflushed[c]} : unflushed' = [unflushed EXCEPT ![c] = n]
                 /\ dirty' = [dirty EXCEPT ![c] = TRUE]
        <4>1. PICK n \in {0, unflushed[c]} : unflushed' = [unflushed EXCEPT ![c] = n]
          BY <3>2
        <4>2. unflushed'[c] = n /\ dirty'[c]
          BY <3>2, <4>1 DEF TypeOK
        <4>3. n <= Len(answered[c])
          BY <1>2, <4>1 DEF BufferTrue
        <4> QED
          BY <1>1, <3>2, <4>1, <4>2, <4>3 DEF BufferTrue, TypeOK
      <3>3. CASE /\ unflushed' = [unflushed EXCEPT ![c] = 0]
                 /\ dirty' = [dirty EXCEPT ![c] = FALSE]
        <4>1. unflushed'[c] = 0
          BY <3>3 DEF TypeOK
        <4> QED
          BY <1>1, <1>2, <3>3, <4>1 DEF BufferTrue, TypeOK
      <3> QED
        BY <1>5, <3>1, <3>2, <3>3 DEF StreamEvent, Flush
    <2>3. InTurn(c)' /\ Handled(c)' = Handled(c)
      BY <1>1, <2>1, TurnSame
    <2>4. ConnectionInv(c)'
      BY <1>1, <2>2, <2>3 DEF ConnectionInv
    <2> QED
      BY <1>1, <2>1, <2>2, <2>4 DEF Effect, OthersSame, SameAt, Quiet
  <1> QED
    BY <1>3, <1>4, <1>5

\* The connection ends, or the rest of the server takes a step.
LEMMA RestEffect ==
    ASSUME \/ \E c \in Connections : ConnectionError(c) \/ Finish(c) \/ Cancel(c)
           \/ HandleMessage \/ Signal \/ HandleMetrics \/ LogEvent \/ UNCHANGED vars
    PROVE  (\A d \in Connections : SameAt(d)) /\ Quiet
  <1>1. UNCHANGED <<asked, reader, responses, queues, writer, closed, answered,
                    unflushed, dirty>>
    BY DEF ConnectionError, Finish, Cancel, HandleMessage, Signal, HandleMetrics, LogEvent,
           vars, readerVars, writerVars
  <1> QED
    BY <1>1, AllSame

\* Only an open connection takes steps.
LEMMA Opened ==
    ASSUME NEW c \in Connections, Read(c) \/ ReadEof(c) \/ ReaderStep(c) \/ WriterStep(c)
    PROVE  Open(c)
  BY DEF Read, ReadEof, ReaderStep, SendMessage, RequestMetrics, Notify, WriterStep,
         TakeNotification, FrontReady, ShutdownReady, Subscribe, Subscribed,
         CloseNotifications, AnswerQueue, StreamEvent, Flush, Finish, Selecting, At

\* Every step keeps the connections' invariant, leaves those that are over alone, and
\* is one of Pipeline.
LEMMA ConnectionStep ==
    ASSUME TypeOK, \A c \in Connections : ConnectionInv(c), [Next]_vars
    PROVE  /\ \A c \in Connections : ConnectionInv(c)'
           /\ \A c \in Connections : ~Open(c) => SameAt(c)
           /\ Quiet \/ \E c \in Connections : Asks(c) \/ Answers(c)
  <1>1. ASSUME NEW c \in Connections, Effect(c), Open(c)
        PROVE  /\ \A d \in Connections : ConnectionInv(d)'
               /\ \A d \in Connections : ~Open(d) => SameAt(d)
               /\ Quiet \/ \E d \in Connections : Asks(d) \/ Answers(d)
    <2>1. ASSUME NEW d \in Connections PROVE ConnectionInv(d)'
      BY <1>1, SameKept DEF Effect, OthersSame
    <2>2. ASSUME NEW d \in Connections, ~Open(d) PROVE SameAt(d)
      BY <1>1, <2>2 DEF Effect, OthersSame
    <2> QED
      BY <1>1, <2>1, <2>2 DEF Effect
  <1>2. CASE \E c \in Connections : Read(c) \/ ReadEof(c) \/ ReaderStep(c)
    BY <1>1, <1>2, ReadEffect, ReaderEffect, NotifyEffect, Opened DEF ReaderStep
  <1>3. CASE \E c \in Connections : WriterStep(c) /\ ~Finish(c)
    <2>1. PICK c \in Connections : WriterStep(c) /\ ~Finish(c)
      BY <1>3
    <2>2. Open(c)
      BY <2>1, Opened
    <2>3. CASE TakeNotification(c) \/ FrontReady(c)
      BY <1>1, <2>2, <2>3, TakeEffect, FrontEffect
    <2>4. CASE ShutdownReady(c) \/ Subscribed(c)
      BY <1>1, <2>2, <2>4, WaitedEffect
    <2>5. CASE \E k \in QueueClasses : AnswerQueue(c, k)
      BY <1>1, <2>2, <2>5, QueueEffect
    <2>6. CASE Subscribe(c) \/ CloseNotifications(c) \/ StreamEvent(c) \/ Flush(c)
      BY <1>1, <2>2, <2>6, WriterEffect
    <2> QED
      BY <2>1, <2>3, <2>4, <2>5, <2>6 DEF WriterStep
  <1>4. CASE \/ \E c \in Connections : ConnectionError(c) \/ Finish(c) \/ Cancel(c)
             \/ HandleMessage \/ Signal \/ HandleMetrics \/ LogEvent \/ UNCHANGED vars
    <2>1. (\A d \in Connections : SameAt(d)) /\ Quiet
      BY <1>4, RestEffect
    <2>2. ASSUME NEW d \in Connections PROVE ConnectionInv(d)'
      BY <2>1, SameKept
    <2> QED
      BY <2>1, <2>2
  <1>5. [Next]_vars => \/ Next
                      \/ UNCHANGED vars
    OBVIOUS
  <1> QED
    BY <1>2, <1>3, <1>4, <1>5 DEF Next

-----------------------------------------------------------------------------
(* The types                                                               *)

\* The types of the reader's variables,
ReaderType ==
    /\ plan \in Plans
    /\ asked \in [Connections -> Seq(Menu)]
    /\ reader \in [Connections -> {"read", "message", "metrics", "notify", "end"}]
    /\ responses \in [Connections -> Seq(Ids)]
    /\ \A c \in Connections : Len(responses[c]) <= ResponseCap

\* of the writer's,
WriterType ==
    /\ queues \in [Connections -> [QueueClasses -> Seq(Ids)]]
    /\ \A c \in Connections : \A k \in QueueClasses : Len(queues[c][k]) <= ReceiverCap
    /\ writer \in [Connections -> [at : {"select", "front", "shutdown",
                                         "subscribe", "metrics"}, id : Ids \cup {0}]]
    /\ closed \in [Connections -> BOOLEAN]

\* of its buffer,
BufferType ==
    /\ answered \in [Connections -> Seq(Ids)]
    /\ unflushed \in [Connections -> Nat]
    /\ dirty \in [Connections -> BOOLEAN]

\* of the main loop's and the metrics task's,
LoopType ==
    /\ running \in BOOLEAN
    /\ listeners \in [SocketClasses -> SUBSET (Addresses \ BadAddresses)]
    /\ messages \in Seq(Connections \X Ids) /\ Len(messages) <= MessageCap
    /\ metrics \in Seq(Connections \X Ids) /\ Len(metrics) <= MetricsCap
    /\ listed \in [Connections -> [Ids -> SUBSET Addresses]]

\* and of what a connection and they share.
SharedType ==
    /\ result \in [Connections -> [Ids -> Results]]
    /\ events \in [Connections -> 0 .. Off]
    /\ phase \in [Connections -> {"none", "open", "finished", "failed", "cancelled"}]

\* They are the parts of TypeOK, but for the bound on unflushed.
LEMMA TypeParts ==
    TypeOK <=> /\ ReaderType /\ WriterType /\ BufferType /\ LoopType /\ SharedType
               /\ unflushed \in [Connections -> 0 .. MaxRequests]
  <1>1. unflushed \in [Connections -> 0 .. MaxRequests]
           => unflushed \in [Connections -> Nat]
    OBVIOUS
  <1> QED
    BY <1>1 DEF TypeOK, ReaderType, WriterType, BufferType, LoopType, SharedType

\* The capacities are numbers.
LEMMA Capacities ==
    /\ MessageCap \in Nat \ {0} /\ MetricsCap \in Nat \ {0}
    /\ ResponseCap \in Nat \ {0} /\ ReceiverCap \in Nat \ {0}
    /\ EventCap \in Nat \ {0} /\ MaxRequests \in Nat
  BY SandstormServerAssumption

\* A step that leaves a group of variables alone keeps its types: the reader,
LEMMA SameReader ==
    ReaderType /\ UNCHANGED <<plan, asked, reader, responses>> => ReaderType'
  BY DEF ReaderType

\* the writer,
LEMMA SameWriter ==
    WriterType /\ UNCHANGED <<queues, writer, closed>> => WriterType'
  BY DEF WriterType

\* its buffer,
LEMMA SameBuffer ==
    BufferType /\ UNCHANGED <<answered, unflushed, dirty>> => BufferType'
  BY DEF BufferType

\* the main loop and the metrics task,
LEMMA SameLoop ==
    LoopType /\ UNCHANGED <<running, listeners, messages, metrics, listed>> => LoopType'
  BY DEF LoopType

\* and what they share.
LEMMA SameShared ==
    SharedType /\ UNCHANGED <<result, events, phase>> => SharedType'
  BY DEF SharedType

\* The request a reader is busy with was asked.
LEMMA LatestAsked ==
    ASSUME TypeOK, NEW c \in Connections, ConnectionInv(c), reader[c] \notin {"read", "end"}
    PROVE  Latest(c) \in 1 .. Len(asked[c]) /\ Latest(c) \in Ids
  <1>1. Notified(c) = Len(asked[c]) - 1 /\ Notified(c) >= 0 /\ Len(asked[c]) \in Nat
    BY Turn, TypeAt DEF Notified
  <1>2. Len(asked[c]) <= MaxRequests
    BY DEF ConnectionInv
  <1> QED
    BY <1>1, <1>2, Capacities DEF Latest, Ids

\* A buffer keeps its types when an answer goes into it.
LEMMA WriteType ==
    ASSUME TypeOK, NEW c \in Connections, ConnectionInv(c), NEW id \in Ids,
           WriteAnswer(c, id) \/ WriteAndFlush(c, id)
    PROVE  BufferType'
  <1>1. /\ answered' = [answered EXCEPT ![c] = Append(@, id)]
        /\ unflushed' \in [Connections -> Nat]
        /\ dirty' \in [Connections -> BOOLEAN]
    BY WriteEffect
  <1>2. answered \in [Connections -> Seq(Ids)] /\ Append(answered[c], id) \in Seq(Ids)
    BY TypeAt DEF TypeOK
  <1> QED
    BY <1>1, <1>2 DEF BufferType

\* A connection fails, ends or does not.
LEMMA PhaseType ==
    ASSUME TypeOK, NEW c \in Connections, NEW p \in {"finished", "failed", "cancelled"},
           phase' = [phase EXCEPT ![c] = p], UNCHANGED <<result, events>>
    PROVE  SharedType'
  BY DEF TypeOK, SharedType

\* The steps of a reader keep the types.
LEMMA ReaderTypes ==
    ASSUME TypeOK, NEW c \in Connections, ConnectionInv(c),
           Read(c) \/ ReadEof(c) \/ ReaderStep(c)
    PROVE  ReaderType' /\ WriterType' /\ BufferType' /\ LoopType' /\ SharedType'
  <1>1. ReaderType /\ WriterType /\ BufferType /\ LoopType /\ SharedType
    BY TypeParts
  <1>2. WriterType' /\ BufferType'
    <2>1. UNCHANGED <<queues, writer, closed, answered, unflushed, dirty>>
      BY DEF Read, ReadEof, ReaderStep, SendMessage, RequestMetrics, Notify, writerVars
    <2> QED
      BY <1>1, <2>1, SameWriter, SameBuffer
  <1>3. CASE Read(c)
    <2>1. UNCHANGED <<plan, running, listeners, messages, metrics, listed, responses,
                      events, phase>>
      BY <1>3 DEF Read, loopVars
    <2>2. asked' \in [Connections -> Seq(Menu)]
      BY <1>3, ReadEffect
    <2>3. \E request : reader' = [reader EXCEPT ![c] = Route(request)]
      BY <1>3 DEF Read
    <2>4. reader' \in [Connections -> {"read", "message", "metrics", "notify", "end"}]
      BY <1>1, <2>3 DEF ReaderType, Route
    <2>5. \E id \in Ids, r \in Results : result' = [result EXCEPT ![c][id] = r]
      <3>0. Len(asked[c]) + 1 \in Ids
        <4>1. plan.most \in 0 .. MaxRequests /\ Len(asked[c]) < plan.most
          BY <1>1, <1>3, SandstormServerAssumption DEF Read, ReaderType
        <4> QED
          BY <4>1, TypeAt, Capacities DEF Ids
      <3>1. PICK request : result' = [result EXCEPT ![c][Len(asked[c]) + 1] =
                                         IF Immediate(request) THEN "Ok" ELSE "pending"]
        BY <1>3 DEF Read
      <3> QED
        BY <3>0, <3>1 DEF Results
    <2>6. result' \in [Connections -> [Ids -> Results]]
      BY <1>1, <2>5 DEF SharedType
    <2>7. ReaderType'
      BY <1>1, <2>1, <2>2, <2>4 DEF ReaderType
    <2>8. SharedType'
      BY <1>1, <2>1, <2>6 DEF SharedType
    <2> QED
      BY <1>1, <1>2, <2>1, <2>7, <2>8, SameLoop
  <1>4. CASE ReadEof(c)
    <2>1. /\ UNCHANGED <<plan, running, listeners, messages, metrics, listed, asked,
                         result, responses, events, phase>>
          /\ reader' = [reader EXCEPT ![c] = "end"]
      BY <1>4 DEF ReadEof, loopVars
    <2>2. ReaderType'
      BY <1>1, <2>1 DEF ReaderType
    <2> QED
      BY <1>1, <1>2, <2>1, <2>2, SameLoop, SameShared
  <1>5. CASE SendMessage(c)
    <2>1. /\ UNCHANGED <<plan, running, listeners, metrics, listed, asked, responses,
                         events, phase>>
          /\ reader' = [reader EXCEPT ![c] = "notify"]
      BY <1>5 DEF SendMessage
    <2>2. ReaderType'
      BY <1>1, <2>1 DEF ReaderType
    <2>3. Latest(c) \in Ids
      BY <1>5, LatestAsked DEF SendMessage
    <2>4. \/ /\ messages' = Append(messages, <<c, Latest(c)>>) /\ Len(messages) < MessageCap
             /\ result' = result
          \/ /\ messages' = messages
             /\ result' = [result EXCEPT ![c][Latest(c)] = "dropped"]
      BY <1>5 DEF SendMessage
    <2>5. LoopType'
      <3>1. CASE messages' = messages
        BY <1>1, <2>1, <3>1, SameLoop
      <3>2. CASE messages' = Append(messages, <<c, Latest(c)>>) /\ Len(messages) < MessageCap
        <4>1. messages \in Seq(Connections \X Ids) /\ <<c, Latest(c)>> \in Connections \X Ids
          BY <1>1, <2>3 DEF LoopType
        <4>2. messages' \in Seq(Connections \X Ids) /\ Len(messages') = Len(messages) + 1
          BY <3>2, <4>1, AppendProperties
        <4>3. Len(messages') <= MessageCap
          BY <3>2, <4>1, <4>2, Capacities
        <4> QED
          BY <1>1, <2>1, <4>2, <4>3 DEF LoopType
      <3> QED
        BY <2>4, <3>1, <3>2
    <2>6. SharedType'
      BY <1>1, <2>1, <2>3, <2>4 DEF SharedType, Results
    <2> QED
      BY <1>2, <2>2, <2>5, <2>6
  <1>6. CASE RequestMetrics(c)
    <2>1. /\ UNCHANGED <<plan, running, listeners, messages, listed, asked, result,
                         responses, events, phase>>
          /\ reader' = [reader EXCEPT ![c] = "notify"]
          /\ metrics' = Append(metrics, <<c, Latest(c)>>) /\ Len(metrics) < MetricsCap
      BY <1>6 DEF RequestMetrics, loopVars
    <2>2. ReaderType'
      BY <1>1, <2>1 DEF ReaderType
    <2>3. Latest(c) \in Ids
      BY <1>6, LatestAsked DEF RequestMetrics
    <2>4. metrics \in Seq(Connections \X Ids) /\ <<c, Latest(c)>> \in Connections \X Ids
      BY <1>1, <2>3 DEF LoopType
    <2>5. metrics' \in Seq(Connections \X Ids) /\ Len(metrics') = Len(metrics) + 1
      BY <2>1, <2>4, AppendProperties
    <2>6. Len(metrics') <= MetricsCap
      BY <2>1, <2>4, <2>5, Capacities
    <2>7. LoopType'
      BY <1>1, <2>1, <2>5, <2>6 DEF LoopType
    <2> QED
      BY <1>1, <1>2, <2>1, <2>2, <2>7, SameShared
  <1>7. CASE Notify(c)
    <2>1. /\ UNCHANGED <<plan, running, listeners, messages, metrics, listed, asked,
                         result, events, phase>>
          /\ reader' = [reader EXCEPT ![c] = "read"]
          /\ responses' = [responses EXCEPT ![c] = Append(@, Latest(c))]
          /\ Len(responses[c]) < ResponseCap
      BY <1>7 DEF Notify, loopVars
    <2>2. Latest(c) \in Ids
      BY <1>7, LatestAsked DEF Notify
    <2>3. /\ Append(responses[c], Latest(c)) \in Seq(Ids)
          /\ Len(Append(responses[c], Latest(c))) = Len(responses[c]) + 1
      BY <2>2, TypeAt, AppendProperties
    <2>4. Len(responses[c]) + 1 <= ResponseCap
      BY <2>1, TypeAt, Capacities
    <2>5. ReaderType'
      BY <1>1, <2>1, <2>3, <2>4 DEF ReaderType
    <2> QED
      BY <1>1, <1>2, <2>1, <2>5, SameLoop, SameShared
  <1> QED
    BY <1>3, <1>4, <1>5, <1>6, <1>7 DEF ReaderStep

\* A receiver that joins a queue leaves it within its capacity.
LEMMA QueueJoined ==
    ASSUME WriterType, NEW c \in Connections, NEW k \in QueueClasses, NEW q \in Seq(Ids),
           Len(q) <= ReceiverCap, queues' = [queues EXCEPT ![c][k] = q],
           UNCHANGED closed, UNCHANGED writer \/ GoTo(c, "select", 0)
    PROVE  WriterType'
  <1>1. /\ queues' \in [Connections -> [QueueClasses -> Seq(Ids)]]
        /\ \A d \in Connections : \A j \in QueueClasses :
              queues'[d][j] = IF d = c /\ j = k THEN q ELSE queues[d][j]
    BY DEF WriterType
  <1>2. \A d \in Connections : \A j \in QueueClasses : Len(queues'[d][j]) <= ReceiverCap
    BY <1>1 DEF WriterType
  <1>3. writer' \in [Connections -> [at : {"select", "front", "shutdown",
                                           "subscribe", "metrics"}, id : Ids \cup {0}]]
    <2>1. CASE UNCHANGED writer
      BY <2>1 DEF WriterType
    <2>2. CASE GoTo(c, "select", 0)
      BY <2>2 DEF WriterType, GoTo
    <2> QED
      BY <2>1, <2>2
  <1> QED
    BY <1>1, <1>2, <1>3 DEF WriterType

\* The writer goes somewhere else.
LEMMA WriterMoved ==
    ASSUME WriterType, NEW c \in Connections, NEW id \in Ids \cup {0},
           NEW place \in {"select", "front", "shutdown", "subscribe", "metrics"},
           GoTo(c, place, id), UNCHANGED <<queues, closed>>
    PROVE  WriterType'
  BY DEF WriterType, GoTo

\* Taking a notification keeps the types.
LEMMA TakeTypes ==
    ASSUME TypeOK, NEW c \in Connections, ConnectionInv(c), TakeNotification(c)
    PROVE  ReaderType' /\ WriterType' /\ BufferType' /\ LoopType' /\ SharedType'
  <1> DEFINE id == Head(responses[c])
             k == asked[c][id].class
  <1>1. ReaderType /\ WriterType /\ BufferType /\ LoopType /\ SharedType
    BY TypeParts
  <1>2. /\ responses' = [responses EXCEPT ![c] = Tail(@)] /\ responses[c] # <<>>
        /\ writer[c].at = "select"
        /\ UNCHANGED <<plan, asked, reader, running, listeners, messages, metrics, listed,
                       result, closed, phase>>
    BY DEF TakeNotification, Selecting, At, readerVars, loopVars
  <1>3. id \in Ids
    BY <1>2, NextNotified
  <1>4. ReaderType'
    <2>1. /\ Tail(responses[c]) \in Seq(Ids)
          /\ Len(Tail(responses[c])) = Len(responses[c]) - 1
          /\ Len(responses[c]) \in Nat \ {0}
      BY <1>2, TypeAt, TailOf
    <2>2. Len(Tail(responses[c])) <= ResponseCap
      BY <1>1, <2>1, Capacities DEF ReaderType
    <2> QED
      BY <1>1, <1>2, <2>1, <2>2 DEF ReaderType
  <1>5. LoopType'
    BY <1>1, <1>2, SameLoop
  <1> HIDE DEF id
  <1>6. SharedType'
    <2>1. events' = events \/ events' = [events EXCEPT ![c] = Off]
      BY DEF TakeNotification
    <2>2. Off \in 0 .. Off
      BY Capacities DEF Off
    <2>3. events' \in [Connections -> 0 .. Off]
      BY <1>1, <2>1, <2>2 DEF SharedType
    <2> QED
      BY <1>1, <1>2, <2>3 DEF SharedType
  <1>7. CASE /\ k \in QueueClasses /\ HasRoom(c, k)
             /\ queues' = [queues EXCEPT ![c][k] = Append(@, id)]
             /\ UNCHANGED <<writer, answered, unflushed, dirty>>
    <2> DEFINE q == Append(queues[c][k], id)
    <2>1. queues[c][k] \in Seq(Ids) /\ Len(queues[c][k]) \in Nat
      BY <1>7, TypeAt
    <2>2. q \in Seq(Ids) /\ Len(q) = Len(queues[c][k]) + 1
      BY <1>3, <2>1, AppendProperties
    <2>3. Len(q) <= ReceiverCap
      BY <1>7, <2>1, <2>2, Capacities DEF HasRoom
    <2>4. queues' = [queues EXCEPT ![c][k] = q]
      BY <1>7
    <2> HIDE DEF q, k
    <2>5. WriterType'
      BY <1>1, <1>2, <1>7, <2>2, <2>3, <2>4, QueueJoined
    <2> QED
      BY <1>1, <1>4, <1>5, <1>6, <1>7, <2>5, SameBuffer
  <1>8. CASE /\ GoTo(c, "front", id) \/ GoTo(c, "shutdown", id) \/ GoTo(c, "subscribe", id)
             /\ UNCHANGED <<queues, answered, unflushed, dirty>>
    <2>1. WriterType'
      BY <1>1, <1>2, <1>3, <1>8, WriterMoved
    <2> QED
      BY <1>1, <1>4, <1>5, <1>6, <1>8, <2>1, SameBuffer
  <1>9. CASE /\ WriteAnswer(c, id) \/ WriteAndFlush(c, id)
             /\ UNCHANGED <<queues, writer>>
    <2>1. WriterType'
      BY <1>1, <1>2, <1>9, SameWriter
    <2> QED
      BY <1>3, <1>4, <1>5, <1>6, <1>9, <2>1, WriteType
  <1> QED
    BY <1>7, <1>8, <1>9 DEF TakeNotification, RequestAt, bufferVars, id

\* So does an answer from a queue.
LEMMA QueueTypes ==
    ASSUME TypeOK, NEW c \in Connections, ConnectionInv(c),
           FrontReady(c) \/ \E k \in QueueClasses : AnswerQueue(c, k)
    PROVE  ReaderType' /\ WriterType' /\ BufferType' /\ LoopType' /\ SharedType'
  <1>1. ReaderType /\ WriterType /\ BufferType /\ LoopType /\ SharedType
    BY TypeParts
  <1>2. UNCHANGED <<plan, asked, reader, responses, running, listeners, messages, metrics,
                    listed, result, events, closed>>
    BY DEF FrontReady, AnswerQueue, readerVars, loopVars, writerVars
  <1>3. SharedType'
    BY <1>1, <1>2 DEF FrontReady, AnswerQueue, Fail, SharedType
  <1>4. ReaderType' /\ LoopType'
    BY <1>1, <1>2, SameReader, SameLoop
  <1>5. ASSUME NEW k \in QueueClasses, queues[c][k] # <<>>
        PROVE  /\ queues[c][k] \in Seq(Ids) /\ Head(queues[c][k]) \in Ids
               /\ Tail(queues[c][k]) \in Seq(Ids)
               /\ Len(queues[c][k]) \in Nat \ {0} /\ Len(queues[c][k]) <= ReceiverCap
               /\ Len(Tail(queues[c][k])) = Len(queues[c][k]) - 1
    <2>1. queues[c][k] \in Seq(Ids)
      BY TypeAt
    <2> QED
      BY <1>1, <1>5, <2>1, TailOf DEF WriterType
  <1>6. CASE FrontReady(c)
    <2> DEFINE id == writer[c].id
               k == asked[c][id].class
               q == Append(Tail(queues[c][k]), id)
    <2>1. writer[c].at = "front" /\ queues[c][k] # <<>>
      BY <1>6 DEF FrontReady, At, HeadReady, RequestAt
    <2>2. k \in QueueClasses /\ id \in Ids
      BY <2>1, NextWaited DEF ConnectionInv, InTurn, RequestAt
    <2> HIDE DEF id, k
    <2>3. /\ q \in Seq(Ids) /\ Len(q) = Len(Tail(queues[c][k])) + 1
          /\ Len(Tail(queues[c][k])) = Len(queues[c][k]) - 1
          /\ Len(queues[c][k]) \in Nat /\ Len(queues[c][k]) <= ReceiverCap
      BY <1>5, <2>1, <2>2, AppendProperties
    <2>4. Len(q) <= ReceiverCap
      BY <2>3, Capacities
    <2> HIDE DEF q
    <2>5. CASE UNCHANGED <<queues, writer, answered, unflushed, dirty>>
      BY <1>1, <1>2, <1>3, <1>4, <2>5, SameWriter, SameBuffer
    <2>6. CASE /\ WriteAnswer(c, Head(queues[c][k]))
               /\ queues' = [queues EXCEPT ![c][k] = q]
               /\ GoTo(c, "select", 0)
      <3>1. WriterType'
        BY <1>1, <1>2, <2>2, <2>3, <2>4, <2>6, QueueJoined
      <3>2. BufferType'
        BY <1>5, <2>1, <2>2, <2>6, WriteType
      <3> QED
        BY <1>3, <1>4, <3>1, <3>2
    <2> QED
      BY <1>6, <2>5, <2>6 DEF FrontReady, RequestAt, writerVars, id, k, q
  <1>7. ASSUME NEW k \in QueueClasses, AnswerQueue(c, k)
        PROVE  WriterType' /\ BufferType'
    <2> DEFINE q == Tail(queues[c][k])
    <2>1. queues[c][k] # <<>> /\ UNCHANGED writer
      BY <1>7 DEF AnswerQueue, HeadReady
    <2>2. q \in Seq(Ids) /\ Len(q) <= ReceiverCap
      BY <1>5, <2>1, Capacities
    <2> HIDE DEF q
    <2>3. CASE UNCHANGED <<queues, answered, unflushed, dirty>>
      BY <1>1, <1>2, <2>1, <2>3, SameWriter, SameBuffer
    <2>4. CASE /\ WriteAnswer(c, Head(queues[c][k]))
               /\ queues' = [queues EXCEPT ![c][k] = q]
      <3>1. WriterType'
        BY <1>1, <1>2, <2>1, <2>2, <2>4, QueueJoined
      <3>2. BufferType'
        BY <1>5, <2>1, <2>4, WriteType
      <3> QED
        BY <3>1, <3>2
    <2> QED
      BY <1>7, <2>3, <2>4 DEF AnswerQueue, bufferVars, q
  <1> QED
    BY <1>3, <1>4, <1>6, <1>7

\* And the writer's other steps.
LEMMA WriterTypes ==
    ASSUME TypeOK, NEW c \in Connections, ConnectionInv(c),
           \/ ShutdownReady(c) \/ Subscribe(c) \/ Subscribed(c) \/ CloseNotifications(c)
           \/ StreamEvent(c) \/ Flush(c) \/ Finish(c)
    PROVE  ReaderType' /\ WriterType' /\ BufferType' /\ LoopType' /\ SharedType'
  <1>1. ReaderType /\ WriterType /\ BufferType /\ LoopType /\ SharedType
    BY TypeParts
  <1>2. ReaderType'
    <2>1. UNCHANGED <<plan, asked, reader, responses>>
      BY DEF ShutdownReady, Subscribe, Subscribed, CloseNotifications, StreamEvent, Flush,
             Finish, readerVars
    <2> QED
      BY <1>1, <2>1, SameReader
  <1>3. CASE ShutdownReady(c) \/ Subscribed(c)
    <2>1. /\ UNCHANGED <<running, listeners, messages, metrics, listed, result, events,
                         phase, queues, closed>>
          /\ WriteAnswer(c, writer[c].id) /\ GoTo(c, "select", 0)
          /\ writer[c].at # "select"
      BY <1>3 DEF ShutdownReady, Subscribed, At, loopVars
    <2>2. writer[c].id \in Ids
      BY <2>1, NextWaited
    <2>3. WriterType' /\ BufferType'
      BY <1>1, <2>1, <2>2, WriterMoved, WriteType
    <2> QED
      BY <1>1, <1>2, <2>1, <2>3, SameLoop, SameShared
  <1>4. CASE Subscribe(c)
    <2>1. /\ UNCHANGED <<running, listeners, messages, listed, result, events, phase, queues,
                         closed, answered, unflushed, dirty>>
          /\ metrics' = Append(metrics, <<c, writer[c].id>>) /\ Len(metrics) < MetricsCap
          /\ GoTo(c, "metrics", writer[c].id)
          /\ writer[c].at # "select"
      BY <1>4 DEF Subscribe, At, loopVars, bufferVars
    <2>2. writer[c].id \in Ids
      BY <2>1, NextWaited
    <2>3. metrics \in Seq(Connections \X Ids) /\ <<c, writer[c].id>> \in Connections \X Ids
      BY <1>1, <2>2 DEF LoopType
    <2>4. metrics' \in Seq(Connections \X Ids) /\ Len(metrics') = Len(metrics) + 1
      BY <2>1, <2>3, AppendProperties
    <2>5. Len(metrics') <= MetricsCap
      BY <2>1, <2>3, <2>4, Capacities
    <2>6. LoopType'
      BY <1>1, <2>1, <2>4, <2>5 DEF LoopType
    <2>7. WriterType'
      BY <1>1, <2>1, <2>2, WriterMoved
    <2> QED
      BY <1>1, <1>2, <2>1, <2>6, <2>7, SameBuffer, SameShared
  <1>5. CASE CloseNotifications(c)
    <2>1. /\ UNCHANGED <<running, listeners, messages, metrics, listed, result, events,
                         phase, queues, writer, answered, unflushed, dirty>>
          /\ closed' = [closed EXCEPT ![c] = TRUE]
      BY <1>5 DEF CloseNotifications, loopVars, bufferVars
    <2>2. WriterType'
      BY <1>1, <2>1 DEF WriterType
    <2> QED
      BY <1>1, <1>2, <2>1, <2>2, SameBuffer, SameLoop, SameShared
  <1>6. CASE StreamEvent(c)
    <2>1. UNCHANGED <<running, listeners, messages, metrics, listed, result, queues, writer,
                      closed, answered>>
      BY <1>6 DEF StreamEvent, loopVars
    <2>2. /\ unflushed' = unflushed \/
                \E n \in {0, unflushed[c]} : unflushed' = [unflushed EXCEPT ![c] = n]
          /\ dirty' = dirty \/ dirty' = [dirty EXCEPT ![c] = TRUE]
      BY <1>6 DEF StreamEvent
    <2>3. BufferType'
      <3>1. unflushed \in [Connections -> Nat] /\ dirty \in [Connections -> BOOLEAN]
        BY <1>1 DEF BufferType
      <3>2. unflushed' \in [Connections -> Nat]
        <4>1. CASE unflushed' = unflushed
          BY <3>1, <4>1
        <4>2. CASE \E n \in {0, unflushed[c]} : unflushed' = [unflushed EXCEPT ![c] = n]
          <5>1. PICK n \in {0, unflushed[c]} : unflushed' = [unflushed EXCEPT ![c] = n]
            BY <4>2
          <5>2. n \in Nat
            BY <3>1, <5>1
          <5> QED
            BY <3>1, <5>1, <5>2
        <4> QED
          BY <2>2, <4>1, <4>2
      <3>3. dirty' \in [Connections -> BOOLEAN]
        BY <2>2, <3>1
      <3> QED
        BY <1>1, <2>1, <3>2, <3>3 DEF BufferType
    <2>4. events' \in [Connections -> 0 .. Off]
      <3>1. \/ events' = events
            \/ events[c] > 0 /\ events' = [events EXCEPT ![c] = @ - 1]
        BY <1>6 DEF StreamEvent, EventReady
      <3>2. events \in [Connections -> 0 .. Off] /\ events[c] \in 0 .. Off
        BY <1>1 DEF SharedType
      <3>3. Off \in Nat
        BY Capacities DEF Off
      <3>4. events[c] > 0 => events[c] - 1 \in 0 .. Off
        BY <3>2, <3>3
      <3> QED
        BY <3>1, <3>2, <3>4
    <2>5. SharedType'
      BY <1>1, <1>6, <2>1, <2>4 DEF SharedType, StreamEvent, Fail
    <2>6. WriterType' /\ LoopType'
      BY <1>1, <2>1, SameWriter, SameLoop
    <2> QED
      BY <1>2, <2>3, <2>5, <2>6
  <1>7. CASE Flush(c)
    <2>1. /\ UNCHANGED <<running, listeners, messages, metrics, listed, result, events,
                         phase, queues, writer, closed, answered>>
          /\ dirty' = [dirty EXCEPT ![c] = FALSE]
          /\ unflushed' = [unflushed EXCEPT ![c] = 0]
      BY <1>7 DEF Flush, loopVars
    <2>2. BufferType'
      BY <1>1, <2>1 DEF BufferType
    <2> QED
      BY <1>1, <1>2, <2>1, <2>2, SameWriter, SameLoop, SameShared
  <1>8. CASE Finish(c)
    <2>1. /\ UNCHANGED <<running, listeners, messages, metrics, listed, result, events,
                         queues, writer, closed, answered, unflushed, dirty>>
          /\ phase' = [phase EXCEPT ![c] = "finished"]
      BY <1>8 DEF Finish, loopVars, writerVars
    <2> QED
      BY <1>1, <1>2, <2>1, PhaseType, SameWriter, SameLoop, SameBuffer
  <1> QED
    BY <1>3, <1>4, <1>5, <1>6, <1>7, <1>8

\* The rest of the server keeps the types.
LEMMA RestTypes ==
    ASSUME TypeOK, MessagesTrue,
           \/ \E c \in Connections : ConnectionError(c) \/ Cancel(c)
           \/ HandleMessage \/ Signal \/ HandleMetrics \/ LogEvent \/ UNCHANGED vars
    PROVE  ReaderType' /\ WriterType' /\ BufferType' /\ LoopType' /\ SharedType'
  <1>1. ReaderType /\ WriterType /\ BufferType /\ LoopType /\ SharedType
    BY TypeParts
  <1>2. WriterType' /\ BufferType' /\ ReaderType'
    <2>1. UNCHANGED <<queues, writer, closed, answered, unflushed, dirty, plan, asked,
                      reader, responses>>
      BY DEF ConnectionError, Cancel, HandleMessage, Signal, HandleMetrics, LogEvent, vars,
             readerVars, writerVars
    <2> QED
      BY <1>1, <2>1, SameWriter, SameBuffer, SameReader
  <1>3. ASSUME NEW left, NEW results \in [Connections -> [Ids -> Results]],
               EndLoop(left, results), UNCHANGED <<listeners, listed, metrics, events, phase>>
        PROVE  LoopType' /\ SharedType'
    <2>1. running' = FALSE /\ messages' = <<>>
      BY <1>3 DEF EndLoop
    <2>2. messages' \in Seq(Connections \X Ids) /\ Len(messages') = 0
      BY <2>1
    <2>3. Len(messages') <= MessageCap
      <3>1. 0 <= MessageCap
        BY Capacities
      <3> QED
        BY <2>2, <3>1
    <2>4. LoopType'
      BY <1>1, <1>3, <2>1, <2>2, <2>3 DEF LoopType
    <2>5. result' \in [Connections -> [Ids -> Results]]
      BY <1>3 DEF EndLoop, Results
    <2> QED
      BY <1>1, <1>3, <2>4, <2>5 DEF SharedType
  <1>4. CASE \E c \in Connections : ConnectionError(c) \/ Cancel(c)
    <2>1. PICK c \in Connections : ConnectionError(c) \/ Cancel(c)
      BY <1>4
    <2>2. /\ UNCHANGED <<running, listeners, messages, metrics, listed, result, events>>
          /\ \E p \in {"finished", "failed", "cancelled"} : phase' = [phase EXCEPT ![c] = p]
      BY <2>1 DEF ConnectionError, Cancel, loopVars
    <2> QED
      BY <1>1, <1>2, <2>2, PhaseType, SameLoop
  <1>5. CASE HandleMessage
    <2> DEFINE c == Head(messages)[1]
               id == Head(messages)[2]
               request == asked[c][id]
               k == request.class
               Reply(r) == [result EXCEPT ![c][id] = r]
    <2>1. messages # <<>> /\ UNCHANGED <<metrics, events, phase>>
      BY <1>5 DEF HandleMessage
    <2>2. /\ Head(messages) = messages[1] /\ Head(messages) \in Connections \X Ids
          /\ Tail(messages) \in Seq(Connections \X Ids)
          /\ Len(messages) \in Nat \ {0} /\ Len(Tail(messages)) = Len(messages) - 1
      BY <1>1, <2>1, TailOf DEF LoopType
    <2>3. c \in Connections /\ id \in Ids
      BY <2>2
    <2>4. id \in 1 .. Len(asked[c])
      BY <2>2 DEF MessagesTrue
    <2>5. request \in Requests
      BY <2>3, <2>4, AskedRequest
    <2>6. /\ request.type \in {"List", "Add", "Remove"} => k \in SocketClasses
          /\ request.type \in {"Add", "Remove"} => request.address \in Addresses
      BY <2>5 DEF Requests
    <2>7. ASSUME NEW r \in Results PROVE Reply(r) \in [Connections -> [Ids -> Results]]
      BY <1>1, <2>3 DEF SharedType
    <2>8. CASE request.type = "Shutdown"
      <3>1. EndLoop(Tail(messages), Reply("Ok")) /\ UNCHANGED <<listeners, listed>>
        BY <1>5, <2>8 DEF HandleMessage, RequestAt
      <3>2. Reply("Ok") \in [Connections -> [Ids -> Results]]
        BY <2>7 DEF Results
      <3> HIDE DEF Reply
      <3> QED
        BY <1>2, <1>3, <2>1, <3>1, <3>2
    <2>9. CASE request.type # "Shutdown"
      <3>1. messages' = Tail(messages) /\ running' = running
        BY <1>5, <2>9 DEF HandleMessage, RequestAt
      <3>2. \E r \in Results : result' = Reply(r)
        BY <1>5, <2>9 DEF HandleMessage, RequestAt, Results
      <3>3. result' \in [Connections -> [Ids -> Results]]
        BY <2>7, <3>2
      <3>4. \/ listeners' = listeners
            \/ /\ request.type = "Add" /\ request.address \notin BadAddresses
               /\ listeners' = [listeners EXCEPT ![k] = @ \cup {request.address}]
            \/ /\ request.type = "Remove"
               /\ listeners' = [listeners EXCEPT ![k] = Without(k, request.address)]
        BY <1>5, <2>9 DEF HandleMessage, RequestAt
      <3>5. \/ listed' = listed
            \/ /\ request.type = "List"
               /\ listed' = [listed EXCEPT ![c][id] = listeners[k]]
        BY <1>5, <2>9 DEF HandleMessage, RequestAt
      <3> HIDE DEF c, id, request, k, Reply
      <3>6. listeners' \in [SocketClasses -> SUBSET (Addresses \ BadAddresses)]
        BY <1>1, <2>6, <3>4 DEF LoopType, Without
      <3>7. listed' \in [Connections -> [Ids -> SUBSET Addresses]]
        <4>1. /\ listeners \in [SocketClasses -> SUBSET (Addresses \ BadAddresses)]
              /\ listed \in [Connections -> [Ids -> SUBSET Addresses]]
          BY <1>1 DEF LoopType
        <4>2. request.type = "List" => listeners[k] \in SUBSET Addresses
          BY <2>6, <4>1
        <4> QED
          BY <2>3, <3>5, <4>1, <4>2
      <3>8. LoopType'
        BY <1>1, <2>1, <2>2, <3>1, <3>6, <3>7, Capacities DEF LoopType
      <3>9. SharedType'
        BY <1>1, <2>1, <3>3 DEF SharedType
      <3> QED
        BY <1>2, <3>8, <3>9
    <2> QED
      BY <2>8, <2>9
  <1>6. CASE Signal
    <2>1. EndLoop(messages, result) /\ UNCHANGED <<listeners, listed, metrics, events, phase>>
      BY <1>6 DEF Signal
    <2>2. result \in [Connections -> [Ids -> Results]]
      BY <1>1 DEF SharedType
    <2> QED
      BY <1>2, <1>3, <2>1, <2>2
  <1>7. CASE HandleMetrics
    <2> DEFINE c == Head(metrics)[1]
               id == Head(metrics)[2]
    <2>1. /\ UNCHANGED <<running, listeners, messages, listed, phase>>
          /\ metrics # <<>> /\ metrics' = Tail(metrics)
          /\ result' = [result EXCEPT ![c][id] = "Ok"]
          /\ \E e \in {0, events[c]} : events' = [events EXCEPT ![c] = e]
      BY <1>7 DEF HandleMetrics, loopVars
    <2>2. /\ Head(metrics) \in Connections \X Ids
          /\ Tail(metrics) \in Seq(Connections \X Ids)
          /\ Len(metrics) \in Nat \ {0} /\ Len(Tail(metrics)) = Len(metrics) - 1
      BY <1>1, <2>1, TailOf DEF LoopType
    <2>3. c \in Connections /\ id \in Ids
      BY <2>2
    <2> HIDE DEF c, id
    <2>4. LoopType'
      BY <1>1, <2>1, <2>2, Capacities DEF LoopType
    <2>5. events' \in [Connections -> 0 .. Off]
      <3>1. PICK e \in {0, events[c]} : events' = [events EXCEPT ![c] = e]
        BY <2>1
      <3>2. e \in 0 .. Off
        BY <1>1, <2>3, <3>1, Capacities DEF SharedType, Off
      <3> QED
        BY <1>1, <3>1, <3>2 DEF SharedType
    <2>6. result' \in [Connections -> [Ids -> Results]]
      BY <1>1, <2>1, <2>3 DEF SharedType, Results
    <2>7. SharedType'
      BY <1>1, <2>1, <2>5, <2>6 DEF SharedType
    <2> QED
      BY <1>2, <2>4, <2>7
  <1>8. CASE LogEvent
    <2>1. /\ UNCHANGED <<running, listeners, messages, metrics, listed, result, phase>>
          /\ events' = [c \in Connections |->
                           IF Open(c) /\ events[c] < Lagged THEN events[c] + 1 ELSE events[c]]
      BY <1>8 DEF LogEvent, loopVars
    <2>2. ASSUME NEW c \in Connections PROVE events'[c] \in 0 .. Off
      <3>1. events[c] \in 0 .. Off /\ Off \in Nat /\ Lagged + 1 = Off
        BY <1>1, Capacities DEF SharedType, Off, Lagged
      <3> QED
        BY <2>1, <3>1, Capacities DEF Lagged
    <2>3. SharedType'
      BY <1>1, <2>1, <2>2 DEF SharedType
    <2> QED
      BY <1>1, <1>2, <2>1, <2>3, SameLoop
  <1>9. CASE UNCHANGED vars
    BY <1>1, <1>2, <1>9, SameLoop, SameShared DEF vars
  <1> QED
    BY <1>4, <1>5, <1>6, <1>7, <1>8, <1>9

\* Every step keeps the types.
LEMMA TypeStep ==
    ASSUME TypeOK, \A c \in Connections : ConnectionInv(c), MessagesTrue, [Next]_vars
    PROVE  TypeOK'
  <1>1. ReaderType' /\ WriterType' /\ BufferType' /\ LoopType' /\ SharedType'
    <2>1. CASE \E c \in Connections : Read(c) \/ ReadEof(c) \/ ReaderStep(c)
      BY <2>1, ReaderTypes
    <2>2. CASE \E c \in Connections : WriterStep(c)
      BY <2>2, TakeTypes, QueueTypes, WriterTypes DEF WriterStep
    <2>3. CASE \/ \E c \in Connections : ConnectionError(c) \/ Cancel(c)
               \/ HandleMessage \/ Signal \/ HandleMetrics \/ LogEvent \/ UNCHANGED vars
      BY <2>3, RestTypes
    <2>4. [Next]_vars => Next \/ UNCHANGED vars
      OBVIOUS
    <2> QED
      BY <2>1, <2>2, <2>3, <2>4 DEF Next
  <1>2. ASSUME NEW c \in Connections PROVE unflushed'[c] \in 0 .. MaxRequests
    <2>1. ConnectionInv(c)'
      BY ConnectionStep
    <2>2. /\ asked'[c] \in Seq(Menu) /\ Len(asked'[c]) <= MaxRequests
          /\ Len(asked'[c]) \in Nat
          /\ InOrder(asked'[c], queues'[c], answered'[c], Handled(c)')
          /\ unflushed'[c] <= Len(answered'[c]) /\ unflushed'[c] \in Nat
      BY <1>1, <2>1 DEF ConnectionInv, BufferTrue, ReaderType, BufferType
    <2>3. Len(answered'[c]) \in Nat /\ Len(answered'[c]) <= Len(asked'[c])
      BY <2>2, AnswersBounded
    <2> QED
      BY <2>2, <2>3, Capacities
  <1>3. unflushed' \in [Connections -> 0 .. MaxRequests]
    BY <1>1, <1>2 DEF BufferType
  <1> QED
    BY <1>1, <1>3 DEF TypeOK, ReaderType, WriterType, BufferType, LoopType, SharedType

-----------------------------------------------------------------------------
(* The invariant                                                           *)

\* A message goes in with a request that was asked; no request is unasked.
LEMMA MessagesStep ==
    ASSUME TypeOK, \A c \in Connections : ConnectionInv(c), MessagesTrue, [Next]_vars
    PROVE  MessagesTrue'
  <1>1. ASSUME NEW c \in Connections, NEW id \in 1 .. Len(asked[c])
        PROVE  id \in 1 .. Len(asked'[c])
    <2>1. CASE asked'[c] = asked[c]
      BY <2>1
    <2>2. CASE \E r : asked'[c] = Append(asked[c], r)
      <3>1. Len(asked[c]) \in Nat /\ Len(asked'[c]) = Len(asked[c]) + 1
        BY <2>2, TypeAt
      <3> QED
        BY <3>1
    <2>3. \A d \in Connections : Asks(d) => \/ asked'[c] = asked[c]
                                            \/ \E r : asked'[c] = Append(asked[c], r)
      BY DEF Asks, TypeOK
    <2> QED
      BY <2>1, <2>2, <2>3, ConnectionStep DEF Quiet, Answers
  <1>2. messages \in Seq(Connections \X Ids)
    BY DEF TypeOK
  <1>3. ASSUME NEW i \in 1 .. Len(messages)
        PROVE  messages[i][2] \in 1 .. Len(asked'[messages[i][1]])
    <2>1. messages[i] \in Connections \X Ids
      BY <1>2, ElementOfSeq
    <2> QED
      BY <1>1, <1>3, <2>1 DEF MessagesTrue
  <1>4. CASE messages' = messages
    BY <1>3, <1>4 DEF MessagesTrue
  <1>5. CASE \E c \in Connections : SendMessage(c) /\ messages' = Append(messages, <<c, Latest(c)>>)
    <2>1. PICK c \in Connections :
              SendMessage(c) /\ messages' = Append(messages, <<c, Latest(c)>>)
      BY <1>5
    <2>2. Latest(c) \in 1 .. Len(asked[c]) /\ Latest(c) \in Ids
      BY <2>1, LatestAsked DEF SendMessage
    <2>3. Latest(c) \in 1 .. Len(asked'[c])
      BY <1>1, <2>2
    <2>4. /\ Len(messages') = Len(messages) + 1 /\ Len(messages) \in Nat
          /\ messages'[Len(messages) + 1] = <<c, Latest(c)>>
          /\ \A i \in 1 .. Len(messages) : messages'[i] = messages[i]
      BY <1>2, <2>1, <2>2, AppendProperties
    <2>5. ASSUME NEW i \in 1 .. Len(messages')
          PROVE  messages'[i][2] \in 1 .. Len(asked'[messages'[i][1]])
      <3>1. CASE i \in 1 .. Len(messages)
        BY <1>3, <2>4, <3>1
      <3>2. CASE i = Len(messages) + 1
        BY <2>3, <2>4, <3>2
      <3> QED
        BY <2>4, <3>1, <3>2
    <2> QED
      BY <2>5 DEF MessagesTrue
  <1>6. CASE messages' = <<>>
    BY <1>6 DEF MessagesTrue
  <1>7. CASE messages # <<>> /\ messages' = Tail(messages)
    <2>1. /\ Len(messages') = Len(messages) - 1 /\ Len(messages) \in Nat \ {0}
          /\ \A i \in 1 .. Len(messages) - 1 : messages'[i] = messages[i + 1]
      BY <1>2, <1>7, TailOf
    <2>2. ASSUME NEW i \in 1 .. Len(messages')
          PROVE  messages'[i][2] \in 1 .. Len(asked'[messages'[i][1]])
      <3>1. i + 1 \in 1 .. Len(messages) /\ messages'[i] = messages[i + 1]
        BY <2>1
      <3> QED
        BY <1>3, <3>1
    <2> QED
      BY <2>2 DEF MessagesTrue
  <1>8. \/ messages' = messages \/ messages' = <<>>
        \/ messages # <<>> /\ messages' = Tail(messages)
        \/ \E c \in Connections : SendMessage(c) /\ messages' = Append(messages, <<c, Latest(c)>>)
    <2>1. CASE HandleMessage \/ Signal
      BY <2>1 DEF HandleMessage, Signal, EndLoop
    <2>2. CASE \E c \in Connections : SendMessage(c)
      BY <2>2 DEF SendMessage
    <2>3. CASE \E c \in Connections : Read(c) \/ ReadEof(c) \/ ConnectionError(c) \/ Cancel(c)
                                      \/ RequestMetrics(c) \/ Notify(c)
      BY <2>3 DEF Read, ReadEof, ConnectionError, Cancel, RequestMetrics, Notify, loopVars
    <2>4. CASE \E c \in Connections : WriterStep(c)
      <3>1. ASSUME NEW c \in Connections,
                   \/ TakeNotification(c) \/ FrontReady(c) \/ ShutdownReady(c)
                   \/ Subscribe(c) \/ Subscribed(c) \/ CloseNotifications(c)
            PROVE  messages' = messages
        BY <3>1 DEF TakeNotification, FrontReady, ShutdownReady, Subscribe, Subscribed,
                    CloseNotifications, loopVars
      <3>2. ASSUME NEW c \in Connections,
                   \/ StreamEvent(c) \/ Flush(c) \/ Finish(c)
                   \/ \E k \in QueueClasses : AnswerQueue(c, k)
            PROVE  messages' = messages
        BY <3>2 DEF StreamEvent, Flush, Finish, AnswerQueue, loopVars
      <3> QED
        BY <2>4, <3>1, <3>2 DEF WriterStep
    <2>5. CASE HandleMetrics \/ LogEvent \/ UNCHANGED vars
      BY <2>5 DEF HandleMetrics, LogEvent, vars, loopVars
    <2>6. [Next]_vars => Next \/ UNCHANGED vars
      OBVIOUS
    <2> QED
      BY <2>1, <2>2, <2>3, <2>4, <2>5, <2>6 DEF Next, ReaderStep
  <1> QED
    BY <1>4, <1>5, <1>6, <1>7, <1>8

\* A writer that goes on no longer has handled and answered everything.
LEMMA FinishedAnswered ==
    ASSUME TypeOK, NEW c \in Connections, ConnectionInv(c),
           writer[c].at = "select", ~LoopOn(c)
    PROVE  Answered(c) = 1 .. Len(asked[c]) /\ unflushed[c] = 0
  <1>1. closed[c] /\ ~dirty[c] /\ \A k \in QueueClasses : queues[c][k] = <<>>
    BY TypeAt DEF LoopOn
  <1>2. responses[c] = <<>> /\ reader[c] = "end"
    BY <1>1 DEF ConnectionInv, InTurn
  <1>3. Handled(c) = Len(asked[c])
    <2>1. Notified(c) = Len(asked[c]) /\ Len(responses[c]) = 0 /\ Len(asked[c]) \in Nat
      BY <1>2, TypeAt DEF Notified
    <2> QED
      BY <2>1 DEF Handled, Taken
  <1>4. InOrder(asked[c], queues[c], answered[c], Len(asked[c]))
    BY <1>3 DEF ConnectionInv
  <1>5. \A id \in 1 .. Len(asked[c]) : \E j \in 1 .. Len(answered[c]) : answered[c][j] = id
    <2>1. \A k \in QueueClasses : \A i \in 1 .. Len(queues[c][k]) : FALSE
      BY <1>1
    <2> QED
      BY <1>4, <2>1 DEF InOrder
  <1>6. \A j \in 1 .. Len(answered[c]) : answered[c][j] \in 1 .. Len(asked[c])
    <2>1. answered[c] \in Seq(1 .. Len(asked[c]))
      BY <1>4 DEF InOrder
    <2> QED
      BY <2>1, ElementOfSeq
  <1>7. unflushed[c] = 0
    BY <1>1 DEF ConnectionInv, BufferTrue
  <1>8. Answered(c) \subseteq 1 .. Len(asked[c])
    BY <1>6 DEF Answered
  <1>9. 1 .. Len(asked[c]) \subseteq Answered(c)
    BY <1>5 DEF Answered
  <1> QED
    BY <1>7, <1>8, <1>9

\* A connection ends properly by Finish only, and then stays as it is.
LEMMA LostStep ==
    ASSUME TypeOK, \A c \in Connections : ConnectionInv(c), NoAnswerLost, [Next]_vars
    PROVE  NoAnswerLost'
  <1>1. SUFFICES ASSUME NEW c \in Connections, phase'[c] = "finished"
                 PROVE  Answered(c)' = 1 .. Len(asked'[c]) /\ unflushed'[c] = 0
    BY DEF NoAnswerLost
  <1>2. CASE phase[c] = "finished"
    <2>1. SameAt(c)
      BY <1>2, ConnectionStep DEF Open
    <2> QED
      BY <1>2, <2>1 DEF NoAnswerLost, SameAt, Answered
  <1>3. CASE Finish(c)
    <2>1. Answered(c) = 1 .. Len(asked[c]) /\ unflushed[c] = 0
      BY <1>3, FinishedAnswered DEF Finish, At
    <2>2. UNCHANGED <<asked, answered, unflushed>>
      BY <1>3 DEF Finish, readerVars, writerVars
    <2> QED
      BY <2>1, <2>2 DEF Answered
  <1>4. phase'[c] = phase[c] \/ phase'[c] # "finished" \/ Finish(c)
    <2>1. phase \in [Connections -> {"none", "open", "finished", "failed", "cancelled"}]
      BY DEF TypeOK
    <2>2. CASE \E d \in Connections : Read(d) \/ ReadEof(d) \/ ReaderStep(d)
      BY <2>2 DEF Read, ReadEof, ReaderStep, SendMessage, RequestMetrics, Notify
    <2>3. CASE \E d \in Connections : ConnectionError(d) \/ Cancel(d)
      BY <2>1, <2>3 DEF ConnectionError, Cancel
    <2>4. CASE HandleMessage \/ Signal \/ HandleMetrics \/ LogEvent \/ UNCHANGED vars
      BY <2>4 DEF HandleMessage, Signal, HandleMetrics, LogEvent, vars
    <2>5. CASE \E d \in Connections :
                  \/ FrontReady(d) \/ StreamEvent(d)
                  \/ \E k \in QueueClasses : AnswerQueue(d, k)
      BY <2>1, <2>5 DEF FrontReady, StreamEvent, AnswerQueue, Fail
    <2>6. CASE \E d \in Connections :
                  \/ TakeNotification(d) \/ ShutdownReady(d) \/ Subscribe(d) \/ Subscribed(d)
                  \/ CloseNotifications(d) \/ Flush(d)
      BY <2>6 DEF TakeNotification, ShutdownReady, Subscribe, Subscribed,
                  CloseNotifications, Flush
    <2>7. CASE \E d \in Connections : Finish(d)
      BY <2>1, <2>7 DEF Finish
    <2>8. [Next]_vars => Next \/ UNCHANGED vars
      OBVIOUS
    <2> QED
      BY <2>2, <2>3, <2>4, <2>5, <2>6, <2>7, <2>8 DEF Next, WriterStep
  <1> QED
    BY <1>1, <1>2, <1>3, <1>4

\* Initially nothing was asked.
LEMMA InitIInv == Init => IInv
  <1> SUFFICES ASSUME Init PROVE IInv
    OBVIOUS
  <1>1. /\ <<>> \in Seq(Connections \X Ids) /\ <<>> \in Seq(Menu) /\ <<>> \in Seq(Ids)
        /\ Len(<<>>) = 0
    OBVIOUS
  <1>2. Off \in 0 .. Off /\ 0 \in 0 .. MaxRequests
    BY Capacities DEF Off
  <1>3. ReaderType
    BY <1>1, Capacities DEF Init, ReaderType
  <1>4. WriterType
    BY <1>1, Capacities DEF Init, WriterType
  <1>5. BufferType /\ unflushed \in [Connections -> 0 .. MaxRequests]
    BY <1>1, <1>2 DEF Init, BufferType
  <1>6. LoopType
    BY <1>1, Capacities, SandstormServerAssumption DEF Init, LoopType
  <1>7. SharedType
    BY <1>2 DEF Init, SharedType, Results
  <1>8. TypeOK
    BY <1>3, <1>4, <1>5, <1>6, <1>7, TypeParts
  <1>9. ASSUME NEW c \in Connections PROVE ConnectionInv(c)
    <2>1. /\ asked[c] = <<>> /\ reader[c] = "read" /\ responses[c] = <<>>
          /\ writer[c].at = "select" /\ closed[c] = FALSE /\ answered[c] = <<>>
          /\ unflushed[c] = 0
          /\ \A k \in QueueClasses : queues[c][k] = <<>>
      BY DEF Init
    <2>2. Handled(c) = 0
      BY <2>1 DEF Handled, Taken, Notified
    <2>3. InTurn(c)
      BY <2>1 DEF InTurn
    <2>4. InOrder(asked[c], queues[c], answered[c], 0)
      <3>1. queues[c] \in [QueueClasses -> Seq(1 .. 0)]
        BY DEF Init
      <3> DEFINE a == Len(queues[c]["socks5"])
                 b == Len(queues[c]["sandstorm"])
                 d == Len(queues[c]["metrics"])
                 x == Len(answered[c])
      <3>2. a = 0 /\ b = 0 /\ d = 0 /\ x = 0
        BY <2>1, Queues
      <3> HIDE DEF a, b, d, x
      <3>3. x + a + b + d = 0
        BY <3>2
      <3>4. /\ 0 \in 0 .. Len(asked[c]) /\ answered[c] \in Seq(1 .. 0)
            /\ \A k \in QueueClasses : Len(queues[c][k]) = 0
        BY <2>1
      <3>5. \A k \in QueueClasses : \A i \in 1 .. Len(queues[c][k]) : FALSE
        BY <3>4
      <3>6. \A id \in 1 .. 0 : FALSE
        OBVIOUS
      <3>7. Len(answered[c]) + Len(queues[c]["socks5"]) + Len(queues[c]["sandstorm"])
               + Len(queues[c]["metrics"]) = 0
        BY <3>3 DEF a, b, d, x
      <3> QED
        BY <3>1, <3>4, <3>5, <3>6, <3>7, Zenon DEF InOrder
    <2> QED
      BY <2>1, <2>2, <2>3, <2>4, Capacities DEF ConnectionInv, BufferTrue
  <1>10. MessagesTrue
    BY DEF Init, MessagesTrue
  <1>11. NoAnswerLost
    BY DEF Init, NoAnswerLost
  <1> QED
    BY <1>8, <1>9, <1>10, <1>11 DEF IInv

\* Every step keeps the invariant.
LEMMA StepIInv == IInv /\ [Next]_vars => IInv'
  BY TypeStep, ConnectionStep, MessagesStep, LostStep DEF IInv

\* So it always holds.
LEMMA Invariance == Spec => []IInv
  BY InitIInv, StepIInv, PTL DEF Spec

\* A connection that ends properly has answered all that it read and sent all answers
\* out, whatever is asked, whoever else asks, and however small the channels are.
THEOREM NoneLost == Spec => []ServerInv
  <1>1. IInv => ServerInv
    BY DEF IInv, ServerInv
  <1> QED
    BY <1>1, Invariance, PTL

-----------------------------------------------------------------------------
(* The refinement                                                          *)

\* An answer that may be given is one that Pipeline gives.
LEMMA AnswerAllowed ==
    ASSUME NEW c \in Connections, Answers(c)
    PROVE  P!Next
  <1>1. PICK id : /\ MayAnswer(asked[c], answered[c], id)
                  /\ answered' = [answered EXCEPT ![c] = Append(@, id)]
    BY DEF Answers
  <1>2. id \in P!Unanswered(c)
    BY <1>1 DEF MayAnswer, P!Unanswered, P!Answered
  <1>3. \A earlier \in P!Unanswered(c) :
            asked[c][earlier].class = asked[c][id].class => earlier >= id
    BY <1>1 DEF MayAnswer, P!Unanswered, P!Answered
  <1>4. P!Answer(c, id)
    BY <1>1, <1>2, <1>3 DEF Answers, P!Answer
  <1> QED
    BY <1>2, <1>4 DEF P!Next

\* The connections answer as the protocol asks of pipelining: each request once, and
\* those of one class in the order in which they came.
THEOREM PipelineImplemented == Spec => ImplementsPipeline
  <1>1. Init => P!Init
    BY DEF Init, P!Init
  <1>2. IInv /\ [Next]_vars => [P!Next]_P!vars
    <2> SUFFICES ASSUME IInv, [Next]_vars PROVE P!Next \/ UNCHANGED P!vars
      OBVIOUS
    <2>1. CASE Quiet
      BY <2>1 DEF Quiet, P!vars
    <2>2. CASE \E c \in Connections : Asks(c)
      BY <2>2 DEF Asks, P!Next, P!Ask
    <2>3. CASE \E c \in Connections : Answers(c)
      BY <2>3, AnswerAllowed
    <2> QED
      BY <2>1, <2>2, <2>3, ConnectionStep DEF IInv
  <1> QED
    BY <1>1, <1>2, Invariance, PTL DEF Spec, ImplementsPipeline, P!Spec

-----------------------------------------------------------------------------
(***************************************************************************)
(* What a manager is told.  Requests about sockets reach the main loop in  *)
(* the order in which they were asked: those that wait for it are in its   *)
(* channel, the oldest first, but for the one its reader is about to send. *)
(***************************************************************************)

ForSockets(c, id) == asked[c][id].class \in SocketClasses

Sending(c, id) == reader[c] = "message" /\ id = Len(asked[c])

Sent(c, id) == \E p \in 1 .. Len(messages) : messages[p] = <<c, id>>

\* Requests about sockets wait, and are answered, in their order.
WaitInv ==
    /\ \A c \in Connections : \A id \in 1 .. Len(asked[c]) : ForSockets(c, id) =>
          /\ Sent(c, id) \/ Sending(c, id) => result[c][id] = "pending"
          /\ result[c][id] = "pending" => Sent(c, id) \/ Sending(c, id)
          /\ result[c][id] = "pending" => \A later \in 1 .. Len(asked[c]) :
                ForSockets(c, later) /\ id <= later => result[c][later] # "Ok"
    /\ \A p, q \in 1 .. Len(messages) :
          p < q /\ messages[p][1] = messages[q][1] => messages[p][2] < messages[q][2]
    /\ \A c \in Connections : reader[c] = "message" =>
          \A p \in 1 .. Len(messages) : messages[p][1] = c => messages[p][2] < Len(asked[c])

\* The metrics task has to do with no socket.
MetricsInv ==
    /\ \A p \in 1 .. Len(metrics) :
          LET c == metrics[p][1]
              id == metrics[p][2]
          IN  id \in 1 .. Len(asked[c]) /\ ~ForSockets(c, id)
    /\ \A c \in Connections : reader[c] = "metrics" => ~ForSockets(c, Len(asked[c]))

\* A manager that is alone was told the truth, and goes on to be.
TellInv ==
    \A c \in Connections, k \in SocketClasses : Alone(c, k) =>
        /\ listeners[k] = Told(asked[c], result[c], k, Len(asked[c]))
        /\ \A id \in 1 .. Len(asked[c]) :
              asked[c][id].type = "List" /\ asked[c][id].class = k /\ result[c][id] = "Ok"
              => listed[c][id] = Told(asked[c], result[c], k, id)

TInv == IInv /\ WaitInv /\ MetricsInv /\ TellInv

\* Whether a request changed where there are sockets.
Changes(requests, results, k, id) ==
    requests[id].class = k /\ requests[id].type \in {"Add", "Remove"} /\ results[id] = "Ok"

\* What was told depends on those requests only.
LEMMA ToldSame ==
    ASSUME NEW R, NEW requests \in Seq(R), NEW more \in Seq(R), NEW results, NEW later, NEW k,
           NEW n \in 0 .. Len(requests), NEW m \in 0 .. Len(more), n <= m,
           \A i \in 1 .. n : /\ Changes(requests, results, k, i) <=> Changes(more, later, k, i)
                             /\ Changes(requests, results, k, i) => more[i] = requests[i],
           \A i \in 1 .. m : n < i => ~Changes(more, later, k, i)
    PROVE  Told(more, later, k, m) = Told(requests, results, k, n)
  <1>1. /\ n \in Nat /\ m \in Nat /\ DOMAIN requests = 1 .. Len(requests)
        /\ DOMAIN more = 1 .. Len(more) /\ 1 .. n \subseteq 1 .. m
        /\ 1 .. n \subseteq DOMAIN requests /\ 1 .. m \subseteq DOMAIN more
    OBVIOUS
  <1>2. ASSUME NEW a
        PROVE  /\ Accepted(more, later, k, a) \cap 1 .. m = Accepted(requests, results, k, a) \cap 1 .. n
               /\ \A i \in Accepted(requests, results, k, a) \cap 1 .. n : more[i] = requests[i]
    <2>1. ASSUME NEW i \in Accepted(more, later, k, a) \cap 1 .. m
          PROVE  i \in Accepted(requests, results, k, a) \cap 1 .. n
      <3>1. Changes(more, later, k, i) /\ more[i].address = a
        BY DEF Accepted, Changes
      <3>2. i \in 1 .. n
        BY <1>1, <3>1
      <3> QED
        BY <1>1, <3>1, <3>2 DEF Accepted, Changes
    <2>2. ASSUME NEW i \in Accepted(requests, results, k, a) \cap 1 .. n
          PROVE  i \in Accepted(more, later, k, a) \cap 1 .. m /\ more[i] = requests[i]
      <3>1. Changes(requests, results, k, i) /\ requests[i].address = a
        BY DEF Accepted, Changes
      <3> QED
        BY <1>1, <3>1 DEF Accepted, Changes
    <2> QED
      BY <2>1, <2>2
  <1> QED
    BY <1>2 DEF Told

\* The latest of them makes the difference.
LEMMA ToldChanged ==
    ASSUME NEW R, NEW requests \in Seq(R), NEW results, NEW later, NEW k,
           NEW id \in 1 .. Len(requests), NEW n \in 1 .. Len(requests), id <= n,
           requests[id].address \in Addresses,
           ~Changes(requests, results, k, id), Changes(requests, later, k, id),
           \A i \in 1 .. n : i # id => (results[i] = later[i]),
           \A i \in 1 .. n : id < i => ~Changes(requests, results, k, i)
    PROVE  /\ requests[id].type = "Add" =>
                Told(requests, later, k, n) = Told(requests, results, k, n) \cup {requests[id].address}
           /\ requests[id].type = "Remove" =>
                Told(requests, later, k, n) = Told(requests, results, k, n) \ {requests[id].address}
  <1> DEFINE a == requests[id].address
             old(b) == Accepted(requests, results, k, b) \cap 1 .. n
             new(b) == Accepted(requests, later, k, b) \cap 1 .. n
  <1>1. DOMAIN requests = 1 .. Len(requests) /\ n \in Nat /\ id \in Nat /\ id \in 1 .. n
    OBVIOUS
  <1>2. new(a) = old(a) \cup {id} /\ \A b : b # a => new(b) = old(b)
    BY <1>1 DEF Accepted, Changes
  <1>3. \A i \in new(a) : i <= id
    <2> SUFFICES ASSUME NEW i \in new(a), ~(i <= id) PROVE FALSE
      OBVIOUS
    <2>1. i \in 1 .. n /\ id < i /\ Changes(requests, later, k, i)
      BY <1>1 DEF Accepted, Changes
    <2>2. results[i] = later[i] /\ ~Changes(requests, results, k, i)
      BY <1>1, <2>1
    <2> QED
      BY <2>1, <2>2 DEF Changes
  <1>4. \A i \in new(a) : i \in Nat
    OBVIOUS
  <1> HIDE DEF old, new
  <1>5. ASSUME NEW b \in Addresses, b # a
        PROVE  b \in Told(requests, later, k, n) <=> b \in Told(requests, results, k, n)
    BY <1>2, <1>5 DEF Told, old, new
  <1>6. requests[id].type = "Add" => a \in Told(requests, later, k, n)
    BY <1>2, <1>3 DEF Told, new
  <1>7. requests[id].type = "Remove" => a \notin Told(requests, later, k, n)
    <2> SUFFICES ASSUME requests[id].type = "Remove", a \in Told(requests, later, k, n) PROVE FALSE
      OBVIOUS
    <2>1. PICK i \in new(a) : requests[i].type = "Add" /\ \A j \in new(a) : j <= i
      BY <1>2 DEF Told, new
    <2>2. i = id
      <3>1. id \in new(a)
        BY <1>2
      <3>2. i <= id /\ id <= i
        BY <1>3, <2>1, <3>1
      <3> QED
        BY <1>4, <2>1, <3>1, <3>2
    <2> QED
      BY <2>1, <2>2
  <1>8. a \in Addresses /\ Told(requests, later, k, n) \subseteq Addresses
        /\ Told(requests, results, k, n) \subseteq Addresses
    BY DEF Told
  <1> HIDE DEF a
  <1>9. requests[id].type = "Add" =>
            Told(requests, later, k, n) = Told(requests, results, k, n) \cup {a}
    BY <1>5, <1>6, <1>8
  <1>10. requests[id].type = "Remove" =>
            Told(requests, later, k, n) = Told(requests, results, k, n) \ {a}
    BY <1>5, <1>7, <1>8
  <1> QED
    BY <1>9, <1>10 DEF a

\* The requests that were asked have their numbers.
LEMMA AskedIds ==
    ASSUME IInv, NEW d \in Connections, NEW i \in 1 .. Len(asked[d])
    PROVE  i \in Ids
  <1>1. Len(asked[d]) <= MaxRequests /\ Len(asked[d]) \in Nat
    BY TypeAt DEF IInv, ConnectionInv
  <1> QED
    BY <1>1, Capacities DEF Ids

\* What anyone was told stays true while the same requests were successful.
LEMMA ToldStays ==
    ASSUME TypeOK, TellInv, UNCHANGED <<asked, listeners, listed>>,
           \A c \in Connections : \A id \in 1 .. Len(asked[c]) :
               ForSockets(c, id) => (result'[c][id] = "Ok" <=> result[c][id] = "Ok")
    PROVE  TellInv'
  <1>1. SUFFICES ASSUME NEW c \in Connections, NEW k \in SocketClasses, Alone(c, k)
                 PROVE  /\ listeners[k] = Told(asked[c], result'[c], k, Len(asked[c]))
                        /\ \A id \in 1 .. Len(asked[c]) :
                              asked[c][id].type = "List" /\ asked[c][id].class = k
                              /\ result'[c][id] = "Ok"
                              => listed[c][id] = Told(asked[c], result'[c], k, id)
    BY DEF TellInv, Alone
  <1>2. asked[c] \in Seq(Menu) /\ Len(asked[c]) \in Nat
    BY TypeAt
  <1>3. \A i \in 1 .. Len(asked[c]) :
           Changes(asked[c], result[c], k, i) <=> Changes(asked[c], result'[c], k, i)
    BY <1>1 DEF Changes, ForSockets
  <1>4. ASSUME NEW n \in 0 .. Len(asked[c])
        PROVE  Told(asked[c], result'[c], k, n) = Told(asked[c], result[c], k, n)
    <2>1. n \in Nat /\ n <= n /\ 1 .. n \subseteq 1 .. Len(asked[c]) /\ \A i \in 1 .. n : ~(n < i)
      BY <1>2
    <2> QED
      BY <1>2, <1>3, <2>1, ToldSame
  <1>5. Len(asked[c]) \in 0 .. Len(asked[c]) /\ 1 .. Len(asked[c]) \subseteq 0 .. Len(asked[c])
    BY <1>2
  <1>6. \A id \in 1 .. Len(asked[c]) : asked[c][id].class = k => ForSockets(c, id)
    BY <1>1 DEF ForSockets
  <1> QED
    BY <1>1, <1>4, <1>5, <1>6 DEF TellInv

\* Neither the writer nor the end of a connection has to do with sockets.
LEMMA QuietTold ==
    ASSUME TypeOK, WaitInv, MetricsInv, TellInv,
           UNCHANGED <<asked, result, listed, listeners, messages>>,
           \A c \in Connections : /\ reader'[c] = "message" <=> reader[c] = "message"
                                  /\ reader'[c] = "metrics" => reader[c] = "metrics",
           \/ metrics' = metrics
           \/ \E c \in Connections : \E id \in 1 .. Len(asked[c]) :
                 metrics' = Append(metrics, <<c, id>>) /\ id \in Ids /\ ~ForSockets(c, id)
    PROVE  WaitInv' /\ MetricsInv' /\ TellInv'
  <1>1. TellInv'
    BY ToldStays
  <1>2. WaitInv'
    <2>1. ASSUME NEW c \in Connections, NEW id
          PROVE  /\ Sent(c, id)' = Sent(c, id) /\ Sending(c, id)' = Sending(c, id)
                 /\ ForSockets(c, id)' = ForSockets(c, id)
      BY DEF Sent, Sending, ForSockets
    <2> QED
      BY <2>1 DEF WaitInv
  <1>3. MetricsInv'
    <2>1. CASE metrics' = metrics
      BY <2>1 DEF MetricsInv, ForSockets
    <2>2. CASE metrics' # metrics
      <3>0. PICK c \in Connections : \E id \in 1 .. Len(asked[c]) :
                metrics' = Append(metrics, <<c, id>>) /\ id \in Ids /\ ~ForSockets(c, id)
        BY <2>2
      <3>1. PICK id \in 1 .. Len(asked[c]) :
                metrics' = Append(metrics, <<c, id>>) /\ id \in Ids /\ ~ForSockets(c, id)
        BY <3>0
      <3>2. metrics \in Seq(Connections \X Ids)
        BY DEF TypeOK
      <3>3. \A p \in 1 .. Len(metrics') :
               \/ p \in 1 .. Len(metrics) /\ metrics'[p] = metrics[p]
               \/ metrics'[p] = <<c, id>>
        BY <3>1, <3>2
      <3> QED
        BY <3>1, <3>3 DEF MetricsInv, ForSockets
    <2> QED
      BY <2>1, <2>2
  <1> QED
    BY <1>1, <1>2, <1>3

\* A request is read: it will be sent, and has changed nothing yet.
LEMMA ReadTold ==
    ASSUME IInv, WaitInv, MetricsInv, TellInv, NEW c \in Connections, Read(c), ConnectionInv(c)'
    PROVE  WaitInv' /\ MetricsInv' /\ TellInv'
  <1> DEFINE n == Len(asked[c])
  <1>1. PICK r \in plan.menu :
            /\ asked' = [asked EXCEPT ![c] = Append(@, r)]
            /\ reader' = [reader EXCEPT ![c] = Route(r)]
            /\ result' = [result EXCEPT ![c][n + 1] = IF Immediate(r) THEN "Ok" ELSE "pending"]
    BY DEF Read
  <1>2. /\ asked \in [Connections -> Seq(Menu)] /\ result \in [Connections -> [Ids -> Results]]
        /\ reader \in [Connections -> {"read", "message", "metrics", "notify", "end"}]
        /\ messages \in Seq(Connections \X Ids) /\ metrics \in Seq(Connections \X Ids)
        /\ r \in Menu
    BY DEF IInv, TypeOK, Menu
  <1>3. UNCHANGED <<messages, metrics, listed, listeners>> /\ reader[c] = "read"
    BY DEF Read, loopVars
  <1>4. n \in Nat /\ asked[c] \in Seq(Menu)
    BY <1>2
  <1>5. /\ asked'[c] = Append(asked[c], r) /\ Len(asked'[c]) = n + 1 /\ asked'[c][n + 1] = r
        /\ \A i \in 1 .. n : asked'[c][i] = asked[c][i]
        /\ asked'[c] \in Seq(Menu)
    BY <1>1, <1>2, <1>4
  <1>6. n + 1 \in Ids
    BY <1>4, <1>5, Capacities DEF ConnectionInv, Ids
  <1>7. \A d \in Connections \ {c} :
            asked'[d] = asked[d] /\ reader'[d] = reader[d] /\ result'[d] = result[d]
    BY <1>1, <1>2
  <1>8. /\ reader'[c] = Route(r)
        /\ result'[c][n + 1] = IF Immediate(r) THEN "Ok" ELSE "pending"
        /\ \A i \in 1 .. n : result'[c][i] = result[c][i]
    <2>1. \A i \in 1 .. n : i # n + 1
      BY <1>4
    <2> HIDE DEF n
    <2> QED
      BY <1>1, <1>2, <1>6, <2>1
  <1>9. r.class \in SocketClasses => Route(r) = "message" /\ ~Immediate(r)
    BY DEF Route, Immediate, SocketClasses
  <1>10. /\ n + 1 \in 1 .. n + 1 /\ 1 .. n \subseteq 1 .. n + 1
         /\ \A i \in 1 .. n + 1 : i \in 1 .. n \/ i = n + 1
         /\ \A i \in 1 .. n : i < n + 1 /\ ~(n + 1 <= i) /\ i # n + 1
    BY <1>4
  <1>11. \A d \in Connections, id \in Ids : Sent(d, id)' = Sent(d, id)
    BY <1>3 DEF Sent
  <1>12. \A p \in 1 .. Len(messages) :
             messages[p][2] \in 1 .. Len(asked[messages[p][1]]) /\ messages[p][1] \in Connections
    <2>1. \A p \in 1 .. Len(messages) : messages[p] \in Connections \X Ids
      BY <1>2
    <2> QED
      BY <2>1 DEF IInv, MessagesTrue
  <1> HIDE DEF n
  <1>13. WaitInv'
    <2>1. ASSUME NEW d \in Connections, NEW id \in 1 .. Len(asked'[d]), ForSockets(d, id)'
          PROVE  /\ Sent(d, id)' \/ Sending(d, id)' => result'[d][id] = "pending"
                 /\ result'[d][id] = "pending" => Sent(d, id)' \/ Sending(d, id)'
                 /\ result'[d][id] = "pending" => \A later \in 1 .. Len(asked'[d]) :
                       ForSockets(d, later)' /\ id <= later => result'[d][later] # "Ok"
      <3>1. CASE d # c
        <4>1. /\ asked'[d] = asked[d] /\ reader'[d] = reader[d] /\ result'[d] = result[d]
          BY <1>7, <3>1
        <4>2. /\ \A i : Sent(d, i)' = Sent(d, i) /\ Sending(d, i)' = Sending(d, i)
              /\ \A i : ForSockets(d, i)' = ForSockets(d, i)
          BY <1>3, <4>1 DEF Sent, Sending, ForSockets
        <4> QED
          BY <2>1, <4>1, <4>2 DEF WaitInv
      <3>2. CASE d = c /\ id = n + 1
        <4>1. r.class \in SocketClasses
          BY <1>5, <2>1, <3>2 DEF ForSockets
        <4>2. Sending(d, id)' /\ result'[d][id] = "pending"
          BY <1>5, <1>8, <1>9, <3>2, <4>1 DEF Sending
        <4>3. \A later \in 1 .. n + 1 : n + 1 <= later => later = n + 1
          BY <1>10
        <4> QED
          BY <1>5, <3>2, <4>2, <4>3
      <3>3. CASE d = c /\ id \in 1 .. n
        <4>1. ForSockets(c, id) /\ result'[c][id] = result[c][id]
          BY <1>5, <1>8, <2>1, <3>3 DEF ForSockets
        <4>2. Sent(c, id)' = Sent(c, id) /\ ~Sending(c, id) /\ ~Sending(c, id)'
          BY <1>3, <1>5, <1>10, <3>3 DEF Sent, Sending
        <4>3. ASSUME result'[c][id] = "pending", NEW later \in 1 .. n + 1, ForSockets(c, later)',
                     id <= later
              PROVE  result'[c][later] # "Ok"
          <5>1. CASE later = n + 1
            BY <1>5, <1>8, <1>9, <4>3, <5>1 DEF ForSockets
          <5>2. CASE later \in 1 .. n
            <6>1. ForSockets(c, later) /\ result'[c][later] = result[c][later]
              BY <1>5, <1>8, <4>3, <5>2 DEF ForSockets
            <6> QED
              BY <3>3, <4>1, <4>3, <5>2, <6>1 DEF WaitInv, n
          <5> QED
            BY <1>10, <5>1, <5>2
        <4>4. /\ Sent(c, id) => result[c][id] = "pending"
              /\ result[c][id] = "pending" => Sent(c, id)
          BY <3>3, <4>1, <4>2 DEF WaitInv, n
        <4> QED
          BY <1>5, <3>3, <4>1, <4>2, <4>3, <4>4
      <3> QED
        BY <1>5, <1>10, <3>1, <3>2, <3>3
    <2>2. ASSUME NEW d \in Connections, reader'[d] = "message", NEW p \in 1 .. Len(messages),
                 messages[p][1] = d
          PROVE  messages[p][2] < Len(asked'[d])
      <3>1. CASE d # c
        BY <1>7, <2>2, <3>1 DEF WaitInv
      <3>2. CASE d = c
        BY <1>5, <1>10, <1>12, <2>2, <3>2 DEF n
      <3> QED
        BY <3>1, <3>2
    <2>3. \A p, q \in 1 .. Len(messages) :
              p < q /\ messages[p][1] = messages[q][1] => messages[p][2] < messages[q][2]
      BY DEF WaitInv
    <2> QED
      BY <1>3, <2>1, <2>2, <2>3 DEF WaitInv
  <1>14. MetricsInv'
    <2>1. ASSUME NEW p \in 1 .. Len(metrics)
          PROVE  /\ metrics[p][2] \in 1 .. Len(asked'[metrics[p][1]])
                 /\ ~ForSockets(metrics[p][1], metrics[p][2])'
      <3> DEFINE d == metrics[p][1]
                 id == metrics[p][2]
      <3>1. d \in Connections /\ id \in 1 .. Len(asked[d]) /\ ~ForSockets(d, id)
        <4>1. metrics[p] \in Connections \X Ids
          BY <1>2
        <4> QED
          BY <4>1 DEF MetricsInv
      <3> HIDE DEF d, id
      <3>2. id \in 1 .. Len(asked'[d]) /\ asked'[d][id] = asked[d][id]
        BY <1>5, <1>7, <1>10, <3>1 DEF n
      <3>3. asked'[d][id].class \notin SocketClasses
        BY <3>1, <3>2 DEF ForSockets
      <3>4. metrics'[p] = metrics[p]
        BY <1>3
      <3> QED
        BY <3>2, <3>3, <3>4 DEF d, id, ForSockets
    <2>2. ASSUME NEW d \in Connections, reader'[d] = "metrics"
          PROVE  ~ForSockets(d, Len(asked[d]))'
      <3>1. CASE d # c
        BY <1>7, <2>2, <3>1 DEF MetricsInv, ForSockets
      <3>2. CASE d = c
        <4>1. r.class \notin SocketClasses
          BY <1>8, <1>9, <2>2, <3>2
        <4> QED
          BY <1>5, <3>2, <4>1 DEF ForSockets
      <3> QED
        BY <3>1, <3>2
    <2>3. UNCHANGED metrics
      BY <1>3
    <2> QED
      BY <2>1, <2>2, <2>3 DEF MetricsInv
  <1>15. TellInv'
    <2>1. SUFFICES ASSUME NEW d \in Connections, NEW k \in SocketClasses, Alone(d, k)'
                   PROVE  /\ listeners[k] = Told(asked'[d], result'[d], k, Len(asked'[d]))
                          /\ \A id \in 1 .. Len(asked'[d]) :
                                asked'[d][id].type = "List" /\ asked'[d][id].class = k
                                /\ result'[d][id] = "Ok"
                                => listed[d][id] = Told(asked'[d], result'[d], k, id)
      BY <1>3 DEF TellInv
    <2>2. Alone(d, k)
      <3> SUFFICES ASSUME NEW e \in Connections \ {d}, NEW i \in 1 .. Len(asked[e])
                   PROVE  asked[e][i].class # k
        BY DEF Alone
      <3>1. i \in 1 .. Len(asked'[e]) /\ asked'[e][i] = asked[e][i]
        BY <1>5, <1>7, <1>10 DEF n
      <3> QED
        BY <2>1, <3>1 DEF Alone
    <2>3. /\ listeners[k] = Told(asked[d], result[d], k, Len(asked[d]))
          /\ \A id \in 1 .. Len(asked[d]) :
                asked[d][id].type = "List" /\ asked[d][id].class = k /\ result[d][id] = "Ok"
                => listed[d][id] = Told(asked[d], result[d], k, id)
      BY <2>1, <2>2 DEF TellInv
    <2>4. CASE d # c
      BY <1>7, <2>3, <2>4
    <2>5. CASE d = c
      <3>1. \A i \in 1 .. n :
               /\ Changes(asked[c], result[c], k, i) <=> Changes(asked'[c], result'[c], k, i)
               /\ Changes(asked[c], result[c], k, i) => asked'[c][i] = asked[c][i]
        BY <1>5, <1>8 DEF Changes
      <3>2. r.class = k => result'[c][n + 1] # "Ok"
        BY <1>8, <1>9, <2>1
      <3>3. ~Changes(asked'[c], result'[c], k, n + 1)
        BY <1>5, <3>2 DEF Changes
      <3>4. Told(asked'[c], result'[c], k, n + 1) = Told(asked[c], result[c], k, n)
        <4>1. n \in 0 .. Len(asked[c]) /\ n + 1 \in 0 .. Len(asked'[c]) /\ n <= n + 1
          BY <1>4, <1>5 DEF n
        <4>2. \A i \in 1 .. n + 1 : n < i => ~Changes(asked'[c], result'[c], k, i)
          BY <1>4, <1>10, <3>3
        <4> DEFINE m == n + 1
        <4>3. m \in 0 .. Len(asked'[c]) /\ n <= m
              /\ \A i \in 1 .. m : n < i => ~Changes(asked'[c], result'[c], k, i)
          BY <4>1, <4>2
        <4> HIDE DEF m
        <4>4. /\ asked[c] \in Seq(Menu) /\ asked'[c] \in Seq(Menu)
              /\ n \in 0 .. Len(asked[c])
          BY <1>4, <1>5, <4>1
        <4>5. Told(asked'[c], result'[c], k, m) = Told(asked[c], result[c], k, n)
          BY <3>1, <4>3, <4>4, ToldSame
        <4> QED
          BY <4>5 DEF m
      <3>5. ASSUME NEW i \in 1 .. n PROVE Told(asked'[c], result'[c], k, i) = Told(asked[c], result[c], k, i)
        <4>1. i \in 0 .. Len(asked[c]) /\ i \in 0 .. Len(asked'[c]) /\ i <= i
          BY <1>4, <1>5 DEF n
        <4>2. (\A j \in 1 .. i : ~(i < j)) /\ 1 .. i \subseteq 1 .. n
          BY <1>4
        <4>3. \A j \in 1 .. i :
                 /\ Changes(asked[c], result[c], k, j) <=> Changes(asked'[c], result'[c], k, j)
                 /\ Changes(asked[c], result[c], k, j) => asked'[c][j] = asked[c][j]
          BY <3>1, <4>2
        <4>4. asked[c] \in Seq(Menu) /\ asked'[c] \in Seq(Menu)
          BY <1>4, <1>5
        <4>5. \A j \in 1 .. i : i < j => ~Changes(asked'[c], result'[c], k, j)
          BY <4>2
        <4> QED
          BY <4>1, <4>3, <4>4, <4>5, ToldSame
      <3>6. ASSUME NEW id \in 1 .. n + 1, asked'[c][id].type = "List", asked'[c][id].class = k,
                   result'[c][id] = "Ok"
            PROVE  listed[c][id] = Told(asked'[c], result'[c], k, id)
        <4>1. id \in 1 .. n
          BY <1>5, <1>10, <3>2, <3>6
        <4> QED
          BY <1>5, <1>8, <2>3, <2>5, <3>5, <3>6, <4>1 DEF n
      <3> QED
        BY <1>5, <2>3, <2>5, <3>4, <3>6 DEF n
    <2> QED
      BY <2>4, <2>5
  <1> QED
    BY <1>13, <1>14, <1>15

\* A request is sent to the main loop, or, after its end, lost.
LEMMA SendTold ==
    ASSUME IInv, WaitInv, MetricsInv, TellInv, NEW c \in Connections, SendMessage(c)
    PROVE  WaitInv' /\ MetricsInv' /\ TellInv'
  <1> DEFINE n == Len(asked[c])
  <1>1. /\ UNCHANGED <<asked, listed, listeners, metrics>>
        /\ reader[c] = "message" /\ reader' = [reader EXCEPT ![c] = "notify"]
        /\ \/ messages' = Append(messages, <<c, n>>) /\ result' = result
           \/ messages' = messages /\ result' = [result EXCEPT ![c][n] = "dropped"]
    BY DEF SendMessage, Latest
  <1>2. /\ result \in [Connections -> [Ids -> Results]] /\ messages \in Seq(Connections \X Ids)
        /\ reader \in [Connections -> {"read", "message", "metrics", "notify", "end"}]
    BY DEF IInv, TypeOK
  <1>3. n \in 1 .. n /\ n \in Ids /\ n \in Nat /\ 1 .. n \subseteq Nat
    BY <1>1, LatestAsked, TypeAt DEF IInv, Latest
  <1>4. reader'[c] = "notify" /\ \A d \in Connections \ {c} : reader'[d] = reader[d]
    BY <1>1, <1>2
  <1>5. \A p \in 1 .. Len(messages) : messages[p][1] = c => messages[p][2] < n
    BY <1>1 DEF WaitInv
  <1>6. ~Sent(c, n) /\ \A i : Sending(c, i) <=> i = n
    <2>1. \A p \in 1 .. Len(messages) : messages[p] # <<c, n>>
      BY <1>3, <1>5
    <2> QED
      BY <1>1, <2>1 DEF Sent, Sending
  <1>7. /\ \A i : ~Sending(c, i)'
        /\ \A d \in Connections \ {c} : \A i : Sending(d, i)' = Sending(d, i)
        /\ \A d \in Connections : \A i : ForSockets(d, i)' = ForSockets(d, i)
    BY <1>1, <1>4 DEF Sending, ForSockets
  <1>8. ForSockets(c, n) => result[c][n] = "pending"
    BY <1>3, <1>6 DEF WaitInv
  <1> HIDE DEF n
  <1>9. MetricsInv'
    BY <1>1, <1>4, <1>7 DEF MetricsInv, ForSockets
  <1>10. CASE messages' = Append(messages, <<c, n>>) /\ result' = result
    <2>1. /\ \A p \in 1 .. Len(messages) : p \in 1 .. Len(messages') /\ messages'[p] = messages[p]
          /\ Len(messages) + 1 \in 1 .. Len(messages') /\ messages'[Len(messages) + 1] = <<c, n>>
          /\ \A p \in 1 .. Len(messages') : p \in 1 .. Len(messages) \/ p = Len(messages) + 1
          /\ \A p \in 1 .. Len(messages) : p < Len(messages) + 1
          /\ \A p \in 1 .. Len(messages') : ~(Len(messages) + 1 < p)
      <3>1. <<c, n>> \in Connections \X Ids
        BY <1>3
      <3> DEFINE m == <<c, n>>
      <3> HIDE DEF m
      <3>2. m \in Connections \X Ids /\ messages' = Append(messages, m)
        BY <1>10, <3>1 DEF m
      <3> QED
        BY <1>2, <3>2 DEF m
    <2>2. \A d \in Connections : \A i : Sent(d, i)' <=> Sent(d, i) \/ (d = c /\ i = n)
      BY <2>1 DEF Sent
    <2>3. ASSUME NEW d \in Connections, NEW i
          PROVE  Sent(d, i)' \/ Sending(d, i)' <=> Sent(d, i) \/ Sending(d, i)
      BY <1>6, <1>7, <2>2
    <2>4. \A p, q \in 1 .. Len(messages') :
              p < q /\ messages'[p][1] = messages'[q][1] => messages'[p][2] < messages'[q][2]
      BY <1>5, <2>1 DEF WaitInv
    <2>5. \A d \in Connections : reader'[d] = "message" =>
              \A p \in 1 .. Len(messages') : messages'[p][1] = d => messages'[p][2] < Len(asked[d])
      BY <1>4, <2>1 DEF WaitInv
    <2>6. WaitInv'
      BY <1>1, <1>7, <1>10, <2>3, <2>4, <2>5 DEF WaitInv
    <2>7. TellInv'
      BY <1>1, <1>10, ToldStays DEF IInv
    <2> QED
      BY <1>9, <2>6, <2>7
  <1>11. CASE messages' = messages /\ result' = [result EXCEPT ![c][n] = "dropped"]
    <2>1. /\ result'[c][n] = "dropped"
          /\ \A d \in Connections, i \in Ids : d # c \/ i # n => result'[d][i] = result[d][i]
      BY <1>2, <1>3, <1>11
    <2>2. ASSUME NEW d \in Connections, NEW i \in 1 .. Len(asked[d])
          PROVE  i \in Ids
      <3>1. Len(asked[d]) <= MaxRequests /\ Len(asked[d]) \in Nat
        BY TypeAt DEF IInv, ConnectionInv
      <3> QED
        BY <3>1, Capacities DEF Ids
    <2>3. \A d \in Connections : \A i : Sent(d, i)' = Sent(d, i)
      BY <1>11 DEF Sent
    <2>4. ASSUME NEW d \in Connections, NEW i \in 1 .. Len(asked[d]), ForSockets(d, i)
          PROVE  /\ Sent(d, i) \/ Sending(d, i)' => result'[d][i] = "pending"
                 /\ result'[d][i] = "pending" => Sent(d, i) \/ Sending(d, i)'
                 /\ result'[d][i] = "pending" => result[d][i] = "pending"
                 /\ result'[d][i] = "Ok" <=> result[d][i] = "Ok"
      <3>1. CASE d = c /\ i = n
        BY <1>6, <1>7, <1>8, <2>1, <2>4, <3>1
      <3>2. CASE d # c \/ i # n
        <4>1. result'[d][i] = result[d][i]
          BY <2>1, <2>2, <3>2
        <4>2. Sending(d, i)' <=> Sending(d, i)
          BY <1>6, <1>7, <3>2
        <4> QED
          BY <2>4, <4>1, <4>2 DEF WaitInv
      <3> QED
        BY <3>1, <3>2
    <2>5. ASSUME NEW d \in Connections, NEW i \in 1 .. Len(asked[d]), ForSockets(d, i),
                 result'[d][i] = "pending", NEW later \in 1 .. Len(asked[d]),
                 ForSockets(d, later), i <= later
          PROVE  result'[d][later] # "Ok"
      BY <2>4, <2>5 DEF WaitInv
    <2>6. \A d \in Connections : reader'[d] = "message" => reader[d] = "message"
      BY <1>4
    <2>7. WaitInv'
      BY <1>1, <1>7, <1>11, <2>3, <2>4, <2>5, <2>6 DEF WaitInv
    <2>8. TellInv'
      BY <1>1, <2>4, ToldStays DEF IInv
    <2> QED
      BY <1>9, <2>7, <2>8
  <1> QED
    BY <1>1, <1>10, <1>11 DEF n

\* The metrics task answers.
LEMMA MetricsTold ==
    ASSUME IInv, WaitInv, MetricsInv, TellInv, HandleMetrics
    PROVE  WaitInv' /\ MetricsInv' /\ TellInv'
  <1> DEFINE c == Head(metrics)[1]
             id == Head(metrics)[2]
  <1>1. /\ UNCHANGED <<asked, listed, listeners, messages, reader>>
        /\ metrics # <<>> /\ metrics' = Tail(metrics)
        /\ result' = [result EXCEPT ![c][id] = "Ok"]
    BY DEF HandleMetrics, loopVars, readerVars
  <1>2. metrics \in Seq(Connections \X Ids) /\ result \in [Connections -> [Ids -> Results]]
    BY DEF IInv, TypeOK
  <1>3. /\ Head(metrics) = metrics[1] /\ 1 \in 1 .. Len(metrics)
        /\ Head(metrics) \in Connections \X Ids
        /\ \A p \in 1 .. Len(metrics') : p + 1 \in 1 .. Len(metrics) /\ metrics'[p] = metrics[p + 1]
    BY <1>1, <1>2, TailOf
  <1>4. c \in Connections /\ id \in Ids /\ ~ForSockets(c, id)
    BY <1>3 DEF MetricsInv
  <1> HIDE DEF c, id
  <1>5. \A d \in Connections : \A i \in 1 .. Len(asked[d]) :
            ForSockets(d, i) => result'[d][i] = result[d][i]
    BY <1>1, <1>2, <1>4
  <1>6. \A d \in Connections : \A i : /\ ForSockets(d, i)' = ForSockets(d, i)
                                  /\ Sent(d, i)' = Sent(d, i) /\ Sending(d, i)' = Sending(d, i)
    BY <1>1 DEF ForSockets, Sent, Sending
  <1>7. WaitInv'
    BY <1>1, <1>5, <1>6 DEF WaitInv
  <1>8. MetricsInv'
    BY <1>1, <1>3 DEF MetricsInv, ForSockets
  <1>9. TellInv'
    BY <1>1, <1>5, ToldStays DEF IInv
  <1> QED
    BY <1>7, <1>8, <1>9

\* The main loop ends, and what is left in its channel is lost.
LEMMA EndTold ==
    ASSUME IInv, WaitInv, MetricsInv, TellInv, UNCHANGED <<asked, listed, listeners, metrics, reader>>,
           messages' = <<>>,
           \A c \in Connections : \A id \in 1 .. Len(asked[c]) : ForSockets(c, id) =>
              result'[c][id] = IF Sent(c, id) THEN "dropped" ELSE result[c][id]
    PROVE  WaitInv' /\ MetricsInv' /\ TellInv'
  <1>1. ASSUME NEW d \in Connections, NEW i \in 1 .. Len(asked[d]), ForSockets(d, i)
        PROVE  /\ result'[d][i] = IF Sent(d, i) THEN "dropped" ELSE result[d][i]
               /\ result'[d][i] = "Ok" <=> result[d][i] = "Ok"
    <2>1. result'[d][i] = IF Sent(d, i) THEN "dropped" ELSE result[d][i]
      BY <1>1
    <2>2. Sent(d, i) => result[d][i] = "pending"
      BY <1>1 DEF WaitInv
    <2> QED
      BY <2>1, <2>2
  <1>2. /\ \A d \in Connections : \A i : ~Sent(d, i)' /\ Sending(d, i)' = Sending(d, i)
        /\ \A d \in Connections : \A i : ForSockets(d, i)' = ForSockets(d, i)
        /\ Len(messages') = 0
    BY DEF Sent, Sending, ForSockets
  <1>3. ASSUME NEW d \in Connections, NEW i \in 1 .. Len(asked[d]), ForSockets(d, i)
        PROVE  /\ Sending(d, i) => result'[d][i] = "pending"
               /\ result'[d][i] = "pending" => Sending(d, i)
               /\ result'[d][i] = "pending" => result[d][i] = "pending"
    <2>1. Sending(d, i) => ~Sent(d, i)
      <3> SUFFICES ASSUME reader[d] = "message", i = Len(asked[d]),
                          NEW p \in 1 .. Len(messages), messages[p] = <<d, i>>
                   PROVE  FALSE
        BY DEF Sending, Sent
      <3>1. messages[p][2] < Len(asked[d]) /\ Len(asked[d]) \in Nat
        BY TypeAt DEF WaitInv, IInv
      <3> QED
        BY <3>1
    <2> QED
      BY <1>1, <1>3, <2>1 DEF WaitInv
  <1>4. ASSUME NEW d \in Connections, NEW i \in 1 .. Len(asked[d]), ForSockets(d, i),
               result'[d][i] = "pending", NEW later \in 1 .. Len(asked[d]),
               ForSockets(d, later), i <= later
        PROVE  result'[d][later] # "Ok"
    BY <1>1, <1>3, <1>4 DEF WaitInv
  <1>5. WaitInv'
    BY <1>2, <1>3, <1>4 DEF WaitInv
  <1>6. MetricsInv'
    BY DEF MetricsInv, ForSockets
  <1>7. TellInv'
    BY <1>1, ToldStays DEF IInv
  <1> QED
    BY <1>5, <1>6, <1>7

\* The message at hand is about a request that waits.
LEMMA HeadWaits ==
    ASSUME IInv, WaitInv, messages # <<>>
    PROVE  \E c \in Connections : \E id \in 1 .. Len(asked[c]) :
               /\ Head(messages) = <<c, id>> /\ messages[1] = <<c, id>> /\ id \in Ids
               /\ 1 \in 1 .. Len(messages) /\ Sent(c, id)
               /\ asked[c][id] \in Requests
               /\ Len(Tail(messages)) = Len(messages) - 1
               /\ \A p \in 1 .. Len(messages) - 1 :
                     p + 1 \in 1 .. Len(messages) /\ Tail(messages)[p] = messages[p + 1]
  <1>1. messages \in Seq(Connections \X Ids)
    BY DEF IInv, TypeOK
  <1>2. /\ Head(messages) = messages[1] /\ Head(messages) \in Connections \X Ids
        /\ Len(messages) \in Nat \ {0} /\ Len(Tail(messages)) = Len(messages) - 1
        /\ \A p \in 1 .. Len(messages) - 1 : Tail(messages)[p] = messages[p + 1]
    BY <1>1, TailOf
  <1>3. PICK c \in Connections : \E id \in Ids : messages[1] = <<c, id>>
    BY <1>2
  <1>4. PICK id \in Ids : messages[1] = <<c, id>>
    BY <1>3
  <1>5. 1 \in 1 .. Len(messages)
        /\ \A p \in 1 .. Len(messages) - 1 : p + 1 \in 1 .. Len(messages)
    BY <1>2
  <1>6. id \in 1 .. Len(asked[c])
    BY <1>4, <1>5 DEF IInv, MessagesTrue
  <1>7. asked[c][id] \in Requests
    BY <1>6, AskedRequest DEF IInv
  <1>8. Sent(c, id)
    BY <1>4, <1>5 DEF Sent
  <1> QED
    BY <1>2, <1>4, <1>5, <1>6, <1>7, <1>8

\* When it is answered, the others wait as before.
LEMMA WaitHandled ==
    ASSUME IInv, WaitInv, UNCHANGED <<asked, reader>>, messages # <<>>, messages' = Tail(messages),
           NEW c \in Connections, NEW id \in 1 .. Len(asked[c]), messages[1] = <<c, id>>,
           ForSockets(c, id), NEW r \in {"Ok", "Error", "NotFound"},
           result'[c][id] = r,
           \A d \in Connections : \A i \in 1 .. Len(asked[d]) :
               d # c \/ i # id => result'[d][i] = result[d][i]
    PROVE  WaitInv' /\ result[c][id] = "pending"
  <1>1. /\ 1 \in 1 .. Len(messages) /\ Sent(c, id) /\ id \in Ids
        /\ Len(messages') = Len(messages) - 1 /\ Len(messages) \in Nat
        /\ \A p \in 1 .. Len(messages) - 1 :
              p + 1 \in 1 .. Len(messages) /\ messages'[p] = messages[p + 1]
    <2>1. PICK d \in Connections : \E i \in 1 .. Len(asked[d]) :
             /\ messages[1] = <<d, i>> /\ i \in Ids
             /\ 1 \in 1 .. Len(messages) /\ Sent(d, i)
             /\ Len(Tail(messages)) = Len(messages) - 1
             /\ \A p \in 1 .. Len(messages) - 1 :
                   p + 1 \in 1 .. Len(messages) /\ Tail(messages)[p] = messages[p + 1]
      BY HeadWaits
    <2>2. d = c /\ Sent(c, id) /\ id \in Ids
      BY <2>1
    <2>3. Len(messages) \in Nat
      BY DEF IInv, TypeOK
    <2> QED
      BY <2>1, <2>2, <2>3
  <1>2. \A p \in 1 .. Len(messages) : p # 1 => p - 1 \in 1 .. Len(messages') /\ p - 1 + 1 = p /\ 1 < p
    BY <1>1
  <1>3. ASSUME NEW d \in Connections
        PROVE  /\ Len(asked[d]) \in Nat /\ \A i \in 1 .. Len(asked[d]) : i \in Ids /\ i \in Nat
    <2>1. Len(asked[d]) <= MaxRequests /\ Len(asked[d]) \in Nat
      BY TypeAt DEF IInv, ConnectionInv
    <2> QED
      BY <2>1, Capacities DEF Ids
  <1>4. result[c][id] = "pending"
    BY <1>1 DEF WaitInv
  <1>5. \A p \in 1 .. Len(messages) : p # 1 /\ messages[p][1] = c => id < messages[p][2]
    <2>1. messages[1][1] = c /\ messages[1][2] = id
      OBVIOUS
    <2> QED
      BY <1>1, <1>2, <2>1 DEF WaitInv
  <1>6. ASSUME NEW d \in Connections, NEW i
        PROVE  Sent(d, i)' <=> Sent(d, i) /\ (d # c \/ i # id)
    <2>1. ASSUME Sent(d, i)' PROVE Sent(d, i) /\ (d # c \/ i # id)
      <3>1. PICK p \in 1 .. Len(messages') : messages'[p] = <<d, i>>
        BY <2>1 DEF Sent
      <3>2. p + 1 \in 1 .. Len(messages) /\ messages[p + 1] = <<d, i>> /\ p + 1 # 1
        BY <1>1, <3>1
      <3>3. d = c => id < i
        BY <1>5, <3>2
      <3>4. id \in Nat
        BY <1>3
      <3> QED
        BY <3>2, <3>3, <3>4 DEF Sent
    <2>2. ASSUME Sent(d, i), d # c \/ i # id PROVE Sent(d, i)'
      <3>1. PICK p \in 1 .. Len(messages) : messages[p] = <<d, i>>
        BY <2>2 DEF Sent
      <3>2. p # 1
        BY <2>2, <3>1
      <3>3. p - 1 \in 1 .. Len(messages') /\ messages'[p - 1] = <<d, i>>
        BY <1>1, <1>2, <3>1, <3>2
      <3> QED
        BY <3>3 DEF Sent
    <2> QED
      BY <2>1, <2>2
  <1>7. /\ \A d \in Connections : \A i : ForSockets(d, i)' <=> ForSockets(d, i)
        /\ \A d \in Connections : \A i : Sending(d, i)' <=> Sending(d, i)
    BY DEF ForSockets, Sending
  <1>8. reader[c] = "message" => id < Len(asked[c])
    BY <1>1 DEF WaitInv
  <1>9. ~Sending(c, id)
    BY <1>3, <1>8 DEF Sending
  <1>10. ASSUME NEW i \in 1 .. Len(asked[c]), ForSockets(c, i), i <= id, i # id
         PROVE  result[c][i] # "pending"
    <2>1. ~Sending(c, i)
      BY <1>3, <1>8, <1>10 DEF Sending
    <2>2. ~Sent(c, i)
      <3> SUFFICES ASSUME NEW p \in 1 .. Len(messages), messages[p] = <<c, i>> PROVE FALSE
        BY DEF Sent
      <3>1. p # 1
        BY <1>10
      <3>2. id < i
        BY <1>5, <3>1
      <3> QED
        BY <1>3, <1>10, <3>2
    <2> QED
      BY <1>10, <2>1, <2>2 DEF WaitInv
  <1>11. ASSUME NEW d \in Connections, NEW i \in 1 .. Len(asked[d]), ForSockets(d, i)
         PROVE  /\ Sent(d, i)' \/ Sending(d, i)' => result'[d][i] = "pending"
                /\ result'[d][i] = "pending" => Sent(d, i)' \/ Sending(d, i)'
                /\ result'[d][i] = "pending" => \A later \in 1 .. Len(asked[d]) :
                      ForSockets(d, later) /\ i <= later => result'[d][later] # "Ok"
    <2>1. CASE d = c /\ i = id
      BY <1>6, <1>7, <1>9, <2>1
    <2>2. CASE d # c \/ i # id
      <3>1. /\ result'[d][i] = result[d][i]
            /\ Sent(d, i)' <=> Sent(d, i)
            /\ Sending(d, i)' <=> Sending(d, i)
        BY <1>6, <1>7, <2>2
      <3>2. ASSUME result[d][i] = "pending", NEW later \in 1 .. Len(asked[d]),
                   ForSockets(d, later), i <= later
            PROVE  result'[d][later] # "Ok"
        <4>1. CASE d = c /\ later = id
          BY <1>10, <1>11, <2>2, <3>2, <4>1
        <4>2. CASE d # c \/ later # id
          BY <1>11, <3>2, <4>2 DEF WaitInv
        <4> QED
          BY <4>1, <4>2
      <3> QED
        BY <1>11, <3>1, <3>2 DEF WaitInv
    <2> QED
      BY <2>1, <2>2
  <1>12. \A p, q \in 1 .. Len(messages') :
             p < q /\ messages'[p][1] = messages'[q][1] => messages'[p][2] < messages'[q][2]
    <2> SUFFICES ASSUME NEW p \in 1 .. Len(messages'), NEW q \in 1 .. Len(messages'),
                        p < q, messages'[p][1] = messages'[q][1]
                 PROVE  messages'[p][2] < messages'[q][2]
      OBVIOUS
    <2>1. /\ p + 1 \in 1 .. Len(messages) /\ q + 1 \in 1 .. Len(messages) /\ p + 1 < q + 1
          /\ messages'[p] = messages[p + 1] /\ messages'[q] = messages[q + 1]
      BY <1>1
    <2> QED
      BY <2>1 DEF WaitInv
  <1>13. \A d \in Connections : reader[d] = "message" =>
             \A p \in 1 .. Len(messages') : messages'[p][1] = d => messages'[p][2] < Len(asked[d])
    <2> SUFFICES ASSUME NEW d \in Connections, reader[d] = "message",
                        NEW p \in 1 .. Len(messages'), messages'[p][1] = d
                 PROVE  messages'[p][2] < Len(asked[d])
      OBVIOUS
    <2>1. p + 1 \in 1 .. Len(messages) /\ messages'[p] = messages[p + 1]
      BY <1>1
    <2> QED
      BY <2>1 DEF WaitInv
  <1>14. WaitInv'
    BY <1>7, <1>11, <1>12, <1>13 DEF WaitInv
  <1> QED
    BY <1>4, <1>14

\* What is told of the sockets of a class by the requests before one that waits.
LEMMA TellBefore ==
    ASSUME IInv, WaitInv, NEW c \in Connections, NEW id \in 1 .. Len(asked[c]),
           ForSockets(c, id), result[c][id] = "pending", NEW k \in SocketClasses,
           NEW i \in 1 .. Len(asked[c]), id <= i
    PROVE  ~Changes(asked[c], result[c], k, i)
  <1>1. ForSockets(c, i) => result[c][i] # "Ok"
    BY DEF WaitInv
  <1> QED
    BY <1>1 DEF Changes, ForSockets

\* A request of a manager that is alone is carried out.
LEMMA TellHandled ==
    ASSUME IInv, WaitInv, TellInv, UNCHANGED asked,
           NEW c \in Connections, NEW id \in 1 .. Len(asked[c]), id \in Ids,
           NEW k \in SocketClasses, asked[c][id].class = k, asked[c][id] \in Requests,
           NEW r, result[c][id] = "pending", result'[c][id] = r,
           \A d \in Connections : \A i \in 1 .. Len(asked[d]) :
               d # c \/ i # id => result'[d][i] = result[d][i],
           \/ /\ asked[c][id].type = "List" /\ r = "Ok"
              /\ listed' = [listed EXCEPT ![c][id] = listeners[k]]
              /\ UNCHANGED listeners
           \/ /\ asked[c][id].type = "Add" /\ r = "Ok"
              /\ listeners' = [listeners EXCEPT ![k] = @ \cup {asked[c][id].address}]
              /\ UNCHANGED listed
           \/ /\ asked[c][id].type = "Remove" /\ r = "Ok"
              /\ listeners' = [listeners EXCEPT ![k] = @ \ {asked[c][id].address}]
              /\ UNCHANGED listed
           \/ /\ asked[c][id].type \in {"Add", "Remove"} /\ r # "Ok"
              /\ UNCHANGED <<listeners, listed>>
    PROVE  TellInv'
  <1>1. /\ listeners \in [SocketClasses -> SUBSET (Addresses \ BadAddresses)]
        /\ listed \in [Connections -> [Ids -> SUBSET Addresses]]
    BY DEF IInv, TypeOK
  <1>2. ASSUME NEW d \in Connections
        PROVE  /\ asked[d] \in Seq(Menu) /\ Len(asked[d]) \in Nat
               /\ \A i \in 1 .. Len(asked[d]) : i \in Ids /\ i \in Nat /\ i \in 0 .. Len(asked[d])
               /\ Len(asked[d]) \in 0 .. Len(asked[d])
    <2>1. Len(asked[d]) <= MaxRequests /\ Len(asked[d]) \in Nat /\ asked[d] \in Seq(Menu)
      BY TypeAt DEF IInv, ConnectionInv
    <2> QED
      BY <2>1, Capacities DEF Ids
  <1>3. /\ \A j \in SocketClasses : j # k => listeners'[j] = listeners[j]
        /\ \A d \in Connections, i \in Ids : d # c \/ i # id => listed'[d][i] = listed[d][i]
    BY <1>1
  <1>4. ASSUME NEW d \in Connections, NEW j \in SocketClasses, Alone(d, j)
        PROVE  /\ listeners[j] = Told(asked[d], result[d], j, Len(asked[d]))
               /\ \A i \in 1 .. Len(asked[d]) :
                     asked[d][i].type = "List" /\ asked[d][i].class = j /\ result[d][i] = "Ok"
                     => listed[d][i] = Told(asked[d], result[d], j, i)
    BY <1>4 DEF TellInv
  <1>5. ForSockets(c, id)
    BY DEF ForSockets
  <1>6. SUFFICES ASSUME NEW d \in Connections, NEW j \in SocketClasses, Alone(d, j)
                 PROVE  /\ listeners'[j] = Told(asked[d], result'[d], j, Len(asked[d]))
                        /\ \A i \in 1 .. Len(asked[d]) :
                              asked[d][i].type = "List" /\ asked[d][i].class = j
                              /\ result'[d][i] = "Ok"
                              => listed'[d][i] = Told(asked[d], result'[d], j, i)
    BY DEF TellInv, Alone
  <1>7. CASE \A i \in 1 .. Len(asked[d]) :
                Changes(asked[d], result[d], j, i) <=> Changes(asked[d], result'[d], j, i)
    <2>1. ASSUME NEW n \in 0 .. Len(asked[d])
          PROVE  Told(asked[d], result'[d], j, n) = Told(asked[d], result[d], j, n)
      <3>1. n \in Nat /\ n <= n /\ 1 .. n \subseteq 1 .. Len(asked[d]) /\ \A i \in 1 .. n : ~(n < i)
        BY <1>2
      <3> QED
        BY <1>2, <1>7, <3>1, ToldSame
    <2>2. listeners'[j] = listeners[j]
      <3>1. CASE j # k
        BY <1>3, <3>1
      <3>2. CASE j = k /\ d # c
        BY <1>6, <3>2 DEF Alone
      <3>3. CASE j = k /\ d = c
        <4>1. ~(asked[c][id].type \in {"Add", "Remove"} /\ r = "Ok")
          BY <1>7, <3>3 DEF Changes
        <4> QED
          BY <4>1
      <3> QED
        BY <3>1, <3>2, <3>3
    <2>3. ASSUME NEW i \in 1 .. Len(asked[d]), asked[d][i].type = "List", asked[d][i].class = j,
                 result'[d][i] = "Ok"
          PROVE  listed'[d][i] = Told(asked[d], result'[d], j, i)
      <3>1. CASE d # c \/ i # id
        BY <1>2, <1>3, <1>4, <1>6, <2>1, <2>3, <3>1
      <3>2. CASE d = c /\ i = id
        <4>1. listed'[c][id] = listeners[k] /\ j = k
          BY <1>1, <2>3, <3>2
        <4>2. \A m \in 1 .. Len(asked[c]) : id < m => ~Changes(asked[c], result[c], k, m)
          <5> SUFFICES ASSUME NEW m \in 1 .. Len(asked[c]), id < m
                       PROVE  ~Changes(asked[c], result[c], k, m)
            OBVIOUS
          <5>1. id <= m
            BY <1>2
          <5> QED
            BY <1>5, <5>1, TellBefore
        <4>3. /\ id \in 0 .. Len(asked[c]) /\ Len(asked[c]) \in 0 .. Len(asked[c])
              /\ id <= Len(asked[c]) /\ asked[c] \in Seq(Menu)
              /\ 1 .. id \subseteq 1 .. Len(asked[c])
          BY <1>2
        <4>4. \A m \in 1 .. id :
                 /\ Changes(asked[c], result'[c], k, m) <=> Changes(asked[c], result[c], k, m)
                 /\ Changes(asked[c], result'[c], k, m) => asked[c][m] = asked[c][m]
          BY <1>7, <3>2, <4>1, <4>3
        <4>5. Told(asked[c], result[c], k, Len(asked[c])) = Told(asked[c], result'[c], k, id)
          BY <4>2, <4>3, <4>4, ToldSame
        <4>6. listeners[k] = Told(asked[c], result[c], k, Len(asked[c]))
          BY <1>4, <1>6, <3>2, <4>1
        <4> QED
          BY <3>2, <4>1, <4>5, <4>6
      <3> QED
        BY <3>1, <3>2
    <2> QED
      BY <1>2, <1>4, <1>6, <2>1, <2>2, <2>3
  <1>8. CASE ~ \A i \in 1 .. Len(asked[d]) :
                  Changes(asked[d], result[d], j, i) <=> Changes(asked[d], result'[d], j, i)
    <2>1. PICK i \in 1 .. Len(asked[d]) :
              ~(Changes(asked[d], result[d], j, i) <=> Changes(asked[d], result'[d], j, i))
      BY <1>8
    <2>2. d = c /\ i = id
      BY <2>1 DEF Changes
    <2>3. /\ ~Changes(asked[c], result[c], k, id) /\ Changes(asked[c], result'[c], k, id)
          /\ j = k /\ asked[c][id].type \in {"Add", "Remove"} /\ r = "Ok"
      BY <2>1, <2>2 DEF Changes
    <2>4. asked[c][id].address \in Addresses
      BY <2>3 DEF Requests
    <2>5. /\ asked[c] \in Seq(Menu) /\ Len(asked[c]) \in 1 .. Len(asked[c])
          /\ id <= Len(asked[c]) /\ id \in Nat
      BY <1>2
    <2>6. \A m \in 1 .. Len(asked[c]) : id <= m => ~Changes(asked[c], result[c], k, m)
      BY <1>5, TellBefore
    <2>7. /\ \A m \in 1 .. Len(asked[c]) : m # id => result[c][m] = result'[c][m]
          /\ \A m \in 1 .. Len(asked[c]) : id < m => ~Changes(asked[c], result[c], k, m)
      BY <1>2, <2>6
    <2> DEFINE len == Len(asked[c])
               old == result[c]
               new == result'[c]
    <2>8. /\ asked[c] \in Seq(Menu) /\ id \in 1 .. Len(asked[c]) /\ len \in 1 .. Len(asked[c])
          /\ id <= len /\ asked[c][id].address \in Addresses
          /\ ~Changes(asked[c], old, k, id) /\ Changes(asked[c], new, k, id)
          /\ \A m \in 1 .. len : m # id => old[m] = new[m]
          /\ \A m \in 1 .. len : id < m => ~Changes(asked[c], old, k, m)
      BY <2>3, <2>4, <2>5, <2>7
    <2> HIDE DEF len, old, new
    <2>9. /\ asked[c][id].type = "Add" =>
                Told(asked[c], new, k, len) = Told(asked[c], old, k, len) \cup {asked[c][id].address}
          /\ asked[c][id].type = "Remove" =>
                Told(asked[c], new, k, len) = Told(asked[c], old, k, len) \ {asked[c][id].address}
      BY <2>8, ToldChanged
    <2>10. listeners[k] = Told(asked[c], old, k, len)
      BY <1>4, <1>6, <2>2, <2>3 DEF old, len
    <2>11. /\ asked[c][id].type = "Add" => listeners'[k] = listeners[k] \cup {asked[c][id].address}
           /\ asked[c][id].type = "Remove" => listeners'[k] = listeners[k] \ {asked[c][id].address}
           /\ UNCHANGED listed
      BY <1>1, <2>3
    <2>12. listeners'[k] = Told(asked[c], new, k, len)
      BY <2>3, <2>9, <2>10, <2>11
    <2>13. ASSUME NEW m \in 1 .. len, asked[c][m].type = "List", asked[c][m].class = k,
                  new[m] = "Ok"
           PROVE  listed[c][m] = Told(asked[c], new, k, m)
      <3>1. m # id
        BY <2>3, <2>13
      <3>2. old[m] = "Ok"
        BY <2>8, <2>13, <3>1
      <3>3. m < id
        <4>1. ~(id <= m)
          <5> SUFFICES ASSUME id <= m PROVE FALSE
            OBVIOUS
          <5>1. ForSockets(c, m) /\ m \in 1 .. Len(asked[c])
            BY <2>13 DEF ForSockets, len
          <5> QED
            BY <1>5, <3>2, <5>1 DEF WaitInv, old
        <4>2. m \in Nat
          OBVIOUS
        <4> QED
          BY <2>5, <4>1, <4>2
      <3>4. /\ m \in 0 .. Len(asked[c]) /\ m <= m /\ 1 .. m \subseteq 1 .. len
            /\ \A l \in 1 .. m : l # id /\ ~(m < l)
        BY <1>2, <2>5, <3>3 DEF len
      <3>5. \A l \in 1 .. m : old[l] = new[l]
        BY <2>8, <3>4
      <3>6. \A l \in 1 .. m :
               /\ Changes(asked[c], old, k, l) <=> Changes(asked[c], new, k, l)
               /\ Changes(asked[c], old, k, l) => asked[c][l] = asked[c][l]
        BY <3>5 DEF Changes
      <3>7. \A l \in 1 .. m : m < l => ~Changes(asked[c], new, k, l)
        BY <3>4
      <3>8. Told(asked[c], new, k, m) = Told(asked[c], old, k, m)
        BY <2>8, <3>4, <3>6, <3>7, ToldSame
      <3>9. listed[c][m] = Told(asked[c], old, k, m)
        BY <1>4, <1>6, <2>2, <2>3, <2>13, <3>2 DEF old, len
      <3> QED
        BY <3>8, <3>9
    <2> QED
      BY <2>2, <2>3, <2>11, <2>12, <2>13 DEF len, new
  <1> QED
    BY <1>7, <1>8

\* The main loop takes a message.
LEMMA MessageTold ==
    ASSUME IInv, WaitInv, MetricsInv, TellInv, HandleMessage
    PROVE  WaitInv' /\ MetricsInv' /\ TellInv'
  <1>1. UNCHANGED <<asked, metrics, reader>> /\ messages # <<>>
    BY DEF HandleMessage, readerVars
  <1>2. PICK c \in Connections : \E id \in 1 .. Len(asked[c]) :
               /\ Head(messages) = <<c, id>> /\ messages[1] = <<c, id>> /\ id \in Ids
               /\ 1 \in 1 .. Len(messages) /\ Sent(c, id)
               /\ asked[c][id] \in Requests
               /\ Len(Tail(messages)) = Len(messages) - 1
               /\ \A p \in 1 .. Len(messages) - 1 :
                     p + 1 \in 1 .. Len(messages) /\ Tail(messages)[p] = messages[p + 1]
    BY <1>1, HeadWaits
  <1>3. PICK id \in 1 .. Len(asked[c]) :
               /\ Head(messages) = <<c, id>> /\ messages[1] = <<c, id>> /\ id \in Ids
               /\ 1 \in 1 .. Len(messages) /\ Sent(c, id)
               /\ asked[c][id] \in Requests
               /\ Len(Tail(messages)) = Len(messages) - 1
               /\ \A p \in 1 .. Len(messages) - 1 :
                     p + 1 \in 1 .. Len(messages) /\ Tail(messages)[p] = messages[p + 1]
    BY <1>2
  <1> DEFINE request == asked[c][id]
             k == request.class
             left == Tail(messages)
             Reply(r) == [result EXCEPT ![c][id] = r]
  <1>4. /\ Head(messages)[1] = c /\ Head(messages)[2] = id
        /\ RequestAt(c, id) = request
    BY <1>3 DEF RequestAt
  <1>5. \/ request.type = "Shutdown" /\ EndLoop(left, Reply("Ok")) /\ UNCHANGED <<listeners, listed>>
        \/ /\ request.type # "Shutdown" /\ messages' = left
           /\ \/ /\ request.type = "List"
                 /\ result' = Reply("Ok")
                 /\ listed' = [listed EXCEPT ![c][id] = listeners[k]]
                 /\ UNCHANGED listeners
              \/ /\ request.type = "Add"
                 /\ listeners' = [listeners EXCEPT ![k] = @ \cup {request.address}]
                 /\ result' = Reply("Ok")
                 /\ UNCHANGED listed
              \/ /\ request.type = "Add"
                 /\ result' = Reply("Error")
                 /\ UNCHANGED <<listeners, listed>>
              \/ /\ request.type = "Remove"
                 /\ listeners' = [listeners EXCEPT ![k] = @ \ {request.address}]
                 /\ result' = Reply("Ok")
                 /\ UNCHANGED listed
              \/ /\ request.type = "Remove"
                 /\ result' = Reply("NotFound")
                 /\ UNCHANGED <<listeners, listed>>
    BY <1>4, Zenon DEF HandleMessage, Without
  <1>6. MetricsInv'
    BY <1>1 DEF MetricsInv, ForSockets
  <1>7. CASE request.type = "Shutdown" /\ EndLoop(left, Reply("Ok")) /\ UNCHANGED <<listeners, listed>>
    <2>1. ~ForSockets(c, id)
      BY <1>3, <1>7 DEF Requests, ForSockets, SocketClasses
    <2>2. result \in [Connections -> [Ids -> Results]]
      BY DEF IInv, TypeOK
    <2> DEFINE lost == {left[j] : j \in 1 .. Len(left)}
    <2>3. ASSUME NEW d \in Connections, NEW i \in 1 .. Len(asked[d]), ForSockets(d, i)
          PROVE  Reply("Ok")[d][i] = result[d][i] /\ (Sent(d, i) <=> <<d, i>> \in lost)
      <3>1. d # c \/ i # id
        BY <2>1, <2>3
      <3>2. Reply("Ok")[d][i] = result[d][i]
        BY <2>2, <3>1
      <3>3. ASSUME Sent(d, i) PROVE <<d, i>> \in lost
        <4>1. PICK p \in 1 .. Len(messages) : messages[p] = <<d, i>>
          BY <3>3 DEF Sent
        <4>2. p # 1
          BY <1>3, <3>1, <4>1
        <4>3. Len(messages) \in Nat
          BY DEF IInv, TypeOK
        <4>4. p - 1 \in 1 .. Len(messages) - 1 /\ (p - 1) + 1 = p
          BY <4>2, <4>3
        <4>5. left[p - 1] = messages[p] /\ p - 1 \in 1 .. Len(left)
          BY <1>3, <4>4
        <4> QED
          BY <4>1, <4>5
      <3>4. ASSUME <<d, i>> \in lost PROVE Sent(d, i)
        <4>1. PICK p \in 1 .. Len(left) : left[p] = <<d, i>>
          BY <3>4
        <4>2. p + 1 \in 1 .. Len(messages) /\ messages[p + 1] = <<d, i>>
          BY <1>3, <4>1
        <4> QED
          BY <4>2 DEF Sent
      <3> QED
        BY <3>2, <3>3, <3>4
    <2>4. /\ messages' = <<>>
          /\ result' = [d \in Connections |-> [i \in Ids |->
                          IF <<d, i>> \in lost THEN "dropped" ELSE Reply("Ok")[d][i]]]
      BY <1>7 DEF EndLoop
    <2> HIDE DEF lost
    <2>5. ASSUME NEW d \in Connections, NEW i \in 1 .. Len(asked[d]), ForSockets(d, i)
          PROVE  result'[d][i] = IF Sent(d, i) THEN "dropped" ELSE result[d][i]
      BY <2>3, <2>4, <2>5, AskedIds
    <2> QED
      BY <1>1, <1>7, <2>4, <2>5, EndTold
  <1>8. CASE request.type # "Shutdown" /\ messages' = left
    <2>1. request.type \in {"List", "Add", "Remove"}
      BY <1>5, <1>8
    <2>2. k \in SocketClasses /\ ForSockets(c, id)
      BY <1>3, <2>1 DEF Requests, ForSockets, SocketClasses
    <2>3. PICK r \in {"Ok", "Error", "NotFound"} :
             /\ result' = Reply(r)
             /\ \/ /\ request.type = "List" /\ r = "Ok"
                   /\ listed' = [listed EXCEPT ![c][id] = listeners[k]]
                   /\ UNCHANGED listeners
                \/ /\ request.type = "Add" /\ r = "Ok"
                   /\ listeners' = [listeners EXCEPT ![k] = @ \cup {request.address}]
                   /\ UNCHANGED listed
                \/ /\ request.type = "Remove" /\ r = "Ok"
                   /\ listeners' = [listeners EXCEPT ![k] = @ \ {request.address}]
                   /\ UNCHANGED listed
                \/ /\ request.type \in {"Add", "Remove"} /\ r # "Ok"
                   /\ UNCHANGED <<listeners, listed>>
      BY <1>5, <1>8
    <2>4. /\ messages # <<>> /\ messages' = Tail(messages) /\ messages[1] = <<c, id>>
          /\ UNCHANGED <<asked, reader>> /\ r \in {"Ok", "Error", "NotFound"}
          /\ result'[c][id] = r
          /\ \A d \in Connections : \A i \in 1 .. Len(asked[d]) :
                d # c \/ i # id => result'[d][i] = result[d][i]
      <3>1. result \in [Connections -> [Ids -> Results]]
        BY DEF IInv, TypeOK
      <3> QED
        BY <1>1, <1>3, <1>8, <2>3, <3>1, AskedIds
    <2>5. WaitInv' /\ result[c][id] = "pending"
      BY <2>2, <2>4, WaitHandled
    <2>6. k \in SocketClasses /\ asked[c][id].class = k /\ id \in Ids /\ UNCHANGED asked
      BY <1>1, <1>3, <2>2
    <2> HIDE DEF k
    <2>7. TellInv'
      BY <1>3, <2>3, <2>4, <2>5, <2>6, TellHandled
    <2> QED
      BY <1>6, <2>5, <2>7
  <1> QED
    BY <1>5, <1>7, <1>8

\* A manager is told the truth at first, having asked for nothing.
LEMMA InitTold == Init => WaitInv /\ MetricsInv /\ TellInv
  <1> SUFFICES ASSUME Init PROVE WaitInv /\ MetricsInv /\ TellInv
    OBVIOUS
  <1>1. \A c \in Connections : Len(asked[c]) = 0 /\ reader[c] = "read"
    BY DEF Init
  <1>2. Len(messages) = 0 /\ Len(metrics) = 0 /\ listeners = InitialSockets
    BY DEF Init
  <1>3. WaitInv /\ MetricsInv
    BY <1>1, <1>2 DEF WaitInv, MetricsInv
  <1>4. ASSUME NEW c \in Connections, NEW k \in SocketClasses
        PROVE  Told(asked[c], result[c], k, 0) = InitialSockets[k]
    <2>1. InitialSockets[k] \subseteq Addresses
      BY SandstormServerAssumption
    <2>2. \A S : S \cap 1 .. 0 = {}
      OBVIOUS
    <2> QED
      BY <2>1, <2>2 DEF Told
  <1>5. TellInv
    BY <1>1, <1>2, <1>4 DEF TellInv
  <1> QED
    BY <1>3, <1>5

\* Whatever happens, managers go on to be told the truth.
LEMMA StepTold ==
    ASSUME IInv, WaitInv, MetricsInv, TellInv, [Next]_vars
    PROVE  WaitInv' /\ MetricsInv' /\ TellInv'
  <1>1. reader \in [Connections -> {"read", "message", "metrics", "notify", "end"}]
    BY DEF IInv, TypeOK
  <1>2. ASSUME UNCHANGED <<asked, result, listed, listeners, messages, metrics>>,
               \/ UNCHANGED reader
               \/ \E c \in Connections :
                     /\ reader[c] # "message"
                     /\ \E place \in {"read", "end", "notify"} :
                           reader' = [reader EXCEPT ![c] = place]
        PROVE  WaitInv' /\ MetricsInv' /\ TellInv'
    <2>1. \A c \in Connections : /\ reader'[c] = "message" <=> reader[c] = "message"
                                 /\ reader'[c] = "metrics" => reader[c] = "metrics"
      BY <1>1, <1>2
    <2> QED
      BY <1>2, <2>1, QuietTold DEF IInv
  <1>3. CASE \E c \in Connections : Read(c)
    BY <1>3, ReadTold, ConnectionStep DEF IInv
  <1>4. CASE \E c \in Connections : SendMessage(c)
    BY <1>4, SendTold
  <1>5. CASE \E c \in Connections : ReadEof(c) \/ Notify(c) \/ ConnectionError(c) \/ Cancel(c)
    <2>1. UNCHANGED <<asked, result, listed, listeners, messages, metrics>>
      BY <1>5 DEF ReadEof, Notify, ConnectionError, Cancel, loopVars, readerVars
    <2>2. \/ UNCHANGED reader
          \/ \E c \in Connections : /\ reader[c] # "message"
                                    /\ \E place \in {"read", "end", "notify"} :
                                          reader' = [reader EXCEPT ![c] = place]
      BY <1>5 DEF ReadEof, Notify, ConnectionError, Cancel, readerVars
    <2> QED
      BY <1>2, <2>1, <2>2
  <1>6. CASE \E c \in Connections : RequestMetrics(c)
    <2>1. PICK c \in Connections : RequestMetrics(c)
      BY <1>6
    <2>2. /\ UNCHANGED <<asked, result, listed, listeners, messages>>
          /\ metrics' = Append(metrics, <<c, Len(asked[c])>>) /\ reader[c] = "metrics"
          /\ reader' = [reader EXCEPT ![c] = "notify"]
      BY <2>1 DEF RequestMetrics, loopVars, Latest
    <2>3. /\ Len(asked[c]) \in 1 .. Len(asked[c]) /\ Len(asked[c]) \in Ids
          /\ ~ForSockets(c, Len(asked[c]))
      BY <2>2, LatestAsked DEF IInv, Latest, MetricsInv
    <2>4. \A d \in Connections : /\ reader'[d] = "message" <=> reader[d] = "message"
                                 /\ reader'[d] = "metrics" => reader[d] = "metrics"
      BY <1>1, <2>2
    <2> QED
      BY <2>2, <2>3, <2>4, QuietTold DEF IInv
  <1>7. CASE \E c \in Connections : Subscribe(c)
    <2>1. PICK c \in Connections : Subscribe(c)
      BY <1>7
    <2>2. /\ UNCHANGED <<asked, result, listed, listeners, messages, reader>>
          /\ metrics' = Append(metrics, <<c, writer[c].id>>) /\ writer[c].at = "subscribe"
      BY <2>1 DEF Subscribe, At, loopVars, readerVars
    <2>3. writer[c].id \in 1 .. Len(asked[c]) /\ writer[c].id \in Ids
      BY <2>2, NextWaited DEF IInv
    <2>4. ~ForSockets(c, writer[c].id)
      <3>1. InTurn(c)
        BY DEF IInv, ConnectionInv
      <3> QED
        BY <2>2, <3>1 DEF InTurn, RequestAt, ForSockets, QueueClasses
    <2> QED
      BY <2>2, <2>3, <2>4, QuietTold DEF IInv
  <1>8. CASE \E c \in Connections : WriterStep(c) /\ ~Subscribe(c)
    <2>1. ASSUME NEW c \in Connections,
                 \/ TakeNotification(c) \/ FrontReady(c) \/ ShutdownReady(c)
                 \/ Subscribed(c) \/ CloseNotifications(c)
          PROVE  UNCHANGED <<asked, result, listed, listeners, messages, metrics, reader>>
      BY <2>1 DEF TakeNotification, FrontReady, ShutdownReady, Subscribed,
                  CloseNotifications, loopVars, readerVars
    <2>2. ASSUME NEW c \in Connections,
                 \/ StreamEvent(c) \/ Flush(c) \/ Finish(c)
                 \/ \E k \in QueueClasses : AnswerQueue(c, k)
          PROVE  UNCHANGED <<asked, result, listed, listeners, messages, metrics, reader>>
      BY <2>2 DEF StreamEvent, Flush, Finish, AnswerQueue, loopVars, readerVars
    <2> QED
      BY <1>2, <1>8, <2>1, <2>2 DEF WriterStep
  <1>9. CASE LogEvent \/ UNCHANGED vars
    BY <1>2, <1>9 DEF LogEvent, vars, loopVars, readerVars
  <1>10. CASE HandleMessage
    BY <1>10, MessageTold
  <1>11. CASE HandleMetrics
    BY <1>11, MetricsTold
  <1>12. CASE Signal
    <2> DEFINE lost == {messages[j] : j \in 1 .. Len(messages)}
    <2>1. /\ UNCHANGED <<asked, listed, listeners, metrics, reader>> /\ messages' = <<>>
          /\ result' = [d \in Connections |-> [i \in Ids |->
                          IF <<d, i>> \in lost THEN "dropped" ELSE result[d][i]]]
      BY <1>12 DEF Signal, EndLoop, readerVars
    <2>2. \A d, i : Sent(d, i) <=> <<d, i>> \in lost
      BY DEF Sent
    <2> HIDE DEF lost
    <2>3. ASSUME NEW d \in Connections, NEW i \in 1 .. Len(asked[d]), ForSockets(d, i)
          PROVE  result'[d][i] = IF Sent(d, i) THEN "dropped" ELSE result[d][i]
      BY <2>1, <2>2, AskedIds
    <2> QED
      BY <2>1, <2>3, EndTold
  <1>13. [Next]_vars => Next \/ UNCHANGED vars
    OBVIOUS
  <1> QED
    BY <1>3, <1>4, <1>5, <1>6, <1>7, <1>8, <1>9, <1>10, <1>11, <1>12, <1>13 DEF Next, ReaderStep

\* A manager that is alone in asking for sockets of a class is told by each list what
\* the answers before it amount to, whoever else is connected, whatever it asks in
\* between, and however small the channels are.
THEOREM ManagersAreTold == Spec => []SocketsTold
  <1>1. Init => TInv
    BY InitIInv, InitTold DEF TInv
  <1>2. TInv /\ [Next]_vars => TInv'
    BY StepIInv, StepTold DEF TInv
  <1>3. TInv => SocketsTold
    BY DEF TInv, TellInv, SocketsTold
  <1> QED
    BY <1>1, <1>2, <1>3, PTL DEF Spec

=============================================================================
