---------------------------- MODULE ListPopupsProofs ----------------------------
(***************************************************************************)
(* Proofs about the copies of the terminal interface: that a list is       *)
(* always in order, has no key twice, and has its selection (ListInv);     *)
(* that it shows only what the server has had (NothingInvented); and that  *)
(* it shows what the server has once everything has arrived (CopyTrue).    *)
(*                                                                         *)
(* The three follow from one inductive invariant, Inv.  It says of every   *)
(* value on its way to a copy, in the server, the stream, the channel, the *)
(* watch, an answer or a form, that the server has had it, and that it is  *)
(* the one in force if it is of the key's latest change (Sound); and of    *)
(* every key, that its latest change has reached the copy, was lost to it, *)
(* or is still on its way in the order of the events (ReachInv).            *)
(***************************************************************************)
EXTENDS ListPopups, FiniteSetTheorems, WellFoundedInduction, TLAPS

\* The values the server may have for a key: a user or a socket may be absent.
Known == ValuesOf(kind) \cup (IF kind \in {"users", "sockets"} THEN {None} ELSE {})

Event == [key : Keys, value : Known, count : Nat]

Item == Event \cup [key : Keys, value : Known, count : Nat, guess : BOOLEAN]

Change == UNION {Changes(k) : k \in Keys}

BusyJob ==
    [step : {IF kind = "buffer" THEN "store" ELSE "log"}, key : Keys, value : Known,
     count : Nat \ {0}, id : Nat]

ReadJob == [step : {"read"}, left : SUBSET Keys, got : [Keys -> Known \cup {None}], id : Nat]

ListRequest == [type : {"list"}, id : Nat]

SetRequest == [type : {"set"}, id : Nat, change : Change]

ListAnswer == [type : {"list"}, id : Nat, got : [Keys -> Known]]

DoneAnswer == [type : {"done"}, id : Nat, ok : BOOLEAN, value : Known \cup {None}, count : Nat]

FormStates == {"none", "open", "waiting", "ready"}

Forms ==
    [state : FormStates, id : Nat, change : Change \cup {None}, role : Roles \cup {None},
     ok : BOOLEAN, count : Nat, value : Known \cup {None}]

Views ==
    [shown : Seq(Entry), selected : Nat, filter : [roles : SUBSET Roles, names : SUBSET Names],
     dirty : BOOLEAN]

PopupStates == {"closed", "waiting", "ready", "live", "failed"}

TypeInv ==
    /\ kind \in Kinds
    /\ truth \in [Keys -> Known]
    /\ server \in [Managers -> {Idle} \cup BusyJob \cup ReadJob]
    /\ requests \in Seq(ListRequest \cup SetRequest)
    /\ answers \in Seq(ListAnswer \cup DoneAnswer)
    /\ alive \in BOOLEAN
    /\ popup \in [state : PopupStates, id : Nat, got : [Keys -> Known] \cup {None}]
    /\ form \in Forms
    /\ view \in Views
    /\ count \in [Keys -> Nat] /\ readAt \in [Keys -> Nat \cup {None}]
    /\ newest \in [Keys -> Nat]
    /\ stale \in SUBSET Keys /\ raced \in SUBSET Keys

\* The value in force.  A buffer size is stored after it was told, so a handler that
\* has yet to store it has it.
Current(k, v) ==
    IF kind = "buffer" /\ Busy(k) # {} THEN \A m \in Busy(k) : server[m].value = v
    ELSE truth[k] = v

\* What may be said of the change of a key, by an event: the server has had the value,
\* and it is the one in force if there was no change since.
SoundEvents ==
    {e \in Event : /\ [key |-> e.key, value |-> e.value] \in had
                   /\ e.count <= count[e.key]
                   /\ e.count = count[e.key] /\ e.key \notin raced => Current(e.key, e.value)}

Sound(k, v, n) == [key |-> k, value |-> v, count |-> n] \in SoundEvents

\* A form may tell a guess, which is of a value the server has had.
SoundItems ==
    SoundEvents \cup
    {i \in Item \ Event : /\ [key |-> i.key, value |-> i.value] \in had /\ i.count <= count[i.key]
                          /\ i.guess \/ Sound(i.key, i.value, i.count)}

\* What is on its way is sound.
FlowInv ==
    /\ stream \in Seq(SoundEvents) /\ channel \in Seq(SoundEvents)
    /\ watch \in [popup : Seq(SoundItems) \cup {None}, form : Seq(SoundItems) \cup {None}]

\* The handlers' changes are sound; and two that set the buffer size at once race.
ServerInv ==
    /\ \A k \in Keys : [key |-> k, value |-> truth[k]] \in had
    /\ \A m \in Managers : server[m].step \in {"log", "store"} =>
          Sound(server[m].key, server[m].value, server[m].count)
    /\ kind = "buffer" => \A k \in Keys \ raced : \A m \in Busy(k) :
          server[m].count = count[k] /\ \A n \in Busy(k) : n = m

\* What a list that was read has for the keys ks.
ReadSound(got, ks) ==
    \A k \in ks : readAt[k] # None /\ Sound(k, got[k], readAt[k])

\* The request of the popup that is open, or was last.
CurrentRequests == {i \in 1 .. Len(requests) : requests[i].type = "list" /\ requests[i].id = popup.id}

CurrentAnswers == {i \in 1 .. Len(answers) : answers[i].type = "list" /\ answers[i].id = popup.id}

Reading == server["mine"].step = "read" /\ server["mine"].id = popup.id

\* A list is asked for once, read once, and answered as it was read.
ListsInv ==
    /\ \A i \in 1 .. Len(requests) : requests[i].type = "list" =>
          requests[i].id \in 1 .. popup.id /\ (requests[i].id = popup.id => \A k \in Keys : readAt[k] = None)
    /\ server["mine"].step = "read" =>
          LET job == server["mine"]
          IN  /\ job.id \in 1 .. popup.id
              /\ \A k \in Keys \ job.left : job.got[k] \in Known /\ [key |-> k, value |-> job.got[k]] \in had
              /\ job.id = popup.id => /\ ReadSound(job.got, Keys \ job.left)
                                      /\ \A k \in job.left : readAt[k] = None
    /\ \A i \in 1 .. Len(answers) : answers[i].type = "list" =>
          /\ answers[i].id \in 1 .. popup.id
          /\ \A k \in Keys : [key |-> k, value |-> answers[i].got[k]] \in had
          /\ answers[i].id = popup.id => ReadSound(answers[i].got, Keys)
    /\ popup.state = "ready" =>
          popup.got \in [Keys -> Known] /\ ReadSound(popup.got, Keys)
    /\ \A i, j \in CurrentRequests : i = j
    /\ Reading => CurrentRequests = {}
    /\ CurrentAnswers # {} \/ popup.state = "ready" => CurrentRequests = {} /\ ~Reading

\* The change c was made, of the value v and with the count n.
Made(c, v, n) ==
    /\ Sound(c.key, v, n)
    /\ (c.op = "update" /\ c.value = None) \/ v = c.value

SetRequests == {i \in 1 .. Len(requests) : requests[i].type = "set"}

DoneAnswers == {i \in 1 .. Len(answers) : answers[i].type = "done"}

Ours == server["mine"].step \in {"log", "store"}

\* A form waits for one request, which is of its change.
FormInv ==
    /\ alive => /\ \A i \in SetRequests : /\ form.state = "waiting" /\ requests[i].id = form.id
                                          /\ requests[i].change = form.change
                /\ Ours => /\ form.state = "waiting" /\ server["mine"].id = form.id
                           /\ server["mine"].key = form.change.key
                           /\ Made(form.change, server["mine"].value, server["mine"].count)
                /\ \A i \in DoneAnswers :
                      /\ form.state = "waiting" /\ answers[i].id = form.id
                      /\ answers[i].ok => Made(form.change, answers[i].value, answers[i].count)
                /\ \A i, j \in SetRequests : i = j
                /\ \A i, j \in DoneAnswers : i = j
                /\ Ours => SetRequests = {}
                /\ DoneAnswers # {} => SetRequests = {} /\ ~Ours
    /\ form.state = "ready" /\ form.ok => Made(form.change, form.value, form.count)
    /\ form.state # "none" => popup.state = "live" /\ form.change \in Change
    /\ form.state # "none" /\ form.change.op = "update" =>
          form.role # None /\ [key |-> form.change.key, value |-> form.role] \in had
    /\ watch.form # None => form.state # "none" /\ form.change.op = "update"
    /\ kind = "methods" => form.state # "open"

\* The popup's task subscribes once it has its list; the menu bar at once.
PopupInv ==
    /\ watch.popup # None <=> popup.state = "live" \/ kind = "buffer"
    /\ kind = "buffer" => popup.id = 1 /\ popup.state \in {"waiting", "live"}

\* The keys whose latest change is on its way by the events.
Coming ==
    {k \in Keys :
       \/ \E m \in Managers : server[m].step = "log" /\ server[m].key = k /\ server[m].count = count[k]
       \/ \E i \in 1 .. Len(stream) : stream[i].key = k /\ stream[i].count = count[k]
       \/ \E i \in 1 .. Len(channel) : channel[i].key = k /\ channel[i].count = count[k]
       \/ /\ watch.popup # None
          /\ \E i \in 1 .. Len(watch.popup) : watch.popup[i].key = k /\ watch.popup[i].count = count[k]}

Loading == popup.state \in {"waiting", "ready"} /\ kind # "buffer"

\* The latest change of a key reaches the copy, with the list or by the events, is
\* counted as lost, or is on its way.
ReachInv ==
    \A k \in Keys :
       /\ newest[k] <= count[k] /\ (readAt[k] # None => readAt[k] <= count[k])
       /\ Loading /\ readAt[k] = None => newest[k] = 0
       /\ Loading /\ readAt[k] # None => (newest[k] <= readAt[k] \/ k \in stale)
       /\ Loading /\ readAt[k] # None =>
             newest[k] = count[k] \/ readAt[k] = count[k] \/ k \in Coming
       /\ popup.state = "live" \/ kind = "buffer" => newest[k] = count[k] \/ k \in Coming

\* The list has v for k.
Shows(list, k, v) ==
    IF v = None THEN \A i \in 1 .. Len(list) : list[i].key # k
    ELSE \E i \in 1 .. Len(list) : list[i] = [key |-> k, value |-> v]

\* A list that the searches work on.
Lists ==
    {list \in Seq(Entry) :
       /\ \A i, j \in 1 .. Len(list) : list[i].key = list[j].key => i = j
       /\ kind \in {"users", "sockets"} => InOrder(list)}

\* A list of both methods, as it is loaded.
BothMethods(list) ==
    Len(list) = 2 /\ list[1].key = "NoAuth" /\ list[2].key = "UsernameAndPassword"

\* The copy is a list of what the server has had, and has of every key the value of
\* the change it was last given, unless that is stale.
CopyInv ==
    /\ copy \in Lists /\ \A i \in 1 .. Len(copy) : copy[i] \in had
    /\ kind = "methods" /\ popup.state = "live" => BothMethods(copy)
    /\ kind = "buffer" => (popup.state = "live" <=> Len(copy) = 1)
    /\ copy # <<>> => popup.state = "live"
    /\ popup.state = "live" =>
          \A k \in Keys \ stale : \E v \in Known : Shows(copy, k, v) /\ Sound(k, v, newest[k])

ViewInv ==
    /\ \A i \in 1 .. Len(view.shown) : view.shown[i] \in had
    /\ kind \in {"users", "sockets"} => InOrder(view.shown)
    /\ view.selected <= Len(view.shown)
    /\ kind = "methods" => Len(view.shown) <= 2
    /\ view.shown # <<>> => popup.state = "live"

Inv ==
    /\ TypeInv /\ FlowInv /\ ServerInv /\ ListsInv /\ FormInv /\ PopupInv /\ ReachInv
    /\ CopyInv /\ ViewInv

--------------------------------------------------------------------------------
(***************************************************************************)
(* Numbers.  A set of naturals has a least element, and if it is bounded a *)
(* greatest one.  An induction is a proof that the set of counterexamples  *)
(* has no least element.                                                   *)
(***************************************************************************)

\* A set of naturals that is not empty has a least element.
LEMMA LeastNat ==
    ASSUME NEW T \in SUBSET Nat, T # {}
    PROVE  \E n \in T : \A m \in T : n <= m
<1> DEFINE R == {p \in Nat \X Nat : p[1] < p[2]}
<1>1. IsWellFoundedOn(R, Nat)
    <2>1. OpToRel(<, Nat) = R
        BY DEF OpToRel
    <2> QED BY <2>1, NatLessThanWellFounded, Zenon
<1>2. \E n \in T : \A m \in T : ~ (<<m, n>> \in R)
    <2> HIDE DEF R
    <2> QED BY <1>1, WFMin
<1>3. PICK n \in T : \A m \in T : ~ (<<m, n>> \in R)
    BY <1>2
<1>4. \A m \in T : n <= m
    <2> TAKE m \in T
    <2>1. <<m, n>> \notin R /\ m \in Nat /\ n \in Nat
        BY <1>3
    <2>2. ~(m < n)
        BY <2>1, Zenon
    <2> QED BY <2>1, <2>2
<1> QED BY <1>4

\* Min is the least element.
LEMMA MinLeast ==
    ASSUME NEW T \in SUBSET Nat, T # {}
    PROVE  Min(T) \in T /\ \A m \in T : Min(T) <= m
<1>1. \E n \in T : \A m \in T : n <= m
    BY LeastNat
<1> QED BY <1>1 DEF Min

\* Max is the greatest element, where there is a bound.
LEMMA MaxGreatest ==
    ASSUME NEW T \in SUBSET Nat, T # {}, NEW b \in Nat, \A m \in T : m <= b
    PROVE  Max(T) \in T /\ \A m \in T : m <= Max(T)
<1> DEFINE U == {n \in Nat : \A m \in T : m <= n}
<1>1. PICK n \in U : \A m \in U : n <= m
    BY LeastNat
<1>2. n \in T
    <2> SUFFICES ASSUME n \notin T PROVE FALSE
        OBVIOUS
    <2>1. PICK m \in T : TRUE
        OBVIOUS
    <2>2. n # 0 /\ n \in Nat
        BY <2>1
    <2>3. n - 1 \in U
        BY <2>2
    <2> QED BY <2>2, <2>3, <1>1
<1>3. \E x \in T : \A y \in T : x >= y
    BY <1>2
<1> QED BY <1>3 DEF Max

\* The greater of two.
LEMMA MaxTwo ==
    ASSUME NEW a \in Nat, NEW b \in Nat
    PROVE  Max({a, b}) = IF a <= b THEN b ELSE a
<1>1. Max({a, b}) \in {a, b} /\ \A m \in {a, b} : m <= Max({a, b})
    BY MaxGreatest, a <= a + b, b <= a + b, a + b \in Nat
<1> QED BY <1>1

\* Finitely many numbers have a bound.
LEMMA FiniteBound ==
    ASSUME NEW S, IsFiniteSet(S), NEW f \in [S -> Nat]
    PROVE  \E b \in Nat : \A x \in S : f[x] <= b
<1>1. PICK n \in Nat : ExistsSurjection(1 .. n, S)
    BY FS_NatSurjection
<1>2. PICK g \in [1 .. n -> S] : \A x \in S : \E i \in 1 .. n : g[i] = x
    BY <1>1 DEF ExistsSurjection, Surjection
<1> DEFINE h == [i \in 1 .. n |-> f[g[i]]]
           Bad == {m \in 0 .. n : \A b \in Nat : \E i \in 1 .. m : h[i] > b}
<1>3. h \in [1 .. n -> Nat]
    BY <1>2
<1> HIDE DEF h
<1>4. Bad \in SUBSET Nat /\ 0 \notin Bad
    BY 0 \in Nat
<1>5. ASSUME NEW m \in 1 .. n, m - 1 \notin Bad PROVE m \notin Bad
    <2>1. m - 1 \in 0 .. n
        BY <1>1
    <2>2. PICK b \in Nat : \A i \in 1 .. (m - 1) : ~(h[i] > b)
        BY <1>5, <2>1
    <2>3. h[m] \in Nat
        BY <1>3, <1>5
    <2>4. ASSUME NEW i \in 1 .. m PROVE ~(h[i] > b + h[m])
        <3>1. h[i] \in Nat
            BY <1>1, <1>3, <1>5
        <3>2. i = m \/ ~(h[i] > b)
            BY <1>1, <2>2, <1>5
        <3> QED BY <3>1, <3>2, <2>3
    <2>5. b + h[m] \in Nat
        BY <2>3
    <2> QED BY <2>4, <2>5
<1>6. Bad = {}
    <2> SUFFICES ASSUME Bad # {} PROVE FALSE
        OBVIOUS
    <2>1. \A m \in Bad : m \in 0 .. n
        OBVIOUS
    <2> HIDE DEF Bad
    <2>2. PICK m \in Bad : \A k \in Bad : m <= k
        BY <1>4, LeastNat
    <2>3. m \in 1 .. n
        BY <2>1, <1>4, <1>1
    <2>4. m - 1 \in Bad
        BY <1>5, <2>3
    <2> QED BY <2>2, <2>3, <2>4, <1>1
<1>7. PICK b \in Nat : \A i \in 1 .. n : ~(h[i] > b)
    <2>1. n \in 0 .. n
        BY <1>1
    <2> QED BY <1>6, <2>1, Zenon
<1>8. ASSUME NEW x \in S PROVE f[x] <= b
    <2>1. PICK i \in 1 .. n : g[i] = x
        BY <1>2
    <2>2. h[i] = f[x] /\ h[i] \in Nat
        BY <2>1, <1>3 DEF h
    <2> QED BY <2>2, <1>7
<1> QED BY <1>8

--------------------------------------------------------------------------------
(***************************************************************************)
(* Sequences: an item inserted, an item removed, the items that pass.      *)
(***************************************************************************)

\* A set's sequences are those of a larger set too.
LEMMA SeqGrows ==
    ASSUME NEW S, NEW T, S \subseteq T
    PROVE  Seq(S) \subseteq Seq(T)
    OBVIOUS

\* The items of a concatenation, by index and with its lengths as numbers.
LEMMA ConcatAt ==
    ASSUME NEW S, NEW a \in Seq(S), NEW b \in Seq(S), NEW p, NEW q, p = Len(a), q = Len(b)
    PROVE  /\ a \o b \in Seq(S) /\ Len(a \o b) = p + q /\ p \in Nat /\ q \in Nat
           /\ \A j \in 1 .. p : (a \o b)[j] = a[j]
           /\ \A j \in 1 .. (p + q) : ~(j <= p) => (a \o b)[j] = b[j - p]
    OBVIOUS

\* What InsertAt does, by index.
LEMMA InsertedAt ==
    ASSUME NEW S, NEW list \in Seq(S), NEW e \in S, NEW i \in 1 .. (Len(list) + 1)
    PROVE  /\ InsertAt(list, i, e) \in Seq(S)
           /\ Len(InsertAt(list, i, e)) = Len(list) + 1
           /\ \A j \in 1 .. (Len(list) + 1) :
                 InsertAt(list, i, e)[j] = IF j < i THEN list[j] ELSE IF j = i THEN e ELSE list[j - 1]
<1> DEFINE a == SubSeq(list, 1, i - 1)
           b == SubSeq(list, i, Len(list))
           n == Len(list)
<1>1. i - 1 \in 0 .. n /\ n \in Nat /\ i \in 1 .. (n + 1)
    OBVIOUS
<1>2. a \in Seq(S) /\ Len(a) = i - 1 /\ \A j \in 1 .. (i - 1) : a[j] = list[j]
    BY <1>1
<1>3. b \in Seq(S) /\ Len(b) = n - i + 1 /\ \A j \in 1 .. (n - i + 1) : b[j] = list[i + j - 1]
    BY <1>1
<1>4. InsertAt(list, i, e) = a \o <<e>> \o b
    BY DEF InsertAt
<1>5. SUFFICES /\ a \o <<e>> \o b \in Seq(S) /\ Len(a \o <<e>> \o b) = n + 1
               /\ \A j \in 1 .. (n + 1) : (a \o <<e>> \o b)[j] =
                     IF j < i THEN list[j] ELSE IF j = i THEN e ELSE list[j - 1]
    BY <1>4, Zenon
<1> HIDE DEF a, b, n
<1> DEFINE c == a \o <<e>>
<1>6. c \in Seq(S) /\ Len(c) = i /\ c[i] = e /\ \A j \in 1 .. (i - 1) : c[j] = list[j]
    BY <1>1, <1>2
<1> HIDE DEF c
<1>7. /\ c \o b \in Seq(S) /\ Len(c \o b) = i + (n - i + 1)
      /\ \A j \in 1 .. i : (c \o b)[j] = c[j]
      /\ \A j \in 1 .. (i + (n - i + 1)) : ~(j <= i) => (c \o b)[j] = b[j - i]
    BY <1>3, <1>6, ConcatAt
<1> DEFINE d == c \o b
<1> HIDE DEF d
<1>8. d \in Seq(S) /\ Len(d) = n + 1
    BY <1>1, <1>7 DEF d
<1>9. ASSUME NEW j \in 1 .. (n + 1)
      PROVE  d[j] = IF j < i THEN list[j] ELSE IF j = i THEN e ELSE list[j - 1]
    <2>1. ASSUME ~(j <= i) PROVE d[j] = list[j - 1]
        <3>1. d[j] = b[j - i]
            BY <1>1, <1>7, <2>1 DEF d
        <3>2. j - i \in 1 .. (n - i + 1) /\ i + (j - i) - 1 = j - 1
            BY <1>1, <2>1
        <3> QED BY <1>3, <3>1, <3>2
    <2>2. ASSUME j <= i PROVE d[j] = c[j] /\ j \in 1 .. i
        BY <1>1, <1>7, <2>2 DEF d
    <2>3. j < i \/ j = i \/ ~(j <= i)
        BY <1>1
    <2>4. ASSUME j < i PROVE j <= i /\ j \in 1 .. (i - 1)
        BY <1>1, <2>4
    <2>5. j = i => j <= i /\ ~(j < i)
        BY <1>1
    <2>6. ~(j <= i) => ~(j < i) /\ j # i
        BY <1>1
    <2> QED BY <1>6, <2>1, <2>2, <2>3, <2>4, <2>5, <2>6
<1> QED BY <1>8, <1>9 DEF c, d

\* What RemoveAt does, by index.
LEMMA RemovedAt ==
    ASSUME NEW S, NEW list \in Seq(S), NEW i \in 1 .. Len(list)
    PROVE  /\ RemoveAt(list, i) \in Seq(S)
           /\ Len(RemoveAt(list, i)) = Len(list) - 1
           /\ \A j \in 1 .. (Len(list) - 1) :
                 RemoveAt(list, i)[j] = IF j < i THEN list[j] ELSE list[j + 1]
<1> DEFINE a == SubSeq(list, 1, i - 1)
           b == SubSeq(list, i + 1, Len(list))
           n == Len(list)
<1>1. i - 1 \in 0 .. n /\ n \in Nat /\ i \in 1 .. n
    OBVIOUS
<1>2. a \in Seq(S) /\ Len(a) = i - 1 /\ \A j \in 1 .. (i - 1) : a[j] = list[j]
    BY <1>1
<1>3. b \in Seq(S) /\ Len(b) = n - i /\ \A j \in 1 .. (n - i) : b[j] = list[i + j]
    BY <1>1
<1>4. RemoveAt(list, i) = a \o b
    BY DEF RemoveAt
<1>5. SUFFICES /\ a \o b \in Seq(S) /\ Len(a \o b) = n - 1
               /\ \A j \in 1 .. (n - 1) : (a \o b)[j] = IF j < i THEN list[j] ELSE list[j + 1]
    BY <1>4, Zenon
<1> HIDE DEF a, b, n
<1> DEFINE p == i - 1
           q == n - i
<1>a. p = Len(a) /\ q = Len(b) /\ a \in Seq(S) /\ b \in Seq(S)
    BY <1>2, <1>3
<1> HIDE DEF p, q
<1>6. /\ a \o b \in Seq(S) /\ Len(a \o b) = p + q
      /\ \A j \in 1 .. p : (a \o b)[j] = a[j]
      /\ \A j \in 1 .. (p + q) : ~(j <= p) => (a \o b)[j] = b[j - p]
    BY <1>a, ConcatAt
<1> USE DEF p, q
<1> DEFINE d == a \o b
<1> HIDE DEF d
<1>7. d \in Seq(S) /\ Len(d) = n - 1
    BY <1>1, <1>6 DEF d
<1>8. ASSUME NEW j \in 1 .. (n - 1)
      PROVE  d[j] = IF j < i THEN list[j] ELSE list[j + 1]
    <2>1. ASSUME ~(j < i) PROVE d[j] = list[j + 1]
        <3>1. d[j] = b[j - (i - 1)]
            BY <1>1, <1>6, <2>1 DEF d
        <3>2. j - (i - 1) \in 1 .. (n - i) /\ i + (j - (i - 1)) = j + 1
            BY <1>1, <2>1
        <3> QED BY <1>3, <3>1, <3>2
    <2>2. ASSUME j < i PROVE d[j] = list[j]
        <3>1. j \in 1 .. (i - 1)
            BY <1>1, <2>2
        <3> QED BY <1>2, <1>6, <3>1 DEF d
    <2> QED BY <2>1, <2>2
<1> QED BY <1>7, <1>8 DEF d

--------------------------------------------------------------------------------
(***************************************************************************)
(* Ranks, and the places for an item in a list that is in order.           *)
(***************************************************************************)

\* None is no value, no number, and no queue.
LEMMA NoneApart ==
    ASSUME kind \in Kinds
    PROVE  /\ None \notin ValuesOf(kind) /\ None \notin Nat
           /\ None \notin Seq(SoundItems)
<1>1. kind \in {"users", "sockets", "methods", "buffer"} /\ None \notin Nat
    BY ListPopupsAssumption
<1>2. None \notin ValuesOf(kind)
    BY <1>1, ListPopupsAssumption DEF ValuesOf, Roles
<1>3. SoundItems \subseteq ItemsOf(kind)
    BY <1>1 DEF SoundItems, SoundEvents, Item, Event, ItemsOf, Known, Keys
<1>4. None \notin Seq(ItemsOf(kind))
    BY ListPopupsAssumption
<1> QED BY <1>1, <1>2, <1>3, <1>4, SeqGrows

\* The keys of users and sockets are names and addresses; they are finitely many.
LEMMA KeysFinite ==
    ASSUME kind \in Kinds
    PROVE  /\ IsFiniteSet(Keys)
           /\ kind \in {"users", "sockets"} => Keys \subseteq Names \cup Addresses
           /\ kind \in {"users", "sockets", "methods", "buffer"}
<1>1. kind \in {"users", "sockets", "methods", "buffer"}
    BY ListPopupsAssumption
<1>2. CASE kind = "users"
    BY <1>2, ListPopupsAssumption DEF Keys, KeysOf
<1>3. CASE kind = "sockets"
    BY <1>3, ListPopupsAssumption DEF Keys, KeysOf
<1>4. CASE kind = "methods"
    <2>1. Keys = {"NoAuth"} \cup {"UsernameAndPassword"}
        BY <1>4 DEF Keys, KeysOf, Methods
    <2> QED BY <1>4, <2>1, FS_Singleton, FS_AddElement
<1>5. CASE kind = "buffer"
    BY <1>5, FS_Singleton DEF Keys, KeysOf
<1> QED BY <1>1, <1>2, <1>3, <1>4, <1>5

\* The greatest place of a name is a number, if there are names.
LEMMA MaxOrder ==
    ASSUME NEW k \in Names
    PROVE  Max({Order[n] : n \in Names}) \in Nat
<1> DEFINE T == {Order[n] : n \in Names}
           f == [n \in Names |-> Order[n]]
<1>1. f \in [Names -> Nat] /\ IsFiniteSet(Names)
    BY ListPopupsAssumption
<1>2. PICK b \in Nat : \A n \in Names : f[n] <= b
    <2> HIDE DEF f
    <2> QED BY <1>1, FiniteBound
<1>3. T \in SUBSET Nat /\ T # {} /\ \A m \in T : m <= b
    BY <1>1, <1>2
<1>4. Max(T) \in T
    <2> HIDE DEF T
    <2> QED BY <1>2, <1>3, MaxGreatest
<1> QED BY <1>3, <1>4

\* A rank is a number.
LEMMA RankNat ==
    ASSUME kind \in Kinds, kind \in {"users", "sockets"}
    PROVE  \A e \in Entry : Rank(e) \in Nat
<1> TAKE e \in Entry
<1>1. e.key \in Keys /\ Keys \subseteq Names \cup Addresses
    BY KeysFinite DEF Entry
<1>2. Order[e.key] \in Nat
    BY <1>1, ListPopupsAssumption
<1>3. CASE kind = "users" /\ e.value = "regular"
    <2>1. e.key \in Names
        BY <1>1, <1>3 DEF Keys, KeysOf
    <2>2. Max({Order[n] : n \in Names}) \in Nat
        BY <2>1, MaxOrder
    <2> QED BY <1>2, <1>3, <2>2 DEF Rank
<1>4. CASE ~(kind = "users" /\ e.value = "regular")
    BY <1>2, <1>4 DEF Rank
<1> QED BY <1>3, <1>4

\* The number of items of a lesser rank is the place before which all of them are.
LEMMA LesserRanks ==
    ASSUME kind \in Kinds, kind \in {"users", "sockets"},
           NEW list \in Seq(Entry), InOrder(list), NEW r \in Nat
    PROVE  LET c == Cardinality({i \in 1 .. Len(list) : Rank(list[i]) < r})
           IN  /\ c \in 0 .. Len(list)
               /\ \A i \in 1 .. Len(list) : i <= c <=> Rank(list[i]) < r
<1> DEFINE n == Len(list)
           S == {i \in 1 .. n : Rank(list[i]) < r}
           T == {i \in 1 .. (n + 1) : i = n + 1 \/ ~(Rank(list[i]) < r)}
<1>1. n \in Nat /\ \A i \in 1 .. n : Rank(list[i]) \in Nat
    BY RankNat
<1>2. \A i, j \in 1 .. n : i < j => Rank(list[i]) <= Rank(list[j])
    BY DEF InOrder
<1> HIDE DEF n
<1>3. PICK m \in T : \A i \in T : m <= i
    <2>1. T \in SUBSET Nat /\ n + 1 \in T
        BY <1>1
    <2> HIDE DEF T
    <2> QED BY <2>1, LeastNat
<1>4. m \in 1 .. (n + 1) /\ (m = n + 1 \/ ~(Rank(list[m]) < r))
    BY <1>3
<1>5. ASSUME NEW i \in 1 .. n PROVE i <= m - 1 <=> Rank(list[i]) < r
    <2>1. ASSUME i <= m - 1 PROVE Rank(list[i]) < r
        <3>1. i \notin T
            BY <1>1, <1>3, <1>4, <2>1
        <3> QED BY <1>1, <3>1
    <2>2. ASSUME ~(i <= m - 1) PROVE ~(Rank(list[i]) < r)
        <3>1. m \in 1 .. n /\ ~(Rank(list[m]) < r) /\ (m = i \/ m < i)
            BY <1>1, <1>4, <2>2
        <3>2. m = i \/ Rank(list[m]) <= Rank(list[i])
            BY <1>2, <3>1
        <3> QED BY <1>1, <3>1, <3>2
    <2> QED BY <2>1, <2>2
<1>6. S = 1 .. (m - 1)
    BY <1>1, <1>4, <1>5
<1>7. Cardinality(1 .. (m - 1)) = m - 1 /\ m - 1 \in 0 .. n
    BY <1>1, <1>4, FS_Interval
<1> QED BY <1>5, <1>6, <1>7 DEF n

\* A place for an item is between those of no greater and of no lesser rank.
LEMMA PlacesBetween ==
    ASSUME kind \in Kinds, kind \in {"users", "sockets"},
           NEW list \in Seq(Entry), InOrder(list), NEW e \in Entry, NEW p \in Places(list, e)
    PROVE  /\ p \in 1 .. (Len(list) + 1)
           /\ \A i \in 1 .. Len(list) : i < p => Rank(list[i]) <= Rank(e)
           /\ \A i \in 1 .. Len(list) : p <= i => Rank(e) <= Rank(list[i])
<1> DEFINE n == Len(list)
<1>1. n \in Nat /\ (\A i \in 1 .. n : Rank(list[i]) \in Nat) /\ Rank(e) \in Nat
    BY RankNat
<1>2. \A i, j \in 1 .. n : i < j => Rank(list[i]) <= Rank(list[j])
    BY DEF InOrder
<1>3. CASE SameRank(list, e) # {}
    <2>1. p \in 1 .. n /\ Rank(list[p]) = Rank(e)
        BY <1>3 DEF Places, SameRank
    <2> HIDE DEF n
    <2>2. \A i \in 1 .. n : i < p => Rank(list[i]) <= Rank(e)
        BY <1>1, <1>2, <2>1
    <2>3. \A i \in 1 .. n : p <= i => Rank(e) <= Rank(list[i])
        <3> TAKE i \in 1 .. n
        <3> HAVE p <= i
        <3>1. p = i \/ p < i
            BY <1>1, <2>1
        <3> QED BY <1>1, <1>2, <2>1, <3>1
    <2>4. p \in 1 .. (n + 1)
        BY <1>1, <2>1
    <2> QED BY <2>2, <2>3, <2>4 DEF n
<1>4. CASE SameRank(list, e) = {}
    <2> DEFINE c == Cardinality({i \in 1 .. Len(list) : Rank(list[i]) < Rank(e)})
    <2>1. p = 1 + c
        BY <1>4 DEF Places
    <2>2. c \in 0 .. n /\ \A i \in 1 .. n : i <= c <=> Rank(list[i]) < Rank(e)
        BY <1>1, LesserRanks
    <2> HIDE DEF c, n
    <2>3. \A i \in 1 .. n : i < p => Rank(list[i]) <= Rank(e)
        BY <1>1, <2>1, <2>2
    <2>4. \A i \in 1 .. n : p <= i => Rank(e) <= Rank(list[i])
        BY <1>1, <2>1, <2>2
    <2>5. p \in 1 .. (n + 1)
        BY <1>1, <2>1, <2>2
    <2> QED BY <2>3, <2>4, <2>5 DEF n
<1> QED BY <1>3, <1>4

--------------------------------------------------------------------------------
(***************************************************************************)
(* What a change does to a list.                                           *)
(***************************************************************************)

\* An item of a new key, inserted at one of its places: the list is still in order, and
\* has the items it had, and the new one.
LEMMA InsertedWell ==
    ASSUME kind \in Kinds, kind \in {"users", "sockets"}, NEW list \in Lists, NEW e \in Entry,
           \A i \in 1 .. Len(list) : list[i].key # e.key, NEW new \in Inserted(list, e)
    PROVE  /\ new \in Lists
           /\ \E i \in 1 .. Len(new) : new[i] = e
           /\ \A i \in 1 .. Len(new) : new[i] = e \/ \E j \in 1 .. Len(list) : new[i] = list[j]
           /\ \A j \in 1 .. Len(list) : \E i \in 1 .. Len(new) : new[i] = list[j]
<1>1. PICK p \in Places(list, e) : new = InsertAt(list, p, e)
    BY DEF Inserted
<1> DEFINE n == Len(list)
<1>2. /\ list \in Seq(Entry) /\ n \in Nat
      /\ \A i, j \in 1 .. n : list[i].key = list[j].key => i = j
      /\ \A i, j \in 1 .. n : i < j => Rank(list[i]) <= Rank(list[j])
    BY DEF Lists, InOrder
<1>3. InOrder(list)
    BY DEF Lists
<1>4. /\ p \in 1 .. (n + 1)
      /\ \A i \in 1 .. n : i < p => Rank(list[i]) <= Rank(e)
      /\ \A i \in 1 .. n : p <= i => Rank(e) <= Rank(list[i])
    BY <1>2, <1>3, PlacesBetween
<1>5. /\ new \in Seq(Entry) /\ Len(new) = n + 1
      /\ \A j \in 1 .. (n + 1) : new[j] = IF j < p THEN list[j] ELSE IF j = p THEN e ELSE list[j - 1]
    <2>1. p \in 1 .. (Len(list) + 1) /\ list \in Seq(Entry) /\ e \in Entry
        BY <1>2, <1>4
    <2> HIDE DEF n
    <2>2. InsertAt(list, p, e) \in Seq(Entry) /\ Len(InsertAt(list, p, e)) = Len(list) + 1
        BY <2>1, InsertedAt
    <2>3. \A j \in 1 .. (Len(list) + 1) :
             InsertAt(list, p, e)[j] = IF j < p THEN list[j] ELSE IF j = p THEN e ELSE list[j - 1]
        BY <2>1, InsertedAt
    <2> QED BY <1>1, <2>2, <2>3, Zenon DEF n
<1>a. \A i \in 1 .. n : Rank(list[i]) \in Nat
    BY <1>2, RankNat
<1>6. \A i \in 1 .. n : list[i].key # e.key
    OBVIOUS
<1> HIDE DEF n
<1>7. ASSUME NEW i \in 1 .. (n + 1)
      PROVE  \/ i = p /\ new[i] = e
             \/ i < p /\ i \in 1 .. n /\ new[i] = list[i]
             \/ p < i /\ i - 1 \in 1 .. n /\ p <= i - 1 /\ new[i] = list[i - 1]
    BY <1>2, <1>4, <1>5
<1>8. \A i, j \in 1 .. (n + 1) : new[i].key = new[j].key => i = j
    <2> SUFFICES ASSUME NEW i \in 1 .. (n + 1), NEW j \in 1 .. (n + 1), new[i].key = new[j].key
                 PROVE  i = j
        OBVIOUS
    <2>1. CASE i = p \/ j = p
        BY <2>1, <1>4, <1>6, <1>7
    <2>2. CASE i < p /\ j < p
        BY <2>2, <1>2, <1>4, <1>7
    <2>3. CASE p < i /\ p < j
        <3>1. new[i] = list[i - 1] /\ new[j] = list[j - 1] /\ i - 1 \in 1 .. n /\ j - 1 \in 1 .. n
            BY <2>3, <1>4, <1>7
        <3>2. i - 1 = j - 1
            BY <3>1, <1>2
        <3> QED BY <3>2
    <2>4. ASSUME i < p, p < j PROVE FALSE
        <3>1. new[i] = list[i] /\ new[j] = list[j - 1] /\ i \in 1 .. n /\ j - 1 \in 1 .. n
            BY <2>4, <1>4, <1>7
        <3>2. i = j - 1
            BY <3>1, <1>2
        <3> QED BY <3>2, <2>4, <1>4
    <2>5. ASSUME j < p, p < i PROVE FALSE
        <3>1. new[j] = list[j] /\ new[i] = list[i - 1] /\ j \in 1 .. n /\ i - 1 \in 1 .. n
            BY <2>5, <1>4, <1>7
        <3>2. j = i - 1
            BY <3>1, <1>2
        <3> QED BY <3>2, <2>5, <1>4
    <2> QED BY <2>1, <2>2, <2>3, <2>4, <2>5, <1>4
<1>9. \A i, j \in 1 .. (n + 1) : i < j => Rank(new[i]) <= Rank(new[j])
    <2> SUFFICES ASSUME NEW i \in 1 .. (n + 1), NEW j \in 1 .. (n + 1), i < j
                 PROVE  Rank(new[i]) <= Rank(new[j])
        OBVIOUS
    <2>1. CASE j < p
        BY <2>1, <1>2, <1>4, <1>7
    <2>2. CASE p < i
        <3>1. new[i] = list[i - 1] /\ new[j] = list[j - 1] /\ i - 1 \in 1 .. n /\ j - 1 \in 1 .. n
              /\ i - 1 < j - 1
            BY <2>2, <1>4, <1>7
        <3> QED BY <3>1, <1>2
    <2>3. CASE i < p /\ p < j
        <3>1. new[i] = list[i] /\ new[j] = list[j - 1] /\ i \in 1 .. n /\ j - 1 \in 1 .. n /\ p <= j - 1
            BY <2>3, <1>4, <1>7
        <3>2. i = j - 1 \/ i < j - 1
            BY <3>1, <1>2, <2>3
        <3> QED BY <3>1, <3>2, <1>a, <1>2, <1>4, <2>3
    <2>4. CASE i = p
        BY <2>4, <1>4, <1>7
    <2>5. CASE j = p
        BY <2>5, <1>4, <1>7
    <2> QED BY <2>1, <2>2, <2>3, <2>4, <2>5, <1>4
<1>10. new \in Lists
    BY <1>5, <1>8, <1>9 DEF Lists, InOrder
<1>11. p \in 1 .. (n + 1) /\ new[p] = e
    BY <1>4, <1>7
<1>12. ASSUME NEW j \in 1 .. n PROVE \E i \in 1 .. (n + 1) : new[i] = list[j]
    <2>1. CASE j < p
        BY <2>1, <1>2, <1>5
    <2>2. CASE ~(j < p)
        <3>1. j + 1 \in 1 .. (n + 1) /\ ~(j + 1 < p) /\ j + 1 # p /\ (j + 1) - 1 = j
            BY <2>2, <1>2, <1>4
        <3> QED BY <3>1, <1>5
    <2> QED BY <2>1, <2>2
<1> QED BY <1>5, <1>7, <1>10, <1>11, <1>12 DEF n

\* An item removed: the list has the others.
LEMMA RemovedWell ==
    ASSUME kind \in Kinds, NEW list \in Lists, NEW p \in 1 .. Len(list)
    PROVE  LET new == RemoveAt(list, p)
           IN  /\ new \in Lists
               /\ \A i \in 1 .. Len(new) :
                     new[i].key # list[p].key /\ \E j \in 1 .. Len(list) : new[i] = list[j]
               /\ \A j \in (1 .. Len(list)) \ {p} : \E i \in 1 .. Len(new) : new[i] = list[j]
<1> DEFINE n == Len(list)
           new == RemoveAt(list, p)
<1>1. /\ list \in Seq(Entry) /\ n \in Nat /\ p \in 1 .. n
      /\ \A i, j \in 1 .. n : list[i].key = list[j].key => i = j
      /\ kind \in {"users", "sockets"} => \A i, j \in 1 .. n : i < j => Rank(list[i]) <= Rank(list[j])
    BY DEF Lists, InOrder
<1>2. /\ new \in Seq(Entry) /\ Len(new) = n - 1
      /\ \A j \in 1 .. (n - 1) : new[j] = IF j < p THEN list[j] ELSE list[j + 1]
    BY <1>1, RemovedAt
<1> HIDE DEF n, new
<1> DEFINE old(i) == IF i < p THEN i ELSE i + 1
<1>3. \A i \in 1 .. (n - 1) : old(i) \in (1 .. n) \ {p} /\ new[i] = list[old(i)]
    BY <1>1, <1>2
<1>4. \A i, j \in 1 .. (n - 1) : i < j => old(i) < old(j)
    BY <1>1
<1>5. \A i, j \in 1 .. (n - 1) : old(i) = old(j) => i = j
    BY <1>1
<1>6. \A j \in (1 .. n) \ {p} : \E i \in 1 .. (n - 1) : old(i) = j
    <2> TAKE j \in (1 .. n) \ {p}
    <2>1. CASE j < p
        <3>1. j \in 1 .. (n - 1) /\ old(j) = j
            BY <2>1, <1>1
        <3> QED BY <3>1
    <2>2. CASE ~(j < p)
        <3>1. j - 1 \in 1 .. (n - 1) /\ old(j - 1) = j
            BY <2>2, <1>1
        <3> QED BY <3>1
    <2> QED BY <2>1, <2>2
<1> HIDE DEF old
<1>7. \A i, j \in 1 .. (n - 1) : new[i].key = new[j].key => i = j
    BY <1>1, <1>3, <1>5
<1>8. kind \in {"users", "sockets"} => \A i, j \in 1 .. (n - 1) : i < j => Rank(new[i]) <= Rank(new[j])
    BY <1>1, <1>3, <1>4
<1>9. new \in Lists
    BY <1>2, <1>7, <1>8 DEF Lists, InOrder
<1>10. \A i \in 1 .. (n - 1) : new[i].key # list[p].key /\ \E j \in 1 .. n : new[i] = list[j]
    BY <1>1, <1>3
<1>11. \A j \in (1 .. n) \ {p} : \E i \in 1 .. (n - 1) : new[i] = list[j]
    BY <1>3, <1>6
<1> QED BY <1>2, <1>9, <1>10, <1>11 DEF n, new

\* The value a change gives, and the others' values, are those that the list shows then.
Follows(list, new, e) ==
    /\ new \in Lists
    /\ \A i \in 1 .. Len(new) : new[i] = e \/ \E j \in 1 .. Len(list) : new[i] = list[j]
    /\ Shows(new, e.key, e.value)
    /\ \A j \in 1 .. Len(list) : list[j].key # e.key => \E i \in 1 .. Len(new) : new[i] = list[j]

\* What follows a change shows of the other keys what it did.
LEMMA OthersShown ==
    ASSUME NEW list, NEW new, NEW e, Follows(list, new, e), NEW k, k # e.key, NEW v, Shows(list, k, v)
    PROVE  Shows(new, k, v)
<1>1. CASE v = None
    BY <1>1 DEF Follows, Shows
<1>2. CASE v # None
    <2>1. PICK j \in 1 .. Len(list) : list[j] = [key |-> k, value |-> v]
        BY <1>2 DEF Shows
    <2>2. list[j].key # e.key
        BY <2>1
    <2> QED BY <1>2, <2>1, <2>2 DEF Follows, Shows
<1> QED BY <1>1, <1>2

\* The list without an item of the key.
LEMMA WithoutWell ==
    ASSUME kind \in Kinds, NEW list \in Lists, NEW k
    PROVE  LET new == WithoutKey(list, k)
           IN  /\ new \in Lists
               /\ \A i \in 1 .. Len(new) : new[i].key # k /\ \E j \in 1 .. Len(list) : new[i] = list[j]
               /\ \A j \in 1 .. Len(list) : list[j].key # k => \E i \in 1 .. Len(new) : new[i] = list[j]
<1>1. CASE At(list, k) = {}
    BY <1>1 DEF WithoutKey, At
<1>2. CASE At(list, k) # {}
    <2> DEFINE p == Min(At(list, k))
    <2>1. At(list, k) \in SUBSET Nat
        BY DEF At
    <2>2. p \in At(list, k)
        BY <1>2, <2>1, MinLeast
    <2>3. p \in 1 .. Len(list) /\ list[p].key = k /\ WithoutKey(list, k) = RemoveAt(list, p)
        BY <1>2, <2>2 DEF At, WithoutKey
    <2> HIDE DEF p
    <2> DEFINE new == RemoveAt(list, p)
    <2>4. /\ new \in Lists
          /\ \A i \in 1 .. Len(new) :
                new[i].key # list[p].key /\ \E j \in 1 .. Len(list) : new[i] = list[j]
          /\ \A j \in (1 .. Len(list)) \ {p} : \E i \in 1 .. Len(new) : new[i] = list[j]
        BY <2>3, RemovedWell
    <2> HIDE DEF new
    <2>5. new = WithoutKey(list, k)
        BY <2>3 DEF new
    <2>6. \A j \in 1 .. Len(list) : list[j].key # k => j \in (1 .. Len(list)) \ {p}
        BY <2>3
    <2> QED BY <2>3, <2>4, <2>5, <2>6, Zenon
<1> QED BY <1>1, <1>2

\* An item put into a list without its key.
LEMMA InsertedFollows ==
    ASSUME kind \in Kinds, kind \in {"users", "sockets"}, NEW list \in Lists, NEW e \in Entry,
           \A i \in 1 .. Len(list) : list[i].key # e.key, NEW new \in Inserted(list, e)
    PROVE  Follows(list, new, e)
<1>1. /\ new \in Lists
      /\ \E i \in 1 .. Len(new) : new[i] = e
      /\ \A i \in 1 .. Len(new) : new[i] = e \/ \E j \in 1 .. Len(list) : new[i] = list[j]
      /\ \A j \in 1 .. Len(list) : \E i \in 1 .. Len(new) : new[i] = list[j]
    BY InsertedWell
<1>2. e = [key |-> e.key, value |-> e.value] /\ e.value # None
    BY NoneApart DEF Entry
<1> QED BY <1>1, <1>2 DEF Follows, Shows

\* A change of a user.
LEMMA UserFollows ==
    ASSUME kind \in Kinds, kind = "users", NEW list \in Lists, NEW e \in [key : Keys, value : Known],
           NEW new \in UserChanged(list, e)
    PROVE  Follows(list, new, e)
<1> DEFINE w == WithoutKey(list, e.key)
<1>1. /\ w \in Lists
      /\ \A i \in 1 .. Len(w) : w[i].key # e.key /\ \E j \in 1 .. Len(list) : w[i] = list[j]
      /\ \A j \in 1 .. Len(list) : list[j].key # e.key => \E i \in 1 .. Len(w) : w[i] = list[j]
    BY WithoutWell
<1> HIDE DEF w
<1>2. CASE e.value = None
    <2>1. new = w
        BY <1>2 DEF UserChanged, w
    <2> QED BY <1>1, <1>2, <2>1 DEF Follows, Shows
<1>3. CASE e.value # None /\ \E i \in At(list, e.key) : list[i].value = e.value
    <2>1. new = list
        BY <1>3 DEF UserChanged
    <2>2. PICK i \in 1 .. Len(list) : list[i].key = e.key /\ list[i].value = e.value
        BY <1>3 DEF At
    <2>3. list[i] \in Entry
        BY DEF Lists
    <2>4. list[i] = [key |-> e.key, value |-> e.value]
        BY <2>2, <2>3 DEF Entry
    <2> QED BY <1>3, <2>1, <2>4 DEF Follows, Shows
<1>4. CASE e.value # None /\ ~ \E i \in At(list, e.key) : list[i].value = e.value
    <2>1. new \in Inserted(w, e)
        BY <1>4 DEF UserChanged, w
    <2>2. e \in Entry
        BY <1>4 DEF Entry, Known
    <2>3. Follows(w, new, e)
        BY <1>1, <2>1, <2>2, InsertedFollows
    <2> QED BY <1>1, <2>3 DEF Follows
<1> QED BY <1>2, <1>3, <1>4

\* Two addresses of the same rank are the same.
LEMMA SocketRanks ==
    ASSUME kind \in Kinds, kind = "sockets", NEW list \in Lists, NEW e \in [key : Keys, value : Known]
    PROVE  SameRank(list, e) = At(list, e.key)
<1>0. \A i \in 1 .. Len(list) : list[i] \in Entry
    BY DEF Lists
<1>1. e.key \in Addresses /\ \A i \in 1 .. Len(list) : list[i].key \in Addresses
    BY <1>0 DEF Entry, Keys, KeysOf
<1>2. \A x : Rank(x) = Order[x.key]
    BY DEF Rank
<1>3. \A i \in 1 .. Len(list) : Rank(list[i]) = Rank(e) <=> list[i].key = e.key
    BY <1>1, <1>2, ListPopupsAssumption
<1> QED BY <1>3 DEF SameRank, At

\* A change of a socket.
LEMMA SocketFollows ==
    ASSUME kind \in Kinds, kind = "sockets", NEW list \in Lists, NEW e \in [key : Keys, value : Known],
           NEW new \in SocketChanged(list, e)
    PROVE  Follows(list, new, e)
<1> DEFINE found == SameRank(list, e)
<1>1. found = {i \in 1 .. Len(list) : list[i].key = e.key}
    BY SocketRanks DEF At
<1>2. /\ \A i, j \in 1 .. Len(list) : list[i].key = list[j].key => i = j
      /\ \A i \in 1 .. Len(list) : list[i] \in Entry
    BY DEF Lists
<1>3. CASE e.value = None /\ found = {}
    <2>1. new = list
        BY <1>3 DEF SocketChanged
    <2> QED BY <1>1, <1>3, <2>1 DEF Follows, Shows
<1>4. CASE e.value = None /\ found # {}
    <2>1. PICK p \in found : new = RemoveAt(list, p)
        BY <1>4 DEF SocketChanged
    <2>2. p \in 1 .. Len(list) /\ list[p].key = e.key
        BY <1>1, <2>1
    <2> DEFINE rest == RemoveAt(list, p)
    <2>a. /\ rest \in Lists
          /\ \A i \in 1 .. Len(rest) :
                rest[i].key # list[p].key /\ \E j \in 1 .. Len(list) : rest[i] = list[j]
          /\ \A j \in (1 .. Len(list)) \ {p} : \E i \in 1 .. Len(rest) : rest[i] = list[j]
        BY <2>2, RemovedWell
    <2> HIDE DEF rest
    <2>3. /\ new \in Lists
          /\ \A i \in 1 .. Len(new) :
                new[i].key # list[p].key /\ \E j \in 1 .. Len(list) : new[i] = list[j]
          /\ \A j \in (1 .. Len(list)) \ {p} : \E i \in 1 .. Len(new) : new[i] = list[j]
        BY <2>1, <2>a DEF rest
    <2>4. \A j \in 1 .. Len(list) : list[j].key # e.key => j \in (1 .. Len(list)) \ {p}
        BY <2>2
    <2> QED BY <1>4, <2>2, <2>3, <2>4 DEF Follows, Shows
<1>5. CASE e.value # None /\ found # {}
    <2>1. new = list
        BY <1>5 DEF SocketChanged
    <2>2. PICK i \in 1 .. Len(list) : list[i].key = e.key
        BY <1>1, <1>5
    <2>3. list[i] = [key |-> e.key, value |-> e.value]
        <3>1. list[i].value = "open" /\ e.value = "open"
            BY <1>2, <1>5 DEF Entry, ValuesOf, Known
        <3> QED BY <1>2, <2>2, <3>1 DEF Entry
    <2> QED BY <1>5, <2>1, <2>3 DEF Follows, Shows
<1>6. CASE e.value # None /\ found = {}
    <2>1. new \in Inserted(list, e)
        BY <1>6 DEF SocketChanged
    <2>2. e \in Entry
        BY <1>6 DEF Entry, Known
    <2>3. \A i \in 1 .. Len(list) : list[i].key # e.key
        BY <1>1, <1>6
    <2> QED BY <2>1, <2>2, <2>3, InsertedFollows
<1> QED BY <1>3, <1>4, <1>5, <1>6

\* A change of a method: a list of both keeps both.
LEMMA MethodFollows ==
    ASSUME kind \in Kinds, kind = "methods", NEW list \in Lists, BothMethods(list),
           NEW e \in [key : Keys, value : Known], NEW new \in AuthMethodChanged(list, e)
    PROVE  Follows(list, new, e) /\ BothMethods(new)
<1>1. e \in Entry /\ e = [key |-> e.key, value |-> e.value] /\ e.value # None
    BY NoneApart DEF Entry, Known
<1>2. /\ list \in Seq(Entry) /\ \A i \in 1 .. Len(list) : list[i] \in Entry
      /\ \A i, j \in 1 .. Len(list) : list[i].key = list[j].key => i = j
    BY DEF Lists
<1>3. \E p \in 1 .. Len(list) : list[p].key = e.key
    <2>1. e.key \in {"NoAuth", "UsernameAndPassword"}
        BY DEF Keys, KeysOf, Methods
    <2> QED BY <2>1 DEF BothMethods
<1>4. new = [i \in 1 .. Len(list) |-> IF list[i].key = e.key THEN e ELSE list[i]]
    BY <1>3 DEF AuthMethodChanged, At
<1>5. /\ new \in Seq(Entry) /\ Len(new) = Len(list)
      /\ \A i \in 1 .. Len(list) : new[i] = IF list[i].key = e.key THEN e ELSE list[i]
    BY <1>1, <1>2, <1>4
<1>6. \A i \in 1 .. Len(list) : new[i].key = list[i].key
    BY <1>5
<1>7. new \in Lists
    BY <1>2, <1>5, <1>6 DEF Lists
<1>8. BothMethods(new)
    BY <1>5, <1>6 DEF BothMethods
<1> QED BY <1>1, <1>3, <1>5, <1>7, <1>8 DEF Follows, Shows

\* Any change.
LEMMA ChangedFollows ==
    ASSUME kind \in Kinds, NEW list \in Lists, kind = "methods" => BothMethods(list),
           kind = "buffer" => Len(list) <= 1,
           NEW e \in [key : Keys, value : Known], NEW new \in Changed(list, e)
    PROVE  /\ Follows(list, new, e)
           /\ kind = "methods" => BothMethods(new)
           /\ kind = "buffer" => Len(new) = 1
<1>1. kind \in {"users", "sockets", "methods", "buffer"}
    BY ListPopupsAssumption
<1>2. CASE kind = "users"
    BY <1>2, UserFollows DEF Changed
<1>3. CASE kind = "sockets"
    BY <1>3, SocketFollows DEF Changed
<1>4. CASE kind = "methods"
    BY <1>4, MethodFollows DEF Changed
<1>5. CASE kind = "buffer"
    <2>1. new = <<e>>
        BY <1>5 DEF Changed
    <2>2. e \in Entry /\ e = [key |-> e.key, value |-> e.value] /\ e.value # None
        BY <1>5, NoneApart DEF Entry, Known
    <2>3. new \in Lists /\ Len(new) = 1 /\ new[1] = e
        BY <1>5, <2>1, <2>2 DEF Lists
    <2>a. \A j \in 1 .. Len(list) : list[j] \in Entry
        BY DEF Lists
    <2>4. \A j \in 1 .. Len(list) : list[j].key = e.key
        BY <1>5, <2>a DEF Entry, Keys, KeysOf
    <2> QED BY <1>5, <2>2, <2>3, <2>4 DEF Follows, Shows
<1> QED BY <1>1, <1>2, <1>3, <1>4, <1>5

\* What a list is loaded with: an item for each key that the answer has a value for.
LEMMA LoadedWell ==
    ASSUME kind \in Kinds, NEW got \in [Keys -> Known], NEW new \in Loaded(got)
    PROVE  /\ new \in Lists
           /\ \A i \in 1 .. Len(new) : \E k \in Keys : new[i] = [key |-> k, value |-> got[k]]
           /\ \A k \in Keys : Shows(new, k, got[k])
           /\ kind = "methods" => BothMethods(new)
<1> DEFINE K == {k \in Keys : got[k] # None}
           entries == {[key |-> k, value |-> got[k]] : k \in K}
<1>1. CASE kind = "methods"
    <2>1. new = <<[key |-> "NoAuth", value |-> got["NoAuth"]],
                  [key |-> "UsernameAndPassword", value |-> got["UsernameAndPassword"]]>>
        BY <1>1 DEF Loaded
    <2>2. Keys = {"NoAuth", "UsernameAndPassword"}
        BY <1>1 DEF Keys, KeysOf, Methods
    <2>3. \A k \in Keys : got[k] # None /\ [key |-> k, value |-> got[k]] \in Entry
        BY <1>1, NoneApart DEF Entry, Known
    <2>4. new \in Seq(Entry) /\ Len(new) = 2
          /\ new[1] = [key |-> "NoAuth", value |-> got["NoAuth"]]
          /\ new[2] = [key |-> "UsernameAndPassword", value |-> got["UsernameAndPassword"]]
        BY <2>1, <2>2, <2>3
    <2>a. \A i, j \in 1 .. Len(new) : new[i].key = new[j].key => i = j
        <3>1. \A i \in 1 .. Len(new) : i = 1 \/ i = 2
            BY <2>4
        <3>2. new[1].key # new[2].key
            BY <2>4
        <3> QED BY <3>1, <3>2
    <2>5. new \in Lists
        BY <1>1, <2>4, <2>a DEF Lists
    <2> QED BY <2>2, <2>3, <2>4, <2>5 DEF Shows, BothMethods
<1>2. CASE kind # "methods"
    <2>1. new \in SetToSeqs(entries) /\ InOrder(new)
        BY <1>2 DEF Loaded
    <2> DEFINE n == Cardinality(entries)
    <2>2. IsFiniteSet(entries) /\ n \in Nat
        <3>1. IsFiniteSet(K)
            BY KeysFinite, FS_Subset
        <3> DEFINE f == [k \in K |-> [key |-> k, value |-> got[k]]]
        <3>2. f \in Surjection(K, entries)
            BY DEF Surjection
        <3> HIDE DEF K, entries, f
        <3>3. IsFiniteSet(entries)
            BY <3>1, <3>2, FS_Surjection
        <3> QED BY <3>3, FS_CardinalityType DEF n
    <2>3. new \in [1 .. n -> entries] /\ \A i, j \in 1 .. n : i # j => new[i] # new[j]
        BY <2>1 DEF SetToSeqs
    <2>4. \A x \in entries : \E i \in 1 .. n : new[i] = x
        <3> HIDE DEF entries, n
        <3>1. new \in Injection(1 .. n, entries)
            BY <2>3 DEF Injection, IsInjective
        <3>2. Cardinality(1 .. n) = n
            BY <2>2, FS_Interval
        <3>3. new \in Surjection(1 .. n, entries)
            BY <2>2, <3>1, <3>2, FS_Injection DEF n
        <3> QED BY <3>3 DEF Surjection
    <2>5. entries \subseteq Entry
        BY DEF Entry, Known
    <2>6. new \in Seq(Entry) /\ Len(new) = n
        <3> HIDE DEF entries, n
        <3> QED BY <2>2, <2>3, <2>5
    <2>7. \A i \in 1 .. n : \E k \in K : new[i] = [key |-> k, value |-> got[k]]
        BY <2>3
    <2> HIDE DEF entries, n
    <2>8. \A i, j \in 1 .. n : new[i].key = new[j].key => i = j
        <3> SUFFICES ASSUME NEW i \in 1 .. n, NEW j \in 1 .. n, new[i].key = new[j].key
                     PROVE  new[i] = new[j]
            BY <2>3
        <3>1. PICK k \in K : new[i] = [key |-> k, value |-> got[k]]
            BY <2>7
        <3>2. PICK l \in K : new[j] = [key |-> l, value |-> got[l]]
            BY <2>7
        <3> QED BY <3>1, <3>2
    <2>9. new \in Lists
        BY <2>1, <2>6, <2>8 DEF Lists
    <2>10. ASSUME NEW k \in Keys PROVE Shows(new, k, got[k])
        <3>1. CASE got[k] = None
            BY <2>6, <2>7, <3>1 DEF Shows
        <3>2. CASE got[k] # None
            <4>1. [key |-> k, value |-> got[k]] \in entries
                BY <3>2 DEF entries
            <4> QED BY <2>4, <2>6, <3>2, <4>1 DEF Shows
        <3> QED BY <3>1, <3>2
    <2> QED BY <1>2, <2>6, <2>7, <2>9, <2>10
<1> QED BY <1>1, <1>2

\* The items that pass: the recursion is well defined, and it gives items of the list, no
\* more than there are, in their order.
LEMMA FilteredWell ==
    ASSUME NEW list \in Seq(Entry)
    PROVE  /\ Filtered(list) \in Seq(Entry) /\ Len(Filtered(list)) <= Len(list)
           /\ \A i \in 1 .. Len(Filtered(list)) :
                 \E j \in 1 .. Len(list) : Filtered(list)[i] = list[j]
           /\ InOrder(list) => InOrder(Filtered(list))
<1> DEFINE N == Len(list)
           Next1(s, n) == IF Passes(list[n]) THEN Append(s, list[n]) ELSE s
           Good(f, m) == /\ f \in [0 .. m -> Seq(Entry)] /\ f[0] = <<>>
                         /\ \A n \in 1 .. m : f[n] = Next1(f[n - 1], n)
           Some == {m \in 0 .. N : ~ \E f : Good(f, m)}
<1>1. N \in Nat /\ \A n \in 1 .. N : list[n] \in Entry
    OBVIOUS
<1> HIDE DEF N
<1>2. \A s \in Seq(Entry) : \A n \in 1 .. N : Next1(s, n) \in Seq(Entry)
    BY <1>1
<1>3. Some \in SUBSET Nat /\ 0 \notin Some
    <2>1. Good([i \in 0 .. 0 |-> <<>>], 0)
        OBVIOUS
    <2>2. 0 \notin Some
        <3> HIDE DEF Good
        <3> QED BY <2>1
    <2> QED BY <2>2, <1>1
<1>4. ASSUME NEW m \in 1 .. N, m - 1 \notin Some PROVE m \notin Some
    <2>1. m - 1 \in 0 .. N
        BY <1>1
    <2>2. PICK f : Good(f, m - 1)
        BY <1>4, <2>1
    <2> DEFINE g == [i \in 0 .. m |-> IF i = m THEN Next1(f[m - 1], m) ELSE f[i]]
    <2>3. f[m - 1] \in Seq(Entry) /\ \A i \in 0 .. (m - 1) : f[i] \in Seq(Entry)
        BY <2>2, <1>1
    <2>4. Next1(f[m - 1], m) \in Seq(Entry)
        BY <1>2, <2>3
    <2> HIDE DEF Next1
    <2>5. g \in [0 .. m -> Seq(Entry)]
        BY <1>1, <2>3, <2>4
    <2>6. g[0] = <<>>
        BY <1>1, <2>2
    <2>7. ASSUME NEW n \in 1 .. m PROVE g[n] = Next1(g[n - 1], n)
        <3>1. n - 1 \in 0 .. m /\ n - 1 # m /\ g[n - 1] = f[n - 1]
            BY <1>1
        <3>2. CASE n = m
            BY <3>1, <3>2, <1>1
        <3>3. CASE n # m
            <4>1. n \in 1 .. (m - 1) /\ g[n] = f[n]
                BY <3>3, <1>1
            <4> QED BY <2>2, <3>1, <4>1
        <3> QED BY <3>2, <3>3
    <2> HIDE DEF g
    <2>8. Good(g, m)
        BY <2>5, <2>6, <2>7
    <2> QED BY <2>8
<1>5. \E f : Good(f, N)
    <2> SUFFICES ASSUME N \in Some PROVE FALSE
        <3>1. N \in 0 .. N
            BY <1>1
        <3> HIDE DEF Good
        <3> QED BY <3>1
    <2>1. \A m \in Some : m \in 0 .. N
        OBVIOUS
    <2> HIDE DEF Some
    <2>2. PICK m \in Some : \A k \in Some : m <= k
        BY <1>3, LeastNat
    <2>3. m \in 1 .. N
        BY <1>1, <1>3, <2>1, <2>2
    <2>4. m - 1 \in Some
        BY <1>4, <2>3
    <2> QED BY <2>2, <2>3, <2>4, <1>1
<1> DEFINE F == CHOOSE f : f = [n \in 0 .. N |->
                              IF n = 0 THEN <<>>
                              ELSE IF Passes(list[n]) THEN Append(f[n - 1], list[n]) ELSE f[n - 1]]
<1>6. F = [n \in 0 .. N |->
             IF n = 0 THEN <<>>
             ELSE IF Passes(list[n]) THEN Append(F[n - 1], list[n]) ELSE F[n - 1]]
    <2>1. PICK f : Good(f, N)
        BY <1>5
    <2>2. f = [n \in 0 .. N |->
                IF n = 0 THEN <<>>
                ELSE IF Passes(list[n]) THEN Append(f[n - 1], list[n]) ELSE f[n - 1]]
        <3>1. f = [n \in 0 .. N |-> f[n]]
            BY <2>1
        <3>2. \A n \in 0 .. N : n = 0 \/ n \in 1 .. N
            BY <1>1
        <3> QED BY <2>1, <3>1, <3>2
    <2> QED BY <2>2, Zenon
<1>7. Filtered(list) = F[N]
    BY DEF Filtered, N
<1> HIDE DEF F, Some
<1> DEFINE Fine(m) == /\ F[m] \in Seq(Entry) /\ Len(F[m]) <= m
                      /\ \A i \in 1 .. Len(F[m]) : \E j \in 1 .. m : F[m][i] = list[j]
                      /\ InOrder(list) => InOrder(F[m])
           Bad == {m \in 0 .. N : ~Fine(m)}
<1>8. F[0] = <<>> /\ \A n \in 1 .. N : F[n] = Next1(F[n - 1], n)
    <2>1. 0 \in 0 .. N
        BY <1>1
    <2>2. F[0] = <<>>
        BY <1>6, <2>1
    <2>3. ASSUME NEW n \in 1 .. N PROVE F[n] = Next1(F[n - 1], n)
        <3>1. n \in 0 .. N /\ n # 0
            BY <1>1
        <3>2. F[n] = IF n = 0 THEN <<>>
                     ELSE IF Passes(list[n]) THEN Append(F[n - 1], list[n]) ELSE F[n - 1]
            BY <1>6, <3>1
        <3> QED BY <3>1, <3>2
    <2> QED BY <2>2, <2>3
<1>9. Bad \in SUBSET Nat /\ 0 \notin Bad
    <2>1. F[0] \in Seq(Entry) /\ Len(F[0]) = 0
        BY <1>8
    <2>2. Fine(0)
        BY <2>1 DEF InOrder
    <2> HIDE DEF Fine
    <2>3. 0 \notin Bad
        BY <2>2
    <2>4. Bad \in SUBSET Nat
        BY <1>1
    <2> QED BY <2>3, <2>4
<1>10. ASSUME NEW m \in 1 .. N, m - 1 \notin Bad PROVE m \notin Bad
    <2>1. m - 1 \in 0 .. N /\ m \in Nat /\ list[m] \in Entry
        BY <1>1
    <2>2. Fine(m - 1)
        BY <1>10, <2>1
    <2> DEFINE s == F[m - 1]
               q == Len(s)
    <2>3. /\ s \in Seq(Entry) /\ q \in Nat /\ q <= m - 1
          /\ \A i \in 1 .. q : \E j \in 1 .. (m - 1) : s[i] = list[j]
          /\ InOrder(list) => InOrder(s)
        BY <2>2
    <2>4. CASE ~Passes(list[m])
        <3>1. F[m] = s
            BY <1>8, <2>4
        <3> HIDE DEF s
        <3> QED BY <2>1, <2>3, <3>1
    <2>5. CASE Passes(list[m])
        <3>1. F[m] = Append(s, list[m])
            BY <1>8, <2>5
        <3> HIDE DEF s
        <3> DEFINE r == F[m]
        <3>2. r \in Seq(Entry) /\ Len(r) = q + 1 /\ r[q + 1] = list[m] /\ \A i \in 1 .. q : r[i] = s[i]
            BY <2>1, <2>3, <3>1
        <3> HIDE DEF r, q
        <3>3. \A i \in 1 .. (q + 1) : i \in 1 .. q \/ i = q + 1
            BY <2>3
        <3>4. \A i \in 1 .. (q + 1) : \E j \in 1 .. m : r[i] = list[j]
            <4> TAKE i \in 1 .. (q + 1)
            <4>1. CASE i = q + 1
                BY <2>1, <3>2, <4>1
            <4>2. CASE i \in 1 .. q
                <5>1. PICK j \in 1 .. (m - 1) : s[i] = list[j]
                    BY <2>3, <4>2
                <5>2. j \in 1 .. m
                    BY <2>1
                <5> QED BY <3>2, <4>2, <5>1, <5>2
            <4> QED BY <3>3, <4>1, <4>2
        <3>5. ASSUME InOrder(list), NEW i \in 1 .. (q + 1), NEW j \in 1 .. (q + 1), i < j
              PROVE  Rank(r[i]) <= Rank(r[j])
            <4>1. i \in 1 .. q
                BY <2>3, <3>5
            <4>2. CASE j \in 1 .. q
                BY <2>3, <3>2, <3>5, <4>1, <4>2 DEF InOrder, q
            <4>3. CASE j = q + 1
                <5>1. PICK h \in 1 .. (m - 1) : s[i] = list[h]
                    BY <2>3, <4>1
                <5>2. h \in 1 .. Len(list) /\ m \in 1 .. Len(list) /\ h < m
                    BY <1>1, <2>1 DEF N
                <5>3. Rank(list[h]) <= Rank(list[m])
                    BY <3>5, <5>2 DEF InOrder
                <5> QED BY <3>2, <4>1, <4>3, <5>1, <5>3
            <4> QED BY <3>3, <4>2, <4>3
        <3>6. q + 1 <= m
            BY <2>1, <2>3
        <3>7. InOrder(list) => InOrder(r)
            BY <3>2, <3>5 DEF InOrder
        <3>8. Fine(m)
            BY <3>2, <3>4, <3>6, <3>7 DEF r
        <3> QED BY <3>8
    <2> QED BY <2>4, <2>5
<1>11. Fine(N)
    <2> SUFFICES ASSUME N \in Bad PROVE FALSE
        <3>1. N \in 0 .. N
            BY <1>1
        <3> HIDE DEF Fine
        <3> QED BY <3>1
    <2>1. \A m \in Bad : m \in 0 .. N
        OBVIOUS
    <2> HIDE DEF Bad
    <2>2. PICK m \in Bad : \A k \in Bad : m <= k
        BY <1>9, LeastNat
    <2>3. m \in 1 .. N
        BY <1>1, <1>9, <2>1, <2>2
    <2>4. m - 1 \in Bad
        BY <1>10, <2>3
    <2> QED BY <2>2, <2>3, <2>4, <1>1
<1> QED BY <1>7, <1>11 DEF N


--------------------------------------------------------------------------------
(***************************************************************************)
(* What a step leaves as it is.                                            *)
(***************************************************************************)

\* What is on its way stays sound.
Grows ==
    /\ kind' = kind /\ had \subseteq had'
    /\ SoundEvents \subseteq SoundEvents' /\ SoundItems \subseteq SoundItems'

\* No handler gets on with a change.
SameJobs ==
    \A m \in Managers :
       server[m].step \in {"log", "store"} \/ server'[m].step \in {"log", "store"}
       => server'[m] = server[m]

\* The sets that depend on the kind of the copy only.
LEMMA KindStays ==
    ASSUME kind' = kind
    PROVE  /\ Keys' = Keys /\ Known' = Known /\ Event' = Event /\ Item' = Item /\ Change' = Change
           /\ BusyJob' = BusyJob /\ ReadJob' = ReadJob /\ SetRequest' = SetRequest
           /\ ListAnswer' = ListAnswer /\ DoneAnswer' = DoneAnswer /\ Forms' = Forms
           /\ Entry' = Entry /\ Views' = Views /\ Lists' = Lists
<1>1. Keys' = Keys
    BY DEF Keys
<1>2. Known' = Known
    BY DEF Known
<1>3. Event' = Event
    BY <1>1, <1>2 DEF Event
<1>4. Item' = Item
    BY <1>1, <1>2, <1>3 DEF Item
<1>5. Change' = Change
    BY <1>1 DEF Change, Changes
<1>6. BusyJob' = BusyJob /\ ReadJob' = ReadJob /\ ListAnswer' = ListAnswer /\ DoneAnswer' = DoneAnswer
    BY <1>1, <1>2 DEF BusyJob, ReadJob, ListAnswer, DoneAnswer
<1>7. SetRequest' = SetRequest /\ Forms' = Forms
    BY <1>2, <1>5 DEF SetRequest, Forms
<1>8. Entry' = Entry
    BY <1>1 DEF Entry
<1>9. Views' = Views
    BY <1>8 DEF Views
<1>10. Lists' = Lists
    BY <1>8 DEF Lists, InOrder, Rank
<1> QED BY <1>1, <1>2, <1>3, <1>4, <1>5, <1>6, <1>7, <1>8, <1>9, <1>10

\* The items of a sequence without its first.
LEMMA TailAt ==
    ASSUME NEW S, NEW s \in Seq(S), s # <<>>
    PROVE  /\ Head(s) \in S /\ Head(s) = s[1] /\ 1 \in 1 .. Len(s)
           /\ Tail(s) \in Seq(S) /\ Len(Tail(s)) = Len(s) - 1
           /\ \A i \in 1 .. Len(Tail(s)) : i + 1 \in 1 .. Len(s) /\ Tail(s)[i] = s[i + 1]
    OBVIOUS

\* The items of a sequence with another at its end.
LEMMA AppendAt ==
    ASSUME NEW S, NEW s \in Seq(S), NEW x \in S
    PROVE  /\ Append(s, x) \in Seq(S) /\ Len(Append(s, x)) = Len(s) + 1
           /\ Append(s, x)[Len(s) + 1] = x
           /\ \A i \in 1 .. Len(s) : Append(s, x)[i] = s[i]
           /\ \A i \in 1 .. Len(Append(s, x)) : i \in 1 .. Len(s) \/ i = Len(s) + 1
    OBVIOUS

\* Without a change nothing that was sound becomes unsound, nor the other way.
LEMMA QuietStays ==
    ASSUME UNCHANGED <<kind, truth, count, raced, had>>, SameJobs
    PROVE  /\ Grows /\ SoundEvents' = SoundEvents /\ SoundItems' = SoundItems
           /\ ServerInv => ServerInv'
<1>1. Keys' = Keys /\ Event' = Event /\ Item' = Item
    BY KindStays
<1>2. ASSUME NEW k PROVE Busy(k)' = Busy(k) /\ \A m \in Busy(k) : server'[m] = server[m]
    BY DEF SameJobs, Busy
<1>3. ASSUME NEW k, NEW v PROVE Current(k, v)' = Current(k, v)
    BY <1>2 DEF Current
<1>4. SoundEvents' = SoundEvents
    BY <1>1, <1>3 DEF SoundEvents
<1>5. SoundItems' = SoundItems
    BY <1>1, <1>4 DEF SoundItems, Sound
<1>6. ServerInv => ServerInv'
    BY <1>1, <1>2, <1>4 DEF ServerInv, Sound, SameJobs
<1> QED BY <1>4, <1>5, <1>6 DEF Grows

\* What is on its way, if it does not move.
LEMMA FlowStays ==
    ASSUME FlowInv, Grows
    PROVE  /\ stream \in Seq(SoundEvents') /\ channel \in Seq(SoundEvents')
           /\ watch \in [popup : Seq(SoundItems') \cup {None}, form : Seq(SoundItems') \cup {None}]
<1>1. Seq(SoundEvents) \subseteq Seq(SoundEvents') /\ Seq(SoundItems) \subseteq Seq(SoundItems')
    BY SeqGrows DEF Grows
<1> QED BY <1>1 DEF FlowInv

\* The lists that were asked for, where requests and answers move up, or of the other
\* kind come behind them.
LEMMA ListsLess ==
    ASSUME ListsInv, Grows, readAt' = readAt,
           popup'.id = popup.id,
           popup'.state = "ready" =>
              \/ popup' = popup
              \/ CurrentAnswers # {} /\ popup'.got \in [Keys -> Known] /\ ReadSound(popup'.got, Keys),
           server'["mine"].step # "read" \/ server'["mine"] = server["mine"],
           NEW c \in Nat, NEW d \in Nat,
           \A i \in 1 .. Len(requests') : requests'[i].type = "list" =>
              i + c \in 1 .. Len(requests) /\ requests'[i] = requests[i + c],
           \A i \in 1 .. Len(answers') : answers'[i].type = "list" =>
              i + d \in 1 .. Len(answers) /\ answers'[i] = answers[i + d]
    PROVE  ListsInv'
<1>1. Keys' = Keys /\ Known' = Known
    BY KindStays DEF Grows
<1>2. \A i \in CurrentRequests' : i \in Nat /\ i + c \in CurrentRequests
    BY DEF CurrentRequests
<1>3. CurrentAnswers' # {} => CurrentAnswers # {}
    BY DEF CurrentAnswers
<1>4. Reading' => Reading
    BY DEF Reading
<1>5. ASSUME NEW got, NEW ks \in SUBSET Keys, ReadSound(got, ks) PROVE ReadSound(got, ks)'
    BY <1>1, <1>5 DEF ReadSound, Sound, Grows
<1>6. \A i, j \in CurrentRequests' : i = j
    <2> SUFFICES ASSUME NEW i \in CurrentRequests', NEW j \in CurrentRequests' PROVE i = j
        OBVIOUS
    <2>1. i + c = j + c
        BY <1>2 DEF ListsInv
    <2> QED BY <1>2, <2>1
<1>7. ASSUME NEW i \in 1 .. Len(requests'), requests'[i].type = "list"
      PROVE  /\ requests'[i].id \in 1 .. popup.id
             /\ requests'[i].id = popup.id => \A k \in Keys : readAt[k] = None
    BY <1>7 DEF ListsInv
<1>8. ASSUME NEW i \in 1 .. Len(answers'), answers'[i].type = "list"
      PROVE  /\ answers'[i].id \in 1 .. popup.id
             /\ \A k \in Keys : [key |-> k, value |-> answers'[i].got[k]] \in had
             /\ answers'[i].id = popup.id => ReadSound(answers'[i].got, Keys)
    BY <1>8 DEF ListsInv
<1>9. Reading' => CurrentRequests' = {}
    BY <1>2, <1>4 DEF ListsInv
<1>10. CurrentAnswers' # {} \/ popup'.state = "ready" => CurrentRequests' = {} /\ ~Reading'
    BY <1>2, <1>3, <1>4 DEF ListsInv
<1>11. server'["mine"].step = "read" =>
          LET job == server'["mine"]
          IN  /\ job.id \in 1 .. popup.id
              /\ \A k \in Keys \ job.left : job.got[k] \in Known /\ [key |-> k, value |-> job.got[k]] \in had
              /\ job.id = popup.id => /\ ReadSound(job.got, Keys \ job.left)
                                      /\ \A k \in job.left : readAt[k] = None
    BY DEF ListsInv
<1>12. popup'.state = "ready" => popup'.got \in [Keys -> Known] /\ ReadSound(popup'.got, Keys)
    BY DEF ListsInv
<1>13. had \subseteq had'
    BY DEF Grows
<1> QED BY <1>1, <1>5, <1>6, <1>7, <1>8, <1>9, <1>10, <1>11, <1>12, <1>13 DEF ListsInv

\* The form and its request, likewise.
LEMMA FormLess ==
    ASSUME FormInv, Grows, UNCHANGED <<form, alive>>,
           popup'.state = popup.state \/ form.state = "none", watch'.form # None => watch.form # None,
           Ours' => server'["mine"] = server["mine"],
           NEW c \in Nat, NEW d \in Nat,
           \A i \in 1 .. Len(requests') : requests'[i].type = "set" =>
              i + c \in 1 .. Len(requests) /\ requests'[i] = requests[i + c],
           \A i \in 1 .. Len(answers') : answers'[i].type = "done" =>
              i + d \in 1 .. Len(answers) /\ answers'[i] = answers[i + d]
    PROVE  FormInv'
<1>1. \A i \in SetRequests' : i \in Nat /\ i + c \in SetRequests /\ requests'[i] = requests[i + c]
    BY DEF SetRequests
<1>2. \A i \in DoneAnswers' : i \in Nat /\ i + d \in DoneAnswers /\ answers'[i] = answers[i + d]
    BY DEF DoneAnswers
<1>3. Ours' => Ours
    BY DEF Ours
<1>4. ASSUME NEW x, NEW v, NEW n, Made(x, v, n) PROVE Made(x, v, n)'
    BY <1>4 DEF Made, Sound, Grows
<1>5. ASSUME alive
      PROVE  /\ \A i, j \in SetRequests' : i = j
             /\ \A i, j \in DoneAnswers' : i = j
    <2>1. \A i, j \in SetRequests' : i + c = j + c
        BY <1>1, <1>5 DEF FormInv
    <2>2. \A i, j \in DoneAnswers' : i + d = j + d
        BY <1>2, <1>5 DEF FormInv
    <2> QED BY <1>1, <1>2, <2>1, <2>2
<1>6. ASSUME alive
      PROVE  /\ \A i \in SetRequests' : /\ form.state = "waiting" /\ requests'[i].id = form.id
                                        /\ requests'[i].change = form.change
             /\ \A i \in DoneAnswers' :
                   /\ form.state = "waiting" /\ answers'[i].id = form.id
                   /\ answers'[i].ok => Made(form.change, answers'[i].value, answers'[i].count)
             /\ Ours' => SetRequests' = {}
             /\ DoneAnswers' # {} => SetRequests' = {} /\ ~Ours'
    BY <1>1, <1>2, <1>3, <1>6 DEF FormInv
<1>7. ASSUME alive, Ours'
      PROVE  /\ form.state = "waiting" /\ server'["mine"].id = form.id
             /\ server'["mine"].key = form.change.key
             /\ Made(form.change, server'["mine"].value, server'["mine"].count)
    BY <1>3, <1>7 DEF FormInv
<1>8. /\ form.state = "ready" /\ form.ok => Made(form.change, form.value, form.count)
      /\ form.state # "none" => popup.state = "live" /\ form.change \in Change
      /\ form.state # "none" /\ form.change.op = "update" =>
            form.role # None /\ [key |-> form.change.key, value |-> form.role] \in had
      /\ watch.form # None => form.state # "none" /\ form.change.op = "update"
      /\ kind = "methods" => form.state # "open"
    BY DEF FormInv
<1>9. had \subseteq had' /\ kind' = kind /\ Change' = Change
    BY KindStays DEF Grows
<1> QED BY <1>4, <1>5, <1>6, <1>7, <1>8, <1>9 DEF FormInv

\* The lists that were asked for, if none moves.
LEMMA ListsStays ==
    ASSUME ListsInv, Grows, UNCHANGED <<requests, answers, readAt>>,
           popup'.id = popup.id, popup'.state = "ready" => popup' = popup,
           server'["mine"].step # "read" \/ server'["mine"] = server["mine"]
    PROVE  ListsInv'
<1>1. 0 \in Nat
    OBVIOUS
<1>2. \A i \in 1 .. Len(requests') : i + 0 \in 1 .. Len(requests) /\ requests'[i] = requests[i + 0]
    OBVIOUS
<1>3. \A i \in 1 .. Len(answers') : i + 0 \in 1 .. Len(answers) /\ answers'[i] = answers[i + 0]
    OBVIOUS
<1> QED BY <1>1, <1>2, <1>3, ListsLess

\* The form and its request.
LEMMA FormStays ==
    ASSUME FormInv, Grows, UNCHANGED <<requests, answers, form, alive>>,
           server'["mine"] = server["mine"],
           popup'.state = popup.state \/ form.state = "none",
           watch'.form # None => watch.form # None
    PROVE  FormInv'
<1>1. SetRequests' = SetRequests /\ DoneAnswers' = DoneAnswers /\ Ours' = Ours
    BY DEF SetRequests, DoneAnswers, Ours
<1>2. ASSUME NEW c, NEW v, NEW n, Made(c, v, n) PROVE Made(c, v, n)'
    BY <1>2 DEF Made, Sound, Grows
<1>3. Change' = Change
    BY KindStays DEF Grows
<1> QED BY <1>1, <1>2, <1>3 DEF FormInv, Grows

\* What is on its way by the events, and the counts.
LEMMA ReachStays ==
    ASSUME ReachInv, UNCHANGED <<kind, count, readAt, newest, stale>>,
           \/ popup'.state = popup.state
           \/ popup'.state \in {"closed", "failed"} /\ kind # "buffer"
           \/ popup'.state = "ready" /\ popup.state = "waiting",
           Coming \subseteq Coming'
    PROVE  ReachInv'
<1>1. Keys' = Keys
    BY KindStays
<1> QED BY <1>1 DEF ReachInv, Loading

\* The copy, if it is given nothing.
LEMMA CopyStays ==
    ASSUME CopyInv, Grows, UNCHANGED <<copy, newest>>, stale \subseteq stale',
           popup'.state = "live" <=> popup.state = "live"
    PROVE  CopyInv'
<1>1. Keys' = Keys /\ Known' = Known /\ Lists' = Lists
    BY KindStays DEF Grows
<1>2. ASSUME NEW k, NEW v PROVE Shows(copy, k, v)' = Shows(copy, k, v)
    BY DEF Shows
<1>3. BothMethods(copy)' = BothMethods(copy)
    BY DEF BothMethods
<1> QED BY <1>1, <1>2, <1>3 DEF CopyInv, Grows, Sound

\* The list as it was last shown.
LEMMA ViewStays ==
    ASSUME ViewInv, Grows, view'.shown = view.shown, view'.selected = view.selected,
           popup.state = "live" => popup'.state = "live"
    PROVE  ViewInv'
    BY DEF ViewInv, Grows, InOrder, Rank

--------------------------------------------------------------------------------
(***************************************************************************)
(* The invariant holds at first, and every step keeps it.                  *)
(***************************************************************************)

\* The invariant holds as the client connects.
LEMMA InitInv == Init => Inv
<1> SUFFICES ASSUME Init PROVE Inv
    OBVIOUS
<1>1. kind \in Kinds /\ kind \in {"users", "sockets", "methods", "buffer"}
    BY ListPopupsAssumption DEF Init
<1>2. truth \in [Keys -> Known]
    <2>1. CASE kind = "users"
        <3>1. truth \in StartUsers
            BY <2>1 DEF Init
        <3>2. Keys = Names /\ Known = Roles \cup {None}
            BY <2>1 DEF Keys, KeysOf, Known, ValuesOf
        <3> QED BY <3>1, <3>2, ListPopupsAssumption
    <2>2. CASE kind = "sockets"
        <3>1. truth \in [Keys -> {"open", None}]
            BY <2>2 DEF Init
        <3>2. Known = {"open", None}
            BY <2>2 DEF Known, ValuesOf
        <3> QED BY <3>1, <3>2
    <2>3. CASE kind \in {"methods", "buffer"}
        <3>1. truth \in [Keys -> ValuesOf(kind)]
            BY <2>3 DEF Init
        <3> QED BY <3>1 DEF Known
    <2> QED BY <1>1, <2>1, <2>2, <2>3
<1>3. /\ server = [m \in Managers |-> Idle] /\ stream = <<>> /\ answers = <<>> /\ alive = TRUE
      /\ channel = <<>> /\ copy = <<>> /\ form = NoForm /\ view = NoView
      /\ count = [k \in Keys |-> 0] /\ readAt = [k \in Keys |-> None] /\ newest = [k \in Keys |-> 0]
      /\ stale = {} /\ raced = {} /\ had = {[key |-> k, value |-> truth[k]] : k \in Keys}
    BY DEF Init
<1>a. server["mine"].step = "idle" /\ Len(answers) = 0
    BY <1>3 DEF Managers, Idle
<1>4. CASE kind = "buffer"
    <2>1. /\ popup = [state |-> "waiting", id |-> 1, got |-> None]
          /\ watch = [popup |-> <<>>, form |-> None]
          /\ requests = <<[type |-> "list", id |-> 1]>>
        BY <1>4 DEF Init
    <2>2. TypeInv
        <3>1. [type |-> "list", id |-> 1] \in ListRequest
            BY DEF ListRequest
        <3>2. requests \in Seq(ListRequest \cup SetRequest)
            BY <2>1, <3>1
        <3> QED BY <1>1, <1>2, <1>3, <2>1, <3>2
                DEF TypeInv, Forms, Views, PopupStates, FormStates, NoForm, NoView, NoFilter
    <2>3. FlowInv
        BY <1>3, <2>1 DEF FlowInv
    <2>4. ServerInv
        BY <1>3 DEF ServerInv, Idle, Busy
    <2>a. Len(requests) = 1 /\ requests[1] = [type |-> "list", id |-> 1]
        BY <2>1
    <2>5. ListsInv
        <3>1. CurrentAnswers = {} /\ ~Reading
            BY <1>a DEF CurrentAnswers, Reading
        <3>2. \A i, j \in CurrentRequests : i = j
            BY <2>a DEF CurrentRequests
        <3>3. \A i \in 1 .. Len(requests) : i = 1
            BY <2>a
        <3>4. popup.id = 1 /\ popup.state = "waiting" /\ requests[1].id = 1
            BY <2>1, <2>a
        <3> QED BY <1>3, <1>a, <3>1, <3>2, <3>3, <3>4 DEF ListsInv
    <2>6. FormInv
        <3>1. SetRequests = {} /\ DoneAnswers = {} /\ ~Ours
            BY <1>a, <2>a DEF SetRequests, DoneAnswers, Ours
        <3> QED BY <1>3, <2>1, <3>1 DEF FormInv, NoForm
    <2>7. PopupInv
        <3>1. None # <<>>
            BY <1>1, NoneApart, <<>> \in Seq(SoundItems)
        <3> QED BY <1>4, <2>1, <3>1 DEF PopupInv
    <2>8. ReachInv
        BY <1>3, <1>4, ListPopupsAssumption DEF ReachInv, Loading
    <2>9. CopyInv
        BY <1>3, <1>4, <2>1 DEF CopyInv, Lists
    <2>10. ViewInv
        BY <1>3, <1>4 DEF ViewInv, NoView
    <2> QED BY <2>2, <2>3, <2>4, <2>5, <2>6, <2>7, <2>8, <2>9, <2>10 DEF Inv
<1>5. CASE kind # "buffer"
    <2>1. popup = NoPopup /\ watch = [popup |-> None, form |-> None] /\ requests = <<>>
        BY <1>5 DEF Init
    <2>2. TypeInv
        BY <1>1, <1>2, <1>3, <2>1
           DEF TypeInv, Forms, Views, PopupStates, FormStates, NoForm, NoView, NoFilter, NoPopup
    <2>3. FlowInv
        BY <1>3, <2>1 DEF FlowInv
    <2>4. ServerInv
        BY <1>3 DEF ServerInv, Idle, Busy
    <2>a. Len(requests) = 0
        BY <2>1
    <2>5. ListsInv
        <3>1. CurrentAnswers = {} /\ ~Reading /\ CurrentRequests = {} /\ popup.state = "closed"
            BY <1>a, <2>a, <2>1 DEF CurrentAnswers, Reading, CurrentRequests, NoPopup
        <3> QED BY <1>a, <2>a, <3>1 DEF ListsInv
    <2>6. FormInv
        <3>1. SetRequests = {} /\ DoneAnswers = {} /\ ~Ours
            BY <1>a, <2>a DEF SetRequests, DoneAnswers, Ours
        <3> QED BY <1>3, <2>1, <3>1 DEF FormInv, NoForm
    <2>7. PopupInv
        BY <1>5, <2>1 DEF PopupInv, NoPopup
    <2>8. ReachInv
        BY <1>3, <1>5, <2>1, ListPopupsAssumption DEF ReachInv, Loading, NoPopup
    <2>9. CopyInv
        BY <1>3, <1>5, <2>1 DEF CopyInv, Lists, NoPopup, InOrder
    <2>10. ViewInv
        BY <1>3, <1>5 DEF ViewInv, NoView, InOrder
    <2> QED BY <2>2, <2>3, <2>4, <2>5, <2>6, <2>7, <2>8, <2>9, <2>10 DEF Inv
<1> QED BY <1>4, <1>5

\* A step of the client changes nothing of the server.
LEMMA ClientStep ==
    ASSUME Inv, UNCHANGED <<kind, serverVars>>
    PROVE  /\ UNCHANGED <<kind, truth, server, requests, stream, answers, count, readAt, raced, had>>
           /\ Grows /\ SoundEvents' = SoundEvents /\ SoundItems' = SoundItems /\ ServerInv'
           /\ stream' \in Seq(SoundEvents')
           /\ channel \in Seq(SoundEvents')
           /\ watch \in [popup : Seq(SoundItems') \cup {None}, form : Seq(SoundItems') \cup {None}]
           /\ Keys' = Keys
<1>1. UNCHANGED <<kind, truth, server, requests, stream, answers, count, readAt, raced, had>>
    BY DEF serverVars
<1>2. /\ Grows /\ SoundEvents' = SoundEvents /\ SoundItems' = SoundItems /\ ServerInv'
    BY <1>1, QuietStays DEF Inv, SameJobs
<1> QED BY <1>1, <1>2, FlowStays, KindStays DEF Inv

\* What is on its way, as far as the watch goes.
LEMMA ComingStays ==
    ASSUME UNCHANGED <<kind, count, server, stream, channel>>,
           watch.popup = None \/ watch'.popup = watch.popup
    PROVE  Coming \subseteq Coming'
<1>1. Keys' = Keys
    BY KindStays
<1> QED BY <1>1 DEF Coming

\* The end of the connection.
LEMMA ConnectionFailsKeeps == ASSUME Inv, ConnectionFails PROVE Inv'
<1>1. /\ UNCHANGED <<kind, serverVars>> /\ UNCHANGED <<channel, popup, copy, watch, form, view>>
      /\ UNCHANGED <<newest, stale>> /\ alive' = FALSE
    BY DEF ConnectionFails, ghostVars
<1>2. /\ UNCHANGED <<kind, truth, server, requests, stream, answers, count, readAt, raced, had>>
      /\ Grows /\ ServerInv'
      /\ stream' \in Seq(SoundEvents') /\ channel \in Seq(SoundEvents')
      /\ watch \in [popup : Seq(SoundItems') \cup {None}, form : Seq(SoundItems') \cup {None}]
    BY <1>1, ClientStep
<1>3. TypeInv'
    BY <1>1, <1>2, KindStays DEF Inv, TypeInv
<1>4. FlowInv'
    BY <1>1, <1>2 DEF FlowInv
<1>5. ListsInv'
    BY <1>1, <1>2, ListsStays DEF Inv
<1>6. FormInv'
    <2>1. ASSUME NEW c, NEW v, NEW n, Made(c, v, n) PROVE Made(c, v, n)'
        BY <1>2, <2>1 DEF Made, Sound, Grows
    <2>2. Change' = Change
        BY <1>1, KindStays
    <2> QED BY <1>1, <1>2, <2>1, <2>2 DEF Inv, FormInv
<1>7. PopupInv'
    BY <1>1 DEF Inv, PopupInv
<1>8. ReachInv'
    BY <1>1, <1>2, ComingStays, ReachStays DEF Inv
<1>9. CopyInv'
    BY <1>1, <1>2, CopyStays DEF Inv
<1>10. ViewInv'
    BY <1>1, <1>2, ViewStays DEF Inv
<1> QED BY <1>2, <1>3, <1>4, <1>5, <1>6, <1>7, <1>8, <1>9, <1>10 DEF Inv

\* A step of the client that leaves the watch, the form and the copy alone.
LEMMA ScreenStep ==
    ASSUME Inv, UNCHANGED <<kind, serverVars>>, UNCHANGED <<alive, channel, copy, form>>,
           UNCHANGED <<newest, stale, watch, popup>>, TypeInv', ViewInv'
    PROVE  Inv'
<1>1. /\ UNCHANGED <<kind, truth, server, requests, stream, answers, count, readAt, raced, had>>
      /\ Grows /\ ServerInv'
      /\ stream' \in Seq(SoundEvents') /\ channel \in Seq(SoundEvents')
      /\ watch \in [popup : Seq(SoundItems') \cup {None}, form : Seq(SoundItems') \cup {None}]
    BY ClientStep
<1>2. FlowInv'
    BY <1>1 DEF FlowInv
<1>3. ListsInv'
    BY <1>1, ListsStays DEF Inv
<1>4. FormInv'
    BY <1>1, FormStays DEF Inv
<1>5. PopupInv'
    BY <1>1 DEF Inv, PopupInv
<1>6. ReachInv'
    BY <1>1, ComingStays, ReachStays DEF Inv
<1>7. CopyInv'
    BY <1>1, CopyStays DEF Inv
<1> QED BY <1>1, <1>2, <1>3, <1>4, <1>5, <1>6, <1>7 DEF Inv

\* No answer will come.
LEMMA PopupFailsKeeps == ASSUME Inv, PopupFails PROVE Inv'
<1>1. /\ UNCHANGED <<kind, serverVars>> /\ UNCHANGED <<alive, channel, copy, watch, form, view>>
      /\ UNCHANGED <<newest, stale>> /\ popup' = [popup EXCEPT !.state = "failed"]
      /\ kind # "buffer" /\ popup.state = "waiting"
    BY DEF PopupFails, ghostVars
<1>2. /\ UNCHANGED <<kind, truth, server, requests, stream, answers, count, readAt, raced, had>>
      /\ Grows /\ ServerInv'
      /\ stream' \in Seq(SoundEvents') /\ channel \in Seq(SoundEvents')
      /\ watch \in [popup : Seq(SoundItems') \cup {None}, form : Seq(SoundItems') \cup {None}]
    BY <1>1, ClientStep
<1>a. /\ popup' \in [state : PopupStates, id : Nat, got : [Keys -> Known] \cup {None}]
      /\ popup'.id = popup.id /\ popup'.state = "failed"
    BY <1>1 DEF Inv, TypeInv, PopupStates
<1>3. TypeInv'
    BY <1>1, <1>2, <1>a, KindStays DEF Inv, TypeInv
<1>4. FlowInv'
    BY <1>1, <1>2 DEF FlowInv
<1>5. ListsInv'
    BY <1>1, <1>2, <1>a, ListsStays DEF Inv
<1>6. FormInv'
    <2>1. form.state = "none"
        BY <1>1 DEF Inv, FormInv
    <2> QED BY <1>1, <1>2, <1>a, <2>1, FormStays DEF Inv
<1>7. PopupInv'
    BY <1>1, <1>a DEF Inv, PopupInv
<1>8. ReachInv'
    BY <1>1, <1>2, <1>a, ComingStays, ReachStays DEF Inv
<1>9. CopyInv'
    BY <1>1, <1>2, <1>a, CopyStays DEF Inv
<1>10. ViewInv'
    BY <1>1, <1>2, <1>a, ViewStays DEF Inv
<1> QED BY <1>2, <1>3, <1>4, <1>5, <1>6, <1>7, <1>8, <1>9, <1>10 DEF Inv

\* The filter of the users.
LEMMA ChangeFilterKeeps == ASSUME Inv, ChangeFilter PROVE Inv'
<1>1. /\ UNCHANGED <<kind, serverVars>> /\ UNCHANGED <<alive, channel, copy, form>>
      /\ UNCHANGED <<newest, stale, watch, popup>>
    BY DEF ChangeFilter, ghostVars
<1>2. PICK f \in Filters : view' = [view EXCEPT !.filter = f, !.dirty = TRUE]
    BY DEF ChangeFilter
<1>3. view' \in Views /\ view'.shown = view.shown /\ view'.selected = view.selected
    <2>1. f \in [roles : SUBSET Roles, names : SUBSET Names]
        BY ListPopupsAssumption
    <2> QED BY <1>2, <2>1 DEF Inv, TypeInv, Views
<1>4. Grows /\ UNCHANGED <<truth, server, requests, answers, count, readAt, raced>>
    BY <1>1, ClientStep
<1>5. TypeInv'
    BY <1>1, <1>3, <1>4, KindStays DEF Inv, TypeInv
<1>6. ViewInv'
    BY <1>1, <1>3, <1>4, ViewStays DEF Inv
<1> QED BY <1>1, <1>5, <1>6, ScreenStep

\* The selection.
LEMMA SelectKeeps == ASSUME Inv, Select PROVE Inv'
<1>1. /\ UNCHANGED <<kind, serverVars>> /\ UNCHANGED <<alive, channel, copy, form>>
      /\ UNCHANGED <<newest, stale, watch, popup>>
    BY DEF Select, ghostVars
<1>2. PICK i \in 0 .. Len(view.shown) : view' = [view EXCEPT !.selected = i]
    BY DEF Select
<1>3. view' \in Views /\ view'.shown = view.shown /\ view'.selected = i /\ i <= Len(view.shown)
    <2>1. view \in Views /\ view.shown \in Seq(Entry)
        BY DEF Inv, TypeInv, Views
    <2> DEFINE n == Len(view.shown)
    <2>2. n \in Nat
        BY <2>1
    <2> HIDE DEF n
    <2>3. i \in Nat /\ i <= n
        BY <2>2 DEF n
    <2> QED BY <1>2, <2>1, <2>3 DEF Views, n
<1>4. Grows /\ UNCHANGED <<truth, server, requests, answers, count, readAt, raced>>
    BY <1>1, ClientStep
<1>5. TypeInv'
    BY <1>1, <1>3, <1>4, KindStays DEF Inv, TypeInv
<1>6. ViewInv'
    BY <1>1, <1>3, <1>4 DEF Inv, ViewInv, Grows, InOrder, Rank
<1> QED BY <1>1, <1>5, <1>6, ScreenStep

\* The list as it is shown next.
LEMMA RenderKeeps == ASSUME Inv, Render PROVE Inv'
<1> DEFINE shown == Filtered(copy)
           again == IF view.selected = 0 THEN {} ELSE At(shown, view.shown[view.selected].key)
           selected == IF kind = "users" THEN IF again = {} THEN 0 ELSE Min(again)
                       ELSE IF view.selected <= Len(shown) THEN view.selected ELSE 0
<1>1. /\ UNCHANGED <<kind, serverVars>> /\ UNCHANGED <<alive, channel, copy, form>>
      /\ UNCHANGED <<newest, stale, watch, popup>>
      /\ view' = [view EXCEPT !.shown = shown, !.selected = selected, !.dirty = FALSE]
      /\ popup.state = "live"
    BY DEF Render, ghostVars
<1>2. /\ shown \in Seq(Entry) /\ Len(shown) <= Len(copy)
      /\ \A i \in 1 .. Len(shown) : \E j \in 1 .. Len(copy) : shown[i] = copy[j]
      /\ InOrder(copy) => InOrder(shown)
    BY FilteredWell DEF Inv, CopyInv, Lists
<1>3. view.selected \in Nat
    BY DEF Inv, TypeInv, Views
<1>4. selected \in Nat /\ selected <= Len(shown)
    <2>1. CASE again = {}
        BY <1>2, <1>3, <2>1
    <2>2. CASE again # {}
        <3>1. again \in SUBSET (1 .. Len(shown))
            BY DEF At
        <3>2. Min(again) \in again
            BY <2>2, <3>1, MinLeast
        <3>3. Min(again) \in 1 .. Len(shown)
            BY <3>1, <3>2
        <3>4. Len(shown) \in Nat
            BY <1>2
        <3> HIDE DEF again, shown
        <3>5. Min(again) \in Nat /\ Min(again) <= Len(shown)
            BY <3>3, <3>4
        <3>6. CASE kind = "users"
            BY <2>2, <3>5, <3>6
        <3>7. CASE kind # "users"
            BY <1>3, <3>4, <3>7
        <3> QED BY <3>6, <3>7
    <2> QED BY <2>1, <2>2
<1> HIDE DEF shown, selected
<1>5. view' \in Views /\ view'.shown = shown /\ view'.selected = selected
    BY <1>1, <1>2, <1>4 DEF Inv, TypeInv, Views
<1>6. Grows /\ UNCHANGED <<truth, server, requests, answers, count, readAt, raced>>
    BY <1>1, ClientStep
<1>7. TypeInv'
    BY <1>1, <1>5, <1>6, KindStays DEF Inv, TypeInv
<1>8. ViewInv'
    <2>1. \A i \in 1 .. Len(shown) : shown[i] \in had'
        BY <1>2, <1>6 DEF Inv, CopyInv, Grows
    <2>2. kind \in {"users", "sockets"} => InOrder(shown)
        BY <1>2 DEF Inv, CopyInv, Lists
    <2>3. kind = "methods" => Len(shown) <= 2
        BY <1>1, <1>2 DEF Inv, CopyInv, BothMethods
    <2>4. kind' = kind /\ popup'.state = "live" /\ view'.shown = shown /\ view'.selected = selected
        BY <1>1, <1>5
    <2>6. InOrder(view.shown)' = InOrder(shown)
        BY <2>4 DEF InOrder, Rank
    <2> QED BY <1>4, <2>1, <2>2, <2>3, <2>4, <2>6 DEF ViewInv
<1> QED BY <1>1, <1>7, <1>8, ScreenStep

\* The popup's task fills the list: what it was answered is of each key the latest change
\* that it will not hear of, unless one was lost.
LEMMA PopupLoadsKeeps == ASSUME Inv, PopupLoads PROVE Inv'
<1>1. /\ UNCHANGED <<kind, serverVars>> /\ UNCHANGED <<alive, channel, form, stale>>
      /\ popup.state = "ready" /\ copy' \in Loaded(popup.got)
      /\ popup' = [popup EXCEPT !.state = "live", !.got = None]
      /\ watch' = [watch EXCEPT !.popup = <<>>]
      /\ view' = [view EXCEPT !.dirty = TRUE]
      /\ newest' = [k \in Keys |-> Max({newest[k], readAt[k]})]
    BY DEF PopupLoads
<1>2. /\ UNCHANGED <<truth, server, requests, stream, answers, count, readAt, raced, had>>
      /\ Grows /\ ServerInv'
      /\ stream' \in Seq(SoundEvents') /\ channel \in Seq(SoundEvents')
      /\ watch \in [popup : Seq(SoundItems') \cup {None}, form : Seq(SoundItems') \cup {None}]
      /\ Keys' = Keys
    BY <1>1, ClientStep
<1>3. /\ kind # "buffer" /\ watch.popup = None /\ form.state = "none" /\ kind \in Kinds
      /\ popup.got \in [Keys -> Known] /\ ReadSound(popup.got, Keys)
    BY <1>1 DEF Inv, PopupInv, FormInv, ListsInv, TypeInv
<1>4. /\ popup' \in [state : PopupStates, id : Nat, got : [Keys -> Known] \cup {None}]
      /\ popup'.id = popup.id /\ popup'.state = "live"
    BY <1>1 DEF Inv, TypeInv, PopupStates
<1>5. /\ view' \in Views /\ view'.shown = view.shown /\ view'.selected = view.selected
    BY <1>1 DEF Inv, TypeInv, Views
<1>6. /\ watch' \in [popup : Seq(SoundItems') \cup {None}, form : Seq(SoundItems') \cup {None}]
      /\ watch'.popup = <<>> /\ watch'.form = watch.form /\ watch'.popup # None
    <2>1. None # <<>>
        BY <1>3, NoneApart, <<>> \in Seq(SoundItems)
    <2>2. <<>> \in Seq(SoundItems')
        OBVIOUS
    <2>3. watch \in [popup : Seq(SoundItems') \cup {None}, form : Seq(SoundItems') \cup {None}]
        BY <1>2
    <2> QED BY <1>1, <2>1, <2>2, <2>3
<1>7. /\ newest' \in [Keys -> Nat]
      /\ \A k \in Keys : /\ newest'[k] = IF newest[k] <= readAt[k] THEN readAt[k] ELSE newest[k]
                         /\ readAt[k] \in Nat /\ newest[k] \in Nat /\ count[k] \in Nat
    <2>1. ASSUME NEW k \in Keys
          PROVE  /\ readAt[k] \in Nat /\ newest[k] \in Nat /\ count[k] \in Nat
                 /\ Max({newest[k], readAt[k]}) = IF newest[k] <= readAt[k] THEN readAt[k] ELSE newest[k]
        <3>1. readAt[k] \in Nat /\ newest[k] \in Nat /\ count[k] \in Nat
            BY <1>3 DEF Inv, TypeInv, ReadSound
        <3> QED BY <3>1, MaxTwo
    <2> QED BY <1>1, <2>1
<1>8. TypeInv'
    BY <1>1, <1>2, <1>4, <1>5, <1>7, KindStays DEF Inv, TypeInv
<1>9. FlowInv'
    BY <1>1, <1>2, <1>6 DEF FlowInv
<1>10. ListsInv'
    BY <1>1, <1>2, <1>4, ListsStays DEF Inv
<1>11. FormInv'
    BY <1>1, <1>2, <1>3, <1>6, FormStays DEF Inv
<1>12. PopupInv'
    BY <1>1, <1>3, <1>4, <1>6 DEF PopupInv
<1>13. ReachInv'
    <2>1. Coming \subseteq Coming'
        BY <1>1, <1>2, <1>3, ComingStays
    <2>2. ASSUME NEW k \in Keys
          PROVE  /\ newest'[k] <= count[k] /\ (newest'[k] = count[k] \/ k \in Coming')
                 /\ readAt[k] <= count[k]
        BY <1>1, <1>3, <1>7, <2>1, ListPopupsAssumption DEF Inv, ReachInv, Loading
    <2> QED BY <1>1, <1>2, <1>4, <2>2 DEF ReachInv, Loading
<1>14. CopyInv'
    <2>1. /\ copy' \in Lists
          /\ \A i \in 1 .. Len(copy') : \E k \in Keys : copy'[i] = [key |-> k, value |-> popup.got[k]]
          /\ \A k \in Keys : Shows(copy', k, popup.got[k])
          /\ kind = "methods" => BothMethods(copy')
        BY <1>1, <1>3, LoadedWell
    <2>2. \A k \in Keys : Sound(k, popup.got[k], readAt[k])
        BY <1>3 DEF ReadSound
    <2>3. \A i \in 1 .. Len(copy') : copy'[i] \in had'
        <3>1. \A k \in Keys : [key |-> k, value |-> popup.got[k]] \in had
            BY <2>2 DEF Sound, SoundEvents
        <3> QED BY <1>2, <2>1, <3>1
    <2>4. ASSUME NEW k \in Keys \ stale
          PROVE  \E v \in Known : Shows(copy', k, v) /\ Sound(k, v, newest'[k])
        <3>1. newest[k] <= readAt[k]
            BY <1>1, <1>3, <1>7 DEF Inv, ReachInv, Loading, ReadSound
        <3>2. newest'[k] = readAt[k]
            BY <1>7, <3>1
        <3> QED BY <1>3, <2>1, <2>2, <3>2
    <2>5. Lists' = Lists /\ Known' = Known
        BY <1>1, KindStays
    <2>6. \A k, v : Shows(copy, k, v)' <=> Shows(copy', k, v)
        BY DEF Shows
    <2>7. BothMethods(copy)' <=> BothMethods(copy')
        BY DEF BothMethods
    <2>8. \A k \in Keys : \A v : Sound(k, v, newest'[k]) => Sound(k, v, newest[k])'
        BY <1>2 DEF Sound, Grows
    <2> QED BY <1>1, <1>2, <1>3, <1>4, <2>1, <2>3, <2>4, <2>5, <2>6, <2>7, <2>8 DEF CopyInv
<1>15. ViewInv'
    BY <1>2, <1>4, <1>5, ViewStays DEF Inv
<1> QED BY <1>2, <1>8, <1>9, <1>10, <1>11, <1>12, <1>13, <1>14, <1>15 DEF Inv

\* The popup's task follows the watch: what it is told is of the key's latest change, or
\* an older one or a guess, and then the key is stale.
LEMMA PopupAppliesKeeps == ASSUME Inv, PopupApplies PROVE Inv'
<1> DEFINE item == Head(watch.popup)
           e == [key |-> item.key, value |-> item.value]
           late == item.count < newest[e.key] \/ ("guess" \in DOMAIN item /\ item.guess)
<1>1. /\ UNCHANGED <<kind, serverVars>> /\ UNCHANGED <<alive, channel, form>>
      /\ popup.state = "live" \/ kind = "buffer"
      /\ watch.popup # None /\ watch.popup # <<>>
      /\ copy' \in Changed(copy, e)
      /\ view' = [view EXCEPT !.dirty = @ \/ copy' # copy \/ kind = "methods"]
      /\ newest' = [newest EXCEPT ![e.key] = Max({@, item.count})]
      /\ stale' = IF late THEN stale \cup {e.key} ELSE stale \ {e.key}
      /\ watch' = [watch EXCEPT !.popup = Tail(@)]
      /\ popup' = [popup EXCEPT !.state = "live"]
    BY DEF PopupApplies
<1>2. /\ UNCHANGED <<truth, server, requests, stream, answers, count, readAt, raced, had>>
      /\ Grows /\ ServerInv' /\ SoundItems' = SoundItems
      /\ stream' \in Seq(SoundEvents') /\ channel \in Seq(SoundEvents')
      /\ watch \in [popup : Seq(SoundItems') \cup {None}, form : Seq(SoundItems') \cup {None}]
      /\ Keys' = Keys
    BY <1>1, ClientStep
<1>3. kind \in Kinds /\ kind \in {"users", "sockets", "methods", "buffer"}
    BY ListPopupsAssumption DEF Inv, TypeInv
<1>4. watch.popup \in Seq(SoundItems)
    BY <1>1 DEF Inv, FlowInv
<1>5. item \in SoundItems
    BY <1>1, <1>4
<1>6. /\ e.key = item.key /\ e.value = item.value /\ e \in [key : Keys, value : Known]
      /\ e \in had /\ item.count \in Nat /\ item.count <= count[e.key]
      /\ ~late => item.count >= newest[e.key] /\ Sound(e.key, e.value, item.count)
    <2> HIDE DEF item
    <2>1. CASE item \in SoundEvents
        <3>1. item \in Event /\ item = [key |-> item.key, value |-> item.value, count |-> item.count]
            BY <2>1 DEF SoundEvents, Event
        <3>2. newest[e.key] \in Nat
            BY <3>1 DEF Inv, TypeInv, Event
        <3> QED BY <2>1, <3>1, <3>2 DEF SoundEvents, Event, Sound
    <2>2. CASE item \notin SoundEvents
        <3>1. /\ item \in [key : Keys, value : Known, count : Nat, guess : BOOLEAN]
              /\ [key |-> item.key, value |-> item.value] \in had /\ item.count <= count[item.key]
              /\ item.guess \/ Sound(item.key, item.value, item.count)
            BY <1>5, <2>2 DEF SoundItems, Item
        <3>2. newest[e.key] \in Nat /\ "guess" \in DOMAIN item
            BY <3>1 DEF Inv, TypeInv
        <3> QED BY <3>1, <3>2
    <2> QED BY <2>1, <2>2
<1> HIDE DEF e, late, item
<1>7. /\ popup' \in [state : PopupStates, id : Nat, got : [Keys -> Known] \cup {None}]
      /\ popup'.id = popup.id /\ popup'.state = "live"
    BY <1>1 DEF Inv, TypeInv, PopupStates
<1>8. /\ view' \in Views /\ view'.shown = view.shown /\ view'.selected = view.selected
    BY <1>1 DEF Inv, TypeInv, Views
<1> DEFINE rest == Tail(watch.popup)
<1>9. rest \in Seq(SoundItems)
    BY <1>1, <1>4
<1>10. /\ \A i \in 1 .. Len(rest) : rest[i] = watch.popup[i + 1]
       /\ \A i \in 1 .. Len(watch.popup) : i = 1 \/ (i - 1 \in 1 .. Len(rest) /\ rest[i - 1] = watch.popup[i])
       /\ watch.popup[1] = item
    BY <1>1, <1>4 DEF item
<1> HIDE DEF rest
<1>11. /\ watch' \in [popup : Seq(SoundItems') \cup {None}, form : Seq(SoundItems') \cup {None}]
       /\ watch'.popup = rest /\ watch'.form = watch.form /\ watch'.popup # None
    <2>1. rest # None
        BY <1>3, <1>9, NoneApart
    <2>2. watch' = [watch EXCEPT !.popup = rest]
        BY <1>1 DEF rest
    <2> QED BY <1>2, <1>9, <2>1, <2>2
<1>12. /\ newest' \in [Keys -> Nat] /\ \A k \in Keys \ {e.key} : newest'[k] = newest[k]
       /\ newest'[e.key] = IF newest[e.key] <= item.count THEN item.count ELSE newest[e.key]
       /\ newest[e.key] \in Nat /\ e.key \in Keys
    <2>1. newest \in [Keys -> Nat]
        BY DEF Inv, TypeInv
    <2>2. newest[e.key] \in Nat /\ e.key \in Keys
        BY <1>6, <2>1
    <2>3. Max({newest[e.key], item.count}) = IF newest[e.key] <= item.count THEN item.count ELSE newest[e.key]
        BY <1>6, <2>2, MaxTwo
    <2>4. newest' = [newest EXCEPT ![e.key] = Max({newest[e.key], item.count})]
        BY <1>1
    <2> QED BY <1>6, <2>1, <2>2, <2>3, <2>4
<1>13. TypeInv'
    <2>1. stale' \in SUBSET Keys
        BY <1>1, <1>6 DEF Inv, TypeInv
    <2> QED BY <1>1, <1>2, <1>7, <1>8, <1>12, <2>1, KindStays DEF Inv, TypeInv
<1>14. FlowInv'
    BY <1>1, <1>2, <1>11 DEF FlowInv
<1>15. ListsInv'
    BY <1>1, <1>2, <1>7, ListsStays DEF Inv
<1>16. FormInv'
    <2>1. popup'.state = popup.state \/ form.state = "none"
        BY <1>1, <1>7 DEF Inv, FormInv
    <2> QED BY <1>1, <1>2, <1>11, <2>1, FormStays DEF Inv
<1>17. PopupInv'
    BY <1>1, <1>7, <1>11 DEF Inv, PopupInv
<1>18. ReachInv'
    <2>1. ASSUME NEW k \in Keys, k \in Coming, k \notin Coming' PROVE newest'[k] = count[k]
        <3>1. \E i \in 1 .. Len(watch.popup) : watch.popup[i].key = k /\ watch.popup[i].count = count[k]
            BY <1>1, <1>2, <2>1 DEF Coming
        <3>2. PICK i \in 1 .. Len(watch.popup) : watch.popup[i].key = k /\ watch.popup[i].count = count[k]
            BY <3>1
        <3>3. i = 1
            <4> SUFFICES ASSUME i # 1 PROVE FALSE
                OBVIOUS
            <4>1. i - 1 \in 1 .. Len(rest) /\ rest[i - 1] = watch.popup[i]
                BY <1>10
            <4> QED BY <1>2, <1>11, <2>1, <3>2, <4>1 DEF Coming
        <3>4. item.key = k /\ item.count = count[k]
            BY <1>10, <3>2, <3>3
        <3> QED BY <1>6, <1>12, <3>4 DEF Inv, ReachInv
    <2>2. ASSUME NEW k \in Keys PROVE newest'[k] <= count[k]
        <3>1. newest[k] <= count[k]
            BY DEF Inv, ReachInv
        <3> QED BY <1>6, <1>12, <3>1
    <2>3. ASSUME NEW k \in Keys PROVE newest'[k] = count[k] \/ k \in Coming'
        <3>1. newest[k] = count[k] \/ k \in Coming
            BY <1>1 DEF Inv, ReachInv
        <3>2. CASE newest[k] = count[k]
            BY <1>6, <1>12, <3>2
        <3> QED BY <2>1, <3>1, <3>2
    <2>4. ASSUME NEW k \in Keys PROVE readAt[k] # None => readAt[k] <= count[k]
        BY DEF Inv, ReachInv
    <2> QED BY <1>1, <1>2, <1>7, <2>2, <2>3, <2>4 DEF ReachInv, Loading
<1>19. CopyInv'
    <2>1. /\ copy \in Lists /\ \A i \in 1 .. Len(copy) : copy[i] \in had
          /\ kind = "methods" => BothMethods(copy) /\ popup.state = "live"
          /\ kind = "buffer" => Len(copy) <= 1
        <3>1. copy \in Lists /\ \A i \in 1 .. Len(copy) : copy[i] \in had
            BY DEF Inv, CopyInv
        <3>2. kind = "methods" => BothMethods(copy) /\ popup.state = "live"
            BY <1>1 DEF Inv, CopyInv
        <3>3. kind = "buffer" => Len(copy) <= 1
            <4>1. CASE popup.state = "live"
                <5>1. kind = "buffer" => Len(copy) = 1
                    BY <4>1 DEF Inv, CopyInv
                <5> DEFINE n == Len(copy)
                <5>2. n \in Nat /\ (kind = "buffer" => n = 1)
                    BY <3>1, <5>1 DEF Lists
                <5> HIDE DEF n
                <5>3. kind = "buffer" => n <= 1
                    BY <5>2
                <5> QED BY <5>3 DEF n
            <4>2. CASE popup.state # "live"
                <5>1. copy = <<>>
                    BY <4>2 DEF Inv, CopyInv
                <5> QED BY <5>1
            <4> QED BY <4>1, <4>2
        <3> QED BY <3>1, <3>2, <3>3
    <2>2. /\ Follows(copy, copy', e)
          /\ kind = "methods" => BothMethods(copy')
          /\ kind = "buffer" => Len(copy') = 1
        BY <1>1, <1>3, <1>6, <2>1, ChangedFollows
    <2>3. \A i \in 1 .. Len(copy') : copy'[i] \in had'
        BY <1>2, <1>6, <2>1, <2>2 DEF Follows
    <2>4. ASSUME NEW k \in Keys \ stale'
          PROVE  \E v \in Known : Shows(copy', k, v) /\ Sound(k, v, newest'[k])
        <3>1. CASE k = e.key
            <4>1. ~late
                BY <1>1, <2>4, <3>1
            <4>2. newest'[k] = item.count /\ Sound(k, e.value, item.count)
                BY <1>6, <1>12, <3>1, <4>1
            <4>3. Shows(copy', k, e.value) /\ e.value \in Known
                BY <1>6, <2>2, <3>1 DEF Follows
            <4> QED BY <4>2, <4>3
        <3>2. CASE k # e.key
            <4>1. kind # "buffer"
                BY <1>12, <2>4, <3>2 DEF Keys, KeysOf
            <4>2. PICK v \in Known : Shows(copy, k, v) /\ Sound(k, v, newest[k])
                <5>1. popup.state = "live" /\ k \in Keys \ stale
                    BY <1>1, <2>4, <3>2, <4>1
                <5> QED BY <5>1 DEF Inv, CopyInv
            <4>3. Shows(copy', k, v)
                BY <2>2, <3>2, <4>2, OthersShown
            <4> QED BY <1>12, <2>4, <3>2, <4>2, <4>3
        <3> QED BY <3>1, <3>2
    <2>5. Lists' = Lists /\ Known' = Known
        BY <1>1, KindStays
    <2>6. \A k, v : Shows(copy, k, v)' <=> Shows(copy', k, v)
        BY DEF Shows
    <2>7. BothMethods(copy)' <=> BothMethods(copy')
        BY DEF BothMethods
    <2>8. \A k \in Keys : \A v : Sound(k, v, newest'[k]) => Sound(k, v, newest[k])'
        BY <1>2 DEF Sound, Grows
    <2>9. copy' \in Lists
        BY <2>2 DEF Follows
    <2> QED BY <1>1, <1>2, <1>7, <2>2, <2>3, <2>4, <2>5, <2>6, <2>7, <2>8, <2>9 DEF CopyInv
<1>20. ViewInv'
    BY <1>2, <1>7, <1>8, ViewStays DEF Inv
<1> QED BY <1>2, <1>13, <1>14, <1>15, <1>16, <1>17, <1>18, <1>19, <1>20 DEF Inv

\* What a receiver has to receive after an item was sent, and the item is one of it.
LEMMA ReceivedAt ==
    ASSUME NEW S, NEW queue \in Seq(S), NEW item \in S
    PROVE  /\ Received(queue, item) \in Seq(S)
           /\ \E j \in 1 .. Len(Received(queue, item)) : Received(queue, item)[j] = item
<1> DEFINE n == Len(queue)
<1>1. CASE n < WatchCap
    <2>1. Received(queue, item) = Append(queue, item)
        BY <1>1 DEF Received
    <2> QED BY <2>1
<1>2. CASE ~(n < WatchCap)
    <2>1. Received(queue, item) = Append(Tail(queue), item) /\ queue # <<>>
        <3>1. queue # <<>>
            BY <1>2, ListPopupsAssumption
        <3> QED BY <1>2, <3>1 DEF Received
    <2> QED BY <2>1
<1> QED BY <1>1, <1>2

\* The item that was sent is one of them.
LEMMA ReceivedLast ==
    ASSUME NEW S, NEW queue \in Seq(S), NEW item \in S
    PROVE  \E j \in 1 .. Len(Received(queue, item)) : Received(queue, item)[j] = item
    BY ReceivedAt

\* Those that were there are still, but for the first of a queue that was full.
LEMMA ReceivedKept ==
    ASSUME NEW S, NEW queue \in Seq(S), NEW item \in S
    PROVE  \A i \in 1 .. Len(queue) :
              \/ \E j \in 1 .. Len(Received(queue, item)) : Received(queue, item)[j] = queue[i]
              \/ i = 1 /\ ~(Len(queue) < WatchCap)
<1> DEFINE n == Len(queue)
           new == Received(queue, item)
<1> SUFFICES ASSUME NEW i \in 1 .. n, ~(i = 1 /\ ~(n < WatchCap))
             PROVE  \E j \in 1 .. Len(new) : new[j] = queue[i]
    OBVIOUS
<1>1. CASE n < WatchCap
    <2>1. new = Append(queue, item)
        BY <1>1 DEF Received
    <2>2. i \in 1 .. Len(new) /\ new[i] = queue[i]
        BY <2>1
    <2> QED BY <2>2
<1>2. CASE ~(n < WatchCap)
    <2>1. new = Append(Tail(queue), item) /\ queue # <<>> /\ i # 1
        BY <1>2 DEF Received
    <2>2. Tail(queue)[i - 1] = queue[i] /\ i - 1 \in 1 .. Len(Tail(queue)) /\ Tail(queue) \in Seq(S)
        BY <2>1
    <2>3. i - 1 \in 1 .. Len(new) /\ new[i - 1] = queue[i]
        BY <2>1, <2>2
    <2> QED BY <2>3
<1> QED BY <1>1, <1>2

\* What a sound item is.
LEMMA ItemIs ==
    ASSUME NEW i \in SoundItems
    PROVE  /\ i.key \in Keys /\ i.value \in Known /\ i.count \in Nat /\ i.count <= count[i.key]
           /\ [key |-> i.key, value |-> i.value] \in had
<1>1. CASE i \in SoundEvents
    BY <1>1 DEF SoundEvents, Event
<1>2. CASE i \notin SoundEvents
    BY <1>2 DEF SoundItems, Item
<1> QED BY <1>1, <1>2

\* What is sent into the watch: to a receiver it is the last that is on its way, and the
\* first is lost where there is no room; to a popup that is not a receiver yet it is lost,
\* unless the popup's list has it.
LEMMA Published ==
    ASSUME TypeInv, FlowInv, ReachInv, NEW item \in SoundItems, NEW receivers, "popup" \in receivers,
           Publish(item, receivers)
    PROVE  /\ watch' \in [popup : Seq(SoundItems) \cup {None}, form : Seq(SoundItems) \cup {None}]
           /\ watch'.popup = None <=> watch.popup = None
           /\ watch'.form # None => watch.form # None
           /\ stale \subseteq stale' /\ stale' \subseteq Keys
           /\ newest' \in [Keys -> Nat]
           /\ \A k \in Keys : /\ newest[k] <= newest'[k] /\ newest'[k] <= count[k]
                              /\ newest'[k] = newest[k] \/ k \in stale'
                              /\ watch.popup = None /\ readAt[k] = None => newest'[k] = newest[k]
           /\ watch.popup = None /\ popup.state \in {"waiting", "ready"} /\ readAt[item.key] # None =>
                 item.count <= readAt[item.key] \/ item.count <= newest'[item.key]
           /\ watch.popup # None =>
                 /\ \E j \in 1 .. Len(watch'.popup) : watch'.popup[j] = item
                 /\ \A i \in 1 .. Len(watch.popup) :
                       \/ \E j \in 1 .. Len(watch'.popup) : watch'.popup[j] = watch.popup[i]
                       \/ watch.popup[i].count <= newest'[watch.popup[i].key]
<1> DEFINE lost == IF watch.popup = None
                   THEN {i \in {item} : /\ popup.state \in {"waiting", "ready"}
                                        /\ readAt[i.key] # None /\ i.count > readAt[i.key]}
                   ELSE IF Len(watch.popup) < WatchCap THEN {}
                   ELSE {i \in {Head(watch.popup)} : i.count > newest[i.key]}
<1>1. /\ watch' = [s \in DOMAIN watch |->
                      IF watch[s] = None \/ s \notin receivers THEN None ELSE Received(watch[s], item)]
      /\ stale' = stale \cup {i.key : i \in lost}
      /\ newest' = [k \in Keys |-> Max({newest[k]} \cup {i.count : i \in {j \in lost : j.key = k}})]
    BY DEF Publish
<1>2. /\ watch \in [popup : Seq(SoundItems) \cup {None}, form : Seq(SoundItems) \cup {None}]
      /\ DOMAIN watch = {"popup", "form"} /\ None \notin Seq(SoundItems)
      /\ WatchCap \in Nat \ {0} /\ None \notin Nat
    BY NoneApart, ListPopupsAssumption DEF FlowInv, TypeInv
<1>3. /\ item.key \in Keys /\ item.count \in Nat /\ item.count <= count[item.key]
      /\ \A k \in Keys : /\ newest[k] \in Nat /\ count[k] \in Nat /\ newest[k] <= count[k]
                         /\ readAt[k] \in Nat \cup {None}
    BY ItemIs DEF TypeInv, ReachInv
<1>4. ASSUME watch.popup # None, ~(Len(watch.popup) < WatchCap)
      PROVE  Head(watch.popup) \in SoundItems /\ Head(watch.popup) = watch.popup[1]
    <2>1. watch.popup \in Seq(SoundItems)
        BY <1>2, <1>4
    <2>2. watch.popup # <<>>
        BY <1>2, <1>4
    <2> QED BY <2>1, <2>2
<1>5. \E x : /\ lost = {} \/ lost = {x}
             /\ x \in SoundItems
    <2>1. CASE watch.popup = None
        <3>1. lost = {} \/ lost = {item}
            BY <2>1
        <3> QED BY <3>1
    <2>2. CASE watch.popup # None /\ Len(watch.popup) < WatchCap
        BY <2>2
    <2>3. CASE watch.popup # None /\ ~(Len(watch.popup) < WatchCap)
        <3>1. lost = {} \/ lost = {Head(watch.popup)}
            BY <2>3
        <3> QED BY <1>4, <2>3, <3>1
    <2> QED BY <2>1, <2>2, <2>3
<1>6. PICK x : (lost = {} \/ lost = {x}) /\ x \in SoundItems
    BY <1>5
<1>7. x.key \in Keys /\ x.count \in Nat /\ x.count <= count[x.key]
    BY <1>6, ItemIs
<1>8. x \in lost /\ watch.popup = None => readAt[x.key] # None
    OBVIOUS
<1>9. watch.popup = None /\ popup.state \in {"waiting", "ready"} /\ readAt[item.key] # None
      /\ item.count > readAt[item.key] => item \in lost
    OBVIOUS
<1>10. watch.popup # None /\ ~(Len(watch.popup) < WatchCap) /\ watch.popup[1].count > newest[watch.popup[1].key]
       => watch.popup[1] \in lost
    BY <1>4
<1> HIDE DEF lost
<1>11. ASSUME NEW k \in Keys
       PROVE  newest'[k] = IF x \in lost /\ x.key = k /\ newest[k] <= x.count THEN x.count ELSE newest[k]
    <2>1. newest'[k] = Max({newest[k]} \cup {i.count : i \in {j \in lost : j.key = k}})
        BY <1>1
    <2>2. CASE x \in lost /\ x.key = k
        <3>1. {newest[k]} \cup {i.count : i \in {j \in lost : j.key = k}} = {newest[k], x.count}
            BY <1>6, <2>2
        <3>2. Max({newest[k], x.count}) = IF newest[k] <= x.count THEN x.count ELSE newest[k]
            BY <1>3, <1>7, MaxTwo
        <3> QED BY <2>1, <2>2, <3>1, <3>2
    <2>3. CASE ~(x \in lost /\ x.key = k)
        <3>1. {newest[k]} \cup {i.count : i \in {j \in lost : j.key = k}} = {newest[k], newest[k]}
            BY <1>6, <2>3
        <3>2. Max({newest[k], newest[k]}) = newest[k]
            BY <1>3, MaxTwo
        <3> QED BY <2>1, <2>3, <3>1, <3>2
    <2> QED BY <2>2, <2>3
<1>12. newest' \in [Keys -> Nat]
    <2>1. \A k \in Keys : newest'[k] \in Nat
        BY <1>3, <1>7, <1>11
    <2>2. newest' = [k \in Keys |-> newest'[k]]
        BY <1>1
    <2> QED BY <2>1, <2>2
<1>13. stale \subseteq stale' /\ stale' \subseteq Keys /\ (x \in lost => x.key \in stale')
    BY <1>1, <1>6, <1>7 DEF TypeInv
<1>14. \A k \in Keys : /\ newest[k] <= newest'[k] /\ newest'[k] <= count[k]
                       /\ newest'[k] = newest[k] \/ k \in stale'
                       /\ watch.popup = None /\ readAt[k] = None => newest'[k] = newest[k]
    BY <1>3, <1>7, <1>8, <1>11, <1>13
<1>15. \A y \in lost : y.count <= newest'[y.key]
    <2>1. \A y \in lost : y = x
        BY <1>6
    <2> QED BY <1>3, <1>7, <1>11, <2>1
<1>16. /\ watch'.popup = IF watch.popup = None THEN None ELSE Received(watch.popup, item)
       /\ watch'.form = IF watch.form = None \/ "form" \notin receivers THEN None
                        ELSE Received(watch.form, item)
       /\ watch' = [popup |-> watch'.popup, form |-> watch'.form]
    BY <1>1, <1>2
<1>17. /\ watch.popup # None => watch'.popup \in Seq(SoundItems)
       /\ watch.form # None => Received(watch.form, item) \in Seq(SoundItems)
    <2>1. watch.popup # None => watch.popup \in Seq(SoundItems)
        BY <1>2
    <2>2. watch.form # None => watch.form \in Seq(SoundItems)
        BY <1>2
    <2> QED BY <1>16, <2>1, <2>2, ReceivedAt
<1>18. watch' \in [popup : Seq(SoundItems) \cup {None}, form : Seq(SoundItems) \cup {None}]
    BY <1>16, <1>17
<1>19. /\ watch'.popup = None <=> watch.popup = None
       /\ watch'.form # None => watch.form # None
    BY <1>2, <1>16, <1>17
<1>20. watch.popup = None /\ popup.state \in {"waiting", "ready"} /\ readAt[item.key] # None =>
          item.count <= readAt[item.key] \/ item.count <= newest'[item.key]
    BY <1>3, <1>9, <1>15
<1>21. ASSUME watch.popup # None
       PROVE  /\ \E j \in 1 .. Len(watch'.popup) : watch'.popup[j] = item
              /\ \A i \in 1 .. Len(watch.popup) :
                    \/ \E j \in 1 .. Len(watch'.popup) : watch'.popup[j] = watch.popup[i]
                    \/ watch.popup[i].count <= newest'[watch.popup[i].key]
    <2>1. watch.popup \in Seq(SoundItems) /\ watch'.popup = Received(watch.popup, item)
        BY <1>2, <1>16, <1>21
    <2>2. /\ \E j \in 1 .. Len(watch'.popup) : watch'.popup[j] = item
          /\ \A i \in 1 .. Len(watch.popup) :
                 \/ \E j \in 1 .. Len(watch'.popup) : watch'.popup[j] = watch.popup[i]
                 \/ i = 1 /\ ~(Len(watch.popup) < WatchCap)
        <3> DEFINE new == Received(watch.popup, item)
        <3>1. \E j \in 1 .. Len(new) : new[j] = item
            <4>1. watch.popup \in Seq(SoundItems) /\ item \in SoundItems
                BY <2>1
            <4> QED BY <4>1, ReceivedLast
        <3>2. \A i \in 1 .. Len(watch.popup) :
                 \/ \E j \in 1 .. Len(new) : new[j] = watch.popup[i]
                 \/ i = 1 /\ ~(Len(watch.popup) < WatchCap)
            <4>1. watch.popup \in Seq(SoundItems) /\ item \in SoundItems
                BY <2>1
            <4> QED BY <4>1, ReceivedKept
        <3> HIDE DEF new
        <3>3. watch'.popup = new
            BY <2>1 DEF new
        <3> QED BY <3>1, <3>2, <3>3
    <2>3. ASSUME ~(Len(watch.popup) < WatchCap)
          PROVE  watch.popup[1].count <= newest'[watch.popup[1].key]
        <3>1. CASE watch.popup[1] \in lost
            BY <1>15, <3>1
        <3>2. CASE watch.popup[1] \notin lost
            <4>1. watch.popup[1] \in SoundItems
                BY <1>4, <1>21, <2>3
            <4>2. watch.popup[1].key \in Keys /\ watch.popup[1].count \in Nat
                BY <4>1, ItemIs
            <4>3. ~(watch.popup[1].count > newest[watch.popup[1].key])
                BY <1>10, <1>21, <2>3, <3>2
            <4>4. newest'[watch.popup[1].key] \in Nat
                BY <1>12, <4>2
            <4> DEFINE a == watch.popup[1].count
                       b == newest[watch.popup[1].key]
                       c == newest'[watch.popup[1].key]
            <4>5. a \in Nat /\ b \in Nat /\ c \in Nat /\ b <= c /\ ~(a > b)
                BY <1>3, <1>14, <4>2, <4>3, <4>4
            <4> HIDE DEF a, b, c
            <4>6. a <= c
                BY <4>5
            <4> QED BY <4>6 DEF a, c
        <3> QED BY <3>1, <3>2
    <2> QED BY <2>2, <2>3
<1> QED BY <1>12, <1>13, <1>14, <1>18, <1>19, <1>20, <1>21

\* The copy, if what it is given less is counted as stale.
LEMMA CopyTold ==
    ASSUME CopyInv, Grows, copy' = copy, popup'.state = popup.state, stale \subseteq stale',
           \A k \in Keys : newest'[k] = newest[k] \/ k \in stale'
    PROVE  CopyInv'
<1>1. Keys' = Keys /\ Known' = Known /\ Lists' = Lists
    BY KindStays DEF Grows
<1>2. ASSUME NEW k, NEW v PROVE Shows(copy, k, v)' = Shows(copy, k, v)
    BY DEF Shows
<1>3. BothMethods(copy)' = BothMethods(copy)
    BY DEF BothMethods
<1>4. \A k \in Keys \ stale' : k \in Keys \ stale /\ newest'[k] = newest[k]
    OBVIOUS
<1> QED BY <1>1, <1>2, <1>3, <1>4 DEF CopyInv, Grows, Sound

\* A step that sends an item into the watch.
LEMMA PublishStep ==
    ASSUME Inv, UNCHANGED <<kind, truth, server, count, readAt, raced, had, stream>>,
           UNCHANGED <<popup, copy>>,
           NEW item \in SoundItems, NEW receivers, "popup" \in receivers, Publish(item, receivers),
           channel' = channel \/ (channel # <<>> /\ item = Head(channel) /\ channel' = Tail(channel))
    PROVE  /\ Grows /\ Keys' = Keys
           /\ watch'.form # None => watch.form # None
           /\ newest' \in [Keys -> Nat] /\ stale' \in SUBSET Keys
           /\ ServerInv' /\ FlowInv' /\ PopupInv' /\ ReachInv' /\ CopyInv'
<1>1. Grows /\ SoundEvents' = SoundEvents /\ SoundItems' = SoundItems /\ ServerInv' /\ Keys' = Keys
    BY QuietStays, KindStays DEF Inv, SameJobs
<1>2. /\ watch' \in [popup : Seq(SoundItems) \cup {None}, form : Seq(SoundItems) \cup {None}]
      /\ watch'.popup = None <=> watch.popup = None
      /\ watch'.form # None => watch.form # None
      /\ stale \subseteq stale' /\ stale' \subseteq Keys
      /\ newest' \in [Keys -> Nat]
      /\ \A k \in Keys : /\ newest[k] <= newest'[k] /\ newest'[k] <= count[k]
                         /\ newest'[k] = newest[k] \/ k \in stale'
                         /\ watch.popup = None /\ readAt[k] = None => newest'[k] = newest[k]
      /\ watch.popup = None /\ popup.state \in {"waiting", "ready"} /\ readAt[item.key] # None =>
            item.count <= readAt[item.key] \/ item.count <= newest'[item.key]
    BY Published DEF Inv
<1>3. watch.popup # None => /\ \E j \in 1 .. Len(watch'.popup) : watch'.popup[j] = item
                            /\ \A i \in 1 .. Len(watch.popup) :
                                  \/ \E j \in 1 .. Len(watch'.popup) : watch'.popup[j] = watch.popup[i]
                                  \/ watch.popup[i].count <= newest'[watch.popup[i].key]
    BY Published DEF Inv
<1>4. /\ stream \in Seq(SoundEvents) /\ channel \in Seq(SoundEvents) /\ channel' \in Seq(SoundEvents)
      /\ \A i \in 1 .. Len(channel) :
            \/ \E j \in 1 .. Len(channel') : channel'[j] = channel[i]
            \/ channel[i] = item
    <2>1. stream \in Seq(SoundEvents) /\ channel \in Seq(SoundEvents)
        BY DEF Inv, FlowInv
    <2>2. CASE channel' = channel
        BY <2>1, <2>2
    <2>3. CASE channel # <<>> /\ item = Head(channel) /\ channel' = Tail(channel)
        <3>1. channel' \in Seq(SoundEvents) /\ Len(channel') = Len(channel) - 1
              /\ \A j \in 1 .. (Len(channel) - 1) : channel'[j] = channel[j + 1]
            BY <2>1, <2>3
        <3>2. item = channel[1]
            BY <2>1, <2>3
        <3> DEFINE n == Len(channel)
        <3>3. n \in Nat
            BY <2>1
        <3> HIDE DEF n
        <3>4. \A i \in 1 .. n : i = 1 \/ (i - 1 \in 1 .. (n - 1) /\ (i - 1) + 1 = i)
            BY <3>3
        <3> QED BY <2>1, <3>1, <3>2, <3>4 DEF n
    <2> QED BY <2>1, <2>2, <2>3
<1>5. FlowInv'
    BY <1>1, <1>2, <1>4 DEF FlowInv
<1>6. PopupInv'
    BY <1>2 DEF Inv, PopupInv
<1>7. \A k \in Keys : /\ newest[k] \in Nat /\ newest'[k] \in Nat /\ count[k] \in Nat
                      /\ newest[k] <= count[k]
                      /\ readAt[k] # None => readAt[k] \in Nat /\ readAt[k] <= count[k]
    BY <1>2 DEF Inv, TypeInv, ReachInv
<1>8. ASSUME NEW k \in Keys, k \in Coming, k \notin Coming'
      PROVE  \/ item.key = k /\ item.count = count[k]
             \/ /\ watch.popup # None
                /\ \E i \in 1 .. Len(watch.popup) : watch.popup[i].key = k /\ watch.popup[i].count = count[k]
    <2> SUFFICES ASSUME NEW i \in 1 .. Len(channel), channel[i].key = k, channel[i].count = count[k]
                 PROVE  item.key = k /\ item.count = count[k]
        BY <1>1, <1>8 DEF Coming
    <2>1. ~ \E j \in 1 .. Len(channel') : channel'[j] = channel[i]
        BY <1>1, <1>8 DEF Coming
    <2> QED BY <1>4, <2>1
<1>9. ASSUME NEW k \in Keys, watch.popup # None, newest[k] = count[k] \/ k \in Coming
      PROVE  newest'[k] = count[k] \/ k \in Coming'
    <2>1. CASE newest[k] = count[k]
        BY <1>2, <1>7, <2>1
    <2>2. CASE k \in Coming /\ k \notin Coming'
        <3>1. watch'.popup # None
            BY <1>2, <1>9
        <3>2. item.key # k \/ item.count # count[k]
            BY <1>1, <1>3, <1>9, <2>2, <3>1 DEF Coming
        <3>3. PICK i \in 1 .. Len(watch.popup) : watch.popup[i].key = k /\ watch.popup[i].count = count[k]
            BY <1>8, <2>2, <3>2
        <3>4. ~ \E j \in 1 .. Len(watch'.popup) : watch'.popup[j] = watch.popup[i]
            BY <1>1, <2>2, <3>1, <3>3 DEF Coming
        <3>5. count[k] <= newest'[k]
            BY <1>3, <1>9, <3>3, <3>4
        <3> QED BY <1>2, <1>7, <3>5
    <2> QED BY <1>9, <2>1, <2>2
<1>10. ASSUME NEW k \in Keys, Loading
       PROVE  /\ readAt[k] = None => newest'[k] = 0
              /\ readAt[k] # None => (newest'[k] <= readAt[k] \/ k \in stale')
              /\ readAt[k] # None => newest'[k] = count[k] \/ readAt[k] = count[k] \/ k \in Coming'
    <2>1. watch.popup = None /\ popup.state \in {"waiting", "ready"}
        BY <1>10 DEF Loading, Inv, PopupInv
    <2>2. readAt[k] = None => newest'[k] = 0
        BY <1>2, <1>10, <2>1 DEF Inv, ReachInv
    <2>3. readAt[k] # None => (newest'[k] <= readAt[k] \/ k \in stale')
        BY <1>2, <1>10 DEF Inv, ReachInv
    <2>4. ASSUME readAt[k] # None, k \notin Coming'
          PROVE  newest'[k] = count[k] \/ readAt[k] = count[k]
        <3>1. newest[k] = count[k] \/ readAt[k] = count[k] \/ k \in Coming
            BY <1>10, <2>4 DEF Inv, ReachInv
        <3>2. CASE newest[k] = count[k]
            BY <1>2, <1>7, <3>2
        <3>3. CASE k \in Coming
            <4>1. item.key = k /\ item.count = count[k]
                BY <1>8, <2>1, <2>4, <3>3
            <4>2. count[k] <= readAt[k] \/ count[k] <= newest'[k]
                BY <1>2, <2>1, <2>4, <4>1
            <4> QED BY <1>2, <1>7, <2>4, <4>2
        <3> QED BY <3>1, <3>2, <3>3
    <2> QED BY <2>2, <2>3, <2>4
<1>11. ReachInv'
    <2>1. \A k \in Keys : popup.state = "live" \/ kind = "buffer" => newest'[k] = count[k] \/ k \in Coming'
        BY <1>9 DEF Inv, ReachInv, PopupInv
    <2>2. Loading' = Loading
        BY DEF Loading
    <2> QED BY <1>1, <1>2, <1>7, <1>10, <2>1, <2>2 DEF ReachInv
<1>12. CopyInv'
    BY <1>1, <1>2, CopyTold DEF Inv
<1> QED BY <1>1, <1>2, <1>5, <1>6, <1>11, <1>12

\* An event comes to the watch.
LEMMA ForwardKeeps == ASSUME Inv, Forward PROVE Inv'
<1>1. /\ UNCHANGED <<kind, serverVars>> /\ UNCHANGED <<alive, popup, copy, form, view>>
      /\ channel # <<>> /\ Publish(Head(channel), {"popup", "form"}) /\ channel' = Tail(channel)
    BY DEF Forward
<1>2. UNCHANGED <<kind, truth, server, requests, stream, answers, count, readAt, raced, had>>
    BY <1>1, ClientStep
<1>3. Head(channel) \in SoundItems
    <2>1. channel \in Seq(SoundEvents)
        BY DEF Inv, FlowInv
    <2>2. Head(channel) \in SoundEvents
        BY <1>1, <2>1
    <2> QED BY <2>2 DEF SoundItems
<1>4. /\ Grows /\ Keys' = Keys /\ (watch'.form # None => watch.form # None)
      /\ newest' \in [Keys -> Nat] /\ stale' \in SUBSET Keys
      /\ ServerInv' /\ FlowInv' /\ PopupInv' /\ ReachInv' /\ CopyInv'
    <2>1. "popup" \in {"popup", "form"}
        OBVIOUS
    <2> QED BY <1>1, <1>2, <1>3, <2>1, PublishStep
<1>5. TypeInv'
    BY <1>1, <1>2, <1>4, KindStays DEF Inv, TypeInv
<1>6. ListsInv'
    BY <1>1, <1>2, <1>4, ListsStays DEF Inv
<1>7. FormInv'
    BY <1>1, <1>2, <1>4, FormStays DEF Inv
<1>8. ViewInv'
    BY <1>1, <1>4, ViewStays DEF Inv
<1> QED BY <1>4, <1>5, <1>6, <1>7, <1>8 DEF Inv

\* A change by its kind.
LEMMA ChangeIs ==
    ASSUME kind \in Kinds, NEW c \in Change
    PROVE  /\ c.key \in Keys
           /\ c.op = "update" => kind = "users" /\ c.value \in Roles \cup {None}
           /\ c.op # "update" => c.value \in Known
           /\ c.op \in {"add", "set"} => c.value \in ValuesOf(kind)
<1>1. PICK k \in Keys : c \in Changes(k)
    BY DEF Change
<1>2. kind \in {"users", "sockets", "methods", "buffer"}
    BY ListPopupsAssumption
<1>3. CASE kind = "users"
    BY <1>1, <1>3 DEF Changes, Known, ValuesOf
<1>4. CASE kind = "sockets"
    BY <1>1, <1>4 DEF Changes, Known, ValuesOf
<1>5. CASE kind \in {"methods", "buffer"}
    BY <1>1, <1>5 DEF Changes, Known
<1> QED BY <1>2, <1>3, <1>4, <1>5

\* What a form tells the watch is sound, or a guess.
LEMMA ToldSound ==
    ASSUME Inv, form.state = "ready", form.ok
    PROVE  Told \in SoundItems
<1> DEFINE c == form.change
           v == IF Updating /\ c.value = None THEN form.role ELSE c.value
<1>1. /\ c \in Change /\ Made(c, form.value, form.count) /\ kind \in Kinds
      /\ c.op = "update" => form.role # None /\ [key |-> c.key, value |-> form.role] \in had
      /\ form \in Forms
    BY DEF Inv, FormInv, TypeInv
<1>2. Updating <=> c.op = "update"
    BY DEF Updating
<1>3. Sound(c.key, form.value, form.count)
    BY <1>1 DEF Made
<1>4. /\ c.key \in Keys /\ form.value \in Known /\ form.count \in Nat /\ form.count <= count[c.key]
      /\ [key |-> c.key, value |-> form.value] \in had
    BY <1>3 DEF Sound, SoundEvents, Event
<1>5. v \in Known /\ [key |-> c.key, value |-> v] \in had
    <2>1. CASE Updating /\ c.value = None
        <3>1. kind = "users" /\ form.role \in Roles
            BY <1>1, <1>2, <2>1, ChangeIs DEF Forms
        <3> QED BY <1>1, <1>2, <2>1, <3>1 DEF Known, ValuesOf
    <2>2. CASE ~(Updating /\ c.value = None)
        <3>1. v = form.value
            BY <1>1, <1>2, <2>2 DEF Made
        <3> QED BY <1>4, <3>1
    <2> QED BY <2>1, <2>2
<1>6. Told = [key |-> c.key, value |-> v, count |-> form.count, guess |-> v # form.value]
    BY DEF Told
<1> HIDE DEF c, v
<1>7. Told \in [key : Keys, value : Known, count : Nat, guess : BOOLEAN]
    BY <1>4, <1>5, <1>6
<1>8. "guess" \in DOMAIN Told /\ \A x \in Event : "guess" \notin DOMAIN x
    BY <1>6 DEF Event
<1>9. Told.key = c.key /\ Told.value = v /\ Told.count = form.count /\ Told.guess = (v # form.value)
    BY <1>6
<1>10. Told.guess \/ Sound(Told.key, Told.value, Told.count)
    BY <1>3, <1>9
<1>11. Told \in Item \ Event
    BY <1>7, <1>8 DEF Item
<1> QED BY <1>4, <1>5, <1>9, <1>10, <1>11 DEF SoundItems

\* A form that is closed.
LEMMA ClosedForm ==
    ASSUME form \in Forms
    PROVE  Closed \in Forms /\ Closed.state = "none"
    BY DEF Closed, NoForm, Forms, FormStates

\* A step of the user, or of a form.
LEMMA FormStep ==
    ASSUME Inv, UNCHANGED <<kind, serverVars>>, UNCHANGED <<alive, channel, popup, copy>>,
           UNCHANGED <<newest, stale>>, watch'.popup = watch.popup,
           watch' \in [popup : Seq(SoundItems') \cup {None}, form : Seq(SoundItems') \cup {None}],
           form' \in Forms, FormInv',
           view' \in Views, view'.shown = view.shown, view'.selected = view.selected
    PROVE  Inv'
<1>1. /\ UNCHANGED <<kind, truth, server, requests, stream, answers, count, readAt, raced, had>>
      /\ Grows /\ ServerInv'
      /\ stream' \in Seq(SoundEvents') /\ channel \in Seq(SoundEvents')
    BY ClientStep
<1>2. TypeInv'
    BY <1>1, KindStays DEF Inv, TypeInv
<1>3. FlowInv'
    BY <1>1 DEF FlowInv
<1>4. ListsInv'
    BY <1>1, ListsStays DEF Inv
<1>5. PopupInv'
    BY <1>1 DEF Inv, PopupInv
<1>6. ReachInv'
    BY <1>1, ComingStays, ReachStays DEF Inv
<1>7. CopyInv'
    BY <1>1, CopyStays DEF Inv
<1>8. ViewInv'
    BY <1>1, ViewStays DEF Inv
<1> QED BY <1>1, <1>2, <1>3, <1>4, <1>5, <1>6, <1>7, <1>8 DEF Inv

\* A form without a request.
LEMMA FormRests ==
    ASSUME FormInv, Grows, UNCHANGED <<requests, answers, alive>>, server'["mine"] = server["mine"],
           alive => form.state # "waiting", form'.state # "ready",
           form'.state # "none" => popup'.state = "live" /\ form'.change \in Change,
           form'.state # "none" /\ form'.change.op = "update" =>
              form'.role # None /\ [key |-> form'.change.key, value |-> form'.role] \in had',
           watch'.form # None => form'.state # "none" /\ form'.change.op = "update",
           kind = "methods" => form'.state # "open"
    PROVE  FormInv'
<1>1. alive => SetRequests = {} /\ DoneAnswers = {} /\ ~Ours
    BY DEF FormInv
<1>2. SetRequests' = SetRequests /\ DoneAnswers' = DoneAnswers /\ Ours' = Ours
    BY DEF SetRequests, DoneAnswers, Ours
<1>3. Change' = Change /\ kind' = kind
    BY KindStays DEF Grows
<1> QED BY <1>1, <1>2, <1>3 DEF FormInv

\* A request that was refused, or lost, leaves the form to be used again.
LEMMA FormReopens ==
    ASSUME Inv, UNCHANGED <<kind, serverVars>>, UNCHANGED <<alive, channel, popup, copy>>,
           UNCHANGED <<watch, newest, stale>>, form.state # "none", alive => form.state # "waiting",
           form' = IF kind = "methods" THEN Closed ELSE [form EXCEPT !.state = "open"],
           view' \in Views, view'.shown = view.shown, view'.selected = view.selected
    PROVE  Inv'
<1>1. /\ UNCHANGED <<kind, truth, server, requests, stream, answers, count, readAt, raced, had>>
      /\ Grows /\ ServerInv'
      /\ stream' \in Seq(SoundEvents') /\ channel \in Seq(SoundEvents')
      /\ watch \in [popup : Seq(SoundItems') \cup {None}, form : Seq(SoundItems') \cup {None}]
    BY ClientStep
<1>2. /\ form \in Forms /\ form.change \in Change /\ popup.state = "live" /\ kind \in Kinds
      /\ form.change.op = "update" =>
            form.role # None /\ [key |-> form.change.key, value |-> form.role] \in had
      /\ watch.form # None => form.change.op = "update"
    BY DEF Inv, TypeInv, FormInv
<1>3. CASE kind = "methods"
    <2>1. form' \in Forms /\ form'.state = "none"
        BY <1>2, <1>3, ClosedForm
    <2>2. watch.form = None
        BY <1>2, <1>3, ChangeIs
    <2>3. FormInv'
        BY <1>1, <2>1, <2>2, FormRests DEF Inv
    <2> QED BY <1>1, <2>1, <2>3, FormStep
<1>4. CASE kind # "methods"
    <2>1. /\ form' \in Forms /\ form'.state = "open" /\ form'.change = form.change
          /\ form'.role = form.role
        BY <1>2, <1>4 DEF Forms, FormStates
    <2>2. FormInv'
        BY <1>1, <1>2, <1>4, <2>1, FormRests DEF Inv, Grows
    <2> QED BY <1>1, <2>1, <2>2, FormStep
<1> QED BY <1>3, <1>4

\* A form that was answered tells the watch what it changed, or what it takes the user's
\* role to be.
LEMMA FormAnsweredKeeps == ASSUME Inv, FormAnswered PROVE Inv'
<1>1. /\ UNCHANGED <<kind, serverVars>> /\ UNCHANGED <<alive, channel, popup, copy>>
      /\ form.state = "ready" /\ view' = [view EXCEPT !.dirty = @ \/ kind = "methods"]
    BY DEF FormAnswered
<1>2. /\ UNCHANGED <<kind, truth, server, requests, stream, answers, count, readAt, raced, had>>
      /\ Grows /\ SoundEvents' = SoundEvents /\ SoundItems' = SoundItems /\ ServerInv'
      /\ stream' \in Seq(SoundEvents') /\ channel \in Seq(SoundEvents')
      /\ watch \in [popup : Seq(SoundItems') \cup {None}, form : Seq(SoundItems') \cup {None}]
    BY <1>1, ClientStep
<1>3. /\ view' \in Views /\ view'.shown = view.shown /\ view'.selected = view.selected
    BY <1>1 DEF Inv, TypeInv, Views
<1>4. form.change \in Change /\ form.state # "none"
    BY <1>1 DEF Inv, FormInv
<1>5. CASE form.ok
    <2>1. Publish(Told, {"popup"}) /\ form' = Closed
        BY <1>5 DEF FormAnswered
    <2>2. Told \in SoundItems
        BY <1>1, <1>5, ToldSound
    <2>4. /\ Keys' = Keys /\ newest' \in [Keys -> Nat] /\ stale' \in SUBSET Keys
          /\ FlowInv' /\ PopupInv' /\ ReachInv' /\ CopyInv'
        <3>1. "popup" \in {"popup"}
            OBVIOUS
        <3> QED BY <1>1, <1>2, <2>1, <2>2, <3>1, PublishStep
    <2>5. watch'.form = None
        <3>1. DOMAIN watch = {"popup", "form"}
            BY DEF Inv, FlowInv
        <3> QED BY <2>1, <3>1 DEF Publish
    <2>6. form' \in Forms /\ form'.state = "none"
        BY <2>1, ClosedForm DEF Inv, TypeInv
    <2>7. TypeInv'
        BY <1>1, <1>2, <1>3, <2>4, <2>6, KindStays DEF Inv, TypeInv
    <2>8. ListsInv'
        BY <1>1, <1>2, ListsStays DEF Inv
    <2>9. FormInv'
        BY <1>1, <1>2, <2>5, <2>6, FormRests DEF Inv
    <2>10. ViewInv'
        BY <1>1, <1>2, <1>3, ViewStays DEF Inv
    <2> QED BY <1>2, <2>4, <2>7, <2>8, <2>9, <2>10 DEF Inv
<1>6. CASE ~form.ok
    <2>1. /\ UNCHANGED <<watch, newest, stale>>
          /\ form' = IF kind = "methods" THEN Closed ELSE [form EXCEPT !.state = "open"]
        BY <1>6 DEF FormAnswered, ghostVars
    <2>2. form.state # "waiting"
        BY <1>1
    <2> QED BY <1>1, <1>2, <1>3, <2>1, <2>2, FormReopens
<1> QED BY <1>5, <1>6

\* The request of a form will not be answered.
LEMMA FormFailsKeeps == ASSUME Inv, FormFails PROVE Inv'
<1>1. /\ UNCHANGED <<kind, serverVars>> /\ UNCHANGED <<alive, channel, popup, copy>>
      /\ UNCHANGED <<watch, newest, stale>> /\ view' = view
      /\ ~alive /\ form.state = "waiting"
      /\ form' = IF kind = "methods" THEN Closed ELSE [form EXCEPT !.state = "open"]
    BY DEF FormFails, ghostVars
<1>2. view' \in Views
    BY <1>1, KindStays DEF Inv, TypeInv
<1> QED BY <1>1, <1>2, FormReopens

\* The user closes a form.
LEMMA CloseFormKeeps == ASSUME Inv, CloseForm PROVE Inv'
<1>1. /\ UNCHANGED <<kind, serverVars>> /\ UNCHANGED <<alive, channel, popup, copy>>
      /\ UNCHANGED <<newest, stale>> /\ view' = view /\ form.state = "open" /\ form' = Closed
      /\ watch' = [watch EXCEPT !.form = None]
    BY DEF CloseForm, ghostVars
<1>2. /\ UNCHANGED <<requests, answers, server>> /\ Grows
      /\ watch \in [popup : Seq(SoundItems') \cup {None}, form : Seq(SoundItems') \cup {None}]
    BY <1>1, ClientStep
<1>3. /\ watch' \in [popup : Seq(SoundItems') \cup {None}, form : Seq(SoundItems') \cup {None}]
      /\ watch'.popup = watch.popup /\ watch'.form = None
    BY <1>1, <1>2
<1>4. form' \in Forms /\ form'.state = "none" /\ view' \in Views
    BY <1>1, ClosedForm, KindStays DEF Inv, TypeInv
<1>5. FormInv'
    BY <1>1, <1>2, <1>3, <1>4, FormRests DEF Inv
<1> QED BY <1>1, <1>3, <1>4, <1>5, FormStep

\* A user's form hears of a new role.
LEMMA FormFollowsKeeps == ASSUME Inv, FormFollows PROVE Inv'
<1> DEFINE item == Head(watch.form)
<1>1. /\ UNCHANGED <<kind, serverVars>> /\ UNCHANGED <<alive, channel, popup, copy>>
      /\ UNCHANGED <<newest, stale>> /\ view' = view
      /\ watch.form # None /\ watch.form # <<>>
      /\ form' = IF item.key = form.change.key /\ item.value # None
                 THEN [form EXCEPT !.role = item.value] ELSE form
      /\ watch' = [watch EXCEPT !.form = Tail(@)]
    BY DEF FormFollows, ghostVars
<1>2. /\ UNCHANGED <<requests, answers, server, had, count>> /\ Grows /\ SoundItems' = SoundItems
    BY <1>1, ClientStep
<1>3. /\ watch \in [popup : Seq(SoundItems) \cup {None}, form : Seq(SoundItems) \cup {None}]
      /\ watch.form \in Seq(SoundItems)
    BY <1>1 DEF Inv, FlowInv
<1>4. item \in SoundItems /\ Tail(watch.form) \in Seq(SoundItems)
    BY <1>1, <1>3
<1>5. item.value \in Known /\ [key |-> item.key, value |-> item.value] \in had
    BY <1>4, ItemIs
<1> HIDE DEF item
<1>6. /\ watch' \in [popup : Seq(SoundItems') \cup {None}, form : Seq(SoundItems') \cup {None}]
      /\ watch'.popup = watch.popup
    <2> DEFINE rest == Tail(watch.form)
    <2>1. rest \in Seq(SoundItems) /\ watch' = [watch EXCEPT !.form = rest]
        BY <1>1, <1>4
    <2> HIDE DEF rest
    <2> QED BY <1>2, <1>3, <2>1
<1>7. /\ form.state # "none" /\ form.change.op = "update" /\ form.change \in Change /\ kind = "users"
      /\ form \in Forms /\ form.role # None /\ [key |-> form.change.key, value |-> form.role] \in had
      /\ popup.state = "live"
    <2>1. /\ form.state # "none" /\ form.change.op = "update" /\ form \in Forms /\ kind \in Kinds
        BY <1>1 DEF Inv, FormInv, TypeInv
    <2>2. /\ form.change \in Change /\ form.role # None /\ popup.state = "live"
          /\ [key |-> form.change.key, value |-> form.role] \in had
        BY <2>1 DEF Inv, FormInv
    <2> QED BY <2>1, <2>2, ChangeIs
<1>8. /\ form' \in Forms /\ form'.state = form.state /\ form'.id = form.id /\ form'.change = form.change
      /\ form'.ok = form.ok /\ form'.count = form.count /\ form'.value = form.value
      /\ form'.role # None /\ [key |-> form.change.key, value |-> form'.role] \in had
    <2>1. CASE item.key = form.change.key /\ item.value # None
        <3>1. item.value \in Roles
            BY <1>5, <1>7, <2>1 DEF Known, ValuesOf
        <3>2. form' = [form EXCEPT !.role = item.value]
            BY <1>1, <2>1
        <3> QED BY <1>5, <1>7, <2>1, <3>1, <3>2 DEF Forms
    <2>2. CASE ~(item.key = form.change.key /\ item.value # None)
        BY <1>1, <1>7, <2>2
    <2> QED BY <2>1, <2>2
<1>9. FormInv'
    <2>1. SetRequests' = SetRequests /\ DoneAnswers' = DoneAnswers /\ Ours' = Ours
        BY <1>2 DEF SetRequests, DoneAnswers, Ours
    <2>2. ASSUME NEW c, NEW v, NEW n, Made(c, v, n) PROVE Made(c, v, n)'
        BY <1>2, <2>2 DEF Made, Sound, Grows
    <2>3. Change' = Change /\ kind' = kind
        BY <1>1, KindStays
    <2>4. \A c, v, n : Made(c, v, n) => Made(c, v, n)'
        BY <2>2
    <2>5. kind # "methods" /\ form.state # "none" /\ form.change.op = "update"
        BY <1>7
    <2>6. /\ form'.state = "ready" /\ form'.ok => Made(form.change, form.value, form.count)
          /\ alive => /\ \A i \in SetRequests : /\ form.state = "waiting" /\ requests[i].id = form.id
                                                /\ requests[i].change = form.change
                      /\ Ours => /\ form.state = "waiting" /\ server["mine"].id = form.id
                                 /\ server["mine"].key = form.change.key
                                 /\ Made(form.change, server["mine"].value, server["mine"].count)
                      /\ \A i \in DoneAnswers :
                            /\ form.state = "waiting" /\ answers[i].id = form.id
                            /\ answers[i].ok => Made(form.change, answers[i].value, answers[i].count)
                      /\ \A i, j \in SetRequests : i = j
                      /\ \A i, j \in DoneAnswers : i = j
                      /\ Ours => SetRequests = {}
                      /\ DoneAnswers # {} => SetRequests = {} /\ ~Ours
        BY <1>8 DEF Inv, FormInv
    <2> QED BY <1>1, <1>2, <1>7, <1>8, <2>1, <2>2, <2>3, <2>5, <2>6 DEF FormInv
<1>10. view' \in Views
    BY <1>1, KindStays DEF Inv, TypeInv
<1> QED BY <1>1, <1>6, <1>8, <1>9, <1>10, FormStep

\* The changes that a form may make of its own.
LEMMA ChangeWith ==
    ASSUME kind \in Kinds, NEW c \in Change
    PROVE  /\ [c EXCEPT !.value = c.value] = c
           /\ c.op = "update" => \A v \in Roles : /\ [c EXCEPT !.value = v] \in Change
                                                  /\ [c EXCEPT !.value = v].op = "update"
                                                  /\ [c EXCEPT !.value = v].key = c.key
           /\ c.op = "update" => [c EXCEPT !.op = "delete", !.value = None] \in Change
<1>1. PICK k \in Keys : c \in Changes(k)
    BY DEF Change
<1>2. kind \in {"users", "sockets", "methods", "buffer"}
    BY ListPopupsAssumption
<1>3. [c EXCEPT !.value = c.value] = c
    <2>1. CASE kind = "users"
        BY <1>1, <2>1 DEF Changes
    <2>2. CASE kind = "sockets"
        BY <1>1, <2>2 DEF Changes
    <2>3. CASE kind \in {"methods", "buffer"}
        BY <1>1, <2>3 DEF Changes
    <2> QED BY <1>2, <2>1, <2>2, <2>3
<1>4. ASSUME c.op = "update"
      PROVE  /\ \A v \in Roles : /\ [c EXCEPT !.value = v] \in Changes(k)
                                 /\ [c EXCEPT !.value = v].op = "update"
                                 /\ [c EXCEPT !.value = v].key = c.key
             /\ [c EXCEPT !.op = "delete", !.value = None] \in Changes(k)
    <2>1. kind = "users"
        BY <1>4, ChangeIs
    <2> QED BY <1>1, <1>4, <2>1 DEF Changes
<1> QED BY <1>3, <1>4 DEF Change

\* The form of an update becomes one of a deletion.
LEMMA TurnToDeleteKeeps == ASSUME Inv, TurnToDelete PROVE Inv'
<1> DEFINE c == [form.change EXCEPT !.op = "delete", !.value = None]
<1>1. /\ UNCHANGED <<kind, serverVars>> /\ UNCHANGED <<alive, channel, popup, copy>>
      /\ UNCHANGED <<newest, stale>> /\ view' = view
      /\ form.state = "open" /\ form.change.op = "update"
      /\ form' = Form(c, form.role) /\ watch' = [watch EXCEPT !.form = None]
    BY DEF TurnToDelete, ghostVars, Updating
<1>2. /\ UNCHANGED <<requests, answers, server>> /\ Grows
      /\ watch \in [popup : Seq(SoundItems') \cup {None}, form : Seq(SoundItems') \cup {None}]
    BY <1>1, ClientStep
<1>3. /\ watch' \in [popup : Seq(SoundItems') \cup {None}, form : Seq(SoundItems') \cup {None}]
      /\ watch'.popup = watch.popup /\ watch'.form = None
    BY <1>1, <1>2
<1>4. /\ form \in Forms /\ form.change \in Change /\ popup.state = "live" /\ kind \in Kinds
      /\ kind # "methods"
    BY <1>1 DEF Inv, TypeInv, FormInv
<1>5. c \in Change /\ c.op = "delete"
    <2>1. c \in Change
        BY <1>1, <1>4, ChangeWith
    <2>2. kind = "users"
        BY <1>1, <1>4, ChangeIs
    <2>3. PICK k \in Keys : form.change \in Changes(k)
        BY <1>4 DEF Change
    <2>4. c.op = "delete"
        BY <1>1, <2>2, <2>3 DEF Changes
    <2> QED BY <2>1, <2>4
<1> HIDE DEF c
<1>6. form' \in Forms /\ form'.state = "open" /\ form'.change = c /\ view' \in Views
    <2>1. form' \in Forms /\ form'.state = "open" /\ form'.change = c
        BY <1>1, <1>4, <1>5 DEF Form, NoForm, Forms, FormStates
    <2> QED BY <1>1, <2>1, KindStays DEF Inv, TypeInv
<1>7. FormInv'
    BY <1>1, <1>2, <1>3, <1>4, <1>5, <1>6, FormRests DEF Inv
<1> QED BY <1>1, <1>3, <1>6, <1>7, FormStep

\* A form opens on an item that is shown, or on what is to be added.
LEMMA OpenFormKeeps == ASSUME Inv, OpenForm PROVE Inv'
<1>1. /\ UNCHANGED <<kind, serverVars>> /\ UNCHANGED <<alive, channel, popup, copy>>
      /\ UNCHANGED <<newest, stale>> /\ view' = view
      /\ popup.state = "live" /\ form.state = "none" /\ kind # "methods"
    BY DEF OpenForm, ghostVars, Usable
<1>2. /\ UNCHANGED <<requests, answers, server, had>> /\ Grows
      /\ watch \in [popup : Seq(SoundItems') \cup {None}, form : Seq(SoundItems') \cup {None}]
    BY <1>1, ClientStep
<1>3. form \in Forms /\ watch.form = None /\ view' \in Views /\ kind \in Kinds
    BY <1>1, KindStays DEF Inv, TypeInv, FormInv
<1>4. view.selected # 0 => Selected \in Entry /\ Selected \in had
    <2>1. view.shown \in Seq(Entry) /\ view.selected \in Nat /\ view.selected <= Len(view.shown)
        BY DEF Inv, TypeInv, Views, ViewInv
    <2>2. view.selected # 0 => view.selected \in 1 .. Len(view.shown)
        BY <2>1
    <2> QED BY <2>1, <2>2 DEF Selected, Inv, ViewInv
<1>5. ASSUME NEW c \in Change, NEW r \in Roles \cup {None}, form' = Form(c, r),
             c.op = "update" => r # None /\ [key |-> c.key, value |-> r] \in had,
             watch'.popup = watch.popup, watch'.form # None => c.op = "update",
             watch' \in [popup : Seq(SoundItems') \cup {None}, form : Seq(SoundItems') \cup {None}]
      PROVE  Inv'
    <2>1. form' \in Forms /\ form'.state = "open" /\ form'.change = c /\ form'.role = r
        BY <1>3, <1>5 DEF Form, NoForm, Forms, FormStates
    <2>2. FormInv'
        BY <1>1, <1>2, <1>5, <2>1, FormRests DEF Inv, Grows
    <2> QED BY <1>1, <1>3, <1>5, <2>1, <2>2, FormStep
<1>6. CASE /\ kind = "users" /\ view.selected # 0
           /\ form' = Form([op |-> "update", key |-> Selected.key, value |-> None], Selected.value)
           /\ watch' = [watch EXCEPT !.form = <<>>]
    <2> DEFINE c == [op |-> "update", key |-> Selected.key, value |-> None]
    <2>1. Selected.key \in Keys /\ Selected.value \in Roles
          /\ [key |-> Selected.key, value |-> Selected.value] \in had
        BY <1>4, <1>6 DEF Entry, ValuesOf
    <2>2. c \in Changes(Selected.key)
        BY <1>6 DEF Changes
    <2>3. c \in Change
        BY <2>1, <2>2 DEF Change
    <2>4. Selected.value # None
        BY <2>1, ListPopupsAssumption
    <2>5. /\ watch'.popup = watch.popup
          /\ watch' \in [popup : Seq(SoundItems') \cup {None}, form : Seq(SoundItems') \cup {None}]
        BY <1>2, <1>6, <<>> \in Seq(SoundItems')
    <2> QED BY <1>5, <1>6, <2>1, <2>3, <2>4, <2>5
<1>7. CASE /\ kind = "sockets" /\ view.selected # 0
           /\ form' = Form([op |-> "delete", key |-> Selected.key, value |-> None], None)
           /\ UNCHANGED watch
    <2> DEFINE c == [op |-> "delete", key |-> Selected.key, value |-> None]
    <2>1. Selected.key \in Keys
        BY <1>4, <1>7 DEF Entry
    <2>2. c \in Changes(Selected.key)
        BY <1>7 DEF Changes
    <2>3. c \in Change
        BY <2>1, <2>2 DEF Change
    <2> QED BY <1>2, <1>3, <1>5, <1>7, <2>3
<1>8. CASE /\ \E k \in Keys : \E c \in Changes(k) : c.op \in {"add", "set"} /\ form' = Form(c, None)
           /\ UNCHANGED watch
    <2>1. PICK k \in Keys : \E c \in Changes(k) : c.op \in {"add", "set"} /\ form' = Form(c, None)
        BY <1>8
    <2>2. PICK c \in Changes(k) : c.op \in {"add", "set"} /\ form' = Form(c, None)
        BY <2>1
    <2>3. c \in Change
        BY DEF Change
    <2> QED BY <1>2, <1>3, <1>5, <1>8, <2>2, <2>3
<1> QED BY <1>6, <1>7, <1>8 DEF OpenForm

\* A request of a form.
LEMMA SubmittedKeeps ==
    ASSUME Inv, NEW c \in Change, Submitted(form, c), form.state \in {"none", "open"},
           popup.state = "live",
           c.op = "update" => form.role # None /\ [key |-> c.key, value |-> form.role] \in had,
           watch.form # None => c.op = "update"
    PROVE  Inv'
<1> DEFINE r == [type |-> "set", id |-> form.id + 1, change |-> c]
<1>1. /\ UNCHANGED <<kind, truth, server, stream, answers, alive, channel, popup, copy, watch>>
      /\ UNCHANGED <<view, others, count, readAt, newest, stale, raced, had>>
      /\ form' = [form EXCEPT !.state = "waiting", !.id = form.id + 1, !.change = c]
      /\ requests' = Append(requests, r)
    BY DEF Submitted, ghostVars
<1>2. Grows /\ SoundEvents' = SoundEvents /\ SoundItems' = SoundItems /\ ServerInv' /\ kind' = kind
    BY <1>1, QuietStays DEF Inv, SameJobs
<1>3. form \in Forms /\ kind \in Kinds /\ requests \in Seq(ListRequest \cup SetRequest)
    BY DEF Inv, TypeInv
<1>4. /\ form' \in Forms /\ form'.state = "waiting" /\ form'.id = form.id + 1 /\ form'.change = c
      /\ form'.role = form.role
    <2> DEFINE n == form.id + 1
    <2>1. n \in Nat
        BY <1>3 DEF Forms
    <2>2. form' = [form EXCEPT !.state = "waiting", !.id = n, !.change = c]
        BY <1>1
    <2> HIDE DEF n
    <2>3. form' \in Forms /\ form'.state = "waiting" /\ form'.id = n /\ form'.change = c
          /\ form'.role = form.role
        BY <1>3, <2>1, <2>2 DEF Forms, FormStates
    <2> QED BY <2>3 DEF n
<1>5. r \in SetRequest
    BY <1>3 DEF SetRequest, Forms
<1>6. /\ requests' \in Seq(ListRequest \cup SetRequest)
      /\ \A i \in 1 .. Len(requests') : \/ i \in 1 .. Len(requests) /\ requests'[i] = requests[i]
                                        \/ i = Len(requests) + 1 /\ requests'[i] = r
    BY <1>1, <1>3, <1>5, AppendAt
<1>7. r.type = "set" /\ r.id = form.id + 1 /\ r.change = c
    OBVIOUS
<1> HIDE DEF r
<1>8. TypeInv'
    BY <1>1, <1>4, <1>6, KindStays DEF Inv, TypeInv
<1>9. FlowInv'
    BY <1>1, <1>2, FlowStays DEF Inv, FlowInv
<1>10. ListsInv'
    <2>1. \A i \in 1 .. Len(requests') : requests'[i].type = "list" =>
              i + 0 \in 1 .. Len(requests) /\ requests'[i] = requests[i + 0]
        BY <1>6, <1>7
    <2>2. \A i \in 1 .. Len(answers') : answers'[i].type = "list" =>
              i + 0 \in 1 .. Len(answers) /\ answers'[i] = answers[i + 0]
        BY <1>1
    <2>3. 0 \in Nat /\ readAt' = readAt /\ popup' = popup /\ server' = server
        BY <1>1
    <2> QED BY <1>2, <2>1, <2>2, <2>3, ListsLess DEF Inv
<1>11. FormInv'
    <2>1. alive => SetRequests = {} /\ DoneAnswers = {} /\ ~Ours
        BY DEF Inv, FormInv
    <2>2. DoneAnswers' = DoneAnswers /\ Ours' = Ours /\ alive' = alive
        BY <1>1 DEF DoneAnswers, Ours
    <2>3. \A i \in SetRequests' : i \in SetRequests \/ (i = Len(requests) + 1 /\ requests'[i] = r)
        BY <1>6 DEF SetRequests
    <2>4. alive' => /\ \A i \in SetRequests' : requests'[i].id = form.id + 1 /\ requests'[i].change = c
                    /\ \A i, j \in SetRequests' : i = j
                    /\ DoneAnswers' = {} /\ ~Ours'
        BY <1>7, <2>1, <2>2, <2>3
    <2>5. Change' = Change /\ watch' = watch /\ popup' = popup /\ had' = had /\ kind' = kind
        BY <1>1, KindStays
    <2> QED BY <1>4, <2>4, <2>5 DEF FormInv
<1>12. PopupInv'
    BY <1>1 DEF Inv, PopupInv
<1>13. ReachInv'
    BY <1>1, ComingStays, ReachStays DEF Inv
<1>14. CopyInv'
    BY <1>1, <1>2, CopyStays DEF Inv
<1>15. ViewInv'
    BY <1>1, <1>2, ViewStays DEF Inv
<1> QED BY <1>2, <1>8, <1>9, <1>10, <1>11, <1>12, <1>13, <1>14, <1>15 DEF Inv

\* The request of a form that is open.
LEMMA SubmitKeeps == ASSUME Inv, Submit PROVE Inv'
<1>1. PICK v \in {form.change.value} \cup (IF Updating THEN Roles ELSE {}) :
         Submitted(form, [form.change EXCEPT !.value = v])
    BY DEF Submit
<1> DEFINE c == [form.change EXCEPT !.value = v]
<1>2. form.state = "open"
    BY DEF Submit
<1>3. /\ form.change \in Change /\ popup.state = "live" /\ kind \in Kinds
      /\ form.change.op = "update" =>
            form.role # None /\ [key |-> form.change.key, value |-> form.role] \in had
      /\ watch.form # None => form.change.op = "update"
    BY <1>2 DEF Inv, FormInv, TypeInv
<1>4. c \in Change /\ c.op = form.change.op /\ c.key = form.change.key
    <2>1. CASE v = form.change.value
        BY <1>3, <2>1, ChangeWith
    <2>2. CASE Updating /\ v \in Roles
        <3>1. form.change.op = "update"
            BY <2>2 DEF Updating
        <3> QED BY <1>3, <2>2, <3>1, ChangeWith
    <2> QED BY <1>1, <2>1, <2>2
<1> HIDE DEF c
<1>5. Submitted(form, c)
    BY <1>1 DEF c
<1> QED BY <1>2, <1>3, <1>4, <1>5, SubmittedKeeps

\* A method is turned on or off.
LEMMA ToggleKeeps == ASSUME Inv, Toggle PROVE Inv'
<1> DEFINE e == copy[view.selected]
           c == [op |-> "set", key |-> e.key, value |-> IF e.value = "on" THEN "off" ELSE "on"]
<1>1. /\ popup.state = "live" /\ form.state = "none" /\ kind = "methods" /\ view.selected # 0
      /\ Submitted(form, c)
    BY DEF Toggle, Usable
<1>2. view.selected \in 1 .. Len(copy) /\ copy \in Seq(Entry)
    <2>1. view.shown \in Seq(Entry) /\ view.selected \in Nat
        BY DEF Inv, TypeInv, Views
    <2>2. view.selected <= Len(view.shown) /\ Len(view.shown) <= 2
        BY <1>1 DEF Inv, ViewInv
    <2>3. copy \in Seq(Entry) /\ Len(copy) = 2
        BY <1>1 DEF Inv, CopyInv, Lists, BothMethods
    <2> DEFINE n == Len(view.shown)
    <2>4. n \in Nat /\ view.selected <= n /\ n <= 2
        BY <2>1, <2>2
    <2> HIDE DEF n
    <2>5. view.selected \in 1 .. 2
        BY <1>1, <2>1, <2>4
    <2> QED BY <2>3, <2>5
<1>3. e \in Entry
    BY <1>2
<1> HIDE DEF e
<1>4. c \in Changes(e.key) /\ e.key \in Keys
    BY <1>1, <1>3 DEF Entry, Changes, ValuesOf
<1>5. c \in Change /\ c.op = "set"
    BY <1>4 DEF Change
<1>6. watch.form = None
    BY <1>1 DEF Inv, FormInv
<1> HIDE DEF c
<1> QED BY <1>1, <1>5, <1>6, SubmittedKeeps

\* The popup is closed.
LEMMA ClosePopupKeeps == ASSUME Inv, ClosePopup PROVE Inv'
<1>1. /\ UNCHANGED <<kind, serverVars>> /\ UNCHANGED <<alive, channel, form, newest, stale>>
      /\ kind # "buffer" /\ form.state = "none"
      /\ popup' = [popup EXCEPT !.state = "closed", !.got = None]
      /\ watch' = [watch EXCEPT !.popup = None] /\ copy' = <<>> /\ view' = NoView
    BY DEF ClosePopup, ghostVars
<1>2. /\ UNCHANGED <<truth, server, requests, stream, answers, count, readAt, raced, had>>
      /\ Grows /\ ServerInv' /\ Keys' = Keys
      /\ stream' \in Seq(SoundEvents') /\ channel \in Seq(SoundEvents')
      /\ watch \in [popup : Seq(SoundItems') \cup {None}, form : Seq(SoundItems') \cup {None}]
    BY <1>1, ClientStep
<1>3. /\ popup' \in [state : PopupStates, id : Nat, got : [Keys -> Known] \cup {None}]
      /\ popup'.id = popup.id /\ popup'.state = "closed"
    BY <1>1 DEF Inv, TypeInv, PopupStates
<1>4. view' \in Views /\ view'.shown = <<>> /\ view'.selected = 0
    BY <1>1 DEF NoView, NoFilter, Views
<1>5. /\ watch' \in [popup : Seq(SoundItems') \cup {None}, form : Seq(SoundItems') \cup {None}]
      /\ watch'.popup = None /\ watch'.form = watch.form
    BY <1>1, <1>2
<1>6. TypeInv'
    BY <1>1, <1>2, <1>3, <1>4, KindStays DEF Inv, TypeInv
<1>7. FlowInv'
    BY <1>1, <1>2, <1>5 DEF FlowInv
<1>8. ListsInv'
    BY <1>1, <1>2, <1>3, ListsStays DEF Inv
<1>9. FormInv'
    BY <1>1, <1>2, <1>5, FormStays DEF Inv
<1>10. PopupInv'
    BY <1>1, <1>3, <1>5 DEF PopupInv
<1>11. ReachInv'
    BY <1>1, <1>2, <1>3 DEF Inv, ReachInv, Loading
<1>12. CopyInv'
    BY <1>1, <1>3 DEF CopyInv, Lists, InOrder
<1>13. ViewInv'
    BY <1>1, <1>4 DEF ViewInv, InOrder
<1> QED BY <1>2, <1>6, <1>7, <1>8, <1>9, <1>10, <1>11, <1>12, <1>13 DEF Inv

\* The popup is opened, and asks for its list.
LEMMA OpenPopupKeeps == ASSUME Inv, OpenPopup PROVE Inv'
<1> DEFINE r == [type |-> "list", id |-> popup.id + 1]
<1>1. /\ UNCHANGED <<kind, truth, server, stream, answers, alive, channel, watch, form, others>>
      /\ UNCHANGED <<count, raced, had>>
      /\ popup.state = "closed"
      /\ popup' = [state |-> "waiting", id |-> popup.id + 1, got |-> None]
      /\ requests' = Append(requests, r)
      /\ readAt' = [k \in Keys |-> None] /\ newest' = [k \in Keys |-> 0] /\ stale' = {}
      /\ copy' = <<>> /\ view' = NoView
    BY DEF OpenPopup
<1>2. Grows /\ SoundEvents' = SoundEvents /\ SoundItems' = SoundItems /\ ServerInv' /\ kind' = kind
      /\ Keys' = Keys /\ had' = had
    BY <1>1, QuietStays, KindStays DEF Inv, SameJobs
<1>3. /\ kind # "buffer" /\ form.state = "none" /\ watch.popup = None /\ popup.id \in Nat
      /\ requests \in Seq(ListRequest \cup SetRequest)
    BY <1>1 DEF Inv, PopupInv, FormInv, TypeInv
<1>4. /\ popup' \in [state : PopupStates, id : Nat, got : [Keys -> Known] \cup {None}]
      /\ popup'.id = popup.id + 1 /\ popup'.state = "waiting"
    BY <1>1, <1>3 DEF PopupStates
<1>5. view' \in Views /\ view'.shown = <<>> /\ view'.selected = 0
    BY <1>1 DEF NoView, NoFilter, Views
<1>6. r \in ListRequest /\ r.type = "list" /\ r.id = popup.id + 1
    BY <1>3 DEF ListRequest
<1> HIDE DEF r
<1>7. /\ requests' \in Seq(ListRequest \cup SetRequest)
      /\ \A i \in 1 .. Len(requests') : \/ i \in 1 .. Len(requests) /\ requests'[i] = requests[i]
                                        \/ i = Len(requests) + 1 /\ requests'[i] = r
    BY <1>1, <1>3, <1>6, AppendAt
<1>8. TypeInv'
    BY <1>1, <1>4, <1>5, <1>7, KindStays DEF Inv, TypeInv
<1>9. FlowInv'
    BY <1>1, <1>2, FlowStays DEF Inv, FlowInv
<1>10. ListsInv'
    <2>1. ASSUME NEW i \in 1 .. Len(requests'), requests'[i].type = "list"
          PROVE  /\ requests'[i].id \in 1 .. popup'.id
                 /\ requests'[i].id = popup'.id => i = Len(requests) + 1
        <3>1. CASE i \in 1 .. Len(requests) /\ requests'[i] = requests[i]
            <4>1. requests[i].id \in 1 .. popup.id
                BY <2>1, <3>1 DEF Inv, ListsInv
            <4> QED BY <1>3, <1>4, <3>1, <4>1
        <3>2. CASE i = Len(requests) + 1 /\ requests'[i] = r
            BY <1>3, <1>4, <1>6, <3>2
        <3> QED BY <1>7, <3>1, <3>2
    <2>2. \A i \in CurrentRequests' : i = Len(requests) + 1
        BY <2>1 DEF CurrentRequests
    <2>3. server["mine"].step = "read" => server["mine"].id \in 1 .. popup.id
        BY DEF Inv, ListsInv
    <2>4. ~Reading'
        BY <1>1, <1>3, <1>4, <2>3 DEF Reading
    <2>5. \A i \in 1 .. Len(answers) : answers[i].type = "list" => answers[i].id \in 1 .. popup.id
        BY DEF Inv, ListsInv
    <2>6. CurrentAnswers' = {}
        BY <1>1, <1>3, <1>4, <2>5 DEF CurrentAnswers
    <2>7. \A k \in Keys : readAt'[k] = None
        BY <1>1
    <2>8. server["mine"].step = "read" =>
             LET job == server["mine"]
             IN  /\ job.id \in 1 .. popup'.id /\ job.id # popup'.id
                 /\ \A k \in Keys \ job.left : job.got[k] \in Known /\ [key |-> k, value |-> job.got[k]] \in had
        BY <1>3, <1>4 DEF Inv, ListsInv
    <2>9. \A i \in 1 .. Len(answers) : answers[i].type = "list" =>
             /\ answers[i].id \in 1 .. popup'.id /\ answers[i].id # popup'.id
             /\ \A k \in Keys : [key |-> k, value |-> answers[i].got[k]] \in had
        BY <1>3, <1>4 DEF Inv, ListsInv
    <2>10. Known' = Known
        BY <1>2, KindStays
    <2> QED BY <1>1, <1>2, <1>4, <2>1, <2>2, <2>4, <2>6, <2>7, <2>8, <2>9, <2>10 DEF ListsInv
<1>11. FormInv'
    <2>1. \A i \in 1 .. Len(requests') : requests'[i].type = "set" =>
              i + 0 \in 1 .. Len(requests) /\ requests'[i] = requests[i + 0]
        BY <1>6, <1>7
    <2>2. \A i \in 1 .. Len(answers') : answers'[i].type = "done" =>
              i + 0 \in 1 .. Len(answers) /\ answers'[i] = answers[i + 0]
        BY <1>1
    <2>3. 0 \in Nat /\ UNCHANGED <<form, alive, server, watch>>
        BY <1>1
    <2> QED BY <1>2, <1>3, <2>1, <2>2, <2>3, FormLess DEF Inv
<1>12. PopupInv'
    BY <1>1, <1>3, <1>4 DEF PopupInv
<1>13. ReachInv'
    BY <1>1, <1>2, <1>3, <1>4, ListPopupsAssumption DEF Inv, TypeInv, ReachInv, Loading
<1>14. CopyInv'
    BY <1>1, <1>2, <1>3, <1>4 DEF CopyInv, Lists, InOrder
<1>15. ViewInv'
    BY <1>1, <1>2, <1>5 DEF ViewInv, InOrder
<1> QED BY <1>2, <1>8, <1>9, <1>10, <1>11, <1>12, <1>13, <1>14, <1>15 DEF Inv

\* An event is read into the channel.
LEMMA ReadEventKeeps == ASSUME Inv, ReadEvent PROVE Inv'
<1>1. /\ UNCHANGED <<kind, truth, server, requests, answers, alive, popup, copy, watch, form, view>>
      /\ UNCHANGED <<others, count, readAt, newest, stale, raced, had>>
      /\ stream # <<>> /\ channel' = Append(channel, Head(stream)) /\ stream' = Tail(stream)
    BY DEF ReadEvent, ghostVars
<1>2. /\ Grows /\ SoundEvents' = SoundEvents /\ SoundItems' = SoundItems /\ ServerInv'
      /\ Keys' = Keys
    BY <1>1, QuietStays, KindStays DEF Inv, SameJobs
<1>3. stream \in Seq(SoundEvents) /\ channel \in Seq(SoundEvents)
    BY DEF Inv, FlowInv
<1>4. /\ stream' \in Seq(SoundEvents) /\ channel' \in Seq(SoundEvents)
      /\ \A i \in 1 .. Len(channel) : \E j \in 1 .. Len(channel') : channel'[j] = channel[i]
      /\ \A i \in 1 .. Len(stream) : \/ \E j \in 1 .. Len(stream') : stream'[j] = stream[i]
                                     \/ \E j \in 1 .. Len(channel') : channel'[j] = stream[i]
    <2> DEFINE x == Head(stream)
               n == Len(stream)
               q == Len(channel)
    <2>1. x \in SoundEvents /\ x = stream[1] /\ n \in Nat /\ q \in Nat
        BY <1>1, <1>3
    <2>2. /\ stream' \in Seq(SoundEvents) /\ Len(stream') = n - 1
          /\ \A j \in 1 .. (n - 1) : stream'[j] = stream[j + 1]
        BY <1>1, <1>3
    <2> HIDE DEF x
    <2>3. /\ channel' \in Seq(SoundEvents) /\ Len(channel') = q + 1 /\ channel'[q + 1] = x
          /\ \A j \in 1 .. q : channel'[j] = channel[j]
        BY <1>1, <1>3, <2>1, AppendAt DEF x
    <2> HIDE DEF n, q
    <2>4. /\ \A i \in 1 .. n : i = 1 \/ (i - 1 \in 1 .. (n - 1) /\ (i - 1) + 1 = i)
          /\ q + 1 \in 1 .. (q + 1) /\ \A i \in 1 .. q : i \in 1 .. (q + 1)
        BY <2>1
    <2>5. \A i \in 1 .. q : \E j \in 1 .. (q + 1) : channel'[j] = channel[i]
        BY <2>3, <2>4
    <2>6. \A i \in 1 .. n : \/ \E j \in 1 .. (n - 1) : stream'[j] = stream[i]
                            \/ \E j \in 1 .. (q + 1) : channel'[j] = stream[i]
        BY <2>1, <2>2, <2>3, <2>4
    <2> QED BY <2>2, <2>3, <2>5, <2>6 DEF n, q
<1>5. TypeInv'
    BY <1>1, KindStays DEF Inv, TypeInv
<1>6. FlowInv'
    BY <1>1, <1>2, <1>4 DEF Inv, FlowInv
<1>7. ListsInv'
    BY <1>1, <1>2, ListsStays DEF Inv
<1>8. FormInv'
    BY <1>1, <1>2, FormStays DEF Inv
<1>9. PopupInv'
    BY <1>1 DEF Inv, PopupInv
<1>10. ReachInv'
    <2>1. ASSUME NEW k \in Coming PROVE k \in Coming'
        <3>1. CASE \E m \in Managers : server[m].step = "log" /\ server[m].key = k /\ server[m].count = count[k]
            BY <1>1, <1>2, <3>1 DEF Coming
        <3>2. CASE \E i \in 1 .. Len(stream) : stream[i].key = k /\ stream[i].count = count[k]
            <4>1. PICK i \in 1 .. Len(stream) : stream[i].key = k /\ stream[i].count = count[k]
                BY <3>2
            <4>2. CASE \E j \in 1 .. Len(stream') : stream'[j] = stream[i]
                BY <1>1, <1>2, <4>1, <4>2 DEF Coming
            <4>3. CASE \E j \in 1 .. Len(channel') : channel'[j] = stream[i]
                BY <1>1, <1>2, <4>1, <4>3 DEF Coming
            <4> QED BY <1>4, <4>2, <4>3
        <3>3. CASE \E i \in 1 .. Len(channel) : channel[i].key = k /\ channel[i].count = count[k]
            BY <1>1, <1>2, <1>4, <3>3 DEF Coming
        <3>4. CASE /\ watch.popup # None
                   /\ \E i \in 1 .. Len(watch.popup) : watch.popup[i].key = k /\ watch.popup[i].count = count[k]
            BY <1>1, <1>2, <3>4 DEF Coming
        <3> QED BY <3>1, <3>2, <3>3, <3>4 DEF Coming
    <2> QED BY <1>1, <2>1, ReachStays DEF Inv
<1>11. CopyInv'
    BY <1>1, <1>2, CopyStays DEF Inv
<1>12. ViewInv'
    BY <1>1, <1>2, ViewStays DEF Inv
<1> QED BY <1>2, <1>5, <1>6, <1>7, <1>8, <1>9, <1>10, <1>11, <1>12 DEF Inv

\* An answer comes to whom it is for, if that still waits; the buffer size goes into the
\* watch.
LEMMA ReadAnswerKeeps == ASSUME Inv, ReadAnswer PROVE Inv'
<1> DEFINE a == Head(answers)
           ours == IF a.type = "list" THEN popup.state = "waiting" /\ popup.id = a.id
                   ELSE form.state = "waiting" /\ form.id = a.id
<1>1. /\ UNCHANGED <<kind, truth, server, requests, stream, alive, channel, copy, view>>
      /\ UNCHANGED <<others, count, readAt, raced, had>>
      /\ alive /\ answers # <<>> /\ answers' = Tail(answers)
    BY DEF ReadAnswer
<1>2. Grows /\ SoundEvents' = SoundEvents /\ SoundItems' = SoundItems /\ ServerInv' /\ kind' = kind
    BY <1>1, QuietStays DEF Inv, SameJobs
<1>3. answers \in Seq(ListAnswer \cup DoneAnswer)
    BY DEF Inv, TypeInv
<1>4. /\ a \in ListAnswer \cup DoneAnswer /\ a = answers[1] /\ 1 \in 1 .. Len(answers)
      /\ answers' \in Seq(ListAnswer \cup DoneAnswer)
      /\ \A i \in 1 .. Len(answers') : i + 1 \in 1 .. Len(answers) /\ answers'[i] = answers[i + 1]
    BY <1>1, <1>3, TailAt
<1>5. /\ 0 \in Nat /\ 1 \in Nat
      /\ \A i \in 1 .. Len(requests') : i + 0 \in 1 .. Len(requests) /\ requests'[i] = requests[i + 0]
    BY <1>1
<1>6. CASE kind = "buffer" /\ a.type = "list"
    <2> DEFINE item == [key |-> "size", value |-> a.got["size"], count |-> readAt["size"]]
    <2>1. Publish(item, {"popup"}) /\ UNCHANGED <<popup, form>>
        BY <1>6 DEF ReadAnswer
    <2>2. "size" \in Keys /\ popup.id = 1
        BY <1>6 DEF Keys, KeysOf, Inv, PopupInv
    <2>3. a.id \in 1 .. popup.id /\ (a.id = popup.id => ReadSound(a.got, Keys))
        BY <1>4, <1>6 DEF Inv, ListsInv
    <2>4. ReadSound(a.got, Keys)
        BY <2>2, <2>3
    <2>5. item \in SoundItems
        BY <2>2, <2>4 DEF ReadSound, Sound, SoundItems
    <2> HIDE DEF item
    <2>6. /\ Keys' = Keys /\ (watch'.form # None => watch.form # None)
          /\ newest' \in [Keys -> Nat] /\ stale' \in SUBSET Keys
          /\ FlowInv' /\ PopupInv' /\ ReachInv' /\ CopyInv'
        <3>1. "popup" \in {"popup"}
            OBVIOUS
        <3> QED BY <1>1, <2>1, <2>5, <3>1, PublishStep
    <2>7. TypeInv'
        BY <1>1, <1>4, <2>1, <2>6, KindStays DEF Inv, TypeInv
    <2>8. ListsInv'
        BY <1>1, <1>2, <1>4, <1>5, <2>1, ListsLess DEF Inv
    <2>9. FormInv'
        <3>1. FormInv /\ UNCHANGED <<form, alive, popup, server>>
            BY <1>1, <2>1 DEF Inv
        <3>2. \A i \in 1 .. Len(answers') : answers'[i].type = "done" =>
                  i + 1 \in 1 .. Len(answers) /\ answers'[i] = answers[i + 1]
            BY <1>4
        <3> QED BY <1>2, <1>5, <2>6, <3>1, <3>2, FormLess
    <2>10. ViewInv'
        BY <1>1, <1>2, <2>1, ViewStays DEF Inv
    <2> QED BY <1>2, <2>6, <2>7, <2>8, <2>9, <2>10 DEF Inv
<1>7. CASE ~(kind = "buffer" /\ a.type = "list")
    <2>1. /\ popup' = IF ours /\ a.type = "list"
                      THEN [popup EXCEPT !.state = "ready", !.got = a.got] ELSE popup
          /\ form' = IF ours /\ a.type = "done"
                     THEN [form EXCEPT !.state = "ready", !.ok = a.ok, !.value = a.value,
                                       !.count = a.count] ELSE form
          /\ UNCHANGED <<watch, newest, stale>>
        BY <1>7 DEF ReadAnswer, ghostVars
    <2> HIDE DEF a
    <2>2. /\ a.type \in {"list", "done"}
          /\ a.type = "list" => a \in ListAnswer
          /\ a.type = "done" => a \in DoneAnswer
        BY <1>4 DEF ListAnswer, DoneAnswer
    <2>3. FlowInv'
        BY <1>1, <1>2, <2>1, FlowStays DEF Inv, FlowInv
    <2>4. popup \in [state : PopupStates, id : Nat, got : [Keys -> Known] \cup {None}] /\ form \in Forms
        BY DEF Inv, TypeInv
    <2>5. CASE ours /\ a.type = "list"
        <3>1. /\ popup' = [popup EXCEPT !.state = "ready", !.got = a.got] /\ form' = form
              /\ popup.state = "waiting" /\ popup.id = a.id /\ a \in ListAnswer /\ kind # "buffer"
            BY <1>7, <2>1, <2>2, <2>5
        <3>2. /\ popup'.state = "ready" /\ popup'.id = popup.id /\ popup'.got = a.got
              /\ popup' \in [state : PopupStates, id : Nat, got : [Keys -> Known] \cup {None}]
              /\ a.got \in [Keys -> Known]
            BY <2>4, <3>1 DEF ListAnswer, PopupStates
        <3>3. form.state = "none"
            BY <3>1 DEF Inv, FormInv
        <3>4. ReadSound(a.got, Keys) /\ CurrentAnswers # {}
            BY <1>4, <2>5, <3>1 DEF Inv, ListsInv, CurrentAnswers
        <3>5. TypeInv'
            BY <1>1, <1>4, <2>1, <3>1, <3>2, KindStays DEF Inv, TypeInv
        <3>6. ListsInv'
            <4>1. /\ ListsInv /\ readAt' = readAt /\ server' = server /\ popup'.id = popup.id
                  /\ CurrentAnswers # {} /\ popup'.got \in [Keys -> Known] /\ ReadSound(popup'.got, Keys)
                BY <1>1, <3>2, <3>4 DEF Inv
            <4> QED BY <1>2, <1>4, <1>5, <4>1, ListsLess
        <3>7. FormInv'
            <4>1. /\ FormInv /\ UNCHANGED <<form, alive>> /\ server' = server /\ watch' = watch
                BY <1>1, <2>1, <3>1 DEF Inv
            <4> QED BY <1>2, <1>4, <1>5, <3>3, <4>1, FormLess
        <3>8. PopupInv'
            BY <1>1, <2>1, <3>1, <3>2 DEF Inv, PopupInv
        <3>9. ReachInv'
            BY <1>1, <2>1, <3>1, <3>2, ComingStays, ReachStays DEF Inv
        <3>10. CopyInv'
            BY <1>1, <1>2, <2>1, <3>1, <3>2, CopyStays DEF Inv
        <3>11. ViewInv'
            BY <1>1, <1>2, <3>1, ViewStays DEF Inv
        <3> QED BY <1>2, <2>3, <3>5, <3>6, <3>7, <3>8, <3>9, <3>10, <3>11 DEF Inv
    <2>6. CASE ~(ours /\ a.type = "list")
        <3>1. popup' = popup
            BY <2>1, <2>6
        <3>2. form' \in Forms /\ FormInv'
            <4>1. CASE ours /\ a.type = "done"
                <5>1. /\ form' = [form EXCEPT !.state = "ready", !.ok = a.ok, !.value = a.value,
                                              !.count = a.count]
                      /\ form.state = "waiting" /\ form.id = a.id /\ a \in DoneAnswer
                    BY <2>1, <2>2, <4>1
                <5>2. /\ form' \in Forms /\ form'.state = "ready" /\ form'.ok = a.ok
                      /\ form'.value = a.value /\ form'.count = a.count /\ form'.change = form.change
                      /\ form'.role = form.role
                    BY <2>4, <5>1 DEF DoneAnswer, Forms, FormStates
                <5>3. 1 \in DoneAnswers
                    BY <1>4, <4>1 DEF DoneAnswers
                <5>4. /\ SetRequests = {} /\ ~Ours /\ (a.ok => Made(form.change, a.value, a.count))
                      /\ \A i \in DoneAnswers : i = 1
                    BY <1>1, <1>4, <5>3 DEF Inv, FormInv
                <5>5. DoneAnswers' = {}
                    <6> SUFFICES ASSUME NEW i \in DoneAnswers' PROVE FALSE
                        OBVIOUS
                    <6>1. i \in Nat /\ i # 0 /\ i + 1 \in DoneAnswers
                        BY <1>4 DEF DoneAnswers
                    <6> QED BY <5>4, <6>1
                <5>6. SetRequests' = SetRequests /\ Ours' = Ours
                    BY <1>1 DEF SetRequests, Ours
                <5>7. ASSUME NEW c, NEW v, NEW n, Made(c, v, n) PROVE Made(c, v, n)'
                    BY <1>2, <5>7 DEF Made, Sound
                <5>8. Change' = Change /\ had' = had /\ watch' = watch
                    BY <1>1, <2>1, KindStays
                <5>9. /\ popup.state = "live" /\ form.change \in Change
                      /\ form.change.op = "update" =>
                            form.role # None /\ [key |-> form.change.key, value |-> form.role] \in had
                      /\ watch.form # None => form.change.op = "update"
                    BY <5>1 DEF Inv, FormInv
                <5> QED BY <3>1, <5>2, <5>4, <5>5, <5>6, <5>7, <5>8, <5>9 DEF FormInv
            <4>2. CASE ~(ours /\ a.type = "done")
                <5>1. form' = form
                    BY <2>1, <4>2
                <5>2. /\ FormInv /\ alive' = alive /\ server' = server /\ watch' = watch
                    BY <1>1, <2>1 DEF Inv
                <5>3. FormInv'
                    BY <1>2, <1>4, <1>5, <3>1, <5>1, <5>2, FormLess
                <5> QED BY <2>4, <5>1, <5>3
            <4> QED BY <4>1, <4>2
        <3>5. TypeInv'
            BY <1>1, <1>4, <2>1, <3>1, <3>2, KindStays DEF Inv, TypeInv
        <3>6. ListsInv'
            BY <1>1, <1>2, <1>4, <1>5, <3>1, ListsLess DEF Inv
        <3>8. PopupInv'
            BY <1>1, <2>1, <3>1 DEF Inv, PopupInv
        <3>9. ReachInv'
            BY <1>1, <2>1, <3>1, ComingStays, ReachStays DEF Inv
        <3>10. CopyInv'
            BY <1>1, <1>2, <2>1, <3>1, CopyStays DEF Inv
        <3>11. ViewInv'
            BY <1>1, <1>2, <3>1, ViewStays DEF Inv
        <3> QED BY <1>2, <2>3, <3>2, <3>5, <3>6, <3>8, <3>9, <3>10, <3>11 DEF Inv
    <2> QED BY <2>5, <2>6
<1> QED BY <1>6, <1>7

\* The handler begins to read a list.
LEMMA ServeListKeeps == ASSUME Inv, ServeList PROVE Inv'
<1> DEFINE r == Head(requests)
           job == [step |-> "read", left |-> Keys, got |-> [k \in Keys |-> None], id |-> r.id]
<1>1. /\ UNCHANGED <<kind, truth, stream, answers, alive, channel, popup, copy, watch, form, view>>
      /\ UNCHANGED <<others, count, readAt, newest, stale, raced, had>>
      /\ server["mine"] = Idle /\ requests # <<>> /\ r.type = "list"
      /\ requests' = Tail(requests) /\ server' = [server EXCEPT !["mine"] = job]
    BY DEF ServeList, ghostVars
<1>2. /\ requests \in Seq(ListRequest \cup SetRequest) /\ server \in [Managers -> {Idle} \cup BusyJob \cup ReadJob]
      /\ "mine" \in Managers
    BY DEF Inv, TypeInv, Managers
<1>3. /\ r \in ListRequest \cup SetRequest /\ r = requests[1] /\ 1 \in 1 .. Len(requests)
      /\ requests' \in Seq(ListRequest \cup SetRequest)
      /\ \A i \in 1 .. Len(requests') : i + 1 \in 1 .. Len(requests) /\ requests'[i] = requests[i + 1]
    BY <1>1, <1>2, TailAt
<1>4. r.id \in Nat /\ r.id \in 1 .. popup.id /\ (r.id = popup.id => \A k \in Keys : readAt[k] = None)
    BY <1>1, <1>3 DEF Inv, ListsInv
<1> HIDE DEF r
<1>5. job \in ReadJob /\ job.step = "read" /\ job.left = Keys /\ job.id = r.id
    BY <1>4 DEF ReadJob
<1> HIDE DEF job
<1>6. /\ server' \in [Managers -> {Idle} \cup BusyJob \cup ReadJob]
      /\ server'["mine"] = job /\ \A m \in Managers \ {"mine"} : server'[m] = server[m]
    BY <1>1, <1>2, <1>5
<1>7. SameJobs
    BY <1>1, <1>5, <1>6 DEF SameJobs, Idle
<1>8. Grows /\ SoundEvents' = SoundEvents /\ SoundItems' = SoundItems /\ ServerInv'
    BY <1>1, <1>7, QuietStays DEF Inv
<1>9. TypeInv'
    BY <1>1, <1>3, <1>6, KindStays DEF Inv, TypeInv
<1>10. FlowInv'
    BY <1>1, <1>8, FlowStays DEF Inv, FlowInv
<1>11. ListsInv'
    <2>1. \A i \in CurrentRequests' : i \in Nat /\ i # 0 /\ i + 1 \in CurrentRequests
        BY <1>1, <1>3 DEF CurrentRequests
    <2>2. r.id = popup.id => 1 \in CurrentRequests
        BY <1>1, <1>3 DEF CurrentRequests
    <2>3. \A i, j \in CurrentRequests : i = j
        BY DEF Inv, ListsInv
    <2>4. \A i, j \in CurrentRequests' : i = j
        <3> SUFFICES ASSUME NEW i \in CurrentRequests', NEW j \in CurrentRequests' PROVE i = j
            OBVIOUS
        <3>1. i + 1 = j + 1
            BY <2>1, <2>3
        <3> QED BY <2>1, <3>1
    <2>5. r.id = popup.id => CurrentRequests' = {}
        <3> SUFFICES ASSUME r.id = popup.id, NEW i \in CurrentRequests' PROVE FALSE
            OBVIOUS
        <3>1. i + 1 = 1
            BY <2>1, <2>2, <2>3
        <3> QED BY <2>1, <3>1
    <2>6. Reading' <=> r.id = popup.id
        BY <1>1, <1>5, <1>6 DEF Reading
    <2>7. CurrentAnswers' = CurrentAnswers
        BY <1>1 DEF CurrentAnswers
    <2>8. CurrentAnswers # {} \/ popup.state = "ready" => CurrentRequests = {}
        BY DEF Inv, ListsInv
    <2>9. CurrentAnswers' # {} \/ popup.state = "ready" => CurrentRequests' = {} /\ ~Reading'
        BY <2>1, <2>2, <2>6, <2>7, <2>8
    <2>10. \A i \in 1 .. Len(requests') : requests'[i].type = "list" =>
              /\ requests'[i].id \in 1 .. popup.id
              /\ requests'[i].id = popup.id => \A k \in Keys : readAt[k] = None
        BY <1>3 DEF Inv, ListsInv
    <2>11. ASSUME NEW got, NEW ks \in SUBSET Keys, ReadSound(got, ks) PROVE ReadSound(got, ks)'
        BY <1>1, <1>8, <2>11, KindStays DEF ReadSound, Sound
    <2>13. \A i \in 1 .. Len(answers) : answers[i].type = "list" =>
              /\ answers[i].id \in 1 .. popup.id
              /\ \A k \in Keys : [key |-> k, value |-> answers[i].got[k]] \in had
              /\ answers[i].id = popup.id => ReadSound(answers[i].got, Keys)
        BY DEF Inv, ListsInv
    <2>14. popup.state = "ready" => popup.got \in [Keys -> Known] /\ ReadSound(popup.got, Keys)
        BY DEF Inv, ListsInv
    <2>15. Keys' = Keys /\ Known' = Known
        BY <1>1, KindStays
    <2>16. server'["mine"].step = "read" =>
              LET new == server'["mine"]
              IN  /\ new.id \in 1 .. popup.id
                  /\ Keys \ new.left = {}
                  /\ new.id = popup.id => \A k \in new.left : readAt[k] = None
        BY <1>4, <1>5, <1>6
    <2>17. ASSUME NEW got, NEW ks, ks = {} PROVE ReadSound(got, ks)'
        BY <2>17 DEF ReadSound
    <2> QED BY <1>1, <2>4, <2>5, <2>6, <2>9, <2>10, <2>11, <2>13, <2>14, <2>15, <2>16, <2>17 DEF ListsInv
<1>12. FormInv'
    <2>1. FormInv /\ UNCHANGED <<form, alive, popup, watch>> /\ ~Ours'
        BY <1>1, <1>5, <1>6 DEF Inv, Ours
    <2>2. 0 \in Nat /\ 1 \in Nat
        OBVIOUS
    <2>3. \A i \in 1 .. Len(answers') : i + 0 \in 1 .. Len(answers) /\ answers'[i] = answers[i + 0]
        BY <1>1
    <2> QED BY <1>3, <1>8, <2>1, <2>2, <2>3, FormLess
<1>13. PopupInv'
    BY <1>1 DEF Inv, PopupInv
<1>14. ReachInv'
    <2>1. Keys' = Keys
        BY <1>1, KindStays
    <2>2. Coming \subseteq Coming'
        BY <1>1, <1>6, <2>1 DEF Coming, Idle
    <2> QED BY <1>1, <2>2, ReachStays DEF Inv
<1>15. CopyInv'
    BY <1>1, <1>8, CopyStays DEF Inv
<1>16. ViewInv'
    BY <1>1, <1>8, ViewStays DEF Inv
<1> QED BY <1>8, <1>9, <1>10, <1>11, <1>12, <1>13, <1>14, <1>15, <1>16 DEF Inv

\* The other handler alone may be setting the buffer size while ours reads it.
LEMMA StoredSound ==
    ASSUME Inv, server["mine"].step = "read", NEW k \in Keys
    PROVE  /\ Stored(k) \in Nat /\ Stored(k) <= count[k] /\ (kind # "buffer" => Stored(k) = count[k])
           /\ truth[k] \in Known /\ [key |-> k, value |-> truth[k]] \in had
           /\ Sound(k, truth[k], Stored(k))
<1> DEFINE S == {m \in Busy(k) : server[m].step = "store"}
<1>1. /\ truth[k] \in Known /\ count[k] \in Nat /\ [key |-> k, value |-> truth[k]] \in had
      /\ server \in [Managers -> {Idle} \cup BusyJob \cup ReadJob]
    BY DEF Inv, TypeInv, ServerInv
<1>2. Busy(k) \subseteq {"other"}
    BY DEF Busy, Managers
<1>3. Stored(k) = count[k] - Cardinality(S)
    BY DEF Stored
<1>4. CASE S = {}
    <2>1. Cardinality(S) = 0
        BY <1>4, FS_EmptySet
    <2>2. Stored(k) = count[k]
        BY <1>1, <1>3, <2>1
    <2>3. k \notin raced => Current(k, truth[k])
        <3>1. CASE kind # "buffer"
            BY <3>1 DEF Current
        <3>2. CASE kind = "buffer"
            <4>1. ASSUME NEW m \in Busy(k) PROVE server[m].step = "store"
                <5>1. m \in Managers /\ server[m].step \in {"log", "store"}
                    BY DEF Busy
                <5>2. server[m] \in BusyJob
                    BY <1>1, <5>1 DEF Idle, ReadJob
                <5> QED BY <3>2, <5>2 DEF BusyJob
            <4>2. Busy(k) = {}
                BY <1>4, <4>1
            <4> QED BY <4>2 DEF Current
        <3> QED BY <3>1, <3>2
    <2> QED BY <1>1, <2>2, <2>3 DEF Sound, SoundEvents, Event
<1>5. CASE S # {}
    <2>1. S = {"other"} /\ "other" \in Managers
        BY <1>2, <1>5 DEF Managers
    <2>2. Cardinality(S) = 1
        BY <2>1, FS_Singleton
    <2>3. /\ server["other"].step = "store" /\ server["other"].key = k
        BY <2>1 DEF Busy
    <2>4. server["other"] \in BusyJob
        BY <1>1, <2>1, <2>3 DEF Idle, ReadJob
    <2>5. kind = "buffer"
        BY <2>3, <2>4 DEF BusyJob
    <2>6. Sound(k, server["other"].value, server["other"].count) /\ server["other"].count \in Nat \ {0}
        BY <2>1, <2>3, <2>4 DEF Inv, ServerInv, BusyJob
    <2>7. server["other"].count <= count[k]
        BY <2>6 DEF Sound, SoundEvents
    <2>8. count[k] # 0
        BY <1>1, <2>6, <2>7
    <2>9. Stored(k) = count[k] - 1
        BY <1>3, <2>2
    <2>10. Stored(k) \in Nat /\ Stored(k) <= count[k] /\ Stored(k) # count[k]
        BY <1>1, <2>8, <2>9
    <2> QED BY <1>1, <2>5, <2>10 DEF Sound, SoundEvents, Event
<1> QED BY <1>4, <1>5

\* Some keys of a list are read.
LEMMA ReadKeysKeeps == ASSUME Inv, NEW ks, ReadKeys(ks) PROVE Inv'
<1> DEFINE job == server["mine"]
           got == [k \in Keys |-> IF k \in ks THEN truth[k] ELSE job.got[k]]
           ans == [type |-> "list", id |-> job.id, got |-> got]
<1>1. /\ UNCHANGED <<kind, truth, requests, stream, alive, channel, popup, copy, watch, form>>
      /\ UNCHANGED <<view, others, count, newest, stale, raced, had>>
      /\ job.step = "read" /\ ks \subseteq job.left
      /\ readAt' = IF job.id # popup.id THEN readAt
                   ELSE [k \in Keys |-> IF k \in ks THEN Stored(k) ELSE readAt[k]]
      /\ IF ks = job.left
         THEN /\ server' = [server EXCEPT !["mine"] = Idle] /\ answers' = Append(answers, ans)
         ELSE /\ server' = [server EXCEPT !["mine"].left = @ \ ks, !["mine"].got = got]
              /\ answers' = answers
    BY DEF ReadKeys, ghostVars
<1>2. /\ server \in [Managers -> {Idle} \cup BusyJob \cup ReadJob] /\ "mine" \in Managers
      /\ answers \in Seq(ListAnswer \cup DoneAnswer) /\ readAt \in [Keys -> Nat \cup {None}]
    BY DEF Inv, TypeInv, Managers
<1>3. job \in ReadJob
    BY <1>1, <1>2 DEF BusyJob, Idle
<1>4. ks \subseteq Keys /\ job.id \in Nat
    BY <1>1, <1>3 DEF ReadJob
<1>5. ASSUME NEW k \in Keys
      PROVE  /\ Stored(k) \in Nat /\ Stored(k) <= count[k] /\ (kind # "buffer" => Stored(k) = count[k])
             /\ truth[k] \in Known /\ [key |-> k, value |-> truth[k]] \in had
             /\ Sound(k, truth[k], Stored(k))
    BY <1>1, StoredSound
<1>6. /\ readAt' \in [Keys -> Nat \cup {None}]
      /\ job.id # popup.id => readAt' = readAt
      /\ job.id = popup.id => \A k \in Keys : readAt'[k] = IF k \in ks THEN Stored(k) ELSE readAt[k]
    <2>1. CASE job.id = popup.id
        <3>1. readAt' = [k \in Keys |-> IF k \in ks THEN Stored(k) ELSE readAt[k]]
            BY <1>1, <2>1
        <3> QED BY <1>2, <1>5, <2>1, <3>1
    <2>2. CASE job.id # popup.id
        BY <1>1, <1>2, <2>2
    <2> QED BY <2>1, <2>2
<1>7. /\ job.id \in 1 .. popup.id
      /\ \A k \in Keys \ job.left : job.got[k] \in Known /\ [key |-> k, value |-> job.got[k]] \in had
      /\ job.id = popup.id => ReadSound(job.got, Keys \ job.left) /\ \A k \in job.left : readAt[k] = None
    BY <1>1 DEF Inv, ListsInv
<1> DEFINE now == (Keys \ job.left) \cup ks
<1>8. /\ now \subseteq Keys
      /\ \A k \in now : got[k] \in Known /\ [key |-> k, value |-> got[k]] \in had
      /\ \A k \in Keys : got[k] \in Known \cup {None}
    <2>1. \A k \in Keys : job.got[k] \in Known \cup {None}
        BY <1>3 DEF ReadJob
    <2> QED BY <1>4, <1>5, <1>7, <2>1
<1>9. ASSUME job.id = popup.id, NEW k \in now
      PROVE  readAt'[k] # None /\ Sound(k, got[k], readAt'[k])
    <2>1. CASE k \in ks
        <3>1. readAt'[k] = Stored(k) /\ got[k] = truth[k] /\ Stored(k) \in Nat /\ Sound(k, truth[k], Stored(k))
            BY <1>4, <1>5, <1>6, <1>9, <2>1
        <3> QED BY <3>1, ListPopupsAssumption
    <2>2. CASE k \notin ks
        <3>1. k \in Keys \ job.left
            BY <2>2
        <3>2. readAt'[k] = readAt[k] /\ got[k] = job.got[k]
            BY <1>6, <1>9, <2>2, <3>1
        <3> QED BY <1>7, <1>9, <3>1, <3>2 DEF ReadSound
    <2> QED BY <2>1, <2>2
<1>10. got \in [Keys -> Known \cup {None}] /\ ans.type = "list" /\ ans.id = job.id /\ ans.got = got
    BY <1>8
<1> HIDE DEF got, ans
<1>11. /\ server' \in [Managers -> {Idle} \cup BusyJob \cup ReadJob]
       /\ \A m \in Managers \ {"mine"} : server'[m] = server[m]
       /\ ks = job.left => server'["mine"] = Idle
       /\ ks # job.left => /\ server'["mine"].step = "read" /\ server'["mine"].id = job.id
                           /\ server'["mine"].left = job.left \ ks /\ server'["mine"].got = got
    <2>1. CASE ks = job.left
        BY <1>1, <1>2, <2>1
    <2>2. CASE ks # job.left
        <3>1. server' = [server EXCEPT !["mine"] = [job EXCEPT !.left = job.left \ ks, !.got = got]]
            BY <1>1, <2>2
        <3>2. [job EXCEPT !.left = job.left \ ks, !.got = got] \in ReadJob
            BY <1>3, <1>10 DEF ReadJob
        <3> QED BY <1>2, <1>3, <2>2, <3>1, <3>2 DEF ReadJob
    <2> QED BY <2>1, <2>2
<1>12. /\ answers' \in Seq(ListAnswer \cup DoneAnswer)
       /\ \A i \in 1 .. Len(answers') :
             \/ i \in 1 .. Len(answers) /\ answers'[i] = answers[i]
             \/ ks = job.left /\ i = Len(answers) + 1 /\ answers'[i] = ans
    <2>1. CASE ks = job.left
        <3>1. now = Keys
            BY <1>4, <2>1
        <3>2. got \in [Keys -> Known]
            BY <1>8, <1>10, <3>1
        <3>3. ans \in ListAnswer
            BY <1>4, <3>2 DEF ListAnswer, ans
        <3>4. answers' = Append(answers, ans) /\ ans \in ListAnswer \cup DoneAnswer
            BY <1>1, <2>1, <3>3
        <3>5. answers \in Seq(ListAnswer \cup DoneAnswer)
            BY <1>2
        <3> QED BY <2>1, <3>4, <3>5, AppendAt
    <2>2. CASE ks # job.left
        BY <1>1, <1>2, <2>2
    <2> QED BY <2>1, <2>2
<1>13. SameJobs
    BY <1>1, <1>11 DEF SameJobs, Idle
<1>14. Grows /\ SoundEvents' = SoundEvents /\ SoundItems' = SoundItems /\ ServerInv'
    BY <1>1, <1>13, QuietStays DEF Inv
<1>15. Keys' = Keys /\ Known' = Known
    BY <1>1, KindStays
<1>16. TypeInv'
    BY <1>1, <1>6, <1>11, <1>12, KindStays DEF Inv, TypeInv
<1>17. FlowInv'
    BY <1>1, <1>14, FlowStays DEF Inv, FlowInv
<1>18. FormInv'
    <2>1. FormInv /\ UNCHANGED <<form, alive, popup, watch>> /\ ~Ours'
        BY <1>1, <1>11 DEF Inv, Ours, Idle
    <2>2. 0 \in Nat
        OBVIOUS
    <2>3. \A i \in 1 .. Len(answers') : answers'[i].type = "done" =>
              i + 0 \in 1 .. Len(answers) /\ answers'[i] = answers[i + 0]
        BY <1>10, <1>12
    <2>4. \A i \in 1 .. Len(requests') : i + 0 \in 1 .. Len(requests) /\ requests'[i] = requests[i + 0]
        BY <1>1
    <2> QED BY <1>14, <2>1, <2>2, <2>3, <2>4, FormLess
<1>19. PopupInv'
    BY <1>1 DEF Inv, PopupInv
<1>20. CopyInv'
    BY <1>1, <1>14, CopyStays DEF Inv
<1>21. ViewInv'
    BY <1>1, <1>14, ViewStays DEF Inv
<1>22. Reading <=> job.id = popup.id
    BY <1>1 DEF Reading
<1>23. Reading => CurrentRequests = {} /\ CurrentAnswers = {} /\ popup.state # "ready"
    BY DEF Inv, ListsInv
<1>24. ListsInv'
    <2>1. ASSUME NEW i \in 1 .. Len(requests), requests[i].type = "list"
          PROVE  /\ requests[i].id \in 1 .. popup.id
                 /\ requests[i].id = popup.id => \A k \in Keys : readAt'[k] = None
        <3>1. /\ requests[i].id \in 1 .. popup.id
              /\ requests[i].id = popup.id => \A k \in Keys : readAt[k] = None
            BY <2>1 DEF Inv, ListsInv
        <3>2. requests[i].id = popup.id => readAt' = readAt
            BY <1>6, <1>22, <1>23, <2>1 DEF CurrentRequests
        <3> QED BY <3>1, <3>2
    <2>2. ASSUME server'["mine"].step = "read"
          PROVE  LET new == server'["mine"]
                 IN  /\ new.id \in 1 .. popup.id
                     /\ \A k \in Keys \ new.left :
                           new.got[k] \in Known /\ [key |-> k, value |-> new.got[k]] \in had
                     /\ new.id = popup.id =>
                           /\ \A k \in Keys \ new.left :
                                 readAt'[k] # None /\ Sound(k, new.got[k], readAt'[k])
                           /\ \A k \in new.left : readAt'[k] = None
        <3>1. ks # job.left
            BY <1>11, <2>2 DEF Idle
        <3>2. /\ server'["mine"].id = job.id /\ server'["mine"].left = job.left \ ks
              /\ server'["mine"].got = got
            BY <1>11, <3>1
        <3>3. Keys \ (job.left \ ks) = now
            BY <1>4
        <3>4. ASSUME job.id = popup.id, NEW k \in job.left \ ks PROVE readAt'[k] = None
            <4>1. k \in Keys /\ readAt[k] = None
                BY <1>3, <1>7, <3>4 DEF ReadJob
            <4> QED BY <1>6, <3>4, <4>1
        <3> HIDE DEF now
        <3> QED BY <1>7, <1>8, <1>9, <3>2, <3>3, <3>4
    <2>3. ASSUME NEW i \in 1 .. Len(answers'), answers'[i].type = "list"
          PROVE  /\ answers'[i].id \in 1 .. popup.id
                 /\ \A k \in Keys : [key |-> k, value |-> answers'[i].got[k]] \in had
                 /\ answers'[i].id = popup.id =>
                       \A k \in Keys : readAt'[k] # None /\ Sound(k, answers'[i].got[k], readAt'[k])
        <3>1. CASE i \in 1 .. Len(answers) /\ answers'[i] = answers[i]
            <4>1. /\ answers[i].id \in 1 .. popup.id
                  /\ \A k \in Keys : [key |-> k, value |-> answers[i].got[k]] \in had
                  /\ answers[i].id = popup.id => ReadSound(answers[i].got, Keys)
                BY <2>3, <3>1 DEF Inv, ListsInv
            <4>2. answers[i].id = popup.id => readAt' = readAt
                BY <1>6, <1>22, <1>23, <2>3, <3>1 DEF CurrentAnswers
            <4> QED BY <3>1, <4>1, <4>2 DEF ReadSound
        <3>2. CASE ks = job.left /\ answers'[i] = ans
            <4>1. now = Keys
                BY <1>4, <3>2
            <4> HIDE DEF now
            <4> QED BY <1>7, <1>8, <1>9, <1>10, <3>2, <4>1
        <3> QED BY <1>12, <3>1, <3>2
    <2>4. popup.state = "ready" =>
             /\ popup.got \in [Keys -> Known]
             /\ \A k \in Keys : readAt'[k] # None /\ Sound(k, popup.got[k], readAt'[k])
        <3>1. popup.state = "ready" => readAt' = readAt
            BY <1>6, <1>22, <1>23
        <3>2. popup.state = "ready" => popup.got \in [Keys -> Known] /\ ReadSound(popup.got, Keys)
            BY DEF Inv, ListsInv
        <3> QED BY <3>1, <3>2 DEF ReadSound
    <2>5. CurrentRequests' = CurrentRequests /\ \A i, j \in CurrentRequests : i = j
        BY <1>1 DEF CurrentRequests, Inv, ListsInv
    <2>6. Reading' => Reading /\ ks # job.left
        BY <1>1, <1>11, <1>22 DEF Reading, Idle
    <2>7. CurrentAnswers' # {} => CurrentAnswers # {} \/ (ks = job.left /\ Reading)
        <3> SUFFICES ASSUME NEW i \in CurrentAnswers' PROVE CurrentAnswers # {} \/ (ks = job.left /\ Reading)
            OBVIOUS
        <3>1. i \in 1 .. Len(answers') /\ answers'[i].type = "list" /\ answers'[i].id = popup.id
            BY <1>1 DEF CurrentAnswers
        <3>2. CASE i \in 1 .. Len(answers) /\ answers'[i] = answers[i]
            BY <3>1, <3>2 DEF CurrentAnswers
        <3>3. CASE ks = job.left /\ answers'[i] = ans
            BY <1>10, <1>22, <3>1, <3>3
        <3> QED BY <1>12, <3>1, <3>2, <3>3
    <2>8. CurrentAnswers' # {} \/ popup.state = "ready" => CurrentRequests = {} /\ ~Reading'
        <3>1. CurrentAnswers # {} \/ popup.state = "ready" => CurrentRequests = {} /\ ~Reading
            BY DEF Inv, ListsInv
        <3> QED BY <1>23, <2>6, <2>7, <3>1
    <2>9. Reading' => CurrentRequests = {}
        BY <1>23, <2>6
    <2>10. requests' = requests /\ popup' = popup /\ had' = had
        BY <1>1
    <2> QED BY <1>14, <1>15, <2>1, <2>2, <2>3, <2>4, <2>5, <2>8, <2>9, <2>10 DEF ListsInv, ReadSound, Sound
<1>25. ReachInv'
    <2>1. Coming \subseteq Coming'
        BY <1>1, <1>11, <1>15 DEF Coming
    <2>2. ASSUME NEW k \in Keys
          PROVE  /\ newest[k] <= count[k] /\ (readAt'[k] # None => readAt'[k] <= count[k])
                 /\ Loading /\ readAt'[k] = None => newest[k] = 0
                 /\ Loading /\ readAt'[k] # None => (newest[k] <= readAt'[k] \/ k \in stale)
                 /\ Loading /\ readAt'[k] # None =>
                       newest[k] = count[k] \/ readAt'[k] = count[k] \/ k \in Coming
                 /\ popup.state = "live" \/ kind = "buffer" => newest[k] = count[k] \/ k \in Coming
        <3>1. /\ newest[k] <= count[k] /\ (readAt[k] # None => readAt[k] <= count[k])
              /\ Loading /\ readAt[k] = None => newest[k] = 0
              /\ Loading /\ readAt[k] # None => (newest[k] <= readAt[k] \/ k \in stale)
              /\ Loading /\ readAt[k] # None =>
                    newest[k] = count[k] \/ readAt[k] = count[k] \/ k \in Coming
              /\ popup.state = "live" \/ kind = "buffer" => newest[k] = count[k] \/ k \in Coming
            BY DEF Inv, ReachInv
        <3>2. CASE readAt'[k] = readAt[k]
            BY <3>1, <3>2
        <3>3. CASE readAt'[k] # readAt[k]
            <4>1. job.id = popup.id /\ k \in ks /\ readAt'[k] = Stored(k)
                BY <1>6, <3>3
            <4>2. k \in job.left /\ readAt[k] = None
                BY <1>1, <1>7, <4>1
            <4>3. Stored(k) \in Nat /\ Stored(k) <= count[k] /\ (kind # "buffer" => Stored(k) = count[k])
                BY <1>5
            <4>4. Loading => newest[k] = 0 /\ kind # "buffer"
                BY <3>1, <4>2 DEF Loading
            <4>5. Stored(k) # None
                BY <4>3, ListPopupsAssumption
            <4> QED BY <3>1, <4>1, <4>3, <4>4, <4>5
        <3> QED BY <3>2, <3>3
    <2>3. Loading' = Loading
        BY <1>1 DEF Loading
    <2> QED BY <1>1, <1>15, <2>1, <2>2, <2>3 DEF ReachInv
<1> QED BY <1>14, <1>16, <1>17, <1>18, <1>19, <1>20, <1>21, <1>24, <1>25 DEF Inv

\* The handler reads its list.
LEMMA ServeReadKeeps == ASSUME Inv, ServeRead PROVE Inv'
<1>1. \E ks : ReadKeys(ks)
    BY DEF ServeRead
<1> QED BY <1>1, ReadKeysKeeps

\* The events grow, and with them what a form may tell.
LEMMA GrowsBy ==
    ASSUME kind' = kind, had \subseteq had', SoundEvents \subseteq SoundEvents',
           \A k \in Keys : count[k] \in Nat /\ count'[k] \in Nat /\ count[k] <= count'[k]
    PROVE  Grows
<1>1. Keys' = Keys /\ Event' = Event /\ Item' = Item
    BY KindStays
<1>2. ASSUME NEW i \in SoundItems PROVE i \in SoundItems'
    <2>1. CASE i \in SoundEvents
        BY <2>1 DEF SoundItems
    <2>2. CASE i \notin SoundEvents
        <3>1. /\ i \in Item \ Event /\ [key |-> i.key, value |-> i.value] \in had
              /\ i.count <= count[i.key] /\ (i.guess \/ Sound(i.key, i.value, i.count))
            BY <2>2 DEF SoundItems
        <3>2. i.key \in Keys /\ i.count \in Nat
            BY <3>1 DEF Item
        <3>3. i.count <= count'[i.key]
            BY <3>1, <3>2
        <3> QED BY <1>1, <3>1, <3>3 DEF SoundItems, Sound
    <2> QED BY <2>1, <2>2
<1> QED BY <1>2 DEF Grows

\* A change that begins: of its key there is a new latest change, and its event is on its
\* way.
LEMMA BeginsWell ==
    ASSUME Inv, UNCHANGED <<kind, channel, watch>>, NEW m \in Managers, NEW c \in Change, NEW id \in Nat,
           server[m] = Idle, Begins(m, c, id), NEW v, v = ValueAfter(c)
    PROVE  /\ c.key \in Keys /\ v \in Known /\ Grows /\ ServerInv'
           /\ [key |-> c.key, value |-> v, count |-> count'[c.key]] \in SoundEvents'
           /\ truth' \in [Keys -> Known] /\ count' \in [Keys -> Nat] /\ raced' \in SUBSET Keys
           /\ server' \in [Managers -> {Idle} \cup BusyJob \cup ReadJob]
           /\ \A l \in Managers \ {m} : server'[l] = server[l]
           /\ kind = "sockets" => server' = server
           /\ kind # "sockets" =>
                 /\ server'[m].step \in {"log", "store"} /\ server'[m].key = c.key
                 /\ server'[m].value = v /\ server'[m].count = count'[c.key] /\ server'[m].id = id
           /\ stream' \in Seq(SoundEvents')
           /\ \A k \in Keys : count[k] <= count'[k]
           /\ \A k \in Keys \ {c.key} : count'[k] = count[k]
           /\ c.key \in Coming' /\ \A k \in Coming \ {c.key} : k \in Coming'
<1> DEFINE k == c.key
           n == count[k] + 1
           event == [key |-> k, value |-> v, count |-> n]
           job == [step |-> IF kind = "buffer" THEN "store" ELSE "log", key |-> k, value |-> v,
                   count |-> n, id |-> id]
<1>1. /\ count' = [count EXCEPT ![k] = n]
      /\ raced' = IF kind = "buffer" /\ Busy(k) # {} THEN raced \cup {k} ELSE raced \ {k}
      /\ had' = had \cup {[key |-> k, value |-> v]}
      /\ truth' = IF kind = "buffer" THEN truth ELSE [truth EXCEPT ![k] = v]
      /\ stream' = IF kind \in {"sockets", "buffer"} THEN Append(stream, event) ELSE stream
      /\ server' = IF kind = "sockets" THEN server ELSE [server EXCEPT ![m] = job]
    BY DEF Begins
<1>2. /\ kind \in Kinds /\ truth \in [Keys -> Known] /\ count \in [Keys -> Nat] /\ raced \in SUBSET Keys
      /\ server \in [Managers -> {Idle} \cup BusyJob \cup ReadJob]
    BY DEF Inv, TypeInv
<1>3. k \in Keys /\ v \in Known
    <2>1. k \in Keys
        BY <1>2, ChangeIs
    <2>2. CASE c.op = "update" /\ c.value = None
        BY <1>2, <2>1, <2>2 DEF ValueAfter
    <2>3. CASE c.op = "update" /\ c.value # None
        <3>1. kind = "users" /\ c.value \in Roles /\ v = c.value
            BY <1>2, <2>3, ChangeIs DEF ValueAfter
        <3> QED BY <2>1, <3>1 DEF Known, ValuesOf
    <2>4. CASE c.op # "update"
        BY <1>2, <2>1, <2>4, ChangeIs DEF ValueAfter
    <2> QED BY <2>2, <2>3, <2>4
<1>4. n \in Nat \ {0} /\ count[k] \in Nat /\ count[k] < n /\ ~(n <= count[k])
    BY <1>2, <1>3
<1> HIDE DEF n
<1>5. /\ count' \in [Keys -> Nat] /\ count'[k] = n
      /\ \A l \in Keys \ {k} : count'[l] = count[l]
    BY <1>1, <1>2, <1>3, <1>4
<1>6. \A l \in Keys : count[l] \in Nat /\ count'[l] \in Nat /\ count[l] <= count'[l]
    <2> SUFFICES ASSUME NEW l \in Keys PROVE count[l] \in Nat /\ count'[l] \in Nat /\ count[l] <= count'[l]
        OBVIOUS
    <2>1. CASE l = k
        BY <1>4, <1>5, <2>1
    <2>2. CASE l # k
        BY <1>2, <1>5, <2>2
    <2> QED BY <2>1, <2>2
<1>7. truth' \in [Keys -> Known] /\ raced' \in SUBSET Keys
      /\ (kind # "buffer" => truth'[k] = v) /\ (\A l \in Keys \ {k} : truth'[l] = truth[l])
    BY <1>1, <1>2, <1>3
<1>8. job \in BusyJob /\ job.step \in {"log", "store"} /\ job.key = k /\ job.value = v /\ job.count = n
      /\ job.id = id /\ (kind # "buffer" => job.step = "log")
    BY <1>3, <1>4 DEF BusyJob
<1> HIDE DEF job
<1>9. /\ server' \in [Managers -> {Idle} \cup BusyJob \cup ReadJob]
      /\ \A l \in Managers \ {m} : server'[l] = server[l]
      /\ kind # "sockets" => server'[m] = job
    BY <1>1, <1>2, <1>8
<1>10. kind = "buffer" => Keys = {k}
    BY <1>3 DEF Keys, KeysOf
<1>11. kind = "buffer" => Busy(k)' = Busy(k) \cup {m} /\ m \notin Busy(k)
    <2>1. m \notin Busy(k)
        BY DEF Busy, Idle
    <2>2. kind = "buffer" => Busy(k)' = Busy(k) \cup {m}
        BY <1>8, <1>9 DEF Busy
    <2> QED BY <2>1, <2>2
<1>12. Keys' = Keys /\ Event' = Event /\ had \subseteq had'
    BY <1>1, KindStays
<1>13. event \in SoundEvents'
    <2>1. event \in Event /\ event.key = k /\ event.value = v /\ event.count = n
        BY <1>3, <1>4 DEF Event
    <2> HIDE DEF event
    <2>2. k \notin raced' => Current(k, v)'
        <3>1. CASE kind = "buffer"
            <4>1. k \notin raced' => Busy(k) = {}
                BY <1>1, <3>1
            <4>2. k \notin raced' => Busy(k)' = {m}
                BY <1>11, <3>1, <4>1
            <4>3. server'[m].value = v
                BY <1>8, <1>9, <3>1
            <4> QED BY <3>1, <4>2, <4>3 DEF Current
        <3>2. CASE kind # "buffer"
            BY <1>7, <3>2 DEF Current
        <3> QED BY <3>1, <3>2
    <2>3. [key |-> event.key, value |-> event.value] \in had'
        BY <1>1, <2>1
    <2>4. n <= count'[k]
        BY <1>4, <1>5
    <2> QED BY <1>5, <1>12, <2>1, <2>2, <2>3, <2>4 DEF SoundEvents
<1>14. SoundEvents \subseteq SoundEvents'
    <2> SUFFICES ASSUME NEW e \in SoundEvents PROVE e \in SoundEvents'
        OBVIOUS
    <2>1. /\ e \in Event /\ e.key \in Keys /\ e.count \in Nat
          /\ [key |-> e.key, value |-> e.value] \in had /\ e.count <= count[e.key]
          /\ (e.count = count[e.key] /\ e.key \notin raced => Current(e.key, e.value))
        BY DEF SoundEvents, Event
    <2>2. e.count <= count'[e.key]
        BY <1>6, <2>1
    <2>3. CASE e.key = k
        <3>1. e.count # count'[k]
            BY <1>4, <1>5, <2>1, <2>3
        <3> QED BY <1>12, <2>1, <2>2, <2>3, <3>1 DEF SoundEvents
    <2>4. CASE e.key # k
        <3>1. kind # "buffer"
            BY <1>10, <2>1, <2>4
        <3>2. Current(e.key, e.value) <=> Current(e.key, e.value)'
            BY <1>7, <2>1, <2>4, <3>1 DEF Current
        <3>3. count'[e.key] = count[e.key] /\ (e.key \in raced' <=> e.key \in raced)
            BY <1>1, <1>5, <2>1, <2>4
        <3> QED BY <1>12, <2>1, <2>2, <3>2, <3>3 DEF SoundEvents
    <2> QED BY <2>3, <2>4
<1>15. Grows
    BY <1>6, <1>12, <1>14, GrowsBy
<1>16. ServerInv'
    <2>1. ASSUME NEW l \in Keys PROVE [key |-> l, value |-> truth'[l]] \in had'
        <3>1. [key |-> l, value |-> truth[l]] \in had
            BY DEF Inv, ServerInv
        <3>2. CASE l = k /\ kind # "buffer"
            BY <1>1, <1>7, <3>2
        <3>3. CASE l # k \/ kind = "buffer"
            BY <1>1, <1>7, <1>12, <3>1, <3>3
        <3> QED BY <3>2, <3>3
    <2>2. ASSUME NEW l \in Managers, server'[l].step \in {"log", "store"}
          PROVE  [key |-> server'[l].key, value |-> server'[l].value, count |-> server'[l].count]
                 \in SoundEvents'
        <3>1. CASE l = m /\ kind # "sockets"
            BY <1>8, <1>9, <1>13, <3>1
        <3>2. CASE l # m \/ kind = "sockets"
            <4>1. server'[l] = server[l]
                BY <1>1, <1>9, <3>2
            <4>2. Sound(server[l].key, server[l].value, server[l].count)
                BY <2>2, <4>1 DEF Inv, ServerInv
            <4> QED BY <1>14, <4>1, <4>2 DEF Sound
        <3> QED BY <3>1, <3>2
    <2>3. ASSUME kind = "buffer", NEW l \in Keys \ raced', NEW x \in Busy(l)'
          PROVE  server'[x].count = count'[l] /\ \A y \in Busy(l)' : y = x
        <3>1. l = k
            BY <1>10, <2>3
        <3>2. Busy(k) = {}
            BY <1>1, <2>3, <3>1
        <3>3. Busy(l)' = {m}
            BY <1>11, <2>3, <3>1, <3>2
        <3>4. server'[m].count = count'[k]
            BY <1>5, <1>8, <1>9, <2>3
        <3>5. \A y \in Busy(l)' : y = m
            BY <3>3
        <3>6. x = m
            BY <2>3, <3>5
        <3> QED BY <3>1, <3>4, <3>5, <3>6
    <2> QED BY <1>12, <2>1, <2>2, <2>3 DEF ServerInv, Sound
<1>17. /\ stream' \in Seq(SoundEvents')
       /\ \A i \in 1 .. Len(stream) : \E j \in 1 .. Len(stream') : stream'[j] = stream[i]
       /\ kind \in {"sockets", "buffer"} => \E j \in 1 .. Len(stream') : stream'[j] = event
    <2>1. stream \in Seq(SoundEvents')
        BY <1>15, FlowStays DEF Inv
    <2> HIDE DEF event
    <2>2. CASE kind \in {"sockets", "buffer"}
        <3> DEFINE q == Len(stream)
        <3>1. /\ stream' \in Seq(SoundEvents') /\ Len(stream') = q + 1 /\ stream'[q + 1] = event
              /\ \A i \in 1 .. q : stream'[i] = stream[i]
            BY <1>1, <1>13, <2>1, <2>2, AppendAt
        <3>2. q \in Nat
            BY <2>1
        <3> HIDE DEF q
        <3>3. q + 1 \in 1 .. (q + 1) /\ \A i \in 1 .. q : i \in 1 .. (q + 1)
            BY <3>2
        <3> QED BY <3>1, <3>3 DEF q
    <2>3. CASE kind \notin {"sockets", "buffer"}
        BY <1>1, <2>1, <2>3
    <2> QED BY <2>2, <2>3
<1>18. k \in Coming'
    <2>1. CASE kind \in {"sockets", "buffer"}
        <3>1. PICK j \in 1 .. Len(stream') : stream'[j] = event
            BY <1>17, <2>1
        <3>2. stream'[j].key = k /\ stream'[j].count = count'[k]
            BY <1>5, <3>1
        <3> QED BY <1>3, <1>12, <3>2 DEF Coming
    <2>2. CASE kind \notin {"sockets", "buffer"}
        <3>1. server'[m].step = "log" /\ server'[m].key = k /\ server'[m].count = count'[k]
            BY <1>5, <1>8, <1>9, <2>2
        <3> QED BY <1>3, <1>12, <3>1 DEF Coming
    <2> QED BY <2>1, <2>2
<1>19. ASSUME NEW l \in Coming \ {k} PROVE l \in Coming'
    <2>1. l \in Keys /\ l \in Keys' /\ count'[l] = count[l]
        BY <1>5, <1>12 DEF Coming
    <2>2. CASE \E x \in Managers : server[x].step = "log" /\ server[x].key = l /\ server[x].count = count[l]
        <3>1. PICK x \in Managers : server[x].step = "log" /\ server[x].key = l /\ server[x].count = count[l]
            BY <2>2
        <3>2. server'[x] = server[x]
            BY <1>9, <3>1 DEF Idle
        <3> QED BY <2>1, <3>1, <3>2 DEF Coming
    <2>3. CASE \E i \in 1 .. Len(stream) : stream[i].key = l /\ stream[i].count = count[l]
        <3>1. PICK i \in 1 .. Len(stream) : stream[i].key = l /\ stream[i].count = count[l]
            BY <2>3
        <3>2. PICK j \in 1 .. Len(stream') : stream'[j] = stream[i]
            BY <1>17
        <3> QED BY <2>1, <3>1, <3>2 DEF Coming
    <2>4. CASE \E i \in 1 .. Len(channel) : channel[i].key = l /\ channel[i].count = count[l]
        BY <2>1, <2>4 DEF Coming
    <2>5. CASE /\ watch.popup # None
               /\ \E i \in 1 .. Len(watch.popup) : watch.popup[i].key = l /\ watch.popup[i].count = count[l]
        BY <2>1, <2>5 DEF Coming
    <2> QED BY <2>2, <2>3, <2>4, <2>5 DEF Coming
<1>20. /\ kind = "sockets" => server' = server
       /\ kind # "sockets" =>
             /\ server'[m].step \in {"log", "store"} /\ server'[m].key = k
             /\ server'[m].value = v /\ server'[m].count = count'[k] /\ server'[m].id = id
    BY <1>1, <1>5, <1>8, <1>9
<1>21. [key |-> k, value |-> v, count |-> count'[k]] \in SoundEvents'
    BY <1>5, <1>13
<1> QED BY <1>3, <1>5, <1>6, <1>7, <1>9, <1>15, <1>16, <1>17, <1>18, <1>19, <1>20, <1>21

\* What a change that begins leaves as it is, but for its key.
LEMMA BeginsRest ==
    ASSUME Inv, UNCHANGED <<kind, channel, popup, copy, watch, view, readAt, newest, stale>>,
           Grows, stream' \in Seq(SoundEvents'), count' \in [Keys -> Nat], NEW x \in Keys,
           \A k \in Keys : count[k] <= count'[k], \A k \in Keys \ {x} : count'[k] = count[k],
           x \in Coming', \A k \in Coming \ {x} : k \in Coming'
    PROVE  FlowInv' /\ PopupInv' /\ ReachInv' /\ CopyInv' /\ ViewInv'
<1>1. FlowInv'
    BY FlowStays DEF Inv, FlowInv
<1>2. PopupInv'
    BY DEF Inv, PopupInv
<1>3. ReachInv'
    <2>1. Keys' = Keys /\ Loading' = Loading
        BY KindStays DEF Loading
    <2>2. ASSUME NEW k \in Keys
          PROVE  /\ newest[k] <= count'[k] /\ (readAt[k] # None => readAt[k] <= count'[k])
                 /\ Loading /\ readAt[k] = None => newest[k] = 0
                 /\ Loading /\ readAt[k] # None => (newest[k] <= readAt[k] \/ k \in stale)
                 /\ Loading /\ readAt[k] # None =>
                       newest[k] = count'[k] \/ readAt[k] = count'[k] \/ k \in Coming'
                 /\ popup.state = "live" \/ kind = "buffer" => newest[k] = count'[k] \/ k \in Coming'
        <3>1. /\ newest[k] <= count[k] /\ (readAt[k] # None => readAt[k] <= count[k])
              /\ Loading /\ readAt[k] = None => newest[k] = 0
              /\ Loading /\ readAt[k] # None => (newest[k] <= readAt[k] \/ k \in stale)
              /\ Loading /\ readAt[k] # None =>
                    newest[k] = count[k] \/ readAt[k] = count[k] \/ k \in Coming
              /\ popup.state = "live" \/ kind = "buffer" => newest[k] = count[k] \/ k \in Coming
            BY DEF Inv, ReachInv
        <3>2. /\ count[k] \in Nat /\ count'[k] \in Nat /\ newest[k] \in Nat /\ count[k] <= count'[k]
              /\ readAt[k] # None => readAt[k] \in Nat
            BY DEF Inv, TypeInv
        <3>3. newest[k] <= count'[k] /\ (readAt[k] # None => readAt[k] <= count'[k])
            BY <3>1, <3>2
        <3>4. CASE k = x
            BY <3>1, <3>3, <3>4
        <3>5. CASE k # x
            <4>1. count'[k] = count[k] /\ (k \in Coming => k \in Coming')
                BY <3>5
            <4> QED BY <3>1, <3>3, <4>1
        <3> QED BY <3>4, <3>5
    <2> QED BY <2>1, <2>2 DEF ReachInv
<1>4. CopyInv'
    BY CopyStays DEF Inv
<1>5. ViewInv'
    BY ViewStays DEF Inv
<1> QED BY <1>1, <1>2, <1>3, <1>4, <1>5

\* A change of the other manager.
LEMMA OtherChangesKeeps == ASSUME Inv, NEW k \in Keys, NEW c \in Changes(k), OtherChanges(c) PROVE Inv'
<1>1. /\ UNCHANGED <<kind, requests, answers, alive, channel, popup, copy, watch, form, view>>
      /\ UNCHANGED <<readAt, newest, stale>>
      /\ server["other"] = Idle /\ Begins("other", c, 0)
    BY DEF OtherChanges, ghostVars
<1>2. c \in Change /\ "other" \in Managers /\ 0 \in Nat /\ "mine" \in Managers \ {"other"}
    BY DEF Change, Managers
<1>3. PICK v : v = ValueAfter(c)
    OBVIOUS
<1>4. /\ c.key \in Keys /\ Grows /\ ServerInv'
      /\ truth' \in [Keys -> Known] /\ count' \in [Keys -> Nat] /\ raced' \in SUBSET Keys
      /\ server' \in [Managers -> {Idle} \cup BusyJob \cup ReadJob]
      /\ \A l \in Managers \ {"other"} : server'[l] = server[l]
      /\ stream' \in Seq(SoundEvents')
      /\ \A l \in Keys : count[l] <= count'[l]
      /\ \A l \in Keys \ {c.key} : count'[l] = count[l]
      /\ c.key \in Coming' /\ \A l \in Coming \ {c.key} : l \in Coming'
    BY <1>1, <1>2, <1>3, BeginsWell
<1>5. TypeInv'
    BY <1>1, <1>4, KindStays DEF Inv, TypeInv
<1>6. FlowInv' /\ PopupInv' /\ ReachInv' /\ CopyInv' /\ ViewInv'
    BY <1>1, <1>4, BeginsRest
<1>7. server'["mine"] = server["mine"]
    BY <1>2, <1>4
<1>8. ListsInv'
    BY <1>1, <1>4, <1>7, ListsStays DEF Inv
<1>9. FormInv'
    BY <1>1, <1>4, <1>7, FormStays DEF Inv
<1> QED BY <1>4, <1>5, <1>6, <1>8, <1>9 DEF Inv

\* A form's request is taken, and refused, answered at once, or begun with.
LEMMA FormServed ==
    ASSUME Inv, Grows, UNCHANGED <<form, alive, popup, watch>>,
           NEW r, requests # <<>>, r = Head(requests), r.type = "set", requests' = Tail(requests),
           Ours' => /\ answers' = answers
                    /\ server'["mine"].id = r.id /\ server'["mine"].key = r.change.key
                    /\ [key |-> r.change.key, value |-> server'["mine"].value,
                        count |-> server'["mine"].count] \in SoundEvents'
                    /\ \/ r.change.op = "update" /\ r.change.value = None
                       \/ server'["mine"].value = r.change.value,
           NEW ans,
           \/ answers' = answers
           \/ /\ answers' = Append(answers, ans) /\ ans \in DoneAnswer /\ ans.id = r.id
              /\ ans.ok => /\ [key |-> r.change.key, value |-> ans.value, count |-> ans.count] \in SoundEvents'
                           /\ \/ r.change.op = "update" /\ r.change.value = None
                              \/ ans.value = r.change.value
    PROVE  FormInv'
<1>1. /\ requests \in Seq(ListRequest \cup SetRequest) /\ answers \in Seq(ListAnswer \cup DoneAnswer)
      /\ form \in Forms
    BY DEF Inv, TypeInv
<1>2. /\ r = requests[1] /\ 1 \in 1 .. Len(requests)
      /\ \A i \in 1 .. Len(requests') : i + 1 \in 1 .. Len(requests) /\ requests'[i] = requests[i + 1]
    BY <1>1, TailAt
<1>3. 1 \in SetRequests
    BY <1>2 DEF SetRequests
<1>4. ASSUME alive
      PROVE  /\ form.state = "waiting" /\ r.id = form.id /\ r.change = form.change
             /\ ~Ours /\ DoneAnswers = {} /\ \A i \in SetRequests : i = 1
    BY <1>2, <1>3, <1>4 DEF Inv, FormInv
<1>5. alive => SetRequests' = {}
    <2> SUFFICES ASSUME alive, NEW i \in SetRequests' PROVE FALSE
        OBVIOUS
    <2>1. i \in Nat /\ i # 0 /\ i + 1 \in SetRequests
        BY <1>2 DEF SetRequests
    <2> QED BY <1>4, <2>1
<1>6. \/ DoneAnswers' = DoneAnswers /\ answers' = answers
      \/ /\ ~Ours'
         /\ \A i \in DoneAnswers' : i \in DoneAnswers \/ (i = Len(answers) + 1 /\ answers'[i] = ans)
         /\ answers' = Append(answers, ans) /\ ans \in DoneAnswer /\ ans.id = r.id
         /\ ans.ok => /\ [key |-> r.change.key, value |-> ans.value, count |-> ans.count] \in SoundEvents'
                      /\ \/ r.change.op = "update" /\ r.change.value = None
                         \/ ans.value = r.change.value
    <2>1. CASE answers' = answers
        BY <2>1 DEF DoneAnswers
    <2>2. CASE answers' # answers
        <3>1. /\ ~Ours' /\ answers' = Append(answers, ans) /\ ans \in DoneAnswer /\ ans.id = r.id
              /\ ans.ok => /\ [key |-> r.change.key, value |-> ans.value, count |-> ans.count] \in SoundEvents'
                           /\ \/ r.change.op = "update" /\ r.change.value = None
                              \/ ans.value = r.change.value
            BY <2>2
        <3>2. \A i \in 1 .. Len(answers') : \/ i \in 1 .. Len(answers) /\ answers'[i] = answers[i]
                                            \/ i = Len(answers) + 1 /\ answers'[i] = ans
            BY <1>1, <3>1, AppendAt
        <3> QED BY <3>1, <3>2 DEF DoneAnswers
    <2> QED BY <2>1, <2>2
<1>7. alive => /\ \A i \in DoneAnswers' :
                     /\ answers'[i].id = form.id
                     /\ answers'[i].ok =>
                           /\ [key |-> form.change.key, value |-> answers'[i].value,
                               count |-> answers'[i].count] \in SoundEvents'
                           /\ \/ form.change.op = "update" /\ form.change.value = None
                              \/ answers'[i].value = form.change.value
               /\ \A i, j \in DoneAnswers' : i = j
               /\ DoneAnswers' # {} => ~Ours'
    BY <1>4, <1>6
<1>8. alive /\ Ours' =>
         /\ server'["mine"].id = form.id /\ server'["mine"].key = form.change.key
         /\ [key |-> form.change.key, value |-> server'["mine"].value,
             count |-> server'["mine"].count] \in SoundEvents'
         /\ \/ form.change.op = "update" /\ form.change.value = None
            \/ server'["mine"].value = form.change.value
    BY <1>4
<1>9. /\ form.state = "ready" /\ form.ok => Made(form.change, form.value, form.count)
      /\ form.state # "none" => popup.state = "live" /\ form.change \in Change
      /\ form.state # "none" /\ form.change.op = "update" =>
            form.role # None /\ [key |-> form.change.key, value |-> form.role] \in had
      /\ watch.form # None => form.state # "none" /\ form.change.op = "update"
      /\ kind = "methods" => form.state # "open"
    BY DEF Inv, FormInv
<1>10. ASSUME NEW x, NEW v, NEW n, Made(x, v, n) PROVE Made(x, v, n)'
    BY <1>10 DEF Made, Sound, Grows
<1>11. had \subseteq had' /\ kind' = kind /\ Change' = Change
    BY KindStays DEF Grows
<1>12. alive' => /\ \A i \in DoneAnswers' :
                       /\ form'.state = "waiting" /\ answers'[i].id = form'.id
                       /\ answers'[i].ok => Made(form.change, answers[i].value, answers[i].count)'
                 /\ Ours' => /\ form'.state = "waiting" /\ server'["mine"].id = form'.id
                             /\ server'["mine"].key = form'.change.key
                             /\ Made(form.change, server["mine"].value, server["mine"].count)'
    BY <1>4, <1>7, <1>8 DEF Made, Sound
<1>13. form'.state = "ready" /\ form'.ok => Made(form.change, form.value, form.count)'
    BY <1>9, <1>10
<1> QED BY <1>5, <1>7, <1>9, <1>11, <1>12, <1>13 DEF FormInv

\* The handler takes our request for a change.
LEMMA ServeChangeKeeps == ASSUME Inv, ServeChange PROVE Inv'
<1>1. /\ UNCHANGED <<kind, alive, channel, popup, copy, watch, form, view, newest, stale>>
      /\ server["mine"] = Idle /\ requests # <<>>
    BY DEF ServeChange, ghostVars
<1>2. PICK r : r = Head(requests)
    OBVIOUS
<1>3. PICK bound \in BOOLEAN : OurChange(r.change, r.id, bound)
    BY <1>2 DEF ServeChange
<1>4. r.type = "set" /\ requests' = Tail(requests) /\ readAt' = readAt
    BY <1>2, <1>3 DEF ServeChange, OurChange
<1>5. /\ requests \in Seq(ListRequest \cup SetRequest) /\ answers \in Seq(ListAnswer \cup DoneAnswer)
      /\ kind \in Kinds
    BY DEF Inv, TypeInv
<1>6. /\ r \in SetRequest
      /\ requests' \in Seq(ListRequest \cup SetRequest)
      /\ \A i \in 1 .. Len(requests') : i + 1 \in 1 .. Len(requests) /\ requests'[i] = requests[i + 1]
    <2>1. r \in ListRequest \cup SetRequest
        BY <1>1, <1>2, <1>5
    <2> QED BY <1>1, <1>4, <1>5, <2>1, TailAt DEF ListRequest
<1> DEFINE c == r.change
<1>7. c \in Change /\ r.id \in Nat /\ "mine" \in Managers /\ 0 \in Nat /\ 1 \in Nat
    BY <1>6 DEF SetRequest, Managers
<1>8. CASE Refused(c) \/ ~bound
    <2> DEFINE ans == [type |-> "done", id |-> r.id, ok |-> FALSE, value |-> None, count |-> 0]
    <2>1. answers' = Append(answers, ans) /\ UNCHANGED <<truth, server, stream, count, raced, had>>
        BY <1>3, <1>8 DEF OurChange, Answer
    <2>2. ans \in DoneAnswer /\ ans.type = "done" /\ ~ans.ok /\ ans.id = r.id
        BY <1>7 DEF DoneAnswer
    <2> HIDE DEF ans
    <2>3. /\ answers' \in Seq(ListAnswer \cup DoneAnswer)
          /\ \A i \in 1 .. Len(answers') : \/ i \in 1 .. Len(answers) /\ answers'[i] = answers[i]
                                           \/ i = Len(answers) + 1 /\ answers'[i] = ans
        BY <1>5, <2>1, <2>2, AppendAt
    <2>4. Grows /\ ServerInv'
        BY <1>1, <2>1, QuietStays DEF Inv, SameJobs
    <2>5. TypeInv'
        BY <1>1, <1>4, <1>6, <2>1, <2>3, KindStays DEF Inv, TypeInv
    <2>6. FlowInv'
        BY <1>1, <2>1, <2>4, FlowStays DEF Inv, FlowInv
    <2>7. ListsInv'
        <3>1. \A i \in 1 .. Len(answers') : answers'[i].type = "list" =>
                  i + 0 \in 1 .. Len(answers) /\ answers'[i] = answers[i + 0]
            BY <2>2, <2>3
        <3>2. ListsInv /\ UNCHANGED <<readAt, popup, server>>
            BY <1>1, <1>4, <2>1 DEF Inv
        <3> QED BY <1>6, <1>7, <2>4, <3>1, <3>2, ListsLess
    <2>8. FormInv'
        <3>1. ~Ours'
            BY <1>1, <2>1 DEF Ours, Idle
        <3> QED BY <1>1, <1>2, <1>4, <2>1, <2>2, <2>4, <3>1, FormServed
    <2>9. PopupInv'
        BY <1>1 DEF Inv, PopupInv
    <2>10. ReachInv'
        BY <1>1, <1>4, <2>1, ComingStays, ReachStays DEF Inv
    <2>11. CopyInv'
        BY <1>1, <2>4, CopyStays DEF Inv
    <2>12. ViewInv'
        BY <1>1, <2>4, ViewStays DEF Inv
    <2> QED BY <2>4, <2>5, <2>6, <2>7, <2>8, <2>9, <2>10, <2>11, <2>12 DEF Inv
<1>9. CASE ~(Refused(c) \/ ~bound)
    <2> DEFINE ans == [type |-> "done", id |-> r.id, ok |-> TRUE, value |-> c.value,
                       count |-> count'[c.key]]
    <2>1. /\ Begins("mine", c, r.id)
          /\ answers' = IF kind # "sockets" THEN answers ELSE Append(answers, ans)
        BY <1>3, <1>9 DEF OurChange, Answer
    <2>2. PICK v : v = ValueAfter(c)
        OBVIOUS
    <2>3. /\ c.key \in Keys /\ v \in Known /\ Grows /\ ServerInv'
          /\ [key |-> c.key, value |-> v, count |-> count'[c.key]] \in SoundEvents'
          /\ truth' \in [Keys -> Known] /\ count' \in [Keys -> Nat] /\ raced' \in SUBSET Keys
          /\ server' \in [Managers -> {Idle} \cup BusyJob \cup ReadJob]
          /\ kind = "sockets" => server' = server
          /\ kind # "sockets" =>
                /\ server'["mine"].step \in {"log", "store"} /\ server'["mine"].key = c.key
                /\ server'["mine"].value = v /\ server'["mine"].count = count'[c.key]
                /\ server'["mine"].id = r.id
          /\ stream' \in Seq(SoundEvents')
          /\ \A l \in Keys : count[l] <= count'[l]
          /\ \A l \in Keys \ {c.key} : count'[l] = count[l]
          /\ c.key \in Coming' /\ \A l \in Coming \ {c.key} : l \in Coming'
        BY <1>1, <1>7, <2>1, <2>2, BeginsWell
    <2>4. /\ (c.op = "update" /\ c.value = None) \/ v = c.value
          /\ kind = "sockets" => v = c.value /\ c.value \in Known
        BY <1>5, <1>7, <2>2, ChangeIs DEF ValueAfter
    <2>5. /\ ans.type = "done" /\ ans.ok /\ ans.id = r.id /\ ans.value = c.value
          /\ ans.count = count'[c.key] /\ (kind = "sockets" => ans \in DoneAnswer)
        BY <1>7, <2>3, <2>4 DEF DoneAnswer
    <2> HIDE DEF ans
    <2>6. /\ answers' \in Seq(ListAnswer \cup DoneAnswer)
          /\ \A i \in 1 .. Len(answers') : \/ i \in 1 .. Len(answers) /\ answers'[i] = answers[i]
                                           \/ i = Len(answers) + 1 /\ answers'[i] = ans
        <3>1. CASE kind = "sockets"
            BY <1>5, <2>1, <2>5, <3>1, AppendAt
        <3>2. CASE kind # "sockets"
            BY <1>5, <2>1, <3>2
        <3> QED BY <3>1, <3>2
    <2>7. TypeInv'
        BY <1>1, <1>4, <1>6, <2>3, <2>6, KindStays DEF Inv, TypeInv
    <2>8. FlowInv' /\ PopupInv' /\ ReachInv' /\ CopyInv' /\ ViewInv'
        BY <1>1, <1>4, <2>3, BeginsRest
    <2>9. ListsInv'
        <3>1. \A i \in 1 .. Len(answers') : answers'[i].type = "list" =>
                  i + 0 \in 1 .. Len(answers) /\ answers'[i] = answers[i + 0]
            BY <2>5, <2>6
        <3>2. ListsInv /\ UNCHANGED <<readAt, popup>>
            BY <1>1, <1>4 DEF Inv
        <3>3. server'["mine"].step # "read"
            BY <1>1, <2>3 DEF Idle
        <3> QED BY <1>6, <1>7, <2>3, <3>1, <3>2, <3>3, ListsLess
    <2>10. FormInv'
        <3>1. CASE kind = "sockets"
            <4>1. ~Ours'
                BY <1>1, <2>3, <3>1 DEF Ours, Idle
            <4>2. answers' = Append(answers, ans) /\ ans \in DoneAnswer
                BY <2>1, <2>5, <3>1
            <4>3. ans.ok => /\ [key |-> c.key, value |-> ans.value, count |-> ans.count] \in SoundEvents'
                            /\ \/ c.op = "update" /\ c.value = None
                               \/ ans.value = c.value
                BY <2>3, <2>4, <2>5, <3>1
            <4>4. UNCHANGED <<form, alive, popup, watch>> /\ requests # <<>>
                BY <1>1
            <4> QED BY <1>2, <1>4, <2>3, <2>5, <4>1, <4>2, <4>3, <4>4, FormServed
        <3>2. CASE kind # "sockets"
            <4>1. answers' = answers
                BY <2>1, <3>2
            <4> QED BY <1>1, <1>2, <1>4, <2>3, <2>4, <3>2, <4>1, FormServed
        <3> QED BY <3>1, <3>2
    <2> QED BY <2>3, <2>7, <2>8, <2>9, <2>10 DEF Inv
<1> QED BY <1>8, <1>9

\* A handler's second step: the event of its change, or the store; and our answer.
LEMMA FinishesKeeps == ASSUME Inv, NEW m \in Managers, Finishes(m) PROVE Inv'
<1> DEFINE c == server[m]
           event == [key |-> c.key, value |-> c.value, count |-> c.count]
           ans == [type |-> "done", id |-> c.id, ok |-> TRUE, value |-> c.value, count |-> c.count]
<1>1. /\ UNCHANGED <<kind, requests, alive, channel, popup, copy, watch, form, view>>
      /\ UNCHANGED <<count, readAt, newest, stale, raced, had>>
      /\ c.step \in {"log", "store"} /\ server' = [server EXCEPT ![m] = Idle]
      /\ stream' = IF c.step = "log" THEN Append(stream, event) ELSE stream
      /\ truth' = IF c.step = "log" THEN truth ELSE [truth EXCEPT ![c.key] = c.value]
      /\ answers' = IF m = "mine" THEN Append(answers, ans) ELSE answers
    BY DEF Finishes, Answer, ghostVars
<1>2. /\ kind \in Kinds /\ truth \in [Keys -> Known] /\ count \in [Keys -> Nat]
      /\ server \in [Managers -> {Idle} \cup BusyJob \cup ReadJob]
      /\ answers \in Seq(ListAnswer \cup DoneAnswer)
    BY DEF Inv, TypeInv
<1>3. c \in BusyJob
    <2>1. c \in {Idle} \cup BusyJob \cup ReadJob
        BY <1>2
    <2> QED BY <1>1, <2>1 DEF Idle, ReadJob
<1>4. /\ c.key \in Keys /\ c.value \in Known /\ c.count \in Nat /\ c.id \in Nat
      /\ (c.step = "store" <=> kind = "buffer") /\ (c.step = "log" <=> kind # "buffer")
    BY <1>3 DEF BusyJob
<1>5. /\ server'[m] = Idle /\ \A l \in Managers \ {m} : server'[l] = server[l]
      /\ server' \in [Managers -> {Idle} \cup BusyJob \cup ReadJob]
    BY <1>1, <1>2
<1>6. event \in SoundEvents
    BY <1>1 DEF Inv, ServerInv, Sound
<1>7. \A k : Busy(k)' = Busy(k) \ {m}
    <2>1. \A l \in Managers : server'[l].step \in {"log", "store"} <=>
                                 l # m /\ server[l].step \in {"log", "store"}
        BY <1>5 DEF Idle
    <2> QED BY <1>5, <2>1 DEF Busy
<1>8. truth' \in [Keys -> Known]
    BY <1>1, <1>2, <1>4
<1>9. /\ Keys' = Keys /\ Known' = Known /\ Event' = Event
    BY <1>1, KindStays
<1>10. SoundEvents \subseteq SoundEvents'
    <2> SUFFICES ASSUME NEW e \in SoundEvents PROVE e \in SoundEvents'
        OBVIOUS
    <2> DEFINE k == e.key
               v == e.value
    <2>1. /\ e \in Event /\ [key |-> k, value |-> v] \in had /\ e.count <= count[k]
          /\ e.count = count[k] /\ k \notin raced => Current(k, v)
        BY DEF SoundEvents
    <2>2. k \in Keys
        BY <2>1 DEF Event
    <2>3. ASSUME k \notin raced, Current(k, v) PROVE Current(k, v)'
        <3>1. CASE kind # "buffer"
            BY <1>1, <1>4, <2>3, <3>1 DEF Current
        <3>2. CASE kind = "buffer"
            <4>1. k = c.key
                BY <1>4, <2>2, <3>2 DEF Keys, KeysOf
            <4>2. m \in Busy(k)
                BY <1>1, <4>1 DEF Busy
            <4>3. \A n \in Busy(k) : n = m
                BY <2>2, <2>3, <3>2, <4>2 DEF Inv, ServerInv
            <4>4. c.value = v
                BY <2>3, <3>2, <4>2 DEF Current
            <4>5. Busy(k)' = {}
                BY <1>7, <4>3
            <4>6. truth'[k] = v
                BY <1>1, <1>2, <1>4, <3>2, <4>1, <4>4
            <4> QED BY <4>5, <4>6 DEF Current
        <3> QED BY <3>1, <3>2
    <2> QED BY <1>1, <1>9, <2>1, <2>3 DEF SoundEvents
<1>11. Grows
    BY <1>1, <1>2, <1>10, GrowsBy
<1>12. ServerInv'
    <2>1. \A k \in Keys : [key |-> k, value |-> truth'[k]] \in had
        <3>1. [key |-> c.key, value |-> c.value] \in had
            BY <1>6 DEF SoundEvents
        <3>2. ASSUME NEW k \in Keys PROVE truth'[k] = truth[k] \/ (k = c.key /\ truth'[k] = c.value)
            BY <1>1, <1>2, <1>4
        <3> QED BY <3>1, <3>2 DEF Inv, ServerInv
    <2>2. ASSUME NEW l \in Managers, server'[l].step \in {"log", "store"}
          PROVE  /\ server'[l] = server[l]
                 /\ [key |-> server[l].key, value |-> server[l].value,
                     count |-> server[l].count] \in SoundEvents'
        <3>1. l # m
            BY <1>5, <2>2 DEF Idle
        <3>2. server'[l] = server[l]
            BY <1>5, <3>1
        <3> QED BY <1>10, <2>2, <3>2 DEF Inv, ServerInv, Sound
    <2>3. kind = "buffer" => \A k \in Keys \ raced : \A l \in Busy(k)' :
             server'[l].count = count[k] /\ \A n \in Busy(k)' : n = l
        BY <1>5, <1>7 DEF Inv, ServerInv, Busy
    <2> QED BY <1>1, <1>9, <2>1, <2>2, <2>3 DEF ServerInv, Sound
<1>13. ans \in DoneAnswer /\ ans.type = "done" /\ ans.ok /\ ans.id = c.id /\ ans.value = c.value
       /\ ans.count = c.count
    BY <1>4 DEF DoneAnswer
<1> HIDE DEF ans
<1>14. /\ answers' \in Seq(ListAnswer \cup DoneAnswer)
       /\ \A i \in 1 .. Len(answers') :
             \/ i \in 1 .. Len(answers) /\ answers'[i] = answers[i]
             \/ m = "mine" /\ i = Len(answers) + 1 /\ answers'[i] = ans
    <2>1. CASE m = "mine"
        BY <1>1, <1>2, <1>13, <2>1, AppendAt
    <2>2. CASE m # "mine"
        BY <1>1, <1>2, <2>2
    <2> QED BY <2>1, <2>2
<1>15. TypeInv'
    BY <1>1, <1>5, <1>8, <1>14, KindStays DEF Inv, TypeInv
<1>16. /\ stream \in Seq(SoundEvents') /\ channel \in Seq(SoundEvents')
       /\ watch \in [popup : Seq(SoundItems') \cup {None}, form : Seq(SoundItems') \cup {None}]
    BY <1>11, FlowStays DEF Inv
<1>17. FlowInv'
    <2>1. event \in SoundEvents'
        BY <1>6, <1>10
    <2> HIDE DEF event
    <2>2. stream' \in Seq(SoundEvents')
        BY <1>1, <1>16, <2>1, AppendAt
    <2> QED BY <1>1, <1>16, <2>2 DEF FlowInv
<1>18. ListsInv'
    <2>1. \A i \in 1 .. Len(answers') : answers'[i].type = "list" =>
              i + 0 \in 1 .. Len(answers) /\ answers'[i] = answers[i + 0]
        BY <1>13, <1>14
    <2>2. \A i \in 1 .. Len(requests') : i + 0 \in 1 .. Len(requests) /\ requests'[i] = requests[i + 0]
        BY <1>1
    <2>3. server'["mine"].step # "read" \/ server'["mine"] = server["mine"]
        BY <1>5 DEF Managers, Idle
    <2>4. ListsInv /\ UNCHANGED <<readAt, popup>> /\ 0 \in Nat
        BY <1>1 DEF Inv
    <2>5. popup'.id = popup.id /\ (popup'.state = "ready" => popup' = popup)
        BY <2>4
    <2> QED BY <1>11, <2>1, <2>2, <2>3, <2>4, <2>5, ListsLess
<1>19. FormInv'
    <2>1. CASE m # "mine"
        <3>1. server'["mine"] = server["mine"] /\ answers' = answers
            BY <1>1, <1>5, <2>1 DEF Managers
        <3> QED BY <1>1, <1>11, <3>1, FormStays DEF Inv
    <2>2. CASE m = "mine"
        <3>1. Ours /\ ~Ours'
            BY <1>1, <1>5, <2>2 DEF Ours, Idle
        <3>2. SetRequests' = SetRequests
            BY <1>1 DEF SetRequests
        <3>3. alive => /\ form.state = "waiting" /\ c.id = form.id /\ c.key = form.change.key
                       /\ Made(form.change, c.value, c.count)
                       /\ SetRequests = {} /\ DoneAnswers = {}
            BY <2>2, <3>1 DEF Inv, FormInv
        <3>4. alive => \A i \in DoneAnswers' : i = Len(answers) + 1 /\ answers'[i] = ans
            BY <1>14, <3>3 DEF DoneAnswers
        <3>5. ASSUME NEW x, NEW v, NEW n, Made(x, v, n) PROVE Made(x, v, n)'
            BY <1>11, <3>5 DEF Made, Sound, Grows
        <3>6. alive => \A i \in DoneAnswers' : Made(form.change, answers[i].value, answers[i].count)'
            <4> SUFFICES ASSUME alive, NEW i \in DoneAnswers'
                         PROVE  Made(form.change, answers[i].value, answers[i].count)'
                OBVIOUS
            <4>1. answers'[i].value = c.value /\ answers'[i].count = c.count
                BY <1>13, <3>4
            <4>2. Sound(form.change.key, c.value, c.count)
                BY <3>3 DEF Made
            <4>3. [key |-> form.change.key, value |-> c.value, count |-> c.count] \in SoundEvents'
                BY <1>10, <4>2 DEF Sound
            <4> QED BY <1>1, <3>3, <4>1, <4>3 DEF Made, Sound
        <3>7. /\ form.state = "ready" /\ form.ok => Made(form.change, form.value, form.count)
              /\ form.state # "none" => popup.state = "live" /\ form.change \in Change
              /\ form.state # "none" /\ form.change.op = "update" =>
                    form.role # None /\ [key |-> form.change.key, value |-> form.role] \in had
              /\ watch.form # None => form.state # "none" /\ form.change.op = "update"
              /\ kind = "methods" => form.state # "open"
            BY DEF Inv, FormInv
        <3>8. form'.state = "ready" /\ form'.ok => Made(form.change, form.value, form.count)'
            BY <1>1, <1>10, <3>7 DEF Made, Sound
        <3>9. Change' = Change
            BY <1>1, KindStays
        <3>10. alive' => \A i \in DoneAnswers' : form'.state = "waiting" /\ answers'[i].id = form'.id
            BY <1>1, <1>13, <3>3, <3>4
        <3>11. alive' => SetRequests' = {} /\ \A i, j \in DoneAnswers' : i = j
            BY <1>1, <3>2, <3>3, <3>4
        <3> QED BY <1>1, <3>1, <3>6, <3>7, <3>8, <3>9, <3>10, <3>11 DEF FormInv
    <2> QED BY <2>1, <2>2
<1>20. PopupInv'
    BY <1>1 DEF Inv, PopupInv
<1>21. ReachInv'
    <2>1. stream \in Seq(SoundEvents)
        BY DEF Inv, FlowInv
    <2>2. \A i \in 1 .. Len(stream) : i \in 1 .. Len(stream') /\ stream'[i] = stream[i]
        BY <1>1, <2>1, <1>6, AppendAt
    <2>3. c.step = "log" => Len(stream) + 1 \in 1 .. Len(stream') /\ stream'[Len(stream) + 1] = event
        BY <1>1, <2>1, <1>6, AppendAt
    <2>4. ASSUME NEW k \in Coming PROVE k \in Coming'
        <3>1. k \in Keys
            BY DEF Coming
        <3>2. CASE \E l \in Managers : server[l].step = "log" /\ server[l].key = k /\ server[l].count = count[k]
            <4>1. PICK l \in Managers : server[l].step = "log" /\ server[l].key = k /\ server[l].count = count[k]
                BY <3>2
            <4>2. CASE l = m
                <5>1. Len(stream) + 1 \in 1 .. Len(stream') /\ stream'[Len(stream) + 1] = event
                    BY <2>3, <4>1, <4>2
                <5>2. event.key = k /\ event.count = count[k]
                    BY <4>1, <4>2
                <5> QED BY <1>1, <1>9, <3>1, <5>1, <5>2 DEF Coming
            <4>3. CASE l # m
                <5>1. server'[l] = server[l]
                    BY <1>5, <4>3
                <5> QED BY <1>1, <1>9, <3>1, <4>1, <5>1 DEF Coming
            <4> QED BY <4>2, <4>3
        <3>3. CASE \E i \in 1 .. Len(stream) : stream[i].key = k /\ stream[i].count = count[k]
            BY <1>1, <1>9, <2>2, <3>1, <3>3 DEF Coming
        <3>4. CASE \/ \E i \in 1 .. Len(channel) : channel[i].key = k /\ channel[i].count = count[k]
                   \/ /\ watch.popup # None
                      /\ \E i \in 1 .. Len(watch.popup) :
                            watch.popup[i].key = k /\ watch.popup[i].count = count[k]
            BY <1>1, <1>9, <3>1, <3>4 DEF Coming
        <3> QED BY <3>2, <3>3, <3>4 DEF Coming
    <2> QED BY <1>1, <2>4, ReachStays DEF Inv
<1>22. CopyInv'
    BY <1>1, <1>11, CopyStays DEF Inv
<1>23. ViewInv'
    BY <1>1, <1>11, ViewStays DEF Inv
<1> QED BY <1>12, <1>15, <1>17, <1>18, <1>19, <1>20, <1>21, <1>22, <1>23 DEF Inv

\* Nothing happens.
LEMMA StutterKeeps == ASSUME Inv, UNCHANGED vars PROVE Inv'
<1>1. /\ UNCHANGED <<kind, serverVars>> /\ UNCHANGED <<alive, channel, copy, form>>
      /\ UNCHANGED <<newest, stale, watch, popup>> /\ UNCHANGED view
    BY DEF vars, serverVars
<1>2. Grows /\ UNCHANGED <<truth, server, requests, answers, count, readAt, raced>>
    BY <1>1, ClientStep
<1>3. TypeInv'
    BY <1>1, <1>2, KindStays DEF Inv, TypeInv
<1>4. ViewInv'
    BY <1>1, <1>2, ViewStays DEF Inv
<1> QED BY <1>1, <1>3, <1>4, ScreenStep

\* Every step keeps the invariant.
LEMMA NextInv == Inv /\ [Next]_vars => Inv'
<1> SUFFICES ASSUME Inv, [Next]_vars PROVE Inv'
    OBVIOUS
<1>1. CASE ServerStep
    BY <1>1, ServeChangeKeeps, ServeListKeeps, ServeReadKeeps, FinishesKeeps DEF ServerStep
<1>2. CASE \E k \in Keys : \E c \in Changes(k) : OtherChanges(c)
    BY <1>2, OtherChangesKeeps
<1>3. CASE ReadEvent \/ ReadAnswer \/ Forward \/ ConnectionFails
    BY <1>3, ReadEventKeeps, ReadAnswerKeeps, ForwardKeeps, ConnectionFailsKeeps
<1>4. CASE PopupLoads \/ PopupApplies \/ PopupFails \/ Render
    BY <1>4, PopupLoadsKeeps, PopupAppliesKeeps, PopupFailsKeeps, RenderKeeps
<1>5. CASE FormFollows \/ FormAnswered \/ FormFails
    BY <1>5, FormFollowsKeeps, FormAnsweredKeeps, FormFailsKeeps
<1>6. CASE UserStep
    <2>1. CASE OpenPopup \/ ClosePopup \/ ChangeFilter \/ Select
        BY <2>1, OpenPopupKeeps, ClosePopupKeeps, ChangeFilterKeeps, SelectKeeps
    <2>2. CASE OpenForm \/ TurnToDelete \/ Submit \/ Toggle \/ CloseForm
        BY <2>2, OpenFormKeeps, TurnToDeleteKeeps, SubmitKeeps, ToggleKeeps, CloseFormKeeps
    <2> QED BY <1>6, <2>1, <2>2 DEF UserStep
<1>7. CASE UNCHANGED vars
    BY <1>7, StutterKeeps
<1> QED BY <1>1, <1>2, <1>3, <1>4, <1>5, <1>6, <1>7 DEF Next

\* The inductive invariant, always.
LEMMA InvHolds == Spec => []Inv
    BY InitInv, NextInv, PTL DEF Spec

--------------------------------------------------------------------------------
(***************************************************************************)
(* The properties.                                                         *)
(***************************************************************************)

\* A list is in order, has no key twice and no value that is absent, and a selection
\* that is in it, whatever comes in whatever order.
THEOREM ListsAreInOrder == Spec => []ListInv
<1>1. Inv => ListInv
    <2> SUFFICES ASSUME Inv PROVE ListInv
        OBVIOUS
    <2>1. kind \in Kinds /\ copy \in Lists
        BY DEF Inv, TypeInv, CopyInv
    <2>2. /\ \A i, j \in 1 .. Len(copy) : copy[i].key = copy[j].key => i = j
          /\ kind \in {"users", "sockets"} => InOrder(copy)
          /\ copy \in Seq(Entry)
        BY <2>1 DEF Lists
    <2>3. kind = "methods" /\ popup.state = "live" => Len(copy) = Cardinality(Methods)
        <3>1. IsFiniteSet({"NoAuth"}) /\ Cardinality({"NoAuth"}) = 1
            BY FS_Singleton
        <3>2. "UsernameAndPassword" \notin {"NoAuth"}
            OBVIOUS
        <3>3. Cardinality({"NoAuth"} \cup {"UsernameAndPassword"}) = 1 + 1
            BY <3>1, <3>2, FS_AddElement
        <3>4. Methods = {"NoAuth"} \cup {"UsernameAndPassword"}
            BY DEF Methods
        <3>5. Cardinality(Methods) = 2
            BY <3>3, <3>4
        <3> QED BY <3>5 DEF Inv, CopyInv, BothMethods
    <2>4. {e \in Range(copy) : e.value = None} = {}
        <3> SUFFICES ASSUME NEW e \in Range(copy), e.value = None PROVE FALSE
            OBVIOUS
        <3>1. PICK i \in 1 .. Len(copy) : e = copy[i]
            BY <2>2 DEF Range
        <3>2. e \in Entry
            BY <2>2, <3>1
        <3> QED BY <2>1, <3>2, NoneApart DEF Entry
    <2> QED BY <2>2, <2>3, <2>4 DEF Inv, CopyInv, ViewInv, ListInv
<1> QED BY <1>1, InvHolds, PTL

\* What is shown has been so at the server, refused requests, guesses and late answers
\* notwithstanding.
THEOREM NothingIsInvented == Spec => []NothingInvented
<1>1. Inv => NothingInvented
    <2> SUFFICES ASSUME Inv PROVE NothingInvented
        OBVIOUS
    <2>1. copy \in Seq(Entry) /\ view.shown \in Seq(Entry)
        BY DEF Inv, TypeInv, Views, CopyInv, Lists
    <2> QED BY <2>1 DEF Inv, CopyInv, ViewInv, NothingInvented, Range
<1> QED BY <1>1, InvHolds, PTL

\* Once everything has arrived the copy is what the server has, but for the keys whose
\* latest change was lost, undone, or raced.
THEOREM CopiesBecomeTrue == Spec => []CopyTrue
<1>1. Inv => CopyTrue
    <2> SUFFICES ASSUME Inv, Settled, NEW k \in Keys \ (stale \cup raced)
                 PROVE  truth[k] = IF At(copy, k) = {} THEN None ELSE copy[Min(At(copy, k))].value
        BY DEF CopyTrue
    <2>1. /\ popup.state = "live" /\ \A m \in Managers : server[m].step = "idle"
          /\ Len(stream) = 0 /\ Len(channel) = 0 /\ Len(watch.popup) = 0
        BY DEF Settled, Idle
    <2>2. Coming = {}
        BY <2>1 DEF Coming
    <2>3. newest[k] = count[k]
        BY <2>1, <2>2 DEF Inv, ReachInv
    <2>4. PICK v \in Known : Shows(copy, k, v) /\ Sound(k, v, newest[k])
        BY <2>1 DEF Inv, CopyInv
    <2>5. truth[k] = v
        <3>1. Current(k, v)
            BY <2>3, <2>4 DEF Sound, SoundEvents
        <3>2. Busy(k) = {}
            BY <2>1 DEF Busy
        <3> QED BY <3>1, <3>2 DEF Current
    <2>6. CASE v = None
        BY <2>4, <2>5, <2>6 DEF Shows, At
    <2>7. CASE v # None
        <3>1. PICK i \in 1 .. Len(copy) : copy[i] = [key |-> k, value |-> v]
            BY <2>4, <2>7 DEF Shows
        <3>2. i \in At(copy, k) /\ \A j \in At(copy, k) : j = i
            BY <3>1 DEF At, Inv, CopyInv, Lists
        <3>3. At(copy, k) \in SUBSET Nat
            BY DEF At
        <3>4. Min(At(copy, k)) = i
            BY <3>2, <3>3, MinLeast
        <3> QED BY <2>5, <3>1, <3>2, <3>4
    <2> QED BY <2>6, <2>7
<1> QED BY <1>1, InvHolds, PTL
================================================================================
