------------------------------ MODULE Socks5Proofs ------------------------------
(***************************************************************************)
(* Proofs about Socks5.  IInv, the inductive invariant, says what each     *)
(* stage of a connection knows: what was said so far (Dialogue), which     *)
(* addresses were tried and how that went (Tries), and what may have been  *)
(* copied (Copied).                                                        *)
(***************************************************************************)
EXTENDS Socks5, SequenceTheorems, TLAPS

Attempts == [address : Addresses, outcome : Outcomes]

Tried(s) == [i \in 1 .. Len(s) |-> s[i].address]

\* The stages before there is an address, and before there is a destination.
Early == ReadingStages \cup {"noauth", "userpass"}

Before == Early \cup {"connect"}

\* What the client has been told when a stage begins.
Said ==
    /\ stage \in {"version", "noauth", "userpass"} => replies = <<>>
    /\ stage = "login" => replies = <<"UserPass">>
    /\ stage \in {"request", "name", "connect"} => replies \in Admissions
    /\ stage = "copy" => replies \in {Append(a, "Success") : a \in Admissions}

Dialogue == Said /\ DialogueLegal

AddressLists == Resolutions \cup {<<a>> : a \in Addresses} \cup {<<>>}

\* No attempt succeeds before the copy, and last_error tells of the last failure.
\* The parts after the third are those of AttemptsInOrder.
Tries ==
    /\ stage \in Early => attempts = <<>> /\ addresses = <<>>
    /\ stage \in Before =>
          /\ \A i \in 1 .. Len(attempts) : attempts[i].outcome # "Success"
          /\ Explains(lastError)
          /\ result = "none"
    /\ stage = "copy" => Reached /\ result = "none"
    /\ Tried(attempts) \o addresses \in AddressLists
    /\ \A i \in 1 .. Len(attempts) - 1 : attempts[i].outcome # "Success"
    /\ "Success" \in ToSet(replies) <=> Reached
    /\ (stage = "finished" /\ attempts # <<>> /\ result = "ok") =>
          Reached \/ (addresses = <<>> /\ Explains(Last(replies)))

\* Nothing is copied before the copy; a direction that has ended has nothing left.
Copied ==
    /\ stage \in Before =>
          \A d \in Directions : delivered[d] = <<>> /\ state[d] = "Running"
    /\ \A d \in Directions : state[d] # "Running" =>
          ended[d] /\ incoming[d] = <<>> /\ buffer[d] = <<>>
    /\ ReportTrue

IInv == TypeOK /\ Dialogue /\ Tries /\ Copied

--------------------------------------------------------------------------------
(* Sequences *)

\* What a longer sequence of replies holds, ends with and begins with.
LEMMA Appended ==
    ASSUME NEW S, NEW s \in Seq(S), NEW x \in S
    PROVE  /\ ToSet(Append(s, x)) = ToSet(s) \cup {x}
           /\ Last(Append(s, x)) = x
           /\ \A p \in Seq(S) : IsPrefix(p, s) => IsPrefix(p, Append(s, x))
  <1> DEFINE t == Append(s, x)
  <1>1. /\ t \in Seq(S) /\ Len(t) = Len(s) + 1 /\ t[Len(s) + 1] = x
        /\ \A i \in 1 .. Len(s) : t[i] = s[i]
    BY AppendProperties
  <1>2. DOMAIN t = 1 .. Len(s) + 1 /\ DOMAIN s = 1 .. Len(s) /\ Len(s) \in Nat
    BY <1>1, LenProperties
  <1>3. ToSet(t) = ToSet(s) \cup {x}
    <2>1. \A i \in 1 .. Len(s) + 1 : i \in 1 .. Len(s) \/ i = Len(s) + 1
      BY <1>2
    <2>2. 1 .. Len(s) \subseteq 1 .. Len(s) + 1 /\ Len(s) + 1 \in 1 .. Len(s) + 1
      BY <1>2
    <2> HIDE DEF t
    <2> QED
      BY <1>1, <1>2, <2>1, <2>2, Zenon DEF ToSet
  <1>4. Last(t) = x
    BY <1>1 DEF Last
  <1>5. ASSUME NEW p \in Seq(S), IsPrefix(p, s)
        PROVE  IsPrefix(p, t)
    <2>1. Len(p) \in Nat /\ Len(p) <= Len(s) /\ SubSeq(p, 1, Len(p)) = SubSeq(s, 1, Len(p))
      BY <1>5, LenProperties DEF IsPrefix
    <2>2. t = s \o <<x>>
      BY AppendIsConcat
    <2>3. SubSeq(t, 1, Len(p)) = SubSeq(s, 1, Len(p))
      <3>1. CASE Len(p) = 0
        BY <3>1, SubSeqEmpty
      <3>2. CASE Len(p) # 0
        <4>1. <<x>> \in Seq(S) /\ 1 \in 1 .. Len(s) /\ Len(p) \in 1 .. Len(s)
          BY <1>2, <2>1, <3>2
        <4> QED
          BY <2>2, <4>1, SubSeqOfConcat1
      <3> QED
        BY <3>1, <3>2
    <2> QED
      BY <1>1, <1>2, <2>1, <2>3 DEF IsPrefix
  <1> QED
    BY <1>3, <1>4, <1>5

\* A sequence is a prefix of what is written behind it.
LEMMA PrefixOfConcat ==
    ASSUME NEW S, NEW s \in Seq(S), NEW t \in Seq(S)
    PROVE  IsPrefix(s, s \o t) /\ SubSeq(s \o t, 1, Len(s)) = s
  <1>1. /\ s \o t \in Seq(S) /\ Len(s \o t) = Len(s) + Len(t)
        /\ Len(s) \in Nat /\ Len(t) \in Nat
    BY ConcatProperties, LenProperties
  <1>2. SubSeq(s \o t, 1, Len(s)) = SubSeq(s, 1, Len(s))
    <2>1. CASE Len(s) = 0
      BY <2>1, SubSeqEmpty
    <2>2. CASE Len(s) # 0
      <3>1. 1 \in 1 .. Len(s) /\ Len(s) \in 1 .. Len(s)
        BY <1>1, <2>2
      <3> QED
        BY <3>1, SubSeqOfConcat1
    <2> QED
      BY <2>1, <2>2
  <1> QED
    BY <1>1, <1>2, SubSeqFull DEF IsPrefix

\* The first n elements and the rest make the whole.
LEMMA SplitAt ==
    ASSUME NEW S, NEW s \in Seq(S), NEW n \in 1 .. Len(s)
    PROVE  /\ SubSeq(s, 1, n) \in Seq(S) /\ Len(SubSeq(s, 1, n)) = n
           /\ SubSeq(s, n + 1, Len(s)) \in Seq(S)
           /\ Len(SubSeq(s, n + 1, Len(s))) = Len(s) - n
           /\ SubSeq(s, 1, n) \o SubSeq(s, n + 1, Len(s)) = s
  <1>1. Len(s) \in Nat /\ \A i \in 1 .. Len(s) : s[i] \in S
    BY LenProperties, ElementOfSeq
  <1>2. SubSeq(s, 1, n) \in Seq(S) /\ Len(SubSeq(s, 1, n)) = n
    BY <1>1, SubSeqProperties
  <1>3. /\ SubSeq(s, n + 1, Len(s)) \in Seq(S)
        /\ Len(SubSeq(s, n + 1, Len(s))) = Len(s) - n
    BY <1>1, SubSeqProperties
  <1>4. SubSeq(s, 1, n) \o SubSeq(s, n + 1, Len(s)) = SubSeq(s, 1, Len(s))
    <2>1. 1 \in 1 .. Len(s) + 1 /\ n \in 1 - 1 .. Len(s) /\ Len(s) \in n .. Len(s)
      BY <1>1
    <2> QED
      BY <2>1, ConcatAdjacentSubSeq
  <1> QED
    BY <1>2, <1>3, <1>4, SubSeqFull

\* a and b are c and d but for the first element of d, which a ends with.
Shifted(a, b, c, d) ==
    /\ d # <<>> /\ Len(a) = Len(c) + 1 /\ Len(b) = Len(d) - 1
    /\ \A i \in 1 .. Len(c) : a[i] = c[i]
    /\ a[Len(c) + 1] = d[1]
    /\ \A i \in 1 .. Len(b) : b[i] = d[i + 1]

\* Moving the first element of the second sequence to the end of the first does not
\* change their concatenation.
LEMMA ConcatShifted ==
    ASSUME NEW a \in Seq(Addresses), NEW b \in Seq(Addresses),
           NEW c \in Seq(Addresses), NEW d \in Seq(Addresses), Shifted(a, b, c, d)
    PROVE  a \o b = c \o d
  <1> DEFINE m == Len(c)
             n == Len(d)
             p == Len(a)
             q == Len(b)
             u == a \o b
             v == c \o d
  <1>1. m \in Nat /\ n \in Nat \ {0} /\ p = m + 1 /\ q = n - 1
    BY LenProperties, EmptySeq DEF Shifted
  <1>2. /\ u \in Seq(Addresses) /\ Len(u) = p + q
        /\ \A i \in 1 .. p + q : u[i] = IF i <= p THEN a[i] ELSE b[i - p]
    BY ConcatProperties
  <1>3. /\ v \in Seq(Addresses) /\ Len(v) = m + n
        /\ \A i \in 1 .. m + n : v[i] = IF i <= m THEN c[i] ELSE d[i - m]
    BY ConcatProperties
  <1>4. /\ \A i \in 1 .. m : a[i] = c[i]
        /\ a[m + 1] = d[1]
        /\ \A i \in 1 .. q : b[i] = d[i + 1]
    BY DEF Shifted
  <1> HIDE DEF u, v, m, n, p, q
  <1>5. p + q = m + n
    BY <1>1
  <1>6. ASSUME NEW i \in 1 .. m + n PROVE u[i] = v[i]
    <2>1. i \in 1 .. p + q
      BY <1>5
    <2>2. CASE i <= m
      <3>1. i \in 1 .. m /\ i <= p
        BY <1>1, <2>2
      <3> QED
        BY <1>2, <1>3, <1>4, <2>1, <2>2, <3>1, Zenon
    <2>3. CASE i = m + 1
      <3>1. i - m = 1 /\ i <= p /\ ~(i <= m)
        BY <1>1, <2>3
      <3> QED
        BY <1>2, <1>3, <1>4, <2>1, <2>3, <3>1, Zenon
    <2>4. CASE i > m + 1
      <3>1. /\ i - p \in 1 .. q /\ (i - p) + 1 = i - m
            /\ ~(i <= p) /\ ~(i <= m)
        BY <1>1, <2>4
      <3>2. u[i] = b[i - p] /\ v[i] = d[i - m]
        BY <1>2, <1>3, <2>1, <3>1, Zenon
      <3> QED
        BY <1>4, <3>1, <3>2, Zenon
    <2> QED
      BY <1>1, <2>2, <2>3, <2>4
  <1>7. u = v
    BY <1>2, <1>3, <1>5, <1>6, SeqEqual
  <1> QED
    BY <1>7 DEF u, v

\* The address that is tried moves from those to try to those tried.
LEMMA TriedMoves ==
    ASSUME NEW s \in Seq(Attempts), NEW rest \in Seq(Addresses), rest # <<>>,
           NEW outcome \in Outcomes
    PROVE  /\ [address |-> Head(rest), outcome |-> outcome] \in Attempts
           /\ Tried(Append(s, [address |-> Head(rest), outcome |-> outcome])) \o Tail(rest)
                = Tried(s) \o rest
  <1> DEFINE x == [address |-> Head(rest), outcome |-> outcome]
             t == Append(s, x)
  <1>1. /\ Head(rest) \in Addresses /\ Tail(rest) \in Seq(Addresses)
        /\ Len(Tail(rest)) = Len(rest) - 1
        /\ \A i \in 1 .. Len(Tail(rest)) : Tail(rest)[i] = rest[i + 1]
        /\ Head(rest) = rest[1] /\ Len(rest) \in Nat \ {0}
    BY HeadTailProperties, EmptySeq
  <1>2. x \in Attempts
    BY <1>1 DEF Attempts
  <1>3. /\ t \in Seq(Attempts) /\ Len(t) = Len(s) + 1 /\ t[Len(s) + 1] = x
        /\ \A i \in 1 .. Len(s) : t[i] = s[i]
        /\ Len(s) \in Nat
    BY <1>2, AppendProperties, LenProperties
  <1>4. ASSUME NEW r \in Seq(Attempts)
        PROVE  /\ Tried(r) \in Seq(Addresses) /\ Len(Tried(r)) = Len(r)
               /\ \A i \in 1 .. Len(r) : Tried(r)[i] = r[i].address
    <2>1. Len(r) \in Nat /\ \A i \in 1 .. Len(r) : r[i] \in Attempts
      BY LenProperties, ElementOfSeq
    <2>2. Tried(r) \in [1 .. Len(r) -> Addresses]
      BY <2>1 DEF Tried, Attempts
    <2>3. Tried(r) \in Seq(Addresses)
      BY <2>1, <2>2, SeqDef
    <2>4. Len(Tried(r)) = Len(r)
      BY <2>1, <2>2, <2>3, LenProperties
    <2> QED
      BY <2>3, <2>4 DEF Tried
  <1>5. /\ Tried(s) \in Seq(Addresses) /\ Tried(t) \in Seq(Addresses)
        /\ Len(Tried(s)) = Len(s) /\ Len(Tried(t)) = Len(s) + 1
        /\ \A i \in 1 .. Len(s) : Tried(s)[i] = s[i].address
        /\ \A i \in 1 .. Len(s) + 1 : Tried(t)[i] = t[i].address
    <2> HIDE DEF t
    <2> QED
      BY <1>3, <1>4
  <1>6. Tried(t)[Len(s) + 1] = rest[1] /\ \A i \in 1 .. Len(s) : Tried(t)[i] = Tried(s)[i]
    <2>1. x.address = rest[1]
      BY <1>1 DEF x
    <2>2. Len(s) + 1 \in 1 .. Len(s) + 1 /\ 1 .. Len(s) \subseteq 1 .. Len(s) + 1
      BY <1>3
    <2> HIDE DEF t, x
    <2> QED
      BY <1>3, <1>5, <2>1, <2>2, Zenon
  <1> HIDE DEF t, x
  <1>7. Tried(t) \o Tail(rest) = Tried(s) \o rest
    <2>1. Len(Tried(t)) = Len(Tried(s)) + 1 /\ Len(Tail(rest)) = Len(rest) - 1
      BY <1>1, <1>5
    <2>2. /\ \A i \in 1 .. Len(Tried(s)) : Tried(t)[i] = Tried(s)[i]
          /\ Tried(t)[Len(Tried(s)) + 1] = rest[1]
          /\ \A i \in 1 .. Len(Tail(rest)) : Tail(rest)[i] = rest[i + 1]
      BY <1>1, <1>5, <1>6
    <2>3. Shifted(Tried(t), Tail(rest), Tried(s), rest)
      BY <2>1, <2>2, Zenon DEF Shifted
    <2> QED
      <3> DEFINE a == Tried(t)
                 b == Tail(rest)
                 c == Tried(s)
      <3>1. /\ a \in Seq(Addresses) /\ b \in Seq(Addresses) /\ c \in Seq(Addresses)
            /\ Shifted(a, b, c, rest)
        BY <1>1, <1>5, <2>3
      <3> HIDE DEF a, b, c
      <3>2. a \o b = c \o rest
        BY <3>1, ConcatShifted
      <3> QED
        BY <3>2 DEF a, b, c
  <1> QED
    BY <1>2, <1>7 DEF t, x

--------------------------------------------------------------------------------
(* Types *)

\* There are two directions.
LEMMA DirectionsAre == \A d \in Directions : d = "up" \/ d = "down"
  BY DEF Directions

\* Reading takes a token out of the client's buffer.
LEMMA ReadsTypes ==
    ASSUME TypeOK, NEW at, NEW token, Reads(at, token)
    PROVE  /\ token \in Tokens
           /\ buffer' \in [Directions -> Seq(Tokens)]
           /\ \A d \in Directions : Len(buffer'[d]) <= BufferSize
  <1>1. /\ "up" \in Directions /\ buffer["up"] \in Seq(Tokens) /\ buffer["up"] # <<>>
        /\ \A d \in Directions : Len(buffer[d]) <= BufferSize
        /\ buffer \in [Directions -> Seq(Tokens)]
        /\ buffer' = [buffer EXCEPT !["up"] = Tail(@)]
        /\ token = Head(buffer["up"])
    BY DEF TypeOK, Reads, Directions
  <1>2. /\ Head(buffer["up"]) \in Tokens /\ Tail(buffer["up"]) \in Seq(Tokens)
        /\ Len(Tail(buffer["up"])) = Len(buffer["up"]) - 1
        /\ Len(buffer["up"]) \in Nat
    BY <1>1, HeadTailProperties, LenProperties
  <1>3. Len(Tail(buffer["up"])) <= BufferSize
    BY <1>1, <1>2, Socks5Assumption DEF Socks5Assumption
  <1> QED
    BY <1>1, <1>2, <1>3

\* The part of the state that no stage of the negotiation touches keeps its types.
LEMMA FrameTypes ==
    ASSUME TypeOK, UNCHANGED <<managerVars, copyVars, peerVars>>
    PROVE  /\ script' \in Seq(Tokens)
           /\ enabled' \in SUBSET Methods /\ known' \in BOOLEAN /\ changes' \in 0 .. MaxChanges
           /\ incoming' \in [Directions -> Seq(Tokens)]
           /\ delivered' \in [Directions -> Seq(Tokens)]
           /\ ended' \in [Directions -> BOOLEAN]
           /\ reset' \in [Directions -> BOOLEAN]
           /\ state' \in [Directions -> {"Running", "ShuttingDown", "Done"}]
           /\ count' \in [Directions -> Nat]
  BY DEF TypeOK, managerVars, copyVars, peerVars

\* Reading touches nothing else.
LEMMA ReadsFrame ==
    ASSUME NEW at, NEW token, Reads(at, token)
    PROVE  UNCHANGED <<managerVars, copyVars, peerVars>> /\ stage = at
  BY DEF Reads

\* A reply is one more of them.
LEMMA ReplyTypes ==
    ASSUME TypeOK, NEW what \in Replies, Reply(what)
    PROVE  replies' \in Seq(Replies)
  BY AppendProperties DEF TypeOK, Reply

\* Every step of the negotiation keeps the types.
LEMMA NegotiationTypes ==
    ASSUME TypeOK, Negotiates
    PROVE  TypeOK'
  <1>1. ASSUME NEW token, ReadHello(token) PROVE TypeOK'
    <2>1. Reads("version", token)
      BY <1>1 DEF ReadHello
    <2>2. offered' \in SUBSET (Methods \cup {"other"})
      <3>1. token \in Tokens
        BY <2>1, ReadsTypes
      <3>2. CASE token.kind = "Hello"
        <4>1. token.methods \in SUBSET (Methods \cup {"other"})
          BY <3>1, <3>2 DEF Tokens
        <4> QED
          BY <1>1, <3>2, <4>1 DEF ReadHello
      <3>3. CASE token.kind # "Hello"
        BY <1>1, <3>3 DEF ReadHello, TypeOK
      <3> QED
        BY <3>2, <3>3
    <2>3. replies' \in Seq(Replies) /\ stage' \in Stages /\ result' \in {"none", "ok", "failed"}
      <3>1. "NoMethod" \in Replies
        BY DEF Replies
      <3>2. CASE token.kind = "Hello"
        BY <1>1, <3>2 DEF ReadHello, GoOn, TypeOK, Stages
      <3>3. CASE token.kind # "Hello"
        BY <1>1, <3>1, <3>3, ReplyTypes DEF ReadHello, Finish, Stages
      <3> QED
        BY <3>2, <3>3
    <2>4. UNCHANGED <<addresses, attempts, lastError>>
      BY <1>1 DEF ReadHello
    <2> QED
      BY <2>1, <2>2, <2>3, <2>4, ReadsTypes, ReadsFrame, FrameTypes DEF TypeOK
  <1>2. ASSUME NEW token, ReadLogin(token) PROVE TypeOK'
    <2>1. Reads("login", token) /\ UNCHANGED <<offered, addresses, attempts, lastError>>
      BY <1>2 DEF ReadLogin
    <2>2. "Granted" \in Replies /\ "Denied" \in Replies
      BY DEF Replies
    <2>3. replies' \in Seq(Replies)
      <3>1. CASE UNCHANGED replies
        BY <3>1 DEF TypeOK
      <3>2. CASE ~ UNCHANGED replies
        BY <1>2, <2>2, <3>2, ReplyTypes DEF ReadLogin
      <3> QED
        BY <3>1, <3>2
    <2>4. stage' \in Stages /\ result' \in {"none", "ok", "failed"}
      BY <1>2 DEF ReadLogin, GoOn, Finish, TypeOK, Stages, ReadingStages
    <2> QED
      BY <2>1, <2>3, <2>4, ReadsTypes, ReadsFrame, FrameTypes DEF TypeOK
  <1>3. ASSUME NEW token, ReadRequest(token) PROVE TypeOK'
    <2>1. Reads("request", token) /\ UNCHANGED <<offered, attempts, lastError>>
      BY <1>3 DEF ReadRequest
    <2>2. stage' \in Stages /\ result' \in {"none", "ok", "failed"}
      BY <1>3 DEF ReadRequest, GoOn, Finish, TypeOK, Stages, ReadingStages
    <2>3. replies' \in Seq(Replies)
      <3>1. \/ UNCHANGED replies
            \/ \E what \in {"CommandNotSupported", "AddressTypeNotSupported", "GeneralFailure"} :
                  Reply(what)
        BY <1>3 DEF ReadRequest
      <3>2. {"CommandNotSupported", "AddressTypeNotSupported", "GeneralFailure"} \subseteq Replies
        BY DEF Replies, Statuses, ConnectErrors
      <3> QED
        BY <3>1, <3>2, ReplyTypes DEF TypeOK
    <2>4. addresses' \in Seq(Addresses)
      <3>1. UNCHANGED addresses \/ \E for \in Addresses : addresses' = <<for>>
        BY <1>3 DEF ReadRequest
      <3>2. \A for \in Addresses : <<for>> \in Seq(Addresses)
        OBVIOUS
      <3>3. addresses \in Seq(Addresses)
        BY DEF TypeOK
      <3> QED
        BY <3>1, <3>2, <3>3
    <2> QED
      BY <2>1, <2>2, <2>3, <2>4, ReadsTypes, ReadsFrame, FrameTypes DEF TypeOK
  <1>4. ASSUME NEW token, ReadName(token) PROVE TypeOK'
    <2>1. Reads("name", token) /\ UNCHANGED <<offered, attempts, lastError, replies>>
      BY <1>4 DEF ReadName
    <2>2. stage' \in Stages /\ result' \in {"none", "ok", "failed"}
      BY <1>4 DEF ReadName, GoOn, Finish, TypeOK, Stages, ReadingStages
    <2>3. addresses' \in Seq(Addresses)
      BY <1>4, Socks5Assumption DEF ReadName, TypeOK, Socks5Assumption
    <2> QED
      BY <2>1, <2>2, <2>3, ReadsTypes, ReadsFrame, FrameTypes DEF TypeOK
  <1>5. ASSUME TryNoAuth \/ TryUserPass PROVE TypeOK'
    <2>1. /\ UNCHANGED <<managerVars, copyVars, peerVars>>
          /\ UNCHANGED <<buffer, offered, addresses, attempts, lastError>>
      BY <1>5 DEF TryNoAuth, TryUserPass
    <2>2. \/ UNCHANGED replies
          \/ \E what \in {"NoAuth", "UserPass", "NoMethod"} : Reply(what)
      BY <1>5 DEF TryNoAuth, TryUserPass
    <2>3. replies' \in Seq(Replies)
      <3>1. {"NoAuth", "UserPass", "NoMethod"} \subseteq Replies
        BY DEF Replies
      <3> QED
        BY <2>2, <3>1, ReplyTypes DEF TypeOK
    <2>4. stage' \in Stages /\ result' \in {"none", "ok", "failed"}
      BY <1>5 DEF TryNoAuth, TryUserPass, GoOn, Finish, TypeOK, Stages, ReadingStages
    <2> QED
      BY <2>1, <2>3, <2>4, FrameTypes DEF TypeOK
  <1>6. ASSUME EndInNegotiation PROVE TypeOK'
    <2>1. /\ UNCHANGED <<managerVars, copyVars, peerVars>>
          /\ UNCHANGED <<buffer, offered, addresses, attempts, lastError, replies>>
      BY <1>6 DEF EndInNegotiation
    <2>2. stage' \in Stages /\ result' \in {"none", "ok", "failed"}
      BY <1>6 DEF EndInNegotiation, Finish, Stages
    <2> QED
      BY <2>1, <2>2, FrameTypes DEF TypeOK
  <1>7. ASSUME Connect PROVE TypeOK'
    <2>1. /\ UNCHANGED <<managerVars, copyVars, peerVars>>
          /\ UNCHANGED <<buffer, offered>>
          /\ addresses # <<>> /\ addresses \in Seq(Addresses) /\ attempts \in Seq(Attempts)
      BY <1>7 DEF Connect, TypeOK, Attempts
    <2>2. PICK outcome \in Outcomes :
            /\ attempts' = Append(attempts, [address |-> Head(addresses), outcome |-> outcome])
            /\ lastError' = LastError(outcome)
            /\ IF outcome = "Success"
               THEN Reply("Success") /\ GoOn("copy")
               ELSE UNCHANGED <<replies, stage, result>>
      BY <1>7 DEF Connect, NextAddress
    <2>3. addresses' = Tail(addresses)
      BY <1>7 DEF Connect, NextAddress
    <2>4. [address |-> Head(addresses), outcome |-> outcome] \in Attempts
      BY <2>1, HeadTailProperties DEF Attempts
    <2>5. attempts' \in Seq(Attempts) /\ addresses' \in Seq(Addresses)
      BY <2>1, <2>2, <2>3, <2>4, AppendProperties, HeadTailProperties
    <2>6. lastError' \in ConnectErrors
      BY <2>2 DEF LastError, Outcomes, TypeOK
    <2>7. "Success" \in Replies
      BY DEF Replies, Statuses, ConnectErrors
    <2>8. replies' \in Seq(Replies)
      BY <2>2, <2>7, ReplyTypes DEF TypeOK
    <2>9. stage' \in Stages /\ result' \in {"none", "ok", "failed"}
      BY <2>2 DEF GoOn, Stages, TypeOK
    <2> QED
      BY <2>1, <2>5, <2>6, <2>8, <2>9, FrameTypes DEF TypeOK, Attempts
  <1>8. ASSUME ConnectFails PROVE TypeOK'
    <2>1. /\ UNCHANGED <<managerVars, copyVars, peerVars>>
          /\ UNCHANGED <<buffer, offered, addresses, attempts, lastError>>
          /\ Reply(lastError)
      BY <1>8 DEF ConnectFails
    <2>2. lastError \in Replies
      BY DEF TypeOK, Replies, Statuses, ConnectErrors
    <2>3. stage' \in Stages /\ result' \in {"none", "ok", "failed"}
      BY <1>8 DEF ConnectFails, Finish, Stages
    <2> QED
      BY <2>1, <2>2, <2>3, ReplyTypes, FrameTypes DEF TypeOK
  <1> QED
    BY <1>1, <1>2, <1>3, <1>4, <1>5, <1>6, <1>7, <1>8 DEF Negotiates

\* What the ends send and what is read, written and shut down keeps the types.
LEMMA CopyTypes ==
    ASSUME TypeOK,
           \/ ClientSends \/ DestinationSends
           \/ \E d \in Directions : SourceEnds(d) \/ SourceResets(d) \/ Copies(d)
    PROVE  TypeOK'
  <1> USE DEF managerVars, dialogueVars, copyVars, peerVars
  <1>1. ASSUME ClientSends PROVE TypeOK'
    <2>1. /\ script # <<>> /\ script \in Seq(Tokens) /\ incoming["up"] \in Seq(Tokens)
          /\ "up" \in Directions
      BY <1>1 DEF ClientSends, TypeOK, Directions
    <2>2. script' \in Seq(Tokens) /\ Append(incoming["up"], Head(script)) \in Seq(Tokens)
      BY <1>1, <2>1, HeadTailProperties, AppendProperties DEF ClientSends
    <2>3. incoming' \in [Directions -> Seq(Tokens)]
      BY <1>1, <2>1, <2>2 DEF ClientSends, TypeOK
    <2> QED
      BY <1>1, <2>2, <2>3 DEF ClientSends, TypeOK
  <1>2. ASSUME DestinationSends PROVE TypeOK'
    <2> DEFINE n == Len(delivered["down"] \o buffer["down"] \o incoming["down"]) + 1
    <2>1. /\ incoming["down"] \in Seq(Tokens) /\ buffer["down"] \in Seq(Tokens)
          /\ delivered["down"] \in Seq(Tokens) /\ "down" \in Directions
      BY DEF TypeOK, Directions
    <2>2. n \in Nat
      <3>1. delivered["down"] \o buffer["down"] \in Seq(Tokens)
        BY <2>1, ConcatProperties
      <3>2. (delivered["down"] \o buffer["down"]) \o incoming["down"] \in Seq(Tokens)
        BY <2>1, <3>1, ConcatProperties
      <3> DEFINE m == Len(delivered["down"] \o buffer["down"] \o incoming["down"])
      <3>3. m \in Nat
        BY <3>2, LenProperties
      <3> HIDE DEF m
      <3>4. m + 1 \in Nat
        BY <3>3
      <3> QED
        BY <3>4 DEF m
    <2>3. /\ incoming' = [incoming EXCEPT !["down"] = Append(@, [kind |-> "Data", n |-> n])]
          /\ UNCHANGED <<managerVars, dialogueVars, copyVars, script, ended, reset, buffer>>
      BY <1>2 DEF DestinationSends
    <2> HIDE DEF n
    <2>4. [kind |-> "Data", n |-> n] \in Tokens
      BY <2>2 DEF Tokens
    <2>5. incoming' \in [Directions -> Seq(Tokens)]
      BY <2>1, <2>3, <2>4, AppendProperties DEF TypeOK
    <2> QED
      BY <2>3, <2>5 DEF TypeOK
  <1>3. ASSUME NEW d \in Directions, SourceEnds(d) \/ SourceResets(d) PROVE TypeOK'
    <2>1. ended' \in [Directions -> BOOLEAN] /\ reset' \in [Directions -> BOOLEAN]
      BY <1>3 DEF SourceEnds, SourceResets, TypeOK
    <2> QED
      BY <1>3, <2>1 DEF SourceEnds, SourceResets, TypeOK
  <1>4. ASSUME NEW d \in Directions, Fill(d) PROVE TypeOK'
    <2>1. PICK n \in 1 .. Len(incoming[d]) :
            /\ n <= BufferSize
            /\ buffer' = [buffer EXCEPT ![d] = SubSeq(incoming[d], 1, n)]
            /\ incoming' = [incoming EXCEPT ![d] = SubSeq(@, n + 1, Len(@))]
      BY <1>4 DEF Fill, Room
    <2>2. incoming[d] \in Seq(Tokens)
      BY DEF TypeOK
    <2>3. /\ SubSeq(incoming[d], 1, n) \in Seq(Tokens)
          /\ Len(SubSeq(incoming[d], 1, n)) <= BufferSize
          /\ SubSeq(incoming[d], n + 1, Len(incoming[d])) \in Seq(Tokens)
      BY <2>1, <2>2, SplitAt
    <2>4. /\ buffer' \in [Directions -> Seq(Tokens)]
          /\ \A e \in Directions : Len(buffer'[e]) <= BufferSize
          /\ incoming' \in [Directions -> Seq(Tokens)]
      BY <2>1, <2>3 DEF TypeOK
    <2> QED
      BY <1>4, <2>4 DEF Fill, TypeOK
  <1>5. ASSUME NEW d \in Directions, Transfer(d) PROVE TypeOK'
    <2>1. PICK i \in 1 .. Len(buffer[d]) :
            /\ delivered' = [delivered EXCEPT ![d] = @ \o SubSeq(buffer[d], 1, i)]
            /\ count' = [count EXCEPT ![d] = @ + i]
            /\ buffer' = [buffer EXCEPT ![d] = SubSeq(@, i + 1, Len(@))]
      BY <1>5 DEF Transfer, Registered, Consumed
    <2>2. /\ buffer[d] \in Seq(Tokens) /\ delivered[d] \in Seq(Tokens) /\ count[d] \in Nat
          /\ Len(buffer[d]) \in Nat /\ Len(buffer[d]) <= BufferSize /\ BufferSize \in Nat
      BY LenProperties, Socks5Assumption DEF TypeOK, Socks5Assumption
    <2>3. /\ delivered[d] \o SubSeq(buffer[d], 1, i) \in Seq(Tokens)
          /\ SubSeq(buffer[d], i + 1, Len(buffer[d])) \in Seq(Tokens)
          /\ Len(SubSeq(buffer[d], i + 1, Len(buffer[d]))) = Len(buffer[d]) - i
      BY <2>2, SplitAt, ConcatProperties
    <2>4. count[d] + i \in Nat /\ Len(buffer[d]) - i <= BufferSize
      BY <2>2
    <2>5. /\ buffer' \in [Directions -> Seq(Tokens)]
          /\ \A e \in Directions : Len(buffer'[e]) <= BufferSize
          /\ delivered' \in [Directions -> Seq(Tokens)]
          /\ count' \in [Directions -> Nat]
      BY <2>1, <2>3, <2>4 DEF TypeOK
    <2> QED
      BY <1>5, <2>5 DEF Transfer, TypeOK
  <1>6. ASSUME NEW d \in Directions, SeesEnd(d) \/ ShutsDown(d) PROVE TypeOK'
    <2>1. state' \in [Directions -> {"Running", "ShuttingDown", "Done"}]
      BY <1>6 DEF SeesEnd, ShutsDown, TypeOK
    <2> QED
      BY <1>6, <2>1 DEF SeesEnd, ShutsDown, TypeOK
  <1> QED
    BY <1>1, <1>2, <1>3, <1>4, <1>5, <1>6 DEF Copies

\* What managers change, and how a connection ends, keeps the types.
LEMMA OtherTypes ==
    ASSUME TypeOK,
           ManagerToggles \/ ManagerChangesUser \/ CopyEnds \/ IOFails \/ Cancelled
    PROVE  TypeOK'
  <1> USE DEF managerVars, dialogueVars, copyVars, peerVars
  <1>1. ASSUME ManagerToggles \/ ManagerChangesUser PROVE TypeOK'
    <2>1. /\ changes' \in 0 .. MaxChanges
          /\ UNCHANGED <<dialogueVars, copyVars, peerVars, buffer>>
      BY <1>1, Socks5Assumption
         DEF ManagerToggles, ManagerChangesUser, Change, TypeOK, Socks5Assumption
    <2>2. enabled' \in SUBSET Methods /\ known' \in BOOLEAN
      BY <1>1 DEF ManagerToggles, ManagerChangesUser, TypeOK
    <2> QED
      BY <2>1, <2>2 DEF TypeOK
  <1>2. ASSUME CopyEnds \/ IOFails \/ Cancelled PROVE TypeOK'
    <2>1. stage' \in Stages /\ result' \in {"none", "ok", "failed"}
      BY <1>2 DEF CopyEnds, IOFails, Cancelled, Finish, Stages, TypeOK
    <2>2. UNCHANGED <<managerVars, copyVars, peerVars, buffer, offered, addresses,
                      attempts, lastError, replies>>
      BY <1>2 DEF CopyEnds, IOFails, Cancelled
    <2> QED
      BY <2>1, <2>2 DEF TypeOK
  <1> QED
    BY <1>1, <1>2

\* Every step keeps the types.
LEMMA StepTypes ==
    ASSUME TypeOK, [Next]_vars
    PROVE  TypeOK'
  <1>1. CASE UNCHANGED vars
    BY <1>1 DEF vars, TypeOK
  <1>2. CASE Next
    BY <1>1, <1>2, NegotiationTypes, CopyTypes, OtherTypes DEF Next, Terminated
  <1> QED
    BY <1>1, <1>2

--------------------------------------------------------------------------------
(* The dialogue *)

\* Admissions are replies; none of them holds a status of a request.
LEMMA AdmissionsAre ==
    /\ "Success" \in Replies
    /\ \A a \in Admissions :
          /\ a \in Seq(Replies) /\ a \in Seq({"NoAuth", "UserPass", "Granted"})
          /\ \A s : Append(a, s) = a \o <<s>>
  <1>1. "Success" \in Replies
    BY DEF Replies, Statuses, ConnectErrors
  <1>2. {"NoAuth", "UserPass", "Granted"} \subseteq Replies
    BY DEF Replies
  <1>3. ASSUME NEW a \in Admissions PROVE a \in Seq({"NoAuth", "UserPass", "Granted"})
    <2>1. <<"NoAuth">> \in Seq({"NoAuth", "UserPass", "Granted"})
      OBVIOUS
    <2>2. <<"UserPass", "Granted">> \in Seq({"NoAuth", "UserPass", "Granted"})
      OBVIOUS
    <2> QED
      BY <2>1, <2>2 DEF Admissions
  <1>4. ASSUME NEW a \in Admissions, NEW s PROVE Append(a, s) = a \o <<s>>
    <2>1. a \in Seq({"NoAuth", "UserPass", "Granted", s}) /\ s \in {"NoAuth", "UserPass", "Granted", s}
      BY <1>3, SeqMonotonic
    <2> QED
      BY <2>1, AppendIsConcat
  <1> QED
    BY <1>1, <1>2, <1>3, <1>4, SeqMonotonic

\* What was said stands when the replies, the methods and the attempts do not change
\* and nothing is delivered before the copy.
LEMMA DialogueKept ==
    ASSUME Dialogue, UNCHANGED <<replies, offered, attempts>>,
           Said',
           delivered' = delivered \/ stage = "copy"
    PROVE  Dialogue'
  <1>2. ASSUME NEW d \in Directions, delivered'[d] # <<>> PROVE Last(replies)' = "Success"
    <2>1. CASE delivered' = delivered
      BY <1>2, <2>1 DEF Dialogue, DialogueLegal
    <2>2. CASE stage = "copy"
      <3>1. PICK a \in Admissions : replies = Append(a, "Success")
        BY <2>2 DEF Dialogue, Said
      <3> QED
        BY <3>1, AdmissionsAre, Appended
    <2> QED
      BY <2>1, <2>2
  <1>3. DialogueLegal'
    <2>1. DialogueLegal
      BY DEF Dialogue
    <2>2. \A d \in Directions : delivered'[d] # <<>> => Last(replies)' = "Success"
      BY <1>2
    <2> QED
      BY <2>1, <2>2 DEF DialogueLegal
  <1> QED
    BY <1>3 DEF Dialogue

\* A reply continues the dialogue when it makes one of the protocol, names a method
\* the client has offered, and no destination was attempted but for an admitted one.
LEMMA DialogueGoesOn ==
    ASSUME TypeOK, Dialogue, Said', NEW what \in Replies, Reply(what),
           Append(replies, what) \in Dialogues,
           UNCHANGED offered, \A d \in Directions : delivered'[d] = <<>>,
           what = "NoAuth" => "noauth" \in offered,
           what = "UserPass" => "userpass" \in offered,
           attempts' # <<>> => attempts # <<>> \/ replies \in Admissions
    PROVE  Dialogue'
  <1>1. /\ replies \in Seq(Replies) /\ replies' = Append(replies, what)
        /\ DialogueLegal
    BY DEF TypeOK, Reply, Dialogue
  <1>2. /\ ToSet(replies') = ToSet(replies) \cup {what}
        /\ \A p \in Seq(Replies) : IsPrefix(p, replies) => IsPrefix(p, replies')
    BY <1>1, Appended
  <1>3. /\ "NoAuth" \in ToSet(replies') => "noauth" \in offered'
        /\ "UserPass" \in ToSet(replies') => "userpass" \in offered'
    BY <1>1, <1>2 DEF DialogueLegal
  <1>4. ASSUME attempts' # <<>> PROVE \E a \in Admissions : IsPrefix(a, replies')
    <2>1. PICK a \in Admissions : IsPrefix(a, replies)
      <3>1. CASE attempts # <<>>
        BY <1>1, <3>1 DEF DialogueLegal
      <3>2. CASE replies \in Admissions
        <4>1. IsPrefix(replies, replies \o <<>>) /\ replies \o <<>> = replies
          BY <1>1, EmptySeq, PrefixOfConcat, ConcatEmptySeq
        <4> QED
          BY <3>2, <4>1
      <3> QED
        BY <1>4, <3>1, <3>2
    <2>2. a \in Seq(Replies)
      BY AdmissionsAre
    <2> QED
      BY <1>2, <2>1, <2>2
  <1>5. DialogueLegal'
    <2>1. replies' \in Dialogues
      BY <1>1
    <2> QED
      BY <1>3, <1>4, <2>1 DEF DialogueLegal
  <1> QED
    BY <1>5 DEF Dialogue

\* The dialogues of a client that is refused, or gets as far as a status.
LEMMA DialoguesAre ==
    /\ Refusals \subseteq Dialogues /\ Admissions \subseteq Dialogues
    /\ \A a \in Admissions, s \in Statuses : Append(a, s) \in Dialogues
    /\ \A x : Append(<<>>, x) = <<x>>
    /\ \A x : Append(<<"UserPass">>, x) = <<"UserPass", x>>
  <1>1. Refusals \subseteq Dialogues /\ Admissions \subseteq Dialogues
    BY DEF Dialogues
  <1>2. ASSUME NEW a \in Admissions, NEW s \in Statuses PROVE Append(a, s) \in Dialogues
    <2>1. Append(a, s) = a \o <<s>>
      BY AdmissionsAre
    <2>2. a \o <<s>> \in {b \o <<t>> : b \in Admissions, t \in Statuses}
      OBVIOUS
    <2> QED
      BY <2>1, <2>2 DEF Dialogues
  <1>3. \A x : Append(<<>>, x) = <<x>>
    OBVIOUS
  <1>4. ASSUME NEW x PROVE Append(<<"UserPass">>, x) = <<"UserPass", x>>
    <2> DEFINE S == {"UserPass", x}
               s == Append(<<"UserPass">>, x)
               t == <<"UserPass", x>>
    <2>1. <<"UserPass">> \in Seq(S) /\ t \in Seq(S) /\ x \in S
      OBVIOUS
    <2>2. /\ s \in Seq(S) /\ Len(s) = 2 /\ Len(t) = 2
          /\ s[1] = "UserPass" /\ s[2] = x /\ t[1] = "UserPass" /\ t[2] = x
      BY <2>1, AppendProperties
    <2> HIDE DEF s, t, S
    <2>3. \A i \in 1 .. Len(s) : s[i] = t[i]
      <3>1. \A i \in 1 .. 2 : i = 1 \/ i = 2
        OBVIOUS
      <3> QED
        BY <2>2, <3>1
    <2>4. s = t
      BY <2>1, <2>2, <2>3, SeqEqual
    <2> QED
      BY <2>4 DEF s, t
  <1> QED
    BY <1>1, <1>2, <1>3, <1>4

\* Every step of the negotiation continues the dialogue or leaves it.
LEMMA NegotiationDialogue ==
    ASSUME IInv, Negotiates
    PROVE  Dialogue'
  <1> USE DEF IInv
  <1>0. /\ TypeOK /\ Dialogue /\ UNCHANGED delivered
        /\ stage \in Before => \A d \in Directions : delivered'[d] = <<>>
    <2>1. UNCHANGED delivered
      BY DEF Negotiates, ReadHello, ReadLogin, ReadRequest, ReadName, Reads, TryNoAuth,
             TryUserPass, EndInNegotiation, Connect, ConnectFails, copyVars
    <2> QED
      BY <2>1 DEF Copied
  <1>1. ASSUME NEW token, ReadHello(token) PROVE Dialogue'
    <2>1. stage = "version" /\ replies = <<>> /\ UNCHANGED attempts /\ attempts = <<>>
      BY <1>1 DEF ReadHello, Reads, Dialogue, Said, Tries, Early, ReadingStages
    <2>2. CASE token.kind = "Hello"
      <3>1. stage' = "noauth" /\ UNCHANGED replies
        BY <1>1, <2>2 DEF ReadHello, GoOn
      <3>2. ToSet(replies') = {}
        BY <2>1, <3>1 DEF ToSet
      <3>3. replies' \in Dialogues
        BY <2>1, <3>1, DialoguesAre DEF Refusals
      <3>4. DialogueLegal'
        BY <1>0, <2>1, <3>1, <3>2, <3>3 DEF DialogueLegal, Before, Early, ReadingStages
      <3>5. Said'
        BY <2>1, <3>1 DEF Said
      <3> QED
        BY <3>4, <3>5 DEF Dialogue
    <2>3. CASE token.kind # "Hello"
      <3>1. stage' = "finished" /\ Reply("NoMethod") /\ UNCHANGED offered
        BY <1>1, <2>3 DEF ReadHello, Finish
      <3>2. "NoMethod" \in Replies /\ Append(replies, "NoMethod") \in Dialogues
        BY <2>1, DialoguesAre DEF Replies, Refusals
      <3>3. Said'
        BY <3>1 DEF Said
      <3> QED
        BY <1>0, <2>1, <3>1, <3>2, <3>3, DialogueGoesOn DEF Before, Early, ReadingStages
    <2> QED
      BY <2>2, <2>3
  <1>2. ASSUME TryNoAuth PROVE Dialogue'
    <2>1. stage = "noauth" /\ replies = <<>> /\ UNCHANGED <<attempts, offered>>
      BY <1>2 DEF TryNoAuth, Dialogue, Said
    <2>2. CASE "noauth" \in enabled \cap offered
      <3>1. stage' = "request" /\ Reply("NoAuth") /\ replies' = <<"NoAuth">>
        BY <1>2, <2>1, <2>2, DialoguesAre DEF TryNoAuth, Reply
      <3>2. "NoAuth" \in Replies /\ Append(replies, "NoAuth") \in Dialogues
        BY <2>1, DialoguesAre DEF Replies, Admissions
      <3>3. Said'
        BY <3>1 DEF Said, Admissions
      <3> QED
        BY <1>0, <2>1, <2>2, <3>1, <3>2, <3>3, DialogueGoesOn DEF Before, Early
    <2>3. CASE "noauth" \notin enabled \cap offered
      <3>1. stage' = "userpass" /\ UNCHANGED replies
        BY <1>2, <2>3 DEF TryNoAuth
      <3>2. Said'
        BY <2>1, <3>1 DEF Said
      <3> QED
        BY <1>0, <2>1, <3>1, <3>2, DialogueKept
    <2> QED
      BY <2>2, <2>3
  <1>3. ASSUME TryUserPass PROVE Dialogue'
    <2>1. stage = "userpass" /\ replies = <<>> /\ UNCHANGED <<attempts, offered>>
      BY <1>3 DEF TryUserPass, Dialogue, Said
    <2>2. CASE "userpass" \in enabled \cap offered
      <3>1. stage' = "login" /\ Reply("UserPass") /\ replies' = <<"UserPass">>
        BY <1>3, <2>1, <2>2, DialoguesAre DEF TryUserPass, Reply, GoOn
      <3>2. "UserPass" \in Replies /\ Append(replies, "UserPass") \in Dialogues
        BY <2>1, DialoguesAre DEF Replies, Refusals
      <3>3. Said'
        BY <3>1 DEF Said
      <3> QED
        BY <1>0, <2>1, <2>2, <3>1, <3>2, <3>3, DialogueGoesOn DEF Before, Early
    <2>3. CASE "userpass" \notin enabled \cap offered
      <3>1. stage' = "finished" /\ Reply("NoMethod")
        BY <1>3, <2>3 DEF TryUserPass, Finish
      <3>2. "NoMethod" \in Replies /\ Append(replies, "NoMethod") \in Dialogues
        BY <2>1, DialoguesAre DEF Replies, Refusals
      <3>3. Said'
        BY <3>1 DEF Said
      <3> QED
        BY <1>0, <2>1, <3>1, <3>2, <3>3, DialogueGoesOn DEF Before, Early
    <2> QED
      BY <2>2, <2>3
  <1>4. ASSUME NEW token, ReadLogin(token) PROVE Dialogue'
    <2>1. stage = "login" /\ replies = <<"UserPass">> /\ UNCHANGED <<attempts, offered>>
      BY <1>4 DEF ReadLogin, Reads, Dialogue, Said
    <2>2. CASE LoginStatus(token)
      <3>1. stage' = "request" /\ Reply("Granted") /\ replies' = <<"UserPass", "Granted">>
        BY <1>4, <2>1, <2>2, DialoguesAre DEF ReadLogin, LoginStatus, Reply, GoOn
      <3>2. "Granted" \in Replies /\ Append(replies, "Granted") \in Dialogues
        BY <2>1, DialoguesAre DEF Replies, Admissions
      <3>3. Said'
        BY <3>1 DEF Said, Admissions
      <3> QED
        BY <1>0, <2>1, <3>1, <3>2, <3>3, DialogueGoesOn DEF Before, Early, ReadingStages
    <2>3. CASE ~LoginStatus(token) /\ token.kind # "Garbled"
      <3>1. stage' = "finished" /\ Reply("Denied")
        BY <1>4, <2>3 DEF ReadLogin, Finish
      <3>2. "Denied" \in Replies /\ Append(replies, "Denied") \in Dialogues
        BY <2>1, DialoguesAre DEF Replies, Refusals
      <3>3. Said'
        BY <3>1 DEF Said
      <3> QED
        BY <1>0, <2>1, <3>1, <3>2, <3>3, DialogueGoesOn DEF Before, Early, ReadingStages
    <2>4. CASE token.kind = "Garbled"
      <3>1. stage' = "finished" /\ UNCHANGED replies
        BY <1>4, <2>4 DEF ReadLogin, Finish
      <3>2. Said'
        BY <2>1, <3>1 DEF Said
      <3> QED
        BY <1>0, <2>1, <3>1, <3>2, DialogueKept
    <2> QED
      BY <2>2, <2>3, <2>4
  <1>5. ASSUME NEW token, ReadRequest(token) PROVE Dialogue'
    <2>1. stage = "request" /\ replies \in Admissions /\ UNCHANGED <<attempts, offered>>
      BY <1>5 DEF ReadRequest, Reads, Dialogue, Said
    <2>2. \/ stage' \in {"name", "connect"} /\ UNCHANGED replies
          \/ /\ stage' = "finished"
             /\ \E what \in Statuses : Reply(what)
      BY <1>5 DEF ReadRequest, GoOn, Finish, Statuses, ConnectErrors
    <2>3. Said'
      BY <2>1, <2>2 DEF Said
    <2>4. CASE UNCHANGED replies
      BY <1>0, <2>1, <2>3, <2>4, DialogueKept
    <2>5. ASSUME NEW what \in Statuses, Reply(what) PROVE Dialogue'
      <3>1. /\ what \in Replies /\ Append(replies, what) \in Dialogues
            /\ what # "NoAuth" /\ what # "UserPass"
        BY <2>1, DialoguesAre DEF Replies, Statuses, ConnectErrors
      <3> QED
        BY <1>0, <2>1, <2>3, <2>5, <3>1, DialogueGoesOn DEF Before, Early, ReadingStages
    <2> QED
      BY <2>2, <2>4, <2>5
  <1>6. ASSUME NEW token, ReadName(token) PROVE Dialogue'
    <2>1. /\ stage = "name" /\ replies \in Admissions
          /\ UNCHANGED <<attempts, offered, replies>>
          /\ stage' \in {"connect", "finished"}
      BY <1>6 DEF ReadName, Reads, Dialogue, Said, GoOn, Finish
    <2>2. Said'
      BY <2>1 DEF Said
    <2> QED
      BY <1>0, <2>1, <2>2, DialogueKept
  <1>7. ASSUME EndInNegotiation PROVE Dialogue'
    <2>1. stage' = "finished" /\ UNCHANGED <<attempts, offered, replies>>
      BY <1>7 DEF EndInNegotiation, Finish
    <2>2. Said'
      BY <2>1 DEF Said
    <2> QED
      BY <1>0, <2>1, <2>2, DialogueKept
  <1>8. ASSUME Connect PROVE Dialogue'
    <2>1. stage = "connect" /\ replies \in Admissions /\ UNCHANGED offered
      BY <1>8 DEF Connect, Dialogue, Said
    <2>2. \/ stage' = "copy" /\ Reply("Success")
          \/ UNCHANGED <<replies, stage>>
      BY <1>8 DEF Connect, GoOn
    <2>3. CASE stage' = "copy" /\ Reply("Success")
      <3>1. /\ "Success" \in Replies /\ Append(replies, "Success") \in Dialogues
        BY <2>1, DialoguesAre DEF Replies, Statuses, ConnectErrors
      <3>2. Said'
        BY <2>1, <2>3 DEF Said, Reply
      <3> QED
        BY <1>0, <2>1, <2>3, <3>1, <3>2, DialogueGoesOn DEF Before
    <2>4. CASE UNCHANGED <<replies, stage>>
      <3>1. Said'
        BY <1>0, <2>4 DEF Dialogue, Said
      <3>2. \E a \in Admissions : IsPrefix(a, replies')
        <4>1. /\ replies \in Seq(Replies)
              /\ IsPrefix(replies, replies \o <<>>) /\ replies \o <<>> = replies
          BY <1>0, EmptySeq, PrefixOfConcat, ConcatEmptySeq DEF TypeOK
        <4> QED
          BY <2>1, <2>4, <4>1
      <3>3. DialogueLegal'
        BY <1>0, <2>1, <2>4, <3>2 DEF Dialogue, DialogueLegal, Before
      <3> QED
        BY <3>1, <3>3 DEF Dialogue
    <2> QED
      BY <2>2, <2>3, <2>4
  <1>9. ASSUME ConnectFails PROVE Dialogue'
    <2>1. /\ stage = "connect" /\ replies \in Admissions /\ UNCHANGED <<offered, attempts>>
          /\ stage' = "finished" /\ Reply(lastError)
      BY <1>9 DEF ConnectFails, Finish, Dialogue, Said
    <2>2. /\ lastError \in Replies /\ Append(replies, lastError) \in Dialogues
          /\ lastError # "NoAuth" /\ lastError # "UserPass"
      BY <1>0, <2>1, DialoguesAre DEF TypeOK, Replies, Statuses, ConnectErrors
    <2>3. Said'
      BY <2>1 DEF Said
    <2> QED
      BY <1>0, <2>1, <2>2, <2>3, DialogueGoesOn DEF Before
  <1> QED
    BY <1>1, <1>2, <1>3, <1>4, <1>5, <1>6, <1>7, <1>8, <1>9 DEF Negotiates

--------------------------------------------------------------------------------
(* The attempts *)

\* The attempts of the invariant are in order.
LEMMA TriesInOrder == Tries => AttemptsInOrder
  BY Zenon DEF Tries, AttemptsInOrder, Tried, AddressLists

\* The attempts stand when nothing is tried or told, and the connection goes on or
\* comes to an end that reports no success but after the copy.
LEMMA TriesKept ==
    ASSUME Tries, UNCHANGED <<addresses, attempts, lastError, replies>>,
           \/ UNCHANGED <<stage, result>>
           \/ /\ stage # "finished" /\ stage' = "finished"
              /\ result' = "ok" => stage = "copy" \/ attempts = <<>>
    PROVE  Tries'
  <1>1. Reached' <=> Reached
    BY DEF Reached
  <1>2. \A s : Explains(s)' <=> Explains(s)
    BY DEF Explains
  <1>3. /\ Tried(attempts)' = Tried(attempts)
        /\ (Explains(lastError))' <=> Explains(lastError)
        /\ (Explains(Last(replies)))' <=> Explains(Last(replies))
    BY DEF Explains, Tried
  <1>4. (stage' = "finished" /\ attempts' # <<>> /\ result' = "ok") =>
              Reached' \/ (addresses' = <<>> /\ Explains(Last(replies))')
    BY <1>1, <1>3 DEF Tries
  <1>5. stage' \in Before => stage \in Before /\ UNCHANGED <<stage, result>>
    BY DEF Before, Early, ReadingStages
  <1>6. stage' \in Early => stage \in Early
    BY DEF Early, ReadingStages
  <1>7. stage' = "copy" => stage = "copy" /\ UNCHANGED result
    OBVIOUS
  <1> QED
    BY <1>1, <1>3, <1>4, <1>5, <1>6, <1>7 DEF Tries

\* Before there is an address nothing is tried, and success is not told.
LEMMA TriesEarly ==
    ASSUME TypeOK, Tries, stage \in Early, UNCHANGED <<attempts, lastError>>,
           \/ UNCHANGED replies
           \/ \E what \in Replies : what # "Success" /\ Reply(what),
           addresses' \in Seq(Addresses), addresses' \in AddressLists,
           \/ stage' \in Early /\ addresses' = <<>> /\ result' = "none"
           \/ stage' = "connect" /\ result' = "none"
           \/ stage' = "finished"
    PROVE  Tries'
  <1>1. attempts = <<>> /\ attempts' = <<>> /\ ~Reached /\ ~Reached'
    BY DEF Tries, Reached
  <1>2. Tried(attempts') = <<>>
    BY <1>1 DEF Tried
  <1>3. Tried(attempts') \o addresses' \in AddressLists
    BY <1>2, ConcatEmptySeq
  <1>4. "Success" \notin ToSet(replies')
    <2>1. "Success" \notin ToSet(replies)
      BY <1>1 DEF Tries
    <2>2. CASE UNCHANGED replies
      BY <2>1, <2>2
    <2>3. ASSUME NEW what \in Replies, what # "Success", Reply(what)
          PROVE  "Success" \notin ToSet(replies')
      <3>1. replies \in Seq(Replies) /\ replies' = Append(replies, what)
        BY <2>3 DEF TypeOK, Reply
      <3>2. ToSet(replies') = ToSet(replies) \cup {what}
        BY <3>1, Appended
      <3> QED
        BY <2>1, <2>3, <3>2
    <2> QED
      BY <2>2, <2>3
  <1>5. Explains(lastError)'
    <2>1. Explains(lastError)
      BY DEF Tries, Before
    <2> QED
      BY <2>1 DEF Explains
  <1>6. stage' \in Early => stage' # "connect" /\ stage' # "copy" /\ stage' # "finished"
    BY DEF Early, ReadingStages
  <1>7. /\ \A i \in 1 .. Len(attempts') : attempts'[i].outcome # "Success"
        /\ \A i \in 1 .. Len(attempts') - 1 : attempts'[i].outcome # "Success"
    BY <1>1
  <1>8. stage' = "connect" => stage' \notin Early
    BY DEF Early, ReadingStages
  <1>9. "finished" \notin Before /\ "finished" \notin Early
    BY DEF Before, Early, ReadingStages
  <1> QED
    BY <1>1, <1>3, <1>4, <1>5, <1>6, <1>7, <1>8, <1>9 DEF Tries

\* An attempt follows the others, and what it came to is last_error or success.
LEMMA TriesConnect ==
    ASSUME TypeOK, Tries, Connect
    PROVE  Tries'
  <1>1. /\ addresses # <<>> /\ addresses \in Seq(Addresses) /\ attempts \in Seq(Attempts)
        /\ stage = "connect" /\ result = "none" /\ Explains(lastError)
        /\ \A i \in 1 .. Len(attempts) : attempts[i].outcome # "Success"
    BY DEF Connect, TypeOK, Attempts, Tries, Before
  <1>2. PICK outcome \in Outcomes :
          /\ attempts' = Append(attempts, [address |-> Head(addresses), outcome |-> outcome])
          /\ lastError' = LastError(outcome)
          /\ IF outcome = "Success"
             THEN Reply("Success") /\ GoOn("copy")
             ELSE UNCHANGED <<replies, stage, result>>
    BY DEF Connect, NextAddress
  <1>3. addresses' = Tail(addresses)
    BY DEF Connect, NextAddress
  <1> DEFINE x == [address |-> Head(addresses), outcome |-> outcome]
  <1>4. x \in Attempts /\ Tried(attempts') \o addresses' = Tried(attempts) \o addresses
    BY <1>1, <1>2, <1>3, TriedMoves
  <1>5. /\ attempts' \in Seq(Attempts) /\ Len(attempts') = Len(attempts) + 1
        /\ \A i \in 1 .. Len(attempts) : attempts'[i] = attempts[i]
        /\ attempts'[Len(attempts) + 1].outcome = outcome
        /\ attempts' # <<>> /\ Len(attempts) \in Nat
    BY <1>1, <1>2, <1>4, AppendProperties, LenProperties
  <1>6. Reached' <=> outcome = "Success"
    BY <1>5 DEF Reached, Last
  <1>7. \A i \in 1 .. Len(attempts') - 1 : attempts'[i].outcome # "Success"
    BY <1>1, <1>5
  <1>8. Tried(attempts') \o addresses' \in AddressLists
    BY <1>4 DEF Tries
  <1>9. "Success" \notin ToSet(replies)
    <2>1. ~Reached
      <3>1. CASE attempts = <<>>
        BY <3>1 DEF Reached
      <3>2. CASE attempts # <<>>
        <4>1. Len(attempts) \in 1 .. Len(attempts)
          BY <1>1, <3>2, EmptySeq
        <4> QED
          BY <1>1, <4>1 DEF Reached, Last
      <3> QED
        BY <3>1, <3>2
    <2> QED
      BY <2>1 DEF Tries
  <1>10. CASE outcome = "Success"
    <2>1. /\ stage' = "copy" /\ result' = "none" /\ replies' = Append(replies, "Success")
          /\ replies \in Seq(Replies)
      BY <1>1, <1>2, <1>10 DEF GoOn, Reply, TypeOK
    <2>2. "Success" \in ToSet(replies')
      BY <2>1, AdmissionsAre, Appended
    <2>3. "copy" \notin Before /\ "copy" \notin Early
      BY DEF Before, Early, ReadingStages
    <2> QED
      BY <1>6, <1>7, <1>8, <1>10, <2>1, <2>2, <2>3 DEF Tries
  <1>11. CASE outcome # "Success"
    <2>1. UNCHANGED <<replies, stage, result>>
      BY <1>2, <1>11
    <2>2. \A i \in 1 .. Len(attempts') : attempts'[i].outcome # "Success"
      <3>1. \A i \in 1 .. Len(attempts') : i \in 1 .. Len(attempts) \/ i = Len(attempts) + 1
        BY <1>5
      <3> QED
        BY <1>1, <1>5, <1>11, <3>1, Zenon
    <2>3. Explains(lastError)'
      <3>1. CASE outcome = "bind"
        <4>1. lastError' = lastError
          BY <1>2, <3>1 DEF LastError
        <4>2. CASE /\ lastError = "HostUnreachable"
                   /\ \A i \in 1 .. Len(attempts) : attempts[i].outcome = "bind"
          BY <1>1, <1>5, <3>1, <4>1, <4>2 DEF Explains
        <4>3. CASE \E i \in 1 .. Len(attempts) :
                      /\ attempts[i].outcome = lastError
                      /\ \A j \in i + 1 .. Len(attempts) : attempts[j].outcome = "bind"
          <5>1. PICK i \in 1 .. Len(attempts) :
                  /\ attempts[i].outcome = lastError
                  /\ \A j \in i + 1 .. Len(attempts) : attempts[j].outcome = "bind"
            BY <4>3
          <5>2. i \in 1 .. Len(attempts') /\ attempts'[i].outcome = lastError'
            BY <1>5, <4>1, <5>1
          <5>3. \A j \in i + 1 .. Len(attempts') : attempts'[j].outcome = "bind"
            BY <1>5, <3>1, <5>1
          <5> QED
            BY <4>1, <5>2, <5>3 DEF Explains
        <4> QED
          BY <1>1, <4>2, <4>3 DEF Explains
      <3>2. CASE outcome # "bind"
        <4>1. lastError' = outcome
          BY <1>2, <1>11, <3>2 DEF LastError
        <4>2. Len(attempts') \in 1 .. Len(attempts') /\ attempts'[Len(attempts')].outcome = outcome
          BY <1>5
        <4>3. \A j \in Len(attempts') + 1 .. Len(attempts') : attempts'[j].outcome = "bind"
          BY <1>5
        <4> QED
          BY <4>1, <4>2, <4>3 DEF Explains
      <3> QED
        BY <3>1, <3>2
    <2>4. "connect" \notin Early /\ "connect" # "copy" /\ "connect" # "finished"
      BY DEF Early, ReadingStages
    <2> QED
      BY <1>1, <1>6, <1>7, <1>8, <1>9, <1>11, <2>1, <2>2, <2>3, <2>4 DEF Tries
  <1> QED
    BY <1>10, <1>11

\* When nothing is left to try, the client is told of the last failure.
LEMMA TriesFail ==
    ASSUME TypeOK, Tries, ConnectFails
    PROVE  Tries'
  <1>1. /\ stage = "connect" /\ addresses = <<>> /\ Reply(lastError)
        /\ stage' = "finished" /\ result' = "ok"
        /\ UNCHANGED <<addresses, attempts, lastError>>
    BY DEF ConnectFails, Finish
  <1>2. /\ attempts \in Seq(Attempts) /\ replies \in Seq(Replies)
        /\ lastError \in Replies /\ lastError # "Success"
    BY DEF TypeOK, Attempts, Replies, Statuses, ConnectErrors
  <1>3. /\ ToSet(replies') = ToSet(replies) \cup {lastError}
        /\ Last(replies') = lastError
    BY <1>1, <1>2, Appended DEF Reply
  <1>4. Explains(lastError) /\ \A i \in 1 .. Len(attempts) - 1 : attempts[i].outcome # "Success"
    BY <1>1 DEF Tries, Before
  <1>5. Explains(Last(replies))'
    BY <1>1, <1>3, <1>4 DEF Explains
  <1>6. "Success" \in ToSet(replies') <=> Reached'
    BY <1>1, <1>2, <1>3 DEF Tries, Reached
  <1>7. Tried(attempts)' \o addresses' \in AddressLists
    BY <1>1 DEF Tries, Tried
  <1>8. "finished" \notin Before /\ "finished" \notin Early
    BY DEF Before, Early, ReadingStages
  <1> QED
    BY <1>1, <1>4, <1>5, <1>6, <1>7, <1>8 DEF Tries

\* Every step of the negotiation leaves the attempts in order.
LEMMA NegotiationTries ==
    ASSUME TypeOK, Tries, Negotiates
    PROVE  Tries'
  <1>1. /\ stage \in Early => addresses = <<>> /\ attempts = <<>> /\ result = "none"
        /\ <<>> \in Seq(Addresses) /\ <<>> \in AddressLists
    BY EmptySeq DEF Tries, Before, AddressLists
  <1>2. ASSUME NEW token,
               ReadHello(token) \/ ReadLogin(token) \/ TryNoAuth \/ TryUserPass
        PROVE  Tries'
    <2>1. stage \in Early /\ UNCHANGED <<addresses, attempts, lastError>>
      BY <1>2 DEF ReadHello, ReadLogin, TryNoAuth, TryUserPass, Reads, Early, ReadingStages
    <2>2. (stage' \in Early /\ result' = result) \/ stage' = "finished"
      BY <1>2 DEF ReadHello, ReadLogin, TryNoAuth, TryUserPass, GoOn, Finish, Early,
                  ReadingStages
    <2>3. \/ UNCHANGED replies
          \/ \E what \in {"NoAuth", "UserPass", "NoMethod", "Granted", "Denied"} : Reply(what)
      BY <1>2 DEF ReadHello, ReadLogin, TryNoAuth, TryUserPass
    <2>4. \/ UNCHANGED replies
          \/ \E what \in Replies : what # "Success" /\ Reply(what)
      BY <2>3 DEF Replies
    <2> QED
      BY <1>1, <2>1, <2>2, <2>4, TriesEarly
  <1>3. ASSUME NEW token, ReadRequest(token) PROVE Tries'
    <2>1. stage \in Early /\ UNCHANGED <<attempts, lastError>>
      BY <1>3 DEF ReadRequest, Reads, Early, ReadingStages
    <2>2. \/ UNCHANGED replies
          \/ \E what \in Replies : what # "Success" /\ Reply(what)
      BY <1>3 DEF ReadRequest, Replies, Statuses, ConnectErrors
    <2>3. \/ stage' \in Early /\ UNCHANGED <<addresses, result>>
          \/ /\ stage' = "connect" /\ UNCHANGED result
             /\ \E for \in Addresses : addresses' = <<for>>
          \/ stage' = "finished" /\ UNCHANGED addresses
      BY <1>3 DEF ReadRequest, GoOn, Finish, Early, ReadingStages
    <2>4. \A for \in Addresses : <<for>> \in Seq(Addresses) /\ <<for>> \in AddressLists
      BY DEF AddressLists
    <2> QED
      BY <1>1, <2>1, <2>2, <2>3, <2>4, TriesEarly
  <1>4. ASSUME NEW token, ReadName(token) PROVE Tries'
    <2>1. stage \in Early /\ UNCHANGED <<attempts, lastError, replies>>
      BY <1>4 DEF ReadName, Reads, Early, ReadingStages
    <2>2. \/ stage' = "connect" /\ UNCHANGED result /\ addresses' \in Resolutions
          \/ stage' = "finished" /\ UNCHANGED addresses
      BY <1>4 DEF ReadName, GoOn, Finish
    <2>3. Resolutions \subseteq Seq(Addresses) /\ Resolutions \subseteq AddressLists
      BY Socks5Assumption DEF Socks5Assumption, AddressLists
    <2> QED
      BY <1>1, <2>1, <2>2, <2>3, TriesEarly
  <1>5. ASSUME EndInNegotiation PROVE Tries'
    <2>1. /\ stage \in Early /\ stage' = "finished"
          /\ UNCHANGED <<addresses, attempts, lastError, replies>>
      BY <1>5 DEF EndInNegotiation, NoticesEnd, Finish, Early, ReadingStages
    <2> QED
      BY <1>1, <2>1, TriesEarly
  <1> QED
    BY <1>2, <1>3, <1>4, <1>5, TriesConnect, TriesFail DEF Negotiates

--------------------------------------------------------------------------------
(* The copy *)

\* Before the copy no destination is reached, and no end is reported before the end.
LEMMA NotReachedBefore ==
    ASSUME TypeOK, Tries
    PROVE  /\ stage \in Before => ~Reached
           /\ stage # "finished" => result = "none"
           /\ stage \in Before \/ stage = "copy" \/ stage = "finished"
  <1>1. stage \in Before \/ stage = "copy" \/ stage = "finished"
    BY DEF TypeOK, Stages, Before, Early
  <1>2. ASSUME stage \in Before, attempts # <<>> PROVE ~Reached
    <2>1. attempts \in Seq(Attempts)
      BY DEF TypeOK, Attempts
    <2>2. Len(attempts) \in 1 .. Len(attempts)
      BY <1>2, <2>1, EmptySeq
    <2> QED
      BY <1>2, <2>2 DEF Tries, Reached, Last
  <1> QED
    BY <1>1, <1>2 DEF Tries, Reached

\* The negotiation touches nothing of the copy but the client's buffer, and reports
\* no end of a copy.
LEMMA NegotiationCopied ==
    ASSUME IInv, Negotiates
    PROVE  Copied'
  <1>1. stage \in Before /\ UNCHANGED <<copyVars, peerVars>>
    BY DEF Negotiates, ReadHello, ReadLogin, ReadRequest, ReadName, Reads, TryNoAuth,
           TryUserPass, EndInNegotiation, NoticesEnd, Connect, ConnectFails, Before, Early,
           ReadingStages
  <1>2. ~(Reached' /\ result' = "ok")
    <2>1. ~Reached /\ result = "none"
      BY <1>1, NotReachedBefore DEF IInv, Before, Early, ReadingStages
    <2>2. UNCHANGED attempts \/ result' # "ok"
      <3>1. CASE Connect
        BY <2>1, <3>1 DEF Connect, GoOn
      <3>2. CASE ~Connect
        BY <3>2 DEF Negotiates, ReadHello, ReadLogin, ReadRequest, ReadName, TryNoAuth,
                    TryUserPass, EndInNegotiation, ConnectFails
      <3> QED
        BY <3>1, <3>2
    <2> QED
      BY <2>1, <2>2 DEF Reached
  <1>3. \A d \in Directions : delivered[d] = <<>> /\ state[d] = "Running"
    BY <1>1 DEF IInv, Copied
  <1>4. \A d \in Directions : count[d] = Len(delivered[d])
    BY DEF IInv, Copied, ReportTrue
  <1>5. UNCHANGED <<delivered, state, count>>
    BY <1>1 DEF copyVars
  <1>6. ReportTrue'
    BY <1>2, <1>4, <1>5 DEF ReportTrue
  <1> QED
    BY <1>3, <1>5, <1>6 DEF Copied

\* The ends may send and end, and readers fill, while nothing is reported.
LEMMA PeersCopied ==
    ASSUME IInv,
           \/ ClientSends \/ DestinationSends
           \/ \E d \in Directions : SourceEnds(d) \/ SourceResets(d) \/ Fill(d)
    PROVE  Copied'
  <1>1. stage # "finished" /\ UNCHANGED <<dialogueVars, copyVars>>
    BY DEF ClientSends, DestinationSends, SourceEnds, SourceResets, Fill, Source, Alive,
           ReadingStages
  <1>2. result = "none" /\ result' = "none"
    BY <1>1, NotReachedBefore DEF IInv, dialogueVars
  <1>3. ASSUME NEW d \in Directions, state[d] # "Running"
        PROVE  ended'[d] /\ incoming'[d] = <<>> /\ buffer'[d] = <<>>
    <2>1. ended[d] /\ incoming[d] = <<>> /\ buffer[d] = <<>>
      BY <1>3 DEF IInv, Copied
    <2>2. /\ incoming \in [Directions -> Seq(Tokens)] /\ ended \in [Directions -> BOOLEAN]
          /\ buffer \in [Directions -> Seq(Tokens)]
          /\ "up" \in Directions /\ "down" \in Directions
      BY DEF IInv, TypeOK, Directions
    <2>3. CASE ClientSends
      BY <2>1, <2>2, <2>3 DEF ClientSends, Source
    <2>4. CASE DestinationSends
      <3>1. ~ended["down"] /\ UNCHANGED <<ended, buffer>>
        BY <2>4 DEF DestinationSends, Source
      <3>2. PICK x : incoming' = [incoming EXCEPT !["down"] = Append(@, x)]
        BY <2>4 DEF DestinationSends
      <3> QED
        BY <2>1, <2>2, <3>1, <3>2
    <2>5. ASSUME NEW e \in Directions, SourceEnds(e) \/ SourceResets(e)
          PROVE  ended'[d] /\ incoming'[d] = <<>> /\ buffer'[d] = <<>>
      BY <2>1, <2>2, <2>5 DEF SourceEnds, SourceResets
    <2>6. ASSUME NEW e \in Directions, Fill(e)
          PROVE  ended'[d] /\ incoming'[d] = <<>> /\ buffer'[d] = <<>>
      <3>1. e # d
        <4>1. incoming[e] # <<>>
          BY <2>6 DEF Fill
        <4> QED
          BY <2>1, <4>1
      <3>2. /\ UNCHANGED ended
            /\ \E s : buffer' = [buffer EXCEPT ![e] = s]
            /\ \E s : incoming' = [incoming EXCEPT ![e] = s]
        BY <2>6 DEF Fill
      <3> QED
        BY <2>1, <2>2, <3>1, <3>2
    <2> QED
      BY <2>3, <2>4, <2>5, <2>6
  <1>4. UNCHANGED <<stage, delivered, state, count>>
    BY <1>1 DEF dialogueVars, copyVars
  <1>5. ReportTrue'
    BY <1>2, <1>4 DEF IInv, Copied, ReportTrue
  <1> QED
    BY <1>3, <1>4, <1>5 DEF IInv, Copied

\* What is written is counted, and was in the buffer of a direction that runs.
LEMMA TransferCopied ==
    ASSUME IInv, NEW d \in Directions, Transfer(d)
    PROVE  Copied'
  <1>1. PICK i \in 1 .. Len(buffer[d]) :
            /\ delivered' = [delivered EXCEPT ![d] = @ \o SubSeq(buffer[d], 1, i)]
            /\ count' = [count EXCEPT ![d] = @ + i]
            /\ buffer' = [buffer EXCEPT ![d] = SubSeq(@, i + 1, Len(@))]
    BY DEF Transfer, Registered, Consumed
  <1>2. /\ stage = "copy" /\ state[d] = "Running"
        /\ UNCHANGED <<stage, result, state, ended, incoming>>
    BY DEF Transfer, dialogueVars, peerVars
  <1>3. /\ buffer \in [Directions -> Seq(Tokens)] /\ delivered \in [Directions -> Seq(Tokens)]
        /\ count \in [Directions -> Nat] /\ buffer[d] \in Seq(Tokens)
        /\ delivered[d] \in Seq(Tokens)
    BY DEF IInv, TypeOK
  <1>4. Len(delivered[d] \o SubSeq(buffer[d], 1, i)) = Len(delivered[d]) + i
    BY <1>3, SplitAt, ConcatProperties
  <1>5. ASSUME NEW e \in Directions PROVE count'[e] = Len(delivered'[e])
    <2>1. count[e] = Len(delivered[e])
      BY DEF IInv, Copied, ReportTrue
    <2>2. CASE e = d
      BY <1>1, <1>3, <1>4, <2>1, <2>2
    <2>3. CASE e # d
      BY <1>1, <1>3, <2>1, <2>3
    <2> QED
      BY <2>2, <2>3
  <1>6. ASSUME NEW e \in Directions, state'[e] # "Running"
        PROVE  ended'[e] /\ incoming'[e] = <<>> /\ buffer'[e] = <<>>
    <2>1. e # d /\ state[e] # "Running"
      BY <1>2, <1>6
    <2> QED
      BY <1>1, <1>2, <1>3, <2>1 DEF IInv, Copied
  <1>7. result' = "none"
    BY <1>2, NotReachedBefore DEF IInv
  <1>8. ReportTrue'
    BY <1>5, <1>7 DEF ReportTrue
  <1> QED
    BY <1>2, <1>6, <1>8 DEF Copied, Before, Early, ReadingStages

\* A direction that comes to its end has nothing left.
LEMMA EndsCopied ==
    ASSUME IInv, NEW d \in Directions, SeesEnd(d) \/ ShutsDown(d)
    PROVE  Copied'
  <1>1. /\ stage = "copy"
        /\ UNCHANGED <<stage, result, delivered, count, ended, incoming, buffer>>
        /\ \E s : state' = [state EXCEPT ![d] = s]
        /\ ended[d] /\ incoming[d] = <<>> /\ buffer[d] = <<>>
    BY DEF SeesEnd, ShutsDown, dialogueVars, peerVars, IInv, Copied
  <1>2. ASSUME NEW e \in Directions, state'[e] # "Running"
        PROVE  ended'[e] /\ incoming'[e] = <<>> /\ buffer'[e] = <<>>
    <2>1. state \in [Directions -> {"Running", "ShuttingDown", "Done"}]
      BY DEF IInv, TypeOK
    <2>2. e = d \/ state[e] # "Running"
      BY <1>1, <1>2, <2>1
    <2> QED
      BY <1>1, <2>2 DEF IInv, Copied
  <1>3. result' = "none"
    BY <1>1, NotReachedBefore DEF IInv
  <1>4. ReportTrue'
    BY <1>1, <1>3 DEF IInv, Copied, ReportTrue
  <1> QED
    BY <1>1, <1>2, <1>4 DEF Copied, Before, Early, ReadingStages

\* Whatever else happens touches no bytes; a copy that ends well has nothing left.
LEMMA OtherCopied ==
    ASSUME IInv,
           ManagerToggles \/ ManagerChangesUser \/ CopyEnds \/ IOFails \/ Cancelled
    PROVE  Copied'
  <1>1. /\ UNCHANGED <<attempts, delivered, count, state, ended, incoming, buffer>>
        /\ stage # "finished"
        /\ UNCHANGED <<stage, result>> \/ stage' = "finished"
    BY DEF ManagerToggles, ManagerChangesUser, Change, CopyEnds, IOFails, Cancelled, Finish,
           dialogueVars, copyVars, peerVars, Alive, ReadingStages
  <1>2. result = "none" /\ (result' = "ok" => CopyEnds)
    <2>1. result = "none"
      BY <1>1, NotReachedBefore DEF IInv
    <2> QED
      BY <2>1 DEF ManagerToggles, ManagerChangesUser, Change, IOFails, Cancelled, Finish,
                  dialogueVars
  <1>3. ASSUME result' = "ok", Reached', NEW d \in Directions
        PROVE  (ended[d] /\ delivered[d] = Sent(d))'
    <2>1. state[d] = "Done" /\ Reached
      BY <1>1, <1>2, <1>3 DEF CopyEnds, BothDone, Reached
    <2>2. ended[d] /\ incoming[d] = <<>> /\ buffer[d] = <<>>
      BY <2>1 DEF IInv, Copied
    <2>3. delivered[d] \in Seq(Tokens)
      BY DEF IInv, TypeOK
    <2>4. delivered[d] \o <<>> \o <<>> = delivered[d]
      BY <2>3, ConcatEmptySeq
    <2> QED
      BY <1>1, <1>3, <2>2, <2>4 DEF Sent
  <1>4. \A d \in Directions : count'[d] = Len(delivered'[d])
    BY <1>1 DEF IInv, Copied, ReportTrue
  <1>5. ReportTrue'
    BY <1>3, <1>4 DEF ReportTrue
  <1> QED
    BY <1>1, <1>5 DEF IInv, Copied, Before, Early, ReadingStages

--------------------------------------------------------------------------------
(* The invariant *)

\* The invariant holds at the start.
LEMMA Initially == Init => IInv
  <1> SUFFICES ASSUME Init PROVE IInv
    OBVIOUS
  <1>1. TypeOK
    <2>1. script \in Seq(Tokens) /\ changes \in 0 .. MaxChanges
      BY Socks5Assumption DEF Init, Socks5Assumption
    <2>2. /\ addresses \in Seq(Addresses) /\ replies \in Seq(Replies)
          /\ attempts \in Seq([address : Addresses, outcome : Outcomes])
      BY EmptySeq DEF Init
    <2>3. \A d \in Directions : buffer[d] \in Seq(Tokens) /\ Len(buffer[d]) <= BufferSize
      BY EmptySeq, Socks5Assumption DEF Init, Socks5Assumption
    <2>4. /\ incoming \in [Directions -> Seq(Tokens)] /\ buffer \in [Directions -> Seq(Tokens)]
          /\ delivered \in [Directions -> Seq(Tokens)]
      BY EmptySeq DEF Init
    <2> QED
      BY <2>1, <2>2, <2>3, <2>4 DEF Init, TypeOK, Stages, ReadingStages, ConnectErrors
  <1>2. Dialogue
    <2>1. <<>> \in Dialogues /\ ToSet(<<>>) = {}
      BY DialoguesAre DEF Refusals, ToSet
    <2> QED
      BY <2>1 DEF Init, Dialogue, Said, DialogueLegal
  <1>3. Tries
    <2>1. Tried(attempts) \o addresses = <<>>
      <3>1. Tried(attempts) = <<>>
        BY DEF Init, Tried
      <3> QED
        BY <3>1, EmptySeq, ConcatEmptySeq DEF Init
    <2>2. ToSet(replies) = {} /\ ~Reached
      BY DEF Init, ToSet, Reached
    <2>3. Explains(lastError)
      BY DEF Init, Explains
    <2> QED
      BY <2>1, <2>2, <2>3 DEF Init, Tries, AddressLists
  <1>4. Copied
    <2>1. ReportTrue
      BY EmptySeq DEF Init, ReportTrue, Reached
    <2> QED
      BY <2>1 DEF Init, Copied
  <1> QED
    BY <1>1, <1>2, <1>3, <1>4 DEF IInv

\* A step other than of the negotiation leaves what was said and tried.
LEMMA OtherDialogue ==
    ASSUME IInv, Next, ~Negotiates
    PROVE  Dialogue' /\ Tries'
  <1>1. /\ UNCHANGED <<replies, offered, addresses, attempts, lastError>>
        /\ \/ UNCHANGED <<stage, result>>
           \/ /\ stage # "finished" /\ stage' = "finished"
              /\ result' = "ok" => stage = "copy" \/ result = "ok"
        /\ delivered' = delivered \/ stage = "copy"
    <2>1. CASE \/ ClientSends \/ DestinationSends \/ ManagerToggles \/ ManagerChangesUser
               \/ \E d \in Directions : SourceEnds(d) \/ SourceResets(d)
      BY <2>1 DEF ClientSends, DestinationSends, SourceEnds, SourceResets, ManagerToggles,
                  ManagerChangesUser, Change, dialogueVars, copyVars
    <2>2. CASE \E d \in Directions : Copies(d)
      BY <2>2 DEF Copies, Fill, Transfer, SeesEnd, ShutsDown, dialogueVars, copyVars
    <2>3. CASE CopyEnds \/ IOFails \/ Cancelled
      BY <2>3 DEF CopyEnds, IOFails, Cancelled, Finish, Alive, copyVars, ReadingStages
    <2>4. CASE Terminated
      BY <2>4 DEF Terminated, vars
    <2> QED
      BY <2>1, <2>2, <2>3, <2>4 DEF Next
  <1>2. stage # "finished" => result = "none"
    BY NotReachedBefore DEF IInv
  <1>3. Said'
    BY <1>1 DEF IInv, Dialogue, Said
  <1>4. Dialogue'
    BY <1>1, <1>3, DialogueKept DEF IInv
  <1>5. Tries'
    BY <1>1, <1>2, TriesKept DEF IInv
  <1> QED
    BY <1>4, <1>5

\* Every step keeps the invariant.
LEMMA Inductive ==
    ASSUME IInv, [Next]_vars
    PROVE  IInv'
  <1>1. CASE UNCHANGED vars
    <2>1. Dialogue'
      BY <1>1 DEF vars, IInv, Dialogue, Said, DialogueLegal
    <2>2. Tries'
      BY <1>1, TriesKept DEF vars, IInv
    <2>3. Copied'
      BY <1>1 DEF vars, IInv, Copied, ReportTrue, Sent, Reached
    <2> QED
      BY <1>1, <2>1, <2>2, <2>3, StepTypes DEF IInv
  <1>2. CASE Negotiates
    BY <1>2, StepTypes, NegotiationDialogue, NegotiationTries, NegotiationCopied DEF IInv
  <1>3. CASE Next /\ ~Negotiates
    <2>1. CASE Terminated
      BY <2>1, <1>1 DEF Terminated
    <2>2. Copied' \/ Terminated
      BY <1>3, PeersCopied, TransferCopied, EndsCopied, OtherCopied DEF Next, Copies
    <2> QED
      BY <1>3, <2>1, <2>2, StepTypes, OtherDialogue DEF IInv
  <1> QED
    BY <1>1, <1>2, <1>3

\* The inductive invariant holds in every state that can be reached.
THEOREM Invariance == Spec => []IInv
  BY Initially, Inductive, PTL DEF Spec

\* A client is told a dialogue of the protocol, with a method it offered, and nothing
\* is tried or copied for one that was not admitted.
THEOREM DialogueStands == Spec => []DialogueInv
  BY Invariance, PTL DEF IInv, Dialogue, DialogueInv

\* The addresses are tried in their order until one answers; what the client and the
\* log are told is what came of it, and what was copied.
THEOREM TruthTold == Spec => []TellsTheTruth
  <1>1. IInv => TellsTheTruth
    BY TriesInOrder DEF IInv, Copied, TellsTheTruth
  <1> QED
    BY <1>1, Invariance, PTL

--------------------------------------------------------------------------------
(* The refinement of Tunnel *)

\* Concatenation is associative, for three sequences of tokens.
LEMMA Regrouped ==
    \A s, t, u \in Seq(Tokens) : (s \o t) \o u = s \o (t \o u)
  <1> SUFFICES ASSUME NEW s \in Seq(Tokens), NEW t \in Seq(Tokens), NEW u \in Seq(Tokens)
               PROVE  (s \o t) \o u = s \o (t \o u)
    OBVIOUS
  <1> QED
    BY ConcatAssociative

\* What was sent is a sequence, which delivered begins once there is a destination.
LEMMA SentTypes ==
    ASSUME TypeOK, NEW d \in Directions
    PROVE  /\ Sent(d) \in Seq(Tokens)
           /\ delivered[d] \in Seq(Tokens) /\ buffer[d] \in Seq(Tokens)
           /\ incoming[d] \in Seq(Tokens)
           /\ delivered[d] \o buffer[d] \in Seq(Tokens)
  <1>1. /\ delivered[d] \in Seq(Tokens) /\ buffer[d] \in Seq(Tokens)
        /\ incoming[d] \in Seq(Tokens)
    BY DEF TypeOK
  <1>2. delivered[d] \o buffer[d] \in Seq(Tokens)
    BY <1>1, ConcatProperties
  <1>3. (delivered[d] \o buffer[d]) \o incoming[d] \in Seq(Tokens)
    BY <1>1, <1>2, ConcatProperties
  <1> QED
    BY <1>1, <1>2, <1>3, EmptySeq DEF Sent

\* It is one after the step, too.
LEMMA SentPrimed ==
    ASSUME TypeOK', NEW d \in Directions
    PROVE  Sent(d)' \in Seq(Tokens)
  <1>1. /\ delivered'[d] \in Seq(Tokens) /\ buffer'[d] \in Seq(Tokens)
        /\ incoming'[d] \in Seq(Tokens)
    BY DEF TypeOK
  <1>2. delivered'[d] \o buffer'[d] \in Seq(Tokens)
    BY <1>1, ConcatProperties
  <1>3. (delivered'[d] \o buffer'[d]) \o incoming'[d] \in Seq(Tokens)
    BY <1>1, <1>2, ConcatProperties
  <1> QED
    BY <1>1, <1>2, <1>3, EmptySeq DEF Sent

\* The empty sequence and the sequence itself are prefixes of a sequence.
LEMMA PrefixOfItself ==
    ASSUME NEW S, NEW s \in Seq(S)
    PROVE  IsPrefix(<<>>, s) /\ IsPrefix(s, s)
  <1>1. Len(<<>>) = 0 /\ Len(s) \in Nat
    BY EmptySeq, LenProperties
  <1>2. SubSeq(<<>>, 1, 0) = <<>> /\ SubSeq(s, 1, 0) = <<>>
    BY SubSeqEmpty
  <1> QED
    BY <1>1, <1>2 DEF IsPrefix

\* A step that sends, ends or delivers nothing is none of the tunnel's.
LEMMA Stutters ==
    ASSUME UNCHANGED delivered, \A d \in Directions : Sent(d)' = Sent(d),
           \A d \in Directions : (Reached' /\ ended'[d]) <=> (Reached /\ ended[d]),
           \A d \in Directions : state'[d] = "Done" <=> state[d] = "Done",
           stage' = "finished" <=> stage = "finished"
    PROVE  UNCHANGED T!vars
  BY DEF T!vars

\* What the sources may do: send more and end.
LEMMA SourcesStep ==
    ASSUME UNCHANGED <<delivered, state>>, stage' = "finished" <=> stage = "finished",
           \A d \in Directions :
              /\ IsPrefix(Sent(d), Sent(d)')
              /\ Reached /\ ended[d] => Sent(d)' = Sent(d) /\ Reached' /\ ended'[d]
    PROVE  T!Next
  <1> DEFINE sent == [d \in Directions |-> Sent(d)]
             ends == [d \in Directions |-> Reached /\ ended[d]]
  <1>1. /\ \A d \in Directions : sent[d] = Sent(d) /\ sent'[d] = Sent(d)'
        /\ \A d \in Directions : ends[d] <=> Reached /\ ended[d]
        /\ \A d \in Directions : ends'[d] <=> Reached' /\ ended'[d]
    OBVIOUS
  <1> HIDE DEF sent, ends
  <1>2. \A d \in Directions : IsPrefix(sent[d], sent'[d])
    BY <1>1
  <1>3. \A d \in Directions : ends[d] => sent'[d] = sent[d] /\ ends'[d]
    BY <1>1
  <1>4. T!Sources
    BY <1>2, <1>3 DEF T!Sources, T!IsPrefix, IsPrefix, sent, ends
  <1> QED
    BY <1>4 DEF T!Next

\* The end of a connection changes nothing else.
LEMMA GivesUp ==
    ASSUME UNCHANGED <<attempts, delivered, buffer, incoming, ended, state>>,
           stage' = "finished"
    PROVE  T!Next
  <1>1. \A d \in Directions : Sent(d)' = Sent(d) /\ Reached' = Reached
    BY DEF Sent, Reached
  <1>2. T!GiveUp
    BY <1>1 DEF T!GiveUp
  <1> QED
    BY <1>2 DEF T!Next

\* The negotiation ends in nothing, in giving up, or in a destination for which all
\* that the client sent ahead is sent at once.
LEMMA NegotiationRefines ==
    ASSUME IInv, Negotiates, IInv'
    PROVE  [T!Next]_T!vars
  <1>1. stage \in Before /\ UNCHANGED <<copyVars, peerVars>>
    BY DEF Negotiates, ReadHello, ReadLogin, ReadRequest, ReadName, Reads, TryNoAuth,
           TryUserPass, EndInNegotiation, NoticesEnd, Connect, ConnectFails, Before, Early,
           ReadingStages
  <1>2. ~Reached /\ stage # "finished"
    BY <1>1, NotReachedBefore DEF IInv, Before, Early, ReadingStages
  <1>3. \A d \in Directions : Sent(d) = <<>>
    BY <1>2 DEF Sent
  <1>4. CASE Reached'
    <2>1. stage' = "copy"
      <3>1. CASE Connect
        <4>1. attempts \in Seq(Attempts) /\ addresses \in Seq(Addresses) /\ addresses # <<>>
          BY <3>1 DEF IInv, TypeOK, Attempts, Connect
        <4>2. PICK outcome \in Outcomes :
                /\ attempts' = Append(attempts, [address |-> Head(addresses), outcome |-> outcome])
                /\ outcome = "Success" => GoOn("copy")
          BY <3>1 DEF Connect, NextAddress
        <4>3. [address |-> Head(addresses), outcome |-> outcome] \in Attempts
          BY <4>1, HeadTailProperties DEF Attempts
        <4>4. Last(attempts').outcome = outcome
          BY <4>1, <4>2, <4>3, Appended
        <4> QED
          BY <1>4, <4>2, <4>4 DEF Reached, GoOn
      <3>2. CASE ~Connect
        <4>1. UNCHANGED attempts
          BY <3>2 DEF Negotiates, ReadHello, ReadLogin, ReadRequest, ReadName, TryNoAuth,
                      TryUserPass, EndInNegotiation, ConnectFails
        <4> QED
          BY <1>2, <1>4, <4>1 DEF Reached
      <3> QED
        BY <3>1, <3>2
    <2>2. \A d \in Directions : IsPrefix(<<>>, Sent(d)')
      <3>1. \A d \in Directions : Sent(d)' \in Seq(Tokens)
        BY SentPrimed DEF IInv
      <3> QED
        BY <3>1, PrefixOfItself
    <2>3. T!Next
      BY <1>1, <1>2, <1>3, <2>1, <2>2, SourcesStep DEF copyVars
    <2> QED
      BY <2>3
  <1>5. CASE ~Reached'
    <2>1. \A d \in Directions : Sent(d)' = <<>>
      BY <1>5 DEF Sent
    <2>2. CASE stage' = "finished"
      <3>1. T!GiveUp
        BY <1>1, <1>2, <1>3, <1>5, <2>1, <2>2 DEF T!GiveUp, copyVars
      <3> QED
        BY <3>1 DEF T!Next
    <2>3. CASE stage' # "finished"
      BY <1>1, <1>2, <1>3, <1>5, <2>1, <2>3, Stutters DEF copyVars
    <2> QED
      BY <2>2, <2>3
  <1> QED
    BY <1>4, <1>5

\* What an end sends is behind all it sent before; an end stays.
LEMMA PeersRefine ==
    ASSUME IInv,
           \/ ClientSends \/ DestinationSends
           \/ \E d \in Directions : SourceEnds(d) \/ SourceResets(d)
    PROVE  [T!Next]_T!vars
  <1>1. UNCHANGED <<stage, attempts, delivered, state, buffer>>
    BY DEF ClientSends, DestinationSends, SourceEnds, SourceResets, dialogueVars, copyVars
  <1>2. Reached' <=> Reached
    BY <1>1 DEF Reached
  <1>3. ASSUME NEW e \in Directions, ~ended[e], UNCHANGED ended,
               NEW x \in Tokens, incoming' = [incoming EXCEPT ![e] = Append(@, x)]
        PROVE  T!Next
    <2>1. ASSUME NEW d \in Directions
          PROVE  /\ IsPrefix(Sent(d), Sent(d)')
                 /\ d # e => Sent(d)' = Sent(d)
      <3> DEFINE o == delivered[d] \o buffer[d]
      <3>1. /\ o \in Seq(Tokens) /\ incoming[d] \in Seq(Tokens) /\ Sent(d) \in Seq(Tokens)
            /\ incoming \in [Directions -> Seq(Tokens)] /\ <<x>> \in Seq(Tokens)
        BY SentTypes DEF IInv, TypeOK
      <3>2. CASE d = e /\ Reached
        <4>1. incoming'[d] = incoming[d] \o <<x>>
          BY <1>3, <3>1, <3>2, AppendIsConcat
        <4>2. Sent(d) = o \o incoming[d] /\ Sent(d)' = o \o (incoming[d] \o <<x>>)
          BY <1>1, <1>2, <3>2, <4>1 DEF Sent
        <4> HIDE DEF o
        <4>3. Sent(d)' = Sent(d) \o <<x>>
          BY <3>1, <4>2, ConcatAssociative
        <4> QED
          BY <3>1, <3>2, <4>3, PrefixOfConcat
      <3>3. CASE d # e \/ ~Reached
        <4>1. d # e => incoming'[d] = incoming[d]
          BY <1>3, <3>1
        <4>2. Sent(d)' = Sent(d)
          BY <1>1, <1>2, <3>3, <4>1 DEF Sent
        <4> QED
          BY <3>1, <4>2, PrefixOfItself
      <3> QED
        BY <3>2, <3>3
    <2> QED
      BY <1>1, <1>2, <1>3, <2>1, SourcesStep
  <1>4. CASE ClientSends
    <2>1. /\ "up" \in Directions /\ ~ended["up"] /\ UNCHANGED ended /\ script # <<>>
          /\ incoming' = [incoming EXCEPT !["up"] = Append(@, Head(script))]
      BY <1>4 DEF ClientSends, Source, Directions
    <2>2. Head(script) \in Tokens
      BY <2>1, HeadTailProperties DEF IInv, TypeOK
    <2> QED
      BY <1>3, <2>1, <2>2
  <1>5. CASE DestinationSends
    <2> DEFINE m == Len(delivered["down"] \o buffer["down"] \o incoming["down"])
               x == [kind |-> "Data", n |-> m + 1]
    <2>1. /\ "down" \in Directions /\ ~ended["down"] /\ UNCHANGED ended
          /\ incoming' = [incoming EXCEPT !["down"] = Append(@, x)]
      BY <1>5 DEF DestinationSends, Source, Directions
    <2>2. m \in Nat
      <3>1. (delivered["down"] \o buffer["down"]) \o incoming["down"] \in Seq(Tokens)
        BY <2>1, SentTypes, ConcatProperties DEF IInv
      <3> QED
        BY <3>1, LenProperties
    <2>3. x \in Tokens
      <3> HIDE DEF m
      <3>1. m + 1 \in Nat
        BY <2>2
      <3> QED
        BY <3>1 DEF Tokens
    <2> HIDE DEF x, m
    <2> QED
      BY <1>3, <2>1, <2>3
  <1>6. ASSUME NEW e \in Directions, SourceEnds(e) PROVE T!Next
    <2>1. UNCHANGED incoming /\ ended' = [ended EXCEPT ![e] = TRUE]
      BY <1>6 DEF SourceEnds
    <2>2. \A d \in Directions : Sent(d)' = Sent(d) /\ IsPrefix(Sent(d), Sent(d)')
      <3>1. \A d \in Directions : Sent(d)' = Sent(d)
        BY <1>1, <1>2, <2>1 DEF Sent
      <3> QED
        BY <3>1, SentTypes, PrefixOfItself DEF IInv
    <2>3. \A d \in Directions : ended[d] => ended'[d]
      BY <2>1 DEF IInv, TypeOK
    <2> QED
      BY <1>1, <1>2, <2>2, <2>3, SourcesStep
  <1>7. ASSUME NEW e \in Directions, SourceResets(e) PROVE UNCHANGED T!vars
    <2>1. UNCHANGED <<incoming, ended>>
      BY <1>7 DEF SourceResets
    <2>2. \A d \in Directions : Sent(d)' = Sent(d)
      BY <1>1, <1>2, <2>1 DEF Sent
    <2> QED
      BY <1>1, <1>2, <2>1, <2>2, Stutters
  <1> QED
    BY <1>4, <1>5, <1>6, <1>7

\* Filling a buffer moves what was sent and delivers nothing.
LEMMA FillRefines ==
    ASSUME IInv, NEW d \in Directions, Fill(d)
    PROVE  UNCHANGED T!vars
  <1>1. /\ UNCHANGED <<stage, attempts, delivered, state, ended>>
        /\ buffer[d] = <<>>
    BY DEF Fill, dialogueVars, copyVars
  <1>2. PICK n \in 1 .. Len(incoming[d]) :
          /\ buffer' = [buffer EXCEPT ![d] = SubSeq(incoming[d], 1, n)]
          /\ incoming' = [incoming EXCEPT ![d] = SubSeq(@, n + 1, Len(@))]
    BY DEF Fill
  <1>3. Reached' <=> Reached
    BY <1>1 DEF Reached
  <1>4. /\ buffer \in [Directions -> Seq(Tokens)] /\ incoming \in [Directions -> Seq(Tokens)]
        /\ incoming[d] \in Seq(Tokens) /\ delivered[d] \in Seq(Tokens)
    BY DEF IInv, TypeOK
  <1>5. delivered[d] \o buffer'[d] \o incoming'[d] = delivered[d] \o buffer[d] \o incoming[d]
    <2> DEFINE front == SubSeq(incoming[d], 1, n)
               rest == SubSeq(incoming[d], n + 1, Len(incoming[d]))
    <2>1. buffer'[d] = front /\ incoming'[d] = rest
      BY <1>2, <1>4
    <2>2. front \in Seq(Tokens) /\ rest \in Seq(Tokens) /\ front \o rest = incoming[d]
      BY <1>4, SplitAt
    <2> HIDE DEF front, rest
    <2>3. (delivered[d] \o front) \o rest = delivered[d] \o (front \o rest)
      BY <1>4, <2>2, Regrouped
    <2>4. delivered[d] \o buffer[d] = delivered[d]
      BY <1>1, <1>4, ConcatEmptySeq
    <2> QED
      BY <2>1, <2>2, <2>3, <2>4
  <1>6. ASSUME NEW e \in Directions PROVE Sent(e)' = Sent(e)
    <2>1. CASE e = d
      BY <1>1, <1>3, <1>5, <2>1 DEF Sent
    <2>2. CASE e # d
      <3>1. buffer'[e] = buffer[e] /\ incoming'[e] = incoming[e]
        BY <1>2, <1>4, <2>2
      <3> QED
        BY <1>1, <1>3, <3>1 DEF Sent
    <2> QED
      BY <2>1, <2>2
  <1> QED
    BY <1>1, <1>3, <1>6, Stutters

\* Writing delivers the next of what was sent.
LEMMA TransferRefines ==
    ASSUME IInv, NEW d \in Directions, Transfer(d)
    PROVE  T!Next
  <1>1. PICK i \in 1 .. Len(buffer[d]) :
            /\ delivered' = [delivered EXCEPT ![d] = @ \o SubSeq(buffer[d], 1, i)]
            /\ buffer' = [buffer EXCEPT ![d] = SubSeq(@, i + 1, Len(@))]
    BY DEF Transfer, Consumed
  <1>2. /\ stage = "copy" /\ state[d] = "Running"
        /\ UNCHANGED <<stage, attempts, state, ended, incoming>>
    BY DEF Transfer, dialogueVars, peerVars
  <1>3. Reached /\ Reached'
    BY <1>2 DEF IInv, Tries, Reached
  <1>4. /\ buffer \in [Directions -> Seq(Tokens)] /\ delivered \in [Directions -> Seq(Tokens)]
        /\ buffer[d] \in Seq(Tokens) /\ delivered[d] \in Seq(Tokens)
        /\ incoming[d] \in Seq(Tokens)
    BY DEF IInv, TypeOK
  <1> DEFINE front == SubSeq(buffer[d], 1, i)
             rest == SubSeq(buffer[d], i + 1, Len(buffer[d]))
             new == delivered[d] \o front
  <1>5. /\ front \in Seq(Tokens) /\ Len(front) = i /\ rest \in Seq(Tokens)
        /\ front \o rest = buffer[d]
    BY <1>4, SplitAt
  <1>6. delivered'[d] = new /\ buffer'[d] = rest
    BY <1>1, <1>4
  <1> HIDE DEF front, rest
  <1>7. new \in Seq(Tokens) /\ Len(new) = Len(delivered[d]) + i
    BY <1>4, <1>5, ConcatProperties
  <1> HIDE DEF new
  <1>8. /\ Sent(d) = new \o (rest \o incoming[d])
        /\ Sent(d)' = Sent(d)
    <2>1. delivered[d] \o buffer[d] = new \o rest
      <3>1. (delivered[d] \o front) \o rest = delivered[d] \o (front \o rest)
        BY <1>4, <1>5, Regrouped
      <3> QED
        BY <1>5, <3>1 DEF new
    <2>2. (new \o rest) \o incoming[d] = new \o (rest \o incoming[d])
      BY <1>4, <1>5, <1>7, Regrouped
    <2>3. Sent(d) = delivered[d] \o buffer[d] \o incoming[d]
      BY <1>3 DEF Sent
    <2>4. Sent(d)' = delivered'[d] \o buffer'[d] \o incoming'[d]
      BY <1>3 DEF Sent
    <2> QED
      BY <1>2, <1>6, <2>1, <2>2, <2>3, <2>4
  <1>9. /\ rest \o incoming[d] \in Seq(Tokens)
        /\ SubSeq(Sent(d), 1, Len(new)) = new
        /\ Len(Sent(d)) = Len(new) + Len(rest \o incoming[d])
    <2>1. rest \o incoming[d] \in Seq(Tokens)
      BY <1>4, <1>5, ConcatProperties
    <2> QED
      BY <1>7, <1>8, <2>1, PrefixOfConcat, ConcatProperties
  <1>10. ASSUME NEW e \in Directions PROVE Sent(e)' = Sent(e)
    <2>1. CASE e = d
      BY <1>8, <2>1
    <2>2. CASE e # d
      <3>1. buffer'[e] = buffer[e] /\ delivered'[e] = delivered[e]
        BY <1>1, <1>4, <2>2
      <3> QED
        BY <1>2, <1>3, <3>1 DEF Sent
    <2> QED
      BY <2>1, <2>2
  <1>11. Len(new) \in Len(delivered[d]) + 1 .. Len(Sent(d))
    <2> DEFINE k == Len(delivered[d])
               l == Len(rest \o incoming[d])
    <2>1. k \in Nat /\ l \in Nat /\ i \in Nat \ {0}
      BY <1>4, <1>5, <1>9, LenProperties
    <2>2. Len(new) = k + i /\ Len(Sent(d)) = Len(new) + l
      BY <1>7, <1>9
    <2> HIDE DEF k, l
    <2>3. Len(new) \in k + 1 .. Len(Sent(d))
      BY <2>1, <2>2
    <2> QED
      BY <2>3 DEF k
  <1>12. delivered' = [delivered EXCEPT ![d] = SubSeq(Sent(d), 1, Len(new))]
    <2>1. delivered' = [delivered EXCEPT ![d] = new]
      BY <1>1 DEF new, front
    <2> QED
      BY <1>9, <2>1
  <1>13. T!Deliver(d)
    <2>1. /\ stage # "finished" /\ stage' # "finished" /\ state[d] # "Done"
      BY <1>2
    <2>2. \E n \in Len(delivered[d]) + 1 .. Len(Sent(d)) :
            delivered' = [delivered EXCEPT ![d] = SubSeq(Sent(d), 1, n)]
      BY <1>11, <1>12
    <2> QED
      BY <1>2, <1>3, <1>10, <2>1, <2>2 DEF T!Deliver
  <1> QED
    BY <1>13 DEF T!Next

\* A direction is shut down when everything that was sent in it has been delivered.
LEMMA ShutRefines ==
    ASSUME IInv, NEW d \in Directions, ShutsDown(d)
    PROVE  T!Next
  <1>1. /\ stage = "copy" /\ state[d] = "ShuttingDown"
        /\ state' = [state EXCEPT ![d] = "Done"]
        /\ UNCHANGED <<stage, attempts, delivered, buffer, incoming, ended>>
    BY DEF ShutsDown, dialogueVars, peerVars
  <1>2. Reached /\ Reached' /\ \A e \in Directions : Sent(e)' = Sent(e)
    BY <1>1 DEF IInv, Tries, Reached, Sent
  <1>3. ended[d] /\ delivered[d] = Sent(d)
    <2>1. ended[d] /\ incoming[d] = <<>> /\ buffer[d] = <<>> /\ delivered[d] \in Seq(Tokens)
      BY <1>1 DEF IInv, TypeOK, Copied
    <2>2. delivered[d] \o <<>> \o <<>> = delivered[d]
      BY <2>1, ConcatEmptySeq
    <2> QED
      BY <1>2, <2>1, <2>2 DEF Sent
  <1>4. [e \in Directions |-> state'[e] = "Done"]
          = [[e \in Directions |-> state[e] = "Done"] EXCEPT ![d] = TRUE]
    BY <1>1 DEF IInv, TypeOK
  <1>5. T!Shut(d)
    BY <1>1, <1>2, <1>3, <1>4 DEF T!Shut
  <1> QED
    BY <1>5 DEF T!Next

\* Every step is one of the tunnel, or none.
LEMMA StepRefines ==
    ASSUME IInv, IInv', [Next]_vars
    PROVE  [T!Next]_T!vars
  <1>1. ASSUME UNCHANGED <<stage, attempts, delivered, buffer, incoming, ended>>,
               \A d \in Directions : state'[d] = "Done" <=> state[d] = "Done"
        PROVE  UNCHANGED T!vars
    <2>1. (Reached' <=> Reached) /\ \A d \in Directions : Sent(d)' = Sent(d)
      BY <1>1 DEF Sent, Reached
    <2> QED
      BY <1>1, <2>1, Stutters
  <1>2. CASE UNCHANGED vars \/ Terminated
    BY <1>1, <1>2 DEF vars, Terminated
  <1>3. CASE ManagerToggles \/ ManagerChangesUser
    BY <1>1, <1>3 DEF ManagerToggles, ManagerChangesUser, Change, dialogueVars, copyVars,
                      peerVars
  <1>4. ASSUME NEW d \in Directions, SeesEnd(d) PROVE UNCHANGED T!vars
    <2>1. /\ UNCHANGED <<stage, attempts, delivered, buffer, incoming, ended>>
          /\ state[d] = "Running" /\ state' = [state EXCEPT ![d] = "ShuttingDown"]
          /\ state \in [Directions -> {"Running", "ShuttingDown", "Done"}]
      BY <1>4 DEF SeesEnd, dialogueVars, peerVars, IInv, TypeOK
    <2>2. \A e \in Directions : state'[e] = "Done" <=> state[e] = "Done"
      BY <2>1
    <2> QED
      BY <1>1, <2>1, <2>2
  <1>5. CASE CopyEnds \/ IOFails \/ Cancelled
    <2>1. /\ UNCHANGED <<attempts, delivered, buffer, incoming, ended, state>>
          /\ stage' = "finished"
      BY <1>5 DEF CopyEnds, IOFails, Cancelled, Finish, copyVars, peerVars
    <2> QED
      BY <2>1, GivesUp
  <1> QED
    BY <1>2, <1>3, <1>4, <1>5, NegotiationRefines, PeersRefine, FillRefines,
       TransferRefines, ShutRefines DEF Next, Copies

\* The connection is a tunnel of two independent directions: what comes out of each is
\* what went in, in order, and the end of a side comes after all it sent.
THEOREM TunnelImplemented == Spec => ImplementsTunnel
  <1>1. Init => T!Init
    BY DEF Init, T!Init, Sent, Reached
  <1>2. IInv /\ IInv' /\ [Next]_vars => [T!Next]_T!vars
    BY StepRefines
  <1> QED
    BY <1>1, <1>2, Invariance, PTL DEF Spec, ImplementsTunnel, T!Spec

================================================================================
