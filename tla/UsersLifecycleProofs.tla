------------------------- MODULE UsersLifecycleProofs -------------------------
(***************************************************************************)
(* Proofs about UsersLifecycle: what is loaded from the users file is what *)
(* its format says, in whatever chunks it is read; somebody can log in to  *)
(* a server that runs; and the users a save wrote, in whole or in part,    *)
(* are those the next start finds.                                         *)
(*                                                                         *)
(* The invariant relates what was read to the complete lines of that part  *)
(* of the file (Loading), and what was written to an order of the users    *)
(* (Saved).  Both speak about recursive functions over texts of any        *)
(* length, by induction over them.                                         *)
(***************************************************************************)
EXTENDS UsersLifecycle, FiniteSetTheorems, SequenceTheorems, NaturalsInduction,
        WellFoundedInduction, TLAPS

-----------------------------------------------------------------------------
(* Induction and folds                                                     *)

\* A set stands for the predicate, because the provers instantiate no operator.
\* The recursive functions of UsersFile are folds: what goes on with each element of a
\* sequence can be proved along it.

\* A set of naturals that is not empty has a least element.
LEMMA LeastNat ==
    ASSUME NEW T \in SUBSET Nat, T # {}
    PROVE  \E n \in T : \A m \in T : n <= m
<1> DEFINE R == {p \in Nat \X Nat : p[1] < p[2]}
<1>1. IsWellFoundedOn(R, Nat)
    <2>1. OpToRel(<, Nat) = R
        BY DEF OpToRel
    <2> QED BY <2>1, NatLessThanWellFounded, Zenon
<1>2. \E n \in T : \A m \in T : ~ (<<m, n>> \in R)
    <2> HIDE DEF R
    <2> QED BY <1>1, WFMin
<1>3. PICK n \in T : \A m \in T : ~ (<<m, n>> \in R)
    BY <1>2
<1>4. \A m \in T : n <= m
    <2> TAKE m \in T
    <2>1. <<m, n>> \notin R /\ m \in Nat /\ n \in Nat
        BY <1>3
    <2>2. ~(m < n)
        BY <2>1, Zenon
    <2> QED BY <2>1, <2>2
<1> QED BY <1>4

\* Induction over the naturals, with a set for the predicate.
LEMMA NatInduct ==
    ASSUME NEW T, 0 \in T, \A n \in Nat : n \in T => n + 1 \in T
    PROVE  Nat \subseteq T
<1> DEFINE Bad == {n \in Nat : n \notin T}
<1> SUFFICES ASSUME Bad # {} PROVE FALSE
    OBVIOUS
<1>0. Bad \in SUBSET Nat /\ \A n \in Bad : n \in Nat /\ n \notin T
    OBVIOUS
<1>1. \A n \in Nat : n \notin T => n \in Bad
    OBVIOUS
<1> HIDE DEF Bad
<1>2. PICK n \in Bad : \A m \in Bad : n <= m
    BY <1>0, LeastNat
<1>3. n \in Nat /\ n \notin T /\ n # 0
    BY <1>0, <1>2
<1>4. n - 1 \in Nat /\ (n - 1) + 1 = n
    BY <1>3
<1>5. n - 1 \notin T
    BY <1>3, <1>4
<1> QED BY <1>1, <1>2, <1>3, <1>4, <1>5

\* Induction over sequences, with a set for the predicate: what holds for the
\* empty one and goes on with every element holds for all.
LEMMA SeqInduct ==
    ASSUME NEW E, NEW T, <<>> \in T,
           \A s \in Seq(E), e \in E : s \in T => Append(s, e) \in T
    PROVE  Seq(E) \subseteq T
<1> DEFINE G == {n \in Nat : \A s \in Seq(E) : Len(s) = n => s \in T}
<1>1. 0 \in G
    <2>1. \A s \in Seq(E) : Len(s) = 0 => s = <<>>
        OBVIOUS
    <2> QED BY <2>1
<1>2. ASSUME NEW n \in Nat, n \in G PROVE n + 1 \in G
    <2>1. ASSUME NEW s \in Seq(E), Len(s) = n + 1 PROVE s \in T
        <3> DEFINE t == SubSeq(s, 1, n)
        <3>1. t \in Seq(E) /\ Len(t) = n /\ s[n + 1] \in E
            BY <2>1
        <3>2. s = Append(t, s[n + 1])
            BY <2>1
        <3>3. t \in T
            BY <1>2, <3>1
        <3> HIDE DEF t
        <3> QED BY <3>1, <3>2, <3>3
    <2> QED BY <2>1
<1>3. \A n \in Nat : n \in G => \A s \in Seq(E) : Len(s) = n => s \in T
    OBVIOUS
<1> HIDE DEF G
<1>4. Nat \subseteq G
    BY <1>1, <1>2, NatInduct
<1>5. \A s \in Seq(E) : Len(s) \in Nat
    OBVIOUS
<1> QED BY <1>3, <1>4, <1>5

\* A function that takes a value and an element to the next value.
IsStep(step, S, E) == step \in [S \X E -> S]

\* A step taken.
Applied(step, x, e) == step[<<x, e>>]

\* The values a step goes through along a sequence.
IsFold(f, S, base, step, seq) ==
    /\ f \in [0 .. Len(seq) -> S] /\ f[0] = base
    /\ \A n \in 1 .. Len(seq) : f[n] = step[<<f[n - 1], seq[n]>>]

\* The last of them.
Fold(S, base, step, seq) == (CHOOSE f : IsFold(f, S, base, step, seq))[Len(seq)]

\* A function that takes the step as long as it stays among the values.
Follows(h, S, base, step, seq) ==
    /\ h[0] = base
    /\ \A n \in 1 .. Len(seq) : h[n - 1] \in S => h[n] = step[<<h[n - 1], seq[n]>>]

\* Every sequence can be gone through, from every start.
LEMMA FoldExists ==
    ASSUME NEW S, NEW E, NEW base \in S, NEW step, IsStep(step, S, E), NEW seq \in Seq(E)
    PROVE  \E f : IsFold(f, S, base, step, seq)
<1> DEFINE T == {s \in Seq(E) : \E f : IsFold(f, S, base, step, s)}
<1>1. <<>> \in T
    <2>1. IsFold([n \in 0 .. 0 |-> base], S, base, step, <<>>)
        BY DEF IsFold
    <2> QED BY <2>1
<1>2. ASSUME NEW s \in Seq(E), NEW e \in E, s \in T PROVE Append(s, e) \in T
    <2>1. PICK f : IsFold(f, S, base, step, s)
        BY <1>2
    <2> DEFINE N == Len(s)
    <2>2. N \in Nat /\ Append(s, e) \in Seq(E) /\ Len(Append(s, e)) = N + 1
          /\ Append(s, e)[N + 1] = e /\ \A n \in 1 .. N : Append(s, e)[n] = s[n] /\ s[n] \in E
        OBVIOUS
    <2>3. /\ f \in [0 .. N -> S] /\ f[0] = base
          /\ \A n \in 1 .. N : f[n] = step[<<f[n - 1], s[n]>>]
        BY <2>1 DEF IsFold
    <2> HIDE DEF N
    <2> DEFINE last == step[<<f[N], e>>]
               g == [n \in 0 .. N + 1 |-> IF n = N + 1 THEN last ELSE f[n]]
               t == Append(s, e)
    <2>4. last \in S
        <3>1. f[N] \in S
            BY <2>2, <2>3
        <3> QED BY <3>1 DEF IsStep
    <2>5. g \in [0 .. N + 1 -> S] /\ g[0] = base /\ g[N + 1] = last /\ \A n \in 0 .. N : g[n] = f[n]
        BY <2>2, <2>3, <2>4
    <2> HIDE DEF g
    <2>6. ASSUME NEW n \in 1 .. N + 1 PROVE g[n] = step[<<g[n - 1], t[n]>>]
        <3>1. CASE n = N + 1
            <4>1. g[n - 1] = f[N] /\ t[n] = e
                BY <2>2, <2>5, <3>1
            <4> QED BY <4>1, <2>5, <3>1
        <3>2. CASE n # N + 1
            <4>1. n \in 1 .. N /\ n - 1 \in 0 .. N
                BY <2>2, <3>2
            <4>2. g[n] = f[n] /\ g[n - 1] = f[n - 1] /\ t[n] = s[n]
                BY <2>2, <2>5, <4>1
            <4> QED BY <4>1, <4>2, <2>3
        <3> QED BY <3>1, <3>2
    <2>7. IsFold(g, S, base, step, t)
        <3>1. Len(t) = N + 1
            BY <2>2
        <3> QED BY <2>5, <2>6, <3>1 DEF IsFold
    <2> HIDE DEF t
    <2>8. t \in Seq(E) /\ t = Append(s, e)
        BY <2>2 DEF t
    <2> QED BY <2>7, <2>8
<1>3. \A s \in T : \E f : IsFold(f, S, base, step, s)
    OBVIOUS
<1> HIDE DEF T
<1>4. Seq(E) \subseteq T
    BY <1>1, <1>2, SeqInduct
<1> QED BY <1>3, <1>4

\* A function that follows the step ends where the fold does.
LEMMA FoldIs ==
    ASSUME NEW S, NEW E, NEW base \in S, NEW step, IsStep(step, S, E), NEW seq \in Seq(E),
           NEW h, Follows(h, S, base, step, seq)
    PROVE  h[Len(seq)] = Fold(S, base, step, seq)
<1> DEFINE f == CHOOSE g : IsFold(g, S, base, step, seq)
           N == Len(seq)
<1>1. IsFold(f, S, base, step, seq)
    BY FoldExists
<1>2. Fold(S, base, step, seq) = f[N] /\ N \in Nat
    BY DEF Fold
<1> HIDE DEF f
<1>8. h[0] = base /\ \A n \in 1 .. N : h[n - 1] \in S => h[n] = step[<<h[n - 1], seq[n]>>]
    BY DEF Follows
<1>3. /\ f \in [0 .. N -> S] /\ f[0] = base
      /\ \A n \in 1 .. N : f[n] = step[<<f[n - 1], seq[n]>>]
    BY <1>1 DEF IsFold
<1> HIDE DEF N
<1> DEFINE T == {n \in Nat : n \in 0 .. N => h[n] = f[n]}
<1>4. 0 \in T
    BY <1>3, <1>8
<1>5. ASSUME NEW n \in Nat, n \in T PROVE n + 1 \in T
    <2> SUFFICES ASSUME n + 1 \in 0 .. N PROVE h[n + 1] = f[n + 1]
        OBVIOUS
    <2>1. n + 1 \in 1 .. N /\ n \in 0 .. N /\ (n + 1) - 1 = n
        BY <1>2
    <2>2. h[n] = f[n] /\ h[n] \in S
        BY <1>3, <1>5, <2>1
    <2> QED BY <1>3, <1>8, <2>1, <2>2
<1>6. Nat \subseteq T
    <2> HIDE DEF T
    <2> QED BY <1>4, <1>5, NatInduct
<1>7. N \in Nat => h[N] = f[N]
    <2>1. \A n \in T : n \in 0 .. N => h[n] = f[n]
        OBVIOUS
    <2>2. N \in Nat => N \in 0 .. N
        OBVIOUS
    <2> HIDE DEF T
    <2> QED BY <1>6, <2>1, <2>2
<1> QED BY <1>2, <1>7 DEF N

\* A fold is the start for the empty sequence, and goes on with each element.
LEMMA FoldStep ==
    ASSUME NEW S, NEW E, NEW base \in S, NEW step, IsStep(step, S, E)
    PROVE  /\ Fold(S, base, step, <<>>) = base
           /\ \A s \in Seq(E) : Fold(S, base, step, s) \in S
           /\ \A s \in Seq(E), e \in E :
                 Fold(S, base, step, Append(s, e)) = Applied(step, Fold(S, base, step, s), e)
<1>1. Fold(S, base, step, <<>>) = base
    <2> DEFINE f == CHOOSE g : IsFold(g, S, base, step, <<>>)
    <2>1. IsFold(f, S, base, step, <<>>)
        <3>1. <<>> \in Seq(E)
            OBVIOUS
        <3> QED BY <3>1, FoldExists
    <2>2. Fold(S, base, step, <<>>) = f[0]
        BY DEF Fold
    <2> HIDE DEF f
    <2> QED BY <2>1, <2>2 DEF IsFold
<1>2. ASSUME NEW s \in Seq(E) PROVE Fold(S, base, step, s) \in S
    <2> DEFINE f == CHOOSE g : IsFold(g, S, base, step, s)
    <2>1. IsFold(f, S, base, step, s)
        BY FoldExists
    <2>2. Fold(S, base, step, s) = f[Len(s)] /\ Len(s) \in Nat
        BY DEF Fold
    <2> HIDE DEF f
    <2> QED BY <2>1, <2>2 DEF IsFold
<1>3. ASSUME NEW s \in Seq(E), NEW e \in E
      PROVE  Fold(S, base, step, Append(s, e)) = Applied(step, Fold(S, base, step, s), e)
    <2> DEFINE t == Append(s, e)
    <2>1. Len(s) \in Nat /\ t \in Seq(E) /\ Len(t) = Len(s) + 1 /\ t[Len(s) + 1] = e
          /\ \A n \in 1 .. Len(s) : t[n] = s[n]
        OBVIOUS
    <2> HIDE DEF t
    <2>2. PICK f : f = CHOOSE g : IsFold(g, S, base, step, t)
        OBVIOUS
    <2>3. IsFold(f, S, base, step, t)
        BY <2>1, <2>2, FoldExists
    <2>4. Fold(S, base, step, t) = f[Len(s) + 1]
        BY <2>1, <2>2 DEF Fold
    <2>5. f \in [0 .. Len(s) + 1 -> S] /\ f[0] = base
          /\ \A n \in 1 .. Len(s) + 1 : f[n] = step[<<f[n - 1], t[n]>>]
        BY <2>1, <2>3 DEF IsFold
    <2>6. f[0] = base
        BY <2>5
    <2>7. \A n \in 1 .. Len(s) : f[n - 1] \in S => f[n] = step[<<f[n - 1], s[n]>>]
        BY <2>1, <2>5
    <2>8. f[Len(s)] = Fold(S, base, step, s)
        <3>1. Follows(f, S, base, step, s)
            BY <2>6, <2>7 DEF Follows
        <3> QED BY <3>1, FoldIs
    <2>9. f[Len(s) + 1] = step[<<f[(Len(s) + 1) - 1], t[Len(s) + 1]>>] /\ (Len(s) + 1) - 1 = Len(s)
        BY <2>1, <2>5
    <2> QED BY <2>1, <2>4, <2>8, <2>9 DEF t, Applied
<1> QED BY <1>1, <1>2, <1>3

-----------------------------------------------------------------------------
(* Splitting bytes into lines                                              *)

\* What Split makes of some bytes.
Splits == [lines : Seq(Text), rest : Text]

\* A character leaves it one.
LEMMA SplitCharType ==
    ASSUME NEW split \in Splits, NEW c \in Chars
    PROVE  SplitChar(split, c) \in Splits
BY DEF SplitChar, Splits, Text

\* Split goes on with each character.
LEMMA SplitFold ==
    /\ Split(<<>>) = SplitStart
    /\ \A bytes \in Text : Split(bytes) \in Splits
    /\ \A bytes \in Text, c \in Chars : Split(Append(bytes, c)) = SplitChar(Split(bytes), c)
<1> DEFINE step == [x \in Splits \X Chars |-> SplitChar(x[1], x[2])]
<1>1. SplitStart \in Splits
    BY DEF SplitStart, Splits, Text
<1>2. IsStep(step, Splits, Chars)
    BY SplitCharType DEF IsStep
<1>3. \A x \in Splits, c \in Chars : step[<<x, c>>] = SplitChar(x, c) /\ Applied(step, x, c) = SplitChar(x, c)
    BY DEF Applied
<1> HIDE DEF step
<1>4. ASSUME NEW bytes \in Text
      PROVE  Split(bytes) = Fold(Splits, SplitStart, step, bytes)
    <2> DEFINE N == Len(bytes)
               F == CHOOSE f : f = [n \in 0 .. N |->
                                      IF n = 0 THEN SplitStart ELSE SplitChar(f[n - 1], bytes[n])]
    <2>1. Split(bytes) = F[N]
        BY DEF Split
    <2>2. PICK g : IsFold(g, Splits, SplitStart, step, bytes)
        BY <1>1, <1>2, FoldExists DEF Text
    <2>3. N \in Nat /\ \A n \in 1 .. N : bytes[n] \in Chars
        BY DEF Text
    <2>4. g = [n \in 0 .. N |-> IF n = 0 THEN SplitStart ELSE SplitChar(g[n - 1], bytes[n])]
        <3>1. /\ g \in [0 .. N -> Splits] /\ g[0] = SplitStart
              /\ \A n \in 1 .. N : g[n] = step[<<g[n - 1], bytes[n]>>]
            BY <2>2 DEF IsFold
        <3> HIDE DEF N
        <3>2. ASSUME NEW n \in 1 .. N PROVE g[n] = SplitChar(g[n - 1], bytes[n])
            <4>1. g[n - 1] \in Splits /\ bytes[n] \in Chars
                BY <2>3, <3>1
            <4> QED BY <1>3, <3>1, <4>1
        <3> QED BY <2>3, <3>1, <3>2
    <2>5. F = [n \in 0 .. N |-> IF n = 0 THEN SplitStart ELSE SplitChar(F[n - 1], bytes[n])]
        BY <2>4
    <2> HIDE DEF F
    <2>6. Follows(F, Splits, SplitStart, step, bytes)
        <3>1. F[0] = SplitStart /\ \A n \in 1 .. N : F[n] = SplitChar(F[n - 1], bytes[n])
            <4> HIDE DEF N
            <4> QED BY <2>3, <2>5
        <3> QED BY <1>3, <2>3, <3>1 DEF Follows
    <2> QED BY <1>1, <1>2, <2>1, <2>6, FoldIs DEF Text
<1>5. /\ Fold(Splits, SplitStart, step, <<>>) = SplitStart
      /\ \A s \in Seq(Chars) : Fold(Splits, SplitStart, step, s) \in Splits
      /\ \A s \in Seq(Chars), e \in Chars :
            Fold(Splits, SplitStart, step, Append(s, e)) = Applied(step, Fold(Splits, SplitStart, step, s), e)
    BY <1>1, <1>2, FoldStep
<1>7. ASSUME NEW s \in Text, NEW c \in Chars
      PROVE  /\ Fold(Splits, SplitStart, step, s) \in Splits
             /\ Fold(Splits, SplitStart, step, Append(s, c)) = step[<<Fold(Splits, SplitStart, step, s), c>>]
    <2>1. s \in Seq(Chars)
        BY DEF Text
    <2> QED BY <1>5, <2>1 DEF Applied
<1>6. <<>> \in Text /\ \A s \in Text, e \in Chars : Append(s, e) \in Text
    BY DEF Text
<1>8. ASSUME NEW s \in Text, NEW c \in Chars
      PROVE  Split(s) \in Splits /\ Split(Append(s, c)) = SplitChar(Split(s), c)
    <2>1. Append(s, c) \in Text
        BY <1>6
    <2>2. Split(s) = Fold(Splits, SplitStart, step, s)
        BY <1>4
    <2>3. Split(Append(s, c)) = Fold(Splits, SplitStart, step, Append(s, c))
        BY <1>4, <2>1
    <2> QED BY <1>3, <1>7, <2>2, <2>3
<1>9. Split(<<>>) = SplitStart
    BY <1>4, <1>5, <1>6
<1>10. \A s \in Text : Split(s) \in Splits
    BY <1>1, <1>2, <1>4, <1>5 DEF Text
<1> QED BY <1>8, <1>9, <1>10, Zenon

-----------------------------------------------------------------------------
(* Tables of users                                                         *)

\* The tables of users there can be.
UserTables == UNION {[D -> UserData] : D \in SUBSET Fields}

\* A table whose administrators are counted.
Counted(t) == IsFiniteSet(DOMAIN t.users) /\ t.admin_count = Cardinality(Admins(t.users))

\* What a table and its count can be.
Tables ==
    {t \in [ok : BOOLEAN, users : UserTables, admin_count : Nat] : Counted(t)}

\* A table of users is one by its names and its entries.
LEMMA TableType ==
    ASSUME NEW users
    PROVE  users \in UserTables <=> /\ DOMAIN users \subseteq Fields
                                    /\ users \in [DOMAIN users -> UserData]
<1>1. ASSUME users \in UserTables
      PROVE  DOMAIN users \subseteq Fields /\ users \in [DOMAIN users -> UserData]
    <2>1. PICK D \in SUBSET Fields : users \in [D -> UserData]
        BY <1>1 DEF UserTables
    <2>2. DOMAIN users = D
        BY <2>1
    <2> QED BY <2>1, <2>2
<1>2. ASSUME DOMAIN users \subseteq Fields, users \in [DOMAIN users -> UserData]
      PROVE  users \in UserTables
    <2>1. DOMAIN users \in SUBSET Fields
        BY <1>2
    <2> QED BY <1>2, <2>1 DEF UserTables
<1> QED BY <1>1, <1>2

\* Administrators are finitely many, if users are.
LEMMA AdminsType ==
    ASSUME NEW users, IsFiniteSet(DOMAIN users)
    PROVE  /\ Admins(users) \subseteq DOMAIN users /\ IsFiniteSet(Admins(users))
           /\ Cardinality(Admins(users)) \in Nat
<1>1. Admins(users) \subseteq DOMAIN users
    BY DEF Admins
<1>2. IsFiniteSet(Admins(users))
    BY <1>1, FS_Subset
<1> QED BY <1>1, <1>2, FS_CardinalityType

\* An entry more leaves a table one, with its administrators as expected.
LEMMA WithType ==
    ASSUME NEW users \in UserTables, IsFiniteSet(DOMAIN users), NEW u \in Fields, NEW data \in UserData
    PROVE  /\ With(users, u, data) \in UserTables
           /\ DOMAIN With(users, u, data) = DOMAIN users \cup {u}
           /\ IsFiniteSet(DOMAIN With(users, u, data))
           /\ Admins(With(users, u, data)) =
                 IF data.role = "Admin" THEN Admins(users) \cup {u} ELSE Admins(users) \ {u}
<1> DEFINE new == With(users, u, data)
<1>1. DOMAIN users \subseteq Fields /\ users \in [DOMAIN users -> UserData]
    BY TableType
<1>2. /\ DOMAIN new = DOMAIN users \cup {u} /\ new[u] = data
      /\ \A v \in DOMAIN users : v # u => new[v] = users[v]
      /\ new \in [DOMAIN users \cup {u} -> UserData]
    BY <1>1 DEF With
<1> HIDE DEF new
<1>3. new \in UserTables
    BY <1>1, <1>2, TableType
<1>4. IsFiniteSet(DOMAIN new)
    BY <1>2, FS_AddElement
<1>5. Admins(new) = IF data.role = "Admin" THEN Admins(users) \cup {u} ELSE Admins(users) \ {u}
    BY <1>2 DEF Admins
<1> QED BY <1>2, <1>3, <1>4, <1>5 DEF new

\* insert_or_update keeps the count of administrators right.
LEMMA ReplacedType ==
    ASSUME NEW t \in Tables, NEW u \in Fields, NEW data \in UserData
    PROVE  /\ Replaced(t, u, data) \in Tables
           /\ Replaced(t, u, data).users = With(t.users, u, data)
           /\ Replaced(t, u, data).ok = t.ok
<1> DEFINE new == With(t.users, u, data)
           count == t.admin_count - One(u \in Admins(t.users)) + One(data.role = "Admin")
<1>1. /\ t \in [ok : BOOLEAN, users : UserTables, admin_count : Nat]
      /\ IsFiniteSet(DOMAIN t.users) /\ t.admin_count = Cardinality(Admins(t.users))
    BY DEF Tables, Counted
<1>2. Replaced(t, u, data) = [t EXCEPT !.users = new, !.admin_count = count]
    BY DEF Replaced
<1>3. t.users \in UserTables
    BY <1>1
<1>4. /\ new \in UserTables /\ IsFiniteSet(DOMAIN new)
      /\ Admins(new) = IF data.role = "Admin" THEN Admins(t.users) \cup {u} ELSE Admins(t.users) \ {u}
    BY <1>1, <1>3, WithType
<1>5. IsFiniteSet(Admins(t.users)) /\ Cardinality(Admins(t.users)) \in Nat
    BY <1>1, AdminsType
<1> HIDE DEF new
<1>6. count = Cardinality(Admins(new)) /\ count \in Nat
    <2>1. CASE data.role = "Admin" /\ u \in Admins(t.users)
        <3>1. Admins(new) = Admins(t.users)
            BY <1>4, <2>1
        <3> QED BY <1>1, <1>5, <2>1, <3>1 DEF One
    <2>2. CASE data.role = "Admin" /\ u \notin Admins(t.users)
        <3>1. Cardinality(Admins(t.users) \cup {u}) = Cardinality(Admins(t.users)) + 1
            BY <1>5, <2>2, FS_AddElement
        <3> QED BY <1>1, <1>4, <1>5, <2>2, <3>1 DEF One
    <2>3. CASE data.role # "Admin" /\ u \in Admins(t.users)
        <3>1. Cardinality(Admins(t.users) \ {u}) = Cardinality(Admins(t.users)) - 1
            BY <1>5, <2>3, FS_RemoveElement
        <3>2. IsFiniteSet(Admins(new)) /\ Cardinality(Admins(new)) \in Nat
            BY <1>4, AdminsType
        <3> QED BY <1>1, <1>4, <1>5, <2>3, <3>1, <3>2 DEF One
    <2>4. CASE data.role # "Admin" /\ u \notin Admins(t.users)
        <3>1. Admins(new) = Admins(t.users)
            BY <1>4, <2>4
        <3> QED BY <1>1, <1>5, <2>4, <3>1 DEF One
    <2> QED BY <2>1, <2>2, <2>3, <2>4
<1> HIDE DEF count
<1>7. Replaced(t, u, data) \in [ok : BOOLEAN, users : UserTables, admin_count : Nat]
    BY <1>1, <1>2, <1>4, <1>6
<1>8. /\ Replaced(t, u, data).users = new /\ Replaced(t, u, data).admin_count = count
      /\ Replaced(t, u, data).ok = t.ok
    BY <1>1, <1>2
<1> QED BY <1>4, <1>6, <1>7, <1>8 DEF Tables, Counted, new

\* So does the empty table.
LEMMA EmptyTableType == EmptyTable \in Tables /\ EmptyTable.ok /\ EmptyTable.users = NoUsers
<1>1. NoUsers \in UserTables /\ DOMAIN NoUsers = {}
    <2>1. DOMAIN NoUsers = {} /\ NoUsers \in [{} -> UserData]
        BY DEF NoUsers
    <2> QED BY <2>1, TableType
<1>2. Admins(NoUsers) = {}
    BY <1>1 DEF Admins
<1> QED BY <1>1, <1>2, FS_EmptySet DEF EmptyTable, Tables, Counted

\* What Scan makes of some characters.
Scans == [field : {"username", "password"}, escape : BOOLEAN, username : Text, password : Text]

\* A character leaves it one.
LEMMA ScanCharType ==
    ASSUME NEW scan \in Scans, NEW c \in Chars
    PROVE  ScanChar(scan, c) \in Scans
<1>0. Append(scan.username, c) \in Text /\ Append(scan.password, c) \in Text
    BY DEF Scans, Text
<1>1. CASE scan.field = "username"
    BY <1>0, <1>1 DEF ScanChar, Scans
<1>2. CASE scan.field = "password"
    BY <1>0, <1>2 DEF ScanChar, Scans
<1> QED BY <1>1, <1>2 DEF Scans

-----------------------------------------------------------------------------
(* Lines, read                                                             *)

\* A character escaped, or not, is text.
LEMMA EscapeCharType ==
    ASSUME NEW s \in Text, NEW c \in Chars
    PROVE  EscapeChar(s, c) \in Text
<1>1. Escape \in Chars
    BY UsersFileAssumption DEF Escape
<1> QED BY <1>1 DEF EscapeChar, Text

\* What a text is made of.
LEMMA TextFacts ==
    ASSUME NEW s \in Text
    PROVE  Len(s) \in Nat /\ (\A i \in 1 .. Len(s) : s[i] \in Chars) /\ (s = <<>> <=> Len(s) = 0)
BY DEF Text

\* A trimmed line is text, and a line that starts with no blank is itself.
LEMMA TrimStartType ==
    ASSUME NEW line \in Text
    PROVE  /\ TrimStart(line) \in Text
           /\ line # <<>> /\ line[1] # Blank => TrimStart(line) = line
<1> DEFINE I == {i \in 1 .. Len(line) : line[i] # Blank}
<1>1. TrimStart(line) = IF I = {} \/ Min(I) = 0 THEN <<>> ELSE SubSeq(line, Min(I), Len(line))
    BY DEF TrimStart, SelectInSeq
<1>2. Len(line) \in Nat
    BY TextFacts
<1>3. I \in SUBSET Nat /\ (\A i \in I : i \in 1 .. Len(line)) /\ (\A i \in 1 .. Len(line) : line[i] # Blank => i \in I)
    BY <1>2
<1> HIDE DEF I
<1>4. I # {} => Min(I) \in I /\ \A i \in I : Min(I) <= i
    BY <1>3, LeastNat DEF Min
<1>5. TrimStart(line) \in Text
    <2>1. CASE I = {} \/ Min(I) = 0
        BY <1>1, <2>1 DEF Text
    <2>2. CASE I # {} /\ Min(I) # 0
        <3>1. Min(I) \in 1 .. Len(line)
            BY <1>3, <1>4, <2>2
        <3> QED BY <1>1, <1>2, <2>2, <3>1 DEF Text
    <2> QED BY <2>1, <2>2
<1>6. ASSUME line # <<>>, line[1] # Blank PROVE TrimStart(line) = line
    <2>1. 1 \in I
        BY <1>2, <1>3, <1>6, TextFacts
    <2>2. Min(I) = 1
        <3>1. I # {}
            BY <2>1
        <3>2. Min(I) \in I /\ Min(I) <= 1
            BY <1>4, <2>1, <3>1
        <3>3. Min(I) \in 1 .. Len(line)
            BY <1>3, <3>2
        <3> QED BY <1>2, <3>2, <3>3
    <2>3. SubSeq(line, 1, Len(line)) = line
        BY DEF Text
    <2> QED BY <1>1, <2>1, <2>2, <2>3
<1> QED BY <1>5, <1>6

\* Scan goes on with each character.
LEMMA ScanFold ==
    /\ Scan(<<>>) = ScanStart
    /\ \A chars \in Text : Scan(chars) \in Scans
    /\ \A chars \in Text, c \in Chars :
          Scan(Append(chars, c)) = ScanChar(Scan(chars), c)
<1> DEFINE step == [x \in Scans \X Chars |-> ScanChar(x[1], x[2])]
<1>1. ScanStart \in Scans
    BY DEF ScanStart, Scans, Text
<1>2. IsStep(step, Scans, Chars)
    BY ScanCharType DEF IsStep
<1>3. \A x \in Scans, c \in Chars :
         step[<<x, c>>] = ScanChar(x, c) /\ Applied(step, x, c) = ScanChar(x, c)
    BY DEF Applied
<1> HIDE DEF step
<1>4. ASSUME NEW chars \in Text
      PROVE  Scan(chars) = Fold(Scans, ScanStart, step, chars)
    <2> DEFINE N == Len(chars)
               F == CHOOSE f : f = [n \in 0 .. N |->
                                      IF n = 0 THEN ScanStart ELSE ScanChar(f[n - 1], chars[n])]
    <2>1. Scan(chars) = F[N]
        BY DEF Scan
    <2>2. PICK g : IsFold(g, Scans, ScanStart, step, chars)
        BY <1>1, <1>2, FoldExists DEF Text
    <2>3. N \in Nat /\ \A n \in 1 .. N : chars[n] \in Chars
        BY DEF Text
    <2>4. g = [n \in 0 .. N |-> IF n = 0 THEN ScanStart ELSE ScanChar(g[n - 1], chars[n])]
        <3>1. /\ g \in [0 .. N -> Scans] /\ g[0] = ScanStart
              /\ \A n \in 1 .. N : g[n] = step[<<g[n - 1], chars[n]>>]
            BY <2>2 DEF IsFold
        <3> HIDE DEF N
        <3>2. ASSUME NEW n \in 1 .. N PROVE g[n] = ScanChar(g[n - 1], chars[n])
            <4>1. g[n - 1] \in Scans /\ chars[n] \in Chars
                BY <2>3, <3>1
            <4> QED BY <1>3, <3>1, <4>1
        <3> QED BY <2>3, <3>1, <3>2
    <2>5. F = [n \in 0 .. N |-> IF n = 0 THEN ScanStart ELSE ScanChar(F[n - 1], chars[n])]
        BY <2>4
    <2> HIDE DEF F
    <2>6. Follows(F, Scans, ScanStart, step, chars)
        <3>1. F[0] = ScanStart /\ \A n \in 1 .. N : F[n] = ScanChar(F[n - 1], chars[n])
            <4> HIDE DEF N
            <4> QED BY <2>3, <2>5
        <3> QED BY <1>3, <2>3, <3>1 DEF Follows
    <2> QED BY <1>1, <1>2, <2>1, <2>6, FoldIs DEF Text
<1>5. /\ Fold(Scans, ScanStart, step, <<>>) = ScanStart
      /\ \A s \in Seq(Chars) : Fold(Scans, ScanStart, step, s) \in Scans
      /\ \A s \in Seq(Chars), e \in Chars :
            Fold(Scans, ScanStart, step, Append(s, e)) = Applied(step, Fold(Scans, ScanStart, step, s), e)
    BY <1>1, <1>2, FoldStep
<1>6. <<>> \in Text /\ \A s \in Text, e \in Chars : Append(s, e) \in Text
    BY DEF Text
<1>7. ASSUME NEW s \in Text, NEW c \in Chars
      PROVE  Scan(Append(s, c)) = ScanChar(Scan(s), c)
    <2>1. Append(s, c) \in Text /\ s \in Seq(Chars)
        BY <1>6 DEF Text
    <2>2. Scan(s) = Fold(Scans, ScanStart, step, s)
        BY <1>4
    <2>3. Scan(Append(s, c)) = Fold(Scans, ScanStart, step, Append(s, c))
        BY <1>4, <2>1
    <2>4. Fold(Scans, ScanStart, step, s) \in Scans
        BY <1>5, <2>1
    <2>5. Fold(Scans, ScanStart, step, Append(s, c)) = Applied(step, Fold(Scans, ScanStart, step, s), c)
        BY <1>5, <2>1
    <2> QED BY <1>3, <2>2, <2>3, <2>4, <2>5
<1>8. Scan(<<>>) = ScanStart
    BY <1>4, <1>5, <1>6
<1>9. ASSUME NEW s \in Text PROVE Scan(s) \in Scans
    <2>1. s \in Seq(Chars) /\ Scan(s) = Fold(Scans, ScanStart, step, s)
        BY <1>4 DEF Text
    <2> QED BY <1>5, <2>1
<1> QED BY <1>7, <1>8, <1>9, Zenon

\* A user within the limits.
ParsedUser(parsed) ==
    parsed.username \in Fields /\ parsed.username # <<>> /\ parsed.data \in UserData

\* A line is nothing, an error or a user within the limits.
LEMMA ParsedLineType ==
    ASSUME NEW line \in Text
    PROVE  /\ ParsedLine(line).type \in {"nothing", "error", "user"}
           /\ ParsedLine(line).type = "user" => ParsedUser(ParsedLine(line))
<1> DEFINE scan == Scan(Tail(line))
<1>1. CASE line = <<>>
    BY <1>1 DEF ParsedLine
<1>2. CASE line # <<>>
    <2>1. scan \in Scans
        <3>1. Tail(line) \in Text
            BY <1>2 DEF Text
        <3> QED BY <3>1, ScanFold
    <2> HIDE DEF scan
    <2>2. CASE Head(line) = "!"
        BY <2>2 DEF ParsedLine
    <2>3. CASE Head(line) \notin {"!", "@", "#"}
        BY <1>2, <2>3 DEF ParsedLine
    <2>4. CASE Head(line) \in {"@", "#"}
        <3>1. ParsedLine(line) =
                 IF scan.field = "password" /\ FitsLength(scan.username) /\ FitsLength(scan.password)
                 THEN [type |-> "user", username |-> scan.username,
                       data |-> [password |-> scan.password,
                                 role |-> IF Head(line) = "@" THEN "Admin" ELSE "Regular"]]
                 ELSE [type |-> "error"]
            BY <1>2, <2>4 DEF ParsedLine, scan
        <3>2. FitsLength(scan.username) /\ FitsLength(scan.password) =>
                 /\ scan.username \in Fields /\ scan.password \in Fields /\ scan.username # <<>>
            BY <2>1 DEF FitsLength, Fields, Scans
        <3> QED BY <3>1, <3>2 DEF ParsedUser, UserData, RoleChars
    <2> QED BY <2>2, <2>3, <2>4
<1> QED BY <1>1, <1>2

\* A line leaves a table one.
LEMMA LoadLineType ==
    ASSUME NEW t \in Tables, NEW line \in Text
    PROVE  LoadLine(t, line) \in Tables
<1> DEFINE parsed == Parsed(line)
<1>1. /\ parsed.type \in {"nothing", "error", "user"}
      /\ parsed.type = "user" => ParsedUser(parsed)
    BY TrimStartType, ParsedLineType DEF Parsed
<1> HIDE DEF parsed
<1>2. t \in [ok : BOOLEAN, users : UserTables, admin_count : Nat] /\ Counted(t)
    BY DEF Tables
<1>3. CASE ~t.ok \/ parsed.type = "nothing"
    BY <1>3 DEF LoadLine, parsed
<1>4. CASE t.ok /\ parsed.type = "error"
    <2>1. LoadLine(t, line) = [t EXCEPT !.ok = FALSE]
        BY <1>4 DEF LoadLine, parsed
    <2> QED BY <1>2, <2>1 DEF Tables, Counted
<1>5. CASE t.ok /\ parsed.type = "user"
    <2>1. LoadLine(t, line) = Replaced(t, parsed.username, parsed.data)
        BY <1>5 DEF LoadLine, parsed
    <2> QED BY <1>1, <1>5, <2>1, ReplacedType DEF ParsedUser
<1> QED BY <1>1, <1>2, <1>3, <1>4, <1>5

\* Escaped goes on with each character.
LEMMA EscapedFold ==
    /\ Escaped(<<>>) = <<>>
    /\ \A name \in Text : Escaped(name) \in Text
    /\ \A name \in Text, c \in Chars :
          Escaped(Append(name, c)) = EscapeChar(Escaped(name), c)
<1> DEFINE step == [x \in Text \X Chars |-> EscapeChar(x[1], x[2])]
<1>1. <<>> \in Text
    BY DEF Text
<1>2. IsStep(step, Text, Chars)
    BY EscapeCharType DEF IsStep
<1>3. \A x \in Text, c \in Chars :
         step[<<x, c>>] = EscapeChar(x, c) /\ Applied(step, x, c) = EscapeChar(x, c)
    BY DEF Applied
<1> HIDE DEF step
<1>4. ASSUME NEW name \in Text
      PROVE  Escaped(name) = Fold(Text, <<>>, step, name)
    <2> DEFINE N == Len(name)
               F == CHOOSE f : f = [n \in 0 .. N |->
                                      IF n = 0 THEN <<>> ELSE EscapeChar(f[n - 1], name[n])]
    <2>1. Escaped(name) = F[N]
        BY DEF Escaped
    <2>2. PICK g : IsFold(g, Text, <<>>, step, name)
        BY <1>1, <1>2, FoldExists DEF Text
    <2>3. N \in Nat /\ \A n \in 1 .. N : name[n] \in Chars
        BY DEF Text
    <2>4. g = [n \in 0 .. N |-> IF n = 0 THEN <<>> ELSE EscapeChar(g[n - 1], name[n])]
        <3>1. /\ g \in [0 .. N -> Text] /\ g[0] = <<>>
              /\ \A n \in 1 .. N : g[n] = step[<<g[n - 1], name[n]>>]
            BY <2>2 DEF IsFold
        <3> HIDE DEF N
        <3>2. ASSUME NEW n \in 1 .. N PROVE g[n] = EscapeChar(g[n - 1], name[n])
            <4>1. g[n - 1] \in Text /\ name[n] \in Chars
                BY <2>3, <3>1
            <4> QED BY <1>3, <3>1, <4>1
        <3> QED BY <2>3, <3>1, <3>2
    <2>5. F = [n \in 0 .. N |-> IF n = 0 THEN <<>> ELSE EscapeChar(F[n - 1], name[n])]
        BY <2>4
    <2> HIDE DEF F
    <2>6. Follows(F, Text, <<>>, step, name)
        <3>1. F[0] = <<>> /\ \A n \in 1 .. N : F[n] = EscapeChar(F[n - 1], name[n])
            <4> HIDE DEF N
            <4> QED BY <2>3, <2>5
        <3> QED BY <1>3, <2>3, <3>1 DEF Follows
    <2> QED BY <1>1, <1>2, <2>1, <2>6, FoldIs DEF Text
<1>5. /\ Fold(Text, <<>>, step, <<>>) = <<>>
      /\ \A s \in Seq(Chars) : Fold(Text, <<>>, step, s) \in Text
      /\ \A s \in Seq(Chars), e \in Chars :
            Fold(Text, <<>>, step, Append(s, e)) = Applied(step, Fold(Text, <<>>, step, s), e)
    BY <1>1, <1>2, FoldStep
<1>6. <<>> \in Text /\ \A s \in Text, e \in Chars : Append(s, e) \in Text
    BY DEF Text
<1>7. ASSUME NEW s \in Text, NEW c \in Chars
      PROVE  Escaped(Append(s, c)) = EscapeChar(Escaped(s), c)
    <2>1. Append(s, c) \in Text /\ s \in Seq(Chars)
        BY <1>6 DEF Text
    <2>2. Escaped(s) = Fold(Text, <<>>, step, s)
        BY <1>4
    <2>3. Escaped(Append(s, c)) = Fold(Text, <<>>, step, Append(s, c))
        BY <1>4, <2>1
    <2>4. Fold(Text, <<>>, step, s) \in Text
        BY <1>5, <2>1
    <2>5. Fold(Text, <<>>, step, Append(s, c)) = Applied(step, Fold(Text, <<>>, step, s), c)
        BY <1>5, <2>1
    <2> QED BY <1>3, <2>2, <2>3, <2>4, <2>5
<1>8. Escaped(<<>>) = <<>>
    BY <1>4, <1>5, <1>6
<1>9. ASSUME NEW s \in Text PROVE Escaped(s) \in Text
    <2>1. s \in Seq(Chars) /\ Escaped(s) = Fold(Text, <<>>, step, s)
        BY <1>4 DEF Text
    <2> QED BY <1>5, <2>1
<1> QED BY <1>7, <1>8, <1>9, Zenon

\* LoadLines goes on with each line.
LEMMA LinesFold ==
  ASSUME NEW tab \in Tables
  PROVE
    /\ LoadLines(tab, <<>>) = tab
    /\ \A lines \in Seq(Text) : LoadLines(tab, lines) \in Tables
    /\ \A lines \in Seq(Text), line \in Text :
          LoadLines(tab, Append(lines, line)) = LoadLine(LoadLines(tab, lines), line)
<1> DEFINE step == [x \in Tables \X Text |-> LoadLine(x[1], x[2])]
<1>1. tab \in Tables
    OBVIOUS
<1>2. IsStep(step, Tables, Text)
    BY LoadLineType DEF IsStep
<1>3. \A x \in Tables, line \in Text :
         step[<<x, line>>] = LoadLine(x, line) /\ Applied(step, x, line) = LoadLine(x, line)
    BY DEF Applied
<1> HIDE DEF step
<1>4. ASSUME NEW lines \in Seq(Text)
      PROVE  LoadLines(tab, lines) = Fold(Tables, tab, step, lines)
    <2> DEFINE N == Len(lines)
               F == CHOOSE f : f = [n \in 0 .. N |->
                                      IF n = 0 THEN tab ELSE LoadLine(f[n - 1], lines[n])]
    <2>1. LoadLines(tab, lines) = F[N]
        BY DEF LoadLines
    <2>2. PICK g : IsFold(g, Tables, tab, step, lines)
        BY <1>1, <1>2, FoldExists
    <2>3. N \in Nat /\ \A n \in 1 .. N : lines[n] \in Text
        BY <1>1
    <2>4. g = [n \in 0 .. N |-> IF n = 0 THEN tab ELSE LoadLine(g[n - 1], lines[n])]
        <3>1. /\ g \in [0 .. N -> Tables] /\ g[0] = tab
              /\ \A n \in 1 .. N : g[n] = step[<<g[n - 1], lines[n]>>]
            BY <2>2 DEF IsFold
        <3> HIDE DEF N
        <3>2. ASSUME NEW n \in 1 .. N PROVE g[n] = LoadLine(g[n - 1], lines[n])
            <4>1. g[n - 1] \in Tables /\ lines[n] \in Text
                BY <2>3, <3>1
            <4> QED BY <1>3, <3>1, <4>1
        <3> QED BY <2>3, <3>1, <3>2
    <2>5. F = [n \in 0 .. N |-> IF n = 0 THEN tab ELSE LoadLine(F[n - 1], lines[n])]
        BY <2>4
    <2> HIDE DEF F
    <2>6. Follows(F, Tables, tab, step, lines)
        <3>1. F[0] = tab /\ \A n \in 1 .. N : F[n] = LoadLine(F[n - 1], lines[n])
            <4> HIDE DEF N
            <4> QED BY <2>3, <2>5
        <3> QED BY <1>3, <2>3, <3>1 DEF Follows
    <2> QED BY <1>1, <1>2, <2>1, <2>6, FoldIs
<1>5. /\ Fold(Tables, tab, step, <<>>) = tab
      /\ \A s \in Seq(Text) : Fold(Tables, tab, step, s) \in Tables
      /\ \A s \in Seq(Text), e \in Text :
            Fold(Tables, tab, step, Append(s, e)) = Applied(step, Fold(Tables, tab, step, s), e)
    BY <1>1, <1>2, FoldStep
<1>6. <<>> \in Seq(Text) /\ \A s \in Seq(Text), e \in Text : Append(s, e) \in Seq(Text)
    BY <1>1
<1>7. ASSUME NEW s \in Seq(Text), NEW line \in Text
      PROVE  LoadLines(tab, Append(s, line)) = LoadLine(LoadLines(tab, s), line)
    <2>1. Append(s, line) \in Seq(Text) /\ s \in Seq(Text)
        BY <1>6
    <2>2. LoadLines(tab, s) = Fold(Tables, tab, step, s)
        BY <1>4
    <2>3. LoadLines(tab, Append(s, line)) = Fold(Tables, tab, step, Append(s, line))
        BY <1>4, <2>1
    <2>4. Fold(Tables, tab, step, s) \in Tables
        BY <1>5, <2>1
    <2>5. Fold(Tables, tab, step, Append(s, line)) = Applied(step, Fold(Tables, tab, step, s), line)
        BY <1>5, <2>1
    <2> QED BY <1>3, <2>2, <2>3, <2>4, <2>5
<1>8. LoadLines(tab, <<>>) = tab
    BY <1>4, <1>5, <1>6
<1>9. ASSUME NEW s \in Seq(Text) PROVE LoadLines(tab, s) \in Tables
    <2>1. s \in Seq(Text) /\ LoadLines(tab, s) = Fold(Tables, tab, step, s)
        BY <1>4
    <2> QED BY <1>5, <2>1
<1> QED BY <1>7, <1>8, <1>9, Zenon

-----------------------------------------------------------------------------
(* The users some lines describe                                           *)

\* The line i holds: it is the last one about its name.
Latest(lines, i) ==
    /\ i \in UserLines(lines)
    /\ \A j \in UserLines(lines) : NameAt(lines, j) = NameAt(lines, i) => j <= i

\* Users are those of the lines that hold.
Describes(lines, users) ==
    /\ users \in UserTables
    /\ DOMAIN users = {NameAt(lines, i) : i \in UserLines(lines)}
    /\ \A i \in 1 .. Len(lines) :
          Latest(lines, i) => users[NameAt(lines, i)] = Parsed(lines[i]).data

\* A bounded set of naturals has a greatest element.
LEMMA GreatestNat ==
    ASSUME NEW T \in SUBSET Nat, T # {}, NEW b \in Nat, \A m \in T : m <= b
    PROVE  \E n \in T : \A m \in T : m <= n
<1> DEFINE U == {n \in Nat : \A m \in T : m <= n}
<1>1. PICK n \in U : \A m \in U : n <= m
    BY LeastNat
<1>2. n \in T
    <2> SUFFICES ASSUME n \notin T PROVE FALSE
        OBVIOUS
    <2>1. PICK m \in T : TRUE
        OBVIOUS
    <2>2. n \in Nat /\ m \in Nat /\ m <= n /\ m # n
        BY <2>1
    <2>3. n - 1 \in Nat /\ \A x \in T : x <= n - 1
        BY <2>2
    <2> QED BY <1>1, <2>2, <2>3
<1> QED BY <1>1, <1>2

\* A line, trimmed, is nothing, an error or a user within the limits.
LEMMA ParsedType ==
    ASSUME NEW line \in Text
    PROVE  /\ Parsed(line).type \in {"nothing", "error", "user"}
           /\ Parsed(line).type = "user" => ParsedUser(Parsed(line))
BY TrimStartType, ParsedLineType DEF Parsed

\* Of the lines about a name one is the last.
LEMMA LatestIs ==
    ASSUME NEW lines \in Seq(Text), NEW i \in UserLines(lines)
    PROVE  \E l \in 1 .. Len(lines) : Latest(lines, l) /\ NameAt(lines, l) = NameAt(lines, i)
<1> DEFINE T == {j \in UserLines(lines) : NameAt(lines, j) = NameAt(lines, i)}
<1>1. Len(lines) \in Nat /\ \A j \in UserLines(lines) : j \in 1 .. Len(lines)
    BY DEF UserLines
<1>2. T \in SUBSET Nat /\ T # {} /\ \A j \in T : j <= Len(lines)
    BY <1>1
<1>3. \A j \in T : j \in UserLines(lines) /\ NameAt(lines, j) = NameAt(lines, i)
    OBVIOUS
<1>4. \A j \in UserLines(lines) : NameAt(lines, j) = NameAt(lines, i) => j \in T
    OBVIOUS
<1> HIDE DEF T
<1>5. PICK l \in T : \A j \in T : j <= l
    BY <1>1, <1>2, GreatestNat
<1> QED BY <1>1, <1>3, <1>4, <1>5 DEF Latest

\* Lines describe one table of users only.
LEMMA OneDescribed ==
    ASSUME NEW lines \in Seq(Text), NEW f, NEW g, Describes(lines, f), Describes(lines, g)
    PROVE  f = g
<1>1. DOMAIN f = DOMAIN g
    BY DEF Describes
<1>2. ASSUME NEW u \in DOMAIN f PROVE f[u] = g[u]
    <2>1. PICK i \in UserLines(lines) : u = NameAt(lines, i)
        BY DEF Describes
    <2>2. PICK l \in 1 .. Len(lines) : Latest(lines, l) /\ NameAt(lines, l) = NameAt(lines, i)
        BY LatestIs
    <2> QED BY <2>1, <2>2 DEF Describes
<1>3. f \in [DOMAIN f -> UserData] /\ g \in [DOMAIN g -> UserData]
    BY TableType DEF Describes
<1> QED BY <1>1, <1>2, <1>3

\* It is the one that the documentation of the format names.
LEMMA UsersOfIs ==
    ASSUME NEW lines \in Seq(Text)
    PROVE  /\ Describes(lines, UsersOf(lines).users)
           /\ UsersOf(lines).ok <=> UserLines(lines) # {} /\ WellFormed(lines)
<1> DEFINE users == UsersOf(lines).users
           names == {NameAt(lines, i) : i \in UserLines(lines)}
<1>1. users = [u \in names |-> Parsed(lines[LastAbout(lines, u)]).data]
    BY DEF UsersOf
<1>2. ASSUME NEW i \in UserLines(lines)
      PROVE  LET l == LastAbout(lines, NameAt(lines, i))
             IN  l \in 1 .. Len(lines) /\ Latest(lines, l) /\ NameAt(lines, l) = NameAt(lines, i)
    <2>1. PICK l \in 1 .. Len(lines) : Latest(lines, l) /\ NameAt(lines, l) = NameAt(lines, i)
        BY LatestIs
    <2>2. \E k \in UserLines(lines) :
              /\ NameAt(lines, k) = NameAt(lines, i)
              /\ \A j \in UserLines(lines) : NameAt(lines, j) = NameAt(lines, i) => j <= k
        BY <2>1 DEF Latest
    <2>3. LET k == LastAbout(lines, NameAt(lines, i))
          IN  /\ k \in UserLines(lines) /\ NameAt(lines, k) = NameAt(lines, i)
              /\ \A j \in UserLines(lines) : NameAt(lines, j) = NameAt(lines, i) => j <= k
        BY <2>2 DEF LastAbout
    <2> QED BY <2>3 DEF Latest, UserLines
<1>3. \A i \in UserLines(lines) :
         i \in 1 .. Len(lines) /\ lines[i] \in Text /\ Parsed(lines[i]).type = "user"
    BY DEF UserLines
<1>4. users \in UserTables
    <2>1. ASSUME NEW u \in names PROVE u \in Fields /\ users[u] \in UserData
        <3>1. PICK i \in UserLines(lines) : u = NameAt(lines, i)
            OBVIOUS
        <3>2. u \in Fields
            BY <1>3, <3>1, ParsedType DEF NameAt, ParsedUser
        <3> DEFINE l == LastAbout(lines, u)
        <3>3. l \in UserLines(lines)
            BY <1>2, <3>1 DEF Latest
        <3>4. Parsed(lines[l]).data \in UserData
            BY <1>3, <3>3, ParsedType DEF ParsedUser
        <3> QED BY <1>1, <3>2, <3>4
    <2> HIDE DEF names, users
    <2>2. DOMAIN users = names /\ names \subseteq Fields /\ users \in [names -> UserData]
        BY <1>1, <2>1
    <2> QED BY <2>2, TableType
<1>5. \A i \in 1 .. Len(lines) :
         Latest(lines, i) => users[NameAt(lines, i)] = Parsed(lines[i]).data
    <2> SUFFICES ASSUME NEW i \in 1 .. Len(lines), Latest(lines, i)
                 PROVE  users[NameAt(lines, i)] = Parsed(lines[i]).data
        OBVIOUS
    <2> DEFINE l == LastAbout(lines, NameAt(lines, i))
    <2>1. i \in UserLines(lines) /\ l \in 1 .. Len(lines) /\ Latest(lines, l) /\ NameAt(lines, l) = NameAt(lines, i)
        BY <1>2 DEF Latest
    <2>2. l = i
        <3> HIDE DEF l
        <3>1. l <= i /\ i <= l
            BY <2>1 DEF Latest
        <3> QED BY <2>1, <3>1
    <2>3. users[NameAt(lines, i)] = Parsed(lines[l]).data
        BY <1>1, <2>1
    <2> QED BY <2>2, <2>3
<1>6. DOMAIN users = names
    BY <1>1
<1>7. Describes(lines, users)
    BY <1>4, <1>5, <1>6 DEF Describes
<1> QED BY <1>7 DEF UsersOf

\* No line describes no users.
LEMMA NothingDescribed == Describes(<<>>, NoUsers) /\ WellFormed(<<>>)
<1>1. UserLines(<<>>) = {}
    BY DEF UserLines
<1>2. NoUsers \in UserTables /\ DOMAIN NoUsers = {}
    BY EmptyTableType DEF NoUsers, Tables, EmptyTable
<1> QED BY <1>1, <1>2 DEF Describes, WellFormed, Latest

\* A line more: the indices of the lines.
LEMMA AppendedLines ==
    ASSUME NEW lines \in Seq(Text), NEW line \in Text
    PROVE  LET n == Len(lines) + 1
               more == Append(lines, line)
           IN  /\ n \in Nat /\ more \in Seq(Text) /\ Len(more) = n /\ more[n] = line /\ n - 1 = Len(lines)
               /\ \A i \in 1 .. Len(lines) : more[i] = lines[i] /\ i \in 1 .. n /\ i # n /\ lines[i] \in Text
               /\ \A i \in 1 .. n : i # n => i \in 1 .. Len(lines)
               /\ n \in 1 .. n
OBVIOUS

\* A line more: the users among the lines.
LEMMA AppendedUsers ==
    ASSUME NEW lines \in Seq(Text), NEW line \in Text
    PROVE  LET n == Len(lines) + 1
               more == Append(lines, line)
           IN  /\ UserLines(more) = UserLines(lines) \cup (IF Parsed(line).type = "user" THEN {n} ELSE {})
               /\ n \notin UserLines(lines) /\ UserLines(lines) \subseteq 1 .. Len(lines)
               /\ \A i \in UserLines(lines) : NameAt(more, i) = NameAt(lines, i)
               /\ NameAt(more, n) = Parsed(line).username
               /\ WellFormed(more) <=> WellFormed(lines) /\ Parsed(line).type # "error"
<1> DEFINE n == Len(lines) + 1
           more == Append(lines, line)
<1>1. /\ n \in Nat /\ more \in Seq(Text) /\ Len(more) = n /\ more[n] = line /\ n - 1 = Len(lines)
      /\ \A i \in 1 .. Len(lines) : more[i] = lines[i] /\ i \in 1 .. n /\ i # n
      /\ \A i \in 1 .. n : i # n => i \in 1 .. Len(lines)
      /\ n \in 1 .. n
    BY AppendedLines
<1> HIDE DEF n, more
<1>2. UserLines(more) = UserLines(lines) \cup (IF Parsed(line).type = "user" THEN {n} ELSE {})
    BY <1>1 DEF UserLines
<1>3. n \notin UserLines(lines) /\ UserLines(lines) \subseteq 1 .. Len(lines)
    BY <1>1 DEF UserLines
<1>4. \A i \in UserLines(lines) : NameAt(more, i) = NameAt(lines, i)
    BY <1>1, <1>3 DEF NameAt
<1>5. NameAt(more, n) = Parsed(line).username
    BY <1>1 DEF NameAt
<1>6. WellFormed(more) <=> WellFormed(lines) /\ Parsed(line).type # "error"
    BY <1>1 DEF WellFormed
<1> QED BY <1>2, <1>3, <1>4, <1>5, <1>6 DEF n, more

\* A line without a user changes nothing.
LEMMA OtherLineDescribed ==
    ASSUME NEW lines \in Seq(Text), NEW line \in Text, NEW users, Describes(lines, users),
           Parsed(line).type # "user"
    PROVE  Describes(Append(lines, line), users)
<1> DEFINE n == Len(lines) + 1
           more == Append(lines, line)
<1>1. /\ n \in Nat /\ more \in Seq(Text) /\ Len(more) = n /\ n - 1 = Len(lines)
      /\ \A i \in 1 .. Len(lines) : more[i] = lines[i] /\ i \in 1 .. n
      /\ \A i \in 1 .. n : i # n => i \in 1 .. Len(lines)
    BY AppendedLines
<1>2. /\ UserLines(more) = UserLines(lines) /\ n \notin UserLines(lines)
      /\ UserLines(lines) \subseteq 1 .. Len(lines)
      /\ \A i \in UserLines(lines) : NameAt(more, i) = NameAt(lines, i)
    BY AppendedUsers
<1> HIDE DEF n, more
<1>3. \A i : Latest(more, i) => Latest(lines, i) /\ i \in UserLines(lines)
    BY <1>2 DEF Latest
<1>4. \A i \in 1 .. Len(more) : Latest(more, i) => users[NameAt(more, i)] = Parsed(more[i]).data
    <2> SUFFICES ASSUME NEW i \in 1 .. Len(more), Latest(more, i)
                 PROVE  users[NameAt(more, i)] = Parsed(more[i]).data
        OBVIOUS
    <2>1. Latest(lines, i) /\ i \in 1 .. Len(lines) /\ NameAt(more, i) = NameAt(lines, i) /\ more[i] = lines[i]
        BY <1>1, <1>2, <1>3
    <2> QED BY <2>1 DEF Describes
<1>5. DOMAIN users = {NameAt(more, i) : i \in UserLines(more)}
    BY <1>2 DEF Describes
<1>6. Describes(more, users)
    BY <1>4, <1>5 DEF Describes
<1> QED BY <1>6 DEF more

\* A line with a user replaces the entry of that name.
LEMMA UserLineDescribed ==
    ASSUME NEW lines \in Seq(Text), NEW line \in Text, NEW users, Describes(lines, users),
           IsFiniteSet(DOMAIN users), Parsed(line).type = "user"
    PROVE  Describes(Append(lines, line), With(users, Parsed(line).username, Parsed(line).data))
<1> DEFINE n == Len(lines) + 1
           more == Append(lines, line)
           u == Parsed(line).username
           data == Parsed(line).data
           new == With(users, u, data)
<1>1. /\ n \in Nat /\ more \in Seq(Text) /\ Len(more) = n /\ n - 1 = Len(lines) /\ more[n] = line /\ Len(lines) \in Nat
      /\ \A i \in 1 .. Len(lines) : more[i] = lines[i] /\ i \in 1 .. n /\ i <= n
      /\ \A i \in 1 .. n : i # n => i \in 1 .. Len(lines)
    BY AppendedLines
<1>2. /\ UserLines(more) = UserLines(lines) \cup {n} /\ n \notin UserLines(lines)
      /\ UserLines(lines) \subseteq 1 .. Len(lines)
      /\ \A i \in UserLines(lines) : NameAt(more, i) = NameAt(lines, i)
      /\ NameAt(more, n) = u
    BY AppendedUsers
<1>3. u \in Fields /\ data \in UserData
    BY ParsedType DEF ParsedUser
<1>4. users \in UserTables /\ DOMAIN users = {NameAt(lines, i) : i \in UserLines(lines)}
    BY DEF Describes
<1>5. /\ new \in UserTables /\ DOMAIN new = DOMAIN users \cup {u}
    BY <1>3, <1>4, WithType
<1>6. /\ new[u] = data /\ \A v \in DOMAIN users : v # u => new[v] = users[v]
    BY DEF With
<1> HIDE DEF n, more, new, u, data
<1>7. DOMAIN new = {NameAt(more, i) : i \in UserLines(more)}
    BY <1>2, <1>4, <1>5
<1>8. ASSUME NEW i \in 1 .. Len(more), Latest(more, i)
      PROVE  new[NameAt(more, i)] = Parsed(more[i]).data
    <2>1. CASE i = n
        BY <1>1, <1>2, <1>6, <2>1 DEF data
    <2>2. CASE i # n
        <3>1. i \in 1 .. Len(lines) /\ more[i] = lines[i] /\ i \in UserLines(lines)
            BY <1>1, <1>2, <1>8, <2>2 DEF Latest
        <3>2. NameAt(more, i) = NameAt(lines, i) /\ NameAt(lines, i) \in DOMAIN users
            BY <1>2, <1>4, <3>1
        <3>3. NameAt(more, i) # u
            <4>1. n \in UserLines(more) /\ ~(n <= i)
                BY <1>1, <1>2, <3>1
            <4> QED BY <1>2, <1>8, <4>1 DEF Latest
        <3>4. Latest(lines, i)
            BY <1>2, <1>8, <3>1, <3>2 DEF Latest
        <3> QED BY <1>6, <3>1, <3>2, <3>3, <3>4 DEF Describes
    <2> QED BY <2>1, <2>2
<1>9. Describes(more, new)
    BY <1>5, <1>7, <1>8 DEF Describes
<1> QED BY <1>9 DEF more, new, u, data

\* Loading some lines more is right for all the lines, if it was for those before.
LEMMA LoadedLines ==
    ASSUME NEW tab \in Tables, tab.ok, NEW before \in Seq(Text),
           WellFormed(before), Describes(before, tab.users), NEW lines \in Seq(Text)
    PROVE  /\ LoadLines(tab, lines) \in Tables
           /\ LoadLines(tab, lines).ok <=> WellFormed(before \o lines)
           /\ LoadLines(tab, lines).ok => Describes(before \o lines, LoadLines(tab, lines).users)
<1> DEFINE P(s) == /\ LoadLines(tab, s) \in Tables
                   /\ LoadLines(tab, s).ok <=> WellFormed(before \o s)
                   /\ LoadLines(tab, s).ok => Describes(before \o s, LoadLines(tab, s).users)
           T == {s \in Seq(Text) : P(s)}
<1>1. <<>> \in T
    <2>1. LoadLines(tab, <<>>) = tab /\ before \o <<>> = before /\ <<>> \in Seq(Text)
        BY LinesFold
    <2> QED BY <2>1
<1>2. ASSUME NEW s \in Seq(Text), NEW line \in Text, s \in T PROVE Append(s, line) \in T
    <2> DEFINE t == LoadLines(tab, s)
               parsed == Parsed(line)
               all == before \o s
    <2>1. LoadLines(tab, Append(s, line)) = LoadLine(t, line)
        BY LinesFold
    <2>2. before \o Append(s, line) = Append(all, line) /\ all \in Seq(Text) /\ Append(s, line) \in Seq(Text)
        OBVIOUS
    <2>3. t \in Tables /\ (t.ok <=> WellFormed(all)) /\ (t.ok => Describes(all, t.users))
        BY <1>2
    <2>4. LoadLine(t, line) \in Tables
        BY <2>3, LoadLineType
    <2>5. WellFormed(Append(all, line)) <=> WellFormed(all) /\ parsed.type # "error"
        BY <2>2, AppendedUsers
    <2>6. parsed.type \in {"nothing", "error", "user"} /\ (parsed.type = "user" => ParsedUser(parsed))
        BY ParsedType
    <2>7. t.ok \in BOOLEAN /\ IsFiniteSet(DOMAIN t.users)
        BY <2>3 DEF Tables, Counted
    <2> HIDE DEF t, parsed, all
    <2>8. /\ LoadLine(t, line).ok <=> WellFormed(Append(all, line))
          /\ LoadLine(t, line).ok => Describes(Append(all, line), LoadLine(t, line).users)
        <3>1. CASE ~t.ok
            BY <2>3, <2>5, <3>1 DEF LoadLine
        <3>2. CASE t.ok /\ parsed.type = "nothing"
            <4>1. LoadLine(t, line) = t
                BY <3>2 DEF LoadLine, parsed
            <4>2. Describes(Append(all, line), t.users)
                BY <2>2, <2>3, <3>2, OtherLineDescribed DEF parsed
            <4> QED BY <2>3, <2>5, <3>2, <4>1, <4>2
        <3>3. CASE t.ok /\ parsed.type = "error"
            <4>1. LoadLine(t, line) = [t EXCEPT !.ok = FALSE]
                BY <3>3 DEF LoadLine, parsed
            <4>2. ~LoadLine(t, line).ok
                BY <2>3, <4>1 DEF Tables
            <4> QED BY <2>5, <3>3, <4>2
        <3>4. CASE t.ok /\ parsed.type = "user"
            <4>1. LoadLine(t, line) = Replaced(t, parsed.username, parsed.data)
                BY <3>4 DEF LoadLine, parsed
            <4>2. Replaced(t, parsed.username, parsed.data).users = With(t.users, parsed.username, parsed.data)
                  /\ Replaced(t, parsed.username, parsed.data).ok = t.ok
                BY <2>3, <2>6, <3>4, ReplacedType DEF ParsedUser
            <4>3. Describes(Append(all, line), With(t.users, parsed.username, parsed.data))
                BY <2>2, <2>3, <2>7, <3>4, UserLineDescribed DEF parsed
            <4> QED BY <2>3, <2>5, <3>4, <4>1, <4>2, <4>3
        <3> QED BY <2>6, <3>1, <3>2, <3>3, <3>4
    <2>9. P(Append(s, line))
        BY <2>1, <2>2, <2>4, <2>8 DEF t, all
    <2> HIDE DEF P
    <2> QED BY <2>2, <2>9
<1>3. \A s \in T : P(s)
    OBVIOUS
<1> HIDE DEF T
<1>4. lines \in T
    BY <1>1, <1>2, SeqInduct
<1> QED BY <1>3, <1>4

-----------------------------------------------------------------------------
(* Texts cut into chunks                                                   *)

\* A text without a newline.
Unbroken(s) == \A i \in 1 .. Len(s) : s[i] # "\n"

\* A character more.
LEMMA AppendedText ==
    ASSUME NEW s \in Text, NEW c \in Chars
    PROVE  /\ Append(s, c) \in Text /\ Len(Append(s, c)) = Len(s) + 1
           /\ Unbroken(Append(s, c)) <=> Unbroken(s) /\ c # "\n"
<1>1. /\ Append(s, c) \in Text /\ Len(Append(s, c)) = Len(s) + 1 /\ Len(s) \in Nat
      /\ \A i \in 1 .. Len(s) : Append(s, c)[i] = s[i] /\ i \in 1 .. Len(s) + 1
      /\ Append(s, c)[Len(s) + 1] = c
    BY DEF Text
<1>2. \A i \in 1 .. Len(s) + 1 : i \in 1 .. Len(s) \/ i = Len(s) + 1
    BY <1>1
<1>3. Len(s) + 1 \in 1 .. Len(s) + 1
    BY <1>1
<1> QED BY <1>1, <1>2, <1>3 DEF Unbroken

\* The empty text.
LEMMA NoText == <<>> \in Text /\ Len(<<>>) = 0 /\ Unbroken(<<>>)
BY DEF Text, Unbroken

\* What Split makes of a character more, field by field.
LEMMA SplitGoesOn ==
    ASSUME NEW s \in Text, NEW c \in Chars
    PROVE  /\ Split(s).lines \in Seq(Text) /\ Split(s).rest \in Text
           /\ c = "\n" => /\ Split(Append(s, c)).lines = Append(Split(s).lines, Split(s).rest)
                          /\ Split(Append(s, c)).rest = <<>>
           /\ c # "\n" => /\ Split(Append(s, c)).lines = Split(s).lines
                          /\ Split(Append(s, c)).rest = Append(Split(s).rest, c)
<1>1. Split(s) \in Splits /\ Split(Append(s, c)) = SplitChar(Split(s), c)
    BY SplitFold
<1> QED BY <1>1 DEF SplitChar, Splits

\* The types of what Split makes of a text.
LEMMA SplitType ==
    ASSUME NEW s \in Text
    PROVE  Split(s) \in Splits /\ Split(s).lines \in Seq(Text) /\ Split(s).rest \in Text
BY SplitFold DEF Splits

\* Of no bytes it makes nothing.
LEMMA SplitNothing == Split(<<>>).lines = <<>> /\ Split(<<>>).rest = <<>>
BY SplitFold DEF SplitStart

\* The rest holds no newline; without complete lines it is everything; and lines
\* and the rest are no longer than the text.
LEMMA SplitShape ==
    ASSUME NEW s \in Text
    PROVE  /\ Unbroken(Split(s).rest)
           /\ Unbroken(s) => Split(s).lines = <<>> /\ Split(s).rest = s
           /\ Split(s).lines = <<>> => Split(s).rest = s
           /\ Len(Split(s).rest) <= Len(s) /\ (Split(s).lines # <<>> => Len(Split(s).rest) < Len(s))
           /\ \A i \in 1 .. Len(Split(s).lines) : Len(Split(s).lines[i]) < Len(s)
<1> DEFINE P(x) == /\ Unbroken(Split(x).rest)
                   /\ Unbroken(x) => Split(x).lines = <<>> /\ Split(x).rest = x
                   /\ Split(x).lines = <<>> => Split(x).rest = x
                   /\ Len(Split(x).rest) <= Len(x) /\ (Split(x).lines # <<>> => Len(Split(x).rest) < Len(x))
                   /\ \A i \in 1 .. Len(Split(x).lines) : Len(Split(x).lines[i]) < Len(x)
           T == {x \in Text : P(x)}
<1>1. P(<<>>)
    BY SplitNothing, NoText
<1>2. ASSUME NEW x \in Text, NEW c \in Chars, P(x) PROVE P(Append(x, c))
    <2> DEFINE y == Append(x, c)
               L == Split(x).lines
               r == Split(x).rest
    <2>1. /\ y \in Text /\ Len(y) = Len(x) + 1 /\ Len(x) \in Nat
          /\ Unbroken(y) <=> Unbroken(x) /\ c # "\n"
        BY AppendedText, TextFacts
    <2>2. /\ L \in Seq(Text) /\ r \in Text /\ Len(r) \in Nat /\ Len(L) \in Nat
          /\ c = "\n" => Split(y).lines = Append(L, r) /\ Split(y).rest = <<>>
          /\ c # "\n" => Split(y).lines = L /\ Split(y).rest = Append(r, c)
        BY SplitGoesOn, TextFacts
    <2>3. /\ Unbroken(r) /\ (Unbroken(x) => L = <<>> /\ r = x) /\ (L = <<>> => r = x)
          /\ Len(r) <= Len(x) /\ (L # <<>> => Len(r) < Len(x))
          /\ \A i \in 1 .. Len(L) : Len(L[i]) < Len(x)
        BY <1>2
    <2>4. \A i \in 1 .. Len(L) : Len(L[i]) \in Nat
        BY <2>2, TextFacts
    <2> HIDE DEF y, L, r
    <2>5. ASSUME c = "\n" PROVE P(y)
        <3>1. Len(Append(L, r)) = Len(L) + 1 /\ Append(L, r) # <<>>
            BY <2>2
        <3>2. \A i \in 1 .. Len(L) + 1 : Len(Append(L, r)[i]) < Len(y)
            BY <2>1, <2>2, <2>3, <2>4
        <3>3. Split(y).lines = Append(L, r) /\ Split(y).rest = <<>>
            BY <2>2, <2>5
        <3>4. Unbroken(Split(y).rest) /\ Len(Split(y).rest) < Len(y)
            BY <2>1, <3>3, NoText
        <3>5. \A i \in 1 .. Len(Split(y).lines) : Len(Split(y).lines[i]) < Len(y)
            BY <3>1, <3>2, <3>3
        <3>6. Split(y).lines # <<>> /\ ~Unbroken(y)
            BY <2>1, <2>5, <3>1, <3>3
        <3> QED BY <2>1, <3>3, <3>4, <3>5, <3>6, NoText
    <2>6. ASSUME c # "\n" PROVE P(y)
        <3>1. Unbroken(Append(r, c)) /\ Len(Append(r, c)) = Len(r) + 1
            BY <2>2, <2>3, <2>6, AppendedText
        <3>2. L = <<>> => Append(r, c) = y
            BY <2>3 DEF y
        <3>3. Split(y).lines = L /\ Split(y).rest = Append(r, c)
            BY <2>2, <2>6
        <3>4. Unbroken(y) => L = <<>>
            BY <2>1, <2>3
        <3>5. \A i \in 1 .. Len(L) : Len(L[i]) < Len(y)
            BY <2>1, <2>3, <2>4
        <3>6. Len(r) + 1 <= Len(y) /\ (L # <<>> => Len(r) + 1 < Len(y))
            BY <2>1, <2>2, <2>3
        <3> QED BY <3>1, <3>2, <3>3, <3>4, <3>5, <3>6
    <2>7. P(y)
        <3> HIDE DEF P
        <3> QED BY <2>5, <2>6
    <2> QED BY <2>7 DEF y
<1> HIDE DEF P
<1>3. <<>> \in T /\ \A x \in Text, c \in Chars : x \in T => Append(x, c) \in T
    BY <1>1, <1>2, NoText, AppendedText
<1>4. \A x \in T : P(x)
    OBVIOUS
<1> HIDE DEF T
<1>5. s \in T
    BY <1>3, SeqInduct DEF Text
<1>6. P(s)
    BY <1>4, <1>5
<1> QED BY <1>6 DEF P

\* Texts put together.
LEMMA ConcatText ==
    ASSUME NEW a \in Text, NEW b \in Text
    PROVE  /\ a \o b \in Text /\ Len(a \o b) = Len(a) + Len(b)
           /\ a \o <<>> = a /\ <<>> \o a = a
           /\ \A c \in Chars : a \o Append(b, c) = Append(a \o b, c) /\ a \o <<c>> = Append(a, c)
BY DEF Text

\* Bytes can be split in two goes: the rest of the first part is taken along.
LEMMA SplitConcat ==
    ASSUME NEW a \in Text, NEW b \in Text
    PROVE  /\ Split(a \o b).lines = Split(a).lines \o Split(Split(a).rest \o b).lines
           /\ Split(a \o b).rest = Split(Split(a).rest \o b).rest
<1> DEFINE L == Split(a).lines
           r == Split(a).rest
           P(x) == /\ Split(a \o x).lines = L \o Split(r \o x).lines
                   /\ Split(a \o x).rest = Split(r \o x).rest
           T == {x \in Text : P(x)}
<1>0. L \in Seq(Text) /\ r \in Text
    BY SplitType
<1>1. P(<<>>)
    <2>1. Split(r).lines = <<>> /\ Split(r).rest = r
        BY <1>0, SplitShape
    <2>2. a \o <<>> = a /\ r \o <<>> = r /\ L \o <<>> = L
        BY <1>0, ConcatText
    <2> HIDE DEF L, r
    <2>3. Split(a).lines = L /\ Split(a).rest = r
        BY DEF L, r
    <2> QED BY <2>1, <2>2, <2>3
<1> HIDE DEF L, r
<1>2. ASSUME NEW x \in Text, NEW c \in Chars, P(x) PROVE P(Append(x, c))
    <2> DEFINE A == a \o x
               B == r \o x
    <2>1. A \in Text /\ B \in Text /\ a \o Append(x, c) = Append(A, c) /\ r \o Append(x, c) = Append(B, c)
        BY <1>0, ConcatText
    <2>2. Split(A).lines = L \o Split(B).lines /\ Split(A).rest = Split(B).rest
        BY <1>2
    <2> HIDE DEF A, B
    <2>3. Split(B).lines \in Seq(Text) /\ Split(B).rest \in Text
        BY <2>1, SplitType
    <2>4. Split(Append(A, c)) = SplitChar(Split(A), c) /\ Split(Append(B, c)) = SplitChar(Split(B), c)
        BY <2>1, SplitFold
    <2>5. Split(A) \in Splits /\ Split(B) \in Splits
        BY <2>1, SplitFold
    <2>6. L \o Append(Split(B).lines, Split(B).rest) = Append(L \o Split(B).lines, Split(B).rest)
        BY <1>0, <2>3
    <2>7. /\ Split(Append(A, c)).lines = L \o Split(Append(B, c)).lines
          /\ Split(Append(A, c)).rest = Split(Append(B, c)).rest
        BY <2>2, <2>4, <2>5, <2>6 DEF SplitChar, Splits
    <2> QED BY <2>1, <2>7
<1> HIDE DEF P
<1>3. <<>> \in T /\ \A x \in Text, c \in Chars : x \in T => Append(x, c) \in T
    BY <1>1, <1>2, NoText, AppendedText
<1>4. \A x \in T : P(x)
    OBVIOUS
<1> HIDE DEF T
<1>5. b \in T
    BY <1>3, SeqInduct DEF Text
<1>6. P(b)
    BY <1>4, <1>5
<1> QED BY <1>6 DEF P, L, r

\* The lines of a text are texts.
LEMMA AllLinesType ==
    ASSUME NEW s \in Text
    PROVE  AllLines(s) \in Seq(Text)
<1>1. Split(s).lines \in Seq(Text) /\ Split(s).rest \in Text
    BY SplitType
<1> QED BY <1>1 DEF AllLines

\* So can the lines of a whole file.
LEMMA AllLinesConcat ==
    ASSUME NEW a \in Text, NEW b \in Text
    PROVE  /\ AllLines(a \o b) = Split(a).lines \o AllLines(Split(a).rest \o b)
           /\ AllLines(Split(a).rest \o b) \in Seq(Text)
<1> DEFINE L == Split(a).lines
           s == Split(a).rest \o b
<1>1. L \in Seq(Text) /\ s \in Text
    BY SplitType, ConcatText
<1>2. Split(a \o b).lines = L \o Split(s).lines /\ Split(a \o b).rest = Split(s).rest
    BY SplitConcat
<1> HIDE DEF L, s
<1>3. Split(s).lines \in Seq(Text) /\ Split(s).rest \in Text
    BY <1>1, SplitType
<1>4. L \o Append(Split(s).lines, Split(s).rest) = Append(L \o Split(s).lines, Split(s).rest)
    BY <1>1, <1>3
<1>5. AllLines(a \o b) = L \o AllLines(s)
    BY <1>2, <1>4 DEF AllLines
<1>6. AllLines(s) \in Seq(Text)
    BY <1>1, AllLinesType
<1> QED BY <1>5, <1>6 DEF L, s

\* A text that starts without a newline has a first line that is as long at least.
LEMMA FirstLine ==
    ASSUME NEW r \in Text, Unbroken(r), r # <<>>, NEW b \in Text
    PROVE  AllLines(r \o b) # <<>> /\ Len(AllLines(r \o b)[1]) >= Len(r)
<1> DEFINE L(x) == Split(r \o x).lines
           P(x) == /\ L(x) = <<>> => Len(Split(r \o x).rest) >= Len(r)
                   /\ L(x) # <<>> => Len(L(x)[1]) >= Len(r)
           T == {x \in Text : P(x)}
<1>1. P(<<>>)
    <2>1. r \o <<>> = r /\ Split(r).lines = <<>> /\ Split(r).rest = r /\ Len(r) \in Nat
        BY ConcatText, SplitShape, TextFacts
    <2>2. Split(r \o <<>>).lines = <<>> /\ Len(Split(r \o <<>>).rest) >= Len(r)
        BY <2>1
    <2> QED BY <2>2
<1>2. ASSUME NEW x \in Text, NEW c \in Chars, P(x) PROVE P(Append(x, c))
    <2> DEFINE B == r \o x
    <2>1. B \in Text /\ r \o Append(x, c) = Append(B, c) /\ Len(r) \in Nat
        <3>1. B \in Text /\ r \o Append(x, c) = Append(B, c)
            BY ConcatText
        <3> QED BY <3>1, TextFacts
    <2>2. /\ Split(B).lines = <<>> => Len(Split(B).rest) >= Len(r)
          /\ Split(B).lines # <<>> => Len(Split(B).lines[1]) >= Len(r)
        BY <1>2
    <2> HIDE DEF B
    <2>3. Split(B).lines \in Seq(Text) /\ Split(B).rest \in Text /\ Len(Split(B).rest) \in Nat
        BY <2>1, SplitType, TextFacts
    <2> DEFINE new == Split(Append(B, c))
    <2>4. CASE c = "\n"
        <3>1. new.lines = Append(Split(B).lines, Split(B).rest)
            BY <2>1, <2>4, SplitGoesOn
        <3> HIDE DEF new
        <3>2. new.lines # <<>> /\ new.lines[1] = IF Split(B).lines = <<>> THEN Split(B).rest ELSE Split(B).lines[1]
            BY <2>3, <3>1
        <3>3. Len(new.lines[1]) >= Len(r)
            BY <2>2, <3>2
        <3> QED BY <2>1, <3>2, <3>3 DEF new
    <2>5. CASE c # "\n"
        <3>1. new.lines = Split(B).lines /\ new.rest = Append(Split(B).rest, c)
            BY <2>1, <2>5, SplitGoesOn
        <3>2. Len(new.rest) = Len(Split(B).rest) + 1
            BY <2>3, <3>1, AppendedText
        <3> HIDE DEF new
        <3>3. /\ new.lines = <<>> => Len(new.rest) >= Len(r)
              /\ new.lines # <<>> => Len(new.lines[1]) >= Len(r)
            BY <2>1, <2>2, <2>3, <3>1, <3>2
        <3> QED BY <2>1, <3>3 DEF new
    <2> QED BY <2>4, <2>5
<1> HIDE DEF P
<1>3. <<>> \in T /\ \A x \in Text, c \in Chars : x \in T => Append(x, c) \in T
    BY <1>1, <1>2, NoText, AppendedText
<1>4. \A x \in T : P(x)
    OBVIOUS
<1> HIDE DEF T
<1>5. b \in T
    BY <1>3, SeqInduct DEF Text
<1>6. P(b)
    BY <1>4, <1>5
<1> DEFINE s == Split(r \o b)
<1>7. s.lines \in Seq(Text) /\ s.rest \in Text /\ Len(s.rest) \in Nat /\ Len(r) \in Nat /\ Len(r) # 0
    BY ConcatText, SplitType, TextFacts
<1>8. /\ s.lines = <<>> => Len(s.rest) >= Len(r)
      /\ s.lines # <<>> => Len(s.lines[1]) >= Len(r)
    BY <1>6 DEF P
<1>9. AllLines(r \o b) = IF s.rest = <<>> THEN s.lines ELSE Append(s.lines, s.rest)
    BY DEF AllLines
<1> HIDE DEF s
<1>10. s.lines = <<>> => s.rest # <<>>
    BY <1>7, <1>8, NoText
<1>11. AllLines(r \o b) # <<>> /\ AllLines(r \o b)[1] = IF s.lines = <<>> THEN s.rest ELSE s.lines[1]
    BY <1>7, <1>9, <1>10
<1> QED BY <1>8, <1>11

-----------------------------------------------------------------------------
(* Arguments and the default user                                          *)

\* The names among the arguments can be put in an order.
LEMMA ArgumentNames ==
    SetToSeq(DOMAIN NewUsers) \in Seq(DOMAIN NewUsers)
<1> DEFINE S == DOMAIN NewUsers
           n == Cardinality(S)
<1>1. IsFiniteSet(S)
    BY UsersLifecycleAssumption
<1>2. n \in Nat /\ ExistsBijection(1 .. n, S)
    BY <1>1, FS_CardinalityType
<1>3. PICK f \in Bijection(1 .. n, S) : TRUE
    BY <1>2 DEF ExistsBijection
<1>4. f \in [1 .. n -> S] /\ IsInjective(f)
    BY <1>3 DEF Bijection, Injection, Surjection, IsInjective
<1>5. SetToSeq(S) \in [1 .. n -> S]
    BY <1>4 DEF SetToSeq
<1> QED BY <1>2, <1>5

\* The users among the arguments leave a table a table.
LEMMA WithArgumentsType ==
    ASSUME NEW tab \in Tables
    PROVE  WithArguments(tab) \in Tables
<1> DEFINE D == DOMAIN NewUsers
           names == SetToSeq(D)
           step == [x \in Tables \X D |-> Replaced(x[1], x[2], NewUsers[x[2]])]
<1>1. names \in Seq(D)
    BY ArgumentNames
<1>2. \A x \in Tables, u \in D :
         Replaced(x, u, NewUsers[u]) \in Tables /\ step[<<x, u>>] = Replaced(x, u, NewUsers[u])
    BY ReplacedType, UsersLifecycleAssumption
<1>3. IsStep(step, Tables, D)
    BY <1>2 DEF IsStep
<1> DEFINE N == Len(names)
           F == CHOOSE f : f = [n \in 0 .. N |->
                    IF n = 0 THEN tab ELSE Replaced(f[n - 1], names[n], NewUsers[names[n]])]
<1>4. WithArguments(tab) = F[N]
    BY DEF WithArguments
<1>5. PICK g : IsFold(g, Tables, tab, step, names)
    <2> HIDE DEF step, names, D
    <2> QED BY <1>1, <1>3, FoldExists
<1>6. N \in Nat /\ \A n \in 1 .. N : names[n] \in D
    <2> HIDE DEF names, D
    <2> QED BY <1>1
<1> HIDE DEF step, D
<1>7. /\ g \in [0 .. N -> Tables] /\ g[0] = tab
      /\ \A n \in 1 .. N : g[n] = step[<<g[n - 1], names[n]>>]
    BY <1>5 DEF IsFold
<1> HIDE DEF names
<1>8. g = [n \in 0 .. N |-> IF n = 0 THEN tab ELSE Replaced(g[n - 1], names[n], NewUsers[names[n]])]
    <2> HIDE DEF N
    <2>1. ASSUME NEW n \in 1 .. N
          PROVE  g[n] = Replaced(g[n - 1], names[n], NewUsers[names[n]])
        <3>1. g[n - 1] \in Tables /\ names[n] \in D
            BY <1>6, <1>7
        <3> QED BY <1>2, <1>7, <3>1
    <2> QED BY <1>6, <1>7, <2>1
<1>9. F = [n \in 0 .. N |-> IF n = 0 THEN tab ELSE Replaced(F[n - 1], names[n], NewUsers[names[n]])]
    BY <1>8
<1> HIDE DEF F, N
<1> DEFINE T == {n \in Nat : n \in 0 .. N => F[n] \in Tables}
<1>10. 0 \in T
    BY <1>6, <1>9
<1>11. ASSUME NEW n \in Nat, n \in T PROVE n + 1 \in T
    <2> SUFFICES ASSUME n + 1 \in 0 .. N PROVE F[n + 1] \in Tables
        OBVIOUS
    <2>1. n + 1 \in 1 .. N /\ n \in 0 .. N /\ (n + 1) - 1 = n /\ n + 1 # 0
        BY <1>6
    <2>2. F[n] \in Tables /\ names[n + 1] \in D
        BY <1>6, <1>11, <2>1
    <2>3. F[n + 1] = Replaced(F[n], names[n + 1], NewUsers[names[n + 1]])
        BY <1>9, <2>1
    <2> QED BY <1>2, <2>2, <2>3
<1>12. N \in T
    <2> HIDE DEF T
    <2> QED BY <1>6, <1>10, <1>11, NatInduct
<1> QED BY <1>4, <1>6, <1>12

\* The default user leaves a table one, and one with somebody who can log in.
LEMMA WithDefaultType ==
    ASSUME NEW tab \in Tables
    PROVE  /\ WithDefault(tab) \in Tables
           /\ \/ Admins(WithDefault(tab).users) # {}
              \/ DefaultName \in DOMAIN WithDefault(tab).users
<1> DEFINE data == [password |-> DefaultPassword, role |-> "Admin"]
<1>1. DefaultName \in Fields /\ data \in UserData
    BY UsersLifecycleAssumption DEF UserData, RoleChars
<1>2. tab.users \in UserTables /\ IsFiniteSet(DOMAIN tab.users)
      /\ tab.admin_count = Cardinality(Admins(tab.users))
    BY DEF Tables, Counted
<1> HIDE DEF data
<1>3. CASE tab.admin_count = 0 /\ DefaultName \notin DOMAIN tab.users
    <2>1. WithDefault(tab) = Replaced(tab, DefaultName, data)
        BY <1>3 DEF WithDefault, data
    <2>2. WithDefault(tab) \in Tables /\ WithDefault(tab).users = With(tab.users, DefaultName, data)
        BY <1>1, <2>1, ReplacedType
    <2>3. DefaultName \in DOMAIN With(tab.users, DefaultName, data)
        BY DEF With
    <2> QED BY <2>2, <2>3
<1>4. CASE ~(tab.admin_count = 0 /\ DefaultName \notin DOMAIN tab.users)
    <2>1. WithDefault(tab) = tab
        BY <1>4 DEF WithDefault
    <2>2. tab.admin_count # 0 => Admins(tab.users) # {}
        BY <1>2, FS_EmptySet
    <2> QED BY <1>4, <2>1, <2>2
<1> QED BY <1>3, <1>4

-----------------------------------------------------------------------------
(* Lines, written and read back                                            *)

\* The characters with a meaning, and that they differ where it matters.
LEMMA CharFacts ==
    /\ Escape \in Chars /\ ":" \in Chars /\ "\n" \in Chars /\ "@" \in Chars /\ "#" \in Chars
    /\ Escape # ":" /\ Escape # "\n"
    /\ Blank # "@" /\ Blank # "#"
<1>1. Escape \in Chars /\ ":" \in Chars /\ "\n" \in Chars /\ "@" \in Chars /\ "#" \in Chars
    BY UsersFileAssumption
<1>2. Escape # ":"
    BY Zenon DEF Escape
<1>3. Escape # "\n"
    BY Zenon DEF Escape
<1>4. Blank # "@" /\ Blank # "#"
    BY Zenon DEF Blank
<1> QED BY <1>1, <1>2, <1>3, <1>4

\* Two texts put together hold a newline if one does.
LEMMA UnbrokenConcat ==
    ASSUME NEW a \in Text, NEW b \in Text
    PROVE  Unbroken(a \o b) <=> Unbroken(a) /\ Unbroken(b)
<1>1. /\ Len(a) \in Nat /\ Len(b) \in Nat /\ Len(a \o b) = Len(a) + Len(b)
      /\ \A i \in 1 .. Len(a) : (a \o b)[i] = a[i] /\ i \in 1 .. Len(a) + Len(b)
      /\ \A i \in 1 .. Len(b) : (a \o b)[Len(a) + i] = b[i] /\ Len(a) + i \in 1 .. Len(a) + Len(b)
    BY DEF Text
<1>2. \A i \in 1 .. Len(a) + Len(b) : i \in 1 .. Len(a) \/ (i - Len(a) \in 1 .. Len(b) /\ Len(a) + (i - Len(a)) = i)
    BY <1>1
<1> HIDE DEF Text
<1>3. ASSUME Unbroken(a \o b) PROVE Unbroken(a) /\ Unbroken(b)
    BY <1>1, <1>3 DEF Unbroken
<1>4. ASSUME Unbroken(a), Unbroken(b) PROVE Unbroken(a \o b)
    <2> SUFFICES ASSUME NEW i \in 1 .. Len(a) + Len(b) PROVE (a \o b)[i] # "\n"
        BY <1>1 DEF Unbroken
    <2>1. CASE i \in 1 .. Len(a)
        BY <1>1, <1>4, <2>1 DEF Unbroken
    <2>2. CASE i - Len(a) \in 1 .. Len(b) /\ Len(a) + (i - Len(a)) = i
        <3>1. (a \o b)[i] = b[i - Len(a)]
            BY <1>1, <2>2
        <3> QED BY <1>4, <2>2, <3>1 DEF Unbroken
    <2> QED BY <1>2, <2>1, <2>2
<1> QED BY <1>3, <1>4

\* The start of two texts put together.
LEMMA PrefixOfConcat ==
    ASSUME NEW a \in Text, NEW b \in Text, NEW n \in 0 .. Len(a) + Len(b)
    PROVE  /\ n <= Len(a) => SubSeq(a \o b, 1, n) = SubSeq(a, 1, n)
           /\ n > Len(a) => /\ n - Len(a) \in 1 .. Len(b)
                            /\ SubSeq(a \o b, 1, n) = a \o SubSeq(b, 1, n - Len(a))
<1>1. Len(a) \in Nat /\ Len(b) \in Nat
    BY TextFacts
<1>2. n <= Len(a) => SubSeq(a \o b, 1, n) = SubSeq(a, 1, n)
    BY <1>1 DEF Text
<1>3. n > Len(a) => n - Len(a) \in 1 .. Len(b)
    BY <1>1
<1>4. n > Len(a) => SubSeq(a \o b, 1, n) = a \o SubSeq(b, 1, n - Len(a))
    BY <1>1 DEF Text
<1> QED BY <1>2, <1>3, <1>4

\* The start of a text and what follows it.
LEMMA PrefixText ==
    ASSUME NEW s \in Text, NEW n \in 0 .. Len(s)
    PROVE  /\ SubSeq(s, 1, n) \in Text /\ Len(SubSeq(s, 1, n)) = n
           /\ SubSeq(s, n + 1, Len(s)) \in Text
           /\ s = SubSeq(s, 1, n) \o SubSeq(s, n + 1, Len(s))
           /\ n = Len(s) => SubSeq(s, 1, n) = s
           /\ n = 0 => SubSeq(s, 1, n) = <<>>
<1>1. s \in Seq(Chars) /\ Len(s) \in Nat
    BY TextFacts DEF Text
<1>2. SubSeq(s, 1, n) \in Seq(Chars) /\ Len(SubSeq(s, 1, n)) = n
    BY <1>1
<1>3. SubSeq(s, n + 1, Len(s)) \in Seq(Chars)
    <2>1. n + 1 \in Int /\ Len(s) \in Int /\ \A i \in n + 1 .. Len(s) : s[i] \in Chars
        BY <1>1, TextFacts
    <2> QED BY <2>1, SubSeqProperties
<1>5. SubSeq(s, 1, Len(s)) = s
    BY <1>1, SubSeqFull
<1>4. s = SubSeq(s, 1, n) \o SubSeq(s, n + 1, Len(s))
    <2>1. 1 \in 1 .. Len(s) + 1 /\ n \in 1 - 1 .. Len(s) /\ Len(s) \in n .. Len(s)
        BY <1>1
    <2>2. SubSeq(s, 1, n) \o SubSeq(s, n + 1, Len(s)) = SubSeq(s, 1, Len(s))
        BY <1>1, <2>1, ConcatAdjacentSubSeq
    <2> QED BY <1>5, <2>2
<1>6. n = 0 => SubSeq(s, 1, n) = <<>>
    BY <1>1
<1> QED BY <1>2, <1>3, <1>4, <1>5, <1>6 DEF Text

\* One character more, for Scan.
LEMMA ScanStep ==
    ASSUME NEW s \in Text, NEW c \in Chars
    PROVE  /\ Scan(s) \in Scans /\ Append(s, c) \in Text
           /\ Scan(Append(s, c)) = ScanChar(Scan(s), c)
<1>1. Append(s, c) \in Text
    BY AppendedText
<1> QED BY <1>1, ScanFold

\* Once in the password, always in the password.
LEMMA ScanStays ==
    ASSUME NEW p \in Text, Scan(p).field = "password", NEW q \in Text
    PROVE  Scan(p \o q).field = "password"
<1> DEFINE T == {x \in Text : Scan(p \o x).field = "password"}
<1>1. <<>> \in T
    BY ConcatText, NoText
<1>2. ASSUME NEW x \in Text, NEW c \in Chars, x \in T PROVE Append(x, c) \in T
    <2>1. p \o x \in Text /\ p \o Append(x, c) = Append(p \o x, c) /\ Append(x, c) \in Text
        BY ConcatText, AppendedText
    <2>2. Scan(p \o x) \in Scans /\ Scan(Append(p \o x, c)) = ScanChar(Scan(p \o x), c)
        BY <2>1, ScanStep
    <2>3. Scan(p \o x).field = "password"
        BY <1>2
    <2>4. ScanChar(Scan(p \o x), c).field = "password"
        BY <2>2, <2>3 DEF ScanChar, Scans
    <2> QED BY <2>1, <2>2, <2>4
<1>3. \A x \in T : Scan(p \o x).field = "password"
    OBVIOUS
<1> HIDE DEF T
<1>4. q \in T
    BY <1>1, <1>2, SeqInduct DEF Text
<1> QED BY <1>3, <1>4

\* What is escaped is read back.
LEMMA ScanEscaped ==
    ASSUME NEW name \in Text
    PROVE  LET scan == Scan(Escaped(name))
           IN  scan.field = "username" /\ scan.escape = FALSE /\ scan.username = name /\ scan.password = <<>>
<1> DEFINE P(x) == /\ Scan(Escaped(x)).field = "username" /\ Scan(Escaped(x)).escape = FALSE
                   /\ Scan(Escaped(x)).username = x /\ Scan(Escaped(x)).password = <<>>
           T == {x \in Text : P(x)}
<1>1. P(<<>>)
    <2>1. Scan(Escaped(<<>>)) = ScanStart
        BY EscapedFold, ScanFold
    <2> QED BY <2>1 DEF ScanStart
<1>2. ASSUME NEW x \in Text, NEW c \in Chars, P(x) PROVE P(Append(x, c))
    <2> DEFINE s == Escaped(x)
    <2>1. s \in Text /\ Append(x, c) \in Text
        BY EscapedFold, AppendedText
    <2>2. Escaped(Append(x, c)) = EscapeChar(s, c)
        BY EscapedFold
    <2>3. /\ Scan(s).field = "username" /\ Scan(s).escape = FALSE
          /\ Scan(s).username = x /\ Scan(s).password = <<>>
        BY <1>2
    <2> HIDE DEF s
    <2>4. Scan(s) \in Scans
        BY <2>1, ScanFold
    <2>5. CASE c \in {Escape, ":"}
        <3> DEFINE e == Append(s, Escape)
        <3>1. e \in Text /\ Scan(e) = ScanChar(Scan(s), Escape)
            BY <2>1, ScanStep, CharFacts
        <3>2. EscapeChar(s, c) = Append(e, c)
            <4>1. EscapeChar(s, c) = s \o <<Escape, c>>
                BY <2>5 DEF EscapeChar
            <4>2. s \in Seq(Chars) /\ Escape \in Chars
                BY <2>1, CharFacts DEF Text
            <4> HIDE DEF Escape
            <4>3. s \o <<Escape, c>> = Append(Append(s, Escape), c)
                BY <4>2
            <4> QED BY <4>1, <4>3 DEF e
        <3> HIDE DEF e
        <3>3. Scan(e) = [Scan(s) EXCEPT !.escape = TRUE]
            BY <2>3, <3>1, CharFacts DEF ScanChar
        <3>4. /\ Scan(e).field = "username" /\ Scan(e).escape = TRUE
              /\ Scan(e).username = x /\ Scan(e).password = <<>>
            BY <2>3, <2>4, <3>3 DEF Scans
        <3>5. Scan(e) \in Scans /\ Scan(Append(e, c)) = ScanChar(Scan(e), c)
            BY <3>1, ScanStep
        <3>6. ScanChar(Scan(e), c) = [Scan(e) EXCEPT !.escape = FALSE, ![Scan(e).field] = Append(@, c)]
            BY <3>4 DEF ScanChar
        <3>7. LET scan == ScanChar(Scan(e), c)
              IN  scan.field = "username" /\ scan.escape = FALSE /\ scan.username = Append(x, c) /\ scan.password = <<>>
            BY <3>4, <3>5, <3>6 DEF Scans
        <3> QED BY <2>2, <3>2, <3>5, <3>7
    <2>6. CASE c \notin {Escape, ":"}
        <3>1. EscapeChar(s, c) = Append(s, c)
            BY <2>1, <2>6 DEF EscapeChar, Text
        <3>2. Scan(Append(s, c)) = ScanChar(Scan(s), c)
            BY <2>1, ScanStep
        <3>3. ScanChar(Scan(s), c) = [Scan(s) EXCEPT !.escape = FALSE, ![Scan(s).field] = Append(@, c)]
            BY <2>3, <2>6 DEF ScanChar
        <3>4. LET scan == ScanChar(Scan(s), c)
              IN  scan.field = "username" /\ scan.escape = FALSE /\ scan.username = Append(x, c) /\ scan.password = <<>>
            BY <2>3, <2>4, <3>3 DEF Scans
        <3> QED BY <2>2, <3>1, <3>2, <3>4
    <2> QED BY <2>5, <2>6
<1> HIDE DEF P
<1>3. <<>> \in T /\ \A x \in Text, c \in Chars : x \in T => Append(x, c) \in T
    BY <1>1, <1>2, NoText, AppendedText
<1>4. \A x \in T : P(x)
    OBVIOUS
<1> HIDE DEF T
<1>5. name \in T
    BY <1>3, SeqInduct DEF Text
<1>6. P(name)
    BY <1>4, <1>5
<1> QED BY <1>6 DEF P

\* Escaping at most doubles the length, and adds no newline.
LEMMA EscapedShape ==
    ASSUME NEW name \in Text
    PROVE  /\ Len(Escaped(name)) \in Nat /\ Len(Escaped(name)) <= 2 * Len(name)
           /\ Unbroken(name) => Unbroken(Escaped(name))
<1> DEFINE P(x) == /\ Len(Escaped(x)) <= 2 * Len(x)
                   /\ Unbroken(x) => Unbroken(Escaped(x))
           T == {x \in Text : P(x)}
<1>1. P(<<>>)
    <2>1. Escaped(<<>>) = <<>>
        BY EscapedFold
    <2> QED BY <2>1
<1>2. ASSUME NEW x \in Text, NEW c \in Chars, P(x) PROVE P(Append(x, c))
    <2> DEFINE s == Escaped(x)
    <2>1. s \in Text
        BY EscapedFold
    <2>2. Escaped(Append(x, c)) = EscapeChar(s, c)
        BY EscapedFold
    <2>3. Len(s) <= 2 * Len(x) /\ (Unbroken(x) => Unbroken(s))
        BY <1>2
    <2>4. /\ Len(Append(x, c)) = Len(x) + 1
          /\ Unbroken(Append(x, c)) <=> Unbroken(x) /\ c # "\n"
        BY AppendedText
    <2>5. Len(x) \in Nat /\ Len(s) \in Nat
        BY <2>1, TextFacts
    <2> HIDE DEF s
    <2>6. CASE c \in {Escape, ":"}
        <3> DEFINE e == Append(s, Escape)
        <3>1. EscapeChar(s, c) = Append(e, c)
            <4>1. EscapeChar(s, c) = s \o <<Escape, c>>
                BY <2>6 DEF EscapeChar
            <4>2. s \in Seq(Chars) /\ Escape \in Chars
                BY <2>1, CharFacts DEF Text
            <4> HIDE DEF Escape
            <4>3. s \o <<Escape, c>> = Append(Append(s, Escape), c)
                BY <4>2
            <4> QED BY <4>1, <4>3 DEF e
        <3>2. e \in Text /\ Len(e) = Len(s) + 1 /\ (Unbroken(e) <=> Unbroken(s))
            BY <2>1, CharFacts, AppendedText
        <3> HIDE DEF e
        <3>3. Len(Append(e, c)) = Len(e) + 1 /\ (Unbroken(Append(e, c)) <=> Unbroken(e) /\ c # "\n")
            BY <3>2, AppendedText
        <3> QED BY <2>2, <2>3, <2>4, <2>5, <3>1, <3>2, <3>3
    <2>7. CASE c \notin {Escape, ":"}
        <3>1. EscapeChar(s, c) = Append(s, c)
            BY <2>1, <2>7 DEF EscapeChar, Text
        <3>2. Len(Append(s, c)) = Len(s) + 1 /\ (Unbroken(Append(s, c)) <=> Unbroken(s) /\ c # "\n")
            BY <2>1, AppendedText
        <3> QED BY <2>2, <2>3, <2>4, <2>5, <3>1, <3>2
    <2> QED BY <2>6, <2>7
<1> HIDE DEF P
<1>3. <<>> \in T /\ \A x \in Text, c \in Chars : x \in T => Append(x, c) \in T
    BY <1>1, <1>2, NoText, AppendedText
<1>4. \A x \in T : P(x)
    OBVIOUS
<1> HIDE DEF T
<1>5. name \in T
    BY <1>3, SeqInduct DEF Text
<1>6. P(name)
    BY <1>4, <1>5
<1>7. Len(Escaped(name)) \in Nat
    BY EscapedFold, TextFacts
<1> QED BY <1>6, <1>7 DEF P

\* The text of a colon.
LEMMA Colon == <<":">> \in Text /\ Len(<<":">>) = 1 /\ Unbroken(<<":">>)
BY CharFacts DEF Text, Unbroken

\* What follows the name and its colon is the password, if nothing in it is escaped.
LEMMA ScanPassword ==
    ASSUME NEW name \in Text, NEW s \in Text, \A i \in 1 .. Len(s) : s[i] # Escape
    PROVE  LET scan == Scan(Escaped(name) \o <<":">> \o s)
           IN  scan.field = "password" /\ scan.username = name /\ scan.password = s
<1> DEFINE H == Escaped(name) \o <<":">>
           Q(scan, x) == /\ scan.field = "password" /\ scan.escape = FALSE
                         /\ scan.username = name /\ scan.password = x
           P(x) == (\A i \in 1 .. Len(x) : x[i] # Escape) => Q(Scan(H \o x), x)
           T == {x \in Text : P(x)}
<1>1. H \in Text /\ H = Append(Escaped(name), ":")
    <2>1. Escaped(name) \in Text
        BY EscapedFold
    <2> QED BY <2>1, Colon, CharFacts, ConcatText
<1>2. P(<<>>)
    <2> DEFINE s0 == Escaped(name)
    <2>1. s0 \in Text
        BY EscapedFold
    <2>2. s0 \in Text /\ Scan(s0) \in Scans /\ Scan(Append(s0, ":")) = ScanChar(Scan(s0), ":")
        BY <2>1, ScanStep, CharFacts
    <2>3. /\ Scan(s0).field = "username" /\ Scan(s0).escape = FALSE
          /\ Scan(s0).username = name /\ Scan(s0).password = <<>>
        BY ScanEscaped
    <2> HIDE DEF s0
    <2>4. ScanChar(Scan(s0), ":") = [Scan(s0) EXCEPT !.field = "password"]
        BY <2>3, CharFacts DEF ScanChar
    <2>5. Q(ScanChar(Scan(s0), ":"), <<>>)
        BY <2>2, <2>3, <2>4 DEF Scans
    <2>6. H \o <<>> = Append(s0, ":")
        BY <1>1, ConcatText DEF s0
    <2> QED BY <2>2, <2>5, <2>6
<1> HIDE DEF H, Q
<1>3. ASSUME NEW x \in Text, NEW c \in Chars, P(x) PROVE P(Append(x, c))
    <2> SUFFICES ASSUME \A i \in 1 .. Len(Append(x, c)) : Append(x, c)[i] # Escape
                 PROVE  Q(Scan(H \o Append(x, c)), Append(x, c))
        OBVIOUS
    <2>1. c # Escape /\ \A i \in 1 .. Len(x) : x[i] # Escape
        <3>1. x \in Seq(Chars)
            BY DEF Text
        <3>2. /\ Len(Append(x, c)) = Len(x) + 1 /\ Append(x, c)[Len(x) + 1] = c /\ Len(x) \in Nat
              /\ \A i \in 1 .. Len(x) : Append(x, c)[i] = x[i] /\ i \in 1 .. Len(x) + 1
            BY <3>1
        <3> QED BY <3>2
    <2>2. Q(Scan(H \o x), x)
        BY <1>3, <2>1
    <2> DEFINE B == H \o x
    <2>3. B \in Text /\ H \o Append(x, c) = Append(B, c)
        BY <1>1, ConcatText
    <2> HIDE DEF B
    <2>4. Scan(B) \in Scans /\ Scan(Append(B, c)) = ScanChar(Scan(B), c)
        BY <2>3, ScanStep
    <2>5. Q(Scan(B), x)
        BY <2>2 DEF B
    <2>6. ScanChar(Scan(B), c) = [Scan(B) EXCEPT !.escape = FALSE, ![Scan(B).field] = Append(@, c)]
        BY <2>1, <2>5 DEF ScanChar, Q
    <2>7. Q(ScanChar(Scan(B), c), Append(x, c))
        BY <2>4, <2>5, <2>6 DEF Q, Scans
    <2> QED BY <2>3, <2>4, <2>7
<1> HIDE DEF P
<1>4. <<>> \in T /\ \A x \in Text, c \in Chars : x \in T => Append(x, c) \in T
    BY <1>2, <1>3, NoText, AppendedText
<1>5. \A x \in T : P(x)
    OBVIOUS
<1> HIDE DEF T
<1>6. s \in T
    BY <1>4, SeqInduct DEF Text
<1>7. P(s)
    BY <1>5, <1>6
<1> QED BY <1>7 DEF P, Q, H

\* The characters that stand for roles.
Marks == {"@", "#"}

\* The role one stands for.
RoleOf(mark) == IF mark = "@" THEN "Admin" ELSE "Regular"

\* A line of the file, of a role, a name and a password.
Line(mark, name, s) == <<mark>> \o Escaped(name) \o <<":">> \o s

\* A text without the escape character.
Unescapable(s) == \A i \in 1 .. Len(s) : s[i] # Escape

\* A line with the mark of a role is a user or an error.
LEMMA MarkedParses ==
    ASSUME NEW mark \in Marks, NEW t \in Text
    PROVE  LET scan == Scan(t)
               good == scan.field = "password" /\ FitsLength(scan.username) /\ FitsLength(scan.password)
               parsed == Parsed(<<mark>> \o t)
           IN  /\ good => /\ parsed.type = "user" /\ parsed.username = scan.username
                          /\ parsed.data = [password |-> scan.password, role |-> RoleOf(mark)]
               /\ ~good => parsed.type = "error"
<1> DEFINE line == <<mark>> \o t
<1>1. mark \in Chars /\ mark # Blank /\ mark # "!"
    BY CharFacts DEF Marks
<1>2. line \in Text /\ line # <<>> /\ Head(line) = mark /\ Tail(line) = t /\ line[1] = mark
    BY <1>1 DEF Text
<1> HIDE DEF line
<1>3. Parsed(line) = ParsedLine(line)
    BY <1>1, <1>2, TrimStartType DEF Parsed
<1>4. ParsedLine(line) =
         IF Scan(t).field = "password" /\ FitsLength(Scan(t).username) /\ FitsLength(Scan(t).password)
         THEN [type |-> "user", username |-> Scan(t).username,
               data |-> [password |-> Scan(t).password, role |-> RoleOf(mark)]]
         ELSE [type |-> "error"]
    <2> DEFINE scan == Scan(Tail(line))
    <2>1. line # <<>> /\ Head(line) \in {"@", "#"}
        BY <1>2 DEF Marks
    <2>2. ParsedLine(line) =
             IF scan.field = "password" /\ FitsLength(scan.username) /\ FitsLength(scan.password)
             THEN [type |-> "user", username |-> scan.username,
                   data |-> [password |-> scan.password,
                             role |-> IF Head(line) = "@" THEN "Admin" ELSE "Regular"]]
             ELSE [type |-> "error"]
        BY <2>1 DEF ParsedLine, scan
    <2> QED BY <1>2, <2>2 DEF RoleOf
<1>5. Parsed(<<mark>> \o t) = ParsedLine(line)
    BY <1>3 DEF line
<1> HIDE DEF FitsLength
<1> QED BY <1>4, <1>5

\* The parts of a line, put together either way.
LEMMA LineShape ==
    ASSUME NEW mark \in Marks, NEW name \in Text, NEW s \in Text
    PROVE  /\ Escaped(name) \in Text
           /\ <<mark>> \in Text /\ Len(<<mark>>) = 1 /\ Unbroken(<<mark>>)
           /\ Escaped(name) \o <<":">> \in Text /\ Escaped(name) \o <<":">> \o s \in Text
           /\ Line(mark, name, s) = <<mark>> \o (Escaped(name) \o <<":">> \o s)
           /\ Line(mark, name, s) = (<<mark>> \o (Escaped(name) \o <<":">>)) \o s
           /\ <<mark>> \o (Escaped(name) \o <<":">>) \in Text
           /\ Line(mark, name, s) \in Text
<1>1. mark \in Chars
    BY CharFacts DEF Marks
<1>2. <<mark>> \in Seq(Chars) /\ Len(<<mark>>) = 1 /\ <<mark>>[1] # "\n"
    BY <1>1 DEF Marks
<1>3. Escaped(name) \in Seq(Chars) /\ <<":">> \in Seq(Chars) /\ s \in Seq(Chars)
    BY EscapedFold, CharFacts DEF Text
<1> DEFINE m == <<mark>>
           e == Escaped(name)
           c == <<":">>
<1> HIDE DEF m, e, c
<1>4. m \in Seq(Chars) /\ e \in Seq(Chars) /\ c \in Seq(Chars) /\ s \in Seq(Chars)
    BY <1>2, <1>3 DEF m, e, c
<1>5. /\ m \o e \o c \o s = m \o (e \o c \o s) /\ m \o e \o c \o s = (m \o (e \o c)) \o s
    BY <1>4
<1>6. e \o c \in Seq(Chars) /\ e \o c \o s \in Seq(Chars) /\ m \o (e \o c) \in Seq(Chars) /\ m \o e \o c \o s \in Seq(Chars)
    BY <1>4
<1>7. Unbroken(<<mark>>)
    BY <1>2 DEF Unbroken
<1> QED BY <1>2, <1>3, <1>5, <1>6, <1>7 DEF m, e, c, Line, Text

\* A line of a user that is within the limits is read as that user.
LEMMA LineParses ==
    ASSUME NEW mark \in Marks, NEW name \in Fields, name # <<>>,
           NEW s \in Fields, s # <<>>, Unescapable(s)
    PROVE  LET parsed == Parsed(Line(mark, name, s))
           IN  /\ parsed.type = "user" /\ parsed.username = name
               /\ parsed.data = [password |-> s, role |-> RoleOf(mark)]
<1> DEFINE t == Escaped(name) \o <<":">> \o s
<1>1. name \in Text /\ s \in Text /\ FitsLength(name) /\ FitsLength(s)
    BY DEF Fields, FitsLength
<1>2. t \in Text /\ Line(mark, name, s) = <<mark>> \o t
    BY <1>1, LineShape
<1>3. Scan(t).field = "password" /\ Scan(t).username = name /\ Scan(t).password = s
    BY <1>1, ScanPassword DEF Unescapable
<1> HIDE DEF t
<1> QED BY <1>1, <1>2, <1>3, MarkedParses

\* The start of a line of a user is an error or that user, with the start of the
\* password.
LEMMA CutLineParses ==
    ASSUME NEW mark \in Marks, NEW name \in Fields, name # <<>>,
           NEW s \in Fields, Unescapable(s),
           NEW n \in 1 .. Len(Line(mark, name, s))
    PROVE  LET parsed == Parsed(SubSeq(Line(mark, name, s), 1, n))
           IN  \/ parsed.type = "error"
               \/ /\ parsed.type = "user" /\ parsed.username = name
                  /\ \E k \in 1 .. Len(s) :
                        parsed.data = [password |-> SubSeq(s, 1, k), role |-> RoleOf(mark)]
<1> DEFINE E == Escaped(name)
           H == <<mark>> \o (E \o <<":">>)
           line == Line(mark, name, s)
           q == SubSeq(line, 1, n)
<1>1. name \in Text /\ s \in Text /\ Len(s) \in Nat /\ Len(s) <= MaxLength
    BY TextFacts DEF Fields
<1>2. /\ E \in Text /\ <<mark>> \in Text /\ Len(<<mark>>) = 1
      /\ E \o <<":">> \in Text /\ H \in Text /\ line = H \o s /\ line \in Text
    BY <1>1, LineShape
<1>3. Len(E \o <<":">>) = Len(E) + 1 /\ Len(H) = 1 + Len(E \o <<":">>) /\ Len(E) \in Nat
      /\ Len(line) = Len(H) + Len(s)
    BY <1>1, <1>2, Colon, ConcatText, TextFacts
<1> HIDE DEF H, line, E
<1>4. n \in 0 .. Len(H) + Len(s) /\ n \in Nat /\ n >= 1
    BY <1>1, <1>3 DEF line
<1>5. CASE n <= Len(H)
    <2>1. q = SubSeq(H, 1, n)
        BY <1>1, <1>2, <1>4, <1>5, PrefixOfConcat
    <2>2. n - 1 \in 0 .. Len(E \o <<":">>)
        BY <1>2, <1>3, <1>4, <1>5
    <2> DEFINE t == SubSeq(E \o <<":">>, 1, n - 1)
    <2>3. t \in Text
        BY <1>2, <2>2, PrefixText
    <2>4. q = <<mark>> \o t
        <3>1. n \in 0 .. Len(<<mark>>) + Len(E \o <<":">>)
            BY <1>2, <1>3, <1>4, <1>5
        <3>2. CASE n = 1
            <4>1. SubSeq(H, 1, n) = SubSeq(<<mark>>, 1, n) /\ SubSeq(<<mark>>, 1, n) = <<mark>>
                <5>1. 1 <= Len(<<mark>>) /\ 1 = Len(<<mark>>) /\ 1 \in 0 .. Len(<<mark>>)
                    BY <1>2
                <5>2. SubSeq(H, 1, n) = SubSeq(<<mark>>, 1, n)
                    BY <1>2, <3>1, <3>2, <5>1, PrefixOfConcat DEF H
                <5>3. SubSeq(<<mark>>, 1, 1) = <<mark>>
                    BY <1>2, <5>1, PrefixText
                <5> QED BY <3>2, <5>2, <5>3
            <4>2. t = <<>>
                BY <1>2, <2>2, <3>2, PrefixText
            <4>3. <<mark>> \o <<>> = <<mark>>
                BY <1>2, ConcatText
            <4> QED BY <2>1, <4>1, <4>2, <4>3
        <3>3. CASE n # 1
            BY <1>2, <1>4, <2>1, <3>1, <3>3, PrefixOfConcat DEF H
        <3> QED BY <3>2, <3>3
    <2>5. Scan(t).field = "password" => Scan(t).password = <<>>
        <3>1. CASE n - 1 <= Len(E)
            <4>1. t = SubSeq(E, 1, n - 1) /\ n - 1 \in 0 .. Len(E)
                BY <1>2, <1>3, <2>2, <3>1, Colon, PrefixOfConcat
            <4>2. E = t \o SubSeq(E, n - 1 + 1, Len(E)) /\ SubSeq(E, n - 1 + 1, Len(E)) \in Text
                BY <1>2, <4>1, PrefixText
            <4>3. Scan(E).field = "username"
                BY <1>1, ScanEscaped DEF E
            <4> HIDE DEF t
            <4> QED BY <2>3, <4>2, <4>3, ScanStays
        <3>2. CASE n - 1 > Len(E)
            <4>1. n - 1 = Len(E \o <<":">>)
                BY <1>3, <2>2, <3>2
            <4>2. t = E \o <<":">>
                BY <1>2, <2>2, <4>1, PrefixText
            <4>3. E \o <<":">> \o <<>> = E \o <<":">>
                BY <1>2, ConcatText
            <4>4. \A i \in 1 .. Len(<<>>) : <<>>[i] # Escape
                OBVIOUS
            <4>5. Scan(E \o <<":">> \o <<>>).password = <<>>
                BY <1>1, <4>4, NoText, ScanPassword DEF E
            <4> QED BY <4>2, <4>3, <4>5
        <3> QED BY <1>3, <2>2, <3>1, <3>2
    <2>6. ~FitsLength(<<>>)
        BY DEF FitsLength
    <2> HIDE DEF t, q
    <2>7. Parsed(q).type = "error"
        BY <2>3, <2>4, <2>5, <2>6, MarkedParses
    <2> QED BY <2>7 DEF q, line
<1>6. CASE n > Len(H)
    <2> DEFINE k == n - Len(H)
    <2>1. k \in 1 .. Len(s) /\ q = H \o SubSeq(s, 1, k)
        BY <1>1, <1>2, <1>4, <1>6, PrefixOfConcat
    <2> HIDE DEF k
    <2> DEFINE p == SubSeq(s, 1, k)
    <2>2. p \in Text /\ Len(p) = k
        <3>1. k \in 0 .. Len(s)
            BY <1>1, <2>1
        <3> QED BY <1>1, <3>1, PrefixText
    <2>3. p \in Fields /\ p # <<>>
        BY <1>1, <2>1, <2>2, UsersFileAssumption DEF Fields
    <2>4. Unescapable(p)
        <3>1. \A i \in 1 .. k : p[i] = s[i] /\ i \in 1 .. Len(s)
            BY <1>1, <2>1 DEF Text
        <3> QED BY <2>2, <3>1 DEF Unescapable
    <2> HIDE DEF p
    <2>5. Line(mark, name, p) = H \o p
        BY <1>1, <2>2, LineShape DEF H, E
    <2>6. /\ Parsed(H \o p).type = "user" /\ Parsed(H \o p).username = name
          /\ Parsed(H \o p).data = [password |-> p, role |-> RoleOf(mark)]
        <3>1. LET parsed == Parsed(Line(mark, name, p))
              IN  /\ parsed.type = "user" /\ parsed.username = name
                  /\ parsed.data = [password |-> p, role |-> RoleOf(mark)]
            BY <2>3, <2>4, LineParses
        <3> QED BY <2>5, <3>1, Zenon
    <2>7. q = H \o p
        BY <2>1 DEF p
    <2> QED BY <2>1, <2>6, <2>7 DEF p, q, line
<1>7. n <= Len(H) \/ n > Len(H)
    BY <1>3, <1>4
<1> QED BY <1>5, <1>6, <1>7

\* A line within the limits fits the buffer.
LEMMA LineFits ==
    ASSUME NEW mark \in Marks, NEW name \in Fields, Unbroken(name), NEW s \in Fields, Unbroken(s)
    PROVE  LET line == Line(mark, name, s)
           IN  line \in Text /\ line # <<>> /\ Unbroken(line) /\ Len(line) \in Nat /\ Len(line) < Capacity
<1> DEFINE E == Escaped(name)
           H == <<mark>> \o (E \o <<":">>)
           line == Line(mark, name, s)
<1>1. /\ name \in Text /\ s \in Text /\ Len(s) \in Nat /\ Len(name) \in Nat
      /\ Len(s) <= MaxLength /\ Len(name) <= MaxLength /\ MaxLength \in Nat
    BY TextFacts, UsersFileAssumption DEF Fields
<1>2. /\ E \in Text /\ <<mark>> \in Text /\ Len(<<mark>>) = 1 /\ Unbroken(<<mark>>)
      /\ E \o <<":">> \in Text /\ H \in Text /\ line = H \o s /\ line \in Text
    BY <1>1, LineShape
<1>3. Len(E \o <<":">>) = Len(E) + 1 /\ Len(H) = 1 + Len(E \o <<":">>) /\ Len(line) = Len(H) + Len(s)
    BY <1>1, <1>2, Colon, ConcatText
<1>4. Len(E) \in Nat /\ Len(E) <= 2 * Len(name) /\ Unbroken(E)
    BY <1>1, EscapedShape
<1>5. Unbroken(line)
    <2>1. Unbroken(E \o <<":">>)
        BY <1>2, <1>4, Colon, UnbrokenConcat
    <2>2. Unbroken(H)
        BY <1>2, <2>1, UnbrokenConcat
    <2> HIDE DEF H
    <2> QED BY <1>1, <1>2, <2>2, UnbrokenConcat
<1> HIDE DEF line, H, E
<1>6. Len(line) \in Nat /\ Len(line) < Capacity /\ Len(line) # 0
    BY <1>1, <1>3, <1>4, UsersLifecycleAssumption
<1>7. line # <<>>
    BY <1>2, <1>6, TextFacts
<1> QED BY <1>2, <1>5, <1>6, <1>7 DEF line

-----------------------------------------------------------------------------
(* A save, as far as it got                                                *)

\* A start of a line that is not empty.
Starts(q, line) == \E k \in 1 .. Len(line) : q = SubSeq(line, 1, k)

\* Users in an order in which they can be saved: nobody twice, administrators first.
Lists(users, order) ==
    /\ order \in Seq(DOMAIN users)
    /\ \A i \in 1 .. Len(order) : \A j \in 1 .. Len(order) : order[i] = order[j] => i = j
    /\ \A i \in 1 .. Len(order) :
          \/ order[i] \in Admins(users)
          \/ \A a \in Admins(users) : \E j \in 1 .. i - 1 : order[j] = a

\* Lines are those of the users, in this order.
Whole(lines, users, order) ==
    /\ Len(lines) = Len(order)
    /\ \A i \in 1 .. Len(lines) : lines[i] = SavedLine(users, order[i])

\* Lines are those of the first users in this order, the last one perhaps cut.
Cut(lines, users, order) ==
    /\ Len(lines) <= Len(order)
    /\ \A i \in 1 .. Len(lines) :
          /\ Starts(lines[i], SavedLine(users, order[i]))
          /\ i < Len(lines) => lines[i] = SavedLine(users, order[i])

\* A text holds the lines of the users in this order, and wherever it is cut, the
\* lines of some of them.
Saved(text, users, order) ==
    /\ order = <<>> => text = <<>>
    /\ order # <<>> => Split(text).rest # <<>>
    /\ Whole(AllLines(text), users, order)
    /\ \A n \in 0 .. Len(text) : Cut(AllLines(SubSeq(text, 1, n)), users, order)

\* What is known of a user with a simple name and password.
LEMMA UserFacts ==
    ASSUME NEW users \in UserTables, Simple(users), NEW u \in DOMAIN users
    PROVE  LET mark == RoleChars[users[u].role]
               password == users[u].password
           IN  /\ mark \in Marks /\ RoleOf(mark) = users[u].role
               /\ u \in Fields /\ u # <<>> /\ Unbroken(u)
               /\ password \in Fields /\ password # <<>> /\ Unescapable(password) /\ Unbroken(password)
               /\ SavedLine(users, u) = Line(mark, u, password)
               /\ users[u] = [password |-> password, role |-> users[u].role]
               /\ users[u] \in UserData
<1>1. u \in Fields /\ users[u] \in UserData
    BY TableType
<1>2. /\ users[u].password \in Fields /\ users[u].role \in {"Admin", "Regular"}
      /\ users[u] = [password |-> users[u].password, role |-> users[u].role]
    BY <1>1 DEF UserData, RoleChars
<1>3. RoleChars[users[u].role] \in Marks /\ RoleOf(RoleChars[users[u].role]) = users[u].role
    BY <1>2 DEF RoleChars, Marks, RoleOf
<1>4. u # <<>> /\ Unbroken(u) /\ Plain(users[u].password)
    BY DEF Simple, Unbroken
<1>5. users[u].password # <<>> /\ Unescapable(users[u].password) /\ Unbroken(users[u].password)
    BY <1>4 DEF Plain, Unescapable, Unbroken
<1>6. SavedLine(users, u) = Line(RoleChars[users[u].role], u, users[u].password)
    BY DEF SavedLine, Line
<1> QED BY <1>1, <1>2, <1>3, <1>4, <1>5, <1>6

\* The line of one fits the buffer.
LEMMA SavedLineFits ==
    ASSUME NEW users \in UserTables, Simple(users), NEW u \in DOMAIN users
    PROVE  LET line == SavedLine(users, u)
           IN  line \in Text /\ line # <<>> /\ Unbroken(line) /\ Len(line) \in Nat /\ Len(line) < Capacity
BY UserFacts, LineFits

\* A line is the only one of its text.
LEMMA AllOfLine ==
    ASSUME NEW line \in Text, Unbroken(line), line # <<>>
    PROVE  AllLines(line) = <<line>> /\ Split(line).rest = line /\ Split(line).lines = <<>>
<1>1. Split(line).rest = line /\ Split(line).lines = <<>>
    BY SplitShape
<1> QED BY <1>1 DEF AllLines

\* No text has no lines.
LEMMA AllOfNothing == AllLines(<<>>) = <<>>
BY SplitNothing DEF AllLines

\* After a newline, a line is one more.
LEMMA NewLine ==
    ASSUME NEW w \in Text, Split(w).rest # <<>>, NEW line \in Text, Unbroken(line), line # <<>>
    PROVE  /\ w \o <<"\n">> \in Text
           /\ AllLines(w \o <<"\n">>) = AllLines(w)
           /\ AllLines(w \o <<"\n">> \o line) = Append(AllLines(w), line)
           /\ Split(w \o <<"\n">> \o line).rest = line
<1> DEFINE v == w \o <<"\n">>
           L == Split(w).lines
           r == Split(w).rest
<1>1. v \in Text /\ v = Append(w, "\n")
    <2>1. "\n" \in Chars /\ w \in Seq(Chars)
        BY CharFacts DEF Text
    <2> QED BY <2>1 DEF Text
<1>2. L \in Seq(Text) /\ r \in Text /\ r # <<>>
    BY SplitType
<1>3. Split(v) = SplitChar(Split(w), "\n")
    BY <1>1, SplitFold, CharFacts
<1>4. Split(v).lines = Append(L, r) /\ Split(v).rest = <<>>
    BY <1>3 DEF SplitChar
<1>5. AllLines(w) = Append(L, r)
    BY <1>2 DEF AllLines
<1>6. AllLines(line) = <<line>> /\ Split(line).rest = line /\ <<>> \o line = line
    BY AllOfLine, ConcatText
<1>7. AllLines(v \o line) = Split(v).lines \o AllLines(Split(v).rest \o line)
    BY <1>1, AllLinesConcat
<1>8. Split(v \o line).rest = Split(Split(v).rest \o line).rest
    BY <1>1, SplitConcat
<1>9. AllLines(v) = Append(L, r)
    BY <1>4 DEF AllLines
<1>10. Append(L, r) \in Seq(Text)
    BY <1>2
<1>11. Append(L, r) \o <<line>> = Append(Append(L, r), line)
    BY <1>10
<1>12. AllLines(v \o line) = Append(AllLines(w), line)
    BY <1>4, <1>5, <1>6, <1>7, <1>11
<1>13. Split(v \o line).rest = line
    BY <1>4, <1>6, <1>8
<1> QED BY <1>1, <1>5, <1>9, <1>12, <1>13

\* Before the first user nothing is saved.
LEMMA NothingSaved ==
    ASSUME NEW users
    PROVE  Lists(users, <<>>) /\ Saved(<<>>, users, <<>>)
<1>1. \A n \in 0 .. Len(<<>>) : SubSeq(<<>>, 1, n) = <<>>
    OBVIOUS
<1>2. Whole(<<>>, users, <<>>) /\ Cut(<<>>, users, <<>>)
    BY DEF Whole, Cut
<1>3. Lists(users, <<>>)
    BY DEF Lists
<1> QED BY <1>1, <1>2, <1>3, AllOfNothing DEF Saved

\* An administrator, or anybody after them, can come next.
LEMMA ListedOneMore ==
    ASSUME NEW users, NEW order, Lists(users, order), NEW u \in DOMAIN users,
           \A i \in 1 .. Len(order) : order[i] # u,
           u \in Admins(users) \/ \A a \in Admins(users) : \E i \in 1 .. Len(order) : order[i] = a
    PROVE  Lists(users, Append(order, u))
<1> DEFINE more == Append(order, u)
           n == Len(order) + 1
<1>1. order \in Seq(DOMAIN users)
    BY DEF Lists
<1>2. /\ Len(order) \in Nat /\ more \in Seq(DOMAIN users) /\ Len(more) = n /\ more[n] = u
      /\ \A i \in 1 .. Len(order) : more[i] = order[i]
      /\ \A i \in 1 .. n : i # n => i \in 1 .. Len(order)
    BY <1>1
<1> HIDE DEF more
<1>3. \A i \in 1 .. n : \A j \in 1 .. n : more[i] = more[j] => i = j
    BY <1>2 DEF Lists
<1>4. ASSUME NEW i \in 1 .. n
      PROVE  more[i] \in Admins(users) \/ \A a \in Admins(users) : \E j \in 1 .. i - 1 : more[j] = a
    <2>1. CASE i = n
        <3>1. 1 .. i - 1 = 1 .. Len(order)
            BY <1>2, <2>1
        <3> QED BY <1>2, <2>1, <3>1
    <2>2. CASE i # n
        <3>1. i \in 1 .. Len(order) /\ more[i] = order[i] /\ \A j \in 1 .. i - 1 : more[j] = order[j]
            BY <1>2, <2>2
        <3>2. order[i] \in Admins(users) \/ \A a \in Admins(users) : \E j \in 1 .. i - 1 : order[j] = a
            BY <3>1 DEF Lists
        <3> QED BY <3>1, <3>2
    <2> QED BY <2>1, <2>2
<1>5. Lists(users, more)
    BY <1>2, <1>3, <1>4 DEF Lists
<1> QED BY <1>5 DEF more

\* A text is the start of itself.
LEMMA WholeText ==
    ASSUME NEW s \in Text
    PROVE  SubSeq(s, 1, Len(s)) = s /\ Len(s) \in 0 .. Len(s) /\ (s # <<>> => Len(s) \in 1 .. Len(s))
<1>1. SubSeq(s, 1, Len(s)) = s
    BY SubSeqFull DEF Text
<1>2. Len(s) \in Nat /\ (s # <<>> => Len(s) # 0)
    BY TextFacts
<1> QED BY <1>1, <1>2

\* Lines that are those of some users are so if there is one more to come.
LEMMA CutGrows ==
    ASSUME NEW users, NEW lines, NEW D, NEW order \in Seq(D), NEW u \in D, Cut(lines, users, order),
           NEW T, lines \in Seq(T)
    PROVE  Cut(lines, users, Append(order, u))
<1>1. /\ Len(order) \in Nat /\ Len(lines) \in Nat /\ Len(lines) <= Len(order)
      /\ Len(Append(order, u)) = Len(order) + 1
      /\ \A i \in 1 .. Len(order) : Append(order, u)[i] = order[i]
    BY DEF Cut
<1>2. \A i \in 1 .. Len(lines) : i \in 1 .. Len(order) /\ Append(order, u)[i] = order[i]
    BY <1>1
<1>3. \A i \in 1 .. Len(lines) :
          /\ Starts(lines[i], SavedLine(users, Append(order, u)[i]))
          /\ i < Len(lines) => lines[i] = SavedLine(users, Append(order, u)[i])
    BY <1>2 DEF Cut
<1> QED BY <1>1, <1>3 DEF Cut

\* SaveUser: with the line of one more user a text holds the lines of one more.
LEMMA SavedOneMore ==
    ASSUME NEW users \in UserTables, Simple(users), NEW order, Lists(users, order),
           NEW text \in Text, Saved(text, users, order), NEW u \in DOMAIN users
    PROVE  LET more == text \o (IF order = <<>> THEN <<>> ELSE <<"\n">>) \o SavedLine(users, u)
           IN  more \in Text /\ Saved(more, users, Append(order, u))
<1> DEFINE sep == IF order = <<>> THEN <<>> ELSE <<"\n">>
           line == SavedLine(users, u)
           A == text \o sep
           more == A \o line
           lines == AllLines(text)
           one == Append(order, u)
<1>1. line \in Text /\ line # <<>> /\ Unbroken(line) /\ Len(line) \in Nat
    BY SavedLineFits
<1>2. order \in Seq(DOMAIN users) /\ Len(order) \in Nat
    BY DEF Lists
<1>3. /\ Len(one) = Len(order) + 1 /\ one # <<>> /\ one[Len(order) + 1] = u
      /\ \A i \in 1 .. Len(order) : one[i] = order[i]
    BY <1>2
<1>4. lines \in Seq(Text) /\ Len(lines) = Len(order) /\ \A i \in 1 .. Len(order) : lines[i] = SavedLine(users, order[i])
    BY AllLinesType DEF Saved, Whole
<1>5. Len(text) \in Nat
    BY TextFacts
<1> HIDE DEF line
\* What comes after a separator is one more line, and the separator is none.
<1>6. /\ A \in Text /\ AllLines(A) = lines /\ Len(A) \in Nat /\ Len(A) <= Len(text) + 1 /\ Len(text) <= Len(A)
      /\ \A q \in Text : q # <<>> /\ Unbroken(q) =>
            AllLines(A \o q) = Append(lines, q) /\ Split(A \o q).rest = q
    <2>1. CASE order = <<>>
        <3>1. text = <<>> /\ A = <<>>
            BY <2>1, ConcatText DEF Saved
        <3>2. \A q \in Text : A \o q = q
            BY <3>1, ConcatText
        <3>3. lines = <<>>
            BY <3>1, AllOfNothing
        <3>4. \A q \in Text : <<q>> = Append(<<>>, q)
            OBVIOUS
        <3>5. \A q \in Text : q # <<>> /\ Unbroken(q) => AllLines(q) = <<q>> /\ Split(q).rest = q
            BY AllOfLine
        <3>6. A \in Text /\ AllLines(A) = lines /\ Len(A) \in Nat /\ Len(A) <= Len(text) + 1 /\ Len(text) <= Len(A)
            BY <3>1, <3>3, AllOfNothing, NoText
        <3>7. \A q \in Text : q # <<>> /\ Unbroken(q) =>
                  AllLines(A \o q) = Append(lines, q) /\ Split(A \o q).rest = q
            <4> HIDE DEF A, lines
            <4> QED BY <3>2, <3>3, <3>4, <3>5
        <3> QED BY <3>6, <3>7
    <2>2. CASE order # <<>>
        <3>1. A = text \o <<"\n">> /\ Split(text).rest # <<>>
            BY <2>2 DEF Saved
        <3>2. \A q \in Text : q # <<>> /\ Unbroken(q) =>
                 /\ AllLines(text \o <<"\n">> \o q) = Append(lines, q)
                 /\ Split(text \o <<"\n">> \o q).rest = q
            BY <3>1, NewLine
        <3>3. text \o <<"\n">> \in Text /\ AllLines(text \o <<"\n">>) = lines
            BY <1>1, <3>1, NewLine
        <3>4. <<"\n">> \in Text /\ Len(<<"\n">>) = 1
            BY CharFacts DEF Text
        <3>5. Len(A) = Len(text) + 1
            BY <3>1, <3>4, ConcatText
        <3> QED BY <1>5, <3>1, <3>2, <3>3, <3>5
    <2> QED BY <2>1, <2>2
<1>7. \A n \in 0 .. Len(text) : SubSeq(A, 1, n) = SubSeq(text, 1, n)
    <2>1. sep \in Text
        BY CharFacts DEF Text
    <2>2. Len(A) = Len(text) + Len(sep) /\ Len(sep) \in Nat
        BY <2>1, ConcatText, TextFacts
    <2> SUFFICES ASSUME NEW n \in 0 .. Len(text) PROVE SubSeq(A, 1, n) = SubSeq(text, 1, n)
        OBVIOUS
    <2>3. n \in 0 .. Len(text) + Len(sep) /\ n <= Len(text)
        BY <1>5, <2>2
    <2> HIDE DEF sep
    <2> QED BY <2>1, <2>3, PrefixOfConcat
<1> HIDE DEF A, lines, one
<1>8. more \in Text /\ Len(more) = Len(A) + Len(line)
    BY <1>1, <1>6, ConcatText
<1>9. AllLines(more) = Append(lines, line) /\ Split(more).rest = line
    BY <1>1, <1>6
<1>10. Whole(AllLines(more), users, one)
    <2>1. /\ Len(Append(lines, line)) = Len(lines) + 1 /\ Append(lines, line)[Len(lines) + 1] = line
          /\ \A i \in 1 .. Len(lines) : Append(lines, line)[i] = lines[i]
        BY <1>1, <1>4
    <2>2. \A i \in 1 .. Len(order) + 1 : i \in 1 .. Len(order) \/ i = Len(order) + 1
        BY <1>2
    <2>3. line = SavedLine(users, one[Len(order) + 1])
        BY <1>3 DEF line
    <2>4. \A i \in 1 .. Len(order) + 1 : Append(lines, line)[i] = SavedLine(users, one[i])
        BY <1>3, <1>4, <2>1, <2>2, <2>3
    <2> QED BY <1>3, <1>4, <1>9, <2>1, <2>4 DEF Whole
<1>11. ASSUME NEW n \in 0 .. Len(more)
       PROVE  Cut(AllLines(SubSeq(more, 1, n)), users, one)
    <2>1. \A k \in 0 .. Len(text) : Cut(AllLines(SubSeq(text, 1, k)), users, order)
        BY DEF Saved
    <2>2. \A k \in 0 .. Len(text) : Cut(AllLines(SubSeq(text, 1, k)), users, one)
        <3> SUFFICES ASSUME NEW k \in 0 .. Len(text)
                     PROVE  Cut(AllLines(SubSeq(text, 1, k)), users, one)
            OBVIOUS
        <3>1. AllLines(SubSeq(text, 1, k)) \in Seq(Text)
            BY PrefixText, AllLinesType
        <3> QED BY <1>2, <2>1, <3>1, CutGrows DEF one
    <2>3. n \in 0 .. Len(A) + Len(line) /\ n \in Nat
        BY <1>1, <1>6, <1>8
    <2>4. CASE n <= Len(text)
        <3>1. SubSeq(more, 1, n) = SubSeq(text, 1, n) /\ n \in 0 .. Len(text)
            <4>1. n <= Len(A) /\ n \in 0 .. Len(text)
                BY <1>5, <1>6, <2>3, <2>4
            <4>2. SubSeq(more, 1, n) = SubSeq(A, 1, n)
                BY <1>1, <1>6, <2>3, <4>1, PrefixOfConcat
            <4> QED BY <1>7, <4>1, <4>2
        <3> QED BY <2>2, <3>1
    <2>5. CASE n > Len(text) /\ n <= Len(A)
        <3>1. n = Len(A)
            BY <1>5, <1>6, <2>3, <2>5
        <3>2. SubSeq(more, 1, n) = SubSeq(A, 1, n) /\ n \in 0 .. Len(A) /\ n <= Len(A)
            BY <1>1, <1>6, <2>3, <2>5, <3>1, PrefixOfConcat
        <3>3. SubSeq(A, 1, n) = A
            BY <1>6, <3>1, <3>2, PrefixText
        <3>4. AllLines(SubSeq(more, 1, n)) = lines
            BY <1>6, <3>2, <3>3
        <3>5. Len(text) \in 0 .. Len(text) /\ SubSeq(text, 1, Len(text)) = text
            BY WholeText
        <3>6. Cut(lines, users, one)
            BY <2>2, <3>5 DEF lines
        <3> QED BY <3>4, <3>6
    <2>6. CASE n > Len(A)
        <3> DEFINE k == n - Len(A)
                   q == SubSeq(line, 1, k)
        <3>1. k \in 1 .. Len(line) /\ SubSeq(more, 1, n) = A \o q
            BY <1>1, <1>6, <2>3, <2>6, PrefixOfConcat
        <3> HIDE DEF k
        <3>2. k \in 0 .. Len(line) /\ k # 0
            BY <1>1, <3>1
        <3>3. q \in Text /\ Len(q) = k /\ SubSeq(line, k + 1, Len(line)) \in Text
              /\ line = q \o SubSeq(line, k + 1, Len(line))
            BY <1>1, <3>2, PrefixText
        <3>4. q # <<>>
            BY <3>2, <3>3
        <3>5. Unbroken(q)
            <4> DEFINE t == SubSeq(line, k + 1, Len(line))
            <4> HIDE DEF q, t
            <4>1. q \in Text /\ t \in Text /\ line = q \o t
                BY <3>3 DEF t
            <4>2. Unbroken(q \o t) <=> Unbroken(q) /\ Unbroken(t)
                BY <4>1, UnbrokenConcat
            <4> QED BY <1>1, <4>1, <4>2
        <3>6. Starts(q, line)
            BY <3>1 DEF Starts
        <3> HIDE DEF q
        <3>7. AllLines(SubSeq(more, 1, n)) = Append(lines, q)
            BY <1>6, <3>1, <3>3, <3>4, <3>5
        <3>8. /\ Len(Append(lines, q)) = Len(lines) + 1 /\ Append(lines, q)[Len(lines) + 1] = q
              /\ \A i \in 1 .. Len(lines) : Append(lines, q)[i] = lines[i]
            BY <1>4, <3>3
        <3>9. \A i \in 1 .. Len(order) :
                 /\ Append(lines, q)[i] = SavedLine(users, one[i])
                 /\ Starts(Append(lines, q)[i], SavedLine(users, one[i]))
            <4> SUFFICES ASSUME NEW i \in 1 .. Len(order)
                         PROVE  /\ Append(lines, q)[i] = SavedLine(users, one[i])
                                /\ Starts(Append(lines, q)[i], SavedLine(users, one[i]))
                OBVIOUS
            <4>1. Append(lines, q)[i] = SavedLine(users, one[i]) /\ one[i] = order[i]
                BY <1>3, <1>4, <3>8
            <4> DEFINE old == SavedLine(users, order[i])
            <4>2. order[i] \in DOMAIN users
                BY <1>2
            <4>3. old \in Text /\ old # <<>> /\ Len(old) \in Nat
                BY <4>2, SavedLineFits
            <4> HIDE DEF old
            <4>4. Len(old) \in 1 .. Len(old) /\ old = SubSeq(old, 1, Len(old))
                BY <4>3, WholeText
            <4>5. Starts(old, old)
                BY <4>4 DEF Starts
            <4> QED BY <4>1, <4>5 DEF old
        <3>10. line = SavedLine(users, one[Len(order) + 1])
            BY <1>3 DEF line
        <3>11. \A i \in 1 .. Len(order) + 1 :
                  /\ Starts(Append(lines, q)[i], SavedLine(users, one[i]))
                  /\ i < Len(order) + 1 => Append(lines, q)[i] = SavedLine(users, one[i])
            <4>1. \A i \in 1 .. Len(order) + 1 : i \in 1 .. Len(order) \/ i = Len(order) + 1
                BY <1>2
            <4>2. Starts(Append(lines, q)[Len(order) + 1], SavedLine(users, one[Len(order) + 1]))
                BY <1>4, <3>6, <3>8, <3>10
            <4>3. ~(Len(order) + 1 < Len(order) + 1)
                BY <1>2
            <4> QED BY <3>9, <4>1, <4>2, <4>3
        <3>12. Len(Append(lines, q)) = Len(order) + 1 /\ Len(order) + 1 <= Len(one)
            BY <1>2, <1>3, <1>4, <3>8
        <3>13. Cut(Append(lines, q), users, one)
            BY <3>11, <3>12 DEF Cut
        <3> QED BY <3>7, <3>13
    <2>7. n <= Len(text) \/ (n > Len(text) /\ n <= Len(A)) \/ n > Len(A)
        BY <1>5, <1>6, <2>3
    <2> QED BY <2>4, <2>5, <2>6, <2>7
<1>12. Saved(more, users, one)
    BY <1>1, <1>3, <1>9, <1>10, <1>11 DEF Saved
<1> QED BY <1>8, <1>12 DEF A, line, one

\* There is one table without names.
LEMMA NoUsersIs ==
    ASSUME NEW users \in UserTables
    PROVE  DOMAIN users = {} <=> users = NoUsers
<1>1. users \in [DOMAIN users -> UserData]
    BY TableType
<1>2. NoUsers \in [{} -> UserData] /\ DOMAIN NoUsers = {}
    BY DEF NoUsers
<1> HIDE DEF NoUsers
<1>3. ASSUME DOMAIN users = {} PROVE users = NoUsers
    BY <1>1, <1>2, <1>3
<1> QED BY <1>2, <1>3

\* Read back, the lines of all users are these users.
LEMMA WholeUsers ==
    ASSUME NEW users \in UserTables, Simple(users), NEW order, Lists(users, order),
           \A u \in DOMAIN users : \E i \in 1 .. Len(order) : order[i] = u,
           NEW lines \in Seq(Text), Whole(lines, users, order)
    PROVE  /\ WellFormed(lines) /\ Describes(lines, users)
           /\ DOMAIN users # {} => UserLines(lines) # {}
           /\ \A i \in 1 .. Len(lines) : Len(lines[i]) < Capacity
<1>1. order \in Seq(DOMAIN users) /\ Len(lines) = Len(order)
    BY DEF Lists, Whole
<1>2. ASSUME NEW i \in 1 .. Len(lines)
      PROVE  /\ order[i] \in DOMAIN users /\ Parsed(lines[i]).type = "user"
             /\ Parsed(lines[i]).username = order[i] /\ Parsed(lines[i]).data = users[order[i]]
             /\ Len(lines[i]) < Capacity
    <2> DEFINE u == order[i]
               mark == RoleChars[users[u].role]
               password == users[u].password
    <2>1. u \in DOMAIN users
        BY <1>1
    <2>2. lines[i] = SavedLine(users, u)
        BY DEF Whole
    <2> HIDE DEF u
    <2>3. /\ mark \in Marks /\ RoleOf(mark) = users[u].role
          /\ u \in Fields /\ u # <<>> /\ password \in Fields /\ password # <<>> /\ Unescapable(password)
          /\ SavedLine(users, u) = Line(mark, u, password)
          /\ users[u] = [password |-> password, role |-> users[u].role]
        BY <2>1, UserFacts
    <2> HIDE DEF mark, password
    <2>4. LET parsed == Parsed(Line(mark, u, password))
          IN  /\ parsed.type = "user" /\ parsed.username = u
              /\ parsed.data = [password |-> password, role |-> RoleOf(mark)]
        BY <2>3, LineParses
    <2>5. Len(SavedLine(users, u)) < Capacity
        BY <2>1, SavedLineFits
    <2> QED BY <2>1, <2>2, <2>3, <2>4, <2>5 DEF u
<1>3. UserLines(lines) = 1 .. Len(lines)
    BY <1>2 DEF UserLines
<1>4. WellFormed(lines)
    BY <1>2 DEF WellFormed
<1>5. DOMAIN users = {NameAt(lines, i) : i \in UserLines(lines)}
    <2>1. \A i \in 1 .. Len(lines) : NameAt(lines, i) = order[i] /\ order[i] \in DOMAIN users
        BY <1>2 DEF NameAt
    <2> QED BY <1>1, <1>3, <2>1
<1>6. \A i \in 1 .. Len(lines) : users[NameAt(lines, i)] = Parsed(lines[i]).data
    BY <1>2 DEF NameAt
<1>7. Describes(lines, users)
    BY <1>5, <1>6 DEF Describes
<1>8. DOMAIN users # {} => UserLines(lines) # {}
    BY <1>5
<1> QED BY <1>2, <1>4, <1>7, <1>8

\* What PartialSaveInventsNothing says of the users of a file cut short.
SomeOf(loaded, users) ==
    /\ DOMAIN loaded \subseteq DOMAIN users
    /\ \A u \in DOMAIN loaded :
          /\ loaded[u].role = users[u].role
          /\ IsPrefix(loaded[u].password, users[u].password)
    /\ loaded # NoUsers /\ Admins(users) # {} => Admins(loaded) # {}
    /\ Cardinality({u \in DOMAIN loaded : loaded[u] # users[u]}) <= 1

\* It holds of no users at all.
LEMMA NoneOf ==
    ASSUME NEW users
    PROVE  SomeOf(NoUsers, users)
<1>1. DOMAIN NoUsers = {}
    BY DEF NoUsers
<1>2. {u \in DOMAIN NoUsers : NoUsers[u] # users[u]} = {}
    BY <1>1
<1> QED BY <1>1, <1>2, FS_EmptySet DEF SomeOf

\* Read back, the lines of some users, the last one cut, invent nothing.
LEMMA CutUsers ==
    ASSUME NEW users \in UserTables, Simple(users), NEW order, Lists(users, order),
           NEW lines \in Seq(Text), Cut(lines, users, order), WellFormed(lines),
           NEW loaded, Describes(lines, loaded)
    PROVE  SomeOf(loaded, users)
<1>1. order \in Seq(DOMAIN users) /\ Len(order) \in Nat /\ Len(lines) \in Nat /\ Len(lines) <= Len(order)
    BY DEF Lists, Cut
<1> DEFINE Reads(parsed, u) ==
              /\ parsed.type = "user" /\ parsed.username = u /\ parsed.data.role = users[u].role
              /\ IsPrefix(parsed.data.password, users[u].password)
<1>2. ASSUME NEW i \in 1 .. Len(lines)
      PROVE  /\ i \in 1 .. Len(order) /\ order[i] \in DOMAIN users /\ Reads(Parsed(lines[i]), order[i])
             /\ i < Len(lines) => Parsed(lines[i]).data = users[order[i]]
    <2> DEFINE u == order[i]
               mark == RoleChars[users[u].role]
               password == users[u].password
               line == Line(mark, u, password)
    <2>1. i \in 1 .. Len(order) /\ u \in DOMAIN users
        BY <1>1
    <2>2. Starts(lines[i], SavedLine(users, u)) /\ (i < Len(lines) => lines[i] = SavedLine(users, u))
        BY DEF Cut
    <2> HIDE DEF u
    <2>3. /\ mark \in Marks /\ RoleOf(mark) = users[u].role
          /\ u \in Fields /\ u # <<>> /\ password \in Fields /\ password # <<>> /\ Unescapable(password)
          /\ SavedLine(users, u) = line
          /\ users[u] = [password |-> password, role |-> users[u].role]
        BY <2>1, UserFacts
    <2> HIDE DEF mark, password
    <2>4. PICK n \in 1 .. Len(line) : lines[i] = SubSeq(line, 1, n)
        BY <2>2, <2>3 DEF Starts
    <2>5. Parsed(lines[i]).type # "error"
        BY DEF WellFormed
    <2>6. LET parsed == Parsed(SubSeq(line, 1, n))
          IN  \/ parsed.type = "error"
              \/ /\ parsed.type = "user" /\ parsed.username = u
                 /\ \E k \in 1 .. Len(password) :
                       parsed.data = [password |-> SubSeq(password, 1, k), role |-> RoleOf(mark)]
        BY <2>3, CutLineParses
    <2>7. /\ Parsed(lines[i]).type = "user" /\ Parsed(lines[i]).username = u
          /\ \E k \in 1 .. Len(password) :
                Parsed(lines[i]).data = [password |-> SubSeq(password, 1, k), role |-> RoleOf(mark)]
        BY <2>4, <2>5, <2>6
    <2>8. PICK k \in 1 .. Len(password) :
             Parsed(lines[i]).data = [password |-> SubSeq(password, 1, k), role |-> RoleOf(mark)]
        BY <2>7
    <2>9. IsPrefix(SubSeq(password, 1, k), password)
        <3>1. password \in Text /\ Len(password) \in Nat
            BY <2>3, TextFacts DEF Fields
        <3>2. k \in 0 .. Len(password)
            BY <3>1
        <3>3. SubSeq(password, 1, k) \in Text /\ Len(SubSeq(password, 1, k)) = k
            BY <3>1, <3>2, PrefixText
        <3>4. SubSeq(SubSeq(password, 1, k), 1, k) = SubSeq(password, 1, k)
            BY <3>3, WholeText
        <3> QED BY <3>1, <3>3, <3>4 DEF IsPrefix
    <2>10. Reads(Parsed(lines[i]), u)
        BY <2>3, <2>7, <2>8, <2>9 DEF password
    <2>11. i < Len(lines) => Parsed(lines[i]).data = users[u]
        <3>1. LET parsed == Parsed(line)
              IN  /\ parsed.type = "user" /\ parsed.username = u
                  /\ parsed.data = [password |-> password, role |-> RoleOf(mark)]
            BY <2>3, LineParses
        <3> HIDE DEF line
        <3> QED BY <2>2, <2>3, <3>1
    <2> QED BY <2>1, <2>10, <2>11 DEF u
<1>3. UserLines(lines) = 1 .. Len(lines)
    BY <1>2 DEF UserLines
<1>4. \A i \in 1 .. Len(lines) : NameAt(lines, i) = order[i]
    BY <1>2 DEF NameAt
<1>5. \A i \in 1 .. Len(lines) : Latest(lines, i)
    <2>1. \A i \in 1 .. Len(order) : \A j \in 1 .. Len(order) : order[i] = order[j] => i = j
        BY DEF Lists
    <2>2. \A i \in 1 .. Len(lines) : \A j \in 1 .. Len(lines) : NameAt(lines, j) = NameAt(lines, i) => j <= i
        BY <1>2, <1>4, <2>1
    <2> QED BY <1>3, <2>2 DEF Latest
<1>6. \A i \in 1 .. Len(lines) : loaded[order[i]] = Parsed(lines[i]).data
    BY <1>4, <1>5 DEF Describes
<1>7. \A u \in DOMAIN loaded : \E i \in 1 .. Len(lines) : order[i] = u
    BY <1>3, <1>4 DEF Describes
<1>8. \A i \in 1 .. Len(lines) : order[i] \in DOMAIN loaded
    BY <1>3, <1>4 DEF Describes
<1> HIDE DEF Reads
<1>9. ASSUME NEW u \in DOMAIN loaded
      PROVE  /\ u \in DOMAIN users /\ loaded[u].role = users[u].role
             /\ IsPrefix(loaded[u].password, users[u].password)
    <2>1. PICK i \in 1 .. Len(lines) : order[i] = u
        BY <1>7
    <2> QED BY <1>2, <1>6, <2>1 DEF Reads
<1>10. ASSUME loaded # NoUsers, Admins(users) # {} PROVE Admins(loaded) # {}
    <2>1. DOMAIN loaded # {}
        <3>1. loaded \in UserTables
            BY DEF Describes
        <3> QED BY <1>10, <3>1, NoUsersIs
    <2>2. 1 \in 1 .. Len(lines) /\ 1 .. 1 - 1 = {}
        BY <1>1, <1>7, <2>1
    <2>3. 1 \in 1 .. Len(order)
        BY <1>1, <2>2
    <2>4. order[1] \in Admins(users)
        BY <1>10, <2>2, <2>3 DEF Lists
    <2>5. order[1] \in DOMAIN loaded /\ loaded[order[1]].role = users[order[1]].role
        BY <1>8, <1>9, <2>2
    <2> QED BY <2>4, <2>5 DEF Admins
<1>11. Cardinality({u \in DOMAIN loaded : loaded[u] # users[u]}) <= 1
    <2> DEFINE C == {u \in DOMAIN loaded : loaded[u] # users[u]}
    <2>1. \A u \in C : Len(lines) \in 1 .. Len(lines) /\ u = order[Len(lines)]
        <3> SUFFICES ASSUME NEW u \in C PROVE Len(lines) \in 1 .. Len(lines) /\ u = order[Len(lines)]
            OBVIOUS
        <3>1. PICK i \in 1 .. Len(lines) : order[i] = u
            BY <1>7
        <3>2. ~(i < Len(lines))
            BY <1>2, <1>6, <3>1
        <3>3. i = Len(lines)
            BY <1>1, <3>2
        <3> QED BY <3>1, <3>3
    <2>2. C \subseteq {order[Len(lines)]}
        BY <2>1
    <2> HIDE DEF C
    <2>3. C = {} \/ C = {order[Len(lines)]}
        BY <2>2
    <2>4. CASE C = {}
        <3>1. Cardinality(C) = 0
            BY <2>4, FS_EmptySet
        <3> QED BY <3>1 DEF C
    <2>5. CASE C = {order[Len(lines)]}
        <3>1. Cardinality(C) = 1
            BY <2>5, FS_Singleton
        <3> QED BY <3>1 DEF C
    <2> QED BY <2>3, <2>4, <2>5
<1> QED BY <1>9, <1>10, <1>11 DEF SomeOf

-----------------------------------------------------------------------------
(* Loading, chunk by chunk                                                 *)

\* How far the file was read: the table is that of the complete lines, the buffer
\* the start of the next one.
Loading(text, pos, buf, tab) ==
    /\ text \in Text /\ pos \in 0 .. Len(text)
    /\ tab \in Tables /\ tab.ok
    /\ buf = Split(SubSeq(text, 1, pos)).rest /\ Len(buf) < Capacity
    /\ WellFormed(Split(SubSeq(text, 1, pos)).lines)
    /\ Describes(Split(SubSeq(text, 1, pos)).lines, tab.users)
    /\ \A i \in 1 .. Len(Split(SubSeq(text, 1, pos)).lines) :
          Len(Split(SubSeq(text, 1, pos)).lines[i]) < Capacity

\* Lines that fit the buffer.
Fit(lines) == \A i \in 1 .. Len(lines) : Len(lines[i]) < Capacity

\* What LoadsTheFile says of a file and of the users loaded from it.
Loads(text, users) ==
    users = IF DocumentedUsers(text).ok /\ Fit(AllLines(text))
            THEN DocumentedUsers(text).users ELSE NoUsers

\* A file without users, or with a line that is malformed or too long, is refused.
LEMMA LoadsNothing ==
    ASSUME NEW text \in Text,
           \/ UserLines(AllLines(text)) = {} \/ ~WellFormed(AllLines(text)) \/ ~Fit(AllLines(text))
    PROVE  Loads(text, NoUsers)
<1>1. AllLines(text) \in Seq(Text)
    BY AllLinesType
<1>2. UsersOf(AllLines(text)).ok <=> UserLines(AllLines(text)) # {} /\ WellFormed(AllLines(text))
    BY <1>1, UsersOfIs
<1> QED BY <1>2 DEF Loads, DocumentedUsers

\* Any other one gives the users its lines describe.
LEMMA LoadsUsers ==
    ASSUME NEW text \in Text, UserLines(AllLines(text)) # {}, WellFormed(AllLines(text)),
           Fit(AllLines(text)), NEW users, Describes(AllLines(text), users)
    PROVE  Loads(text, users)
<1>1. AllLines(text) \in Seq(Text)
    BY AllLinesType
<1>2. /\ UsersOf(AllLines(text)).ok <=> UserLines(AllLines(text)) # {} /\ WellFormed(AllLines(text))
      /\ Describes(AllLines(text), UsersOf(AllLines(text)).users)
    BY <1>1, UsersOfIs
<1>3. users = UsersOf(AllLines(text)).users
    BY <1>1, <1>2, OneDescribed
<1> QED BY <1>2, <1>3 DEF Loads, DocumentedUsers

\* Lines put together fit, or are well formed, if both parts are.
LEMMA FitConcat ==
    ASSUME NEW L \in Seq(Text), NEW M \in Seq(Text)
    PROVE  /\ Fit(L \o M) <=> Fit(L) /\ Fit(M)
           /\ WellFormed(L \o M) <=> WellFormed(L) /\ WellFormed(M)
<1>1. /\ Len(L) \in Nat /\ Len(M) \in Nat /\ Len(L \o M) = Len(L) + Len(M)
      /\ \A i \in 1 .. Len(L) : (L \o M)[i] = L[i] /\ i \in 1 .. Len(L) + Len(M)
      /\ \A i \in 1 .. Len(M) : (L \o M)[Len(L) + i] = M[i] /\ Len(L) + i \in 1 .. Len(L) + Len(M)
    OBVIOUS
<1>2. \A i \in 1 .. Len(L) + Len(M) : i \in 1 .. Len(L) \/ (i - Len(L) \in 1 .. Len(M) /\ Len(L) + (i - Len(L)) = i)
    BY <1>1
<1> DEFINE N == L \o M
<1> HIDE DEF N
<1>3. /\ Len(N) = Len(L) + Len(M)
      /\ \A i \in 1 .. Len(L) : N[i] = L[i] /\ i \in 1 .. Len(N)
      /\ \A i \in 1 .. Len(M) : N[Len(L) + i] = M[i] /\ Len(L) + i \in 1 .. Len(N)
      /\ \A i \in 1 .. Len(N) : i \in 1 .. Len(L) \/ \E j \in 1 .. Len(M) : i = Len(L) + j
    <2>1. \A i \in 1 .. Len(L) + Len(M) : i \in 1 .. Len(L) \/ \E j \in 1 .. Len(M) : i = Len(L) + j
        BY <1>2
    <2> QED BY <1>1, <2>1 DEF N
<1>4. Fit(N) <=> Fit(L) /\ Fit(M)
    <2>1. ASSUME Fit(N) PROVE Fit(L) /\ Fit(M)
        BY <1>3, <2>1 DEF Fit
    <2>2. ASSUME Fit(L), Fit(M) PROVE Fit(N)
        BY <1>3, <2>2 DEF Fit
    <2> QED BY <2>1, <2>2
<1>5. WellFormed(N) <=> WellFormed(L) /\ WellFormed(M)
    <2>1. ASSUME WellFormed(N) PROVE WellFormed(L) /\ WellFormed(M)
        <3>1. \A i \in 1 .. Len(L) : Parsed(L[i]).type # "error"
            <4> SUFFICES ASSUME NEW i \in 1 .. Len(L) PROVE Parsed(L[i]).type # "error"
                OBVIOUS
            <4>1. N[i] = L[i] /\ i \in 1 .. Len(N)
                BY <1>3
            <4>2. Parsed(N[i]).type # "error"
                BY <2>1, <4>1 DEF WellFormed
            <4> QED BY <4>1, <4>2
        <3>2. \A i \in 1 .. Len(M) : Parsed(M[i]).type # "error"
            <4> SUFFICES ASSUME NEW i \in 1 .. Len(M) PROVE Parsed(M[i]).type # "error"
                OBVIOUS
            <4>1. N[Len(L) + i] = M[i] /\ Len(L) + i \in 1 .. Len(N)
                BY <1>3
            <4>2. Parsed(N[Len(L) + i]).type # "error"
                BY <2>1, <4>1 DEF WellFormed
            <4> QED BY <4>1, <4>2
        <3> QED BY <3>1, <3>2 DEF WellFormed
    <2>2. ASSUME WellFormed(L), WellFormed(M) PROVE WellFormed(N)
        <3> SUFFICES ASSUME NEW i \in 1 .. Len(N) PROVE Parsed(N[i]).type # "error"
            BY DEF WellFormed
        <3>1. CASE i \in 1 .. Len(L)
            BY <1>3, <2>2, <3>1 DEF WellFormed
        <3>2. CASE \E j \in 1 .. Len(M) : i = Len(L) + j
            <4>1. PICK j \in 1 .. Len(M) : i = Len(L) + j
                BY <3>2
            <4>2. N[i] = M[j]
                BY <1>3, <4>1
            <4> QED BY <2>2, <4>2 DEF WellFormed
        <3> QED BY <1>3, <3>1, <3>2
    <2> QED BY <2>1, <2>2
<1> QED BY <1>4, <1>5 DEF N

\* Loading starts with nothing read.
LEMMA NothingLoading ==
    ASSUME NEW text \in Text
    PROVE  Loading(text, 0, <<>>, EmptyTable)
<1>1. SubSeq(text, 1, 0) = <<>> /\ Len(text) \in Nat
    BY TextFacts DEF Text
<1>2. EmptyTable \in Tables /\ EmptyTable.ok /\ EmptyTable.users = NoUsers
    BY EmptyTableType
<1>3. Describes(<<>>, NoUsers) /\ WellFormed(<<>>)
    BY NothingDescribed
<1>4. 0 < Capacity /\ Len(<<>>) = 0 /\ 0 \in 0 .. Len(text)
    BY <1>1, UsersLifecycleAssumption, UsersFileAssumption
<1>5. Split(SubSeq(text, 1, 0)).lines = <<>> /\ Split(SubSeq(text, 1, 0)).rest = <<>>
    BY <1>1, SplitNothing
<1> QED BY <1>2, <1>3, <1>4, <1>5 DEF Loading

\* A chunk takes loading one step further, or shows that the file is refused.
LEMMA ChunkLoaded ==
    ASSUME NEW text, NEW pos, NEW buf, NEW tab, Loading(text, pos, buf, tab),
           NEW n \in 1 .. Len(text) - pos, n <= Capacity - Len(buf)
    PROVE  LET bytes == buf \o SubSeq(text, pos + 1, pos + n)
               split == Split(bytes)
               result == LoadLines(tab, split.lines)
           IN  /\ result.ok /\ ~TooLong(split, bytes) => Loading(text, pos + n, split.rest, result)
               /\ ~result.ok \/ TooLong(split, bytes) => Loads(text, NoUsers)
<1> DEFINE chunk == SubSeq(text, pos + 1, pos + n)
           bytes == buf \o chunk
           split == Split(bytes)
           result == LoadLines(tab, split.lines)
           before == SubSeq(text, 1, pos)
           after == SubSeq(text, 1, pos + n)
           more == SubSeq(text, pos + n + 1, Len(text))
           L == Split(before).lines
<1>1. /\ text \in Text /\ pos \in 0 .. Len(text) /\ Len(text) \in Nat /\ pos \in Nat /\ n \in Nat /\ n >= 1
      /\ tab \in Tables /\ tab.ok /\ buf = Split(before).rest /\ Len(buf) < Capacity
      /\ WellFormed(L) /\ Describes(L, tab.users) /\ Fit(L)
      /\ pos + n \in 0 .. Len(text) /\ pos + n \in 1 .. Len(text)
    <2>1. text \in Text /\ pos \in 0 .. Len(text)
        BY DEF Loading
    <2>2. Len(text) \in Nat
        BY <2>1, TextFacts
    <2> QED BY <2>1, <2>2 DEF Loading, Fit
<1>2. before \in Text /\ after \in Text /\ Len(before) = pos
    BY <1>1, PrefixText
<1>3. chunk \in Text /\ Len(chunk) = n
    <2>1. \A i \in pos + 1 .. pos + n : text[i] \in Chars
        BY <1>1, TextFacts
    <2>2. chunk \in Seq(Chars) /\ Len(chunk) = IF pos + 1 <= pos + n THEN pos + n - (pos + 1) + 1 ELSE 0
        BY <1>1, <2>1, SubSeqProperties
    <2> QED BY <1>1, <2>2 DEF Text
<1>4. after = before \o chunk
    <2>1. 1 \in 1 .. Len(text) + 1 /\ pos \in 1 - 1 .. Len(text) /\ pos + n \in pos .. Len(text)
        BY <1>1
    <2>2. text \in Seq(Chars)
        BY <1>1 DEF Text
    <2> QED BY <2>1, <2>2, ConcatAdjacentSubSeq
<1>5. more \in Text /\ text = after \o more
    BY <1>1, PrefixText
<1>6. L \in Seq(Text) /\ buf \in Text /\ bytes \in Text /\ Len(bytes) = Len(buf) + n /\ Len(buf) \in Nat
    <2>1. L \in Seq(Text) /\ buf \in Text
        BY <1>1, <1>2, SplitType
    <2>2. bytes \in Text /\ Len(bytes) = Len(buf) + Len(chunk)
        BY <1>3, <2>1, ConcatText
    <2>3. Len(buf) \in Nat
        BY <2>1, TextFacts
    <2> QED BY <1>3, <2>1, <2>2, <2>3
<1> HIDE DEF chunk, before, after, more
<1>7. Split(after).lines = L \o split.lines /\ Split(after).rest = split.rest
    <2>1. buf = Split(before).rest
        BY <1>1
    <2> QED BY <1>2, <1>3, <1>4, <2>1, SplitConcat
<1> HIDE DEF bytes, L
<1>8. /\ split.lines \in Seq(Text) /\ split.rest \in Text /\ Len(split.rest) \in Nat
      /\ Len(bytes) \in Nat /\ Len(bytes) <= Capacity /\ Capacity \in Nat /\ Len(bytes) # 0
    <2>1. split.lines \in Seq(Text) /\ split.rest \in Text
        BY <1>6, SplitType
    <2>2. Len(split.rest) \in Nat
        BY <2>1, TextFacts
    <2> HIDE DEF split
    <2> QED BY <1>1, <1>6, <2>1, <2>2, UsersLifecycleAssumption
<1>9. /\ split.lines = <<>> => split.rest = bytes /\ Unbroken(bytes)
      /\ Len(split.rest) <= Len(bytes) /\ (split.lines # <<>> => Len(split.rest) < Len(bytes))
      /\ \A i \in 1 .. Len(split.lines) : Len(split.lines[i]) < Len(bytes) /\ Len(split.lines[i]) \in Nat
    <2>1. /\ Unbroken(Split(bytes).rest)
          /\ Split(bytes).lines = <<>> => Split(bytes).rest = bytes
          /\ Len(Split(bytes).rest) <= Len(bytes) /\ (Split(bytes).lines # <<>> => Len(Split(bytes).rest) < Len(bytes))
          /\ \A i \in 1 .. Len(Split(bytes).lines) : Len(Split(bytes).lines[i]) < Len(bytes)
        BY <1>6, SplitShape
    <2>2. \A i \in 1 .. Len(split.lines) : Len(split.lines[i]) \in Nat
        <3> SUFFICES ASSUME NEW i \in 1 .. Len(split.lines) PROVE Len(split.lines[i]) \in Nat
            OBVIOUS
        <3>1. split.lines[i] \in Text
            BY <1>8
        <3> QED BY <3>1, TextFacts
    <2> QED BY <2>1, <2>2
<1>10. /\ result \in Tables
       /\ result.ok <=> WellFormed(L \o split.lines)
       /\ result.ok => Describes(L \o split.lines, result.users)
    BY <1>1, <1>6, <1>8, LoadedLines DEF L
<1> HIDE DEF split, result
<1>11. Fit(split.lines) /\ Fit(L \o split.lines)
    <2>1. Fit(split.lines)
        BY <1>8, <1>9 DEF Fit
    <2> QED BY <1>1, <1>6, <1>8, <2>1, FitConcat
<1>12. ASSUME result.ok, ~TooLong(split, bytes) PROVE Loading(text, pos + n, split.rest, result)
    <2>1. Len(split.rest) < Capacity
        BY <1>8, <1>9, <1>12 DEF TooLong
    <2>2. Fit(Split(after).lines) /\ WellFormed(Split(after).lines) /\ Describes(Split(after).lines, result.users)
          /\ split.rest = Split(after).rest
        BY <1>7, <1>10, <1>11, <1>12
    <2> QED BY <1>1, <1>10, <1>12, <2>1, <2>2 DEF Loading, Fit, after
<1>13. AllLines(text) = (L \o split.lines) \o AllLines(split.rest \o more) /\ AllLines(split.rest \o more) \in Seq(Text)
    BY <1>2, <1>5, <1>7, AllLinesConcat
<1>14. L \o split.lines \in Seq(Text)
    BY <1>6, <1>8
<1>15. ASSUME ~result.ok PROVE Loads(text, NoUsers)
    <2>1. ~WellFormed(AllLines(text))
        BY <1>10, <1>13, <1>14, <1>15, FitConcat
    <2> QED BY <1>1, <2>1, LoadsNothing
<1>16. ASSUME TooLong(split, bytes) PROVE Loads(text, NoUsers)
    <2>1. split.rest = bytes /\ Unbroken(bytes) /\ Len(bytes) = Capacity
        BY <1>9, <1>16 DEF TooLong
    <2>2. bytes # <<>>
        BY <1>6, <1>8, TextFacts
    <2> DEFINE rest == AllLines(bytes \o more)
    <2>3. rest # <<>> /\ Len(rest[1]) >= Len(bytes)
        BY <1>5, <1>6, <2>1, <2>2, FirstLine
    <2>4. rest \in Seq(Text) /\ AllLines(text) = (L \o split.lines) \o rest
        BY <1>13, <2>1
    <2> HIDE DEF rest
    <2>5. 1 \in 1 .. Len(rest) /\ Len(rest[1]) \in Nat
        <3>1. 1 \in 1 .. Len(rest) /\ rest[1] \in Text
            BY <2>3, <2>4
        <3> QED BY <3>1, TextFacts
    <2>6. ~Fit(rest)
        BY <1>8, <2>1, <2>3, <2>5 DEF Fit
    <2>7. ~Fit(AllLines(text))
        BY <1>14, <2>4, <2>6, FitConcat
    <2> QED BY <1>1, <2>7, LoadsNothing
<1> QED BY <1>12, <1>15, <1>16 DEF split, bytes, result, chunk

\* At the end of the file what was read is what the file holds.
LEMMA EndLoaded ==
    ASSUME NEW text, NEW pos, NEW buf, NEW tab, Loading(text, pos, buf, tab), pos = Len(text)
    PROVE  LET result == IF buf = <<>> THEN tab ELSE LoadLine(tab, buf)
           IN  /\ result \in Tables
               /\ result.ok /\ result.users # NoUsers => Loads(text, result.users)
               /\ ~result.ok \/ result.users = NoUsers => Loads(text, NoUsers)
<1> DEFINE L == Split(text).lines
           result == IF buf = <<>> THEN tab ELSE LoadLine(tab, buf)
           all == AllLines(text)
<1>1. /\ text \in Text /\ tab \in Tables /\ tab.ok /\ buf = Split(text).rest /\ Len(buf) < Capacity
      /\ WellFormed(L) /\ Describes(L, tab.users) /\ Fit(L)
    <2>1. text \in Text
        BY DEF Loading
    <2>2. SubSeq(text, 1, pos) = text
        BY <2>1, WholeText
    <2> QED BY <2>1, <2>2 DEF Loading, Fit
<1>2. L \in Seq(Text) /\ buf \in Text
    BY <1>1, SplitType
<1>3. all = IF buf = <<>> THEN L ELSE Append(L, buf)
    BY <1>1 DEF AllLines
<1>4. all \in Seq(Text)
    BY <1>1, AllLinesType
<1> HIDE DEF L, all
<1>5. /\ result \in Tables /\ Fit(all)
      /\ result.ok <=> WellFormed(all)
      /\ result.ok => Describes(all, result.users)
    <2>1. CASE buf = <<>>
        BY <1>1, <1>3, <2>1
    <2>2. CASE buf # <<>>
        <3>1. /\ LoadLines(tab, <<buf>>) \in Tables
              /\ LoadLines(tab, <<buf>>).ok <=> WellFormed(L \o <<buf>>)
              /\ LoadLines(tab, <<buf>>).ok => Describes(L \o <<buf>>, LoadLines(tab, <<buf>>).users)
            <4>1. <<buf>> \in Seq(Text)
                BY <1>2
            <4> QED BY <1>1, <1>2, <4>1, LoadedLines
        <3>2. LoadLines(tab, <<buf>>) = LoadLine(tab, buf)
            <4>1. <<>> \in Seq(Text) /\ Append(<<>>, buf) = <<buf>>
                BY <1>2
            <4>2. LoadLines(tab, <<>>) = tab /\ LoadLines(tab, Append(<<>>, buf)) = LoadLine(LoadLines(tab, <<>>), buf)
                BY <1>1, <1>2, <4>1, LinesFold
            <4> QED BY <4>1, <4>2
        <3>3. all = L \o <<buf>> /\ <<buf>> \in Seq(Text)
            BY <1>2, <1>3, <2>2
        <3>4. Fit(<<buf>>)
            BY <1>1 DEF Fit
        <3>5. Fit(L \o <<buf>>)
            BY <1>1, <1>2, <3>3, <3>4, FitConcat
        <3>6. result = LoadLine(tab, buf)
            BY <2>2
        <3> HIDE DEF result
        <3> QED BY <3>1, <3>2, <3>3, <3>5, <3>6
    <2> QED BY <2>1, <2>2
<1> HIDE DEF result
<1>6. result.ok => /\ result.users \in UserTables
                   /\ result.users # NoUsers <=> UserLines(all) # {}
    <2> SUFFICES ASSUME result.ok PROVE /\ result.users \in UserTables
                                        /\ result.users # NoUsers <=> UserLines(all) # {}
        OBVIOUS
    <2>1. result.users \in UserTables /\ DOMAIN result.users = {NameAt(all, i) : i \in UserLines(all)}
        BY <1>5 DEF Describes
    <2>2. DOMAIN result.users = {} <=> UserLines(all) = {}
        BY <2>1
    <2>3. DOMAIN result.users = {} <=> result.users = NoUsers
        BY <2>1, NoUsersIs
    <2> QED BY <2>1, <2>2, <2>3
<1>7. ASSUME result.ok, result.users # NoUsers PROVE Loads(text, result.users)
    BY <1>1, <1>5, <1>6, <1>7, LoadsUsers DEF all
<1>8. ASSUME ~result.ok \/ result.users = NoUsers PROVE Loads(text, NoUsers)
    BY <1>1, <1>5, <1>6, <1>8, LoadsNothing DEF all
<1> QED BY <1>5, <1>7, <1>8 DEF result

-----------------------------------------------------------------------------
(* The inductive invariant                                                 *)

\* DeleteUser: a table without an entry.
RemovedFrom(tab, u) ==
    [tab EXCEPT !.users = [name \in DOMAIN tab.users \ {u} |-> tab.users[name]],
                !.admin_count = @ - One(u \in Admins(tab.users))]

\* Without an entry administrators are counted still.
LEMMA RemovedType ==
    ASSUME NEW tab \in Tables, NEW u \in DOMAIN tab.users
    PROVE  /\ RemovedFrom(tab, u) \in Tables
           /\ Admins(RemovedFrom(tab, u).users) = Admins(tab.users) \ {u}
<1> DEFINE new == [name \in DOMAIN tab.users \ {u} |-> tab.users[name]]
           count == tab.admin_count - One(u \in Admins(tab.users))
<1>1. /\ tab \in [ok : BOOLEAN, users : UserTables, admin_count : Nat]
      /\ IsFiniteSet(DOMAIN tab.users) /\ tab.admin_count = Cardinality(Admins(tab.users))
    BY DEF Tables, Counted
<1>2. RemovedFrom(tab, u) = [tab EXCEPT !.users = new, !.admin_count = count]
    BY DEF RemovedFrom
<1>3. DOMAIN tab.users \subseteq Fields /\ tab.users \in [DOMAIN tab.users -> UserData]
    BY <1>1, TableType
<1>4. DOMAIN new = DOMAIN tab.users \ {u} /\ \A v \in DOMAIN tab.users \ {u} : new[v] = tab.users[v]
    OBVIOUS
<1> HIDE DEF new
<1>5. new \in UserTables
    <2>1. DOMAIN new \subseteq Fields
        BY <1>3, <1>4
    <2>2. new \in [DOMAIN new -> UserData]
        <3>1. \A v \in DOMAIN new : new[v] \in UserData
            BY <1>3, <1>4
        <3>2. new = [v \in DOMAIN new |-> new[v]]
            BY <1>4 DEF new
        <3> QED BY <3>1, <3>2
    <2> QED BY <2>1, <2>2, TableType
<1>6. IsFiniteSet(DOMAIN new)
    BY <1>1, <1>4, FS_Subset
<1>7. Admins(new) = Admins(tab.users) \ {u}
    BY <1>4 DEF Admins
<1>8. IsFiniteSet(Admins(tab.users)) /\ Cardinality(Admins(tab.users)) \in Nat
    BY <1>1, AdminsType
<1>9. IsFiniteSet(Admins(new)) /\ Cardinality(Admins(new)) \in Nat
    BY <1>6, AdminsType
<1>10. count = Cardinality(Admins(new))
    <2>1. CASE u \in Admins(tab.users)
        <3>1. Cardinality(Admins(tab.users) \ {u}) = Cardinality(Admins(tab.users)) - 1
            BY <1>8, <2>1, FS_RemoveElement
        <3> QED BY <1>1, <1>7, <2>1, <3>1 DEF One
    <2>2. CASE u \notin Admins(tab.users)
        <3>1. Admins(new) = Admins(tab.users)
            BY <1>7, <2>2
        <3> QED BY <1>1, <1>8, <2>2, <3>1 DEF One
    <2> QED BY <2>1, <2>2
<1> HIDE DEF count
<1>11. RemovedFrom(tab, u) \in [ok : BOOLEAN, users : UserTables, admin_count : Nat]
    BY <1>1, <1>2, <1>5, <1>9, <1>10
<1>12. RemovedFrom(tab, u).users = new /\ RemovedFrom(tab, u).admin_count = count
    BY <1>1, <1>2
<1> QED BY <1>6, <1>7, <1>10, <1>11, <1>12 DEF Tables, Counted

\* Somebody remains who can log in, if it is not the only one who goes.
LEMMA AdminRemains ==
    ASSUME NEW tab \in Tables, NEW u, Admins(tab.users) # {},
           ~(u \in Admins(tab.users) /\ tab.admin_count = 1)
    PROVE  Admins(tab.users) \ {u} # {}
<1>1. IsFiniteSet(DOMAIN tab.users) /\ tab.admin_count = Cardinality(Admins(tab.users))
    BY DEF Tables, Counted
<1> SUFFICES ASSUME Admins(tab.users) \ {u} = {} PROVE FALSE
    OBVIOUS
<1>2. Admins(tab.users) = {u}
    OBVIOUS
<1>3. Cardinality({u}) = 1
    BY FS_Singleton
<1> QED BY <1>1, <1>2, <1>3

\* Where a file may come from.
Origins == [users : UserTables, by : {"hand", "save", "part"}]

\* Administrators are counted in every phase.
TableInv == table \in Tables /\ phase \in {"stopped", "reading", "loaded", "running", "saving"}

\* While the file is read, Loading holds.
ReadingInv == phase = "reading" => Loading(file, position, buffer, table)

\* After that, what was loaded is what the format says, or nothing.
LoadedInv ==
    phase = "loaded" =>
        /\ cause = "io" => table.users = NoUsers
        /\ cause # "io" => Loads(file, table.users) /\ file \in Text

\* While it is written, what was written holds the users saved so far.
SavingInv ==
    phase = "saving" =>
        /\ origin.users = table.users /\ origin.by = "part" /\ written \in Text
        /\ Simple(origin.users) =>
              \E order : /\ Lists(origin.users, order) /\ Saved(written, origin.users, order)
                         /\ \A u \in DOMAIN origin.users :
                               u \in unsaved <=> \A i \in 1 .. Len(order) : order[i] # u

\* A file a save left holds all of the users, or some of them.
FileInv ==
    /\ file = NoFile \/ file \in Text
    /\ origin \in Origins
    /\ origin.by # "hand" => file \in Text
    /\ origin.by = "save" /\ Simple(origin.users) =>
          \E order : /\ Lists(origin.users, order) /\ Whole(AllLines(file), origin.users, order)
                     /\ \A u \in DOMAIN origin.users : \E i \in 1 .. Len(order) : order[i] = u
    /\ origin.by = "part" /\ Simple(origin.users) =>
          \E order : Lists(origin.users, order) /\ Cut(AllLines(file), origin.users, order)

\* The rest of the types, and what the variables hold in the other phases.
RestInv ==
    /\ unsaved \subseteq DOMAIN table.users /\ (phase # "saving" => unsaved = {})
    /\ phase # "reading" => buffer = <<>>
    /\ position \in Nat /\ cause \in {"none", "end", "line", "io"}
    /\ requests_left \in 0 .. MaxRequests /\ starts_left \in 0 .. MaxStarts

\* The inductive invariant.
IInv == TableInv /\ ReadingInv /\ LoadedInv /\ SomeoneCanLogIn /\ SavingInv /\ FileInv /\ RestInv

\* Init establishes the invariant.
LEMMA InitInv == Init => IInv
<1> SUFFICES ASSUME Init PROVE IInv
    OBVIOUS
<1>1. table \in Tables /\ phase = "stopped" /\ NoUsers \in UserTables
    BY EmptyTableType DEF Init, Tables, EmptyTable
<1>2. file = NoFile \/ file \in Text
    BY UsersLifecycleAssumption DEF Init
<1>3. origin \in Origins /\ origin.by = "hand"
    BY <1>1 DEF Init, HandWritten, Origins
<1>4. FileInv
    BY <1>2, <1>3 DEF FileInv
<1>5. RestInv
    BY UsersLifecycleAssumption DEF Init, RestInv
<1> QED BY <1>1, <1>4, <1>5 DEF IInv, TableInv, ReadingInv, LoadedInv, SomeoneCanLogIn, SavingInv

\* Every step leaves a table whose administrators are counted.
LEMMA TableStep == IInv /\ [Next]_vars => TableInv'
<1> SUFFICES ASSUME IInv, [Next]_vars PROVE TableInv'
    OBVIOUS
<1> USE DEF IInv, TableInv
<1>1. EmptyTable \in Tables
    BY EmptyTableType
<1>2. CASE Open
    BY <1>1, <1>2 DEF Open
<1>3. CASE ReadChunk
    <2>1. PICK n \in 1 .. (IF Room < Remaining THEN Room ELSE Remaining) :
             LET bytes == buffer \o SubSeq(file, position + 1, position + n)
                 split == Split(bytes)
                 result == LoadLines(table, split.lines)
             IN  \/ result.ok /\ ~TooLong(split, bytes) /\ table' = result /\ phase' = phase
                 \/ table' = EmptyTable /\ phase' = "loaded"
        BY <1>3 DEF ReadChunk, Give
    <2> DEFINE chunk == SubSeq(file, position + 1, position + n)
    <2>2. file \in Text /\ buffer \in Text /\ position \in 0 .. Len(file) /\ Len(file) \in Nat /\ Len(buffer) \in Nat
        <3>1. Loading(file, position, buffer, table)
            BY <1>3 DEF ReadChunk, ReadingInv
        <3>2. file \in Text /\ position \in 0 .. Len(file) /\ buffer = Split(SubSeq(file, 1, position)).rest
            BY <3>1 DEF Loading
        <3>3. buffer \in Text
            BY <3>2, PrefixText, SplitType
        <3> QED BY <3>2, <3>3, TextFacts
    <2>3. chunk \in Text
        <3>1. n \in Nat /\ position + n <= Len(file) /\ position \in Nat
            BY <2>2, UsersLifecycleAssumption DEF Room, Remaining
        <3>2. \A i \in position + 1 .. position + n : file[i] \in Chars
            BY <2>2, <3>1, TextFacts
        <3> QED BY <3>1, <3>2, SubSeqProperties DEF Text
    <2>4. buffer \o chunk \in Text
        BY <2>2, <2>3, ConcatText
    <2> DEFINE lines == Split(buffer \o chunk).lines
    <2>5. lines \in Seq(Text)
        BY <2>4, SplitType
    <2>6. LoadLines(table, lines) \in Tables
        <3> HIDE DEF lines
        <3> QED BY <2>5, LinesFold
    <2> QED BY <1>1, <2>1, <2>6
<1>4. CASE EndRead
    <2>1. buffer \in Text
        <3>1. Loading(file, position, buffer, table)
            BY <1>4 DEF EndRead, ReadingInv
        <3>2. file \in Text /\ position \in 0 .. Len(file) /\ buffer = Split(SubSeq(file, 1, position)).rest
            BY <3>1 DEF Loading
        <3> QED BY <3>2, PrefixText, SplitType
    <2>2. LoadLine(table, buffer) \in Tables
        BY <2>1, LoadLineType
    <2> QED BY <1>1, <1>4, <2>2 DEF EndRead, Give
<1>5. CASE ReadError
    BY <1>1, <1>5 DEF ReadError, Give
<1>6. CASE Start
    <2>1. table' \in Tables
        BY <1>6, WithArgumentsType, WithDefaultType DEF Start
    <2> QED BY <1>6, <2>1 DEF Start
<1>7. CASE Abort
    BY <1>1, <1>7 DEF Abort
<1>8. CASE AddUser
    <2>1. PICK u \in Usernames, password \in Passwords, role \in DOMAIN RoleChars :
             table' = Replaced(table, u, [password |-> password, role |-> role])
        BY <1>8 DEF AddUser
    <2>2. u \in Fields /\ [password |-> password, role |-> role] \in UserData
        BY UsersLifecycleAssumption DEF UserData
    <2>3. table' \in Tables
        BY <2>1, <2>2, ReplacedType
    <2> QED BY <1>8, <2>3 DEF AddUser, Request
<1>9. CASE UpdateUser
    <2>0. PICK u \in DOMAIN table.users, role \in DOMAIN RoleChars :
             \E password \in Passwords \cup {table.users[u].password} :
                table' = Replaced(table, u, [password |-> password, role |-> role])
        BY <1>9 DEF UpdateUser
    <2>1. PICK password \in Passwords \cup {table.users[u].password} :
             table' = Replaced(table, u, [password |-> password, role |-> role])
        BY <2>0
    <2>2. u \in Fields /\ table.users[u] \in UserData
        BY TableType DEF Tables
    <2>3. [password |-> password, role |-> role] \in UserData
        BY <2>2, UsersLifecycleAssumption DEF UserData
    <2>4. table' \in Tables
        BY <2>1, <2>2, <2>3, ReplacedType
    <2> QED BY <1>9, <2>4 DEF UpdateUser, Request
<1>10. CASE DeleteUser
    <2>1. PICK u \in DOMAIN table.users : table' = RemovedFrom(table, u)
        BY <1>10 DEF DeleteUser, RemovedFrom
    <2>2. table' \in Tables
        BY <2>1, RemovedType
    <2> QED BY <1>10, <2>2 DEF DeleteUser, Request
<1>11. CASE Stop
    BY <1>11 DEF Stop
<1>12. CASE SaveUser
    BY <1>12 DEF SaveUser
<1>13. CASE EndSave
    BY <1>1, <1>13 DEF EndSave
<1>14. CASE Die
    BY <1>1, <1>14 DEF Die
<1>15. CASE UNCHANGED vars
    BY <1>15 DEF vars
<1> QED BY <1>2, <1>3, <1>4, <1>5, <1>6, <1>7, <1>8, <1>9, <1>10, <1>11, <1>12, <1>13, <1>14, <1>15 DEF Next

-----------------------------------------------------------------------------
(* Every step keeps it                                                     *)

\* Only Open and ReadChunk lead to reading; both leave a start that was read right.
LEMMA ReadingStep == IInv /\ [Next]_vars => ReadingInv'
<1> SUFFICES ASSUME IInv, [Next]_vars, phase' = "reading"
             PROVE  Loading(file', position', buffer', table')
    BY DEF ReadingInv
<1>1. CASE Open
    <2>1. file' \in Text /\ position' = 0 /\ buffer' = <<>> /\ table' = EmptyTable
        BY <1>1 DEF Open, IInv, FileInv, saveVars
    <2> QED BY <2>1, NothingLoading
<1>2. CASE ReadChunk
    <2>0. phase = "reading"
        BY <1>2 DEF ReadChunk
    <2>1. PICK n \in 1 .. (IF Room < Remaining THEN Room ELSE Remaining) :
             LET bytes == buffer \o SubSeq(file, position + 1, position + n)
                 split == Split(bytes)
                 result == LoadLines(table, split.lines)
             IN  /\ position' = position + n
                 /\ \/ /\ result.ok /\ ~TooLong(split, bytes) /\ table' = result /\ buffer' = split.rest
                    \/ phase' = "loaded"
        BY <1>2 DEF ReadChunk, Give
    <2>2. Loading(file, position, buffer, table)
        BY <2>0 DEF IInv, ReadingInv
    <2>3. n \in 1 .. Len(file) - position /\ n <= Capacity - Len(buffer)
        <3>1. file \in Text /\ position \in 0 .. Len(file) /\ Len(file) \in Nat /\ Len(buffer) \in Nat
            <4>1. file \in Text /\ position \in 0 .. Len(file) /\ buffer = Split(SubSeq(file, 1, position)).rest
                BY <2>2 DEF Loading
            <4>2. buffer \in Text
                BY <4>1, PrefixText, SplitType
            <4> QED BY <4>1, <4>2, TextFacts
        <3> QED BY <3>1, UsersLifecycleAssumption DEF Room, Remaining
    <2> DEFINE bytes == buffer \o SubSeq(file, position + 1, position + n)
               split == Split(bytes)
               result == LoadLines(table, split.lines)
    <2>4. result.ok /\ ~TooLong(split, bytes) => Loading(file, position + n, split.rest, result)
        BY <2>2, <2>3, ChunkLoaded
    <2>5. /\ position' = position + n /\ result.ok /\ ~TooLong(split, bytes)
          /\ table' = result /\ buffer' = split.rest
        BY <2>1
    <2>6. file' = file
        BY <1>2 DEF ReadChunk
    <2> HIDE DEF bytes, split, result
    <2> QED BY <2>4, <2>5, <2>6
<1>3. CASE UNCHANGED vars
    <2>1. phase = "reading"
        BY <1>3 DEF vars
    <2> QED BY <1>3, <2>1 DEF vars, loadVars, IInv, ReadingInv
<1>4. ~EndRead /\ ~ReadError /\ ~Start /\ ~Abort /\ ~Stop /\ ~EndSave /\ ~Die
    BY DEF EndRead, ReadError, Start, Abort, Stop, EndSave, Die, Give
<1>5. ~AddUser /\ ~UpdateUser /\ ~DeleteUser /\ ~SaveUser
    BY DEF AddUser, UpdateUser, DeleteUser, Request, SaveUser
<1> QED BY <1>1, <1>2, <1>3, <1>4, <1>5 DEF Next

\* However loading ends, it ends with what the format says of the file.
LEMMA LoadedStep == IInv /\ [Next]_vars => LoadedInv'
<1> SUFFICES ASSUME IInv, [Next]_vars, phase' = "loaded"
             PROVE  /\ cause' = "io" => table'.users = NoUsers
                    /\ cause' # "io" => Loads(file', table'.users) /\ file' \in Text
    BY DEF LoadedInv
<1>0. EmptyTable.users = NoUsers
    BY EmptyTableType
<1>1. CASE Open
    BY <1>0, <1>1 DEF Open
<1>2. CASE ReadChunk
    <2>0. phase = "reading" /\ file' = file
        BY <1>2 DEF ReadChunk
    <2>1. PICK n \in 1 .. (IF Room < Remaining THEN Room ELSE Remaining) :
             LET bytes == buffer \o SubSeq(file, position + 1, position + n)
                 split == Split(bytes)
                 result == LoadLines(table, split.lines)
             IN  \/ phase' = phase
                 \/ (~result.ok \/ TooLong(split, bytes)) /\ table' = EmptyTable /\ cause' = "line"
        BY <1>2 DEF ReadChunk, Give
    <2>2. Loading(file, position, buffer, table)
        BY <2>0 DEF IInv, ReadingInv
    <2>3. n \in 1 .. Len(file) - position /\ n <= Capacity - Len(buffer) /\ file \in Text
        <3>1. file \in Text /\ position \in 0 .. Len(file) /\ Len(file) \in Nat /\ Len(buffer) \in Nat
            <4>1. file \in Text /\ position \in 0 .. Len(file) /\ buffer = Split(SubSeq(file, 1, position)).rest
                BY <2>2 DEF Loading
            <4>2. buffer \in Text
                BY <4>1, PrefixText, SplitType
            <4> QED BY <4>1, <4>2, TextFacts
        <3> QED BY <3>1, UsersLifecycleAssumption DEF Room, Remaining
    <2> DEFINE bytes == buffer \o SubSeq(file, position + 1, position + n)
               split == Split(bytes)
               result == LoadLines(table, split.lines)
    <2>4. ~result.ok \/ TooLong(split, bytes) => Loads(file, NoUsers)
        BY <2>2, <2>3, ChunkLoaded
    <2>5. (~result.ok \/ TooLong(split, bytes)) /\ table' = EmptyTable /\ cause' = "line"
        BY <2>0, <2>1
    <2> HIDE DEF bytes, split, result
    <2> QED BY <1>0, <2>0, <2>3, <2>4, <2>5
<1>3. CASE EndRead
    <2>0. phase = "reading" /\ file' = file /\ (Remaining = 0 \/ Room = 0)
        BY <1>3 DEF EndRead
    <2>1. Loading(file, position, buffer, table)
        BY <2>0 DEF IInv, ReadingInv
    <2>2. position = Len(file) /\ file \in Text
        <3>1. /\ file \in Text /\ position \in 0 .. Len(file)
              /\ buffer = Split(SubSeq(file, 1, position)).rest /\ Len(buffer) < Capacity
            BY <2>1 DEF Loading
        <3>2. buffer \in Text
            BY <3>1, PrefixText, SplitType
        <3>3. Len(file) \in Nat /\ Len(buffer) \in Nat
            BY <3>1, <3>2, TextFacts
        <3> QED BY <2>0, <3>1, <3>3, UsersLifecycleAssumption DEF Room, Remaining
    <2> DEFINE result == IF buffer = <<>> THEN table ELSE LoadLine(table, buffer)
    <2>3. /\ result.ok /\ result.users # NoUsers => Loads(file, result.users)
          /\ ~result.ok \/ result.users = NoUsers => Loads(file, NoUsers)
        BY <2>1, <2>2, EndLoaded
    <2>4. \/ result.ok /\ result.users # NoUsers /\ cause' = "end" /\ table' = result
          \/ (~result.ok \/ result.users = NoUsers) /\ cause' = "line" /\ table' = EmptyTable
        BY <1>3 DEF EndRead, Give
    <2> HIDE DEF result
    <2> QED BY <1>0, <2>0, <2>2, <2>3, <2>4
<1>4. CASE ReadError
    BY <1>0, <1>4 DEF ReadError, Give
<1>5. CASE UNCHANGED vars
    <2>1. phase = "loaded"
        BY <1>5 DEF vars
    <2> QED BY <1>5, <2>1 DEF vars, loadVars, IInv, LoadedInv
<1>6. ~Start /\ ~Abort /\ ~Stop /\ ~EndSave /\ ~Die
    BY DEF Start, Abort, Stop, EndSave, Die
<1>7. ~AddUser /\ ~UpdateUser /\ ~DeleteUser /\ ~SaveUser
    BY DEF AddUser, UpdateUser, DeleteUser, Request, SaveUser
<1> QED BY <1>1, <1>2, <1>3, <1>4, <1>5, <1>6, <1>7 DEF Next

\* A server starts with somebody who can log in, and no request removes the last one.
LEMMA LogInStep == IInv /\ [Next]_vars => SomeoneCanLogIn'
<1> SUFFICES ASSUME IInv, [Next]_vars, phase' = "running"
             PROVE  Admins(table'.users) # {} \/ DefaultName \in DOMAIN table'.users
    BY DEF SomeoneCanLogIn
<1>0. table \in Tables /\ table.users \in UserTables /\ IsFiniteSet(DOMAIN table.users)
    BY DEF IInv, TableInv, Tables, Counted
<1>1. CASE Start
    BY <1>0, <1>1, WithArgumentsType, WithDefaultType DEF Start
<1>2. CASE AddUser
    <2>1. PICK u \in Usernames, password \in Passwords, role \in DOMAIN RoleChars :
             u \notin DOMAIN table.users /\ table' = Replaced(table, u, [password |-> password, role |-> role])
        BY <1>2 DEF AddUser
    <2> DEFINE data == [password |-> password, role |-> role]
    <2>2. u \in Fields /\ data \in UserData
        BY UsersLifecycleAssumption DEF UserData
    <2> HIDE DEF data
    <2>3. table'.users = With(table.users, u, data)
        BY <1>0, <2>1, <2>2, ReplacedType DEF data
    <2>4. Admins(table.users) # {} /\ Admins(table.users) \subseteq DOMAIN table.users
        BY <1>2 DEF AddUser, Request, Admins
    <2>5. Admins(With(table.users, u, data)) =
             IF data.role = "Admin" THEN Admins(table.users) \cup {u} ELSE Admins(table.users) \ {u}
        BY <1>0, <2>2, WithType
    <2> QED BY <2>1, <2>3, <2>4, <2>5
<1>3. CASE UpdateUser
    <2>0. PICK u \in DOMAIN table.users, role \in DOMAIN RoleChars :
             /\ OnlyAdmin(u) => role = "Admin"
             /\ \E password \in Passwords \cup {table.users[u].password} :
                   table' = Replaced(table, u, [password |-> password, role |-> role])
        BY <1>3 DEF UpdateUser
    <2>1. PICK password \in Passwords \cup {table.users[u].password} :
             table' = Replaced(table, u, [password |-> password, role |-> role])
        BY <2>0
    <2> DEFINE data == [password |-> password, role |-> role]
    <2>2. u \in Fields /\ table.users[u] \in UserData
        BY <1>0, TableType
    <2>3. data \in UserData /\ data.role = role
        BY <2>2, UsersLifecycleAssumption DEF UserData
    <2> HIDE DEF data
    <2>4. table'.users = With(table.users, u, data)
        BY <1>0, <2>1, <2>2, <2>3, ReplacedType DEF data
    <2>5. Admins(With(table.users, u, data)) =
             IF data.role = "Admin" THEN Admins(table.users) \cup {u} ELSE Admins(table.users) \ {u}
        BY <1>0, <2>2, <2>3, WithType
    <2>6. Admins(table.users) # {}
        BY <1>3 DEF UpdateUser, Request
    <2>7. role # "Admin" => Admins(table.users) \ {u} # {}
        BY <1>0, <2>0, <2>6, AdminRemains DEF OnlyAdmin
    <2> QED BY <2>3, <2>4, <2>5, <2>7
<1>4. CASE DeleteUser
    <2>1. PICK u \in DOMAIN table.users : ~OnlyAdmin(u) /\ table' = RemovedFrom(table, u)
        BY <1>4 DEF DeleteUser, RemovedFrom
    <2>2. Admins(table.users) # {}
        BY <1>4 DEF DeleteUser, Request
    <2>3. Admins(table.users) \ {u} # {}
        BY <1>0, <2>1, <2>2, AdminRemains DEF OnlyAdmin
    <2> QED BY <1>0, <2>1, <2>3, RemovedType
<1>5. CASE UNCHANGED vars
    <2>1. phase = "running"
        BY <1>5 DEF vars
    <2> QED BY <1>5, <2>1 DEF vars, IInv, SomeoneCanLogIn
<1>6. ~Open /\ ~Abort /\ ~Stop /\ ~SaveUser /\ ~EndSave /\ ~Die
    BY DEF Open, Abort, Stop, SaveUser, EndSave, Die
<1>7. ~ReadChunk /\ ~EndRead /\ ~ReadError
    BY DEF ReadChunk, EndRead, ReadError, Give
<1> QED BY <1>1, <1>2, <1>3, <1>4, <1>5, <1>6, <1>7 DEF Next

\* Stop starts a save, and each SaveUser adds a user to it.
LEMMA SavingStep == IInv /\ [Next]_vars => SavingInv'
<1> SUFFICES ASSUME IInv, [Next]_vars, phase' = "saving"
             PROVE  /\ origin'.users = table'.users /\ origin'.by = "part" /\ written' \in Text
                    /\ Simple(origin'.users) =>
                          \E order : /\ Lists(origin'.users, order) /\ Saved(written', origin'.users, order)
                                     /\ \A u \in DOMAIN origin'.users :
                                           u \in unsaved' <=> \A i \in 1 .. Len(order) : order[i] # u
    BY DEF SavingInv
<1>1. CASE Stop
    <2>1. origin' = [users |-> table.users, by |-> "part"] /\ table' = table /\ written' = <<>>
          /\ unsaved' = DOMAIN table.users
        BY <1>1 DEF Stop
    <2>2. origin'.users = table.users /\ origin'.by = "part"
        BY <2>1
    <2>3. Lists(origin'.users, <<>>) /\ Saved(written', origin'.users, <<>>)
        BY <2>1, NothingSaved
    <2>4. \A u \in DOMAIN origin'.users : u \in unsaved' <=> \A i \in 1 .. Len(<<>>) : <<>>[i] # u
        BY <2>1, <2>2
    <2> QED BY <2>1, <2>2, <2>3, <2>4, NoText
<1>2. CASE SaveUser
    <2>0. phase = "saving" /\ table' = table /\ origin' = origin
        BY <1>2 DEF SaveUser
    <2>1. PICK u \in unsaved :
             /\ u \in Admins(table.users) \/ unsaved \cap Admins(table.users) = {}
             /\ written' = written \o (IF unsaved = DOMAIN table.users THEN <<>> ELSE <<"\n">>)
                                   \o SavedLine(table.users, u)
             /\ unsaved' = unsaved \ {u}
        BY <1>2 DEF SaveUser
    <2> DEFINE users == table.users
    <2>2. /\ origin.users = users /\ origin.by = "part" /\ written \in Text
          /\ Simple(users) => \E order : /\ Lists(users, order) /\ Saved(written, users, order)
                                         /\ \A v \in DOMAIN users :
                                               v \in unsaved <=> \A i \in 1 .. Len(order) : order[i] # v
          /\ users \in UserTables /\ unsaved \subseteq DOMAIN users
        BY <2>0 DEF IInv, SavingInv, TableInv, Tables, RestInv
    <2>3. u \in DOMAIN users
        BY <2>1, <2>2
    <2> HIDE DEF users
    <2>4. written' \in Text
        <3> DEFINE sep == IF unsaved = DOMAIN users THEN <<>> ELSE <<"\n">>
        <3>1. sep \in Text
            BY CharFacts DEF Text
        <3>2. SavedLine(users, u) \in Text
            <4>1. u \in Fields /\ users[u] \in UserData
                BY <2>2, <2>3, TableType
            <4>2. u \in Text /\ users[u].password \in Text /\ RoleChars[users[u].role] \in Marks
                BY <4>1 DEF Fields, UserData, RoleChars, Marks
            <4>3. Line(RoleChars[users[u].role], u, users[u].password) \in Text
                BY <4>2, LineShape
            <4> QED BY <4>3 DEF SavedLine, Line
        <3>3. written \o sep \in Text
            BY <2>2, <3>1, ConcatText
        <3>4. written' = written \o sep \o SavedLine(users, u)
            BY <2>1 DEF users
        <3> HIDE DEF sep
        <3> QED BY <3>2, <3>3, <3>4, ConcatText
    <2>5. ASSUME Simple(users)
          PROVE  \E order : /\ Lists(users, order) /\ Saved(written', users, order)
                            /\ \A v \in DOMAIN users :
                                  v \in unsaved' <=> \A i \in 1 .. Len(order) : order[i] # v
        <3>1. PICK order : /\ Lists(users, order) /\ Saved(written, users, order)
                           /\ \A v \in DOMAIN users :
                                 v \in unsaved <=> \A i \in 1 .. Len(order) : order[i] # v
            BY <2>2, <2>5
        <3>2. order \in Seq(DOMAIN users)
            BY <3>1 DEF Lists
        <3>3. unsaved = DOMAIN users <=> order = <<>>
            <4>1. ASSUME order = <<>> PROVE unsaved = DOMAIN users
                <5>1. \A v \in DOMAIN users : v \in unsaved
                    BY <3>1, <4>1
                <5> QED BY <2>2, <5>1
            <4>2. ASSUME order # <<>> PROVE unsaved # DOMAIN users
                <5>1. 1 \in 1 .. Len(order) /\ order[1] \in DOMAIN users
                    BY <3>2, <4>2
                <5> QED BY <3>1, <5>1
            <4> QED BY <4>1, <4>2
        <3>4. \A i \in 1 .. Len(order) : order[i] # u
            BY <2>1, <2>3, <3>1
        <3>5. u \in Admins(users) \/ \A a \in Admins(users) : \E i \in 1 .. Len(order) : order[i] = a
            <4>1. u \in Admins(users) \/ unsaved \cap Admins(users) = {}
                BY <2>1 DEF users
            <4>2. Admins(users) \subseteq DOMAIN users
                BY DEF Admins
            <4> QED BY <3>1, <4>1, <4>2
        <3>6. Lists(users, Append(order, u))
            BY <2>3, <3>1, <3>4, <3>5, ListedOneMore
        <3>7. Saved(written \o (IF order = <<>> THEN <<>> ELSE <<"\n">>) \o SavedLine(users, u), users, Append(order, u))
            BY <2>2, <2>3, <2>5, <3>1, SavedOneMore
        <3>8. written' = written \o (IF order = <<>> THEN <<>> ELSE <<"\n">>) \o SavedLine(users, u)
            BY <2>1, <3>3 DEF users
        <3>9. ASSUME NEW v \in DOMAIN users
              PROVE  v \in unsaved' <=> \A i \in 1 .. Len(Append(order, u)) : Append(order, u)[i] # v
            <4>1. /\ Len(Append(order, u)) = Len(order) + 1 /\ Len(order) \in Nat
                  /\ Append(order, u)[Len(order) + 1] = u
                  /\ \A i \in 1 .. Len(order) : Append(order, u)[i] = order[i] /\ i \in 1 .. Len(order) + 1
                BY <2>3, <3>2
            <4>2. \A i \in 1 .. Len(order) + 1 : i \in 1 .. Len(order) \/ i = Len(order) + 1
                BY <4>1
            <4>3. Len(order) + 1 \in 1 .. Len(order) + 1
                BY <4>1
            <4>4. v \in unsaved <=> \A i \in 1 .. Len(order) : order[i] # v
                BY <3>1
            <4>5. v \in unsaved' <=> v \in unsaved /\ v # u
                BY <2>1
            <4>6. (\A i \in 1 .. Len(Append(order, u)) : Append(order, u)[i] # v)
                     <=> (\A i \in 1 .. Len(order) : order[i] # v) /\ v # u
                BY <4>1, <4>2, <4>3
            <4> QED BY <4>4, <4>5, <4>6
        <3> QED BY <3>6, <3>7, <3>8, <3>9
    <2> QED BY <2>0, <2>2, <2>4, <2>5 DEF users
<1>3. CASE UNCHANGED vars
    <2>1. phase = "saving"
        BY <1>3 DEF vars
    <2> QED BY <1>3, <2>1 DEF vars, saveVars, IInv, SavingInv
<1>4. ~Open /\ ~Start /\ ~Abort /\ ~EndSave /\ ~Die
    BY DEF Open, Start, Abort, EndSave, Die
<1>5. ~ReadChunk /\ ~EndRead /\ ~ReadError
    BY DEF ReadChunk, EndRead, ReadError, Give
<1>6. ~AddUser /\ ~UpdateUser /\ ~DeleteUser
    BY DEF AddUser, UpdateUser, DeleteUser, Request
<1> QED BY <1>1, <1>2, <1>3, <1>4, <1>5, <1>6 DEF Next

\* Stop, EndSave and Die alone touch the file.
LEMMA FileStep == IInv /\ [Next]_vars => FileInv'
<1> SUFFICES ASSUME IInv, [Next]_vars PROVE FileInv'
    OBVIOUS
<1>0. FileInv
    BY DEF IInv
<1>1. CASE UNCHANGED <<file, origin>>
    BY <1>0, <1>1 DEF FileInv
<1>2. CASE Stop
    <2>1. origin' = [users |-> table.users, by |-> "part"] /\ file' = <<>>
        BY <1>2 DEF Stop
    <2>2. origin' \in Origins /\ origin'.by = "part"
        BY <2>1 DEF Origins, IInv, TableInv, Tables
    <2>3. Lists(origin'.users, <<>>) /\ Saved(<<>>, origin'.users, <<>>)
        BY NothingSaved
    <2>4. Cut(AllLines(file'), origin'.users, <<>>)
        <3>1. 0 \in 0 .. Len(<<>>) /\ SubSeq(<<>>, 1, 0) = <<>>
            OBVIOUS
        <3> QED BY <2>1, <2>3, <3>1 DEF Saved
    <2> QED BY <2>1, <2>2, <2>3, <2>4, NoText DEF FileInv
<1>3. CASE EndSave
    <2>1. phase = "saving" /\ unsaved = {} /\ file' = written /\ origin' = [origin EXCEPT !.by = "save"]
        BY <1>3 DEF EndSave
    <2>2. origin' \in Origins /\ origin'.by = "save" /\ origin'.users = origin.users
        BY <1>0, <2>1 DEF Origins, FileInv
    <2>3. SavingInv
        BY DEF IInv
    <2>4. Simple(origin.users) =>
             \E order : /\ Lists(origin.users, order) /\ Whole(AllLines(file'), origin.users, order)
                        /\ \A u \in DOMAIN origin.users : \E i \in 1 .. Len(order) : order[i] = u
        <3> SUFFICES ASSUME Simple(origin.users)
                     PROVE  \E order : /\ Lists(origin.users, order) /\ Whole(AllLines(file'), origin.users, order)
                                       /\ \A u \in DOMAIN origin.users : \E i \in 1 .. Len(order) : order[i] = u
            OBVIOUS
        <3>1. PICK order : /\ Lists(origin.users, order) /\ Saved(written, origin.users, order)
                           /\ \A u \in DOMAIN origin.users :
                                 u \in unsaved <=> \A i \in 1 .. Len(order) : order[i] # u
            BY <2>1, <2>3 DEF SavingInv
        <3>2. Whole(AllLines(file'), origin.users, order)
            BY <2>1, <3>1 DEF Saved
        <3>3. \A u \in DOMAIN origin.users : \E i \in 1 .. Len(order) : order[i] = u
            BY <2>1, <3>1
        <3> QED BY <3>1, <3>2, <3>3
    <2>5. file' \in Text
        BY <2>1, <2>3 DEF SavingInv
    <2> QED BY <2>2, <2>4, <2>5 DEF FileInv
<1>4. CASE Die /\ phase = "saving"
    <2>1. PICK n \in 0 .. Len(written) : file' = SubSeq(written, 1, n)
        BY <1>4 DEF Die
    <2>2. origin' = origin /\ origin.by = "part" /\ written \in Text
        BY <1>4 DEF Die, IInv, SavingInv
    <2>3. file' \in Text
        BY <2>1, <2>2, PrefixText
    <2>4. Simple(origin.users) =>
             \E order : Lists(origin.users, order) /\ Cut(AllLines(file'), origin.users, order)
        <3> SUFFICES ASSUME Simple(origin.users)
                     PROVE  \E order : Lists(origin.users, order) /\ Cut(AllLines(file'), origin.users, order)
            OBVIOUS
        <3>1. PICK order : Lists(origin.users, order) /\ Saved(written, origin.users, order)
            BY <1>4 DEF IInv, SavingInv
        <3>2. Cut(AllLines(file'), origin.users, order)
            BY <2>1, <3>1 DEF Saved
        <3> QED BY <3>1, <3>2
    <2> QED BY <1>0, <2>2, <2>3, <2>4 DEF FileInv
<1>5. Open \/ ReadChunk \/ EndRead \/ ReadError \/ Start \/ Abort => UNCHANGED <<file, origin>>
    BY DEF Open, ReadChunk, EndRead, ReadError, Start, Abort, saveVars
<1>6. AddUser \/ UpdateUser \/ DeleteUser \/ SaveUser => UNCHANGED <<file, origin>>
    BY DEF AddUser, UpdateUser, DeleteUser, Request, saveVars, SaveUser
<1>7. Die /\ phase # "saving" => UNCHANGED <<file, origin>>
    BY DEF Die
<1>8. UNCHANGED vars => UNCHANGED <<file, origin>>
    BY DEF vars, saveVars
<1> QED BY <1>1, <1>2, <1>3, <1>4, <1>5, <1>6, <1>7, <1>8 DEF Next

\* The rest of the invariant.
LEMMA RestStep == IInv /\ [Next]_vars => RestInv'
<1> SUFFICES ASSUME IInv, [Next]_vars PROVE RestInv'
    OBVIOUS
<1>0. RestInv
    BY DEF IInv
<1> USE UsersLifecycleAssumption
<1>1. (position \in Nat /\ cause \in {"none", "end", "line", "io"})'
    <2>1. CASE Open
        BY <1>0, <2>1 DEF Open, RestInv
    <2>2. CASE ReadChunk
        <3>1. PICK n \in 1 .. (IF Room < Remaining THEN Room ELSE Remaining) : position' = position + n
            BY <2>2 DEF ReadChunk
        <3>2. position + n \in Nat
            BY <1>0 DEF RestInv
        <3>3. cause' \in {cause, "line"}
            BY <2>2 DEF ReadChunk, Give
        <3> QED BY <1>0, <3>1, <3>2, <3>3 DEF RestInv
    <2>3. CASE EndRead
        BY <1>0, <2>3 DEF EndRead, Give, RestInv
    <2>4. CASE ReadError
        BY <1>0, <2>4 DEF ReadError, Give, RestInv
    <2>5. Start \/ Abort \/ Stop \/ SaveUser \/ EndSave \/ Die => UNCHANGED <<position, cause>>
        BY DEF Start, Abort, Stop, SaveUser, EndSave, Die, loadVars
    <2>6. AddUser \/ UpdateUser \/ DeleteUser => UNCHANGED <<position, cause>>
        BY DEF AddUser, UpdateUser, DeleteUser, Request, loadVars
    <2>7. UNCHANGED vars => UNCHANGED <<position, cause>>
        BY DEF vars, loadVars
    <2>8. UNCHANGED <<position, cause>> => (position \in Nat /\ cause \in {"none", "end", "line", "io"})'
        BY <1>0 DEF RestInv
    <2> QED BY <2>1, <2>2, <2>3, <2>4, <2>5, <2>6, <2>7, <2>8 DEF Next
<1>2. (phase # "reading" => buffer = <<>>)'
    <2>1. CASE Open
        BY <2>1 DEF Open
    <2>2. CASE ReadChunk
        BY <2>2 DEF ReadChunk, Give
    <2>3. CASE EndRead \/ ReadError
        BY <2>3 DEF EndRead, ReadError, Give
    <2>4. CASE Die
        BY <2>4 DEF Die
    <2>5. Start \/ Abort \/ Stop \/ SaveUser \/ EndSave => phase # "reading" /\ buffer' = buffer
        BY DEF Start, Abort, Stop, SaveUser, EndSave, loadVars
    <2>6. AddUser \/ UpdateUser \/ DeleteUser => phase # "reading" /\ buffer' = buffer
        BY DEF AddUser, UpdateUser, DeleteUser, Request, loadVars
    <2>7. UNCHANGED vars => phase' = phase /\ buffer' = buffer
        BY DEF vars, loadVars
    <2>8. phase # "reading" => buffer = <<>>
        BY <1>0 DEF RestInv
    <2> QED BY <2>1, <2>2, <2>3, <2>4, <2>5, <2>6, <2>7, <2>8 DEF Next
<1>3. (unsaved \subseteq DOMAIN table.users /\ (phase # "saving" => unsaved = {}))'
    <2>0. unsaved \subseteq DOMAIN table.users /\ (phase # "saving" => unsaved = {})
        BY <1>0 DEF RestInv
    <2>1. Open \/ ReadChunk \/ EndRead \/ ReadError \/ Start \/ Abort => phase # "saving" /\ unsaved' = unsaved
        BY DEF Open, ReadChunk, EndRead, ReadError, Start, Abort, saveVars
    <2>2. AddUser \/ UpdateUser \/ DeleteUser => phase # "saving" /\ unsaved' = unsaved
        BY DEF AddUser, UpdateUser, DeleteUser, Request, saveVars
    <2>3. CASE Stop
        BY <2>3 DEF Stop
    <2>4. CASE SaveUser
        <3>1. table' = table /\ unsaved' \subseteq unsaved /\ phase' = "saving"
            BY <2>4 DEF SaveUser
        <3> QED BY <2>0, <3>1
    <2>5. CASE EndSave
        BY <2>5 DEF EndSave
    <2>6. CASE Die
        BY <2>6 DEF Die
    <2>7. CASE UNCHANGED vars
        BY <2>0, <2>7 DEF vars, saveVars
    <2>8. phase # "saving" /\ unsaved' = unsaved => unsaved' = {}
        BY <2>0
    <2> QED BY <2>1, <2>2, <2>3, <2>4, <2>5, <2>6, <2>7, <2>8 DEF Next
<1>4. (requests_left \in 0 .. MaxRequests /\ starts_left \in 0 .. MaxStarts)'
    <2>0. requests_left \in 0 .. MaxRequests /\ starts_left \in 0 .. MaxStarts
        BY <1>0 DEF RestInv
    <2>1. CASE Open
        BY <2>0, <2>1 DEF Open
    <2>2. CASE AddUser \/ UpdateUser \/ DeleteUser
        <3>1. Request
            BY <2>2 DEF AddUser, UpdateUser, DeleteUser
        <3> QED BY <2>0, <3>1 DEF Request
    <2>3. ReadChunk \/ EndRead \/ ReadError \/ Start \/ Abort \/ Stop \/ SaveUser \/ EndSave \/ Die => UNCHANGED bounds
        BY DEF ReadChunk, EndRead, ReadError, Start, Abort, Stop, SaveUser, EndSave, Die
    <2>4. UNCHANGED vars => UNCHANGED bounds
        BY DEF vars
    <2>5. UNCHANGED bounds => (requests_left \in 0 .. MaxRequests /\ starts_left \in 0 .. MaxStarts)'
        BY <2>0 DEF bounds
    <2> QED BY <2>1, <2>2, <2>3, <2>4, <2>5 DEF Next
<1> QED BY <1>1, <1>2, <1>3, <1>4 DEF RestInv

-----------------------------------------------------------------------------
(* Theorems                                                                *)

\* The invariant holds in every reachable state.
LEMMA Invariance == Spec => []IInv
<1>1. IInv /\ [Next]_vars => IInv'
    BY TableStep, ReadingStep, LoadedStep, LogInStep, SavingStep, FileStep, RestStep DEF IInv
<1> QED BY InitInv, <1>1, PTL DEF Spec

\* However the reads cut the file, and at whatever capacity of the buffer that a line
\* within the limits fits, the users loaded are those the format gives (process_lines.rs,
\* users.rs:66-154), and admin_count is right through loading, arguments and requests.
THEOREM LoadingIsRight == Spec => []LoadInv
<1>1. IInv => LoadInv
    <2> SUFFICES ASSUME IInv PROVE LoadInv
        OBVIOUS
    <2>1. table.admin_count = Cardinality(Admins(table.users)) /\ table.admin_count \in Nat
        BY DEF IInv, TableInv, Tables, Counted
    <2>2. (phase = "reading" => position <= Len(file)) /\ Len(buffer) < Capacity
        <3>1. CASE phase = "reading"
            <4>1. file \in Text /\ position \in 0 .. Len(file) /\ Len(buffer) < Capacity
                BY <3>1 DEF IInv, ReadingInv, Loading
            <4> QED BY <4>1, TextFacts
        <3>2. CASE phase # "reading"
            <4>1. Len(buffer) = 0
                BY <3>2 DEF IInv, RestInv
            <4>2. 0 < Capacity
                BY UsersLifecycleAssumption, UsersFileAssumption
            <4> QED BY <3>2, <4>1, <4>2
        <3> QED BY <3>1, <3>2
    <2>3. origin.by \in {"hand", "save", "part"}
        BY DEF IInv, FileInv, Origins
    <2>4. TypeOK
        BY <2>1, <2>2, <2>3 DEF IInv, TableInv, RestInv, TypeOK
    <2>5. LoadsTheFile
        BY DEF IInv, LoadedInv, Loads, Fit, LoadsTheFile
    <2> QED BY <2>1, <2>4, <2>5 DEF LoadInv, AdminsCounted
<1> QED BY Invariance, <1>1, PTL

\* A running server has an administrator, or the default name is taken
\* (server.rs:257-268): no order of requests removes the last one.
THEOREM SomeoneCanAlwaysLogIn == Spec => []SomeoneCanLogIn
<1>1. IInv => SomeoneCanLogIn
    BY DEF IInv
<1> QED BY Invariance, <1>1, PTL

\* A server that stopped properly comes back with its users, whatever their number and
\* whatever their names, if no name or password has the characters that save_to loses
\* (users.rs:200-236).
THEOREM SimpleUsersComeBack == Spec => []RestartKeepsSimpleUsers
<1>1. IInv => RestartKeepsSimpleUsers
    <2> SUFFICES ASSUME IInv, Simple(origin.users), phase = "loaded", origin.by = "save", cause # "io"
                 PROVE  table.users = origin.users
        BY DEF RestartKeepsSimpleUsers, RestartKeepsUsers
    <2>1. file \in Text /\ Loads(file, table.users) /\ origin.users \in UserTables
        BY DEF IInv, LoadedInv, FileInv, Origins
    <2> DEFINE lines == AllLines(file)
               users == origin.users
    <2>2. lines \in Seq(Text)
        BY <2>1, AllLinesType
    <2>3. PICK order : /\ Lists(users, order) /\ Whole(lines, users, order)
                       /\ \A u \in DOMAIN users : \E i \in 1 .. Len(order) : order[i] = u
        BY DEF IInv, FileInv
    <2>4. Simple(users) /\ users \in UserTables
        BY <2>1
    <2> HIDE DEF lines, users
    <2>5. /\ WellFormed(lines) /\ Describes(lines, users)
          /\ DOMAIN users # {} => UserLines(lines) # {}
          /\ Fit(lines)
        BY <2>2, <2>3, <2>4, WholeUsers DEF Fit
    <2>6. CASE UserLines(lines) # {}
        <3>1. Loads(file, users)
            BY <2>1, <2>5, <2>6, LoadsUsers DEF lines
        <3> QED BY <2>1, <3>1 DEF Loads, users
    <2>7. CASE UserLines(lines) = {}
        <3>1. users = NoUsers
            BY <2>4, <2>5, <2>7, NoUsersIs
        <3>2. Loads(file, NoUsers)
            BY <2>1, <2>7, LoadsNothing DEF lines
        <3> QED BY <2>1, <3>1, <3>2 DEF Loads, users
    <2> QED BY <2>6, <2>7
<1> QED BY Invariance, <1>1, PTL

\* Wherever a save is cut short, the next start finds a subset of the users, with their
\* roles, and one password at most that is cut (users.rs:200-236).
THEOREM CutSavesInventNothing == Spec => []PartialSaveInventsNothing
<1>1. IInv => PartialSaveInventsNothing
    <2> SUFFICES ASSUME IInv, phase = "loaded", origin.by = "part", Simple(origin.users)
                 PROVE  SomeOf(table.users, origin.users)
        BY DEF PartialSaveInventsNothing, SomeOf
    <2>1. CASE table.users = NoUsers
        BY <2>1, NoneOf
    <2>2. CASE table.users # NoUsers
        <3> DEFINE lines == AllLines(file)
                   users == origin.users
        <3>1. cause # "io" /\ file \in Text /\ Loads(file, table.users) /\ users \in UserTables
            BY <2>2 DEF IInv, LoadedInv, FileInv, Origins
        <3>2. lines \in Seq(Text)
            BY <3>1, AllLinesType
        <3>3. PICK order : Lists(users, order) /\ Cut(lines, users, order)
            BY DEF IInv, FileInv
        <3>4. /\ Describes(lines, UsersOf(lines).users)
              /\ UsersOf(lines).ok <=> UserLines(lines) # {} /\ WellFormed(lines)
            BY <3>2, UsersOfIs
        <3>5. WellFormed(lines) /\ table.users = UsersOf(lines).users
            BY <2>2, <3>1, <3>4 DEF Loads, DocumentedUsers
        <3>6. Simple(users)
            OBVIOUS
        <3> HIDE DEF lines, users
        <3>7. SomeOf(table.users, users)
            BY <3>1, <3>2, <3>3, <3>4, <3>5, <3>6, CutUsers
        <3> QED BY <3>7 DEF users
    <2> QED BY <2>1, <2>2
<1> QED BY Invariance, <1>1, PTL

=============================================================================
