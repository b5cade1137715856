--------------------------- MODULE MainScreenProofs ----------------------------
(***************************************************************************)
(* Proofs about the terminal interface: that at most one element has the   *)
(* focus, the one that keys go to (FocusTrue); that a request which is out *)
(* is that of the popup on top, that a popup can be closed when nothing is *)
(* out, and that none is there twice (FormsTrue); that the cursors of a    *)
(* text entry agree and all of its text that fits is drawn (EntryTrue);    *)
(* that the selection stays on its event when another comes                *)
(* (SelectionFollows); that the lines of the log and the seconds and units *)
(* of the graph that are kept between renders are what they would be if    *)
(* they were made again (CacheTrue); and that the graph on the screen is   *)
(* that of the usage recorded, with its times (GraphShown).                *)
(*                                                                         *)
(* The first four follow from IInv, CacheTrue from LinesInv and TrackerInv *)
(* too, GraphShown from TrackerInv and GraphInv: see MainScreenInvariant,  *)
(* and MainScreenTerms for what else the lemmas speak of. They follow the  *)
(* model: what each operator does to a good part leaves it good, from the  *)
(* text of an entry up to the whole screen. What is said of texts of any   *)
(* length is proved by induction with a set for the predicate (NatInduct,  *)
(* SeqInduct); sums over sets are unrolled one element at a time (SumsTo). *)
(***************************************************************************)
EXTENDS MainScreenTerms, FiniteSetTheorems, SequenceTheorems, WellFoundedInduction, TLAPS

--------------------------------------------------------------------------------
(* Induction, folds, and the least and the greatest of a set. *)

\* A set of naturals that is not empty has a least element.
LEMMA LeastNat ==
    ASSUME NEW T \in SUBSET Nat, T # {}
    PROVE  \E n \in T : \A m \in T : n <= m
<1> DEFINE R == {p \in Nat \X Nat : p[1] < p[2]}
<1>1. IsWellFoundedOn(R, Nat)
  <2>1. OpToRel(<, Nat) = R  BY DEF OpToRel
  <2> QED BY <2>1, NatLessThanWellFounded, Zenon
<1>2. \E n \in T : \A m \in T : ~ (<<m, n>> \in R)
  <2> HIDE DEF R
  <2> QED BY <1>1, WFMin
<1>3. PICK n \in T : \A m \in T : ~ (<<m, n>> \in R)  BY <1>2
<1>4. \A m \in T : n <= m
  <2> TAKE m \in T
  <2>1. <<m, n>> \notin R /\ m \in Nat /\ n \in Nat  BY <1>3
  <2>2. ~(m < n)  BY <2>1, Zenon
  <2> QED BY <2>1, <2>2
<1> QED BY <1>4

\* Induction over the naturals, with a set for the predicate.
LEMMA NatInduct ==
    ASSUME NEW T, 0 \in T, \A n \in Nat : n \in T => n + 1 \in T
    PROVE  Nat \subseteq T
<1> DEFINE Bad == {n \in Nat : n \notin T}
<1> SUFFICES ASSUME Bad # {} PROVE FALSE
  OBVIOUS
<1>0. Bad \in SUBSET Nat /\ \A n \in Bad : n \in Nat /\ n \notin T  OBVIOUS
<1>1. \A n \in Nat : n \notin T => n \in Bad  OBVIOUS
<1> HIDE DEF Bad
<1>2. PICK n \in Bad : \A m \in Bad : n <= m  BY <1>0, LeastNat
<1>3. n \in Nat /\ n \notin T /\ n # 0  BY <1>0, <1>2
<1>4. n - 1 \in Nat /\ (n - 1) + 1 = n  BY <1>3
<1>5. n - 1 \notin T  BY <1>3, <1>4
<1> QED BY <1>1, <1>2, <1>3, <1>4, <1>5

\* Induction over sequences, with a set for the predicate: what holds for the
\* empty one and goes on with every element holds for all.
LEMMA SeqInduct ==
    ASSUME NEW E, NEW T, <<>> \in T,
           \A s \in Seq(E), e \in E : s \in T => Append(s, e) \in T
    PROVE  Seq(E) \subseteq T
<1> DEFINE G == {n \in Nat : \A s \in Seq(E) : Len(s) = n => s \in T}
<1>1. 0 \in G
  <2>1. \A s \in Seq(E) : Len(s) = 0 => s = <<>>  OBVIOUS
  <2> QED BY <2>1
<1>2. ASSUME NEW n \in Nat, n \in G PROVE n + 1 \in G
  <2>1. ASSUME NEW s \in Seq(E), Len(s) = n + 1 PROVE s \in T
    <3> DEFINE t == SubSeq(s, 1, n)
    <3>1. t \in Seq(E) /\ Len(t) = n /\ s[n + 1] \in E  BY <2>1
    <3>2. s = Append(t, s[n + 1])  BY <2>1
    <3>3. t \in T  BY <1>2, <3>1
    <3> HIDE DEF t
    <3> QED BY <3>1, <3>2, <3>3
  <2> QED BY <2>1
<1>3. \A n \in Nat : n \in G => \A s \in Seq(E) : Len(s) = n => s \in T  OBVIOUS
<1> HIDE DEF G
<1>4. Nat \subseteq G  BY <1>1, <1>2, NatInduct
<1>5. \A s \in Seq(E) : Len(s) \in Nat  OBVIOUS
<1> QED BY <1>3, <1>4, <1>5

\* Every sequence can be gone through, from every start.
LEMMA FoldExists ==
    ASSUME NEW S, NEW E, NEW base \in S, NEW step, IsStep(step, S, E), NEW seq \in Seq(E)
    PROVE  \E f : IsFold(f, S, base, step, seq)
<1> DEFINE T == {s \in Seq(E) : \E f : IsFold(f, S, base, step, s)}
<1>1. <<>> \in T
  <2>1. IsFold([n \in 0 .. 0 |-> base], S, base, step, <<>>)  BY DEF IsFold
  <2> QED BY <2>1
<1>2. ASSUME NEW s \in Seq(E), NEW e \in E, s \in T PROVE Append(s, e) \in T
  <2>1. PICK f : IsFold(f, S, base, step, s)  BY <1>2
  <2> DEFINE N == Len(s)
  <2>2. N \in Nat /\ Append(s, e) \in Seq(E) /\ Len(Append(s, e)) = N + 1
        /\ Append(s, e)[N + 1] = e /\ \A n \in 1 .. N : Append(s, e)[n] = s[n] /\ s[n] \in E
    OBVIOUS
  <2>3. /\ f \in [0 .. N -> S] /\ f[0] = base
        /\ \A n \in 1 .. N : f[n] = step[<<f[n - 1], s[n]>>]
    BY <2>1 DEF IsFold
  <2> HIDE DEF N
  <2> DEFINE last == step[<<f[N], e>>]
             g == [n \in 0 .. N + 1 |-> IF n = N + 1 THEN last ELSE f[n]]
             t == Append(s, e)
  <2>4. last \in S
    <3>1. f[N] \in S  BY <2>2, <2>3
    <3> QED BY <3>1 DEF IsStep
  <2>5. g \in [0 .. N + 1 -> S] /\ g[0] = base /\ g[N + 1] = last /\ \A n \in 0 .. N : g[n] = f[n]
    BY <2>2, <2>3, <2>4
  <2> HIDE DEF g
  <2>6. ASSUME NEW n \in 1 .. N + 1 PROVE g[n] = step[<<g[n - 1], t[n]>>]
    <3>1. CASE n = N + 1
      <4>1. g[n - 1] = f[N] /\ t[n] = e  BY <2>2, <2>5, <3>1
      <4> QED BY <4>1, <2>5, <3>1
    <3>2. CASE n # N + 1
      <4>1. n \in 1 .. N /\ n - 1 \in 0 .. N  BY <2>2, <3>2
      <4>2. g[n] = f[n] /\ g[n - 1] = f[n - 1] /\ t[n] = s[n]  BY <2>2, <2>5, <4>1
      <4> QED BY <4>1, <4>2, <2>3
    <3> QED BY <3>1, <3>2
  <2>7. IsFold(g, S, base, step, t)
    <3>1. Len(t) = N + 1  BY <2>2
    <3> QED BY <2>5, <2>6, <3>1 DEF IsFold
  <2> HIDE DEF t
  <2>8. t \in Seq(E) /\ t = Append(s, e)  BY <2>2 DEF t
  <2> QED BY <2>7, <2>8
<1>3. \A s \in T : \E f : IsFold(f, S, base, step, s)  OBVIOUS
<1> HIDE DEF T
<1>4. Seq(E) \subseteq T  BY <1>1, <1>2, SeqInduct
<1> QED BY <1>3, <1>4

\* A function that follows the step ends where the fold does.
LEMMA FoldIs ==
    ASSUME NEW S, NEW E, NEW base \in S, NEW step, IsStep(step, S, E), NEW seq \in Seq(E),
           NEW h, GoesBy(h, S, base, step, seq)
    PROVE  h[Len(seq)] = Fold(S, base, step, seq)
<1> DEFINE f == CHOOSE g : IsFold(g, S, base, step, seq)
           N == Len(seq)
<1>1. IsFold(f, S, base, step, seq)  BY FoldExists
<1>2. Fold(S, base, step, seq) = f[N] /\ N \in Nat  BY DEF Fold
<1> HIDE DEF f
<1>8. h[0] = base /\ \A n \in 1 .. N : h[n - 1] \in S => h[n] = step[<<h[n - 1], seq[n]>>]
  BY DEF GoesBy
<1>3. /\ f \in [0 .. N -> S] /\ f[0] = base
      /\ \A n \in 1 .. N : f[n] = step[<<f[n - 1], seq[n]>>]
  BY <1>1 DEF IsFold
<1> HIDE DEF N
<1> DEFINE T == {n \in Nat : n \in 0 .. N => h[n] = f[n]}
<1>4. 0 \in T  BY <1>3, <1>8
<1>5. ASSUME NEW n \in Nat, n \in T PROVE n + 1 \in T
  <2> SUFFICES ASSUME n + 1 \in 0 .. N PROVE h[n + 1] = f[n + 1]
    OBVIOUS
  <2>1. n + 1 \in 1 .. N /\ n \in 0 .. N /\ (n + 1) - 1 = n  BY <1>2
  <2>2. h[n] = f[n] /\ h[n] \in S  BY <1>3, <1>5, <2>1
  <2> QED BY <1>3, <1>8, <2>1, <2>2
<1>6. Nat \subseteq T
  <2> HIDE DEF T
  <2> QED BY <1>4, <1>5, NatInduct
<1>7. N \in Nat => h[N] = f[N]
  <2>1. \A n \in T : n \in 0 .. N => h[n] = f[n]  OBVIOUS
  <2>2. N \in Nat => N \in 0 .. N  OBVIOUS
  <2> HIDE DEF T
  <2> QED BY <1>6, <2>1, <2>2
<1> QED BY <1>2, <1>7 DEF N

\* A fold is the start for the empty sequence, and goes on with each element.
LEMMA FoldStep ==
    ASSUME NEW S, NEW E, NEW base \in S, NEW step, IsStep(step, S, E)
    PROVE  /\ Fold(S, base, step, <<>>) = base
           /\ \A s \in Seq(E) : Fold(S, base, step, s) \in S
           /\ \A s \in Seq(E), e \in E :
                 Fold(S, base, step, Append(s, e)) = Applied(step, Fold(S, base, step, s), e)
<1>1. Fold(S, base, step, <<>>) = base
  <2> DEFINE f == CHOOSE g : IsFold(g, S, base, step, <<>>)
  <2>1. IsFold(f, S, base, step, <<>>)
    <3>1. <<>> \in Seq(E)  OBVIOUS
    <3> QED BY <3>1, FoldExists
  <2>2. Fold(S, base, step, <<>>) = f[0]  BY DEF Fold
  <2> HIDE DEF f
  <2> QED BY <2>1, <2>2 DEF IsFold
<1>2. ASSUME NEW s \in Seq(E) PROVE Fold(S, base, step, s) \in S
  <2> DEFINE f == CHOOSE g : IsFold(g, S, base, step, s)
  <2>1. IsFold(f, S, base, step, s)  BY FoldExists
  <2>2. Fold(S, base, step, s) = f[Len(s)] /\ Len(s) \in Nat  BY DEF Fold
  <2> HIDE DEF f
  <2> QED BY <2>1, <2>2 DEF IsFold
<1>3. ASSUME NEW s \in Seq(E), NEW e \in E
      PROVE  Fold(S, base, step, Append(s, e)) = Applied(step, Fold(S, base, step, s), e)
  <2> DEFINE t == Append(s, e)
  <2>1. Len(s) \in Nat /\ t \in Seq(E) /\ Len(t) = Len(s) + 1 /\ t[Len(s) + 1] = e
        /\ \A n \in 1 .. Len(s) : t[n] = s[n]
    OBVIOUS
  <2> HIDE DEF t
  <2>2. PICK f : f = CHOOSE g : IsFold(g, S, base, step, t)  OBVIOUS
  <2>3. IsFold(f, S, base, step, t)  BY <2>1, <2>2, FoldExists
  <2>4. Fold(S, base, step, t) = f[Len(s) + 1]  BY <2>1, <2>2 DEF Fold
  <2>5. f \in [0 .. Len(s) + 1 -> S] /\ f[0] = base
        /\ \A n \in 1 .. Len(s) + 1 : f[n] = step[<<f[n - 1], t[n]>>]
    BY <2>1, <2>3 DEF IsFold
  <2>6. f[0] = base  BY <2>5
  <2>7. \A n \in 1 .. Len(s) : f[n - 1] \in S => f[n] = step[<<f[n - 1], s[n]>>]
    BY <2>1, <2>5
  <2>8. f[Len(s)] = Fold(S, base, step, s)
    <3>1. GoesBy(f, S, base, step, s)  BY <2>6, <2>7 DEF GoesBy
    <3> QED BY <3>1, FoldIs
  <2>9. f[Len(s) + 1] = step[<<f[(Len(s) + 1) - 1], t[Len(s) + 1]>>] /\ (Len(s) + 1) - 1 = Len(s)
    BY <2>1, <2>5
  <2> QED BY <2>1, <2>4, <2>8, <2>9 DEF t, Applied
<1> QED BY <1>1, <1>2, <1>3

\* Min is the least element.
LEMMA MinLeast ==
    ASSUME NEW T \in SUBSET Nat, T # {}
    PROVE  Min(T) \in T /\ \A m \in T : Min(T) <= m
<1>1. \E n \in T : \A m \in T : n <= m  BY LeastNat
<1> QED BY <1>1 DEF Min

\* Max is the greatest element, where there is a bound.
LEMMA MaxGreatest ==
    ASSUME NEW T \in SUBSET Nat, T # {}, NEW b \in Nat, \A m \in T : m <= b
    PROVE  Max(T) \in T /\ \A m \in T : m <= Max(T)
<1> DEFINE U == {n \in Nat : \A m \in T : m <= n}
<1>1. PICK n \in U : \A m \in U : n <= m  BY LeastNat
<1>2. n \in T
  <2> SUFFICES ASSUME n \notin T PROVE FALSE
    OBVIOUS
  <2>1. PICK m \in T : TRUE  OBVIOUS
  <2>2. n # 0 /\ n \in Nat  BY <2>1
  <2>3. n - 1 \in U  BY <2>2
  <2> QED BY <2>2, <2>3, <1>1
<1>3. \E x \in T : \A y \in T : x >= y  BY <1>2
<1> QED BY <1>3 DEF Max

--------------------------------------------------------------------------------
(* The bytes of a text. *)

\* The lesser of two.
LEMMA MinTwo ==
    ASSUME NEW a \in Int, NEW b \in Int
    PROVE  Min({a, b}) = IF a <= b THEN a ELSE b
<1> DEFINE m == IF a <= b THEN a ELSE b
<1>1. m \in {a, b} /\ \A y \in {a, b} : m <= y  OBVIOUS
<1>2. \A x \in {a, b} : (\A y \in {a, b} : x <= y) => x = m  OBVIOUS
<1> QED BY <1>1, <1>2 DEF Min

\* The greater of two.
LEMMA MaxTwo ==
    ASSUME NEW a \in Int, NEW b \in Int
    PROVE  Max({a, b}) = IF a <= b THEN b ELSE a
<1> DEFINE m == IF a <= b THEN b ELSE a
<1>1. m \in {a, b} /\ \A y \in {a, b} : m >= y  OBVIOUS
<1>2. \A x \in {a, b} : (\A y \in {a, b} : x >= y) => x = m  OBVIOUS
<1> QED BY <1>1, <1>2 DEF Max

\* Characters take bytes.
LEMMA CodeBytes == \A c \in Codes : CharBytes(c) \in Nat /\ CharBytes(c) >= 1
<1>1. ASSUME NEW c \in Codes PROVE CharBytes(c) \in Nat /\ CharBytes(c) >= 1
  <2>1. CharBytes(c) \in 1 .. 4  BY MainScreenAssumption DEF Codes
  <2> QED BY <2>1
<1> QED BY <1>1

\* The bytes of a text are counted character by character.
LEMMA BytesFold ==
    /\ Bytes(<<>>) = 0
    /\ \A text \in Seq(Codes) : Bytes(text) \in Nat
    /\ \A text \in Seq(Codes), c \in Codes : Bytes(Append(text, c)) = Bytes(text) + CharBytes(c)
<1> DEFINE step == [x \in Nat \X Codes |-> x[1] + CharBytes(x[2])]
<1>2. IsStep(step, Nat, Codes)
  <2>1. \A x \in Nat \X Codes : x[1] \in Nat /\ CharBytes(x[2]) \in Nat  BY CodeBytes
  <2> QED BY <2>1 DEF IsStep
<1>3. \A x \in Nat, c \in Codes : step[<<x, c>>] = x + CharBytes(c) /\ Applied(step, x, c) = x + CharBytes(c)
  BY DEF Applied
<1> HIDE DEF step
<1>4. ASSUME NEW text \in Seq(Codes)
      PROVE  Bytes(text) = Fold(Nat, 0, step, text)
  <2> DEFINE N == Len(text)
             F == CHOOSE f : f = [n \in 0 .. N |-> IF n = 0 THEN 0 ELSE f[n - 1] + CharBytes(text[n])]
  <2>1. Bytes(text) = F[N]  BY DEF Bytes
  <2>2. PICK g : IsFold(g, Nat, 0, step, text)  BY <1>2, FoldExists
  <2>3. N \in Nat /\ \A n \in 1 .. N : text[n] \in Codes  OBVIOUS
  <2>4. g = [n \in 0 .. N |-> IF n = 0 THEN 0 ELSE g[n - 1] + CharBytes(text[n])]
    <3>1. /\ g \in [0 .. N -> Nat] /\ g[0] = 0
          /\ \A n \in 1 .. N : g[n] = step[<<g[n - 1], text[n]>>]
      BY <2>2 DEF IsFold
    <3> HIDE DEF N
    <3>2. ASSUME NEW n \in 1 .. N PROVE g[n] = g[n - 1] + CharBytes(text[n])
      <4>1. g[n - 1] \in Nat /\ text[n] \in Codes  BY <2>3, <3>1
      <4> QED BY <1>3, <3>1, <4>1
    <3> QED BY <2>3, <3>1, <3>2
  <2>5. F = [n \in 0 .. N |-> IF n = 0 THEN 0 ELSE F[n - 1] + CharBytes(text[n])]  BY <2>4
  <2> HIDE DEF F
  <2>6. GoesBy(F, Nat, 0, step, text)
    <3>1. F[0] = 0 /\ \A n \in 1 .. N : F[n] = F[n - 1] + CharBytes(text[n])
      <4> HIDE DEF N
      <4> QED BY <2>3, <2>5
    <3> QED BY <1>3, <2>3, <3>1 DEF GoesBy
  <2> QED BY <1>2, <2>1, <2>6, FoldIs
<1>5. /\ Fold(Nat, 0, step, <<>>) = 0
      /\ \A s \in Seq(Codes) : Fold(Nat, 0, step, s) \in Nat
      /\ \A s \in Seq(Codes), e \in Codes :
            Fold(Nat, 0, step, Append(s, e)) = Applied(step, Fold(Nat, 0, step, s), e)
  BY <1>2, FoldStep
<1>6. <<>> \in Seq(Codes)  OBVIOUS
<1>7. ASSUME NEW s \in Seq(Codes), NEW c \in Codes
      PROVE  Bytes(s) \in Nat /\ Bytes(Append(s, c)) = Bytes(s) + CharBytes(c)
  <2>1. Append(s, c) \in Seq(Codes)  OBVIOUS
  <2>2. Bytes(s) = Fold(Nat, 0, step, s)  BY <1>4
  <2>3. Bytes(Append(s, c)) = Fold(Nat, 0, step, Append(s, c))  BY <1>4, <2>1
  <2> QED BY <1>3, <1>5, <2>2, <2>3
<1>8. Bytes(<<>>) = 0  BY <1>4, <1>5, <1>6
<1>9. \A s \in Seq(Codes) : Bytes(s) \in Nat  BY <1>4, <1>5
<1> QED BY <1>7, <1>8, <1>9

\* The bytes of two texts, one after the other.
LEMMA BytesConcat ==
    ASSUME NEW s \in Seq(Codes), NEW t \in Seq(Codes)
    PROVE  Bytes(s \o t) = Bytes(s) + Bytes(t)
<1> DEFINE T == {u \in Seq(Codes) : Bytes(s \o u) = Bytes(s) + Bytes(u)}
<1>1. <<>> \in T  BY BytesFold
<1>2. ASSUME NEW u \in Seq(Codes), NEW c \in Codes, u \in T PROVE Append(u, c) \in T
  <2>1. s \o u \in Seq(Codes) /\ Append(u, c) \in Seq(Codes) /\ s \o Append(u, c) = Append(s \o u, c)
    OBVIOUS
  <2>2. Bytes(Append(s \o u, c)) = Bytes(s \o u) + CharBytes(c)  BY <2>1, BytesFold
  <2>3. Bytes(Append(u, c)) = Bytes(u) + CharBytes(c)  BY BytesFold
  <2>4. Bytes(s \o u) = Bytes(s) + Bytes(u)  BY <1>2
  <2>5. Bytes(s) \in Nat /\ Bytes(u) \in Nat /\ CharBytes(c) \in Nat
    BY BytesFold, CodeBytes
  <2>6. Bytes(s \o Append(u, c)) = Bytes(s) + Bytes(Append(u, c))
    BY <2>1, <2>2, <2>3, <2>4, <2>5
  <2> QED BY <2>1, <2>6
<1>3. \A u \in T : Bytes(s \o u) = Bytes(s) + Bytes(u)  OBVIOUS
<1> HIDE DEF T
<1>4. Seq(Codes) \subseteq T  BY <1>1, <1>2, SeqInduct
<1> QED BY <1>3, <1>4

\* A text that is not empty has bytes.
LEMMA SomeBytes ==
    ASSUME NEW s \in Seq(Codes), s # <<>>
    PROVE  Bytes(s) >= 1
<1>1. PICK t \in Seq(Codes), c \in Codes : s = Append(t, c)  BY SequenceEmptyOrAppend
<1>2. Bytes(s) = Bytes(t) + CharBytes(c)  BY <1>1, BytesFold
<1> QED BY <1>2, BytesFold, CodeBytes

\* A text is cut in two anywhere.
LEMMA TextCut ==
    ASSUME NEW E, NEW s \in Seq(E), NEW n \in 0 .. Len(s)
    PROVE  /\ SubSeq(s, 1, n) \in Seq(E) /\ Len(SubSeq(s, 1, n)) = n
           /\ SubSeq(s, n + 1, Len(s)) \in Seq(E) /\ Len(SubSeq(s, n + 1, Len(s))) = Len(s) - n
           /\ s = SubSeq(s, 1, n) \o SubSeq(s, n + 1, Len(s))
<1>0. Len(s) \in Nat /\ n \in Nat /\ n <= Len(s)  OBVIOUS
<1>1. SubSeq(s, 1, n) \in Seq(E) /\ Len(SubSeq(s, 1, n)) = n  BY <1>0, SubSeqProperties
<1>2. SubSeq(s, n + 1, Len(s)) \in Seq(E) /\ Len(SubSeq(s, n + 1, Len(s))) = Len(s) - n
  BY <1>0, SubSeqProperties
<1>3. SubSeq(s, 1, n) \o SubSeq(s, n + 1, Len(s)) = SubSeq(s, 1, Len(s))
  <2>1. 1 \in 1 .. Len(s) + 1 /\ n \in 1 - 1 .. Len(s) /\ Len(s) \in n .. Len(s)  BY <1>0
  <2> QED BY <2>1, ConcatAdjacentSubSeq
<1> QED BY <1>1, <1>2, <1>3, SubSeqFull

\* The parts of a text that another was put before or after.
LEMMA ConcatCut ==
    ASSUME NEW E, NEW s \in Seq(E), NEW t \in Seq(E)
    PROVE  /\ s \o t \in Seq(E) /\ Len(s \o t) = Len(s) + Len(t)
           /\ SubSeq(s \o t, 1, Len(s)) = s
<1>1. s \o t \in Seq(E) /\ Len(s \o t) = Len(s) + Len(t) /\ Len(s) \in Nat /\ Len(t) \in Nat
      /\ \A i \in 1 .. Len(s) : (s \o t)[i] = s[i] /\ s[i] \in E
  OBVIOUS
<1> DEFINE u == s \o t
           a == SubSeq(u, 1, Len(s))
<1>2. \A i \in 1 .. Len(s) : u[i] = s[i] /\ u[i] \in E  BY <1>1
<1>3. Len(u) = Len(s) + Len(t) /\ u \in Seq(E)  BY <1>1
<1> HIDE DEF u
<1>4. a \in Seq(E) /\ Len(a) = Len(s) /\ \A i \in 1 .. Len(s) : a[i] = u[i]
  <2>1. a \in Seq(E) /\ Len(a) = (IF 1 <= Len(s) THEN Len(s) - 1 + 1 ELSE 0)
        /\ \A i \in 1 .. Len(s) - 1 + 1 : a[i] = u[1 + i - 1]
    BY <1>1, <1>2, SubSeqProperties
  <2> QED BY <1>1, <2>1
<1> HIDE DEF a
<1>5. a = s  BY <1>2, <1>4, SeqEqual
<1> QED BY <1>3, <1>5 DEF a, u

--------------------------------------------------------------------------------
(* The text before the cursor of an entry, and after it. *)

\* A longer beginning of a text has more bytes.
LEMMA PrefixBytes ==
    ASSUME NEW s \in Seq(Codes), NEW a \in 0 .. Len(s), NEW b \in 0 .. Len(s), a < b
    PROVE  Bytes(SubSeq(s, 1, a)) < Bytes(SubSeq(s, 1, b))
<1> DEFINE u == SubSeq(s, 1, a)
           v == SubSeq(s, a + 1, b)
           w == SubSeq(s, 1, b)
<1>0. Len(s) \in Nat /\ a \in Nat /\ b \in Nat /\ b <= Len(s) /\ \A i \in 1 .. b : s[i] \in Codes
  OBVIOUS
<1>1. u \in Seq(Codes)  BY TextCut
<1>2. v \in Seq(Codes) /\ Len(v) = b - a  BY <1>0, SubSeqProperties
<1>3. u \o v = w
  <2>1. 1 \in 1 .. Len(s) + 1 /\ a \in 1 - 1 .. Len(s) /\ b \in a .. Len(s)  BY <1>0
  <2> QED BY <2>1, ConcatAdjacentSubSeq
<1>4. v # <<>>  BY <1>0, <1>2
<1> HIDE DEF u, v, w
<1>5. Bytes(w) = Bytes(u) + Bytes(v) /\ Bytes(v) >= 1 /\ Bytes(u) \in Nat /\ Bytes(v) \in Nat
  BY <1>1, <1>2, <1>3, <1>4, BytesConcat, BytesFold, SomeBytes
<1>6. Bytes(u) < Bytes(w)  BY <1>5
<1> QED BY <1>6 DEF u, w

\* The text is cut where the cursor is.
LEMMA CutIs ==
    ASSUME NEW entry, entry.text \in Seq(Codes), NEW n \in 0 .. Len(entry.text),
           entry.cursor.bytes = Bytes(SubSeq(entry.text, 1, n))
    PROVE  Cut(entry) = n
<1> DEFINE s == entry.text
<1>0. Len(s) \in Nat  OBVIOUS
<1>1. \A k \in 0 .. Len(s) : Bytes(SubSeq(s, 1, k)) \in Nat  BY BytesFold, TextCut
<1>2. ASSUME NEW m \in 0 .. Len(s), Bytes(SubSeq(s, 1, m)) = entry.cursor.bytes
      PROVE  m = n
  <2>0. Bytes(SubSeq(s, 1, m)) = Bytes(SubSeq(s, 1, n))  BY <1>2
  <2>1. ~(m < n)
    <3> SUFFICES ASSUME m < n PROVE FALSE
      OBVIOUS
    <3>1. Bytes(SubSeq(s, 1, m)) < Bytes(SubSeq(s, 1, n))  BY PrefixBytes
    <3> QED BY <1>1, <2>0, <3>1
  <2>2. ~(n < m)
    <3> SUFFICES ASSUME n < m PROVE FALSE
      OBVIOUS
    <3>1. Bytes(SubSeq(s, 1, n)) < Bytes(SubSeq(s, 1, m))  BY PrefixBytes
    <3> QED BY <1>1, <2>0, <3>1
  <2> QED BY <1>0, <2>1, <2>2
<1> QED BY <1>2 DEF Cut

\* An entry with a cursor: its text before and after the cursor.
LEMMA EntryParts ==
    ASSUME NEW entry, EntryGood(entry), entry.cursor # NoCursor
    PROVE  LET n == entry.cursor.chars
               before == BeforeCursor(entry)
               after == AfterCursor(entry)
           IN  /\ entry \in Entries /\ entry.cursor \in Cursors
               /\ entry.text \in Seq(Codes) /\ Len(entry.text) \in Nat
               /\ n \in 0 .. Len(entry.text)
               /\ entry.length = Len(entry.text) /\ entry.length <= MaxChars
               /\ before = SubSeq(entry.text, 1, n) /\ before \in Seq(Codes) /\ Len(before) = n
               /\ after = SubSeq(entry.text, n + 1, Len(entry.text)) /\ after \in Seq(Codes)
               /\ Len(after) = Len(entry.text) - n
               /\ entry.text = before \o after
               /\ entry.cursor = [bytes |-> Bytes(before), chars |-> Len(before)]
<1> DEFINE n == entry.cursor.chars
<1>1. entry \in Entries /\ entry.cursor \in Cursors /\ entry.text \in Seq(Codes)
  BY DEF EntryGood, Entries
<1>2. Len(entry.text) \in Nat  BY <1>1
<1>3. /\ entry.length = Len(entry.text) /\ entry.length <= MaxChars /\ n \in 0 .. entry.length
      /\ entry.cursor.bytes = Bytes(SubSeq(entry.text, 1, n))
  BY DEF EntryGood, EntryCoherent
<1>4. Cut(entry) = n  BY <1>1, <1>3, CutIs
<1>5. /\ BeforeCursor(entry) = SubSeq(entry.text, 1, n)
      /\ AfterCursor(entry) = SubSeq(entry.text, n + 1, Len(entry.text))
  BY <1>4 DEF BeforeCursor, AfterCursor
<1>6. entry.cursor = [bytes |-> entry.cursor.bytes, chars |-> n]  BY <1>1 DEF Cursors
<1>7. n \in 0 .. Len(entry.text)  BY <1>3
<1>8. /\ BeforeCursor(entry) \in Seq(Codes) /\ Len(BeforeCursor(entry)) = n
      /\ AfterCursor(entry) \in Seq(Codes) /\ Len(AfterCursor(entry)) = Len(entry.text) - n
      /\ entry.text = BeforeCursor(entry) \o AfterCursor(entry)
  <2>1. Len(entry.text) \in Nat  BY <1>2
  <2>2. LET s == entry.text IN
        /\ SubSeq(s, 1, n) \in Seq(Codes) /\ Len(SubSeq(s, 1, n)) = n
        /\ SubSeq(s, n + 1, Len(s)) \in Seq(Codes) /\ Len(SubSeq(s, n + 1, Len(s))) = Len(s) - n
        /\ s = SubSeq(s, 1, n) \o SubSeq(s, n + 1, Len(s))
    BY <1>1, <1>7, TextCut, Zenon
  <2> QED BY <1>5, <2>2, Zenon
<1>9. entry.cursor = [bytes |-> Bytes(BeforeCursor(entry)), chars |-> Len(BeforeCursor(entry))]
  BY <1>3, <1>5, <1>6, <1>8
<1>10. n = entry.cursor.chars  OBVIOUS
<1> HIDE DEF n
<1> QED BY <1>1, <1>2, <1>3, <1>5, <1>7, <1>8, <1>9, <1>10

\* It is as it should be, if there is room for the text.
LEMMA AtGood ==
    ASSUME NEW before \in Seq(Codes), NEW after \in Seq(Codes), Len(before) + Len(after) <= MaxChars
    PROVE  EntryGood(At(before, after)) /\ At(before, after).cursor # NoCursor
<1> DEFINE e == At(before, after)
           text == before \o after
<1>1. /\ text \in Seq(Codes) /\ Len(text) = Len(before) + Len(after)
      /\ SubSeq(text, 1, Len(before)) = before
  BY ConcatCut
<1>2. Len(before) \in Nat /\ Len(after) \in Nat /\ Bytes(before) \in Nat  BY BytesFold
<1> HIDE DEF text
<1>3. e = [text |-> text, length |-> Len(before) + Len(after),
           cursor |-> [bytes |-> Bytes(before), chars |-> Len(before)]]
  BY DEF At, text
<1>4. e.text = text /\ e.length = Len(before) + Len(after)
      /\ e.cursor = [bytes |-> Bytes(before), chars |-> Len(before)]
  BY <1>3
<1>5. e.cursor \in Cursors  BY <1>2, <1>4 DEF Cursors
<1>6. e \in Entries  BY <1>1, <1>2, <1>3, <1>4, <1>5 DEF Entries
<1>7. EntryCoherent(e)
  <2>1. e.cursor.bytes = Bytes(before) /\ e.cursor.chars = Len(before)  BY <1>4
  <2> HIDE DEF e
  <2>2. e.cursor.chars \in 0 .. e.length  BY <1>2, <1>4, <2>1
  <2>3. e.cursor.bytes = Bytes(SubSeq(e.text, 1, e.cursor.chars))  BY <1>1, <1>4, <2>1
  <2>4. e.length = Len(e.text) /\ e.length <= MaxChars  BY <1>1, <1>4
  <2> QED BY <2>2, <2>3, <2>4 DEF EntryCoherent
<1>8. e.cursor # NoCursor  BY <1>5, TextEntryAssumption DEF Cursors
<1> QED BY <1>6, <1>7, <1>8 DEF EntryGood

\* What a text begins with is a part of it.
LEMMA LeadingType ==
    ASSUME NEW text \in Seq(Codes), NEW word
    PROVE  Leading(text, word) \in 0 .. Len(text)
<1> DEFINE T == {n \in 0 .. Len(text) : n = Len(text) \/ IsWord(text[n + 1]) # word}
<1>1. Len(text) \in Nat /\ Len(text) \in T /\ T \in SUBSET Nat /\ T \subseteq 0 .. Len(text)
  OBVIOUS
<1>2. Min(T) \in T
  <2> HIDE DEF T
  <2> QED BY <1>1, MinLeast
<1> QED BY <1>1, <1>2 DEF Leading

\* So is what a word key goes over.
LEMMA SkipType ==
    ASSUME NEW text \in Seq(Codes), NEW word
    PROVE  WordSkip(text, word) \in 0 .. Len(text)
<1> DEFINE first == Leading(text, word)
           rest == SubSeq(text, first + 1, Len(text))
<1>1. first \in 0 .. Len(text)  BY LeadingType
<1> HIDE DEF first
<1>2. rest \in Seq(Codes) /\ Len(rest) = Len(text) - first /\ Len(text) \in Nat
  BY <1>1, TextCut
<1> HIDE DEF rest
<1>3. Leading(rest, ~word) \in 0 .. Len(rest)  BY <1>2, LeadingType
<1>4. WordSkip(text, word) = first + Leading(rest, ~word)  BY DEF WordSkip, first, rest
<1> QED BY <1>1, <1>2, <1>3, <1>4

\* A key to the left goes over the end of what is before the cursor.
LEMMA SkippedLeftIs ==
    ASSUME NEW entry, BeforeCursor(entry) \in Seq(Codes), NEW ctrl \in BOOLEAN
    PROVE  LET before == BeforeCursor(entry)
           IN  \E k \in 0 .. Len(before) :
                  /\ SkippedLeft(entry, ctrl) = SubSeq(before, k + 1, Len(before))
                  /\ SkippedLeft(entry, ctrl) \in Seq(Codes)
                  /\ Len(SkippedLeft(entry, ctrl)) = Len(before) - k
                  /\ SubSeq(before, 1, k) \in Seq(Codes) /\ Len(SubSeq(before, 1, k)) = k
                  /\ before = SubSeq(before, 1, k) \o SkippedLeft(entry, ctrl)
<1> DEFINE before == BeforeCursor(entry)
           n == IF ctrl THEN WordSkip(Reverse(before), FALSE) ELSE Min({1, Len(before)})
           back == Reverse(before)
           k == Len(before) - n
<1>1. Len(before) \in Nat  OBVIOUS
<1>2. back \in Seq(Codes) /\ Len(back) = Len(before)
  <2>1. back = [i \in 1 .. Len(before) |-> before[(Len(before) - i) + 1]]  BY DEF Reverse
  <2>2. \A i \in 1 .. Len(before) : before[(Len(before) - i) + 1] \in Codes  BY <1>1
  <2> HIDE DEF before, back
  <2> QED BY <1>1, <2>1, <2>2
<1>3. n \in 0 .. Len(before)
  <2>1. WordSkip(back, FALSE) \in 0 .. Len(back)
    <3> HIDE DEF back
    <3> QED BY <1>2, SkipType
  <2>2. Min({1, Len(before)}) \in 0 .. Len(before)  BY <1>1, MinTwo
  <2>3. n = WordSkip(back, FALSE) \/ n = Min({1, Len(before)})  OBVIOUS
  <2> HIDE DEF n, back
  <2> QED BY <1>1, <1>2, <2>1, <2>2, <2>3
<1>4. SkippedLeft(entry, ctrl) = SubSeq(before, Len(before) - n + 1, Len(before))
  BY DEF SkippedLeft
<1> HIDE DEF n, back
<1>5. k \in 0 .. Len(before) /\ k + 1 = Len(before) - n + 1  BY <1>1, <1>3
<1>6. SkippedLeft(entry, ctrl) = SubSeq(before, k + 1, Len(before))  BY <1>4, <1>5
<1> HIDE DEF k
<1>7. /\ SubSeq(before, 1, k) \in Seq(Codes) /\ Len(SubSeq(before, 1, k)) = k
      /\ SubSeq(before, k + 1, Len(before)) \in Seq(Codes)
      /\ Len(SubSeq(before, k + 1, Len(before))) = Len(before) - k
      /\ before = SubSeq(before, 1, k) \o SubSeq(before, k + 1, Len(before))
  BY <1>5, TextCut
<1> QED BY <1>5, <1>6, <1>7

\* A key to the right goes over the beginning of what is after it.
LEMMA SkippedRightIs ==
    ASSUME NEW entry, AfterCursor(entry) \in Seq(Codes), NEW ctrl \in BOOLEAN
    PROVE  LET after == AfterCursor(entry)
               over == SkippedRight(entry, ctrl)
               rest == SubSeq(after, Len(over) + 1, Len(after))
           IN  /\ over \in Seq(Codes) /\ rest \in Seq(Codes)
               /\ Len(over) \in 0 .. Len(after) /\ Len(rest) = Len(after) - Len(over)
               /\ after = over \o rest
<1> DEFINE after == AfterCursor(entry)
           n == IF ctrl THEN WordSkip(after, TRUE) ELSE Min({1, Len(after)})
<1>1. Len(after) \in Nat  OBVIOUS
<1>3. n \in 0 .. Len(after)
  <2>1. WordSkip(after, TRUE) \in 0 .. Len(after)  BY SkipType
  <2>2. Min({1, Len(after)}) \in 0 .. Len(after)  BY <1>1, MinTwo
  <2>3. n = WordSkip(after, TRUE) \/ n = Min({1, Len(after)})  OBVIOUS
  <2> HIDE DEF n
  <2> QED BY <1>1, <2>1, <2>2, <2>3
<1>4. SkippedRight(entry, ctrl) = SubSeq(after, 1, n)  BY DEF SkippedRight
<1> HIDE DEF n
<1>5. /\ SubSeq(after, 1, n) \in Seq(Codes) /\ Len(SubSeq(after, 1, n)) = n
      /\ SubSeq(after, n + 1, Len(after)) \in Seq(Codes)
      /\ Len(SubSeq(after, n + 1, Len(after))) = Len(after) - n
      /\ after = SubSeq(after, 1, n) \o SubSeq(after, n + 1, Len(after))
  BY <1>3, TextCut
<1> QED BY <1>1, <1>3, <1>4, <1>5

--------------------------------------------------------------------------------
(* Moves of a cursor, and erasures. *)

\* An entry is parted by its cursor.
LEMMA EntryParted ==
    ASSUME NEW entry, EntryGood(entry), entry.cursor # NoCursor
    PROVE  /\ Parted(entry, BeforeCursor(entry), AfterCursor(entry))
           /\ entry = At(BeforeCursor(entry), AfterCursor(entry))
<1> DEFINE before == BeforeCursor(entry)
           after == AfterCursor(entry)
           n == entry.cursor.chars
<1>1. /\ entry \in Entries /\ entry.cursor \in Cursors
      /\ entry.text \in Seq(Codes) /\ Len(entry.text) \in Nat
      /\ n \in 0 .. Len(entry.text)
      /\ entry.length = Len(entry.text) /\ entry.length <= MaxChars
      /\ before = SubSeq(entry.text, 1, n) /\ before \in Seq(Codes) /\ Len(before) = n
      /\ after = SubSeq(entry.text, n + 1, Len(entry.text)) /\ after \in Seq(Codes)
      /\ Len(after) = Len(entry.text) - n
      /\ entry.text = before \o after
      /\ entry.cursor = [bytes |-> Bytes(before), chars |-> Len(before)]
  BY EntryParts, Zenon
<1> HIDE DEF before, after
<1>2. Parted(entry, before, after)
  <2>0. before \in Seq(Codes) /\ after \in Seq(Codes)  BY <1>1
  <2>1. Len(before) \in Nat /\ Len(after) \in Nat  BY <2>0
  <2>3. Len(before) = entry.cursor.chars  BY <1>1
  <2>2. Len(after) = Len(entry.text) - Len(before)  BY <1>1, <2>3
  <2> HIDE DEF n
  <2> QED BY <1>1, <2>1, <2>2, <2>3 DEF Parted
<1>3. entry = [text |-> entry.text, length |-> entry.length, cursor |-> entry.cursor]
  BY <1>1 DEF Entries
<1>4. entry.length = Len(before) + Len(after)  BY <1>2 DEF Parted
<1>5. entry = At(before, after)  BY <1>1, <1>3, <1>4, Zenon DEF At
<1> QED BY <1>2, <1>5 DEF before, after

\* Two texts in a row, and three.
LEMMA TwoTexts ==
    ASSUME NEW a \in Seq(Codes), NEW b \in Seq(Codes)
    PROVE  /\ a \o b \in Seq(Codes) /\ Len(a \o b) = Len(a) + Len(b)
           /\ Bytes(a \o b) = Bytes(a) + Bytes(b)
           /\ Len(a) \in Nat /\ Len(b) \in Nat /\ Bytes(a) \in Nat /\ Bytes(b) \in Nat
<1>1. a \o b \in Seq(Codes) /\ Len(a \o b) = Len(a) + Len(b)  BY ConcatCut
<1>2. Bytes(a \o b) = Bytes(a) + Bytes(b)  BY BytesConcat
<1>3. Len(a) \in Nat /\ Len(b) \in Nat  OBVIOUS
<1>4. Bytes(a) \in Nat /\ Bytes(b) \in Nat  BY BytesFold
<1> QED BY <1>1, <1>2, <1>3, <1>4

\* Three texts in a row, however they are grouped.
LEMMA ThreeTexts ==
    ASSUME NEW a \in Seq(Codes), NEW b \in Seq(Codes), NEW c \in Seq(Codes)
    PROVE  /\ (a \o b) \o c = a \o (b \o c)
           /\ Len((a \o b) \o c) = Len(a) + Len(b) + Len(c)
           /\ SubSeq((a \o b) \o c, 1, Len(a)) = a
<1>1. (a \o b) \o c = a \o (b \o c)  BY ConcatAssociative
<1>2. b \o c \in Seq(Codes) /\ a \o b \in Seq(Codes) /\ Len(a \o b) = Len(a) + Len(b)
      /\ Len(a) \in Nat /\ Len(b) \in Nat /\ Len(c) \in Nat
  BY TwoTexts
<1>3. Len((a \o b) \o c) = Len(a \o b) + Len(c)  BY <1>2, TwoTexts
<1>4. SubSeq(a \o (b \o c), 1, Len(a)) = a  BY <1>2, ConcatCut
<1> QED BY <1>1, <1>2, <1>3, <1>4

\* What a text goes on with.
LEMMA RestOfConcat ==
    ASSUME NEW b \in Seq(Codes), NEW c \in Seq(Codes)
    PROVE  SubSeq(b \o c, Len(b) + 1, Len(b \o c)) = c
<1>1. PICK d \in Seq(Codes) : d = b \o c  BY TwoTexts
<1>2. Len(d) = Len(b) + Len(c) /\ Len(b) \in Nat /\ Len(c) \in Nat /\ Len(b) \in 0 .. Len(d)
  BY <1>1, TwoTexts
<1>3. PICK s \in Seq(Codes) : s = SubSeq(d, Len(b) + 1, Len(d)) /\ Len(s) = Len(c)
  <2>0. PICK n \in 0 .. Len(d) : n = Len(b)  BY <1>2
  <2>1. SubSeq(d, n + 1, Len(d)) \in Seq(Codes)
        /\ Len(SubSeq(d, n + 1, Len(d))) = Len(d) - n
    BY <1>2, TextCut, Zenon
  <2>2. Len(d) - n = Len(c)  BY <1>2, <2>0
  <2> QED BY <2>0, <2>1, <2>2
<1>4. \A i \in 1 .. Len(c) : s[i] = c[i]
  <2> TAKE i \in 1 .. Len(c)
  <2>1. s[i] = d[Len(b) + i]  BY <1>2, <1>3
  <2>2. d[Len(b) + i] = c[i]  BY <1>1, <1>2
  <2> QED BY <2>1, <2>2
<1>5. s = c  BY <1>3, <1>4, SeqEqual
<1> QED BY <1>1, <1>3, <1>5

\* Both indices of the cursor go forward.
LEMMA EntryMoves ==
    ASSUME NEW e, IsEntry(e), NEW x, NEW y
    PROVE  [e EXCEPT !.cursor.bytes = @ + x, !.cursor.chars = @ + y]
              = [text |-> e.text, length |-> e.length,
                 cursor |-> [bytes |-> e.cursor.bytes + x, chars |-> e.cursor.chars + y]]
<1>0. PICK t, l, b, n : t = e.text /\ l = e.length /\ b = e.cursor.bytes /\ n = e.cursor.chars
  OBVIOUS
<1>11. e = [text |-> t, length |-> l, cursor |-> [bytes |-> b, chars |-> n]]
  BY <1>0 DEF IsEntry
<1>1. PICK v, u : v = b + x /\ u = n + y OBVIOUS
<1> DEFINE c == [bytes |-> b, chars |-> n]
           d == [bytes |-> v, chars |-> n]
           f == [bytes |-> v, chars |-> u]
<1>2. [c EXCEPT !.bytes = v] = d OBVIOUS
<1>3. [d EXCEPT !.chars = u] = f OBVIOUS
<1>10. c.bytes = b /\ d.chars = n OBVIOUS
<1> HIDE DEF c, d, f
<1>4. [[text |-> t, length |-> l, cursor |-> c] EXCEPT !.cursor.bytes = v] = [text |-> t, length |-> l, cursor |-> d]
  BY <1>2
<1>5. [[text |-> t, length |-> l, cursor |-> d] EXCEPT !.cursor.chars = u] = [text |-> t, length |-> l, cursor |-> f]
  BY <1>3
<1> DEFINE o == [text |-> t, length |-> l, cursor |-> c]
           g == [text |-> t, length |-> l, cursor |-> d]
           h == [text |-> t, length |-> l, cursor |-> f]
<1>9. o.cursor.bytes + x = v /\ g.cursor.chars + y = u BY <1>1, <1>10
<1> HIDE DEF o, g, h
<1>6. [o EXCEPT !.cursor.bytes = @ + x, !.cursor.chars = @ + y] =
   [[o EXCEPT !.cursor.bytes = @ + x] EXCEPT !.cursor.chars = @ + y] OBVIOUS
<1>7. [o EXCEPT !.cursor.bytes = @ + x] = g  BY <1>4, <1>9 DEF o, g
<1>8. [g EXCEPT !.cursor.chars = @ + y] = h  BY <1>5, <1>9 DEF g, h
<1>12. [o EXCEPT !.cursor.bytes = @ + x, !.cursor.chars = @ + y] = h  BY <1>6, <1>7, <1>8
<1>13. h = [text |-> e.text, length |-> e.length,
                 cursor |-> [bytes |-> e.cursor.bytes + x, chars |-> e.cursor.chars + y]]
  BY <1>0, <1>1 DEF h, f
<1>14. o = e  BY <1>11 DEF o, c
<1> QED BY <1>12, <1>13, <1>14

\* Both go back.
LEMMA EntryMovesBack ==
    ASSUME NEW e, IsEntry(e), NEW x, NEW y
    PROVE  [e EXCEPT !.cursor.bytes = @ - x, !.cursor.chars = @ - y]
              = [text |-> e.text, length |-> e.length,
                 cursor |-> [bytes |-> e.cursor.bytes - x, chars |-> e.cursor.chars - y]]
<1>0. PICK t, l, b, n : t = e.text /\ l = e.length /\ b = e.cursor.bytes /\ n = e.cursor.chars
  OBVIOUS
<1>11. e = [text |-> t, length |-> l, cursor |-> [bytes |-> b, chars |-> n]]
  BY <1>0 DEF IsEntry
<1>1. PICK v, u : v = b - x /\ u = n - y OBVIOUS
<1> DEFINE c == [bytes |-> b, chars |-> n]
           d == [bytes |-> v, chars |-> n]
           f == [bytes |-> v, chars |-> u]
<1>2. [c EXCEPT !.bytes = v] = d OBVIOUS
<1>3. [d EXCEPT !.chars = u] = f OBVIOUS
<1>10. c.bytes = b /\ d.chars = n OBVIOUS
<1> HIDE DEF c, d, f
<1>4. [[text |-> t, length |-> l, cursor |-> c] EXCEPT !.cursor.bytes = v] = [text |-> t, length |-> l, cursor |-> d]
  BY <1>2
<1>5. [[text |-> t, length |-> l, cursor |-> d] EXCEPT !.cursor.chars = u] = [text |-> t, length |-> l, cursor |-> f]
  BY <1>3
<1> DEFINE o == [text |-> t, length |-> l, cursor |-> c]
           g == [text |-> t, length |-> l, cursor |-> d]
           h == [text |-> t, length |-> l, cursor |-> f]
<1>9. o.cursor.bytes - x = v /\ g.cursor.chars - y = u BY <1>1, <1>10
<1> HIDE DEF o, g, h
<1>6. [o EXCEPT !.cursor.bytes = @ - x, !.cursor.chars = @ - y] =
   [[o EXCEPT !.cursor.bytes = @ - x] EXCEPT !.cursor.chars = @ - y] OBVIOUS
<1>7. [o EXCEPT !.cursor.bytes = @ - x] = g  BY <1>4, <1>9 DEF o, g
<1>8. [g EXCEPT !.cursor.chars = @ - y] = h  BY <1>5, <1>9 DEF g, h
<1>12. [o EXCEPT !.cursor.bytes = @ - x, !.cursor.chars = @ - y] = h  BY <1>6, <1>7, <1>8
<1>13. h = [text |-> e.text, length |-> e.length,
                 cursor |-> [bytes |-> e.cursor.bytes - x, chars |-> e.cursor.chars - y]]
  BY <1>0, <1>1 DEF h, f
<1>14. o = e  BY <1>11 DEF o, c
<1> QED BY <1>12, <1>13, <1>14

\* The text is another, with its length.
LEMMA EntryCuts ==
    ASSUME NEW e, IsEntry(e), NEW t, NEW l
    PROVE  [e EXCEPT !.text = t, !.length = l]
              = [text |-> t, length |-> l,
                 cursor |-> [bytes |-> e.cursor.bytes, chars |-> e.cursor.chars]]
<1>0. PICK u, m, c : e = [text |-> u, length |-> m, cursor |-> c]
    /\ c = [bytes |-> e.cursor.bytes, chars |-> e.cursor.chars]
  BY DEF IsEntry
<1>1. [e EXCEPT !.text = t, !.length = l] = [text |-> t, length |-> l, cursor |-> c]
  <2> DEFINE r == [text |-> u, length |-> m, cursor |-> c]
  <2>1. [r EXCEPT !.text = t] = [text |-> t, length |-> m, cursor |-> c]  OBVIOUS
  <2> DEFINE q == [text |-> t, length |-> m, cursor |-> c]
  <2>2. [q EXCEPT !.length = l] = [text |-> t, length |-> l, cursor |-> c]  OBVIOUS
  <2> HIDE DEF r, q
  <2>3. [r EXCEPT !.text = t, !.length = l] = [[r EXCEPT !.text = t] EXCEPT !.length = l]
    OBVIOUS
  <2>4. [r EXCEPT !.text = t, !.length = l] = [text |-> t, length |-> l, cursor |-> c]
    BY <2>1, <2>2, <2>3 DEF q
  <2> QED BY <1>0, <2>4 DEF r
<1> QED BY <1>0, <1>1

\* An entry between two texts, by its fields.
LEMMA AtFields ==
    ASSUME NEW a, NEW b
    PROVE  /\ IsEntry(At(a, b)) /\ At(a, b).text = a \o b /\ At(a, b).length = Len(a) + Len(b)
           /\ At(a, b).cursor.bytes = Bytes(a) /\ At(a, b).cursor.chars = Len(a)
  BY DEF At, IsEntry

\* The cursor goes back over a text.
LEMMA AtBack ==
    ASSUME NEW a \in Seq(Codes), NEW b \in Seq(Codes), NEW c \in Seq(Codes)
    PROVE  MovedBack(At(a \o b, c), b) = At(a, b \o c)
<1>1. PICK e : e = At(a \o b, c)  OBVIOUS
<1>2. IsEntry(e) /\ e.text = (a \o b) \o c /\ e.length = Len(a \o b) + Len(c)
      /\ e.cursor.bytes = Bytes(a \o b) /\ e.cursor.chars = Len(a \o b)
  BY <1>1, AtFields
<1>3. PICK la \in Nat, lb \in Nat, ba \in Nat, bb \in Nat :
          la = Len(a) /\ lb = Len(b) /\ ba = Bytes(a) /\ bb = Bytes(b)
  BY TwoTexts
<1>4. e.cursor.chars = la + lb /\ e.cursor.bytes = ba + bb  BY <1>2, <1>3, TwoTexts
<1>5. [e EXCEPT !.cursor.bytes = @ - bb, !.cursor.chars = @ - lb]
          = [text |-> e.text, length |-> e.length, cursor |-> [bytes |-> ba, chars |-> la]]
  <2>1. e.cursor.bytes - bb = ba /\ e.cursor.chars - lb = la  BY <1>3, <1>4
  <2>2. [e EXCEPT !.cursor.bytes = @ - bb, !.cursor.chars = @ - lb]
           = [text |-> e.text, length |-> e.length,
              cursor |-> [bytes |-> e.cursor.bytes - bb, chars |-> e.cursor.chars - lb]]
    BY <1>2, EntryMovesBack, ZenonT(40)
  <2> QED BY <2>1, <2>2
<1>6. e.text = a \o (b \o c)  BY <1>2, ThreeTexts, Zenon
<1>7. e.length = Len(a) + Len(b \o c)
  <2>1. /\ Len(a \o b) = Len(a) + Len(b) /\ Len(b \o c) = Len(b) + Len(c)
        /\ Len(a) \in Nat /\ Len(b) \in Nat /\ Len(c) \in Nat
    BY TwoTexts
  <2> QED BY <1>2, <2>1
<1>8. [text |-> e.text, length |-> e.length, cursor |-> [bytes |-> ba, chars |-> la]] = At(a, b \o c)
  BY <1>3, <1>6, <1>7, Zenon DEF At
<1>9. MovedBack(e, b) = [e EXCEPT !.cursor.bytes = @ - bb, !.cursor.chars = @ - lb]
  BY <1>3 DEF MovedBack
<1> QED BY <1>1, <1>5, <1>8, <1>9

\* And on over it.
LEMMA AtForward ==
    ASSUME NEW a \in Seq(Codes), NEW b \in Seq(Codes), NEW c \in Seq(Codes)
    PROVE  Forward(At(a, b \o c), Bytes(b), Len(b)) = At(a \o b, c)
<1>1. PICK e : e = At(a, b \o c)  OBVIOUS
<1>2. IsEntry(e) /\ e.text = a \o (b \o c) /\ e.length = Len(a) + Len(b \o c)
      /\ e.cursor.bytes = Bytes(a) /\ e.cursor.chars = Len(a)
  BY <1>1, AtFields
<1>3. PICK lb, bb : lb = Len(b) /\ bb = Bytes(b)  OBVIOUS
<1>4. e.cursor.chars + lb = Len(a \o b) /\ e.cursor.bytes + bb = Bytes(a \o b)
  BY <1>2, <1>3, TwoTexts
<1>5. [e EXCEPT !.cursor.bytes = @ + bb, !.cursor.chars = @ + lb]
          = [text |-> e.text, length |-> e.length,
             cursor |-> [bytes |-> e.cursor.bytes + bb, chars |-> e.cursor.chars + lb]]
  BY <1>2, EntryMoves, ZenonT(40)
<1>6. e.text = (a \o b) \o c  BY <1>2, ThreeTexts, Zenon
<1>7. e.length = Len(a \o b) + Len(c)
  <2>1. /\ Len(a \o b) = Len(a) + Len(b) /\ Len(b \o c) = Len(b) + Len(c)
        /\ Len(a) \in Nat /\ Len(b) \in Nat /\ Len(c) \in Nat
    BY TwoTexts
  <2> QED BY <1>2, <2>1
<1>8. [text |-> e.text, length |-> e.length,
       cursor |-> [bytes |-> e.cursor.bytes + bb, chars |-> e.cursor.chars + lb]] = At(a \o b, c)
  BY <1>4, <1>6, <1>7, Zenon DEF At
<1> QED BY <1>1, <1>3, <1>5, <1>8 DEF Forward

\* The text behind the cursor, or ahead of it, is erased.
LEMMA AtErased ==
    ASSUME NEW a \in Seq(Codes), NEW b \in Seq(Codes), NEW c \in Seq(Codes)
    PROVE  /\ CutBehind(At(a, b \o c), Len(a \o b), Len(b), c) = At(a, c)
           /\ PutAnew(At(a, b \o c), a \o SubSeq(b \o c, Len(b) + 1, Len(b \o c)), Len(b)) = At(a, c)
<1>1. PICK e : e = At(a, b \o c)  OBVIOUS
<1>2. IsEntry(e) /\ e.text = a \o (b \o c) /\ e.length = Len(a) + Len(b \o c)
      /\ e.cursor.bytes = Bytes(a) /\ e.cursor.chars = Len(a)
  BY <1>1, AtFields
<1>3. PICK k \in Nat, l \in Nat : k = Len(b) /\ l = Len(a) + Len(c)  BY TwoTexts
<1>4. e.length = l + k
  <2>1. /\ Len(b \o c) = Len(b) + Len(c)
        /\ Len(a) \in Nat /\ Len(b) \in Nat /\ Len(c) \in Nat
    BY TwoTexts
  <2> QED BY <1>2, <1>3, <2>1
<1>5. SubSeq(e.text, 1, Len(a \o b) - k) = a
  <2>1. Len(a \o b) - k = Len(a)  BY <1>3, TwoTexts
  <2>2. SubSeq((a \o b) \o c, 1, Len(a)) = a /\ (a \o b) \o c = a \o (b \o c)
    BY ThreeTexts
  <2> QED BY <1>2, <2>1, <2>2
<1>6. SubSeq(b \o c, k + 1, Len(b \o c)) = c  BY <1>3, RestOfConcat, Zenon
<1>7. [e EXCEPT !.text = a \o c, !.length = @ - k]
          = [text |-> a \o c, length |-> l,
             cursor |-> [bytes |-> e.cursor.bytes, chars |-> e.cursor.chars]]
  <2>1. e.length - k = l  BY <1>3, <1>4
  <2>2. PICK t, m : t = a \o c /\ m = l  OBVIOUS
  <2>5. IsEntry(e)  BY <1>2
  <2>3. [e EXCEPT !.text = t, !.length = m]
           = [text |-> t, length |-> m,
              cursor |-> [bytes |-> e.cursor.bytes, chars |-> e.cursor.chars]]
    BY <2>5, EntryCuts
  <2>4. [e EXCEPT !.text = t, !.length = @ - k] = [e EXCEPT !.text = t, !.length = m]
    BY <2>1, <2>2
  <2> QED BY <2>2, <2>3, <2>4
<1>8. [text |-> a \o c, length |-> l,
       cursor |-> [bytes |-> e.cursor.bytes, chars |-> e.cursor.chars]] = At(a, c)
  BY <1>2, <1>3, Zenon DEF At
<1>9. [e EXCEPT !.text = SubSeq(@, 1, Len(a \o b) - k) \o c, !.length = @ - k] = At(a, c)
  BY <1>5, <1>7, <1>8
<1>10. [e EXCEPT !.text = a \o SubSeq(b \o c, k + 1, Len(b \o c)), !.length = @ - k] = At(a, c)
  BY <1>6, <1>7, <1>8
<1> QED BY <1>1, <1>3, <1>9, <1>10 DEF CutBehind, PutAnew

--------------------------------------------------------------------------------
(* The keys of a text entry, and what is drawn of it. *)

\* A character is typed at the cursor.
LEMMA TypedGood ==
    ASSUME NEW entry, EntryGood(entry), entry.cursor # NoCursor, entry.length < MaxChars,
           NEW c \in Codes
    PROVE  EntryGood(Typed(entry, c)) /\ Typed(entry, c).cursor # NoCursor
<1>1. PICK before, after : before = BeforeCursor(entry) /\ after = AfterCursor(entry)
  OBVIOUS
<1>2. Parted(entry, before, after)  BY <1>1, EntryParted
<1>3. /\ before \in Seq(Codes) /\ after \in Seq(Codes) /\ entry.length = Len(before) + Len(after)
      /\ Len(before) \in Nat /\ Len(after) \in Nat
      /\ entry.cursor.bytes = Bytes(before) /\ entry.cursor.chars = Len(before)
  BY <1>2 DEF Parted
<1>4. PICK longer \in Seq(Codes) : longer = before \o <<c>>
  <2>1. before \o <<c>> \in Seq(Codes)  BY <1>3
  <2> QED BY <2>1
<1>5. longer = Append(before, c) /\ Len(longer) = Len(before) + 1  BY <1>3, <1>4
<1>6. Bytes(longer) = Bytes(before) + CharBytes(c)  BY <1>3, <1>5, BytesFold
<1>7. entry.length + 1 = Len(longer) + Len(after)  BY <1>3, <1>5
<1>8. Typed(entry, c) = [text |-> longer \o after, length |-> entry.length + 1,
                         cursor |-> [bytes |-> entry.cursor.bytes + CharBytes(c),
                                     chars |-> entry.cursor.chars + 1]]
  BY <1>1, <1>4, Zenon DEF Typed
<1>9. Typed(entry, c) = At(longer, after)  BY <1>3, <1>5, <1>6, <1>7, <1>8, Zenon DEF At
<1>10. Len(longer) + Len(after) <= MaxChars
  <2>1. entry.length \in Nat  BY <1>3
  <2> QED BY <1>7, <2>1, TextEntryAssumption
<1>11. EntryGood(At(longer, after)) /\ At(longer, after).cursor # NoCursor
  BY <1>3, <1>10, AtGood
<1> QED BY <1>9, <1>11

\* A move or an erasure to the back ends at the beginning of what it went over.
LEMMA LeftGood ==
    ASSUME NEW entry, EntryGood(entry), entry.cursor # NoCursor, NEW ctrl \in BOOLEAN
    PROVE  /\ EntryGood(MovedBack(entry, SkippedLeft(entry, ctrl)))
           /\ MovedBack(entry, SkippedLeft(entry, ctrl)).cursor # NoCursor
           /\ EntryGood(Erased(entry, ctrl)) /\ Erased(entry, ctrl).cursor # NoCursor
<1>1. PICK before, after : before = BeforeCursor(entry) /\ after = AfterCursor(entry)
  OBVIOUS
<1>2. Parted(entry, before, after) /\ entry = At(before, after)  BY <1>1, EntryParted
<1>3. /\ before \in Seq(Codes) /\ after \in Seq(Codes) /\ entry.length = Len(before) + Len(after)
      /\ Len(before) \in Nat /\ Len(after) \in Nat /\ entry.length <= MaxChars
  BY <1>2 DEF Parted
<1>4. PICK start \in Seq(Codes), gone \in Seq(Codes) :
          gone = SkippedLeft(entry, ctrl) /\ before = start \o gone
  <2>1. \E k \in 0 .. Len(before) :
            /\ SkippedLeft(entry, ctrl) \in Seq(Codes)
            /\ SubSeq(before, 1, k) \in Seq(Codes)
            /\ before = SubSeq(before, 1, k) \o SkippedLeft(entry, ctrl)
    BY <1>1, <1>3, SkippedLeftIs
  <2> QED BY <2>1
<1>5. MovedBack(entry, gone) = At(start, gone \o after)
  <2>1. MovedBack(At(start \o gone, after), gone) = At(start, gone \o after)
    BY <1>3, <1>4, AtBack, Zenon
  <2> QED BY <1>2, <1>4, <2>1, Zenon
<1>6. Erased(entry, ctrl) = CutBehind(MovedBack(entry, gone), Len(before), Len(gone), after)
  BY <1>1, <1>4, Zenon DEF Erased, CutBehind
<1>7. CutBehind(At(start, gone \o after), Len(start \o gone), Len(gone), after) = At(start, after)
  BY <1>3, <1>4, AtErased, Zenon
<1>8. Erased(entry, ctrl) = At(start, after)  BY <1>4, <1>5, <1>6, <1>7, Zenon
<1>9. gone \o after \in Seq(Codes)  BY <1>3, <1>4, TwoTexts
<1>10. /\ Len(start) + Len(gone \o after) <= MaxChars
       /\ Len(start) + Len(after) <= MaxChars
  <2>1. /\ Len(before) = Len(start) + Len(gone) /\ Len(gone \o after) = Len(gone) + Len(after)
        /\ Len(start) \in Nat /\ Len(gone) \in Nat
    BY <1>3, <1>4, TwoTexts
  <2> QED BY <1>3, <2>1, TextEntryAssumption
<1>11. EntryGood(At(start, gone \o after)) /\ At(start, gone \o after).cursor # NoCursor
  BY <1>9, <1>10, AtGood
<1>12. EntryGood(At(start, after)) /\ At(start, after).cursor # NoCursor
  BY <1>3, <1>10, AtGood
<1> QED BY <1>4, <1>5, <1>8, <1>11, <1>12

\* And one to the right at its end.
LEMMA RightGood ==
    ASSUME NEW entry, EntryGood(entry), entry.cursor # NoCursor, NEW ctrl \in BOOLEAN,
           NEW over, over = SkippedRight(entry, ctrl),
           NEW moved, moved = Forward(entry, Bytes(over), Len(over))
    PROVE  /\ EntryGood(moved) /\ moved.cursor # NoCursor
           /\ EntryGood(ErasedNext(entry, ctrl)) /\ ErasedNext(entry, ctrl).cursor # NoCursor
<1>1. PICK before, after : before = BeforeCursor(entry) /\ after = AfterCursor(entry)
  OBVIOUS
<1>2. Parted(entry, before, after) /\ entry = At(before, after)  BY <1>1, EntryParted
<1>3. /\ before \in Seq(Codes) /\ after \in Seq(Codes) /\ entry.length = Len(before) + Len(after)
      /\ Len(before) \in Nat /\ Len(after) \in Nat /\ entry.length <= MaxChars
  BY <1>2 DEF Parted
<1>4. PICK rest \in Seq(Codes) : over \in Seq(Codes) /\ after = over \o rest
  <2>1. LET r == SubSeq(after, Len(over) + 1, Len(after))
        IN  over \in Seq(Codes) /\ r \in Seq(Codes) /\ after = over \o r
    BY <1>1, <1>3, SkippedRightIs
  <2> QED BY <2>1
<1>5. Forward(At(before, over \o rest), Bytes(over), Len(over)) = At(before \o over, rest)
  BY <1>3, <1>4, AtForward, ZenonT(40)
<1>6. moved = At(before \o over, rest)  BY <1>2, <1>4, <1>5, Zenon
<1>7. ErasedNext(entry, ctrl) =
          PutAnew(entry, before \o SubSeq(after, Len(over) + 1, Len(after)), Len(over))
  BY <1>1, Zenon DEF ErasedNext, PutAnew
<1>8. PutAnew(At(before, over \o rest),
              before \o SubSeq(over \o rest, Len(over) + 1, Len(over \o rest)), Len(over))
          = At(before, rest)
  BY <1>3, <1>4, AtErased, ZenonT(40)
<1>9. ErasedNext(entry, ctrl) = At(before, rest)  BY <1>2, <1>4, <1>7, <1>8, Zenon
<1>10. before \o over \in Seq(Codes)  BY <1>3, <1>4, TwoTexts
<1>11. /\ Len(before \o over) + Len(rest) <= MaxChars
       /\ Len(before) + Len(rest) <= MaxChars
  <2>1. /\ Len(after) = Len(over) + Len(rest) /\ Len(before \o over) = Len(before) + Len(over)
        /\ Len(over) \in Nat /\ Len(rest) \in Nat
    BY <1>3, <1>4, TwoTexts
  <2> QED BY <1>3, <2>1, TextEntryAssumption
<1>12. EntryGood(At(before \o over, rest)) /\ At(before \o over, rest).cursor # NoCursor
  BY <1>4, <1>10, <1>11, AtGood
<1>13. EntryGood(At(before, rest)) /\ At(before, rest).cursor # NoCursor
  BY <1>3, <1>4, <1>11, AtGood
<1> QED BY <1>6, <1>9, <1>12, <1>13

\* The cursor is given to an entry at its end.
LEMMA FocusedGood ==
    ASSUME NEW entry, EntryGood(entry)
    PROVE  EntryGood(EntryFocused(entry)) /\ EntryFocused(entry).cursor # NoCursor
<1>1. entry \in Entries /\ entry.length = Len(entry.text) /\ entry.length <= MaxChars /\ entry.text \in Seq(Codes)
  BY DEF EntryGood, EntryCoherent, Entries
<1>2. EntryFocused(entry) = [text |-> entry.text, length |-> entry.length,
                             cursor |-> [bytes |-> Bytes(entry.text), chars |-> entry.length]]
  BY <1>1 DEF EntryFocused, Entries
<1>3. entry.text \o <<>> = entry.text /\ Len(entry.text) + Len(<<>>) = Len(entry.text) /\ <<>> \in Seq(Codes)
  BY <1>1
<1>4. EntryFocused(entry) = At(entry.text, <<>>)  BY <1>1, <1>2, <1>3 DEF At
<1> QED BY <1>1, <1>3, <1>4, AtGood

\* And taken from it.
LEMMA UnfocusedGood ==
    ASSUME NEW entry, EntryGood(entry)
    PROVE  EntryGood(EntryUnfocused(entry)) /\ EntryUnfocused(entry).cursor = NoCursor
<1>1. EntryUnfocused(entry) \in Entries /\ EntryUnfocused(entry).cursor = NoCursor
      /\ EntryUnfocused(entry).text = entry.text /\ EntryUnfocused(entry).length = entry.length
  BY DEF EntryGood, EntryUnfocused, Entries
<1> QED BY <1>1 DEF EntryGood, EntryCoherent

\* A new entry.
LEMMA NewEntryGood == EntryGood(NewEntry) /\ NewEntry.cursor = NoCursor
<1>1. NewEntry = [text |-> <<>>, length |-> 0, cursor |-> NoCursor]  BY DEF NewEntry
<1>2. NewEntry \in Entries /\ NewEntry.length = 0 /\ NewEntry.text = <<>> /\ NewEntry.cursor = NoCursor
  BY <1>1 DEF Entries
<1>3. EntryCoherent(NewEntry)  BY <1>2, TextEntryAssumption DEF EntryCoherent
<1> QED BY <1>2, <1>3 DEF EntryGood

\* Every key leaves the two cursors together.
LEMMA EntryKeyGood ==
    ASSUME NEW entry, EntryGood(entry), entry.cursor # NoCursor, NEW key, key.ctrl \in BOOLEAN
    PROVE  EntryGood(EntryKey(entry, key)) /\ EntryKey(entry, key).cursor # NoCursor
<1>1. PICK over, back, right, home :
          /\ over = SkippedRight(entry, key.ctrl)
          /\ back = MovedBack(entry, SkippedLeft(entry, key.ctrl))
          /\ right = Forward(entry, Bytes(over), Len(over))
          /\ home = [entry EXCEPT !.cursor = [bytes |-> 0, chars |-> 0]]
  OBVIOUS
<1>2. EntryKey(entry, key) \in
         {Erased(entry, key.ctrl), ErasedNext(entry, key.ctrl), back, right, home, EntryFocused(entry), entry}
  BY <1>1 DEF EntryKey, Forward
<1>3. EntryGood(back) /\ back.cursor # NoCursor  BY <1>1, LeftGood
<1>4. EntryGood(Erased(entry, key.ctrl)) /\ Erased(entry, key.ctrl).cursor # NoCursor
  BY LeftGood
<1>5. /\ EntryGood(right) /\ right.cursor # NoCursor
      /\ EntryGood(ErasedNext(entry, key.ctrl)) /\ ErasedNext(entry, key.ctrl).cursor # NoCursor
  BY <1>1, RightGood
<1>6. EntryGood(home) /\ home.cursor # NoCursor
  <2>1. entry \in Entries /\ entry.length = Len(entry.text) /\ entry.length <= MaxChars
        /\ entry.text \in Seq(Codes)
    BY DEF EntryGood, EntryCoherent, Entries
  <2>2. home = [text |-> entry.text, length |-> entry.length, cursor |-> [bytes |-> 0, chars |-> 0]]
    BY <1>1, <2>1 DEF Entries
  <2>3. <<>> \o entry.text = entry.text /\ Len(<<>>) + Len(entry.text) = Len(entry.text)
        /\ <<>> \in Seq(Codes) /\ Len(<<>>) = 0
    BY <2>1
  <2>4. Bytes(<<>>) = 0  BY BytesFold
  <2>5. home = At(<<>>, entry.text)  BY <2>1, <2>2, <2>3, <2>4, Zenon DEF At
  <2>6. EntryGood(At(<<>>, entry.text)) /\ At(<<>>, entry.text).cursor # NoCursor
    BY <2>1, <2>3, AtGood
  <2> QED BY <2>5, <2>6
<1>7. EntryGood(EntryFocused(entry)) /\ EntryFocused(entry).cursor # NoCursor
  BY FocusedGood
<1> QED BY <1>2, <1>3, <1>4, <1>5, <1>6, <1>7

\* Their arithmetic.
LEMMA DrawingFits ==
    ASSUME NEW M, NEW c, NEW L, NEW w, NEW h, NEW end, NEW over, NEW top, NEW from, NEW before,
           NEW room, NEW m, NEW after, NEW fits,
           Drawing(M, c, L, w, h, end, over, top, from, before, room, m, after, fits)
    PROVE  /\ room <= c /\ room \in Nat /\ after \in Nat
           /\ room + after <= w
           /\ room + after = IF L <= fits THEN L ELSE fits
<1> USE DEF Drawing
<1>1. from \in 0 .. c /\ before = c - from  OBVIOUS
<1>2. m = end - over - c /\ m <= L - c /\ after = m  OBVIOUS
<1>3. CASE end <= L
  <2>1. over = 0 /\ from = top /\ after = end - c  BY <1>1, <1>2, <1>3
  <2>2. CASE c < h  BY <1>1, <1>3, <2>1, <2>2
  <2>3. CASE c >= h  BY <1>1, <1>3, <2>1, <2>3, SMTT(30)
  <2> QED BY <2>2, <2>3
<1>4. CASE end > L
  <2>1. over = end - L /\ after = L - c  BY <1>1, <1>2, <1>4
  <2>2. CASE c < h  BY <1>1, <1>4, <2>1, <2>2
  <2>3. CASE c >= h  BY <1>1, <1>4, <2>1, <2>3
  <2> QED BY <2>2, <2>3
<1> QED BY <1>3, <1>4, SMTT(30)

\* All of the text that fits is drawn.
LEMMA EntryIsVisible ==
    ASSUME NEW entry, EntryGood(entry), entry.cursor # NoCursor, NEW w \in 2 .. MaxChars
    PROVE  EntryVisible(entry, w)
<1>1. PICK c \in Nat, L \in Nat : c = entry.cursor.chars /\ L = entry.length /\ c <= L /\ L <= MaxChars
                                  /\ Len(BeforeCursor(entry)) = c /\ Len(AfterCursor(entry)) = L - c
  <2>1. Parted(entry, BeforeCursor(entry), AfterCursor(entry))  BY EntryParted
  <2>2. /\ Len(BeforeCursor(entry)) = entry.cursor.chars /\ entry.cursor.chars \in Nat
        /\ Len(AfterCursor(entry)) = entry.length - entry.cursor.chars
        /\ Len(AfterCursor(entry)) \in Nat /\ entry.length \in Nat /\ entry.length <= MaxChars
    BY <2>1 DEF Parted
  <2>3. entry.cursor.chars <= entry.length  BY <2>2
  <2> QED BY <2>2, <2>3
<1>2. MaxChars \in Nat /\ w \in Nat /\ w >= 2  BY TextEntryAssumption
<1>3. PICK h \in Nat : h = (w + 1) \div 2 /\ w \div 2 = w - h /\ (h = w - h \/ h = w - h + 1)
  BY <1>2
<1>4. PICK start \in Int : start = c - h  OBVIOUS
<1>5. PICK end \in Int : end = IF c < h THEN w ELSE c + w - h
  <2>1. w \in Int /\ c + w - h \in Int  BY <1>2
  <2> QED BY <2>1, Zenon
<1>6. PICK over \in Int : over = IF end > L THEN end - L ELSE 0  OBVIOUS
<1>7. PICK top \in Int : top = (IF c < h THEN 0 ELSE c - h) /\ top = Max({0, start})
  BY <1>4, MaxTwo
<1>8. PICK from \in Int : from = (IF top - over < 0 THEN 0 ELSE top - over) /\ from = Max({0, top - over})
  BY MaxTwo
<1>9. PICK before \in Int : before = (IF c - from < 0 THEN 0 ELSE c - from) /\ before = Max({0, c - from})
  BY MaxTwo
<1>10. PICK room \in Int : room = IF c # MaxChars /\ before = w THEN before - 1 ELSE before
  OBVIOUS
<1>11. PICK m \in Int : m = (IF end - over - c < 0 THEN 0 ELSE end - over - c) /\ m = Max({0, end - over - c})
  BY MaxTwo
<1>12. PICK after \in Int : after = (IF m <= L - c THEN m ELSE L - c) /\ after = Min({m, L - c})
  BY MinTwo
<1>13. PICK fits \in Int : fits = IF c = L /\ L # MaxChars THEN w - 1 ELSE w  BY <1>2
<1>14. /\ room <= c /\ room \in Nat /\ after \in Nat
       /\ room + after <= w
       /\ room + after = IF L <= fits THEN L ELSE fits
  <2>1. Drawing(MaxChars, c, L, w, h, end, over, top, from, before, room, m, after, fits)
    BY <1>1, <1>2, <1>3, <1>5, <1>6, <1>7, <1>8, <1>9, <1>10, <1>11, <1>12, <1>13 DEF Drawing
  <2> QED BY <2>1, DrawingFits
<1>15. Min({room, c}) = room  BY <1>14, MinTwo
<1>16. Max({0, w - 1}) = w - 1  BY <1>2, MaxTwo
<1>17. Min({L, fits}) = room + after  BY <1>14, MinTwo
<1>18. EntryDrawn(entry, w) = [column |-> room, before |-> room, after |-> after]
  <2>1. end = c + w \div 2 + (IF start < 0 THEN 0 - start ELSE 0)
    BY <1>2, <1>3, <1>4, <1>5
  <2>2. start = c - (w + 1) \div 2  BY <1>3, <1>4
  <2>3. room = IF c # MaxChars /\ before = w THEN Max({0, before - 1}) ELSE before
    <3>1. CASE c # MaxChars /\ before = w
      <4>1. Max({0, before - 1}) = before - 1  BY <1>2, <3>1, MaxTwo
      <4> QED BY <1>10, <3>1, <4>1
    <3>2. CASE ~(c # MaxChars /\ before = w)  BY <1>10, <3>2
    <3> QED BY <3>1, <3>2
  <2>4. Min({m, Len(AfterCursor(entry))}) = after /\ Min({room, Len(BeforeCursor(entry))}) = room
    BY <1>1, <1>12, <1>15
  <2> QED BY <1>1, <1>6, <1>7, <1>8, <1>9, <1>11, <2>1, <2>2, <2>3, <2>4, ZenonT(60) DEF EntryDrawn
<1>19. (IF entry.cursor.chars = entry.length /\ entry.length # MaxChars THEN Max({0, w - 1}) ELSE w) = fits
  BY <1>1, <1>13, <1>16
<1>20. PICK d : d = EntryDrawn(entry, w)  OBVIOUS
<1>21. d.before = room /\ d.column = room /\ d.after = after  BY <1>18, <1>20
<1>22. /\ d.before = d.column /\ d.column + d.after <= w
       /\ d.before + d.after = Min({entry.length, fits})
  BY <1>1, <1>14, <1>17, <1>21
<1> QED BY <1>19, <1>20, <1>22, Zenon DEF EntryVisible

--------------------------------------------------------------------------------
(* The elements of the popups. *)

\* Two elements and two more.
LEMMA TwoAndTwo ==
    ASSUME NEW a, NEW b, NEW c, NEW d
    PROVE  <<a, b>> \o <<c, d>> = <<a, b, c, d>>
<1> DEFINE E == {a, b, c, d}
           s == <<a, b>>
           t == <<c, d>>
           u == <<a, b, c, d>>
<1>1. s \in Seq(E) /\ Len(s) = 2 /\ s[1] = a /\ s[2] = b  OBVIOUS
<1>2. t \in Seq(E) /\ Len(t) = 2 /\ t[1] = c /\ t[2] = d  OBVIOUS
<1>3. u \in Seq(E) /\ Len(u) = 4 /\ u[1] = a /\ u[2] = b /\ u[3] = c /\ u[4] = d  OBVIOUS
<1> HIDE DEF E, s, t, u
<1>0. /\ s \o t \in Seq(E) /\ Len(s \o t) = Len(s) + Len(t)
      /\ \A i \in 1 .. Len(s) + Len(t) : (s \o t)[i] = IF i <= Len(s) THEN s[i] ELSE t[i - Len(s)]
  BY <1>1, <1>2, ConcatProperties
<1>4. s \o t \in Seq(E) /\ Len(s \o t) = 4  BY <1>0, <1>1, <1>2
<1>5. (s \o t)[1] = a /\ (s \o t)[2] = b /\ (s \o t)[3] = c /\ (s \o t)[4] = d
  BY <1>0, <1>1, <1>2
<1>6. \A i \in 1 .. 4 : (s \o t)[i] = u[i]
  <2>1. \A i \in 1 .. 4 : i = 1 \/ i = 2 \/ i = 3 \/ i = 4  OBVIOUS
  <2> QED BY <1>3, <1>5, <2>1
<1>7. s \o t = u  BY <1>3, <1>4, <1>6, SeqEqual
<1> QED BY <1>7 DEF s, t, u

\* Each popup's column.
LEMMA Columns ==
    /\ \A kind \in ConfirmKinds : Column(kind) = <<"buttons">>
    /\ Column("message") = <<"ok">>
    /\ Column("buffer size") = <<"size", "buttons">>
    /\ Column("add socket") = <<"address", "buttons">>
    /\ Column("add user") = <<"role", "username", "password", "buttons">>
    /\ Column("update user") = <<"role", "password", "buttons", "delete">>
    /\ Column("users") = <<"role", "filter", "list", "add">>
    /\ Column("sockets") = <<"family", "list", "add">>
    /\ Column("auth methods") = <<"list">>
<1>1. \A kind \in ConfirmKinds : Column(kind) = <<"buttons">>
  BY DEF ConfirmKinds, Column, ConfirmColumn
<1>2. Column("message") = <<"ok">>  BY DEF Column, MessageColumn
<1>3. Column("buffer size") = <<"size", "buttons">>  BY DEF Column, SizeColumn
<1>4. Column("add socket") = <<"address", "buttons">>  BY DEF Column, AddSocketColumn
<1>5. Column("add user") = <<"role", "username", "password", "buttons">>
  BY DEF Column, AddUserColumn
<1>6. Column("update user") = <<"role", "password", "buttons", "delete">>
  <2>1. Column("update user") = UpdateUserColumn  BY DEF Column
  <2>2. <<"role", "password">> \o <<"buttons", "delete">> = <<"role", "password", "buttons", "delete">>
    BY TwoAndTwo
  <2> QED BY <2>1, <2>2 DEF UpdateUserColumn
<1>7. Column("users") = <<"role", "filter", "list", "add">>  BY DEF Column, UsersColumn
<1>8. Column("sockets") = <<"family", "list", "add">>  BY DEF Column, SocketsColumn
<1>9. Column("auth methods") = <<"list">>  BY DEF Column, MethodsColumn
<1> QED BY <1>1, <1>2, <1>3, <1>4, <1>5, <1>6, <1>7, <1>8, <1>9

\* The elements of each popup.
LEMMA Elements4 ==
    /\ \A kind \in ConfirmKinds : InColumn(kind) = {"buttons"}
    /\ InColumn("message") = {"ok"}
    /\ InColumn("buffer size") = {"size", "buttons"}
    /\ InColumn("add socket") = {"address", "buttons"}
    /\ InColumn("add user") = {"role", "username", "password", "buttons"}
    /\ InColumn("update user") = {"role", "password", "buttons", "delete"}
    /\ InColumn("users") = {"role", "filter", "list", "add"}
    /\ InColumn("sockets") = {"family", "list", "add"}
    /\ InColumn("auth methods") = {"list"}
<1>1. \A a : ElementsIn(<<a>>) = {a}  BY DEF ElementsIn
<1>2. \A a, b : ElementsIn(<<a, b>>) = {a, b}
  <2> TAKE a, b
  <2>1. Len(<<a, b>>) = 2 /\ 1 .. 2 = {1, 2} /\ <<a, b>>[1] = a /\ <<a, b>>[2] = b
    OBVIOUS
  <2> QED BY <2>1 DEF ElementsIn
<1>3. \A a, b, c : ElementsIn(<<a, b, c>>) = {a, b, c}
  <2> TAKE a, b, c
  <2>1. /\ Len(<<a, b, c>>) = 3 /\ 1 .. 3 = {1, 2, 3}
        /\ <<a, b, c>>[1] = a /\ <<a, b, c>>[2] = b /\ <<a, b, c>>[3] = c
    OBVIOUS
  <2> QED BY <2>1 DEF ElementsIn
<1>4. \A a, b, c, d : ElementsIn(<<a, b, c, d>>) = {a, b, c, d}
  <2> TAKE a, b, c, d
  <2>1. /\ Len(<<a, b, c, d>>) = 4
        /\ <<a, b, c, d>>[1] = a /\ <<a, b, c, d>>[2] = b /\ <<a, b, c, d>>[3] = c
        /\ <<a, b, c, d>>[4] = d
    OBVIOUS
  <2>2. PICK s : s = <<a, b, c, d>>  OBVIOUS
  <2>3. Len(s) = 4 /\ s[1] = a /\ s[2] = b /\ s[3] = c /\ s[4] = d  BY <2>1, <2>2
  <2>4. {s[i] : i \in 1 .. Len(s)} = {a, b, c, d}
    <3>1. \A x \in {s[i] : i \in 1 .. Len(s)} : x \in {a, b, c, d}
      <4> TAKE x \in {s[i] : i \in 1 .. Len(s)}
      <4>1. PICK i \in 1 .. 4 : x = s[i]  BY <2>3
      <4>2. i = 1 \/ i = 2 \/ i = 3 \/ i = 4  OBVIOUS
      <4> QED BY <2>3, <4>1, <4>2
    <3>2. \A x \in {a, b, c, d} : x \in {s[i] : i \in 1 .. Len(s)}  BY <2>3
    <3> QED BY <3>1, <3>2
  <2>5. ElementsIn(s) = {a, b, c, d}  BY <2>4 DEF ElementsIn
  <2> QED BY <2>2, <2>5
<1>5. \A kind \in ConfirmKinds : ElementsIn(Column(kind)) = {"buttons"}
  BY <1>1, Columns, Zenon
<1>6. ElementsIn(Column("message")) = {"ok"} /\ ElementsIn(Column("auth methods")) = {"list"}
  BY <1>1, Columns, Zenon
<1>7. /\ ElementsIn(Column("buffer size")) = {"size", "buttons"}
      /\ ElementsIn(Column("add socket")) = {"address", "buttons"}
  BY <1>2, Columns, Zenon
<1>8. ElementsIn(Column("sockets")) = {"family", "list", "add"}  BY <1>3, Columns, Zenon
<1>9. ElementsIn(Column("add user")) = {"role", "username", "password", "buttons"}
  <2>1. ElementsIn(<<"role", "username", "password", "buttons">>) = {"role", "username", "password", "buttons"}
    BY <1>4
  <2> QED BY <2>1, Columns
<1>10. ElementsIn(Column("update user")) = {"role", "password", "buttons", "delete"}
  <2>1. ElementsIn(<<"role", "password", "buttons", "delete">>) = {"role", "password", "buttons", "delete"}
    BY <1>4
  <2> QED BY <2>1, Columns
<1>11. ElementsIn(Column("users")) = {"role", "filter", "list", "add"}
  <2>1. ElementsIn(<<"role", "filter", "list", "add">>) = {"role", "filter", "list", "add"}
    BY <1>4
  <2> QED BY <2>1, Columns
<1> QED BY <1>5, <1>6, <1>7, <1>8, <1>9, <1>10, <1>11 DEF InColumn

\* They are the elements that take the focus.
LEMMA ElementsAre ==
    ASSUME NEW kind \in Kinds
    PROVE  /\ ElementsOf(kind) = InColumn(kind)
           /\ Len(Column(kind)) \in Nat /\ 1 <= Len(Column(kind))
<1>1. \/ kind \in ConfirmKinds \/ kind = "message" \/ kind = "buffer size" \/ kind = "add socket"
      \/ kind = "add user" \/ kind = "update user" \/ kind = "users" \/ kind = "sockets"
      \/ kind = "auth methods"
  BY DEF Kinds, FormKinds, ListKinds
<1>2. \E a, b, c, d : Column(kind) \in {<<a>>, <<a, b>>, <<a, b, c>>, <<a, b, c, d>>}
  BY <1>1, Columns
<1>3. PICK a, b, c, d : Column(kind) \in {<<a>>, <<a, b>>, <<a, b, c>>, <<a, b, c, d>>}
  BY <1>2
<1> DEFINE s == Column(kind)
<1>4. DOMAIN s = 1 .. Len(s) /\ Len(s) \in Nat /\ 1 <= Len(s)  BY <1>3
<1>5. ElementsOf(kind) = {s[i] : i \in DOMAIN s}  BY DEF ElementsOf, Range
<1> QED BY <1>4, <1>5 DEF InColumn, ElementsIn

\* What has the focus tells of which popup it is.
LEMMA KindOfElement ==
    ASSUME NEW kind \in Kinds, NEW e \in ElementsOf(kind)
    PROVE  /\ e = "buttons" => kind \in ConfirmKinds \cup FormKinds
           /\ e = "delete" => kind = "update user"
           /\ e = "ok" => kind = "message"
           /\ e = "add" => kind \in {"users", "sockets"}
           /\ e = "list" => kind \in ListKinds
           /\ e = "filter" => kind = "users"
           /\ e \in EntryNames /\ e # "filter" => kind \in FormKinds
           /\ e \in EntryNames \cup {"buttons", "list"} \cup Lamps
           /\ e \notin EntryNames \cup {"buttons", "list"} => e \in Lamps
           /\ kind \in ConfirmKinds => e = "buttons"
<1>1. e \in InColumn(kind)  BY ElementsAre
<1>2. \/ kind \in ConfirmKinds /\ e = "buttons"
      \/ kind = "message" /\ e = "ok"
      \/ kind = "buffer size" /\ e \in {"size", "buttons"}
      \/ kind = "add socket" /\ e \in {"address", "buttons"}
      \/ kind = "add user" /\ e \in {"role", "username", "password", "buttons"}
      \/ kind = "update user" /\ e \in {"role", "password", "buttons", "delete"}
      \/ kind = "users" /\ e \in {"role", "filter", "list", "add"}
      \/ kind = "sockets" /\ e \in {"family", "list", "add"}
      \/ kind = "auth methods" /\ e = "list"
  BY <1>1, Elements4 DEF Kinds, FormKinds, ListKinds
<1> QED BY <1>2 DEF ConfirmKinds, FormKinds, ListKinds, EntryNames, Lamps

\* Which popups have entries, and which a list.
LEMMA PartsOfKind ==
    ASSUME NEW kind \in Kinds
    PROVE  /\ kind \in FormKinds => EntriesOf(kind) # {}
           /\ kind \in ConfirmKinds => EntriesOf(kind) = {}
           /\ HasList(kind) <=> kind \in ListKinds
           /\ EntriesOf(kind) \subseteq ElementsOf(kind) /\ EntriesOf(kind) \subseteq EntryNames
<1>1. ElementsOf(kind) = InColumn(kind)  BY ElementsAre
<1>2. \/ kind \in ConfirmKinds /\ InColumn(kind) = {"buttons"}
      \/ kind = "message" /\ InColumn(kind) = {"ok"}
      \/ kind = "buffer size" /\ InColumn(kind) = {"size", "buttons"}
      \/ kind = "add socket" /\ InColumn(kind) = {"address", "buttons"}
      \/ kind = "add user" /\ InColumn(kind) = {"role", "username", "password", "buttons"}
      \/ kind = "update user" /\ InColumn(kind) = {"role", "password", "buttons", "delete"}
      \/ kind = "users" /\ InColumn(kind) = {"role", "filter", "list", "add"}
      \/ kind = "sockets" /\ InColumn(kind) = {"family", "list", "add"}
      \/ kind = "auth methods" /\ InColumn(kind) = {"list"}
  BY Elements4 DEF Kinds, FormKinds, ListKinds
<1>3. kind \in FormKinds => \E e \in EntryNames : e \in InColumn(kind)
  BY <1>2 DEF FormKinds, ConfirmKinds, EntryNames
<1>4. kind \in ConfirmKinds => InColumn(kind) \cap EntryNames = {}
  BY Elements4 DEF EntryNames
<1>5. "list" \in InColumn(kind) <=> kind \in ListKinds
  BY <1>2 DEF ListKinds, ConfirmKinds
<1> QED BY <1>1, <1>3, <1>4, <1>5 DEF EntriesOf, HasList

--------------------------------------------------------------------------------
(* The focus put on an element of a popup. *)

\* The three parts of a good popup.
LEMMA GoodIs ==
    ASSUME NEW p
    PROVE  PopupGood(p) <=> PopupTyped(p) /\ PopupForm(p) /\ PopupFocusTrue(p)
  BY DEF PopupGood, PopupTyped

\* A popup that differs only in its focus has as good a form.
LEMMA FormStays ==
    ASSUME NEW p, NEW q, SameForm(q, p), PopupForm(p)
    PROVE  PopupForm(q)
  BY DEF SameForm, PopupForm, Out

\* A popup that differs only in its form has its focus in one place as well.
LEMMA FocusStays ==
    ASSUME NEW p, NEW q, SameFocus(q, p), PopupFocusTrue(p)
    PROVE  PopupFocusTrue(q)
<1>1. FocusShown(q) = FocusShown(p)  BY DEF SameFocus, FocusShown
<1>2. ElementAt(q, q.at) = ElementAt(p, p.at) /\ q.cell = p.cell
      /\ q.selecting = p.selecting /\ q.list = p.list
  BY DEF SameFocus, ElementAt
<1> QED BY <1>1, <1>2 DEF PopupFocusTrue

\* What the focus of a popup is on.
LEMMA AtElement ==
    ASSUME NEW p, p.kind \in Kinds, NEW at \in 1 .. Len(Column(p.kind))
    PROVE  ElementAt(p, at) \in ElementsOf(p.kind)
  BY ElementsAre DEF ElementAt, InColumn, ElementsIn

\* The focus set, cell and index.
LEMMA PutCell ==
    ASSUME NEW p, PopupTyped(p), NEW at \in 1 .. Len(Column(p.kind)), NEW cell, cell \in BOOLEAN,
           NEW q, q = WithCell(p, at, cell)
    PROVE  /\ PopupTyped(q) /\ SameForm(q, p) /\ q.at = at /\ q.cell = cell
           /\ q.lit = p.lit /\ q.side = p.side /\ q.selecting = p.selecting
           /\ q.entries = p.entries /\ q.list = p.list
<1>1. at \in Nat  BY ElementsAre DEF PopupTyped
<1>2. q \in PopupOf(p.kind) /\ q.kind = p.kind  BY <1>1 DEF PopupOf, PopupTyped, WithCell
<1>3. /\ SameForm(q, p) /\ q.at = at /\ q.cell = cell
      /\ q.lit = p.lit /\ q.side = p.side /\ q.selecting = p.selecting
      /\ q.entries = p.entries /\ q.list = p.list
  BY DEF PopupTyped, PopupOf, SameForm, WithCell, WithEntry, WithSide, WithLit, WithLamp, WithList
<1> QED BY <1>2, <1>3 DEF PopupTyped

\* The entries of a popup.
LEMMA EntryOfPopup ==
    ASSUME NEW p, PopupTyped(p), NEW e \in EntriesOf(p.kind)
    PROVE  p.entries \in [EntriesOf(p.kind) -> Entries] /\ p.entries[e] \in Entries
           /\ EntryGood(p.entries[e])
  BY DEF PopupTyped, PopupOf

\* An entry set.
LEMMA PutEntry ==
    ASSUME NEW p, PopupTyped(p), NEW e \in EntriesOf(p.kind), NEW v, EntryGood(v),
           NEW q, q = WithEntry(p, e, v)
    PROVE  /\ PopupTyped(q) /\ SameForm(q, p) /\ q.at = p.at /\ q.cell = p.cell
           /\ q.lit = p.lit /\ q.side = p.side /\ q.selecting = p.selecting
           /\ q.entries[e] = v /\ q.list = p.list
           /\ \A f \in EntriesOf(p.kind) : f # e => q.entries[f] = p.entries[f]
<1>1. PICK entries : entries = [p.entries EXCEPT ![e] = v]  OBVIOUS
<1>2. v \in Entries  BY DEF EntryGood
<1>3. /\ entries \in [EntriesOf(p.kind) -> Entries] /\ entries[e] = v
      /\ \A f \in EntriesOf(p.kind) : f # e => entries[f] = p.entries[f]
  BY <1>1, <1>2, EntryOfPopup
<1>4. q = [p EXCEPT !.entries = entries]  BY <1>1 DEF WithEntry
<1>5. q \in PopupOf(p.kind) /\ q.kind = p.kind  BY <1>3, <1>4 DEF PopupOf, PopupTyped
<1>6. /\ SameForm(q, p) /\ q.at = p.at /\ q.cell = p.cell
      /\ q.lit = p.lit /\ q.side = p.side /\ q.selecting = p.selecting
      /\ q.entries = entries /\ q.list = p.list
  BY <1>4 DEF PopupTyped, PopupOf, SameForm
<1>7. \A f \in EntriesOf(q.kind) : EntryGood(q.entries[f])
  BY <1>3, <1>5, <1>6, EntryOfPopup
<1>8. q.kind \in Kinds /\ q.at \in 1 .. Len(Column(q.kind))  BY <1>5, <1>6 DEF PopupTyped
<1> QED BY <1>3, <1>5, <1>6, <1>7, <1>8 DEF PopupTyped

\* The other marks of the focus set.
LEMMA PutSide ==
    ASSUME NEW p, PopupTyped(p), NEW side \in {"none", "left", "right"},
           NEW q, q = WithSide(p, side)
    PROVE  /\ PopupTyped(q) /\ SameForm(q, p) /\ q.at = p.at /\ q.cell = p.cell
           /\ q.lit = p.lit /\ q.side = side /\ q.selecting = p.selecting
           /\ q.entries = p.entries /\ q.list = p.list
<1>1. q \in PopupOf(p.kind) /\ q.kind = p.kind
  BY DEF PopupOf, PopupTyped, WithCell, WithEntry, WithSide, WithLit, WithLamp, WithList
<1>2. /\ SameForm(q, p) /\ q.at = p.at /\ q.cell = p.cell
      /\ q.lit = p.lit /\ q.side = side /\ q.selecting = p.selecting
      /\ q.entries = p.entries /\ q.list = p.list
  BY DEF PopupTyped, PopupOf, SameForm, WithCell, WithEntry, WithSide, WithLit, WithLamp, WithList
<1> QED BY <1>1, <1>2 DEF PopupTyped

\* The lamps set.
LEMMA PutLit ==
    ASSUME NEW p, PopupTyped(p), NEW lit \in SUBSET Lamps, NEW selecting \in BOOLEAN,
           NEW q, q = WithLit(p, lit, selecting)
    PROVE  /\ PopupTyped(q) /\ SameForm(q, p) /\ q.at = p.at /\ q.cell = p.cell
           /\ q.lit = lit /\ q.side = p.side /\ q.selecting = selecting
           /\ q.entries = p.entries /\ q.list = p.list
<1>1. q \in PopupOf(p.kind) /\ q.kind = p.kind
  BY DEF PopupOf, PopupTyped, WithCell, WithEntry, WithSide, WithLit, WithLamp, WithList
<1>2. /\ SameForm(q, p) /\ q.at = p.at /\ q.cell = p.cell
      /\ q.lit = lit /\ q.side = p.side /\ q.selecting = selecting
      /\ q.entries = p.entries /\ q.list = p.list
  BY DEF PopupTyped, PopupOf, SameForm, WithCell, WithEntry, WithSide, WithLit, WithLamp, WithList
<1> QED BY <1>1, <1>2 DEF PopupTyped

\* The list set.
LEMMA PutList ==
    ASSUME NEW p, PopupTyped(p), NEW list \in Lists,
           NEW q, q = WithList(p, list)
    PROVE  /\ PopupTyped(q) /\ SameForm(q, p) /\ q.at = p.at /\ q.cell = p.cell
           /\ q.lit = p.lit /\ q.side = p.side /\ q.selecting = p.selecting
           /\ q.entries = p.entries /\ q.list = list
<1>1. q \in PopupOf(p.kind) /\ q.kind = p.kind
  BY DEF PopupOf, PopupTyped, WithCell, WithEntry, WithSide, WithLit, WithLamp, WithList
<1>2. /\ SameForm(q, p) /\ q.at = p.at /\ q.cell = p.cell
      /\ q.lit = p.lit /\ q.side = p.side /\ q.selecting = p.selecting
      /\ q.entries = p.entries /\ q.list = list
  BY DEF PopupTyped, PopupOf, SameForm, WithCell, WithEntry, WithSide, WithLit, WithLamp, WithList
<1> QED BY <1>1, <1>2 DEF PopupTyped

\* What of the list gets the focus.
LEMMA ListFocusIs ==
    ASSUME NEW list \in Lists
    PROVE  /\ Listed!ListFocused(list) \in Lists /\ ListUnfocused(list) \in Lists
           /\ ListUnfocused(list).selected = NoIndex
           /\ LET q == Listed!ListFocused(list)
              IN  q.count = list.count /\ (q.selected # NoIndex => q.selected < q.count)
<1>1. PICK s : s = Listed!StartIndex(list)  OBVIOUS
<1>2. list.count \in Nat /\ NoIndex \notin Int  BY LongListAssumption DEF Lists, ListsOf
<1>3. s = IF list.count = 0 THEN NoIndex ELSE 0  BY <1>1 DEF Listed!StartIndex
<1>4. s \in Nat \cup {NoIndex}  BY <1>3
<1>5. Listed!ListFocused(list) = [list EXCEPT !.selected = s]
  BY <1>1 DEF Listed!ListFocused
<1>6. [list EXCEPT !.selected = s] \in Lists  BY <1>4 DEF Lists, ListsOf
<1>7. [list EXCEPT !.selected = s].count = list.count /\ [list EXCEPT !.selected = s].selected = s
  BY DEF Lists, ListsOf
<1>8. s # NoIndex => s < list.count  BY <1>2, <1>3
<1>9. ListUnfocused(list) \in Lists /\ ListUnfocused(list).selected = NoIndex
  BY DEF ListUnfocused, Lists, ListsOf
<1> QED BY <1>5, <1>6, <1>7, <1>8, <1>9

\* A lamp lit.
LEMMA PutLamp ==
    ASSUME NEW p, PopupTyped(p), NEW lit \in SUBSET Lamps, NEW q, q = WithLamp(p, lit)
    PROVE  /\ PopupTyped(q) /\ SameForm(q, p) /\ q.at = p.at /\ q.cell = p.cell
           /\ q.lit = lit /\ q.side = p.side /\ q.selecting = p.selecting
           /\ q.entries = p.entries /\ q.list = p.list
<1>1. q \in PopupOf(p.kind) /\ q.kind = p.kind
  BY DEF PopupOf, PopupTyped, WithCell, WithEntry, WithSide, WithLit, WithLamp, WithList
<1>2. /\ SameForm(q, p) /\ q.at = p.at /\ q.cell = p.cell
      /\ q.lit = lit /\ q.side = p.side /\ q.selecting = p.selecting
      /\ q.entries = p.entries /\ q.list = p.list
  BY DEF PopupTyped, PopupOf, SameForm, WithCell, WithEntry, WithSide, WithLit, WithLamp, WithList
<1> QED BY <1>1, <1>2 DEF PopupTyped

\* What shows the focus.
LEMMA ShownIs ==
    ASSUME NEW p, PopupTyped(p)
    PROVE  /\ \A e \in EntriesOf(p.kind) : e \in FocusShown(p) <=> e \in p.lit \/ p.entries[e].cursor # NoCursor
           /\ \A e : e \in FocusShown(p) <=>
                 \/ e \in p.lit
                 \/ e \in EntriesOf(p.kind) /\ p.entries[e].cursor # NoCursor
                 \/ e = "buttons" /\ p.side # "none"
                 \/ e = "list" /\ p.list.selected # NoIndex
<1>1. DOMAIN p.entries = EntriesOf(p.kind)  BY DEF PopupTyped, PopupOf
<1>2. \A e : e \in FocusShown(p) <=>
                 \/ e \in p.lit
                 \/ e \in EntriesOf(p.kind) /\ p.entries[e].cursor # NoCursor
                 \/ e = "buttons" /\ p.side # "none"
                 \/ e = "list" /\ p.list.selected # NoIndex
  BY <1>1 DEF FocusShown
<1>3. \A e \in EntriesOf(p.kind) : e # "buttons" /\ e # "list"
  BY PartsOfKind DEF EntryNames, PopupTyped
<1> QED BY <1>2, <1>3

\* The focus is put on an element.
LEMMA FocusOnGood ==
    ASSUME NEW p, Blank(p), NEW at \in 1 .. Len(Column(p.kind)), NEW side \in {"left", "right"},
           NEW r, r = FocusOn(p, at, side)
    PROVE  PopupTyped(r) /\ PopupFocusTrue(r) /\ SameForm(r, p) /\ r.cell /\ r.at = at
<1>1. PICK e : e = ElementAt(p, at)  OBVIOUS
<1>2. PICK q : q = WithCell(p, at, TRUE)  OBVIOUS
<1>3. /\ PopupTyped(q) /\ SameForm(q, p) /\ q.at = at /\ q.cell = TRUE /\ q.kind = p.kind
      /\ q.lit = {} /\ q.side = "none" /\ ~q.selecting /\ q.list.selected = NoIndex
      /\ \A f \in EntriesOf(q.kind) : q.entries[f].cursor = NoCursor
  <2>1. PopupTyped(p)  BY DEF Blank
  <2>2. PICK b : b = TRUE  OBVIOUS
  <2>3. q = WithCell(p, at, b) /\ b \in BOOLEAN  BY <1>2, <2>2
  <2>4. /\ PopupTyped(q) /\ SameForm(q, p) /\ q.at = at /\ q.cell = b
        /\ q.lit = p.lit /\ q.side = p.side /\ q.selecting = p.selecting
        /\ q.entries = p.entries /\ q.list = p.list
    BY <2>1, <2>3, PutCell
  <2> QED BY <2>2, <2>4 DEF Blank, SameForm
<1>4. e \in ElementsOf(q.kind) /\ e = ElementAt(q, at)
  BY <1>1, <1>3, AtElement DEF PopupTyped, ElementAt
<1>5. q.kind \in Kinds  BY <1>3 DEF PopupTyped
<1>6. SUFFICES /\ PopupTyped(r) /\ SameForm(r, q) /\ r.cell = TRUE /\ r.at = at
               /\ \A f \in FocusShown(r) : f = e
               /\ FocusShown(r) # {} \/ e = "list"
               /\ ~r.selecting
               /\ r.list.selected # NoIndex => r.list.selected < r.list.count
  <2>1. ElementAt(r, r.at) = e /\ SameForm(r, p)
    BY <1>3, <1>4, <1>6 DEF ElementAt, SameForm
  <2> QED BY <1>6, <2>1 DEF PopupFocusTrue
<1>7. CASE e \in EntryNames
  <2>1. e \in EntriesOf(q.kind)  BY <1>4, <1>7 DEF EntriesOf
  <2>2. r = WithEntry(q, e, EntryFocused(q.entries[e]))
    <3>1. q = [p EXCEPT !.at = at, !.cell = TRUE]  BY <1>2 DEF WithCell
    <3>2. r = [q EXCEPT !.entries[e] = EntryFocused(@)]
      <4>1. FocusOn(p, at, side) =
              CASE e \in EntryNames -> [q EXCEPT !.entries[e] = EntryFocused(@)]
                [] e = "buttons" -> [q EXCEPT !.side = side]
                [] e = "list" -> [q EXCEPT !.list = Listed!ListFocused(@)]
                [] OTHER -> [q EXCEPT !.lit = @ \cup {e}]
        BY <1>1, <3>1, Zenon DEF FocusOn
      <4>2. e # "buttons" /\ e # "list"  BY <1>7 DEF EntryNames
      <4>3. (CASE e \in EntryNames -> [q EXCEPT !.entries[e] = EntryFocused(@)]
                [] e = "buttons" -> [q EXCEPT !.side = side]
                [] e = "list" -> [q EXCEPT !.list = Listed!ListFocused(@)]
                [] OTHER -> [q EXCEPT !.lit = @ \cup {e}]) = [q EXCEPT !.entries[e] = EntryFocused(@)]
        BY <1>7, <4>2
      <4> QED BY <4>1, <4>3, Zenon
    <3>3. [q EXCEPT !.entries[e] = EntryFocused(@)] = WithEntry(q, e, EntryFocused(q.entries[e]))
      BY Zenon DEF WithEntry
    <3> QED BY <3>2, <3>3
  <2>3. PICK v : v = EntryFocused(q.entries[e])  OBVIOUS
  <2>4. EntryGood(v) /\ v.cursor # NoCursor
    BY <1>3, <2>1, <2>3, FocusedGood, EntryOfPopup
  <2>5. r = WithEntry(q, e, v)  BY <2>2, <2>3
  <2>6. /\ PopupTyped(r) /\ SameForm(r, q) /\ r.at = q.at /\ r.cell = q.cell
        /\ r.lit = q.lit /\ r.side = q.side /\ r.selecting = q.selecting
        /\ r.entries[e] = v /\ r.list = q.list
        /\ \A f \in EntriesOf(q.kind) : f # e => r.entries[f] = q.entries[f]
    BY <1>3, <2>1, <2>4, <2>5, PutEntry
  <2>7. r.kind = q.kind  BY <2>6 DEF SameForm
  <2>8. \A f : f \in FocusShown(r) <=> f = e  BY <1>3, <2>1, <2>4, <2>6, <2>7, ShownIs
  <2> QED BY <1>3, <2>6, <2>8
<1>8. CASE e = "buttons"
  <2>1. r = WithSide(q, side)
    BY <1>1, <1>2, <1>8 DEF FocusOn, EntryNames, WithSide, WithCell
  <2>2. /\ PopupTyped(r) /\ SameForm(r, q) /\ r.at = q.at /\ r.cell = q.cell
        /\ r.lit = q.lit /\ r.side = side /\ r.selecting = q.selecting
        /\ r.entries = q.entries /\ r.list = q.list
    BY <1>3, <2>1, PutSide
  <2>3. r.kind = q.kind  BY <2>2 DEF SameForm
  <2>4. \A f : f \in FocusShown(r) <=> f = e  BY <1>3, <1>8, <2>2, <2>3, ShownIs
  <2> QED BY <1>3, <2>2, <2>4
<1>9. CASE e = "list"
  <2>1. r = WithList(q, Listed!ListFocused(q.list))
    BY <1>1, <1>2, <1>9 DEF FocusOn, EntryNames, WithList, WithCell
  <2>2. PICK list : list = Listed!ListFocused(q.list)  OBVIOUS
  <2>3. q.list \in Lists  BY <1>3 DEF PopupTyped, PopupOf
  <2>4. list \in Lists /\ (list.selected # NoIndex => list.selected < list.count)
    BY <2>2, <2>3, ListFocusIs
  <2>5. /\ PopupTyped(r) /\ SameForm(r, q) /\ r.at = q.at /\ r.cell = q.cell
        /\ r.lit = q.lit /\ r.side = q.side /\ r.selecting = q.selecting
        /\ r.entries = q.entries /\ r.list = list
    BY <1>3, <2>1, <2>2, <2>4, PutList
  <2>6. r.kind = q.kind  BY <2>5 DEF SameForm
  <2>7. \A f : f \in FocusShown(r) => f = e  BY <1>3, <1>9, <2>5, <2>6, ShownIs
  <2> QED BY <1>3, <1>9, <2>4, <2>5, <2>7
<1>10. CASE e \notin EntryNames /\ e # "buttons" /\ e # "list"
  <2>1. e \in Lamps  BY <1>4, <1>5, <1>10, KindOfElement
  <2>2. r = WithLamp(q, q.lit \cup {e})
    BY <1>1, <1>2, <1>10 DEF FocusOn, WithLamp, WithCell
  <2>3. q.lit \cup {e} \in SUBSET Lamps  BY <1>3, <2>1
  <2>4. /\ PopupTyped(r) /\ SameForm(r, q) /\ r.at = q.at /\ r.cell = q.cell
        /\ r.lit = q.lit \cup {e} /\ r.side = q.side /\ r.selecting = q.selecting
        /\ r.entries = q.entries /\ r.list = q.list
    BY <1>3, <2>2, <2>3, PutLamp
  <2>5. r.kind = q.kind  BY <2>4 DEF SameForm
  <2>6. \A f : f \in FocusShown(r) <=> f = e  BY <1>3, <2>4, <2>5, ShownIs
  <2> QED BY <1>3, <2>4, <2>6
<1> QED BY <1>7, <1>8, <1>9, <1>10

--------------------------------------------------------------------------------
(* The focus taken away, and passed on. *)

\* A popup without the focus shows none.
LEMMA BlankWithout ==
    ASSUME NEW p, PopupTyped(p), PopupFocusTrue(p), ~p.cell
    PROVE  Blank(p)
<1>1. \A e : e \notin FocusShown(p)  BY DEF PopupFocusTrue
<1>2. ~p.selecting  BY DEF PopupFocusTrue
<1>3. p.lit \in SUBSET Lamps  BY DEF PopupTyped, PopupOf
<1> QED BY <1>1, <1>2, <1>3, ShownIs DEF Blank

\* And a popup that shows none has its focus in one place.
LEMMA BlankFocus ==
    ASSUME NEW p, Blank(p), ~p.cell
    PROVE  PopupFocusTrue(p)
<1>1. PopupTyped(p)  BY DEF Blank
<1>2. \A e : e \notin FocusShown(p)  BY <1>1, ShownIs DEF Blank
<1> QED BY <1>2 DEF PopupFocusTrue, Blank

\* The focus is taken from where it is.
LEMMA FocusOffGood ==
    ASSUME NEW p, PopupTyped(p), PopupFocusTrue(p), HasFocus(p), Movable(p), NEW r, r = FocusOff(p)
    PROVE  Blank(r) /\ SameForm(r, p) /\ r.cell = p.cell /\ r.at = p.at
<1>1. PICK e : e = ElementAt(p, p.at)  OBVIOUS
<1>2. e \in ElementsOf(p.kind) /\ p.kind \in Kinds  BY <1>1, AtElement DEF PopupTyped
<1>3. \A f : f \in FocusShown(p) => f = e  BY <1>1 DEF PopupFocusTrue, HasFocus
<1>4. p.selecting => e \in {"role", "family"}
  BY <1>1 DEF PopupFocusTrue, OptionsOf, HasFocus
<1>5. ~(e \in {"buttons", "delete"} /\ ~p.shown)  BY <1>1 DEF Movable
<1>6. p.lit \in SUBSET Lamps /\ p.list \in Lists  BY DEF PopupTyped, PopupOf
<1>7. FocusOff(p) =
         CASE e \in {"buttons", "delete"} /\ ~p.shown -> p
           [] e = "buttons" /\ p.shown -> WithSide(p, "none")
           [] e \in EntryNames -> WithEntry(p, e, EntryUnfocused(p.entries[e]))
           [] e = "list" -> WithList(p, ListUnfocused(p.list))
           [] OTHER -> WithLit(p, p.lit \ {e}, FALSE)
  BY <1>1, Zenon DEF FocusOff, WithSide, WithEntry, WithList, WithLit
<1>8. CASE e = "buttons"
  <2>1. r = WithSide(p, "none")  BY <1>5, <1>7, <1>8 DEF EntryNames
  <2>2. /\ PopupTyped(r) /\ SameForm(r, p) /\ r.at = p.at /\ r.cell = p.cell
        /\ r.lit = p.lit /\ r.side = "none" /\ r.selecting = p.selecting
        /\ r.entries = p.entries /\ r.list = p.list
    BY <2>1, PutSide
  <2>3. r.kind = p.kind  BY <2>2 DEF SameForm
  <2>4. e \notin Lamps /\ e # "list"  BY <1>8 DEF Lamps
  <2>5. p.lit = {} /\ p.list.selected = NoIndex /\ \A f \in EntriesOf(p.kind) : p.entries[f].cursor = NoCursor
    BY <1>2, <1>3, <1>6, <1>8, <2>4, ShownIs, PartsOfKind DEF EntryNames
  <2> QED BY <1>4, <1>8, <2>2, <2>3, <2>5 DEF Blank
<1>9. CASE e \in EntryNames
  <2>1. e \in EntriesOf(p.kind) /\ e # "buttons" /\ e # "list" /\ e \notin Lamps /\ e # "delete"
    BY <1>2, <1>9 DEF EntriesOf, EntryNames, Lamps
  <2>2. PICK v : v = EntryUnfocused(p.entries[e])  OBVIOUS
  <2>3. EntryGood(v) /\ v.cursor = NoCursor  BY <2>1, <2>2, EntryOfPopup, UnfocusedGood
  <2>4. r = WithEntry(p, e, v)  BY <1>5, <1>7, <1>9, <2>1, <2>2
  <2>5. /\ PopupTyped(r) /\ SameForm(r, p) /\ r.at = p.at /\ r.cell = p.cell
        /\ r.lit = p.lit /\ r.side = p.side /\ r.selecting = p.selecting
        /\ r.entries[e] = v /\ r.list = p.list
        /\ \A f \in EntriesOf(p.kind) : f # e => r.entries[f] = p.entries[f]
    BY <2>1, <2>3, <2>4, PutEntry
  <2>6. r.kind = p.kind  BY <2>5 DEF SameForm
  <2>7. /\ p.lit = {} /\ p.list.selected = NoIndex /\ p.side = "none"
        /\ \A f \in EntriesOf(p.kind) : f # e => p.entries[f].cursor = NoCursor
    BY <1>3, <1>6, <2>1, ShownIs
  <2>8. ~p.selecting  BY <1>4, <1>9 DEF EntryNames
  <2> QED BY <2>3, <2>5, <2>6, <2>7, <2>8 DEF Blank
<1>10. CASE e = "list"
  <2>1. PICK list : list = ListUnfocused(p.list)  OBVIOUS
  <2>2. list \in Lists /\ list.selected = NoIndex  BY <1>6, <2>1, ListFocusIs
  <2>3. r = WithList(p, list)  BY <1>5, <1>7, <1>10, <2>1 DEF EntryNames
  <2>4. /\ PopupTyped(r) /\ SameForm(r, p) /\ r.at = p.at /\ r.cell = p.cell
        /\ r.lit = p.lit /\ r.side = p.side /\ r.selecting = p.selecting
        /\ r.entries = p.entries /\ r.list = list
    BY <2>2, <2>3, PutList
  <2>5. r.kind = p.kind  BY <2>4 DEF SameForm
  <2>6. e \notin Lamps /\ e # "buttons"  BY <1>10 DEF Lamps
  <2>7. p.lit = {} /\ p.side = "none" /\ \A f \in EntriesOf(p.kind) : p.entries[f].cursor = NoCursor
    BY <1>2, <1>3, <1>6, <1>10, <2>6, ShownIs, PartsOfKind DEF EntryNames
  <2> QED BY <1>4, <1>10, <2>2, <2>4, <2>5, <2>7 DEF Blank
<1>11. CASE e \notin EntryNames /\ e # "buttons" /\ e # "list"
  <2>1. PICK lit : lit = p.lit \ {e}  OBVIOUS
  <2>2. lit \in SUBSET Lamps /\ lit = {}  BY <1>3, <1>6, <2>1, ShownIs
  <2>3. PICK b : b = FALSE  OBVIOUS
  <2>4. r = WithLit(p, lit, b) /\ b \in BOOLEAN  BY <1>5, <1>7, <1>11, <2>1, <2>3
  <2>5. /\ PopupTyped(r) /\ SameForm(r, p) /\ r.at = p.at /\ r.cell = p.cell
        /\ r.lit = lit /\ r.side = p.side /\ r.selecting = b
        /\ r.entries = p.entries /\ r.list = p.list
    BY <2>2, <2>4, PutLit
  <2>6. r.kind = p.kind  BY <2>5 DEF SameForm
  <2>7. \A f \in EntriesOf(p.kind) : f # e  BY <1>2, <1>11, PartsOfKind
  <2>8. /\ p.side = "none" /\ p.list.selected = NoIndex
        /\ \A f \in EntriesOf(p.kind) : p.entries[f].cursor = NoCursor
    BY <1>3, <1>11, <2>7, ShownIs
  <2> QED BY <2>2, <2>3, <2>5, <2>6, <2>8 DEF Blank
<1> QED BY <1>8, <1>9, <1>10, <1>11

\* A popup loses the focus.
LEMMA PopupUnfocusedGood ==
    ASSUME NEW p, PopupTyped(p), PopupFocusTrue(p), p.cell => Movable(p),
           NEW r, r = PopupUnfocused(p)
    PROVE  PopupTyped(r) /\ PopupFocusTrue(r) /\ SameForm(r, p) /\ ~r.cell /\ r.entries \in [EntriesOf(p.kind) -> Entries]
<1>1. CASE ~p.cell  BY <1>1 DEF PopupUnfocused, SameForm, PopupTyped, PopupOf
<1>2. CASE p.cell
  <2>1. PICK q, b : q = FocusOff(p) /\ b = FALSE  OBVIOUS
  <2>2. Blank(q) /\ SameForm(q, p) /\ q.at = p.at
    BY <1>2, <2>1, FocusOffGood DEF HasFocus
  <2>3. PopupTyped(q) /\ q \in PopupOf(q.kind)  BY <2>2 DEF Blank, PopupTyped
  <2>4. r = [q EXCEPT !.cell = b]  BY <1>2, <2>1 DEF PopupUnfocused
  <2>5. [q EXCEPT !.cell = b] = WithCell(q, q.at, b)  BY <2>3 DEF WithCell, PopupOf
  <2>6. r = WithCell(q, q.at, b) /\ b \in BOOLEAN /\ q.at \in 1 .. Len(Column(q.kind))
    BY <2>1, <2>3, <2>4, <2>5 DEF PopupTyped
  <2>7. PICK at : at = q.at  OBVIOUS
  <2>8. /\ PopupTyped(r) /\ SameForm(r, q) /\ r.at = at /\ r.cell = b
        /\ r.lit = q.lit /\ r.side = q.side /\ r.selecting = q.selecting
        /\ r.entries = q.entries /\ r.list = q.list
    BY <2>3, <2>6, <2>7, PutCell
  <2>9. Blank(r) /\ ~r.cell  BY <2>1, <2>2, <2>8 DEF Blank, SameForm
  <2>10. SameForm(r, p) /\ r.kind = p.kind  BY <2>2, <2>8 DEF SameForm
  <2> QED BY <2>8, <2>9, <2>10, BlankFocus DEF PopupTyped, PopupOf
<1>3. p.cell \in BOOLEAN  BY DEF PopupTyped, PopupOf
<1> QED BY <1>1, <1>2, <1>3

\* The indices the focus may be passed to.
LEMMA NextIs ==
    ASSUME NEW n \in Nat, NEW at \in 1 .. n
    PROVE  Max({at - 1, 1}) \in 1 .. n /\ Min({at + 1, n}) \in 1 .. n
<1>1. Max({at - 1, 1}) = IF at - 1 > 1 THEN at - 1 ELSE 1
  <2>1. \A a, b \in Int : Max({a, b}) = IF a > b THEN a ELSE b  BY MaxTwo
  <2> QED BY <2>1
<1>2. Min({at + 1, n}) = IF at + 1 < n THEN at + 1 ELSE n  BY MinTwo
<1> QED BY <1>1, <1>2

\* The focus is passed on.
LEMMA PopupPassedGood ==
    ASSUME NEW p, PopupTyped(p), PopupFocusTrue(p), HasFocus(p), Movable(p),
           NEW direction, NEW r, r = PopupPassed(p, direction)
    PROVE  PopupTyped(r) /\ PopupFocusTrue(r) /\ SameForm(r, p)
<1>1. PICK n : n = Len(Column(p.kind))  OBVIOUS
<1>2. n \in Nat /\ p.at \in 1 .. n  BY <1>1, ElementsAre DEF PopupTyped
<1>3. PICK next :
         next = CASE direction = "up" -> Max({p.at - 1, 1})
                  [] direction = "down" -> Min({p.at + 1, n})
                  [] OTHER -> IF p.at = n \/ ~Accepts(p, ElementAt(p, p.at + 1)) THEN 1
                              ELSE p.at + 1
  OBVIOUS
<1>4. next \in 1 .. n
  <2>1. PICK at : at = p.at  OBVIOUS
  <2>2. Max({p.at - 1, 1}) \in 1 .. n /\ Min({p.at + 1, n}) \in 1 .. n
    BY <1>2, <2>1, NextIs
  <2>3. p.at # n => p.at + 1 \in 1 .. n  BY <1>2
  <2>4. 1 \in 1 .. n  BY <1>2
  <2> QED BY <1>3, <2>2, <2>3, <2>4
<1>5. r = PopupUnfocused(p) \/ r = FocusOn(FocusOff(p), next, "left") \/ r = p
  <2>1. PopupPassed(p, direction) =
          CASE direction = "away" -> PopupUnfocused(p)
            [] direction = "forward" -> FocusOn(FocusOff(p), next, "left")
            [] direction \in {"up", "down"} /\ next # p.at /\ Accepts(p, ElementAt(p, next)) ->
                  FocusOn(FocusOff(p), next, "left")
            [] OTHER -> p
    BY <1>1, <1>3, Zenon DEF PopupPassed
  <2> QED BY <2>1
<1>6. CASE r = PopupUnfocused(p)  BY <1>6, PopupUnfocusedGood
<1>7. CASE r = FocusOn(FocusOff(p), next, "left")
  <2>1. PICK q, side : q = FocusOff(p) /\ side = "left"  OBVIOUS
  <2>2. Blank(q) /\ SameForm(q, p)  BY <2>1, FocusOffGood
  <2>3. next \in 1 .. Len(Column(q.kind)) /\ side \in {"left", "right"} /\ r = FocusOn(q, next, side)
    BY <1>1, <1>4, <1>7, <2>1, <2>2 DEF SameForm
  <2>4. PopupTyped(r) /\ PopupFocusTrue(r) /\ SameForm(r, q)  BY <2>2, <2>3, FocusOnGood
  <2> QED BY <2>2, <2>4 DEF SameForm
<1>8. CASE r = p  BY <1>8 DEF SameForm
<1> QED BY <1>5, <1>6, <1>7, <1>8

\* A popup that has no focus is given it.
LEMMA FocusInGood ==
    ASSUME NEW p, PopupTyped(p), PopupFocusTrue(p), NEW code, NEW r, r = FocusIn(p, code)
    PROVE  /\ PopupTyped(r.popup) /\ PopupFocusTrue(r.popup) /\ SameForm(r.popup, p)
           /\ r.sent = <<>>
<1>1. \/ ~p.cell /\ r = Handled(FocusOn(p, 1, IF code = "Left" THEN "right" ELSE "left"))
      \/ r = Unhandled(p)
  BY DEF FocusIn
<1>2. CASE r = Unhandled(p)
  <2>1. r.popup = p /\ r.sent = <<>>  BY <1>2 DEF Unhandled
  <2> QED BY <2>1 DEF SameForm
<1>3. CASE ~p.cell /\ r = Handled(FocusOn(p, 1, IF code = "Left" THEN "right" ELSE "left"))
  <2>1. PICK q, side, at : side = (IF code = "Left" THEN "right" ELSE "left") /\ at = 1 /\ q = FocusOn(p, at, side)
    OBVIOUS
  <2>2. r.popup = q /\ r.sent = <<>>  BY <1>3, <2>1 DEF Handled
  <2>3. at \in 1 .. Len(Column(p.kind)) /\ side \in {"left", "right"}
    BY <2>1, ElementsAre DEF PopupTyped
  <2>4. Blank(p)  BY <1>3, BlankWithout
  <2>5. PopupTyped(q) /\ PopupFocusTrue(q) /\ SameForm(q, p)
    BY <2>1, <2>3, <2>4, FocusOnGood
  <2> QED BY <2>2, <2>5
<1> QED BY <1>1, <1>2, <1>3

--------------------------------------------------------------------------------
(* What the elements of a popup do. *)

\* A good popup is a good result, whether the key was handled or not.
LEMMA StatusGood ==
    ASSUME NEW p, NEW q, Reaction(q, p)
    PROVE  /\ ResultGood(Handled(q), p) /\ ResultGood(Unhandled(q), p)
           /\ Handled(q).popup = q /\ Unhandled(q).popup = q
  BY DEF ResultGood, Handled, Unhandled, Reaction

\* Nothing changes, and that is a good result.
LEMMA SameGood ==
    ASSUME NEW p, PopupGood(p)
    PROVE  Reaction(p, p) /\ ResultGood(Handled(p), p) /\ ResultGood(Unhandled(p), p)
<1>1. Reaction(p, p)  BY DEF Reaction
<1> QED BY <1>1, StatusGood

\* A popup that differs only in its form is as good, with such a form.
LEMMA PutForm ==
    ASSUME NEW p, PopupGood(p), NEW q, q \in PopupOf(p.kind), SameFocus(q, p), PopupForm(q)
    PROVE  Reaction(q, p)
<1>1. PopupTyped(p) /\ PopupFocusTrue(p)  BY GoodIs
<1>2. PopupTyped(q)  BY <1>1 DEF PopupTyped, SameFocus
<1>3. PopupFocusTrue(q)  BY <1>1, FocusStays
<1> QED BY <1>2, <1>3, GoodIs DEF Reaction, SameFocus

\* And one that differs only in its focus, with such a focus.
LEMMA PutFocus ==
    ASSUME NEW p, PopupGood(p), NEW q, PopupTyped(q), PopupFocusTrue(q), SameForm(q, p)
    PROVE  Reaction(q, p)
<1>1. PopupForm(q)  BY FormStays, GoodIs
<1> QED BY <1>1, GoodIs DEF Reaction, SameForm

\* The levels, one by one.
LEMMA LevelIs ==
    /\ Level("users") = 1 /\ Level("sockets") = 1 /\ Level("auth methods") = 1
    /\ Level("add user") = 2 /\ Level("update user") = 2 /\ Level("add socket") = 2
    /\ Level("close socket") = 2 /\ Level("delete user") = 3 /\ Level("message") = 4
    /\ Level("close") = 1 /\ Level("shutdown") = 1 /\ Level("buffer size") = 1
<1>1. /\ Level("users") = 1 /\ Level("sockets") = 1 /\ Level("auth methods") = 1
      /\ Level("add user") = 2 /\ Level("update user") = 2 /\ Level("add socket") = 2
      /\ Level("close socket") = 2 /\ Level("delete user") = 3 /\ Level("message") = 4
  BY DEF Level, ListKinds
<1>2. Level("close") = 1 /\ Level("shutdown") = 1 /\ Level("buffer size") = 1
  BY DEF Level, ListKinds
<1> QED BY <1>1, <1>2

\* The message is above all.
LEMMA LevelBounds ==
    ASSUME NEW kind \in Kinds
    PROVE  Level(kind) \in Nat /\ (kind = "message" \/ Level(kind) < 4)
<1>1. \/ kind = "users" \/ kind = "sockets" \/ kind = "auth methods" \/ kind = "add user"
      \/ kind = "update user" \/ kind = "add socket" \/ kind = "close socket"
      \/ kind = "delete user" \/ kind = "message" \/ kind = "close" \/ kind = "shutdown"
      \/ kind = "buffer size"
  BY DEF Kinds, ConfirmKinds, FormKinds, ListKinds
<1>2. \/ kind = "message" /\ Level(kind) = 4
      \/ Level(kind) = 1 \/ Level(kind) = 2 \/ Level(kind) = 3
  BY <1>1, LevelIs, Zenon
<1> QED BY <1>2

\* Which popup is under which.
LEMMA UnderIs ==
    /\ Under("update user", "delete user")
    /\ Under("users", "add user") /\ Under("users", "update user")
    /\ Under("sockets", "add socket") /\ Under("sockets", "close socket")
    /\ \A kind \in Kinds : kind # "message" => Under(kind, "message")
    /\ \A a, b, c \in Kinds : Under(a, b) /\ Under(b, c) => Under(a, c)
    /\ \A a \in Kinds : ~Under(a, a)
<1>1. /\ Under("update user", "delete user")
      /\ Under("users", "add user") /\ Under("users", "update user")
      /\ Under("sockets", "add socket") /\ Under("sockets", "close socket")
  <2>1. 1 < 2 /\ 2 < 3  OBVIOUS
  <2> QED BY <2>1, LevelIs, Zenon DEF Under
<1>2. \A kind \in Kinds : kind # "message" => Under(kind, "message")
  <2> TAKE kind \in Kinds
  <2>1. kind = "message" \/ Level(kind) < 4  BY LevelBounds
  <2> QED BY <2>1, LevelIs DEF Under
<1>3. \A a, b, c \in Kinds : Under(a, b) /\ Under(b, c) => Under(a, c)
  <2> TAKE a, b, c \in Kinds
  <2>1. Level(a) \in Nat /\ Level(b) \in Nat /\ Level(c) \in Nat  BY LevelBounds
  <2> QED BY <2>1 DEF Under
<1>4. \A a \in Kinds : ~Under(a, a)
  <2> TAKE a \in Kinds
  <2>1. Level(a) \in Nat  BY LevelBounds
  <2> QED BY <2>1 DEF Under
<1> QED BY <1>1, <1>2, <1>3, <1>4

\* A popup that can be closed is closed.
LEMMA ClosedGood ==
    ASSUME NEW p, PopupGood(p), p.closable, NEW q, q = Closed(p)
    PROVE  Reaction(q, p) /\ q.shown = p.shown /\ ~Out(q)
<1>1. p \in PopupOf(p.kind) /\ PopupForm(p) /\ p.kind \in Kinds  BY DEF PopupGood
<1>2. q \in PopupOf(p.kind) /\ SameFocus(q, p)  BY <1>1 DEF Closed, PopupOf, SameFocus
<1>3. q.shown = p.shown /\ q.closing = TRUE /\ q.task = p.task /\ q.closable = p.closable
  BY <1>1 DEF Closed, PopupOf
<1>4. ~Out(q)  BY <1>1, <1>3 DEF PopupForm, Out
<1>5. PopupForm(q)  BY <1>1, <1>3, <1>4 DEF PopupForm, Out
<1> QED BY <1>2, <1>3, <1>4, <1>5, PutForm

\* A popup sends its request, and waits.
LEMMA AskingGood ==
    ASSUME NEW p, Free(p), p.kind \in ConfirmKinds \cup FormKinds,
           NEW task \in {"request", "farewell"}, NEW q, q = Asking(p, task)
    PROVE  Reaction(q, p) /\ SameFocus(q, p)
<1>1. PopupGood(p) /\ p \in PopupOf(p.kind) /\ p.kind \in Kinds /\ p.closing = FALSE
  BY DEF Free, PopupGood, PopupOf
<1>2. PICK busy : busy = (EntriesOf(p.kind) # {})  OBVIOUS
<1>3. busy \in BOOLEAN  BY <1>2
<1>4. q = [p EXCEPT !.task = task, !.closable = FALSE, !.shown = FALSE, !.busy = busy]
  BY <1>2 DEF Asking
<1>5. q \in PopupOf(p.kind) /\ SameFocus(q, p)  BY <1>1, <1>3, <1>4 DEF PopupOf, SameFocus
<1>6. q.task = task /\ ~q.closable /\ ~q.shown /\ q.busy = busy /\ q.closing = FALSE /\ q.kind = p.kind
  BY <1>1, <1>4 DEF PopupOf
<1>7. busy \/ p.kind \in ConfirmKinds  BY <1>1, <1>2, PartsOfKind
<1>8. p.kind # "message"  BY DEF ConfirmKinds, FormKinds
<1>9. PopupForm(q)  BY <1>6, <1>7, <1>8 DEF PopupForm, Out
<1> QED BY <1>1, <1>5, <1>9, PutForm

\* The same one with a task that is a beep, or none.
LEMMA TaskGood ==
    ASSUME NEW p, PopupGood(p), ~Out(p), NEW task \in {"none", "beep"},
           NEW q, q = [p EXCEPT !.task = task]
    PROVE  Reaction(q, p) /\ SameFocus(q, p)
<1>1. p \in PopupOf(p.kind) /\ PopupForm(p)  BY DEF PopupGood
<1>2. q \in PopupOf(p.kind) /\ SameFocus(q, p)  BY <1>1 DEF PopupOf, SameFocus
<1>3. /\ q.task = task /\ q.closable = p.closable /\ q.shown = p.shown /\ q.busy = p.busy
      /\ q.closing = p.closing
  BY <1>1 DEF PopupOf
<1>4. PopupForm(q)  BY <1>1, <1>3 DEF PopupForm, Out
<1> QED BY <1>2, <1>4, PutForm

\* A form is submitted.
LEMMA SubmittedGood ==
    ASSUME NEW p, Free(p), p.kind \in FormKinds, NEW q, q = Submitted(p)
    PROVE  Reaction(q, p) /\ SameFocus(q, p)
<1>1. PopupGood(p) /\ ~Out(p)  BY DEF Free
<1>2. PICK a, b : a = "request" /\ b = "beep"  OBVIOUS
<1>3. q = p \/ q = Asking(p, a) \/ q = [p EXCEPT !.task = b]  BY <1>2 DEF Submitted
<1>4. CASE q = p  BY <1>1, <1>4, SameGood DEF SameFocus
<1>5. CASE q = Asking(p, a)
  <2>1. a \in {"request", "farewell"} /\ p.kind \in ConfirmKinds \cup FormKinds  BY <1>2
  <2> QED BY <1>5, <2>1, AskingGood
<1>6. CASE q = [p EXCEPT !.task = b]
  <2>1. b \in {"none", "beep"}  BY <1>2
  <2> QED BY <1>1, <1>6, <2>1, TaskGood
<1> QED BY <1>3, <1>4, <1>5, <1>6

\* The left button is pressed.
LEMMA AgreedGood ==
    ASSUME NEW p, Free(p), p.kind \in ConfirmKinds \cup FormKinds, NEW q, q = Agreed(p)
    PROVE  Reaction(q, p)
<1>1. PICK a, b : a = "request" /\ b = "farewell"  OBVIOUS
<1>2. a \in {"request", "farewell"} /\ b \in {"request", "farewell"}  BY <1>1
<1>3. CASE p.kind \in ConfirmKinds
  <2>1. q = Asking(p, a) \/ q = Asking(p, b)  BY <1>1, <1>3 DEF Agreed, ConfirmKinds
  <2> QED BY <1>2, <2>1, AskingGood
<1>4. CASE p.kind \in FormKinds
  <2>1. q = Submitted(p)  BY <1>4 DEF Agreed, FormKinds
  <2> QED BY <1>4, <2>1, SubmittedGood
<1> QED BY <1>3, <1>4

\* A popup may send one further up.
LEMMA SendGood ==
    ASSUME NEW p, NEW q, Reaction(q, p), ~Out(q), q.shown, NEW k, k \in Kinds,
           Under(p.kind, k), NEW r, Sends(r, q, k)
    PROVE  ResultGood(r, p)
  BY DEF ResultGood, Reaction, Sends

\* A user is to be deleted: the popup of the user asks whether to.
LEMMA DeletionGood ==
    ASSUME NEW p, Free(p), p.kind = "update user"
    PROVE  ResultGood(Deletion(p), p)
<1>1. PopupGood(p) /\ p.closable /\ p.shown  BY DEF Free
<1>2. PICK c : c = Closed(p)  OBVIOUS
<1>3. Reaction(c, p) /\ c.shown = p.shown /\ ~Out(c)  BY <1>1, <1>2, ClosedGood
<1>4. c \in PopupOf(c.kind) /\ PopupForm(c) /\ PopupGood(c)
  BY <1>3 DEF Reaction, PopupGood
<1>5. PICK q : q = [c EXCEPT !.busy = TRUE]  OBVIOUS
<1>6. q \in PopupOf(c.kind) /\ SameFocus(q, c)  BY <1>4, <1>5 DEF PopupOf, SameFocus
<1>7. /\ q.task = c.task /\ q.closable = c.closable /\ q.shown = c.shown /\ q.closing = c.closing
      /\ q.kind = c.kind
  BY <1>4, <1>5 DEF PopupOf
<1>8. PopupForm(q) /\ ~Out(q)  BY <1>3, <1>4, <1>7 DEF PopupForm, Out
<1>9. Reaction(q, c)  BY <1>4, <1>6, <1>8, PutForm
<1>10. Reaction(q, p)  BY <1>3, <1>9 DEF Reaction
<1>11. CASE p.busy \/ p.task = "beep"  BY <1>1, <1>11, SameGood DEF Deletion
<1>12. CASE ~(p.busy \/ p.task = "beep")
  <2>1. PICK r : r = Deletion(p)  OBVIOUS
  <2>2. r = [Handled(q) EXCEPT !.sent = <<"delete user">>]
    BY <1>2, <1>5, <1>12, <2>1 DEF Deletion
  <2>3. PICK k : k = "delete user"  OBVIOUS
  <2>4. Sends(r, q, k)  BY <2>2, <2>3 DEF Handled, Sends
  <2>5. k \in Kinds /\ Under(p.kind, k)
    <3>1. k \in Kinds  BY <2>3 DEF Kinds, ConfirmKinds
    <3>2. Under(p.kind, k)  BY <2>3, UnderIs, Zenon
    <3> QED BY <3>1, <3>2
  <2>6. q.shown  BY <1>1, <1>3, <1>7
  <2>7. ResultGood(r, p)  BY <1>8, <1>10, <2>4, <2>5, <2>6, SendGood
  <2> QED BY <2>1, <2>7
<1> QED BY <1>11, <1>12

\* An item is to be added to a list: its form comes.
LEMMA AdditionGood ==
    ASSUME NEW p, Free(p), p.kind \in {"users", "sockets"}
    PROVE  ResultGood(Addition(p), p)
<1>1. PICK k : k = IF p.kind = "users" THEN "add user" ELSE "add socket"  OBVIOUS
<1>2. k \in Kinds /\ Under(p.kind, k)
  <2>1. k \in Kinds  BY <1>1 DEF Kinds, FormKinds
  <2>2. (p.kind = "users" /\ k = "add user") \/ (p.kind = "sockets" /\ k = "add socket")
    BY <1>1
  <2>3. Under(p.kind, k)  BY <2>2, UnderIs, Zenon
  <2> QED BY <2>1, <2>3
<1>3. PICK r : r = Addition(p)  OBVIOUS
<1>4. Sends(r, p, k)  BY <1>1, <1>3 DEF Addition, Handled, Sends
<1>5. Reaction(p, p) /\ ~Out(p) /\ p.shown  BY SameGood DEF Free
<1>6. ResultGood(r, p)  BY <1>2, <1>4, <1>5, SendGood
<1> QED BY <1>3, <1>6

\* An item of a list is entered: the popup for it comes.
LEMMA ItemEnteredGood ==
    ASSUME NEW p, Free(p), p.kind \in ListKinds
    PROVE  ResultGood(ItemEntered(p), p)
<1>1. CASE p.kind = "auth methods"
  <2>1. PICK q : q = Toggling(p)  OBVIOUS
  <2>2. PopupGood(p) /\ p \in PopupOf(p.kind)  BY DEF Free, PopupGood
  <2>3. q \in PopupOf(p.kind) /\ SameFocus(q, p)
    BY <2>1, <2>2 DEF Toggling, PopupOf, SameFocus
  <2>4. q.busy /\ ~q.closable /\ q.task = "request" /\ q.closing = p.closing /\ q.kind = p.kind /\ q.shown = p.shown
    BY <2>1, <2>2 DEF Toggling, PopupOf
  <2>5. PopupForm(q)  BY <1>1, <2>4 DEF PopupForm, Out, Free
  <2>6. ItemEntered(p) = Handled(q)  BY <1>1, <2>1 DEF ItemEntered
  <2> QED BY <2>2, <2>3, <2>5, <2>6, PutForm, StatusGood
<1>2. CASE p.kind # "auth methods"
  <2>1. PICK k : k = IF p.kind = "users" THEN "update user" ELSE "close socket"  OBVIOUS
  <2>2. k \in Kinds /\ Under(p.kind, k)
    <3>1. k \in Kinds  BY <2>1 DEF Kinds, FormKinds, ConfirmKinds
    <3>2. (p.kind = "users" /\ k = "update user") \/ (p.kind = "sockets" /\ k = "close socket")
      BY <1>2, <2>1 DEF ListKinds
    <3>3. Under(p.kind, k)  BY <3>2, UnderIs, Zenon
    <3> QED BY <3>1, <3>3
  <2>3. PICK r : r = ItemEntered(p)  OBVIOUS
  <2>4. Sends(r, p, k)  BY <1>2, <2>1, <2>3 DEF ItemEntered, Handled, Sends
  <2>5. Reaction(p, p) /\ ~Out(p) /\ p.shown  BY SameGood DEF Free
  <2>6. ResultGood(r, p)  BY <2>2, <2>4, <2>5, SendGood
  <2> QED BY <2>3, <2>6
<1> QED BY <1>1, <1>2

\* Another option is selected.
LEMMA SelectedGood ==
    ASSUME NEW p, PopupGood(p), NEW option \in {1, 2}
    PROVE  ResultGood(Selected(p, option), p)
<1>1. PICK changed : changed = (p.changed \/ HasList(p.kind))  OBVIOUS
<1>2. PICK q : q = [p EXCEPT !.option = option, !.changed = changed]  OBVIOUS
<1>3. p \in PopupOf(p.kind) /\ changed \in BOOLEAN /\ PopupForm(p)  BY <1>1 DEF PopupGood
<1>4. q \in PopupOf(p.kind) /\ SameFocus(q, p) /\ SameForm(q, p)
  BY <1>2, <1>3 DEF PopupOf, SameFocus, SameForm
<1>5. PopupForm(q)  BY <1>3, <1>4, FormStays
<1>6. Selected(p, option) = Handled(q)  BY <1>1, <1>2 DEF Selected
<1> QED BY <1>4, <1>5, <1>6, PutForm, StatusGood

\* The text of an entry changes.
LEMMA EntryChangedGood ==
    ASSUME NEW p, PopupGood(p), NEW e \in EntriesOf(p.kind), p.entries[e].cursor # NoCursor,
           NEW v, EntryGood(v), v.cursor # NoCursor
    PROVE  ResultGood(EntryChanged(p, e, v), p)
<1>1. PICK changed : changed = (p.changed \/ (e = "filter" /\ v.text # p.entries[e].text))
  OBVIOUS
<1>2. PopupTyped(p) /\ PopupForm(p) /\ PopupFocusTrue(p) /\ p \in PopupOf(p.kind)
  BY GoodIs DEF PopupTyped
<1>3. changed \in BOOLEAN  BY <1>1, <1>2 DEF PopupOf
<1>4. PICK u : u = WithEntry(p, e, v)  OBVIOUS
<1>5. /\ PopupTyped(u) /\ SameForm(u, p) /\ u.at = p.at /\ u.cell = p.cell
      /\ u.lit = p.lit /\ u.side = p.side /\ u.selecting = p.selecting
      /\ u.entries[e] = v /\ u.list = p.list
      /\ \A f \in EntriesOf(p.kind) : f # e => u.entries[f] = p.entries[f]
  BY <1>2, <1>4, PutEntry
<1>6. u.kind = p.kind  BY <1>5 DEF SameForm
<1>7. \A f : f \in FocusShown(u) <=> f \in FocusShown(p)  BY <1>2, <1>5, <1>6, ShownIs
<1>8. FocusShown(u) = FocusShown(p) /\ ElementAt(u, u.at) = ElementAt(p, p.at)
  BY <1>5, <1>6, <1>7 DEF ElementAt
<1>9. PopupFocusTrue(u)  BY <1>2, <1>5, <1>8 DEF PopupFocusTrue
<1>10. Reaction(u, p) /\ PopupGood(u) /\ PopupForm(u) /\ u \in PopupOf(u.kind)
  BY <1>5, <1>9, PutFocus DEF Reaction, PopupGood
<1>11. PICK q : q = [u EXCEPT !.changed = changed]  OBVIOUS
<1>12. q \in PopupOf(u.kind) /\ SameFocus(q, u) /\ SameForm(q, u)
  BY <1>3, <1>10, <1>11 DEF PopupOf, SameFocus, SameForm
<1>13. PopupForm(q)  BY <1>10, <1>12, FormStays
<1>14. Reaction(q, u)  BY <1>10, <1>12, <1>13, PutForm
<1>15. Reaction(q, p)  BY <1>10, <1>14 DEF Reaction
<1>16. EntryChanged(p, e, v) = Handled(q)
  <2>1. q = [p EXCEPT !.entries[e] = v, !.changed = changed]
    BY <1>2, <1>4, <1>11 DEF WithEntry, PopupOf
  <2> QED BY <1>1, <2>1 DEF EntryChanged
<1> QED BY <1>15, <1>16, StatusGood

--------------------------------------------------------------------------------
(* Keys that move a selection. *)

\* The product of two numbers is a number.
LEMMA ProductIs == \A a, b \in Nat : a * b \in Nat
  OBVIOUS

\* The numbers a key moves a selection by.
LEMMA AmountIs ==
    ASSUME NEW c, NEW list \in ListsOf(c), NEW key
    PROVE  Amount(list, key) \in Nat
<1>1. PICK a, b : a = (IF key.shift THEN ShiftAmount ELSE 1)
                  /\ b = (IF key.code \in {"PageUp", "PageDown"} THEN Minus(list.height, 2) ELSE 1)
  OBVIOUS
<1>2. list.height \in Nat /\ ShiftAmount \in Nat  BY LongListAssumption DEF ListsOf
<1>3. a \in Nat /\ b \in Nat  BY <1>1, <1>2 DEF Minus
<1>4. Amount(list, key) = a * b  BY <1>1 DEF Amount
<1> QED BY <1>3, <1>4, ProductIs

\* The same, of the list of a popup.
LEMMA ListedAmountIs ==
    ASSUME NEW c, NEW list \in ListsOf(c), NEW key
    PROVE  Listed!Amount(list, key) \in Nat
<1>1. PICK a, b : a = (IF key.shift THEN ShiftAmount ELSE 1)
                  /\ b = (IF key.code \in {"PageUp", "PageDown"} THEN Listed!Minus(list.height, 2) ELSE 1)
  OBVIOUS
<1>2. list.height \in Nat /\ ShiftAmount \in Nat  BY LongListAssumption DEF ListsOf
<1>3. a \in Nat /\ b \in Nat  BY <1>1, <1>2 DEF Listed!Minus
<1>4. Listed!Amount(list, key) = a * b  BY <1>1 DEF Listed!Amount
<1> QED BY <1>3, <1>4, ProductIs

\* A list with another selection.
LEMMA PutSelected ==
    ASSUME NEW c, NEW list \in ListsOf(c), NEW s \in Nat \cup {NoIndex},
           NEW q, q = [list EXCEPT !.selected = s]
    PROVE  q \in ListsOf(c) /\ q.selected = s /\ q.count = list.count /\ q.width = list.width
  BY DEF ListsOf

\* That is an item.
LEMMA MovedIs ==
    ASSUME NEW s \in Nat, NEW n \in Nat, s < n, NEW a \in Nat, NEW x, Moved(x, s, a, n)
    PROVE  x \in Nat /\ x < n
<1>1. Minus(n, 1) = n - 1  BY DEF Minus
<1>2. PICK y, z : y = s + a /\ z = n - 1 /\ y \in Int /\ z \in Int  OBVIOUS
<1>3. Min({y, z}) = IF y <= z THEN y ELSE z  BY <1>2, MinTwo
<1>4. x = Minus(s, a) \/ x = Min({y, z})  BY <1>1, <1>2 DEF Moved
<1>5. CASE x = Minus(s, a)  BY <1>5 DEF Minus
<1>6. CASE x = Min({y, z})  BY <1>2, <1>3, <1>6
<1> QED BY <1>4, <1>5, <1>6

\* Every key of a list leaves its selection on an item; and if it had one, it has one.
LEMMA ListKeyGood ==
    ASSUME NEW c, NEW list \in ListsOf(c), SelectsItem(list), NEW key, NEW r, r = ListKey(list, key)
    PROVE  /\ r.list \in ListsOf(c) /\ r.list.count = list.count /\ SelectsItem(r.list)
           /\ r.list.width = list.width
           /\ list.selected # NoIndex => r.list.selected # NoIndex
           /\ r.status \in Directions \cup {"handled", "unhandled"}
<1>1. PICK s, t : s = SelectionMoved(list, key)
                  /\ t = IF list.count = 0 THEN NoIndex
                         ELSE IF key.code = "Home" THEN 0 ELSE list.count - 1
  OBVIOUS
<1>2. list.count \in Nat /\ list.selected \in Nat \cup {NoIndex} /\ NoIndex \notin Int
  BY LongListAssumption DEF ListsOf
<1>3. t \in Nat \cup {NoIndex} /\ (t # NoIndex => t < list.count) /\ (list.count # 0 => t # NoIndex)
  BY <1>1, <1>2
<1>4. s \in Nat \cup {NoIndex} /\ (s # NoIndex => s < list.count) /\ (list.selected # NoIndex => s # NoIndex)
  <2>1. CASE list.selected = NoIndex
    <3>1. s = StartIndex(list)  BY <1>1, <2>1 DEF SelectionMoved
    <3> QED BY <1>2, <2>1, <3>1 DEF StartIndex
  <2>2. CASE list.selected # NoIndex
    <3>1. PICK k, n, a : k = list.selected /\ n = list.count /\ a = Amount(list, key)
      OBVIOUS
    <3>2. k \in Nat /\ n \in Nat /\ k < n /\ a \in Nat
      BY <1>2, <2>2, <3>1, AmountIs DEF SelectsItem
    <3>3. Moved(s, k, a, n)  BY <1>1, <2>2, <3>1 DEF SelectionMoved, Moved
    <3>4. s \in Nat /\ s < n  BY <3>2, <3>3, MovedIs
    <3> QED BY <1>2, <3>1, <3>4
  <2> QED BY <2>1, <2>2
<1>5. PICK u, v : u = [list EXCEPT !.selected = s] /\ v = [list EXCEPT !.selected = t]
  OBVIOUS
<1>6. /\ u \in ListsOf(c) /\ u.selected = s /\ u.count = list.count /\ u.width = list.width
      /\ v \in ListsOf(c) /\ v.selected = t /\ v.count = list.count /\ v.width = list.width
  BY <1>3, <1>4, <1>5, PutSelected
<1>7. /\ r.list = list \/ r.list = u \/ r.list = v
      /\ r.status \in {DirectionOf["Left"], DirectionOf["Right"], DirectionOf["Tab"], DirectionOf["Esc"],
                       DirectionOf["Up"], DirectionOf["Down"], "handled", "unhandled"}
  BY <1>1, <1>5 DEF ListKey
<1>8. r.status \in Directions \cup {"handled", "unhandled"}
  BY <1>7 DEF DirectionOf, Directions
<1>9. list.selected # NoIndex => list.count # 0  BY <1>2 DEF SelectsItem
<1> QED BY <1>3, <1>4, <1>6, <1>7, <1>8, <1>9 DEF SelectsItem

\* The same for the lists of popups.
LEMMA ListedKeyGood ==
    ASSUME NEW c, NEW list \in ListsOf(c), SelectsItem(list), NEW key, NEW r, r = Listed!ListKey(list, key)
    PROVE  r.list \in ListsOf(c) /\ r.list.count = list.count /\ SelectsItem(r.list)
<1>1. PICK s, t : s = Listed!SelectionMoved(list, key)
                  /\ t = IF list.count = 0 THEN NoIndex
                         ELSE IF key.code = "Home" THEN 0 ELSE list.count - 1
  OBVIOUS
<1>2. list.count \in Nat /\ list.selected \in Nat \cup {NoIndex} /\ NoIndex \notin Int
  BY LongListAssumption DEF ListsOf
<1>3. t \in Nat \cup {NoIndex} /\ (t # NoIndex => t < list.count)  BY <1>1, <1>2
<1>4. s \in Nat \cup {NoIndex} /\ (s # NoIndex => s < list.count)
  <2>1. CASE list.selected = NoIndex
    <3>1. s = Listed!StartIndex(list)  BY <1>1, <2>1 DEF Listed!SelectionMoved
    <3> QED BY <1>2, <3>1 DEF Listed!StartIndex
  <2>2. CASE list.selected # NoIndex
    <3>1. PICK k, n, a : k = list.selected /\ n = list.count /\ a = Listed!Amount(list, key)
      OBVIOUS
    <3>2. k \in Nat /\ n \in Nat /\ k < n /\ a \in Nat
      BY <1>2, <2>2, <3>1, ListedAmountIs DEF SelectsItem
    <3>3. Moved(s, k, a, n)
      BY <1>1, <2>2, <3>1 DEF Listed!SelectionMoved, Listed!Minus, Listed!Min, Moved, Minus, Min
    <3>4. s \in Nat /\ s < n  BY <3>2, <3>3, MovedIs
    <3> QED BY <1>2, <3>1, <3>4
  <2> QED BY <2>1, <2>2
<1>5. PICK u, v : u = [list EXCEPT !.selected = s] /\ v = [list EXCEPT !.selected = t]
  OBVIOUS
<1>6. /\ u \in ListsOf(c) /\ u.selected = s /\ u.count = list.count
      /\ v \in ListsOf(c) /\ v.selected = t /\ v.count = list.count
  BY <1>3, <1>4, <1>5, PutSelected
<1>7. r.list = list \/ r.list = u \/ r.list = v  BY <1>1, <1>5 DEF Listed!ListKey
<1> QED BY <1>3, <1>4, <1>6, <1>7 DEF SelectsItem

--------------------------------------------------------------------------------
(* Keys to the entries, the buttons and the selectors of a popup. *)

\* A character that is a shortcut.
LEMMA PopupCharGood ==
    ASSUME NEW p, Free(p), NEW c, NEW r, r = PopupChar(p, c)
    PROVE  ResultGood(r, p)
<1>1. PopupGood(p) /\ p.closable /\ p.kind \in Kinds  BY DEF Free, PopupGood
<1>2. \/ "buttons" \in ElementsOf(p.kind) /\ r = Handled(Agreed(p))
      \/ r = Handled(Closed(p))
      \/ "delete" \in ElementsOf(p.kind) /\ r = Deletion(p)
      \/ "add" \in ElementsOf(p.kind) /\ r = Addition(p)
      \/ \E o \in {1, 2} : r = Selected(p, o)
      \/ r = Unhandled(p)
  <2>1. PICK options : options = {o \in 1 .. 2 : ToString(o) = c}  OBVIOUS
  <2>2. options # {} => (CHOOSE o \in options : TRUE) \in {1, 2}
    <3>1. options # {} => (CHOOSE o \in options : TRUE) \in options  OBVIOUS
    <3> QED BY <2>1, <3>1
  <2>3. options \ {p.option} # {} => options # {}  OBVIOUS
  <2>4. PopupChar(p, c) =
          CASE "buttons" \in ElementsOf(p.kind) /\ p.shown /\ c = "y" -> Handled(Agreed(p))
            [] "buttons" \in ElementsOf(p.kind) /\ p.shown /\ c = "n" -> Handled(Closed(p))
            [] "delete" \in ElementsOf(p.kind) /\ p.shown /\ c = "d" -> Deletion(p)
            [] "ok" \in ElementsOf(p.kind) /\ c = "y" -> Handled(Closed(p))
            [] "add" \in ElementsOf(p.kind) /\ c = "a" -> Addition(p)
            [] ElementsOf(p.kind) \cap {"role", "family"} # {} /\ options \ {p.option} # {} ->
                  Selected(p, CHOOSE o \in options : TRUE)
            [] OTHER -> Unhandled(p)
    BY <2>1, Zenon DEF PopupChar
  <2> QED BY <2>2, <2>3, <2>4
<1>3. CASE "buttons" \in ElementsOf(p.kind) /\ r = Handled(Agreed(p))
  <2>1. p.kind \in ConfirmKinds \cup FormKinds  BY <1>1, <1>3, KindOfElement
  <2>2. PICK q : q = Agreed(p)  OBVIOUS
  <2>3. Reaction(q, p)  BY <2>1, <2>2, AgreedGood
  <2> QED BY <1>3, <2>2, <2>3, StatusGood
<1>4. CASE r = Handled(Closed(p))
  <2>1. PICK q : q = Closed(p)  OBVIOUS
  <2>2. Reaction(q, p)  BY <1>1, <2>1, ClosedGood
  <2> QED BY <1>4, <2>1, <2>2, StatusGood
<1>5. CASE "delete" \in ElementsOf(p.kind) /\ r = Deletion(p)
  <2>1. p.kind = "update user"  BY <1>1, <1>5, KindOfElement
  <2> QED BY <1>5, <2>1, DeletionGood
<1>6. CASE "add" \in ElementsOf(p.kind) /\ r = Addition(p)
  <2>1. p.kind \in {"users", "sockets"}  BY <1>1, <1>6, KindOfElement
  <2> QED BY <1>6, <2>1, AdditionGood
<1>7. CASE \E o \in {1, 2} : r = Selected(p, o)  BY <1>1, <1>7, SelectedGood
<1>8. CASE r = Unhandled(p)  BY <1>1, <1>8, SameGood
<1> QED BY <1>2, <1>3, <1>4, <1>5, <1>6, <1>7, <1>8

\* The focus is passed from where it is, of a popup that is free.
LEMMA PassedGood ==
    ASSUME NEW p, PopupGood(p), p.shown, HasFocus(p), NEW direction
    PROVE  ResultGood(Handled(PopupPassed(p, direction)), p)
<1>1. PICK q : q = PopupPassed(p, direction)  OBVIOUS
<1>2. PopupTyped(p) /\ PopupFocusTrue(p) /\ Movable(p)  BY GoodIs DEF Movable
<1>3. PopupTyped(q) /\ PopupFocusTrue(q) /\ SameForm(q, p)  BY <1>1, <1>2, PopupPassedGood
<1>4. Reaction(q, p)  BY <1>3, PutFocus
<1> QED BY <1>1, <1>4, StatusGood

\* An entry with the focus has a cursor.
LEMMA CursorThere ==
    ASSUME NEW p, PopupGood(p), NEW e \in EntryNames, FocusAt(p, e)
    PROVE  e \in EntriesOf(p.kind) /\ p.entries[e].cursor # NoCursor /\ EntryGood(p.entries[e])
<1>1. PopupTyped(p) /\ PopupFocusTrue(p) /\ p.kind \in Kinds  BY GoodIs DEF PopupTyped
<1>2. e \in ElementsOf(p.kind)  BY <1>1, AtElement DEF FocusAt, PopupTyped
<1>3. e \in EntriesOf(p.kind)  BY <1>2 DEF EntriesOf
<1>4. e # "list" /\ e # "buttons" /\ e \notin Lamps  BY DEF EntryNames, Lamps
<1>5. e \in FocusShown(p)  BY <1>1, <1>4 DEF PopupFocusTrue, FocusAt, HasFocus
<1>6. p.lit \subseteq Lamps  BY <1>1 DEF PopupTyped, PopupOf
<1> QED BY <1>1, <1>3, <1>4, <1>5, <1>6, ShownIs, EntryOfPopup

\* An entry takes a key.
LEMMA EntryAtKeyGood ==
    ASSUME NEW p, Free(p), NEW e \in EntryNames, FocusAt(p, e), NEW key, key.code \in Codes,
           key.ctrl \in BOOLEAN, NEW r, r = EntryAtKey(p, e, key)
    PROVE  ResultGood(r, p)
<1>1. PopupGood(p) /\ p.kind \in Kinds /\ p.shown /\ HasFocus(p)
  BY DEF Free, PopupGood, FocusAt
<1>2. PICK entry : entry = p.entries[e]  OBVIOUS
<1>3. e \in EntriesOf(p.kind) /\ entry.cursor # NoCursor /\ EntryGood(entry)
  BY <1>1, <1>2, CursorThere
<1>4. \/ entry.length < MaxChars /\ r = EntryChanged(p, e, Typed(entry, key.code))
      \/ r = Handled(p) \/ r = Unhandled(p)
      \/ \E d : r = Handled(PopupPassed(p, d))
      \/ e # "filter" /\ r = Handled(IF Submitted(p).busy THEN PopupUnfocused(Submitted(p)) ELSE Submitted(p))
      \/ r = EntryChanged(p, e, EntryKey(entry, key))
  <2>1. EntryAtKey(p, e, key) =
          CASE IsChar(key.code) ->
                  IF entry.length < MaxChars /\ Takable(p, e, key.code)
                  THEN EntryChanged(p, e, Typed(entry, key.code))
                  ELSE Handled(p)
            [] key.code \in {"Up", "Down", "Tab", "Esc"} -> Handled(PopupPassed(p, DirectionOf[key.code]))
            [] key.code = "Enter" ->
                  IF e = "filter" THEN Unhandled(p)
                  ELSE Handled(IF Submitted(p).busy THEN PopupUnfocused(Submitted(p)) ELSE Submitted(p))
            [] key.code \in {"PageUp", "PageDown", "ScrollUp", "ScrollDown"} -> Unhandled(p)
            [] OTHER -> EntryChanged(p, e, EntryKey(entry, key))
    BY <1>2, Zenon DEF EntryAtKey
  <2> QED BY <2>1
<1>5. CASE entry.length < MaxChars /\ r = EntryChanged(p, e, Typed(entry, key.code))
  <2>1. PICK v : v = Typed(entry, key.code)  OBVIOUS
  <2>2. EntryGood(v) /\ v.cursor # NoCursor  BY <1>3, <1>5, <2>1, TypedGood
  <2> QED BY <1>1, <1>2, <1>3, <1>5, <2>1, <2>2, EntryChangedGood
<1>6. CASE r = Handled(p) \/ r = Unhandled(p)  BY <1>1, <1>6, SameGood
<1>7. CASE \E d : r = Handled(PopupPassed(p, d))  BY <1>1, <1>7, PassedGood
<1>8. CASE e # "filter" /\ r = Handled(IF Submitted(p).busy THEN PopupUnfocused(Submitted(p)) ELSE Submitted(p))
  <2>1. PICK q, u : q = Submitted(p) /\ u = PopupUnfocused(q)  OBVIOUS
  <2>2. e \in ElementsOf(p.kind)  BY <1>3 DEF EntriesOf
  <2>3. p.kind \in FormKinds  BY <1>1, <1>8, <2>2, KindOfElement
  <2>4. Reaction(q, p) /\ SameFocus(q, p)  BY <2>1, <2>3, SubmittedGood
  <2>5. PopupTyped(q) /\ PopupFocusTrue(q) /\ PopupGood(q)  BY <2>4, GoodIs DEF Reaction
  <2>6. Movable(q)  BY <2>4 DEF Movable, SameFocus, FocusAt, ElementAt, EntryNames
  <2>7. PopupTyped(u) /\ PopupFocusTrue(u) /\ SameForm(u, q)
    BY <2>1, <2>5, <2>6, PopupUnfocusedGood
  <2>8. Reaction(u, q)  BY <2>5, <2>7, PutFocus
  <2>9. Reaction(u, p)  BY <2>4, <2>8 DEF Reaction
  <2>10. r = Handled(q) \/ r = Handled(u)  BY <1>8, <2>1
  <2> QED BY <2>4, <2>9, <2>10, StatusGood
<1>9. CASE r = EntryChanged(p, e, EntryKey(entry, key))
  <2>1. PICK v : v = EntryKey(entry, key)  OBVIOUS
  <2>2. EntryGood(v) /\ v.cursor # NoCursor  BY <1>3, <2>1, EntryKeyGood
  <2> QED BY <1>1, <1>2, <1>3, <1>9, <2>1, <2>2, EntryChangedGood
<1> QED BY <1>4, <1>5, <1>6, <1>7, <1>8, <1>9

\* The other button has the focus.
LEMMA SideGood ==
    ASSUME NEW p, PopupGood(p), FocusAt(p, "buttons"), NEW side \in {"left", "right"},
           NEW q, q = WithSide(p, side)
    PROVE  Reaction(q, p)
<1>1. PopupTyped(p) /\ PopupFocusTrue(p) /\ p.kind \in Kinds /\ p.lit \subseteq Lamps
  BY GoodIs DEF PopupTyped, PopupOf
<1>2. /\ PopupTyped(q) /\ SameForm(q, p) /\ q.at = p.at /\ q.cell = p.cell
      /\ q.lit = p.lit /\ q.side = side /\ q.selecting = p.selecting
      /\ q.entries = p.entries /\ q.list = p.list
  BY <1>1, PutSide
<1>3. q.kind = p.kind  BY <1>2 DEF SameForm
<1>4. "buttons" \notin Lamps /\ "buttons" \notin EntriesOf(p.kind)
  BY <1>1, PartsOfKind DEF Lamps, EntryNames
<1>5. "buttons" \in FocusShown(p)  BY <1>1 DEF PopupFocusTrue, FocusAt, HasFocus
<1>6. \A f : f \in FocusShown(q) <=> f \in FocusShown(p)
  BY <1>1, <1>2, <1>3, <1>4, <1>5, ShownIs
<1>7. FocusShown(q) = FocusShown(p) /\ ElementAt(q, q.at) = ElementAt(p, p.at)
  BY <1>2, <1>3, <1>6 DEF ElementAt
<1>8. PopupFocusTrue(q)  BY <1>1, <1>2, <1>7 DEF PopupFocusTrue
<1> QED BY <1>2, <1>8, PutFocus

\* The buttons take a key.
LEMMA ButtonsKeyGood ==
    ASSUME NEW p, Free(p), FocusAt(p, "buttons"), NEW key, NEW r, r = ButtonsKey(p, key)
    PROVE  ResultGood(r, p)
<1>1. PopupGood(p) /\ p.kind \in Kinds /\ p.shown /\ p.closable /\ HasFocus(p)
  BY DEF Free, PopupGood, FocusAt
<1>2. p.kind \in ConfirmKinds \cup FormKinds
  <2>1. ElementAt(p, p.at) \in ElementsOf(p.kind)  BY <1>1, AtElement DEF PopupGood
  <2> QED BY <1>1, <2>1, KindOfElement DEF FocusAt
<1>3. PICK a, c, left1, right1 :
         /\ a = Agreed(p) /\ c = Closed(p)
         /\ left1 = WithSide(p, "left") /\ right1 = WithSide(p, "right")
  OBVIOUS
<1>4. Reaction(a, p) /\ Reaction(c, p) /\ Reaction(left1, p) /\ Reaction(right1, p)
  BY <1>1, <1>2, <1>3, AgreedGood, ClosedGood, SideGood
<1>5. \/ r \in {Unhandled(p), Handled(a), Handled(c), Handled(left1), Handled(right1)}
      \/ \E d : r = Handled(PopupPassed(p, d))
  BY <1>3 DEF ButtonsKey, WithSide
<1> QED BY <1>1, <1>4, <1>5, StatusGood, SameGood, PassedGood

\* A selector begins or ends to select.
LEMMA SelectingGood ==
    ASSUME NEW p, PopupGood(p), NEW e, e \in {"role", "family"}, FocusAt(p, e), NEW b \in BOOLEAN,
           NEW q, q = [p EXCEPT !.selecting = b]
    PROVE  Reaction(q, p)
<1>1. PopupTyped(p) /\ PopupFocusTrue(p) /\ p.lit \in SUBSET Lamps /\ p \in PopupOf(p.kind)
  BY GoodIs DEF PopupTyped, PopupOf
<1>2. PICK lit : lit = p.lit  OBVIOUS
<1>3. q = WithLit(p, lit, b)  BY <1>1, <1>2 DEF WithLit, PopupOf
<1>4. /\ PopupTyped(q) /\ SameForm(q, p) /\ q.at = p.at /\ q.cell = p.cell
      /\ q.lit = lit /\ q.side = p.side /\ q.selecting = b
      /\ q.entries = p.entries /\ q.list = p.list
  BY <1>1, <1>2, <1>3, PutLit
<1>5. q.kind = p.kind  BY <1>4 DEF SameForm
<1>6. FocusShown(q) = FocusShown(p) /\ ElementAt(q, q.at) = ElementAt(p, p.at)
  BY <1>2, <1>4, <1>5 DEF ElementAt, FocusShown
<1>7. PopupFocusTrue(q)
  BY <1>1, <1>4, <1>6 DEF PopupFocusTrue, FocusAt, HasFocus, OptionsOf
<1> QED BY <1>4, <1>7, PutFocus

\* A selector takes a key.
LEMMA OptionsKeyGood ==
    ASSUME NEW p, Free(p), NEW e, e \in {"role", "family"}, FocusAt(p, e), NEW key,
           NEW r, r = OptionsKey(p, key)
    PROVE  ResultGood(r, p)
<1>1. PopupGood(p) /\ p.shown /\ HasFocus(p) /\ p \in PopupOf(p.kind)
  BY DEF Free, PopupGood, FocusAt
<1>2. p.option \in {1, 2} /\ p.selecting \in BOOLEAN  BY <1>1 DEF PopupOf
<1>3. PICK beside : beside = IF key.code = "Left" THEN Max({p.option - 1, 1}) ELSE Min({p.option + 1, 2})
  OBVIOUS
<1>4. beside \in {1, 2}
  <2>1. PICK x : x = p.option  OBVIOUS
  <2>2. x \in 1 .. 2  BY <1>2, <2>1
  <2>3. PICK n : n = 2  OBVIOUS
  <2>4. n \in Nat /\ x \in 1 .. n  BY <2>2, <2>3
  <2>5. Max({x - 1, 1}) \in 1 .. n /\ Min({x + 1, n}) \in 1 .. n  BY <2>4, NextIs
  <2>6. beside = Max({x - 1, 1}) \/ beside = Min({x + 1, n})  BY <1>3, <2>1, <2>3
  <2> QED BY <2>3, <2>5, <2>6
<1>5. PICK b, n, u, v : /\ b = ~p.selecting /\ n = FALSE
                        /\ u = [p EXCEPT !.selecting = b] /\ v = [p EXCEPT !.selecting = n]
  OBVIOUS
<1>6. b \in BOOLEAN /\ n \in BOOLEAN  BY <1>5
<1>7. Reaction(u, p) /\ Reaction(v, p)  BY <1>1, <1>5, <1>6, SelectingGood
<1>8. \/ r \in {Handled(u), Handled(v), Handled(p), Unhandled(p)}
      \/ r = Selected(p, beside) \/ \E d : r = Handled(PopupPassed(p, d))
  <2>1. OptionsKey(p, key) =
          CASE key.code = "Enter" -> Handled(u)
            [] p.selecting /\ ~key.ctrl /\ key.code \in {"Left", "Right"} ->
                  IF beside = p.option THEN Handled(p) ELSE Selected(p, beside)
            [] p.selecting /\ ~key.ctrl /\ key.code = "Esc" -> Handled(v)
            [] OTHER -> IF key.code \in DOMAIN DirectionOf
                        THEN Handled(PopupPassed(p, DirectionOf[key.code])) ELSE Unhandled(p)
    BY <1>3, <1>5, Zenon DEF OptionsKey
  <2> QED BY <2>1
<1> QED BY <1>1, <1>4, <1>7, <1>8, StatusGood, SameGood, PassedGood, SelectedGood

--------------------------------------------------------------------------------
(* Keys to a popup. *)

\* The list of a popup takes a key that moves its selection.
LEMMA ListMovedGood ==
    ASSUME NEW p, PopupGood(p), FocusAt(p, "list"), NEW key, NEW list,
           list = Listed!ListKey(p.list, key).list, NEW q, q = WithList(p, list)
    PROVE  Reaction(q, p) /\ SameForm(q, p) /\ HasFocus(q)
<1>1. PopupTyped(p) /\ PopupFocusTrue(p) /\ p.kind \in Kinds /\ p.lit \subseteq Lamps /\ p.list \in Lists
  BY GoodIs DEF PopupTyped, PopupOf
<1>2. PICK c, r : c = <<>> /\ r = Listed!ListKey(p.list, key)  OBVIOUS
<1>3. p.list \in ListsOf(c) /\ SelectsItem(p.list)
  BY <1>1, <1>2 DEF Lists, PopupFocusTrue, SelectsItem
<1>4. r.list \in ListsOf(c) /\ SelectsItem(r.list)  BY <1>2, <1>3, ListedKeyGood
<1>5. list \in Lists /\ SelectsItem(list)  BY <1>2, <1>4 DEF Lists
<1>6. /\ PopupTyped(q) /\ SameForm(q, p) /\ q.at = p.at /\ q.cell = p.cell
      /\ q.lit = p.lit /\ q.side = p.side /\ q.selecting = p.selecting
      /\ q.entries = p.entries /\ q.list = list
  BY <1>1, <1>5, PutList
<1>7. q.kind = p.kind  BY <1>6 DEF SameForm
<1>8. ElementAt(q, q.at) = ElementAt(p, p.at)  BY <1>6, <1>7 DEF ElementAt
<1>9. \A f : f \in FocusShown(p) => f = "list"
  BY <1>1 DEF PopupFocusTrue, FocusAt, HasFocus
<1>10. \A f : f \in FocusShown(q) => f = "list"  BY <1>1, <1>6, <1>7, <1>9, ShownIs
<1>11. PopupFocusTrue(q)
  BY <1>1, <1>5, <1>6, <1>8, <1>10 DEF PopupFocusTrue, FocusAt, HasFocus, SelectsItem
<1>12. HasFocus(q)  BY <1>6 DEF HasFocus, FocusAt
<1> QED BY <1>6, <1>11, <1>12, PutFocus

\* What is a good result for a popup is one for any popup of its kind.
LEMMA ResultOf ==
    ASSUME NEW p, NEW q, Reaction(q, p), NEW r, ResultGood(r, q)
    PROVE  ResultGood(r, p)
  BY DEF Reaction, ResultGood

\* A list takes a key.
LEMMA ItemsKeyGood ==
    ASSUME NEW p, Free(p), FocusAt(p, "list"), NEW key, NEW r, r = ItemsKey(p, key)
    PROVE  ResultGood(r, p)
<1>1. PopupGood(p) /\ p.kind \in Kinds /\ p.shown  BY DEF Free, PopupGood
<1>2. p.kind \in ListKinds
  <2>1. ElementAt(p, p.at) \in ElementsOf(p.kind)  BY <1>1, AtElement DEF PopupGood
  <2> QED BY <1>1, <2>1, KindOfElement DEF FocusAt
<1>3. PICK k, list, q :
         k = Listed!ListKey(p.list, key) /\ list = k.list /\ q = WithList(p, list)
  OBVIOUS
<1>4. Reaction(q, p) /\ SameForm(q, p) /\ HasFocus(q)  BY <1>1, <1>3, ListMovedGood
<1>5. PopupGood(q) /\ q.shown  BY <1>1, <1>4 DEF Reaction, SameForm
<1>6. \/ r \in {Unhandled(p), Handled(q), Unhandled(q)} \/ r = ItemEntered(p)
      \/ \E d : r = Handled(PopupPassed(q, d))
  <2>1. ItemsKey(p, key) =
          IF key.code = "Enter"
          THEN IF p.list.selected = NoIndex THEN Unhandled(p) ELSE ItemEntered(p)
          ELSE CASE k.status \in Listed!Directions \cup Directions -> Handled(PopupPassed(q, k.status))
                 [] k.status = "handled" -> Handled(q)
                 [] OTHER -> Unhandled(q)
    BY <1>3, Zenon DEF ItemsKey, WithList, Directions, Listed!Directions
  <2> QED BY <2>1
<1>7. CASE r = ItemEntered(p)  BY <1>2, <1>7, ItemEnteredGood
<1>8. CASE r \in {Unhandled(p), Handled(q), Unhandled(q)}
  BY <1>1, <1>4, <1>8, StatusGood, SameGood
<1>9. CASE \E d : r = Handled(PopupPassed(q, d))
  <2>1. ResultGood(r, q)  BY <1>4, <1>5, <1>9, PassedGood
  <2> QED BY <1>4, <2>1, ResultOf
<1> QED BY <1>6, <1>7, <1>8, <1>9

\* A button takes a key.
LEMMA OneButtonKeyGood ==
    ASSUME NEW p, Free(p), NEW e, e \in {"ok", "add", "delete"}, FocusAt(p, e), NEW key,
           NEW r, r = OneButtonKey(p, e, key)
    PROVE  ResultGood(r, p)
<1>1. PopupGood(p) /\ p.kind \in Kinds /\ p.shown /\ p.closable /\ HasFocus(p)
  BY DEF Free, PopupGood, FocusAt
<1>2. e \in ElementsOf(p.kind)  BY <1>1, AtElement DEF PopupGood, FocusAt
<1>3. PICK c : c = Closed(p)  OBVIOUS
<1>4. Reaction(c, p)  BY <1>1, <1>3, ClosedGood
<1>5. \/ r = Handled(c) \/ (e = "delete" /\ r = Deletion(p)) \/ (e = "add" /\ r = Addition(p))
      \/ \E d : r = Handled(PopupPassed(p, d))
      \/ r = Unhandled(p)
  <2>1. OneButtonKey(p, e, key) =
          CASE key.code = "Enter" ->
                  (CASE e = "ok" -> Handled(c)
                     [] e = "delete" -> Deletion(p)
                     [] e = "add" -> Addition(p))
            [] key.code \in DOMAIN DirectionOf -> Handled(PopupPassed(p, DirectionOf[key.code]))
            [] OTHER -> Unhandled(p)
    BY <1>3, Zenon DEF OneButtonKey
  <2>2. (CASE e = "ok" -> Handled(c)
           [] e = "delete" -> Deletion(p)
           [] e = "add" -> Addition(p)) =
        IF e = "ok" THEN Handled(c) ELSE IF e = "delete" THEN Deletion(p) ELSE Addition(p)
    OBVIOUS
  <2>3. CASE key.code = "Enter"
    <3>1. "Enter" \notin DOMAIN DirectionOf  BY DEF DirectionOf
    <3>2. OneButtonKey(p, e, key) =
            (CASE e = "ok" -> Handled(c)
               [] e = "delete" -> Deletion(p)
               [] e = "add" -> Addition(p))
      BY <2>1, <2>3, <3>1
    <3>3. r = IF e = "ok" THEN Handled(c) ELSE IF e = "delete" THEN Deletion(p) ELSE Addition(p)
      BY <2>2, <3>2, Zenon
    <3>4. (e = "ok" /\ r = Handled(c)) \/ (e = "delete" /\ r = Deletion(p)) \/ (e = "add" /\ r = Addition(p))
      BY <3>3
    <3> QED BY <3>4, Zenon
  <2>4. CASE key.code # "Enter"
    <3>1. r = Unhandled(p) \/ r = Handled(PopupPassed(p, DirectionOf[key.code]))
      BY <2>1, <2>4
    <3> QED BY <3>1
  <2> QED BY <2>3, <2>4
<1>6. CASE e = "delete" /\ r = Deletion(p)
  BY <1>1, <1>2, <1>6, KindOfElement, DeletionGood
<1>7. CASE e = "add" /\ r = Addition(p)  BY <1>1, <1>2, <1>7, KindOfElement, AdditionGood
<1> QED BY <1>1, <1>4, <1>5, <1>6, <1>7, StatusGood, SameGood, PassedGood

\* The focused element takes a key.
LEMMA FocusedKeyGood ==
    ASSUME NEW p, Free(p), HasFocus(p), NEW key, key.code \in Codes, key.ctrl \in BOOLEAN,
           NEW r, r = FocusedKey(p, key)
    PROVE  ResultGood(r, p)
<1>1. PopupGood(p) /\ p.kind \in Kinds  BY DEF Free, PopupGood
<1>2. PICK e : e = ElementAt(p, p.at)  OBVIOUS
<1>3. FocusAt(p, e)  BY <1>2 DEF FocusAt
<1>4. e \in ElementsOf(p.kind)  BY <1>1, <1>2, AtElement DEF PopupGood
<1>5. e \in EntryNames \cup {"buttons", "list"} \cup Lamps  BY <1>1, <1>4, KindOfElement
<1>6. FocusedKey(p, key) =
        CASE e \in EntryNames -> EntryAtKey(p, e, key)
          [] e = "buttons" -> ButtonsKey(p, key)
          [] e \in DOMAIN OptionsOf -> OptionsKey(p, key)
          [] e = "list" -> ItemsKey(p, key)
          [] OTHER -> OneButtonKey(p, e, key)
  BY <1>2, Zenon DEF FocusedKey
<1>7. CASE e \in EntryNames
  <2>1. r = EntryAtKey(p, e, key)  BY <1>6, <1>7 DEF EntryNames, OptionsOf
  <2> QED BY <1>3, <1>7, <2>1, EntryAtKeyGood
<1>8. CASE e = "buttons"
  <2>1. r = ButtonsKey(p, key) /\ FocusAt(p, "buttons")
    BY <1>3, <1>6, <1>8 DEF EntryNames, OptionsOf
  <2> QED BY <2>1, ButtonsKeyGood
<1>9. CASE e = "list"
  <2>1. r = ItemsKey(p, key) /\ FocusAt(p, "list")
    BY <1>3, <1>6, <1>9 DEF EntryNames, OptionsOf
  <2> QED BY <2>1, ItemsKeyGood
<1>10. CASE e \in {"role", "family"}
  <2>1. r = OptionsKey(p, key)  BY <1>6, <1>10 DEF EntryNames, OptionsOf
  <2> QED BY <1>3, <1>10, <2>1, OptionsKeyGood
<1>11. CASE e \in {"ok", "add", "delete"}
  <2>1. r = OneButtonKey(p, e, key)  BY <1>6, <1>11 DEF EntryNames, OptionsOf
  <2> QED BY <1>3, <1>11, <2>1, OneButtonKeyGood
<1> QED BY <1>5, <1>7, <1>8, <1>9, <1>10, <1>11 DEF Lamps

\* A popup that is not free, and does not wait, is one that asks for confirmation, with its
\* request out and its buttons gone.
LEMMA FreeOr ==
    ASSUME NEW p, PopupGood(p), ~p.closing, ~p.busy, ~Free(p)
    PROVE  p.kind \in ConfirmKinds /\ ~p.shown /\ ~p.closable
  BY DEF Free, PopupGood, PopupForm

\* A popup that asks for confirmation takes a key.
LEMMA ConfirmKeyGood ==
    ASSUME NEW p, PopupGood(p), p.kind \in ConfirmKinds, ~p.shown, NEW key, NEW c
    PROVE  /\ PopupChar(p, c) = Unhandled(p)
           /\ HasFocus(p) => FocusedKey(p, key) = Unhandled(p)
<1>1. p.kind \in Kinds /\ p.at \in 1 .. Len(Column(p.kind))  BY DEF PopupGood
<1>2. ElementsOf(p.kind) = {"buttons"}  BY <1>1, ElementsAre, Elements4
<1>3. ElementAt(p, p.at) = "buttons"  BY <1>1, <1>2, AtElement
<1>4. PopupChar(p, c) = Unhandled(p)
  <2>1. PICK options : options = {o \in 1 .. 2 : ToString(o) = c}  OBVIOUS
  <2>2. PopupChar(p, c) =
          CASE "buttons" \in ElementsOf(p.kind) /\ p.shown /\ c = "y" -> Handled(Agreed(p))
            [] "buttons" \in ElementsOf(p.kind) /\ p.shown /\ c = "n" -> Handled(Closed(p))
            [] "delete" \in ElementsOf(p.kind) /\ p.shown /\ c = "d" -> Deletion(p)
            [] "ok" \in ElementsOf(p.kind) /\ c = "y" -> Handled(Closed(p))
            [] "add" \in ElementsOf(p.kind) /\ c = "a" -> Addition(p)
            [] ElementsOf(p.kind) \cap {"role", "family"} # {} /\ options \ {p.option} # {} ->
                  Selected(p, CHOOSE o \in options : TRUE)
            [] OTHER -> Unhandled(p)
    BY <2>1, Zenon DEF PopupChar
  <2>3. /\ "delete" \notin ElementsOf(p.kind) /\ "ok" \notin ElementsOf(p.kind)
        /\ "add" \notin ElementsOf(p.kind) /\ ElementsOf(p.kind) \cap {"role", "family"} = {}
    BY <1>2
  <2> QED BY <2>2, <2>3
<1>5. FocusedKey(p, key) = ButtonsKey(p, key)
  <2>1. PICK e : e = ElementAt(p, p.at)  OBVIOUS
  <2>2. FocusedKey(p, key) =
          CASE e \in EntryNames -> EntryAtKey(p, e, key)
            [] e = "buttons" -> ButtonsKey(p, key)
            [] e \in DOMAIN OptionsOf -> OptionsKey(p, key)
            [] e = "list" -> ItemsKey(p, key)
            [] OTHER -> OneButtonKey(p, e, key)
    BY <2>1, Zenon DEF FocusedKey
  <2> QED BY <1>3, <2>1, <2>2 DEF EntryNames, OptionsOf
<1>6. ButtonsKey(p, key) = Unhandled(p)  BY DEF ButtonsKey
<1> QED BY <1>4, <1>5, <1>6

\* The content of a popup takes a key.
LEMMA ContentKeyGood ==
    ASSUME NEW p, PopupGood(p), ~p.closing, NEW key, key.code \in Codes, key.ctrl \in BOOLEAN,
           NEW r, r = ContentKey(p, key)
    PROVE  ResultGood(r, p)
<1>1. \/ r = Unhandled(p) \/ r = Handled(p)
      \/ ~p.busy /\ r = PopupChar(p, key.code)
      \/ ~p.busy /\ HasFocus(p) /\ r = FocusedKey(p, key)
      \/ r = FocusIn(p, key.code)
  <2>1. PICK typing : typing = (p.cell /\ ElementAt(p, p.at) \in EntryNames)  OBVIOUS
  <2>2. ContentKey(p, key) =
          CASE p.loading -> Unhandled(p)
            [] ~p.loading /\ p.busy -> Handled(p)
            [] ~p.loading /\ ~p.busy /\ IsChar(key.code) /\ ~typing -> PopupChar(p, key.code)
            [] OTHER -> IF p.cell THEN FocusedKey(p, key) ELSE FocusIn(p, key.code)
    BY <2>1, Zenon DEF ContentKey
  <2> QED BY <2>2 DEF HasFocus
<1>2. CASE r = Unhandled(p) \/ r = Handled(p)  BY <1>2, SameGood
<1>3. CASE ~p.busy /\ r = PopupChar(p, key.code)
  <2>1. CASE Free(p)  BY <1>3, <2>1, PopupCharGood
  <2>2. CASE ~Free(p)
    <3>1. r = Unhandled(p)  BY <1>3, <2>2, FreeOr, ConfirmKeyGood
    <3> QED BY <3>1, SameGood
  <2> QED BY <2>1, <2>2
<1>4. CASE ~p.busy /\ HasFocus(p) /\ r = FocusedKey(p, key)
  <2>1. CASE Free(p)  BY <1>4, <2>1, FocusedKeyGood
  <2>2. CASE ~Free(p)
    <3>1. r = Unhandled(p)  BY <1>4, <2>2, FreeOr, ConfirmKeyGood
    <3> QED BY <3>1, SameGood
  <2> QED BY <2>1, <2>2
<1>5. CASE r = FocusIn(p, key.code)
  <2>1. PopupTyped(p) /\ PopupFocusTrue(p)  BY GoodIs
  <2>2. PopupTyped(r.popup) /\ PopupFocusTrue(r.popup) /\ SameForm(r.popup, p) /\ r.sent = <<>>
    BY <1>5, <2>1, FocusInGood
  <2>3. Reaction(r.popup, p)  BY <2>2, PutFocus
  <2> QED BY <2>2, <2>3 DEF ResultGood, Reaction
<1> QED BY <1>1, <1>2, <1>3, <1>4, <1>5

\* A popup takes a key.
LEMMA PopupKeyGood ==
    ASSUME NEW p, PopupGood(p), ~p.closing, NEW key, key.code \in Codes, key.ctrl \in BOOLEAN,
           NEW r, r = PopupKey(p, key)
    PROVE  ResultGood(r, p)
<1>1. PICK c, q : c = ContentKey(p, key) /\ q = Closed(p)  OBVIOUS
<1>2. r = c \/ (p.closable /\ r = Handled(q))
  <2>1. PopupKey(p, key) = IF c.status = "unhandled" /\ p.closable /\ key.code \in {"q", "Esc"}
                           THEN Handled(q) ELSE c
    BY <1>1, Zenon DEF PopupKey
  <2> QED BY <2>1, Zenon
<1>3. ResultGood(c, p)  BY <1>1, ContentKeyGood
<1>4. p.closable => Reaction(q, p)  BY <1>1, ClosedGood
<1> QED BY <1>2, <1>3, <1>4, StatusGood

--------------------------------------------------------------------------------
(* The focus given and taken under the popups. *)

\* What shows the focus.
LEMMA HoldersAre ==
    ASSUME NEW u, UiTyped(u)
    PROVE  /\ \A e : e \in HoldersOf(u) <=>
                 \/ e \in u.lit
                 \/ e = "log" /\ u.list.selected # NoIndex
                 \/ e = "menu" /\ u.item # 0
           /\ u.lit \subseteq {"expand", "precision"} /\ u \in UiOf(u.list.cache)
           /\ u.list \in ListsOf(u.list.cache)
  BY DEF HoldersOf, UiTyped, UiOf

\* Lists with and without the focus.
LEMMA LogFocusIs ==
    ASSUME NEW c, NEW list \in ListsOf(c)
    PROVE  /\ ListFocused(list) \in ListsOf(c) /\ ListFocused(list).count = list.count
           /\ ListFocused(list).width = list.width /\ ListUnfocused(list).width = list.width
           /\ SelectsItem(ListFocused(list))
           /\ list.count # 0 => ListFocused(list).selected # NoIndex
           /\ ListUnfocused(list) \in ListsOf(c) /\ ListUnfocused(list).count = list.count
           /\ ListUnfocused(list).selected = NoIndex
<1>1. PICK s : s = StartIndex(list)  OBVIOUS
<1>2. list.count \in Nat /\ NoIndex \notin Int /\ SelectLast
  BY LongListAssumption, MainScreenAssumption DEF ListsOf
<1>3. s = IF list.count = 0 THEN NoIndex ELSE list.count - 1  BY <1>1, <1>2 DEF StartIndex
<1>4. s \in Nat \cup {NoIndex} /\ (s # NoIndex => s < list.count) /\ (list.count # 0 => s # NoIndex)
  BY <1>2, <1>3
<1>5. PICK q, n, v : q = ListFocused(list) /\ n = NoIndex /\ v = ListUnfocused(list)
  OBVIOUS
<1>6. q = [list EXCEPT !.selected = s] /\ v = [list EXCEPT !.selected = n] /\ n \in Nat \cup {NoIndex}
  BY <1>1, <1>5 DEF ListFocused, ListUnfocused
<1>7. /\ q \in ListsOf(c) /\ q.selected = s /\ q.count = list.count /\ q.width = list.width
      /\ v \in ListsOf(c) /\ v.selected = n /\ v.count = list.count /\ v.width = list.width
  BY <1>4, <1>6, PutSelected
<1> QED BY <1>4, <1>5, <1>7 DEF SelectsItem

\* Its list set.
LEMMA PutUiList ==
    ASSUME NEW u, UiTyped(u), NEW c, NEW list, list \in ListsOf(c), SelectsItem(list),
           NEW v, v = UiList(u, list)
    PROVE  /\ UiTyped(v) /\ v.list = list /\ v.lit = u.lit /\ v.item = u.item
           /\ v.cell = u.cell /\ v.split = u.split /\ v.main = u.main /\ v.element = u.element
           /\ v.selecting = u.selecting /\ v.expanded = u.expanded /\ v.unit = u.unit
<1>1. list.cache = c  BY DEF ListsOf
<1>2. /\ v \in UiOf(c) /\ v.list = list /\ v.lit = u.lit /\ v.item = u.item
      /\ v.cell = u.cell /\ v.split = u.split /\ v.main = u.main /\ v.element = u.element
      /\ v.selecting = u.selecting /\ v.expanded = u.expanded /\ v.unit = u.unit
  BY DEF UiTyped, UiOf, UiList
<1> QED BY <1>1, <1>2 DEF UiTyped

\* Its lamps set.
LEMMA PutUiLit ==
    ASSUME NEW u, UiTyped(u), NEW lit \in SUBSET {"expand", "precision"}, NEW selecting \in BOOLEAN,
           NEW v, v = UiLit(u, lit, selecting)
    PROVE  /\ UiTyped(v) /\ v.list = u.list /\ v.lit = lit /\ v.item = u.item
           /\ v.cell = u.cell /\ v.split = u.split /\ v.main = u.main /\ v.element = u.element
           /\ v.selecting = selecting /\ v.expanded = u.expanded /\ v.unit = u.unit
<1>1. /\ v \in UiOf(u.list.cache) /\ v.list = u.list /\ v.lit = lit /\ v.item = u.item
      /\ v.cell = u.cell /\ v.split = u.split /\ v.main = u.main /\ v.element = u.element
      /\ v.selecting = selecting /\ v.expanded = u.expanded /\ v.unit = u.unit
  BY DEF UiTyped, UiOf, UiLit
<1> QED BY <1>1 DEF UiTyped

\* Its lamps set, with no selector selecting.
LEMMA PutUiLamps ==
    ASSUME NEW u, UiTyped(u), NEW lit \in SUBSET {"expand", "precision"},
           NEW v, v = UiLit(u, lit, FALSE)
    PROVE  /\ UiTyped(v) /\ v.list = u.list /\ v.lit = lit /\ v.item = u.item
           /\ v.cell = u.cell /\ v.split = u.split /\ v.main = u.main /\ v.element = u.element
           /\ ~v.selecting
<1>1. /\ v \in UiOf(u.list.cache) /\ v.list = u.list /\ v.lit = lit /\ v.item = u.item
      /\ v.cell = u.cell /\ v.split = u.split /\ v.main = u.main /\ v.element = u.element
      /\ ~v.selecting
  BY DEF UiTyped, UiOf, UiLit
<1> QED BY <1>1 DEF UiTyped

\* Where it says the focus is, set.
LEMMA PutUiPlace ==
    ASSUME NEW u, UiTyped(u), NEW cell, cell \in BOOLEAN, NEW split \in {"menu", "main"},
           NEW item \in Nat, NEW main, main \in BOOLEAN, NEW element \in Elements,
           NEW v, v = UiPlace(u, cell, split, item, main, element)
    PROVE  /\ UiTyped(v) /\ v.list = u.list /\ v.lit = u.lit /\ v.item = item
           /\ v.cell = cell /\ v.split = split /\ v.main = main /\ v.element = element
           /\ v.selecting = u.selecting /\ v.expanded = u.expanded /\ v.unit = u.unit
<1>1. /\ v \in UiOf(u.list.cache) /\ v.list = u.list /\ v.lit = u.lit /\ v.item = item
      /\ v.cell = cell /\ v.split = split /\ v.main = main /\ v.element = element
      /\ v.selecting = u.selecting /\ v.expanded = u.expanded /\ v.unit = u.unit
  BY DEF UiTyped, UiOf, UiPlace
<1> QED BY <1>1 DEF UiTyped

\* An element is given the focus.
LEMMA GivenGood ==
    ASSUME NEW u, Quiet(u), NEW e \in Elements, Takes(u, e), NEW v, v = Given(u, e)
    PROVE  /\ UiTyped(v) /\ ~v.selecting /\ SameUi(v, u) /\ v.item = u.item
           /\ \A f : f \in HoldersOf(v) <=> (f = e \/ (f = "menu" /\ v.item # 0))
           /\ v.cell = u.cell /\ v.split = u.split /\ v.main = u.main /\ v.element = u.element
<1>1. UiTyped(u) /\ u.list \in ListsOf(u.list.cache)  BY HoldersAre DEF Quiet
<1>2. u.lit = {} /\ u.list.selected = NoIndex /\ ~u.selecting  BY DEF Quiet
<1>3. CASE e = "log"
  <2>1. PICK c, list : c = u.list.cache /\ list = ListFocused(u.list)  OBVIOUS
  <2>2. list \in ListsOf(c) /\ SelectsItem(list) /\ list.count = u.list.count
        /\ list.width = u.list.width /\ list.cache = c /\ list.selected # NoIndex
    BY <1>1, <1>3, <2>1, LogFocusIs DEF Takes, ListTakesFocus, ListsOf
  <2>3. v = UiList(u, list)  BY <1>3, <2>1 DEF Given, UiList
  <2>4. /\ UiTyped(v) /\ v.list = list /\ v.lit = u.lit /\ v.item = u.item
        /\ v.cell = u.cell /\ v.split = u.split /\ v.main = u.main /\ v.element = u.element
        /\ v.selecting = u.selecting /\ v.expanded = u.expanded /\ v.unit = u.unit
    BY <1>1, <2>2, <2>3, PutUiList
  <2>5. \A f : f \in HoldersOf(v) <=> (f = e \/ (f = "menu" /\ v.item # 0))
    BY <1>2, <1>3, <2>2, <2>4, HoldersAre
  <2> QED BY <1>2, <2>1, <2>2, <2>4, <2>5 DEF SameUi
<1>4. CASE e # "log"
  <2>1. PICK lit : lit = u.lit \cup {e}  OBVIOUS
  <2>2. lit \in SUBSET {"expand", "precision"}
    BY <1>1, <1>2, <1>4, <2>1 DEF Elements, UiTyped, UiOf
  <2>3. v = UiLit(u, lit, FALSE)
    BY <1>1, <1>2, <1>4, <2>1 DEF Given, UiLit, UiTyped, UiOf
  <2>4. /\ UiTyped(v) /\ v.list = u.list /\ v.lit = lit /\ v.item = u.item
        /\ v.cell = u.cell /\ v.split = u.split /\ v.main = u.main /\ v.element = u.element
        /\ ~v.selecting
    BY <1>1, <2>2, <2>3, PutUiLamps
  <2>5. \A f : f \in HoldersOf(v) <=> (f = e \/ (f = "menu" /\ v.item # 0))
    BY <1>2, <2>1, <2>4, HoldersAre
  <2> QED BY <1>2, <2>4, <2>5 DEF SameUi
<1> QED BY <1>3, <1>4

\* The element that has the focus loses it.
LEMMA TakenGood ==
    ASSUME NEW u, NEW e \in Elements, Holds(u, e), NEW v, v = Taken(u, e)
    PROVE  /\ Bare(v) /\ SameUi(v, u) /\ v.item = u.item
           /\ v.cell = u.cell /\ v.split = u.split /\ v.main = u.main /\ v.element = u.element
<1>1. UiTyped(u) /\ u.list \in ListsOf(u.list.cache) /\ (\A f : f \in HoldersOf(u) <=> f = e)
  BY HoldersAre DEF Holds
<1>2. e \in {"log", "expand", "precision"} /\ u.item = 0  BY <1>1, HoldersAre DEF Elements
<1>3. CASE e = "log"
  <2>1. PICK c, list : c = u.list.cache /\ list = ListUnfocused(u.list)  OBVIOUS
  <2>2. list \in ListsOf(c) /\ SelectsItem(list) /\ list.count = u.list.count
        /\ list.width = u.list.width /\ list.cache = c /\ list.selected = NoIndex
    BY <1>1, <2>1, LogFocusIs DEF SelectsItem, ListsOf
  <2>3. v = UiList(u, list)  BY <1>3, <2>1 DEF Taken, UiList
  <2>4. /\ UiTyped(v) /\ v.list = list /\ v.lit = u.lit /\ v.item = u.item
        /\ v.cell = u.cell /\ v.split = u.split /\ v.main = u.main /\ v.element = u.element
        /\ v.selecting = u.selecting /\ v.expanded = u.expanded /\ v.unit = u.unit
    BY <1>1, <2>2, <2>3, PutUiList
  <2>5. \A f : f \notin HoldersOf(v)  BY <1>1, <1>2, <1>3, <2>2, <2>4, HoldersAre
  <2>6. ~v.selecting  BY <1>3, <2>4 DEF Holds
  <2> QED BY <2>1, <2>2, <2>4, <2>5, <2>6 DEF Bare, SameUi
<1>4. CASE e # "log"
  <2>1. PICK lit, b : lit = u.lit \ {e} /\ b = (u.selecting /\ e # "precision")  OBVIOUS
  <2>2. lit \in SUBSET {"expand", "precision"} /\ b \in BOOLEAN  BY <1>1, <2>1, HoldersAre
  <2>3. v = UiLit(u, lit, b)  BY <1>4, <2>1 DEF Taken, UiLit
  <2>4. /\ UiTyped(v) /\ v.list = u.list /\ v.lit = lit /\ v.item = u.item
        /\ v.cell = u.cell /\ v.split = u.split /\ v.main = u.main /\ v.element = u.element
        /\ v.selecting = b /\ v.expanded = u.expanded /\ v.unit = u.unit
    BY <1>1, <2>2, <2>3, PutUiLit
  <2>5. \A f : f \notin HoldersOf(v)  BY <1>1, <1>2, <1>4, <2>1, <2>4, HoldersAre
  <2>6. ~v.selecting  BY <2>1, <2>4 DEF Holds
  <2> QED BY <2>4, <2>5, <2>6 DEF Bare, SameUi
<1> QED BY <1>3, <1>4

--------------------------------------------------------------------------------
(* The focus in the menu bar, in the main view, or nowhere. *)

\* A good interface is one of the three.
LEMMA UiCases ==
    ASSUME NEW u, NEW mode
    PROVE  UiGood(u, mode) <=> Off(u) \/ InMenu(u) \/ InMain(u, mode)
<1>1. ASSUME UiGood(u, mode) PROVE Off(u) \/ InMenu(u) \/ InMain(u, mode)
  <2>1. u.cell \in BOOLEAN /\ u.main \in BOOLEAN /\ u.split \in {"menu", "main"} /\ u.element \in Elements
    BY <1>1 DEF UiGood, UiTyped, UiOf
  <2>2. CASE ~u.cell  BY <1>1, <2>1, <2>2 DEF UiGood, UiFocused, Off, Bare
  <2>3. CASE u.cell /\ u.split = "menu"  BY <1>1, <2>1, <2>3 DEF UiGood, UiFocused, InMenu
  <2>4. CASE u.cell /\ u.split = "main"
    BY <1>1, <2>1, <2>4 DEF UiGood, UiFocused, InMain, Holds
  <2> QED BY <2>1, <2>2, <2>3, <2>4
<1>2. ASSUME Off(u) PROVE UiGood(u, mode)  BY <1>2 DEF UiGood, UiFocused, Off, Bare
<1>3. ASSUME InMenu(u) PROVE UiGood(u, mode)  BY <1>3 DEF UiGood, UiFocused, InMenu
<1>4. ASSUME InMain(u, mode) PROVE UiGood(u, mode)
  BY <1>4 DEF UiGood, UiFocused, InMain, Holds
<1> QED BY <1>1, <1>2, <1>3, <1>4

\* The main view is given the focus.
LEMMA MainGivenGood ==
    ASSUME NEW u, Quiet(u), NEW e \in Elements, Takes(u, e), NEW v, v = MainGiven(u, e)
    PROVE  /\ UiTyped(v) /\ ~v.selecting /\ SameUi(v, u) /\ v.item = u.item
           /\ \A f : f \in HoldersOf(v) <=> (f = e \/ (f = "menu" /\ v.item # 0))
           /\ v.cell = u.cell /\ v.split = u.split /\ v.main /\ v.element = e
<1>1. PICK g, cell, split, item, main :
         /\ g = Given(u, e) /\ cell = g.cell /\ split = g.split /\ item = g.item /\ main = TRUE
  OBVIOUS
<1>2. /\ UiTyped(g) /\ ~g.selecting /\ SameUi(g, u) /\ g.item = u.item
      /\ \A f : f \in HoldersOf(g) <=> (f = e \/ (f = "menu" /\ g.item # 0))
      /\ g.cell = u.cell /\ g.split = u.split /\ g.main = u.main /\ g.element = u.element
  BY <1>1, GivenGood
<1>3. cell \in BOOLEAN /\ split \in {"menu", "main"} /\ item \in Nat /\ main \in BOOLEAN
  BY <1>1, <1>2 DEF UiTyped, UiOf
<1>4. v = UiPlace(g, cell, split, item, main, e)
  BY <1>1, <1>2 DEF MainGiven, UiPlace, UiTyped, UiOf
<1>5. /\ UiTyped(v) /\ v.list = g.list /\ v.lit = g.lit /\ v.item = item
      /\ v.cell = cell /\ v.split = split /\ v.main = main /\ v.element = e
      /\ v.selecting = g.selecting /\ v.expanded = g.expanded /\ v.unit = g.unit
  BY <1>2, <1>3, <1>4, PutUiPlace
<1>6. HoldersOf(v) = HoldersOf(g)  BY <1>1, <1>5 DEF HoldersOf
<1> QED BY <1>1, <1>2, <1>5, <1>6 DEF SameUi

\* The main view loses the focus.
LEMMA MainTakenGood ==
    ASSUME NEW u, NEW mode, InMain(u, mode), NEW v, v = MainTaken(u)
    PROVE  /\ Bare(v) /\ SameUi(v, u) /\ v.item = u.item
           /\ v.cell = u.cell /\ v.split = u.split /\ ~v.main /\ v.element = u.element
<1>1. PICK g, cell, split, item, main, e :
         /\ e = u.element /\ g = Taken(u, e) /\ cell = g.cell /\ split = g.split /\ item = g.item
         /\ main = FALSE
  OBVIOUS
<1>2. e \in Elements /\ Holds(u, e)  BY <1>1 DEF InMain
<1>3. /\ Bare(g) /\ SameUi(g, u) /\ g.item = u.item
      /\ g.cell = u.cell /\ g.split = u.split /\ g.main = u.main /\ g.element = u.element
  BY <1>1, <1>2, TakenGood
<1>4. /\ UiTyped(g)
      /\ cell \in BOOLEAN /\ split \in {"menu", "main"} /\ item \in Nat /\ main \in BOOLEAN
  BY <1>1, <1>3 DEF UiTyped, UiOf, Bare
<1>5. v = UiPlace(g, cell, split, item, main, e)
  BY <1>1, <1>3, <1>4 DEF MainTaken, UiPlace, UiTyped, UiOf
<1>6. /\ UiTyped(v) /\ v.list = g.list /\ v.lit = g.lit /\ v.item = item
      /\ v.cell = cell /\ v.split = split /\ v.main = main /\ v.element = e
      /\ v.selecting = g.selecting /\ v.expanded = g.expanded /\ v.unit = g.unit
  BY <1>2, <1>4, <1>5, PutUiPlace
<1>7. HoldersOf(v) = HoldersOf(g)  BY <1>1, <1>6 DEF HoldersOf
<1> QED BY <1>1, <1>3, <1>6, <1>7 DEF SameUi, Bare

\* Everyone loses the focus.
LEMMA AllTakenGood ==
    ASSUME NEW u, NEW mode, UiGood(u, mode), NEW v, v = AllTaken(u)
    PROVE  Off(v) /\ SameUi(v, u)
<1>1. Off(u) \/ InMenu(u) \/ InMain(u, mode)  BY UiCases
<1>2. PICK no, zero : no = FALSE /\ zero = 0 /\ no \in BOOLEAN /\ zero \in Nat  OBVIOUS
<1>3. CASE Off(u)  BY <1>3 DEF AllTaken, Off, SameUi
<1>4. CASE InMenu(u)
  <2>1. PICK split, main, e : split = u.split /\ main = u.main /\ e = u.element  OBVIOUS
  <2>2. UiTyped(u) /\ split \in {"menu", "main"} /\ main \in BOOLEAN /\ e \in Elements
    BY <1>4, <2>1 DEF InMenu, UiTyped, UiOf
  <2>3. v = [[u EXCEPT !.item = zero] EXCEPT !.cell = no]
    BY <1>2, <1>4 DEF AllTaken, InMenu
  <2>4. [[u EXCEPT !.item = zero] EXCEPT !.cell = no] = UiPlace(u, no, split, zero, main, e)
    BY <2>1, <2>2 DEF UiPlace, UiTyped, UiOf
  <2>5. v = UiPlace(u, no, split, zero, main, e)  BY <2>3, <2>4
  <2>6. /\ UiTyped(v) /\ v.list = u.list /\ v.lit = u.lit /\ v.item = zero
        /\ v.cell = no /\ v.split = split /\ v.main = main /\ v.element = e
        /\ v.selecting = u.selecting /\ v.expanded = u.expanded /\ v.unit = u.unit
    BY <1>2, <2>2, <2>5, PutUiPlace
  <2>7. \A f : f \in HoldersOf(u) <=> f = "menu"  BY <1>4 DEF InMenu
  <2>8. \A f : f \notin HoldersOf(v)  BY <1>2, <2>2, <2>6, <2>7, HoldersAre
  <2> QED BY <1>2, <1>4, <2>1, <2>6, <2>8 DEF Off, Bare, SameUi, InMenu
<1>5. CASE InMain(u, mode)
  <2>1. PICK g, split, item, main, e :
           g = MainTaken(u) /\ split = g.split /\ item = g.item /\ main = g.main /\ e = g.element
    OBVIOUS
  <2>2. /\ Bare(g) /\ SameUi(g, u) /\ g.item = u.item
        /\ g.cell = u.cell /\ g.split = u.split /\ ~g.main /\ g.element = u.element
    BY <1>5, <2>1, MainTakenGood
  <2>3. UiTyped(g) /\ split \in {"menu", "main"} /\ item \in Nat /\ main \in BOOLEAN /\ e \in Elements
    BY <2>1, <2>2 DEF UiTyped, UiOf, Bare
  <2>4. v = [g EXCEPT !.cell = no]  BY <1>2, <1>5, <2>1 DEF AllTaken, InMain
  <2>5. [g EXCEPT !.cell = no] = UiPlace(g, no, split, item, main, e)
    BY <2>1, <2>3 DEF UiPlace, UiTyped, UiOf
  <2>6. v = UiPlace(g, no, split, item, main, e)  BY <2>4, <2>5
  <2>7. /\ UiTyped(v) /\ v.list = g.list /\ v.lit = g.lit /\ v.item = item
        /\ v.cell = no /\ v.split = split /\ v.main = main /\ v.element = e
        /\ v.selecting = g.selecting /\ v.expanded = g.expanded /\ v.unit = g.unit
    BY <1>2, <2>3, <2>6, PutUiPlace
  <2>8. HoldersOf(v) = HoldersOf(g)  BY <2>1, <2>7 DEF HoldersOf
  <2> QED BY <1>2, <2>1, <2>2, <2>7, <2>8 DEF Off, Bare, SameUi
<1> QED BY <1>1, <1>3, <1>4, <1>5

\* What has nothing showing in the main view can be given the focus.
LEMMA QuietWhen ==
    ASSUME NEW u, Bare(u) \/ InMenu(u)
    PROVE  Quiet(u)
<1>1. UiTyped(u) /\ ~u.selecting /\ \A f : f \in HoldersOf(u) => f = "menu"
  BY DEF Bare, InMenu
<1>2. u.lit = {} /\ u.list.selected = NoIndex  BY <1>1, HoldersAre
<1> QED BY <1>1, <1>2 DEF Quiet

\* Who has no focus is made ready for it.
LEMMA ReadyGood ==
    ASSUME NEW u, Off(u), NEW v, v = Celled(u)
    PROVE  Ready(v) /\ SameUi(v, u)
<1>1. PICK yes : yes = TRUE /\ yes \in BOOLEAN  OBVIOUS
<1>2. PICK split, item, main, e :
         split = u.split /\ item = u.item /\ main = u.main /\ e = u.element
  OBVIOUS
<1>3. UiTyped(u)  BY DEF Off, Bare
<1>4. split \in {"menu", "main"} /\ item \in Nat /\ main \in BOOLEAN /\ e \in Elements
  BY <1>2, <1>3 DEF UiTyped, UiOf
<1>5. v = [u EXCEPT !.cell = yes]  BY <1>1, Zenon DEF Celled
<1>6. [u EXCEPT !.cell = yes] = UiPlace(u, yes, split, item, main, e)
  BY <1>2, <1>3 DEF UiPlace, UiTyped, UiOf
<1>7. v = UiPlace(u, yes, split, item, main, e)  BY <1>5, <1>6
<1>8. yes \in BOOLEAN  BY <1>1
<1>9. /\ UiTyped(v) /\ v.list = u.list /\ v.lit = u.lit /\ v.item = item
      /\ v.cell = yes /\ v.split = split /\ v.main = main /\ v.element = e
      /\ v.selecting = u.selecting /\ v.expanded = u.expanded /\ v.unit = u.unit
  <2> HIDE <1>1, <1>2
  <2> QED BY <1>3, <1>4, <1>7, <1>8, PutUiPlace
<1>10. HoldersOf(v) = HoldersOf(u)  BY <1>2, <1>9 DEF HoldersOf
<1> QED BY <1>1, <1>2, <1>9, <1>10 DEF Ready, Bare, Off, SameUi

\* The menu bar is given the focus, with one of its labels.
LEMMA MenuGivenGood ==
    ASSUME NEW u, Ready(u), NEW item \in Nat \ {0}, NEW v, v = MenuGiven(u, item)
    PROVE  InMenu(v) /\ SameUi(v, u)
<1>1. PICK cell, split, main, e :
         cell = u.cell /\ split = "menu" /\ main = u.main /\ e = u.element
  OBVIOUS
<1>2. UiTyped(u)  BY DEF Ready, Bare
<1>3. /\ main \in BOOLEAN /\ e \in Elements /\ split \in {"menu", "main"}
      /\ cell \in BOOLEAN /\ item \in Nat
  BY <1>1, <1>2 DEF UiTyped, UiOf
<1>4. v = UiPlace(u, cell, split, item, main, e)
  BY <1>1, <1>2 DEF MenuGiven, UiPlace, UiTyped, UiOf
<1>5. /\ UiTyped(v) /\ v.list = u.list /\ v.lit = u.lit /\ v.item = item
      /\ v.cell = cell /\ v.split = split /\ v.main = main /\ v.element = e
      /\ v.selecting = u.selecting /\ v.expanded = u.expanded /\ v.unit = u.unit
  BY <1>2, <1>3, <1>4, PutUiPlace
<1>6. \A f : f \notin HoldersOf(u)  BY DEF Ready, Bare
<1>7. \A f : f \in HoldersOf(v) <=> f = "menu"  BY <1>2, <1>5, <1>6, HoldersAre
<1> QED BY <1>1, <1>5, <1>7 DEF InMenu, SameUi, Ready, Bare

--------------------------------------------------------------------------------
(* The focus passed on in the main view. *)

\* All steps are.
LEMMA NeighboursFit ==
    ASSUME NEW mode \in Modes, NEW n \in Neighbours(mode)
    PROVE  Fits(mode, n)
<1>1. CASE mode = "full"
  <2>1. VisibleIn(mode) = Elements  BY <1>1, Zenon DEF VisibleIn
  <2>2. Neighbours(mode) =
          {<<"up", "precision", "expand">>, <<"down", "expand", "precision">>,
           <<"left", "expand", "log">>, <<"left", "precision", "log">>,
           <<"right", "log", "precision">>,
           <<"forward", "log", "expand">>, <<"forward", "expand", "precision">>}
    BY <1>1, Zenon DEF Neighbours
  <2> QED BY <2>1, <2>2 DEF Fits, Elements
<1>2. CASE mode = "logs"
  <2>1. VisibleIn(mode) = {"log", "expand"}  BY <1>2 DEF VisibleIn
  <2>2. Neighbours(mode) =
          {<<"up", "log", "expand">>, <<"up", "precision", "expand">>,
           <<"down", "expand", "log">>, <<"down", "precision", "log">>,
           <<"forward", "expand", "log">>, <<"forward", "precision", "log">>}
    BY <1>2 DEF Neighbours
  <2> QED BY <2>1, <2>2 DEF Fits
<1>3. CASE mode = "expanded"
  <2>1. VisibleIn(mode) = {"expand", "precision"}  BY <1>3 DEF VisibleIn
  <2>2. Neighbours(mode) =
          {<<"left", "precision", "expand">>, <<"right", "expand", "precision">>,
           <<"forward", "expand", "precision">>}
    BY <1>3 DEF Neighbours
  <2> QED BY <2>1, <2>2 DEF Fits
<1> QED BY <1>1, <1>2, <1>3 DEF Modes

\* What is next is visible, and the log is not next to itself.
LEMMA BeyondIs ==
    ASSUME NEW mode \in Modes, NEW d, NEW e, NEW f \in Beyond(mode, d, e)
    PROVE  f \in VisibleIn(mode) /\ f \in Elements /\ (e = "log" => f # "log")
<1>1. PICK n \in Neighbours(mode) : n[2] = e /\ n[3] = f  BY DEF Beyond
<1>2. Fits(mode, n)  BY NeighboursFit
<1>3. VisibleIn(mode) \subseteq Elements  BY DEF Modes, VisibleIn, Elements
<1> QED BY <1>1, <1>2, <1>3 DEF Fits

\* It takes it.
LEMMA NextTakes ==
    ASSUME NEW u, NEW mode \in Modes, NEW d, NEW e, NEW f \in NextOf(u, mode, d, e)
    PROVE  f \in VisibleIn(mode) /\ f \in Elements /\ Takes(u, f)
<1>1. Beyond(mode, d, e) # {}  BY DEF NextOf
<1>2. PICK g : g = (CHOOSE x \in Beyond(mode, d, e) : TRUE) /\ g \in Beyond(mode, d, e)
  BY <1>1
<1>3. f \in (IF Takes(u, g) THEN {g} ELSE Beyond(mode, d, g))
  BY <1>1, <1>2, Zenon DEF NextOf
<1>4. g \in VisibleIn(mode) /\ g \in Elements  BY <1>2, BeyondIs
<1>5. CASE Takes(u, g)  BY <1>3, <1>4, <1>5
<1>6. CASE ~Takes(u, g)
  <2>1. f \in Beyond(mode, d, g)  BY <1>3, <1>6
  <2>2. g = "log"  BY <1>6 DEF Takes
  <2>3. f \in VisibleIn(mode) /\ f \in Elements /\ f # "log"  BY <2>1, <2>2, BeyondIs
  <2> QED BY <2>3 DEF Takes
<1> QED BY <1>5, <1>6

\* The focus is passed on in the main view.
LEMMA PassedUi ==
    ASSUME NEW u, NEW mode \in Modes, InMain(u, mode), NEW d, NEW r, r = Passed(u, mode, d)
    PROVE  InMain(r.ui, mode) /\ SameUi(r.ui, u) /\ r.status \in {"handled", d}
<1>1. PICK next : next = NextOf(u, mode, d, u.element)  OBVIOUS
<1>2. r = IF next = {} THEN [ui |-> u, status |-> d]
          ELSE LET e == CHOOSE x \in next : TRUE
               IN  [ui |-> [Given(Taken(u, u.element), e) EXCEPT !.element = e], status |-> "handled"]
  BY <1>1, Zenon DEF Passed, NextOf, Beyond
<1>3. CASE next = {}
  <2>1. r = [ui |-> u, status |-> d]  BY <1>2, <1>3
  <2> QED BY <2>1 DEF SameUi
<1>4. CASE next # {}
  <2>1. PICK e : e = (CHOOSE x \in next : TRUE) /\ e \in next  BY <1>4
  <2>2. PICK c, g, v : c = u.element /\ g = Taken(u, c) /\ v = Given(g, e)  OBVIOUS
  <2>3. r = [ui |-> OnElement(v, e), status |-> "handled"]
    BY <1>2, <1>4, <2>1, <2>2, Zenon DEF OnElement
  <2>4. e \in VisibleIn(mode) /\ e \in Elements /\ Takes(u, e)  BY <1>1, <2>1, NextTakes
  <2>5. c \in Elements /\ Holds(u, c) /\ u.cell /\ u.split = "main" /\ u.main
    BY <2>2 DEF InMain
  <2>6. /\ Bare(g) /\ SameUi(g, u) /\ g.item = u.item
        /\ g.cell = u.cell /\ g.split = u.split /\ g.main = u.main
    BY <2>2, <2>5, TakenGood, ZenonT(40)
  <2>7. Quiet(g) /\ g.item = 0  BY <2>6, QuietWhen, HoldersAre DEF Bare
  <2>8. Takes(g, e)  BY <2>4, <2>6 DEF Takes, ListTakesFocus, SameUi
  <2>9. /\ UiTyped(v) /\ ~v.selecting /\ SameUi(v, g) /\ v.item = g.item
        /\ \A f : f \in HoldersOf(v) <=> (f = e \/ (f = "menu" /\ v.item # 0))
        /\ v.cell = g.cell /\ v.split = g.split /\ v.main = g.main
    BY <2>2, <2>4, <2>7, <2>8, GivenGood
  <2>10. PICK w, cell, split, item, main : w = OnElement(v, e)
            /\ cell = v.cell /\ split = v.split /\ item = v.item /\ main = v.main
    OBVIOUS
  <2>11. /\ cell \in BOOLEAN /\ split \in {"menu", "main"} /\ item \in Nat /\ main \in BOOLEAN
    BY <2>9, <2>10 DEF UiTyped, UiOf
  <2>12. w = UiPlace(v, cell, split, item, main, e)
    BY <2>9, <2>10 DEF OnElement, UiPlace, UiTyped, UiOf
  <2>13. /\ UiTyped(w) /\ w.list = v.list /\ w.lit = v.lit /\ w.item = item
         /\ w.cell = cell /\ w.split = split /\ w.main = main /\ w.element = e
         /\ w.selecting = v.selecting
    <3> HIDE <2>10, <2>5
    <3> QED BY <2>4, <2>9, <2>11, <2>12, PutUiPlace
  <2>14. \A f : f \in HoldersOf(w) <=> f = e  BY <2>7, <2>9, <2>10, <2>13 DEF HoldersOf
  <2>15. Holds(w, e)  BY <2>9, <2>13, <2>14 DEF Holds
  <2>16. w.cell = u.cell /\ w.split = u.split /\ w.main = u.main
    BY <2>6, <2>9, <2>10, <2>13
  <2>17. InMain(w, mode)  BY <2>4, <2>5, <2>13, <2>15, <2>16 DEF InMain
  <2> QED BY <2>3, <2>6, <2>9, <2>10, <2>13, <2>17 DEF SameUi
<1> QED BY <1>3, <1>4

--------------------------------------------------------------------------------
(* Shortcuts, and the button. *)

\* It may change.
LEMMA PutUiRest ==
    ASSUME NEW u, UiTyped(u), NEW expanded, expanded \in BOOLEAN, NEW unit \in Units,
           NEW v, v = UiRest(u, expanded, unit)
    PROVE  /\ UiTyped(v) /\ v.list = u.list /\ v.lit = u.lit /\ v.item = u.item
           /\ v.cell = u.cell /\ v.split = u.split /\ v.main = u.main /\ v.element = u.element
           /\ v.selecting = u.selecting
<1>1. /\ v \in UiOf(u.list.cache) /\ v.list = u.list /\ v.lit = u.lit /\ v.item = u.item
      /\ v.cell = u.cell /\ v.split = u.split /\ v.main = u.main /\ v.element = u.element
      /\ v.selecting = u.selecting
  BY DEF UiTyped, UiOf, UiRest
<1> QED BY <1>1 DEF UiTyped

\* An interface that differs in nothing of the focus is as good.
LEMMA SameWayGood ==
    ASSUME NEW u, NEW v, SameWay(v, u), NEW mode
    PROVE  /\ UiGood(u, mode) => UiGood(v, mode)
           /\ InMain(u, mode) => InMain(v, mode)
           /\ SameUi(v, u)
<1>1. HoldersOf(v) = HoldersOf(u)  BY DEF HoldersOf, SameWay
<1> QED BY <1>1 DEF SameWay, UiGood, UiFocused, InMain, Holds, SameUi

\* The button that expands is pressed.
LEMMA ToggledGood ==
    ASSUME NEW u, UiTyped(u)
    PROVE  SameWay(Toggled(u), u)
<1>1. PICK b : b = ~u.expanded /\ b \in BOOLEAN  BY Zenon
<1>2. PICK unit : unit = u.unit  OBVIOUS
<1>3. unit \in Units  BY <1>2 DEF UiTyped, UiOf
<1>4. Toggled(u) = [u EXCEPT !.expanded = ~u.expanded]  BY DEF Toggled
<1>5. Toggled(u) = [u EXCEPT !.expanded = b]  BY <1>1, <1>4
<1>6. [u EXCEPT !.expanded = b] = UiRest(u, b, unit)  BY <1>2 DEF UiTyped, UiOf, UiRest
<1>7. Toggled(u) = UiRest(u, b, unit)  BY <1>5, <1>6
<1>8. b \in BOOLEAN  BY <1>1
<1> HIDE <1>1
<1> QED BY <1>3, <1>7, <1>8, PutUiRest DEF SameWay

\* Another unit.
LEMMA UnitGood ==
    ASSUME NEW u, UiTyped(u), NEW unit \in Units, NEW v, v = [u EXCEPT !.unit = unit]
    PROVE  SameWay(v, u)
<1>1. PICK b : b = u.expanded  OBVIOUS
<1>2. b \in BOOLEAN  BY <1>1 DEF UiTyped, UiOf
<1>3. v = UiRest(u, b, unit)  BY <1>1 DEF UiTyped, UiOf, UiRest
<1> QED BY <1>2, <1>3, PutUiRest DEF SameWay

\* The unit beside one is one.
LEMMA UnitBesideIs ==
    ASSUME NEW unit \in Units, NEW code
    PROVE  UnitBeside(unit, code) \in Units
<1>1. PICK below, above : below = {x \in Units : x < unit} /\ above = {x \in Units : x > unit}
  OBVIOUS
<1>2. \A x \in Units : x \in Nat  BY UsageTrackerAssumption
<1>7. below \in SUBSET Units /\ above \in SUBSET Units  BY <1>1
<1>8. unit \in Nat /\ \A x \in below : x \in Nat /\ x <= unit  BY <1>1, <1>2
<1>3. /\ below \in SUBSET Units /\ above \in SUBSET Units /\ below \in SUBSET Nat /\ above \in SUBSET Nat
      /\ (\A x \in below : x <= unit) /\ unit \in Nat
  BY <1>2, <1>7, <1>8
<1>4. below # {} => Max(below) \in below  BY <1>3, MaxGreatest
<1>5. above # {} => Min(above) \in above  BY <1>3, MinLeast
<1>6. \/ UnitBeside(unit, code) = unit
      \/ below # {} /\ UnitBeside(unit, code) = Max(below)
      \/ above # {} /\ UnitBeside(unit, code) = Min(above)
  BY <1>1 DEF UnitBeside
<1> QED BY <1>3, <1>4, <1>5, <1>6

\* Shortcuts.
LEMMA ShortcutsGood ==
    ASSUME NEW u, NEW mode, UiGood(u, mode), NEW code, NEW r, r = Shortcuts(u, code)
    PROVE  UiGood(r.ui, mode) /\ SameUi(r.ui, u)
<1>1. UiTyped(u) /\ SameWay(u, u)  BY DEF UiGood, SameWay
<1>2. CASE code = Shortcut
  <2>1. r.ui = Toggled(u)  BY <1>2 DEF Shortcuts
  <2> QED BY <1>1, <2>1, ToggledGood, SameWayGood
<1>3. CASE code # Shortcut /\ UnitOf(code) \ {u.unit} # {}
  <2>1. PICK x : x = (CHOOSE y \in UnitOf(code) : TRUE) /\ x \in UnitOf(code)  BY <1>3
  <2>2. PICK v : v = [u EXCEPT !.unit = x]  OBVIOUS
  <2>3. r = [ui |-> [u EXCEPT !.unit = CHOOSE y \in UnitOf(code) : TRUE], status |-> "handled"]
    BY <1>3 DEF Shortcuts
  <2>5. r = [ui |-> v, status |-> "handled"]  BY <2>1, <2>2, <2>3, Zenon
  <2>6. r.ui = v  BY <2>5
  <2>4. x \in Units  BY <2>1 DEF UnitOf
  <2> QED BY <1>1, <2>2, <2>4, <2>6, UnitGood, SameWayGood
<1>4. CASE code # Shortcut /\ UnitOf(code) \ {u.unit} = {}
  <2>1. r.ui = u  BY <1>4 DEF Shortcuts
  <2> QED BY <1>1, <2>1 DEF SameUi
<1> QED BY <1>2, <1>3, <1>4

\* The directions.
LEMMA DirectionsAre == \A code \in DOMAIN DirectionOf : DirectionOf[code] \in Directions
  BY DEF DirectionOf, Directions

\* The button.
LEMMA ButtonKeyGood ==
    ASSUME NEW u, NEW mode, InMain(u, mode), NEW key, NEW r, r = ButtonKey(u, key)
    PROVE  Stays(r, u, mode)
<1>1. UiTyped(u) /\ SameWay(u, u)  BY DEF InMain, Holds, SameWay
<1>2. CASE key.code = "Enter"
  <2>1. "Enter" \notin DOMAIN DirectionOf  BY DEF DirectionOf
  <2>2. r = [ui |-> Toggled(u), status |-> "handled"]  BY <1>2, <2>1 DEF ButtonKey
  <2> QED BY <1>1, <2>2, ToggledGood, SameWayGood DEF Stays
<1>3. CASE key.code # "Enter" /\ key.code \in DOMAIN DirectionOf
  <2>1. r = [ui |-> u, status |-> DirectionOf[key.code]]  BY <1>3 DEF ButtonKey
  <2> QED BY <2>1, <1>3, DirectionsAre DEF Stays, SameUi
<1>4. CASE key.code # "Enter" /\ key.code \notin DOMAIN DirectionOf
  <2>1. r = [ui |-> u, status |-> "unhandled"]  BY <1>4 DEF ButtonKey
  <2> QED BY <2>1 DEF Stays, SameUi
<1> QED BY <1>2, <1>3, <1>4

\* It may, where it has the focus.
LEMMA SelectingUiGood ==
    ASSUME NEW u, NEW mode, InMain(u, mode), u.element = "precision", NEW b, b \in BOOLEAN,
           NEW v, v = SelectingUi(u, b)
    PROVE  InMain(v, mode) /\ SameUi(v, u)
<1>1. UiTyped(u) /\ HoldersOf(u) = {u.element}  BY DEF InMain, Holds
<1>2. PICK lit : lit = u.lit  OBVIOUS
<1>3. lit \in SUBSET {"expand", "precision"}  BY <1>1, <1>2 DEF UiTyped, UiOf
<1>4. v = UiLit(u, lit, b)  BY <1>1, <1>2 DEF SelectingUi, UiLit, UiTyped, UiOf
<1>5. /\ UiTyped(v) /\ v.list = u.list /\ v.lit = lit /\ v.item = u.item
      /\ v.cell = u.cell /\ v.split = u.split /\ v.main = u.main /\ v.element = u.element
  BY <1>1, <1>3, <1>4, PutUiLit
<1>6. HoldersOf(v) = HoldersOf(u)  BY <1>2, <1>5 DEF HoldersOf
<1> QED BY <1>1, <1>5, <1>6 DEF InMain, Holds, SameUi

--------------------------------------------------------------------------------
(* Keys to the main view. *)

\* The selector.
LEMMA SelectorKeyGood ==
    ASSUME NEW u, NEW mode, InMain(u, mode), u.element = "precision", NEW key, key.ctrl \in BOOLEAN,
           NEW r, r = SelectorKey(u, key)
    PROVE  Stays(r, u, mode)
<1>1. UiTyped(u) /\ u.selecting \in BOOLEAN /\ u.unit \in Units /\ SameWay(u, u)
  BY DEF InMain, Holds, SameWay, UiTyped, UiOf
<1>2. PICK inside : inside = (u.selecting /\ ~key.ctrl) /\ inside \in BOOLEAN  BY <1>1
<1>3. CASE key.code = "Enter"
  <2>1. r = [ui |-> [u EXCEPT !.selecting = ~u.selecting], status |-> "handled"]
    BY <1>3 DEF SelectorKey
  <2>2. PICK b : b = ~u.selecting /\ b \in BOOLEAN  BY <1>1, Zenon
  <2>3. r = [ui |-> SelectingUi(u, b), status |-> "handled"]
    BY <2>1, <2>2, Zenon DEF SelectingUi
  <2>4. b \in BOOLEAN  BY <2>2
  <2>5. PICK v : v = SelectingUi(u, b)  OBVIOUS
  <2>6. InMain(v, mode) /\ SameUi(v, u)  BY <2>4, <2>5, SelectingUiGood
  <2> QED BY <2>3, <2>5, <2>6 DEF Stays
<1>4. CASE key.code # "Enter" /\ inside /\ key.code \in {"Left", "Right"}
  <2>1. PICK unit : unit = UnitBeside(u.unit, key.code)  OBVIOUS
  <2>2. PICK v : v = [u EXCEPT !.unit = unit]  OBVIOUS
  <2>3. r = [ui |-> [u EXCEPT !.unit = UnitBeside(u.unit, key.code)], status |-> "handled"]
    BY <1>2, <1>4 DEF SelectorKey
  <2>4. r = [ui |-> v, status |-> "handled"]  BY <2>1, <2>2, <2>3
  <2>5. unit \in Units  BY <1>1, <2>1, UnitBesideIs
  <2>6. InMain(v, mode) /\ SameUi(v, u)  BY <1>1, <2>2, <2>5, UnitGood, SameWayGood
  <2> QED BY <2>4, <2>6 DEF Stays
<1>5. CASE key.code = "Esc" /\ inside
  <2>1. r = [ui |-> [u EXCEPT !.selecting = FALSE], status |-> "handled"]
    BY <1>2, <1>5 DEF SelectorKey
  <2>2. PICK b : b = FALSE /\ b \in BOOLEAN  OBVIOUS
  <2>3. r = [ui |-> SelectingUi(u, b), status |-> "handled"]
    BY <2>1, <2>2, Zenon DEF SelectingUi
  <2>4. b \in BOOLEAN  BY <2>2
  <2>5. PICK v : v = SelectingUi(u, b)  OBVIOUS
  <2>6. InMain(v, mode) /\ SameUi(v, u)  BY <2>4, <2>5, SelectingUiGood
  <2> QED BY <2>3, <2>5, <2>6 DEF Stays
<1>6. CASE key.code # "Enter" /\ ~(inside /\ key.code \in {"Left", "Right", "Esc"})
  <2>1. r = IF key.code \in DOMAIN DirectionOf
            THEN [ui |-> u, status |-> DirectionOf[key.code]]
            ELSE [ui |-> u, status |-> "unhandled"]
    BY <1>2, <1>6 DEF SelectorKey
  <2> QED BY <2>1, DirectionsAre DEF Stays, SameUi
<1> QED BY <1>3, <1>4, <1>5, <1>6, <1>2

\* The list of the log.
LEMMA LogKeyGood ==
    ASSUME NEW u, NEW mode, InMain(u, mode), u.element = "log", NEW key, NEW onLog,
           onLog = ListKey(u.list, key), NEW v, v = UiList(u, onLog.list)
    PROVE  InMain(v, mode) /\ SameUi(v, u) /\ onLog.status \in Directions \cup {"handled", "unhandled"}
<1>1. UiTyped(u) /\ HoldersOf(u) = {"log"}  BY DEF InMain, Holds
<1>2. PICK c, list : c = u.list.cache /\ list = onLog.list  OBVIOUS
<1>3. u.list \in ListsOf(c) /\ SelectsItem(u.list) /\ u.list.selected # NoIndex
  BY <1>1, <1>2, HoldersAre DEF UiTyped, Elements
<1>4. /\ list \in ListsOf(c) /\ list.count = u.list.count /\ SelectsItem(list)
      /\ list.width = u.list.width /\ list.selected # NoIndex
      /\ onLog.status \in Directions \cup {"handled", "unhandled"}
  BY <1>2, <1>3, ListKeyGood
<1>7. list.cache = c  BY <1>4 DEF ListsOf
<1>5. /\ UiTyped(v) /\ v.list = list /\ v.lit = u.lit /\ v.item = u.item
      /\ v.cell = u.cell /\ v.split = u.split /\ v.main = u.main /\ v.element = u.element
      /\ v.selecting = u.selecting
  BY <1>1, <1>2, <1>4, PutUiList
<1>6. HoldersOf(v) = HoldersOf(u)  BY <1>3, <1>4, <1>5 DEF HoldersOf
<1> QED BY <1>1, <1>2, <1>4, <1>5, <1>6, <1>7 DEF InMain, Holds, SameUi

\* The main view, before the focus is passed.
LEMMA MainStays ==
    ASSUME NEW u, NEW mode, InMain(u, mode), NEW key, key.ctrl \in BOOLEAN,
           NEW r, r = ElementKey(u, key)
    PROVE  Stays(r, u, mode)
<1>1. u.element \in {"log", "expand", "precision"}  BY DEF InMain, Elements
<1>2. CASE u.element = "log"
  <2>1. PICK onLog : onLog = ListKey(u.list, key)  OBVIOUS
  <2>2. r = [ui |-> [u EXCEPT !.list = onLog.list], status |-> onLog.status]
    BY <1>2, <2>1 DEF ElementKey
  <2>3. PICK v : v = UiList(u, onLog.list)  OBVIOUS
  <2>4. r.ui = v /\ r.status = onLog.status  BY <2>2, <2>3 DEF UiList
  <2>5. InMain(v, mode) /\ SameUi(v, u) /\ onLog.status \in Directions \cup {"handled", "unhandled"}
    BY <1>2, <2>1, <2>3, LogKeyGood
  <2> QED BY <2>4, <2>5 DEF Stays
<1>3. CASE u.element = "expand"
  <2>1. r = ButtonKey(u, key)  BY <1>3 DEF ElementKey
  <2> QED BY <2>1, ButtonKeyGood
<1>4. CASE u.element = "precision"
  <2>1. r = SelectorKey(u, key)  BY <1>4 DEF ElementKey
  <2> QED BY <1>4, <2>1, SelectorKeyGood
<1> QED BY <1>1, <1>2, <1>3, <1>4

\* The main view.
LEMMA MainKeyGood ==
    ASSUME NEW u, layout.mode \in Modes, InMain(u, layout.mode), NEW key, key.ctrl \in BOOLEAN,
           NEW r, r = MainKey(u, key)
    PROVE  Stays(r, u, layout.mode)
<1>1. PICK mode, s : mode = layout.mode /\ s = ElementKey(u, key)  OBVIOUS
<1>2. MainKey(u, key) = LET q == ElementKey(u, key)
                        IN  IF q.status \in Directions THEN Passed(q.ui, layout.mode, q.status) ELSE q
  BY Zenon DEF MainKey, ElementKey
<1>3. r = IF s.status \in Directions THEN Passed(s.ui, mode, s.status) ELSE s
  BY <1>1, <1>2, Zenon
<1>4. Stays(s, u, mode)  BY <1>1, MainStays
<1>5. CASE s.status \in Directions
  <2>1. PICK v, d : v = s.ui /\ d = s.status  OBVIOUS
  <2>2. r = Passed(v, mode, d)  BY <1>3, <1>5, <2>1
  <2>3. InMain(v, mode) /\ mode \in Modes  BY <1>1, <1>4, <2>1 DEF Stays
  <2>4. InMain(r.ui, mode) /\ SameUi(r.ui, v) /\ r.status \in {"handled", d}
    BY <2>2, <2>3, PassedUi
  <2> QED BY <1>1, <1>4, <1>5, <2>1, <2>4 DEF Stays, SameUi
<1>6. CASE s.status \notin Directions  BY <1>1, <1>3, <1>4, <1>6
<1> QED BY <1>5, <1>6

--------------------------------------------------------------------------------
(* Keys to the menu bar and the split. *)

\* That label has it.
LEMMA ItemGood ==
    ASSUME NEW u, InMenu(u), NEW item \in Nat \ {0}, NEW v, v = OnItem(u, item)
    PROVE  InMenu(v) /\ SameUi(v, u)
<1>1. PICK cell, split, main, e : cell = u.cell /\ split = u.split /\ main = u.main /\ e = u.element
  OBVIOUS
<1>2. UiTyped(u) /\ HoldersOf(u) = {"menu"}  BY DEF InMenu
<1>3. /\ main \in BOOLEAN /\ e \in Elements /\ split \in {"menu", "main"}
      /\ cell \in BOOLEAN /\ item \in Nat
  BY <1>1, <1>2 DEF UiTyped, UiOf
<1>4. v = UiPlace(u, cell, split, item, main, e)
  BY <1>1, <1>2 DEF OnItem, UiPlace, UiTyped, UiOf
<1>5. /\ UiTyped(v) /\ v.list = u.list /\ v.lit = u.lit /\ v.item = item
      /\ v.cell = cell /\ v.split = split /\ v.main = main /\ v.element = e
      /\ v.selecting = u.selecting /\ v.expanded = u.expanded /\ v.unit = u.unit
  BY <1>2, <1>3, <1>4, PutUiPlace
<1>6. \A f : f \in HoldersOf(u) <=> f = "menu"  BY <1>2
<1>7. \A f : f \in HoldersOf(v) <=> f = "menu"  BY <1>2, <1>5, <1>6, HoldersAre
<1> QED BY <1>1, <1>5, <1>7 DEF InMenu, SameUi

\* A key in the menu bar.
LEMMA MenuKeyGood ==
    ASSUME NEW u, InMenu(u), NEW key, NEW r, r = MenuKey(u, key)
    PROVE  /\ InMenu(r.ui) /\ SameUi(r.ui, u)
           /\ r.status \in Directions \cup {"handled", "unhandled", "popup"}
<1>1. u.item \in Nat /\ u.item # 0 /\ MenuItems \in Nat
  BY HoldersAre, MainScreenAssumption DEF InMenu, UiTyped, UiOf
<1>2. PICK back, on : back = u.item - 1 /\ on = u.item + 1  OBVIOUS
<1>3. CASE key.code = "Enter"
  <2>1. r = [ui |-> u, status |-> "popup"]  BY <1>3 DEF MenuKey
  <2> QED BY <2>1 DEF SameUi
<1>4. CASE key.code = "Left" /\ u.item > 1
  <2>1. PICK v : v = OnItem(u, back)  OBVIOUS
  <2>2. r = [ui |-> v, status |-> "handled"]  BY <1>2, <1>4, <2>1 DEF MenuKey, OnItem
  <2>3. back \in Nat \ {0}  BY <1>1, <1>2, <1>4
  <2>4. InMenu(v) /\ SameUi(v, u)  BY <2>1, <2>3, ItemGood
  <2> QED BY <2>2, <2>4
<1>5. CASE key.code \in {"Right", "Tab"} /\ u.item < MenuItems
  <2>1. PICK v : v = OnItem(u, on)  OBVIOUS
  <2>2. r = [ui |-> v, status |-> "handled"]  BY <1>2, <1>5, <2>1 DEF MenuKey, OnItem
  <2>3. on \in Nat \ {0}  BY <1>1, <1>2
  <2>4. InMenu(v) /\ SameUi(v, u)  BY <2>1, <2>3, ItemGood
  <2> QED BY <2>2, <2>4
<1>6. CASE /\ key.code # "Enter" /\ ~(key.code = "Left" /\ u.item > 1)
           /\ ~(key.code \in {"Right", "Tab"} /\ u.item < MenuItems)
  <2>1. r = IF key.code \in DOMAIN DirectionOf
            THEN [ui |-> u, status |-> DirectionOf[key.code]]
            ELSE [ui |-> u, status |-> "unhandled"]
    BY <1>6 DEF MenuKey
  <2> QED BY <2>1, DirectionsAre DEF SameUi
<1> QED BY <1>3, <1>4, <1>5, <1>6

\* It does so from the menu bar, at an entrance.
LEMMA EnterMainGood ==
    ASSUME NEW u, InMenu(u), NEW mode \in Modes, NEW e \in Entrances(u, mode),
           NEW w, w = EnterMain(MainGiven(u, e))
    PROVE  InMain(w, mode) /\ SameUi(w, u)
<1>1. e \in VisibleIn(mode) /\ e \in Elements /\ Takes(u, e)
  BY DEF Entrances, Modes, VisibleIn, Elements, Takes
<1>2. Quiet(u)  BY QuietWhen
<1>3. PICK v : v = MainGiven(u, e)  OBVIOUS
<1>4. /\ UiTyped(v) /\ ~v.selecting /\ SameUi(v, u)
      /\ \A f : f \in HoldersOf(v) <=> (f = e \/ (f = "menu" /\ v.item # 0))
      /\ v.cell = u.cell /\ v.main /\ v.element = e
  BY <1>1, <1>2, <1>3, MainGivenGood
<1>5. PICK cell, main, split, item :
         cell = v.cell /\ main = v.main /\ split = "main" /\ item = 0
  OBVIOUS
<1>6. cell \in BOOLEAN /\ main \in BOOLEAN /\ split \in {"menu", "main"} /\ item \in Nat
  BY <1>4, <1>5 DEF UiTyped, UiOf
<1>7. w = UiPlace(v, cell, split, item, main, e)
  BY <1>3, <1>4, <1>5 DEF EnterMain, UiPlace, UiTyped, UiOf
<1>8. UiTyped(v)  BY <1>4
<1>9. /\ UiTyped(w) /\ w.list = v.list /\ w.lit = v.lit /\ w.item = item
      /\ w.cell = cell /\ w.split = split /\ w.main = main /\ w.element = e
      /\ w.selecting = v.selecting
  <2> HIDE <1>2, <1>3, <1>4, <1>5
  <2> QED BY <1>1, <1>6, <1>7, <1>8, PutUiPlace
<1>10. e # "menu"  BY <1>1 DEF Elements
<1>11. \A f : f \in HoldersOf(v) <=>
          (f \in v.lit \/ (f = "log" /\ v.list.selected # NoIndex) \/ (f = "menu" /\ v.item # 0))
  BY <1>4, HoldersAre
<1>12. \A f : f \in HoldersOf(w) <=>
          (f \in w.lit \/ (f = "log" /\ w.list.selected # NoIndex) \/ (f = "menu" /\ w.item # 0))
  BY <1>9, HoldersAre
<1>13. "menu" \notin v.lit  BY <1>4, HoldersAre
<1>14. \A f : f \in HoldersOf(w) <=> f = e
  BY <1>4, <1>5, <1>9, <1>10, <1>11, <1>12, <1>13
<1>15. Holds(w, e)  BY <1>4, <1>9, <1>14 DEF Holds
<1>16. w.cell /\ w.main /\ w.split = "main" /\ w.element = e
  BY <1>4, <1>5, <1>9 DEF InMenu
<1> QED BY <1>1, <1>4, <1>9, <1>15, <1>16 DEF InMain, SameUi

\* The focus leaves it, up to the menu bar.
LEMMA LeaveMainGood ==
    ASSUME NEW u, NEW mode, InMain(u, mode), NEW item \in Nat \ {0},
           NEW w, w = MenuGiven(MainTaken(u), item)
    PROVE  InMenu(w) /\ SameUi(w, u)
<1>1. PICK v : v = MainTaken(u)  OBVIOUS
<1>2. Bare(v) /\ SameUi(v, u) /\ v.cell = u.cell /\ ~v.main  BY <1>1, MainTakenGood
<1>3. Ready(v)  BY <1>2 DEF Ready, InMain
<1>4. InMenu(w) /\ SameUi(w, v)  BY <1>1, <1>3, MenuGivenGood
<1> QED BY <1>2, <1>4 DEF SameUi

\* A key in the split of menu bar and main view.
LEMMA SplitKeyGood ==
    ASSUME NEW u, layout.mode \in Modes, InMenu(u) \/ InMain(u, layout.mode),
           NEW key, key.ctrl \in BOOLEAN, NEW r \in SplitKey(u, key)
    PROVE  Answers(r, u, layout.mode)
<1>1. PICK mode : mode = layout.mode  OBVIOUS
<1>2. CASE InMenu(u)
  <2>1. u.split = "menu"  BY <1>2 DEF InMenu
  <2>2. PICK q : q = MenuKey(u, key)  OBVIOUS
  <2>3. /\ InMenu(q.ui) /\ SameUi(q.ui, u)
        /\ q.status \in Directions \cup {"handled", "unhandled", "popup"}
    BY <1>2, <2>2, MenuKeyGood
  <2>4. r \in IF q.status \in {"down", "forward"}
              THEN {[ui |-> [MainGiven(u, e) EXCEPT !.item = 0, !.split = "main"],
                     status |-> "handled"] : e \in Entrances(u, mode)}
              ELSE {q}
    BY <1>1, <2>1, <2>2 DEF SplitKey
  <2>5. CASE r = q  BY <1>1, <2>3, <2>5, UiCases DEF Answers
  <2>6. CASE r # q
    <3>1. PICK e \in Entrances(u, mode) : r = [ui |-> EnterMain(MainGiven(u, e)), status |-> "handled"]
      BY <2>4, <2>6 DEF EnterMain
    <3>2. PICK w : w = EnterMain(MainGiven(u, e))  OBVIOUS
    <3>3. InMain(w, mode) /\ SameUi(w, u)  BY <1>1, <1>2, <3>2, EnterMainGood
    <3> QED BY <1>1, <3>1, <3>2, <3>3, UiCases DEF Answers
  <2> QED BY <2>5, <2>6
<1>3. CASE InMain(u, mode)
  <2>1. u.split # "menu"  BY <1>3 DEF InMain
  <2>2. PICK q : q = MainKey(u, key)  OBVIOUS
  <2>3. Stays(q, u, mode)  BY <1>1, <1>3, <2>2, MainKeyGood
  <2>4. r \in IF q.status = "up"
              THEN {[ui |-> MenuGiven(MainTaken(q.ui), i), status |-> "handled"] : i \in 1 .. MenuItems}
              ELSE {q}
    BY <2>1, <2>2 DEF SplitKey
  <2>5. CASE r = q  BY <1>1, <2>3, <2>5, UiCases DEF Answers, Stays
  <2>6. CASE r # q
    <3>1. PICK i \in 1 .. MenuItems : r = [ui |-> MenuGiven(MainTaken(q.ui), i), status |-> "handled"]
      BY <2>4, <2>6
    <3>2. PICK v, w : v = q.ui /\ w = MenuGiven(MainTaken(v), i)  OBVIOUS
    <3>3. i \in Nat \ {0}  BY <3>1, MainScreenAssumption
    <3>4. InMain(v, mode) /\ SameUi(v, u)  BY <2>3, <3>2 DEF Stays
    <3>5. InMenu(w) /\ SameUi(w, v)  BY <3>2, <3>3, <3>4, LeaveMainGood
    <3>6. r.ui = w /\ r.status = "handled"  BY <3>1, <3>2
    <3> QED BY <1>1, <3>4, <3>5, <3>6, UiCases DEF Answers, SameUi
  <2> QED BY <2>5, <2>6
<1> QED BY <1>1, <1>2, <1>3

--------------------------------------------------------------------------------
(* Keys to the screen. *)

\* The focus comes in to the menu bar.
LEMMA CellGiven ==
    ASSUME NEW u, Off(u), NEW item \in Nat \ {0}, NEW w, w = MenuGiven(Celled(u), item)
    PROVE  InMenu(w) /\ SameUi(w, u)
<1>1. PICK v : v = Celled(u)  OBVIOUS
<1>2. Ready(v) /\ SameUi(v, u)  BY <1>1, ReadyGood
<1>3. InMenu(w) /\ SameUi(w, v)  BY <1>1, <1>2, MenuGivenGood
<1> QED BY <1>2, <1>3 DEF SameUi

\* A key to the screen, with no popup over it: the focus may go anywhere, but into one place.
LEMMA CellKeyGood ==
    ASSUME NEW u, layout.mode \in Modes, UiGood(u, layout.mode), NEW key, key.ctrl \in BOOLEAN,
           NEW r \in CellKey(u, key)
    PROVE  Leaves(r.ui, u)
<1>1. PICK mode : mode = layout.mode  OBVIOUS
<1>2. CASE IsChar(key.code)
  <2>1. r = [ui |-> u, status |-> "popup"] \/ r = Shortcuts(u, key.code)
    BY <1>2 DEF CellKey
  <2>2. CASE r = [ui |-> u, status |-> "popup"]  BY <2>2 DEF SameUi, Leaves
  <2>3. CASE r = Shortcuts(u, key.code)  BY <2>3, ShortcutsGood DEF Leaves
  <2> QED BY <2>1, <2>2, <2>3
<1>3. CASE ~IsChar(key.code) /\ ~u.cell
  <2>1. \/ r = [ui |-> u, status |-> "unhandled"]
        \/ \E item \in {MenuItems, 1} : r = [ui |-> MenuGiven(Celled(u), item), status |-> "handled"]
    BY <1>3 DEF CellKey, Celled
  <2>2. CASE r = [ui |-> u, status |-> "unhandled"]  BY <2>2 DEF SameUi, Leaves
  <2>3. CASE \E item \in {MenuItems, 1} : r = [ui |-> MenuGiven(Celled(u), item), status |-> "handled"]
    <3>1. PICK item \in {MenuItems, 1} : r = [ui |-> MenuGiven(Celled(u), item), status |-> "handled"]
      BY <2>3
    <3>2. PICK w : w = MenuGiven(Celled(u), item)  OBVIOUS
    <3>3. item \in Nat \ {0}  BY MainScreenAssumption
    <3>4. Off(u)  BY <1>3, UiCases DEF InMenu, InMain
    <3>5. InMenu(w) /\ SameUi(w, u)  BY <3>2, <3>3, <3>4, CellGiven
    <3>6. r.ui = w  BY <3>1, <3>2
    <3> QED BY <3>5, <3>6, UiCases DEF Leaves
  <2> QED BY <2>1, <2>2, <2>3
<1>4. CASE ~IsChar(key.code) /\ u.cell
  <2>1. PICK q \in SplitKey(u, key) :
          r = CASE q.status = "away" -> [ui |-> AllTaken(q.ui), status |-> "handled"]
                [] q.status = "forward" ->
                     [ui |-> MenuGiven([AllTaken(q.ui) EXCEPT !.cell = TRUE], 1), status |-> "handled"]
                [] OTHER -> q
    BY <1>4 DEF CellKey
  <2>2. \/ r = q
        \/ r = [ui |-> AllTaken(q.ui), status |-> "handled"]
        \/ r = [ui |-> MenuGiven(Celled(AllTaken(q.ui)), 1), status |-> "handled"]
    BY <2>1 DEF Celled
  <2>3. InMenu(u) \/ InMain(u, mode)  BY <1>1, <1>4, UiCases DEF Off
  <2>4. Answers(q, u, mode)  BY <1>1, <2>3, SplitKeyGood
  <2>5. PICK v, w : v = q.ui /\ w = AllTaken(v)  OBVIOUS
  <2>6. UiGood(v, mode) /\ SameUi(v, u)  BY <2>4, <2>5 DEF Answers
  <2>7. Off(w) /\ SameUi(w, v)  BY <2>5, <2>6, AllTakenGood
  <2>8. CASE r = q  BY <1>1, <2>5, <2>6, <2>8 DEF Leaves
  <2>9. CASE r = [ui |-> AllTaken(q.ui), status |-> "handled"]
    BY <1>1, <2>5, <2>6, <2>7, <2>9, UiCases DEF Leaves, SameUi
  <2>10. CASE r = [ui |-> MenuGiven(Celled(AllTaken(q.ui)), 1), status |-> "handled"]
    <3>1. PICK item, x : item = 1 /\ x = MenuGiven(Celled(w), item)  OBVIOUS
    <3>2. item \in Nat \ {0}  BY <3>1
    <3>3. r.ui = x  BY <2>5, <2>10, <3>1
    <3>4. InMenu(x) /\ SameUi(x, w)  BY <2>7, <3>1, <3>2, CellGiven
    <3> QED BY <1>1, <2>6, <2>7, <3>3, <3>4, UiCases DEF Leaves, SameUi
  <2> QED BY <2>2, <2>8, <2>9, <2>10
<1> QED BY <1>2, <1>3, <1>4

--------------------------------------------------------------------------------
(* An event comes to the list of the log. *)

\* It is a list, if its selection is an item.
LEMMA PutItemsIs ==
    ASSUME NEW c, NEW list \in ListsOf(c), NEW n \in Nat, NEW d, NEW s \in Nat \cup {NoIndex},
           NEW q, q = PutItems(list, n, d, s)
    PROVE  q \in ListsOf(d) /\ q.count = n /\ q.selected = s /\ q.cache = d /\ q.width = list.width
  BY DEF ListsOf, PutItems

\* The number of items is set.
LEMMA ItemCountSetIs ==
    ASSUME NEW c, NEW list \in ListsOf(c), NEW n \in Nat, n # 0, list.count # n, NEW q,
           q = ItemCountSet(list, n)
    PROVE  /\ q \in ListsOf(q.cache) /\ q.count = n
           /\ q.selected # NoIndex <=> list.selected # NoIndex
           /\ SelectsItem(q)
           /\ q.cache = StillCounted(list.cache, n) /\ q.width = list.width
           /\ list.selected # NoIndex => q.selected = IF list.selected < n THEN list.selected ELSE n - 1
<1>1. PICK d, m : d = StillCounted(list.cache, n) /\ m = n - 1  OBVIOUS
<1>2. PICK s : s = IF list.selected = NoIndex \/ n = 0 THEN NoIndex ELSE Min({list.selected, m})
  OBVIOUS
<1>3. q = PutItems(list, n, d, s)  BY <1>1, <1>2 DEF ItemCountSet, PutItems, StillCounted
<1>4. list.selected \in Nat \cup {NoIndex} /\ NoIndex \notin Int /\ m \in Nat
  BY <1>1, LongListAssumption DEF ListsOf
<1>5. list.selected = NoIndex => s = NoIndex  BY <1>2
<1>6. ASSUME list.selected # NoIndex
      PROVE  s \in Nat /\ s < n /\ s = IF list.selected < n THEN list.selected ELSE n - 1
  <2>1. PICK x : x = list.selected  OBVIOUS
  <2>2. x \in Nat /\ s = Min({x, m})  BY <1>2, <1>4, <1>6, <2>1
  <2>3. Min({x, m}) = IF x <= m THEN x ELSE m  BY <1>4, <2>2, MinTwo
  <2>4. s \in Nat /\ s < n /\ s = IF x < n THEN x ELSE n - 1  BY <1>1, <1>4, <2>2, <2>3
  <2> QED BY <2>1, <2>4
<1>7. s \in Nat \cup {NoIndex}  BY <1>4, <1>5, <1>6
<1>8. q \in ListsOf(d) /\ q.count = n /\ q.selected = s /\ q.cache = d /\ q.width = list.width
  BY <1>3, <1>7, PutItemsIs
<1> QED BY <1>1, <1>4, <1>5, <1>6, <1>8 DEF SelectsItem

\* The first item is removed.
LEMMA FirstRemoved ==
    ASSUME NEW c, NEW list \in ListsOf(c), SelectsItem(list), list.count \notin {0, 1}, NEW q,
           q = ItemRemoved(list, 0)
    PROVE  /\ q \in ListsOf(q.cache) /\ q.count = list.count - 1
           /\ q.cache = WithoutFirst(list.cache) /\ q.width = list.width
           /\ q.selected # NoIndex <=> list.selected # NoIndex
           /\ list.selected # NoIndex => q.selected = Minus(list.selected, 1)
<1>1. /\ list.selected \in Nat \cup {NoIndex} /\ NoIndex \notin Int /\ list.count \in Nat /\ ~Deselect
  BY LongListAssumption, MainScreenAssumption DEF ListsOf
<1>2. PICK d, n : n = list.count - 1 /\ d = WithoutFirst(list.cache)  OBVIOUS
<1>3. PICK s : s = IF list.selected = NoIndex THEN NoIndex ELSE Minus(list.selected, 1)
  OBVIOUS
<1>4. n \in Nat /\ n # 0 /\ Minus(list.count, 1) = n  BY <1>1, <1>2 DEF Minus
<1>5. list.selected # NoIndex => list.selected >= 0  BY <1>1
<1>6. s = IF list.selected = NoIndex \/ n = 0 \/ (Deselect /\ list.selected = 0) THEN NoIndex
          ELSE IF list.selected >= 0 THEN Minus(list.selected, 1) ELSE list.selected
  BY <1>1, <1>3, <1>4, <1>5
<1>7. q = [list EXCEPT !.count = Minus(list.count, 1), !.cache = d, !.selected =
               IF list.selected = NoIndex \/ Minus(list.count, 1) = 0 \/ (Deselect /\ list.selected = 0)
               THEN NoIndex
               ELSE IF list.selected >= 0 THEN Minus(list.selected, 1) ELSE list.selected]
  BY <1>2 DEF ItemRemoved, WithoutFirst, MovedDown
<1>8. q = PutItems(list, n, d, s)  BY <1>4, <1>6, <1>7 DEF PutItems
<1>9. s \in Nat \cup {NoIndex} /\ (s # NoIndex <=> list.selected # NoIndex)
  BY <1>1, <1>3 DEF Minus
<1>10. q \in ListsOf(d) /\ q.count = n /\ q.selected = s /\ q.cache = d /\ q.width = list.width
  BY <1>4, <1>8, <1>9, PutItemsIs
<1>11. list.selected # NoIndex => q.selected = Minus(list.selected, 1)  BY <1>3, <1>10
<1> QED BY <1>2, <1>9, <1>10, <1>11

\* The list hears of an event.
LEMMA LoggedIs ==
    ASSUME NEW c, NEW list \in ListsOf(c), SelectsItem(list), NEW S, NEW old \in Seq(S),
           list.count = Len(old), Len(old) <= MaxEvents, NEW q, q = Logged(list, old)
    PROVE  /\ q \in ListsOf(q.cache) /\ q.count = Longer(Len(old))
           /\ q.selected # NoIndex <=> list.selected # NoIndex
           /\ SelectsItem(q)
           /\ q.cache = LoggedCache(list.cache, Len(old)) /\ q.width = list.width
           /\ list.selected # NoIndex => q.selected = SelectedAfter(list.selected, Len(old))
<1>1. MaxEvents \in Nat /\ MaxEvents # 0 /\ MaxEvents # 1 /\ Len(old) \in Nat
  BY MainScreenAssumption
<1>2. CASE Len(old) < MaxEvents
  <2>1. PICK n : n = Len(old) + 1  OBVIOUS
  <2>2. n \in Nat /\ n # 0 /\ list.count # n  BY <1>1, <2>1
  <2>3. q = ItemCountSet(list, n)  BY <1>2, <2>1 DEF Logged
  <2>4. Longer(Len(old)) = n  BY <1>2, <2>1 DEF Longer
  <2>5. /\ q \in ListsOf(q.cache) /\ q.count = n
        /\ q.selected # NoIndex <=> list.selected # NoIndex
        /\ SelectsItem(q)
        /\ q.cache = StillCounted(list.cache, n) /\ q.width = list.width
        /\ list.selected # NoIndex => q.selected = IF list.selected < n THEN list.selected ELSE n - 1
    BY <2>2, <2>3, ItemCountSetIs
  <2>6. ASSUME list.selected # NoIndex
        PROVE  q.selected = SelectedAfter(list.selected, Len(old))
    <3>1. PICK k : k = list.selected  OBVIOUS
    <3>2. k \in Nat /\ k < n  BY <1>1, <2>1, <2>6, <3>1 DEF SelectsItem, ListsOf
    <3>3. q.selected = k  BY <2>5, <2>6, <3>1, <3>2
    <3> QED BY <1>2, <3>1, <3>3 DEF SelectedAfter
  <2>7. q.cache = LoggedCache(list.cache, Len(old))  BY <1>2, <2>1, <2>5 DEF LoggedCache
  <2> QED BY <2>4, <2>5, <2>6, <2>7
<1>3. CASE ~(Len(old) < MaxEvents)
  <2>1. PICK g : g = ItemRemoved(list, 0)  OBVIOUS
  <2>2. Len(old) = MaxEvents
    <3>1. PICK n : n = Len(old)  OBVIOUS
    <3>2. n \in Nat /\ n <= MaxEvents /\ ~(n < MaxEvents)  BY <1>1, <1>3, <3>1
    <3> QED BY <1>1, <3>1, <3>2
  <2>7. list.count \notin {0, 1}  BY <1>1, <2>2
  <2>3. /\ g \in ListsOf(g.cache) /\ g.count = list.count - 1
        /\ g.cache = WithoutFirst(list.cache) /\ g.width = list.width
        /\ g.selected # NoIndex <=> list.selected # NoIndex
        /\ list.selected # NoIndex => g.selected = Minus(list.selected, 1)
    BY <2>1, <2>7, FirstRemoved
  <2>4. q = ItemCountSet(g, MaxEvents)  BY <1>3, <2>1 DEF Logged
  <2>5. g.count # MaxEvents  BY <1>1, <2>2, <2>3
  <2>6. /\ q \in ListsOf(q.cache) /\ q.count = MaxEvents
        /\ q.selected # NoIndex <=> g.selected # NoIndex
        /\ SelectsItem(q)
        /\ q.cache = StillCounted(g.cache, MaxEvents) /\ q.width = g.width
        /\ g.selected # NoIndex => q.selected = IF g.selected < MaxEvents THEN g.selected ELSE MaxEvents - 1
    BY <1>1, <2>3, <2>4, <2>5, ItemCountSetIs
  <2>8. ASSUME list.selected # NoIndex
        PROVE  q.selected = SelectedAfter(list.selected, Len(old))
    <3>1. PICK k, l : k = list.selected /\ l = Minus(k, 1)  OBVIOUS
    <3>2. k \in Nat /\ k < MaxEvents  BY <1>1, <2>2, <2>8, <3>1 DEF SelectsItem, ListsOf
    <3>3. l \in Nat /\ l < MaxEvents  BY <1>1, <3>1, <3>2 DEF Minus
    <3>4. g.selected = l /\ g.selected # NoIndex  BY <2>3, <2>8, <3>1
    <3>5. q.selected = l  BY <2>6, <3>3, <3>4
    <3> QED BY <1>3, <3>1, <3>5 DEF SelectedAfter
  <2>9. q.cache = LoggedCache(list.cache, Len(old))  BY <1>3, <2>3, <2>6 DEF LoggedCache
  <2> QED BY <1>3, <2>3, <2>6, <2>8, <2>9 DEF Longer
<1> QED BY <1>2, <1>3

\* It is resized.
LEMMA ResizedIs ==
    ASSUME NEW c, NEW list \in ListsOf(c), NEW width \in Nat, NEW height \in Nat
    PROVE  /\ Resized(ListResized(list, width, height), list)
           /\ KeepsOrDrops(ListResized(list, width, height), list)
<1>1. PICK e : e = IF list.width = width /\ list.height = height THEN list.cache ELSE <<>>
  OBVIOUS
<1>2. ListResized(list, width, height) = [list EXCEPT !.width = width, !.height = height, !.cache = e]
  BY <1>1 DEF ListResized
<1>3. e = <<>> \/ (e = list.cache /\ width = list.width)  BY <1>1
<1>4. PICK q : q = ListResized(list, width, height)  OBVIOUS
<1>5. /\ q \in ListsOf(e) /\ q.count = list.count /\ q.selected = list.selected
      /\ q.width = width /\ q.cache = e
  BY <1>2, <1>4 DEF ListsOf
<1>6. Resized(q, list)  BY <1>5 DEF Resized
<1>7. KeepsOrDrops(q, list)  BY <1>3, <1>5 DEF KeepsOrDrops
<1> QED BY <1>4, <1>6, <1>7

\* Or other lines are kept.
LEMMA CacheReplaced ==
    ASSUME NEW c, NEW list \in ListsOf(c), NEW d
    PROVE  Resized([list EXCEPT !.cache = d], list)
  BY DEF ListsOf, Resized

\* The focus is as good with a list that has a selection when the other had.
LEMMA RelistedUi ==
    ASSUME NEW u, NEW mode, UiGood(u, mode), NEW list, list \in ListsOf(list.cache), SelectsItem(list),
           list.selected # NoIndex <=> u.list.selected # NoIndex,
           NEW v, v = UiList(u, list)
    PROVE  SameElse(v, u, mode) /\ v.list = list
<1>1. UiTyped(u)  BY DEF UiGood
<1>2. PICK c : c = list.cache  OBVIOUS
<1>3. /\ UiTyped(v) /\ v.list = list /\ v.lit = u.lit /\ v.item = u.item
      /\ v.cell = u.cell /\ v.split = u.split /\ v.main = u.main /\ v.element = u.element
      /\ v.selecting = u.selecting
  BY <1>1, <1>2, PutUiList
<1>4. HoldersOf(v) = HoldersOf(u)  BY <1>3 DEF HoldersOf
<1> QED BY <1>3, <1>4 DEF SameElse, UiGood, UiFocused

--------------------------------------------------------------------------------
(* Drawing. *)

\* What the areas are distributed to is one.
LEMMA LayoutIs ==
    ASSUME NEW size \in Area, NEW expanded, expanded \in BOOLEAN
    PROVE  LayoutOf(size, expanded) \in Layouts
<1>1. PICK half, under :
         /\ half = (size.width + 1) \div 2
         /\ under = [width |-> size.width, height |-> Minus(size.height, 2)]
  OBVIOUS
<1>2. size.width \in Nat /\ size.height \in Nat  BY DEF Area
<1>3. half \in Nat  BY <1>1, <1>2
<1>4. under \in Area  BY <1>1, <1>2 DEF Area, Minus
<1>5. PICK a : a = [width |-> half, height |-> size.height]  OBVIOUS
<1>6. a \in Area  BY <1>2, <1>3, <1>5 DEF Area
<1>7. NoArea \in Area  BY DEF Area, NoArea
<1>8. CASE expanded
  <2>1. LayoutOf(size, expanded) =
          [mode |-> "expanded", log |-> NoArea,
           graph |-> size.height >= MinGraphHeight /\ size.width >= VerticalLabelsWidth + 4]
    BY <1>8 DEF LayoutOf
  <2>2. (size.height >= MinGraphHeight /\ size.width >= VerticalLabelsWidth + 4) \in BOOLEAN
    BY <1>2, MainScreenAssumption
  <2> QED BY <1>7, <2>1, <2>2 DEF Layouts, Modes
<1>9. CASE ~expanded /\ IsEmpty(size)
  <2>1. LayoutOf(size, expanded) = [mode |-> "full", log |-> NoArea, graph |-> FALSE]
    BY <1>9 DEF LayoutOf
  <2> QED BY <1>7, <2>1 DEF Layouts, Modes
<1>10. CASE ~expanded /\ ~IsEmpty(size)
  <2>1. \/ LayoutOf(size, expanded) = [mode |-> "logs", log |-> under, graph |-> FALSE]
        \/ LayoutOf(size, expanded) = [mode |-> "full", log |-> a, graph |-> TRUE]
    BY <1>1, <1>5, <1>10 DEF LayoutOf
  <2>2. CASE LayoutOf(size, expanded) = [mode |-> "logs", log |-> under, graph |-> FALSE]
    BY <1>4, <2>2 DEF Layouts, Modes
  <2>3. CASE LayoutOf(size, expanded) = [mode |-> "full", log |-> a, graph |-> TRUE]
    BY <1>6, <2>3 DEF Layouts, Modes
  <2> QED BY <2>1, <2>2, <2>3
<1> QED BY <1>8, <1>9, <1>10

\* Where the focus goes in a new layout is visible there, and takes it.
LEMMA AtOriginIs ==
    ASSUME NEW u, NEW mode \in Modes
    PROVE  /\ AtOrigin(u, mode) \in VisibleIn(mode) /\ AtOrigin(u, mode) \in Elements
           /\ Takes(u, AtOrigin(u, mode))
<1>1. CASE mode = "full" /\ Takes(u, "log")
  <2>1. AtOrigin(u, mode) = "log"  BY <1>1 DEF AtOrigin
  <2>2. VisibleIn(mode) = Elements  BY <1>1, Zenon DEF VisibleIn
  <2> QED BY <1>1, <2>1, <2>2 DEF Elements
<1>2. CASE ~(mode = "full" /\ Takes(u, "log"))
  <2>1. AtOrigin(u, mode) = "expand"  BY <1>2 DEF AtOrigin
  <2>2. "expand" \in VisibleIn(mode)  BY DEF VisibleIn, Modes, Elements
  <2> QED BY <2>1, <2>2 DEF Elements, Takes
<1> QED BY <1>1, <1>2

\* In a new layout, the focus is on what is visible.
LEMMA RefocusedGood ==
    ASSUME NEW u, NEW old, UiGood(u, old), NEW mode \in Modes, NEW w, w = Refocused(u, mode)
    PROVE  SameElse(w, u, mode) /\ SameUi(w, u)
<1>1. CASE ~(u.main /\ u.element \notin VisibleIn(mode))
  <2>1. w = u  BY <1>1 DEF Refocused
  <2>2. u.main => u.element \in VisibleIn(mode)  BY <1>1
  <2> QED BY <2>1, <2>2 DEF UiGood, UiFocused, SameElse, SameUi
<1>2. CASE u.main /\ u.element \notin VisibleIn(mode)
  <2>1. InMain(u, old)  BY <1>2, UiCases DEF Off, InMenu
  <2>2. PICK v : v = MainTaken(u)  OBVIOUS
  <2>3. PICK e : e = AtOrigin(v, mode)  OBVIOUS
  <2>4. w = MainGiven(v, e)  BY <1>2, <2>2, <2>3 DEF Refocused
  <2>5. Bare(v) /\ SameUi(v, u) /\ v.item = u.item /\ v.cell = u.cell /\ v.split = u.split
    BY <2>1, <2>2, MainTakenGood
  <2>6. Quiet(v) /\ v.item = 0  BY <2>5, QuietWhen, HoldersAre DEF Bare
  <2>7. e \in VisibleIn(mode) /\ e \in Elements /\ Takes(v, e)  BY <2>3, AtOriginIs
  <2>8. /\ UiTyped(w) /\ ~w.selecting /\ SameUi(w, v) /\ w.item = v.item
        /\ \A f : f \in HoldersOf(w) <=> (f = e \/ (f = "menu" /\ w.item # 0))
        /\ w.cell = v.cell /\ w.split = v.split /\ w.main /\ w.element = e
    BY <2>4, <2>6, <2>7, MainGivenGood
  <2>9. HoldersOf(w) = {e}  BY <2>6, <2>8
  <2>10. Holds(w, e)  BY <2>8, <2>9 DEF Holds
  <2>11. w.cell = u.cell /\ w.split = u.split  BY <2>5, <2>8
  <2>12. InMain(w, mode)  BY <2>1, <2>7, <2>8, <2>10, <2>11 DEF InMain
  <2>13. UiGood(w, mode)  BY <2>12, UiCases
  <2> QED BY <2>5, <2>8, <2>11, <2>13 DEF SameElse, SameUi
<1> QED BY <1>1, <1>2

\* That is what a draw does.
LEMMA DrawIs ==
    ASSUME Draw
    PROVE  /\ layout' = DrawLayout /\ ui' = DrawUi /\ stack' \in Redrawn(stack)
           /\ UNCHANGED <<left, history, terminal, coming>>
<1>1. layout' = DrawLayout  BY Zenon DEF Draw, DrawLayout, DrawTurned, DrawResized
<1>2. ui' = DrawUi
  BY Zenon DEF Draw, DrawUi, DrawMade, DrawFocused, DrawSized, DrawLayout, DrawTurned, DrawResized
<1>3. stack' \in Redrawn(stack)  BY Zenon DEF Draw
<1>4. UNCHANGED <<left, history, terminal, coming>>  BY Zenon DEF Draw
<1> QED BY <1>1, <1>2, <1>3, <1>4

\* What is drawn is good, for the layout drawn; its list was resized, or not.
LEMMA DrawFocusedGood ==
    ASSUME AreasInv, UiGood(ui, layout.mode)
    PROVE  /\ DrawLayout \in Layouts
           /\ SameElse(DrawFocused, ui, DrawLayout.mode) /\ DrawFocused.list.count = ui.list.count
           /\ KeepsOrDrops(DrawFocused.list, ui.list)
<1>1. ui.expanded \in BOOLEAN /\ ui.list \in ListsOf(ui.list.cache) /\ SelectsItem(ui.list)
  BY DEF UiGood, UiTyped, UiOf
<1>2. LayoutOf(terminal, ui.expanded) \in Layouts  BY <1>1, LayoutIs DEF AreasInv
<1>3. layout \in Layouts  BY DEF AreasInv, Layouts
<1>4. DrawLayout \in Layouts  BY <1>2, <1>3 DEF DrawLayout
<1>5. PICK mode, now_layout, width, height : mode = DrawLayout.mode /\ now_layout = DrawLayout
         /\ width = DrawLayout.log.width /\ height = DrawLayout.log.height
  OBVIOUS
<1>6. mode \in Modes /\ width \in Nat /\ height \in Nat  BY <1>4, <1>5 DEF Layouts, Area
<1>7. SameElse(DrawSized, ui, layout.mode) /\ DrawSized.list.count = ui.list.count
      /\ KeepsOrDrops(DrawSized.list, ui.list)
  <2>1. CASE DrawSized = ui  BY <2>1 DEF SameElse, KeepsOrDrops
  <2>2. CASE DrawSized = [ui EXCEPT !.list = ListResized(@, DrawLayout.log.width, DrawLayout.log.height)]
    <3>1. PICK list, v : list = ListResized(ui.list, width, height) /\ v = UiList(ui, list)
      OBVIOUS
    <3>2. Resized(list, ui.list)  BY <1>1, <1>6, <3>1, ResizedIs
    <3>3. list \in ListsOf(list.cache) /\ SelectsItem(list)
          /\ (list.selected # NoIndex <=> ui.list.selected # NoIndex)
      BY <1>1, <3>2 DEF Resized, SelectsItem
    <3>4. DrawSized = v  BY <1>5, <2>2, <3>1 DEF UiList
    <3>5. SameElse(v, ui, layout.mode) /\ v.list = list  BY <3>1, <3>3, RelistedUi
    <3>6. KeepsOrDrops(list, ui.list)  BY <1>1, <1>6, <3>1, ResizedIs
    <3> QED BY <3>2, <3>4, <3>5, <3>6 DEF Resized
  <2> QED BY <2>1, <2>2 DEF DrawSized
<1>8. SameElse(DrawFocused, ui, mode) /\ DrawFocused.list.count = ui.list.count
      /\ KeepsOrDrops(DrawFocused.list, ui.list)
  <2>1. PICK v : v = DrawSized  OBVIOUS
  <2>2. CASE DrawResized \/ DrawTurned
    <3>1. PICK w : w = Refocused(v, mode)  OBVIOUS
    <3>2. DrawFocused = w  BY <1>5, <2>1, <2>2, <3>1 DEF DrawFocused
    <3>3. UiGood(v, layout.mode) /\ v.cell = ui.cell  BY <1>7, <2>1 DEF SameElse
    <3>4. SameElse(w, v, mode) /\ SameUi(w, v)  BY <1>6, <3>1, <3>3, RefocusedGood
    <3> QED BY <1>7, <2>1, <3>2, <3>3, <3>4 DEF SameElse, SameUi, KeepsOrDrops
  <2>3. CASE ~(DrawResized \/ DrawTurned)
    <3>1. DrawFocused = v /\ DrawLayout = layout
      BY <2>1, <2>3 DEF DrawFocused, DrawLayout
    <3> QED BY <1>5, <1>7, <2>1, <3>1
  <2> QED BY <2>2, <2>3
<1> QED BY <1>4, <1>5, <1>8

\* A draw leaves the interface good, for its layout.
LEMMA DrawUiGood ==
    ASSUME AreasInv, UiGood(ui, layout.mode)
    PROVE  /\ DrawLayout \in Layouts
           /\ UiGood(DrawUi, DrawLayout.mode) /\ DrawUi.cell = ui.cell /\ DrawUi.list.count = ui.list.count
<1>1. PICK mode : mode = DrawLayout.mode  OBVIOUS
<1>2. DrawLayout \in Layouts /\ SameElse(DrawFocused, ui, mode) /\ DrawFocused.list.count = ui.list.count
  BY <1>1, DrawFocusedGood
<1>3. SameElse(DrawUi, ui, mode) /\ DrawUi.list.count = ui.list.count
  <2>1. CASE DrawUi = DrawFocused  BY <1>2, <2>1
  <2>2. CASE DrawUi = [DrawFocused EXCEPT !.list.cache = ListRendered(DrawFocused.list, DrawMade).cache]
    <3>1. PICK g, d : g = DrawFocused /\ d = ListRendered(DrawFocused.list, DrawMade).cache
      OBVIOUS
    <3>2. PICK list, v : list = [g.list EXCEPT !.cache = d] /\ v = UiList(g, list)
      OBVIOUS
    <3>3. UiGood(g, mode) /\ g.cell = ui.cell /\ g.list.count = ui.list.count
      BY <1>2, <3>1 DEF SameElse
    <3>4. g.list \in ListsOf(g.list.cache) /\ SelectsItem(g.list) /\ g = [g EXCEPT !.list = g.list]
      BY <3>3 DEF UiGood, UiTyped, UiOf
    <3>5. Resized(list, g.list)  BY <3>2, <3>4, CacheReplaced
    <3>6. list \in ListsOf(list.cache) /\ SelectsItem(list)
          /\ (list.selected # NoIndex <=> g.list.selected # NoIndex)
      BY <3>4, <3>5 DEF Resized, SelectsItem
    <3>7. DrawUi = v  BY <2>2, <3>1, <3>2 DEF UiList
    <3>8. SameElse(v, g, mode) /\ v.list = list
      <4>1. UiGood(g, mode) /\ v = UiList(g, list)  BY <3>2, <3>3
      <4> QED BY <3>6, <4>1, RelistedUi
    <3> QED BY <3>3, <3>5, <3>7, <3>8 DEF Resized, SameElse
  <2> QED BY <2>1, <2>2 DEF DrawUi
<1> QED BY <1>1, <1>2, <1>3 DEF SameElse

--------------------------------------------------------------------------------
(* Popups that are new, answered, or have their list changed. *)

\* A new popup, without the focus and with nothing out.
LEMMA NewPopupGood ==
    ASSUME NEW kind \in Kinds, NEW p, p = NewPopup(kind)
    PROVE  PopupGood(p) /\ p.kind = kind /\ ~Out(p) /\ p.shown /\ ~p.cell
<1>1. PICK entries, list, loading :
         /\ entries = [e \in EntriesOf(kind) |-> NewEntry] /\ list = EmptyList
         /\ loading = HasList(kind)
  OBVIOUS
<1>2. entries \in [EntriesOf(kind) -> Entries]  BY <1>1, NewEntryGood DEF EntryGood
<1>3. list \in Lists /\ list.selected = NoIndex  BY <1>1 DEF Lists, ListsOf, EmptyList
<1>4. loading \in BOOLEAN  BY <1>1 DEF HasList
<1>5. p = [kind |-> kind, cell |-> FALSE, at |-> 1, lit |-> {}, side |-> "none", selecting |-> FALSE,
           option |-> 1, entries |-> entries, list |-> list,
           loading |-> loading, changed |-> FALSE, shown |-> TRUE, closable |-> TRUE,
           busy |-> FALSE, task |-> "none", closing |-> FALSE]
  BY <1>1 DEF NewPopup
<1>6. p \in PopupOf(p.kind) /\ p.kind = kind /\ p.entries = entries
  BY <1>2, <1>3, <1>4, <1>5 DEF PopupOf
<1>7. /\ ~p.cell /\ p.at = 1 /\ p.lit = {} /\ p.side = "none" /\ ~p.selecting /\ p.list = list
      /\ p.shown /\ p.closable /\ p.task = "none"
  BY <1>5
<1>8. p.at \in 1 .. Len(Column(p.kind))  BY <1>6, <1>7, ElementsAre
<1>9. \A e \in EntriesOf(p.kind) : EntryGood(p.entries[e]) /\ p.entries[e].cursor = NoCursor
  <2> SUFFICES ASSUME NEW e \in EntriesOf(kind)
               PROVE  EntryGood(entries[e]) /\ entries[e].cursor = NoCursor
    BY <1>6
  <2>1. entries[e] = NewEntry  BY <1>1
  <2> QED BY <2>1, NewEntryGood
<1>10. PopupTyped(p)  BY <1>6, <1>8, <1>9 DEF PopupTyped
<1>11. Blank(p)  BY <1>3, <1>7, <1>9, <1>10 DEF Blank
<1>12. PopupFocusTrue(p)  BY <1>7, <1>11, BlankFocus
<1>13. PopupForm(p) /\ ~Out(p)  BY <1>7 DEF PopupForm, Out
<1> QED BY <1>6, <1>7, <1>10, <1>12, <1>13, GoodIs

\* A request was carried out.
LEMMA ServedGood ==
    ASSUME NEW p, PopupGood(p), p.task = "request", NEW q, q = Served(p)
    PROVE  Reaction(q, p) /\ q.cell = p.cell
<1>1. p \in PopupOf(p.kind) /\ PopupForm(p) /\ p.kind \in Kinds  BY DEF PopupGood
<1>2. CASE p.kind = "auth methods"
  <2>1. q = [p EXCEPT !.task = "none", !.busy = FALSE, !.closable = TRUE, !.changed = TRUE]
    BY <1>2 DEF Served, MethodAnswered
  <2>2. q \in PopupOf(p.kind) /\ SameFocus(q, p)  BY <1>1, <2>1 DEF PopupOf, SameFocus
  <2>3. q.task = "none" /\ q.closable /\ q.shown = p.shown /\ q.closing = p.closing /\ q.kind = p.kind
    BY <1>1, <2>1 DEF PopupOf
  <2>4. p.shown  BY <1>1, <1>2 DEF PopupForm, ConfirmKinds, FormKinds
  <2>5. PopupForm(q)  BY <2>3, <2>4 DEF PopupForm, Out
  <2> QED BY <2>2, <2>5, PutForm DEF SameFocus
<1>3. CASE p.kind # "auth methods"
  <2>1. q = [[p EXCEPT !.closing = TRUE] EXCEPT !.task = "none"]
    BY <1>3 DEF Served, Closed
  <2>2. q \in PopupOf(p.kind) /\ SameFocus(q, p)  BY <1>1, <2>1 DEF PopupOf, SameFocus
  <2>3. /\ q.task = "none" /\ q.closing /\ q.shown = p.shown /\ q.closable = p.closable
        /\ q.kind = p.kind
    BY <1>1, <2>1 DEF PopupOf
  <2>4. PopupForm(q)  BY <1>1, <2>3 DEF PopupForm, Out
  <2> QED BY <2>2, <2>4, PutForm DEF SameFocus
<1> QED BY <1>2, <1>3

\* A request was refused.
LEMMA RefusedGood ==
    ASSUME NEW p, PopupGood(p), p.task = "request", NEW q, q = Refused(p)
    PROVE  Reaction(q, p) /\ ~Out(q) /\ q.shown /\ Under(q.kind, "message")
<1>1. p \in PopupOf(p.kind) /\ PopupForm(p) /\ p.kind \in Kinds /\ p.kind # "message"
  BY DEF PopupGood, PopupForm
<1>2. Under(p.kind, "message")  BY <1>1, UnderIs
<1>3. CASE p.kind = "auth methods"
  <2>1. q = [p EXCEPT !.task = "none", !.busy = FALSE, !.closable = TRUE, !.changed = TRUE]
    BY <1>3 DEF Refused, MethodAnswered
  <2>2. q \in PopupOf(p.kind) /\ SameFocus(q, p)  BY <1>1, <2>1 DEF PopupOf, SameFocus
  <2>3. q.task = "none" /\ q.closable /\ q.shown = p.shown /\ q.kind = p.kind
    BY <1>1, <2>1 DEF PopupOf
  <2>4. p.shown  BY <1>1, <1>3 DEF PopupForm, ConfirmKinds, FormKinds
  <2>5. PopupForm(q) /\ ~Out(q) /\ q.shown  BY <2>3, <2>4 DEF PopupForm, Out
  <2> QED BY <1>2, <2>2, <2>3, <2>5, PutForm
<1>4. CASE p.kind # "auth methods"
  <2>1. q = [p EXCEPT !.task = "none", !.busy = FALSE, !.closable = TRUE, !.shown = TRUE]
    BY <1>4 DEF Refused
  <2>2. q \in PopupOf(p.kind) /\ SameFocus(q, p)  BY <1>1, <2>1 DEF PopupOf, SameFocus
  <2>3. q.task = "none" /\ q.closable /\ q.shown /\ q.kind = p.kind
    BY <1>1, <2>1 DEF PopupOf
  <2>4. PopupForm(q) /\ ~Out(q)  BY <2>3 DEF PopupForm, Out
  <2> QED BY <1>2, <2>2, <2>3, <2>4, PutForm
<1> QED BY <1>3, <1>4

\* A list is loaded, or it changes.
LEMMA LoadedGood ==
    ASSUME NEW p, PopupGood(p), NEW loading \in BOOLEAN,
           NEW q, q = [p EXCEPT !.loading = loading, !.changed = TRUE]
    PROVE  SameState(q, p)
<1>1. p \in PopupOf(p.kind) /\ PopupForm(p) /\ p.kind \in Kinds  BY DEF PopupGood
<1>2. q \in PopupOf(p.kind) /\ SameFocus(q, p) /\ SameForm(q, p)
  BY <1>1 DEF PopupOf, SameFocus, SameForm
<1>3. PopupForm(q)  BY <1>1, <1>2, FormStays
<1> QED BY <1>2, <1>3, PutForm DEF SameState, SameFocus, SameForm

\* A list is shown as it is now.
LEMMA RelistedGood ==
    ASSUME NEW p, PopupGood(p), NEW q \in Relisted(p)
    PROVE  SameState(q, p)
<1>1. /\ PopupTyped(p) /\ PopupFocusTrue(p) /\ PopupForm(p) /\ p \in PopupOf(p.kind)
      /\ p.list \in Lists
  BY GoodIs DEF PopupTyped, PopupOf
<1>2. CASE q = p  BY <1>2, SameGood DEF SameState
<1>3. CASE q # p
  <2>14. PICK n \in Counts(p) :
            q \in {[p EXCEPT !.changed = FALSE, !.list.count = n, !.list.selected = s] :
                     s \in Selections(p, n)}
    <3>1. q \in UNION {{[p EXCEPT !.changed = FALSE, !.list.count = m, !.list.selected = s] :
                           s \in Selections(p, m)} : m \in Counts(p)}
      BY <1>3, Zenon DEF Relisted, Selections, Counts
    <3> QED BY <3>1
  <2>15. PICK s \in Selections(p, n) :
            q = [p EXCEPT !.changed = FALSE, !.list.count = n, !.list.selected = s]
    BY <2>14
  <2>1. /\ n \in Nat /\ s \in Nat \cup {NoIndex}
        /\ q = [p EXCEPT !.changed = FALSE, !.list.count = n, !.list.selected = s]
        /\ s # NoIndex => s < n /\ p.list.selected # NoIndex
    <3>1. n \in Counts(p) /\ s \in Selections(p, n)  BY <2>14, <2>15
    <3>2. PICK k, c : k = p.list.selected /\ c = p.list.count  OBVIOUS
    <3>3. /\ c \in Nat /\ NoIndex \notin Int /\ MaxListed \in Nat
          /\ k = NoIndex \/ (k \in Nat /\ k < c)
      BY <1>1, <3>2, LongListAssumption, PopupsAssumption DEF Lists, ListsOf, PopupFocusTrue
    <3>4. n \in Nat /\ s \in Nat \cup {NoIndex} /\ (s # NoIndex => s < n /\ k # NoIndex)
      <4>1. CASE p.kind = "auth methods" /\ c # 0
        <5>1. n = c /\ s = k  BY <3>1, <3>2, <4>1 DEF Counts, Selections
        <5> QED BY <3>3, <5>1
      <4>2. CASE p.kind = "auth methods" /\ c = 0
        <5>1. n \in 0 .. MaxListed /\ s = k  BY <3>1, <3>2, <4>2 DEF Counts, Selections
        <5>2. c = 0  BY <4>2
        <5>3. k = NoIndex  BY <3>3, <5>2
        <5> QED BY <3>3, <5>1, <5>3
      <4>3. CASE p.kind # "auth methods"
        <5>1. n \in 0 .. MaxListed  BY <3>1, <4>3 DEF Counts
        <5>2. CASE k = NoIndex
          <6>1. s = k  BY <3>1, <3>2, <4>3, <5>2 DEF Selections
          <6> QED BY <3>3, <5>1, <5>2, <6>1
        <5>3. CASE k # NoIndex
          <6>1. s \in {NoIndex} \cup 0 .. n - 1  BY <3>1, <3>2, <4>3, <5>3 DEF Selections
          <6> QED BY <3>3, <5>1, <5>3, <6>1
        <5> QED BY <5>2, <5>3
      <4> QED BY <4>1, <4>2, <4>3
    <3> QED BY <2>15, <3>2, <3>4
  <2>2. PICK list : list = [p.list EXCEPT !.count = n, !.selected = s]  OBVIOUS
  <2>3. list \in Lists /\ list.selected = s /\ list.count = n
    BY <1>1, <2>1, <2>2 DEF Lists, ListsOf
  <2>4. q = [WithList(p, list) EXCEPT !.changed = FALSE]
    BY <1>1, <2>1, <2>2 DEF WithList, PopupOf, Lists, ListsOf
  <2>5. PICK g : g = WithList(p, list)  OBVIOUS
  <2>6. /\ PopupTyped(g) /\ SameForm(g, p) /\ g.at = p.at /\ g.cell = p.cell
        /\ g.lit = p.lit /\ g.side = p.side /\ g.selecting = p.selecting
        /\ g.entries = p.entries /\ g.list = list
    BY <1>1, <2>3, <2>5, PutList
  <2>7. PopupFocusTrue(g)
    <3>1. g.kind = p.kind /\ ElementAt(g, g.at) = ElementAt(p, p.at)
      BY <2>6 DEF SameForm, ElementAt
    <3>2. \A e : e \in FocusShown(p) <=>
            (\/ e \in p.lit
             \/ (e \in EntriesOf(p.kind) /\ p.entries[e].cursor # NoCursor)
             \/ (e = "buttons" /\ p.side # "none")
             \/ (e = "list" /\ p.list.selected # NoIndex))
      BY <1>1, ShownIs
    <3>3. \A e : e \in FocusShown(g) <=>
            (\/ e \in g.lit
             \/ (e \in EntriesOf(g.kind) /\ g.entries[e].cursor # NoCursor)
             \/ (e = "buttons" /\ g.side # "none")
             \/ (e = "list" /\ g.list.selected # NoIndex))
      BY <2>6, ShownIs
    <3>4. FocusShown(g) \subseteq FocusShown(p)  BY <2>1, <2>3, <2>6, <3>1, <3>2, <3>3
    <3>5. \A e \in FocusShown(p) : e \in FocusShown(g) \/ e = "list"
      BY <2>6, <3>1, <3>2, <3>3
    <3>6. g.cell => FocusShown(g) # {} \/ ElementAt(g, g.at) = "list"
      BY <1>1, <2>6, <3>1, <3>5 DEF PopupFocusTrue
    <3>7. FocusShown(g) \subseteq (IF g.cell THEN {ElementAt(g, g.at)} ELSE {})
      BY <1>1, <2>6, <3>1, <3>4 DEF PopupFocusTrue
    <3>8. g.selecting => g.cell /\ ElementAt(g, g.at) \in DOMAIN OptionsOf
      BY <1>1, <2>6, <3>1 DEF PopupFocusTrue
    <3> QED BY <2>1, <2>3, <2>6, <3>6, <3>7, <3>8 DEF PopupFocusTrue
  <2>8. Reaction(g, p)  BY <2>6, <2>7, PutFocus
  <2>9. g \in PopupOf(g.kind) /\ PopupForm(g) /\ PopupGood(g)
    BY <2>8 DEF Reaction, PopupGood
  <2>10. q = [g EXCEPT !.changed = FALSE]  BY <2>4, <2>5
  <2>11. q \in PopupOf(g.kind) /\ SameFocus(q, g) /\ SameForm(q, g)
    BY <2>9, <2>10 DEF PopupOf, SameFocus, SameForm
  <2>12. PopupForm(q)  BY <2>9, <2>11, FormStays
  <2>13. Reaction(q, g)  BY <2>9, <2>11, <2>12, PutForm
  <2> QED BY <2>6, <2>8, <2>11, <2>13 DEF SameState, SameFocus, SameForm, Reaction
<1> QED BY <1>2, <1>3

--------------------------------------------------------------------------------
(* The stack of popups. *)

\* A good popup is one of them.
LEMMA IsEvery ==
    ASSUME NEW p, PopupGood(p)
    PROVE  p \in Every /\ p.kind \in Kinds
  BY DEF PopupGood, Every

\* A popup on the stack changes.
LEMMA StackPut ==
    ASSUME NEW s, NEW c, StackGood(s, c), NEW i \in 1 .. Len(s), NEW q, PopupGood(q),
           q.kind = s[i].kind, i < Len(s) => ~HasFocus(q), Alone(q) => i = Len(s) /\ c = <<>>,
           NEW t, t = [s EXCEPT ![i] = q]
    PROVE  StackGood(t, c)
<1>1. s \in Seq(Every) /\ q \in Every /\ Ordered(s, c)  BY IsEvery DEF StackGood
<1>2. /\ t \in Seq(Every) /\ Len(t) = Len(s)
      /\ \A j \in 1 .. Len(s) : t[j] = IF j = i THEN q ELSE s[j]
  BY <1>1, ExceptSeq
<1>3. \A j \in 1 .. Len(s) : t[j].kind = s[j].kind  BY <1>2
<1>4. \A j \in 1 .. Len(s) : Placed(t[j], j, Len(s), c)
  <2> SUFFICES ASSUME NEW j \in 1 .. Len(s) PROVE Placed(t[j], j, Len(s), c)
    OBVIOUS
  <2>1. CASE j = i
    <3>1. t[j] = q  BY <1>2, <2>1
    <3>2. Placed(q, i, Len(s), c)  BY DEF Placed
    <3> QED BY <2>1, <3>1, <3>2
  <2>2. CASE j # i
    <3>1. t[j] = s[j]  BY <1>2, <2>2
    <3> QED BY <1>1, <3>1 DEF Ordered
  <2> QED BY <2>1, <2>2
<1>5. Ordered(t, c)  BY <1>1, <1>2, <1>3, <1>4 DEF Ordered
<1> QED BY <1>2, <1>5 DEF StackGood

\* The one on top sends one, unless it is to be alone.
LEMMA StackSends ==
    ASSUME NEW s, StackGood(s, <<>>), s # <<>>, ~Alone(s[Len(s)]), NEW k \in Kinds,
           Under(s[Len(s)].kind, k)
    PROVE  StackGood(s, <<k>>)
<1>1. s \in Seq(Every) /\ Ordered(s, <<>>)  BY DEF StackGood
<1>2. Len(s) \in Nat /\ Len(s) # 0  BY <1>1, EmptySeq
<1>3. \A i \in 1 .. Len(s) : s[i].kind \in Kinds /\ PopupGood(s[i])
  BY <1>1, IsEvery DEF Ordered, Placed
<1>4. PICK n : n = Len(s)  OBVIOUS
<1>5. n \in 1 .. n /\ n \in Nat  BY <1>2, <1>4
<1>6. \A i \in 1 .. n : Under(s[i].kind, k)
  <2> SUFFICES ASSUME NEW i \in 1 .. n PROVE Under(s[i].kind, k)
    OBVIOUS
  <2>1. CASE i = n  BY <1>4, <2>1
  <2>2. CASE i # n
    <3>1. i < n  BY <1>5, <2>2
    <3>2. Under(s[i].kind, s[n].kind)  BY <1>1, <1>4, <1>5, <3>1 DEF Ordered
    <3>3. Under(s[n].kind, k)  BY <1>4
    <3>4. s[i].kind \in Kinds /\ s[n].kind \in Kinds  BY <1>3, <1>4, <1>5
    <3> QED BY <3>2, <3>3, <3>4, UnderIs
  <2> QED BY <2>1, <2>2
<1>7. <<k>> \in Seq(Kinds) /\ Len(<<k>>) = 1 /\ <<k>>[1] = k  OBVIOUS
<1>8. \A i \in 1 .. n : Placed(s[i], i, n, <<k>>)
  <2> SUFFICES ASSUME NEW i \in 1 .. n PROVE Placed(s[i], i, n, <<k>>)
    OBVIOUS
  <2>1. Placed(s[i], i, n, <<>>)  BY <1>1, <1>4 DEF Ordered
  <2>2. ~Alone(s[i])  BY <1>4, <2>1 DEF Placed
  <2> QED BY <2>1, <2>2 DEF Placed
<1>9. Ordered(s, <<k>>)  BY <1>1, <1>4, <1>6, <1>7, <1>8 DEF Ordered
<1> QED BY <1>1, <1>9 DEF StackGood

\* A popup that is to be alone is the one on top, and nothing comes.
LEMMA StackWaits ==
    ASSUME NEW s, NEW c, StackGood(s, c)
    PROVE  \A i \in 1 .. Len(s) : Alone(s[i]) => i = Len(s) /\ c = <<>>
  BY DEF StackGood, Ordered, Placed

\* A popup on the stack closes, wherever it is.
LEMMA StackDrops ==
    ASSUME NEW s, NEW c, StackGood(s, c), NEW i \in 1 .. Len(s), NEW t, t = RemoveAt(s, i)
    PROVE  StackGood(t, c)
<1>1. s \in Seq(Every) /\ Ordered(s, c) /\ Len(s) \in Nat  BY DEF StackGood
<1>2. PICK a, b : a = SubSeq(s, 1, i - 1) /\ b = SubSeq(s, i + 1, Len(s))  OBVIOUS
<1>3. /\ a \in Seq(Every) /\ Len(a) = i - 1 /\ \A j \in 1 .. i - 1 : a[j] = s[j]
  BY <1>1, <1>2, SubSeqProperties
<1>4. /\ b \in Seq(Every) /\ Len(b) = Len(s) - i /\ \A j \in 1 .. Len(s) - i : b[j] = s[i + j]
  BY <1>1, <1>2, SubSeqProperties
<1>5. t = a \o b  BY <1>2 DEF RemoveAt
<1>6. t \in Seq(Every) /\ Len(t) = Len(s) - 1
  <2>1. a \in Seq(Every) /\ b \in Seq(Every)  BY <1>3, <1>4
  <2>2. t \in Seq(Every) /\ Len(t) = Len(a) + Len(b)  BY <1>5, <2>1, ConcatProperties
  <2> QED BY <1>1, <1>3, <1>4, <2>2
<1>7. \A j \in 1 .. Len(t) : t[j] = IF j < i THEN s[j] ELSE s[j + 1]
  <2> SUFFICES ASSUME NEW j \in 1 .. Len(t) PROVE t[j] = IF j < i THEN s[j] ELSE s[j + 1]
    OBVIOUS
  <2>1. t[j] = IF j <= Len(a) THEN a[j] ELSE b[j - Len(a)]
    BY <1>3, <1>4, <1>5, <1>6, ConcatProperties
  <2>2. CASE j < i  BY <1>1, <1>3, <1>6, <2>1, <2>2
  <2>3. CASE ~(j < i)
    <3>1. j - Len(a) \in 1 .. Len(s) - i /\ i + (j - Len(a)) = j + 1
      BY <1>1, <1>3, <1>6, <2>3
    <3>2. b[j - Len(a)] = s[j + 1]  BY <1>4, <3>1
    <3> QED BY <1>1, <1>3, <1>6, <2>1, <2>3, <3>2
  <2> QED BY <2>2, <2>3
<1>8. ASSUME NEW j \in 1 .. Len(t)
      PROVE  \E k \in 1 .. Len(s) : t[j] = s[k] /\ Placed(t[j], j, Len(t), c)
  <2>1. PICK k : k = IF j < i THEN j ELSE j + 1  OBVIOUS
  <2>2. k \in 1 .. Len(s) /\ t[j] = s[k] /\ (j < Len(t) => k < Len(s)) /\ (k = Len(s) => j = Len(t))
    BY <1>1, <1>6, <1>7, <2>1
  <2>3. Placed(s[k], k, Len(s), c)  BY <1>1, <2>2 DEF Ordered
  <2>4. Placed(t[j], j, Len(t), c)  BY <2>2, <2>3 DEF Placed
  <2> QED BY <2>2, <2>4
<1>9. ASSUME NEW j \in 1 .. Len(t), NEW k \in 1 .. Len(t), j < k
      PROVE  Under(t[j].kind, t[k].kind)
  <2>1. PICK x, y : x = (IF j < i THEN j ELSE j + 1) /\ y = (IF k < i THEN k ELSE k + 1)
    OBVIOUS
  <2>2. x \in 1 .. Len(s) /\ y \in 1 .. Len(s) /\ x < y /\ t[j] = s[x] /\ t[k] = s[y]
    BY <1>1, <1>6, <1>7, <1>9, <2>1
  <2> QED BY <1>1, <2>2 DEF Ordered
<1>10. Ordered(t, c)
  <2>1. \A j \in 1 .. Len(t) : Placed(t[j], j, Len(t), c)  BY <1>8
  <2>2. \A j \in 1 .. Len(t), k \in 1 .. Len(c) : Under(t[j].kind, c[k])
    BY <1>1, <1>8 DEF Ordered
  <2> QED BY <1>1, <1>9, <2>1, <2>2 DEF Ordered
<1> QED BY <1>6, <1>10 DEF StackGood

--------------------------------------------------------------------------------
(* A popup comes. *)

\* The one on top loses the focus.
LEMMA CoveredIs ==
    ASSUME NEW p, PopupGood(p), ~Alone(p)
    PROVE  Covered(PopupUnfocused(p), p)
<1>1. PopupTyped(p) /\ PopupFocusTrue(p)  BY GoodIs
<1>2. Movable(p)  BY DEF Movable, Alone
<1>3. PICK q : q = PopupUnfocused(p)  OBVIOUS
<1>4. PopupTyped(q) /\ PopupFocusTrue(q) /\ SameForm(q, p) /\ ~q.cell
  BY <1>1, <1>2, <1>3, PopupUnfocusedGood
<1>5. Reaction(q, p)  BY <1>4, PutFocus
<1>6. ~Alone(q)  BY <1>4 DEF SameForm, Alone, Out
<1> QED BY <1>3, <1>4, <1>5, <1>6 DEF Covered, Reaction, HasFocus

\* The stack with a popup that came.
LEMMA StackPushed ==
    ASSUME NEW s, NEW c, StackGood(s, c), \A i \in 1 .. Len(s) : ~Alone(s[i]), NEW k \in Kinds,
           \A i \in 1 .. Len(s) : Under(s[i].kind, k), NEW t, t = Append(Under1(s), NewPopup(k))
    PROVE  StackGood(t, <<>>)
<1>1. PICK n, u, p : n = Len(s) /\ u = Under1(s) /\ p = NewPopup(k)  OBVIOUS
<1>2. s \in Seq(Every) /\ Ordered(s, c) /\ n \in Nat  BY <1>1 DEF StackGood
<1>3. \A i \in 1 .. n : Covered(u[i], s[i])
  <2> SUFFICES ASSUME NEW i \in 1 .. n PROVE Covered(u[i], s[i])
    OBVIOUS
  <2>1. Placed(s[i], i, n, c) /\ ~Alone(s[i])  BY <1>1, <1>2 DEF Ordered
  <2>2. PopupGood(s[i])  BY <2>1 DEF Placed
  <2>3. CASE i = n
    <3>1. u[i] = PopupUnfocused(s[i])  BY <1>1, <2>3 DEF Under1
    <3> QED BY <2>1, <2>2, <3>1, CoveredIs
  <2>4. CASE i # n
    <3>1. u[i] = s[i] /\ i < n  BY <1>1, <1>2, <2>4 DEF Under1
    <3> QED BY <2>1, <2>2, <3>1 DEF Covered, Placed
  <2> QED BY <2>3, <2>4
<1>4. u \in Seq(Every) /\ Len(u) = n
  <2>1. \A i \in 1 .. n : u[i] \in Every  BY <1>3, IsEvery DEF Covered
  <2>2. u = [i \in 1 .. n |-> u[i]]  BY <1>1 DEF Under1
  <2> QED BY <1>2, <2>1, <2>2, IsASeq
<1>5. PopupGood(p) /\ p.kind = k /\ ~Alone(p) /\ p \in Every
  BY <1>1, NewPopupGood, IsEvery DEF Alone
<1>6. /\ t \in Seq(Every) /\ Len(t) = n + 1
      /\ \A i \in 1 .. n : t[i] = u[i]
      /\ t[n + 1] = p
  <2>1. t = Append(u, p)  BY <1>1
  <2> QED BY <1>2, <1>4, <1>5, <2>1, AppendProperties
<1>7. \A i \in 1 .. n + 1 : Placed(t[i], i, n + 1, <<>>)
  <2> SUFFICES ASSUME NEW i \in 1 .. n + 1 PROVE Placed(t[i], i, n + 1, <<>>)
    OBVIOUS
  <2>1. CASE i = n + 1  BY <1>2, <1>5, <1>6, <2>1 DEF Placed
  <2>2. CASE i # n + 1
    <3>1. i \in 1 .. n  BY <1>2, <2>2
    <3> QED BY <1>3, <1>6, <3>1 DEF Placed, Covered
  <2> QED BY <2>1, <2>2
<1>8. ASSUME NEW i \in 1 .. n + 1, NEW j \in 1 .. n + 1, i < j
      PROVE  Under(t[i].kind, t[j].kind)
  <2>1. i \in 1 .. n  BY <1>2, <1>8
  <2>2. t[i].kind = s[i].kind  BY <1>3, <1>6, <2>1 DEF Covered
  <2>3. CASE j = n + 1
    <3>1. t[j].kind = k  BY <1>5, <1>6, <2>3
    <3> QED BY <1>1, <2>1, <2>2, <3>1
  <2>4. CASE j # n + 1
    <3>1. j \in 1 .. n  BY <1>2, <2>4
    <3>2. t[j].kind = s[j].kind  BY <1>3, <1>6, <3>1 DEF Covered
    <3>3. Under(s[i].kind, s[j].kind)  BY <1>1, <1>2, <1>8, <2>1, <3>1 DEF Ordered
    <3> QED BY <2>2, <3>2, <3>3
  <2> QED BY <2>3, <2>4
<1>9. <<>> \in Seq(Kinds) /\ Len(<<>>) = 0  BY EmptySeq
<1>10. Ordered(t, <<>>)
  <2>1. PICK e : e = <<>>  OBVIOUS
  <2>2. e \in Seq(Kinds) /\ Len(e) = 0  BY <1>9, <2>1
  <2>3. \A i \in 1 .. Len(t) : Placed(t[i], i, Len(t), e)  BY <1>6, <1>7, <2>1
  <2>4. \A i, j \in 1 .. Len(t) : i < j => Under(t[i].kind, t[j].kind)  BY <1>6, <1>8
  <2>5. \A i \in 1 .. Len(t), j \in 1 .. Len(e) : Under(t[i].kind, e[j])  BY <2>2
  <2>6. Ordered(t, e)  BY <2>2, <2>3, <2>4, <2>5 DEF Ordered
  <2> QED BY <2>1, <2>6
<1> QED BY <1>6, <1>10 DEF StackGood

\* A popup comes over the screen.
LEMMA PushGood ==
    ASSUME NEW c, StackGood(stack, c), Covering(ui, stack), \A i \in 1 .. Len(stack) : ~Alone(stack[i]),
           NEW k \in Kinds, \A i \in 1 .. Len(stack) : Under(stack[i].kind, k), Push(NewPopup(k))
    PROVE  /\ StackGood(stack', <<>>)
           /\ UiGood(ui', layout.mode) /\ ~ui'.cell /\ SameUi(ui', ui)
<1>1. stack' = Append(Under1(stack), NewPopup(k))  BY DEF Push, Under1
<1>2. PICK t : t = stack'  OBVIOUS
<1>3. StackGood(t, <<>>)  BY <1>1, <1>2, StackPushed
<1>4. ui' = IF stack = <<>> THEN AllTaken(ui) ELSE ui  BY DEF Push
<1>5. CASE stack = <<>>
  <2>1. PICK v : v = AllTaken(ui)  OBVIOUS
  <2>2. Off(v) /\ SameUi(v, ui)  BY <2>1, AllTakenGood DEF Covering
  <2>3. UiGood(v, layout.mode) /\ ~v.cell  BY <2>2, UiCases DEF Off
  <2> QED BY <1>2, <1>3, <1>4, <1>5, <2>1, <2>2, <2>3
<1>6. CASE stack # <<>>  BY <1>2, <1>3, <1>4, <1>6 DEF Covering, SameUi
<1> QED BY <1>5, <1>6

--------------------------------------------------------------------------------
(* The inductive invariant. *)

\* The codes of a plan are codes.
LEMMA PlanCodes ==
    ASSUME PlanInv
    PROVE  left.codes \in SUBSET Codes
  BY DEF PlanInv, Codes

\* A plan with less left.
LEMMA PlanLess ==
    ASSUME NEW p, NEW l \in PlanOf(p)
    PROVE  /\ l.lines > 0 => [l EXCEPT !.lines = @ - 1] \in PlanOf(p)
           /\ l.bytes > 0 => [l EXCEPT !.bytes = @ - 1] \in PlanOf(p)
           /\ l.waits > 0 => [l EXCEPT !.waits = @ - 1] \in PlanOf(p)
           /\ l.sizes > 0 => [l EXCEPT !.sizes = @ - 1] \in PlanOf(p)
           /\ l.popups > 0 => [l EXCEPT !.popups = @ - 1] \in PlanOf(p)
<1>1. /\ l.lines > 0 => l.lines - 1 \in Nat
      /\ l.bytes > 0 => l.bytes - 1 \in Nat
      /\ l.waits > 0 => l.waits - 1 \in Nat
      /\ l.sizes > 0 => l.sizes - 1 \in Nat
      /\ l.popups > 0 => l.popups - 1 \in Nat
  BY DEF PlanOf
<1> QED BY <1>1 DEF PlanOf

\* So what is left stays part of a plan.
LEMMA PlanStays ==
    ASSUME PlanInv, Less \/ UNCHANGED left
    PROVE  PlanInv'
<1>1. PICK p \in Plans : left \in PlanOf(p)  BY DEF PlanInv, PlanOf
<1>2. left' \in PlanOf(p)  BY <1>1, PlanLess DEF Less
<1>3. p \in Plans  BY <1>1
<1> QED BY <1>2, <1>3 DEF PlanInv, PlanOf

\* What the interface is at first.
LEMMA InitGood ==
    ASSUME Init
    PROVE  IInv
<1>1. PlanInv
  <2>1. left \in Plans  BY DEF Init
  <2>2. left \in PlanOf(left)  BY <2>1, MainScreenAssumption DEF PlanOf, Area
  <2> QED BY <2>1, <2>2 DEF PlanInv, PlanOf
<1>2. HistoryInv
  <2>1. history = <<>> /\ ui.list = EmptyList  BY DEF Init
  <2>2. Len(history) = 0 /\ ui.list.count = 0  BY <2>1 DEF EmptyList
  <2>3. history \in Seq([id : Nat, kind : EventKinds])  BY <2>1
  <2> QED BY <2>2, <2>3, MainScreenAssumption DEF HistoryInv
<1>3. AreasInv
  <2>1. left \in Plans /\ terminal \in left.within  BY DEF Init
  <2>2. terminal \in Area  BY <2>1, MainScreenAssumption DEF Area
  <2>3. layout = [mode |-> "full", log |-> NoArea, graph |-> FALSE]  BY DEF Init
  <2> QED BY <2>2, <2>3 DEF AreasInv, Modes, NoArea, Area
<1>4. UiInv
  <2>1. ui = [list |-> EmptyList, cell |-> FALSE, split |-> "menu", item |-> 0, main |-> FALSE,
              element |-> "log", lit |-> {}, selecting |-> FALSE, expanded |-> FALSE, unit |-> 1]
    BY DEF Init
  <2>2. EmptyList \in ListsOf(<<>>) /\ SelectsItem(EmptyList) /\ EmptyList.selected = NoIndex
        /\ EmptyList.cache = <<>>
    BY DEF EmptyList, ListsOf, SelectsItem
  <2>3. 1 \in Units  BY UsageTrackerAssumption
  <2>4. ui \in UiOf(ui.list.cache)  BY <2>1, <2>2, <2>3 DEF UiOf, Elements
  <2>5. UiTyped(ui)  BY <2>1, <2>2, <2>4 DEF UiTyped
  <2>6. HoldersOf(ui) = {}  BY <2>1, <2>2 DEF HoldersOf
  <2>7. Off(ui)  BY <2>1, <2>5, <2>6 DEF Off, Bare
  <2>8. stack = <<>>  BY DEF Init
  <2> QED BY <2>7, <2>8, UiCases DEF UiInv
<1>5. StackGood(stack, coming)
  <2>1. PICK s, c : s = stack /\ c = coming /\ s = <<>> /\ c = <<>>  BY DEF Init
  <2>2. s \in Seq(Every) /\ c \in Seq(Kinds) /\ Len(s) = 0 /\ Len(c) = 0
    BY <2>1, EmptySeq
  <2>3. \A i \in 1 .. Len(s) : FALSE  BY <2>2
  <2>4. Ordered(s, c)  BY <2>2, <2>3 DEF Ordered
  <2> QED BY <2>1, <2>2, <2>4 DEF StackGood
<1> QED BY <1>1, <1>2, <1>3, <1>4, <1>5 DEF IInv

--------------------------------------------------------------------------------
(* Keys. *)

\* What comes is one kind of popup, or nothing.
LEMMA ComingIs ==
    ASSUME NEW s, NEW c, StackGood(s, c), c # <<>>
    PROVE  /\ c = <<Head(c)>> /\ Head(c) \in Kinds /\ Tail(c) = <<>>
           /\ \A i \in 1 .. Len(s) : ~Alone(s[i]) /\ Under(s[i].kind, Head(c))
<1>1. c \in Seq(Kinds) /\ Len(c) <= 1 /\ Ordered(s, c)  BY DEF StackGood, Ordered
<1>2. Len(c) \in Nat /\ Len(c) # 0
  <2>1. c \in Seq(Kinds)  BY <1>1
  <2> QED BY <2>1, EmptySeq
<1>3. Len(c) = 1  BY <1>1, <1>2, SMTT(30)
<1>4. Head(c) = c[1] /\ c[1] \in Kinds  BY <1>1, <1>3
<1>5. c = <<Head(c)>>  BY <1>1, <1>3, <1>4
<1>6. Tail(c) = <<>>  BY <1>1, <1>3, SMTT(30)
<1>7. \A i \in 1 .. Len(s) : ~Alone(s[i])  BY StackWaits
<1>8. \A i \in 1 .. Len(s) : Under(s[i].kind, Head(c))  BY <1>1, <1>3, <1>4 DEF Ordered
<1> QED BY <1>4, <1>5, <1>6, <1>7, <1>8

\* A key to the popup on top.
LEMMA TopKeyGood ==
    ASSUME StackGood(stack, coming), Settled, stack # <<>>, NEW key, key.code \in Codes,
           key.ctrl \in BOOLEAN, TopKey(key)
    PROVE  StackGood(stack', coming')
<1>1. PICK n, p, r : n = Len(stack) /\ p = stack[n] /\ r = PopupKey(p, key)  OBVIOUS
<1>2. stack \in Seq(Every) /\ Ordered(stack, <<>>) /\ coming = <<>> /\ StackGood(stack, <<>>)
  BY DEF StackGood, Settled
<1>3. n \in 1 .. Len(stack) /\ n \in Nat  BY <1>1, <1>2, EmptySeq
<1>4. PopupGood(p) /\ ~p.closing  BY <1>1, <1>2, <1>3 DEF Ordered, Placed, Settled
<1>5. ResultGood(r, p)  BY <1>1, <1>4, PopupKeyGood
<1>6. PICK q, t : q = r.popup /\ t = [stack EXCEPT ![n] = q]  OBVIOUS
<1>7. stack' = t /\ coming' = <<>> \o r.sent  BY <1>1, <1>2, <1>6 DEF TopKey
<1>8. PopupGood(q) /\ q.kind = stack[n].kind  BY <1>1, <1>5, <1>6 DEF ResultGood
<1>9. StackGood(t, <<>>)
  <2>1. PICK c : c = <<>>  OBVIOUS
  <2>2. StackGood(stack, c) /\ n = Len(stack) /\ ~(n < Len(stack))
    BY <1>1, <1>2, <1>3, <2>1
  <2>3. StackGood(t, c)  BY <1>3, <1>6, <1>8, <2>1, <2>2, StackPut
  <2> QED BY <2>1, <2>3
<1>10. CASE r.sent = <<>>
  <2>1. coming' = <<>>  BY <1>7, <1>10
  <2> QED BY <1>7, <1>9, <2>1
<1>11. CASE r.sent # <<>>
  <2>1. PICK k \in Kinds : r.sent = <<k>> /\ Under(p.kind, k)
    BY <1>5, <1>11 DEF ResultGood
  <2>2. ~Alone(q)  BY <1>5, <1>6, <1>11 DEF ResultGood, Alone
  <2>3. Len(t) = n /\ t[n] = q /\ t # <<>>
    <3>1. q \in Every  BY <1>8, IsEvery
    <3>2. t \in Seq(Every) /\ Len(t) = n /\ t[n] = q
      BY <1>1, <1>2, <1>3, <1>6, <3>1, ExceptSeq
    <3> QED BY <1>3, <3>2
  <2>4. Under(q.kind, k)  BY <1>1, <1>8, <2>1
  <2>5. StackGood(t, <<k>>)  BY <1>9, <2>1, <2>2, <2>3, <2>4, StackSends
  <2>6. coming' = <<k>>  BY <1>7, <2>1
  <2> QED BY <1>7, <2>5, <2>6
<1> QED BY <1>10, <1>11

\* A key to the screen.
LEMMA RootKeyGood ==
    ASSUME IInv, Settled, stack = <<>>, NEW key, key.ctrl \in BOOLEAN, RootKey(key)
    PROVE  /\ StackGood(stack', coming') /\ UiGood(ui', layout.mode)
           /\ stack' # <<>> => ~ui'.cell
           /\ SameUi(ui', ui)
<1>1. PICK r \in CellKey(ui, key) :
         IF r.status = "unhandled" /\ key.code = "Esc"
         THEN "close" \in left.kinds /\ Push(NewPopup("close")) /\ UNCHANGED coming
         ELSE /\ ui' = r.ui /\ UNCHANGED stack
              /\ IF r.status = "popup" THEN \E kind \in MenuKinds \cap left.kinds : coming' = <<kind>>
                 ELSE UNCHANGED coming
  BY DEF RootKey
<1>2. StackGood(stack, coming) /\ UiInv /\ coming = <<>> /\ layout.mode \in Modes
  BY DEF IInv, Settled, AreasInv
<1>3. \A i \in 1 .. Len(stack) : FALSE  OBVIOUS
<1>4. Covering(ui, stack)  BY <1>2 DEF Covering, UiInv
<1>5. CASE r.status = "unhandled" /\ key.code = "Esc"
  <2>1. PICK k : k = "close" /\ k \in Kinds  BY DEF Kinds, ConfirmKinds
  <2>2. Push(NewPopup(k)) /\ UNCHANGED coming  BY <1>1, <1>5, <2>1
  <2>3. /\ StackGood(stack', <<>>)
        /\ UiGood(ui', layout.mode) /\ ~ui'.cell /\ SameUi(ui', ui)
    BY <1>2, <1>3, <1>4, <2>1, <2>2, PushGood
  <2> QED BY <1>2, <2>2, <2>3
<1>6. CASE ~(r.status = "unhandled" /\ key.code = "Esc")
  <2>1. /\ ui' = r.ui /\ UNCHANGED stack
        /\ IF r.status = "popup" THEN \E kind \in MenuKinds \cap left.kinds : coming' = <<kind>>
           ELSE UNCHANGED coming
    BY <1>1, <1>6
  <2>2. UiGood(ui, layout.mode)  BY <1>2 DEF UiInv
  <2>3. Leaves(r.ui, ui)  BY <1>2, <2>2, CellKeyGood
  <2>4. StackGood(stack', coming')
    <3>1. CASE UNCHANGED coming
      <4>1. stack' = stack /\ coming' = coming  BY <2>1, <3>1
      <4> QED BY <1>2, <4>1
    <3>2. CASE \E kind \in MenuKinds \cap left.kinds : coming' = <<kind>>
      <4>1. PICK kind \in MenuKinds : coming' = <<kind>>  BY <3>2
      <4>2. kind \in Kinds  BY DEF MenuKinds, Kinds, ConfirmKinds, FormKinds, ListKinds
      <4>3. PICK s, c : s = stack /\ c = <<kind>>  OBVIOUS
      <4>4. s \in Seq(Every) /\ Len(s) = 0 /\ c \in Seq(Kinds) /\ Len(c) = 1
        BY <4>2, <4>3, EmptySeq
      <4>5. \A i \in 1 .. Len(s) : FALSE  BY <4>4
      <4>6. Ordered(s, c)  BY <4>4, <4>5 DEF Ordered
      <4>7. stack' = s /\ coming' = c  BY <2>1, <4>1, <4>3
      <4> QED BY <4>4, <4>6, <4>7 DEF StackGood
    <3> QED BY <2>1, <3>1, <3>2
  <2> QED BY <2>1, <2>3, <2>4 DEF Leaves
<1> QED BY <1>5, <1>6

--------------------------------------------------------------------------------
(* Tasks of popups. *)

\* A popup of the same state is what a task may leave.
LEMMA SameFollows ==
    ASSUME NEW p, NEW q, SameState(q, p)
    PROVE  Follows(q, p)
  BY DEF SameState, Follows, Alone, Out

\* A popup on the stack is good.
LEMMA OnStack ==
    ASSUME NEW s, NEW c, StackGood(s, c), NEW i \in 1 .. Len(s)
    PROVE  PopupGood(s[i]) /\ (i < Len(s) => ~s[i].cell)
  BY DEF StackGood, Ordered, Placed, HasFocus

\* A popup on the stack is replaced by what a task leaves of it.
LEMMA StackFollows ==
    ASSUME NEW s, NEW c, StackGood(s, c), NEW i \in 1 .. Len(s), NEW q, Follows(q, s[i]),
           NEW t, t = [s EXCEPT ![i] = q]
    PROVE  StackGood(t, c)
<1>1. PopupGood(q) /\ q.kind = s[i].kind  BY DEF Follows, Reaction
<1>2. i < Len(s) => ~HasFocus(q)  BY OnStack DEF Follows, HasFocus
<1>3. Alone(q) => i = Len(s) /\ c = <<>>  BY StackWaits DEF Follows
<1> QED BY <1>1, <1>2, <1>3, StackPut

\* A stack with a popup replaced is not empty.
LEMMA AsMany ==
    ASSUME NEW s, NEW c, StackGood(s, c), NEW i \in 1 .. Len(s), NEW q, NEW t, t = [s EXCEPT ![i] = q]
    PROVE  s # <<>> /\ t # <<>>
<1>1. s \in Seq(Every) /\ Len(s) \in Nat /\ Len(s) # 0  BY DEF StackGood
<1>2. DOMAIN t = DOMAIN s /\ DOMAIN s = 1 .. Len(s) /\ DOMAIN s # {}  BY <1>1
<1>3. DOMAIN <<>> = {}  OBVIOUS
<1> QED BY <1>2, <1>3

\* A task goes on and sends nothing.
LEMMA TaskFollows ==
    ASSUME StackGood(stack, coming), NEW i \in 1 .. Len(stack), NEW q, Follows(q, stack[i]),
           PopupTask(i, q, <<>>)
    PROVE  StackGood(stack', coming')
<1>1. PICK t : t = [stack EXCEPT ![i] = q]  OBVIOUS
<1>2. StackGood(t, coming)  BY <1>1, StackFollows
<1>3. coming \in Seq(Kinds)  BY DEF StackGood, Ordered
<1>4. coming' = coming /\ stack' = t  BY <1>1, <1>3 DEF PopupTask
<1> QED BY <1>2, <1>4

\* The answer to a request: the popup may have a message come over it, as it waits no more.
LEMMA AnsweredGood ==
    ASSUME StackGood(stack, coming), Answered
    PROVE  StackGood(stack', coming') /\ stack # <<>>
<1>1. PICK i \in 1 .. Len(stack) :
         /\ stack[i].task = "request"
         /\ \/ PopupTask(i, Served(stack[i]), <<>>)
            \/ PopupTask(i, Refused(stack[i]), <<"message">>)
  BY DEF Answered
<1>2. PICK p : p = stack[i]  OBVIOUS
<1>3. PopupGood(p) /\ p.task = "request"  BY <1>1, <1>2, OnStack
<1>4. Alone(p)  BY <1>3 DEF Alone, Out
<1>5. i = Len(stack) /\ coming = <<>>  BY <1>2, <1>4, StackWaits
<1>6. stack # <<>>  BY <1>1, AsMany
<1>7. CASE PopupTask(i, Served(p), <<>>)
  <2>1. PICK q : q = Served(p)  OBVIOUS
  <2>2. Reaction(q, p) /\ q.cell = p.cell  BY <1>3, <2>1, ServedGood
  <2>3. Follows(q, stack[i])  BY <1>2, <1>4, <2>2 DEF Follows
  <2>4. PopupTask(i, q, <<>>)  BY <1>7, <2>1
  <2> QED BY <1>6, <2>3, <2>4, TaskFollows
<1>8. CASE PopupTask(i, Refused(p), <<"message">>)
  <2>1. PICK q, k : q = Refused(p) /\ k = "message"  OBVIOUS
  <2>2. Reaction(q, p) /\ ~Out(q) /\ q.shown /\ Under(q.kind, "message")
    BY <1>3, <2>1, RefusedGood
  <2>3. PICK t, c : t = [stack EXCEPT ![i] = q] /\ c = <<>>  OBVIOUS
  <2>4. PopupGood(q) /\ q.kind = stack[i].kind /\ ~Alone(q)
    BY <1>2, <2>2 DEF Reaction, Alone
  <2>5. StackGood(stack, c) /\ ~(i < Len(stack))  BY <1>5, <2>3
  <2>6. StackGood(t, c)  BY <2>3, <2>4, <2>5, StackPut
  <2>7. t # <<>>  BY <2>3, AsMany
  <2>8. Len(t) = i /\ t[i] = q
    <3>1. stack \in Seq(Every) /\ q \in Every  BY <2>4, IsEvery DEF StackGood
    <3> QED BY <1>5, <2>3, <3>1, ExceptSeq
  <2>9. StackGood(t, <<k>>)
    <3>1. k \in Kinds /\ Under(q.kind, k)  BY <2>1, <2>2 DEF Kinds
    <3> QED BY <2>3, <2>4, <2>6, <2>7, <2>8, <3>1, StackSends
  <2>10. stack' = t /\ coming' = <<k>>  BY <1>5, <1>8, <2>1, <2>3 DEF PopupTask
  <2> QED BY <1>6, <2>9, <2>10
<1> QED BY <1>1, <1>2, <1>7, <1>8

\* The end of a beep.
LEMMA BeepEndsGood ==
    ASSUME StackGood(stack, coming), BeepEnds
    PROVE  StackGood(stack', coming') /\ stack # <<>>
<1>1. PICK i \in 1 .. Len(stack) :
         stack[i].task = "beep" /\ PopupTask(i, [stack[i] EXCEPT !.task = "none"], <<>>)
  BY DEF BeepEnds
<1>2. PICK p, task : p = stack[i] /\ task = "none"  OBVIOUS
<1>3. PICK q : q = [p EXCEPT !.task = task]  OBVIOUS
<1>4. PopupGood(p) /\ ~Out(p) /\ p.task = "beep"  BY <1>1, <1>2, OnStack DEF Out
<1>5. Reaction(q, p) /\ SameFocus(q, p)  BY <1>2, <1>3, <1>4, TaskGood
<1>6. q.shown = p.shown /\ ~Out(q)  BY <1>2, <1>3, <1>4 DEF Out, PopupGood, PopupOf
<1>7. Follows(q, stack[i])  BY <1>2, <1>5, <1>6 DEF Follows, SameFocus, Alone
<1>8. PopupTask(i, q, <<>>)  BY <1>1, <1>2, <1>3
<1> QED BY <1>7, <1>8, TaskFollows, AsMany

\* A list is loaded, or changes.
LEMMA ListTaskGood ==
    ASSUME StackGood(stack, coming), NEW i \in 1 .. Len(stack), NEW b \in BOOLEAN,
           PopupTask(i, [stack[i] EXCEPT !.loading = b, !.changed = TRUE], <<>>)
    PROVE  StackGood(stack', coming') /\ stack # <<>>
<1>1. PICK p, q : p = stack[i] /\ q = [p EXCEPT !.loading = b, !.changed = TRUE]  OBVIOUS
<1>2. PopupGood(p)  BY <1>1, OnStack
<1>3. SameState(q, p)  BY <1>1, <1>2, LoadedGood
<1>4. Follows(q, stack[i])  BY <1>1, <1>3, SameFollows
<1>5. PopupTask(i, q, <<>>)  BY <1>1
<1> QED BY <1>4, <1>5, TaskFollows, AsMany

\* One of the two happens to a list.
LEMMA ListsGood ==
    ASSUME StackGood(stack, coming), ListLoads \/ ListChanges
    PROVE  StackGood(stack', coming') /\ stack # <<>>
<1>1. CASE ListLoads
  <2>1. PICK i \in 1 .. Len(stack) :
           PopupTask(i, [stack[i] EXCEPT !.loading = FALSE, !.changed = TRUE], <<>>)
    BY <1>1 DEF ListLoads
  <2>2. PICK b \in BOOLEAN : b = FALSE  OBVIOUS
  <2> QED BY <2>1, <2>2, ListTaskGood
<1>2. CASE ListChanges
  <2>1. PICK i \in 1 .. Len(stack) :
           PopupTask(i, [stack[i] EXCEPT !.changed = TRUE], <<>>) /\ ~stack[i].loading
    BY <1>2 DEF ListChanges
  <2>2. PICK p : p = stack[i]  OBVIOUS
  <2>3. PopupGood(p) /\ p.loading \in BOOLEAN  BY <2>2, OnStack DEF PopupGood, PopupOf
  <2>4. PICK b \in BOOLEAN : b = p.loading  BY <2>3
  <2>5. [p EXCEPT !.loading = b, !.changed = TRUE] = [p EXCEPT !.changed = TRUE]
    BY <2>3, <2>4 DEF PopupGood, PopupOf
  <2> QED BY <2>1, <2>2, <2>5, ListTaskGood
<1> QED BY <1>1, <1>2

\* The popups as they are drawn.
LEMMA RedrawnGood ==
    ASSUME NEW s, NEW c, StackGood(s, c), NEW t, t \in Redrawn(s)
    PROVE  StackGood(t, c) /\ (t # <<>> => s # <<>>)
<1>1. PICK changed : changed = {i \in 1 .. Len(s) : s[i].changed /\ ~s[i].loading}
  OBVIOUS
<1>2. t \in (IF changed = {} THEN {s}
             ELSE UNION {{[s EXCEPT ![i] = q] : q \in Relisted(s[i])} : i \in changed})
  BY <1>1, Zenon DEF Redrawn
<1>3. CASE changed = {}  BY <1>2, <1>3
<1>4. CASE changed # {}
  <2>1. PICK i \in changed : t \in {[s EXCEPT ![i] = q] : q \in Relisted(s[i])}
    BY <1>2, <1>4
  <2>2. i \in 1 .. Len(s)  BY <1>1
  <2>3. PICK p : p = s[i]  OBVIOUS
  <2>4. PICK q \in Relisted(p) : t = [s EXCEPT ![i] = q]  BY <2>1, <2>3
  <2>5. PopupGood(p)  BY <2>2, <2>3, OnStack
  <2>6. Follows(q, s[i])  BY <2>3, <2>5, RelistedGood, SameFollows
  <2> QED BY <2>2, <2>4, <2>6, StackFollows, AsMany
<1> QED BY <1>3, <1>4

--------------------------------------------------------------------------------
(* The actions. *)

\* A key, to the screen or to the popup on top.
LEMMA KeyGood ==
    ASSUME IInv, Key
    PROVE  Drawn(stack', coming', ui', layout.mode) /\ SameUi(ui', ui)
<1>1. PICK code \in left.codes, shift \in BOOLEAN, ctrl \in BOOLEAN :
         LET key == [code |-> code, shift |-> shift, ctrl |-> ctrl]
         IN  IF stack = <<>> THEN RootKey(key) ELSE TopKey(key)
  BY DEF Key
<1>2. PICK key : key = [code |-> code, shift |-> shift, ctrl |-> ctrl]  OBVIOUS
<1>3. IF stack = <<>> THEN RootKey(key) ELSE TopKey(key)  BY <1>1, <1>2
<1>4. key.code \in Codes /\ key.ctrl \in BOOLEAN  BY <1>2, PlanCodes DEF IInv
<1>5. Settled  BY DEF Key
<1>6. CASE stack = <<>>  BY <1>3, <1>4, <1>5, <1>6, RootKeyGood DEF Drawn
<1>7. CASE stack # <<>>
  <2>1. StackGood(stack', coming')  BY <1>3, <1>4, <1>5, <1>7, TopKeyGood DEF IInv
  <2>2. ui' = ui  BY <1>3, <1>7 DEF TopKey
  <2>3. UiGood(ui, layout.mode) /\ ~ui.cell  BY <1>7 DEF IInv, UiInv
  <2> QED BY <2>1, <2>2, <2>3 DEF Drawn, SameUi
<1> QED BY <1>6, <1>7

\* A popup that was sent arrives.
LEMMA ArrivesGood ==
    ASSUME IInv, PopupArrives
    PROVE  Drawn(stack', coming', ui', layout.mode) /\ SameUi(ui', ui)
<1>1. StackGood(stack, coming) /\ coming # <<>> /\ Covering(ui, stack)
  BY DEF IInv, UiInv, PopupArrives, Covering
<1>2. PICK k : k = Head(coming)  OBVIOUS
<1>3. /\ k \in Kinds /\ Tail(coming) = <<>>
      /\ \A i \in 1 .. Len(stack) : ~Alone(stack[i]) /\ Under(stack[i].kind, k)
  BY <1>1, <1>2, ComingIs
<1>4. Push(NewPopup(k)) /\ coming' = Tail(coming)  BY <1>2 DEF PopupArrives
<1>5. /\ StackGood(stack', <<>>)
      /\ UiGood(ui', layout.mode) /\ ~ui'.cell /\ SameUi(ui', ui)
  BY <1>1, <1>3, <1>4, PushGood
<1> QED BY <1>3, <1>4, <1>5 DEF Drawn

\* A popup closes.
LEMMA ClosesGood ==
    ASSUME IInv, PopupCloses
    PROVE  Drawn(stack', coming', ui', layout.mode) /\ ui' = ui
<1>1. PICK i \in 1 .. Len(stack) : stack' = RemoveAt(stack, i)  BY DEF PopupCloses
<1>2. PICK t : t = RemoveAt(stack, i)  OBVIOUS
<1>3. StackGood(stack, coming) /\ UiInv  BY DEF IInv
<1>4. StackGood(t, coming)  BY <1>2, <1>3, StackDrops
<1>5. stack # <<>>  BY <1>3, AsMany
<1>6. stack' = t /\ coming' = coming /\ ui' = ui  BY <1>1, <1>2 DEF PopupCloses
<1> QED BY <1>3, <1>4, <1>5, <1>6 DEF Drawn, UiInv

\* It changes nothing but popups.
LEMMA TaskStepIs ==
    ASSUME TaskStep
    PROVE  UNCHANGED <<left, history, ui, layout, terminal>>
  BY DEF TaskStep, Answered, BeepEnds, ListLoads, ListChanges, PopupTask

\* And leaves them good.
LEMMA TaskStepGood ==
    ASSUME IInv, TaskStep
    PROVE  Drawn(stack', coming', ui', layout.mode) /\ ui' = ui
<1>1. StackGood(stack, coming) /\ UiInv  BY DEF IInv
<1>2. StackGood(stack', coming') /\ stack # <<>>
  BY <1>1, AnsweredGood, BeepEndsGood, ListsGood DEF TaskStep
<1>3. ui' = ui  BY TaskStepIs
<1> QED BY <1>1, <1>2, <1>3 DEF Drawn, UiInv

\* One more at the end, and the oldest is gone when there is no room.
LEMMA OneMore ==
    ASSUME NEW S, NEW s \in Seq(S), Len(s) <= MaxEvents, NEW e \in S,
           NEW t, t = Append(Roomy(s), e)
    PROVE  t \in Seq(S) /\ Len(t) = Longer(Len(s)) /\ Len(t) <= MaxEvents
<1>1. Len(s) \in Nat /\ MaxEvents \in Nat /\ MaxEvents # 0  BY MainScreenAssumption
<1>2. CASE Len(s) < MaxEvents
  <2>1. t = Append(s, e)  BY <1>2 DEF Roomy
  <2>2. t \in Seq(S) /\ Len(t) = Len(s) + 1  BY <2>1, AppendProperties
  <2> QED BY <1>1, <1>2, <2>2 DEF Longer
<1>3. CASE ~(Len(s) < MaxEvents)
  <2>1. Len(s) = MaxEvents  BY <1>1, <1>3
  <2>2. PICK r : r = Tail(s)  OBVIOUS
  <2>3. s # <<>>  BY <1>1, <2>1
  <2>4. r \in Seq(S) /\ Len(r) = Len(s) - 1  BY <2>2, <2>3
  <2>5. t = Append(r, e)  BY <1>3, <2>2 DEF Roomy
  <2>6. t \in Seq(S) /\ Len(t) = Len(r) + 1  BY <2>4, <2>5, AppendProperties
  <2> QED BY <1>1, <1>3, <2>1, <2>4, <2>6 DEF Longer
<1> QED BY <1>2, <1>3

\* An event is logged, and the list hears of it.
LEMMA LogEventGood ==
    ASSUME IInv, LogEvent
    PROVE  /\ Drawn(stack', coming', ui', layout.mode)
           /\ HistoryInv'
<1>1. PlanInv /\ HistoryInv /\ UiInv /\ StackGood(stack, coming)  BY DEF IInv
<1>2. left.lines \in Nat  BY <1>1 DEF PlanInv
<1>3. PICK kind \in EventKinds : history' = Append(Roomy(history), [id |-> left.lines, kind |-> kind])
  BY DEF LogEvent, Roomy
<1>4. PICK e \in [id : Nat, kind : EventKinds] : e = [id |-> left.lines, kind |-> kind]
  BY <1>2
<1>5. PICK h : h = Append(Roomy(history), e)  OBVIOUS
<1>6. /\ h \in Seq([id : Nat, kind : EventKinds]) /\ Len(h) = Longer(Len(history))
      /\ Len(h) <= MaxEvents
  <2>1. PICK E, old : E = [id : Nat, kind : EventKinds] /\ old = history  OBVIOUS
  <2>2. old \in Seq(E) /\ Len(old) <= MaxEvents  BY <1>1, <2>1 DEF HistoryInv
  <2>3. e \in E  BY <2>1
  <2>4. h = Append(Roomy(old), e)  BY <1>5, <2>1
  <2>5. h \in Seq(E) /\ Len(h) = Longer(Len(old)) /\ Len(h) <= MaxEvents
    BY <2>2, <2>3, <2>4, OneMore
  <2> QED BY <2>1, <2>5
<1>7. history' = h  BY <1>3, <1>4, <1>5
<1>8. UiGood(ui, layout.mode) /\ UiTyped(ui)  BY <1>1 DEF UiInv, UiGood
<1>9. PICK list, q : list = ui.list /\ q = Logged(list, history)  OBVIOUS
<1>10. /\ list \in ListsOf(list.cache) /\ SelectsItem(list) /\ list.count = Len(history)
       /\ history \in Seq([id : Nat, kind : EventKinds]) /\ Len(history) <= MaxEvents
  BY <1>1, <1>8, <1>9 DEF UiTyped, UiOf, HistoryInv
<1>11. /\ q \in ListsOf(q.cache) /\ q.count = Longer(Len(history))
       /\ q.selected # NoIndex <=> list.selected # NoIndex
       /\ SelectsItem(q)
  BY <1>9, <1>10, LoggedIs
<1>12. PICK v : v = UiList(ui, q)  OBVIOUS
<1>13. SameElse(v, ui, layout.mode) /\ v.list = q  BY <1>8, <1>9, <1>11, <1>12, RelistedUi
<1>14. ui' = v /\ stack' = stack /\ coming' = coming  BY <1>9, <1>12 DEF LogEvent, UiList
<1>15. Drawn(stack', coming', ui', layout.mode)
  BY <1>1, <1>13, <1>14 DEF Drawn, SameElse, UiInv
<1>16. ui'.list.count = Len(h)  BY <1>6, <1>11, <1>13, <1>14
<1> QED BY <1>6, <1>7, <1>15, <1>16 DEF HistoryInv

\* The screen is drawn: the layout may change, and the focus moves to what is visible.
LEMMA DrawGood ==
    ASSUME IInv, Draw
    PROVE  /\ Drawn(stack', coming', ui', layout'.mode) /\ layout' \in Layouts
           /\ ui'.list.count = ui.list.count
<1>1. AreasInv /\ UiInv /\ StackGood(stack, coming) /\ UiGood(ui, layout.mode)
  BY DEF IInv, UiInv
<1>2. layout' = DrawLayout /\ ui' = DrawUi /\ stack' \in Redrawn(stack) /\ coming' = coming
  BY DrawIs
<1>3. /\ DrawLayout \in Layouts
      /\ UiGood(DrawUi, DrawLayout.mode) /\ DrawUi.cell = ui.cell /\ DrawUi.list.count = ui.list.count
  BY <1>1, DrawUiGood
<1>4. StackGood(stack', coming) /\ (stack' # <<>> => stack # <<>>)
  BY <1>1, <1>2, RedrawnGood
<1>5. stack # <<>> => ~ui.cell  BY <1>1 DEF UiInv
<1>6. stack' # <<>> => ~ui'.cell  BY <1>2, <1>3, <1>4, <1>5
<1> QED BY <1>2, <1>3, <1>4, <1>6 DEF Drawn

\* It changes nothing of what the invariant is about.
LEMMA OtherStepIs ==
    ASSUME OtherStep
    PROVE  /\ UNCHANGED <<history, ui, layout, terminal, stack, coming>>
           /\ Less \/ UNCHANGED left
  BY DEF OtherStep, BytesEvent, Ticker, TimePasses, Less

\* The terminal is resized; nothing else happens before the next draw.
LEMMA ResizedGood ==
    ASSUME IInv, TerminalResized
    PROVE  /\ UNCHANGED <<history, ui, layout, stack, coming>> /\ terminal' \in Area /\ Less
<1>1. PICK size \in left.within : terminal' = size  BY DEF TerminalResized
<1>2. left.within \subseteq Area  BY DEF IInv, PlanInv, Area
<1> QED BY <1>1, <1>2 DEF TerminalResized, Less

--------------------------------------------------------------------------------
(* The theorems. *)

\* These are parts of the invariant.
LEMMA DrawnIs ==
    ASSUME Drawn(stack', coming', ui', layout'.mode)
    PROVE  UiInv' /\ StackGood(stack, coming)'
  BY DEF Drawn, UiInv

\* Nothing is logged.
LEMMA HistoryStays ==
    ASSUME HistoryInv, history' = history, ui'.list.count = ui.list.count
    PROVE  HistoryInv'
  BY DEF HistoryInv

\* Every step leaves the invariant true, one action after the other.
LEMMA StepGood ==
    ASSUME IInv, [Next]_vars
    PROVE  IInv'
<1>1. PlanInv /\ HistoryInv /\ AreasInv /\ UiInv /\ StackGood(stack, coming)  BY DEF IInv
<1>2. CASE Key
  <2>1. Drawn(stack', coming', ui', layout.mode) /\ ui'.list.count = ui.list.count
    BY <1>2, KeyGood DEF SameUi
  <2>2. UNCHANGED <<left, history, layout, terminal>>  BY <1>2 DEF Key
  <2>3. UiInv' /\ StackGood(stack, coming)'  BY <2>1, <2>2, DrawnIs
  <2>4. HistoryInv' /\ AreasInv' /\ PlanInv'
    BY <1>1, <2>1, <2>2, HistoryStays, PlanStays DEF AreasInv
  <2> QED BY <2>3, <2>4 DEF IInv
<1>3. CASE PopupArrives
  <2>1. Drawn(stack', coming', ui', layout.mode) /\ ui'.list.count = ui.list.count
    BY <1>3, ArrivesGood DEF SameUi
  <2>2. UNCHANGED <<history, layout, terminal>> /\ Less  BY <1>3 DEF PopupArrives, Less
  <2>3. UiInv' /\ StackGood(stack, coming)'  BY <2>1, <2>2, DrawnIs
  <2>4. HistoryInv' /\ AreasInv' /\ PlanInv'
    BY <1>1, <2>1, <2>2, HistoryStays, PlanStays DEF AreasInv
  <2> QED BY <2>3, <2>4 DEF IInv
<1>4. CASE PopupCloses
  <2>1. Drawn(stack', coming', ui', layout.mode) /\ ui' = ui  BY <1>4, ClosesGood
  <2>2. UNCHANGED <<left, history, layout, terminal>>  BY <1>4 DEF PopupCloses
  <2>3. UiInv' /\ StackGood(stack, coming)'  BY <2>1, <2>2, DrawnIs
  <2>4. HistoryInv' /\ AreasInv' /\ PlanInv'
    BY <1>1, <2>1, <2>2, HistoryStays, PlanStays DEF AreasInv
  <2> QED BY <2>3, <2>4 DEF IInv
<1>5. CASE TaskStep
  <2>1. Drawn(stack', coming', ui', layout.mode) /\ ui' = ui  BY <1>5, TaskStepGood
  <2>2. UNCHANGED <<left, history, layout, terminal>>  BY <1>5, TaskStepIs
  <2>3. UiInv' /\ StackGood(stack, coming)'  BY <2>1, <2>2, DrawnIs
  <2>4. HistoryInv' /\ AreasInv' /\ PlanInv'
    BY <1>1, <2>1, <2>2, HistoryStays, PlanStays DEF AreasInv
  <2> QED BY <2>3, <2>4 DEF IInv
<1>6. CASE LogEvent
  <2>1. Drawn(stack', coming', ui', layout.mode) /\ HistoryInv'  BY <1>6, LogEventGood
  <2>2. UNCHANGED <<layout, terminal>> /\ Less  BY <1>6 DEF LogEvent, Less
  <2>3. UiInv' /\ StackGood(stack, coming)'  BY <2>1, <2>2, DrawnIs
  <2>4. AreasInv' /\ PlanInv'  BY <1>1, <2>2, PlanStays DEF AreasInv
  <2> QED BY <2>1, <2>3, <2>4 DEF IInv
<1>7. CASE OtherStep \/ UNCHANGED vars
  <2>1. UNCHANGED <<history, ui, layout, terminal, stack, coming>> /\ (Less \/ UNCHANGED left)
    BY <1>7, OtherStepIs DEF vars
  <2>2. UiInv' /\ StackGood(stack, coming)'  BY <1>1, <2>1 DEF UiInv
  <2>3. HistoryInv' /\ AreasInv' /\ PlanInv'
    BY <1>1, <2>1, HistoryStays, PlanStays DEF AreasInv
  <2> QED BY <2>2, <2>3 DEF IInv
<1>8. CASE TerminalResized
  <2>1. UNCHANGED <<history, ui, layout, stack, coming>> /\ terminal' \in Area /\ Less
    BY <1>8, ResizedGood
  <2>2. UiInv' /\ StackGood(stack, coming)'  BY <1>1, <2>1 DEF UiInv
  <2>3. HistoryInv' /\ AreasInv' /\ PlanInv'
    BY <1>1, <2>1, HistoryStays, PlanStays DEF AreasInv
  <2> QED BY <2>2, <2>3 DEF IInv
<1>9. CASE Draw
  <2>1. /\ Drawn(stack', coming', ui', layout'.mode) /\ layout' \in Layouts
        /\ ui'.list.count = ui.list.count
    BY <1>9, DrawGood
  <2>2. UNCHANGED <<left, history, terminal>>  BY <1>9, DrawIs
  <2>3. UiInv' /\ StackGood(stack, coming)'  BY <2>1, DrawnIs
  <2>4. HistoryInv' /\ AreasInv' /\ PlanInv'
    BY <1>1, <2>1, <2>2, HistoryStays, PlanStays DEF AreasInv, Layouts
  <2> QED BY <2>3, <2>4 DEF IInv
<1> QED BY <1>2, <1>3, <1>4, <1>5, <1>6, <1>7, <1>8, <1>9 DEF Next, TaskStep, OtherStep

\* What a popup, the stack of popups, the focus and the list of the log must be for the three
\* properties to hold, on every screen that can be reached (ui_manager.rs, popup_base.rs).
THEOREM Invariance == Spec => []IInv
<1>1. Init => IInv  BY InitGood
<1>2. IInv /\ [Next]_vars => IInv'  BY StepGood
<1> QED BY <1>1, <1>2, PTL DEF Spec

\* The invariant says where the focus is.
LEMMA FocusIs ==
    ASSUME IInv
    PROVE  FocusTrue
<1>1. UiInv /\ StackGood(stack, coming)  BY DEF IInv
<1>2. /\ HoldersOf(ui) = IF ~ui.cell THEN {} ELSE IF ui.split = "menu" THEN {"menu"} ELSE {ui.element}
      /\ (ui.main <=> (ui.cell /\ ui.split = "main"))
      /\ (ui.main => ui.element \in VisibleIn(layout.mode))
      /\ (ui.selecting => ui.main /\ ui.element = "precision")
  BY <1>1 DEF UiInv, UiGood, UiFocused
<1>3. Holders = IF ~ui.cell THEN {} ELSE IF ui.split = "menu" THEN {"menu"} ELSE {ui.element}
  BY <1>2 DEF Holders, HoldersOf
<1>4. ui.main <=> (ui.cell /\ ui.split = "main")  BY <1>2
<1>5. ui.main => ui.element \in VisibleIn(layout.mode)  BY <1>2
<1>6. ui.selecting => ui.cell /\ ui.element = "precision"  BY <1>2
<1>7. stack # <<>> => ~ui.cell  BY <1>1 DEF UiInv
<1>8. \A i \in 1 .. Len(stack) : PopupFocusTrue(stack[i]) /\ (i < Len(stack) => ~stack[i].cell)
  BY <1>1, OnStack DEF PopupGood
<1> QED BY <1>3, <1>4, <1>5, <1>6, <1>7, <1>8 DEF FocusTrue

\* They are all different, those that come too: each is further up than those before it.
LEMMA KindsDiffer ==
    ASSUME NEW s, NEW c, StackGood(s, c)
    PROVE  IsInjective(KindsOn(s) \o c)
<1>1. PICK k, t : k = KindsOn(s) /\ t = k \o c  OBVIOUS
<1>2. PICK n, m : n = Len(s) /\ m = Len(c)  OBVIOUS
<1>3. s \in Seq(Every) /\ Ordered(s, c) /\ c \in Seq(Kinds) /\ m <= 1 /\ n \in Nat /\ m \in Nat
  BY <1>2 DEF StackGood, Ordered
<1>4. \A i \in 1 .. n : s[i].kind \in Kinds /\ k[i] = s[i].kind
  BY <1>1, <1>2, OnStack DEF PopupGood, KindsOn
<1>5. k \in Seq(Kinds) /\ Len(k) = n
  <2>1. k = [i \in 1 .. n |-> k[i]]  BY <1>1, <1>2 DEF KindsOn
  <2> QED BY <1>3, <1>4, <2>1, IsASeq, SMTT(30)
<1>6. /\ t \in Seq(Kinds) /\ Len(t) = n + m
      /\ \A i \in 1 .. n + m : t[i] = IF i <= n THEN k[i] ELSE c[i - n]
  BY <1>1, <1>2, <1>3, <1>5, ConcatProperties
<1>7. \A i, j \in 1 .. n + m : i < j => Under(t[i], t[j])
  <2> SUFFICES ASSUME NEW i \in 1 .. n + m, NEW j \in 1 .. n + m, i < j PROVE Under(t[i], t[j])
    OBVIOUS
  <2>1. i \in 1 .. n  BY <1>3
  <2>2. t[i] = s[i].kind  BY <1>3, <1>4, <1>6, <2>1
  <2>3. CASE j <= n
    <3>1. j \in 1 .. n  BY <1>3, <2>3
    <3>2. t[j] = s[j].kind  BY <1>3, <1>4, <1>6, <3>1
    <3> QED BY <1>2, <1>3, <2>1, <2>2, <3>1, <3>2 DEF Ordered
  <2>4. CASE ~(j <= n)
    <3>1. j - n \in 1 .. m  BY <1>3, <2>4
    <3>2. t[j] = c[j - n]  BY <1>6, <2>4
    <3>3. Under(s[i].kind, c[j - n])  BY <1>2, <1>3, <2>1, <3>1 DEF Ordered
    <3> QED BY <2>2, <3>2, <3>3
  <2> QED BY <2>3, <2>4
<1>8. \A i, j \in 1 .. n + m : t[i] = t[j] => i = j
  <2> SUFFICES ASSUME NEW i \in 1 .. n + m, NEW j \in 1 .. n + m, t[i] = t[j], i # j PROVE FALSE
    OBVIOUS
  <2>1. t[i] \in Kinds /\ t[j] = t[i]  BY <1>6
  <2>2. i < j \/ j < i  BY <1>3
  <2>3. Under(t[i], t[i])  BY <1>7, <2>1, <2>2
  <2> QED BY <2>1, <2>3, UnderIs
<1>9. DOMAIN t = 1 .. n + m  BY <1>6
<1>10. IsInjective(t)  BY <1>8, <1>9 DEF IsInjective
<1> QED BY <1>1, <1>10

\* A popup on the stack has it.
LEMMA FormIs ==
    ASSUME NEW s, NEW c, StackGood(s, c), NEW i \in 1 .. Len(s), NEW p, p = s[i]
    PROVE  FormTrue(p, i, Len(s), c)
<1>1. PopupForm(p)  BY OnStack DEF PopupGood
<1>2. Alone(p) => i = Len(s) /\ c = <<>>  BY StackWaits
<1>3. Out(p) => Alone(p)  BY DEF Alone
<1>4. Out(p) <=> p.task \in {"request", "farewell"}  BY DEF Out
<1>5. p.task = "request" => i = Len(s) /\ c = <<>> /\ ~p.closing
  BY <1>1, <1>2, <1>3, <1>4 DEF PopupForm
<1>6. /\ p.closable \/ p.closing \/ p.task \in {"request", "farewell"}
      /\ p.task \in {"request", "farewell"} => ~p.closable
      /\ p.shown \/ ~p.closable
  BY <1>1, <1>4 DEF PopupForm
<1> QED BY <1>5, <1>6 DEF FormTrue

\* The invariant says of the popups what FormsTrue does.
LEMMA FormsAre ==
    ASSUME IInv
    PROVE  FormsTrue
<1>1. StackGood(stack, coming)  BY DEF IInv
<1>2. IsInjective([i \in 1 .. Len(stack) |-> stack[i].kind] \o coming)
  BY <1>1, KindsDiffer DEF KindsOn
<1>3. \A i \in 1 .. Len(stack) : FormTrue(stack[i], i, Len(stack), coming)
  BY <1>1, FormIs
<1> QED BY <1>2, <1>3, Zenon DEF FormsTrue, FormTrue

\* And of their entries what EntryTrue does.
LEMMA EntriesAre ==
    ASSUME IInv
    PROVE  EntryTrue
<1> SUFFICES ASSUME NEW i \in 1 .. Len(stack), NEW e \in DOMAIN stack[i].entries
             PROVE  LET entry == stack[i].entries[e]
                    IN  /\ EntryCoherent(entry)
                        /\ entry.cursor # NoCursor => \A w \in 2 .. MaxChars : EntryVisible(entry, w)
  BY DEF EntryTrue
<1>1. PICK p : p = stack[i]  OBVIOUS
<1>2. PopupGood(p)  BY <1>1, OnStack DEF IInv
<1>3. DOMAIN p.entries = EntriesOf(p.kind) /\ e \in DOMAIN p.entries
  BY <1>1, <1>2 DEF PopupGood, PopupOf
<1>4. PICK entry : entry = p.entries[e]  OBVIOUS
<1>5. EntryGood(entry)  BY <1>2, <1>3, <1>4 DEF PopupGood
<1>6. EntryCoherent(entry)  BY <1>5 DEF EntryGood
<1>7. entry.cursor # NoCursor => \A w \in 2 .. MaxChars : EntryVisible(entry, w)
  BY <1>5, EntryIsVisible
<1> QED BY <1>1, <1>4, <1>6, <1>7

\* At most one element has the focus, the one that keys go to, whatever keys, popups, events, layouts
\* and sizes of the terminal come (FocusCell, VerticalSplit, MainView and the popups).
THEOREM OneHasTheFocus == Spec => []FocusTrue
  BY Invariance, FocusIs, PTL

\* A request that is out is that of the popup on top, the only one; whoever has none out can be closed
\* and has buttons; and no popup is there twice (ui_manager.rs background_process and the popups).
THEOREM FormsWork == Spec => []FormsTrue
  BY Invariance, FormsAre, PTL

\* The cursors of every text entry agree on where it is, in bytes and in characters, and all of the text
\* that fits is drawn (text_entry.rs), for characters of one to four bytes.
THEOREM EntriesAgree == Spec => []EntryTrue
  BY Invariance, EntriesAre, PTL

\* Where an event is once another has come: it is one further back, or it was dropped.
LEMMA EventMoves ==
    ASSUME NEW S, NEW old \in Seq(S), Len(old) <= MaxEvents, NEW e \in S,
           NEW h, h = Append(Roomy(old), e), NEW k \in Nat, k < Len(old),
           NEW l, l = SelectedAfter(k, Len(old))
    PROVE  \/ h[l + 1] = old[k + 1]
           \/ k = 0 /\ l = 0 /\ Len(old) = MaxEvents
<1>1. Len(old) \in Nat /\ MaxEvents \in Nat /\ k + 1 \in 1 .. Len(old)
  BY MainScreenAssumption
<1>2. CASE Len(old) < MaxEvents
  <2>1. h = Append(old, e) /\ l = k  BY <1>2 DEF Roomy, SelectedAfter
  <2> QED BY <1>1, <2>1, AppendProperties
<1>3. CASE ~(Len(old) < MaxEvents)
  <2>1. PICK r : r = Tail(old)  OBVIOUS
  <2>2. h = Append(r, e) /\ l = Minus(k, 1) /\ Len(old) = MaxEvents
    BY <1>1, <1>3, <2>1 DEF Roomy, SelectedAfter
  <2>3. CASE k = 0  BY <2>2, <2>3 DEF Minus
  <2>4. CASE k # 0
    <3>1. old # <<>> /\ l = k - 1 /\ l + 1 = k  BY <1>1, <2>2, <2>4 DEF Minus
    <3>2. r \in Seq(S) /\ Len(r) = Len(old) - 1 /\ \A i \in 1 .. Len(r) : r[i] = old[i + 1]
      BY <2>1, <3>1
    <3>3. k \in 1 .. Len(r)  BY <1>1, <2>4, <3>2
    <3>4. h[k] = r[k]  BY <2>2, <3>2, <3>3, AppendProperties
    <3> QED BY <3>1, <3>2, <3>3, <3>4
  <2> QED BY <2>3, <2>4
<1> QED BY <1>2, <1>3

\* An event that comes leaves the selection where SelectionFollows says.
LEMMA EventFollowed ==
    ASSUME IInv, LogEvent, ui.list.selected # NoIndex
    PROVE  \/ ui.list.selected' # NoIndex /\ history'[ui.list.selected' + 1] = history[ui.list.selected + 1]
           \/ ui.list.selected = 0 /\ ui.list.selected' = 0 /\ Len(history) = MaxEvents
<1>1. PlanInv /\ HistoryInv /\ UiTyped(ui)  BY DEF IInv, UiInv, UiGood
<1>2. left.lines \in Nat  BY <1>1 DEF PlanInv
<1>3. PICK kind \in EventKinds : history' = Append(Roomy(history), [id |-> left.lines, kind |-> kind])
  BY DEF LogEvent, Roomy
<1>4. PICK E, old, list, k :
         E = [id : Nat, kind : EventKinds] /\ old = history /\ list = ui.list /\ k = list.selected
  OBVIOUS
<1>5. PICK e \in E : e = [id |-> left.lines, kind |-> kind]  BY <1>2, <1>4
<1>6. PICK h, q, l : h = Append(Roomy(old), e) /\ q = Logged(list, old) /\ l = q.selected
  OBVIOUS
<1>7. /\ list \in ListsOf(list.cache) /\ SelectsItem(list) /\ list.count = Len(old)
      /\ old \in Seq(E) /\ Len(old) <= MaxEvents
  BY <1>1, <1>4 DEF UiTyped, UiOf, HistoryInv
<1>8. k # NoIndex /\ k \in Nat /\ k < Len(old)  BY <1>4, <1>7 DEF SelectsItem, ListsOf
<1>9. l = SelectedAfter(k, Len(old)) /\ l # NoIndex  BY <1>4, <1>6, <1>7, <1>8, LoggedIs
<1>10. \/ h[l + 1] = old[k + 1]
       \/ k = 0 /\ l = 0 /\ Len(old) = MaxEvents
  <2>1. old \in Seq(E)  BY <1>7
  <2>2. Len(old) <= MaxEvents  BY <1>7
  <2>3. k \in Nat  BY <1>8
  <2>4. k < Len(old)  BY <1>8
  <2>5. h = Append(Roomy(old), e)  BY <1>6
  <2>6. l = SelectedAfter(k, Len(old))  BY <1>9
  <2>7. e \in E  BY <1>5
  <2> QED BY <2>1, <2>2, <2>3, <2>4, <2>5, <2>6, <2>7, EventMoves, ZenonT(60)
<1>11. history' = h  BY <1>3, <1>4, <1>5, <1>6
<1>12. ui.list.selected' = l
  <2>1. ui' = UiList(ui, q)  BY <1>4, <1>6 DEF LogEvent, UiList
  <2>2. UiList(ui, q).list = q  BY <1>1 DEF UiList, UiTyped, UiOf
  <2> QED BY <1>6, <2>1, <2>2
<1> QED BY <1>4, <1>9, <1>10, <1>11, <1>12

\* An event that comes leaves the selection on the event it was on, whatever index that has then; only
\* if that is the one dropped does the selection pass to the next (log_block.rs new_stream_event).
THEOREM SelectionStaysOnItsEvent == Spec => SelectionFollows
<1>1. IInv /\ [Next]_vars =>
        [LET before == ui.list.selected
             after == ui.list.selected'
         IN  LogEvent /\ before # NoIndex =>
                 \/ after # NoIndex /\ history'[after + 1] = history[before + 1]
                 \/ before = 0 /\ after = 0 /\ Len(history) = MaxEvents]_vars
  BY EventFollowed
<1> QED BY <1>1, Invariance, PTL DEF Spec, SelectionFollows

--------------------------------------------------------------------------------
(* Items kept in a row. *)

\* Their indices.
LEMMA LineIndex ==
    ASSUME NEW h, NEW width, NEW i
    PROVE  LineAt(h, i, width).index = i
  BY DEF LineAt

\* It is in a row.
LEMMA RowPart ==
    ASSUME NEW h, NEW width, NEW b \in Nat, NEW n \in Nat, NEW lo \in Nat, NEW hi \in Nat,
           NEW s, InARow(s, h, width, b, n), NEW r, NEW c, NEW m, PartOf(r, s, b, n, lo, hi, c, m)
    PROVE  InARow(r, h, width, c, m)
<1>1. s \in Seq(LinesIn(h, width)) /\ Len(s) = n
      /\ \A i \in 1 .. n : s[i] = LineAt(h, b + i - 1, width)
  BY DEF InARow
<1>2. r = SubSeq(s, lo, hi) /\ 1 <= lo /\ lo <= hi + 1 /\ hi <= n /\ c = b + lo - 1 /\ m = hi - lo + 1
  BY DEF PartOf
<1>3. c \in Nat /\ m \in Nat  BY <1>2
<1>5. r \in Seq(LinesIn(h, width)) /\ Len(r) = m /\ \A i \in 1 .. m : r[i] = s[lo + i - 1]
  BY <1>1, <1>2
<1>6. \A i \in 1 .. m : r[i] = LineAt(h, c + i - 1, width)
  <2> TAKE i \in 1 .. m
  <2>1. lo + i - 1 \in 1 .. n /\ b + (lo + i - 1) - 1 = c + i - 1  BY <1>2, <1>3
  <2> QED BY <1>1, <1>5, <2>1
<1> QED BY <1>5, <1>6 DEF InARow

\* One more behind.
LEMMA RowAppend ==
    ASSUME NEW h, NEW width, NEW b \in Nat, NEW n \in Nat, NEW s, InARow(s, h, width, b, n),
           NEW e, NEW k, Plus(b, n, k), e = LineAt(h, k, width), NEW r, r = Append(s, e),
           NEW m, Plus(n, 1, m)
    PROVE  InARow(r, h, width, b, m)
<1>1. s \in Seq(LinesIn(h, width)) /\ Len(s) = n
      /\ \A i \in 1 .. n : s[i] = LineAt(h, b + i - 1, width)
  BY DEF InARow
<1>3. k = b + n /\ m = n + 1  BY DEF Plus
<1>2. e \in LinesIn(h, width)
  <2>1. k \in Nat  BY <1>3
  <2> QED BY <2>1 DEF LinesIn
<1>4. r \in Seq(LinesIn(h, width)) /\ Len(r) = m /\ r[m] = e /\ \A i \in 1 .. n : r[i] = s[i]
  BY <1>1, <1>2, <1>3
<1>5. \A i \in 1 .. m : r[i] = LineAt(h, b + i - 1, width)
  <2>0. m \in Nat  BY <1>3
  <2> TAKE i \in 1 .. m
  <2>1. CASE i = m
    <3>1. b + i - 1 = k  BY <1>3, <2>1
    <3> QED BY <1>4, <2>1, <3>1
  <2>2. CASE i # m
    <3>1. i \in 1 .. n  BY <1>3, <2>2
    <3> QED BY <1>1, <1>4, <3>1
  <2> QED BY <2>1, <2>2
<1> QED BY <1>4, <1>5 DEF InARow

\* And one more before.
LEMMA RowPrepend ==
    ASSUME NEW h, NEW width, NEW b \in Nat, NEW n \in Nat, NEW s, InARow(s, h, width, b, n),
           NEW e, NEW k \in Nat, Plus(k, 1, b), e = LineAt(h, k, width), NEW r, r = <<e>> \o s,
           NEW m, Plus(n, 1, m)
    PROVE  InARow(r, h, width, k, m)
<1>1. s \in Seq(LinesIn(h, width)) /\ Len(s) = n
      /\ \A i \in 1 .. n : s[i] = LineAt(h, b + i - 1, width)
  BY DEF InARow
<1>3. b = k + 1 /\ m = n + 1 /\ m \in Nat  BY DEF Plus
<1>2. e \in LinesIn(h, width)  BY DEF LinesIn
<1>4. /\ r \in Seq(LinesIn(h, width)) /\ Len(r) = m /\ r[1] = e
      /\ \A i \in 1 .. m : i # 1 => r[i] = s[i - 1]
  BY <1>1, <1>2, <1>3
<1>5. \A i \in 1 .. m : r[i] = LineAt(h, k + i - 1, width)
  <2> TAKE i \in 1 .. m
  <2>1. CASE i = 1
    <3>1. k + i - 1 = k  BY <2>1
    <3> QED BY <1>4, <2>1, <3>1
  <2>2. CASE i # 1
    <3>1. i - 1 \in 1 .. n /\ b + (i - 1) - 1 = k + i - 1  BY <1>3, <2>2
    <3>2. r[i] = s[i - 1]  BY <1>4, <2>2
    <3>3. s[i - 1] = LineAt(h, b + (i - 1) - 1, width)  BY <1>1, <3>1
    <3> QED BY <3>1, <3>2, <3>3
  <2> QED BY <2>1, <2>2
<1> QED BY <1>4, <1>5 DEF InARow

\* One item's.
LEMMA RowOfOne ==
    ASSUME NEW h, NEW width, NEW b \in Nat, NEW e, e = LineAt(h, b, width), NEW r, r = <<e>>
    PROVE  InARow(r, h, width, b, 1)
<1>1. e \in LinesIn(h, width)  BY DEF LinesIn
<1>2. r \in Seq(LinesIn(h, width)) /\ Len(r) = 1 /\ r[1] = e  BY <1>1
<1>3. \A i \in 1 .. 1 : r[i] = LineAt(h, b + i - 1, width)
  <2> TAKE i \in 1 .. 1
  <2>1. i = 1 /\ b + i - 1 = b  OBVIOUS
  <2> QED BY <1>2, <2>1
<1> QED BY <1>2, <1>3 DEF InARow

\* No item's.
LEMMA RowOfNone ==
    ASSUME NEW h, NEW width, NEW b \in Nat
    PROVE  InARow(<<>>, h, width, b, 0)
  BY DEF InARow

\* Items are the same in another history.
LEMMA RowElsewhere ==
    ASSUME NEW h, NEW g, NEW width, NEW b \in Nat, NEW c \in Nat, NEW n \in Nat,
           NEW s, InARow(s, h, width, b, n), NEW r, DOMAIN r = 1 .. n, r = [i \in 1 .. n |-> r[i]],
           \A i \in 1 .. n : r[i] = LineAt(g, c + i - 1, width)
    PROVE  InARow(r, g, width, c, n)
<1>1. \A i \in 1 .. n : r[i] \in LinesIn(g, width)
  <2> TAKE i \in 1 .. n
  <2>1. c + i - 1 \in Nat  OBVIOUS
  <2> QED BY <2>1 DEF LinesIn
<1>2. r \in [1 .. n -> LinesIn(g, width)]  BY <1>1
<1>3. r \in Seq(LinesIn(g, width)) /\ Len(r) = n  BY <1>2
<1> QED BY <1>3 DEF InARow

--------------------------------------------------------------------------------
(* Items kept while events come. *)

\* Items in a row are the same in a history that goes on.
LEMMA RowGoesOn ==
    ASSUME NEW h, NEW g, NEW width, NEW b \in Nat, NEW n \in Nat, NEW s, InARow(s, h, width, b, n),
           \A k \in b + 1 .. b + n : g[k] = h[k]
    PROVE  InARow(s, g, width, b, n)
<1>1. s \in Seq(LinesIn(h, width)) /\ Len(s) = n
      /\ \A i \in 1 .. n : s[i] = LineAt(h, b + i - 1, width)
  BY DEF InARow
<1>2. ASSUME NEW i \in 1 .. n
      PROVE  s[i] = LineAt(g, b + i - 1, width)
  <2>1. PICK k : k = b + i - 1  OBVIOUS
  <2>2. k + 1 \in b + 1 .. b + n  BY <2>1
  <2>3. g[k + 1] = h[k + 1]  BY <2>2
  <2>4. LineAt(g, k, width) = LineAt(h, k, width)  BY <2>3 DEF LineAt
  <2> QED BY <1>1, <2>1, <2>4
<1>3. DOMAIN s = 1 .. n /\ s = [i \in 1 .. n |-> s[i]]  BY <1>1
<1> QED BY <1>2, <1>3, RowElsewhere

\* Nothing is popped of items that are counted.
LEMMA AllCounted ==
    ASSUME NEW h, NEW width, NEW b \in Nat, NEW n \in Nat, NEW s, InARow(s, h, width, b, n),
           NEW m \in Nat, b + n <= m
    PROVE  StillCounted(s, m) = s
<1>1. s \in Seq(LinesIn(h, width)) /\ Len(s) = n
      /\ \A i \in 1 .. n : s[i] = LineAt(h, b + i - 1, width)
  BY DEF InARow
<1>2. \A i \in 1 .. n : s[i].index = b + i - 1  BY <1>1, LineIndex
<1>3. DOMAIN s = 1 .. n  BY <1>1
<1>4. {i \in DOMAIN s : s[i].index < m} = 1 .. n
  <2>1. ASSUME NEW i \in 1 .. n PROVE s[i].index < m  BY <1>2
  <2> QED BY <1>3, <2>1
<1>5. PICK T, x : T = {0} \cup (1 .. n) /\ x = Max(T)  OBVIOUS
<1>6. T \in SUBSET Nat /\ T # {} /\ (\A k \in T : k <= n) /\ n \in T  BY <1>5
<1>7. x \in T /\ \A k \in T : k <= x  BY <1>5, <1>6, MaxGreatest
<1>8. x = n  BY <1>6, <1>7
<1>9. StillCounted(s, m) = SubSeq(s, 1, x)  BY <1>4, <1>5 DEF StillCounted
<1>10. PICK r : r = SubSeq(s, 1, n)  OBVIOUS
<1>11. r \in Seq(LinesIn(h, width)) /\ Len(r) = n /\ \A i \in 1 .. n : r[i] = s[i]
  BY <1>1, <1>10
<1>12. r = s  BY <1>1, <1>11, SeqEqual
<1> QED BY <1>8, <1>9, <1>10, <1>12

\* Every item after the first one, with an index one less.
LEMMA ItemsMoveDown ==
    ASSUME NEW S, NEW h \in Seq(S), NEW width, NEW b \in Nat, b # 0, NEW n \in Nat, b + n <= Len(h),
           NEW s, InARow(s, h, width, b, n),
           NEW r, r = MovedDown(s), NEW c, c = b - 1
    PROVE  InARow(r, Tail(h), width, c, n)
<1>1. s \in Seq(LinesIn(h, width)) /\ Len(s) = n
      /\ \A i \in 1 .. n : s[i] = LineAt(h, b + i - 1, width)
  BY DEF InARow
<1>2. PICK g : g = Tail(h)  OBVIOUS
<1>3. \A k \in 1 .. Len(h) - 1 : g[k] = h[k + 1]
  <2>1. CASE h = <<>>  BY <2>1
  <2>2. CASE h # <<>>  BY <1>2, <2>2
  <2> QED BY <2>1, <2>2
<1>4. ASSUME NEW i \in 1 .. n
      PROVE  r[i] = LineAt(g, c + i - 1, width)
  <2>1. PICK k, j, e : k = b + i - 1 /\ j = c + i - 1 /\ e = s[i]  OBVIOUS
  <2>2. k \in Nat /\ k > 0 /\ j = k - 1 /\ k \in 1 .. Len(h) - 1  BY <2>1
  <2>3. e = LineAt(h, k, width)  BY <1>1, <2>1
  <2>4. e.index = k  BY <2>3, LineIndex
  <2>5. r[i] = [e EXCEPT !.index = k - 1]  BY <1>1, <2>1, <2>2, <2>4 DEF MovedDown
  <2>6. g[j + 1] = h[k + 1]
    <3>1. j + 1 = k  BY <2>2
    <3> QED BY <1>3, <2>2, <3>1
  <2>7. [e EXCEPT !.index = k - 1] = LineAt(g, j, width)
    <3>1. PICK o : o = h[k + 1]  OBVIOUS
    <3>2. PICK x, y : x = o.id /\ y = LinesAt(o.kind, width)  OBVIOUS
    <3>3. e = [index |-> k, made |-> x, lines |-> y]  BY <2>3, <3>1, <3>2 DEF LineAt
    <3>4. LineAt(g, j, width) = [index |-> j, made |-> x, lines |-> y]
      BY <2>6, <3>1, <3>2 DEF LineAt
    <3>5. [e EXCEPT !.index = k - 1] = [index |-> k - 1, made |-> x, lines |-> y]  BY <3>3
    <3> QED BY <2>2, <3>4, <3>5
  <2> QED BY <2>1, <2>5, <2>7
<1>5. DOMAIN r = 1 .. n /\ r = [i \in 1 .. n |-> r[i]]  BY <1>1 DEF MovedDown
<1>6. c \in Nat  OBVIOUS
<1> QED BY <1>2, <1>4, <1>5, <1>6, RowElsewhere

\* What is kept when the first item goes is what comes after it.
LEMMA RowWithoutFirst ==
    ASSUME NEW S, NEW h \in Seq(S), NEW width, NEW s, KeptIn(s, h, width), NEW r, r = WithoutFirst(s),
           NEW l, l = Len(h) - 1, l \in Nat
    PROVE  \E b \in Nat : \E n \in Nat : b + n <= l /\ InARow(r, Tail(h), width, b, n)
<1>1. PICK b \in Nat, n \in Nat : b + n <= Len(h) /\ InARow(s, h, width, b, n)
  BY DEF KeptIn
<1>2. s \in Seq(LinesIn(h, width)) /\ Len(s) = n
      /\ \A i \in 1 .. n : s[i] = LineAt(h, b + i - 1, width)
  BY <1>1 DEF InARow
<1>3. \A i \in 1 .. n : s[i].index = b + i - 1  BY <1>2, LineIndex
<1>4. PICK at : at = {i \in DOMAIN s : s[i].index = 0}  OBVIOUS
<1>5. PICK kept : kept = IF at = {} THEN s ELSE RemoveAt(s, Min(at))  OBVIOUS
<1>6. r = MovedDown(kept)  BY <1>4, <1>5 DEF WithoutFirst
<1>7. DOMAIN s = 1 .. n  BY <1>2
<1>8. CASE n = 0
  <2>1. at = {}  BY <1>4, <1>7, <1>8
  <2>2. Len(kept) = 0  BY <1>2, <1>5, <1>8, <2>1
  <2>3. r = <<>>  BY <1>6, <2>2 DEF MovedDown
  <2>4. InARow(r, Tail(h), width, 0, 0)  BY <2>3, RowOfNone
  <2> QED BY <2>4
<1>9. CASE n # 0 /\ b # 0
  <2>1. at = {}  BY <1>3, <1>4, <1>7, <1>9
  <2>2. kept = s  BY <1>5, <2>1
  <2>3. PICK c : c = b - 1  OBVIOUS
  <2>4. c \in Nat /\ c + n <= l  BY <1>1, <1>9, <2>3
  <2>5. InARow(r, Tail(h), width, c, n)  BY <1>1, <1>6, <1>9, <2>2, <2>3, ItemsMoveDown
  <2> QED BY <2>4, <2>5
<1>10. CASE n # 0 /\ b = 0
  <2>1. at = {1}  BY <1>3, <1>4, <1>7, <1>10
  <2>2. Min(at) = 1
    <3>1. PICK T : T = {1}  OBVIOUS
    <3>2. T \in SUBSET Nat /\ T # {} /\ \A k \in T : k = 1  BY <3>1
    <3>3. Min(T) \in T  BY <3>2, MinLeast
    <3> QED BY <2>1, <3>1, <3>2, <3>3
  <2>3. kept = SubSeq(s, 1, 0) \o SubSeq(s, 2, n)  BY <1>2, <1>5, <2>1, <2>2 DEF RemoveAt
  <2>4. PICK t : t = SubSeq(s, 2, n)  OBVIOUS
  <2>5. kept = t  BY <1>2, <2>3, <2>4
  <2>6. PICK m : m = n - 1  OBVIOUS
  <2>7. PICK c, d, lo : c = 1 /\ d = 0 /\ lo = 2  OBVIOUS
  <2>8. m \in Nat /\ lo \in Nat /\ PartOf(t, s, b, n, lo, n, c, m)
    BY <1>10, <2>4, <2>6, <2>7 DEF PartOf
  <2>9. InARow(t, h, width, c, m)  BY <1>1, <2>8, RowPart
  <2>10. c + m <= Len(h) /\ c # 0 /\ c \in Nat /\ d = c - 1 /\ d \in Nat /\ d + m <= l
    BY <1>1, <1>10, <2>6, <2>7
  <2>11. InARow(r, Tail(h), width, d, m)
    <3>1. InARow(t, h, width, c, m)  BY <2>9
    <3>2. r = MovedDown(t)  BY <1>6, <2>5
    <3> QED BY <2>8, <2>10, <3>1, <3>2, ItemsMoveDown
  <2> QED BY <2>8, <2>10, <2>11
<1> QED BY <1>8, <1>9, <1>10

\* What is kept is right when an event has come.
LEMMA LoggedKept ==
    ASSUME NEW S, NEW h \in Seq(S), Len(h) <= MaxEvents, NEW e \in S, NEW width, NEW s,
           KeptIn(s, h, width), NEW g, g = Append(Roomy(h), e), NEW r, r = LoggedCache(s, Len(h))
    PROVE  KeptIn(r, g, width)
<1>1. Len(h) \in Nat /\ MaxEvents \in Nat /\ MaxEvents # 0  BY MainScreenAssumption
<1>2. CASE Len(h) < MaxEvents
  <2>1. PICK b \in Nat, n \in Nat : b + n <= Len(h) /\ InARow(s, h, width, b, n)
    BY DEF KeptIn
  <2>2. g = Append(h, e)  BY <1>2 DEF Roomy
  <2>3. Len(g) = Len(h) + 1 /\ \A k \in b + 1 .. b + n : g[k] = h[k]  BY <1>1, <2>1, <2>2
  <2>4. InARow(s, g, width, b, n)  BY <2>1, <2>3, RowGoesOn
  <2>5. PICK m : m = Len(h) + 1  OBVIOUS
  <2>6. m \in Nat /\ b + n <= m  BY <1>1, <2>1, <2>5
  <2>7. StillCounted(s, m) = s  BY <2>1, <2>6, AllCounted
  <2>8. r = s  BY <1>2, <2>5, <2>7 DEF LoggedCache
  <2> QED BY <2>3, <2>4, <2>5, <2>6, <2>8 DEF KeptIn
<1>3. CASE ~(Len(h) < MaxEvents)
  <2>1. PICK l, o, q : l = Len(h) - 1 /\ o = Tail(h) /\ q = WithoutFirst(s)  OBVIOUS
  <2>2. Len(h) = MaxEvents
    <3>1. PICK x : x = Len(h)  OBVIOUS
    <3>2. x \in Nat /\ x <= MaxEvents /\ ~(x < MaxEvents)  BY <1>1, <1>3, <3>1
    <3> QED BY <1>1, <3>1, <3>2
  <2>3. l \in Nat /\ l + 1 = MaxEvents /\ h # <<>>  BY <1>1, <2>1, <2>2
  <2>4. PICK b \in Nat, n \in Nat : b + n <= l /\ InARow(q, o, width, b, n)
    BY <2>1, <2>3, RowWithoutFirst
  <2>5. o \in Seq(S) /\ Len(o) = l  BY <2>1, <2>3
  <2>6. g = Append(o, e)  BY <1>3, <2>1 DEF Roomy
  <2>7. Len(g) = MaxEvents /\ \A k \in b + 1 .. b + n : g[k] = o[k]
    BY <2>3, <2>4, <2>5, <2>6
  <2>8. InARow(q, g, width, b, n)  BY <2>4, <2>7, RowGoesOn
  <2>9. b + n <= MaxEvents  BY <1>1, <2>3, <2>4
  <2>10. StillCounted(q, MaxEvents) = q  BY <1>1, <2>4, <2>9, AllCounted
  <2>11. r = q  BY <1>3, <2>1, <2>10 DEF LoggedCache
  <2> QED BY <2>7, <2>8, <2>9, <2>11 DEF KeptIn
<1> QED BY <1>2, <1>3

--------------------------------------------------------------------------------
(* The search for the items to draw. *)

\* It is the only one.
LEMMA SearchFields ==
    ASSUME NEW cache, NEW lo, NEW hi, NEW low, NEW high, NEW below, NEW above,
           NEW r, r \in Searches(cache, lo, hi, low, high, below, above)
    PROVE  r = Search(cache, lo, hi, low, high, below, above)
<1>1. /\ r = [cache |-> r.cache, lo |-> r.lo, hi |-> r.hi, low |-> r.low, high |-> r.high,
              below |-> r.below, above |-> r.above]
      /\ r.cache = cache /\ r.lo = lo /\ r.hi = hi /\ r.low = low /\ r.high = high
      /\ r.below = below /\ r.above = above
  BY DEF Searches
<1> QED BY <1>1 DEF Search

\* What it takes for that.
LEMMA SearchIs ==
    ASSUME NEW h, NEW width, NEW b \in Nat, NEW n \in Nat, b + n <= Len(h),
           NEW cache, InARow(cache, h, width, b, n), NEW lo \in Nat, NEW hi \in Nat, NEW low \in Nat,
           NEW high \in Nat, Spans(lo, hi, low, high, b, n), NEW below, NEW above,
           NEW s, s = Search(cache, lo, hi, low, high, below, above)
    PROVE  Searching(s, h, width)
<1>1. /\ s.cache = cache /\ s.lo = lo /\ s.hi = hi /\ s.low = low /\ s.high = high
      /\ s.below = below /\ s.above = above
  BY DEF Search
<1> QED BY <1>1 DEF Searching

\* It begins with the item in the center.
LEMMA CenteredIs ==
    ASSUME NEW S, NEW h \in Seq(S), NEW width, NEW list, KeptIn(list.cache, h, width),
           NEW center \in Nat, center < Len(h), NEW height, NEW made, made = MadeOf(h, width),
           NEW s, s = Centered(list, center, height, made)
    PROVE  Searching(s, h, width)
<1>1. PICK c, found : c = list.cache /\ found = {i \in 1 .. Len(c) : c[i].index = center}
  OBVIOUS
<1>2. PICK b \in Nat, n \in Nat : b + n <= Len(h) /\ InARow(c, h, width, b, n)
  BY <1>1 DEF KeptIn
<1>3. c \in Seq(LinesIn(h, width)) /\ Len(c) = n
      /\ \A i \in 1 .. n : c[i] = LineAt(h, b + i - 1, width)
  BY <1>2 DEF InARow
<1>4. PICK cache, at, next :
        /\ cache = IF found = {} THEN <<made[center]>> ELSE c
        /\ at = IF found = {} THEN 1 ELSE Min(found)
        /\ next = center + 1
  OBVIOUS
<1>5. PICK more : more = Minus(height, cache[at].lines)  OBVIOUS
<1>6. PICK below, above : below = more \div 2 /\ above = (more + 1) \div 2  OBVIOUS
<1>7. s = Search(cache, at, at, center, next, below, above)
  BY <1>1, <1>4, <1>5, <1>6 DEF Centered, Search
<1>8. next \in Nat  BY <1>4
<1>9. CASE found = {}
  <2>1. PICK e : e = made[center]  OBVIOUS
  <2>2. e = LineAt(h, center, width) /\ cache = <<e>> /\ at = 1
    BY <1>4, <1>9, <2>1 DEF MadeOf
  <2>3. PICK m : m = 1  OBVIOUS
  <2>4. InARow(cache, h, width, center, m)  BY <2>2, <2>3, RowOfOne
  <2>5. m \in Nat /\ at \in Nat /\ center + m <= Len(h) /\ Spans(at, at, center, next, center, m)
    BY <1>4, <2>2, <2>3 DEF Spans
  <2> QED BY <1>7, <1>8, <2>4, <2>5, SearchIs
<1>10. CASE found # {}
  <2>1. found \in SUBSET Nat  BY <1>1, <1>3
  <2>2. at \in found /\ cache = c  BY <1>4, <1>10, <2>1, MinLeast
  <2>3. at \in 1 .. n /\ c[at].index = center  BY <1>1, <1>3, <2>2
  <2>4. c[at].index = b + at - 1  BY <1>3, <2>3, LineIndex
  <2>5. at \in Nat /\ Spans(at, at, center, next, b, n)  BY <1>4, <2>3, <2>4 DEF Spans
  <2> QED BY <1>2, <1>7, <1>8, <2>2, <2>5, SearchIs
<1> QED BY <1>9, <1>10

\* It goes on to the next items.
LEMMA WidenedIs ==
    ASSUME NEW S, NEW h \in Seq(S), NEW width, NEW made, made = MadeOf(h, width),
           NEW s, Searching(s, h, width), NEW r, r = Widened(s, Len(h), made)
    PROVE  Searching(r, h, width)
<1>1. PICK cache, lo, hi, low, high, below, above :
         /\ cache = s.cache /\ lo = s.lo /\ hi = s.hi /\ low = s.low /\ high = s.high
         /\ below = s.below /\ above = s.above
  OBVIOUS
<1>2. s = Search(cache, lo, hi, low, high, below, above)
      /\ lo \in Nat /\ hi \in Nat /\ low \in Nat /\ high \in Nat
  BY <1>1 DEF Searching
<1>3. PICK b \in Nat, n \in Nat :
         b + n <= Len(h) /\ InARow(cache, h, width, b, n) /\ Spans(lo, hi, low, high, b, n)
  BY <1>1 DEF Searching
<1>4. 1 <= lo /\ lo <= hi /\ hi <= n /\ low = b + lo - 1 /\ high = b + hi /\ Len(cache) = n
  BY <1>3 DEF Spans, InARow
<1>5. PICK beyond, before, sum, lower, upper, first :
         /\ beyond = made[high] /\ before = made[low - 1] /\ lower = low - 1 /\ upper = high + 1
         /\ sum = hi + 1 /\ first = lo - 1
  OBVIOUS
<1>6. PICK x, y, z, v, u, w :
         /\ x = above + below /\ y = below - before.lines /\ z = below - cache[lo - 1].lines
         /\ v = below + above /\ u = above - beyond.lines /\ w = above - cache[hi + 1].lines
  OBVIOUS
<1>7. \/ r = s
      \/ r = [s EXCEPT !.above = x, !.below = 0]
      \/ low # 0 /\ lo = 1
         /\ r = [s EXCEPT !.low = lower, !.cache = <<before>> \o cache, !.hi = sum, !.below = y]
      \/ low # 0 /\ lo # 1 /\ r = [s EXCEPT !.low = lower, !.lo = first, !.below = z]
      \/ r = [s EXCEPT !.below = v, !.above = 0]
      \/ high # Len(h) /\ hi = Len(cache)
         /\ r = [s EXCEPT !.high = upper, !.cache = Append(cache, beyond), !.hi = sum, !.above = u]
      \/ high # Len(h) /\ hi # Len(cache) /\ r = [s EXCEPT !.high = upper, !.hi = sum, !.above = w]
  BY <1>1, <1>5, <1>6 DEF Widened
<1>8. \/ r = s
      \/ r = Search(cache, lo, hi, low, high, 0, x)
      \/ low # 0 /\ lo = 1 /\ r = Search(<<before>> \o cache, lo, sum, lower, high, y, above)
      \/ low # 0 /\ lo # 1 /\ r = Search(cache, first, hi, lower, high, z, above)
      \/ r = Search(cache, lo, hi, low, high, v, 0)
      \/ high # Len(h) /\ hi = n /\ r = Search(Append(cache, beyond), lo, sum, low, upper, below, u)
      \/ high # Len(h) /\ hi # n /\ r = Search(cache, lo, sum, low, upper, below, w)
  <2>0. s \in Searches(cache, lo, hi, low, high, below, above)
    BY <1>2 DEF Search, Searches
  <2>1. ASSUME NEW p, NEW q
        PROVE  [s EXCEPT !.above = p, !.below = q] = Search(cache, lo, hi, low, high, q, p)
    <3>1. [s EXCEPT !.above = p, !.below = q] \in Searches(cache, lo, hi, low, high, q, p)
      BY <2>0 DEF Searches
    <3> QED BY <3>1, SearchFields
  <2>2. ASSUME NEW p, NEW q, NEW o, NEW g
        PROVE  [s EXCEPT !.low = p, !.cache = q, !.hi = o, !.below = g] = Search(q, lo, o, p, high, g, above)
    <3>1. [s EXCEPT !.low = p, !.cache = q, !.hi = o, !.below = g] \in Searches(q, lo, o, p, high, g, above)
      BY <2>0 DEF Searches
    <3> QED BY <3>1, SearchFields
  <2>3. ASSUME NEW p, NEW q, NEW o
        PROVE  [s EXCEPT !.low = p, !.lo = q, !.below = o] = Search(cache, q, hi, p, high, o, above)
    <3>1. [s EXCEPT !.low = p, !.lo = q, !.below = o] \in Searches(cache, q, hi, p, high, o, above)
      BY <2>0 DEF Searches
    <3> QED BY <3>1, SearchFields
  <2>6. ASSUME NEW p, NEW q
        PROVE  [s EXCEPT !.below = p, !.above = q] = Search(cache, lo, hi, low, high, p, q)
    <3>1. [s EXCEPT !.below = p, !.above = q] \in Searches(cache, lo, hi, low, high, p, q)
      BY <2>0 DEF Searches
    <3> QED BY <3>1, SearchFields
  <2>7. CASE r = s  BY <2>7
  <2>8. CASE r = [s EXCEPT !.above = x, !.below = 0]  BY <2>1, <2>8
  <2>9. CASE low # 0 /\ lo = 1
             /\ r = [s EXCEPT !.low = lower, !.cache = <<before>> \o cache, !.hi = sum, !.below = y]
    <3>1. PICK q : q = <<before>> \o cache  OBVIOUS
    <3>2. r = [s EXCEPT !.low = lower, !.cache = q, !.hi = sum, !.below = y]
      BY <2>9, <3>1
    <3>3. r = Search(q, lo, sum, lower, high, y, above)  BY <2>2, <3>2
    <3> QED BY <2>9, <3>1, <3>3
  <2>10. CASE low # 0 /\ lo # 1 /\ r = [s EXCEPT !.low = lower, !.lo = first, !.below = z]
    BY <2>3, <2>10
  <2>11. CASE r = [s EXCEPT !.below = v, !.above = 0]  BY <2>6, <2>11
  <2>12. CASE high # Len(h) /\ hi = Len(cache)
              /\ r = [s EXCEPT !.high = upper, !.cache = Append(cache, beyond), !.hi = sum, !.above = u]
    <3>1. PICK q : q = Append(cache, beyond)  OBVIOUS
    <3>2. r = [s EXCEPT !.high = upper, !.cache = q, !.hi = sum, !.above = u]
      BY <2>12, <3>1
    <3>3. r \in Searches(q, lo, sum, low, upper, below, u)  BY <2>0, <3>2 DEF Searches
    <3>5. r = Search(q, lo, sum, low, upper, below, u)  BY <3>3, SearchFields
    <3>4. hi = n  BY <1>4, <2>12
    <3> QED BY <2>12, <3>1, <3>4, <3>5
  <2>13. CASE high # Len(h) /\ hi # Len(cache)
              /\ r = [s EXCEPT !.high = upper, !.hi = sum, !.above = w]
    <3>0. r \in Searches(cache, lo, sum, low, upper, below, w)
      BY <2>0, <2>13 DEF Searches
    <3>1. r = Search(cache, lo, sum, low, upper, below, w)  BY <3>0, SearchFields
    <3>2. hi # n  BY <1>4, <2>13
    <3> QED BY <2>13, <3>1, <3>2
  <2> QED BY <1>7, <2>7, <2>8, <2>9, <2>10, <2>11, <2>12, <2>13
<1>9. CASE r = s  BY <1>9
<1>10. CASE r = Search(cache, lo, hi, low, high, 0, x) \/ r = Search(cache, lo, hi, low, high, v, 0)
  BY <1>2, <1>3, <1>10, SearchIs
<1>11. CASE low # 0 /\ lo = 1 /\ r = Search(<<before>> \o cache, lo, sum, lower, high, y, above)
  <2>1. PICK c, m : c = <<before>> \o cache /\ m = n + 1  OBVIOUS
  <2>2. /\ lower \in Nat /\ lower < Len(h) /\ m \in Nat /\ sum \in Nat /\ lower + m <= Len(h)
        /\ Plus(lower, 1, b) /\ Plus(n, 1, m) /\ Spans(lo, sum, lower, high, lower, m)
    BY <1>2, <1>3, <1>4, <1>5, <1>11, <2>1 DEF Plus, Spans
  <2>3. before = LineAt(h, lower, width)  BY <1>5, <2>2 DEF MadeOf
  <2>4. InARow(c, h, width, lower, m)  BY <1>3, <2>1, <2>2, <2>3, RowPrepend
  <2>5. r = Search(c, lo, sum, lower, high, y, above)  BY <1>11, <2>1
  <2> QED BY <1>2, <2>2, <2>4, <2>5, SearchIs
<1>12. CASE low # 0 /\ lo # 1 /\ r = Search(cache, first, hi, lower, high, z, above)
  <2>1. lower \in Nat /\ first \in Nat /\ Spans(first, hi, lower, high, b, n)
    BY <1>2, <1>3, <1>4, <1>5, <1>12 DEF Spans
  <2> QED BY <1>2, <1>3, <1>12, <2>1, SearchIs
<1>13. CASE high # Len(h) /\ hi = n /\ r = Search(Append(cache, beyond), lo, sum, low, upper, below, u)
  <2>1. PICK c, m : c = Append(cache, beyond) /\ m = n + 1  OBVIOUS
  <2>2. /\ high < Len(h) /\ m \in Nat /\ sum \in Nat /\ upper \in Nat /\ b + m <= Len(h)
        /\ Plus(b, n, high) /\ Plus(n, 1, m) /\ Spans(lo, sum, low, upper, b, m)
    BY <1>2, <1>3, <1>4, <1>5, <1>13, <2>1 DEF Plus, Spans
  <2>3. beyond = LineAt(h, high, width)  BY <1>2, <1>5, <2>2 DEF MadeOf
  <2>4. InARow(c, h, width, b, m)  BY <1>3, <2>1, <2>2, <2>3, RowAppend
  <2>5. r = Search(c, lo, sum, low, upper, below, u)  BY <1>13, <2>1
  <2> QED BY <1>2, <2>2, <2>4, <2>5, SearchIs
<1>14. CASE high # Len(h) /\ hi # n /\ r = Search(cache, lo, sum, low, upper, below, w)
  <2>1. sum \in Nat /\ upper \in Nat /\ Spans(lo, sum, low, upper, b, n)
    BY <1>2, <1>3, <1>4, <1>5, <1>14 DEF Spans
  <2> QED BY <1>2, <1>3, <1>14, <2>1, SearchIs
<1> QED BY <1>8, <1>9, <1>10, <1>11, <1>12, <1>13, <1>14

\* There are such, as many as are wanted.
LEMMA TurnsExist ==
    ASSUME NEW list, NEW center, NEW height, NEW made, NEW N \in Nat
    PROVE  \E f : TurnsOf(list, center, height, made, N, f)
<1> DEFINE T == {n \in Nat : \E f : TurnsOf(list, center, height, made, n, f)}
<1>1. 0 \in T
  <2>1. PICK f : f = [n \in 0 .. 0 |-> Centered(list, center, height, made)]  OBVIOUS
  <2>2. f = [n \in 0 .. 0 |-> IF n = 0 THEN Centered(list, center, height, made)
                              ELSE Widened(f[n - 1], list.count, made)]
    BY <2>1
  <2> QED BY <2>2 DEF TurnsOf
<1>2. ASSUME NEW n \in T PROVE n + 1 \in T
  <2>1. PICK f : TurnsOf(list, center, height, made, n, f)  OBVIOUS
  <2>2. PICK x, y : x = Centered(list, center, height, made) /\ y = Widened(f[n], list.count, made)
    OBVIOUS
  <2>3. PICK g : g = [k \in 0 .. n + 1 |-> IF k = n + 1 THEN y ELSE f[k]]  OBVIOUS
  <2>4. f = [k \in 0 .. n |-> IF k = 0 THEN x ELSE Widened(f[k - 1], list.count, made)]
    BY <2>1, <2>2 DEF TurnsOf
  <2>5. n \in Nat /\ n + 1 \in Nat  OBVIOUS
  <2>6. ASSUME NEW k \in 0 .. n + 1
        PROVE  g[k] = IF k = 0 THEN x ELSE Widened(g[k - 1], list.count, made)
    <3>1. CASE k = n + 1
      <4>1. g[k] = y /\ k # 0 /\ k - 1 = n /\ n \in 0 .. n + 1 /\ n # n + 1
        BY <2>3, <2>5, <3>1
      <4>2. g[n] = f[n]  BY <2>3, <2>5, <4>1
      <4> QED BY <2>2, <4>1, <4>2
    <3>2. CASE k # n + 1
      <4>1. k \in 0 .. n /\ g[k] = f[k]  BY <2>3, <2>5, <3>2
      <4>2. CASE k = 0  BY <2>4, <4>1, <4>2
      <4>3. CASE k # 0
        <5>1. PICK j : j = k - 1  OBVIOUS
        <5>2. j \in 0 .. n + 1 /\ j # n + 1  BY <2>5, <4>1, <4>3, <5>1
        <5>3. g[j] = f[j]  BY <2>3, <5>2
        <5> QED BY <2>4, <4>1, <4>3, <5>1, <5>3
      <4> QED BY <4>2, <4>3
    <3> QED BY <3>1, <3>2
  <2>7. g = [k \in 0 .. n + 1 |-> IF k = 0 THEN x ELSE Widened(g[k - 1], list.count, made)]
    BY <2>3, <2>6
  <2> QED BY <2>2, <2>5, <2>7 DEF TurnsOf
<1> HIDE DEF T
<1>3. T \in SUBSET Nat  BY DEF T
<1>4. T = Nat  BY <1>1, <1>2, <1>3, NatInduct
<1> QED BY <1>4 DEF T

\* When the loop ends, as when it begins.
LEMMA WidestIs ==
    ASSUME NEW S, NEW h \in Seq(S), NEW width, NEW list, KeptIn(list.cache, h, width),
           list.count = Len(h), NEW center \in Nat, center < Len(h), NEW height,
           NEW made, made = MadeOf(h, width), NEW s, s = Widest(list, center, height, made)
    PROVE  Searching(s, h, width)
<1>1. PICK N : N = list.count + 2  OBVIOUS
<1>2. N \in Nat  BY <1>1
<1>3. PICK f : f = CHOOSE g : TurnsOf(list, center, height, made, N, g)  OBVIOUS
<1>4. TurnsOf(list, center, height, made, N, f)  BY <1>2, <1>3, TurnsExist
<1>5. s = f[N]  BY <1>1, <1>3 DEF Widest, TurnsOf
<1> DEFINE T == {n \in Nat : n \in 0 .. N => Searching(f[n], h, width)}
<1>6. 0 \in T
  <2>1. f[0] = Centered(list, center, height, made)  BY <1>2, <1>4 DEF TurnsOf
  <2>2. Searching(f[0], h, width)  BY <2>1, CenteredIs
  <2> QED BY <2>2
<1>7. ASSUME NEW n \in T PROVE n + 1 \in T
  <2>1. CASE n + 1 \in 0 .. N
    <3>1. n \in 0 .. N /\ n + 1 # 0 /\ (n + 1) - 1 = n  BY <1>2, <2>1
    <3>2. PICK k : k = n + 1  OBVIOUS
    <3>3. f[k] = Widened(f[k - 1], list.count, made)
      BY <1>4, <2>1, <3>1, <3>2 DEF TurnsOf
    <3>4. k - 1 = n  BY <3>1, <3>2
    <3>5. f[k] = Widened(f[n], Len(h), made)  BY <3>3, <3>4
    <3>6. Searching(f[n], h, width)  BY <3>1
    <3>7. Searching(f[k], h, width)  BY <3>5, <3>6, WidenedIs
    <3> QED BY <3>2, <3>7
  <2>2. CASE n + 1 \notin 0 .. N  BY <2>2
  <2> QED BY <2>1, <2>2
<1> HIDE DEF T
<1>8. T \in SUBSET Nat  BY DEF T
<1>9. T = Nat  BY <1>6, <1>7, <1>8, NatInduct
<1>10. N \in T  BY <1>2, <1>9
<1>11. Searching(f[N], h, width)  BY <1>2, <1>10 DEF T
<1> QED BY <1>5, <1>11

\* The item in the center is one, if there is any.
LEMMA CenterIs ==
    ASSUME NEW c, NEW list \in ListsOf(c), SelectsItem(list), list.count # 0
    PROVE  CenterIndex(list) \in Nat /\ CenterIndex(list) < list.count
<1>1. list.count \in Nat /\ list.selected \in Nat \cup {NoIndex} /\ SelectLast
  BY MainScreenAssumption DEF ListsOf
<1>2. CASE list.selected # NoIndex
  <2>1. CenterIndex(list) = list.selected  BY <1>2 DEF CenterIndex
  <2> QED BY <1>1, <1>2, <2>1 DEF SelectsItem
<1>3. CASE list.selected = NoIndex
  <2>1. CenterIndex(list) = StartIndex(list)  BY <1>3 DEF CenterIndex
  <2>2. StartIndex(list) = list.count - 1  BY <1>1 DEF StartIndex
  <2> QED BY <1>1, <2>1, <2>2
<1> QED BY <1>2, <1>3

\* What a render keeps is right.
LEMMA RenderedKept ==
    ASSUME NEW S, NEW h \in Seq(S), NEW c, NEW list \in ListsOf(c), SelectsItem(list),
           list.count = Len(h), NEW width, KeptIn(list.cache, h, width),
           NEW made, made = MadeOf(h, width), NEW d, d = ListRendered(list, made).cache
    PROVE  KeptIn(d, h, width)
<1>1. PICK center, height : center = CenterIndex(list) /\ height = Minus(list.height, 2)
  OBVIOUS
<1>2. CASE list.count = 0 \/ height = 0
  <2>1. d = list.cache  BY <1>1, <1>2 DEF ListRendered, Processed
  <2> QED BY <2>1
<1>3. CASE ~(list.count = 0 \/ height = 0)
  <2>1. PICK s : s = Widest(list, center, height, made)  OBVIOUS
  <2>2. d = SubSeq(s.cache, s.lo, s.hi)  BY <1>1, <1>3, <2>1 DEF ListRendered, Processed
  <2>3. center \in Nat /\ center < Len(h)  BY <1>1, <1>3, CenterIs
  <2>4. Searching(s, h, width)  BY <2>1, <2>3, WidestIs
  <2>5. PICK cache, lo, hi, low, high :
           cache = s.cache /\ lo = s.lo /\ hi = s.hi /\ low = s.low /\ high = s.high
    OBVIOUS
  <2>6. lo \in Nat /\ hi \in Nat /\ low \in Nat /\ high \in Nat
    BY <2>4, <2>5 DEF Searching
  <2>7. PICK b \in Nat, n \in Nat :
           b + n <= Len(h) /\ InARow(cache, h, width, b, n) /\ Spans(lo, hi, low, high, b, n)
    BY <2>4, <2>5 DEF Searching
  <2>8. PICK m : m = hi - lo + 1  OBVIOUS
  <2>9. m \in Nat /\ low + m <= Len(h) /\ PartOf(d, cache, b, n, lo, hi, low, m)
    <3>1. /\ 1 <= lo /\ lo <= hi /\ hi <= n /\ low = b + lo - 1 /\ high = b + hi
          /\ b + n <= Len(h) /\ Len(h) \in Nat
      BY <2>7 DEF Spans
    <3>2. m \in Nat /\ low + m <= Len(h) /\ lo <= hi + 1  BY <2>6, <2>8, <3>1
    <3>3. d = SubSeq(cache, lo, hi)  BY <2>2, <2>5
    <3> QED BY <2>8, <3>1, <3>2, <3>3 DEF PartOf
  <2>10. InARow(d, h, width, low, m)  BY <2>6, <2>7, <2>9, RowPart
  <2> QED BY <2>6, <2>9, <2>10 DEF KeptIn
<1> QED BY <1>2, <1>3

--------------------------------------------------------------------------------
(* The lines of the log that are kept from one render to the next. *)

\* Nothing is kept at first, or after another size.
LEMMA NothingKept ==
    ASSUME NEW h, Len(h) \in Nat, NEW width
    PROVE  KeptIn(<<>>, h, width)
<1>1. PICK b : b = 0  OBVIOUS
<1>2. b \in Nat /\ b + b <= Len(h) /\ InARow(<<>>, h, width, b, 0)  BY <1>1, RowOfNone
<1> QED BY <1>1, <1>2 DEF KeptIn

\* The lines of an event, by either name.
LEMMA LineIs ==
    ASSUME NEW i, NEW width
    PROVE  EntryOf(i, width) = LineAt(history, i, width)
  BY DEF EntryOf, LineAt

\* A draw keeps the lines it has made, or had.
LEMMA DrawKept ==
    ASSUME IInv, LinesInv, Draw
    PROVE  LinesInv'
<1>1. AreasInv /\ HistoryInv /\ UiGood(ui, layout.mode)  BY DEF IInv, UiInv
<1>2. ui' = DrawUi /\ history' = history  BY DrawIs
<1>3. PICK E, h, g, w, mode : E = [id : Nat, kind : EventKinds] /\ h = history /\ g = DrawFocused
         /\ w = g.list.width /\ mode = DrawLayout.mode
  OBVIOUS
<1>4. h \in Seq(E) /\ Len(h) \in Nat /\ ui.list.count = Len(h)
  BY <1>1, <1>3 DEF HistoryInv
<1>5. SameElse(g, ui, mode) /\ g.list.count = ui.list.count /\ KeepsOrDrops(g.list, ui.list)
  BY <1>1, <1>3, DrawFocusedGood
<1>6. g.list \in ListsOf(g.list.cache) /\ SelectsItem(g.list) /\ g = [g EXCEPT !.list = g.list]
  BY <1>5 DEF SameElse, UiGood, UiTyped, UiOf
<1>7. KeptIn(g.list.cache, h, w)
  <2>1. CASE g.list.cache = <<>>  BY <1>4, <2>1, NothingKept
  <2>2. CASE g.list.cache = ui.list.cache /\ g.list.width = ui.list.width
    BY <1>3, <2>2 DEF LinesInv
  <2> QED BY <1>5, <2>1, <2>2 DEF KeepsOrDrops
<1>8. CASE DrawUi = g  BY <1>2, <1>3, <1>7, <1>8 DEF LinesInv
<1>9. CASE DrawUi = [g EXCEPT !.list.cache = ListRendered(g.list, DrawMade).cache]
  <2>1. PICK made, d : made = DrawMade /\ d = ListRendered(g.list, made).cache  OBVIOUS
  <2>2. made = MadeOf(h, w)  BY <1>3, <1>4, <1>5, <2>1, LineIs DEF DrawMade, MadeOf
  <2>3. KeptIn(d, h, w)  BY <1>4, <1>5, <1>6, <1>7, <2>1, <2>2, RenderedKept
  <2>4. DrawUi.list.cache = d /\ DrawUi.list.width = w
    BY <1>3, <1>6, <1>9, <2>1 DEF ListsOf
  <2> QED BY <1>2, <1>3, <2>3, <2>4 DEF LinesInv
<1> QED BY <1>3, <1>8, <1>9 DEF DrawUi

\* An event that comes leaves what is kept right, or drops it.
LEMMA LogEventKept ==
    ASSUME IInv, LinesInv, LogEvent
    PROVE  LinesInv'
<1>1. PlanInv /\ HistoryInv /\ UiTyped(ui)  BY DEF IInv, UiInv, UiGood
<1>2. left.lines \in Nat  BY <1>1 DEF PlanInv
<1>3. PICK kind \in EventKinds : history' = Append(Roomy(history), [id |-> left.lines, kind |-> kind])
  BY DEF LogEvent, Roomy
<1>4. PICK E, old, list, w : E = [id : Nat, kind : EventKinds] /\ old = history /\ list = ui.list /\ w = list.width
  OBVIOUS
<1>5. PICK e \in E : e = [id |-> left.lines, kind |-> kind]  BY <1>2, <1>4
<1>6. PICK h, q, d : h = Append(Roomy(old), e) /\ q = Logged(list, old) /\ d = LoggedCache(list.cache, Len(old))
  OBVIOUS
<1>7. /\ list \in ListsOf(list.cache) /\ SelectsItem(list) /\ list.count = Len(old)
      /\ old \in Seq(E) /\ Len(old) <= MaxEvents
  BY <1>1, <1>4 DEF UiTyped, UiOf, HistoryInv
<1>8. q.cache = d /\ q.width = w  BY <1>4, <1>6, <1>7, LoggedIs
<1>9. KeptIn(list.cache, old, w)  BY <1>4 DEF LinesInv
<1>10. KeptIn(d, h, w)  BY <1>6, <1>7, <1>9, LoggedKept
<1>11. history' = h  BY <1>3, <1>4, <1>5, <1>6
<1>12. ui'.list = q
  <2>1. ui' = UiList(ui, q)  BY <1>4, <1>6 DEF LogEvent, UiList
  <2>2. UiList(ui, q).list = q  BY <1>1 DEF UiList, UiTyped, UiOf
  <2> QED BY <2>1, <2>2
<1> QED BY <1>8, <1>10, <1>11, <1>12 DEF LinesInv

\* Nothing else has to do with the lines.
LEMMA SameLines ==
    ASSUME LinesInv, history' = history, SameUi(ui', ui)
    PROVE  LinesInv'
  BY DEF LinesInv, SameUi

\* Every step leaves the lines right.
LEMMA LinesStep ==
    ASSUME IInv, LinesInv, [Next]_vars
    PROVE  LinesInv'
<1>1. CASE Key
  <2>1. history' = history  BY <1>1 DEF Key
  <2> QED BY <1>1, <2>1, KeyGood, SameLines
<1>2. CASE PopupArrives
  <2>1. history' = history  BY <1>2 DEF PopupArrives
  <2> QED BY <1>2, <2>1, ArrivesGood, SameLines
<1>3. CASE PopupCloses \/ TaskStep \/ OtherStep \/ TerminalResized \/ UNCHANGED vars
  <2>1. history' = history /\ ui' = ui
    BY <1>3, TaskStepIs, OtherStepIs DEF PopupCloses, TerminalResized, vars
  <2> QED BY <2>1 DEF LinesInv
<1>4. CASE LogEvent  BY <1>4, LogEventKept
<1>5. CASE Draw  BY <1>5, DrawKept
<1> QED BY <1>1, <1>2, <1>3, <1>4, <1>5 DEF Next, TaskStep, OtherStep

\* So the property holds.
LEMMA LinesAre ==
    ASSUME IInv, LinesInv
    PROVE  LinesKept
<1>1. HistoryInv /\ UiTyped(ui)  BY DEF IInv, UiInv, UiGood
<1>2. PICK c, h, w : c = ui.list.cache /\ h = history /\ w = ui.list.width  OBVIOUS
<1>3. ui.list \in ListsOf(c) /\ SelectsItem(ui.list) /\ ui.list.count = Len(h)
  BY <1>1, <1>2 DEF UiTyped, UiOf, HistoryInv
<1>4. ui.list.selected # NoIndex => ui.list.selected \in 0 .. ui.list.count - 1
  BY <1>3 DEF ListsOf, SelectsItem
<1>5. PICK b \in Nat, n \in Nat : b + n <= Len(h) /\ InARow(c, h, w, b, n)
  BY <1>2 DEF LinesInv, KeptIn
<1>6. Len(c) = n /\ \A i \in 1 .. n : c[i] = LineAt(h, b + i - 1, w)  BY <1>5 DEF InARow
<1>7. \A i \in 1 .. n : c[i].index = b + i - 1  BY <1>6, LineIndex
<1>8. ASSUME NEW i \in 1 .. n
      PROVE  /\ c[i].index = c[1].index + i - 1
             /\ c[i].index \in 0 .. Len(h) - 1
             /\ c[i] = EntryOf(c[i].index, w)
  <2>1. 1 \in 1 .. n  OBVIOUS
  <2>2. c[1].index = b + 1 - 1 /\ c[i].index = b + i - 1  BY <1>7, <2>1
  <2>3. c[i] = EntryOf(c[i].index, w)  BY <1>2, <1>6, <2>2, LineIs
  <2>4. Len(h) \in Nat  BY <1>3 DEF ListsOf
  <2> QED BY <1>5, <2>2, <2>3, <2>4
<1> QED BY <1>2, <1>3, <1>4, <1>6, <1>8 DEF LinesKept

\* Nothing is kept at first.
LEMMA LinesInit ==
    ASSUME Init
    PROVE  LinesInv
<1>1. history = <<>> /\ ui.list.cache = <<>>  BY DEF Init, EmptyList
<1> QED BY <1>1, NothingKept DEF LinesInv

--------------------------------------------------------------------------------
(* Sums over sets. *)

\* What is left of a set has one element less.
LEMMA OneLess ==
    ASSUME NEW s, IsFiniteSet(s), NEW n \in Nat, Cardinality(s) = n + 1, NEW x \in s
    PROVE  IsFiniteSet(s \ {x}) /\ Cardinality(s \ {x}) = n
  BY FS_RemoveElement

\* A set with elements.
LEMMA FirstIs ==
    ASSUME NEW s, s # {}
    PROVE  FirstOf(s) \in s
  BY DEF FirstOf

\* No element, no set but that.
LEMMA NoElement ==
    ASSUME NEW s, IsFiniteSet(s), Cardinality(s) = 0
    PROVE  s = {}
  BY FS_EmptySet

\* Sums agree, whatever sets there are around.
LEMMA SumsAgree ==
    ASSUME NEW f, NEW S, NEW R, NEW g, NEW h, SumsTo(g, f, S), SumsTo(h, f, R),
           NEW s \in SUBSET S, s \in SUBSET R, IsFiniteSet(s)
    PROVE  g[s] = h[s]
<1> DEFINE T == {n \in Nat : \A u \in SUBSET s : IsFiniteSet(u) /\ Cardinality(u) = n => g[u] = h[u]}
<1>1. \A u \in SUBSET s :
         /\ g[u] = IF u = {} THEN 0 ELSE g[u \ {FirstOf(u)}] + f[FirstOf(u)]
         /\ h[u] = IF u = {} THEN 0 ELSE h[u \ {FirstOf(u)}] + f[FirstOf(u)]
  BY DEF SumsTo
<1>2. 0 \in T
  <2> SUFFICES ASSUME NEW u \in SUBSET s, IsFiniteSet(u), Cardinality(u) = 0 PROVE g[u] = h[u]
    OBVIOUS
  <2>1. u = {}  BY NoElement
  <2> QED BY <1>1, <2>1
<1>3. ASSUME NEW n \in Nat, n \in T PROVE n + 1 \in T
  <2> SUFFICES ASSUME NEW u \in SUBSET s, IsFiniteSet(u), Cardinality(u) = n + 1 PROVE g[u] = h[u]
    OBVIOUS
  <2>1. u # {}  BY FS_EmptySet
  <2>2. PICK x, v : x = FirstOf(u) /\ v = u \ {x}  OBVIOUS
  <2>3. x \in u  BY <2>1, <2>2, FirstIs
  <2>4. v \in SUBSET s /\ IsFiniteSet(v) /\ Cardinality(v) = n  BY <2>2, <2>3, OneLess
  <2>5. g[v] = h[v]  BY <1>3, <2>4
  <2>6. g[u] = g[v] + f[x] /\ h[u] = h[v] + f[x]  BY <1>1, <2>1, <2>2
  <2> QED BY <2>5, <2>6
<1>4. Nat \subseteq T
  <2> HIDE DEF T
  <2> QED BY <1>2, <1>3, NatInduct
<1>5. Cardinality(s) \in Nat  BY FS_CardinalityType
<1>6. Cardinality(s) \in T  BY <1>4, <1>5
<1> QED BY <1>6

\* And there are such, for every finite set.
LEMMA SumsExist ==
    ASSUME NEW f, NEW S, IsFiniteSet(S)
    PROVE  \E g : SumsTo(g, f, S)
<1> DEFINE T == {n \in Nat : \A s \in SUBSET S :
                    IsFiniteSet(s) /\ Cardinality(s) <= n => \E g : SumsTo(g, f, s)}
           Some(s) == CHOOSE g : SumsTo(g, f, s)
<1>1. ASSUME NEW s \in SUBSET S, IsFiniteSet(s),
             \A u \in SUBSET s : u # s => IsFiniteSet(u) /\ \E g : SumsTo(g, f, u)
      PROVE  \E g : SumsTo(g, f, s)
  <2>1. PICK val : val = [u \in SUBSET s |-> Some(u)[u]]  OBVIOUS
  <2>2. ASSUME NEW u \in SUBSET s, u # s, u # {}
        PROVE  val[u] = val[u \ {FirstOf(u)}] + f[FirstOf(u)]
    <3>1. PICK x, v : x = FirstOf(u) /\ v = u \ {x}  OBVIOUS
    <3>2. x \in u  BY <2>2, <3>1, FirstIs
    <3>3. v \in SUBSET s /\ v # s /\ v \in SUBSET u /\ v \in SUBSET v /\ u \in SUBSET u
      BY <3>1, <3>2
    <3>4. PICK g, h : g = Some(u) /\ h = Some(v)  OBVIOUS
    <3>5. SumsTo(g, f, u) /\ SumsTo(h, f, v) /\ IsFiniteSet(v)  BY <1>1, <2>2, <3>3, <3>4
    <3>6. g[v] = h[v]  BY <3>3, <3>5, SumsAgree
    <3>7. g[u] = g[v] + f[x]  BY <2>2, <3>1, <3>3, <3>5 DEF SumsTo
    <3>8. val[u] = g[u] /\ val[v] = h[v]  BY <2>1, <3>3, <3>4
    <3> QED BY <3>1, <3>6, <3>7, <3>8
  <2>3. val[{}] = 0 \/ s = {}
    <3>1. CASE s # {}
      <4>1. PICK u : u = {}  OBVIOUS
      <4>2. u \in SUBSET s /\ u # s /\ u \in SUBSET u  BY <3>1, <4>1
      <4>3. PICK g : g = Some(u)  OBVIOUS
      <4>4. SumsTo(g, f, u)  BY <1>1, <4>2, <4>3
      <4>5. g[u] = 0  BY <4>1, <4>2, <4>4 DEF SumsTo
      <4>6. val[u] = g[u]  BY <2>1, <4>2, <4>3
      <4> QED BY <4>1, <4>5, <4>6
    <3> QED BY <3>1
  <2> HIDE DEF Some
  <2>4. PICK x, v : x = FirstOf(s) /\ v = s \ {x}  OBVIOUS
  <2>5. PICK top : top = IF s = {} THEN 0 ELSE val[v] + f[x]  OBVIOUS
  <2>6. PICK g : g = [u \in SUBSET s |-> IF u = s THEN top ELSE val[u]]  OBVIOUS
  <2>7. ASSUME NEW u \in SUBSET s
        PROVE  g[u] = IF u = {} THEN 0 ELSE g[u \ {FirstOf(u)}] + f[FirstOf(u)]
    <3>1. CASE u = {}  BY <2>3, <2>5, <2>6, <3>1
    <3>2. CASE u # {}
      <4>1. PICK y, w : y = FirstOf(u) /\ w = u \ {y}  OBVIOUS
      <4>2. y \in u  BY <3>2, <4>1, FirstIs
      <4>3. w \in SUBSET s /\ w # s  BY <4>1, <4>2
      <4>4. g[w] = val[w]  BY <2>6, <4>3
      <4>5. CASE u = s
        <5>1. y = x /\ w = v  BY <2>4, <4>1, <4>5
        <5>2. g[u] = top  BY <2>6, <4>5
        <5>3. top = val[v] + f[x]  BY <2>5, <3>2, <4>5
        <5> QED BY <3>2, <4>1, <4>4, <5>1, <5>2, <5>3
      <4>6. CASE u # s
        <5>1. g[u] = val[u]  BY <2>6, <4>6
        <5>2. val[u] = val[w] + f[y]  BY <2>2, <3>2, <4>1, <4>6
        <5> QED BY <3>2, <4>1, <4>4, <5>1, <5>2
      <4> QED BY <4>5, <4>6
    <3> QED BY <3>1, <3>2
  <2>8. SumsTo(g, f, s)  BY <2>6, <2>7 DEF SumsTo
  <2> QED BY <2>8
<1> HIDE DEF Some
<1>2. 0 \in T
  <2> SUFFICES ASSUME NEW s \in SUBSET S, IsFiniteSet(s), Cardinality(s) <= 0 PROVE \E g : SumsTo(g, f, s)
    OBVIOUS
  <2>1. Cardinality(s) \in Nat  BY FS_CardinalityType
  <2>2. s = {}  BY <2>1, NoElement
  <2>3. \A u \in SUBSET s : u = s  BY <2>2
  <2> QED BY <1>1, <2>3
<1>3. ASSUME NEW n \in Nat, n \in T PROVE n + 1 \in T
  <2> SUFFICES ASSUME NEW s \in SUBSET S, IsFiniteSet(s), Cardinality(s) <= n + 1
               PROVE  \E g : SumsTo(g, f, s)
    OBVIOUS
  <2>1. ASSUME NEW u \in SUBSET s, u # s
        PROVE  IsFiniteSet(u) /\ \E g : SumsTo(g, f, u)
    <3>1. IsFiniteSet(u) /\ Cardinality(u) <= Cardinality(s) /\ Cardinality(u) # Cardinality(s)
      BY <2>1, FS_Subset
    <3>2. Cardinality(u) \in Nat /\ Cardinality(s) \in Nat  BY <3>1, FS_CardinalityType
    <3>3. Cardinality(u) <= n  BY <3>1, <3>2
    <3> QED BY <1>3, <3>1, <3>3
  <2> QED BY <1>1, <2>1
<1>4. Nat \subseteq T
  <2> HIDE DEF T
  <2> QED BY <1>2, <1>3, NatInduct
<1>5. Cardinality(S) \in Nat  BY FS_CardinalityType
<1>6. Cardinality(S) \in T  BY <1>4, <1>5
<1> QED BY <1>5, <1>6

\* A sum is taken element by element.
LEMMA SumUnrolled ==
    ASSUME NEW f, NEW S, IsFiniteSet(S)
    PROVE  /\ S = {} => SumOver(f, S) = 0
           /\ S # {} => SumOver(f, S) = SumOver(f, S \ {FirstOf(S)}) + f[FirstOf(S)]
<1> DEFINE Some(s) == CHOOSE g : SumsTo(g, f, s)
<1>1. \A s : SumOver(f, s) = Some(s)[s]
  BY DEF SumOver, FoldSet, MapThenFoldSet, SumsTo, FirstOf
<1>2. SumsTo(Some(S), f, S)  BY SumsExist
<1>3. CASE S = {}
  <2>1. PICK g : g = Some(S)  OBVIOUS
  <2>2. g[S] = 0  BY <1>2, <1>3, <2>1 DEF SumsTo
  <2> QED BY <1>1, <1>3, <2>1, <2>2
<1>4. CASE S # {}
  <2>1. PICK x, v : x = FirstOf(S) /\ v = S \ {x}  OBVIOUS
  <2>2. x \in S  BY <1>4, <2>1, FirstIs
  <2>3. IsFiniteSet(v)  BY <2>1, FS_Subset
  <2>4. SumsTo(Some(v), f, v)  BY <2>3, SumsExist
  <2>5. PICK g, h : g = Some(S) /\ h = Some(v)  OBVIOUS
  <2>6. v \in SUBSET S /\ v \in SUBSET v /\ S \in SUBSET S  BY <2>1
  <2>7. g[v] = h[v]  BY <1>2, <2>3, <2>4, <2>5, <2>6, SumsAgree
  <2>8. g[S] = g[v] + f[x]  BY <1>2, <1>4, <2>1, <2>5, <2>6 DEF SumsTo
  <2>9. SumOver(f, S) = g[S] /\ SumOver(f, v) = h[v]  BY <1>1, <2>5
  <2> QED BY <1>4, <2>1, <2>7, <2>8, <2>9
<1> QED BY <1>3, <1>4

\* A sum of naturals is one.
LEMMA SumNat ==
    ASSUME NEW f, NEW S, IsFiniteSet(S), \A x \in S : f[x] \in Nat
    PROVE  SumOver(f, S) \in Nat
<1> DEFINE T == {n \in Nat : \A s \in SUBSET S :
                    IsFiniteSet(s) /\ Cardinality(s) = n => SumOver(f, s) \in Nat}
<1>1. 0 \in T
  <2> SUFFICES ASSUME NEW s \in SUBSET S, IsFiniteSet(s), Cardinality(s) = 0 PROVE SumOver(f, s) \in Nat
    OBVIOUS
  <2>1. s = {}  BY NoElement
  <2>2. SumOver(f, s) = 0  BY <2>1, SumUnrolled
  <2> QED BY <2>2
<1>2. ASSUME NEW n \in Nat, n \in T PROVE n + 1 \in T
  <2> SUFFICES ASSUME NEW s \in SUBSET S, IsFiniteSet(s), Cardinality(s) = n + 1
               PROVE  SumOver(f, s) \in Nat
    OBVIOUS
  <2>1. s # {}  BY FS_EmptySet
  <2>2. PICK x, v : x = FirstOf(s) /\ v = s \ {x}  OBVIOUS
  <2>3. x \in s  BY <2>1, <2>2, FirstIs
  <2>4. v \in SUBSET S /\ IsFiniteSet(v) /\ Cardinality(v) = n  BY <2>2, <2>3, OneLess
  <2>5. SumOver(f, v) \in Nat  BY <1>2, <2>4
  <2>6. SumOver(f, s) = SumOver(f, v) + f[x]  BY <2>1, <2>2, SumUnrolled
  <2>7. f[x] \in Nat  BY <2>3
  <2> QED BY <2>5, <2>6, <2>7
<1>3. Nat \subseteq T
  <2> HIDE DEF T
  <2> QED BY <1>1, <1>2, NatInduct
<1>4. Cardinality(S) \in Nat  BY FS_CardinalityType
<1>5. Cardinality(S) \in T  BY <1>3, <1>4
<1> QED BY <1>5

\* Any element may be taken first.
LEMMA SumWithout ==
    ASSUME NEW f, NEW S, IsFiniteSet(S), \A x \in S : f[x] \in Nat, NEW e \in S
    PROVE  SumOver(f, S) = SumOver(f, S \ {e}) + f[e]
<1> DEFINE T == {n \in Nat : \A s \in SUBSET S : \A x \in s :
                    IsFiniteSet(s) /\ Cardinality(s) = n => SumOver(f, s) = SumOver(f, s \ {x}) + f[x]}
<1>1. 0 \in T
  <2> SUFFICES ASSUME NEW s \in SUBSET S, NEW x \in s, IsFiniteSet(s), Cardinality(s) = 0 PROVE FALSE
    OBVIOUS
  <2> QED BY NoElement
<1>2. ASSUME NEW n \in Nat, n \in T PROVE n + 1 \in T
  <2> SUFFICES ASSUME NEW s \in SUBSET S, NEW x \in s, IsFiniteSet(s), Cardinality(s) = n + 1
               PROVE  SumOver(f, s) = SumOver(f, s \ {x}) + f[x]
    OBVIOUS
  <2>1. PICK c, v, w : c = FirstOf(s) /\ v = s \ {c} /\ w = s \ {x}  OBVIOUS
  <2>2. c \in s  BY <2>1, FirstIs
  <2>3. v \in SUBSET S /\ IsFiniteSet(v) /\ Cardinality(v) = n  BY <2>1, <2>2, OneLess
  <2>4. w \in SUBSET S /\ IsFiniteSet(w) /\ Cardinality(w) = n  BY <2>1, OneLess
  <2>5. SumOver(f, s) = SumOver(f, v) + f[c]  BY <2>1, <2>2, SumUnrolled
  <2>6. CASE x = c  BY <2>1, <2>5, <2>6
  <2>7. CASE x # c
    <3>1. PICK r : r = v \ {x}  OBVIOUS
    <3>2. r = w \ {c} /\ x \in v /\ c \in w  BY <2>1, <2>2, <2>7, <3>1
    <3>3. SumOver(f, v) = SumOver(f, r) + f[x]  BY <1>2, <2>3, <3>1, <3>2
    <3>4. SumOver(f, w) = SumOver(f, r) + f[c]  BY <1>2, <2>4, <3>2
    <3>5. IsFiniteSet(r) /\ r \in SUBSET S  BY <2>3, <3>1, FS_Subset
    <3>6. SumOver(f, r) \in Nat  BY <3>5, SumNat
    <3>7. f[x] \in Nat /\ f[c] \in Nat  BY <2>2
    <3> QED BY <2>1, <2>5, <3>3, <3>4, <3>6, <3>7
  <2> QED BY <2>6, <2>7
<1>3. Nat \subseteq T
  <2> HIDE DEF T
  <2> QED BY <1>1, <1>2, NatInduct
<1>4. Cardinality(S) \in Nat  BY FS_CardinalityType
<1>5. Cardinality(S) \in T  BY <1>3, <1>4
<1> QED BY <1>5

--------------------------------------------------------------------------------
(* Sums over stretches of time. *)

\* A stretch is summed up from its beginning.
LEMMA StretchStep ==
    ASSUME NEW D \in SUBSET Int, NEW f \in [D -> Nat], NEW a \in Int
    PROVE  /\ Stretch(f, D, a, 0) = 0
           /\ \A n \in Nat : /\ Stretch(f, D, a, n) \in Nat
                             /\ Stretch(f, D, a, n + 1) = Stretch(f, D, a, n) + AtOf(f, D, a + n)
<1>1. ASSUME NEW n \in Nat
      PROVE  IsFiniteSet(D \cap (a .. a + n - 1)) /\ \A x \in D \cap (a .. a + n - 1) : f[x] \in Nat
  <2>1. IsFiniteSet(a .. a + n - 1)  BY FS_Interval
  <2> QED BY <2>1, FS_Subset
<1>2. Stretch(f, D, a, 0) = 0
  <2>1. PICK S : S = D \cap (a .. a + 0 - 1)  OBVIOUS
  <2>2. S = {}  BY <2>1
  <2>4. IsFiniteSet(S)  BY <2>2, FS_EmptySet
  <2>3. SumOver(f, S) = 0  BY <2>2, <2>4, SumUnrolled
  <2> QED BY <2>1, <2>3 DEF Stretch
<1>3. ASSUME NEW n \in Nat
      PROVE  /\ Stretch(f, D, a, n) \in Nat
             /\ Stretch(f, D, a, n + 1) = Stretch(f, D, a, n) + AtOf(f, D, a + n)
  <2>1. PICK S, R, t : S = D \cap (a .. a + n - 1) /\ R = D \cap (a .. a + (n + 1) - 1) /\ t = a + n
    OBVIOUS
  <2>2. IsFiniteSet(S) /\ IsFiniteSet(R) /\ (\A x \in S : f[x] \in Nat) /\ (\A x \in R : f[x] \in Nat)
    <3>1. PICK m : m = n + 1  OBVIOUS
    <3>2. m \in Nat /\ R = D \cap (a .. a + m - 1)  BY <2>1, <3>1
    <3>3. IsFiniteSet(R) /\ \A x \in R : f[x] \in Nat  BY <1>1, <3>2
    <3>4. IsFiniteSet(S) /\ \A x \in S : f[x] \in Nat  BY <1>1, <2>1
    <3> QED BY <3>3, <3>4
  <2>3. SumOver(f, S) \in Nat  BY <2>2, SumNat
  <2>4. SumOver(f, R) = SumOver(f, S) + AtOf(f, D, t)
    <3>1. CASE t \in D
      <4>1. t \in R /\ S = R \ {t}  BY <2>1, <3>1
      <4>2. SumOver(f, R) = SumOver(f, S) + f[t]  BY <2>2, <4>1, SumWithout
      <4> QED BY <3>1, <4>2 DEF AtOf
    <3>2. CASE t \notin D
      <4>1. S = R  BY <2>1, <3>2
      <4> QED BY <2>3, <3>2, <4>1 DEF AtOf
    <3> QED BY <3>1, <3>2
  <2> QED BY <2>1, <2>3, <2>4 DEF Stretch
<1> QED BY <1>2, <1>3

\* Two stretches with the same in them have the same sum.
LEMMA StretchSame ==
    ASSUME NEW D \in SUBSET Int, NEW f \in [D -> Nat], NEW E \in SUBSET Int, NEW g \in [E -> Nat],
           NEW a \in Int, NEW b \in Int, NEW n \in Nat,
           SameIn(f, D, a, g, E, b, n)
    PROVE  Stretch(f, D, a, n) = Stretch(g, E, b, n)
<1> DEFINE T == {m \in Nat : m <= n => Stretch(f, D, a, m) = Stretch(g, E, b, m)}
<1>1. 0 \in T  BY StretchStep
<1>2. ASSUME NEW m \in Nat, m \in T PROVE m + 1 \in T
  <2> SUFFICES ASSUME m + 1 <= n PROVE Stretch(f, D, a, m + 1) = Stretch(g, E, b, m + 1)
    OBVIOUS
  <2>1. Stretch(f, D, a, m) = Stretch(g, E, b, m)  BY <1>2
  <2>2. AtOf(f, D, a + m) = AtOf(g, E, b + m)  BY DEF SameIn
  <2>3. Stretch(f, D, a, m + 1) = Stretch(f, D, a, m) + AtOf(f, D, a + m)  BY StretchStep
  <2>4. Stretch(g, E, b, m + 1) = Stretch(g, E, b, m) + AtOf(g, E, b + m)  BY StretchStep
  <2> QED BY <2>1, <2>2, <2>3, <2>4
<1>3. Nat \subseteq T
  <2> HIDE DEF T
  <2> QED BY <1>1, <1>2, NatInduct
<1> QED BY <1>3

\* Something more at one place is that much more in every stretch that has it.
LEMMA StretchPlus ==
    ASSUME NEW D \in SUBSET Int, NEW f \in [D -> Nat], NEW e \in D, NEW x \in Nat,
           NEW g, g = MoreAt(f, e, x), NEW a \in Int, NEW n \in Nat
    PROVE  Stretch(g, D, a, n) = Stretch(f, D, a, n) + (IF e \in a .. a + n - 1 THEN x ELSE 0)
<1> DEFINE T == {m \in Nat : Stretch(g, D, a, m)
                             = Stretch(f, D, a, m) + (IF e \in a .. a + m - 1 THEN x ELSE 0)}
<1>0. g \in [D -> Nat]  BY DEF MoreAt
<1>1. 0 \in T
  <2>1. Stretch(g, D, a, 0) = 0 /\ Stretch(f, D, a, 0) = 0  BY <1>0, StretchStep
  <2>2. e \notin a .. a + 0 - 1  OBVIOUS
  <2> QED BY <2>1, <2>2
<1>2. ASSUME NEW m \in Nat, m \in T PROVE m + 1 \in T
  <2>1. PICK p, q, r, s, t : p = Stretch(f, D, a, m) /\ q = Stretch(g, D, a, m) /\ t = a + m
           /\ r = AtOf(f, D, t) /\ s = AtOf(g, D, t)
    OBVIOUS
  <2>2. Stretch(f, D, a, m + 1) = p + r /\ p \in Nat  BY <2>1, StretchStep
  <2>3. Stretch(g, D, a, m + 1) = q + s /\ q \in Nat  BY <1>0, <2>1, StretchStep
  <2>4. q = p + (IF e \in a .. a + m - 1 THEN x ELSE 0)  BY <1>2, <2>1
  <2>5. r \in Nat /\ s = r + (IF t = e THEN x ELSE 0)  BY <1>0, <2>1 DEF AtOf, MoreAt
  <2>6. e \in Int /\ t = a + m  BY <2>1
  <2>7. CASE t = e
    <3>1. e \notin a .. a + m - 1 /\ e \in a .. a + (m + 1) - 1  BY <2>6, <2>7
    <3> QED BY <2>2, <2>3, <2>4, <2>5, <2>7, <3>1
  <2>8. CASE t # e
    <3>1. e \in a .. a + m - 1 <=> e \in a .. a + (m + 1) - 1  BY <2>6, <2>8
    <3> QED BY <2>2, <2>3, <2>4, <2>5, <2>8, <3>1
  <2> QED BY <2>7, <2>8
<1>3. Nat \subseteq T
  <2> HIDE DEF T
  <2> QED BY <1>1, <1>2, NatInduct
<1> QED BY <1>3

\* A stretch with nothing at its end.
LEMMA StretchEnds ==
    ASSUME NEW D \in SUBSET Int, NEW f \in [D -> Nat], NEW a \in Int, NEW n \in Nat, NEW m \in Nat,
           \A i \in n .. n + m - 1 : AtOf(f, D, a + i) = 0
    PROVE  Stretch(f, D, a, n + m) = Stretch(f, D, a, n)
<1> DEFINE T == {k \in Nat : k <= m => Stretch(f, D, a, n + k) = Stretch(f, D, a, n)}
<1>1. 0 \in T
  <2>1. n + 0 = n  OBVIOUS
  <2> QED BY <2>1
<1>2. ASSUME NEW k \in Nat, k \in T PROVE k + 1 \in T
  <2> SUFFICES ASSUME k + 1 <= m PROVE Stretch(f, D, a, n + (k + 1)) = Stretch(f, D, a, n)
    OBVIOUS
  <2>1. PICK j : j = n + k  OBVIOUS
  <2>2. j \in Nat /\ j \in n .. n + m - 1 /\ n + (k + 1) = j + 1  BY <2>1
  <2>3. Stretch(f, D, a, j) = Stretch(f, D, a, n)  BY <1>2, <2>1
  <2>4. AtOf(f, D, a + j) = 0  BY <2>2
  <2>5. Stretch(f, D, a, j + 1) = Stretch(f, D, a, j) + AtOf(f, D, a + j) /\ Stretch(f, D, a, j) \in Nat
    BY <2>2, StretchStep
  <2> QED BY <2>2, <2>3, <2>4, <2>5
<1>3. Nat \subseteq T
  <2> HIDE DEF T
  <2> QED BY <1>1, <1>2, NatInduct
<1> QED BY <1>3

--------------------------------------------------------------------------------
(* The room of a deque, and numbers of seconds by units. *)

\* The greater of two.
LEMMA MaxOfTwo ==
    ASSUME NEW a \in Nat, NEW b \in Nat
    PROVE  Max({a, b}) \in Nat /\ Max({a, b}) >= a /\ Max({a, b}) >= b /\ Max({a, b}) \in {a, b}
<1>1. PICK T : T = {a, b}  OBVIOUS
<1>2. PICK c \in Nat : a <= c /\ b <= c
  <2>1. CASE a <= b  BY <2>1
  <2>2. CASE ~(a <= b)  BY <2>2
  <2> QED BY <2>1, <2>2
<1>3. T \in SUBSET Nat /\ T # {} /\ \A m \in T : m <= c  BY <1>1, <1>2
<1>4. Max(T) \in T /\ \A m \in T : m <= Max(T)  BY <1>3, MaxGreatest
<1>5. PICK x : x = Max(T)  OBVIOUS
<1>6. x \in {a, b} /\ a <= x /\ b <= x  BY <1>1, <1>4, <1>5
<1> QED BY <1>1, <1>5, <1>6

\* There are as many doublings as are wanted.
LEMMA DoublingExists ==
    ASSUME NEW capacity \in Nat \ {0}, NEW N \in Nat
    PROVE  \E f : Doubling(f, capacity, N)
<1> DEFINE T == {n \in Nat : \E f : Doubling(f, capacity, n)}
<1>1. 0 \in T
  <2>1. PICK f : f = [k \in 0 .. 0 |-> capacity]  OBVIOUS
  <2>2. f = [k \in 0 .. 0 |-> IF k = 0 THEN capacity ELSE Max({4, 2 * f[k - 1]})]  BY <2>1
  <2> QED BY <2>2 DEF Doubling
<1>2. ASSUME NEW n \in Nat, n \in T PROVE n + 1 \in T
  <2>1. PICK f : Doubling(f, capacity, n)  BY <1>2
  <2>2. PICK y : y = Max({4, 2 * f[n]})  OBVIOUS
  <2>3. PICK g : g = [k \in 0 .. n + 1 |-> IF k = n + 1 THEN y ELSE f[k]]  OBVIOUS
  <2>4. f = [k \in 0 .. n |-> IF k = 0 THEN capacity ELSE Max({4, 2 * f[k - 1]})]
    BY <2>1 DEF Doubling
  <2>5. ASSUME NEW k \in 0 .. n + 1
        PROVE  g[k] = IF k = 0 THEN capacity ELSE Max({4, 2 * g[k - 1]})
    <3>1. CASE k = n + 1
      <4>1. g[k] = y /\ k # 0 /\ k - 1 = n /\ n \in 0 .. n + 1 /\ n # n + 1  BY <2>3, <3>1
      <4>2. g[n] = f[n]  BY <2>3, <4>1
      <4> QED BY <2>2, <4>1, <4>2
    <3>2. CASE k # n + 1
      <4>1. k \in 0 .. n /\ g[k] = f[k]  BY <2>3, <3>2
      <4>2. CASE k = 0  BY <2>4, <4>1, <4>2
      <4>3. CASE k # 0
        <5>1. PICK j : j = k - 1  OBVIOUS
        <5>2. j \in 0 .. n + 1 /\ j # n + 1  BY <4>1, <4>3, <5>1
        <5>3. g[j] = f[j]  BY <2>3, <5>2
        <5> QED BY <2>4, <4>1, <4>3, <5>1, <5>3
      <4> QED BY <4>2, <4>3
    <3> QED BY <3>1, <3>2
  <2>6. g = [k \in 0 .. n + 1 |-> IF k = 0 THEN capacity ELSE Max({4, 2 * g[k - 1]})]
    BY <2>3, <2>5
  <2>7. n + 1 \in Nat  OBVIOUS
  <2> QED BY <2>6, <2>7 DEF Doubling
<1>3. Nat \subseteq T
  <2> HIDE DEF T
  <2> QED BY <1>1, <1>2, NatInduct
<1> QED BY <1>3

\* The deque has room for what is pushed, and grows only for that.
LEMMA GrownIs ==
    ASSUME NEW capacity \in Nat \ {0}, NEW length \in Nat, NEW c, c = Grown(capacity, length)
    PROVE  c \in Nat \ {0} /\ length <= c /\ (length <= capacity => c = capacity)
<1>1. PICK f : f = CHOOSE g : Doubling(g, capacity, length)  OBVIOUS
<1>2. Doubling(f, capacity, length)  BY <1>1, DoublingExists
<1>3. f = [k \in 0 .. length |-> IF k = 0 THEN capacity ELSE Max({4, 2 * f[k - 1]})]
  BY <1>2 DEF Doubling
<1> DEFINE U == {k \in 0 .. length : f[k] >= length}
           T == {n \in Nat : n <= length => f[n] \in Nat /\ f[n] > n}
<1>4. c = f[Min(U)]  BY <1>1 DEF Grown, Doubling
<1>5. 0 \in T  BY <1>3
<1>6. ASSUME NEW n \in Nat, n \in T PROVE n + 1 \in T
  <2> SUFFICES ASSUME n + 1 <= length PROVE f[n + 1] \in Nat /\ f[n + 1] > n + 1
    OBVIOUS
  <2>1. PICK x, k : x = f[n] /\ k = n + 1  OBVIOUS
  <2>2. x \in Nat /\ x > n  BY <1>6, <2>1
  <2>3. k \in 0 .. length /\ k # 0 /\ k - 1 = n  BY <2>1
  <2>4. f[k] = Max({4, 2 * f[k - 1]})  BY <1>3, <2>3
  <2>5. PICK y : y = 2 * x  OBVIOUS
  <2>6. f[k] = Max({4, y})  BY <2>1, <2>3, <2>4, <2>5
  <2>7. y \in Nat /\ (y > n + 1 \/ n = 0)  BY <2>2, <2>5
  <2>8. y \in Nat /\ 4 \in Nat  BY <2>2, <2>5
  <2>9. f[k] \in Nat /\ f[k] >= 4 /\ f[k] >= y  BY <2>6, <2>8, MaxOfTwo
  <2>10. f[k] > k  BY <2>1, <2>2, <2>5, <2>9
  <2> QED BY <2>1, <2>9, <2>10
<1>7. Nat \subseteq T
  <2> HIDE DEF T
  <2> QED BY <1>5, <1>6, NatInduct
<1>8. \A n \in 0 .. length : f[n] \in Nat /\ f[n] > n  BY <1>7
<1>9. U \in SUBSET Nat /\ U # {}  BY <1>8
<1>10. PICK k : k = Min(U)  OBVIOUS
<1>11. k \in U /\ \A m \in U : k <= m
  <2> HIDE DEF U
  <2> QED BY <1>9, <1>10, MinLeast
<1>12. k \in 0 .. length /\ f[k] >= length  BY <1>11
<1>13. c = f[k]  BY <1>4, <1>10
<1>14. CASE length <= capacity
  <2>1. f[0] = capacity /\ 0 \in 0 .. length  BY <1>3
  <2>2. 0 \in U  BY <1>14, <2>1
  <2>3. k = 0  BY <1>11, <1>12, <2>2
  <2> QED BY <1>8, <1>12, <1>13, <2>1, <2>3
<1>15. CASE ~(length <= capacity)  BY <1>8, <1>12, <1>13, <1>15
<1> QED BY <1>14, <1>15

\* A number of seconds, by units.
LEMMA Divided ==
    ASSUME NEW t \in Int, NEW u \in Nat \ {0}
    PROVE  t \div u \in Int /\ (t \div u) * u <= t /\ t < (t \div u) * u + u
  OBVIOUS

\* The unit a time is in.
LEMMA InUnit ==
    ASSUME NEW t \in Int, NEW u \in Nat \ {0}, NEW q \in Int, q * u <= t, t < q * u + u
    PROVE  t \div u = q
  OBVIOUS

\* As many units apart.
LEMMA Apart ==
    ASSUME NEW p \in Int, NEW q \in Int, NEW u \in Nat \ {0}
    PROVE  p <= q <=> p * u <= q * u
  OBVIOUS

--------------------------------------------------------------------------------
(* The seconds of the graph. *)

\* What such a sequence has.
LEMMA SlidIs ==
    ASSUME NEW seq, NEW n, NEW k, NEW s, NEW rest, Slid(seq, n, k, s, rest)
    PROVE  /\ s \in Seq(Nat) /\ rest \in Nat /\ Len(s) = rest + k
           /\ \A i \in 1 .. Len(s) : (i <= rest => s[i] = seq[n + i]) /\ (i > rest => s[i] = 0)
<1>0. /\ seq \in Seq(Nat) /\ n \in Nat /\ k \in Nat
      /\ s = DropFirst(seq, n) \o Zeros(k) /\ rest = Left(Len(seq), n)
  BY DEF Slid
<1>1. PICK d, z : d = DropFirst(seq, n) /\ z = Zeros(k)  OBVIOUS
<1>2. rest \in Nat /\ rest = IF n <= Len(seq) THEN Len(seq) - n ELSE 0  BY <1>0 DEF Left
<1>3. d \in Seq(Nat) /\ Len(d) = rest /\ \A i \in 1 .. rest : d[i] = seq[n + i]
  <2>1. PICK m : m = Len(seq)  OBVIOUS
  <2>2. m \in Nat /\ d = SubSeq(seq, n + 1, m)  BY <1>0, <1>1, <2>1 DEF DropFirst
  <2>3. \A i \in n + 1 .. m : seq[i] \in Nat  BY <1>0, <2>1, <2>2
  <2>4. CASE n <= m
    <3>1. Len(d) = m - n /\ \A i \in 1 .. m - n : d[i] = seq[n + i]
      BY <1>0, <2>1, <2>2, <2>4
    <3>2. d \in Seq(Nat)  BY <1>0, <2>1, <2>2, <2>3, <2>4
    <3> QED BY <1>2, <2>1, <2>4, <3>1, <3>2
  <2>5. CASE ~(n <= m)
    <3>1. d = <<>>  BY <1>0, <2>1, <2>2, <2>5
    <3>2. rest = 0 /\ 1 .. rest = {}  BY <1>2, <2>1, <2>5
    <3> QED BY <3>1, <3>2
  <2> QED BY <2>4, <2>5
<1>4. z \in Seq(Nat) /\ Len(z) = k /\ \A i \in 1 .. k : z[i] = 0  BY <1>0, <1>1 DEF Zeros
<1>5. s = d \o z  BY <1>0, <1>1
<1>6. s \in Seq(Nat) /\ Len(s) = rest + k
  <2>1. s \in Seq(Nat)  BY <1>3, <1>4, <1>5
  <2>2. Len(s) = Len(d) + Len(z)  BY <1>3, <1>4, <1>5, ConcatProperties
  <2> QED BY <1>3, <1>4, <2>1, <2>2
<1>7. ASSUME NEW i \in 1 .. Len(s) PROVE (i <= rest => s[i] = seq[n + i]) /\ (i > rest => s[i] = 0)
  <2>1. CASE i <= rest
    <3>1. i \in 1 .. rest  BY <1>2, <1>6, <2>1
    <3>2. s[i] = d[i]  BY <1>3, <1>4, <1>5, <3>1
    <3> QED BY <1>3, <2>1, <3>1, <3>2
  <2>2. CASE ~(i <= rest)
    <3>1. i - rest \in 1 .. k /\ i \in 1 .. rest + k /\ i > rest
      BY <1>0, <1>2, <1>6, <2>2
    <3>2. s[i] = z[i - rest]  BY <1>2, <1>3, <1>4, <1>5, <3>1
    <3> QED BY <1>4, <2>2, <3>1, <3>2
  <2> QED BY <2>1, <2>2
<1> QED BY <1>2, <1>6, <1>7

\* Where there is not less than nothing.
LEMMA MaxOfNone ==
    ASSUME NEW d \in Int
    PROVE  Max({0, d}) \in Nat /\ (d <= 0 => Max({0, d}) = 0) /\ (d > 0 => Max({0, d}) = d)
<1>1. CASE d \in Nat
  <2>1. PICK x : x = Max({0, d})  OBVIOUS
  <2>2. x \in Nat /\ x >= 0 /\ x >= d /\ x \in {0, d}  BY <1>1, <2>1, MaxOfTwo
  <2>3. x \in Nat /\ (d <= 0 => x = 0) /\ (d > 0 => x = d)  BY <2>2
  <2> QED BY <2>1, <2>3
<1>2. CASE d \notin Nat
  <2>1. PICK T : T = {0, d}  OBVIOUS
  <2>2. 0 \in T /\ \A y \in T : 0 >= y  BY <1>2, <2>1
  <2>3. \A y \in T : (\A z \in T : y >= z) => y = 0  BY <1>2, <2>1, <2>2
  <2>4. Max(T) = 0  BY <2>2, <2>3 DEF Max
  <2> QED BY <1>2, <2>1, <2>4
<1> QED BY <1>1, <1>2

\* What is left of the seconds, and how long they are then.
LEMMA ShiftIs ==
    ASSUME NEW start, NEW length, NEW capacity, NEW time, NEW fresh, NEW remove,
           Shift(start, length, capacity, time, fresh, remove),
           NEW rest, NEW from, NEW m, Shifted(start, length, fresh, remove, rest, from, m)
    PROVE  /\ fresh \in Nat /\ remove \in Nat /\ rest \in Nat /\ m \in Nat \ {0} /\ from \in Nat
           /\ from <= time /\ time < from + m /\ from + m >= start + length
           /\ from + rest >= start + length /\ rest + remove >= length
           /\ (rest > 0 => rest + remove = length)
           /\ time - start + 1 <= length + capacity =>
                 /\ m <= capacity
                 /\ from + m = IF time - start < length THEN start + length ELSE time + 1
<1>0. /\ start \in Nat /\ length \in Nat \ {0} /\ capacity \in Nat \ {0} /\ length <= capacity
      /\ time \in Nat /\ time >= start
  BY DEF Shift
<1>1. PICK index : index = time - start  OBVIOUS
<1>2. index \in Nat /\ time = start + index  BY <1>0, <1>1
<1>3. fresh = IF index < length THEN 0 ELSE index + 1 - length  BY <1>0, <1>1 DEF Shift
<1>4. fresh \in Nat  BY <1>0, <1>2, <1>3
<1>5. PICK d : d = length + fresh - capacity  OBVIOUS
<1>6. d \in Int  BY <1>0, <1>4, <1>5
<1>7. remove = Max({0, d})  BY <1>0, <1>5 DEF Shift
<1>8. remove \in Nat /\ (d <= 0 => remove = 0) /\ (d > 0 => remove = d)
  BY <1>0, <1>6, <1>7, MaxOfNone
<1>80. /\ rest = IF remove <= length THEN length - remove ELSE 0
       /\ from = start + remove /\ m = rest + fresh
  BY DEF Left, Shifted
<1>9. CASE index < length
  <2>1. fresh = 0 /\ remove = 0  BY <1>0, <1>3, <1>4, <1>5, <1>8, <1>9
  <2> QED BY <1>0, <1>80, <1>1, <1>2, <1>9, <2>1
<1>10. CASE ~(index < length)
  <2>1. fresh = index + 1 - length  BY <1>0, <1>3, <1>10
  <2>2. CASE d <= 0
    <3>1. remove = 0  BY <1>0, <1>8, <2>2
    <3> QED BY <1>0, <1>80, <1>1, <1>2, <1>4, <1>5, <1>10, <2>1, <2>2, <3>1
  <2>3. CASE d > 0
    <3>1. remove = index + 1 - capacity  BY <1>0, <1>2, <1>5, <1>8, <2>1, <2>3
    <3>2. CASE remove <= length
      <4>1. rest = length - remove /\ m = capacity /\ rest \in Nat
        BY <1>0, <1>80, <1>2, <1>8, <2>1, <3>1, <3>2
      <4> QED BY <1>0, <1>80, <1>1, <1>2, <1>4, <1>8, <1>10, <2>1, <3>1, <3>2, <4>1
    <3>3. CASE ~(remove <= length)
      <4>1. rest = 0 /\ m = fresh  BY <1>0, <1>80, <1>4, <3>3
      <4> QED BY <1>0, <1>80, <1>1, <1>2, <1>4, <1>8, <1>10, <2>1, <3>1, <3>3, <4>1
    <3> QED BY <1>0, <3>2, <3>3
  <2> QED BY <1>0, <1>6, <2>2, <2>3
<1> QED BY <1>0, <1>2, <1>9, <1>10

\* The seconds as they are moved to take a time.
LEMMA SecondsMoved ==
    ASSUME Times \subseteq Nat, NEW f \in [Times -> Nat], NEW start, NEW seconds, SecondsTrue(start, seconds, f),
           NEW length, length = Len(seconds), NEW capacity, NEW time, NEW fresh, NEW remove,
           Shift(start, length, capacity, time, fresh, remove),
           NEW s, NEW from, Sliding(seconds, start, fresh, remove, s, from)
    PROVE  /\ SecondsTrue(from, s, f)
           /\ remove \in Nat /\ from <= time /\ time < from + Len(s) /\ from + Len(s) >= start + length
           /\ time - start + 1 <= length + capacity =>
                 /\ Len(s) <= capacity
                 /\ from + Len(s) = IF time - start < length THEN start + length ELSE time + 1
<1>0. s = DropFirst(seconds, remove) \o Zeros(fresh) /\ from = start + remove
  BY DEF Sliding
<1>1. start \in Nat /\ seconds \in Seq(Nat) /\ length \in Nat \ {0} /\ time \in Nat
  BY DEF SecondsTrue, Shift
<1>2. PICK rest : rest = Left(length, remove)  OBVIOUS
<1>20. PICK w : w = rest + fresh  OBVIOUS
<1>21. Shifted(start, length, fresh, remove, rest, from, w)
  BY <1>0, <1>2, <1>20 DEF Shifted
<1>22. /\ fresh \in Nat /\ remove \in Nat /\ w \in Nat \ {0} /\ from \in Nat
       /\ from <= time /\ time < from + w /\ from + w >= start + length
       /\ from + rest >= start + length /\ (rest > 0 => rest + remove = length)
       /\ time - start + 1 <= length + capacity =>
             /\ w <= capacity
             /\ from + w = IF time - start < length THEN start + length ELSE time + 1
  BY <1>21, ShiftIs
<1>3. fresh \in Nat /\ remove \in Nat  BY <1>22
<1>4. rest = Left(Len(seconds), remove)  BY <1>2
<1>40. Slid(seconds, remove, fresh, s, rest)  BY <1>0, <1>1, <1>3, <1>4 DEF Slid
<1>5. /\ s \in Seq(Nat) /\ rest \in Nat /\ Len(s) = rest + fresh
      /\ \A i \in 1 .. Len(s) : (i <= rest => s[i] = seconds[remove + i]) /\ (i > rest => s[i] = 0)
  <2>1. PICK a, n, k, b, c : a = seconds /\ n = remove /\ k = fresh /\ b = s /\ c = rest
    OBVIOUS
  <2>2. Slid(a, n, k, b, c)  BY <1>40, <2>1
  <2>3. /\ b \in Seq(Nat) /\ c \in Nat /\ Len(b) = c + k
        /\ \A i \in 1 .. Len(b) : (i <= c => b[i] = a[n + i]) /\ (i > c => b[i] = 0)
    BY <2>2, SlidIs
  <2> QED BY <2>1, <2>3
<1>60. PICK m : m = Len(s)  OBVIOUS
<1>6. m = rest + fresh  BY <1>5, <1>60
<1>7. /\ m \in Nat \ {0} /\ from \in Nat
      /\ from <= time /\ time < from + m /\ from + m >= start + length
      /\ from + rest >= start + length /\ (rest > 0 => rest + remove = length)
      /\ time - start + 1 <= length + capacity =>
            /\ m <= capacity
            /\ from + m = IF time - start < length THEN start + length ELSE time + 1
  BY <1>6, <1>20, <1>22
<1>8. \A t \in Times : t >= start + length => f[t] = 0  BY DEF SecondsTrue
<1>9. ASSUME NEW i \in 1 .. Len(s) PROVE s[i] = AtOf(f, Times, from + i - 1)
  <2>1. i \in Nat /\ i >= 1 /\ i <= m  BY <1>60, <1>7
  <2>2. CASE i <= rest
    <3>1. PICK j : j = remove + i  OBVIOUS
    <3>2. j \in 1 .. length /\ from + i - 1 = start + j - 1
      BY <1>0, <1>1, <1>3, <1>5, <1>7, <2>1, <2>2, <3>1
    <3>3. s[i] = seconds[j]  BY <1>5, <2>2, <3>1
    <3>4. seconds[j] = AtOf(f, Times, start + j - 1)  BY <3>2 DEF SecondsTrue
    <3> QED BY <3>2, <3>3, <3>4
  <2>3. CASE ~(i <= rest)
    <3>1. PICK t : t = from + i - 1  OBVIOUS
    <3>2. t >= start + length  BY <1>0, <1>1, <1>3, <1>5, <1>7, <2>1, <2>3, <3>1
    <3>3. AtOf(f, Times, t) = 0  BY <1>8, <3>2 DEF AtOf
    <3> QED BY <1>5, <2>3, <3>1, <3>3
  <2> QED BY <2>2, <2>3
<1>10. ASSUME NEW t \in Times, t >= from + Len(s) PROVE f[t] = 0
  <2>1. t \in Nat /\ t >= start + length  BY <1>1, <1>60, <1>7, <1>10
  <2> QED BY <1>8, <2>1
<1>11. Len(s) > 0  BY <1>60, <1>7
<1> QED BY <1>3, <1>5, <1>60, <1>7, <1>9, <1>10, <1>11 DEF SecondsTrue

\* The seconds of a function with something more at a time of theirs.
LEMMA SecondsPlus ==
    ASSUME Times \subseteq Nat, NEW f \in [Times -> Nat], NEW start, NEW s, SecondsTrue(start, s, f),
           NEW time \in Times, start <= time, time < start + Len(s), NEW x \in Nat,
           NEW g, g = MoreAt(f, time, x), NEW at, at = time - start + 1, NEW r, r = MoreAt(s, at, x)
    PROVE  g \in [Times -> Nat] /\ SecondsTrue(start, r, g) /\ Len(r) = Len(s)
<1>1. start \in Nat /\ s \in Seq(Nat) /\ time \in Nat /\ Len(s) > 0  BY DEF SecondsTrue
<1>2. PICK n : n = Len(s)  OBVIOUS
<1>3. n \in Nat /\ at \in 1 .. n  BY <1>1, <1>2
<1>4. r \in Seq(Nat) /\ Len(r) = n  BY <1>1, <1>2, <1>3 DEF MoreAt
<1>5. g \in [Times -> Nat]  BY DEF MoreAt
<1>6. ASSUME NEW i \in 1 .. Len(r) PROVE r[i] = AtOf(g, Times, start + i - 1)
  <2>1. i \in 1 .. n /\ i \in 1 .. Len(s)  BY <1>2, <1>4
  <2>2. s[i] = AtOf(f, Times, start + i - 1)  BY <2>1 DEF SecondsTrue
  <2>3. CASE i = at
    <3>1. start + i - 1 = time  BY <1>1, <2>3
    <3>2. r[i] = s[i] + x  BY <1>1, <1>2, <1>3, <2>3 DEF MoreAt
    <3>3. s[i] = f[time] /\ g[time] = f[time] + x  BY <2>2, <3>1 DEF AtOf, MoreAt
    <3>4. AtOf(g, Times, time) = g[time]  BY DEF AtOf
    <3> QED BY <3>1, <3>2, <3>3, <3>4
  <2>4. CASE i # at
    <3>1. PICK t : t = start + i - 1  OBVIOUS
    <3>2. t # time  BY <1>1, <1>3, <2>1, <2>4, <3>1
    <3>3. r[i] = s[i]  BY <1>1, <1>2, <1>3, <2>1, <2>4 DEF MoreAt
    <3>4. AtOf(g, Times, t) = AtOf(f, Times, t)  BY <3>2 DEF AtOf, MoreAt
    <3> QED BY <2>2, <3>1, <3>3, <3>4
  <2> QED BY <2>3, <2>4
<1>7. ASSUME NEW t \in Times, t >= start + Len(r) PROVE g[t] = 0
  <2>1. t \in Nat /\ t # time /\ t >= start + Len(s)  BY <1>1, <1>2, <1>3, <1>4, <1>7
  <2>2. f[t] = 0  BY <2>1 DEF SecondsTrue
  <2> QED BY <2>1, <2>2 DEF MoreAt
<1>8. Len(r) > 0 /\ Len(r) = Len(s)  BY <1>1, <1>2, <1>4
<1> QED BY <1>1, <1>4, <1>5, <1>6, <1>7, <1>8 DEF SecondsTrue

--------------------------------------------------------------------------------
(* The units of the graph. *)

\* The end of the unit that the last second before e is in.
LEMMA CeilingIs ==
    ASSUME NEW e \in Nat \ {0}, NEW u \in Nat \ {0}, NEW q, q = (e - 1) \div u
    PROVE  q \in Nat /\ q * u <= e - 1 /\ e - 1 < q * u + u /\ Ceiling(e, u) = (q + 1) * u
<1>1. q \in Int /\ q * u <= e - 1 /\ e - 1 < q * u + u  BY Divided
<1>2. PICK r, t, m : r = q + 1 /\ t = e + u - 1 /\ m = q * u  OBVIOUS
<1>3. q \in Nat
  <2>1. e - 1 \in Nat  OBVIOUS
  <2> QED BY <2>1
<1>4. r * u = m + u /\ m \in Int /\ r \in Int /\ t \in Int  BY <1>1, <1>2
<1>5. r * u <= t /\ t < r * u + u  BY <1>1, <1>2, <1>4
<1>6. t \div u = r  BY <1>4, <1>5, InUnit
<1> QED BY <1>1, <1>2, <1>3, <1>6 DEF Ceiling, Floor

\* A number of units.
LEMMA UnitsApart ==
    ASSUME NEW m \in Int, NEW k \in Int, NEW u \in Nat \ {0}
    PROVE  m * u - k * u = (m - k) * u /\ m * u + k * u = (m + k) * u /\ (m * u - k * u) \div u = m - k
<1>1. m * u - k * u = (m - k) * u /\ m * u + k * u = (m + k) * u  OBVIOUS
<1>2. PICK d, t : d = m - k /\ t = d * u  OBVIOUS
<1>3. d \in Int /\ t \in Int /\ d * u <= t /\ t < d * u + u  BY <1>2
<1>4. t \div u = d  BY <1>3, InUnit
<1> QED BY <1>1, <1>2, <1>4

\* They are as many as are needed, no less than are left.
LEMMA DroppingIs ==
    ASSUME NEW unit, NEW q, NEW s, NEW len, NEW end, NEW from, NEW e, NEW drop, NEW s2, NEW n,
           Dropping(unit, q, s, len, end, from, e, drop, s2, n)
    PROVE  /\ drop \in Nat /\ q + drop \in Nat /\ s2 = (q + drop) * unit /\ s2 <= from
           /\ n \in Nat \ {0} /\ (q + drop) + n = (e - 1) \div unit + 1
           /\ Left(len, drop) \in Nat /\ n >= Left(len, drop)
<1>1. /\ unit \in Nat \ {0} /\ q \in Nat /\ s = q * unit /\ s <= from /\ from \in Nat
      /\ len \in Nat /\ end \in Nat \ {0} /\ q + len = (end - 1) \div unit + 1
      /\ e \in Nat /\ e > from /\ e >= end
  BY DEF Dropping
<1>2. /\ drop = IF from <= s + unit THEN 0 ELSE (from - s - 1) \div unit
      /\ s2 = s + drop * unit /\ n = (Ceiling(e, unit) - s2) \div unit
  BY DEF Dropping
<1>3. s \in Nat  BY <1>1
<1>4. drop \in Nat /\ s + drop * unit <= from
  <2>1. CASE from <= s + unit
    <3>1. drop = 0  BY <1>2, <2>1
    <3>2. 0 * unit = 0  BY <1>1
    <3> QED BY <1>1, <1>3, <3>1, <3>2
  <2>2. CASE ~(from <= s + unit)
    <3>1. PICK t : t = from - s - 1  OBVIOUS
    <3>2. t \in Nat  BY <1>1, <1>3, <2>2, <3>1
    <3>3. drop = t \div unit  BY <1>2, <2>2, <3>1
    <3>4. drop \in Nat  BY <1>1, <3>2, <3>3
    <3>5. drop * unit <= t  BY <1>1, <3>2, <3>3, Divided
    <3>6. PICK m : m = drop * unit  OBVIOUS
    <3>7. m \in Nat  BY <1>1, <3>4, <3>6
    <3> QED BY <1>1, <1>3, <3>1, <3>4, <3>5, <3>6, <3>7
  <2> QED BY <2>1, <2>2
<1>5. PICK p, b, c : p = q + drop /\ b = (e - 1) \div unit /\ c = (end - 1) \div unit
  OBVIOUS
<1>6. p \in Nat /\ s2 = p * unit /\ s2 <= from  BY <1>1, <1>2, <1>4, <1>5, UnitsApart
<1>7. e \in Nat \ {0}  BY <1>1
<1>8. b \in Nat /\ b * unit <= e - 1 /\ e - 1 < b * unit + unit /\ Ceiling(e, unit) = (b + 1) * unit
  BY <1>1, <1>5, <1>7, CeilingIs
<1>9. c \in Nat /\ c * unit <= end - 1 /\ end - 1 < c * unit + unit
  BY <1>1, <1>5, CeilingIs
<1>10. n = b + 1 - p
  <2>1. PICK r : r = b + 1  OBVIOUS
  <2>2. r \in Int /\ p \in Int  BY <1>6, <1>8, <2>1
  <2>3. n = (r * unit - p * unit) \div unit  BY <1>2, <1>6, <1>8, <2>1
  <2>4. (r * unit - p * unit) \div unit = r - p  BY <1>1, <2>2, UnitsApart
  <2>5. n = r - p  BY <2>3, <2>4
  <2> QED BY <1>6, <1>8, <2>1, <2>5
<1>11. p <= b
  <2>1. PICK x, y : x = p * unit /\ y = b * unit  OBVIOUS
  <2>2. x \in Nat /\ y \in Nat /\ x < y + unit  BY <1>1, <1>6, <1>8, <2>1
  <2>3. (b + 1) * unit = y + unit  BY <1>1, <1>8, <2>1
  <2>4. CASE b + 1 <= p
    <3>1. (b + 1) * unit <= p * unit  BY <1>1, <1>6, <1>8, <2>4, Apart
    <3> QED BY <2>1, <2>2, <2>3, <3>1, <1>1
  <2> QED BY <1>6, <1>8, <2>4
<1>12. c <= b
  <2>1. PICK x, y : x = c * unit /\ y = b * unit  OBVIOUS
  <2>2. x \in Nat /\ y \in Nat /\ x < y + unit  BY <1>1, <1>8, <1>9, <2>1
  <2>3. (b + 1) * unit = y + unit  BY <1>1, <1>8, <2>1
  <2>4. CASE b + 1 <= c
    <3>1. (b + 1) * unit <= c * unit  BY <1>1, <1>8, <1>9, <2>4, Apart
    <3> QED BY <2>1, <2>2, <2>3, <3>1, <1>1
  <2> QED BY <1>8, <1>9, <2>4
<1>13. Left(len, drop) \in Nat /\ (Left(len, drop) = 0 \/ Left(len, drop) = len - drop)
  BY <1>1, <1>4 DEF Left
<1>14. q + len = c + 1  BY <1>1, <1>5
<1>15. n \in Nat \ {0} /\ p + n = b + 1 /\ n >= Left(len, drop)
  BY <1>1, <1>4, <1>5, <1>6, <1>8, <1>9, <1>10, <1>11, <1>12, <1>13, <1>14
<1> QED BY <1>4, <1>5, <1>6, <1>13, <1>15

\* Nothing recorded, no sum.
LEMMA StretchNone ==
    ASSUME Times \subseteq Nat, NEW f \in [Times -> Nat], NEW p \in Int, NEW n \in Nat,
           \A t \in Times : t >= p => f[t] = 0
    PROVE  Stretch(f, Times, p, n) = 0
<1>1. Times \in SUBSET Int  OBVIOUS
<1>2. ASSUME NEW i \in 0 .. 0 + n - 1 PROVE AtOf(f, Times, p + i) = 0
  <2>1. PICK t : t = p + i  OBVIOUS
  <2>2. t >= p  BY <2>1
  <2> QED BY <2>1, <2>2 DEF AtOf
<1>3. Stretch(f, Times, p, 0 + n) = Stretch(f, Times, p, 0)  BY <1>1, <1>2, StretchEnds
<1>4. Stretch(f, Times, p, 0) = 0  BY <1>1, StretchStep
<1>5. 0 + n = n  OBVIOUS
<1> QED BY <1>3, <1>4, <1>5

\* The units moved on are right.
LEMMA UnitsMovedTrue ==
    ASSUME Times \subseteq Nat, NEW f \in [Times -> Nat], NEW start, NEW end, NEW units, NEW unitStart, NEW unit,
           UnitsTrue(start, end, units, unitStart, unit, f), \A t \in Times : t >= end => f[t] = 0,
           NEW from \in Nat, start <= from, NEW e \in Nat, from < e, end <= e,
           NEW drop, NEW s2, NEW rest, NEW n, NEW moved,
           Moving(units, unitStart, unit, from, e, drop, s2, rest, n, moved)
    PROVE  UnitsTrue(from, e, moved, s2, unit, f) /\ Len(moved) > 0
<1>1. unit \in Nat \ {0} /\ units \in Seq(Nat) /\ start \in Nat /\ end \in Nat /\ start < end
  BY DEF UnitsTrue
<1>2. PICK q \in Nat : unitStart = q * unit /\ unitStart <= start
                       /\ q + Len(units) = (end - 1) \div unit + 1
  BY DEF UnitsTrue
<1>3. PICK len : len = Len(units)  OBVIOUS
<1>4. len \in Nat /\ unitStart \in Nat /\ end \in Nat \ {0} /\ unitStart <= from
  BY <1>1, <1>2, <1>3
<1>5. Dropping(unit, q, unitStart, len, end, from, e, drop, s2, n)
  BY <1>1, <1>2, <1>3, <1>4 DEF Dropping, Moving
<1>6. /\ drop \in Nat /\ q + drop \in Nat /\ s2 = (q + drop) * unit /\ s2 <= from
      /\ n \in Nat \ {0} /\ (q + drop) + n = (e - 1) \div unit + 1
      /\ Left(len, drop) \in Nat /\ n >= Left(len, drop)
  BY <1>5, DroppingIs
<1>7. PICK k, l : k = n - Left(len, drop) /\ l = Left(len, drop)  OBVIOUS
<1>8. Len(rest) = l
  <2>0. rest = DropFirst(units, drop)  BY DEF Moving
  <2>1. PICK z : z = rest \o Zeros(0)  OBVIOUS
  <2>2. Slid(units, drop, 0, z, l)  BY <1>1, <1>3, <1>6, <1>7, <2>0, <2>1 DEF Slid
  <2>3. Len(z) = l + 0  BY <2>2, SlidIs
  <2>4. rest \in Seq(Nat)
    <3>1. rest = SubSeq(units, drop + 1, len)  BY <1>3 DEF DropFirst, Moving
    <3>2. \A i \in drop + 1 .. len : units[i] \in Nat  BY <1>1, <1>3, <1>6
    <3> QED BY <1>1, <1>4, <1>6, <3>1, <3>2
  <2>5. Zeros(0) = <<>>  BY DEF Zeros
  <2>6. z = rest  BY <2>1, <2>4, <2>5
  <2> QED BY <1>6, <1>7, <2>3, <2>6
<1>9. k \in Nat /\ (IF n > Len(rest) THEN n - Len(rest) ELSE 0) = k /\ l \in Nat /\ l + k = n
  BY <1>6, <1>7, <1>8
<1>91. moved = rest \o Zeros(k)  BY <1>9 DEF Moving
<1>92. rest = DropFirst(units, drop)  BY DEF Moving
<1>10. Slid(units, drop, k, moved, l)
  BY <1>1, <1>3, <1>6, <1>7, <1>9, <1>91, <1>92 DEF Slid
<1>11. /\ moved \in Seq(Nat) /\ Len(moved) = n
       /\ \A i \in 1 .. n : (i <= l => moved[i] = units[drop + i]) /\ (i > l => moved[i] = 0)
  <2>1. PICK a, d, m, b, c : a = units /\ d = drop /\ m = k /\ b = moved /\ c = l  OBVIOUS
  <2>2. Slid(a, d, m, b, c)  BY <1>10, <2>1
  <2>3. /\ b \in Seq(Nat) /\ Len(b) = c + m
        /\ \A i \in 1 .. Len(b) : (i <= c => b[i] = a[d + i]) /\ (i > c => b[i] = 0)
    BY <2>2, SlidIs
  <2> QED BY <1>9, <2>1, <2>3
<1>12. ASSUME NEW j \in 1 .. Len(moved), s2 + (j - 1) * unit >= from
       PROVE  moved[j] = Stretch(f, Times, s2 + (j - 1) * unit, unit)
  <2>0. j \in 1 .. n /\ j \in Nat  BY <1>6, <1>11
  <2>1. PICK h, o, i : h = j - 1 /\ i = drop + j /\ o = i - 1  OBVIOUS
  <2>2. h \in Nat /\ o \in Nat /\ i \in Nat /\ o = drop + h  BY <1>6, <2>0, <2>1
  <2>3. PICK p : p = s2 + (j - 1) * unit  OBVIOUS
  <2>4. p = unitStart + o * unit /\ o * unit \in Nat
    <3>1. drop * unit + h * unit = (drop + h) * unit  BY <1>1, <1>6, <2>2, UnitsApart
    <3>2. PICK x, y : x = drop * unit /\ y = h * unit  OBVIOUS
    <3>3. x \in Nat /\ y \in Nat  BY <1>1, <1>6, <2>2, <3>2
    <3>4. p = unitStart + x + y  BY <2>1, <2>3, <3>2 DEF Moving
    <3>5. o * unit = x + y  BY <2>2, <3>1, <3>2
    <3> QED BY <1>4, <3>3, <3>4, <3>5
  <2>5. p >= from /\ p \in Nat  BY <1>4, <1>12, <2>3, <2>4
  <2>6. CASE j <= l
    <3>1. i \in 1 .. len /\ i \in 1 .. Len(units)
      BY <1>3, <1>4, <1>6, <1>7, <2>0, <2>1, <2>6 DEF Left
    <3>2. unitStart + (i - 1) * unit = p  BY <2>1, <2>4
    <3>3. p >= start  BY <1>1, <2>5
    <3>4. units[i] = Stretch(f, Times, p, unit)  BY <3>1, <3>2, <3>3 DEF UnitsTrue
    <3>5. moved[j] = units[i]  BY <1>11, <2>0, <2>1, <2>6
    <3> QED BY <2>3, <3>4, <3>5
  <2>7. CASE ~(j <= l)
    <3>1. o >= len  BY <1>4, <1>6, <1>7, <2>0, <2>1, <2>7 DEF Left
    <3>2. PICK c, w : c = (end - 1) \div unit /\ w = q + len  OBVIOUS
    <3>3. c \in Nat /\ end - 1 < c * unit + unit /\ w = c + 1
      BY <1>1, <1>2, <1>3, <1>4, <3>2, CeilingIs
    <3>4. w * unit = c * unit + unit  BY <1>1, <3>3
    <3>5. end <= w * unit
      <4>1. PICK x : x = c * unit  OBVIOUS
      <4>2. x \in Nat  BY <1>1, <3>3, <4>1
      <4> QED BY <1>1, <3>3, <3>4, <4>1, <4>2
    <3>6. PICK v : v = q + o  OBVIOUS
    <3>7. v \in Nat /\ w \in Nat /\ w <= v  BY <1>4, <2>2, <3>1, <3>2, <3>6
    <3>8. w * unit <= v * unit  BY <1>1, <3>7, Apart
    <3>9. v * unit = q * unit + o * unit  BY <1>1, <2>2, <3>6, UnitsApart
    <3>10. p = v * unit  BY <1>2, <2>4, <3>9
    <3>11. p >= end
      <4>1. PICK x : x = w * unit  OBVIOUS
      <4>2. x \in Nat  BY <1>1, <3>7, <4>1
      <4> QED BY <1>1, <2>5, <3>5, <3>8, <3>10, <4>1, <4>2
    <3>12. \A t \in Times : t >= p => f[t] = 0  BY <1>1, <2>5, <3>11
    <3>13. Stretch(f, Times, p, unit) = 0
      <4>1. p \in Int /\ unit \in Nat  BY <1>1, <2>5
      <4> QED BY <3>12, <4>1, StretchNone
    <3>14. moved[j] = 0  BY <1>9, <1>11, <2>0, <2>7
    <3> QED BY <2>3, <3>13, <3>14
  <2> QED BY <2>6, <2>7
<1>13. Len(moved) > 0  BY <1>6, <1>11
<1>14. PICK r : r = q + drop  OBVIOUS
<1>15. r \in Nat /\ s2 = r * unit /\ s2 <= from /\ r + Len(moved) = (e - 1) \div unit + 1
  BY <1>6, <1>11, <1>14
<1>16. \E x \in Nat : s2 = x * unit /\ s2 <= from /\ x + Len(moved) = (e - 1) \div unit + 1
  BY <1>15
<1> QED BY <1>1, <1>11, <1>12, <1>13, <1>16 DEF UnitsTrue

\* The units with something more at a time of theirs.
LEMMA UnitsPlus ==
    ASSUME Times \subseteq Nat, NEW f \in [Times -> Nat], NEW from, NEW e, NEW units, NEW unitStart, NEW unit,
           UnitsTrue(from, e, units, unitStart, unit, f),
           NEW time \in Times, from <= time, time < e, NEW x \in Nat,
           NEW g, g = MoreAt(f, time, x), NEW at, at = AtUnit(unitStart, unit, time),
           NEW r, r = MoreAt(units, at, x)
    PROVE  UnitsTrue(from, e, r, unitStart, unit, g) /\ Len(r) = Len(units)
<1>1. unit \in Nat \ {0} /\ units \in Seq(Nat) /\ from \in Nat /\ e \in Nat /\ from < e
  BY DEF UnitsTrue
<1>0. unit \in Nat \ {0} /\ from \in Nat /\ e \in Nat /\ e \in Nat \ {0}  BY <1>1
<1>2. PICK q \in Nat : unitStart = q * unit /\ unitStart <= from
                       /\ q + Len(units) = (e - 1) \div unit + 1
  BY DEF UnitsTrue
<1>3. PICK len : len = Len(units)  OBVIOUS
<1>4. len \in Nat /\ unitStart \in Nat /\ time \in Nat /\ unitStart <= time
  BY <1>1, <1>2, <1>3
<1>5. PICK d : d = (time - unitStart) \div unit  OBVIOUS
<1>6. d \in Nat /\ d * unit <= time - unitStart /\ time - unitStart < d * unit + unit
  <2>1. PICK t : t = time - unitStart  OBVIOUS
  <2>2. t \in Nat  BY <1>4, <2>1
  <2>3. d * unit <= t /\ t < d * unit + unit
    <3>1. t \in Int /\ d = t \div unit  BY <1>5, <2>1, <2>2
    <3>2. (t \div unit) * unit <= t /\ t < (t \div unit) * unit + unit
      BY <1>0, <3>1, Divided
    <3> QED BY <3>1, <3>2
  <2>4. d \in Nat  BY <1>0, <1>5, <2>1, <2>2
  <2> QED BY <2>1, <2>3, <2>4
<1>7. at = d + 1  BY <1>5 DEF AtUnit
<1>8. at \in 1 .. len
  <2>1. PICK b : b = (e - 1) \div unit  OBVIOUS
  <2>2. b \in Nat /\ e - 1 < b * unit + unit /\ q + len = b + 1
    BY <1>0, <1>2, <1>3, <2>1, CeilingIs
  <2>3. PICK v, w : v = q + d /\ w = q + len  OBVIOUS
  <2>4. v * unit = q * unit + d * unit /\ w * unit = b * unit + unit
    BY <1>1, <1>6, <2>2, <2>3, UnitsApart
  <2>5. PICK m, n : m = v * unit /\ n = w * unit  OBVIOUS
  <2>6. m \in Nat /\ n \in Nat /\ v \in Nat /\ w \in Nat  BY <1>1, <1>4, <1>6, <2>3, <2>5
  <2>7. m <= time
    <3>1. PICK y : y = d * unit  OBVIOUS
    <3>2. y \in Nat  BY <1>1, <1>6, <3>1
    <3>3. m = unitStart + y  BY <1>2, <2>4, <2>5, <3>1
    <3> QED BY <1>4, <1>6, <3>1, <3>2, <3>3
  <2>8. time < n
    <3>1. PICK y : y = b * unit  OBVIOUS
    <3>2. y \in Nat  BY <1>1, <2>2, <3>1
    <3> QED BY <1>1, <1>4, <2>2, <2>4, <2>5, <3>1, <3>2
  <2>9. CASE w <= v
    <3>1. n <= m  BY <1>1, <2>5, <2>6, <2>9, Apart
    <3> QED BY <1>4, <2>6, <2>7, <2>8, <3>1
  <2> QED BY <1>4, <1>6, <1>7, <2>3, <2>6, <2>9
<1>9. r \in Seq(Nat) /\ Len(r) = len  BY <1>1, <1>3, <1>4, <1>8 DEF MoreAt
<1>10. g \in [Times -> Nat]  BY DEF MoreAt
<1>11. ASSUME NEW j \in 1 .. Len(r), unitStart + (j - 1) * unit >= from
       PROVE  r[j] = Stretch(g, Times, unitStart + (j - 1) * unit, unit)
  <2>1. j \in 1 .. len /\ j \in 1 .. Len(units) /\ j \in Nat  BY <1>3, <1>4, <1>9
  <2>2. PICK h, y, p : h = j - 1 /\ y = (j - 1) * unit /\ p = unitStart + y  OBVIOUS
  <2>3. h \in Nat /\ y = h * unit  BY <2>1, <2>2
  <2>4. y \in Nat /\ p \in Nat  BY <1>0, <1>4, <2>2, <2>3
  <2>5. units[j] = Stretch(f, Times, p, unit)  BY <1>11, <2>1, <2>2 DEF UnitsTrue
  <2>6. Stretch(g, Times, p, unit)
          = Stretch(f, Times, p, unit) + (IF time \in p .. p + unit - 1 THEN x ELSE 0)
    <3>1. Times \in SUBSET Int /\ p \in Int /\ unit \in Nat  BY <1>1, <2>4
    <3>2. PICK G : G = g  OBVIOUS
    <3>3. G = MoreAt(f, time, x)  BY <3>2
    <3>4. Stretch(G, Times, p, unit) = Stretch(f, Times, p, unit) + (IF time \in p .. p + unit - 1 THEN x ELSE 0)
      BY <3>1, <3>3, StretchPlus
    <3> QED BY <3>2, <3>4
  <2>7. time \in p .. p + unit - 1 <=> j = at
    <3>1. PICK t : t = time - unitStart  OBVIOUS
    <3>2. t \in Nat /\ time = unitStart + t  BY <1>4, <3>1
    <3>3. ASSUME time \in p .. p + unit - 1 PROVE j = at
      <4>1. y <= t /\ t < y + unit  BY <1>1, <1>4, <2>2, <2>4, <3>2, <3>3
      <4>2. t \div unit = h
        <5>1. h \in Int /\ t \in Int /\ h * unit <= t /\ t < h * unit + unit
          BY <2>3, <3>2, <4>1
        <5> QED BY <1>0, <5>1, InUnit
      <4> QED BY <1>5, <1>7, <2>1, <2>2, <3>1, <4>2
    <3>4. ASSUME j = at PROVE time \in p .. p + unit - 1
      <4>1. h = d  BY <1>6, <1>7, <2>1, <2>2, <3>4
      <4>2. y <= t /\ t < y + unit  BY <1>6, <2>3, <3>1, <4>1
      <4> QED BY <1>1, <1>4, <2>2, <2>4, <3>2, <4>2
    <3> QED BY <3>3, <3>4
  <2>8. units[j] \in Nat  BY <1>1, <2>1
  <2>9. CASE j = at
    <3>1. r[j] = units[j] + x  BY <1>1, <1>3, <1>4, <2>1, <2>9 DEF MoreAt
    <3> QED BY <2>2, <2>5, <2>6, <2>7, <2>9, <3>1
  <2>10. CASE j # at
    <3>1. r[j] = units[j]  BY <1>1, <1>3, <1>4, <2>1, <2>10 DEF MoreAt
    <3>2. PICK z : z = Stretch(f, Times, p, unit)  OBVIOUS
    <3>3. z \in Nat /\ Stretch(g, Times, p, unit) = z + 0
      BY <2>5, <2>6, <2>7, <2>8, <2>10, <3>2
    <3> QED BY <2>2, <2>5, <3>1, <3>2, <3>3
  <2> QED BY <2>9, <2>10
<1>12. \E y \in Nat : unitStart = y * unit /\ unitStart <= from /\ y + Len(r) = (e - 1) \div unit + 1
  BY <1>2, <1>3, <1>9
<1> QED BY <1>1, <1>3, <1>9, <1>11, <1>12 DEF UnitsTrue

--------------------------------------------------------------------------------
(* The units summed up again. *)

\* The seconds of a unit that begins in the history.
LEMMA SecondsOfUnit ==
    ASSUME Times \subseteq Nat, NEW f \in [Times -> Nat], NEW start, NEW seconds, SecondsTrue(start, seconds, f),
           NEW unit \in Nat \ {0}, NEW unitStart \in Nat, NEW h \in Nat,
           NEW p, p = unitStart + h * unit, p >= start,
           NEW S, S = SecondsIn(start, seconds, unitStart, unit, h)
    PROVE  SumOver(seconds, S) = Stretch(f, Times, p, unit)
<1>1. start \in Nat /\ seconds \in Seq(Nat)  BY DEF SecondsTrue
<1>2. PICK L, D, b, y : L = Len(seconds) /\ D = 1 .. L /\ b = p - start + 1 /\ y = h * unit
  OBVIOUS
<1>3. y \in Nat  BY <1>2
<1>4. L \in Nat /\ p \in Nat /\ b \in Nat /\ b >= 1 /\ p = unitStart + y
  BY <1>1, <1>2, <1>3
<1>5. seconds \in [D -> Nat] /\ D \in SUBSET Int  BY <1>1, <1>2, <1>4
<1>6. S = D \cap (b .. b + unit - 1)
  <2>1. ASSUME NEW i \in D PROVE (start + i - 1 - unitStart) \div unit = h <=> i \in b .. b + unit - 1
    <3>1. PICK t : t = start + i - 1 - unitStart  OBVIOUS
    <3>2. i \in Nat /\ t \in Int  BY <1>1, <1>2, <1>4, <3>1
    <3>3. i \in b .. b + unit - 1 <=> h * unit <= t /\ t < h * unit + unit
      BY <1>1, <1>2, <1>3, <1>4, <3>1, <3>2
    <3>4. t \div unit = h => h * unit <= t /\ t < h * unit + unit  BY <3>2, Divided
    <3>5. h * unit <= t /\ t < h * unit + unit => t \div unit = h  BY <3>2, InUnit
    <3> QED BY <3>1, <3>3, <3>4, <3>5
  <2> QED BY <1>2, <2>1 DEF SecondsIn
<1>7. SumOver(seconds, S) = Stretch(seconds, D, b, unit)  BY <1>6 DEF Stretch
<1>8. ASSUME NEW i \in 0 .. unit - 1
      PROVE  AtOf(f, Times, p + i) = AtOf(seconds, D, b + i)
  <2>1. PICK k, t : k = b + i /\ t = p + i  OBVIOUS
  <2>2. k \in Nat /\ k >= 1 /\ t \in Nat /\ t = start + k - 1  BY <1>1, <1>2, <1>4, <2>1
  <2>3. CASE k \in D
    <3>1. seconds[k] = AtOf(f, Times, start + k - 1)  BY <1>2, <2>3 DEF SecondsTrue
    <3> QED BY <2>1, <2>2, <2>3, <3>1 DEF AtOf
  <2>4. CASE k \notin D
    <3>1. t >= start + Len(seconds)  BY <1>1, <1>2, <1>4, <2>2, <2>4
    <3>2. \A z \in Times : z >= start + Len(seconds) => f[z] = 0  BY DEF SecondsTrue
    <3>3. AtOf(f, Times, t) = 0  BY <3>1, <3>2 DEF AtOf
    <3>4. AtOf(seconds, D, k) = 0  BY <2>4 DEF AtOf
    <3> QED BY <2>1, <3>3, <3>4
  <2> QED BY <2>3, <2>4
<1>9. Stretch(f, Times, p, unit) = Stretch(seconds, D, b, unit)
  <2>1. Times \in SUBSET Int /\ p \in Int /\ b \in Int /\ unit \in Nat  BY <1>4
  <2>2. SameIn(f, Times, p, seconds, D, b, unit)  BY <1>8 DEF SameIn
  <2> QED BY <1>5, <2>1, <2>2, StretchSame
<1> QED BY <1>7, <1>9

\* The sums taken again are right.
LEMMA SummedTrue ==
    ASSUME Times \subseteq Nat, NEW f \in [Times -> Nat], NEW start, NEW seconds, SecondsTrue(start, seconds, f),
           NEW unit \in Nat \ {0}, NEW unitStart, NEW n, NEW units,
           Summed(start, seconds, unit, unitStart, n, units)
    PROVE  UnitsTrue(start, start + Len(seconds), units, unitStart, unit, f)
<1>1. start \in Nat /\ seconds \in Seq(Nat) /\ Len(seconds) > 0  BY DEF SecondsTrue
<1>2. PICK q, e, b : q = start \div unit /\ e = start + Len(seconds) /\ b = (e - 1) \div unit
  OBVIOUS
<1>3. q \in Nat /\ unitStart = q * unit /\ unitStart <= start /\ unitStart \in Nat
  <2>1. q \in Nat  BY <1>1, <1>2
  <2>2. q * unit <= start  BY <1>1, <1>2, Divided
  <2>3. unitStart = q * unit  BY <1>2 DEF Summed, Floor
  <2>4. q * unit \in Nat  BY <2>1
  <2> QED BY <2>1, <2>2, <2>3, <2>4
<1>4. e \in Nat \ {0} /\ e - 1 >= start
  <2>1. PICK l : l = Len(seconds)  OBVIOUS
  <2>2. l \in Nat \ {0} /\ e = start + l  BY <1>1, <1>2, <2>1
  <2> QED BY <1>1, <2>2
<1>5. b \in Nat /\ b * unit <= e - 1 /\ e - 1 < b * unit + unit /\ Ceiling(e, unit) = (b + 1) * unit
  BY <1>2, <1>4, CeilingIs
<1>6. PICK r : r = b + 1  OBVIOUS
<1>7. r \in Nat /\ n = r - q
  <2>1. n = (r * unit - q * unit) \div unit  BY <1>2, <1>3, <1>5, <1>6 DEF Summed
  <2>2. r \in Int /\ q \in Int /\ r \in Nat  BY <1>3, <1>5, <1>6
  <2>3. (r * unit - q * unit) \div unit = r - q  BY <2>2, UnitsApart
  <2> QED BY <2>1, <2>2, <2>3
<1>8. q < r
  <2>1. PICK x, y : x = q * unit /\ y = r * unit  OBVIOUS
  <2>2. y = b * unit + unit  BY <1>5, <1>6, <2>1
  <2>3. PICK z : z = b * unit  OBVIOUS
  <2>4. x \in Nat /\ y \in Nat /\ z \in Nat  BY <1>3, <1>5, <1>7, <2>1, <2>3
  <2>5. x < y  BY <1>1, <1>3, <1>4, <1>5, <2>1, <2>2, <2>3, <2>4
  <2>6. CASE r <= q
    <3>1. y <= x  BY <1>3, <1>7, <2>1, <2>6, Apart
    <3> QED BY <2>4, <2>5, <3>1
  <2> QED BY <1>3, <1>7, <2>6
<1>9. n \in Nat \ {0}  BY <1>3, <1>7, <1>8
<1> DEFINE In(j) == {i \in 1 .. Len(seconds) : (start + i - 1 - unitStart) \div unit = j - 1}
<1>10. units = [j \in 1 .. n |-> SumOver(seconds, In(j))]  BY DEF Summed, SumOver
<1>11. ASSUME NEW j \in 1 .. n PROVE SumOver(seconds, In(j)) \in Nat
  <2>1. PICK S : S = In(j)  OBVIOUS
  <2>2. S \subseteq 1 .. Len(seconds)  BY <2>1
  <2>3. IsFiniteSet(S)
    <3>1. IsFiniteSet(1 .. Len(seconds))
      <4>1. Len(seconds) \in Int /\ 1 \in Int  BY <1>1
      <4> QED BY <4>1, FS_Interval
    <3> QED BY <2>2, <3>1, FS_Subset
  <2>4. \A i \in S : seconds[i] \in Nat  BY <1>1, <2>2
  <2> QED BY <2>1, <2>3, <2>4, SumNat
<1>12. units \in Seq(Nat) /\ Len(units) = n
  <2> HIDE DEF In
  <2> QED BY <1>9, <1>10, <1>11
<1>13. ASSUME NEW j \in 1 .. Len(units), unitStart + (j - 1) * unit >= start
       PROVE  units[j] = Stretch(f, Times, unitStart + (j - 1) * unit, unit)
  <2>1. j \in 1 .. n  BY <1>12
  <2>2. PICK h, S : h = j - 1 /\ S = In(j)  OBVIOUS
  <2>3. h \in Nat  BY <1>9, <2>1, <2>2
  <2>4. S = SecondsIn(start, seconds, unitStart, unit, h)  BY <2>2 DEF SecondsIn
  <2>5. PICK p : p = unitStart + h * unit  OBVIOUS
  <2>6. p >= start  BY <1>13, <2>2, <2>5
  <2>7. SumOver(seconds, S) = Stretch(f, Times, p, unit)
    BY <1>3, <2>3, <2>4, <2>5, <2>6, SecondsOfUnit
  <2>8. units[j] = SumOver(seconds, S)
    <3> HIDE DEF In
    <3> QED BY <1>10, <2>1, <2>2
  <2> QED BY <2>2, <2>5, <2>7, <2>8
<1>14. q + Len(units) = (e - 1) \div unit + 1  BY <1>2, <1>3, <1>5, <1>6, <1>7, <1>12
<1>15. start < e /\ e \in Nat  BY <1>1, <1>4
<1> QED BY <1>1, <1>2, <1>3, <1>12, <1>13, <1>14, <1>15 DEF UnitsTrue

--------------------------------------------------------------------------------
(* The tracker. *)

\* A tracker with its fields, and one that gets some of them anew.
LEMMA TrackerFields ==
    ASSUME NEW t \in Trackers
    PROVE  /\ t.start \in Nat /\ t.seconds \in Seq(Nat) /\ t.capacity \in Nat \ {0}
           /\ t.unitStart \in Nat /\ t.units \in Seq(Nat) /\ t.unit \in Units
  BY DEF Trackers

\* It has them then, and the rest as before.
LEMMA UnitsSetIs ==
    ASSUME NEW t \in Trackers, NEW unit \in Units, NEW unitStart \in Nat, NEW units \in Seq(Nat),
           NEW u, UnitsSet(t, unit, unitStart, units, u)
    PROVE  /\ u \in Trackers /\ u.start = t.start /\ u.seconds = t.seconds /\ u.capacity = t.capacity
           /\ u.unit = unit /\ u.unitStart = unitStart /\ u.units = units
<1>1. u \in [start : {t.start}, seconds : {t.seconds}, capacity : {t.capacity}, unitStart : {unitStart},
             units : {units}, unit : {unit}]
  BY DEF Trackers, UnitsSet
<1>2. /\ u.start = t.start /\ u.seconds = t.seconds /\ u.capacity = t.capacity
      /\ u.unit = unit /\ u.unitStart = unitStart /\ u.units = units
  BY <1>1
<1>3. u \in Trackers  BY <1>1, TrackerFields DEF Trackers
<1> QED BY <1>2, <1>3

\* It has them then, and the rest as before.
LEMMA SecondsSetIs ==
    ASSUME NEW t \in Trackers, NEW start \in Nat, NEW seconds \in Seq(Nat), NEW capacity \in Nat \ {0},
           NEW u, SecondsSet(t, start, seconds, capacity, u)
    PROVE  /\ u \in Trackers /\ u.start = start /\ u.seconds = seconds /\ u.capacity = capacity
           /\ u.unit = t.unit /\ u.unitStart = t.unitStart /\ u.units = t.units
<1>1. u \in [start : {start}, seconds : {seconds}, capacity : {capacity}, unitStart : {t.unitStart},
             units : {t.units}, unit : {t.unit}]
  BY DEF Trackers, SecondsSet
<1>2. /\ u.start = start /\ u.seconds = seconds /\ u.capacity = capacity
      /\ u.unit = t.unit /\ u.unitStart = t.unitStart /\ u.units = t.units
  BY <1>1
<1>3. u \in Trackers  BY <1>1, TrackerFields DEF Trackers
<1> QED BY <1>2, <1>3

\* The units are some.
LEMMA UnitsAreSome ==
    ASSUME NEW start, NEW end, NEW units, NEW unitStart, NEW unit, NEW f,
           UnitsTrue(start, end, units, unitStart, unit, f)
    PROVE  units # <<>>
<1> SUFFICES ASSUME units = <<>> PROVE FALSE
  OBVIOUS
<1>1. PICK q \in Nat : unitStart = q * unit /\ unitStart <= start /\ q + Len(units) = (end - 1) \div unit + 1
  BY DEF UnitsTrue
<1>2. unit \in Nat \ {0} /\ start \in Nat /\ end \in Nat \ {0} /\ start < end
  BY DEF UnitsTrue
<1>3. PICK b : b = (end - 1) \div unit  OBVIOUS
<1>4. b \in Nat /\ b * unit <= end - 1 /\ end - 1 < b * unit + unit
  BY <1>2, <1>3, CeilingIs
<1>5. q = b + 1  BY <1>1, <1>3, <1>4
<1>6. q * unit = b * unit + unit  BY <1>2, <1>4, <1>5
<1> QED BY <1>1, <1>2, <1>4, <1>6

\* The units set anew are right.
LEMMA ByUnitTrue ==
    ASSUME Times \subseteq Nat, NEW t, NEW f, TrackerTrue(t, f), NEW unit \in Units, NEW u, u = ByUnit(t, unit)
    PROVE  TrackerTrue(u, f) /\ u.start = t.start /\ u.seconds = t.seconds /\ u.capacity = t.capacity
<1>1. t \in Trackers /\ f \in [Times -> Nat] /\ unit \in Nat \ {0}
  BY UsageTrackerAssumption DEF TrackerTrue
<1>2. SecondsTrue(t.start, t.seconds, f)  BY DEF TrackerTrue
<1>3. CASE unit = t.unit  BY <1>3 DEF ByUnit
<1>4. CASE unit # t.unit /\ unit = 1
  <2>1. u = [t EXCEPT !.unit = unit, !.units = <<>>]  BY <1>4 DEF ByUnit, UnitSizeSet
  <2>2. PICK a, b : a = t.unitStart /\ b = <<>>  OBVIOUS
  <2>3. UnitsSet(t, unit, a, b, u)  BY <1>1, <2>1, <2>2 DEF UnitsSet, Trackers
  <2>4. a \in Nat /\ b \in Seq(Nat)  BY <1>1, <2>2, TrackerFields
  <2>5. /\ u \in Trackers /\ u.start = t.start /\ u.seconds = t.seconds /\ u.capacity = t.capacity
        /\ u.units = b /\ u.unit = unit
    BY <1>1, <2>3, <2>4, UnitsSetIs
  <2> QED BY <1>1, <1>4, <2>2, <2>5 DEF TrackerTrue
<1>5. CASE unit # t.unit /\ unit # 1
  <2> DEFINE a == Floor(t.start, unit)
             n == (Ceiling(t.start + Len(t.seconds), unit) - a) \div unit
             b == [j \in 1 .. n |->
                     FoldSet(LAMBDA i, s : s + t.seconds[i], 0,
                             {i \in 1 .. Len(t.seconds) : (t.start + i - 1 - a) \div unit = j - 1})]
  <2>1. Summed(t.start, t.seconds, unit, a, n, b)  BY DEF Summed
  <2>2. u = [t EXCEPT !.unit = unit, !.unitStart = a, !.units = b]
    BY <1>5 DEF ByUnit, UnitSizeSet
  <2> HIDE DEF a, n, b
  <2>8. UnitsTrue(t.start, t.start + Len(t.seconds), b, a, unit, f)
    BY <1>1, <1>2, <2>1, SummedTrue
  <2>9. b \in Seq(Nat) /\ a \in Nat
    <3>1. PICK q \in Nat : a = q * unit  BY <2>8 DEF UnitsTrue
    <3> QED BY <1>1, <2>8, <3>1 DEF UnitsTrue
  <2>10. UnitsSet(t, unit, a, b, u)  BY <2>2 DEF UnitsSet
  <2>11. /\ u \in Trackers /\ u.start = t.start /\ u.seconds = t.seconds /\ u.capacity = t.capacity
         /\ u.unit = unit /\ u.unitStart = a /\ u.units = b
    BY <1>1, <2>9, <2>10, UnitsSetIs
  <2> QED BY <1>1, <2>8, <2>11, UnitsAreSome DEF TrackerTrue
<1> QED BY <1>3, <1>4, <1>5

\* What is recorded is in the tracker, and no more of the seconds than there may be, unless
\* the time is far ahead.
LEMMA RecordTrue ==
    ASSUME Times \subseteq Nat, NEW t, NEW f, TrackerTrue(t, f), NEW time \in Times, NEW bytes \in Nat,
           NEW u, u = UsageRecorded(t, time, bytes), NEW g, g = IF time < t.start THEN f ELSE MoreAt(f, time, bytes)
    PROVE  /\ TrackerTrue(u, g)
           /\ time - t.start + 1 <= Len(t.seconds) + t.capacity =>
                /\ u.capacity = t.capacity
                /\ u.start + Len(u.seconds) = IF time - t.start < Len(t.seconds) THEN t.start + Len(t.seconds)
                                              ELSE time + 1
<1>1. t \in Trackers /\ f \in [Times -> Nat] /\ Len(t.seconds) <= t.capacity /\ time \in Nat
  BY DEF TrackerTrue
<1>2. SecondsTrue(t.start, t.seconds, f)  BY DEF TrackerTrue
<1>3. PICK length : length = Len(t.seconds)  OBVIOUS
<1>4. /\ t.start \in Nat /\ t.seconds \in Seq(Nat) /\ t.capacity \in Nat \ {0} /\ length \in Nat \ {0}
      /\ t.unitStart \in Nat /\ t.units \in Seq(Nat) /\ t.unit \in Units /\ length <= t.capacity
  <2>1. length \in Nat /\ length > 0  BY <1>2, <1>3 DEF SecondsTrue
  <2> QED BY <1>1, <1>3, <2>1, TrackerFields
<1>5. CASE time < t.start
  <2>1. u = t /\ g = f  BY <1>5 DEF UsageRecorded
  <2>2. time - t.start < Len(t.seconds)  BY <1>1, <1>3, <1>4, <1>5
  <2> QED BY <2>1, <2>2
<1>6. CASE ~(time < t.start)
  <2> DEFINE fresh == IF time - t.start < Len(t.seconds) THEN 0 ELSE time - t.start + 1 - Len(t.seconds)
             remove == Max({0, Len(t.seconds) + fresh - t.capacity})
             s == DropFirst(t.seconds, remove) \o Zeros(fresh)
             from == t.start + remove
             moved == UnitsMoved(t, from, Len(s))
             at == time - t.start - remove + 1
             r == [s EXCEPT ![at] = @ + bytes]
             k == (time - moved.unitStart) \div t.unit + 1
             q == [moved.units EXCEPT ![k] = @ + bytes]
             v == IF t.units = <<>> THEN t ELSE [t EXCEPT !.unitStart = moved.unitStart, !.units = q]
  <2>1. u = [v EXCEPT !.start = from, !.seconds = r, !.capacity = Grown(@, Len(s))]
    BY <1>6 DEF UsageRecorded
  <2>2. fresh = IF time - t.start < Len(t.seconds) THEN 0 ELSE time - t.start + 1 - Len(t.seconds)
    OBVIOUS
  <2> HIDE DEF fresh
  <2>3. remove = Max({0, Len(t.seconds) + fresh - t.capacity})  OBVIOUS
  <2> HIDE DEF remove
  <2>4. Sliding(t.seconds, t.start, fresh, remove, s, from) /\ at = time - t.start - remove + 1
    BY DEF Sliding
  <2>5. from = t.start + remove  OBVIOUS
  <2> HIDE DEF s, from, at
  <2>6. r = MoreAt(s, at, bytes)  BY DEF MoreAt
  <2> HIDE DEF r
  <2>14. moved = UnitsMoved(t, from, Len(s))  OBVIOUS
  <2> HIDE DEF moved
  <2>15. k = AtUnit(moved.unitStart, t.unit, time)  BY DEF AtUnit
  <2> HIDE DEF k
  <2>16. q = MoreAt(moved.units, k, bytes)  BY DEF MoreAt
  <2> HIDE DEF q
  <2>17. v = IF t.units = <<>> THEN t ELSE [t EXCEPT !.unitStart = moved.unitStart, !.units = q]
    OBVIOUS
  <2> HIDE DEF v
  <2>7. time >= t.start  BY <1>1, <1>4, <1>6
  <2>8. Shift(t.start, length, t.capacity, time, fresh, remove)
    BY <1>1, <1>3, <1>4, <2>2, <2>3, <2>7 DEF Shift
  <2>9. /\ SecondsTrue(from, s, f)
        /\ remove \in Nat /\ from <= time /\ time < from + Len(s) /\ from + Len(s) >= t.start + length
        /\ time - t.start + 1 <= length + t.capacity =>
              /\ Len(s) <= t.capacity
              /\ from + Len(s) = IF time - t.start < length THEN t.start + length ELSE time + 1
    BY <1>1, <1>2, <1>3, <2>4, <2>8, SecondsMoved
  <2>10. g = MoreAt(f, time, bytes)  BY <1>6
  <2>11. g \in [Times -> Nat] /\ SecondsTrue(from, r, g) /\ Len(r) = Len(s)
    <3>1. at = time - from + 1  BY <1>1, <1>4, <2>4, <2>5, <2>9
    <3> QED BY <1>1, <2>6, <2>9, <2>10, <3>1, SecondsPlus
  <2>12. from \in Nat /\ s \in Seq(Nat) /\ r \in Seq(Nat)  BY <2>9, <2>11 DEF SecondsTrue
  <2>18. PICK c : c = Grown(t.capacity, Len(s))  OBVIOUS
  <2>20. PICK e : e = from + Len(s)  OBVIOUS
  <2>23. PICK l : l = Len(s)  OBVIOUS
  <2>21. e \in Nat /\ from < e /\ t.start <= from /\ t.start + length <= e /\ from <= time /\ time < e
    <3>1. l \in Nat  BY <2>12, <2>23
    <3>2. e = from + l /\ from <= time /\ time < from + l /\ from + l >= t.start + length /\ remove \in Nat
      BY <2>9, <2>20, <2>23
    <3>3. from >= t.start  BY <1>4, <2>5, <3>2
    <3> QED BY <1>1, <1>4, <2>12, <3>1, <3>2, <3>3
  <2>22. /\ v \in Trackers /\ v.capacity = t.capacity
         /\ v.units = <<>> => v.unit = 1
         /\ v.units # <<>> => UnitsTrue(from, e, v.units, v.unitStart, v.unit, g)
    <3>1. CASE t.units = <<>>
      <4>1. v = t  BY <2>17, <3>1
      <4> QED BY <1>1, <3>1, <4>1 DEF TrackerTrue
    <3>2. CASE t.units # <<>>
      <4>1. UnitsTrue(t.start, t.start + length, t.units, t.unitStart, t.unit, f)
        BY <1>3, <3>2 DEF TrackerTrue
      <4>2. PICK drop, s2, rest, n, m :
               /\ drop = (IF from <= t.unitStart + t.unit THEN 0 ELSE (from - t.unitStart - 1) \div t.unit)
               /\ s2 = t.unitStart + drop * t.unit /\ rest = DropFirst(t.units, drop)
               /\ n = (Ceiling(e, t.unit) - s2) \div t.unit
               /\ m = rest \o Zeros(IF n > Len(rest) THEN n - Len(rest) ELSE 0)
        OBVIOUS
      <4>3. Moving(t.units, t.unitStart, t.unit, from, e, drop, s2, rest, n, m)
        BY <4>2 DEF Moving
      <4>4. moved = [unitStart |-> s2, units |-> m]  BY <2>14, <2>20, <4>2 DEF UnitsMoved
      <4>5. moved.unitStart = s2 /\ moved.units = m  BY <4>4
      <4>6. \A x \in Times : x >= t.start + length => f[x] = 0
        BY <1>2, <1>3 DEF SecondsTrue
      <4>7. UnitsTrue(from, e, m, s2, t.unit, f)
        BY <1>1, <2>12, <2>21, <4>1, <4>3, <4>6, UnitsMovedTrue
      <4>8. UnitsTrue(from, e, q, s2, t.unit, g)
        <5>1. k = AtUnit(s2, t.unit, time) /\ q = MoreAt(m, k, bytes)
          BY <2>15, <2>16, <4>5
        <5> QED BY <1>1, <2>10, <2>21, <4>7, <5>1, UnitsPlus
      <4>9. v = [t EXCEPT !.unitStart = s2, !.units = q]  BY <2>17, <3>2, <4>5
      <4>10. PICK w : w = t.unit  OBVIOUS
      <4>11. UnitsSet(t, w, s2, q, v)  BY <1>1, <4>9, <4>10 DEF UnitsSet, Trackers
      <4>12. q \in Seq(Nat) /\ s2 \in Nat /\ w \in Units /\ w \in Nat
        <5>1. q \in Seq(Nat) /\ w \in Nat  BY <4>8, <4>10 DEF UnitsTrue
        <5>2. PICK x \in Nat : s2 = x * w  BY <4>8, <4>10 DEF UnitsTrue
        <5>3. x * w \in Nat  BY <5>1, <5>2
        <5> QED BY <1>4, <4>10, <5>1, <5>2, <5>3
      <4>13. v \in Trackers /\ v.capacity = t.capacity /\ v.unit = w /\ v.unitStart = s2 /\ v.units = q
        BY <1>1, <4>11, <4>12, UnitsSetIs
      <4> QED BY <4>8, <4>10, <4>13, UnitsAreSome
    <3> QED BY <3>1, <3>2
  <2>24. l \in Nat /\ c = Grown(t.capacity, l)  BY <2>12, <2>18, <2>23
  <2>25. c \in Nat \ {0} /\ l <= c /\ (l <= t.capacity => c = t.capacity)
    BY <1>4, <2>24, GrownIs
  <2>26. SecondsSet(v, from, r, c, u)  BY <2>1, <2>18, <2>22 DEF SecondsSet, Trackers
  <2>27. /\ u \in Trackers /\ u.start = from /\ u.seconds = r /\ u.capacity = c
         /\ u.unit = v.unit /\ u.unitStart = v.unitStart /\ u.units = v.units
    BY <2>12, <2>22, <2>25, <2>26, SecondsSetIs
  <2>28. TrackerTrue(u, g)
    <3>1. Len(u.seconds) <= u.capacity /\ u.start + Len(u.seconds) = e
      BY <2>11, <2>20, <2>23, <2>25, <2>27
    <3>2. SecondsTrue(u.start, u.seconds, g)  BY <2>11, <2>27
    <3>3. u.units # <<>> => UnitsTrue(u.start, u.start + Len(u.seconds), u.units, u.unitStart, u.unit, g)
      BY <2>22, <2>27, <3>1
    <3> QED BY <2>11, <2>22, <2>27, <3>1, <3>2, <3>3 DEF TrackerTrue
  <2>29. time - t.start + 1 <= length + t.capacity =>
           /\ u.capacity = t.capacity
           /\ u.start + Len(u.seconds) = IF time - t.start < length THEN t.start + length ELSE time + 1
    BY <2>9, <2>11, <2>23, <2>25, <2>27
  <2> QED BY <1>3, <2>28, <2>29
<1> QED BY <1>5, <1>6

--------------------------------------------------------------------------------
(* The usage kept from one render to the next. *)

\* At first there is nothing.
LEMMA TrackerInit == Init => TrackerInv
<1> SUFFICES ASSUME Init PROVE TrackerInv
  OBVIOUS
<1>1. Times \subseteq Nat /\ Times # {} /\ MaxHistory \in Nat \ {0} /\ 1 \in Units
  BY MainScreenAssumption, UsageTrackerAssumption
<1>2. now \in Times /\ now \in Nat  BY <1>1, MinLeast DEF Init
<1>3. tracker = [start |-> now, seconds |-> <<0>>, capacity |-> MaxHistory,
                 unitStart |-> 0, units |-> <<>>, unit |-> 1]
  BY DEF Init, NewTracker
<1>4. /\ tracker.start = now /\ tracker.seconds = <<0>> /\ tracker.capacity = MaxHistory
      /\ tracker.unitStart = 0 /\ tracker.units = <<>> /\ tracker.unit = 1
  BY <1>3
<1>5. <<0>> \in Seq(Nat) /\ Len(<<0>>) = 1 /\ <<>> \in Seq(Nat)  OBVIOUS
<1>6. tracker \in Trackers  BY <1>1, <1>2, <1>3, <1>5 DEF Trackers
<1>7. recorded = [t \in Times |-> 0] /\ gapped = FALSE  BY DEF Init
<1>8. recorded \in [Times -> Nat] /\ \A t \in Times : recorded[t] = 0  BY <1>7
<1>9. SecondsTrue(now, <<0>>, recorded)
  <2>1. \A t : AtOf(recorded, Times, t) = 0  BY <1>8 DEF AtOf
  <2>2. \A i \in 1 .. Len(<<0>>) : <<0>>[i] = 0  OBVIOUS
  <2> QED BY <1>2, <1>5, <1>8, <2>1, <2>2 DEF SecondsTrue
<1>10. TrackerTrue(tracker, recorded)
  BY <1>1, <1>4, <1>5, <1>6, <1>8, <1>9 DEF TrackerTrue
<1>11. tracker.start + Len(tracker.seconds) <= now + 2  BY <1>2, <1>4, <1>5
<1> QED BY <1>2, <1>4, <1>7, <1>10, <1>11 DEF TrackerInv

\* A time, of the server or of the ticker, that is recorded.
LEMMA TrackerRecorded ==
    ASSUME TrackerInv, NEW time \in Times, time <= now + 1, NEW bytes \in Nat, Recorded(time, bytes), now' = now
    PROVE  TrackerInv'
<1>1. Times \subseteq Nat /\ MaxHistory \in Nat \ {0}
  BY MainScreenAssumption, UsageTrackerAssumption
<1>2. TrackerTrue(tracker, recorded) /\ now \in Times /\ gapped \in BOOLEAN
  BY DEF TrackerInv
<1>3. PICK t, u, f, g : t = tracker /\ u = tracker' /\ f = recorded /\ g = recorded'
  OBVIOUS
<1>4. u = UsageRecorded(t, time, bytes) /\ g = IF time < t.start THEN f ELSE MoreAt(f, time, bytes)
  BY <1>3 DEF Recorded, MoreAt
<1>5. PICK length : length = Len(t.seconds)  OBVIOUS
<1>6. /\ TrackerTrue(u, g)
      /\ time - t.start + 1 <= Len(t.seconds) + t.capacity =>
           /\ u.capacity = t.capacity
           /\ u.start + Len(u.seconds) = IF time - t.start < Len(t.seconds) THEN t.start + Len(t.seconds)
                                         ELSE time + 1
  BY <1>1, <1>2, <1>3, <1>4, RecordTrue
<1>7. t.start \in Nat /\ length \in Nat /\ time \in Nat /\ now \in Nat
  BY <1>1, <1>2, <1>3, <1>5, TrackerFields DEF TrackerTrue
<1>8. gapped' = (gapped \/ time - LatestTimestamp(tracker) > MaxHistory)  BY DEF Recorded
<1>9. ASSUME ~gapped' PROVE u.capacity = MaxHistory /\ u.start + Len(u.seconds) <= now + 2
  <2>1. ~gapped /\ ~(time - (t.start + length - 1) > MaxHistory)
    BY <1>3, <1>5, <1>8, <1>9 DEF LatestTimestamp
  <2>2. t.capacity = MaxHistory /\ t.start + length <= now + 2
    BY <1>3, <1>5, <2>1 DEF TrackerInv
  <2>3. time - t.start + 1 <= length + t.capacity  BY <1>1, <1>7, <2>1, <2>2
  <2>4. u.capacity = t.capacity /\ u.start + Len(u.seconds) = IF time - t.start < length THEN t.start + length
                                                               ELSE time + 1
    BY <1>5, <1>6, <2>3
  <2> QED BY <1>7, <2>2, <2>4
<1>10. gapped' \in BOOLEAN  BY <1>8
<1> QED BY <1>2, <1>3, <1>6, <1>9, <1>10 DEF TrackerInv

\* A draw, which may set the units.
LEMMA TrackerDrawn ==
    ASSUME TrackerInv, Draw, ui.unit \in Units
    PROVE  TrackerInv'
<1>1. Times \subseteq Nat  BY MainScreenAssumption
<1>2. TrackerTrue(tracker, recorded)  BY DEF TrackerInv
<1>3. PICK t, u, f, unit : t = tracker /\ u = tracker' /\ f = recorded /\ unit = ui.unit
  OBVIOUS
<1>4. (u = t \/ u = ByUnit(t, unit)) /\ recorded' = f /\ now' = now /\ gapped' = gapped
  BY <1>3, Zenon DEF Draw
<1>5. TrackerTrue(u, f) /\ u.start = t.start /\ u.seconds = t.seconds /\ u.capacity = t.capacity
  <2>1. CASE u = t  BY <1>2, <1>3, <2>1
  <2>2. CASE u = ByUnit(t, unit)  BY <1>1, <1>2, <1>3, <2>2, ByUnitTrue
  <2> QED BY <1>4, <2>1, <2>2
<1> QED BY <1>3, <1>4, <1>5 DEF TrackerInv

\* Every step.
LEMMA TrackerStep ==
    ASSUME TrackerInv, [Next]_vars, ui.unit \in Units
    PROVE  TrackerInv'
<1>1. Times \subseteq Nat /\ now \in Times /\ now \in Nat
  BY MainScreenAssumption DEF TrackerInv
<1>2. ASSUME UNCHANGED <<tracker, recorded, now, gapped>> PROVE TrackerInv'
  BY <1>2 DEF TrackerInv
<1>3. CASE BytesEvent
  <2>1. PICK time \in Times : time \in now - 1 .. now + 1 /\ Recorded(time, 1)
    BY <1>3 DEF BytesEvent
  <2>2. now' = now  BY <1>3 DEF BytesEvent
  <2>3. time <= now + 1 /\ 1 \in Nat  BY <1>1, <2>1
  <2> QED BY <2>1, <2>2, <2>3, TrackerRecorded
<1>4. CASE Ticker
  <2>1. Recorded(now, 0) /\ now' = now  BY <1>4 DEF Ticker
  <2>2. now <= now + 1 /\ 0 \in Nat  BY <1>1
  <2> QED BY <1>1, <2>1, <2>2, TrackerRecorded
<1>5. CASE TimePasses
  <2>1. PICK t \in Times : t > now /\ now' = t  BY <1>5 DEF TimePasses
  <2>2. UNCHANGED <<tracker, recorded, gapped>>  BY <1>5 DEF TimePasses
  <2>3. tracker.start + Len(tracker.seconds) <= now + 2 => tracker.start + Len(tracker.seconds) <= now' + 2
    <3>1. PICK e : e = tracker.start + Len(tracker.seconds)  OBVIOUS
    <3>2. e \in Nat  BY <3>1, TrackerFields DEF TrackerInv, TrackerTrue
    <3> QED BY <1>1, <2>1, <3>1, <3>2
  <2> QED BY <2>1, <2>2, <2>3 DEF TrackerInv
<1>6. CASE Draw  BY <1>6, TrackerDrawn
<1>7. CASE Key  BY <1>2, <1>7 DEF Key
<1>8. CASE PopupArrives  BY <1>2, <1>8 DEF PopupArrives
<1>9. CASE PopupCloses  BY <1>2, <1>9 DEF PopupCloses
<1>10. CASE Answered  BY <1>2, <1>10 DEF Answered, PopupTask
<1>11. CASE BeepEnds  BY <1>2, <1>11 DEF BeepEnds, PopupTask
<1>12. CASE ListLoads  BY <1>2, <1>12 DEF ListLoads, PopupTask
<1>13. CASE ListChanges  BY <1>2, <1>13 DEF ListChanges, PopupTask
<1>14. CASE LogEvent  BY <1>2, <1>14 DEF LogEvent
<1>15. CASE TerminalResized  BY <1>2, <1>15 DEF TerminalResized
<1>16. CASE UNCHANGED vars  BY <1>2, <1>16 DEF vars
<1> QED
  BY <1>3, <1>4, <1>5, <1>6, <1>7, <1>8, <1>9, <1>10, <1>11, <1>12, <1>13, <1>14, <1>15, <1>16 DEF Next

\* A sum as the graph's check takes it.
LEMMA RecordedInIs ==
    ASSUME TrackerInv, NEW a \in Int, NEW n \in Nat, NEW b, b = a + n - 1
    PROVE  RecordedIn(a, b) = Stretch(recorded, Times, a, n)
  BY DEF RecordedIn, Stretch, SumOver

\* What the graph shows for each unit of time is what was recorded in it.
LEMMA UsageIs == TrackerInv => UsageKept
<1> SUFFICES ASSUME TrackerInv PROVE UsageKept
  OBVIOUS
<1>1. Times \subseteq Nat /\ Times \in SUBSET Int /\ now \in Nat /\ MaxHistory \in Nat
  BY MainScreenAssumption, UsageTrackerAssumption DEF TrackerInv
<1>2. /\ tracker \in Trackers /\ recorded \in [Times -> Nat] /\ Len(tracker.seconds) <= tracker.capacity
      /\ SecondsTrue(tracker.start, tracker.seconds, recorded)
  BY DEF TrackerInv, TrackerTrue
<1>3. PICK start, length : start = tracker.start /\ length = Len(tracker.seconds)  OBVIOUS
<1>4. start \in Nat /\ length \in Nat /\ length > 0  BY <1>2, <1>3 DEF SecondsTrue
<1>5. ASSUME NEW i \in 1 .. Len(tracker.seconds)
      PROVE  tracker.seconds[i] = RecordedIn(tracker.start + i - 1, tracker.start + i - 1)
  <2>1. PICK a : a = start + i - 1  OBVIOUS
  <2>2. a \in Int  BY <1>3, <1>4, <2>1
  <2>3. a = a + 1 - 1 /\ 1 \in Nat /\ 0 + 1 = 1 /\ a + 0 = a  BY <2>2
  <2>4. RecordedIn(a, a) = Stretch(recorded, Times, a, 1)  BY <2>2, <2>3, RecordedInIs
  <2>5. Stretch(recorded, Times, a, 0 + 1) = Stretch(recorded, Times, a, 0) + AtOf(recorded, Times, a + 0)
    BY <1>1, <1>2, <2>2, StretchStep
  <2>6. Stretch(recorded, Times, a, 0) = 0  BY <1>1, <1>2, <2>2, StretchStep
  <2>7. AtOf(recorded, Times, a) \in Nat  BY <1>2 DEF AtOf
  <2>8. tracker.seconds[i] = AtOf(recorded, Times, a)  BY <1>2, <1>3, <2>1 DEF SecondsTrue
  <2> QED BY <1>3, <2>1, <2>3, <2>4, <2>5, <2>6, <2>7, <2>8
<1>6. ASSUME ~gapped PROVE Len(tracker.seconds) <= MaxHistory /\ LatestTimestamp(tracker) <= now + 1
  <2>1. tracker.capacity = MaxHistory /\ start + length <= now + 2
    BY <1>3, <1>6 DEF TrackerInv
  <2>2. start + length - 1 <= now + 1  BY <1>1, <1>4, <2>1
  <2> QED BY <1>2, <1>3, <2>1, <2>2 DEF LatestTimestamp
<1>7. ASSUME tracker.units # <<>> PROVE GraphTrue(tracker.units, tracker.unit)
  <2>1. PICK units, unitStart, unit, e :
           units = tracker.units /\ unitStart = tracker.unitStart /\ unit = tracker.unit /\ e = start + length
    OBVIOUS
  <2>2. UnitsTrue(start, e, units, unitStart, unit, recorded)
    BY <1>3, <1>7, <2>1 DEF TrackerInv, TrackerTrue
  <2>3. PICK q \in Nat : unitStart = q * unit /\ unitStart <= start /\ q + Len(units) = (e - 1) \div unit + 1
    BY <2>2 DEF UnitsTrue
  <2>4. unit \in Nat \ {0} /\ units \in Seq(Nat) /\ e \in Nat \ {0}
    BY <1>4, <2>1, <2>2 DEF UnitsTrue
  <2>5. PICK b, len : b = (e - 1) \div unit /\ len = Len(units)  OBVIOUS
  <2>6. b \in Nat /\ len \in Nat /\ q + len = b + 1  BY <2>3, <2>4, <2>5, CeilingIs
  <2>7. PICK last : last = Floor(LatestTimestamp(tracker), unit)  OBVIOUS
  <2>8. last = b * unit
    <3>1. LatestTimestamp(tracker) = e - 1
      <4>1. LatestTimestamp(tracker) = start + length - 1  BY <1>3 DEF LatestTimestamp
      <4> QED BY <1>4, <2>1, <4>1
    <3>2. last = ((e - 1) \div unit) * unit  BY <2>7, <3>1 DEF Floor
    <3> QED BY <2>5, <3>2
  <2>9. ASSUME NEW k \in 0 .. MaxHistory, NEW from, from = last - k * unit, from >= start
        PROVE  k < len /\ units[len - k] = RecordedIn(from, from + unit - 1)
    <3>1. k \in Nat  BY <1>1
    <3>2. PICK d : d = b - k  OBVIOUS
    <3>3. d \in Int /\ from = d * unit  BY <2>4, <2>6, <2>8, <2>9, <3>1, <3>2, UnitsApart
    <3>4. q <= d
      <4>1. from \in Int /\ unitStart <= from  BY <1>4, <2>3, <2>4, <2>9, <3>3
      <4> QED BY <2>3, <2>4, <3>3, <4>1, Apart
    <3>5. PICK j, h : j = len - k /\ h = j - 1  OBVIOUS
    <3>6. j \in 1 .. len /\ h \in Nat /\ q + h = d  BY <2>6, <3>1, <3>2, <3>4, <3>5
    <3>7. unitStart + (j - 1) * unit = from
      <4>1. q * unit + h * unit = (q + h) * unit  BY <2>4, <3>6, UnitsApart
      <4> QED BY <2>3, <3>3, <3>5, <3>6, <4>1
    <3>8. units[j] = Stretch(recorded, Times, from, unit)
      BY <2>2, <2>5, <2>9, <3>6, <3>7 DEF UnitsTrue
    <3>9. RecordedIn(from, from + unit - 1) = Stretch(recorded, Times, from, unit)
      <4>1. from \in Int /\ unit \in Nat  BY <2>4, <3>3
      <4> QED BY <4>1, RecordedInIs
    <3>10. k < len  BY <2>6, <3>1, <3>5, <3>6
    <3> QED BY <3>5, <3>8, <3>9, <3>10
  <2> QED BY <1>3, <2>1, <2>5, <2>7, <2>9 DEF GraphTrue
<1> QED BY <1>5, <1>6, <1>7 DEF UsageKept

\* What is selected and used of the interface is of its type.
LEMMA UnitIs ==
    ASSUME IInv
    PROVE  ui.unit \in Units
  BY DEF IInv, UiInv, UiGood, UiTyped, UiOf

\* What is kept between two renders of the terminal interface is what it would be if it were
\* made again: the lines of the log those of the events there are, at the width of now, the
\* seconds and the units of the graph the sums of what was recorded in them (long_list.rs and
\* usage_tracker.rs), for any events, times, sizes of the terminal and units.
THEOREM CacheStays == Spec => []CacheTrue
<1>1. Init => IInv /\ LinesInv /\ TrackerInv  BY InitGood, LinesInit, TrackerInit
<1>2. IInv /\ LinesInv /\ TrackerInv /\ [Next]_vars => IInv' /\ LinesInv' /\ TrackerInv'
  BY StepGood, LinesStep, TrackerStep, UnitIs
<1>3. IInv /\ LinesInv /\ TrackerInv => CacheTrue  BY LinesAre, UsageIs DEF CacheTrue
<1> QED BY <1>1, <1>2, <1>3, PTL DEF Spec

--------------------------------------------------------------------------------
(* The labels of the axis. *)

\* One label.
LEMMA LabelIs ==
    ASSUME NEW last \in Int, NEW n \in Int, NEW on \in Nat \ {0}, NEW unit \in Units
    PROVE  LabelBefore(last, n, on, unit) \in LabelsOf
  BY DEF LabelBefore, Label, LabelsOf

\* The same label, before another.
LEMMA LabelAgain ==
    ASSUME NEW last \in Int, NEW n \in Int, NEW m \in Int, NEW on \in Nat \ {0}, NEW unit,
           NEW at, at = Back(last, m, on), NEW k, k = n + m
    PROVE  LabelBefore(at, n, on, unit) = LabelBefore(last, k, on, unit)
<1>1. n * on + m * on = k * on  BY UnitsApart
<1>2. n * on \in Int /\ m * on \in Int  OBVIOUS
<1>3. PICK a, b, c : a = n * on /\ b = m * on /\ c = k * on  OBVIOUS
<1>4. last - b - a = last - c  BY <1>1, <1>2, <1>3
<1> QED BY <1>3, <1>4 DEF LabelBefore, Back

\* They are a row, if there are any.
LEMMA LabelsCut ==
    ASSUME NEW s, NEW n \in Nat, NEW last \in Int, NEW on \in Nat \ {0}, NEW unit \in Units,
           LabelRow(s, n, last, on, unit), NEW a, NEW b, NEW r, LabelsLeft(r, s, a, b), r # <<>>,
           NEW at, at = Back(last, b, on)
    PROVE  Len(r) \in Nat \ {0} /\ LabelRow(r, Len(r), at, on, unit)
<1>1. s \in Seq(LabelsOf) /\ Len(s) = n /\ a \in Nat /\ b \in Nat /\ r = SubSeq(s, a + 1, n - b)
  BY DEF LabelRow, LabelsLeft
<1>2. a + b < n
  <2>1. SUFFICES ASSUME ~(a + b < n) PROVE r = <<>>  OBVIOUS
  <2>2. n - b < a + 1  BY <1>1, <2>1
  <2> QED BY <1>1, <2>2
<1>3. PICK m : m = n - a - b  OBVIOUS
<1>4. m \in Nat \ {0} /\ n - b - (a + 1) + 1 = m  BY <1>1, <1>2, <1>3
<1>5. r \in Seq(LabelsOf) /\ Len(r) = m /\ \A i \in 1 .. m : r[i] = s[a + 1 + i - 1]
  BY <1>1, <1>4
<1>6. \A i \in 1 .. m : r[i] = LabelBefore(at, m - i, on, unit)
  <2> TAKE i \in 1 .. m
  <2>1. PICK j, k, h : j = a + i /\ k = m - i /\ h = n - j  OBVIOUS
  <2>2. j \in 1 .. n /\ a + 1 + i - 1 = j /\ h = k + b /\ k \in Int
    BY <1>1, <1>3, <1>4, <2>1
  <2>3. r[i] = LabelBefore(last, h, on, unit)  BY <1>5, <2>1, <2>2 DEF LabelRow
  <2>4. LabelBefore(at, k, on, unit) = LabelBefore(last, h, on, unit)
    BY <1>1, <2>2, LabelAgain
  <2> QED BY <2>1, <2>2, <2>3, <2>4
<1> QED BY <1>4, <1>5, <1>6 DEF LabelRow

\* They make a longer row.
LEMMA LabelsMore ==
    ASSUME NEW s, NEW n \in Nat \ {0}, NEW last \in Int, NEW on \in Nat \ {0}, NEW unit \in Units,
           LabelRow(s, n, last, on, unit), NEW older \in Nat, NEW newer \in Nat,
           NEW first, first = last - (n - 1) * on,
           NEW r, r = LabelsAdded(older, first, s, newer, last, on, unit)
    PROVE  LabelRow(r, older + n + newer, last + newer * on, on, unit)
<1>1. s \in Seq(LabelsOf) /\ Len(s) = n  BY DEF LabelRow
<1>2. PICK p, q, m, end : /\ p = [i \in 1 .. older |-> Label(first - (older + 1 - i) * on, unit)]
                          /\ q = [i \in 1 .. newer |-> Label(last + i * on, unit)]
                          /\ m = older + n + newer /\ end = last + newer * on
  OBVIOUS
<1>3. end \in Int /\ m \in Nat  BY <1>2
<1>4. ASSUME NEW k \in Int PROVE LabelBefore(last, k, on, unit) = LabelBefore(end, k + newer, on, unit)
  <2>1. last = Back(end, newer, on)
    <3>1. newer * on \in Int  OBVIOUS
    <3> QED BY <1>2, <3>1 DEF Back
  <2>2. newer \in Int /\ unit \in Units  OBVIOUS
  <2> QED BY <1>3, <2>1, <2>2, LabelAgain
<1>5. \A i \in 1 .. older : p[i] = LabelBefore(end, m - i, on, unit)
  <2> TAKE i \in 1 .. older
  <2>1. PICK k, j : k = older + 1 - i /\ j = n - 1  OBVIOUS
  <2>2. k \in Int /\ j \in Int /\ k + j \in Int /\ k + j + newer = m - i  BY <1>2, <2>1
  <2>3. p[i] = LabelBefore(Back(last, j, on), k, on, unit)
    BY <1>2, <2>1 DEF LabelBefore, Back
  <2>4. LabelBefore(Back(last, j, on), k, on, unit) = LabelBefore(last, k + j, on, unit)
    BY <2>2, LabelAgain
  <2> QED BY <1>4, <2>2, <2>3, <2>4
<1>6. \A i \in 1 .. n : s[i] = LabelBefore(end, m - (older + i), on, unit)
  <2> TAKE i \in 1 .. n
  <2>1. n - i \in Int /\ n - i + newer = m - (older + i)  BY <1>2
  <2> QED BY <1>4, <2>1 DEF LabelRow
<1>7. \A i \in 1 .. newer : q[i] = LabelBefore(end, m - (older + n + i), on, unit)
  <2> TAKE i \in 1 .. newer
  <2>1. PICK k : k = 0 - i  OBVIOUS
  <2>2. k \in Int /\ k + newer = m - (older + n + i)  BY <1>2, <2>1
  <2>3. q[i] = LabelBefore(last, k, on, unit)
    <3>1. k * on = 0 - i * on
      <4>1. 0 * on - i * on = (0 - i) * on /\ 0 * on = 0  BY UnitsApart
      <4> QED BY <2>1, <4>1
    <3>2. last + i * on = last - k * on
      <4>1. i * on \in Int /\ k * on \in Int  BY <2>2
      <4> QED BY <3>1, <4>1
    <3> QED BY <1>2, <3>2 DEF LabelBefore
  <2> QED BY <1>4, <2>2, <2>3
<1>8. p \in Seq(LabelsOf) /\ Len(p) = older /\ q \in Seq(LabelsOf) /\ Len(q) = newer
  <2>1. \A i \in 1 .. older : p[i] \in LabelsOf
    <3> TAKE i \in 1 .. older
    <3>1. m - i \in Int  BY <1>3
    <3> QED BY <1>3, <1>5, <3>1, LabelIs
  <2>2. \A i \in 1 .. newer : q[i] \in LabelsOf
    <3> TAKE i \in 1 .. newer
    <3>1. m - (older + n + i) \in Int  BY <1>3
    <3> QED BY <1>3, <1>7, <3>1, LabelIs
  <2>3. p \in [1 .. older -> LabelsOf] /\ q \in [1 .. newer -> LabelsOf]
    BY <1>2, <2>1, <2>2
  <2> QED BY <2>3
<1>9. r = p \o s \o q  BY <1>2 DEF LabelsAdded
<1>10. /\ r \in Seq(LabelsOf) /\ Len(r) = m
       /\ \A i \in 1 .. m : r[i] = IF i <= older THEN p[i] ELSE IF i <= older + n THEN s[i - older] ELSE q[i - (older + n)]
  <2>1. PICK u : u = p \o s  OBVIOUS
  <2>2. u \in Seq(LabelsOf) /\ Len(u) = older + n /\ \A i \in 1 .. older + n : u[i] = IF i <= older THEN p[i] ELSE s[i - older]
    BY <1>1, <1>8, <2>1
  <2>3. PICK l : l = older + n  OBVIOUS
  <2>4. l \in Nat /\ m = l + newer  BY <1>2, <2>3
  <2>6. PICK v : v = u \o q  OBVIOUS
  <2>7. r = v  BY <1>9, <2>1, <2>6
  <2>5. /\ r \in Seq(LabelsOf) /\ Len(r) = m
        /\ \A i \in 1 .. m : r[i] = IF i <= l THEN u[i] ELSE q[i - l]
    <3>1. /\ v \in Seq(LabelsOf) /\ Len(v) = Len(u) + Len(q)
          /\ \A i \in 1 .. Len(u) + Len(q) : v[i] = IF i <= Len(u) THEN u[i] ELSE q[i - Len(u)]
      BY <1>8, <2>2, <2>6, ConcatProperties, Zenon
    <3>2. Len(u) = l /\ Len(q) = newer  BY <1>8, <2>2, <2>3
    <3> QED BY <2>4, <2>7, <3>1, <3>2
  <2> QED BY <2>2, <2>3, <2>4, <2>5
<1>11. \A i \in 1 .. m : r[i] = LabelBefore(end, m - i, on, unit)
  <2> TAKE i \in 1 .. m
  <2>1. CASE i <= older
    <3>1. i \in 1 .. older  BY <2>1
    <3> QED BY <1>5, <1>10, <2>1, <3>1
  <2>2. CASE i > older /\ i <= older + n
    <3>1. PICK j : j = i - older  OBVIOUS
    <3>2. j \in 1 .. n /\ older + j = i /\ r[i] = s[j]  BY <1>10, <2>2, <3>1
    <3> QED BY <1>6, <3>2
  <2>3. CASE i > older + n
    <3>1. PICK j : j = i - (older + n)  OBVIOUS
    <3>2. j \in 1 .. newer /\ older + n + j = i  BY <1>2, <2>3, <3>1
    <3>3. ~(i <= older) /\ ~(i <= older + n)  BY <2>3
    <3>4. r[i] = q[j]  BY <1>10, <3>1, <3>3
    <3> QED BY <1>7, <3>2, <3>4
  <2> QED BY <2>1, <2>2, <2>3
<1> QED BY <1>2, <1>9, <1>10, <1>11 DEF LabelRow

\* How many multiples apart two are.
LEMMA MultiplesApart ==
    ASSUME NEW on \in Nat \ {0}, NEW a, NEW b, Multiple(a, on), Multiple(b, on), a >= b
    PROVE  \E n \in Nat : a - b = n * on /\ (a - b) \div on = n /\ (a - b + on - 1) \div on = n
<1>1. PICK p \in Int, q \in Int : a = p * on /\ b = q * on  BY DEF Multiple
<1>2. q <= p  BY <1>1, Apart
<1>3. PICK n : n = p - q  OBVIOUS
<1>4. n \in Nat /\ a - b = n * on /\ (a - b) \div on = n  BY <1>1, <1>2, <1>3, UnitsApart
<1>5. (a - b + on - 1) \div on = n
  <2>1. PICK e : e = a - b  OBVIOUS
  <2>2. PICK t : t = e + on - 1  OBVIOUS
  <2>3. e \in Int /\ t \in Int /\ n * on <= t /\ t < n * on + on  BY <1>4, <2>1, <2>2
  <2>4. t \div on = n  BY <1>4, <2>3, InUnit
  <2> QED BY <2>1, <2>2, <2>4
<1> QED BY <1>4, <1>5

\* A number that is not negative, by units.
LEMMA DividedNat ==
    ASSUME NEW t \in Nat, NEW u \in Nat \ {0}
    PROVE  t \div u \in Nat
<1>1. t + 1 \in Nat \ {0} /\ t + 1 - 1 = t  OBVIOUS
<1> QED BY <1>1, CeilingIs

\* The labels are those up to the latest time.
LEMMA EnsuredIs ==
    ASSUME NEW a, AxisTrue(a), NEW oldest \in Int, NEW latest \in Int, Multiple(latest, LabelsOn[a.unit])
    PROVE  AxisEnds(LabelsEnsured(a, oldest, latest), a.unit, latest)
<1> DEFINE on == LabelsOn[a.unit]
           first == a.latest - (Len(a.labels) - 1) * on
           old == IF a.labels # <<>> /\ first < oldest THEN (oldest - first + on - 1) \div on ELSE 0
           new == IF a.labels # <<>> /\ a.latest > latest THEN (a.latest - latest + on - 1) \div on ELSE 0
           kept == SubSeq(a.labels, old + 1, Len(a.labels) - new)
           base == IF kept = <<>> THEN <<Label(latest, a.unit)>> ELSE kept
           at == IF kept = <<>> THEN latest ELSE a.latest - new * on
           from == at - (Len(base) - 1) * on
           older == Max({0, (from - oldest + on - 1) \div on})
           newer == Max({0, (latest - at) \div on})
           r == [i \in 1 .. older |-> Label(from - (older + 1 - i) * on, a.unit)]
                \o base \o [i \in 1 .. newer |-> Label(at + i * on, a.unit)]
           b == LabelsEnsured(a, oldest, latest)
<1>10. b = [a EXCEPT !.latest = at + newer * on, !.labels = r]  BY DEF LabelsEnsured
<1>1. PICK unit, s, n, last : unit = a.unit /\ s = a.labels /\ n = Len(s) /\ last = a.latest
  OBVIOUS
<1>3. on = LabelsOn[unit] /\ first = last - (n - 1) * on  BY <1>1
<1>4. /\ old = IF s # <<>> /\ first < oldest THEN (oldest - first + on - 1) \div on ELSE 0
      /\ new = IF s # <<>> /\ last > latest THEN (last - latest + on - 1) \div on ELSE 0
  BY <1>1
<1>5. kept = SubSeq(s, old + 1, n - new)  BY <1>1
<1>6. /\ base = IF kept = <<>> THEN <<Label(latest, unit)>> ELSE kept
      /\ at = IF kept = <<>> THEN latest ELSE last - new * on
  BY <1>1
<1>7. from = at - (Len(base) - 1) * on  OBVIOUS
<1>8. older = Max({0, (from - oldest + on - 1) \div on}) /\ newer = Max({0, (latest - at) \div on})
  OBVIOUS
<1>9. r = LabelsAdded(older, from, base, newer, at, on, unit)  BY <1>1 DEF LabelsAdded
<1> HIDE DEF on, first, old, new, kept, base, at, from, older, newer, r, b
<1>2. /\ on \in Nat \ {0} /\ unit \in Units /\ n \in Nat /\ last \in Int /\ Multiple(last, on) /\ Multiple(latest, on)
      /\ LabelRow(s, n, last, on, unit) /\ a = [unit |-> unit, latest |-> last, labels |-> s]
  BY <1>1, <1>3, UsageTrackerAssumption DEF AxisTrue, LabelRow, Multiple
<1>11. b = [a EXCEPT !.latest = at + newer * on, !.labels = r]  BY <1>10
<1>12. old \in Nat
  <2>1. CASE s # <<>> /\ first < oldest
    <3>1. (n - 1) * on \in Int  BY <1>2
    <3>2. first \in Int  BY <1>2, <1>3, <3>1
    <3>3. oldest - first + on - 1 \in Nat  BY <1>2, <2>1, <3>2
    <3> QED BY <1>2, <1>4, <2>1, <3>3, DividedNat
  <2> QED BY <1>4, <2>1
<1>13. new \in Nat /\ (s # <<>> /\ last > latest => new * on = last - latest)
  <2>1. CASE s # <<>> /\ last > latest
    <3>2. last >= latest  BY <1>2, <2>1
    <3>1. PICK k \in Nat : last - latest = k * on /\ (last - latest + on - 1) \div on = k
      BY <1>2, <3>2, MultiplesApart
    <3> QED BY <1>4, <2>1, <3>1
  <2> QED BY <1>4, <2>1
<1>14. /\ Len(base) \in Nat \ {0} /\ LabelRow(base, Len(base), at, on, unit)
       /\ at \in Int /\ at <= latest /\ Multiple(at, on)
  <2>1. CASE kept = <<>>
    <3>1. base = <<Label(latest, unit)>> /\ at = latest  BY <1>6, <2>1
    <3>2. Label(latest, unit) = LabelBefore(latest, 0, on, unit)
      <4>1. latest - 0 * on = latest  BY <1>2
      <4> QED BY <4>1 DEF LabelBefore
    <3>3. base \in Seq(LabelsOf) /\ Len(base) = 1 /\ base[1] = LabelBefore(latest, 1 - 1, on, unit)
      BY <1>2, <3>1, <3>2, LabelIs
    <3> QED BY <1>2, <3>1, <3>3 DEF LabelRow
  <2>2. CASE kept # <<>>
    <3>1. LabelsLeft(kept, s, old, new)  BY <1>1, <1>5, <1>12, <1>13 DEF LabelsLeft
    <3>2. base = kept /\ at = last - new * on  BY <1>6, <2>2
    <3>3. Len(base) \in Nat \ {0} /\ LabelRow(base, Len(base), at, on, unit)
      <4>1. Len(kept) \in Nat \ {0} /\ LabelRow(kept, Len(kept), at, on, unit)
        <5>1. at = Back(last, new, on)  BY <3>2 DEF Back
        <5> QED BY <1>2, <2>2, <3>1, <5>1, LabelsCut
      <4> QED BY <3>2, <4>1
    <3>4. s # <<>>
      <4>1. SUFFICES ASSUME s = <<>> PROVE kept = <<>>  BY <2>2
      <4>2. n = 0  BY <1>1, <4>1
      <4>3. n - new < old + 1  BY <1>12, <1>13, <4>2
      <4>4. s \in Seq(LabelsOf)  BY <1>2 DEF LabelRow
      <4> QED BY <1>5, <1>12, <1>13, <4>2, <4>3, <4>4
    <3>5. CASE last > latest  BY <1>2, <1>13, <3>2, <3>3, <3>4, <3>5
    <3>6. CASE ~(last > latest)
      <4>1. new = 0  BY <1>4, <3>6
      <4>2. at = last  BY <1>2, <3>2, <4>1
      <4> QED BY <1>2, <3>3, <3>6, <4>2
    <3> QED BY <3>5, <3>6
  <2> QED BY <2>1, <2>2
<1>15. newer \in Nat /\ at + newer * on = latest
  <2>1. PICK k \in Nat : latest - at = k * on /\ (latest - at) \div on = k
    BY <1>2, <1>14, MultiplesApart
  <2>2. newer = k  BY <1>8, <2>1, MaxOfNone
  <2> QED BY <1>2, <1>14, <2>1, <2>2
<1>16. older \in Nat
  <2>1. PICK x, d : x = from - oldest + on - 1 /\ d = x \div on  OBVIOUS
  <2>2. (Len(base) - 1) * on \in Int  BY <1>2, <1>14
  <2>3. x \in Int /\ d \in Int
    <3>1. x \in Int  BY <1>2, <1>7, <1>14, <2>1, <2>2
    <3> QED BY <1>2, <2>1, <3>1, Divided
  <2>4. older = Max({0, d})  BY <1>8, <2>1
  <2> QED BY <2>3, <2>4, MaxOfNone
<1>17. PICK m : m = older + Len(base) + newer  OBVIOUS
<1>18. LabelRow(r, m, latest, on, unit) /\ m \in Nat \ {0}
  <2>1. PICK l : l = Len(base)  OBVIOUS
  <2>2. LabelRow(r, older + l + newer, at + newer * on, on, unit)
    BY <1>2, <1>7, <1>9, <1>14, <1>15, <1>16, <2>1, LabelsMore
  <2> QED BY <1>14, <1>15, <1>16, <1>17, <2>1, <2>2
<1>19. b = [unit |-> unit, latest |-> latest, labels |-> r]  BY <1>2, <1>11, <1>15
<1>20. r # <<>> /\ Len(r) = m  BY <1>18 DEF LabelRow
<1>22. b.unit = unit /\ b.latest = latest /\ b.labels = r  BY <1>19
<1>21. AxisTrue(b) /\ b.unit = unit /\ b.latest = latest /\ b.labels # <<>>
  BY <1>2, <1>3, <1>18, <1>19, <1>20, <1>22 DEF AxisTrue, Multiple
<1> QED BY <1>1, <1>21 DEF AxisEnds, b

\* A number down to a multiple.
LEMMA FloorIs ==
    ASSUME NEW t \in Int, NEW u \in Nat \ {0}
    PROVE  Floor(t, u) \in Int /\ Multiple(Floor(t, u), u)
<1>1. PICK q : q = t \div u  OBVIOUS
<1>2. q \in Int /\ Floor(t, u) = q * u  BY <1>1, Divided DEF Floor
<1> QED BY <1>2 DEF Multiple

\* Labels written anew.
LEMMA LabelsAnew ==
    ASSUME NEW n \in Nat, NEW last \in Int, NEW on \in Nat \ {0}, NEW unit \in Units,
           NEW r, r = [i \in 1 .. n |-> Label(last - (n - i) * on, unit)]
    PROVE  LabelRow(r, n, last, on, unit)
<1>1. \A i \in 1 .. n : r[i] = LabelBefore(last, n - i, on, unit) /\ r[i] \in LabelsOf
  <2> TAKE i \in 1 .. n
  <2>1. n - i \in Int  OBVIOUS
  <2> QED BY <2>1, LabelIs DEF LabelBefore
<1>2. r \in [1 .. n -> LabelsOf]  BY <1>1
<1> QED BY <1>1, <1>2 DEF LabelRow

\* An axis for a unit.
LEMMA RelabelledIs ==
    ASSUME NEW a, AxisTrue(a), NEW unit \in Units, NEW t \in Int
    PROVE  AxisTrue(Relabelled(a, unit, t)) /\ Relabelled(a, unit, t).unit = unit
<1>1. CASE a.unit = unit  BY <1>1 DEF Relabelled
<1>2. CASE a.unit # unit
  <2>1. PICK on, last, n, s : /\ on = LabelsOn[unit] /\ last = Floor(t, on) /\ n = Len(a.labels)
                              /\ s = [i \in 1 .. n |-> Label(last - (n - i) * on, unit)]
    OBVIOUS
  <2>2. on \in Nat \ {0} /\ last \in Int /\ Multiple(last, on) /\ n \in Nat
    BY <2>1, UsageTrackerAssumption, FloorIs DEF AxisTrue, LabelRow
  <2>3. PICK b : b = [unit |-> unit, latest |-> last, labels |-> s]  OBVIOUS
  <2>4. Relabelled(a, unit, t) = b  BY <1>2, <2>1, <2>3 DEF Relabelled
  <2>5. LabelRow(s, n, last, on, unit)  BY <2>1, <2>2, LabelsAnew
  <2>6. Len(s) = n  BY <2>5 DEF LabelRow
  <2>7. b.unit = unit /\ b.latest = last /\ b.labels = s  BY <2>3
  <2>8. AxisTrue(b)  BY <2>1, <2>2, <2>3, <2>5, <2>6, <2>7 DEF AxisTrue, Multiple
  <2> QED BY <2>4, <2>7, <2>8
<1> QED BY <1>1, <1>2

\* What is drawn under the graph.
LEMMA AxisRenderedIs ==
    ASSUME NEW a, AxisTrue(a), NEW unit \in Units, NEW t \in Int, NEW length \in Int,
           NEW b, b = AxisRendered(a, unit, t, length)
    PROVE  AxisEnds(b, unit, Floor(t, LabelsOn[unit]))
<1>1. PICK on, c, oldest, first, latest :
         /\ on = LabelsOn[unit] /\ c = Relabelled(a, unit, t) /\ oldest = Floor(t - unit, unit) - length * unit
         /\ first = Ceiling(oldest, on) /\ latest = Floor(t, on)
  OBVIOUS
<1>2. on \in Nat \ {0} /\ unit \in Nat \ {0}
  BY <1>1, UsageTrackerAssumption
<1>3. AxisTrue(c) /\ c.unit = unit  BY <1>1, RelabelledIs
<1>4. latest \in Int /\ Multiple(latest, on)  BY <1>1, <1>2, FloorIs
<1>5. oldest \in Int
  <2>1. PICK f, g : f = Floor(t - unit, unit) /\ g = length * unit  OBVIOUS
  <2>2. t - unit \in Int  BY <1>2
  <2>3. f \in Int /\ g \in Int  BY <1>2, <2>1, <2>2, FloorIs
  <2> QED BY <1>1, <2>1, <2>3
<1>6. first \in Int
  <2>1. oldest + on - 1 \in Int  BY <1>2, <1>5
  <2> QED BY <1>1, <1>2, <2>1, FloorIs DEF Ceiling
<1>7. b = LabelsEnsured(c, first, latest)  BY <1>1 DEF AxisRendered
<1> QED BY <1>1, <1>3, <1>4, <1>6, <1>7, EnsuredIs

--------------------------------------------------------------------------------
(* The graph, between redraws. *)

\* What moves the focus leaves the unit alone.
LEMMA TakenUnit ==
    ASSUME NEW u, u \in UiOf(u.list.cache)
    PROVE  AllTaken(u).unit = u.unit
<1>1. CASE ~u.cell  BY <1>1 DEF AllTaken
<1>2. CASE u.cell /\ u.split = "menu"  BY <1>2 DEF AllTaken, UiOf
<1>3. CASE u.cell /\ u.split # "menu"  BY <1>3 DEF AllTaken, MainTaken, Taken, UiOf
<1> QED BY <1>1, <1>2, <1>3

\* At first there is no label, and a redraw is asked for.
LEMMA GraphInit == Init => GraphInv
<1> SUFFICES ASSUME Init PROVE GraphInv
  OBVIOUS
<1>1. axis = [unit |-> 1, latest |-> 0, labels |-> <<>>] /\ dirty = TRUE
  BY DEF Init, NewAxis
<1>2. PICK on : on = LabelsOn[1]  OBVIOUS
<1>3. 1 \in Units /\ on \in Nat \ {0}  BY <1>2, UsageTrackerAssumption
<1>4. 0 = 0 * on  BY <1>3
<1>5. LabelRow(<<>>, Len(<<>>), 0, on, 1)  BY DEF LabelRow
<1>6. AxisTrue(axis)  BY <1>1, <1>2, <1>3, <1>4, <1>5 DEF AxisTrue
<1> QED BY <1>1, <1>6 DEF GraphInv

\* A key that asks for no redraw changes no unit.
LEMMA KeyUnit ==
    ASSUME IInv, Key, ~dirty'
    PROVE  ~dirty /\ ui'.unit = ui.unit
<1>1. PICK key : IF stack = <<>> THEN RootKey(key) ELSE TopKey(key)  BY DEF Key
<1>2. CASE stack # <<>>  BY <1>1, <1>2 DEF TopKey
<1>3. CASE stack = <<>>
  <2>1. PICK r \in CellKey(ui, key) :
           /\ dirty' = (dirty \/ r.ui # ui)
           /\ IF r.status = "unhandled" /\ key.code = "Esc"
              THEN "close" \in left.kinds /\ Push(NewPopup("close")) /\ UNCHANGED coming
              ELSE /\ ui' = r.ui /\ UNCHANGED stack
                   /\ IF r.status = "popup" THEN \E kind \in MenuKinds \cap left.kinds : coming' = <<kind>>
                      ELSE UNCHANGED coming
    BY <1>1, <1>3 DEF RootKey
  <2>2. ~dirty /\ (ui' = ui \/ ui' = AllTaken(ui))  BY <2>1 DEF Push
  <2>3. ui \in UiOf(ui.list.cache)  BY DEF IInv, UiInv, UiGood, UiTyped
  <2> QED BY <2>2, <2>3, TakenUnit
<1> QED BY <1>2, <1>3

\* What a draw does with the graph.
LEMMA GraphDrawIs ==
    ASSUME Draw, NEW unit, unit = ui.unit, NEW g, g = (~IsEmpty(terminal) /\ layout'.graph)
    PROVE  /\ terminal' = terminal
           /\ g => /\ tracker' = ByUnit(tracker, unit)
                   /\ axis' = AxisRendered(axis, unit, LatestTimestamp(tracker), AxisLength(terminal, layout'.mode))
                   /\ screen'.usage = UsageShown(tracker') /\ screen'.unit = unit /\ screen'.labels = axis'.labels
           /\ ~g => axis' = axis
<1>1. CASE g  BY <1>1, Zenon DEF Draw
<1>2. CASE ~g  BY <1>2, Zenon DEF Draw
<1>3. terminal' = terminal  BY Zenon DEF Draw
<1> QED BY <1>1, <1>2, <1>3

\* A draw leaves the unit that is selected.
LEMMA DrawUnit ==
    ASSUME IInv, Draw
    PROVE  ui'.unit = ui.unit
<1>1. PICK unit : unit = ui.unit  OBVIOUS
<1>2. ui' = DrawUi /\ OfUnit(ui, unit)
  BY <1>1, DrawIs DEF IInv, UiInv, UiGood, UiTyped, UiOf, OfUnit
<1>3. ASSUME NEW u, OfUnit(u, unit), NEW e
      PROVE  OfUnit(Taken(u, e), unit) /\ OfUnit(Given(u, e), unit)
  BY <1>3 DEF OfUnit, Taken, Given
<1>4. ASSUME NEW u, OfUnit(u, unit), NEW b
      PROVE  OfUnit([u EXCEPT !.main = b], unit) /\ OfUnit([u EXCEPT !.element = b], unit)
             /\ OfUnit([u EXCEPT !.main = TRUE, !.element = b], unit)
  BY <1>4 DEF OfUnit
<1>5. ASSUME NEW u, OfUnit(u, unit), NEW mode
      PROVE  OfUnit(Refocused(u, mode), unit)
  <2>1. PICK v : v = MainTaken(u)  OBVIOUS
  <2>2. OfUnit(v, unit)  BY <1>3, <1>4, <1>5, <2>1 DEF MainTaken
  <2>3. PICK e : e = AtOrigin(v, mode)  OBVIOUS
  <2>4. OfUnit(MainGiven(v, e), unit)  BY <1>3, <1>4, <2>2 DEF MainGiven
  <2> QED BY <1>5, <2>1, <2>3, <2>4 DEF Refocused
<1>6. OfUnit(DrawSized, unit)
  <2>1. PICK list : list = ListResized(ui.list, DrawLayout.log.width, DrawLayout.log.height)
    OBVIOUS
  <2>2. DrawSized = ui \/ DrawSized = [ui EXCEPT !.list = list]  BY <2>1 DEF DrawSized
  <2>3. OfUnit([ui EXCEPT !.list = list], unit)  BY <1>2 DEF OfUnit
  <2> QED BY <1>2, <2>2, <2>3
<1>7. OfUnit(DrawFocused, unit)  BY <1>5, <1>6 DEF DrawFocused
<1>8. OfUnit(DrawUi, unit)
  <2>1. PICK c : c = ListRendered(DrawFocused.list, DrawMade).cache  OBVIOUS
  <2>2. DrawUi = DrawFocused \/ DrawUi = [DrawFocused EXCEPT !.list.cache = c]
    BY <2>1 DEF DrawUi
  <2>3. PICK f : f = DrawFocused  OBVIOUS
  <2>4. OfUnit([f EXCEPT !.list.cache = c], unit)  BY <1>7, <2>3 DEF OfUnit
  <2> QED BY <1>7, <2>2, <2>3, <2>4
<1> QED BY <1>1, <1>2, <1>8 DEF OfUnit

\* A draw.
LEMMA GraphDraws ==
    ASSUME IInv, TrackerInv, GraphInv, Draw
    PROVE  GraphInv'
<1>1. PICK unit, g, u : unit = ui.unit /\ g = (~IsEmpty(terminal) /\ layout'.graph) /\ u = ByUnit(tracker, unit)
  OBVIOUS
<1>2. unit \in Units /\ ui'.unit = unit  BY <1>1, UnitIs, DrawUnit
<1>3. AxisTrue(axis)  BY DEF GraphInv
<1>4. CASE ~g
  <2>1. axis' = axis /\ terminal' = terminal  BY <1>1, <1>4, GraphDrawIs
  <2>2. AxisTrue(axis') /\ ~(~IsEmpty(terminal') /\ layout'.graph)
    BY <1>1, <1>3, <1>4, <2>1
  <2> QED BY <2>2 DEF GraphInv
<1>5. CASE g
  <2> PICK length : length = AxisLength(terminal, layout'.mode)  OBVIOUS
  <2>0. length \in Int
    BY MainScreenAssumption DEF IInv, AreasInv, Area, AxisLength, RightWidth, Minus
  <2>1. /\ tracker' = u /\ axis' = AxisRendered(axis, unit, LatestTimestamp(tracker), length)
        /\ screen'.usage = UsageShown(tracker') /\ screen'.unit = unit /\ screen'.labels = axis'.labels
    BY <1>1, <1>5, GraphDrawIs
  <2>2. TrackerTrue(tracker, recorded) /\ Times \subseteq Nat
    BY MainScreenAssumption DEF TrackerInv
  <2>3. TrackerTrue(u, recorded) /\ u.start = tracker.start /\ u.seconds = tracker.seconds
    BY <1>1, <1>2, <2>2, ByUnitTrue
  <2>4. PICK t, b : t = LatestTimestamp(tracker) /\ b = axis'  OBVIOUS
  <2>5. LatestTimestamp(u) = t /\ t \in Int
    BY <2>2, <2>3, <2>4, TrackerFields DEF LatestTimestamp, TrackerTrue
  <2>6. AxisEnds(b, unit, Floor(t, LabelsOn[unit]))
    BY <1>2, <1>3, <2>0, <2>1, <2>4, <2>5, AxisRenderedIs
  <2>7. u.unit = unit
    <3>1. CASE unit = tracker.unit  BY <1>1, <3>1 DEF ByUnit
    <3>2. CASE unit # tracker.unit
      <4>1. "unit" \in DOMAIN tracker  BY <2>2 DEF TrackerTrue, Trackers
      <4> QED BY <1>1, <3>2, <4>1 DEF ByUnit, UnitSizeSet
    <3> QED BY <3>1, <3>2
  <2>8. GraphDrawn(unit)'  BY <1>2, <2>1, <2>4, <2>5, <2>6, <2>7 DEF GraphDrawn
  <2>9. AxisTrue(axis')  BY <2>4, <2>6 DEF AxisEnds
  <2> QED BY <1>2, <2>8, <2>9 DEF GraphInv
<1> QED BY <1>4, <1>5

\* Every step.
LEMMA GraphStep ==
    ASSUME IInv, TrackerInv, GraphInv, [Next]_vars
    PROVE  GraphInv'
<1>1. ASSUME axis' = axis, dirty' = TRUE PROVE GraphInv'  BY <1>1 DEF GraphInv
<1>2. ASSUME UNCHANGED <<axis, tracker, terminal, layout, screen>>, ~dirty' => ~dirty /\ ui'.unit = ui.unit
      PROVE  GraphInv'
  BY <1>2 DEF GraphInv, GraphDrawn
<1>3. CASE Key
  <2>1. UNCHANGED <<axis, tracker, terminal, layout, screen>>  BY <1>3 DEF Key
  <2>2. ASSUME ~dirty' PROVE ~dirty /\ ui'.unit = ui.unit  BY <1>3, <2>2, KeyUnit
  <2> QED BY <1>2, <2>1, <2>2
<1>4. CASE PopupArrives  BY <1>1, <1>4 DEF PopupArrives
<1>5. CASE PopupCloses  BY <1>1, <1>5 DEF PopupCloses
<1>6. CASE Answered  BY <1>1, <1>6 DEF Answered, PopupTask
<1>7. CASE BeepEnds  BY <1>1, <1>7 DEF BeepEnds, PopupTask
<1>8. CASE ListLoads  BY <1>1, <1>8 DEF ListLoads, PopupTask
<1>9. CASE ListChanges  BY <1>1, <1>9 DEF ListChanges, PopupTask
<1>10. CASE LogEvent  BY <1>1, <1>10 DEF LogEvent
<1>11. CASE BytesEvent  BY <1>1, <1>11 DEF BytesEvent, Recorded
<1>12. CASE Ticker  BY <1>1, <1>12 DEF Ticker, Recorded
<1>13. CASE TimePasses  BY <1>2, <1>13 DEF TimePasses
<1>14. CASE TerminalResized  BY <1>1, <1>14 DEF TerminalResized
<1>15. CASE Draw  BY <1>15, GraphDraws
<1>16. CASE UNCHANGED vars  BY <1>2, <1>16 DEF vars
<1> QED
  BY <1>3, <1>4, <1>5, <1>6, <1>7, <1>8, <1>9, <1>10, <1>11, <1>12, <1>13, <1>14, <1>15, <1>16 DEF Next

\* What is drawn of the usage is what was recorded, with the times of its axis.
LEMMA GraphIs ==
    ASSUME TrackerInv, GraphInv
    PROVE  GraphShown
<1> SUFFICES ASSUME ~dirty, ~IsEmpty(terminal), layout.graph
             PROVE  screen.unit = ui.unit /\ GraphTrue(screen.usage, screen.unit) /\ LabelsTrue(screen.labels, screen.unit)
  BY DEF GraphShown
<1>1. PICK unit : unit = ui.unit  OBVIOUS
<1>2. GraphDrawn(unit)  BY <1>1 DEF GraphInv
<1>3. screen.unit = unit /\ tracker.unit = unit /\ screen.usage = UsageShown(tracker) /\ screen.labels = axis.labels
  BY <1>2 DEF GraphDrawn
<1>4. UsageKept /\ TrackerTrue(tracker, recorded)  BY UsageIs DEF TrackerInv
<1>5. GraphTrue(screen.usage, unit)
  <2>1. CASE tracker.units # <<>>  BY <1>3, <1>4, <2>1 DEF UsageKept, UsageShown
  <2>2. CASE tracker.units = <<>>
    <3>1. unit = 1 /\ screen.usage = tracker.seconds
      BY <1>3, <1>4, <2>2 DEF TrackerTrue, UsageShown
    <3>2. PICK start, n, s : start = tracker.start /\ n = Len(s) /\ s = tracker.seconds
      OBVIOUS
    <3>3. start \in Nat /\ n \in Nat \ {0} /\ MaxHistory \in Nat
      BY <1>4, <3>2, UsageTrackerAssumption DEF TrackerTrue, SecondsTrue
    <3>4. \A i \in 1 .. n : s[i] = RecordedIn(start + i - 1, start + i - 1)
      BY <1>4, <3>2 DEF UsageKept
    <3>5. PICK last : last = Floor(LatestTimestamp(tracker), 1)  OBVIOUS
    <3>6. last = start + n - 1
      <4>1. PICK t : t = start + n - 1  OBVIOUS
      <4>2. t \in Int /\ LatestTimestamp(tracker) = t
        BY <3>2, <3>3, <4>1 DEF LatestTimestamp
      <4>3. Floor(t, 1) = t  BY <4>2 DEF Floor
      <4> QED BY <3>5, <4>1, <4>2, <4>3
    <3>7. ASSUME NEW k \in 0 .. MaxHistory, last - k * 1 >= start
          PROVE  k < n /\ s[n - k] = RecordedIn(last - k * 1, last - k * 1 + 1 - 1)
      <4>1. PICK from, i : from = last - k * 1 /\ i = n - k  OBVIOUS
      <4>2. k < n /\ i \in 1 .. n /\ from = start + i - 1 /\ from + 1 - 1 = from
        BY <3>3, <3>6, <3>7, <4>1
      <4> QED BY <3>4, <4>1, <4>2
    <3> QED BY <3>1, <3>2, <3>5, <3>7 DEF GraphTrue
  <2> QED BY <2>1, <2>2
<1>6. LabelsTrue(screen.labels, unit)
  <2>1. PICK on, last, s : on = LabelsOn[unit] /\ last = Floor(LatestTimestamp(tracker), on) /\ s = axis.labels
    OBVIOUS
  <2>2. s # <<>> /\ LabelRow(s, Len(s), last, on, unit)
    BY <1>2, <2>1 DEF GraphDrawn, AxisEnds, AxisTrue
  <2>3. \A i \in 1 .. Len(s) : s[i] = Label(last - (Len(s) - i) * on, unit)
    BY <2>2 DEF LabelRow, LabelBefore
  <2> QED BY <1>3, <2>1, <2>2, <2>3 DEF LabelsTrue
<1> QED BY <1>1, <1>3, <1>5, <1>6

\* The graph shows what was recorded in each unit of the precision that is selected, and the
\* times of it, whenever no redraw is asked for: usage_tracker.rs and usage_graph.rs, for any
\* times and bytes, and any order of draws, changes of the precision and sizes of the terminal.
THEOREM GraphFollows == Spec => []GraphShown
<1>1. Init => IInv /\ TrackerInv /\ GraphInv  BY InitGood, TrackerInit, GraphInit
<1>2. IInv /\ TrackerInv /\ GraphInv /\ [Next]_vars => IInv' /\ TrackerInv' /\ GraphInv'
  BY StepGood, TrackerStep, UnitIs, GraphStep
<1>3. TrackerInv /\ GraphInv => GraphShown  BY GraphIs
<1> QED BY <1>1, <1>2, <1>3, PTL DEF Spec

================================================================================
