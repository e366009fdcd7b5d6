--------------------------- MODULE SocketsProofs ---------------------------
(***************************************************************************)
(* The lemmas the proofs about the servers have in common, and of which      *)
(* SessionProofs uses the first part, which knows of no socket:              *)
(*   - what is chosen from a sequence, what erasing does to it, and what a   *)
(*     session is after any part of a stream;                                *)
(*   - what the calls of the servers and the steps of the peers do to the    *)
(*     places a connection can be in and to the counts of its bytes;         *)
(*   - what a server owes the peer of a connection.                          *)
(***************************************************************************)
EXTENDS Sockets, SequenceTheorems, WellFoundedInduction, TLAPS

\* A set that has 0 and with every number its successor has all of them.
LEMMA Induction ==
  ASSUME NEW S, 0 \in S, \A n \in Nat : n \in S => n + 1 \in S
  PROVE  Nat \subseteq S
<1> DEFINE Less == {p \in Nat \X Nat : p[1] < p[2]}
           T == {n \in Nat : n \notin S}
<1> SUFFICES ASSUME T # {} PROVE FALSE
  OBVIOUS
<1>1. IsWellFoundedOn(Less, Nat)
  <2>1. Less = OpToRel(<, Nat)
    BY Zenon DEF OpToRel
  <2> QED
    BY <2>1, NatLessThanWellFounded
<1>2. PICK low \in T : \A n \in T : <<n, low>> \notin Less
  <2>1. T \subseteq Nat
    OBVIOUS
  <2> HIDE DEF Less, T
  <2> QED
    BY <1>1, <2>1, WFMin
<1>3. low \in Nat /\ low \notin S /\ low # 0 /\ low - 1 \in Nat /\ (low - 1) + 1 = low
  OBVIOUS
<1>4. <<low - 1, low>> \in Less
  <2> DEFINE t == low - 1
  <2>1. t \in Nat /\ t < low
    BY <1>3
  <2> HIDE DEF t
  <2>2. <<t, low>> \in Nat \X Nat /\ <<t, low>>[1] = t /\ <<t, low>>[2] = low
    BY <1>3, <2>1
  <2>3. <<t, low>> \in Less
    BY <2>1, <2>2, Zenon
  <2> QED
    BY <2>3 DEF t
<1>5. low - 1 \notin T
  <2> HIDE DEF Less
  <2> QED
    BY <1>2, <1>4
<1> QED
  BY <1>3, <1>5

\* A function that goes through s and collects what is in K.
Collects(f, s, K, n) ==
  f = [i \in 0..n |-> IF i = 0 THEN <<>>
                      ELSE IF s[i] \in K THEN Append(f[i - 1], s[i]) ELSE f[i - 1]]

LEMMA CollectorExists ==
  ASSUME NEW s, NEW K
  PROVE  \A n \in Nat : \E f : Collects(f, s, K, n)
<1> DEFINE S == {n \in Nat : \E f : Collects(f, s, K, n)}
<1>1. 0 \in S
  <2> DEFINE f == [i \in 0..0 |-> <<>>]
  <2>1. Collects(f, s, K, 0)
    BY DEF Collects
  <2> QED
    BY <2>1
<1>2. ASSUME NEW n \in Nat, n \in S
      PROVE  n + 1 \in S
  <2>1. PICK f : Collects(f, s, K, n)
    BY <1>2
  <2> DEFINE next == IF s[n + 1] \in K THEN Append(f[n], s[n + 1]) ELSE f[n]
             g == [i \in 0..(n + 1) |-> IF i = n + 1 THEN next ELSE f[i]]
  <2> HIDE DEF next
  <2>2. \A i \in 0..n : g[i] = f[i]
    OBVIOUS
  <2>3. ASSUME NEW i \in 0..(n + 1)
        PROVE  g[i] = IF i = 0 THEN <<>>
                      ELSE IF s[i] \in K THEN Append(g[i - 1], s[i]) ELSE g[i - 1]
    <3>1. CASE i = n + 1
      <4>1. g[i] = next /\ i # 0 /\ g[i - 1] = f[n]
        BY <2>2, <3>1
      <4> HIDE DEF g
      <4> QED
        BY <3>1, <4>1 DEF next
    <3>2. CASE i # n + 1
      <4>1. i \in 0..n /\ (i # 0 => i - 1 \in 0..n)
        BY <3>2
      <4>2. g[i] = f[i] /\ (i # 0 => g[i - 1] = f[i - 1])
        BY <2>2, <4>1
      <4>3. f[i] = IF i = 0 THEN <<>>
                   ELSE IF s[i] \in K THEN Append(f[i - 1], s[i]) ELSE f[i - 1]
        BY <2>1, <4>1 DEF Collects
      <4> HIDE DEF g
      <4> QED
        BY <4>2, <4>3
    <3> QED
      BY <3>1, <3>2
  <2>4. g = [i \in 0..(n + 1) |-> g[i]]
    OBVIOUS
  <2> HIDE DEF g
  <2>5. Collects(g, s, K, n + 1)
    BY <2>3, <2>4 DEF Collects
  <2> QED
    BY <2>5
<1> HIDE DEF S
<1>3. Nat \subseteq S
  BY <1>1, <1>2, Induction
<1> QED
  BY <1>3 DEF S

\* The function of Only is such a one.
LEMMA OnlyIs ==
  ASSUME NEW s, NEW K, Len(s) \in Nat
  PROVE  \E f : Collects(f, s, K, Len(s)) /\ Only(s, K) = f[Len(s)]
<1>1. \E f : Collects(f, s, K, Len(s))
  BY CollectorExists
<1> QED
  BY <1>1 DEF Only, Collects

LEMMA OnlyEmpty ==
  ASSUME NEW K
  PROVE  Only(<<>>, K) = <<>>
<1>1. Len(<<>>) = 0
  OBVIOUS
<1>2. PICK f : Collects(f, <<>>, K, 0) /\ Only(<<>>, K) = f[0]
  BY <1>1, OnlyIs
<1> QED
  BY <1>2 DEF Collects

LEMMA OnlyAppend ==
  ASSUME NEW S, NEW s \in Seq(S), NEW x \in S, NEW K
  PROVE  Only(Append(s, x), K) = IF x \in K THEN Append(Only(s, K), x) ELSE Only(s, K)
<1> DEFINE w == Append(s, x)
           n == Len(s)
<1>1. /\ n \in Nat /\ Len(w) = n + 1 /\ w[n + 1] = x
      /\ \A i \in 1..n : w[i] = s[i]
  OBVIOUS
<1> HIDE DEF w, n
<1>2. PICK f : Collects(f, s, K, n) /\ Only(s, K) = f[n]
  BY <1>1, OnlyIs DEF n
<1>3. PICK g : Collects(g, w, K, n + 1) /\ Only(w, K) = g[n + 1]
  BY <1>1, OnlyIs
<1> DEFINE I == {i \in Nat : i \in 0..n => g[i] = f[i]}
<1>4. 0 \in I
  BY <1>1, <1>2, <1>3 DEF Collects
<1>5. ASSUME NEW i \in Nat, i \in I
      PROVE  i + 1 \in I
  <2> SUFFICES ASSUME i + 1 \in 0..n PROVE g[i + 1] = f[i + 1]
    OBVIOUS
  <2>1. /\ g[i] = f[i] /\ w[i + 1] = s[i + 1] /\ (i + 1) - 1 = i
        /\ i + 1 # 0 /\ i + 1 \in 0..(n + 1)
    BY <1>1, <1>5
  <2>2. g[i + 1] = IF w[i + 1] \in K THEN Append(g[i], w[i + 1]) ELSE g[i]
    BY <1>3, <2>1 DEF Collects
  <2>3. f[i + 1] = IF s[i + 1] \in K THEN Append(f[i], s[i + 1]) ELSE f[i]
    BY <1>2, <2>1 DEF Collects
  <2> QED
    BY <2>1, <2>2, <2>3
<1> HIDE DEF I
<1>6. Nat \subseteq I
  BY <1>4, <1>5, Induction
<1>7. g[n] = f[n]
  BY <1>1, <1>6 DEF I
<1>8. g[n + 1] = IF x \in K THEN Append(g[n], x) ELSE g[n]
  <2>1. n + 1 \in 0..(n + 1) /\ n + 1 # 0 /\ (n + 1) - 1 = n
    BY <1>1
  <2> QED
    BY <1>1, <1>3, <2>1 DEF Collects
<1> QED
  BY <1>2, <1>3, <1>7, <1>8 DEF w

\* What holds of the empty sequence and is kept by Append holds of every sequence.
LEMMA SeqInduction ==
  ASSUME NEW S, NEW P, <<>> \in P,
         \A s \in Seq(S) : \A x \in S : s \in P => Append(s, x) \in P
  PROVE  Seq(S) \subseteq P
<1> DEFINE I == {n \in Nat : \A s \in Seq(S) : Len(s) = n => s \in P}
<1>1. 0 \in I
  <2>1. \A s \in Seq(S) : Len(s) = 0 => s = <<>>
    OBVIOUS
  <2> QED
    BY <2>1
<1>2. ASSUME NEW n \in Nat, n \in I
      PROVE  n + 1 \in I
  <2> SUFFICES ASSUME NEW s \in Seq(S), Len(s) = n + 1
               PROVE  s \in P
    OBVIOUS
  <2> DEFINE front == SubSeq(s, 1, n)
             last == s[n + 1]
  <2>1. front \in Seq(S) /\ Len(front) = n /\ last \in S
    OBVIOUS
  <2>2. s = Append(front, last)
    <3>1. /\ Append(front, last) \in Seq(S) /\ Len(Append(front, last)) = n + 1
          /\ \A i \in 1..(n + 1) :
               Append(front, last)[i] = IF i = n + 1 THEN last ELSE front[i]
      BY <2>1, AppendProperties
    <3>2. \A i \in 1..n : front[i] = s[i]
      OBVIOUS
    <3> HIDE DEF front
    <3>3. \A i \in 1..(n + 1) : i = n + 1 \/ i \in 1..n
      OBVIOUS
    <3>4. \A i \in 1..(n + 1) : Append(front, last)[i] = s[i]
      BY <3>1, <3>2, <3>3
    <3> HIDE DEF last
    <3> QED
      BY <3>1, <3>4, SeqEqual
  <2> HIDE DEF front, last
  <2>3. front \in P
    BY <1>2, <2>1
  <2> QED
    BY <2>1, <2>2, <2>3
<1> HIDE DEF I
<1>3. Nat \subseteq I
  BY <1>1, <1>2, Induction
<1> QED
  BY <1>3 DEF I

LEMMA OnlyType ==
  ASSUME NEW S, NEW s \in Seq(S), NEW K
  PROVE  Only(s, K) \in Seq(S)
<1> DEFINE P == {t \in Seq(S) : Only(t, K) \in Seq(S)}
<1>1. <<>> \in P
  <2>1. <<>> \in Seq(S)
    OBVIOUS
  <2> QED
    BY <2>1, OnlyEmpty
<1>2. ASSUME NEW t \in Seq(S), NEW x \in S, t \in P
      PROVE  Append(t, x) \in P
  <2>1. Only(Append(t, x), K) = IF x \in K THEN Append(Only(t, K), x) ELSE Only(t, K)
    BY OnlyAppend
  <2>2. Append(t, x) \in Seq(S) /\ Only(t, K) \in Seq(S)
    BY <1>2
  <2>3. Append(Only(t, K), x) \in Seq(S)
    BY <2>2, AppendProperties
  <2> QED
    BY <2>1, <2>2, <2>3
<1> HIDE DEF P
<1>3. Seq(S) \subseteq P
  BY <1>1, <1>2, SeqInduction
<1> QED
  BY <1>3 DEF P

\* Which elements of two sequences are chosen does not depend on where they meet.
LEMMA OnlyConcat ==
  ASSUME NEW S, NEW s \in Seq(S), NEW t \in Seq(S), NEW K
  PROVE  Only(s \o t, K) = Only(s, K) \o Only(t, K)
<1> DEFINE P == {u \in Seq(S) : Only(s \o u, K) = Only(s, K) \o Only(u, K)}
<1>0. Only(s, K) \in Seq(S)
  BY OnlyType
<1>1. <<>> \in P
  <2>1. s \o <<>> = s /\ Only(s, K) \o <<>> = Only(s, K) /\ <<>> \in Seq(S)
    BY <1>0
  <2> QED
    BY <2>1, OnlyEmpty
<1>2. ASSUME NEW u \in Seq(S), NEW x \in S, u \in P
      PROVE  Append(u, x) \in P
  <2>1. s \o u \in Seq(S) /\ Append(u, x) \in Seq(S)
    OBVIOUS
  <2>2. s \o Append(u, x) = Append(s \o u, x)
    OBVIOUS
  <2>3. Only(s \o Append(u, x), K) =
          IF x \in K THEN Append(Only(s \o u, K), x) ELSE Only(s \o u, K)
    <3> DEFINE all == s \o u
    <3>1. all \in Seq(S) /\ s \o Append(u, x) = Append(all, x)
      BY <2>1, <2>2
    <3> HIDE DEF all
    <3>2. Only(Append(all, x), K) = IF x \in K THEN Append(Only(all, K), x) ELSE Only(all, K)
      BY <3>1, OnlyAppend
    <3> QED
      BY <3>1, <3>2 DEF all
  <2>4. Only(Append(u, x), K) = IF x \in K THEN Append(Only(u, K), x) ELSE Only(u, K)
    BY OnlyAppend
  <2>5. Only(u, K) \in Seq(S)
    BY OnlyType
  <2>6. Append(Only(s, K) \o Only(u, K), x) = Only(s, K) \o Append(Only(u, K), x)
    <3> DEFINE a == Only(s, K)
               b == Only(u, K)
    <3>1. a \in Seq(S) /\ b \in Seq(S)
      BY <1>0, <2>5
    <3> HIDE DEF a, b
    <3>2. a \o Append(b, x) = Append(a \o b, x)
      <4>1. a \o b \in Seq(S) /\ <<x>> \in Seq(S)
        BY <3>1
      <4>2. Append(b, x) = b \o <<x>> /\ Append(a \o b, x) = (a \o b) \o <<x>>
        BY <3>1, <4>1, AppendIsConcat
      <4> QED
        BY <3>1, <4>1, <4>2, ConcatAssociative
    <3> QED
      BY <3>2 DEF a, b
  <2>7. Only(s \o u, K) = Only(s, K) \o Only(u, K)
    BY <1>2
  <2>8. Only(s \o Append(u, x), K) = Only(s, K) \o Only(Append(u, x), K)
    BY <2>3, <2>4, <2>6, <2>7
  <2> QED
    BY <2>1, <2>8
<1> HIDE DEF P
<1>3. Seq(S) \subseteq P
  BY <1>1, <1>2, SeqInduction
<1> QED
  BY <1>3 DEF P

\* Only the elements matter, and which of them are in the set.
LEMMA OnlySame ==
  ASSUME NEW S, NEW s \in Seq(S), NEW K, NEW L,
         \A i \in 1..Len(s) : s[i] \in K <=> s[i] \in L
  PROVE  Only(s, K) = Only(s, L)
<1> DEFINE Alike(t) == \A i \in 1..Len(t) : t[i] \in K <=> t[i] \in L
           P == {t \in Seq(S) : Alike(t) => Only(t, K) = Only(t, L)}
<1>1. <<>> \in P
  BY OnlyEmpty
<1>2. ASSUME NEW t \in Seq(S), NEW x \in S, t \in P
      PROVE  Append(t, x) \in P
  <2> SUFFICES ASSUME Alike(Append(t, x))
               PROVE  Only(Append(t, x), K) = Only(Append(t, x), L)
    BY AppendProperties
  <2>1. /\ Len(Append(t, x)) = Len(t) + 1 /\ Len(t) \in Nat
        /\ Append(t, x)[Len(t) + 1] = x
        /\ \A i \in 1..Len(t) : Append(t, x)[i] = t[i]
    OBVIOUS
  <2>2. x \in K <=> x \in L
    BY <2>1
  <2>3. Alike(t)
    BY <2>1
  <2> HIDE DEF Alike
  <2>4. Only(t, K) = Only(t, L)
    BY <1>2, <2>3
  <2>5. /\ Only(Append(t, x), K) = IF x \in K THEN Append(Only(t, K), x) ELSE Only(t, K)
        /\ Only(Append(t, x), L) = IF x \in L THEN Append(Only(t, L), x) ELSE Only(t, L)
    BY OnlyAppend
  <2> QED
    BY <2>2, <2>4, <2>5
<1> HIDE DEF P
<1>3. Seq(S) \subseteq P
  BY <1>1, <1>2, SeqInduction
<1> QED
  BY <1>3 DEF P

LEMMA OnlyNothing ==
  ASSUME NEW S, NEW s \in Seq(S)
  PROVE  Only(s, {}) = <<>>
<1> DEFINE P == {t \in Seq(S) : Only(t, {}) = <<>>}
<1>1. <<>> \in P
  BY OnlyEmpty
<1>2. ASSUME NEW t \in Seq(S), NEW x \in S, t \in P
      PROVE  Append(t, x) \in P
  BY <1>2, OnlyAppend, AppendProperties
<1> HIDE DEF P
<1>3. Seq(S) \subseteq P
  BY <1>1, <1>2, SeqInduction
<1> QED
  BY <1>3 DEF P

LEMMA OnlyNone ==
  ASSUME NEW S, NEW s \in Seq(S), NEW K, \A i \in 1..Len(s) : s[i] \notin K
  PROVE  Only(s, K) = <<>>
BY OnlySame, OnlyNothing

LEMMA OnlyAll ==
  ASSUME NEW S, NEW s \in Seq(S), NEW K, S \subseteq K
  PROVE  Only(s, K) = s
<1> DEFINE P == {t \in Seq(S) : Only(t, K) = t}
<1>1. <<>> \in P
  BY OnlyEmpty
<1>2. ASSUME NEW t \in Seq(S), NEW x \in S, t \in P
      PROVE  Append(t, x) \in P
  BY <1>2, OnlyAppend, AppendProperties
<1> HIDE DEF P
<1>3. Seq(S) \subseteq P
  BY <1>1, <1>2, SeqInduction
<1> QED
  BY <1>3 DEF P

-----------------------------------------------------------------------------
\* Tokens a + 1 to b of a sequence.
Part(s, a, b) == SubSeq(s, a + 1, b)

LEMMA PartIs ==
  ASSUME NEW S, NEW s \in Seq(S), NEW b \in 0..Len(s), NEW a \in 0..b
  PROVE  /\ Part(s, a, b) \in Seq(S)
         /\ Len(Part(s, a, b)) = b - a
         /\ \A i \in 1..(b - a) : Part(s, a, b)[i] = s[a + i]
<1>1. Len(s) \in Nat /\ a \in Nat /\ b \in Nat /\ a <= b /\ b <= Len(s)
  OBVIOUS
<1>2. \A i \in (a + 1)..b : s[i] \in S
  BY <1>1
<1>3. a + 1 \in Int /\ b \in Int
  BY <1>1
<1>4. /\ SubSeq(s, a + 1, b) \in Seq(S)
      /\ Len(SubSeq(s, a + 1, b)) = IF a + 1 <= b THEN b - (a + 1) + 1 ELSE 0
      /\ \A i \in 1..(b - (a + 1) + 1) : SubSeq(s, a + 1, b)[i] = s[a + 1 + i - 1]
  BY <1>2, <1>3, SubSeqProperties
<1>5. Len(SubSeq(s, a + 1, b)) = b - a
  BY <1>1, <1>4
<1>6. ASSUME NEW i \in 1..(b - a)
      PROVE  SubSeq(s, a + 1, b)[i] = s[a + i]
  <2>1. i \in 1..(b - (a + 1) + 1) /\ a + 1 + i - 1 = a + i
    BY <1>1
  <2> QED
    BY <1>4, <2>1
<1> QED
  BY <1>4, <1>5, <1>6 DEF Part

LEMMA FrontIs ==
  ASSUME NEW S, NEW s \in Seq(S), NEW b \in 0..Len(s)
  PROVE  /\ Part(s, 0, b) \in Seq(S)
         /\ Len(Part(s, 0, b)) = b
         /\ \A i \in 1..b : Part(s, 0, b)[i] = s[i]
<1>1. 0 \in 0..b /\ b - 0 = b /\ \A i \in 1..b : 0 + i = i
  OBVIOUS
<1>2. /\ Part(s, 0, b) \in Seq(S)
      /\ Len(Part(s, 0, b)) = b - 0
      /\ \A i \in 1..(b - 0) : Part(s, 0, b)[i] = s[0 + i]
  BY <1>1, PartIs
<1> QED
  BY <1>1, <1>2

LEMMA PartJoin ==
  ASSUME NEW S, NEW s \in Seq(S), NEW c \in 0..Len(s), NEW b \in 0..c, NEW a \in 0..b
  PROVE  Part(s, a, b) \o Part(s, b, c) = Part(s, a, c)
<1>1. a + 1 \in 1..(Len(s) + 1) /\ b \in ((a + 1) - 1)..Len(s) /\ c \in b..Len(s)
  OBVIOUS
<1> QED
  BY <1>1, ConcatAdjacentSubSeq DEF Part

LEMMA PartOfPart ==
  ASSUME NEW S, NEW s \in Seq(S), NEW b \in 0..Len(s), NEW a \in 0..b,
         NEW y \in 0..(b - a), NEW x \in 0..y
  PROVE  Part(Part(s, a, b), x, y) = Part(s, a + x, a + y)
<1> DEFINE p == Part(s, a, b)
<1>1. /\ p \in Seq(S) /\ Len(p) = b - a
      /\ \A i \in 1..(b - a) : p[i] = s[a + i]
  BY PartIs
<1> HIDE DEF p
<1>2. /\ Part(p, x, y) \in Seq(S) /\ Len(Part(p, x, y)) = y - x
      /\ \A i \in 1..(y - x) : Part(p, x, y)[i] = p[x + i]
  <2>1. p \in Seq(S) /\ y \in 0..Len(p) /\ x \in 0..y
    BY <1>1
  <2> QED
    BY <2>1, PartIs
<1>3. /\ Part(s, a + x, a + y) \in Seq(S) /\ Len(Part(s, a + x, a + y)) = y - x
      /\ \A i \in 1..(y - x) : Part(s, a + x, a + y)[i] = s[a + x + i]
  <2>1. a + y \in 0..Len(s) /\ a + x \in 0..(a + y) /\ (a + y) - (a + x) = y - x
    OBVIOUS
  <2> DEFINE m == a + x
             n == a + y
  <2>2. n \in 0..Len(s) /\ m \in 0..n /\ n - m = y - x
    BY <2>1
  <2> HIDE DEF m, n
  <2>3. /\ Part(s, m, n) \in Seq(S) /\ Len(Part(s, m, n)) = n - m
        /\ \A i \in 1..(n - m) : Part(s, m, n)[i] = s[m + i]
    BY <2>2, PartIs
  <2> QED
    BY <2>2, <2>3 DEF m, n
<1>4. ASSUME NEW i \in 1..(y - x)
      PROVE  Part(p, x, y)[i] = Part(s, a + x, a + y)[i]
  <2>1. x + i \in 1..(b - a) /\ a + (x + i) = a + x + i
    OBVIOUS
  <2> QED
    BY <1>1, <1>2, <1>3, <2>1
<1>5. Part(p, x, y) = Part(s, a + x, a + y)
  BY <1>2, <1>3, <1>4, SeqEqual
<1> QED
  BY <1>5 DEF p

-----------------------------------------------------------------------------
\* A set of numbers up to n that has any has a greatest.
LEMMA MaxOfSet ==
  ASSUME NEW n \in Nat, NEW S \in SUBSET (0..n), S # {}
  PROVE  Max(S) \in S /\ \A x \in S : x <= Max(S)
<1> DEFINE Top(T) == \E m \in T : \A x \in T : m >= x
           I == {k \in Nat : \A T \in SUBSET (0..k) : T # {} => Top(T)}
<1>1. 0 \in I
  <2>1. ASSUME NEW T \in SUBSET (0..0), T # {}
        PROVE  0 \in T /\ \A x \in T : 0 >= x
    <3>1. \A x \in T : x = 0
      OBVIOUS
    <3>2. 0 \in T
      BY <2>1, <3>1, Zenon
    <3>3. \A x \in T : 0 >= x
      BY <3>1
    <3> QED
      BY <3>2, <3>3
  <2> QED
    BY <2>1
<1>2. ASSUME NEW k \in Nat, k \in I
      PROVE  k + 1 \in I
  <2> SUFFICES ASSUME NEW T \in SUBSET (0..(k + 1)), T # {}
               PROVE  Top(T)
    OBVIOUS
  <2>1. CASE k + 1 \in T
    <3>1. \A x \in T : k + 1 >= x
      OBVIOUS
    <3> QED
      BY <2>1, <3>1
  <2>2. CASE k + 1 \notin T
    <3>1. T \in SUBSET (0..k)
      BY <2>2
    <3> HIDE DEF Top
    <3> QED
      BY <1>2, <3>1
  <2> QED
    BY <2>1, <2>2
<1> HIDE DEF I
<1>3. Nat \subseteq I
  BY <1>1, <1>2, Induction
<1>4. Top(S)
  <2> HIDE DEF Top
  <2> QED
    BY <1>3 DEF I
<1>5. Max(S) \in S /\ \A x \in S : Max(S) >= x
  BY <1>4 DEF Max
<1> QED
  BY <1>5

-----------------------------------------------------------------------------
\* Where frames end in the first n tokens of s, and the last place a frame can
\* begin: behind the last of them, or behind the marker.
EndsIn(s, n)  == {k \in (MarkerLen + 1)..n : CleanUpTo(s, k) /\ s[k].kind \in FrameEnds}
LastEnd(s, n) == Max(EndsIn(s, n) \cup {MarkerLen})

\* The tokens that end an event its logger lets through.
Permitted == {t \in Token : t.kind = "event"}

\* What a session is after n tokens of s, acceptable or not.
Held(s, n) ==
  IF n < MarkerLen \/ ~MarkerOK(s)
    THEN [func |-> NoFunc, buf |-> Part(s, 0, n)]
    ELSE [func |-> s[2].kind, buf |-> Part(s, LastEnd(s, n), n)]

LEMMA LastEndIs ==
  ASSUME NEW s, NEW n \in Nat
  PROVE  /\ LastEnd(s, n) \in EndsIn(s, n) \cup {2}
         /\ \A k \in EndsIn(s, n) \cup {2} : k <= LastEnd(s, n)
         /\ LastEnd(s, n) \in Nat /\ 2 <= LastEnd(s, n)
         /\ n >= 2 => LastEnd(s, n) <= n
         /\ n <= 2 => LastEnd(s, n) = 2
<1> DEFINE T == EndsIn(s, n) \cup {2}
<1>1. EndsIn(s, n) \subseteq 3..n
  BY DEF EndsIn, MarkerLen
<1>2. T \in SUBSET (0..(n + 2)) /\ T # {} /\ n + 2 \in Nat /\ 2 \in T
  BY <1>1
<1>3. LastEnd(s, n) = Max(T)
  BY DEF LastEnd, MarkerLen
<1> HIDE DEF T
<1>4. LastEnd(s, n) \in T /\ \A k \in T : k <= LastEnd(s, n)
  BY <1>2, <1>3, MaxOfSet
<1>5. LastEnd(s, n) \in Nat /\ 2 <= LastEnd(s, n)
  <2>1. LastEnd(s, n) \in 0..(n + 2)
    BY <1>2, <1>4
  <2>2. 2 <= LastEnd(s, n)
    BY <1>2, <1>4
  <2> QED
    BY <2>1, <2>2
<1>6. LastEnd(s, n) = 2 \/ LastEnd(s, n) \in 3..n
  BY <1>1, <1>4 DEF T
<1>7. (n >= 2 => LastEnd(s, n) <= n) /\ (n <= 2 => LastEnd(s, n) = 2)
  BY <1>6
<1> QED
  BY <1>4, <1>5, <1>7 DEF T

\* The while loop of forceLog from a place a frame can begin at.
LEMMA DecodeFrom ==
  ASSUME NEW s \in Seq(Token), NEW u \in 2..Len(s), NEW e \in 2..u,
         e \in EndsIn(s, u) \cup {2}, NEW func
  PROVE  DecodeAll(func, Part(s, e, u)) =
           Outcome(func, Part(s, LastEnd(s, u), u), Only(Part(s, e, LastEnd(s, u)), Permitted),
                   CleanUpTo(s, u))
<1> DEFINE b == Part(s, e, u)
           top == LastEnd(s, u)
           Clean(n) == \A m \in 1..n : b[m].kind \in FrameKinds
           D == {n \in 1..Len(b) : Clean(n) /\ b[n].kind \in FrameEnds} \cup {0}
           d == Max(D)
<1>1. u \in Nat /\ e \in Nat /\ 2 <= e /\ e <= u /\ u <= Len(s) /\ Len(s) \in Nat
  OBVIOUS
<1>2. /\ b \in Seq(Token) /\ Len(b) = u - e
      /\ \A i \in 1..(u - e) : b[i] = s[e + i]
  <2>1. s \in Seq(Token) /\ u \in 0..Len(s) /\ e \in 0..u
    BY <1>1
  <2>2. /\ Part(s, e, u) \in Seq(Token) /\ Len(Part(s, e, u)) = u - e
        /\ \A i \in 1..(u - e) : Part(s, e, u)[i] = s[e + i]
    BY <2>1, PartIs, ZenonT(60)
  <2> QED
    BY <2>2
<1> HIDE DEF b
<1>3. CleanUpTo(s, e)
  BY <1>1 DEF EndsIn, CleanUpTo, MarkerLen
<1>4. ASSUME NEW n \in 0..(u - e)
      PROVE  Clean(n) <=> CleanUpTo(s, e + n)
  <2>1. ASSUME Clean(n), NEW m \in 3..(e + n)
        PROVE  s[m].kind \in FrameKinds
    <3>1. CASE m <= e
      <4>1. m \in 3..e
        BY <1>1, <3>1
      <4> QED
        BY <1>3, <4>1 DEF CleanUpTo, MarkerLen
    <3>2. CASE m > e
      <4>1. m - e \in 1..n /\ m - e \in 1..(u - e) /\ e + (m - e) = m
        BY <1>1, <3>2
      <4>2. b[m - e] = s[m]
        BY <1>2, <4>1
      <4> QED
        BY <2>1, <4>1, <4>2
    <3> QED
      BY <1>1, <3>1, <3>2
  <2>2. ASSUME CleanUpTo(s, e + n), NEW m \in 1..n
        PROVE  b[m].kind \in FrameKinds
    <3>1. m \in 1..(u - e) /\ e + m \in 3..(e + n)
      BY <1>1
    <3> QED
      BY <1>2, <2>2, <3>1 DEF CleanUpTo, MarkerLen
  <2> QED
    BY <2>1, <2>2 DEF CleanUpTo, MarkerLen
<1>5. /\ d \in D /\ \A n \in D : n <= d
      /\ d \in 0..(u - e)
  <2>1. u - e \in Nat /\ D \in SUBSET (0..(u - e)) /\ D # {}
    BY <1>1, <1>2
  <2>2. Max(D) \in D /\ \A n \in D : n <= Max(D)
    <3> HIDE DEF D
    <3> QED
      BY <2>1, MaxOfSet
  <2> HIDE DEF D
  <2> QED
    BY <2>1, <2>2
<1> HIDE DEF d
<1>6. /\ top \in EndsIn(s, u) \cup {2} /\ \A k \in EndsIn(s, u) \cup {2} : k <= top
      /\ top \in Nat /\ top <= u
  BY <1>1, LastEndIs
<1> HIDE DEF top
<1>7. ASSUME NEW n \in 1..(u - e)
      PROVE  n \in D <=> e + n \in EndsIn(s, u)
  <2>1. e + n \in 3..u /\ n \in 0..(u - e) /\ b[n] = s[e + n] /\ n # 0 /\ n \in 1..Len(b)
    BY <1>1, <1>2
  <2>2. n \in D <=> Clean(n) /\ b[n].kind \in FrameEnds
    BY <2>1
  <2> HIDE DEF D, Clean
  <2> QED
    BY <1>4, <2>1, <2>2 DEF EndsIn, MarkerLen
<1> HIDE DEF D, Clean
<1>8. e <= top
  BY <1>6
<1>9. top = e + d
  <2>1. e + d <= top
    <3>1. CASE d = 0
      BY <1>1, <1>8, <3>1
    <3>2. CASE d # 0
      <4>1. d \in 1..(u - e)
        BY <1>5, <3>2
      <4> QED
        BY <1>5, <1>6, <1>7, <4>1
    <3> QED
      BY <3>1, <3>2
  <2>2. top <= e + d
    <3>1. CASE top = e
      BY <1>1, <1>5, <3>1
    <3>2. CASE top # e
      <4>1. top - e \in 1..(u - e) /\ e + (top - e) = top /\ top # 2
        BY <1>1, <1>6, <1>8, <3>2
      <4>2. top - e \in D
        BY <1>6, <1>7, <4>1
      <4>3. top - e <= d
        BY <1>5, <4>2
      <4> QED
        BY <1>1, <1>5, <1>6, <4>3
    <3> QED
      BY <3>1, <3>2
  <2> QED
    BY <1>1, <1>5, <1>6, <2>1, <2>2
<1>10. Clean(Len(b)) <=> CleanUpTo(s, u)
  <2>1. Len(b) \in 0..(u - e) /\ e + Len(b) = u
    BY <1>1, <1>2
  <2> QED
    BY <1>4, <2>1
<1>11. SubSeq(b, 1, d) = Part(s, e, top) /\ Erase(b, d) = Part(s, top, u)
  <2>1. /\ u \in 0..Len(s) /\ e \in 0..u /\ d \in 0..(u - e) /\ 0 \in 0..d
        /\ u - e \in 0..(u - e) /\ d \in 0..(u - e) /\ e + (u - e) = u /\ e + 0 = e
    BY <1>1, <1>5
  <2>2. Part(Part(s, e, u), 0, d) = Part(s, e + 0, e + d)
    BY <2>1, PartOfPart
  <2>3. Part(Part(s, e, u), d, u - e) = Part(s, e + d, e + (u - e))
    BY <2>1, PartOfPart
  <2>4. Part(b, 0, d) = Part(s, e, top) /\ Part(b, d, Len(b)) = Part(s, top, u)
    BY <1>2, <1>9, <2>1, <2>2, <2>3 DEF b
  <2>5. Part(b, 0, d) = SubSeq(b, 1, d) /\ Part(b, d, Len(b)) = Erase(b, d)
    BY DEF Part, Erase
  <2> QED
    BY <2>4, <2>5
<1>12. DecodeAll(func, b) =
         Outcome(func, Erase(b, d), Only(SubSeq(b, 1, d), Permitted), Clean(Len(b)))
  BY DEF DecodeAll, Permitted, d, D, Clean
<1>13. Clean(Len(b)) = CleanUpTo(s, u)
  BY <1>10 DEF Clean, CleanUpTo
<1> QED
  BY <1>11, <1>12, <1>13 DEF b, top

\* Which tokens of s are among the first u as events to log is all that K says of s.
Marks(K, s, u) == \A k \in 1..Len(s) : s[k] \in K <=> k \in Owed(s, u)

\* Where nothing is to be logged, nothing is chosen.
LEMMA NoneOwed ==
  ASSUME NEW s \in Seq(Token), NEW u, NEW K, Marks(K, s, u),
         NEW b \in 0..Len(s), NEW a \in 0..b, \A k \in (a + 1)..b : k \notin Owed(s, u)
  PROVE  Only(Part(s, a, b), K) = <<>>
<1> DEFINE p == Part(s, a, b)
<1>1. p \in Seq(Token) /\ Len(p) = b - a /\ \A i \in 1..(b - a) : p[i] = s[a + i]
  BY PartIs
<1> HIDE DEF p
<1>2. ASSUME NEW i \in 1..Len(p)
      PROVE  p[i] \notin K
  <2>1. i \in 1..(b - a) /\ a + i \in 1..Len(s) /\ a + i \in (a + 1)..b
    BY <1>1
  <2> QED
    BY <1>1, <2>1 DEF Marks
<1>3. Only(p, K) = <<>>
  BY <1>1, <1>2, OnlyNone
<1> QED
  BY <1>3 DEF p

\* What is chosen of two adjacent parts is what is chosen of both.
LEMMA OnlyJoin ==
  ASSUME NEW s \in Seq(Token), NEW K, NEW c \in 0..Len(s), NEW b \in 0..c, NEW a \in 0..b
  PROVE  /\ Only(Part(s, a, c), K) = Only(Part(s, a, b), K) \o Only(Part(s, b, c), K)
         /\ Only(Part(s, a, b), K) \in Seq(Token) /\ Only(Part(s, b, c), K) \in Seq(Token)
<1> DEFINE p == Part(s, a, b)
           q == Part(s, b, c)
<1>1. p \o q = Part(s, a, c)
  BY PartJoin
<1>2. p \in Seq(Token) /\ q \in Seq(Token)
  <2>1. b \in 0..Len(s)
    OBVIOUS
  <2> QED
    BY <2>1, PartIs
<1> HIDE DEF p, q
<1>3. Only(p \o q, K) = Only(p, K) \o Only(q, K)
  BY <1>2, OnlyConcat
<1>4. Only(p, K) \in Seq(Token) /\ Only(q, K) \in Seq(Token)
  BY <1>2, OnlyType
<1> QED
  BY <1>1, <1>3, <1>4 DEF p, q

\* A session that has decoded up to the last frame of the first t tokens logs, from
\* there on, what becomes due between t and u.
LEMMA PermittedAreOwed ==
  ASSUME NEW s \in Seq(Token), NEW u \in 2..Len(s), NEW t \in 0..u, NEW K,
         Marks(K, s, u), MarkerOK(s)
  PROVE  Only(Part(s, LastEnd(s, t), LastEnd(s, u)), Permitted) = Only(Part(s, t, u), K)
<1> DEFINE e == LastEnd(s, t)
           f == LastEnd(s, u)
<1>1. t \in Nat /\ u \in Nat /\ t <= u /\ 2 <= u /\ u <= Len(s) /\ Len(s) \in Nat
  OBVIOUS
<1>2. /\ e \in EndsIn(s, t) \cup {2} /\ \A k \in EndsIn(s, t) \cup {2} : k <= e
      /\ e \in Nat /\ 2 <= e /\ (t >= 2 => e <= t) /\ (t <= 2 => e = 2)
  BY <1>1, LastEndIs
<1>3. /\ f \in EndsIn(s, u) \cup {2} /\ \A k \in EndsIn(s, u) \cup {2} : k <= f
      /\ f \in Nat /\ 2 <= f /\ f <= u
  BY <1>1, LastEndIs
<1> HIDE DEF e, f
<1>4. e <= f
  <2>1. EndsIn(s, t) \subseteq EndsIn(s, u)
    BY <1>1 DEF EndsIn
  <2> QED
    BY <1>2, <1>3, <2>1
<1>5. ASSUME NEW k \in Owed(s, u)
      PROVE  k \in EndsIn(s, u) /\ k <= f /\ (k <= t => k <= e) /\ k \in 3..u
  <2>1. k \in 3..u /\ CleanUpTo(s, k) /\ s[k].kind \in FrameEnds
    BY DEF Owed, MarkerLen, FrameEnds
  <2>2. k \in EndsIn(s, u) /\ (k <= t => k \in EndsIn(s, t))
    BY <1>1, <2>1 DEF EndsIn, MarkerLen
  <2> QED
    BY <1>2, <1>3, <2>1, <2>2
<1>6. CleanUpTo(s, f)
  BY <1>3 DEF EndsIn, CleanUpTo, MarkerLen
<1>7. Only(Part(s, e, f), Permitted) = Only(Part(s, e, f), K)
  <2> DEFINE p == Part(s, e, f)
  <2>1. p \in Seq(Token) /\ Len(p) = f - e /\ \A i \in 1..(f - e) : p[i] = s[e + i]
    <3>1. f \in 0..Len(s) /\ e \in 0..f
      BY <1>1, <1>2, <1>3, <1>4
    <3> QED
      BY <3>1, PartIs
  <2> HIDE DEF p
  <2>2. ASSUME NEW i \in 1..Len(p)
        PROVE  p[i] \in Permitted <=> p[i] \in K
    <3>1. /\ i \in 1..(f - e) /\ e + i \in 3..f /\ e + i \in 3..u /\ e + i \in 1..Len(s)
      BY <1>1, <1>2, <1>3, <1>4, <2>1
    <3>2. p[i] = s[e + i] /\ s[e + i] \in Token
      BY <2>1, <3>1
    <3>3. CleanUpTo(s, e + i)
      <4>1. \A m \in 3..(e + i) : m \in 3..f
        BY <1>2, <1>3, <3>1
      <4> QED
        BY <1>6, <4>1 DEF CleanUpTo, MarkerLen
    <3>4. e + i \in Owed(s, u) <=> s[e + i].kind = "event"
      BY <3>1, <3>3 DEF Owed, MarkerLen
    <3>5. s[e + i] \in K <=> e + i \in Owed(s, u)
      BY <3>1 DEF Marks
    <3> QED
      BY <3>2, <3>4, <3>5 DEF Permitted
  <2>3. Only(p, Permitted) = Only(p, K)
    BY <2>1, <2>2, OnlySame
  <2> QED
    BY <2>3 DEF p
<1>8. Only(Part(s, f, u), K) = <<>>
  <2>1. u \in 0..Len(s) /\ f \in 0..u /\ \A k \in (f + 1)..u : ~(k <= f)
    BY <1>1, <1>3
  <2>2. \A k \in (f + 1)..u : k \notin Owed(s, u)
    BY <1>5, <2>1
  <2> QED
    BY <2>1, <2>2, NoneOwed
<1>9. Only(Part(s, e, u), K) = Only(Part(s, e, f), K)
  <2>1. u \in 0..Len(s) /\ f \in 0..u /\ e \in 0..f
    BY <1>1, <1>2, <1>3, <1>4
  <2> DEFINE x == Only(Part(s, e, f), K)
  <2>2. Only(Part(s, e, u), K) = x \o Only(Part(s, f, u), K) /\ x \in Seq(Token)
    BY <2>1, OnlyJoin
  <2> HIDE DEF x
  <2>3. x \o <<>> = x
    BY <2>2
  <2> QED
    BY <1>8, <2>2, <2>3 DEF x
<1>10. Only(Part(s, t, u), K) = Only(Part(s, e, u), K)
  <2>1. CASE e <= t
    <3>1. u \in 0..Len(s) /\ t \in 0..u /\ e \in 0..t /\ t \in 0..Len(s)
      BY <1>1, <1>2, <2>1
    <3>2. Only(Part(s, e, t), K) = <<>>
      <4>1. \A k \in (e + 1)..t : ~(k <= e) /\ k <= t
        BY <1>1, <1>2
      <4>2. \A k \in (e + 1)..t : k \notin Owed(s, u)
        BY <1>5, <4>1
      <4> QED
        BY <3>1, <4>2, NoneOwed
    <3> DEFINE x == Only(Part(s, t, u), K)
    <3>3. Only(Part(s, e, u), K) = Only(Part(s, e, t), K) \o x /\ x \in Seq(Token)
      BY <3>1, OnlyJoin
    <3> HIDE DEF x
    <3>4. <<>> \o x = x
      BY <3>3
    <3> QED
      BY <3>2, <3>3, <3>4 DEF x
  <2>2. CASE ~(e <= t)
    <3>1. u \in 0..Len(s) /\ e \in 0..u /\ t \in 0..e /\ e = 2 /\ e \in 0..Len(s)
      BY <1>1, <1>2, <2>2
    <3>2. Only(Part(s, t, e), K) = <<>>
      <4>1. \A k \in (t + 1)..e : k \notin 3..u
        BY <1>1, <3>1
      <4>2. \A k \in (t + 1)..e : k \notin Owed(s, u)
        BY <1>5, <4>1
      <4> QED
        BY <3>1, <4>2, NoneOwed
    <3> DEFINE x == Only(Part(s, e, u), K)
    <3>3. Only(Part(s, t, u), K) = Only(Part(s, t, e), K) \o x /\ x \in Seq(Token)
      BY <3>1, OnlyJoin
    <3> HIDE DEF x
    <3>4. <<>> \o x = x
      BY <3>3
    <3> QED
      BY <3>2, <3>3, <3>4 DEF x
  <2> QED
    BY <2>1, <2>2
<1> QED
  BY <1>7, <1>9, <1>10 DEF e, f

\* One call of forceLog, whatever was received before and however it was cut.
LEMMA SessionAfter ==
  ASSUME NEW s \in Seq(Token), NEW u \in 0..Len(s), NEW t \in 0..u, NEW K, Marks(K, s, u)
  PROVE  LET r == ForceLogResult(Held(s, t), Part(s, t, u)) IN
         /\ r.session = Held(s, u)
         /\ r.events = Only(Part(s, t, u), K)
         /\ r.ok <=> Acceptable(s, u)
<1> DEFINE h == Held(s, t)
           buf == h.buf \o Part(s, t, u)
           r == ForceLogResult(h, Part(s, t, u))
<1>1. t \in Nat /\ u \in Nat /\ t <= u /\ u <= Len(s) /\ Len(s) \in Nat /\ t \in 0..Len(s)
  OBVIOUS
<1>2. \A p \in Protocols : p # NoFunc
  BY DEF Protocols, NoFunc
<1>3. CASE t >= 2 /\ MarkerOK(s)
  <2> DEFINE e == LastEnd(s, t)
             q == s[2].kind
  <2>1. h = [func |-> q, buf |-> Part(s, e, t)] /\ q # NoFunc
    BY <1>1, <1>2, <1>3 DEF Held, MarkerLen, MarkerOK
  <2>2. e \in EndsIn(s, t) \cup {2} /\ e \in 2..t
    BY <1>1, <1>3, LastEndIs
  <2>3. Acceptable(s, u) <=> CleanUpTo(s, u)
    BY <1>1, <1>3 DEF Acceptable, MarkerLen
  <2>4. Held(s, u) = [func |-> q, buf |-> Part(s, LastEnd(s, u), u)]
    BY <1>1, <1>3 DEF Held, MarkerLen
  <2>5. Only(Part(s, e, LastEnd(s, u)), Permitted) = Only(Part(s, t, u), K)
    BY <1>1, <1>3, PermittedAreOwed
  <2> HIDE DEF e, q
  <2>6. buf = Part(s, e, u)
    <3>1. u \in 0..Len(s) /\ t \in 0..u /\ e \in 0..t
      BY <1>1, <2>2
    <3> QED
      BY <2>1, <3>1, PartJoin
  <2>7. r = DecodeAll(q, Part(s, e, u))
    <3> HIDE DEF h
    <3> QED
      BY <2>1, <2>6 DEF ForceLogResult
  <2>8. u \in 2..Len(s) /\ e \in 2..u /\ e \in EndsIn(s, u) \cup {2}
    <3>1. EndsIn(s, t) \subseteq EndsIn(s, u)
      BY <1>1 DEF EndsIn
    <3> QED
      BY <1>1, <1>3, <2>2, <3>1
  <2>9. r = Outcome(q, Part(s, LastEnd(s, u), u), Only(Part(s, e, LastEnd(s, u)), Permitted),
                    CleanUpTo(s, u))
    BY <2>7, <2>8, DecodeFrom
  <2> HIDE DEF r
  <2> QED
    BY <2>3, <2>4, <2>5, <2>9 DEF Outcome, r, h
<1>4. CASE ~(t >= 2 /\ MarkerOK(s))
  <2>1. h = [func |-> NoFunc, buf |-> Part(s, 0, t)]
    BY <1>1, <1>4 DEF Held, MarkerLen
  <2>2. buf = Part(s, 0, u)
    <3>1. 0 \in 0..t
      BY <1>1
    <3> QED
      BY <2>1, <3>1, PartJoin
  <2> DEFINE a == Part(s, 0, u)
  <2>3. a \in Seq(Token) /\ Len(a) = u /\ \A i \in 1..u : a[i] = s[i]
    <3>1. 0 \in 0..u
      BY <1>1
    <3>2. a \in Seq(Token) /\ Len(a) = u - 0 /\ \A i \in 1..(u - 0) : a[i] = s[0 + i]
      BY <3>1, PartIs
    <3> QED
      BY <1>1, <3>2
  <2> HIDE DEF a
  <2>4. r = IF StartIncomplete(a) THEN Outcome(NoFunc, a, <<>>, TRUE)
            ELSE IF StartUnknown(a) THEN Outcome(NoFunc, a, <<>>, FALSE)
            ELSE DecodeAll(CHOOSE p \in Protocols : Matches(a, p), Erase(a, MarkerLen))
    <3>1. h.func = NoFunc /\ h.buf \o Part(s, t, u) = a
      BY <2>1, <2>2 DEF a
    <3> HIDE DEF h
    <3> QED
      BY <3>1 DEF ForceLogResult
  <2>5. CASE u < 2 \/ ~MarkerOK(s)
    <3>1. Held(s, u) = [func |-> NoFunc, buf |-> a]
      BY <1>1, <2>5 DEF Held, MarkerLen, a
    <3>2. Owed(s, u) = {}
      BY <1>1, <2>5 DEF Owed, MarkerLen
    <3>3. Only(Part(s, t, u), K) = <<>>
      BY <3>2, NoneOwed
    <3>4. CASE u < 2
      <4>1. StartIncomplete(a) /\ Acceptable(s, u)
        BY <2>3, <3>4 DEF StartIncomplete, Acceptable, MarkerLen
      <4>2. r = Outcome(NoFunc, a, <<>>, TRUE)
        BY <2>4, <4>1
      <4> HIDE DEF r
      <4> QED
        BY <3>1, <3>3, <4>1, <4>2 DEF Outcome, r, h
    <3>5. CASE ~(u < 2)
      <4>1. ~StartIncomplete(a) /\ a[1] = s[1] /\ a[2] = s[2]
        BY <1>1, <2>3, <3>5 DEF StartIncomplete, MarkerLen
      <4>2. StartUnknown(a) /\ ~Acceptable(s, u)
        BY <1>1, <2>5, <3>5, <4>1 DEF StartUnknown, Matches, MarkerOK, Acceptable, MarkerLen
      <4>3. r = Outcome(NoFunc, a, <<>>, FALSE)
        BY <2>4, <4>1, <4>2
      <4> HIDE DEF r
      <4> QED
        BY <3>1, <3>3, <4>2, <4>3 DEF Outcome, r, h
    <3> QED
      BY <3>4, <3>5
  <2>6. CASE u >= 2 /\ MarkerOK(s)
    <3> DEFINE q == s[2].kind
    <3>1. ~StartIncomplete(a) /\ a[1] = s[1] /\ a[2] = s[2]
      BY <1>1, <2>3, <2>6 DEF StartIncomplete, MarkerLen
    <3>2. /\ q \in Protocols /\ Matches(a, q)
          /\ \A p \in Protocols : Matches(a, p) => p = q
      BY <2>6, <3>1 DEF Matches, MarkerOK
    <3>3. Held(s, u) = [func |-> q, buf |-> Part(s, LastEnd(s, u), u)]
      BY <1>1, <2>6 DEF Held, MarkerLen
    <3> HIDE DEF q
    <3>4. ~StartUnknown(a) /\ (CHOOSE p \in Protocols : Matches(a, p)) = q
      BY <3>2 DEF StartUnknown
    <3>5. LastEnd(s, t) = 2 /\ u \in 2..Len(s) /\ 2 \in 2..u
      <4>1. t <= 2
        BY <1>1, <1>4, <2>6
      <4> QED
        BY <1>1, <2>6, <4>1, LastEndIs
    <3>6. Erase(a, MarkerLen) = Part(s, 2, u)
      <4>1. u \in 0..Len(s) /\ 0 \in 0..u /\ 2 \in 0..(u - 0) /\ u - 0 \in 0..(u - 0)
            /\ 2 \in 0..(u - 0) /\ 0 + 2 = 2 /\ 0 + (u - 0) = u /\ u - 0 = u
        BY <1>1, <3>5
      <4>2. Part(Part(s, 0, u), 2, u - 0) = Part(s, 0 + 2, 0 + (u - 0))
        BY <4>1, PartOfPart
      <4> QED
        BY <2>3, <4>1, <4>2 DEF a, Part, Erase, MarkerLen
    <3>7. r = DecodeAll(q, Part(s, 2, u))
      BY <2>4, <3>1, <3>4, <3>6
    <3>8. r = Outcome(q, Part(s, LastEnd(s, u), u), Only(Part(s, 2, LastEnd(s, u)), Permitted),
                      CleanUpTo(s, u))
      BY <3>5, <3>7, DecodeFrom
    <3>9. Only(Part(s, 2, LastEnd(s, u)), Permitted) = Only(Part(s, t, u), K)
      BY <2>6, <3>5, PermittedAreOwed
    <3>10. Acceptable(s, u) <=> CleanUpTo(s, u)
      BY <1>1, <2>6 DEF Acceptable, MarkerLen
    <3> HIDE DEF r
    <3> QED
      BY <3>3, <3>8, <3>9, <3>10 DEF Outcome, r, h
  <2> QED
    BY <1>1, <2>5, <2>6
<1> QED
  BY <1>3, <1>4
-----------------------------------------------------------------------------
PlacesTyped ==
  /\ owner \in [Fd -> Conn \cup {NoConn}]
  /\ backlog \in Seq(Conn)
  /\ peer \in [Conn -> {"idle", "open", "fin", "rst"}]

\* Each of the places a connection can be in excludes the others: accept gives
\* one that is queued, Connect queues one that is idle, and neither a queue nor
\* the descriptor table holds anything twice.
PlacesApart ==
  /\ \A fd, other \in Fd : owner[fd] = owner[other] /\ owner[fd] # NoConn => fd = other
  /\ \A i, j \in 1..Len(backlog) : backlog[i] = backlog[j] => i = j
  /\ \A fd \in Fd, i \in 1..Len(backlog) : owner[fd] # backlog[i]
  /\ \A c \in Conn : peer[c] = "idle" =>
       /\ \A i \in 1..Len(backlog) : backlog[i] # c
       /\ \A fd \in Fd : owner[fd] # c

Places == PlacesTyped /\ PlacesApart

-----------------------------------------------------------------------------
\* No connection is anywhere yet.
LEMMA InitKeepsPlaces == SocketsInit => Places
<1> SUFFICES ASSUME SocketsInit PROVE Places
  OBVIOUS
<1>1. PlacesTyped
  BY DEF SocketsInit, PlacesTyped
<1>2. 1..Len(backlog) = {}
  BY DEF SocketsInit
<1>3. PlacesApart
  <2>1. \A fd \in Fd : owner[fd] = NoConn
    BY DEF SocketsInit
  <2>2. \A c \in Conn : c # NoConn
    BY SocketsAssumption
  <2> QED
    BY <1>2, <2>1, <2>2 DEF PlacesApart
<1> QED
  BY <1>1, <1>3 DEF Places

\* A set of natural numbers has a least element, so accept has a descriptor to
\* give whenever one is free.
LEMMA NextFdIsFree ==
  ASSUME FreeFds # {}
  PROVE  NextFd \in Fd /\ owner[NextFd] = NoConn
<1> DEFINE Less == {p \in Nat \X Nat : p[1] < p[2]}
<1>1. FreeFds \subseteq Nat
  BY SocketsAssumption DEF FreeFds
<1>2. IsWellFoundedOn(Less, Nat)
  <2>1. Less = OpToRel(<, Nat)
    BY Zenon DEF OpToRel
  <2> QED
    BY <2>1, NatLessThanWellFounded
<1>3. PICK low \in FreeFds : \A fd \in FreeFds : <<fd, low>> \notin Less
  <2> HIDE DEF Less
  <2> QED
    BY <1>1, <1>2, WFMin
<1>4. ASSUME NEW fd \in FreeFds
      PROVE  low <= fd
  <2>1. fd \in Nat /\ low \in Nat
    BY <1>1
  <2>2. fd < low => <<fd, low>> \in Less
    <3>1. <<fd, low>> \in Nat \X Nat /\ <<fd, low>>[1] = fd /\ <<fd, low>>[2] = low
      BY <2>1
    <3> QED
      BY <3>1, Zenon
  <2>3. ~(fd < low)
    BY <1>3, <2>2
  <2> QED
    BY <2>1, <2>3
<1> QED
  BY <1>4 DEF NextFd, FreeFds

\* Steps that move no connection.
LEMMA StayKeepsPlaces ==
  ASSUME Places, UNCHANGED <<peer, backlog, owner>>
  PROVE  Places'
BY DEF Places, PlacesTyped, PlacesApart

\* What the peers do.
LEMMA PeerKeepsPlaces ==
  ASSUME Places, NEW c \in Conn, PeerStep(c)
  PROVE  Places'
<1>1. CASE Connect(c)
  <2>1. /\ peer[c] = "idle" /\ owner' = owner
        /\ peer' = [peer EXCEPT ![c] = "open"]
        /\ backlog' = Append(backlog, c)
        /\ backlog \in Seq(Conn) /\ Len(backlog) \in Nat
    BY <1>1 DEF Connect, Places, PlacesTyped
  <2>2. /\ Len(backlog') = Len(backlog) + 1
        /\ backlog'[Len(backlog) + 1] = c
        /\ \A i \in 1..Len(backlog) : backlog'[i] = backlog[i] /\ backlog[i] # c
        /\ \A fd \in Fd : owner[fd] # c
    BY <2>1 DEF Places, PlacesApart
  <2>3. PlacesTyped'
    BY <2>1 DEF Places, PlacesTyped
  <2>4. PlacesApart'
    <3>1. ASSUME NEW i \in 1..Len(backlog'), NEW j \in 1..Len(backlog'), backlog'[i] = backlog'[j]
          PROVE  i = j
      <4>1. (i \in 1..Len(backlog) \/ i = Len(backlog) + 1)
            /\ (j \in 1..Len(backlog) \/ j = Len(backlog) + 1)
        BY <2>1, <2>2
      <4> QED
        BY <4>1, <3>1, <2>2 DEF Places, PlacesApart
    <3>2. \A fd \in Fd, i \in 1..Len(backlog') : owner'[fd] # backlog'[i]
      <4>1. \A i \in 1..Len(backlog') : i \in 1..Len(backlog) \/ i = Len(backlog) + 1
        BY <2>1, <2>2
      <4> QED
        BY <4>1, <2>1, <2>2 DEF Places, PlacesApart
    <3>3. ASSUME NEW d \in Conn, peer'[d] = "idle"
          PROVE  /\ \A i \in 1..Len(backlog') : backlog'[i] # d
                 /\ \A fd \in Fd : owner'[fd] # d
      <4>1. d # c /\ peer[d] = "idle"
        BY <2>1, <3>3 DEF Places, PlacesTyped
      <4>2. \A i \in 1..Len(backlog') : i \in 1..Len(backlog) \/ i = Len(backlog) + 1
        BY <2>1, <2>2
      <4> QED
        BY <4>1, <4>2, <2>1, <2>2 DEF Places, PlacesApart
    <3>4. \A fd, other \in Fd :
             owner'[fd] = owner'[other] /\ owner'[fd] # NoConn => fd = other
      BY <2>1 DEF Places, PlacesApart
    <3> QED
      BY <3>1, <3>2, <3>3, <3>4 DEF PlacesApart
  <2> QED
    BY <2>3, <2>4 DEF Places
<1>2. CASE Write(c)
  <2>1. UNCHANGED <<peer, backlog, owner>>
    BY <1>2 DEF Write
  <2> QED
    BY <2>1, StayKeepsPlaces
<1>3. CASE Shutdown(c) \/ Reset(c)
  <2>1. /\ UNCHANGED <<backlog, owner>>
        /\ peer' \in [Conn -> {"idle", "open", "fin", "rst"}]
        /\ \A d \in Conn : peer'[d] = "idle" => peer[d] = "idle"
    BY <1>3 DEF Shutdown, Reset, Places, PlacesTyped
  <2> QED
    BY <2>1 DEF Places, PlacesTyped, PlacesApart
<1> QED
  BY <1>1, <1>2, <1>3 DEF PeerStep

\* closesocket: the descriptor stands for no connection any more.
LEMMA CloseKeepsPlaces ==
  ASSUME Places, NEW fd \in Fd, Close(fd), UNCHANGED <<peer, backlog>>
  PROVE  Places'
<1>1. /\ owner' = [owner EXCEPT ![fd] = NoConn]
      /\ owner \in [Fd -> Conn \cup {NoConn}]
  BY DEF Close, Places, PlacesTyped
<1>2. \A k \in Fd : owner'[k] = IF k = fd THEN NoConn ELSE owner[k]
  BY <1>1
<1>3. PlacesTyped'
  BY <1>1 DEF Places, PlacesTyped
<1>4. PlacesApart'
  <2>1. \A i \in 1..Len(backlog) : backlog[i] # NoConn
    BY SocketsAssumption DEF Places, PlacesTyped
  <2>2. \A c \in Conn : c # NoConn
    BY SocketsAssumption
  <2> QED
    BY <1>2, <2>1, <2>2 DEF Places, PlacesApart
<1> QED
  BY <1>3, <1>4 DEF Places

\* What the tail of a queue is, element by element.
LEMMA TailOfQueue ==
  ASSUME backlog \in Seq(Conn), backlog # <<>>
  PROVE  /\ Head(backlog) \in Conn /\ Head(backlog) = backlog[1]
         /\ 1 \in 1..Len(backlog)
         /\ Tail(backlog) \in Seq(Conn)
         /\ \A i \in 1..Len(Tail(backlog)) :
              /\ i + 1 \in 2..Len(backlog) /\ i + 1 \in 1..Len(backlog) /\ i \in Nat
              /\ Tail(backlog)[i] = backlog[i + 1]
<1>1. Len(backlog) \in Nat /\ Len(backlog) # 0
  OBVIOUS
<1>2. Tail(backlog) \in Seq(Conn) /\ Len(Tail(backlog)) = Len(backlog) - 1
  OBVIOUS
<1>3. Head(backlog) \in Conn /\ Head(backlog) = backlog[1] /\ 1 \in 1..Len(backlog)
  BY <1>1
<1>4. \A i \in 1..Len(Tail(backlog)) : Tail(backlog)[i] = backlog[i + 1]
  BY <1>1, <1>2
<1> QED
  BY <1>1, <1>2, <1>3, <1>4

\* accept: the head of the queue gets a free descriptor.
LEMMA AcceptKeepsPlaces ==
  ASSUME Places, FreeFds # {}, AcceptAs(NextFd), UNCHANGED peer
  PROVE  /\ Places'
         /\ NextFd \in Fd /\ owner[NextFd] = NoConn
         /\ Head(backlog) \in Conn /\ Head(backlog) # NoConn
         /\ \A fd \in Fd : owner[fd] # Head(backlog)
         /\ \A k \in Fd : owner'[k] = IF k = NextFd THEN Head(backlog) ELSE owner[k]
<1> DEFINE new == NextFd
<1>1. /\ new \in Fd /\ owner[new] = NoConn
      /\ backlog # <<>> /\ backlog' = Tail(backlog)
      /\ owner' = [owner EXCEPT ![new] = Head(backlog)]
      /\ owner \in [Fd -> Conn \cup {NoConn}] /\ backlog \in Seq(Conn)
  BY NextFdIsFree DEF AcceptAs, Places, PlacesTyped
<1> HIDE DEF new
<1>2. /\ Head(backlog) \in Conn /\ Head(backlog) = backlog[1] /\ 1 \in 1..Len(backlog)
      /\ backlog' \in Seq(Conn)
      /\ \A i \in 1..Len(backlog') :
           /\ i + 1 \in 2..Len(backlog) /\ i + 1 \in 1..Len(backlog) /\ i \in Nat
           /\ backlog'[i] = backlog[i + 1]
  BY <1>1, TailOfQueue
<1>3. \A k \in Fd : owner'[k] = IF k = new THEN backlog[1] ELSE owner[k]
  BY <1>1, <1>2
<1>4. PlacesTyped'
  BY <1>1, <1>2 DEF Places, PlacesTyped
<1>5. PlacesApart'
  <2>1. \A fd, other \in Fd :
          owner'[fd] = owner'[other] /\ owner'[fd] # NoConn => fd = other
    BY <1>2, <1>3 DEF Places, PlacesApart
  <2>2. ASSUME NEW i \in 1..Len(backlog'), NEW j \in 1..Len(backlog'), backlog'[i] = backlog'[j]
        PROVE  i = j
    <3>1. i + 1 = j + 1
      BY <1>2, <2>2 DEF Places, PlacesApart
    <3> QED
      BY <1>2, <3>1
  <2>3. ASSUME NEW fd \in Fd, NEW i \in 1..Len(backlog')
        PROVE  owner'[fd] # backlog'[i]
    <3>1. backlog[1] # backlog[i + 1]
      <4>1. 1 # i + 1
        BY <1>2
      <4> QED
        BY <1>2, <4>1 DEF Places, PlacesApart
    <3> QED
      BY <1>2, <1>3, <3>1 DEF Places, PlacesApart
  <2>4. ASSUME NEW c \in Conn, peer'[c] = "idle"
        PROVE  /\ \A i \in 1..Len(backlog') : backlog'[i] # c
               /\ \A fd \in Fd : owner'[fd] # c
    <3>1. /\ \A i \in 1..Len(backlog) : backlog[i] # c
          /\ \A fd \in Fd : owner[fd] # c
      BY <2>4 DEF Places, PlacesApart
    <3> QED
      BY <1>2, <1>3, <3>1
  <2> QED
    BY <2>1, <2>2, <2>3, <2>4 DEF PlacesApart
<1>6. Head(backlog) # NoConn /\ \A fd \in Fd : owner[fd] # Head(backlog)
  BY <1>2, SocketsAssumption DEF Places, PlacesApart
<1>7. Places'
  BY <1>4, <1>5 DEF Places
<1> QED
  BY <1>1, <1>2, <1>3, <1>6, <1>7 DEF new

\* A connection that is accepted and closed at once only leaves the queue.
LEMMA DropKeepsPlaces ==
  ASSUME Places, AcceptAndClose, UNCHANGED peer
  PROVE  Places'
<1>1. /\ backlog # <<>> /\ backlog' = Tail(backlog) /\ backlog \in Seq(Conn)
      /\ UNCHANGED <<owner, peer>>
  BY DEF AcceptAndClose, Places, PlacesTyped
<1>2. /\ backlog' \in Seq(Conn)
      /\ \A i \in 1..Len(backlog') :
           /\ i + 1 \in 1..Len(backlog) /\ i \in Nat
           /\ backlog'[i] = backlog[i + 1]
  BY <1>1, TailOfQueue
<1>3. PlacesTyped'
  BY <1>1, <1>2 DEF Places, PlacesTyped
<1>4. PlacesApart'
  <2>1. ASSUME NEW i \in 1..Len(backlog'), NEW j \in 1..Len(backlog'), backlog'[i] = backlog'[j]
        PROVE  i = j
    <3>1. i + 1 = j + 1
      BY <1>2, <2>1 DEF Places, PlacesApart
    <3> QED
      BY <1>2, <3>1
  <2> QED
    BY <1>1, <1>2, <2>1 DEF Places, PlacesApart
<1> QED
  BY <1>3, <1>4 DEF Places

-----------------------------------------------------------------------------
\* The phase of a connection is the one place it is in.
PhaseFits == \A c \in Conn :
  /\ Phases[c] = "none" <=> peer[c] = "idle"
  /\ Phases[c] = "queued" <=> Queued(c)
  /\ Phases[c] = "open" <=> Open(c)
  /\ Phases[c] \in {"none", "queued", "open", "closed"}

LEMMA PhaseIs == Places => PhaseFits
<1> SUFFICES ASSUME Places, NEW c \in Conn
             PROVE  /\ Phases[c] = "none" <=> peer[c] = "idle"
                    /\ Phases[c] = "queued" <=> Queued(c)
                    /\ Phases[c] = "open" <=> Open(c)
                    /\ Phases[c] \in {"none", "queued", "open", "closed"}
  BY DEF PhaseFits
<1>1. Phases[c] = PhaseOf(c)
  BY DEF Phases
<1>2. peer[c] = "idle" => ~Queued(c) /\ ~Open(c)
  BY DEF Places, PlacesApart, Queued, Open
<1>3. Queued(c) => ~Open(c)
  BY DEF Places, PlacesApart, Queued, Open
<1> QED
  BY <1>1, <1>2, <1>3 DEF PhaseOf

LEMMA PhasesDomain == Phases = [c \in Conn |-> Phases[c]]
BY DEF Phases

\* To show that a step moves one connection, or none.
LEMMA OneMoves ==
  ASSUME PhaseFits, PhaseFits', NEW c \in Conn, NEW to, Phases'[c] = to,
         \A d \in Conn \ {c} :
           /\ peer'[d] = "idle" <=> peer[d] = "idle"
           /\ Queued(d)' <=> Queued(d)
           /\ Open(d)' <=> Open(d)
  PROVE  Phases' = [Phases EXCEPT ![c] = to]
<1>1. \A d \in Conn \ {c} : Phases'[d] = Phases[d]
  BY DEF PhaseFits
<1>2. Phases' = [d \in Conn |-> Phases'[d]]
  BY DEF Phases
<1> QED
  BY <1>1, <1>2, PhasesDomain

LEMMA NoneMoves ==
  ASSUME UNCHANGED <<backlog, owner>>, \A d \in Conn : peer'[d] = "idle" <=> peer[d] = "idle"
  PROVE  Phases' = Phases
BY DEF Phases, PhaseOf, Queued, Open

\* One connection goes from one place to another, and no other moves.
Moved(c, from, to) == Phases[c] = from /\ Phases' = [Phases EXCEPT ![c] = to]

LEMMA NoneConnected == SocketsInit => Phases = [c \in Conn |-> "none"]
<1> SUFFICES ASSUME SocketsInit PROVE Phases = [c \in Conn |-> "none"]
  OBVIOUS
<1>1. Places
  BY InitKeepsPlaces
<1>2. \A c \in Conn : Phases[c] = "none"
  BY <1>1, PhaseIs DEF PhaseFits, SocketsInit
<1> QED
  BY <1>2, PhasesDomain

LEMMA ConnectMoves ==
  ASSUME Places, NEW c \in Conn, Connect(c)
  PROVE  Moved(c, "none", "queued")
<1>0. PhaseFits
  BY PhaseIs
<1>1. Places'
  BY PeerKeepsPlaces DEF PeerStep
<1>2. PhaseFits'
  BY <1>1, PhaseIs, PTL
<1>3. peer \in [Conn -> {"idle", "open", "fin", "rst"}] /\ backlog \in Seq(Conn)
  BY DEF Places, PlacesTyped
<1>4. /\ peer[c] = "idle" /\ peer' = [peer EXCEPT ![c] = "open"]
      /\ backlog' = Append(backlog, c) /\ UNCHANGED owner
  BY DEF Connect
<1>5. /\ Len(backlog') = Len(backlog) + 1 /\ Len(backlog) \in Nat
      /\ backlog'[Len(backlog) + 1] = c
      /\ \A j \in 1..Len(backlog) : backlog'[j] = backlog[j]
  BY <1>3, <1>4, AppendProperties, LenProperties
<1>6. Queued(c)'
  <2>1. Len(backlog) + 1 \in 1..Len(backlog')
    BY <1>5
  <2> QED
    BY <1>5, <2>1 DEF Queued
<1>7. Phases[c] = "none" /\ Phases'[c] = "queued"
  BY <1>0, <1>2, <1>4, <1>6 DEF PhaseFits
<1>8. ASSUME NEW d \in Conn \ {c}
      PROVE  /\ peer'[d] = "idle" <=> peer[d] = "idle"
             /\ Queued(d)' <=> Queued(d)
             /\ Open(d)' <=> Open(d)
  <2>1. peer'[d] = peer[d] /\ (Open(d)' <=> Open(d))
    BY <1>4, <1>8 DEF Open
  <2>2. ASSUME NEW j \in 1..Len(backlog'), backlog'[j] = d
        PROVE  j \in 1..Len(backlog) /\ backlog[j] = d
    BY <1>5, <1>8, <2>2
  <2>3. 1..Len(backlog) \subseteq 1..Len(backlog')
    BY <1>5
  <2>4. Queued(d)' <=> Queued(d)
    BY <1>5, <2>2, <2>3 DEF Queued
  <2> QED
    BY <2>1, <2>4
<1>9. Phases' = [Phases EXCEPT ![c] = "queued"]
  BY <1>0, <1>2, <1>7, <1>8, OneMoves
<1> QED
  BY <1>7, <1>9 DEF Moved

\* The other steps of a peer are of a connection that is queued or open.
LEMMA PeerStays ==
  ASSUME Places, NEW c \in Conn, Write(c) \/ Shutdown(c) \/ Reset(c)
  PROVE  Phases[c] \in {"queued", "open"} /\ Phases' = Phases /\ UNCHANGED taken
<1>1. PhaseFits /\ peer \in [Conn -> {"idle", "open", "fin", "rst"}]
  BY PhaseIs DEF Places, PlacesTyped
<1>2. Phases[c] \in {"queued", "open"} /\ UNCHANGED <<backlog, owner, taken>>
  BY <1>1 DEF Write, Shutdown, Reset, PhaseFits
<1>3. \A d \in Conn : peer'[d] = "idle" <=> peer[d] = "idle"
  BY <1>1 DEF Write, Shutdown, Reset
<1> QED
  BY <1>2, <1>3, NoneMoves

\* The head of the queue leaves it, and nobody else.
LEMMA HeadLeaves ==
  ASSUME Places, backlog # <<>>, backlog' = Tail(backlog),
         NEW c \in Conn, c = Head(backlog)
  PROVE  /\ Queued(c) /\ ~Queued(c)' /\ ~Open(c) /\ peer[c] # "idle" /\ Phases[c] = "queued"
         /\ \A d \in Conn \ {c} : Queued(d)' <=> Queued(d)
<1>0. backlog \in Seq(Conn) /\ PhaseFits
  BY PhaseIs DEF Places, PlacesTyped
<1>1. /\ c = backlog[1] /\ 1 \in 1..Len(backlog)
      /\ \A i \in 1..Len(backlog') : i + 1 \in 2..Len(backlog) /\ backlog'[i] = backlog[i + 1]
  BY <1>0, TailOfQueue
<1>2. Queued(c) /\ Phases[c] = "queued" /\ ~Open(c) /\ peer[c] # "idle"
  <2>1. Queued(c)
    BY <1>1 DEF Queued
  <2>2. Phases[c] = "queued"
    BY <1>0, <2>1 DEF PhaseFits
  <2> QED
    BY <1>0, <2>1, <2>2 DEF PhaseFits
<1>3. ~Queued(c)'
  <2>1. ASSUME NEW i \in 1..Len(backlog'), backlog'[i] = c
        PROVE  FALSE
    <3>1. i + 1 \in 2..Len(backlog) /\ backlog[i + 1] = backlog[1]
      BY <1>1, <2>1
    <3>2. i + 1 = 1
      BY <1>1, <3>1 DEF Places, PlacesApart
    <3> QED
      BY <3>1, <3>2
  <2> QED
    BY <2>1 DEF Queued
<1>4. ASSUME NEW d \in Conn \ {c}
      PROVE  Queued(d)' <=> Queued(d)
  <2>1. Queued(d)' => Queued(d)
    <3>1. \A i \in 1..Len(backlog') : i + 1 \in 1..Len(backlog)
      BY <1>1
    <3> QED
      BY <1>1, <3>1 DEF Queued
  <2>2. ASSUME NEW i \in 1..Len(backlog), backlog[i] = d
        PROVE  Queued(d)'
    <3>1. i # 1
      BY <1>1, <1>4, <2>2
    <3>2. i - 1 \in 1..Len(backlog') /\ backlog'[i - 1] = backlog[i]
      BY <1>0, <2>2, <3>1, HeadTailProperties
    <3> QED
      BY <2>2, <3>2 DEF Queued
  <2> QED
    BY <2>1, <2>2 DEF Queued
<1> QED
  BY <1>2, <1>3, <1>4

LEMMA AcceptMoves ==
  ASSUME Places, FreeFds # {}, AcceptAs(NextFd), UNCHANGED peer
  PROVE  \E c \in Conn : c = Head(backlog) /\ Moved(c, "queued", "open")
<1>0. PhaseFits
  BY PhaseIs
<1>1. Places'
  BY AcceptKeepsPlaces
<1>2. PhaseFits'
  BY <1>1, PhaseIs, PTL
<1>3. PICK c \in Conn : c = Head(backlog)
  BY AcceptKeepsPlaces
<1>4. /\ Phases[c] = "queued" /\ \A d \in Conn \ {c} : Queued(d)' <=> Queued(d)
  BY <1>3, HeadLeaves DEF AcceptAs
<1>5. /\ NextFd \in Fd /\ owner[NextFd] = NoConn
      /\ \A k \in Fd : owner'[k] = IF k = NextFd THEN c ELSE owner[k]
  BY <1>3, AcceptKeepsPlaces
<1>6. Open(c)' /\ \A d \in Conn \ {c} : Open(d)' <=> Open(d)
  BY <1>5, SocketsAssumption DEF Open
<1>7. Phases'[c] = "open"
  BY <1>2, <1>6 DEF PhaseFits
<1>8. \A d \in Conn \ {c} : peer'[d] = "idle" <=> peer[d] = "idle"
  OBVIOUS
<1>9. Phases' = [Phases EXCEPT ![c] = "open"]
  BY <1>0, <1>2, <1>4, <1>6, <1>7, <1>8, OneMoves
<1> QED
  BY <1>3, <1>4, <1>9 DEF Moved

LEMMA DropMoves ==
  ASSUME Places, AcceptAndClose, UNCHANGED peer
  PROVE  \E c \in Conn : Moved(c, "queued", "closed")
<1>0. PhaseFits
  BY PhaseIs
<1>1. Places'
  BY DropKeepsPlaces
<1>2. PhaseFits'
  BY <1>1, PhaseIs, PTL
<1>3. /\ backlog \in Seq(Conn) /\ backlog # <<>> /\ backlog' = Tail(backlog)
  BY DEF AcceptAndClose, Places, PlacesTyped
<1>4. PICK c \in Conn : c = Head(backlog)
  BY <1>3, TailOfQueue
<1>5. /\ Phases[c] = "queued" /\ ~Queued(c)' /\ ~Open(c) /\ peer[c] # "idle"
      /\ \A d \in Conn \ {c} : Queued(d)' <=> Queued(d)
  BY <1>3, <1>4, HeadLeaves
<1>6. \A d \in Conn : (Open(d)' <=> Open(d)) /\ (peer'[d] = "idle" <=> peer[d] = "idle")
  BY DEF AcceptAndClose, Open
<1>7. Phases'[c] = "closed"
  BY <1>2, <1>5, <1>6 DEF PhaseFits
<1>8. Phases' = [Phases EXCEPT ![c] = "closed"]
  BY <1>0, <1>2, <1>5, <1>6, <1>7, OneMoves
<1> QED
  BY <1>5, <1>8 DEF Moved

\* closesocket: the connection of the descriptor is closed and no other moves.
LEMMA CloseMoves ==
  ASSUME Places, NEW fd \in Fd, Close(fd), UNCHANGED <<peer, backlog>>,
         NEW c \in Conn, owner[fd] = c
  PROVE  Moved(c, "open", "closed")
<1>0. PhaseFits
  BY PhaseIs
<1>1. /\ peer[c] # "idle" /\ ~Queued(c) /\ Open(c)
      /\ owner' = [owner EXCEPT ![fd] = NoConn] /\ owner \in [Fd -> Conn \cup {NoConn}]
  BY DEF Close, Places, PlacesTyped, PlacesApart, Queued, Open
<1>2. Places'
  BY CloseKeepsPlaces
<1>3. PhaseFits'
  BY <1>2, PhaseIs, PTL
<1>4. \A other \in Fd : owner[other] = c => other = fd
  BY SocketsAssumption DEF Places, PlacesApart
<1>5. ~Open(c)'
  BY <1>1, <1>4, SocketsAssumption DEF Open
<1>6. (Queued(c)' <=> Queued(c)) /\ peer'[c] = peer[c]
  BY DEF Queued
<1>7. Phases[c] = "open" /\ Phases'[c] = "closed"
  BY <1>0, <1>1, <1>3, <1>5, <1>6 DEF PhaseFits
<1>8. ASSUME NEW d \in Conn \ {c}
      PROVE  /\ peer'[d] = "idle" <=> peer[d] = "idle"
             /\ Queued(d)' <=> Queued(d)
             /\ Open(d)' <=> Open(d)
  <2>1. \A k \in Fd : owner'[k] = d <=> owner[k] = d
    BY <1>1, <1>8, SocketsAssumption
  <2> QED
    BY <2>1 DEF Open, Queued
<1>9. Phases' = [Phases EXCEPT ![c] = "closed"]
  BY <1>0, <1>3, <1>7, <1>8, OneMoves
<1> QED
  BY <1>7, <1>9 DEF Moved

\* The listener is closed with all that wait, and nobody else ...
LEMMA ListenerMoves ==
  ASSUME Places, backlog' = <<>>, UNCHANGED <<peer, owner>>
  PROVE  Phases' = [c \in Conn |-> IF Phases[c] = "queued" THEN "closed" ELSE Phases[c]]
<1>1. PhaseFits
  BY PhaseIs
<1>2. ASSUME NEW c \in Conn
      PROVE  Phases'[c] = IF Phases[c] = "queued" THEN "closed" ELSE Phases[c]
  <2>1. ~Queued(c)' /\ (Open(c)' <=> Open(c))
    BY SocketsAssumption DEF Queued, Open
  <2>2. Phases'[c] = IF peer[c] = "idle" THEN "none" ELSE IF Open(c) THEN "open" ELSE "closed"
    <3>1. peer[c] = "idle" => ~Open(c)
      BY DEF Places, PlacesApart, Open
    <3> QED
      BY <2>1, <3>1 DEF Phases, PhaseOf
  <2> QED
    BY <1>1, <2>2 DEF PhaseFits
<1> QED
  BY <1>2 DEF Phases

\* ... and with the process everybody.
LEMMA ProcessMoves ==
  ASSUME Places, backlog' = <<>>, \A fd \in Fd : owner'[fd] = NoConn, UNCHANGED peer
  PROVE  Phases' = [c \in Conn |-> IF Phases[c] = "none" THEN "none" ELSE "closed"]
<1>1. PhaseFits
  BY PhaseIs
<1>2. ASSUME NEW c \in Conn
      PROVE  Phases'[c] = IF Phases[c] = "none" THEN "none" ELSE "closed"
  <2>1. ~Queued(c)' /\ ~Open(c)'
    BY SocketsAssumption DEF Queued, Open
  <2>2. Phases'[c] = IF peer[c] = "idle" THEN "none" ELSE "closed"
    BY <2>1 DEF Phases, PhaseOf
  <2> QED
    BY <1>1, <2>2 DEF PhaseFits
<1> QED
  BY <1>2 DEF Phases

-----------------------------------------------------------------------------
\* What has been sent and taken of a stream are counts of its tokens.
CountsInRange ==
  /\ sent \in [Conn -> Nat] /\ taken \in [Conn -> Nat]
  /\ \A c \in Conn : taken[c] <= sent[c] /\ sent[c] <= Len(Writes[c])

\* A peer's stream is a sequence of tokens as long as what it writes.
LEMMA StreamIsSeq ==
  ASSUME NEW c \in Conn
  PROVE  Stream(c) \in Seq(Token) /\ Len(Stream(c)) = Len(Writes[c]) /\ Len(Writes[c]) \in Nat
<1>1. Writes[c] \in Seq(Kinds) /\ \A i \in 1..Len(Writes[c]) : <<c, i>> \in Id
  BY SocketsAssumption
<1>2. Len(Writes[c]) \in Nat /\ \A i \in 1..Len(Writes[c]) : Writes[c][i] \in Kinds
  BY <1>1
<1>3. \A i \in 1..Len(Writes[c]) : [kind |-> Writes[c][i], id |-> <<c, i>>] \in Token
  BY <1>1, <1>2 DEF Token
<1> QED
  BY <1>2, <1>3 DEF Stream

\* recv returns the next bytes of the stream: no more than there are and no
\* more than the buffer takes.
LEMMA ReceivedProps ==
  ASSUME CountsInRange, NEW c \in Conn, RecvData(c), NEW size \in Nat \ {0}
  PROVE  /\ Received(c, size) \in Seq(Token)
         /\ Len(Received(c, size)) \in 1..Available(c)
         /\ Len(Received(c, size)) <= size
         /\ Len(Received(c, size)) = IF Available(c) < size THEN Available(c) ELSE size
<1> DEFINE n == IF Available(c) < size THEN Available(c) ELSE size
<1>1. /\ taken[c] \in Nat /\ sent[c] \in Nat /\ sent[c] <= Len(Writes[c])
      /\ Available(c) = sent[c] - taken[c] /\ Available(c) \in Nat \ {0}
  BY DEF CountsInRange, RecvData, Available
<1>2. n \in 1..Available(c) /\ n <= size /\ taken[c] + n <= Len(Writes[c])
  BY <1>1, StreamIsSeq
<1>3. Received(c, size) = SubSeq(Stream(c), taken[c] + 1, taken[c] + n)
  BY DEF Received
<1> HIDE DEF n
<1> DEFINE s == Stream(c)
           t == taken[c]
<1>4. s \in Seq(Token) /\ t \in Nat /\ n \in Nat /\ t + n <= Len(s)
  BY <1>1, <1>2, StreamIsSeq
<1> HIDE DEF s, t
<1>5. SubSeq(s, t + 1, t + n) \in Seq(Token) /\ Len(SubSeq(s, t + 1, t + n)) = n
  BY <1>4
<1>6. Received(c, size) = SubSeq(s, t + 1, t + n)
  BY <1>3 DEF s, t
<1> QED
  BY <1>2, <1>5, <1>6 DEF n

\* The peers only add to what can be received.
LEMMA PeerKeepsCounts ==
  ASSUME CountsInRange, NEW c \in Conn, PeerStep(c)
  PROVE  /\ CountsInRange' /\ taken' = taken
         /\ \A d \in Conn : sent'[d] \in Nat /\ sent[d] \in Nat /\ sent[d] <= sent'[d]
<1>1. CASE Write(c)
  <2>1. PICK n \in (sent[c] + 1)..Len(Writes[c]) : sent' = [sent EXCEPT ![c] = n]
    BY <1>1 DEF Write
  <2>2. sent[c] \in Nat /\ Len(Writes[c]) \in Nat /\ taken' = taken
    BY <1>1, StreamIsSeq DEF Write, CountsInRange
  <2>3. n \in Nat /\ sent[c] < n /\ n <= Len(Writes[c])
    BY <2>1, <2>2
  <2>4. \A d \in Conn : sent'[d] = IF d = c THEN n ELSE sent[d]
    BY <2>1 DEF CountsInRange
  <2>5. sent' \in [Conn -> Nat]
    BY <2>1, <2>3 DEF CountsInRange
  <2>6. ASSUME NEW d \in Conn
        PROVE  /\ sent'[d] \in Nat /\ sent[d] \in Nat /\ sent[d] <= sent'[d]
               /\ taken'[d] <= sent'[d] /\ sent'[d] <= Len(Writes[d])
    <3>1. /\ sent[d] \in Nat /\ taken[d] \in Nat /\ taken'[d] = taken[d]
          /\ taken[d] <= sent[d] /\ sent[d] <= Len(Writes[d])
      BY <2>2 DEF CountsInRange
    <3>2. CASE d = c
      BY <2>2, <2>3, <2>4, <3>1, <3>2
    <3>3. CASE d # c
      BY <2>4, <3>1, <3>3
    <3> QED
      BY <3>2, <3>3
  <2>7. taken' \in [Conn -> Nat]
    BY <2>2 DEF CountsInRange
  <2> QED
    BY <2>2, <2>5, <2>6, <2>7 DEF CountsInRange
<1>2. CASE Connect(c) \/ Shutdown(c) \/ Reset(c)
  BY <1>2 DEF Connect, Shutdown, Reset, CountsInRange
<1> QED
  BY <1>1, <1>2 DEF PeerStep

\* recv takes no more than has been sent.
LEMMA TakeKeepsCounts ==
  ASSUME CountsInRange, NEW c \in Conn, NEW size \in Nat \ {0}, RecvData(c),
         Take(c, Received(c, size)), UNCHANGED sent
  PROVE  CountsInRange'
<1> DEFINE n == Len(Received(c, size))
<1>1. /\ n \in Nat /\ n <= sent[c] - taken[c]
      /\ taken' = [taken EXCEPT ![c] = @ + n] /\ sent' = sent
  BY ReceivedProps DEF Take, Available, CountsInRange
<1> HIDE DEF n
<1>2. \A d \in Conn : taken'[d] = IF d = c THEN taken[c] + n ELSE taken[d]
  BY <1>1 DEF CountsInRange
<1>3. taken' \in [Conn -> Nat]
  BY <1>1 DEF CountsInRange
<1> QED
  BY <1>1, <1>2, <1>3 DEF CountsInRange

\* What recv has returned is the next part of the stream.
LEMMA ReceivedIsPart ==
  ASSUME CountsInRange, NEW c \in Conn, NEW size \in Nat \ {0}, RecvData(c),
         Take(c, Received(c, size))
  PROVE  /\ taken'[c] \in (taken[c] + 1)..sent[c]
         /\ taken'[c] \in 0..Len(Stream(c)) /\ taken[c] \in 0..taken'[c]
         /\ Received(c, size) = Part(Stream(c), taken[c], taken'[c])
         /\ taken' = [taken EXCEPT ![c] = taken'[c]]
         /\ \A d \in Conn : d # c => taken'[d] = taken[d]
<1> DEFINE n == IF Available(c) < size THEN Available(c) ELSE size
<1>1. /\ taken[c] \in Nat /\ sent[c] \in Nat /\ sent[c] <= Len(Writes[c])
      /\ Available(c) = sent[c] - taken[c] /\ taken \in [Conn -> Nat]
  BY DEF CountsInRange, Available
<1>2. Len(Received(c, size)) = n /\ n \in 1..Available(c)
  BY ReceivedProps
<1>3. Received(c, size) = Part(Stream(c), taken[c], taken[c] + n)
  BY DEF Received, Part
<1> HIDE DEF n
<1>4. taken' = [taken EXCEPT ![c] = taken[c] + n]
  BY <1>2 DEF Take
<1>5. taken'[c] = taken[c] + n /\ \A d \in Conn : d # c => taken'[d] = taken[d]
  BY <1>1, <1>4
<1>6. Len(Stream(c)) = Len(Writes[c]) /\ Len(Writes[c]) \in Nat
  BY StreamIsSeq
<1>7. /\ taken[c] + n \in (taken[c] + 1)..sent[c] /\ taken[c] \in 0..(taken[c] + n)
      /\ taken[c] + n \in 0..Len(Writes[c])
  BY <1>1, <1>2, <1>6
<1> QED
  BY <1>3, <1>4, <1>5, <1>6, <1>7

-----------------------------------------------------------------------------
\* The tokens that are due among the first u of the stream of c.
DueIn(c, u) == {t \in Token : t.id[2] \in Owed(Stream(c), u)}

LEMMA DueMarks ==
  ASSUME NEW c \in Conn, NEW u
  PROVE  Marks(DueIn(c, u), Stream(c), u)
<1> SUFFICES ASSUME NEW k \in 1..Len(Stream(c))
             PROVE  Stream(c)[k] \in DueIn(c, u) <=> k \in Owed(Stream(c), u)
  BY DEF Marks
<1>1. Stream(c)[k] \in Token
  BY StreamIsSeq
<1>2. Stream(c)[k].id[2] = k
  BY StreamIsSeq DEF Stream
<1> QED
  BY <1>1, <1>2 DEF DueIn

\* The events of one connection: what is due by u is what was due by t and what
\* becomes due from there on.
LEMMA OwedEventsSplit ==
  ASSUME NEW c \in Conn, NEW u \in 0..Len(Stream(c)), NEW t \in 0..u
  PROVE  /\ OwedEvents(c, 0, u) = OwedEvents(c, 0, t) \o OwedEvents(c, t, u)
         /\ OwedEvents(c, t, u) = Only(Part(Stream(c), t, u), DueIn(c, u))
<1> DEFINE s == Stream(c)
           K == DueIn(c, u)
           L == DueIn(c, t)
<1>1. s \in Seq(Token) /\ Len(s) \in Nat
  BY StreamIsSeq
<1>2. Marks(K, s, u) /\ Marks(L, s, t)
  BY DueMarks
<1>3. /\ OwedEvents(c, 0, u) = Only(Part(s, 0, u), K)
      /\ OwedEvents(c, 0, t) = Only(Part(s, 0, t), L)
      /\ OwedEvents(c, t, u) = Only(Part(s, t, u), K)
  BY DEF OwedEvents, DueIn, Part
<1> HIDE DEF s, K, L
<1>4. u \in 0..Len(s) /\ t \in 0..Len(s) /\ 0 \in 0..t /\ t \in Nat /\ u \in Nat /\ t <= u
  BY <1>1 DEF s
<1>5. Only(Part(s, 0, u), K) = Only(Part(s, 0, t), K) \o Only(Part(s, t, u), K)
  BY <1>1, <1>4, OnlyJoin
<1>6. Only(Part(s, 0, t), K) = Only(Part(s, 0, t), L)
  <2> DEFINE p == Part(s, 0, t)
  <2>1. p \in Seq(Token) /\ Len(p) = t - 0 /\ \A i \in 1..(t - 0) : p[i] = s[0 + i]
    BY <1>1, <1>4, PartIs
  <2> HIDE DEF p
  <2>2. ASSUME NEW i \in 1..Len(p)
        PROVE  p[i] \in K <=> p[i] \in L
    <3>1. i \in 1..Len(s) /\ p[i] = s[i] /\ i <= t /\ i <= u /\ i \in Nat
      BY <1>1, <1>4, <2>1
    <3>2. i \in Owed(s, u) <=> i \in Owed(s, t)
      BY <1>4, <3>1 DEF Owed, MarkerLen
    <3> QED
      BY <1>2, <3>1, <3>2 DEF Marks
  <2>3. Only(p, K) = Only(p, L)
    BY <2>1, <2>2, OnlySame
  <2> QED
    BY <2>3 DEF p
<1> QED
  BY <1>3, <1>5, <1>6 DEF s, K

\* Tokens of one connection.
TokensOf(c) == {t \in Token : t.id[1] = c}

LEMMA OwedEventsTyped ==
  ASSUME NEW c \in Conn, NEW u \in 0..Len(Stream(c)), NEW t \in 0..u
  PROVE  OwedEvents(c, t, u) \in Seq(TokensOf(c)) /\ OwedEvents(c, t, u) \in Seq(Token)
<1>1. Stream(c) \in Seq(TokensOf(c))
  <2>1. Len(Stream(c)) = Len(Writes[c]) /\ Len(Writes[c]) \in Nat /\ Stream(c) \in Seq(Token)
    BY StreamIsSeq
  <2>2. \A i \in 1..Len(Writes[c]) : Stream(c)[i] \in Token
    BY <2>1
  <2>3. \A i \in 1..Len(Writes[c]) : Stream(c)[i].id[1] = c
    BY DEF Stream
  <2>4. \A i \in 1..Len(Writes[c]) : Stream(c)[i] \in TokensOf(c)
    BY <2>2, <2>3 DEF TokensOf
  <2>5. Stream(c) = [i \in 1..Len(Writes[c]) |-> Stream(c)[i]]
    BY DEF Stream
  <2> DEFINE s == Stream(c)
  <2> HIDE DEF s
  <2>6. s \in Seq(TokensOf(c))
    BY <2>1, <2>4, <2>5 DEF s
  <2> QED
    BY <2>6 DEF s
<1>2. Part(Stream(c), t, u) \in Seq(TokensOf(c))
  BY <1>1, PartIs
<1>3. Only(Part(Stream(c), t, u), DueIn(c, u)) \in Seq(TokensOf(c))
  BY <1>2, OnlyType
<1>4. OwedEvents(c, t, u) \in Seq(TokensOf(c))
  BY <1>3 DEF OwedEvents, DueIn, Part
<1>5. TokensOf(c) \subseteq Token
  BY DEF TokensOf
<1> QED
  BY <1>4, <1>5

\* Adding events of c to what is logged adds them to those of c and of no other.
LEMMA EventsOfMore ==
  ASSUME NEW c \in Conn, NEW log \in Seq(Token), NEW new \in Seq(TokensOf(c)), NEW d \in Conn
  PROVE  EventsOf(d, log \o new) = EventsOf(d, log) \o (IF d = c THEN new ELSE <<>>)
<1>1. new \in Seq(Token)
  BY DEF TokensOf
<1>2. EventsOf(d, log \o new) = Only(log, TokensOf(d)) \o Only(new, TokensOf(d))
  BY <1>1, OnlyConcat DEF EventsOf, TokensOf
<1>3. CASE d = c
  BY <1>2, <1>3, OnlyAll DEF EventsOf, TokensOf
<1>4. CASE d # c
  <2>1. \A i \in 1..Len(new) : new[i] \notin TokensOf(d)
    BY <1>4 DEF TokensOf
  <2>2. Only(new, TokensOf(d)) = <<>>
    BY <1>1, <2>1, OnlyNone
  <2> QED
    BY <1>2, <1>4, <2>2 DEF EventsOf, TokensOf
<1> QED
  BY <1>3, <1>4
=============================================================================
