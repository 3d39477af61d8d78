----------------------------- MODULE ListLemmas -----------------------------
(***************************************************************************)
(* Facts about sets of numbers, sequences, sums and the number of subsets  *)
(* which the proofs of several components rest on.                         *)
(***************************************************************************)
EXTENDS Integers, SequencesExt, FiniteSetsExt, Combinatorics, FiniteSetTheorems,
        WellFoundedInduction, SequenceTheorems, TLAPS

\* A sequence of anything.
IsSeq(s) == \E S : s \in Seq(S)

-----------------------------------------------------------------------------
(* Lemmas about sequences of anything.                                     *)

\* A longer sequence keeps the prefixes of the shorter.
LEMMA AppendAny ==
    ASSUME NEW s, IsSeq(s), NEW x
    PROVE  /\ IsSeq(Append(s, x)) /\ Len(s) \in Nat /\ Len(Append(s, x)) = Len(s) + 1
           /\ DOMAIN s = 1..Len(s) /\ DOMAIN Append(s, x) = 1..Len(s) + 1
           /\ Append(s, x)[Len(s) + 1] = x
           /\ \A i \in 1..Len(s) : Append(s, x)[i] = s[i]
           /\ \A n \in 0..Len(s) : SubSeq(Append(s, x), 1, n) = SubSeq(s, 1, n)
           /\ SubSeq(s, 1, Len(s)) = s
<1>1. PICK S : s \in Seq(S)
  BY DEF IsSeq
<1> DEFINE T == S \cup {x}
<1>2. s \in Seq(T) /\ x \in T
  BY <1>1
<1> HIDE DEF T
<1>3. /\ Append(s, x) \in Seq(T) /\ Len(s) \in Nat /\ Len(Append(s, x)) = Len(s) + 1
      /\ DOMAIN s = 1..Len(s) /\ DOMAIN Append(s, x) = 1..Len(s) + 1
      /\ Append(s, x)[Len(s) + 1] = x
      /\ \A i \in 1..Len(s) : Append(s, x)[i] = s[i]
  BY <1>2
<1>4. ASSUME NEW n \in 0..Len(s) PROVE SubSeq(Append(s, x), 1, n) = SubSeq(s, 1, n)
  BY <1>2, <1>3
<1>5. SubSeq(s, 1, Len(s)) = s
  BY <1>2
<1>6. QED BY <1>3, <1>4, <1>5 DEF IsSeq

\* The empty sequence is one.
LEMMA EmptyAny == IsSeq(<<>>) /\ Len(<<>>) = 0 /\ DOMAIN <<>> = {}
<1>1. <<>> \in Seq({})
  OBVIOUS
<1>2. QED BY <1>1 DEF IsSeq

-----------------------------------------------------------------------------
(* Lemmas about lists of lists joined.                                     *)

\* A set of numbers has a least one.
LEMMA LeastIs ==
    ASSUME NEW S, S \subseteq Nat, S # {}
    PROVE  /\ Min(S) \in S
           /\ \A n \in S : Min(S) <= n
<1>1. PICK m \in S : \A o \in S : <<o, m>> \notin OpToRel(<, Nat)
  BY NatLessThanWellFounded, WFMin
<1>2. \A o \in S : ~(o < m)
  BY <1>1 DEF OpToRel
<1>3. \A o \in S : m <= o
  BY <1>2
<1>4. QED BY <1>1, <1>3 DEF Min

\* A bounded set of numbers has a greatest one.
LEMMA GreatestIs ==
    ASSUME NEW b \in Nat, NEW S, S \subseteq 0..b, S # {}
    PROVE  \E m \in S : \A n \in S : n <= m
<1> DEFINE below == {b - n : n \in S}
<1>1. below \subseteq Nat /\ below # {}
  <2>1. \A n \in S : b - n \in Nat
    OBVIOUS
  <2>2. QED BY <2>1
<1>2. Min(below) \in below /\ \A n \in below : Min(below) <= n
  <2> HIDE DEF below
  <2>1. QED BY <1>1, LeastIs
<1>3. PICK m \in S : Min(below) = b - m
  BY <1>2
<1>4. \A n \in S : b - m <= b - n
  BY <1>2, <1>3
<1>5. QED BY <1>4

\* f[i] is the first i lists joined.
Joined(f, n, seqs) == f = [i \in 1..n |-> IF i = 1 THEN seqs[i] ELSE f[i - 1] \o seqs[i]]

\* Lists can be joined one after the other, however many there are.
LEMMA JoinExists == ASSUME NEW seqs, NEW count \in Nat PROVE \E f : Joined(f, count, seqs)
<1> DEFINE bad == {n \in Nat : ~ \E f : Joined(f, n, seqs)}
<1> SUFFICES ASSUME bad # {} PROVE FALSE
  OBVIOUS
<1>1. bad \subseteq Nat
  OBVIOUS
<1> DEFINE m == Min(bad)
<1>2. m \in bad /\ m \in Nat /\ \A o \in bad : m <= o
  <2> HIDE DEF bad
  <2>1. QED BY <1>1, LeastIs
<1> HIDE DEF m
<1>3. m # 0
  <2> SUFFICES ASSUME m = 0 PROVE FALSE
    OBVIOUS
  <2> DEFINE g == [n \in 1..0 |-> seqs[n]]
  <2>1. g = [i \in 1..0 |-> IF i = 1 THEN seqs[i] ELSE g[i - 1] \o seqs[i]]
    BY DOMAIN g = {}
  <2> HIDE DEF g
  <2>2. Joined(g, 0, seqs)
    BY <2>1 DEF Joined
  <2>3. QED BY <1>2, <2>2
<1>4. m - 1 \in Nat /\ m - 1 \notin bad
  <2>1. m - 1 \in Nat /\ ~(m <= m - 1)
    BY <1>2, <1>3
  <2> HIDE DEF bad
  <2>2. QED BY <1>2, <2>1
<1>5. PICK f : Joined(f, m - 1, seqs)
  BY <1>4
<1> DEFINE here == IF m = 1 THEN seqs[m] ELSE f[m - 1] \o seqs[m]
           g == [n \in 1..m |-> IF n < m THEN f[n] ELSE here]
<1> HIDE DEF here
<1>6. /\ g = [n \in 1..m |-> g[n]]
      /\ g[m] = here /\ \A n \in 1..(m - 1) : g[n] = f[n]
  BY <1>2, <1>3
<1> HIDE DEF g
<1>7. ASSUME NEW n \in 1..m
      PROVE  g[n] = IF n = 1 THEN seqs[n] ELSE g[n - 1] \o seqs[n]
  <2>1. CASE n = m
    <3>1. n = 1 \/ n - 1 \in 1..(m - 1)
      BY <1>2, <2>1
    <3>2. QED BY <1>6, <2>1, <3>1 DEF here
  <2>2. CASE n # m
    <3>1. n \in 1..(m - 1) /\ (n = 1 \/ n - 1 \in 1..(m - 1))
      BY <1>2, <2>2
    <3>2. f[n] = IF n = 1 THEN seqs[n] ELSE f[n - 1] \o seqs[n]
      BY <1>5, <3>1 DEF Joined
    <3>3. QED BY <1>6, <3>1, <3>2
  <2>3. QED BY <2>1, <2>2
<1>8. Joined(g, m, seqs)
  BY <1>6, <1>7 DEF Joined
<1>9. QED BY <1>2, <1>8

\* How they are joined depends on nothing behind them.
LEMMA JoinAgrees ==
    ASSUME NEW m \in Nat, NEW n \in Nat, m <= n, NEW s, NEW t, \A i \in 1..m : s[i] = t[i],
           NEW f, Joined(f, m, s), NEW g, Joined(g, n, t)
    PROVE  \A i \in 1..m : f[i] = g[i]
<1> DEFINE bad == {i \in 1..m : f[i] # g[i]}
<1> SUFFICES ASSUME bad # {} PROVE FALSE
  OBVIOUS
<1> DEFINE l == Min(bad)
<1>1. l \in bad /\ l \in 1..m /\ \A o \in bad : l <= o
  <2>1. bad \subseteq Nat /\ bad \subseteq 1..m
    OBVIOUS
  <2> HIDE DEF bad
  <2>2. QED BY <2>1, LeastIs
<1> HIDE DEF l, bad
<1> l \in 1..m /\ l \in 1..n
  BY <1>1
<1>2. /\ f[l] = IF l = 1 THEN s[l] ELSE f[l - 1] \o s[l]
      /\ g[l] = IF l = 1 THEN t[l] ELSE g[l - 1] \o t[l]
  BY DEF Joined
<1>3. l # 1 => f[l - 1] = g[l - 1]
  <2> SUFFICES ASSUME l # 1 PROVE f[l - 1] = g[l - 1]
    OBVIOUS
  <2>1. l - 1 \in 1..m /\ ~(l <= l - 1)
    BY <1>1
  <2>2. QED BY <1>1, <2>1 DEF bad
<1>4. f[l] = g[l]
  BY <1>1, <1>2, <1>3
<1>5. QED BY <1>1, <1>4 DEF bad

\* The first c lists of s, joined.
FlatTo(s, c) == FlattenSeq(SubSeq(s, 1, c))

\* FlattenSeq joins the lists one by one.
LEMMA FlatIs ==
    ASSUME NEW T, NEW s \in Seq(Seq(T))
    PROVE  /\ Len(s) \in Nat
           /\ FlatTo(s, 0) = <<>>
           /\ \A c \in 0..Len(s) : FlatTo(s, c) \in Seq(T)
           /\ \A c \in 1..Len(s) : FlatTo(s, c) = FlatTo(s, c - 1) \o s[c]
           /\ FlatTo(s, Len(s)) = FlattenSeq(s)
<1> DEFINE n == Len(s)
<1>1. n \in Nat /\ \A c \in 1..n : s[c] \in Seq(T)
  OBVIOUS
<1>2. SubSeq(s, 1, n) = s
  OBVIOUS
<1>3. FlatTo(s, 0) = <<>>
  <2>1. SubSeq(s, 1, 0) = <<>> /\ Len(<<>>) = 0
    OBVIOUS
  <2>2. QED BY <2>1, Zenon DEF FlatTo, FlattenSeq
<1>4. PICK f : Joined(f, n, s)
  BY <1>1, JoinExists
<1>5. ASSUME NEW c \in 1..n PROVE FlatTo(s, c) = f[c]
  <2> DEFINE t == SubSeq(s, 1, c)
  <2>1. c \in Nat /\ c <= n /\ Len(t) = c /\ \A i \in 1..c : t[i] = s[i]
    BY <1>1
  <2> HIDE DEF t
  <2>2. Len(t) # 0
    BY <2>1
  <2>3. PICK g : Joined(g, c, t)
    BY <2>1, JoinExists
  <2> DEFINE flatten == CHOOSE h : h = [i \in 1..c |-> IF i = 1 THEN t[i] ELSE h[i - 1] \o t[i]]
  <2>4. FlattenSeq(t) = flatten[c]
    BY <2>1, <2>2, Zenon DEF FlattenSeq
  <2>5. Joined(flatten, c, t)
    BY <2>3 DEF Joined
  <2> HIDE DEF flatten
  <2>6. \A i \in 1..c : flatten[i] = f[i]
    <3> HIDE DEF n
    <3>1. QED BY <1>1, <1>4, <2>1, <2>5, JoinAgrees
  <2>7. c \in 1..c
    BY <2>1
  <2>8. QED BY <2>4, <2>6, <2>7 DEF FlatTo, t
<1>6. \A c \in 1..n : f[c] = IF c = 1 THEN s[c] ELSE f[c - 1] \o s[c]
  BY <1>4 DEF Joined
<1>7. ASSUME NEW c \in 1..n PROVE FlatTo(s, c) = FlatTo(s, c - 1) \o s[c]
  <2>1. CASE c = 1
    <3>1. FlatTo(s, c - 1) = <<>>
      BY <1>3, <2>1
    <3>2. QED BY <1>1, <1>5, <1>6, <2>1, <3>1, ConcatEmptySeq
  <2>2. CASE c # 1
    <3>1. c - 1 \in 1..n
      BY <1>1, <2>2
    <3>2. QED BY <1>5, <1>6, <2>2, <3>1
  <2>3. QED BY <2>1, <2>2
<1>8. \A c \in 0..n : FlatTo(s, c) \in Seq(T)
  <2> DEFINE bad == {c \in 0..n : FlatTo(s, c) \notin Seq(T)}
  <2> SUFFICES ASSUME bad # {} PROVE FALSE
    OBVIOUS
  <2> DEFINE m == Min(bad)
  <2>1. m \in bad /\ m \in 0..n /\ \A o \in bad : m <= o
    <3>1. bad \subseteq Nat /\ bad \subseteq 0..n
      BY <1>1
    <3> HIDE DEF bad
    <3>2. QED BY <3>1, LeastIs
  <2> HIDE DEF m
  <2>2. m # 0
    <3>1. <<>> \in Seq(T)
      OBVIOUS
    <3>2. QED BY <1>3, <2>1, <3>1
  <2>3. m \in 1..n /\ m - 1 \in 0..n /\ ~(m <= m - 1)
    BY <1>1, <2>1, <2>2
  <2>4. FlatTo(s, m - 1) \in Seq(T)
    BY <2>1, <2>3
  <2>5. FlatTo(s, m) \in Seq(T)
    BY <1>1, <1>7, <2>3, <2>4, ConcatProperties
  <2>6. QED BY <2>1, <2>5
<1>9. FlatTo(s, n) = FlattenSeq(s)
  BY <1>2 DEF FlatTo
<1>10. QED BY <1>1, <1>3, <1>7, <1>8, <1>9

\* Lists joined are a list.
LEMMA FlattenIn == ASSUME NEW T, NEW s \in Seq(Seq(T)) PROVE FlattenSeq(s) \in Seq(T)
<1>1. Len(s) \in Nat /\ Len(s) \in 0..Len(s)
  OBVIOUS
<1>2. QED BY <1>1, FlatIs

\* Lists that agree so far are joined alike.
LEMMA FlatAgrees ==
    ASSUME NEW T, NEW s \in Seq(T), NEW t \in Seq(T), NEW m \in Nat, m <= Len(s), m <= Len(t),
           \A i \in 1..m : s[i] = t[i]
    PROVE  FlatTo(s, m) = FlatTo(t, m)
<1>1. SubSeq(s, 1, m) = SubSeq(t, 1, m)
  OBVIOUS
<1>2. QED BY <1>1 DEF FlatTo

\* One more list goes behind the others.
LEMMA FlattenAppend ==
    ASSUME NEW T, NEW s \in Seq(Seq(T)), NEW x \in Seq(T)
    PROVE  FlattenSeq(Append(s, x)) = FlattenSeq(s) \o x
<1> DEFINE U == Seq(T)
           v == Append(s, x)
           n == Len(s)
<1>1. n \in Nat /\ s \in Seq(U) /\ v \in Seq(U) /\ Len(v) = n + 1 /\ v[n + 1] = x
      /\ \A i \in 1..n : v[i] = s[i]
  <2> HIDE DEF U
  <2>1. s \in Seq(U) /\ x \in U
    BY DEF U
  <2>2. QED BY <2>1, AppendProperties
<1> HIDE DEF v
<1>2. FlatTo(v, n) = FlatTo(s, n)
  <2> HIDE DEF U, n
  <2>1. n <= Len(v) /\ n <= Len(s)
    BY <1>1 DEF n
  <2>2. QED BY <1>1, <2>1, FlatAgrees
<1>3. FlatTo(v, n + 1) = FlatTo(v, n) \o v[n + 1] /\ FlatTo(v, Len(v)) = FlattenSeq(v)
  <2>1. n + 1 \in 1..Len(v) /\ (n + 1) - 1 = n
    BY <1>1
  <2>2. QED BY <1>1, <2>1, FlatIs
<1>4. FlatTo(s, n) = FlattenSeq(s)
  BY FlatIs
<1>5. QED BY <1>1, <1>2, <1>3, <1>4 DEF v

\* No list is empty.
NoneEmpty(s) == \A i \in 1..Len(s) : s[i] # <<>>

\* The more lists, the longer.
LEMMA FlatGrows ==
    ASSUME NEW T, NEW s \in Seq(Seq(T)), NEW a \in 0..Len(s), NEW b \in 0..Len(s), a <= b
    PROVE  /\ Len(FlatTo(s, a)) \in Nat /\ Len(FlatTo(s, b)) \in Nat
           /\ Len(FlatTo(s, a)) <= Len(FlatTo(s, b))
           /\ IsPrefix(FlatTo(s, a), FlatTo(s, b))
           /\ NoneEmpty(s) /\ a < b => Len(FlatTo(s, a)) < Len(FlatTo(s, b))
<1> DEFINE grows(c) == /\ Len(FlatTo(s, a)) <= Len(FlatTo(s, c))
                       /\ SubSeq(FlatTo(s, c), 1, Len(FlatTo(s, a))) = FlatTo(s, a)
                       /\ NoneEmpty(s) /\ a < c => Len(FlatTo(s, a)) < Len(FlatTo(s, c))
           bad == {c \in a..Len(s) : ~grows(c)}
           m == Min(bad)
<1>1. /\ Len(s) \in Nat /\ \A c \in 0..Len(s) : FlatTo(s, c) \in Seq(T)
      /\ \A c \in 1..Len(s) : FlatTo(s, c) = FlatTo(s, c - 1) \o s[c]
  BY FlatIs
<1>2. \A c \in 1..Len(s) : s[c] \in Seq(T)
  OBVIOUS
<1>3. ASSUME bad # {} PROVE FALSE
  <2>1. m \in bad /\ m \in a..Len(s) /\ \A o \in bad : m <= o
    <3>1. bad \subseteq Nat /\ bad \subseteq a..Len(s)
      BY <1>1
    <3> HIDE DEF bad
    <3>2. QED BY <1>3, <3>1, LeastIs
  <2> HIDE DEF m
  <2>2. m # a
    <3>1. SubSeq(FlatTo(s, a), 1, Len(FlatTo(s, a))) = FlatTo(s, a) /\ Len(FlatTo(s, a)) \in Nat
      BY <1>1
    <3>2. grows(a)
      BY <3>1
    <3>3. QED BY <2>1, <3>2
  <2>3. m - 1 \in a..Len(s) /\ m - 1 \in 0..Len(s) /\ m \in 1..Len(s) /\ ~(m <= m - 1) /\ a < m
    BY <1>1, <2>1, <2>2
  <2>4. grows(m - 1)
    <3> HIDE DEF grows
    <3>1. m - 1 \notin bad
      <4> HIDE DEF bad
      <4>1. QED BY <2>1, <2>3
    <3>2. QED BY <2>3, <3>1
  <2> DEFINE u == FlatTo(s, a)
             v == FlatTo(s, m - 1)
             w == s[m]
  <2>5. u \in Seq(T) /\ v \in Seq(T) /\ w \in Seq(T) /\ FlatTo(s, m) = v \o w
    BY <1>1, <1>2, <2>3
  <2>6. /\ Len(u) <= Len(v) /\ SubSeq(v, 1, Len(u)) = u
    BY <2>4
  <2>7. NoneEmpty(s) => w # <<>>
    BY <2>3 DEF NoneEmpty
  <2> HIDE DEF u, v, w
  <2>8. /\ Len(u) <= Len(v \o w) /\ SubSeq(v \o w, 1, Len(u)) = u
        /\ w # <<>> => Len(u) < Len(v \o w)
    BY <2>5, <2>6
  <2>9. grows(m)
    BY <2>5, <2>7, <2>8 DEF u
  <2>10. QED BY <2>1, <2>9
<1>4. b \in a..Len(s)
  BY <1>1
<1>5. grows(b)
  BY <1>3, <1>4
<1>6. FlatTo(s, a) \in Seq(T) /\ FlatTo(s, b) \in Seq(T)
  BY <1>1
<1>7. Len(FlatTo(s, a)) \in Nat /\ Len(FlatTo(s, b)) \in Nat
      /\ SubSeq(FlatTo(s, a), 1, Len(FlatTo(s, a))) = FlatTo(s, a)
  BY <1>6
<1>8. QED BY <1>5, <1>7 DEF IsPrefix

-----------------------------------------------------------------------------
(* Sums over finite sets.                                                  *)

\* f[s] is the sum of g over s, for each part s of S.
Summing(f, S, g) ==
    f = [s \in SUBSET S |-> IF s = {} THEN 0
                            ELSE g[CHOOSE x \in s : TRUE] + f[s \ {CHOOSE x \in s : TRUE}]]

\* The sum of the values of g over S.
SumOf(g, S) == MapThenSumSet(LAMBDA x : g[x], S)

\* f is such a sum for the parts of S of at most n elements.
SummingUpTo(f, n, S, g) ==
    \A s \in SUBSET S :
       Cardinality(s) <= n =>
          f[s] = IF s = {} THEN 0
                 ELSE g[CHOOSE x \in s : TRUE] + f[s \ {CHOOSE x \in s : TRUE}]

\* An element of a set taken out of it.
LEMMA OneLess ==
    ASSUME NEW S, IsFiniteSet(S), NEW s \in SUBSET S, s # {}
    PROVE  LET x == CHOOSE x \in s : TRUE
           IN  /\ x \in s /\ x \in S /\ s \ {x} \in SUBSET S
               /\ Cardinality(s) \in Nat /\ Cardinality(s) # 0
               /\ IsFiniteSet(s) /\ IsFiniteSet(s \ {x})
               /\ Cardinality(s \ {x}) = Cardinality(s) - 1
<1> DEFINE x == CHOOSE x \in s : TRUE
<1>1. x \in s
  OBVIOUS
<1> HIDE DEF x
<1>2. IsFiniteSet(s)
  BY FS_Subset
<1>3. IsFiniteSet(s \ {x}) /\ Cardinality(s \ {x}) = Cardinality(s) - 1
  BY <1>1, <1>2, FS_RemoveElement
<1>4. Cardinality(s) \in Nat /\ Cardinality(s) # 0
  BY <1>2, FS_CardinalityType, FS_EmptySet
<1>5. QED BY <1>1, <1>2, <1>3, <1>4 DEF x

\* Parts of any number of elements can be summed.
LEMMA SummingUpToExists ==
    ASSUME NEW S, IsFiniteSet(S), NEW g, NEW count \in Nat
    PROVE  \E f : SummingUpTo(f, count, S, g)
<1> DEFINE bad == {n \in Nat : ~ \E f : SummingUpTo(f, n, S, g)}
           m == Min(bad)
           pick(s) == CHOOSE x \in s : TRUE
<1> SUFFICES ASSUME bad # {} PROVE FALSE
  OBVIOUS
<1>1. m \in bad /\ m \in Nat /\ \A o \in bad : m <= o
  <2>1. bad \subseteq Nat
    OBVIOUS
  <2> HIDE DEF bad
  <2>2. QED BY <2>1, LeastIs
<1> HIDE DEF m
<1>2. m # 0
  <2> SUFFICES ASSUME m = 0 PROVE FALSE
    OBVIOUS
  <2> DEFINE f == [s \in SUBSET S |-> 0]
  <2>1. ASSUME NEW s \in SUBSET S, Cardinality(s) <= 0 PROVE s = {}
    <3>1. IsFiniteSet(s)
      BY FS_Subset
    <3>2. Cardinality(s) = 0
      BY <2>1, <3>1, FS_CardinalityType
    <3>3. QED BY <3>1, <3>2, FS_EmptySet
  <2>2. SummingUpTo(f, 0, S, g)
    BY <2>1 DEF SummingUpTo
  <2>3. QED BY <1>1, <2>2
<1> DEFINE k == m - 1
<1>3. k \in Nat /\ m = k + 1 /\ k \notin bad
  <2>1. k \in Nat /\ ~(m <= k) /\ m = k + 1
    BY <1>1, <1>2
  <2> HIDE DEF bad
  <2>2. QED BY <1>1, <2>1
<1> HIDE DEF k
<1>4. PICK f : SummingUpTo(f, k, S, g)
  BY <1>3
<1> DEFINE this(s) == IF s = {} THEN 0 ELSE g[pick(s)] + f[s \ {pick(s)}]
           h == [s \in SUBSET S |-> IF Cardinality(s) <= k THEN f[s] ELSE this(s)]
<1> HIDE DEF pick
<1>5. ASSUME NEW s \in SUBSET S, Cardinality(s) <= m
      PROVE  h[s] = IF s = {} THEN 0 ELSE g[pick(s)] + h[s \ {pick(s)}]
  <2>1. h[s] = this(s)
    <3>1. CASE Cardinality(s) <= k
      <4>1. f[s] = this(s)
        BY <1>4, <3>1 DEF SummingUpTo, pick
      <4>2. QED BY <3>1, <4>1
    <3>2. CASE ~(Cardinality(s) <= k)
      BY <3>2
    <3>3. QED BY <3>1, <3>2
  <2>2. ASSUME s # {} PROVE h[s \ {pick(s)}] = f[s \ {pick(s)}]
    <3>1. /\ s \ {pick(s)} \in SUBSET S /\ Cardinality(s) \in Nat
          /\ Cardinality(s \ {pick(s)}) = Cardinality(s) - 1
      BY <2>2, OneLess DEF pick
    <3>2. Cardinality(s \ {pick(s)}) <= k
      BY <1>3, <1>5, <3>1
    <3>3. QED BY <3>1, <3>2
  <2> HIDE DEF h
  <2>3. QED BY <2>1, <2>2
<1> HIDE DEF h
<1>6. SummingUpTo(h, m, S, g)
  BY <1>5 DEF SummingUpTo, pick
<1>7. QED BY <1>1, <1>6

\* A finite set can be summed.
LEMMA SummingExists ==
    ASSUME NEW S, IsFiniteSet(S), NEW g PROVE \E f : Summing(f, S, g)
<1> DEFINE pick(s) == CHOOSE x \in s : TRUE
           n == Cardinality(S)
<1>1. n \in Nat
  BY FS_CardinalityType
<1>2. PICK f : SummingUpTo(f, n, S, g)
  BY <1>1, SummingUpToExists
<1> DEFINE h == [s \in SUBSET S |-> f[s]]
<1>3. \A s \in SUBSET S : f[s] = IF s = {} THEN 0 ELSE g[pick(s)] + f[s \ {pick(s)}]
  <2>1. \A s \in SUBSET S : Cardinality(s) <= n
    BY FS_Subset
  <2>2. QED BY <1>2, <2>1 DEF SummingUpTo
<1>4. \A s \in SUBSET S : s \ {pick(s)} \in SUBSET S
  OBVIOUS
<1> HIDE DEF pick
<1>5. h = [s \in SUBSET S |-> IF s = {} THEN 0 ELSE g[pick(s)] + h[s \ {pick(s)}]]
  BY <1>3, <1>4
<1>6. QED BY <1>5 DEF Summing, pick

\* Sums of the same values are equal.
LEMMA SummingAgrees ==
    ASSUME NEW S, IsFiniteSet(S), NEW f, NEW g, Summing(f, S, g),
           NEW T, IsFiniteSet(T), NEW h, NEW i, Summing(h, T, i),
           NEW R, R \subseteq S, R \subseteq T, \A x \in R : g[x] = i[x]
    PROVE  f[R] = h[R]
<1> DEFINE pick(s) == CHOOSE x \in s : TRUE
           same(n) == \A s \in SUBSET R : Cardinality(s) = n => f[s] = h[s]
           bad == {n \in Nat : ~same(n)}
           m == Min(bad)
<1>1. IsFiniteSet(R)
  BY FS_Subset
<1>2. ASSUME bad # {} PROVE FALSE
  <2>1. m \in bad /\ m \in Nat /\ \A o \in bad : m <= o
    <3>1. bad \subseteq Nat
      OBVIOUS
    <3> HIDE DEF bad
    <3>2. QED BY <1>2, <3>1, LeastIs
  <2> HIDE DEF m
  <2>2. PICK s \in SUBSET R : Cardinality(s) = m /\ f[s] # h[s]
    BY <2>1
  <2>3. s \in SUBSET S /\ s \in SUBSET T
    OBVIOUS
  <2>4. /\ f[s] = IF s = {} THEN 0 ELSE g[pick(s)] + f[s \ {pick(s)}]
        /\ h[s] = IF s = {} THEN 0 ELSE i[pick(s)] + h[s \ {pick(s)}]
    BY <2>3 DEF Summing
  <2>5. s # {}
    BY <2>2, <2>4
  <2>6. /\ pick(s) \in R /\ s \ {pick(s)} \in SUBSET R
        /\ Cardinality(s \ {pick(s)}) = m - 1 /\ m # 0
    BY <1>1, <2>2, <2>5, OneLess
  <2> HIDE DEF pick
  <2>7. same(m - 1)
    <3>1. m - 1 \in Nat /\ ~(m <= m - 1)
      BY <2>1, <2>6
    <3>2. m - 1 \notin bad
      <4> HIDE DEF bad
      <4>1. QED BY <2>1, <3>1
    <3>3. QED BY <3>1, <3>2
  <2>8. f[s \ {pick(s)}] = h[s \ {pick(s)}]
    BY <2>6, <2>7
  <2>9. QED BY <2>2, <2>4, <2>5, <2>6, <2>8
<1>3. same(Cardinality(R)) /\ R \in SUBSET R
  <2>1. Cardinality(R) \in Nat
    BY <1>1, FS_CardinalityType
  <2>2. QED BY <1>2, <2>1
<1>4. QED BY <1>3

\* A sum is the value of any summing function.
LEMMA SumIs ==
    ASSUME NEW S, IsFiniteSet(S), NEW g, NEW f, Summing(f, S, g), NEW R, R \subseteq S
    PROVE  f[R] = SumOf(g, R)
<1> DEFINE is(h) == h = [s \in SUBSET R |->
                         IF s = {} THEN 0
                         ELSE g[CHOOSE x \in s : TRUE] + h[s \ {CHOOSE x \in s : TRUE}]]
           iter == CHOOSE h : is(h)
<1>1. SumOf(g, R) = iter[R]
  BY Zenon DEF SumOf, MapThenSumSet, MapThenFoldSet
<1>2. IsFiniteSet(R)
  BY FS_Subset
<1>3. Summing(iter, R, g)
  <2>1. PICK e : Summing(e, R, g)
    BY <1>2, SummingExists
  <2>2. is(e)
    BY <2>1, Zenon DEF Summing
  <2> HIDE DEF is
  <2>3. is(iter)
    BY <2>2, Zenon
  <2> USE DEF is
  <2> HIDE DEF iter
  <2>4. QED BY <2>3, Zenon DEF Summing
<1> HIDE DEF iter
<1>4. f[R] = iter[R]
  BY <1>2, <1>3, SummingAgrees
<1>5. QED BY <1>1, <1>4

\* A set summed is one of its elements and the rest of it.
LEMMA SumPick ==
    ASSUME NEW S, IsFiniteSet(S), NEW g
    PROVE  /\ SumOf(g, {}) = 0
           /\ S # {} => \E x \in S : SumOf(g, S) = g[x] + SumOf(g, S \ {x})
<1> DEFINE pick == CHOOSE x \in S : TRUE
<1>1. PICK f : Summing(f, S, g)
  BY SummingExists
<1>2. \A R \in SUBSET S : f[R] = SumOf(g, R)
  BY <1>1, SumIs
<1>3. {} \in SUBSET S /\ S \in SUBSET S /\ S \ {pick} \in SUBSET S
  OBVIOUS
<1>4. f[{}] = 0 /\ (S # {} => f[S] = g[pick] + f[S \ {pick}])
  BY <1>1, <1>3 DEF Summing
<1>5. S # {} => pick \in S
  OBVIOUS
<1> HIDE DEF pick
<1>6. QED BY <1>2, <1>3, <1>4, <1>5

\* g has a number for every element of S.
Counts(g, S) == \A x \in S : g[x] \in Nat

\* A sum of natural numbers is one, and it does not matter which of them is added
\* last.
LEMMA SumStep ==
    ASSUME NEW S, IsFiniteSet(S), NEW g, Counts(g, S)
    PROVE  /\ SumOf(g, S) \in Nat
           /\ \A x \in S : SumOf(g, S) = g[x] + SumOf(g, S \ {x})
<1> DEFINE good(R) == /\ SumOf(g, R) \in Nat
                      /\ \A x \in R : SumOf(g, R) = g[x] + SumOf(g, R \ {x})
           bad == {n \in Nat : \E R \in SUBSET S : Cardinality(R) = n /\ ~good(R)}
           m == Min(bad)
<1>1. ASSUME bad # {} PROVE FALSE
  <2>1. m \in bad /\ m \in Nat /\ \A o \in bad : m <= o
    <3>1. bad \subseteq Nat
      OBVIOUS
    <3> HIDE DEF bad
    <3>2. QED BY <1>1, <3>1, LeastIs
  <2> HIDE DEF m
  <2>2. PICK R \in SUBSET S : Cardinality(R) = m /\ ~good(R)
    BY <2>1
  <2>3. IsFiniteSet(R)
    BY FS_Subset
  <2>4. ASSUME NEW Q \in SUBSET S, IsFiniteSet(Q), Cardinality(Q) \in Nat, Cardinality(Q) < m
        PROVE  good(Q)
    <3>1. Cardinality(Q) \notin bad
      <4> HIDE DEF bad
      <4>1. QED BY <2>1, <2>4
    <3> HIDE DEF good
    <3>2. QED BY <2>4, <3>1
  <2>5. ASSUME NEW x \in R PROVE good(R \ {x})
    <3>1. /\ IsFiniteSet(R \ {x}) /\ Cardinality(R \ {x}) = m - 1 /\ R \ {x} \in SUBSET S
      BY <2>2, <2>3, FS_RemoveElement
    <3>2. m - 1 \in Nat /\ m - 1 < m
      <4>1. Cardinality(R \ {x}) \in Nat
        BY <3>1, FS_CardinalityType
      <4>2. QED BY <2>1, <3>1, <4>1
    <3> HIDE DEF good
    <3>3. QED BY <2>4, <3>1, <3>2
  <2>6. CASE R = {}
    <3>1. SumOf(g, R) = 0
      BY <2>6, FS_EmptySet, SumPick
    <3>2. QED BY <2>2, <2>6, <3>1
  <2>7. CASE R # {}
    <3>1. PICK y \in R : SumOf(g, R) = g[y] + SumOf(g, R \ {y})
      BY <2>3, <2>7, SumPick
    <3>2. g[y] \in Nat /\ SumOf(g, R \ {y}) \in Nat
      BY <2>5 DEF Counts
    <3>3. ASSUME NEW x \in R, x # y PROVE SumOf(g, R) = g[x] + SumOf(g, R \ {x})
      <4>1. (R \ {y}) \ {x} = (R \ {x}) \ {y} /\ x \in R \ {y} /\ y \in R \ {x}
        BY <3>3
      <4> DEFINE r == (R \ {x}) \ {y}
      <4>2. SumOf(g, R \ {y}) = g[x] + SumOf(g, r)
        BY <2>5, <4>1
      <4>3. SumOf(g, R \ {x}) = g[y] + SumOf(g, r)
        BY <2>5, <4>1
      <4>4. g[x] \in Nat /\ g[y] \in Nat
        BY DEF Counts
      <4>5. SumOf(g, r) \in Nat
        <5>1. /\ IsFiniteSet(R \ {x}) /\ Cardinality(R \ {x}) = m - 1
          BY <2>2, <2>3, FS_RemoveElement
        <5> DEFINE q == R \ {x}
        <5>2. IsFiniteSet(r) /\ Cardinality(r) = m - 1 - 1 /\ r \in SUBSET S
          <6>1. y \in q /\ r = q \ {y} /\ r \in SUBSET S
            BY <4>1
          <6>2. IsFiniteSet(q) /\ Cardinality(q) = m - 1
            BY <5>1
          <6> HIDE DEF q, r
          <6>3. QED BY <6>1, <6>2, FS_RemoveElement
        <5>3. Cardinality(r) \in Nat
          BY <5>2, FS_CardinalityType
        <5>4. Cardinality(r) < m
          BY <2>1, <5>2
        <5> HIDE DEF good, r
        <5>5. good(r)
          BY <2>4, <5>2, <5>3, <5>4
        <5>6. QED BY <5>5 DEF good
      <4> DEFINE s == SumOf(g, r)
      <4> HIDE DEF s
      <4>6. QED BY <3>1, <4>2, <4>3, <4>4, <4>5 DEF s
    <3>4. \A x \in R : SumOf(g, R) = g[x] + SumOf(g, R \ {x})
      BY <3>1, <3>3
    <3>5. SumOf(g, R) \in Nat
      BY <3>1, <3>2
    <3>6. QED BY <2>2, <3>4, <3>5
  <2>8. QED BY <2>6, <2>7
<1>2. good(S)
  <2>1. Cardinality(S) \in Nat
    BY FS_CardinalityType
  <2> HIDE DEF good
  <2>2. QED BY <1>1, <2>1
<1>3. QED BY <1>2

\* The same numbers have the same sum.
LEMMA SumSame ==
    ASSUME NEW S, IsFiniteSet(S), NEW g, NEW h, \A x \in S : g[x] = h[x]
    PROVE  SumOf(g, S) = SumOf(h, S)
<1>1. PICK f : Summing(f, S, g)
  BY SummingExists
<1>2. PICK e : Summing(e, S, h)
  BY SummingExists
<1>3. f[S] = e[S]
  BY <1>1, <1>2, SummingAgrees
<1>4. f[S] = SumOf(g, S)
  BY <1>1, SumIs
<1>5. e[S] = SumOf(h, S)
  BY <1>2, SumIs
<1>6. QED BY <1>3, <1>4, <1>5

\* A function summed over all it is defined on.
LEMMA SumOfAll == ASSUME NEW g PROVE SumFunction(g) = SumOf(g, DOMAIN g)
  BY Zenon DEF SumFunction, SumFunctionOnSet, FoldFunctionOnSet, MapThenFoldSet, SumOf,
               MapThenSumSet

\* Two sets without a common element add up.
LEMMA SumUnion ==
    ASSUME NEW S, IsFiniteSet(S), NEW T, IsFiniteSet(T), S \cap T = {},
           NEW g, Counts(g, S), Counts(g, T)
    PROVE  SumOf(g, S \cup T) = SumOf(g, S) + SumOf(g, T)
<1> DEFINE adds(R) == SumOf(g, S \cup R) = SumOf(g, S) + SumOf(g, R)
           bad == {n \in Nat : \E R \in SUBSET T : Cardinality(R) = n /\ ~adds(R)}
           m == Min(bad)
<1>1. ASSUME bad # {} PROVE FALSE
  <2>1. m \in bad /\ m \in Nat /\ \A o \in bad : m <= o
    <3>1. bad \subseteq Nat
      OBVIOUS
    <3> HIDE DEF bad
    <3>2. QED BY <1>1, <3>1, LeastIs
  <2> HIDE DEF m
  <2>2. PICK R \in SUBSET T : Cardinality(R) = m /\ ~adds(R)
    BY <2>1
  <2>3. IsFiniteSet(R) /\ Counts(g, R)
    BY FS_Subset DEF Counts
  <2>4. CASE R = {}
    <3>1. S \cup R = S
      BY <2>4
    <3>2. SumOf(g, {}) = 0 /\ SumOf(g, S) \in Nat
      BY SumPick, SumStep
    <3>3. QED BY <2>2, <2>4, <3>1, <3>2
  <2>5. CASE R # {}
    <3>1. PICK x \in R : TRUE
      BY <2>5
    <3> DEFINE Q == R \ {x}
               U == S \cup R
    <3>2. Q \in SUBSET T /\ IsFiniteSet(Q) /\ Cardinality(Q) = m - 1 /\ m - 1 \in Nat
      <4>1. IsFiniteSet(Q) /\ Cardinality(Q) = Cardinality(R) - 1
        BY <2>3, FS_RemoveElement
      <4>2. Cardinality(Q) \in Nat
        BY <4>1, FS_CardinalityType
      <4>3. m - 1 \in Nat /\ Cardinality(Q) = m - 1
        BY <2>2, <4>1, <4>2
      <4>4. QED BY <4>1, <4>3
    <3>3. adds(Q)
      <4>1. m - 1 \notin bad
        <5>1. ~(m <= m - 1)
          BY <2>1
        <5> HIDE DEF bad
        <5>2. QED BY <2>1, <5>1
      <4>2. QED BY <3>2, <4>1
    <3>4. IsFiniteSet(U) /\ Counts(g, U) /\ x \in U /\ U \ {x} = S \cup Q
      BY <2>3, FS_Union DEF Counts
    <3> HIDE DEF U
    <3>5. SumOf(g, U) = g[x] + SumOf(g, S \cup Q)
      BY <3>4, SumStep
    <3>6. SumOf(g, R) = g[x] + SumOf(g, Q) /\ g[x] \in Nat
      BY <2>3, SumStep DEF Counts
    <3>7. SumOf(g, S) \in Nat /\ SumOf(g, Q) \in Nat
      BY <3>2, <2>3, SumStep DEF Counts
    <3>8. SumOf(g, U) = SumOf(g, S) + SumOf(g, R)
      BY <3>3, <3>5, <3>6, <3>7
    <3>9. QED BY <2>2, <3>8 DEF U
  <2>6. QED BY <2>4, <2>5
<1>2. adds(T)
  <2>1. Cardinality(T) \in Nat /\ T \in SUBSET T
    BY FS_CardinalityType
  <2>2. QED BY <1>1, <2>1
<1>3. QED BY <1>2

\* One more number is added to the others.
LEMMA SumAppend ==
    ASSUME NEW n \in Nat, NEW f, NEW h, Counts(h, 1..n + 1), \A i \in 1..n : h[i] = f[i]
    PROVE  /\ SumOf(f, 1..n) \in Nat
           /\ SumOf(h, 1..n + 1) = SumOf(f, 1..n) + h[n + 1]
<1> DEFINE S == 1..n
           T == 1..n + 1
<1>1. IsFiniteSet(S) /\ IsFiniteSet(T)
  BY FS_Interval
<1>2. T \ {n + 1} = S /\ n + 1 \in T /\ Counts(h, T) /\ Counts(f, S) /\ \A i \in S : h[i] = f[i]
  BY DEF Counts
<1> HIDE DEF S, T
<1>3. SumOf(h, T) = h[n + 1] + SumOf(h, S)
  BY <1>1, <1>2, SumStep
<1>4. SumOf(h, S) = SumOf(f, S) /\ SumOf(f, S) \in Nat
  BY <1>1, <1>2, SumSame, SumStep
<1>5. h[n + 1] \in Nat
  BY <1>2 DEF Counts
<1>6. SumOf(h, T) = SumOf(f, S) + h[n + 1]
  BY <1>3, <1>4, <1>5
<1>7. QED BY <1>4, <1>6 DEF S, T

\* Ones add up to how many they are.
LEMMA SumOnes ==
    ASSUME NEW S, IsFiniteSet(S), NEW g, \A x \in S : g[x] = 1
    PROVE  SumOf(g, S) = Cardinality(S)
<1> DEFINE good(R) == SumOf(g, R) = Cardinality(R)
           bad == {n \in Nat : \E R \in SUBSET S : Cardinality(R) = n /\ ~good(R)}
           m == Min(bad)
<1>1. ASSUME bad # {} PROVE FALSE
  <2>1. m \in bad /\ m \in Nat /\ \A o \in bad : m <= o
    <3>1. bad \subseteq Nat
      OBVIOUS
    <3> HIDE DEF bad
    <3>2. QED BY <1>1, <3>1, LeastIs
  <2> HIDE DEF m
  <2>2. PICK R \in SUBSET S : Cardinality(R) = m /\ ~good(R)
    BY <2>1
  <2>3. IsFiniteSet(R) /\ Counts(g, R)
    BY FS_Subset DEF Counts
  <2>4. R # {}
    BY <2>2, SumPick, FS_EmptySet
  <2>5. PICK x \in R : TRUE
    BY <2>4
  <2> DEFINE Q == R \ {x}
  <2>6. Q \in SUBSET S /\ IsFiniteSet(Q) /\ Cardinality(Q) = m - 1 /\ m - 1 \in Nat
    <3>1. IsFiniteSet(Q) /\ Cardinality(Q) = Cardinality(R) - 1
      BY <2>3, FS_RemoveElement
    <3>2. Cardinality(Q) \in Nat
      BY <3>1, FS_CardinalityType
    <3>3. m - 1 \in Nat /\ Cardinality(Q) = m - 1
      BY <2>2, <3>1, <3>2
    <3>4. QED BY <3>1, <3>3
  <2>7. good(Q)
    <3>1. m - 1 \notin bad
      <4>1. ~(m <= m - 1)
        BY <2>1
      <4> HIDE DEF bad
      <4>2. QED BY <2>1, <4>1
    <3>2. QED BY <2>6, <3>1
  <2>8. SumOf(g, R) = 1 + SumOf(g, Q)
    BY <2>3, SumStep
  <2>9. QED BY <2>1, <2>2, <2>6, <2>7, <2>8
<1>2. good(S)
  <2>1. Cardinality(S) \in Nat /\ S \in SUBSET S
    BY FS_CardinalityType
  <2>2. QED BY <1>1, <2>1
<1>3. QED BY <1>2

\* Nothing but nothing adds up to nothing.
LEMMA SumZero ==
    ASSUME NEW S, IsFiniteSet(S), NEW g, Counts(g, S)
    PROVE  (SumOf(g, S) = 0) <=> (\A x \in S : g[x] = 0)
<1>1. ASSUME SumOf(g, S) = 0, NEW x \in S PROVE g[x] = 0
  <2>1. 0 = g[x] + SumOf(g, S \ {x}) /\ g[x] \in Nat
    BY <1>1, SumStep DEF Counts
  <2>2. IsFiniteSet(S \ {x}) /\ Counts(g, S \ {x})
    BY FS_RemoveElement DEF Counts
  <2>3. SumOf(g, S \ {x}) \in Nat
    BY <2>2, SumStep
  <2> DEFINE r == SumOf(g, S \ {x})
  <2> HIDE DEF r
  <2>4. QED BY <2>1, <2>3 DEF r
<1>2. ASSUME \A x \in S : g[x] = 0 PROVE SumOf(g, S) = 0
  <2> DEFINE z == [R \in SUBSET S |-> 0]
             pick(R) == CHOOSE x \in R : TRUE
  <2>1. \A R \in SUBSET S : R # {} => pick(R) \in S /\ R \ {pick(R)} \in SUBSET S
    OBVIOUS
  <2>2. z = [R \in SUBSET S |-> IF R = {} THEN 0 ELSE g[pick(R)] + z[R \ {pick(R)}]]
    <3> HIDE DEF pick
    <3>1. \A R \in SUBSET S : 0 = IF R = {} THEN 0 ELSE g[pick(R)] + z[R \ {pick(R)}]
      BY <1>2, <2>1
    <3> DEFINE w(R) == IF R = {} THEN 0 ELSE g[pick(R)] + z[R \ {pick(R)}]
    <3>2. \A R \in SUBSET S : 0 = w(R)
      BY <3>1
    <3> HIDE DEF w
    <3>3. z = [R \in SUBSET S |-> w(R)]
      BY <3>2
    <3>4. QED BY <3>3 DEF w
  <2>3. Summing(z, S, g)
    BY <2>2, Zenon DEF Summing, pick
  <2>4. z[S] = 0
    OBVIOUS
  <2> HIDE DEF z
  <2>5. QED BY <2>3, <2>4, SumIs
<1>3. QED BY <1>1, <1>2

-----------------------------------------------------------------------------
(* Counting subsets.                                                       *)

\* f has the factorials of the numbers up to n.
FactorialsTo(f, n) == \A i \in 0..n : f[i] = IF i = 0 THEN 1 ELSE i * f[i - 1]

LEMMA FactorialsExist == ASSUME NEW count \in Nat PROVE \E f : FactorialsTo(f, count)
<1> DEFINE bad == {n \in Nat : ~ \E f : FactorialsTo(f, n)}
           m == Min(bad)
<1> SUFFICES ASSUME bad # {} PROVE FALSE
  OBVIOUS
<1>1. m \in bad /\ m \in Nat /\ \A o \in bad : m <= o
  <2>1. bad \subseteq Nat
    OBVIOUS
  <2> HIDE DEF bad
  <2>2. QED BY <2>1, LeastIs
<1> HIDE DEF m
<1>2. m # 0
  <2> SUFFICES ASSUME m = 0 PROVE FALSE
    OBVIOUS
  <2> DEFINE f == [i \in {0} |-> 1]
  <2>1. FactorialsTo(f, 0)
    BY DEF FactorialsTo
  <2>2. QED BY <1>1, <2>1
<1> DEFINE k == m - 1
<1>3. k \in Nat /\ m = k + 1 /\ k \notin bad
  <2>1. k \in Nat /\ ~(m <= k) /\ m = k + 1
    BY <1>1, <1>2
  <2> HIDE DEF bad
  <2>2. QED BY <1>1, <2>1
<1> HIDE DEF k
<1>4. PICK f : FactorialsTo(f, k)
  BY <1>3
<1> DEFINE h == [i \in Nat |-> IF i <= k THEN f[i] ELSE m * f[k]]
<1>5. ASSUME NEW i \in 0..m PROVE h[i] = IF i = 0 THEN 1 ELSE i * h[i - 1]
  <2>1. CASE i = m
    <3>1. h[m] = m * f[k] /\ h[k] = f[k] /\ m - 1 = k /\ m # 0
      BY <1>3
    <3>2. QED BY <2>1, <3>1
  <2>2. CASE i # m
    <3>1. i \in 0..k /\ h[i] = f[i] /\ (i # 0 => i - 1 \in 0..k /\ h[i - 1] = f[i - 1])
      BY <1>3, <2>2
    <3>2. f[i] = IF i = 0 THEN 1 ELSE i * f[i - 1]
      BY <1>4, <3>1 DEF FactorialsTo
    <3>3. QED BY <3>1, <3>2
  <2>3. QED BY <2>1, <2>2
<1> HIDE DEF h
<1>6. FactorialsTo(h, m)
  BY <1>5 DEF FactorialsTo
<1>7. QED BY <1>1, <1>6

LEMMA FactorialsAgree ==
    ASSUME NEW n \in Nat, NEW l \in Nat, NEW f, NEW g, FactorialsTo(f, n), FactorialsTo(g, l),
           NEW i \in Nat, i <= n, i <= l
    PROVE  f[i] = g[i]
<1> DEFINE bad == {j \in Nat : j <= n /\ j <= l /\ f[j] # g[j]}
           m == Min(bad)
<1>1. ASSUME bad # {} PROVE FALSE
  <2>1. m \in bad /\ m \in Nat /\ \A o \in bad : m <= o
    <3>1. bad \subseteq Nat
      OBVIOUS
    <3> HIDE DEF bad
    <3>2. QED BY <1>1, <3>1, LeastIs
  <2> HIDE DEF m
  <2>2. m <= n /\ m <= l /\ f[m] # g[m] /\ m \in 0..n /\ m \in 0..l
    BY <2>1
  <2>3. /\ f[m] = IF m = 0 THEN 1 ELSE m * f[m - 1]
        /\ g[m] = IF m = 0 THEN 1 ELSE m * g[m - 1]
    BY <2>2 DEF FactorialsTo
  <2>4. m # 0 /\ f[m - 1] # g[m - 1]
    BY <2>2, <2>3
  <2>5. m - 1 \in bad /\ ~(m <= m - 1)
    BY <2>1, <2>2, <2>4
  <2> HIDE DEF bad
  <2>6. QED BY <2>1, <2>5
<1>2. i \notin bad
  BY <1>1
<1>3. QED BY <1>2

\* The factorials.
LEMMA FactorialIs ==
    /\ factorial[0] = 1
    /\ \A n \in Nat : factorial[n] \in Nat \ {0} /\ factorial[n + 1] = (n + 1) * factorial[n]
<1> DEFINE some(n) == CHOOSE f : FactorialsTo(f, n)
           F == [n \in Nat |-> some(n)[n]]
           this(f, n) == IF n = 0 THEN 1 ELSE n * f[n - 1]
           is(f) == f = [n \in Nat |-> this(f, n)]
<1>1. \A n \in Nat : FactorialsTo(some(n), n)
  BY FactorialsExist, Zenon
<1> HIDE DEF some
<1>2. ASSUME NEW n \in Nat PROVE F[n] = this(F, n)
  <2>1. n \in 0..n
    OBVIOUS
  <2>2. some(n)[n] = IF n = 0 THEN 1 ELSE n * some(n)[n - 1]
    BY <1>1, <2>1 DEF FactorialsTo
  <2>3. ASSUME n # 0 PROVE some(n)[n - 1] = some(n - 1)[n - 1]
    <3>1. n - 1 \in Nat /\ n - 1 <= n /\ n - 1 <= n - 1
      BY <2>3
    <3>2. QED BY <1>1, <3>1, FactorialsAgree
  <2>4. n # 0 => n - 1 \in Nat
    OBVIOUS
  <2>5. QED BY <2>2, <2>3, <2>4
<1>3. is(F)
  <2> HIDE DEF this
  <2>1. F = [n \in Nat |-> F[n]]
    OBVIOUS
  <2> HIDE DEF F
  <2>2. QED BY <1>2, <2>1
<1>4. factorial = CHOOSE f : is(f)
  BY Zenon DEF factorial
<1> HIDE DEF is
<1>5. is(factorial)
  BY <1>3, <1>4, Zenon
<1>6. \A n \in Nat : factorial[n] = this(factorial, n)
  <2> HIDE DEF this
  <2>1. factorial = [n \in Nat |-> this(factorial, n)]
    BY <1>5, Zenon DEF is
  <2>2. QED BY <2>1
<1> DEFINE g == factorial
<1>7. \A n \in Nat : g[n] = IF n = 0 THEN 1 ELSE n * g[n - 1]
  BY <1>6
<1> HIDE DEF g
<1>8. g[0] = 1 /\ \A n \in Nat : g[n + 1] = (n + 1) * g[n]
  <2>1. \A n \in Nat : n + 1 \in Nat /\ n + 1 # 0 /\ n + 1 - 1 = n
    OBVIOUS
  <2>2. QED BY <1>7, <2>1
<1> DEFINE bad == {n \in Nat : g[n] \notin Nat \ {0}}
           m == Min(bad)
<1>9. ASSUME bad # {} PROVE FALSE
  <2>1. m \in bad /\ m \in Nat /\ \A o \in bad : m <= o
    <3>1. bad \subseteq Nat
      OBVIOUS
    <3> HIDE DEF bad
    <3>2. QED BY <1>9, <3>1, LeastIs
  <2> HIDE DEF m
  <2>2. m # 0
    BY <1>8, <2>1
  <2> DEFINE j == m - 1
  <2>3. j \in Nat /\ m = j + 1 /\ ~(m <= j)
    BY <2>1, <2>2
  <2> HIDE DEF j
  <2>4. j \notin bad
    <3> HIDE DEF bad
    <3>1. QED BY <2>1, <2>3
  <2>5. g[j] \in Nat \ {0}
    BY <2>3, <2>4
  <2> DEFINE x == g[j]
             y == j + 1
  <2>6. x \in Nat /\ x > 0 /\ y \in Nat /\ y > 0 /\ g[m] = y * x
    BY <1>8, <2>3, <2>5
  <2> HIDE DEF x, y
  <2>7. y * x \in Nat /\ y * x > 0
    BY <2>6
  <2>8. QED BY <2>1, <2>6, <2>7
<1>10. \A n \in Nat : g[n] \in Nat \ {0}
  BY <1>9
<1>11. QED BY <1>8, <1>10 DEF g

\* The subsets of h elements.
Parts(S, h) == {s \in SUBSET S : Cardinality(s) = h}

\* There are finitely many; one is empty, and none is larger than the set.
LEMMA PartsAre ==
    ASSUME NEW S, IsFiniteSet(S), NEW h \in Nat
    PROVE  /\ IsFiniteSet(Parts(S, h)) /\ Cardinality(Parts(S, h)) \in Nat
           /\ Cardinality(Parts(S, 0)) = 1
           /\ h > Cardinality(S) => Cardinality(Parts(S, h)) = 0
<1>1. IsFiniteSet(Parts(S, h))
  <2>1. Parts(S, h) \in SUBSET (SUBSET S)
    BY DEF Parts
  <2>2. IsFiniteSet(SUBSET S)
    BY FS_SUBSET
  <2>3. QED BY <2>1, <2>2, FS_Subset
<1>2. Parts(S, 0) = {{}}
  <2>1. ASSUME NEW s \in SUBSET S PROVE Cardinality(s) = 0 <=> s = {}
    <3>1. IsFiniteSet(s)
      BY FS_Subset
    <3>2. QED BY <3>1, FS_EmptySet
  <2>2. QED BY <2>1 DEF Parts
<1>3. ASSUME h > Cardinality(S) PROVE Parts(S, h) = {}
  <2>1. ASSUME NEW s \in SUBSET S PROVE Cardinality(s) # h
    <3>1. IsFiniteSet(s) /\ Cardinality(s) <= Cardinality(S)
      BY FS_Subset
    <3>2. Cardinality(s) \in Nat /\ Cardinality(S) \in Nat
      BY <3>1, FS_CardinalityType
    <3>3. QED BY <1>3, <3>1, <3>2
  <2>2. QED BY <2>1 DEF Parts
<1>4. QED BY <1>1, <1>2, <1>3, FS_CardinalityType, FS_EmptySet, FS_Singleton

\* With one element more, a subset either lacks it or is a smaller one with it.
LEMMA PartsStep ==
    ASSUME NEW S, IsFiniteSet(S), NEW x, x \notin S, NEW h \in Nat
    PROVE  Cardinality(Parts(S \cup {x}, h + 1)) =
               Cardinality(Parts(S, h + 1)) + Cardinality(Parts(S, h))
<1> DEFINE f == [s \in Parts(S, h) |-> s \cup {x}]
           W == {f[s] : s \in Parts(S, h)}
           P == Parts(S, h)
           Q == Parts(S, h + 1)
           R == Parts(S \cup {x}, h + 1)
<1>1. \A s \in SUBSET S : IsFiniteSet(s) /\ Cardinality(s) \in Nat /\ x \notin s
                          /\ Cardinality(s \cup {x}) = Cardinality(s) + 1
  <2> SUFFICES ASSUME NEW s \in SUBSET S
               PROVE  IsFiniteSet(s) /\ Cardinality(s) \in Nat /\ x \notin s
                      /\ Cardinality(s \cup {x}) = Cardinality(s) + 1
    OBVIOUS
  <2>1. IsFiniteSet(s) /\ x \notin s
    BY FS_Subset
  <2>2. QED BY <2>1, FS_AddElement, FS_CardinalityType
<1>2. Q \subseteq R
  BY DEF Parts
<1>3. W \subseteq R
  <2>1. \A s \in P : s \cup {x} \in SUBSET (S \cup {x}) /\ Cardinality(s \cup {x}) = h + 1
    BY <1>1 DEF Parts
  <2>2. QED BY <2>1 DEF Parts
<1>4. R \subseteq Q \cup W
  <2> SUFFICES ASSUME NEW r \in R PROVE r \in Q \/ r \in W
    OBVIOUS
  <2>1. r \subseteq S \cup {x} /\ Cardinality(r) = h + 1
    BY DEF Parts
  <2>2. CASE x \notin r
    BY <2>1, <2>2 DEF Parts
  <2>3. CASE x \in r
    <3>1. r \ {x} \in SUBSET S /\ r = (r \ {x}) \cup {x}
      BY <2>1, <2>3
    <3>2. Cardinality(r \ {x}) + 1 = h + 1 /\ Cardinality(r \ {x}) \in Nat
      BY <1>1, <2>1, <3>1
    <3>3. r \ {x} \in P
      BY <3>1, <3>2 DEF Parts
    <3>4. f[r \ {x}] = r
      BY <3>1, <3>3
    <3>5. QED BY <3>3, <3>4
  <2>4. QED BY <2>2, <2>3
<1>5. Q \cap W = {}
  <2>1. \A s \in P : x \in f[s]
    OBVIOUS
  <2>2. \A s \in Q : x \notin s
    BY DEF Parts
  <2>3. QED BY <2>1, <2>2
<1>6. IsFiniteSet(P) /\ IsFiniteSet(Q)
  BY PartsAre
<1>7. IsFiniteSet(W) /\ Cardinality(W) = Cardinality(P)
  <2>1. \A s, t \in P : f[s] = f[t] => s = t
    <3>1. \A s \in P : s \in SUBSET S
      BY DEF Parts
    <3>2. \A s \in P : s = f[s] \ {x}
      BY <1>1, <3>1
    <3>3. QED BY <3>2
  <2>2. f \in [P -> W] /\ \A w \in W : \E s \in P : f[s] = w
    OBVIOUS
  <2> HIDE DEF f, P, W
  <2>3. f \in Bijection(P, W)
    BY <2>1, <2>2 DEF Bijection, Injection, Surjection, IsInjective
  <2>4. ExistsBijection(P, W)
    BY <2>3 DEF ExistsBijection
  <2>5. QED BY <1>6, <2>4, FS_Bijection
<1>8. R = Q \cup W
  BY <1>2, <1>3, <1>4
<1> HIDE DEF P, Q, R, W
<1>9. /\ Cardinality(R) = Cardinality(Q) + Cardinality(W) - Cardinality(Q \cap W)
      /\ Cardinality(Q \cap W) = 0
  BY <1>5, <1>6, <1>7, <1>8, FS_Union, FS_EmptySet
<1>10. Cardinality(Q) \in Nat /\ Cardinality(P) \in Nat
  BY <1>6, FS_CardinalityType
<1>11. QED BY <1>7, <1>9, <1>10 DEF P, Q, R

\* The factors of a count come out of the sum.
LEMMA Factors ==
    ASSUME NEW a \in Nat, NEW b \in Nat, NEW A \in Nat, NEW B \in Nat, NEW C \in Nat,
           NEW D \in Nat, NEW u \in Nat, NEW v \in Nat, NEW f \in Nat,
           C = u * A, B = v * D, b * (A * B) = f, a * (C * D) = f
    PROVE  (a + b) * (C * B) = (u + v) * f
<1>1. a * (C * B) = v * f
  <2>1. C * B = v * (C * D)
    OBVIOUS
  <2> DEFINE e == C * D
  <2>2. e \in Nat /\ a * e = f /\ C * B = v * e
    BY <2>1
  <2> HIDE DEF e
  <2>3. a * (v * e) = v * (a * e)
    BY <2>2
  <2>4. QED BY <2>2, <2>3
<1>2. b * (C * B) = u * f
  <2>1. C * B = u * (A * B)
    OBVIOUS
  <2> DEFINE e == A * B
  <2>2. e \in Nat /\ b * e = f /\ C * B = u * e
    BY <2>1
  <2> HIDE DEF e
  <2>3. b * (u * e) = u * (b * e)
    BY <2>2
  <2>4. QED BY <2>2, <2>3
<1> DEFINE p == C * B
<1>3. p \in Nat /\ a * p = v * f /\ b * p = u * f
  BY <1>1, <1>2
<1> HIDE DEF p
<1>4. (a + b) * p = a * p + b * p /\ (u + v) * f = u * f + v * f
  BY <1>3
<1> DEFINE x == a * p
           y == b * p
<1>5. x \in Nat /\ y \in Nat
  BY <1>3
<1>6. (a + b) * p = (u + v) * f
  BY <1>3, <1>4, <1>5
<1>7. QED BY <1>6 DEF p

\* How often a subset of h out of n elements is counted among their orders.
Orders(n, h) == factorial[h] * factorial[n - h]

\* The subsets of h elements, by the factorials.
LEMMA PartsCount ==
    ASSUME NEW S, IsFiniteSet(S), NEW h \in 0..Cardinality(S)
    PROVE  Cardinality(Parts(S, h)) * Orders(Cardinality(S), h) = factorial[Cardinality(S)]
<1> DEFINE good(R) == \A i \in 0..Cardinality(R) :
                         Cardinality(Parts(R, i)) * Orders(Cardinality(R), i)
                             = factorial[Cardinality(R)]
           bad == {n \in Nat : \E R \in SUBSET S : Cardinality(R) = n /\ ~good(R)}
           m == Min(bad)
<1>1. ASSUME bad # {} PROVE FALSE
  <2>1. m \in bad /\ m \in Nat /\ \A o \in bad : m <= o
    <3>1. bad \subseteq Nat
      OBVIOUS
    <3> HIDE DEF bad
    <3>2. QED BY <1>1, <3>1, LeastIs
  <2> HIDE DEF m
  <2>2. PICK R \in SUBSET S : Cardinality(R) = m /\ ~good(R)
    BY <2>1
  <2>3. IsFiniteSet(R)
    BY FS_Subset
  <2>4. PICK i \in 0..m : Cardinality(Parts(R, i)) * Orders(m, i) # factorial[m]
    BY <2>2
  <2>5. CASE i = 0
    <3>1. Cardinality(Parts(R, 0)) = 1 /\ m - 0 = m
      BY <2>1, <2>3, PartsAre
    <3>2. factorial[0] = 1 /\ factorial[m] \in Nat
      BY <2>1, FactorialIs
    <3> DEFINE f == factorial[m]
    <3>3. Orders(m, 0) = 1 * f
      BY <3>1, <3>2 DEF Orders
    <3>4. f \in Nat /\ 1 * (1 * f) = f
      BY <3>2
    <3>5. QED BY <2>4, <2>5, <3>1, <3>3, <3>4
  <2>6. CASE i # 0
    <3> DEFINE j == i - 1
               q == m - 1
    <3>1. j \in Nat /\ q \in Nat /\ i = j + 1 /\ m = q + 1 /\ j <= q /\ j \in 0..q /\ ~(m <= q)
          /\ R # {}
      <4>1. R # {}
        BY <2>1, <2>2, <2>4, <2>6, FS_EmptySet
      <4>2. QED BY <2>1, <2>4, <2>6, <4>1
    <3> HIDE DEF j, q
    <3>2. PICK x : x \in R
      BY <3>1
    <3> DEFINE Q == R \ {x}
    <3>3. /\ Q \in SUBSET S /\ R = Q \cup {x} /\ x \notin Q /\ IsFiniteSet(Q)
          /\ Cardinality(Q) = q
      <4>1. IsFiniteSet(Q) /\ Cardinality(Q) = Cardinality(R) - 1
        BY <2>3, <3>2, FS_RemoveElement
      <4>2. Cardinality(R) = m /\ m - 1 = q
        BY <2>2, <3>1 DEF q
      <4>3. QED BY <3>2, <4>1, <4>2
    <3>4. good(Q)
      <4>1. q \notin bad
        <5> HIDE DEF bad
        <5>1. QED BY <2>1, <3>1
      <4> HIDE DEF good
      <4>2. QED BY <3>1, <3>3, <4>1
    <3> HIDE DEF Q
    <3> DEFINE a == Cardinality(Parts(Q, j + 1))
               b == Cardinality(Parts(Q, j))
               A == factorial[j]
               B == factorial[q - j]
               C == factorial[j + 1]
               f == factorial[q]
    <3>5. Cardinality(Parts(R, i)) = a + b /\ a \in Nat /\ b \in Nat
      <4>1. Cardinality(Parts(Q \cup {x}, j + 1)) = a + b
        BY <3>1, <3>3, PartsStep
      <4>2. a \in Nat /\ b \in Nat
        <5>1. j \in Nat /\ j + 1 \in Nat /\ IsFiniteSet(Q)
          BY <3>1, <3>3
        <5>2. \A n \in Nat : Cardinality(Parts(Q, n)) \in Nat
          BY <5>1, PartsAre
        <5>3. QED BY <5>1, <5>2
      <4>3. QED BY <3>1, <3>3, <4>1, <4>2
    <3>6. A \in Nat /\ B \in Nat /\ C \in Nat /\ f \in Nat /\ C = (j + 1) * A
      <4>1. q - j \in Nat /\ j + 1 \in Nat
        BY <3>1
      <4>2. QED BY <3>1, <4>1, FactorialIs
    <3>7. b * (A * B) = f
      BY <3>1, <3>3, <3>4 DEF Orders
    <3>8. factorial[m] = (q + 1) * f
      BY <3>1, FactorialIs
    <3>9. Orders(m, i) = C * B
      <4>1. m - i = q - j
        BY <3>1
      <4>2. QED BY <3>1, <4>1 DEF Orders
    <3>10. CASE j = q
      <4>1. a = 0 /\ j + 1 = q + 1
        BY <3>1, <3>3, <3>10, PartsAre
      <4>2. (q + 1) * f = b * ((j + 1) * (A * B))
        <5> DEFINE e == A * B
                   u == j + 1
        <5>1. e \in Nat /\ u \in Nat /\ b * e = f /\ u = q + 1
          BY <3>1, <3>6, <3>7, <4>1
        <5>2. b \in Nat
          BY <3>5
        <5> HIDE DEF e, b, u
        <5>3. u * (b * e) = b * (u * e)
          BY <5>1, <5>2
        <5>4. QED BY <5>1, <5>3 DEF e, u
      <4>3. (j + 1) * (A * B) = C * B
        <5> DEFINE u == j + 1
        <5>1. u \in Nat /\ C = u * A
          BY <3>1, <3>6
        <5> HIDE DEF u, A, B, C
        <5>2. u * (A * B) = (u * A) * B
          BY <3>6, <5>1
        <5>3. QED BY <5>1, <5>2 DEF u
      <4>4. a + b = b
        BY <3>5, <4>1
      <4>5. QED BY <2>4, <3>5, <3>8, <3>9, <4>2, <4>3, <4>4
    <3>11. CASE j # q
      <4> DEFINE D == factorial[q - j - 1]
                 u == j + 1
                 v == q - j
      <4>1. v \in Nat /\ u \in Nat /\ v # 0 /\ v - 1 \in Nat /\ j + 1 \in 0..q
            /\ u + v = q + 1 /\ v = (v - 1) + 1 /\ q - (j + 1) = q - j - 1
        BY <3>1, <3>11
      <4>2. D \in Nat /\ B = v * D
        <5> DEFINE w == v - 1
        <5>1. w \in Nat /\ v = w + 1
          BY <4>1
        <5>2. factorial[w + 1] = (w + 1) * factorial[w] /\ factorial[w] \in Nat
          BY <5>1, FactorialIs
        <5>3. QED BY <5>1, <5>2
      <4>3. a * (C * D) = f
        BY <3>3, <3>4, <4>1 DEF Orders
      <4>4. C = u * A /\ b * (A * B) = f
        BY <3>6, <3>7
      <4> HIDE DEF a, b, A, B, C, D, f, u, v
      <4>5. (a + b) * (C * B) = (u + v) * f
        BY <3>5, <3>6, <4>1, <4>2, <4>3, <4>4, Factors
      <4>6. QED BY <2>4, <3>5, <3>8, <3>9, <4>1, <4>5
    <3>12. QED BY <3>10, <3>11
  <2>7. QED BY <2>5, <2>6
<1>2. good(S)
  <2>1. Cardinality(S) \in Nat
    BY FS_CardinalityType
  <2> HIDE DEF good
  <2>2. QED BY <1>1, <2>1
<1>3. QED BY <1>2

\* A quotient without a remainder.
LEMMA Quotient ==
    ASSUME NEW c \in Nat, NEW d \in Nat \ {0} PROVE (c * d) \div d = c
<1> DEFINE p == c * d
           q == p \div d
           r == p % d
<1>1. p \in Nat
  OBVIOUS
<1> HIDE DEF p
<1>2. q \in Nat /\ r \in 0..(d - 1) /\ p = d * q + r
  BY <1>1
<1> HIDE DEF q, r
<1>3. d * c = d * q + r
  BY <1>2 DEF p
<1>4. q = c
  <2>1. CASE q < c
    <3>1. c - q \in Nat /\ c - q >= 1 /\ d * (c - q) = d * c - d * q
      BY <1>2, <2>1
    <3> DEFINE e == c - q
    <3>2. e \in Nat /\ e >= 1 /\ d * e = r
      <4>1. d * c \in Nat /\ d * q \in Nat
        BY <1>2
      <4>2. QED BY <1>2, <1>3, <3>1, <4>1
    <3> HIDE DEF e
    <3>3. d * e >= d
      BY <3>2
    <3>4. QED BY <1>2, <3>2, <3>3
  <2>2. CASE q > c
    <3>1. q - c \in Nat /\ q - c >= 1 /\ d * (q - c) = d * q - d * c
      BY <1>2, <2>2
    <3> DEFINE e == q - c
    <3>2. e \in Nat /\ e >= 1 /\ d * e = -r
      <4>1. d * c \in Nat /\ d * q \in Nat
        BY <1>2
      <4>2. QED BY <1>2, <1>3, <3>1, <4>1
    <3> HIDE DEF e
    <3>3. d * e >= d
      BY <3>2
    <3>4. QED BY <1>2, <3>2, <3>3
  <2>3. QED BY <1>2, <2>1, <2>2
<1>5. QED BY <1>4 DEF q, p

\* The binomial coefficient counts the subsets.
LEMMA ChooseCounts ==
    ASSUME NEW S, IsFiniteSet(S), NEW h \in 0..Cardinality(S)
    PROVE  choose(Cardinality(S), h) = Cardinality(Parts(S, h))
<1> DEFINE n == Cardinality(S)
           c == Cardinality(Parts(S, h))
           d == Orders(n, h)
<1>1. n \in Nat
  BY FS_CardinalityType
<1>2. h \in Nat /\ n - h \in Nat
  BY <1>1
<1>3. c \in Nat
  BY <1>2, PartsAre
<1>4. d \in Nat \ {0}
  <2> DEFINE x == factorial[h]
             y == factorial[n - h]
  <2>1. x \in Nat /\ y \in Nat /\ x > 0 /\ y > 0
    BY <1>2, FactorialIs
  <2>2. d = x * y
    BY DEF Orders
  <2> HIDE DEF x, y, d
  <2>3. x * y \in Nat /\ x * y > 0
    BY <2>1
  <2>4. QED BY <2>2, <2>3
<1>5. c * d = factorial[n]
  BY PartsCount
<1>6. choose(n, h) = factorial[n] \div d
  BY DEF choose, Orders
<1> HIDE DEF n, c, d
<1>7. (c * d) \div d = c
  BY <1>3, <1>4, Quotient
<1>8. QED BY <1>5, <1>6, <1>7 DEF n, c
=============================================================================
