--------------------------- MODULE AlignmentProofs --------------------------
(***************************************************************************)
(* Theorems about sftdpo's corpus, for every number of slices, every size  *)
(* of the splits and any notes; about its verifiers, for every record and  *)
(* completion; about its alignment tax, for every set of probes; about     *)
(* preference mining, for every prompt, number of samples and batch size;  *)
(* and about its promotion gate, for all corpora, models and thresholds.   *)
(***************************************************************************)
EXTENDS Corpus, Scoring, Tax, Preferences, ListLemmas

-----------------------------------------------------------------------------
(* The cells of a split.                                                   *)

\* The smaller of two numbers.
Lesser(a, b) == IF a <= b THEN a ELSE b

\* How many cells the first b buckets have together.
Upto(total, b) == b * (total \div Len(Slices)) + Lesser(b, (total % Len(Slices)))

\* A bucket begins where the one before it ends, and together they have all.
LEMMA Shares ==
    ASSUME NEW total \in Nat
    PROVE  /\ Len(Slices) \in Nat \ {0} /\ DOMAIN Slices = 1..Len(Slices)
           /\ \A b \in 0..Len(Slices) : Upto(total, b) \in Nat
           /\ Upto(total, 0) = 0 /\ Upto(total, Len(Slices)) = total
           /\ \A b \in 1..Len(Slices) :
                 /\ Allocate(total, b) \in Nat
                 /\ Upto(total, b) = Upto(total, b - 1) + Allocate(total, b)
           /\ \A a, b \in 0..Len(Slices) : a <= b => Upto(total, a) <= Upto(total, b)
           /\ \A a, b \in 1..Len(Slices) : Allocate(total, a) <= Allocate(total, b) + 1
<1>1. Len(Slices) \in Nat \ {0} /\ DOMAIN Slices = 1..Len(Slices)
  BY CorpusAssumption
<1> DEFINE n == Len(Slices)
<1> HIDE DEF n
<1>2. n \in Nat \ {0}
  BY <1>1 DEF n
<1> DEFINE q == total \div n
           r == total % n
<1>3. q \in Nat /\ r \in 0..(n - 1) /\ total = n * q + r
  BY <1>2
<1> HIDE DEF q, r
<1>4. \A b \in Nat : Upto(total, b) = b * q + Lesser(b, r)
  BY DEF Upto, q, r, n
<1>5. \A b \in Nat : Allocate(total, b) = q + IF b <= r THEN 1 ELSE 0
  BY DEF Allocate, q, r, n
<1>6. ASSUME NEW b \in 0..n PROVE Upto(total, b) \in Nat
  <2>1. b * q \in Nat /\ b \in Nat
    BY <1>2, <1>3
  <2> DEFINE p == b * q
  <2> HIDE DEF p
  <2>2. QED BY <1>3, <1>4, <2>1 DEF Lesser, p
<1>7. Upto(total, 0) = 0
  BY <1>3, <1>4 DEF Lesser
<1>8. Upto(total, n) = total
  BY <1>2, <1>3, <1>4 DEF Lesser
<1>9. ASSUME NEW b \in 1..n
      PROVE  /\ Allocate(total, b) \in Nat
             /\ Upto(total, b) = Upto(total, b - 1) + Allocate(total, b)
  <2>1. b \in Nat /\ b - 1 \in Nat
    BY <1>2
  <2>2. (b - 1) * q = b * q - q
    BY <1>3, <2>1
  <2> DEFINE p == b * q
  <2>3. p \in Nat
    BY <1>3, <2>1
  <2>4. Upto(total, b) = p + Lesser(b, r) /\ Upto(total, b - 1) = p - q + Lesser(b - 1, r)
    BY <1>4, <2>1, <2>2
  <2> HIDE DEF p
  <2>5. QED BY <1>3, <1>5, <2>1, <2>3, <2>4 DEF Lesser
<1>10. \A a, b \in 1..n : Allocate(total, a) <= Allocate(total, b) + 1
  <2>1. \A a \in 1..n : a \in Nat
    BY <1>2
  <2>2. QED BY <1>3, <1>5, <2>1
<1>11. ASSUME NEW a \in 0..n, NEW b \in 0..n, a <= b
       PROVE  Upto(total, a) <= Upto(total, b)
  <2>1. a \in Nat /\ b \in Nat /\ b - a \in Nat
    BY <1>2, <1>11
  <2>2. a * q \in Nat /\ b * q \in Nat /\ (b - a) * q \in Nat /\ b * q = a * q + (b - a) * q
    BY <1>3, <2>1
  <2> DEFINE x == a * q
             y == b * q
             z == (b - a) * q
  <2>3. Upto(total, a) = x + Lesser(a, r) /\ Upto(total, b) = y + Lesser(b, r)
    BY <1>4, <2>1
  <2>4. x \in Nat /\ y \in Nat /\ z \in Nat /\ y = x + z
    BY <2>2
  <2> HIDE DEF x, y, z
  <2>5. QED BY <1>3, <1>11, <2>1, <2>3, <2>4 DEF Lesser
<1>12. QED BY <1>1, <1>6, <1>7, <1>8, <1>9, <1>10, <1>11 DEF n

\* A cell of a split.
CellOf == [slice : ToSet(Slices), index : Nat]

\* The cells of bucket b.
Bucket(total, b) == [i \in 1..Allocate(total, b) |-> [slice |-> Slices[b], index |-> i]]

\* The list of the first b buckets: each bucket's slice is at its own places.
Laid(list, total, b) ==
    /\ list \in Seq(CellOf) /\ Len(list) = Upto(total, b)
    /\ \A p \in 1..Len(list) : \E c \in 1..b : list[p].slice = Slices[c]
    /\ \A c \in 1..b : \A p \in 1..Len(list) :
          (list[p].slice = Slices[c]) <=> (p \in (Upto(total, c - 1) + 1)..Upto(total, c))

\* A bucket has its share of cells, all of its slice.
LEMMA BucketIs ==
    ASSUME NEW total \in Nat, NEW b \in 1..Len(Slices)
    PROVE  /\ Bucket(total, b) \in Seq(CellOf) /\ Len(Bucket(total, b)) = Allocate(total, b)
           /\ \A i \in 1..Allocate(total, b) : Bucket(total, b)[i].slice = Slices[b]
<1> DEFINE a == Allocate(total, b)
<1>1. a \in Nat
  BY Shares
<1> HIDE DEF a
<1>2. Slices[b] \in ToSet(Slices)
  BY Shares DEF ToSet
<1>3. [i \in 1..a |-> [slice |-> Slices[b], index |-> i]] \in [1..a -> CellOf]
  <2>1. \A i \in 1..a : i \in Nat
    BY <1>1
  <2>2. QED BY <1>2, <2>1 DEF CellOf
<1>4. Bucket(total, b) \in [1..a -> CellOf]
  BY <1>3 DEF Bucket, a
<1>5. \A i \in 1..a : Bucket(total, b)[i].slice = Slices[b]
  BY DEF Bucket, a
<1>6. QED BY <1>1, <1>4, <1>5 DEF a

\* One bucket more.
LEMMA JoinFills ==
    ASSUME NEW total \in Nat, NEW b \in 1..Len(Slices), NEW list, Laid(list, total, b - 1)
    PROVE  Laid(list \o Bucket(total, b), total, b)
<1> DEFINE n == Len(Slices)
           up == [c \in 0..n |-> Upto(total, c)]
           a == Allocate(total, b)
           more == Bucket(total, b)
           both == list \o more
<1>1. n \in Nat \ {0} /\ \A c \in 1..n : c \in Nat /\ c - 1 \in 0..n /\ c \in 0..n
  BY Shares
<1>2. /\ \A c \in 0..n : up[c] \in Nat
      /\ up[b] = up[b - 1] + a /\ a \in Nat
      /\ \A c, d \in 0..n : c <= d => up[c] <= up[d]
  BY <1>1, Shares
<1>3. \A c, d \in 1..n : Slices[c] = Slices[d] => c = d
  BY Shares, CorpusAssumption DEF IsInjective
<1>4. more \in Seq(CellOf) /\ Len(more) = a /\ \A i \in 1..a : more[i].slice = Slices[b]
  BY BucketIs
<1>5. \A c \in 1..n : Upto(total, c) = up[c] /\ Upto(total, c - 1) = up[c - 1]
  BY <1>1
<1>6. /\ list \in Seq(CellOf) /\ Len(list) = up[b - 1]
      /\ \A p \in 1..Len(list) : \E c \in 1..(b - 1) : list[p].slice = Slices[c]
      /\ \A c \in 1..(b - 1) : \A p \in 1..Len(list) :
            (list[p].slice = Slices[c]) <=> (p \in (up[c - 1] + 1)..up[c])
  <2>1. \A c \in 1..(b - 1) : c \in 1..n
    BY <1>1
  <2>2. QED BY <1>5, <2>1 DEF Laid
<1> HIDE DEF up, a, more
<1>7. /\ both \in Seq(CellOf) /\ Len(both) = up[b]
      /\ \A p \in 1..up[b - 1] : both[p] = list[p]
      /\ \A p \in (up[b - 1] + 1)..up[b] : both[p] = more[p - up[b - 1]] /\ p - up[b - 1] \in 1..a
  <2> DEFINE l == Len(list)
  <2>1. l \in Nat /\ l = up[b - 1] /\ up[b] = l + a /\ a \in Nat /\ Len(more) = a
    BY <1>2, <1>4, <1>6
  <2>2. /\ both \in Seq(CellOf) /\ Len(both) = Len(list) + Len(more)
        /\ \A p \in 1..(Len(list) + Len(more)) :
              both[p] = IF p <= Len(list) THEN list[p] ELSE more[p - Len(list)]
    <3>1. list \in Seq(CellOf) /\ more \in Seq(CellOf)
      BY <1>4, <1>6
    <3>2. QED BY <3>1, ConcatProperties
  <2>3. /\ \A p \in 1..l : p \in 1..(l + a) /\ p <= l
        /\ \A p \in (l + 1)..(l + a) : p \in 1..(l + a) /\ ~(p <= l) /\ p - l \in 1..a
    <3> HIDE DEF l
    <3>1. QED BY <2>1
  <2> HIDE DEF both
  <2>4. QED BY <2>1, <2>2, <2>3
<1> HIDE DEF both, n
<1>8. /\ \A p \in 1..up[b - 1] : both[p] = list[p]
      /\ \A p \in (up[b - 1] + 1)..up[b] : both[p].slice = Slices[b]
      /\ \A p \in 1..up[b] : p \in 1..up[b - 1] \/ p \in (up[b - 1] + 1)..up[b]
  BY <1>1, <1>2, <1>4, <1>7 DEF n
<1>9. b \in 1..n /\ b - 1 \in 0..n /\ b \in 0..n
  BY <1>1 DEF n
<1>10. ASSUME NEW p \in 1..up[b]
       PROVE  \E c \in 1..b : both[p].slice = Slices[c]
  <2>1. CASE p \in 1..up[b - 1]
    <3>1. PICK c \in 1..(b - 1) : list[p].slice = Slices[c]
      BY <1>6, <2>1
    <3>2. c \in 1..b
      BY <1>1, <1>9
    <3>3. QED BY <1>8, <2>1, <3>1, <3>2
  <2>2. CASE p \in (up[b - 1] + 1)..up[b]
    <3>1. b \in 1..b
      BY <1>1, <1>9
    <3>2. QED BY <1>8, <2>2, <3>1
  <2>3. QED BY <1>8, <2>1, <2>2
<1>11. ASSUME NEW c \in 1..b, NEW p \in 1..up[b]
       PROVE  (both[p].slice = Slices[c]) <=> (p \in (up[c - 1] + 1)..up[c])
  <2>1. c \in 1..n /\ c - 1 \in 0..n /\ c \in 0..n /\ c \in Nat /\ b \in Nat
    BY <1>1, <1>9
  <2>2. CASE p \in 1..up[b - 1]
    <3>1. both[p] = list[p]
      BY <1>8, <2>2
    <3>2. CASE c = b
      <4>1. PICK d \in 1..(b - 1) : list[p].slice = Slices[d]
        BY <1>6, <2>2
      <4>2. d \in 1..n /\ d # b
        BY <1>1, <1>9, <2>1
      <4>3. both[p].slice # Slices[c]
        BY <1>3, <2>1, <3>1, <3>2, <4>1, <4>2
      <4>4. p \notin (up[c - 1] + 1)..up[c]
        BY <1>2, <1>9, <2>2, <3>2
      <4>5. QED BY <4>3, <4>4
    <3>3. CASE c # b
      <4>1. c \in 1..(b - 1)
        BY <2>1, <3>3
      <4>2. QED BY <1>6, <2>2, <3>1, <4>1
    <3>4. QED BY <3>2, <3>3
  <2>3. CASE p \in (up[b - 1] + 1)..up[b]
    <3>1. both[p].slice = Slices[b]
      BY <1>8, <2>3
    <3>2. CASE c = b
      BY <2>3, <3>1, <3>2
    <3>3. CASE c # b
      <4>1. c <= b - 1
        BY <2>1, <3>3
      <4>2. up[c] <= up[b - 1] /\ up[c] \in Nat /\ up[b - 1] \in Nat /\ up[c - 1] \in Nat
        BY <1>2, <1>9, <2>1, <4>1
      <4>3. p \notin (up[c - 1] + 1)..up[c]
        BY <1>2, <1>9, <2>3, <4>2
      <4>4. both[p].slice # Slices[c]
        BY <1>3, <1>9, <2>1, <3>1, <3>3
      <4>5. QED BY <4>3, <4>4
    <3>4. QED BY <3>2, <3>3
  <2>4. QED BY <1>8, <2>2, <2>3
<1>12. \A c \in 1..b : Upto(total, c) = up[c] /\ Upto(total, c - 1) = up[c - 1] /\ c \in 1..n
  BY <1>1, <1>5, <1>9 DEF n
<1>13. Laid(both, total, b)
  <2>1. b \in 1..b
    BY <1>1, <1>9
  <2>2. 1..Len(both) = 1..up[b] /\ Len(both) = Upto(total, b)
    BY <1>7, <1>12, <2>1
  <2>3. both \in Seq(CellOf)
    BY <1>7
  <2>4. \A c \in 1..b : \A p \in 1..up[b] :
           (both[p].slice = Slices[c]) <=> (p \in (Upto(total, c - 1) + 1)..Upto(total, c))
    BY <1>11, <1>12
  <2>5. QED BY <1>10, <2>2, <2>3, <2>4 DEF Laid
<1>14. QED BY <1>13 DEF both, more

\* The cells of a split of that size.
CellsFor(total) == FlattenSeq([b \in DOMAIN Slices |-> Bucket(total, b)])

\* The cells of a split are its buckets, one after the other.
LEMMA CellsAre ==
    ASSUME NEW total \in Nat
    PROVE  Laid(CellsFor(total), total, Len(Slices))
<1> DEFINE n == Len(Slices)
           seqs == [b \in DOMAIN Slices |-> Bucket(total, b)]
<1>1. n \in Nat \ {0} /\ DOMAIN Slices = 1..n
  BY Shares
<1>2. CellsFor(total) = FlattenSeq(seqs)
  BY DEF CellsFor
<1>3. Len(seqs) = n /\ \A b \in 1..n : seqs[b] = Bucket(total, b)
  BY <1>1
<1> DEFINE f == CHOOSE g : Joined(g, n, seqs)
<1>4. FlattenSeq(seqs) = f[n]
  <2>1. FlattenSeq(seqs) =
          LET flatten[i \in 1..Len(seqs)] ==
                IF i = 1 THEN seqs[i] ELSE flatten[i - 1] \o seqs[i]
          IN  flatten[Len(seqs)]
    <3>1. Len(seqs) # 0
      BY <1>1, <1>3
    <3> HIDE DEF seqs
    <3>2. QED BY <3>1, Zenon DEF FlattenSeq
  <2> HIDE DEF seqs
  <2>2. QED BY <1>3, <2>1 DEF Joined
<1>5. Joined(f, n, seqs)
  <2> HIDE DEF seqs
  <2>1. QED BY <1>1, JoinExists
<1> HIDE DEF f
<1>6. /\ \A b \in 1..n : b # 1 => f[b] = f[b - 1] \o Bucket(total, b)
      /\ f[1] = Bucket(total, 1)
  <2> HIDE DEF seqs
  <2>1. 1 \in 1..n
    BY <1>1
  <2>2. \A b \in 1..n : f[b] = IF b = 1 THEN seqs[b] ELSE f[b - 1] \o seqs[b]
    BY <1>5, Zenon DEF Joined
  <2>3. QED BY <1>3, <2>1, <2>2
<1> DEFINE bad == {b \in 1..n : ~Laid(f[b], total, b)}
<1>7. bad = {}
  <2> SUFFICES ASSUME bad # {} PROVE FALSE
    OBVIOUS
  <2>1. bad \subseteq Nat
    BY <1>1
  <2> HIDE DEF bad, seqs
  <2>2. PICK m \in bad : \A o \in bad : <<o, m>> \notin OpToRel(<, Nat)
    BY <2>1, NatLessThanWellFounded, WFMin
  <2>3. \A o \in bad : ~(o < m)
    BY <2>1, <2>2 DEF OpToRel
  <2>4. m \in 1..n /\ m \in Nat /\ ~Laid(f[m], total, m)
    BY <1>1 DEF bad
  <2> DEFINE before == IF m = 1 THEN <<>> ELSE f[m - 1]
  <2>5. Laid(before, total, m - 1)
    <3>1. CASE m = 1
      <4>1. <<>> \in Seq(CellOf) /\ Len(<<>>) = 0
        OBVIOUS
      <4>2. Upto(total, 0) = 0
        BY Shares
      <4>3. QED BY <3>1, <4>1, <4>2 DEF Laid
    <3>2. CASE m # 1
      <4>1. m - 1 \in 1..n /\ m - 1 < m
        BY <1>1, <2>4, <3>2
      <4>2. m - 1 \notin bad
        BY <2>3, <4>1
      <4>3. QED BY <3>2, <4>1, <4>2 DEF bad
    <3>3. QED BY <3>1, <3>2
  <2>6. f[m] = before \o Bucket(total, m)
    <3>1. CASE m = 1
      <4>1. Bucket(total, 1) \in Seq(CellOf)
        BY <2>4, <3>1, BucketIs
      <4>2. <<>> \o Bucket(total, 1) = Bucket(total, 1)
        BY <4>1, ConcatEmptySeq
      <4>3. QED BY <1>6, <3>1, <4>2
    <3>2. CASE m # 1
      BY <1>6, <2>4, <3>2
    <3>3. QED BY <3>1, <3>2
  <2> HIDE DEF before
  <2>7. Laid(f[m], total, m)
    BY <2>4, <2>5, <2>6, JoinFills
  <2>8. QED BY <2>4, <2>7
<1>8. n \in 1..n
  BY <1>1
<1>9. QED BY <1>2, <1>4, <1>7, <1>8

\* No slice is more than one example ahead of another.
Even(list) ==
    \A a, b \in ToSet(Slices) :
        LET of(slice) == Cardinality({i \in DOMAIN list : list[i].slice = slice})
        IN  of(a) <= of(b) + 1

\* A split drawn cell by cell to the end has as many examples of each slice as the
\* slice has cells.
LEMMA DrawnIsEven ==
    ASSUME NEW total \in Nat, NEW cells, Laid(cells, total, Len(Slices)),
           NEW S, NEW list \in Seq(S), Len(list) = Len(cells),
           \A i \in 1..Len(list) : list[i].slice = cells[i].slice
    PROVE  Len(list) = total /\ Even(list)
<1>1. /\ Len(Slices) \in Nat \ {0} /\ DOMAIN Slices = 1..Len(Slices)
      /\ Upto(total, Len(Slices)) = total
  BY Shares
<1>2. Len(list) = total /\ DOMAIN list = 1..total
  BY <1>1 DEF Laid
<1> DEFINE places(slice) == {i \in DOMAIN list : list[i].slice = slice}
<1>3. ASSUME NEW b \in 1..Len(Slices)
      PROVE  Cardinality(places(Slices[b])) = Allocate(total, b)
  <2>1. \A i \in 1..total : (list[i].slice = Slices[b])
                              <=> (i \in (Upto(total, b - 1) + 1)..Upto(total, b))
    BY <1>2 DEF Laid
  <2> DEFINE x == Upto(total, b - 1)
             y == Upto(total, b)
             a == Allocate(total, b)
  <2>2. x \in Nat /\ y \in Nat /\ a \in Nat /\ y = x + a /\ y <= total
    <3>1. b - 1 \in 0..Len(Slices) /\ b \in 0..Len(Slices) /\ Len(Slices) \in 0..Len(Slices)
          /\ b <= Len(Slices)
      BY <1>1
    <3>2. QED BY <1>1, <3>1, Shares
  <2> HIDE DEF x, y, a
  <2>3. places(Slices[b]) = (x + 1)..y
    <3>1. \A i \in (x + 1)..y : i \in 1..total
      BY <2>2
    <3>2. QED BY <1>2, <2>1, <3>1 DEF x, y
  <2>4. Cardinality((x + 1)..y) = a
    <3>1. Cardinality((x + 1)..y) = IF x + 1 > y THEN 0 ELSE y - (x + 1) + 1
      BY <2>2, FS_Interval
    <3>2. QED BY <2>2, <3>1
  <2>5. QED BY <2>3, <2>4 DEF a
<1>4. ASSUME NEW s \in ToSet(Slices) PROVE \E b \in 1..Len(Slices) : s = Slices[b]
  BY <1>1 DEF ToSet
<1>5. Even(list)
  <2> SUFFICES ASSUME NEW a \in ToSet(Slices), NEW b \in ToSet(Slices)
               PROVE  Cardinality(places(a)) <= Cardinality(places(b)) + 1
    BY DEF Even
  <2>1. PICK c \in 1..Len(Slices), d \in 1..Len(Slices) : a = Slices[c] /\ b = Slices[d]
    BY <1>4
  <2>2. Allocate(total, c) <= Allocate(total, d) + 1
    BY Shares
  <2> HIDE DEF places
  <2>3. QED BY <1>3, <2>1, <2>2
<1>6. QED BY <1>2, <1>5

-----------------------------------------------------------------------------
(* The corpus in memory and the one on disk.                               *)

\* An example: its cell and its note.
Example == [slice : ToSet(Slices), index : Nat, note : UNION {Notes(s) : s \in ToSet(Slices)}]

\* Every split is drawn in the order of its cells.
Drawn(cols, asked) ==
    /\ cols \in [Splits -> Seq(Example)]
    /\ \A s \in Splits :
          /\ Len(cols[s]) <= Len(CellsFor(asked[s]))
          /\ \A i \in 1..Len(cols[s]) : cols[s][i].slice = CellsFor(asked[s])[i].slice

\* No note is in two places.
Distinct(cols) ==
    \A s, t \in Splits : \A i \in DOMAIN cols[s], j \in DOMAIN cols[t] :
        cols[s][i].note = cols[t][j].note => s = t /\ i = j

\* A corpus as it was asked for.
Faithful(cols) ==
    /\ Distinct(cols)
    /\ \E asked \in Sizes : \A s \in Splits : Len(cols[s]) = asked[s] /\ Even(cols[s])

\* The notes of all splits are on record, a save begins with every cell drawn, and
\* the manifest, as far as it is written, is of a whole corpus.
CorpusInv ==
    /\ sizes \in Sizes /\ Drawn(columns, sizes) /\ Distinct(columns)
    /\ \A s \in Splits : \A i \in DOMAIN columns[s] : columns[s][i].note \in seen
    /\ activity = "save" => \A s \in Splits : Len(columns[s]) = Len(CellsFor(sizes[s]))
    /\ "manifest" \in DOMAIN files
    /\ files["manifest"].state # "missing" => Faithful(files["manifest"].rows)
    /\ loaded.outcome = "corpus" => Faithful(loaded.columns)

\* The three splits, and the sizes they may be asked in.
LEMMA SplitsAre == /\ Splits = {"train", "val", "test"} /\ DOMAIN SplitNames = 1..3
                   /\ \A n \in 1..3 : SplitNames[n] \in Splits
                   /\ \A s \in Splits : \E n \in 1..3 : s = SplitNames[n]
                   /\ \A asked \in Sizes : \A s \in Splits : asked[s] \in Nat
<1>1. /\ DOMAIN SplitNames = 1..3
      /\ SplitNames[1] = "train" /\ SplitNames[2] = "val" /\ SplitNames[3] = "test"
  BY DEF SplitNames
<1>2. \A n \in 1..3 : n = 1 \/ n = 2 \/ n = 3
  OBVIOUS
<1>3. 1 \in 1..3 /\ 2 \in 1..3 /\ 3 \in 1..3
  OBVIOUS
<1>4. Splits = {"train", "val", "test"}
  BY <1>1, <1>2, <1>3 DEF Splits, ToSet
<1>5. \A asked \in Sizes : \A s \in Splits : asked[s] \in Nat
  BY CorpusAssumption
<1>6. QED BY <1>1, <1>2, <1>3, <1>4, <1>5

\* A size of the corpus gives every split its cells.
LEMMA CellsOfAre ==
    ASSUME NEW asked \in Sizes, NEW s \in Splits
    PROVE  /\ asked[s] \in Nat /\ Laid(CellsFor(asked[s]), asked[s], Len(Slices))
           /\ CellsFor(asked[s]) \in Seq(CellOf) /\ Len(CellsFor(asked[s])) \in Nat
<1>1. asked[s] \in Nat
  BY SplitsAre
<1>2. Laid(CellsFor(asked[s]), asked[s], Len(Slices))
  BY <1>1, CellsAre
<1>3. QED BY <1>1, <1>2 DEF Laid

\* An empty corpus is drawn in order and repeats nothing.
LEMMA EmptyIs ==
    ASSUME NEW asked \in Sizes
    PROVE  /\ Drawn(Empty, asked) /\ Distinct(Empty)
           /\ \A s \in Splits : DOMAIN Empty[s] = {}
<1>1. \A s \in Splits : Empty[s] = <<>> /\ Len(CellsFor(asked[s])) \in Nat
  BY CellsOfAre DEF Empty
<1>2. \A s \in Splits : DOMAIN Empty[s] = {} /\ Len(Empty[s]) = 0 /\ Empty[s] \in Seq(Example)
  <2>1. DOMAIN <<>> = {} /\ Len(<<>>) = 0 /\ <<>> \in Seq(Example)
    OBVIOUS
  <2>2. QED BY <1>1, <2>1
<1>3. Empty \in [Splits -> Seq(Example)]
  BY <1>2 DEF Empty
<1>4. QED BY <1>1, <1>2, <1>3 DEF Drawn, Distinct

\* Nothing is drawn, written or loaded at first.
LEMMA InitCorpusInv == CorpusInit => CorpusInv
<1> SUFFICES ASSUME CorpusInit PROVE CorpusInv
  OBVIOUS
<1>1. "manifest" \in ToSet(Files)
  <2> DEFINE S == {"train", "val", "test", "manifest"}
  <2>1. SplitNames \in Seq(S) /\ Len(SplitNames) = 3 /\ "manifest" \in S
    BY DEF SplitNames
  <2> HIDE DEF S
  <2>2. 4 \in DOMAIN Files /\ Files[4] = "manifest"
    <3>1. ASSUME NEW T, NEW q \in Seq(T), Len(q) = 3, NEW m \in T
          PROVE  4 \in DOMAIN Append(q, m) /\ Append(q, m)[4] = m
      <4>1. /\ Append(q, m) \in Seq(T) /\ Len(Append(q, m)) = Len(q) + 1
            /\ Append(q, m)[Len(q) + 1] = m
        BY AppendProperties
      <4>2. Len(q) + 1 = 4
        BY <3>1
      <4>3. QED BY <4>1, <4>2
    <3>2. QED BY <2>1, <3>1, Zenon DEF Files
  <2>3. QED BY <2>2 DEF ToSet
<1>2. "manifest" \in DOMAIN files /\ files["manifest"].state = "missing"
  BY <1>1 DEF CorpusInit
<1>3. /\ sizes \in Sizes /\ columns = Empty /\ activity = "idle" /\ loaded.outcome = "none"
  BY DEF CorpusInit
<1>4. QED BY <1>2, <1>3, EmptyIs DEF CorpusInv

\* The note drawn is in no split yet, and belongs to the next cell.
LEMMA DrawCorpusInv == ASSUME CorpusInv, DrawUnique PROVE CorpusInv'
<1>1. UNCHANGED <<builds, activity, sizes, files, unsaved, loaded>> /\ activity = "draw"
  BY DEF DrawUnique
<1>2. Here \in Splits /\ Len(columns[Here]) < Len(CellsFor(sizes[Here]))
  <2>1. Unfinished # {} /\ Unfinished \subseteq 1..3
    BY SplitsAre DEF DrawUnique, Unfinished
  <2>2. \E m \in Unfinished : \A n \in Unfinished : m <= n
    <3>1. \A n \in Unfinished : n = 1 \/ n = 2 \/ n = 3
      BY <2>1
    <3>2. CASE 1 \in Unfinished
      BY <3>1, <3>2
    <3>3. CASE 1 \notin Unfinished /\ 2 \in Unfinished
      BY <3>1, <3>3
    <3>4. CASE 1 \notin Unfinished /\ 2 \notin Unfinished
      <4>1. \A n \in Unfinished : n = 3
        BY <3>1, <3>4
      <4>2. 3 \in Unfinished /\ 3 <= 3
        <5>1. PICK n \in Unfinished : n = 3
          BY <2>1, <4>1
        <5>2. QED BY <5>1
      <4>3. QED BY <4>1, <4>2
    <3>5. QED BY <3>2, <3>3, <3>4
  <2>3. Min(Unfinished) \in Unfinished
    BY <2>2 DEF Min
  <2>4. Len(columns[Here]) < Len(CellsOf(Here))
    BY <2>3 DEF Unfinished, Here
  <2>5. CellsOf(Here) = CellsFor(sizes[Here])
    BY DEF CellsOf, CellsFor, Bucket
  <2>6. QED BY <2>1, <2>3, <2>4, <2>5, SplitsAre DEF Here
<1>3. /\ sizes \in Sizes /\ columns \in [Splits -> Seq(Example)] /\ Distinct(columns)
      /\ \A s \in Splits :
            /\ Len(columns[s]) <= Len(CellsFor(sizes[s]))
            /\ \A i \in 1..Len(columns[s]) : columns[s][i].slice = CellsFor(sizes[s])[i].slice
      /\ \A s \in Splits : \A i \in DOMAIN columns[s] : columns[s][i].note \in seen
  BY DEF CorpusInv, Drawn
<1>4. PICK note \in Notes(Cell.slice) :
        IF note \in Taken
        THEN attempt' = attempt + 1 /\ UNCHANGED <<columns, seen>>
        ELSE /\ columns' = [columns EXCEPT ![Here] =
                               Append(@, [slice |-> Cell.slice, index |-> Cell.index,
                                          note |-> note])]
             /\ seen' = seen \cup {note} /\ attempt' = 0
  BY DEF DrawUnique
<1>5. CASE note \in Taken
  BY <1>1, <1>4, <1>5 DEF CorpusInv
<1>6. CASE note \notin seen
  <2> DEFINE x == [slice |-> Cell.slice, index |-> Cell.index, note |-> note]
             here == columns[Here]
             size == Len(here)
             cells == CellsFor(sizes[Here])
  <2>1. Cell = cells[size + 1]
    BY DEF Cell, CellsOf, CellsFor, Bucket
  <2>2. here \in Seq(Example) /\ size \in Nat /\ DOMAIN here = 1..size
    BY <1>2, <1>3
  <2>3. cells \in Seq(CellOf) /\ Len(cells) \in Nat
    BY <1>2, <1>3, CellsOfAre
  <2>4. Cell \in CellOf
    <3>1. size + 1 \in 1..Len(cells)
      BY <1>2, <2>2, <2>3
    <3> HIDE DEF cells, size
    <3>2. QED BY <2>1, <2>3, <3>1
  <2>5. x \in Example
    BY <2>4 DEF CellOf, Example
  <2>6. /\ columns' = [columns EXCEPT ![Here] = Append(here, x)]
        /\ seen' = seen \cup {note}
    BY <1>4, <1>6 DEF Taken
  <2>7. x.note = note /\ x.slice = cells[size + 1].slice
    BY <2>1
  <2> HIDE DEF x, here, cells
  <2>8. /\ Append(here, x) \in Seq(Example) /\ Len(Append(here, x)) = size + 1
        /\ DOMAIN Append(here, x) = 1..(size + 1)
        /\ \A i \in 1..size : Append(here, x)[i] = here[i]
        /\ Append(here, x)[size + 1] = x
    BY <2>2, <2>5
  <2>9. columns' \in [Splits -> Seq(Example)]
    BY <1>3, <2>6, <2>8
  <2>10. /\ columns'[Here] = Append(here, x)
         /\ \A s \in Splits : s # Here => columns'[s] = columns[s]
    BY <1>2, <1>3, <2>6
  <2> HIDE DEF size
  <2>11. \A i \in 1..(size + 1) : i \in 1..size \/ i = size + 1
    BY <2>2
  <2>12. ASSUME NEW s \in Splits, NEW i \in DOMAIN columns'[s]
         PROVE  \/ /\ s = Here /\ i = size + 1 /\ columns'[s][i].note = note
                \/ i \in DOMAIN columns[s] /\ columns'[s][i] = columns[s][i]
    <3>1. CASE s = Here
      <4>1. DOMAIN columns[s] = 1..size
        BY <2>2, <3>1 DEF here
      <4>2. QED BY <2>7, <2>8, <2>10, <2>11, <3>1, <4>1 DEF here
    <3>2. CASE s # Here
      BY <2>10, <3>2
    <3>3. QED BY <3>1, <3>2
  <2>13. Distinct(columns')
    <3> SUFFICES ASSUME NEW s \in Splits, NEW t \in Splits,
                        NEW i \in DOMAIN columns'[s], NEW j \in DOMAIN columns'[t],
                        columns'[s][i].note = columns'[t][j].note
                 PROVE  s = t /\ i = j
      BY DEF Distinct
    <3>1. CASE columns'[s][i].note = note
      <4>1. columns'[t][j].note = note
        BY <3>1
      <4>2. s = Here /\ i = size + 1
        <5>1. ~(i \in DOMAIN columns[s] /\ columns'[s][i] = columns[s][i])
          BY <1>3, <1>6, <3>1
        <5>2. QED BY <2>12, <5>1
      <4>3. t = Here /\ j = size + 1
        <5>1. ~(j \in DOMAIN columns[t] /\ columns'[t][j] = columns[t][j])
          BY <1>3, <1>6, <4>1
        <5>2. QED BY <2>12, <5>1
      <4>4. QED BY <4>2, <4>3
    <3>2. CASE columns'[s][i].note # note
      <4>1. i \in DOMAIN columns[s] /\ columns'[s][i] = columns[s][i]
        BY <2>12, <3>2
      <4>2. j \in DOMAIN columns[t] /\ columns'[t][j] = columns[t][j]
        BY <2>12, <3>2
      <4>3. QED BY <1>3, <4>1, <4>2 DEF Distinct
    <3>3. QED BY <3>1, <3>2
  <2>14. ASSUME NEW s \in Splits
         PROVE  /\ Len(columns'[s]) <= Len(CellsFor(sizes[s]))
                /\ \A i \in 1..Len(columns'[s]) :
                      columns'[s][i].slice = CellsFor(sizes[s])[i].slice
    <3>1. CASE s = Here
      <4>1. size + 1 <= Len(cells)
        BY <1>2, <2>2, <2>3 DEF size, here, cells
      <4>2. \A i \in 1..size : here[i].slice = cells[i].slice
        BY <1>3, <3>1 DEF size, here, cells
      <4>3. QED BY <2>7, <2>8, <2>10, <2>11, <3>1, <4>1, <4>2 DEF cells
    <3>2. CASE s # Here
      BY <1>3, <2>10, <3>2
    <3>3. QED BY <3>1, <3>2
  <2>15. Drawn(columns', sizes)
    BY <2>9, <2>14 DEF Drawn
  <2>16. \A s \in Splits : \A i \in DOMAIN columns'[s] : columns'[s][i].note \in seen'
    BY <1>3, <2>6, <2>12
  <2>17. QED BY <1>1, <1>3, <2>13, <2>15, <2>16 DEF CorpusInv
<1>7. QED BY <1>5, <1>6 DEF Taken

\* What is written of the manifest is the whole corpus.
LEMMA FileCorpusInv ==
    ASSUME CorpusInv, activity = "save", NEW state \in {"torn", "whole"},
           files' = [files EXCEPT ![Head(unsaved)] =
                        [state |-> state, rows |-> Content(Head(unsaved))]],
           activity' \in {"save", "idle"},
           UNCHANGED <<sizes, columns, seen, loaded>>
    PROVE  CorpusInv'
<1>1. Faithful(columns)
  <2>1. ASSUME NEW s \in Splits PROVE Len(columns[s]) = sizes[s] /\ Even(columns[s])
    <3> DEFINE cells == CellsFor(sizes[s])
               list == columns[s]
    <3>1. list \in Seq(Example) /\ Len(list) = Len(cells)
          /\ \A i \in 1..Len(list) : list[i].slice = cells[i].slice
      BY DEF CorpusInv, Drawn
    <3>2. sizes[s] \in Nat /\ Laid(cells, sizes[s], Len(Slices))
      BY CellsOfAre DEF CorpusInv
    <3> HIDE DEF cells, list
    <3>3. Len(list) = sizes[s] /\ Even(list)
      BY <3>1, <3>2, DrawnIsEven
    <3>4. QED BY <3>3 DEF list
  <2>2. QED BY <2>1 DEF Faithful, CorpusInv
<1>2. "manifest" \in DOMAIN files' /\ DOMAIN files' = DOMAIN files
  BY DEF CorpusInv
<1>3. files'["manifest"].state # "missing" => Faithful(files'["manifest"].rows)
  <2>1. CASE Head(unsaved) = "manifest"
    <3>1. files'["manifest"] = [state |-> state, rows |-> columns]
      BY <2>1 DEF CorpusInv, Content
    <3>2. QED BY <1>1, <3>1
  <2>2. CASE Head(unsaved) # "manifest"
    <3>1. files'["manifest"] = files["manifest"]
      BY <2>2 DEF CorpusInv
    <3>2. QED BY <3>1 DEF CorpusInv
  <2>3. QED BY <2>1, <2>2
<1>4. QED BY <1>2, <1>3 DEF CorpusInv

\* Every step keeps the invariant.
LEMMA StepCorpusInv == ASSUME CorpusInv, [CorpusNext]_corpusVars PROVE CorpusInv'
<1>1. CASE Build
  <2>1. /\ sizes' \in Sizes /\ columns' = Empty /\ activity' = "draw"
        /\ UNCHANGED <<files, loaded>>
    BY <1>1 DEF Build
  <2>2. Drawn(Empty, sizes') /\ Distinct(Empty) /\ \A s \in Splits : DOMAIN Empty[s] = {}
    BY <2>1, EmptyIs
  <2>3. QED BY <2>1, <2>2 DEF CorpusInv
<1>2. CASE DrawFails
  BY <1>2 DEF DrawFails, CorpusInv
<1>3. CASE BeginSave
  <2>1. Unfinished = {} /\ UNCHANGED <<sizes, columns, seen, files, loaded>>
    BY <1>3 DEF BeginSave
  <2>2. ASSUME NEW s \in Splits PROVE Len(columns[s]) = Len(CellsFor(sizes[s]))
    <3>1. PICK n \in DOMAIN SplitNames : s = SplitNames[n]
      BY SplitsAre
    <3>2. ~(Len(columns[s]) < Len(CellsOf(s)))
      BY <2>1, <3>1 DEF Unfinished
    <3>3. CellsOf(s) = CellsFor(sizes[s])
      BY DEF CellsOf, CellsFor, Bucket
    <3>4. Len(columns[s]) <= Len(CellsFor(sizes[s])) /\ columns[s] \in Seq(Example)
      BY DEF CorpusInv, Drawn
    <3>5. Len(CellsFor(sizes[s])) \in Nat
      BY CellsOfAre DEF CorpusInv
    <3>6. Len(columns[s]) \in Nat
      BY <3>4
    <3>7. QED BY <3>2, <3>3, <3>4, <3>5, <3>6
  <2>3. QED BY <2>1, <2>2 DEF CorpusInv
<1>4. CASE OpenNext
  <2>1. /\ activity = "save" /\ activity' = "save" /\ UNCHANGED <<sizes, columns, seen, loaded>>
        /\ files' = [files EXCEPT ![Head(unsaved)] =
                        [state |-> "torn", rows |-> Content(Head(unsaved))]]
    BY <1>4 DEF OpenNext
  <2>2. QED BY <2>1, FileCorpusInv
<1>5. CASE WriteNext
  <2>1. /\ activity = "save" /\ activity' \in {"save", "idle"}
        /\ UNCHANGED <<sizes, columns, seen, loaded>>
        /\ files' = [files EXCEPT ![Head(unsaved)] =
                        [state |-> "whole", rows |-> Content(Head(unsaved))]]
    BY <1>5 DEF WriteNext
  <2>2. QED BY <2>1, FileCorpusInv
<1>6. CASE KillBuild
  BY <1>6 DEF KillBuild, CorpusInv
<1>7. CASE Load
  <2>1. UNCHANGED <<activity, sizes, columns, seen, files>>
    BY <1>7 DEF Load
  <2>2. loaded'.outcome = "corpus" => Faithful(loaded'.columns)
    <3>1. CASE loaded' = [outcome |-> "refused"]
      BY <3>1
    <3>2. CASE \E held : /\ files["manifest"].state = "whole"
                         /\ Matches(held, files["manifest"].rows)
                         /\ loaded' = [outcome |-> "corpus", columns |-> held]
      BY <3>2 DEF CorpusInv, Matches
    <3>3. QED BY <1>7, <3>1, <3>2 DEF Load
  <2>3. QED BY <2>1, <2>2 DEF CorpusInv
<1>8. CASE UNCHANGED corpusVars
  BY <1>8 DEF corpusVars, CorpusInv
<1>9. QED BY <1>1, <1>2, <1>3, <1>4, <1>5, <1>6, <1>7, <1>8, DrawCorpusInv DEF CorpusNext

\* The inductive invariant: every note drawn is on record, whatever is drawn, fails or
\* is killed, and a manifest is only begun for a corpus that is complete.
THEOREM CorpusInvariance == CorpusSpec => []CorpusInv
BY InitCorpusInv, StepCorpusInv, PTL DEF CorpusSpec

\* A corpus that loads is one that was built as asked: no note in two cells and the
\* slices in their proportions, for any slices, sizes and notes, whichever builds into
\* the same directory were cut off (Dataset.load: content_hash).
THEOREM CorporaAreSound == CorpusSpec => []CorpusIsSound
<1>1. CorpusInv => CorpusIsSound
  BY DEF CorpusInv, CorpusIsSound, Faithful, Distinct, Even
<1>2. QED BY CorpusInvariance, <1>1, PTL

-----------------------------------------------------------------------------
(* Judging a completion.                                                   *)

\* A record has finitely many members and items.
Finite(r) == IsFiniteSet(r.members) /\ IsFiniteSet(DOMAIN r.items)

\* Every parse finds the object, nothing, or in its place an empty one.
Outcomes(t) == {Parsed(t.record), Parsed(EmptyRecord)} \cup {Failed(Severity[n]) : n \in 1..3}

LEMMA StrictOutcomes == \A t : ExtractStrict(t) \in Outcomes(t)
<1> SUFFICES ASSUME NEW t PROVE ExtractStrict(t) \in Outcomes(t)
  OBVIOUS
<1> DEFINE P == Bare(t) /\ t.form = "object"
           Q == Bare(t) /\ t.form \in {"array", "value"}
           a == Parsed(t.record)
           b == Failed("not_an_object")
           c == Failed(IF HasBrace(t) THEN "unparseable" ELSE "no_json")
           found == CASE P -> a [] Q -> b [] OTHER -> c
<1>1. ExtractStrict(t) = found
  BY DEF ExtractStrict
<1>2. ~(P /\ Q)
  OBVIOUS
<1>3. {a, b, c} \subseteq Outcomes(t)
  BY DEF Outcomes, Severity
<1> HIDE DEF P, Q, a, b, c
<1>4. found \in {a, b, c}
  <2>1. CASE P
    BY <2>1, <1>2
  <2>2. CASE Q
    BY <2>2, <1>2
  <2>3. CASE ~P /\ ~Q
    BY <2>3
  <2>4. QED BY <2>1, <2>2, <2>3
<1>5. QED BY <1>1, <1>3, <1>4

\* The scanner finds nothing else either.
LEMMA RecoverOutcomes == \A t : Recover(t) \in Outcomes(t)
<1> SUFFICES ASSUME NEW t PROVE Recover(t) \in Outcomes(t)
  OBVIOUS
<1> DEFINE P == ~HasBrace(t)
           Q == HasBrace(t) /\ t.decoy /\ ~t.fence
           R == HasBrace(t) /\ (t.decoy => t.fence)
                   /\ (t.decoy \/ t.form = "broken" \/ t.cut = "in string")
           a == Failed("no_json")
           b == Parsed(EmptyRecord)
           c == Failed("unparseable")
           d == Parsed(t.record)
           found == CASE P -> a [] Q -> b [] R -> c [] OTHER -> d
<1>1. Recover(t) = found
  BY DEF Recover
<1>2. {a, b, c, d} \subseteq Outcomes(t)
  BY DEF Outcomes, Severity
<1> HIDE DEF P, Q, R, a, b, c, d
<1>3. found \in {a, b, c, d}
  <2>1. CASE P \/ Q \/ R
    BY <2>1
  <2>2. CASE ~P /\ ~Q /\ ~R
    BY <2>2
  <2>3. QED BY <2>1, <2>2
<1>4. QED BY <1>1, <1>2, <1>3

\* The image of a finite set is finite.
LEMMA ImageIsFinite ==
    ASSUME NEW S, IsFiniteSet(S), NEW f, f = [x \in S |-> f[x]]
    PROVE  IsFiniteSet({f[x] : x \in S})
<1>1. f \in Surjection(S, {f[x] : x \in S})
  BY DEF Surjection
<1>2. QED BY <1>1, FS_Surjection

\* A record has finitely many paths.
LEMMA FlatIsFinite ==
    ASSUME NEW r, NEW slot, IsFiniteSet(Scalars), IsFiniteSet(r.members), IsFiniteSet(DOMAIN slot)
    PROVE  IsFiniteSet(Flat(r, slot))
<1> DEFINE a == {<<"scalar", s, r.scalars[s]>> : s \in {s \in Scalars : r.scalars[s] # "absent"}}
           b == {<<"member", m, "in">> : m \in r.members}
           c == IF r.invented THEN {<<"key", "invented", "any">>} ELSE {}
           p == {<<"product", slot[i], r.items[i].product>> :
                    i \in {i \in DOMAIN slot : r.items[i].product # None}}
           m == {<<"amount", slot[i], r.items[i].amount>> :
                    i \in {i \in DOMAIN slot : r.items[i].amount # None}}
           j == {<<"junk", slot[i], "any">> : i \in {i \in DOMAIN slot : r.items[i].invented}}
<1>1. Flat(r, slot) = a \cup b \cup c \cup p \cup m \cup j
  BY DEF Flat
<1>2. IsFiniteSet(a)
  <2> DEFINE S == {s \in Scalars : r.scalars[s] # "absent"}
             f == [s \in S |-> <<"scalar", s, r.scalars[s]>>]
  <2>1. IsFiniteSet(S)
    BY FS_Subset
  <2>2. a = {f[s] : s \in S}
    OBVIOUS
  <2>3. f = [s \in S |-> f[s]]
    OBVIOUS
  <2> HIDE DEF S, f
  <2>4. QED BY <2>1, <2>2, <2>3, ImageIsFinite
<1>3. IsFiniteSet(b)
  <2> DEFINE f == [s \in r.members |-> <<"member", s, "in">>]
  <2>1. b = {f[s] : s \in r.members}
    OBVIOUS
  <2>2. f = [s \in r.members |-> f[s]]
    OBVIOUS
  <2> HIDE DEF b, f
  <2>3. QED BY <2>1, <2>2, ImageIsFinite
<1>4. IsFiniteSet(c)
  BY FS_EmptySet, FS_Singleton
<1>5. IsFiniteSet(p)
  <2> DEFINE S == {i \in DOMAIN slot : r.items[i].product # None}
             f == [i \in S |-> <<"product", slot[i], r.items[i].product>>]
  <2>1. IsFiniteSet(S)
    BY FS_Subset
  <2>2. p = {f[i] : i \in S} /\ f = [i \in S |-> f[i]]
    OBVIOUS
  <2> HIDE DEF S, f
  <2>3. QED BY <2>1, <2>2, ImageIsFinite
<1>6. IsFiniteSet(m)
  <2> DEFINE S == {i \in DOMAIN slot : r.items[i].amount # None}
             f == [i \in S |-> <<"amount", slot[i], r.items[i].amount>>]
  <2>1. IsFiniteSet(S)
    BY FS_Subset
  <2>2. m = {f[i] : i \in S} /\ f = [i \in S |-> f[i]]
    OBVIOUS
  <2> HIDE DEF S, f
  <2>3. QED BY <2>1, <2>2, ImageIsFinite
<1>7. IsFiniteSet(j)
  <2> DEFINE S == {i \in DOMAIN slot : r.items[i].invented}
             f == [i \in S |-> <<"junk", slot[i], "any">>]
  <2>1. IsFiniteSet(S)
    BY FS_Subset
  <2>2. j = {f[i] : i \in S} /\ f = [i \in S |-> f[i]]
    OBVIOUS
  <2> HIDE DEF S, f
  <2>3. QED BY <2>1, <2>2, ImageIsFinite
<1> HIDE DEF a, b, c, p, m, j
<1>8. QED BY <1>1, <1>2, <1>3, <1>4, <1>5, <1>6, <1>7, FS_Union

\* Gold's paths are finitely many.
LEMMA GoldIsFinite ==
    ASSUME IsFiniteSet(Scalars), NEW gold, Finite(gold)
    PROVE  IsFiniteSet(GoldPaths(gold))
<1> DEFINE slot == [j \in DOMAIN gold.items |-> j]
<1>1. DOMAIN slot = DOMAIN gold.items /\ GoldPaths(gold) = Flat(gold, slot)
  BY DEF GoldPaths
<1> HIDE DEF slot
<1>2. QED BY <1>1, FlatIsFinite DEF Finite

\* And so are those of a record against it.
LEMMA PathsAreFinite ==
    ASSUME IsFiniteSet(Scalars), NEW gold, NEW r, Finite(r)
    PROVE  IsFiniteSet(Paths(r, gold))
<1> DEFINE slot == Alignment(r, gold)
<1>1. DOMAIN slot \subseteq DOMAIN r.items
  BY DEF Alignment, Present
<1>2. IsFiniteSet(DOMAIN slot)
  BY <1>1, FS_Subset DEF Finite
<1>3. Paths(r, gold) = Flat(r, slot)
  BY DEF Paths
<1> HIDE DEF slot
<1>4. QED BY <1>2, <1>3, FlatIsFinite DEF Finite

\* Its items are a list.
Listed(r) == Len(r.items) \in Nat /\ DOMAIN r.items = 1..Len(r.items)

\* What the proofs use of a record.
LEMMA RecordIs ==
    ASSUME NEW c, IsRecord(c), IsFiniteSet(c.members)
    PROVE  Listed(c) /\ Finite(c)
<1>1. Len(c.items) \in Nat /\ DOMAIN c.items = 1..Len(c.items)
  BY DEF IsRecord
<1>2. IsFiniteSet(1..Len(c.items))
  BY <1>1, FS_Interval
<1>3. QED BY <1>1, <1>2 DEF Listed, Finite

\* What a reward is, whatever the parse found.
LEMMA RewardsAreFractions ==
    ASSUME IsFiniteSet(Scalars), NEW gold, Finite(gold), NEW t, Finite(t.record),
           NEW outcome \in Outcomes(t)
    PROVE  LET reward == Reward(outcome, gold)
           IN  /\ reward.num \in Nat /\ reward.den \in Nat /\ reward.num <= reward.den
               /\ GoldPaths(gold) # {} => reward.den > 0
               /\ reward.parsed = outcome.ok
               /\ ~outcome.ok => reward.num = 0
<1> DEFINE paths == IF outcome.ok THEN Paths(outcome.record, gold) ELSE {}
           expected == GoldPaths(gold)
           total == Cardinality(paths) + Cardinality(expected)
           agree == Cardinality(paths \cap expected)
           kinds == IF outcome.ok THEN Check(outcome.record) ELSE outcome.kinds
           valid == outcome.ok /\ kinds = {}
           credit == Credit(outcome.ok, ParseWeight) + Credit(valid, SchemaWeight)
<1>1. outcome.ok \in BOOLEAN /\ (outcome.ok => Finite(outcome.record))
  <2>1. Finite(EmptyRecord)
    BY FS_EmptySet DEF Finite, EmptyRecord
  <2>2. CASE outcome = Parsed(t.record)
    BY <2>2 DEF Parsed
  <2>3. CASE outcome = Parsed(EmptyRecord)
    BY <2>1, <2>3 DEF Parsed
  <2>4. CASE \E n \in 1..3 : outcome = Failed(Severity[n])
    BY <2>4 DEF Failed
  <2>5. QED BY <2>2, <2>3, <2>4 DEF Outcomes
<1>2. IsFiniteSet(expected)
  BY GoldIsFinite
<1>3. IsFiniteSet(paths)
  <2>1. CASE outcome.ok
    BY <1>1, <2>1, PathsAreFinite
  <2>2. CASE ~outcome.ok
    BY <2>2, FS_EmptySet
  <2>3. QED BY <2>1, <2>2
<1> HIDE DEF paths, expected
<1>4. /\ total \in Nat /\ agree \in Nat /\ 2 * agree <= total
      /\ expected # {} => total > 0
  <2>1. /\ IsFiniteSet(paths \cap expected)
        /\ Cardinality(paths \cap expected) <= Cardinality(paths)
        /\ Cardinality(paths \cap expected) <= Cardinality(expected)
    BY <1>2, <1>3, FS_Subset
  <2>2. expected # {} => Cardinality(expected) # 0
    BY <1>2, FS_EmptySet
  <2>3. /\ Cardinality(paths) \in Nat /\ Cardinality(expected) \in Nat
        /\ Cardinality(paths \cap expected) \in Nat
    BY <1>2, <1>3, <2>1, FS_CardinalityType
  <2>4. QED BY <2>1, <2>2, <2>3
<1>5. credit \in Nat /\ credit <= 2
  BY DEF Credit, ParseWeight, SchemaWeight
<1>6. ~outcome.ok => credit = 0 /\ agree = 0
  BY FS_EmptySet DEF Credit, paths
<1>7. /\ Reward(outcome, gold).num = credit * total + 6 * agree
      /\ Reward(outcome, gold).den = 5 * total
      /\ Reward(outcome, gold).parsed = outcome.ok
  <2>1. FieldWeight * 2 = 6 /\ TotalWeight = 5
    BY DEF FieldWeight, TotalWeight, ParseWeight, SchemaWeight
  <2>2. QED BY <1>4, <1>5, <2>1 DEF Reward, paths, expected
<1> HIDE DEF credit, total, agree, valid
<1>8. credit * total \in Nat /\ credit * total <= 2 * total
  BY <1>4, <1>5
<1>9. ~outcome.ok => credit * total = 0
  BY <1>4, <1>6
<1>10. QED BY <1>1, <1>4, <1>6, <1>7, <1>8, <1>9 DEF expected

\* What is judged is judged by both verifiers.
ScoringInv ==
    judged # Unjudged =>
        \E gold \in Golds, t \in Completions :
            judged = [state |-> "judged", gold |-> gold, completion |-> t,
                      strict |-> StrictReward(t, gold), lenient |-> LenientReward(t, gold)]

\* The lenient verifier keeps what the strict one found, and adds to nothing else.
LEMMA LenientFollows ==
    ASSUME NEW gold \in Golds, NEW t \in Completions
    PROVE  LET strict == StrictReward(t, gold)
               lenient == LenientReward(t, gold)
           IN  NoLower(lenient, strict) /\ (strict.parsed => lenient = strict)
<1> DEFINE strict == StrictReward(t, gold)
           lenient == LenientReward(t, gold)
<1>0. IsFiniteSet(Scalars) /\ Finite(gold) /\ Finite(t.record)
  BY RecordAssumption, RecordIs
<1>1. ExtractStrict(t) \in Outcomes(t) /\ ExtractLenient(t) \in Outcomes(t)
  BY StrictOutcomes, RecoverOutcomes DEF ExtractLenient
<1>2. /\ strict.num \in Nat /\ strict.den \in Nat
      /\ strict.parsed = ExtractStrict(t).ok
      /\ ~ExtractStrict(t).ok => strict.num = 0
  BY <1>0, <1>1, RewardsAreFractions DEF StrictReward
<1>3. lenient.num \in Nat /\ lenient.den \in Nat
  BY <1>0, <1>1, RewardsAreFractions DEF LenientReward
<1>4. ExtractStrict(t).ok => lenient = strict
  BY DEF ExtractLenient, LenientReward, StrictReward
<1> HIDE DEF strict, lenient
<1>5. CASE ExtractStrict(t).ok
  BY <1>2, <1>4, <1>5 DEF NoLower, strict, lenient
<1>6. CASE ~ExtractStrict(t).ok
  <2>1. strict.num * lenient.den = 0
    BY <1>2, <1>3, <1>6
  <2>2. lenient.num * strict.den >= 0
    BY <1>2, <1>3
  <2>3. NoLower(lenient, strict)
    BY <2>1, <2>2 DEF NoLower
  <2>4. QED BY <1>2, <1>6, <2>3 DEF strict, lenient
<1>7. QED BY <1>5, <1>6

LEMMA ScoringInvariance == ScoringSpec => []ScoringInv
<1>1. ScoringInit => ScoringInv
  BY DEF ScoringInit, ScoringInv
<1>2. ScoringInv /\ [Judge]_judged => ScoringInv'
  BY DEF ScoringInv, Judge
<1>3. QED BY <1>1, <1>2, PTL DEF ScoringSpec

\* Judging leniently never costs a completion, whatever its record and packaging.
THEOREM LenienceCostsNothing == ScoringSpec => []LenientIsNoLower
<1>1. ScoringInv => LenientIsNoLower
  <2> SUFFICES ASSUME ScoringInv, judged.state = "judged" PROVE LenientIsNoLower
    BY DEF LenientIsNoLower
  <2>1. judged # Unjudged
    BY DEF Unjudged
  <2>2. PICK gold \in Golds, t \in Completions :
            judged = [state |-> "judged", gold |-> gold, completion |-> t,
                      strict |-> StrictReward(t, gold), lenient |-> LenientReward(t, gold)]
    BY <2>1 DEF ScoringInv
  <2>3. judged.strict = StrictReward(t, gold) /\ judged.lenient = LenientReward(t, gold)
    BY <2>2
  <2>4. QED BY <2>3, LenientFollows DEF LenientIsNoLower
<1>2. QED BY <1>1, ScoringInvariance, PTL

-----------------------------------------------------------------------------
(* The reward of a record with one error less.                             *)

\* A sharing of paths is worth no less for more that is right and less that is wrong.
LEMMA ShareGrows ==
    ASSUME NEW right \in Nat, NEW wrong \in Nat, NEW more \in Nat, NEW less \in Nat,
           NEW gold \in Nat, NEW w \in Nat, NEW l \in Nat,
           right <= more, less <= wrong, w <= l
    PROVE  LET before == right + wrong + gold
               after == more + less + gold
           IN  (l * after + 6 * more) * (5 * before) >= (w * before + 6 * right) * (5 * after)
<1> DEFINE before == right + wrong + gold
           after == more + less + gold
<1>1. right * after <= more * before
  <2>1. right * less <= more * wrong
    <3>1. right * less <= more * less
      OBVIOUS
    <3>2. more * less <= more * wrong
      OBVIOUS
    <3>3. right * less \in Nat /\ more * less \in Nat /\ more * wrong \in Nat
      OBVIOUS
    <3>4. QED BY <3>1, <3>2, <3>3
  <2>2. right * gold <= more * gold
    OBVIOUS
  <2>3. right * after = right * more + right * less + right * gold
    OBVIOUS
  <2>4. more * before = more * right + more * wrong + more * gold
    OBVIOUS
  <2>5. right * more = more * right
    OBVIOUS
  <2>6. /\ right * more \in Nat /\ right * less \in Nat /\ right * gold \in Nat
        /\ more * wrong \in Nat /\ more * gold \in Nat
    OBVIOUS
  <2> HIDE DEF before, after
  <2>7. QED BY <2>1, <2>2, <2>3, <2>4, <2>5, <2>6
<1>2. before \in Nat /\ after \in Nat
  OBVIOUS
<1> HIDE DEF before, after
<1>3. w * (after * before) <= l * (after * before)
  <2>1. after * before \in Nat
    BY <1>2
  <2>2. QED BY <2>1
<1>4. (l * after + 6 * more) * (5 * before) = 5 * (l * (after * before)) + 30 * (more * before)
  BY <1>2
<1>5. (w * before + 6 * right) * (5 * after) = 5 * (w * (after * before)) + 30 * (right * after)
  BY <1>2
<1>6. /\ w * (after * before) \in Nat /\ l * (after * before) \in Nat
      /\ more * before \in Nat /\ right * after \in Nat
  BY <1>2
<1>7. (l * after + 6 * more) * (5 * before) >= (w * before + 6 * right) * (5 * after)
  BY <1>1, <1>3, <1>4, <1>5, <1>6
<1>8. QED BY <1>7 DEF before, after

\* r has every path right that c has right, no wrong one that c has not, and no
\* violation that c has not.
Betters(r, c, gold) ==
    /\ Paths(c, gold) \cap GoldPaths(gold) \subseteq Paths(r, gold)
    /\ Paths(r, gold) \subseteq Paths(c, gold) \cup GoldPaths(gold)
    /\ Check(r) \subseteq Check(c)

\* Such a record is rewarded no less.
LEMMA BetterIsNoLower ==
    ASSUME IsFiniteSet(Scalars), NEW gold, Finite(gold), NEW c, Finite(c), NEW r, Finite(r),
           Betters(r, c, gold)
    PROVE  NoLower(Reward(Parsed(r), gold), Reward(Parsed(c), gold))
<1> DEFINE G == GoldPaths(gold)
           P == Paths(c, gold)
           Q == Paths(r, gold)
           worth(w) == Credit(TRUE, ParseWeight) + Credit(w = {}, SchemaWeight)
           a == Reward(Parsed(r), gold)
           b == Reward(Parsed(c), gold)
<1>1. IsFiniteSet(G) /\ IsFiniteSet(P) /\ IsFiniteSet(Q)
  BY GoldIsFinite, PathsAreFinite
<1>2. /\ P \cap G \subseteq Q \cap G /\ Q \ G \subseteq P \ G
      /\ Check(c) = {} => Check(r) = {}
  BY DEF Betters
<1>3. /\ a.num = worth(Check(r)) * (Cardinality(Q) + Cardinality(G)) + 6 * Cardinality(Q \cap G)
      /\ a.den = 5 * (Cardinality(Q) + Cardinality(G))
      /\ b.num = worth(Check(c)) * (Cardinality(P) + Cardinality(G)) + 6 * Cardinality(P \cap G)
      /\ b.den = 5 * (Cardinality(P) + Cardinality(G))
  <2>1. FieldWeight * 2 = 6 /\ TotalWeight = 5
    BY DEF FieldWeight, TotalWeight, ParseWeight, SchemaWeight
  <2>2. \A x : Parsed(x).ok = TRUE /\ Parsed(x).record = x
    BY DEF Parsed
  <2>3. \A x : /\ Reward(Parsed(x), gold).num =
                    worth(Check(x)) * (Cardinality(Paths(x, gold)) + Cardinality(G))
                      + FieldWeight * 2 * Cardinality(Paths(x, gold) \cap G)
               /\ Reward(Parsed(x), gold).den =
                    TotalWeight * (Cardinality(Paths(x, gold)) + Cardinality(G))
    BY <2>2 DEF Reward
  <2> HIDE DEF worth, G
  <2>4. QED BY <2>1, <2>3
<1>4. /\ worth(Check(c)) \in Nat /\ worth(Check(r)) \in Nat
      /\ worth(Check(c)) <= worth(Check(r))
  BY <1>2 DEF Credit, ParseWeight, SchemaWeight
<1> HIDE DEF G, P, Q, worth, a, b
<1>5. /\ Cardinality(P) = Cardinality(P \cap G) + Cardinality(P \ G)
      /\ Cardinality(Q) = Cardinality(Q \cap G) + Cardinality(Q \ G)
      /\ {Cardinality(P \cap G), Cardinality(P \ G), Cardinality(Q \cap G),
          Cardinality(Q \ G), Cardinality(G)} \subseteq Nat
      /\ Cardinality(P \cap G) <= Cardinality(Q \cap G)
      /\ Cardinality(Q \ G) <= Cardinality(P \ G)
  <2>1. /\ IsFiniteSet(P \cap G) /\ IsFiniteSet(P \ G)
        /\ IsFiniteSet(Q \cap G) /\ IsFiniteSet(Q \ G)
    BY <1>1, FS_Intersection, FS_Difference
  <2>2. /\ Cardinality(P \ G) = Cardinality(P) - Cardinality(P \cap G)
        /\ Cardinality(Q \ G) = Cardinality(Q) - Cardinality(Q \cap G)
    BY <1>1, FS_Difference
  <2>3. Cardinality(P \cap G) <= Cardinality(Q \cap G) /\ Cardinality(Q \ G) <= Cardinality(P \ G)
    BY <1>2, <2>1, FS_Subset
  <2>4. /\ Cardinality(P) \in Nat /\ Cardinality(Q) \in Nat /\ Cardinality(G) \in Nat
        /\ Cardinality(P \cap G) \in Nat /\ Cardinality(P \ G) \in Nat
        /\ Cardinality(Q \cap G) \in Nat /\ Cardinality(Q \ G) \in Nat
    BY <1>1, <2>1, FS_CardinalityType
  <2>5. QED BY <2>2, <2>3, <2>4
<1> DEFINE right == Cardinality(P \cap G)
           wrong == Cardinality(P \ G)
           more == Cardinality(Q \cap G)
           less == Cardinality(Q \ G)
           all == Cardinality(G)
           w == worth(Check(c))
           l == worth(Check(r))
<1>6. /\ right \in Nat /\ wrong \in Nat /\ more \in Nat /\ less \in Nat /\ all \in Nat
      /\ w \in Nat /\ l \in Nat /\ right <= more /\ less <= wrong /\ w <= l
      /\ a.num = l * (more + less + all) + 6 * more /\ a.den = 5 * (more + less + all)
      /\ b.num = w * (right + wrong + all) + 6 * right /\ b.den = 5 * (right + wrong + all)
  BY <1>3, <1>4, <1>5
<1> HIDE DEF right, wrong, more, less, all, w, l
<1>7. (l * (more + less + all) + 6 * more) * (5 * (right + wrong + all))
         >= (w * (right + wrong + all) + 6 * right) * (5 * (more + less + all))
  BY <1>6, ShareGrows
<1>8. QED BY <1>6, <1>7 DEF NoLower, a, b

-----------------------------------------------------------------------------
(* The paths of a record, kind by kind.                                    *)

Marked(x) == \E s, v : \/ x = <<"scalar", s, v>> \/ x = <<"product", s, v>> \/ x = <<"amount", s, v>>
                       \/ x = <<"member", s, "in">> \/ x = <<"junk", s, "any">>
                       \/ x = <<"key", "invented", "any">>

LEMMA FlatHas ==
    ASSUME NEW r, NEW slot
    PROVE  /\ \A x \in Flat(r, slot) : Marked(x)
           /\ \A s, v : <<"scalar", s, v>> \in Flat(r, slot) <=>
                  s \in Scalars /\ v = r.scalars[s] /\ v # "absent"
           /\ \A m : <<"member", m, "in">> \in Flat(r, slot) <=> m \in r.members
           /\ <<"key", "invented", "any">> \in Flat(r, slot) <=> r.invented
           /\ \A j, v : <<"product", j, v>> \in Flat(r, slot) <=>
                  \E i \in DOMAIN slot : slot[i] = j /\ v = r.items[i].product /\ v # None
           /\ \A j, v : <<"amount", j, v>> \in Flat(r, slot) <=>
                  \E i \in DOMAIN slot : slot[i] = j /\ v = r.items[i].amount /\ v # None
           /\ \A j : <<"junk", j, "any">> \in Flat(r, slot) <=>
                  \E i \in DOMAIN slot : slot[i] = j /\ r.items[i].invented
<1>1. \A x : x \in Flat(r, slot) <=>
         \/ \E s \in Scalars : r.scalars[s] # "absent" /\ x = <<"scalar", s, r.scalars[s]>>
         \/ \E m \in r.members : x = <<"member", m, "in">>
         \/ r.invented /\ x = <<"key", "invented", "any">>
         \/ \E i \in DOMAIN slot : /\ r.items[i].product # None
                                   /\ x = <<"product", slot[i], r.items[i].product>>
         \/ \E i \in DOMAIN slot : /\ r.items[i].amount # None
                                   /\ x = <<"amount", slot[i], r.items[i].amount>>
         \/ \E i \in DOMAIN slot : r.items[i].invented /\ x = <<"junk", slot[i], "any">>
  BY DEF Flat
<1>2. \A x \in Flat(r, slot) : Marked(x)
  BY <1>1 DEF Marked
<1>3. \A s, v : <<"scalar", s, v>> \in Flat(r, slot) <=>
                  s \in Scalars /\ v = r.scalars[s] /\ v # "absent"
  BY <1>1
<1>4. \A m : <<"member", m, "in">> \in Flat(r, slot) <=> m \in r.members
  BY <1>1
<1>5. <<"key", "invented", "any">> \in Flat(r, slot) <=> r.invented
  BY <1>1
<1>6. \A j, v : <<"product", j, v>> \in Flat(r, slot) <=>
                  \E i \in DOMAIN slot : slot[i] = j /\ v = r.items[i].product /\ v # None
  BY <1>1
<1>7. \A j, v : <<"amount", j, v>> \in Flat(r, slot) <=>
                  \E i \in DOMAIN slot : slot[i] = j /\ v = r.items[i].amount /\ v # None
  BY <1>1
<1>8. \A j : <<"junk", j, "any">> \in Flat(r, slot) <=>
                  \E i \in DOMAIN slot : slot[i] = j /\ r.items[i].invented
  BY <1>1
<1>9. QED BY <1>2, <1>3, <1>4, <1>5, <1>6, <1>7, <1>8

\* Gold states every scalar and every product, and invents nothing.
LEMMA GoldIsSound ==
    ASSUME NEW gold, Check(gold) = {}
    PROVE  /\ \A s \in Scalars : gold.scalars[s] \notin DOMAIN KindOf
           /\ \A j \in DOMAIN gold.items :
                 gold.items[j].product # None /\ ~gold.items[j].invented
           /\ ~gold.invented
<1>1. \A s \in Scalars : gold.scalars[s] \in DOMAIN KindOf => KindOf[gold.scalars[s]] \in Check(gold)
  BY DEF Check
<1>2. (\E j \in DOMAIN gold.items : gold.items[j].product = None)
         => "missing_field" \in Check(gold)
  BY DEF Check
<1>3. gold.invented \/ (\E j \in DOMAIN gold.items : gold.items[j].invented)
         => "extra_field" \in Check(gold)
  BY DEF Check
<1>4. QED BY <1>1, <1>2, <1>3

\* What gold's paths are.
LEMMA GoldHas ==
    ASSUME NEW gold, Check(gold) = {}
    PROVE  /\ \A x \in GoldPaths(gold) : Marked(x)
           /\ \A s, v : <<"scalar", s, v>> \in GoldPaths(gold) <=>
                  s \in Scalars /\ v = gold.scalars[s]
           /\ \A m : <<"member", m, "in">> \in GoldPaths(gold) <=> m \in gold.members
           /\ <<"key", "invented", "any">> \notin GoldPaths(gold)
           /\ \A j, v : <<"product", j, v>> \in GoldPaths(gold) <=>
                  j \in DOMAIN gold.items /\ v = gold.items[j].product
           /\ \A j, v : <<"amount", j, v>> \in GoldPaths(gold) <=>
                  j \in DOMAIN gold.items /\ v = gold.items[j].amount /\ v # None
           /\ \A j : <<"junk", j, "any">> \notin GoldPaths(gold)
<1> DEFINE slot == [j \in DOMAIN gold.items |-> j]
<1>1. GoldPaths(gold) = Flat(gold, slot) /\ DOMAIN slot = DOMAIN gold.items
      /\ \A j \in DOMAIN gold.items : slot[j] = j
  BY DEF GoldPaths
<1>2. "absent" \in DOMAIN KindOf
  BY DEF KindOf
<1> HIDE DEF slot
<1>3. QED BY <1>1, <1>2, FlatHas, GoldIsSound

\* Gold against a record, path by path.
LEMMA BetterPaths ==
    ASSUME NEW gold, NEW r, NEW c, Check(r) \subseteq Check(c),
           \A x : Marked(x) =>
              /\ x \in Paths(c, gold) /\ x \in GoldPaths(gold) => x \in Paths(r, gold)
              /\ x \in Paths(r, gold) => x \in Paths(c, gold) \/ x \in GoldPaths(gold)
    PROVE  Betters(r, c, gold)
<1>1. \A x \in Paths(c, gold) \cup Paths(r, gold) : Marked(x)
  BY FlatHas DEF Paths
<1>2. QED BY <1>1 DEF Betters

\* The items alone decide the alignment.
LEMMA SameItems ==
    ASSUME NEW gold, NEW r, NEW c, r.items = c.items
    PROVE  Alignment(r, gold) = Alignment(c, gold)
<1>1. Present(r) = Present(c)
  BY DEF Present
<1>2. \A i, j : Claims(gold, j, r, i) = Claims(gold, j, c, i)
  BY DEF Claims, Ordinal
<1>3. Claimed(r, gold) = Claimed(c, gold) /\ Filled(r, gold) = Filled(c, gold)
  BY <1>1, <1>2 DEF Claimed, Filled
<1>4. QED BY <1>1, <1>3 DEF Alignment, Claims, Ordinal

\* A scalar set right.
LEMMA ScalarRepaired ==
    ASSUME NEW gold, Check(gold) = {}, NEW c, IsRecord(c), NEW s \in Scalars
    PROVE  Betters([c EXCEPT !.scalars[s] = gold.scalars[s]], c, gold)
<1> DEFINE r == [c EXCEPT !.scalars[s] = gold.scalars[s]]
<1>1. /\ r.items = c.items /\ r.members = c.members /\ r.invented = c.invented
      /\ \A o \in Scalars : r.scalars[o] = IF o = s THEN gold.scalars[s] ELSE c.scalars[o]
  BY DEF IsRecord
<1> HIDE DEF r
<1>2. Alignment(r, gold) = Alignment(c, gold)
  BY <1>1, SameItems
<1>3. Check(r) \subseteq Check(c)
  <2>1. \A o \in Scalars : r.scalars[o] \in DOMAIN KindOf => r.scalars[o] = c.scalars[o]
    BY <1>1, GoldIsSound
  <2>2. QED BY <1>1, <2>1 DEF Check
<1> DEFINE slot == Alignment(c, gold)
<1>4. Paths(r, gold) = Flat(r, slot) /\ Paths(c, gold) = Flat(c, slot)
  BY <1>2 DEF Paths
<1> HIDE DEF slot
<1>5. ASSUME NEW x, Marked(x)
      PROVE  /\ x \in Flat(c, slot) /\ x \in GoldPaths(gold) => x \in Flat(r, slot)
             /\ x \in Flat(r, slot) => x \in Flat(c, slot) \/ x \in GoldPaths(gold)
  <2>1. gold.scalars[s] # "absent"
    BY GoldIsSound DEF KindOf
  <2>2. CASE \E o, v : x = <<"scalar", o, v>>
    BY <1>1, <2>1, <2>2, FlatHas, GoldHas
  <2>3. CASE x \in Flat(c, slot) <=> x \in Flat(r, slot)
    BY <2>3
  <2>4. QED BY <1>1, <1>5, <2>2, <2>3, FlatHas DEF Marked
<1>6. Betters(r, c, gold)
  BY <1>3, <1>4, <1>5, BetterPaths
<1>7. QED BY <1>6 DEF r

\* A member that belongs, or one that does not.
LEMMA MembersRepaired ==
    ASSUME NEW gold, Check(gold) = {}, NEW c, IsRecord(c), NEW r,
           r.scalars = c.scalars, r.items = c.items, r.invented = c.invented,
           c.members \cap gold.members \subseteq r.members,
           r.members \subseteq c.members \cup gold.members
    PROVE  Betters(r, c, gold)
<1>2. Alignment(r, gold) = Alignment(c, gold)
  BY SameItems
<1>3. Check(r) \subseteq Check(c)
  BY DEF Check
<1> DEFINE slot == Alignment(c, gold)
<1>4. Paths(r, gold) = Flat(r, slot) /\ Paths(c, gold) = Flat(c, slot)
  BY <1>2 DEF Paths
<1> HIDE DEF slot
<1>5. ASSUME NEW x, Marked(x)
      PROVE  /\ x \in Flat(c, slot) /\ x \in GoldPaths(gold) => x \in Flat(r, slot)
             /\ x \in Flat(r, slot) => x \in Flat(c, slot) \/ x \in GoldPaths(gold)
  <2>1. CASE \E m : x = <<"member", m, "in">>
    BY <2>1, FlatHas, GoldHas
  <2>2. CASE x \in Flat(c, slot) <=> x \in Flat(r, slot)
    BY <2>2
  <2>3. QED BY <1>5, <2>1, <2>2, FlatHas DEF Marked
<1>6. QED BY <1>3, <1>4, <1>5, BetterPaths

\* No invented key.
LEMMA KeyDeleted ==
    ASSUME NEW gold, Check(gold) = {}, NEW c, IsRecord(c)
    PROVE  Betters([c EXCEPT !.invented = FALSE], c, gold)
<1> DEFINE r == [c EXCEPT !.invented = FALSE]
<1>1. r.items = c.items /\ r.members = c.members /\ r.scalars = c.scalars /\ ~r.invented
  BY DEF IsRecord
<1> HIDE DEF r
<1>2. Alignment(r, gold) = Alignment(c, gold)
  BY <1>1, SameItems
<1>3. Check(r) \subseteq Check(c)
  BY <1>1 DEF Check
<1> DEFINE slot == Alignment(c, gold)
<1>4. Paths(r, gold) = Flat(r, slot) /\ Paths(c, gold) = Flat(c, slot)
  BY <1>2 DEF Paths
<1> HIDE DEF slot
<1>5. ASSUME NEW x, Marked(x)
      PROVE  /\ x \in Flat(c, slot) /\ x \in GoldPaths(gold) => x \in Flat(r, slot)
             /\ x \in Flat(r, slot) => x \in Flat(c, slot) \/ x \in GoldPaths(gold)
  <2>1. CASE x = <<"key", "invented", "any">>
    BY <1>1, <2>1, FlatHas, GoldHas
  <2>2. CASE x \in Flat(c, slot) <=> x \in Flat(r, slot)
    BY <2>2
  <2>3. QED BY <1>1, <1>5, <2>1, <2>2, FlatHas DEF Marked
<1>6. Betters(r, c, gold)
  BY <1>3, <1>4, <1>5, BetterPaths
<1>7. QED BY <1>6 DEF r

\* The product or the amount of an item made that of its slot, all else being equal.
LEMMA ItemRepaired ==
    ASSUME NEW gold, Check(gold) = {}, NEW c, NEW r, NEW slot, NEW i \in DOMAIN slot,
           Alignment(r, gold) = slot, Alignment(c, gold) = slot,
           slot[i] \in DOMAIN gold.items, DOMAIN slot \subseteq DOMAIN c.items,
           r.scalars = c.scalars, r.members = c.members, r.invented = c.invented,
           DOMAIN r.items = DOMAIN c.items,
           \A h \in DOMAIN c.items \ {i} : r.items[h] = c.items[h],
           r.items[i].invented = c.items[i].invented,
           \/ /\ r.items[i].product = gold.items[slot[i]].product
              /\ r.items[i].amount = c.items[i].amount
           \/ /\ r.items[i].product = c.items[i].product
              /\ r.items[i].amount = gold.items[slot[i]].amount
    PROVE  Betters(r, c, gold)
<1>1. Paths(r, gold) = Flat(r, slot) /\ Paths(c, gold) = Flat(c, slot)
  BY DEF Paths
<1>2. /\ gold.items[slot[i]].product # None
      /\ r.items[i].product = c.items[i].product \/ r.items[i].product = gold.items[slot[i]].product
      /\ r.items[i].amount = c.items[i].amount \/ r.items[i].amount = gold.items[slot[i]].amount
  BY GoldIsSound
<1>3. Check(r) \subseteq Check(c)
  <2>1. \A h \in DOMAIN r.items : /\ r.items[h].product = None => c.items[h].product = None
                                  /\ r.items[h].invented => c.items[h].invented
    BY <1>2
  <2>2. QED BY <2>1 DEF Check
<1>4. ASSUME NEW x, Marked(x)
      PROVE  /\ x \in Flat(c, slot) /\ x \in GoldPaths(gold) => x \in Flat(r, slot)
             /\ x \in Flat(r, slot) => x \in Flat(c, slot) \/ x \in GoldPaths(gold)
  <2>1. CASE \E j, v : x = <<"product", j, v>>
    <3>1. PICK j, v : x = <<"product", j, v>>
      BY <2>1
    <3>2. x \in Flat(c, slot) /\ x \in GoldPaths(gold) => x \in Flat(r, slot)
      BY <1>2, <3>1, FlatHas, GoldHas
    <3>3. x \in Flat(r, slot) => x \in Flat(c, slot) \/ x \in GoldPaths(gold)
      BY <1>2, <3>1, FlatHas, GoldHas
    <3>4. QED BY <3>2, <3>3
  <2>2. CASE \E j, v : x = <<"amount", j, v>>
    <3>1. PICK j, v : x = <<"amount", j, v>>
      BY <2>2
    <3>2. x \in Flat(c, slot) /\ x \in GoldPaths(gold) => x \in Flat(r, slot)
      BY <1>2, <3>1, FlatHas, GoldHas
    <3>3. x \in Flat(r, slot) => x \in Flat(c, slot) \/ x \in GoldPaths(gold)
      BY <1>2, <3>1, FlatHas, GoldHas
    <3>4. QED BY <3>2, <3>3
  <2>3. CASE \E j : x = <<"junk", j, "any">>
    BY <2>3, FlatHas
  <2>4. CASE \E s, v : x = <<"scalar", s, v>> \/ x = <<"member", s, "in">> \/ x = <<"key", "invented", "any">>
    BY <2>4, FlatHas
  <2>5. QED BY <1>4, <2>1, <2>2, <2>3, <2>4 DEF Marked
<1>5. QED BY <1>1, <1>3, <1>4, BetterPaths

-----------------------------------------------------------------------------
(* Places in order.                                                        *)

\* Of a finite set of numbers the nth is one, and the later the higher.
LEMMA NthIs ==
    ASSUME NEW S, S \subseteq Nat, IsFiniteSet(S)
    PROVE  /\ \A a \in Nat : Nth(a, S) \in Nat
           /\ \A a \in S : Nth(a, S) \in 1..Cardinality(S)
           /\ \A a, b \in S : a < b <=> Nth(a, S) < Nth(b, S)
           /\ \A n \in 1..Cardinality(S) : \E a \in S : Nth(a, S) = n
<1> DEFINE upto(a) == {h \in S : h <= a}
<1>1. \A a : IsFiniteSet(upto(a)) /\ Cardinality(upto(a)) <= Cardinality(S)
  BY FS_Subset
<1>2. \A a : Nth(a, S) = Cardinality(upto(a)) /\ Nth(a, S) \in Nat
  BY <1>1, FS_CardinalityType DEF Nth
<1>3. ASSUME NEW a \in S PROVE Nth(a, S) \in 1..Cardinality(S)
  <2>1. a \in upto(a)
    OBVIOUS
  <2>2. Cardinality(upto(a)) # 0
    BY <1>1, <2>1, FS_EmptySet
  <2>3. Cardinality(S) \in Nat
    BY FS_CardinalityType
  <2> HIDE DEF upto
  <2>4. QED BY <1>1, <1>2, <2>2, <2>3
<1>4. ASSUME NEW a \in S, NEW b \in S, a < b PROVE Nth(a, S) < Nth(b, S)
  <2>1. upto(a) \in SUBSET upto(b) /\ b \in upto(b) /\ b \notin upto(a)
    <3>1. /\ a \in Nat /\ b \in Nat /\ ~(b <= a) /\ b <= b
          /\ \A h \in S : h <= a => h <= b
      BY <1>4
    <3>2. QED BY <3>1
  <2> HIDE DEF upto
  <2>2. Cardinality(upto(a)) <= Cardinality(upto(b)) /\ Cardinality(upto(a)) # Cardinality(upto(b))
    BY <1>1, <2>1, FS_Subset
  <2>3. QED BY <1>2, <2>2
<1>5. \A a, b \in S : a < b <=> Nth(a, S) < Nth(b, S)
  <2> SUFFICES ASSUME NEW a \in S, NEW b \in S PROVE a < b <=> Nth(a, S) < Nth(b, S)
    OBVIOUS
  <2>1. a < b \/ a = b \/ b < a
    OBVIOUS
  <2>2. QED BY <1>2, <1>4, <2>1
<1>6. \A n \in 1..Cardinality(S) : \E a \in S : Nth(a, S) = n
  <2> DEFINE N == Cardinality(S)
             f == [a \in S |-> Nth(a, S)]
  <2>1. N \in Nat
    BY FS_CardinalityType
  <2>2. IsFiniteSet(1..N) /\ Cardinality(1..N) = N
    BY <2>1, FS_Interval
  <2>3. f \in [S -> 1..N]
    BY <1>3
  <2>4. \A a, b \in S : f[a] = f[b] => a = b
    <3> SUFFICES ASSUME NEW a \in S, NEW b \in S, f[a] = f[b] PROVE a = b
      OBVIOUS
    <3>1. Nth(a, S) = Nth(b, S)
      OBVIOUS
    <3>2. ~(a < b) /\ ~(b < a)
      BY <1>2, <1>5, <3>1
    <3>3. QED BY <3>2
  <2>5. f \in Injection(S, 1..N)
    BY <2>3, <2>4 DEF Injection, IsInjective
  <2> DEFINE T == 1..N
  <2>6. f \in Surjection(S, T)
    <3> HIDE DEF f, N
    <3>1. Cardinality(S) = Cardinality(T)
      BY <2>2 DEF N
    <3>2. f \in Injection(S, T) /\ IsFiniteSet(T)
      BY <2>2, <2>5
    <3> HIDE DEF T
    <3>3. QED BY <3>1, <3>2, FS_Injection
  <2>7. QED BY <2>6 DEF Surjection
<1>7. QED BY <1>2, <1>3, <1>5, <1>6

\* Without one of them those after it move up.
LEMMA NthWithout ==
    ASSUME NEW S, S \subseteq Nat, IsFiniteSet(S), NEW i \in S, NEW h \in S \ {i}
    PROVE  Nth(h, S \ {i}) = (IF i < h THEN Nth(h, S) - 1 ELSE Nth(h, S))
<1> DEFINE upto == {o \in S : o <= h}
<1>1. IsFiniteSet(upto)
  BY FS_Subset
<1>2. {o \in S \ {i} : o <= h} = upto \ {i} /\ (i \in upto <=> i < h)
  OBVIOUS
<1> HIDE DEF upto
<1>3. Cardinality(upto \ {i}) = IF i \in upto THEN Cardinality(upto) - 1 ELSE Cardinality(upto)
  BY <1>1, FS_RemoveElement
<1>4. Nth(h, S) = Cardinality(upto) /\ Nth(h, S \ {i}) = Cardinality(upto \ {i})
  BY <1>2 DEF Nth, upto
<1>5. QED BY <1>2, <1>3, <1>4

\* The first item of its product.
FirstOf(r, i) == \A h \in 1..i - 1 : r.items[h].product # r.items[i].product

LEMMA OrdinalOne ==
    ASSUME NEW r, NEW i \in Nat \ {0}
    PROVE  Ordinal(r, i) = 1 <=> FirstOf(r, i)
<1> DEFINE S == {h \in 1..i : r.items[h].product = r.items[i].product}
<1>1. IsFiniteSet(1..i)
  BY FS_Interval
<1>2. IsFiniteSet(S)
  BY <1>1, FS_Subset
<1>3. i \in S
  OBVIOUS
<1>4. Cardinality(S) = 1 <=> S = {i}
  <2> HIDE DEF S
  <2>1. Cardinality(S) = 1 => S = {i}
    <3> SUFFICES ASSUME Cardinality(S) = 1 PROVE S = {i}
      OBVIOUS
    <3>1. PICK x : S = {x}
      BY <1>2, FS_Singleton
    <3>2. QED BY <1>3, <3>1
  <2>2. S = {i} => Cardinality(S) = 1
    BY FS_Singleton
  <2>3. QED BY <2>1, <2>2
<1>5. S = {i} <=> FirstOf(r, i)
  <2>1. S = {i} => FirstOf(r, i)
    BY DEF FirstOf
  <2>2. ASSUME FirstOf(r, i) PROVE S = {i}
    <3>1. \A h \in S : h = i
      <4> SUFFICES ASSUME NEW h \in S PROVE h = i
        OBVIOUS
      <4>1. h \in 1..i /\ h \notin 1..i - 1
        BY <2>2 DEF FirstOf
      <4>2. QED BY <4>1
    <3>2. QED BY <1>3, <3>1
  <2>3. QED BY <2>1, <2>2
<1>6. QED BY <1>4, <1>5 DEF Ordinal

\* What the proofs use of a gold record's products.
ToldApart(gold) ==
    /\ Listed(gold)
    /\ \A j \in DOMAIN gold.items : gold.items[j].product # None
    /\ \A j, w \in DOMAIN gold.items :
          j # w => gold.items[j].product # gold.items[w].product

\* A slot claims the first item of its product.
LEMMA ClaimsAre ==
    ASSUME NEW gold, ToldApart(gold), NEW c, Listed(c),
           NEW j \in DOMAIN gold.items, NEW i \in DOMAIN c.items
    PROVE  Claims(gold, j, c, i) <=>
               c.items[i].product = gold.items[j].product /\ FirstOf(c, i)
<1>1. j \in Nat \ {0} /\ i \in Nat \ {0}
  BY DEF ToldApart, Listed
<1>2. FirstOf(gold, j)
  <2> SUFFICES ASSUME NEW h \in 1..j - 1
               PROVE  gold.items[h].product # gold.items[j].product
    BY DEF FirstOf
  <2>1. h \in DOMAIN gold.items /\ h # j
    BY DEF ToldApart, Listed
  <2>2. QED BY <2>1 DEF ToldApart
<1>3. Ordinal(gold, j) = 1
  BY <1>1, <1>2, OrdinalOne
<1>4. Ordinal(c, i) = 1 <=> FirstOf(c, i)
  BY <1>1, OrdinalOne
<1>5. QED BY <1>3, <1>4 DEF Claims

\* An unfilled slot's product is that of no item.
LEMMA UnfilledIsMissing ==
    ASSUME NEW gold, ToldApart(gold), NEW c, Listed(c),
           NEW j \in DOMAIN gold.items, j \notin Filled(c, gold)
    PROVE  \A h \in DOMAIN c.items : c.items[h].product # gold.items[j].product
<1> DEFINE such == {h \in DOMAIN c.items : c.items[h].product = gold.items[j].product}
           least == Min(such)
<1>1. SUFFICES ASSUME such # {} PROVE FALSE
  OBVIOUS
<1>2. such \subseteq Nat
  BY DEF Listed
<1>3. least \in such /\ \A n \in such : least <= n
  <2> HIDE DEF such
  <2>1. QED BY <1>1, <1>2, LeastIs
<1> HIDE DEF least
<1>4. least \in DOMAIN c.items /\ c.items[least].product = gold.items[j].product
  BY <1>3
<1>5. FirstOf(c, least)
  <2> SUFFICES ASSUME NEW h \in 1..least - 1, c.items[h].product = c.items[least].product
               PROVE  FALSE
    BY DEF FirstOf
  <2>1. h \in DOMAIN c.items /\ h < least
    BY <1>4 DEF Listed
  <2>2. h \in such
    BY <1>4, <2>1
  <2>3. least <= h /\ least \in Nat /\ h \in Nat
    BY <1>2, <1>3, <2>2
  <2>4. QED BY <2>1, <2>3
<1>6. least \in Present(c)
  BY <1>4 DEF Present, ToldApart
<1>7. Claims(gold, j, c, least)
  BY <1>4, <1>5, ClaimsAre
<1>8. QED BY <1>6, <1>7 DEF Filled

\* One slot claims an item, and the items left over fill the slots left over in order.
LEMMA AlignmentIs ==
    ASSUME NEW gold, ToldApart(gold), NEW c, Listed(c), NEW i \in Present(c)
    PROVE  LET items == Present(c) \ Claimed(c, gold)
               slots == DOMAIN gold.items \ Filled(c, gold)
           IN  /\ \A j \in DOMAIN gold.items :
                     Claims(gold, j, c, i) => Alignment(c, gold)[i] = j
               /\ i \in items /\ Nth(i, items) <= Cardinality(slots) =>
                     /\ Alignment(c, gold)[i] \in slots
                     /\ Nth(Alignment(c, gold)[i], slots) = Nth(i, items)
                     /\ \A j \in slots :
                           Nth(j, slots) = Nth(i, items) => j = Alignment(c, gold)[i]
               /\ i \in items /\ ~(Nth(i, items) <= Cardinality(slots)) =>
                     Alignment(c, gold)[i]
                        = Len(gold.items) + Nth(i, items) - Cardinality(slots)
<1> DEFINE items == Present(c) \ Claimed(c, gold)
           slots == DOMAIN gold.items \ Filled(c, gold)
           claim == CHOOSE j \in DOMAIN gold.items : Claims(gold, j, c, i)
           spare == CHOOSE j \in slots : Nth(j, slots) = Nth(i, items)
           past == Len(gold.items) + Nth(i, items) - Cardinality(slots)
           P == i \in Claimed(c, gold)
           Q == i \in items /\ Nth(i, items) <= Cardinality(slots)
           arms == CASE P -> claim [] Q -> spare [] OTHER -> past
<1>1. Alignment(c, gold)[i] = arms
  BY DEF Alignment
<1>2. ~(P /\ Q)
  OBVIOUS
<1>3. /\ P => arms = claim
      /\ Q => arms = spare
      /\ ~P /\ ~Q => arms = past
  <2> HIDE DEF P, Q, claim, spare, past
  <2>1. QED BY <1>2
<1>4. Present(c) \subseteq DOMAIN c.items
  BY DEF Present
<1>5. ASSUME NEW j \in DOMAIN gold.items, Claims(gold, j, c, i)
      PROVE  P /\ claim = j
  <2>1. P
    BY <1>5 DEF Claimed
  <2>2. \A w \in DOMAIN gold.items : Claims(gold, w, c, i) => w = j
    <3> SUFFICES ASSUME NEW w \in DOMAIN gold.items, Claims(gold, w, c, i) PROVE w = j
      OBVIOUS
    <3>1. gold.items[w].product = gold.items[j].product
      BY <1>4, <1>5, ClaimsAre
    <3>2. QED BY <3>1 DEF ToldApart
  <2>3. QED BY <1>5, <2>1, <2>2
<1>6. /\ slots \subseteq Nat /\ IsFiniteSet(slots)
      /\ items \subseteq Nat /\ IsFiniteSet(items)
  <2>1. IsFiniteSet(DOMAIN gold.items) /\ IsFiniteSet(DOMAIN c.items)
    BY FS_Interval DEF ToldApart, Listed
  <2>2. slots \subseteq DOMAIN gold.items /\ items \subseteq DOMAIN c.items
    BY <1>4
  <2> HIDE DEF slots, items
  <2>3. IsFiniteSet(slots) /\ IsFiniteSet(items)
    BY <2>1, <2>2, FS_Subset
  <2>4. QED BY <2>2, <2>3 DEF ToldApart, Listed
<1>7. ASSUME Q
      PROVE  /\ spare \in slots /\ Nth(spare, slots) = Nth(i, items)
             /\ \A j \in slots : Nth(j, slots) = Nth(i, items) => j = spare
  <2> HIDE DEF slots, items
  <2>1. Nth(i, items) \in 1..Cardinality(slots)
    <3>1. Nth(i, items) \in 1..Cardinality(items) /\ Cardinality(items) \in Nat
      BY <1>6, <1>7, NthIs, FS_CardinalityType
    <3>2. Cardinality(slots) \in Nat
      BY <1>6, FS_CardinalityType
    <3>3. QED BY <1>7, <3>1, <3>2
  <2>2. \E j \in slots : Nth(j, slots) = Nth(i, items)
    BY <1>6, <2>1, NthIs
  <2>3. spare \in slots /\ Nth(spare, slots) = Nth(i, items)
    BY <2>2
  <2> HIDE DEF spare
  <2>4. ASSUME NEW j \in slots, Nth(j, slots) = Nth(i, items) PROVE j = spare
    <3>1. /\ j < spare <=> Nth(j, slots) < Nth(spare, slots)
          /\ spare < j <=> Nth(spare, slots) < Nth(j, slots)
      BY <1>6, <2>3, NthIs
    <3>2. Nth(j, slots) \in Nat /\ j \in Nat /\ spare \in Nat
      BY <1>6, <2>3, NthIs
    <3>3. QED BY <2>3, <2>4, <3>1, <3>2
  <2>5. QED BY <2>3, <2>4
<1> HIDE DEF claim, spare, past, arms
<1>8. i \in items /\ ~(Nth(i, items) <= Cardinality(slots)) => ~P /\ ~Q
  OBVIOUS
<1>9. QED BY <1>1, <1>3, <1>5, <1>7, <1>8 DEF past

\* No two items are judged against one slot.
LEMMA SlotsDiffer ==
    ASSUME NEW gold, ToldApart(gold), NEW c, Listed(c),
           NEW h \in Present(c), NEW i \in Present(c), h # i
    PROVE  Alignment(c, gold)[h] # Alignment(c, gold)[i]
<1> DEFINE items == Present(c) \ Claimed(c, gold)
           slots == DOMAIN gold.items \ Filled(c, gold)
           a == Alignment(c, gold)[h]
           b == Alignment(c, gold)[i]
<1>1. /\ Present(c) \subseteq DOMAIN c.items
      /\ DOMAIN gold.items = 1..Len(gold.items) /\ Len(gold.items) \in Nat
      /\ DOMAIN c.items = 1..Len(c.items) /\ Len(c.items) \in Nat
  BY DEF Present, ToldApart, Listed
<1>2. /\ items \subseteq Nat /\ IsFiniteSet(items) /\ Cardinality(slots) \in Nat
  <2>1. ASSUME NEW n \in Nat PROVE IsFiniteSet(1..n)
    BY FS_Interval
  <2>2. IsFiniteSet(DOMAIN gold.items) /\ IsFiniteSet(DOMAIN c.items)
    BY <1>1, <2>1
  <2>3. slots \subseteq DOMAIN gold.items /\ items \subseteq DOMAIN c.items
    BY <1>1
  <2> HIDE DEF slots, items
  <2>4. IsFiniteSet(slots) /\ IsFiniteSet(items)
    BY <2>2, <2>3, FS_Subset
  <2>5. QED BY <1>1, <2>3, <2>4, FS_CardinalityType
<1>3. ASSUME NEW o \in Present(c)
      PROVE  \/ /\ o \in Claimed(c, gold) /\ Alignment(c, gold)[o] \in Filled(c, gold)
                /\ Claims(gold, Alignment(c, gold)[o], c, o)
             \/ /\ o \in items /\ Alignment(c, gold)[o] \in slots
                /\ Nth(Alignment(c, gold)[o], slots) = Nth(o, items)
             \/ /\ o \in items /\ Nth(o, items) > Cardinality(slots)
                /\ Alignment(c, gold)[o] = Len(gold.items) + Nth(o, items) - Cardinality(slots)
  <2>1. CASE o \in Claimed(c, gold)
    <3>1. PICK j \in DOMAIN gold.items : Claims(gold, j, c, o)
      BY <2>1 DEF Claimed
    <3>2. Alignment(c, gold)[o] = j
      BY <3>1, AlignmentIs
    <3>3. j \in Filled(c, gold)
      BY <3>1 DEF Filled
    <3>4. QED BY <2>1, <3>1, <3>2, <3>3
  <2>2. CASE o \in items
    <3> HIDE DEF items, slots
    <3>1. Nth(o, items) \in Nat
      BY <1>2, <2>2, NthIs
    <3>2. CASE Nth(o, items) <= Cardinality(slots)
      BY <2>2, <3>2, AlignmentIs DEF items, slots
    <3>3. CASE ~(Nth(o, items) <= Cardinality(slots))
      <4>1. Alignment(c, gold)[o] = Len(gold.items) + Nth(o, items) - Cardinality(slots)
        BY <2>2, <3>3, AlignmentIs DEF items, slots
      <4>2. Nth(o, items) > Cardinality(slots)
        BY <1>2, <3>1, <3>3
      <4>3. QED BY <2>2, <4>1, <4>2
    <3>4. QED BY <3>2, <3>3
  <2>3. QED BY <2>1, <2>2
<1>4. CASE Claims(gold, a, c, h) /\ Claims(gold, b, c, i) /\ {a, b} \subseteq Filled(c, gold)
  <2> SUFFICES ASSUME a = b PROVE FALSE
    OBVIOUS
  <2>1. a \in DOMAIN gold.items /\ h \in DOMAIN c.items /\ i \in DOMAIN c.items
    BY <1>1, <1>4 DEF Filled
  <2> HIDE DEF a, b
  <2>2. /\ c.items[h].product = c.items[i].product
        /\ FirstOf(c, h) /\ FirstOf(c, i)
    BY <1>4, <2>1, ClaimsAre
  <2>3. h \in 1..i - 1 \/ i \in 1..h - 1
    BY <1>1, <2>1
  <2>4. QED BY <2>2, <2>3 DEF FirstOf
<1>5. CASE h \in items /\ i \in items
  <2>1. /\ Nth(h, items) \in Nat /\ Nth(i, items) \in Nat
        /\ Nth(h, items) # Nth(i, items)
    <3> HIDE DEF items
    <3>1. h \in Nat /\ i \in Nat /\ Nth(h, items) \in Nat /\ Nth(i, items) \in Nat
      BY <1>2, <1>5, NthIs
    <3>2. /\ h < i <=> Nth(h, items) < Nth(i, items)
          /\ i < h <=> Nth(i, items) < Nth(h, items)
      BY <1>2, <1>5, NthIs
    <3>3. QED BY <3>1, <3>2
  <2>2. h \notin Claimed(c, gold) /\ i \notin Claimed(c, gold)
    BY <1>5
  <2>3. slots \subseteq 1..Len(gold.items)
    BY <1>1
  <2>4. \/ a \in slots /\ Nth(a, slots) = Nth(h, items)
        \/ /\ Nth(h, items) > Cardinality(slots)
           /\ a = Len(gold.items) + Nth(h, items) - Cardinality(slots)
    BY <1>3, <2>2
  <2>5. \/ b \in slots /\ Nth(b, slots) = Nth(i, items)
        \/ /\ Nth(i, items) > Cardinality(slots)
           /\ b = Len(gold.items) + Nth(i, items) - Cardinality(slots)
    BY <1>3, <2>2
  <2> HIDE DEF a, b, items, slots
  <2>6. a # b
    BY <1>1, <1>2, <2>1, <2>3, <2>4, <2>5
  <2>7. QED BY <2>6 DEF a, b
<1>6. ASSUME NEW x \in Present(c), NEW y \in Present(c), x \in Claimed(c, gold), y \in items
      PROVE  Alignment(c, gold)[x] # Alignment(c, gold)[y]
  <2>1. Alignment(c, gold)[x] \in Filled(c, gold) /\ Filled(c, gold) \subseteq 1..Len(gold.items)
    BY <1>1, <1>3, <1>6 DEF Filled
  <2>2. \/ Alignment(c, gold)[y] \in slots
        \/ /\ Nth(y, items) > Cardinality(slots)
           /\ Alignment(c, gold)[y] = Len(gold.items) + Nth(y, items) - Cardinality(slots)
    BY <1>3, <1>6
  <2>3. Nth(y, items) \in Nat
    <3> HIDE DEF items
    <3>1. QED BY <1>2, <1>6, NthIs
  <2>4. CASE Alignment(c, gold)[y] \in slots
    BY <2>1, <2>4
  <2> DEFINE n == Nth(y, items)
             m == Cardinality(slots)
             z == Alignment(c, gold)[y]
  <2>5. CASE n > m /\ z = Len(gold.items) + n - m
    <3> HIDE DEF n, m, z
    <3>1. z > Len(gold.items)
      BY <1>1, <1>2, <2>3, <2>5 DEF n, m
    <3>2. QED BY <1>1, <2>1, <3>1 DEF z
  <2>6. QED BY <2>2, <2>4, <2>5
<1>7. CASE h \in Claimed(c, gold) /\ i \in Claimed(c, gold)
  <2>1. /\ Claims(gold, a, c, h) /\ a \in Filled(c, gold)
        /\ Claims(gold, b, c, i) /\ b \in Filled(c, gold)
    BY <1>3, <1>7
  <2>2. QED BY <1>4, <2>1
<1>8. QED BY <1>5, <1>6, <1>7

\* An item left over that takes the product of the slot it fills is claimed by it; no
\* other item gains or loses a slot.
LEMMA NamingKeepsSlots ==
    ASSUME NEW gold, ToldApart(gold), NEW c, Listed(c), NEW r, Listed(r),
           NEW i \in Present(c), Alignment(c, gold)[i] \in DOMAIN gold.items,
           DOMAIN r.items = DOMAIN c.items,
           \A h \in DOMAIN c.items \ {i} : r.items[h] = c.items[h],
           r.items[i].product = gold.items[Alignment(c, gold)[i]].product,
           i \notin Claimed(c, gold)
    PROVE  Alignment(r, gold) = Alignment(c, gold)
<1> DEFINE j == Alignment(c, gold)[i]
           items == Present(c) \ Claimed(c, gold)
           slots == DOMAIN gold.items \ Filled(c, gold)
           items2 == Present(r) \ Claimed(r, gold)
           slots2 == DOMAIN gold.items \ Filled(r, gold)
<1>1. /\ slots \subseteq Nat /\ IsFiniteSet(slots) /\ Cardinality(slots) \in Nat
      /\ items \subseteq Nat /\ IsFiniteSet(items) /\ Cardinality(items) \in Nat
      /\ Present(c) \subseteq DOMAIN c.items
  <2>1. IsFiniteSet(DOMAIN gold.items) /\ IsFiniteSet(DOMAIN c.items)
    <3>1. /\ DOMAIN gold.items = 1..Len(gold.items) /\ Len(gold.items) \in Nat
          /\ DOMAIN c.items = 1..Len(c.items) /\ Len(c.items) \in Nat
      BY DEF ToldApart, Listed
    <3>2. ASSUME NEW n \in Nat PROVE IsFiniteSet(1..n)
      BY FS_Interval
    <3>3. QED BY <3>1, <3>2
  <2>2. slots \subseteq DOMAIN gold.items /\ items \subseteq DOMAIN c.items
        /\ Present(c) \subseteq DOMAIN c.items
    BY DEF Present
  <2> HIDE DEF slots, items
  <2>3. IsFiniteSet(slots) /\ IsFiniteSet(items)
    BY <2>1, <2>2, FS_Subset
  <2>4. QED BY <2>2, <2>3, FS_CardinalityType DEF ToldApart, Listed
<1>2. i \in items /\ i \in DOMAIN c.items /\ j \in DOMAIN gold.items
  BY DEF Present
<1>3. Nth(i, items) <= Cardinality(slots) /\ j \in slots /\ Nth(j, slots) = Nth(i, items)
  <2> HIDE DEF items, slots
  <2>1. Nth(i, items) \in Nat
    BY <1>1, <1>2, NthIs
  <2>2. CASE Nth(i, items) <= Cardinality(slots)
    BY <1>2, <2>2, AlignmentIs DEF items, slots
  <2>3. CASE ~(Nth(i, items) <= Cardinality(slots))
    <3>1. j = Len(gold.items) + Nth(i, items) - Cardinality(slots)
      BY <1>2, <2>3, AlignmentIs DEF items, slots
    <3>2. j > Len(gold.items)
      BY <1>1, <2>1, <2>3, <3>1 DEF ToldApart, Listed
    <3>3. QED BY <1>2, <3>2 DEF ToldApart, Listed
  <2>4. QED BY <2>2, <2>3
<1>4. \A h \in DOMAIN c.items : c.items[h].product # gold.items[j].product
  BY <1>2, <1>3, UnfilledIsMissing
<1>5. Present(r) = Present(c)
  <2>1. i \in Present(r)
    BY <1>2 DEF Present, ToldApart
  <2>2. QED BY <2>1 DEF Present
<1>6. ASSUME NEW h \in DOMAIN c.items, h # i, NEW w \in DOMAIN gold.items
      PROVE  Claims(gold, w, r, h) <=> Claims(gold, w, c, h)
  <2>1. /\ Claims(gold, w, c, h) <=> c.items[h].product = gold.items[w].product /\ FirstOf(c, h)
        /\ Claims(gold, w, r, h) <=> r.items[h].product = gold.items[w].product /\ FirstOf(r, h)
    BY ClaimsAre
  <2>2. r.items[h] = c.items[h]
    BY <1>6
  <2>3. \A o \in 1..h - 1 : o \in DOMAIN c.items /\ o # h
    BY DEF Listed
  <2>4. ASSUME FirstOf(c, h) PROVE FirstOf(r, h)
    <3> SUFFICES ASSUME NEW o \in 1..h - 1 PROVE r.items[o].product # r.items[h].product
      BY DEF FirstOf
    <3>1. CASE o = i
      BY <1>4, <2>2, <3>1
    <3>2. CASE o # i
      BY <2>2, <2>3, <2>4, <3>2 DEF FirstOf
    <3>3. QED BY <3>1, <3>2
  <2>5. ASSUME FirstOf(r, h), c.items[h].product = gold.items[w].product PROVE FirstOf(c, h)
    <3> SUFFICES ASSUME NEW o \in 1..h - 1, c.items[o].product = c.items[h].product PROVE FALSE
      BY DEF FirstOf
    <3>1. CASE o # i
      BY <2>2, <2>3, <2>5, <3>1 DEF FirstOf
    <3>2. CASE o = i
      <4>1. ~Claims(gold, w, c, i)
        BY DEF Claimed
      <4>2. ~FirstOf(c, i)
        BY <1>2, <2>5, <3>2, <4>1, ClaimsAre
      <4>3. PICK n \in 1..i - 1 : c.items[n].product = c.items[i].product
        BY <4>2 DEF FirstOf
      <4>4. n \in 1..h - 1 /\ n # i
        BY <1>2, <3>2, <4>3 DEF Listed
      <4>5. r.items[n] = c.items[n]
        BY <2>3, <4>4
      <4>6. QED BY <2>2, <2>5, <3>2, <4>3, <4>4, <4>5 DEF FirstOf
    <3>3. QED BY <3>1, <3>2
  <2>6. QED BY <2>1, <2>2, <2>4, <2>5
<1>7. Claims(gold, j, r, i) /\ \A w \in DOMAIN gold.items : Claims(gold, w, r, i) => w = j
  <2>1. FirstOf(r, i)
    <3> SUFFICES ASSUME NEW o \in 1..i - 1 PROVE r.items[o].product # r.items[i].product
      BY DEF FirstOf
    <3>1. o \in DOMAIN c.items /\ o # i
      BY <1>2 DEF Listed
    <3>2. QED BY <1>4, <3>1
  <2>2. \A w \in DOMAIN gold.items : w # j => gold.items[w].product # gold.items[j].product
    BY <1>2 DEF ToldApart
  <2>3. QED BY <1>2, <2>1, <2>2, ClaimsAre
<1>8. \A w \in DOMAIN gold.items : ~Claims(gold, w, c, i)
  BY DEF Claimed
<1>9. Claimed(r, gold) = Claimed(c, gold) \cup {i} /\ Filled(r, gold) = Filled(c, gold) \cup {j}
  <2>1. Claimed(r, gold) = Claimed(c, gold) \cup {i}
    BY <1>1, <1>2, <1>5, <1>6, <1>7 DEF Claimed
  <2>2. Filled(r, gold) = Filled(c, gold) \cup {j}
    BY <1>1, <1>2, <1>5, <1>6, <1>7, <1>8 DEF Filled
  <2>3. QED BY <2>1, <2>2
<1>10. items2 = items \ {i} /\ slots2 = slots \ {j}
  BY <1>5, <1>9
<1>11. Cardinality(slots2) = Cardinality(slots) - 1
  <2> HIDE DEF slots, slots2
  <2>1. QED BY <1>1, <1>3, <1>10, FS_RemoveElement
<1>12. ASSUME NEW h \in Present(c) PROVE Alignment(r, gold)[h] = Alignment(c, gold)[h]
  <2>1. CASE h = i
    BY <1>2, <1>5, <1>7, <2>1, AlignmentIs
  <2>2. CASE h # i /\ h \in Claimed(c, gold)
    <3>1. PICK w \in DOMAIN gold.items : Claims(gold, w, c, h)
      BY <2>2 DEF Claimed
    <3>2. Claims(gold, w, r, h)
      BY <1>1, <1>6, <2>2, <3>1
    <3>3. Alignment(c, gold)[h] = w
      BY <3>1, AlignmentIs
    <3>4. Alignment(r, gold)[h] = w
      <4>1. h \in Present(r)
        BY <1>5
      <4>2. QED BY <3>2, <4>1, AlignmentIs
    <3>5. QED BY <3>3, <3>4
  <2>3. CASE h # i /\ h \notin Claimed(c, gold)
    <3>1. h \in items /\ h \in items2
      BY <1>10, <2>3
    <3> DEFINE a == Alignment(c, gold)[h]
               b == Alignment(r, gold)[h]
    <3>2. /\ Nth(h, items) <= Cardinality(slots) =>
                /\ a \in slots
                /\ Nth(a, slots) = Nth(h, items)
                /\ \A w \in slots : Nth(w, slots) = Nth(h, items) => w = a
          /\ ~(Nth(h, items) <= Cardinality(slots)) =>
                a = Len(gold.items) + Nth(h, items) - Cardinality(slots)
      BY <3>1, AlignmentIs
    <3>3. h \in Present(r)
      BY <1>5
    <3>4. /\ Nth(h, items2) <= Cardinality(slots2) =>
                /\ b \in slots2
                /\ Nth(b, slots2) = Nth(h, items2)
                /\ \A w \in slots2 : Nth(w, slots2) = Nth(h, items2) => w = b
          /\ ~(Nth(h, items2) <= Cardinality(slots2)) =>
                b = Len(gold.items) + Nth(h, items2) - Cardinality(slots2)
      BY <3>1, <3>3, AlignmentIs
    <3> HIDE DEF items, slots, items2, slots2, a, b, j
    <3>5. Nth(h, items2) = (IF i < h THEN Nth(h, items) - 1 ELSE Nth(h, items))
      BY <1>1, <1>2, <1>10, <2>3, <3>1, NthWithout
    <3>6. /\ i \in Nat /\ h \in Nat
          /\ Nth(i, items) \in Nat /\ Nth(h, items) \in Nat
          /\ i < h <=> Nth(i, items) < Nth(h, items)
          /\ h < i <=> Nth(h, items) < Nth(i, items)
      BY <1>1, <1>2, <3>1, NthIs
    <3>7. CASE Nth(h, items) <= Cardinality(slots)
      <4>1. Nth(h, items2) <= Cardinality(slots2)
        BY <1>1, <1>3, <1>11, <2>3, <3>5, <3>6, <3>7
      <4>2. a \in slots /\ Nth(a, slots) = Nth(h, items)
        BY <3>2, <3>7
      <4>3. a # j
        BY <1>3, <2>3, <3>6, <4>2
      <4>4. Nth(a, slots2) = (IF j < a THEN Nth(a, slots) - 1 ELSE Nth(a, slots))
        BY <1>1, <1>3, <1>10, <4>2, <4>3, NthWithout
      <4>5. /\ j < a <=> Nth(j, slots) < Nth(a, slots)
        BY <1>1, <1>3, <4>2, NthIs
      <4>6. Nth(a, slots2) = Nth(h, items2)
        BY <1>3, <3>5, <3>6, <4>2, <4>4, <4>5
      <4>7. a \in slots2
        BY <1>10, <4>2, <4>3
      <4>8. a = b
        BY <3>4, <4>1, <4>6, <4>7
      <4>9. QED BY <4>8 DEF a, b
    <3>8. CASE ~(Nth(h, items) <= Cardinality(slots))
      <4>1. i < h
        BY <1>1, <1>3, <3>6, <3>8
      <4>2. Nth(h, items2) = Nth(h, items) - 1 /\ ~(Nth(h, items2) <= Cardinality(slots2))
        BY <1>1, <1>11, <3>5, <3>6, <3>8, <4>1
      <4>3. Len(gold.items) \in Nat
        BY DEF ToldApart, Listed
      <4>4. a = b
        BY <1>1, <1>11, <3>2, <3>4, <3>6, <3>8, <4>2, <4>3
      <4>5. QED BY <4>4 DEF a, b
    <3>9. QED BY <3>7, <3>8
  <2>4. QED BY <2>1, <2>2, <2>3
<1>13. /\ DOMAIN Alignment(r, gold) = Present(c) /\ DOMAIN Alignment(c, gold) = Present(c)
       /\ Alignment(r, gold) = [h \in DOMAIN Alignment(r, gold) |-> Alignment(r, gold)[h]]
       /\ Alignment(c, gold) = [h \in DOMAIN Alignment(c, gold) |-> Alignment(c, gold)[h]]
  BY <1>5 DEF Alignment
<1>14. QED BY <1>12, <1>13

\* An item's amount names no slot.
LEMMA AmountKeepsSlots ==
    ASSUME NEW gold, NEW c, NEW r, NEW i \in Present(c),
           DOMAIN r.items = DOMAIN c.items,
           \A h \in DOMAIN c.items \ {i} : r.items[h] = c.items[h],
           r.items[i].product = c.items[i].product, r.items[i].amount # None,
           Listed(c)
    PROVE  Alignment(r, gold) = Alignment(c, gold)
<1>1. \A h \in DOMAIN c.items : r.items[h].product = c.items[h].product
  OBVIOUS
<1>2. Present(r) = Present(c)
  <2>1. i \in Present(r) /\ i \in DOMAIN c.items
    BY DEF Present
  <2>2. QED BY <2>1 DEF Present
<1>3. ASSUME NEW h \in DOMAIN c.items, NEW w PROVE Claims(gold, w, r, h) = Claims(gold, w, c, h)
  <2>1. \A o \in 1..h : o \in DOMAIN c.items
    BY DEF Listed
  <2>2. Ordinal(r, h) = Ordinal(c, h)
    <3>1. {o \in 1..h : r.items[o].product = r.items[h].product}
             = {o \in 1..h : c.items[o].product = c.items[h].product}
      BY <1>1, <2>1
    <3>2. QED BY <3>1 DEF Ordinal
  <2>3. QED BY <1>1, <2>2 DEF Claims
<1>4. Present(c) \subseteq DOMAIN c.items
  BY DEF Present
<1>5. Claimed(r, gold) = Claimed(c, gold) /\ Filled(r, gold) = Filled(c, gold)
  BY <1>2, <1>3, <1>4 DEF Claimed, Filled
<1> DEFINE items == Present(c) \ Claimed(c, gold)
           slots == DOMAIN gold.items \ Filled(c, gold)
           mine(x, h) == CHOOSE j \in DOMAIN gold.items : Claims(gold, j, x, h)
           spare(h) == CHOOSE j \in slots : Nth(j, slots) = Nth(h, items)
           past(h) == Len(gold.items) + Nth(h, items) - Cardinality(slots)
           aligned(x) ==
               [h \in Present(c) |->
                   CASE h \in Claimed(c, gold) -> mine(x, h)
                     [] h \in items /\ Nth(h, items) <= Cardinality(slots) -> spare(h)
                     [] OTHER -> past(h)]
<1>6. Alignment(r, gold) = aligned(r) /\ Alignment(c, gold) = aligned(c)
  BY <1>2, <1>5 DEF Alignment
<1>7. \A h \in DOMAIN c.items : mine(r, h) = mine(c, h)
  BY <1>3
<1> HIDE DEF items, slots, mine, spare, past
<1>8. aligned(r) = aligned(c)
  BY <1>4, <1>7
<1>9. QED BY <1>6, <1>8

\* An item changed is one item changed.
LEMMA ItemChanged ==
    ASSUME NEW c, IsRecord(c), NEW i \in DOMAIN c.items, NEW item, NEW r,
           r = [c EXCEPT !.items[i] = item]
    PROVE  /\ r.scalars = c.scalars /\ r.members = c.members /\ r.invented = c.invented
           /\ DOMAIN r.items = DOMAIN c.items /\ Len(r.items) = Len(c.items)
           /\ r.items[i] = item
           /\ \A h \in DOMAIN c.items \ {i} : r.items[h] = c.items[h]
<1>1. /\ r.scalars = c.scalars /\ r.members = c.members /\ r.invented = c.invented
      /\ r.items = [c.items EXCEPT ![i] = item]
  BY DEF IsRecord
<1>2. /\ Len(c.items) \in Nat /\ DOMAIN c.items = 1..Len(c.items)
      /\ c.items = [h \in 1..Len(c.items) |-> c.items[h]]
  BY DEF IsRecord
<1>3. /\ DOMAIN r.items = DOMAIN c.items
      /\ r.items[i] = item
      /\ \A h \in DOMAIN c.items \ {i} : r.items[h] = c.items[h]
      /\ r.items = [h \in 1..Len(c.items) |-> r.items[h]]
  BY <1>1, <1>2
<1>4. Len(r.items) = Len(c.items)
  <2> DEFINE n == Len(c.items)
             s == r.items
             T == {s[h] : h \in 1..n}
  <2>1. n \in Nat /\ s = [h \in 1..n |-> s[h]] /\ DOMAIN s = 1..n
    BY <1>2, <1>3
  <2>2. \A h \in 1..n : s[h] \in T
    OBVIOUS
  <2> HIDE DEF n, s, T
  <2>3. s \in [1..n -> T]
    BY <2>1, <2>2
  <2>4. s \in Seq(T)
    BY <2>1, <2>3
  <2>5. DOMAIN s = 1..Len(s) /\ Len(s) \in Nat
    BY <2>4
  <2>6. Len(s) = n
    BY <2>1, <2>5
  <2>7. QED BY <2>6 DEF s, n
<1>5. QED BY <1>1, <1>3, <1>4
\* The same packaging gives up the record, or what it gives up is not of the record.
LEMMA SamePackaging ==
    ASSUME NEW t, NEW u, u.form = t.form, u.decoy = t.decoy, u.fence = t.fence,
           u.prose = t.prose, u.cut = t.cut, u.slips = t.slips
    PROVE  \/ ExtractLenient(t) = Parsed(t.record) /\ ExtractLenient(u) = Parsed(u.record)
           \/ ExtractLenient(t) = ExtractLenient(u)
<1>1. \/ ExtractStrict(t) = Parsed(t.record) /\ ExtractStrict(u) = Parsed(u.record)
      \/ ExtractStrict(t) = ExtractStrict(u)
  <2> DEFINE P == Bare(t) /\ t.form = "object"
             Q == Bare(t) /\ t.form \in {"array", "value"}
             a == Failed("not_an_object")
             b == Failed(IF HasBrace(t) THEN "unparseable" ELSE "no_json")
             found(x) == CASE P -> Parsed(x) [] Q -> a [] OTHER -> b
  <2>1. ExtractStrict(t) = found(t.record) /\ ExtractStrict(u) = found(u.record)
    BY DEF ExtractStrict, Bare, HasBrace
  <2>2. ~(P /\ Q)
    OBVIOUS
  <2> HIDE DEF P, Q, a, b
  <2>3. P => \A x : found(x) = Parsed(x)
    BY <2>2
  <2>4. ~P => \A x, y : found(x) = found(y)
    OBVIOUS
  <2> HIDE DEF found
  <2>5. CASE P
    BY <2>1, <2>3, <2>5
  <2>6. CASE ~P
    BY <2>1, <2>4, <2>6
  <2>7. QED BY <2>5, <2>6
<1>2. \/ Recover(t) = Parsed(t.record) /\ Recover(u) = Parsed(u.record)
      \/ Recover(t) = Recover(u)
  <2> DEFINE P == ~HasBrace(t)
             Q == HasBrace(t) /\ t.decoy /\ ~t.fence
             R == HasBrace(t) /\ (t.decoy => t.fence)
                     /\ (t.decoy \/ t.form = "broken" \/ t.cut = "in string")
             a == Failed("no_json")
             b == Parsed(EmptyRecord)
             c == Failed("unparseable")
             found(x) == CASE P -> a [] Q -> b [] R -> c [] OTHER -> Parsed(x)
  <2>1. Recover(t) = found(t.record) /\ Recover(u) = found(u.record)
    BY DEF Recover, HasBrace
  <2> HIDE DEF P, Q, R, a, b, c
  <2>2. ~P /\ ~Q /\ ~R => \A x : found(x) = Parsed(x)
    OBVIOUS
  <2>3. P \/ Q \/ R => \A x, y : found(x) = found(y)
    OBVIOUS
  <2> HIDE DEF found
  <2>4. CASE P \/ Q \/ R
    BY <2>1, <2>3, <2>4
  <2>5. CASE ~(P \/ Q \/ R)
    BY <2>1, <2>2, <2>5
  <2>6. QED BY <2>4, <2>5
<1>3. ExtractStrict(t).ok <=> ExtractStrict(u).ok
  BY <1>1 DEF Parsed
<1>4. CASE ExtractStrict(t).ok
  BY <1>1, <1>3, <1>4 DEF ExtractLenient
<1>5. CASE ~ExtractStrict(t).ok
  BY <1>2, <1>3, <1>5 DEF ExtractLenient
<1>6. QED BY <1>4, <1>5

\* Out of the same packaging a better record is worth no less.
LEMMA BetterPays ==
    ASSUME NEW gold \in Golds, NEW t \in Completions, NEW r, Finite(r),
           Betters(r, t.record, gold)
    PROVE  NoLower(LenientReward([t EXCEPT !.record = r], gold), LenientReward(t, gold))
<1> DEFINE u == [t EXCEPT !.record = r]
<1>1. /\ u.record = r /\ u.form = t.form /\ u.decoy = t.decoy /\ u.fence = t.fence
      /\ u.prose = t.prose /\ u.cut = t.cut /\ u.slips = t.slips
  BY RecordAssumption
<1> HIDE DEF u
<1>2. IsFiniteSet(Scalars) /\ Finite(gold) /\ Finite(t.record)
  BY RecordAssumption, RecordIs
<1>3. CASE ExtractLenient(t) = Parsed(t.record) /\ ExtractLenient(u) = Parsed(r)
  <2>1. NoLower(Reward(Parsed(r), gold), Reward(Parsed(t.record), gold))
    BY <1>2, BetterIsNoLower
  <2>2. QED BY <1>3, <2>1 DEF LenientReward, u
<1>4. CASE ExtractLenient(t) = ExtractLenient(u)
  <2>1. ExtractLenient(t) \in Outcomes(t)
    BY StrictOutcomes, RecoverOutcomes DEF ExtractLenient
  <2> DEFINE a == LenientReward(t, gold)
  <2>2. a.num \in Nat /\ a.den \in Nat
    BY <1>2, <2>1, RewardsAreFractions DEF LenientReward
  <2>3. LenientReward(u, gold) = a
    BY <1>4 DEF LenientReward
  <2> HIDE DEF a
  <2>4. NoLower(a, a)
    BY <2>2 DEF NoLower
  <2>5. QED BY <2>3, <2>4 DEF a, u
<1>5. QED BY <1>1, <1>3, <1>4, SamePackaging

\* A gold record is such a record.
LEMMA GoldIsToldApart == ASSUME NEW gold \in Golds PROVE ToldApart(gold)
<1>1. Check(gold) = {} /\ Listed(gold)
  BY GoldAssumption, RecordAssumption, RecordIs
<1>2. \A j \in DOMAIN gold.items : gold.items[j].product # None
  BY <1>1, GoldIsSound
<1>3. \A j, l \in DOMAIN gold.items : j # l => gold.items[j].product # gold.items[l].product
  BY GoldAssumption
<1>4. QED BY <1>1, <1>2, <1>3 DEF ToldApart

\* The alignment is injective, as _alignment promises (fields.py:345): no two items of a
\* completion are judged against the same slot, nor credited with the same gold item.
THEOREM SlotsAreDistinct ==
    ASSUME NEW gold \in Golds, NEW t \in Completions,
           NEW h \in Present(t.record), NEW i \in Present(t.record), h # i
    PROVE  Alignment(t.record, gold)[h] # Alignment(t.record, gold)[i]
<1>1. ToldApart(gold) /\ Listed(t.record)
  BY GoldIsToldApart, RecordAssumption, RecordIs
<1>2. QED BY <1>1, SlotsDiffer

\* Every repair and every deletion makes a record better.
LEMMA RepairsBetter ==
    ASSUME NEW gold \in Golds, NEW t \in Completions,
           NEW r \in Repairs(t.record, gold) \cup Deletions(t.record, gold)
    PROVE  Finite(r) /\ Betters(r, t.record, gold)
<1> DEFINE c == t.record
           slot == Alignment(c, gold)
           matched == {i \in DOMAIN slot : slot[i] \in DOMAIN gold.items}
<1>1. /\ Check(gold) = {} /\ IsRecord(c) /\ Finite(c) /\ Listed(c) /\ Finite(gold) /\ Listed(gold)
      /\ IsFiniteSet(gold.members)
  BY GoldAssumption, RecordAssumption, RecordIs
<1>2. ToldApart(gold)
  BY GoldIsToldApart
<1>3. \/ \E s \in Scalars : r = [c EXCEPT !.scalars[s] = gold.scalars[s]]
      \/ \E m \in gold.members : r = [c EXCEPT !.members = @ \cup {m}]
      \/ \E i \in matched : r = [c EXCEPT !.items[i].product = gold.items[slot[i]].product]
      \/ \E i \in matched : /\ gold.items[slot[i]].amount # None
                            /\ r = [c EXCEPT !.items[i].amount = gold.items[slot[i]].amount]
      \/ \E m \in c.members \ gold.members : r = [c EXCEPT !.members = @ \ {m}]
      \/ r = [c EXCEPT !.invented = FALSE]
  BY DEF Repairs, Deletions
<1>4. DOMAIN slot = Present(c) /\ Present(c) \subseteq DOMAIN c.items
  BY DEF Alignment, Present
<1> HIDE DEF slot, c
<1>5. CASE \E s \in Scalars : r = [c EXCEPT !.scalars[s] = gold.scalars[s]]
  <2>1. PICK s \in Scalars : r = [c EXCEPT !.scalars[s] = gold.scalars[s]]
    BY <1>5
  <2>2. Betters(r, c, gold)
    BY <1>1, <2>1, ScalarRepaired
  <2>3. r.members = c.members /\ r.items = c.items
    BY <1>1, <2>1 DEF IsRecord
  <2>4. QED BY <1>1, <2>2, <2>3 DEF Finite, c
<1>6. CASE \E m \in gold.members : r = [c EXCEPT !.members = @ \cup {m}]
  <2>1. PICK m \in gold.members : r = [c EXCEPT !.members = @ \cup {m}]
    BY <1>6
  <2>2. /\ r.scalars = c.scalars /\ r.items = c.items /\ r.invented = c.invented
        /\ r.members = c.members \cup {m}
    BY <1>1, <2>1 DEF IsRecord
  <2>3. Betters(r, c, gold)
    BY <1>1, <2>2, MembersRepaired
  <2>4. IsFiniteSet(r.members)
    BY <1>1, <2>2, FS_AddElement DEF Finite
  <2>5. QED BY <1>1, <2>2, <2>3, <2>4 DEF Finite, c
<1>7. CASE \E m \in c.members \ gold.members : r = [c EXCEPT !.members = @ \ {m}]
  <2>1. PICK m \in c.members \ gold.members : r = [c EXCEPT !.members = @ \ {m}]
    BY <1>7
  <2>2. /\ r.scalars = c.scalars /\ r.items = c.items /\ r.invented = c.invented
        /\ r.members = c.members \ {m}
    BY <1>1, <2>1 DEF IsRecord
  <2>3. Betters(r, c, gold)
    BY <1>1, <2>2, MembersRepaired
  <2>4. IsFiniteSet(r.members)
    BY <1>1, <2>2, FS_RemoveElement DEF Finite
  <2>5. QED BY <1>1, <2>2, <2>3, <2>4 DEF Finite, c
<1>8. CASE r = [c EXCEPT !.invented = FALSE]
  <2>1. Betters(r, c, gold)
    BY <1>1, <1>8, KeyDeleted
  <2>2. r.members = c.members /\ r.items = c.items
    BY <1>1, <1>8 DEF IsRecord
  <2>3. QED BY <1>1, <2>1, <2>2 DEF Finite, c
<1>9. CASE \E i \in matched : r = [c EXCEPT !.items[i].product = gold.items[slot[i]].product]
  <2>1. PICK i \in matched : r = [c EXCEPT !.items[i].product = gold.items[slot[i]].product]
    BY <1>9
  <2> DEFINE item == [c.items[i] EXCEPT !.product = gold.items[slot[i]].product]
  <2>2. /\ i \in DOMAIN slot /\ i \in Present(c) /\ i \in DOMAIN c.items
        /\ slot[i] \in DOMAIN gold.items
    BY <1>4
  <2>3. r = [c EXCEPT !.items[i] = item]
    BY <2>1
  <2>4. c.items[i] = [product |-> c.items[i].product, amount |-> c.items[i].amount,
                      invented |-> c.items[i].invented]
    BY <1>1, <2>2 DEF IsRecord, Listed
  <2>5. /\ item.product = gold.items[slot[i]].product
        /\ item.amount = c.items[i].amount /\ item.invented = c.items[i].invented
    BY <2>4
  <2> HIDE DEF item, matched
  <2>6. /\ r.scalars = c.scalars /\ r.members = c.members /\ r.invented = c.invented
        /\ DOMAIN r.items = DOMAIN c.items /\ Len(r.items) = Len(c.items)
        /\ r.items[i] = item
        /\ \A h \in DOMAIN c.items \ {i} : r.items[h] = c.items[h]
    BY <1>1, <2>2, <2>3, ItemChanged
  <2>7. Listed(r) /\ Finite(r)
    BY <1>1, <2>6 DEF Listed, Finite
  <2>8. Alignment(r, gold) = slot
    <3>1. CASE i \in Claimed(c, gold)
      <4>1. PICK j \in DOMAIN gold.items : Claims(gold, j, c, i)
        BY <3>1 DEF Claimed
      <4>2. slot[i] = j
        BY <1>1, <1>2, <2>2, <4>1, AlignmentIs DEF slot
      <4>3. c.items[i].product = gold.items[j].product
        BY <4>1 DEF Claims
      <4>4. item = c.items[i]
        BY <2>4, <4>2, <4>3 DEF item
      <4>5. r.items = c.items
        <5>1. r.items = [h \in DOMAIN c.items |-> r.items[h]]
              /\ c.items = [h \in DOMAIN c.items |-> c.items[h]]
          BY <1>1, <2>3 DEF IsRecord
        <5>2. \A h \in DOMAIN c.items : r.items[h] = c.items[h]
          BY <2>6, <4>4
        <5>3. QED BY <5>1, <5>2
      <4>6. QED BY <4>5, SameItems DEF slot
    <3>2. CASE i \notin Claimed(c, gold)
      <4>1. r.items[i].product = gold.items[Alignment(c, gold)[i]].product
        BY <2>5, <2>6 DEF slot
      <4>2. Alignment(c, gold)[i] \in DOMAIN gold.items
        BY <2>2 DEF slot
      <4>3. QED BY <1>1, <1>2, <2>2, <2>6, <2>7, <3>2, <4>1, <4>2, NamingKeepsSlots DEF slot
    <3>3. QED BY <3>1, <3>2
  <2>9. Betters(r, c, gold)
    BY <1>1, <1>4, <2>2, <2>5, <2>6, <2>8, ItemRepaired DEF slot
  <2>10. QED BY <2>7, <2>9 DEF c
<1>10. CASE \E i \in matched : /\ gold.items[slot[i]].amount # None
                               /\ r = [c EXCEPT !.items[i].amount = gold.items[slot[i]].amount]
  <2>1. PICK i \in matched : /\ gold.items[slot[i]].amount # None
                             /\ r = [c EXCEPT !.items[i].amount = gold.items[slot[i]].amount]
    BY <1>10
  <2> DEFINE item == [c.items[i] EXCEPT !.amount = gold.items[slot[i]].amount]
  <2>2. /\ i \in DOMAIN slot /\ i \in Present(c) /\ i \in DOMAIN c.items
        /\ slot[i] \in DOMAIN gold.items
    BY <1>4
  <2>3. r = [c EXCEPT !.items[i] = item]
    BY <2>1
  <2>4. c.items[i] = [product |-> c.items[i].product, amount |-> c.items[i].amount,
                      invented |-> c.items[i].invented]
    BY <1>1, <2>2 DEF IsRecord, Listed
  <2>5. /\ item.amount = gold.items[slot[i]].amount
        /\ item.product = c.items[i].product /\ item.invented = c.items[i].invented
    BY <2>4
  <2> HIDE DEF item, matched
  <2>6. /\ r.scalars = c.scalars /\ r.members = c.members /\ r.invented = c.invented
        /\ DOMAIN r.items = DOMAIN c.items /\ Len(r.items) = Len(c.items)
        /\ r.items[i] = item
        /\ \A h \in DOMAIN c.items \ {i} : r.items[h] = c.items[h]
    BY <1>1, <2>2, <2>3, ItemChanged
  <2>7. Listed(r) /\ Finite(r)
    BY <1>1, <2>6 DEF Listed, Finite
  <2>8. Alignment(r, gold) = slot
    <3>1. r.items[i].product = c.items[i].product /\ r.items[i].amount # None
      BY <2>1, <2>5, <2>6
    <3>2. QED BY <1>1, <2>2, <2>6, <3>1, AmountKeepsSlots DEF slot
  <2>9. Betters(r, c, gold)
    BY <1>1, <1>4, <2>2, <2>5, <2>6, <2>8, ItemRepaired DEF slot
  <2>10. QED BY <2>7, <2>9 DEF c
<1>11. QED BY <1>3, <1>5, <1>6, <1>7, <1>8, <1>9, <1>10

\* A repair towards gold, or what was invented taken out, never lowers a reward, for any
\* gold records with distinct products and any completions: no repair takes a slot from
\* another item.
THEOREM RepairsNeverCost == ScoringSpec => []RepairNeverLowers
<1>1. ScoringInv => RepairNeverLowers
  <2> SUFFICES ASSUME ScoringInv, judged.state = "judged" PROVE RepairNeverLowers
    BY DEF RepairNeverLowers
  <2>1. judged # Unjudged
    BY DEF Unjudged
  <2>2. PICK gold \in Golds, t \in Completions :
            judged = [state |-> "judged", gold |-> gold, completion |-> t,
                      strict |-> StrictReward(t, gold), lenient |-> LenientReward(t, gold)]
    BY <2>1 DEF ScoringInv
  <2>3. /\ judged.gold = gold /\ judged.completion = t
        /\ judged.lenient = LenientReward(t, gold)
    BY <2>2
  <2>4. ASSUME NEW r \in Repairs(t.record, gold) \cup Deletions(t.record, gold)
        PROVE  NoLower(LenientReward([t EXCEPT !.record = r], gold), LenientReward(t, gold))
    BY RepairsBetter, BetterPays
  <2>5. QED BY <2>3, <2>4 DEF RepairNeverLowers, NeverLower
<1>2. QED BY <1>1, ScoringInvariance, PTL

-----------------------------------------------------------------------------
(* The alignment tax.                                                      *)

\* A report of the probes.
IsScored(report) == \E passed \in SUBSET Probes : report = ScoredProbes(passed)

\* A comparison is what it comes to for some interval bootstrap could draw.
TaxInv ==
    /\ DOMAIN probed = {"before", "after"}
    /\ \A which \in {"before", "after"} :
          probed[which] = NoProbes \/ IsScored(probed[which])
    /\ probed["before"] = NoProbes => probed["after"] = NoProbes
    /\ tax # NoTax =>
          /\ IsScored(probed["before"]) /\ IsScored(probed["after"])
          /\ \E low, high \in Ends(probed["before"], probed["after"]) :
                low <= high /\ tax = TaxOf(probed["before"], probed["after"], low, high)

\* An unprobed report is not a scored one, as its state says.
LEMMA ProbedOnce == \A report : IsScored(report) => report # NoProbes
BY DEF IsScored, ScoredProbes, NoProbes

\* Nothing is probed at first.
LEMMA TaxStarts == TaxInit => TaxInv
BY DEF TaxInit, TaxInv

\* A model is probed before anything is compared.
LEMMA RunProbesKeeps ==
    ASSUME TaxInv, NEW which \in {"before", "after"}, RunProbes(which)
    PROVE  TaxInv'
<1>1. PICK passed \in SUBSET Probes : probed' = [probed EXCEPT ![which] = ScoredProbes(passed)]
  BY DEF RunProbes
<1>2. IsScored(ScoredProbes(passed))
  BY DEF IsScored
<1>3. tax = NoTax
  <2>1. probed[which] = NoProbes
    BY DEF RunProbes
  <2>2. QED BY <2>1, ProbedOnce DEF TaxInv
<1>4. tax' = NoTax
  BY <1>3 DEF RunProbes
<1>5. /\ DOMAIN probed' = {"before", "after"}
      /\ \A w \in {"before", "after"} :
            probed'[w] = IF w = which THEN ScoredProbes(passed) ELSE probed[w]
  BY <1>1 DEF TaxInv
<1>6. \A w \in {"before", "after"} : probed'[w] = NoProbes \/ IsScored(probed'[w])
  BY <1>2, <1>5 DEF TaxInv
<1>7. probed'["before"] = NoProbes => probed'["after"] = NoProbes
  BY <1>2, <1>5, ProbedOnce DEF RunProbes, TaxInv
<1>8. QED BY <1>4, <1>5, <1>6, <1>7 DEF TaxInv, IsScored, ScoredProbes, NoProbes

\* Both models are probed when they are compared.
LEMMA MeasureTaxKeeps == TaxInv /\ MeasureTax => TaxInv'
<1> SUFFICES ASSUME TaxInv, MeasureTax PROVE TaxInv'
  OBVIOUS
<1>1. PICK low, high \in Ends(probed["before"], probed["after"]) :
           low <= high /\ tax' = TaxOf(probed["before"], probed["after"], low, high)
  BY DEF MeasureTax
<1>2. probed' = probed
  BY DEF MeasureTax
<1>3. IsScored(probed["before"]) /\ IsScored(probed["after"])
  BY DEF MeasureTax, TaxInv
<1>4. QED BY <1>1, <1>2, <1>3 DEF TaxInv, IsScored, ScoredProbes

\* What is lost and gained adds up.
LEMMA LostAndGained ==
    ASSUME NEW A \in SUBSET Probes, NEW B \in SUBSET Probes
    PROVE  /\ Cardinality(A) \in Nat /\ Cardinality(B) \in Nat
           /\ Cardinality(A \ B) \in Nat /\ Cardinality(B \ A) \in Nat
           /\ Cardinality(A \ B) - Cardinality(B \ A) = Cardinality(A) - Cardinality(B)
<1>1. IsFiniteSet(A) /\ IsFiniteSet(B)
  BY TaxAssumption, FS_Subset
<1>2. IsFiniteSet(A \cap B) /\ IsFiniteSet(A \ B) /\ IsFiniteSet(B \ A)
  BY <1>1, FS_Intersection, FS_Difference
<1>3. Cardinality(A \ B) = Cardinality(A) - Cardinality(A \cap B)
  BY <1>1, FS_Difference
<1>4. Cardinality(B \ A) = Cardinality(B) - Cardinality(A \cap B)
  <2>1. B \cap A = A \cap B
    OBVIOUS
  <2>2. Cardinality(B \ A) = Cardinality(B) - Cardinality(B \cap A)
    BY <1>1, FS_Difference
  <2>3. QED BY <2>1, <2>2
<1>5. /\ Cardinality(A) \in Nat /\ Cardinality(B) \in Nat /\ Cardinality(A \cap B) \in Nat
      /\ Cardinality(A \ B) \in Nat /\ Cardinality(B \ A) \in Nat
  BY <1>1, <1>2, FS_CardinalityType
<1>6. QED BY <1>3, <1>4, <1>5

\* Differences have a least and a greatest.
LEMMA EndsOfDifferences ==
    ASSUME NEW S, S # {}, \A x \in S : x = -1 \/ x = 0 \/ x = 1
    PROVE  Min(S) \in S /\ Max(S) \in S
<1>1. \E x \in S : \A y \in S : x <= y
  <2>1. CASE -1 \in S
    BY <2>1
  <2>2. CASE -1 \notin S /\ 0 \in S
    BY <2>2
  <2>3. CASE -1 \notin S /\ 0 \notin S
    BY <2>3
  <2>4. QED BY <2>1, <2>2, <2>3
<1>2. \E x \in S : \A y \in S : x >= y
  <2>1. CASE 1 \in S
    BY <2>1
  <2>2. CASE 1 \notin S /\ 0 \in S
    BY <2>2
  <2>3. CASE 1 \notin S /\ 0 \notin S
    BY <2>3
  <2>4. QED BY <2>1, <2>2, <2>3
<1>3. Min(S) \in S
  BY <1>1, Zenon DEF Min
<1>4. Max(S) \in S
  BY <1>2, Zenon DEF Max
<1>5. QED BY <1>3, <1>4

\* An end of the interval above zero takes a difference of one, an end below zero one of
\* minus one.
LEMMA EndsNeedChanges ==
    ASSUME NEW before, NEW after, IsFiniteSet(before.ids), NEW x \in Ends(before, after)
    PROVE  /\ x \in Int
           /\ x > 0 => after.success \ before.success # {}
           /\ x < 0 => before.success \ after.success # {}
<1> DEFINE diff == Differences(before, after)
           all == {diff[e] : e \in before.ids}
           n == Cardinality(before.ids)
<1>1. \A d \in all : d = -1 \/ d = 0 \/ d = 1
  BY DEF Differences
<1>2. /\ 1 \in all => after.success \ before.success # {}
      /\ -1 \in all => before.success \ after.success # {}
  <2>1. ASSUME 1 \in all PROVE after.success \ before.success # {}
    <3>1. PICK e \in before.ids : diff[e] = 1
      BY <2>1
    <3>2. e \in after.success \ before.success
      BY <3>1 DEF Differences
    <3>3. QED BY <3>2
  <2>2. ASSUME -1 \in all PROVE before.success \ after.success # {}
    <3>1. PICK e \in before.ids : diff[e] = -1
      BY <2>2
    <3>2. e \in before.success \ after.success
      BY <3>1 DEF Differences
    <3>3. QED BY <3>2
  <2>3. QED BY <2>1, <2>2
<1>3. n \in Nat
  BY FS_CardinalityType
<1>4. Ends(before, after) = IF all = {} THEN {0} ELSE (2 * n * Min(all))..(2 * n * Max(all))
  BY DEF Ends
<1> HIDE DEF all, diff, n
<1>5. CASE all = {}
  BY <1>4, <1>5
<1>6. CASE all # {}
  <2> DEFINE worst == Min(all)
             best == Max(all)
  <2>1. worst \in all /\ best \in all
    BY <1>1, <1>6, EndsOfDifferences
  <2>2. x \in (2 * n * worst)..(2 * n * best)
    BY <1>4, <1>6
  <2> HIDE DEF worst, best
  <2>3. /\ worst = -1 \/ worst = 0 \/ worst = 1
        /\ best = -1 \/ best = 0 \/ best = 1
    BY <1>1, <2>1
  <2>4. x \in Int /\ 2 * n * worst <= x /\ x <= 2 * n * best
    BY <1>3, <2>2, <2>3
  <2>5. ASSUME x > 0 PROVE best = 1
    BY <1>3, <2>3, <2>4, <2>5
  <2>6. ASSUME x < 0 PROVE worst = -1
    BY <1>3, <2>3, <2>4, <2>6
  <2>7. QED BY <1>2, <2>1, <2>4, <2>5, <2>6
<1>7. QED BY <1>5, <1>6

\* What was compared, in numbers.
LEMMA ProbesInNumbers ==
    ASSUME NEW before, NEW after, IsScored(before), IsScored(after)
    PROVE  LET net == Cardinality(before.success) - Cardinality(after.success)
           IN  /\ net \in Int /\ before.ids = Probes
               /\ Lost(before, after) \in Nat /\ Gained(before, after) \in Nat
               /\ Lost(before, after) - Gained(before, after) = net
               /\ Lost(before, after) = 0 <=> before.success \ after.success = {}
               /\ Gained(before, after) = 0 <=> after.success \ before.success = {}
<1>1. PICK B \in SUBSET Probes : before = ScoredProbes(B)
  BY DEF IsScored
<1>2. PICK A \in SUBSET Probes : after = ScoredProbes(A)
  BY DEF IsScored
<1>3. /\ before.success = B /\ after.success = A /\ before.ids = Probes
  BY <1>1, <1>2 DEF ScoredProbes
<1>4. /\ Lost(before, after) = Cardinality(B \ A)
      /\ Gained(before, after) = Cardinality(A \ B)
  BY <1>3 DEF Lost, Gained
<1>5. /\ Cardinality(A) \in Nat /\ Cardinality(B) \in Nat
      /\ Cardinality(B \ A) \in Nat /\ Cardinality(A \ B) \in Nat
      /\ Cardinality(A \ B) - Cardinality(B \ A) = Cardinality(A) - Cardinality(B)
  BY LostAndGained
<1>6. IsFiniteSet(B \ A) /\ IsFiniteSet(A \ B)
  BY TaxAssumption, FS_Subset, FS_Difference
<1>7. /\ Cardinality(B \ A) = 0 <=> B \ A = {}
      /\ Cardinality(A \ B) = 0 <=> A \ B = {}
  BY <1>6, FS_EmptySet
<1>8. /\ Cardinality(before.success) - Cardinality(after.success) \in Int
      /\ Lost(before, after) \in Nat /\ Gained(before, after) \in Nat
  BY <1>3, <1>4, <1>5
<1>9. Lost(before, after) - Gained(before, after)
         = Cardinality(before.success) - Cardinality(after.success)
  BY <1>3, <1>4, <1>5
<1>10. /\ Lost(before, after) = 0 <=> before.success \ after.success = {}
       /\ Gained(before, after) = 0 <=> after.success \ before.success = {}
  BY Zenon, <1>3, <1>4, <1>7
<1>11. QED BY <1>3, <1>8, <1>9, <1>10

\* A verdict on a margin, from the ends of the interval.
LEMMA VerdictsAre ==
    ASSUME NEW low \in Int, NEW high \in Int, low <= high, NEW n \in Nat, NEW net \in Int,
           NEW margin, margin.num \in Nat, margin.den \in Nat \ {0}
    PROVE  LET told == Verdict(low, high, n, margin)
           IN  /\ ~(told.passed /\ told.inferior)
               /\ told.superior => told.passed /\ low > 0
               /\ low <= -2 * net /\ -2 * net <= high =>
                     /\ told.passed => net * margin.den < margin.num * n
                     /\ told.inferior => net * margin.den >= margin.num * n
<1> DEFINE num == margin.num
           den == margin.den
           told == Verdict(low, high, n, margin)
           floor == num * n
<1>1. num \in Nat /\ den \in Nat \ {0} /\ floor \in Nat
  OBVIOUS
<1>2. -(num * 2 * n) = -(2 * floor)
  OBVIOUS
<1>3. /\ told.passed <=> low * den > -(num * 2 * n)
      /\ told.superior <=> low * 1 > -(0 * 2 * n)
      /\ told.inferior <=> high * den <= -(num * 2 * n)
  BY Zenon DEF Verdict, Clears, NoMargin
<1> HIDE DEF told, num, den
<1>4. low * den <= high * den /\ low * den \in Int /\ high * den \in Int
  <2> DEFINE d == high - low
  <2>1. d \in Nat /\ high = low + d
    OBVIOUS
  <2> HIDE DEF d
  <2>2. high * den = low * den + d * den /\ d * den \in Nat
    BY <1>1, <2>1
  <2>3. QED BY <1>1, <2>2
<1> HIDE DEF floor
<1>5. ~(told.passed /\ told.inferior)
  BY <1>1, <1>2, <1>3, <1>4
<1>6. told.superior => low > 0
  BY <1>3
<1>7. told.superior => told.passed
  <2> SUFFICES ASSUME told.superior PROVE told.passed
    OBVIOUS
  <2>1. low * den > 0
    BY <1>1, <1>6
  <2>2. QED BY <1>1, <1>2, <1>3, <1>4, <2>1
<1>8. ASSUME low <= -2 * net, -2 * net <= high
      PROVE  /\ told.passed => net * den < floor
             /\ told.inferior => net * den >= floor
  <2> DEFINE a == -2 * net - low
             b == high + 2 * net
             m == net * den
  <2>1. a \in Nat /\ b \in Nat /\ low = -2 * net - a /\ high = -2 * net + b
    BY <1>8
  <2> HIDE DEF a, b
  <2>2. /\ low * den = -(2 * m) - a * den /\ a * den \in Nat
        /\ high * den = -(2 * m) + b * den /\ b * den \in Nat
        /\ m \in Int
    BY <1>1, <2>1
  <2> HIDE DEF m
  <2>3. told.passed => m < floor
    BY <1>1, <1>2, <1>3, <2>2
  <2>4. told.inferior => m >= floor
    BY <1>1, <1>2, <1>3, <2>2
  <2>5. QED BY <2>3, <2>4 DEF m
<1>9. QED BY <1>5, <1>6, <1>7, <1>8 DEF told, num, den, floor

\* Verdicts agree with what changed, and an interval around the change cannot mislead.
LEMMA ToldByTheProbes == TaxInv => TaxIsTold
<1> SUFFICES ASSUME TaxInv, tax # NoTax PROVE TaxIsTold
  BY DEF TaxIsTold
<1> DEFINE before == probed["before"]
           after == probed["after"]
           n == Cardinality(Probes)
           net == Cardinality(before.success) - Cardinality(after.success)
           lost == Lost(before, after)
           gained == Gained(before, after)
<1>1. IsScored(before) /\ IsScored(after)
  BY DEF TaxInv
<1>2. PICK low, high \in Ends(before, after) :
           low <= high /\ tax = TaxOf(before, after, low, high)
  BY DEF TaxInv
<1>3. /\ net \in Int /\ before.ids = Probes /\ lost \in Nat /\ gained \in Nat
      /\ lost - gained = net
      /\ lost = 0 <=> before.success \ after.success = {}
      /\ gained = 0 <=> after.success \ before.success = {}
  BY <1>1, ProbesInNumbers
<1>4. n \in Nat
  BY TaxAssumption, FS_CardinalityType
<1>5. /\ low \in Int /\ high \in Int
      /\ low > 0 => gained > 0
      /\ high < 0 => lost > 0
  <2>1. IsFiniteSet(before.ids)
    BY <1>3, TaxAssumption
  <2>2. /\ low \in Int /\ high \in Int
        /\ low > 0 => after.success \ before.success # {}
        /\ high < 0 => before.success \ after.success # {}
    BY <2>1, EndsNeedChanges
  <2>3. QED BY <1>3, <2>2
<1>6. /\ tax.loss = (IF net > 0 THEN net ELSE 0)
      /\ tax.lost = lost /\ tax.gained = gained
      /\ tax.delta.low = low /\ tax.delta.high = high
      /\ tax.significant = ExcludesZero(low, high)
      /\ tax.verdict = Verdict(low, high, n, TaxMargin)
  BY <1>2, <1>3 DEF TaxOf
<1> DEFINE told == Verdict(low, high, n, TaxMargin)
<1>7. /\ ~(told.passed /\ told.inferior)
      /\ told.superior => told.passed /\ low > 0
      /\ low <= -2 * net /\ -2 * net <= high =>
            /\ told.passed => net * TaxMargin.den < TaxMargin.num * n
            /\ told.inferior => net * TaxMargin.den >= TaxMargin.num * n
  <2> HIDE DEF net, n
  <2>1. QED BY <1>2, <1>3, <1>4, <1>5, TaxAssumption, VerdictsAre
<1>8. ExcludesZero(low, high) <=> ~(low <= 0 /\ 0 <= high)
  BY DEF ExcludesZero
<1> HIDE DEF before, after, n, net, lost, gained, told
<1>9. tax.loss >= net /\ (tax.loss > 0 => tax.loss = net) /\ tax.lost - tax.gained = net
  BY <1>3, <1>6
<1>10. tax.verdict.superior => tax.verdict.passed /\ tax.significant /\ tax.gained > 0
  BY <1>5, <1>6, <1>7, <1>8 DEF told
<1>11. tax.significant => tax.lost + tax.gained > 0
  BY <1>2, <1>3, <1>5, <1>6, <1>8
<1>12. ASSUME tax.delta.low <= -2 * net, -2 * net <= tax.delta.high
       PROVE  /\ tax.verdict.superior => net < 0
              /\ tax.significant => net # 0
  <2>1. low <= -2 * net /\ -2 * net <= high
    BY <1>6, <1>12
  <2>2. QED BY <1>3, <1>5, <1>6, <1>7, <1>8, <2>1 DEF told
<1>13. ASSUME tax.delta.low <= -2 * net, -2 * net <= tax.delta.high
       PROVE  /\ tax.verdict.passed => net * TaxMargin.den < TaxMargin.num * n
              /\ tax.verdict.inferior => net * TaxMargin.den >= TaxMargin.num * n
  BY <1>6, <1>7, <1>13 DEF told
<1>14. ~(tax.verdict.passed /\ tax.verdict.inferior)
  BY <1>6, <1>7 DEF told
<1>15. QED BY <1>9, <1>10, <1>11, <1>12, <1>13, <1>14 DEF TaxIsTold, before, after, n, net

\* The invariant TaxIsTold follows from, for any probes and any replies.
THEOREM TaxInvariance == TaxSpec => []TaxInv
<1>1. TaxInv /\ [TaxNext]_taxVars => TaxInv'
  <2> SUFFICES ASSUME TaxInv, [TaxNext]_taxVars PROVE TaxInv'
    OBVIOUS
  <2>1. ASSUME NEW which \in {"before", "after"}, RunProbes(which) PROVE TaxInv'
    BY <2>1, RunProbesKeeps
  <2>2. CASE MeasureTax
    BY <2>2, MeasureTaxKeeps
  <2>3. CASE UNCHANGED taxVars
    BY <2>3 DEF taxVars, TaxInv
  <2>4. QED BY <2>1, <2>2, <2>3 DEF TaxNext
<1>2. QED BY <1>1, TaxStarts, PTL DEF TaxSpec

\* What `eval tax` says is consistent and names only models that changed, wherever the
\* bootstrap put the interval, and it is true of the probes' pass rates whenever the
\* interval contains the change that was observed.
THEOREM TaxesAreTold == TaxSpec => []TaxIsTold
BY TaxInvariance, ToldByTheProbes, PTL

-----------------------------------------------------------------------------
(* The order of rewards.                                                   *)

\* A reward as a fraction.
IsFraction(a) == a.num \in Nat /\ a.den \in Nat \ {0}

\* The order of fractions is total and transitive.
LEMMA NoLowerOrders ==
    ASSUME NEW a, NEW b, NEW c, IsFraction(a), IsFraction(b), IsFraction(c)
    PROVE  /\ NoLower(a, a)
           /\ NoLower(a, b) \/ NoLower(b, a)
           /\ NoLower(a, b) /\ NoLower(b, c) => NoLower(a, c)
<1> DEFINE an == a.num  ad == a.den
           bn == b.num  bd == b.den
           cn == c.num  cd == c.den
<1>1. an \in Nat /\ bn \in Nat /\ cn \in Nat /\ ad \in Nat \ {0} /\ bd \in Nat \ {0} /\ cd \in Nat \ {0}
  BY DEF IsFraction
<1>2. /\ NoLower(a, a) <=> (an * ad >= an * ad)
      /\ NoLower(a, b) <=> (an * bd >= bn * ad)
      /\ NoLower(b, a) <=> (bn * ad >= an * bd)
      /\ NoLower(b, c) <=> (bn * cd >= cn * bd)
      /\ NoLower(a, c) <=> (an * cd >= cn * ad)
  BY DEF NoLower
<1> HIDE DEF an, ad, bn, bd, cn, cd
<1>3. an * ad \in Nat /\ an * bd \in Nat /\ bn * ad \in Nat
  BY <1>1
<1>4. ASSUME an * bd >= bn * ad, bn * cd >= cn * bd PROVE an * cd >= cn * ad
  <2>1. (an * bd) * cd >= (bn * ad) * cd
    BY <1>1, <1>4
  <2>2. (bn * cd) * ad >= (cn * bd) * ad
    BY <1>1, <1>4
  <2> DEFINE x == an * cd
             y == cn * ad
  <2>3. x \in Nat /\ y \in Nat
    BY <1>1
  <2>4. bd * x >= bd * y
    BY <1>1, <2>1, <2>2
  <2> HIDE DEF x, y
  <2>5. x >= y
    BY <1>1, <2>3, <2>4
  <2>6. QED BY <2>5 DEF x, y
<1>5. QED BY <1>2, <1>3, <1>4

\* What is ahead by a positive margin is higher.
LEMMA AheadIsHigher ==
    ASSUME NEW a, NEW b, IsFraction(a), IsFraction(b), Ahead(a, b, MinMargin)
    PROVE  ~NoLower(b, a)
<1> DEFINE an == a.num  ad == a.den
           bn == b.num  bd == b.den
           mn == MinMargin.num  md == MinMargin.den
<1>1. an \in Nat /\ bn \in Nat /\ ad \in Nat \ {0} /\ bd \in Nat \ {0}
  BY DEF IsFraction
<1>2. mn \in Nat \ {0} /\ md \in Nat \ {0}
  BY MiningAssumption
<1>3. (an * bd - bn * ad) * md >= mn * ad * bd
  BY DEF Ahead
<1>4. NoLower(b, a) <=> (bn * ad >= an * bd)
  BY DEF NoLower
<1> HIDE DEF an, ad, bn, bd, mn, md
<1> DEFINE d == an * bd - bn * ad
<1>5. d \in Int /\ an * bd \in Int /\ bn * ad \in Int
  BY <1>1
<1>6. mn * ad * bd > 0
  BY <1>1, <1>2
<1>7. d * md > 0
  <2>1. d * md \in Int /\ mn * ad * bd \in Int
    BY <1>1, <1>2, <1>5
  <2>2. QED BY <1>3, <1>6, <2>1
<1>8. d > 0
  <2> HIDE DEF d
  <2>1. QED BY <1>2, <1>5, <1>7
<1>9. QED BY <1>4, <1>5, <1>8

\* Whether one is ahead of another by the margin is not changed by widening.
LEMMA AheadWidens ==
    ASSUME NEW a, NEW b, NEW c, NEW d, IsFraction(a), IsFraction(b), IsFraction(c), IsFraction(d),
           NoLower(c, a), NoLower(b, d), Ahead(a, b, MinMargin)
    PROVE  Ahead(c, d, MinMargin)
<1> DEFINE an == a.num  ad == a.den
           bn == b.num  bd == b.den
           cn == c.num  cd == c.den
           dn == d.num  dd == d.den
           mn == MinMargin.num  md == MinMargin.den
<1>1. /\ an \in Nat /\ bn \in Nat /\ cn \in Nat /\ dn \in Nat
      /\ ad \in Nat \ {0} /\ bd \in Nat \ {0} /\ cd \in Nat \ {0} /\ dd \in Nat \ {0}
  BY DEF IsFraction
<1>2. mn \in Nat \ {0} /\ md \in Nat \ {0}
  BY MiningAssumption
<1>3. /\ (an * bd - bn * ad) * md >= mn * ad * bd
      /\ cn * ad >= an * cd /\ bn * dd >= dn * bd
  BY DEF Ahead, NoLower
<1>4. Ahead(c, d, MinMargin) <=> ((cn * dd - dn * cd) * md >= mn * cd * dd)
  BY DEF Ahead
<1> HIDE DEF an, ad, bn, bd, cn, cd, dn, dd, mn, md
<1> DEFINE f == an * bd - bn * ad
           x == cn * dd - dn * cd
           p == ad * bd
           q == cd * dd
<1>5. f \in Int /\ x \in Int /\ p \in Nat \ {0} /\ q \in Nat \ {0}
  <2>1. an * bd \in Int /\ bn * ad \in Int /\ cn * dd \in Int /\ dn * cd \in Int
    BY <1>1
  <2>2. ad * bd \in Nat \ {0} /\ cd * dd \in Nat \ {0}
    BY <1>1
  <2>3. QED BY <2>1, <2>2
<1>6. p * x >= q * f
  <2>1. (cn * ad) * (bd * dd) >= (an * cd) * (bd * dd)
    <3>1. cn * ad \in Nat /\ an * cd \in Nat /\ bd * dd \in Nat
      BY <1>1
    <3>2. QED BY <1>3, <3>1
  <2>2. (bn * dd) * (ad * cd) >= (dn * bd) * (ad * cd)
    <3>1. bn * dd \in Nat /\ dn * bd \in Nat /\ ad * cd \in Nat
      BY <1>1
    <3>2. QED BY <1>3, <3>1
  <2>3. p * x = (cn * ad) * (bd * dd) - (dn * bd) * (ad * cd)
    BY <1>1
  <2>4. q * f = (an * cd) * (bd * dd) - (bn * dd) * (ad * cd)
    BY <1>1
  <2>5. /\ (cn * ad) * (bd * dd) \in Int /\ (an * cd) * (bd * dd) \in Int
        /\ (bn * dd) * (ad * cd) \in Int /\ (dn * bd) * (ad * cd) \in Int
    BY <1>1
  <2>6. QED BY <2>1, <2>2, <2>3, <2>4, <2>5
<1>7. f * md >= mn * p
  <2>1. mn * ad * bd = mn * p
    BY <1>1, <1>2
  <2>2. QED BY <1>3, <2>1
<1>8. /\ Ahead(c, d, MinMargin) <=> (x * md >= mn * cd * dd)
      /\ mn * cd * dd = mn * q
  BY <1>1, <1>2, <1>4
<1> HIDE DEF f, x, p, q
<1>9. p * (x * md) >= p * (mn * q)
  <2>1. (p * x) * md >= (q * f) * md
    <3>1. p * x \in Int /\ q * f \in Int
      BY <1>5
    <3>2. QED BY <1>2, <1>6, <3>1
  <2>2. q * (f * md) >= q * (mn * p)
    <3>1. f * md \in Int /\ mn * p \in Int
      BY <1>2, <1>5
    <3>2. QED BY <1>5, <1>7, <3>1
  <2>3. (p * x) * md = p * (x * md) /\ (q * f) * md = q * (f * md) /\ q * (mn * p) = p * (mn * q)
    BY <1>2, <1>5
  <2>4. p * (x * md) \in Int /\ q * (f * md) \in Int /\ p * (mn * q) \in Int
    BY <1>2, <1>5
  <2>5. QED BY <2>1, <2>2, <2>3, <2>4
<1>10. x * md >= mn * q
  <2> DEFINE u == x * md
             v == mn * q
  <2>1. u \in Int /\ v \in Int /\ p * u >= p * v
    BY <1>2, <1>5, <1>9
  <2> HIDE DEF u, v
  <2>2. u >= v
    BY <1>5, <2>1
  <2>3. QED BY <2>2 DEF u, v
<1>11. QED BY <1>8, <1>10

-----------------------------------------------------------------------------
(* Mining preferences.                                                     *)

\* The completions of a prompt have a reward that is a fraction of at most one.
Judged(p) == Texts \cup {GoldText(GoldOf[p])}

LEMMA ValuesAreFractions ==
    ASSUME NEW p \in DOMAIN Prompts, NEW t \in Judged(p)
    PROVE  IsFraction(Value(p, t)) /\ Value(p, t).num <= Value(p, t).den
<1>1. Value(p, t) = Reward(ExtractStrict(t), GoldOf[p])
  BY DEF Value, Judgement, StrictReward, Judged
<1>2. /\ IsFiniteSet(Scalars) /\ Finite(GoldOf[p]) /\ Finite(t.record)
      /\ GoldPaths(GoldOf[p]) # {}
  BY PromptsAssumption DEF Finite, Judged
<1>3. ExtractStrict(t) \in Outcomes(t)
  BY StrictOutcomes
<1>4. /\ Value(p, t).num \in Nat /\ Value(p, t).den \in Nat
      /\ Value(p, t).num <= Value(p, t).den /\ Value(p, t).den > 0
  BY <1>1, <1>2, <1>3, RewardsAreFractions
<1>5. QED BY <1>4 DEF IsFraction

\* All completions of a prompt that were drawn.
Sampled(p) == /\ k \in Nat \ {0}
              /\ \A i \in 1..k : samples[p][i] \in Texts

\* The reward of a sample.
Worthy(p, i) == Value(p, samples[p][i])

LEMMA SampleValues ==
    ASSUME NEW p \in DOMAIN Prompts, Sampled(p)
    PROVE  \A i \in 1..k : IsFraction(Worthy(p, i)) /\ Worthy(p, i).num <= Worthy(p, i).den
BY ValuesAreFractions DEF Sampled, Worthy, Judged

\* In a ranking, any earlier sample is no lower than a later one.
LEMMA RankingFalls ==
    ASSUME NEW p \in DOMAIN Prompts, Sampled(p), NEW order \in Ranked(p)
    PROVE  /\ \A h \in 1..k : order[h] \in 1..k
           /\ \A h, i \in 1..k : h <= i => NoLower(Worthy(p, order[h]), Worthy(p, order[i]))
<1>1. \A h \in 1..k : order[h] \in 1..k
  BY DEF Ranked
<1>2. \A h \in 1..(k - 1) : NoLower(Worthy(p, order[h]), Worthy(p, order[h + 1]))
  BY DEF Ranked, Worthy
<1>3. k \in Nat \ {0}
  BY DEF Sampled
<1>4. ASSUME NEW h \in 1..k
      PROVE  \A i \in 1..k : h <= i => NoLower(Worthy(p, order[h]), Worthy(p, order[i]))
  <2> DEFINE bad == {i \in 1..k : h <= i /\ ~NoLower(Worthy(p, order[h]), Worthy(p, order[i]))}
  <2> SUFFICES ASSUME bad # {} PROVE FALSE
    OBVIOUS
  <2>1. bad \subseteq Nat
    BY <1>3
  <2> HIDE DEF bad
  <2>2. PICK m \in bad : \A o \in bad : <<o, m>> \notin OpToRel(<, Nat)
    BY <2>1, NatLessThanWellFounded, WFMin
  <2>3. \A o \in bad : ~(o < m)
    BY <2>1, <2>2 DEF OpToRel
  <2>4. m \in 1..k /\ h <= m /\ ~NoLower(Worthy(p, order[h]), Worthy(p, order[m]))
    BY <2>2 DEF bad
  <2>5. IsFraction(Worthy(p, order[h])) /\ IsFraction(Worthy(p, order[m]))
    BY <1>1, <2>4, SampleValues
  <2>6. h # m
    BY <2>4, <2>5, NoLowerOrders
  <2>7. m - 1 \in 1..k /\ h <= m - 1 /\ m - 1 < m /\ m - 1 \in 1..(k - 1) /\ (m - 1) + 1 = m
    BY <1>3, <2>4, <2>6
  <2>8. NoLower(Worthy(p, order[h]), Worthy(p, order[m - 1]))
    BY <2>3, <2>7 DEF bad
  <2>9. NoLower(Worthy(p, order[m - 1]), Worthy(p, order[m]))
    BY <1>2, <2>7
  <2>10. IsFraction(Worthy(p, order[m - 1]))
    BY <1>1, <2>7, SampleValues
  <2>11. QED BY <2>4, <2>5, <2>8, <2>9, <2>10, NoLowerOrders
<1>5. QED BY <1>1, <1>4

\* The first places of a stretch, as many as they are, if none is left out before another.
LEMMA FirstPlaces ==
    ASSUME NEW n \in Nat, NEW reach \in SUBSET (1..n),
           \A h \in reach : \A g \in 1..h : g \in reach
    PROVE  /\ Cardinality(reach) \in 0..n
           /\ \A h \in 1..n : h \in reach <=> h <= Cardinality(reach)
<1>1. IsFiniteSet(1..n) /\ Cardinality(1..n) = n
  BY FS_Interval
<1>2. IsFiniteSet(reach) /\ Cardinality(reach) <= n
  BY <1>1, FS_Subset
<1>3. Cardinality(reach) \in Nat
  BY <1>2, FS_CardinalityType
<1>4. ASSUME NEW h \in reach PROVE h <= Cardinality(reach)
  <2>1. h \in Nat /\ 1..h \subseteq reach
    BY <1>4
  <2>2. Cardinality(1..h) = h
    BY <2>1, FS_Interval
  <2>3. QED BY <1>2, <2>1, <2>2, FS_Subset
<1>5. ASSUME NEW h \in 1..n, h \notin reach PROVE Cardinality(reach) < h
  <2>1. \A g \in reach : g < h
    BY <1>5
  <2>2. reach \subseteq 1..(h - 1)
    BY <2>1
  <2>3. h - 1 \in Nat
    OBVIOUS
  <2>4. IsFiniteSet(1..(h - 1)) /\ Cardinality(1..(h - 1)) = h - 1
    BY <2>3, FS_Interval
  <2>5. Cardinality(reach) <= h - 1
    BY <2>2, <2>4, FS_Subset
  <2>6. QED BY <1>3, <2>3, <2>5
<1>6. QED BY <1>2, <1>3, <1>4, <1>5

\* Places without a gap are listed as they are.
LEMMA NothingLeftOut ==
    ASSUME NEW n \in Nat, NEW m \in 1..n
    PROVE  (CHOOSE i \in 1..n : Nth(i, 1..n) = m) = m
<1>1. \A i \in 1..n : Nth(i, 1..n) = i
  <2> SUFFICES ASSUME NEW i \in 1..n PROVE Nth(i, 1..n) = i
    OBVIOUS
  <2>1. {h \in 1..n : h <= i} = 1..i
    OBVIOUS
  <2>2. i \in Nat
    OBVIOUS
  <2>3. Cardinality(1..i) = i
    BY <2>2, FS_Interval
  <2>4. QED BY <2>1, <2>3 DEF Nth
<1>2. QED BY <1>1

-----------------------------------------------------------------------------
(* Lists of pairs.                                                         *)

IsList(s) == \E S : s \in Seq(S)

\* The pairs of one prompt.
OnePrompt(list, p) ==
    /\ IsList(list) /\ Len(list) <= PairCap
    /\ \A i \in 1..Len(list) : list[i].prompt = p /\ WorthIt(list[i])
    /\ \A i, j \in 1..Len(list) :
          /\ list[i].chosen # list[j].rejected
          /\ i <= j => NoLower(list[j].worse, list[i].worse)

\* The pairs of the first n prompts.
Agrees(list, n) ==
    /\ IsList(list)
    /\ \A i \in 1..Len(list) : list[i].prompt \in 1..n /\ WorthIt(list[i])
    /\ \A i, j \in 1..Len(list) :
          list[i].prompt = list[j].prompt =>
              /\ list[i].chosen # list[j].rejected
              /\ i <= j => NoLower(list[j].worse, list[i].worse)
    /\ \A p \in 1..n : Cardinality({j \in 1..Len(list) : list[j].prompt = p}) <= PairCap

\* The prompt has a pair in the list.
Has(list, p) == \E i \in 1..Len(list) : list[i].prompt = p

\* A list behind another.
LEMMA ListsJoin ==
    ASSUME NEW s, NEW r, IsList(s), IsList(r)
    PROVE  /\ IsList(s \o r) /\ Len(s) \in Nat /\ Len(r) \in Nat
           /\ Len(s \o r) = Len(s) + Len(r)
           /\ \A i \in 1..Len(s) : (s \o r)[i] = s[i]
           /\ \A i \in (Len(s) + 1)..(Len(s) + Len(r)) : (s \o r)[i] = r[i - Len(s)]
<1>1. PICK S : s \in Seq(S)
  BY DEF IsList
<1>2. PICK R : r \in Seq(R)
  BY DEF IsList
<1> DEFINE T == S \cup R
<1>3. s \in Seq(T) /\ r \in Seq(T)
  BY <1>1, <1>2
<1> HIDE DEF T
<1>4. /\ s \o r \in Seq(T) /\ Len(s) \in Nat /\ Len(r) \in Nat
      /\ Len(s \o r) = Len(s) + Len(r)
      /\ \A i \in 1..(Len(s) + Len(r)) :
            (s \o r)[i] = IF i <= Len(s) THEN s[i] ELSE r[i - Len(s)]
  BY <1>3, ConcatProperties
<1>5. QED BY <1>4 DEF IsList

\* The pairs of the next prompt agree with those before.
LEMMA NextPrompt ==
    ASSUME NEW list, NEW more, NEW n \in Nat, Agrees(list, n), OnePrompt(more, n + 1)
    PROVE  /\ Agrees(list \o more, n + 1)
           /\ Len(list \o more) = Len(list) + Len(more)
           /\ \A p \in 1..n : Has(list \o more, p) <=> Has(list, p)
           /\ Has(list \o more, n + 1) <=> Len(more) # 0
<1> DEFINE both == list \o more
           a == Len(list)
           b == Len(more)
<1>1. /\ IsList(both) /\ a \in Nat /\ b \in Nat /\ Len(both) = a + b
      /\ \A i \in 1..a : both[i] = list[i]
      /\ \A i \in (a + 1)..(a + b) : both[i] = more[i - a]
  BY ListsJoin DEF Agrees, OnePrompt
<1>2. \A i \in 1..a : both[i].prompt \in 1..n /\ WorthIt(both[i])
  BY <1>1 DEF Agrees
<1>3. \A i \in (a + 1)..(a + b) : i - a \in 1..b
  BY <1>1
<1>4. \A i \in (a + 1)..(a + b) : both[i].prompt = n + 1 /\ WorthIt(both[i])
  BY <1>1, <1>3 DEF OnePrompt
<1> HIDE DEF both, a, b
<1>5. \A i \in 1..(a + b) : i \in 1..a \/ i \in (a + 1)..(a + b)
  BY <1>1
<1>6. \A p \in 1..n : p # n + 1 /\ p \in 1..(n + 1)
  OBVIOUS
<1>7. \A i, j \in 1..a : both[i].prompt = both[j].prompt =>
              /\ both[i].chosen # both[j].rejected
              /\ i <= j => NoLower(both[j].worse, both[i].worse)
  BY <1>1 DEF Agrees, a
<1>8. \A i, j \in (a + 1)..(a + b) :
              /\ both[i].chosen # both[j].rejected
              /\ i <= j => NoLower(both[j].worse, both[i].worse)
  <2> SUFFICES ASSUME NEW i \in (a + 1)..(a + b), NEW j \in (a + 1)..(a + b)
               PROVE  /\ both[i].chosen # both[j].rejected
                      /\ i <= j => NoLower(both[j].worse, both[i].worse)
    OBVIOUS
  <2>1. /\ i - a \in 1..b /\ j - a \in 1..b /\ (i <= j => i - a <= j - a)
    BY <1>1, <1>3
  <2>2. both[i] = more[i - a] /\ both[j] = more[j - a]
    BY <1>1
  <2>3. QED BY <2>1, <2>2 DEF OnePrompt, b
<1>9. ASSUME NEW p \in 1..n
      PROVE  {j \in 1..(a + b) : both[j].prompt = p} = {j \in 1..a : list[j].prompt = p}
  <2>1. 1..a \subseteq 1..(a + b)
    BY <1>1
  <2>2. QED BY <1>1, <1>4, <1>5, <1>6, <2>1
<1>10. {j \in 1..(a + b) : both[j].prompt = n + 1} = (a + 1)..(a + b)
  <2>1. (a + 1)..(a + b) \subseteq 1..(a + b)
    BY <1>1
  <2>2. QED BY <1>2, <1>4, <1>5, <1>6, <2>1
<1>11. ASSUME NEW p \in 1..(n + 1)
       PROVE  Cardinality({j \in 1..(a + b) : both[j].prompt = p}) <= PairCap
  <2>1. CASE p \in 1..n
    BY <1>9, <2>1 DEF Agrees, a
  <2>2. CASE p = n + 1
    <3> DEFINE c == a + 1  d == a + b
    <3>1. c \in Int /\ d \in Int /\ (IF c > d THEN 0 ELSE d - c + 1) = b
      BY <1>1
    <3>2. Cardinality(c..d) = IF c > d THEN 0 ELSE d - c + 1
      <4> HIDE DEF c, d
      <4>1. QED BY <3>1, FS_Interval
    <3>3. Cardinality((a + 1)..(a + b)) = b
      BY <3>1, <3>2
    <3>4. QED BY <1>10, <2>2, <3>3 DEF OnePrompt, b
  <2>3. QED BY <2>1, <2>2
<1>12. \A i \in 1..(a + b) : both[i].prompt \in 1..(n + 1) /\ WorthIt(both[i])
  BY <1>2, <1>4, <1>5, <1>6
<1>13. \A i, j \in 1..(a + b) : both[i].prompt = both[j].prompt =>
              /\ both[i].chosen # both[j].rejected
              /\ i <= j => NoLower(both[j].worse, both[i].worse)
  BY <1>2, <1>4, <1>5, <1>6, <1>7, <1>8
<1>14. Agrees(both, n + 1)
  BY <1>1, <1>11, <1>12, <1>13 DEF Agrees
<1>15. \A p \in 1..n : (\E i \in 1..(a + b) : both[i].prompt = p)
                           <=> (\E i \in 1..a : list[i].prompt = p)
  BY <1>9
<1>16. (\E i \in 1..(a + b) : both[i].prompt = n + 1) <=> b # 0
  BY <1>1, <1>10
<1>17. QED BY <1>1, <1>14, <1>15, <1>16 DEF both, a, b, Has

\* An empty list agrees.
LEMMA NoPairs ==
    ASSUME NEW n \in Nat, NEW list, IsList(list), Len(list) = 0
    PROVE  Agrees(list, n)
<1>1. \A p : {j \in 1..Len(list) : list[j].prompt = p} = {}
  OBVIOUS
<1>2. PairCap \in Nat
  BY MiningAssumption
<1>3. QED BY <1>1, <1>2, FS_EmptySet DEF Agrees

\* No prompt at all has more pairs by having more prompts.
LEMMA FewerPrompts ==
    ASSUME NEW m \in Nat, NEW n \in Nat, m <= n, NEW list, Agrees(list, m)
    PROVE  Agrees(list, n)
<1>1. \A i \in 1..Len(list) : list[i].prompt \in 1..n
  BY DEF Agrees
<1>2. ASSUME NEW p \in 1..n
      PROVE  Cardinality({j \in 1..Len(list) : list[j].prompt = p}) <= PairCap
  <2>1. CASE p \in 1..m
    BY <2>1 DEF Agrees
  <2>2. CASE p \notin 1..m
    <3>1. {j \in 1..Len(list) : list[j].prompt = p} = {}
      BY <2>2 DEF Agrees
    <3>2. PairCap \in Nat
      BY MiningAssumption
    <3>3. QED BY <3>1, <3>2, FS_EmptySet
  <2>3. QED BY <2>1, <2>2
<1>3. QED BY <1>1, <1>2 DEF Agrees

-----------------------------------------------------------------------------
(* The pairs of one prompt.                                                *)

\* The two sides of a candidate.
LEMMA CandidateIs ==
    ASSUME NEW p, NEW order, NEW h
    PROVE  LET c == Candidate(p, order, h)
           IN  /\ c.prompt = p
               /\ c.chosen = samples[p][order[h]] /\ c.rejected = samples[p][order[k + 1 - h]]
               /\ c.better = Worthy(p, order[h]) /\ c.worse = Worthy(p, order[k + 1 - h])
BY DEF Candidate, Worthy

\* The candidates are those of the outermost places.
LEMMA CandidatesAre ==
    ASSUME NEW p, Sampled(p), NEW order
    PROVE  \E n \in Nat :
              /\ 2 * n <= k
              /\ Candidates(p, order) = [h \in 1..n |-> Candidate(p, order, h)]
              /\ \A h \in 1..n : WorthIt(Candidate(p, order, h))
              /\ n # 0 <=> (k > 1 /\ WorthIt(Candidate(p, order, 1)))
<1> DEFINE half == k \div 2
           reach == {h \in 1..half : \A g \in 1..h : WorthIt(Candidate(p, order, g))}
           n == Cardinality(reach)
<1>1. half \in Nat /\ 2 * half <= k /\ (k > 1 <=> half # 0)
  BY DEF Sampled
<1>2. \A h \in reach : \A g \in 1..h : g \in reach
  <2> SUFFICES ASSUME NEW h \in reach, NEW g \in 1..h PROVE g \in reach
    OBVIOUS
  <2>1. h \in 1..half /\ \A f \in 1..h : WorthIt(Candidate(p, order, f))
    OBVIOUS
  <2>2. g \in 1..half /\ \A f \in 1..g : f \in 1..h
    BY <1>1, <2>1
  <2>3. QED BY <2>1, <2>2
<1>3. reach \in SUBSET (1..half)
  OBVIOUS
<1>4. \A h \in reach : h \in 1..h
  BY <1>1
<1>5. \A h \in reach : WorthIt(Candidate(p, order, h))
  BY <1>4
<1>6. half # 0 /\ WorthIt(Candidate(p, order, 1)) => 1 \in reach
  BY <1>1
<1>7. Candidates(p, order) = [h \in 1..n |-> Candidate(p, order, h)]
  BY DEF Candidates
<1> HIDE DEF half, reach
<1>8. n \in 0..half /\ \A h \in 1..half : h \in reach <=> h <= n
  BY <1>1, <1>2, <1>3, FirstPlaces
<1> HIDE DEF n
<1>9. n \in Nat /\ 2 * n <= k
  BY <1>1, <1>8 DEF Sampled
<1>10. \A h \in 1..n : h \in reach
  BY <1>1, <1>8
<1>11. n # 0 <=> (k > 1 /\ WorthIt(Candidate(p, order, 1)))
  <2>1. n # 0 => 1 \in 1..n /\ half # 0
    BY <1>1, <1>8
  <2>2. half # 0 /\ 1 \in reach => n # 0
    BY <1>1, <1>8
  <2>3. QED BY <1>1, <1>5, <1>6, <1>10, <2>1, <2>2
<1>12. QED BY <1>5, <1>7, <1>9, <1>10, <1>11

\* No text is the better side of one candidate and the worse side of another.
LEMMA SidesDiffer ==
    ASSUME NEW p \in DOMAIN Prompts, Sampled(p), NEW order \in Ranked(p),
           NEW n \in Nat, 2 * n <= k,
           \A h \in 1..n : WorthIt(Candidate(p, order, h)),
           NEW h \in 1..n, NEW g \in 1..n
    PROVE  /\ Candidate(p, order, h).chosen # Candidate(p, order, g).rejected
           /\ h <= g => NoLower(Candidate(p, order, g).worse, Candidate(p, order, h).worse)
<1>1. k \in Nat \ {0}
  BY DEF Sampled
<1>2. PICK m \in 1..n : h <= m /\ g <= m
  <2>1. h <= g \/ g <= h
    OBVIOUS
  <2>2. h <= h /\ g <= g
    OBVIOUS
  <2>3. QED BY <2>1, <2>2
<1>3. /\ h \in 1..k /\ g \in 1..k /\ m \in 1..k
      /\ k + 1 - h \in 1..k /\ k + 1 - g \in 1..k /\ k + 1 - m \in 1..k
      /\ k + 1 - m <= k + 1 - g /\ (h <= g => k + 1 - g <= k + 1 - h)
  BY <1>1, <1>2
<1>4. NoLower(Worthy(p, order[h]), Worthy(p, order[m]))
  BY <1>2, <1>3, RankingFalls
<1>5. NoLower(Worthy(p, order[k + 1 - m]), Worthy(p, order[k + 1 - g]))
  BY <1>3, RankingFalls
<1>6. h <= g => NoLower(Worthy(p, order[k + 1 - g]), Worthy(p, order[k + 1 - h]))
  BY <1>3, RankingFalls
<1>7. /\ IsFraction(Worthy(p, order[h])) /\ IsFraction(Worthy(p, order[m]))
      /\ IsFraction(Worthy(p, order[k + 1 - m])) /\ IsFraction(Worthy(p, order[k + 1 - g]))
  BY <1>3, RankingFalls, SampleValues
<1>8. ~NoLower(Worthy(p, order[k + 1 - m]), Worthy(p, order[m]))
  <2>1. WorthIt(Candidate(p, order, m))
    BY <1>2
  <2>2. Ahead(Worthy(p, order[m]), Worthy(p, order[k + 1 - m]), MinMargin)
    BY <2>1, CandidateIs DEF WorthIt
  <2>3. QED BY <1>7, <2>2, AheadIsHigher
<1>9. samples[p][order[h]] # samples[p][order[k + 1 - g]]
  <2> SUFFICES ASSUME samples[p][order[h]] = samples[p][order[k + 1 - g]] PROVE FALSE
    OBVIOUS
  <2>1. Worthy(p, order[h]) = Worthy(p, order[k + 1 - g])
    BY DEF Worthy
  <2>2. QED BY <1>4, <1>5, <1>7, <1>8, <2>1, NoLowerOrders
<1>10. QED BY <1>6, <1>9, CandidateIs

\* Mining leaves nothing out but what is beyond the cap, and what it keeps agrees.
LEMMA MinedAgree ==
    ASSUME NEW p \in DOMAIN Prompts, Sampled(p), NEW order \in Ranked(p)
    PROVE  LET candidates == Candidates(p, order)
               distinct == Differing(candidates)
               kept == Kept(distinct)
           IN  /\ distinct = candidates /\ Len(candidates) \in Nat
               /\ OnePrompt(kept, p) /\ Len(kept) \in Nat
               /\ (kept # <<>>) <=> (Len(kept) # 0)
               /\ Len(kept) # 0 <=>
                     (k > 1 /\ Ahead(Worthy(p, order[1]), Worthy(p, order[k]), MinMargin))
<1> DEFINE c == Candidates(p, order)
           pair(h) == Candidate(p, order, h)
<1>1. PICK n \in Nat :
         /\ 2 * n <= k
         /\ c = [h \in 1..n |-> pair(h)]
         /\ \A h \in 1..n : WorthIt(pair(h))
         /\ n # 0 <=> (k > 1 /\ WorthIt(pair(1)))
  BY CandidatesAre
<1> DEFINE T == {pair(h) : h \in 1..n}
<1>2. \A h, g \in 1..n : /\ pair(h).chosen # pair(g).rejected
                         /\ h <= g => NoLower(pair(g).worse, pair(h).worse)
  BY <1>1, SidesDiffer
<1>3. /\ c \in [1..n -> T] /\ DOMAIN c = 1..n /\ \A h \in 1..n : c[h] = pair(h)
  BY <1>1
<1>4. \A h \in 1..n : pair(h).prompt = p
  BY CandidateIs
<1> HIDE DEF c, pair, T
<1>5. c \in Seq(T) /\ Len(c) = n
  BY <1>1, <1>3
<1>6. Differing(c) = c
  <2> DEFINE places == {h \in DOMAIN c : c[h].chosen # c[h].rejected}
             at(m) == CHOOSE h \in places : Nth(h, places) = m
  <2>1. places = 1..n
    <3>1. \A h \in 1..n : c[h].chosen # c[h].rejected
      <4>1. \A h \in 1..n : pair(h).chosen # pair(h).rejected
        BY <1>2
      <4>2. QED BY <1>3, <4>1
    <3>2. QED BY <1>3, <3>1
  <2>2. Cardinality(places) = n
    <3>1. Cardinality(1..n) = n
      BY FS_Interval
    <3>2. QED BY <2>1, <3>1
  <2>3. \A m \in 1..n : at(m) = m
    BY <2>1, NothingLeftOut
  <2>4. Differing(c) = [m \in 1..Cardinality(places) |-> c[at(m)]]
    BY DEF Differing
  <2> HIDE DEF places, at
  <2>5. Differing(c) = [m \in 1..n |-> c[m]]
    BY <2>2, <2>3, <2>4
  <2>6. c = [m \in 1..n |-> c[m]]
    BY <1>3
  <2>7. QED BY <2>5, <2>6
<1> DEFINE cap == IF n <= PairCap THEN n ELSE PairCap
           kept == SubSeq(c, 1, cap)
<1>7. Kept(c) = kept
  BY <1>5 DEF Kept
<1>8. /\ cap \in Nat /\ cap <= n /\ cap <= PairCap /\ (cap # 0 <=> n # 0)
      /\ \A i \in 1..cap : i \in 1..n
  BY MiningAssumption
<1> HIDE DEF cap
<1>9. kept \in Seq(T) /\ Len(kept) = cap /\ \A i \in 1..cap : kept[i] = c[i]
  <2>1. 1 \in 1..(Len(c) + 1) /\ cap \in 0..Len(c) /\ cap - 1 + 1 = cap
    BY <1>1, <1>5, <1>8
  <2>2. QED BY <1>1, <1>5, <1>8, <2>1, SubSeqProperties
<1> HIDE DEF kept
<1>10. \A i \in 1..cap : kept[i] = pair(i)
  BY <1>3, <1>8, <1>9
<1>11. OnePrompt(kept, p)
  <2>1. IsList(kept)
    BY <1>9 DEF IsList
  <2>2. \A i \in 1..cap : kept[i].prompt = p /\ WorthIt(kept[i])
    BY <1>1, <1>4, <1>8, <1>10
  <2>3. \A i, j \in 1..cap : /\ kept[i].chosen # kept[j].rejected
                             /\ i <= j => NoLower(kept[j].worse, kept[i].worse)
    BY <1>2, <1>8, <1>10
  <2>4. QED BY <1>8, <1>9, <2>1, <2>2, <2>3 DEF OnePrompt
<1>12. WorthIt(pair(1)) <=> Ahead(Worthy(p, order[1]), Worthy(p, order[k]), MinMargin)
  <2>1. k + 1 - 1 = k
    BY DEF Sampled
  <2>2. pair(1).better = Worthy(p, order[1]) /\ pair(1).worse = Worthy(p, order[k])
    BY <2>1, CandidateIs DEF pair
  <2>3. QED BY <2>2 DEF WorthIt
<1>13. (kept # <<>>) <=> (Len(kept) # 0)
  BY <1>9
<1>14. QED BY <1>1, <1>5, <1>6, <1>7, <1>8, <1>9, <1>11, <1>12, <1>13 DEF c

-----------------------------------------------------------------------------
(* The pairs against gold.                                                 *)

\* The sort key orders the samples worth rejecting.
LEMMA KeyOrders ==
    ASSUME NEW p \in DOMAIN Prompts, Sampled(p), NEW i \in Worth(p), NEW j \in Worth(p)
    PROVE  /\ i \in UpTo(p, i)
           /\ i \in UpTo(p, j) \/ j \in UpTo(p, i)
           /\ i \in UpTo(p, j) /\ i # j => j \notin UpTo(p, i)
           /\ i \in UpTo(p, j) => UpTo(p, i) \subseteq UpTo(p, j)
           /\ ~NoLower(Worthy(p, j), Worthy(p, i)) => j \in UpTo(p, i) /\ i # j
<1>1. k \in Nat /\ \A h \in Worth(p) : h \in 1..k /\ h \in Nat
  BY DEF Worth, Sampled
<1>2. \A h \in Worth(p) : IsFraction(Worthy(p, h))
  BY <1>1, SampleValues
<1>3. \A h, l \in Worth(p) :
         l \in UpTo(p, h) <=> /\ NoLower(Worthy(p, h), Worthy(p, l))
                              /\ NoLower(Worthy(p, l), Worthy(p, h)) => l <= h
  BY DEF UpTo, Worthy
<1>4. \A h, l \in Worth(p) : /\ NoLower(Worthy(p, h), Worthy(p, h))
                             /\ NoLower(Worthy(p, h), Worthy(p, l)) \/ NoLower(Worthy(p, l), Worthy(p, h))
  BY <1>2, NoLowerOrders
<1>5. \A g, h, l \in Worth(p) :
         NoLower(Worthy(p, g), Worthy(p, h)) /\ NoLower(Worthy(p, h), Worthy(p, l))
            => NoLower(Worthy(p, g), Worthy(p, l))
  BY <1>2, NoLowerOrders
<1>6. ASSUME i \in UpTo(p, j) PROVE UpTo(p, i) \subseteq UpTo(p, j)
  <2> SUFFICES ASSUME NEW h \in UpTo(p, i) PROVE h \in UpTo(p, j)
    OBVIOUS
  <2>1. h \in Worth(p)
    BY DEF UpTo
  <2>2. NoLower(Worthy(p, j), Worthy(p, h))
    BY <1>3, <1>5, <1>6, <2>1
  <2>3. NoLower(Worthy(p, h), Worthy(p, j)) => h <= j
    <3>1. ASSUME NoLower(Worthy(p, h), Worthy(p, j)) PROVE h <= j
      <4>1. NoLower(Worthy(p, i), Worthy(p, j)) /\ NoLower(Worthy(p, h), Worthy(p, i))
        BY <1>3, <1>5, <1>6, <2>1, <3>1
      <4>2. i <= j /\ h <= i
        BY <1>3, <1>6, <2>1, <4>1
      <4>3. QED BY <1>1, <2>1, <4>2
    <3>2. QED BY <3>1
  <2>4. QED BY <1>3, <2>1, <2>2, <2>3
<1>7. i \in UpTo(p, i)
  BY <1>1, <1>3, <1>4
<1>8. i \in UpTo(p, j) \/ j \in UpTo(p, i)
  BY <1>1, <1>3, <1>4
<1>9. i \in UpTo(p, j) /\ i # j => j \notin UpTo(p, i)
  BY <1>1, <1>3
<1>10. ~NoLower(Worthy(p, j), Worthy(p, i)) => j \in UpTo(p, i) /\ i # j
  BY <1>3, <1>4
<1>11. QED BY <1>6, <1>7, <1>8, <1>9, <1>10

\* The samples worth rejecting are all listed, worst first.
LEMMA RejectableIs ==
    ASSUME NEW p \in DOMAIN Prompts, Sampled(p)
    PROVE  \E n \in Nat :
              /\ Rejectable(p) = [m \in 1..n |-> Rejectable(p)[m]]
              /\ \A m \in 1..n : Rejectable(p)[m] \in Worth(p)
              /\ \A l, m \in 1..n : l <= m =>
                    NoLower(Worthy(p, Rejectable(p)[m]), Worthy(p, Rejectable(p)[l]))
<1> DEFINE w == Worth(p)
           n == Cardinality(w)
           rank == [i \in w |-> Cardinality(UpTo(p, i))]
<1>1. IsFiniteSet(w) /\ n \in Nat
  <2>1. k \in Nat /\ w \subseteq 1..k
    BY DEF Sampled, Worth
  <2>2. IsFiniteSet(1..k)
    BY <2>1, FS_Interval
  <2>3. IsFiniteSet(w)
    BY <2>1, <2>2, FS_Subset
  <2>4. QED BY <2>3, FS_CardinalityType
<1>2. \A i \in w : /\ UpTo(p, i) \subseteq w /\ IsFiniteSet(UpTo(p, i))
                    /\ Cardinality(UpTo(p, i)) \in Nat
                    /\ Cardinality(UpTo(p, i)) <= n
  <2> SUFFICES ASSUME NEW i \in w
               PROVE  /\ UpTo(p, i) \subseteq w /\ IsFiniteSet(UpTo(p, i))
                      /\ Cardinality(UpTo(p, i)) \in Nat
                      /\ Cardinality(UpTo(p, i)) <= n
    OBVIOUS
  <2>1. UpTo(p, i) \subseteq w
    BY DEF UpTo
  <2>2. IsFiniteSet(UpTo(p, i)) /\ Cardinality(UpTo(p, i)) <= n
    BY <1>1, <2>1, FS_Subset
  <2>3. QED BY <2>1, <2>2, FS_CardinalityType
<1>3. ASSUME NEW i \in w, NEW j \in w, j \in UpTo(p, i), i # j
      PROVE  Cardinality(UpTo(p, j)) < Cardinality(UpTo(p, i))
  <2>1. UpTo(p, j) \subseteq UpTo(p, i) /\ i \in UpTo(p, i) /\ i \notin UpTo(p, j)
    BY <1>3, KeyOrders
  <2>2. /\ Cardinality(UpTo(p, j)) <= Cardinality(UpTo(p, i))
        /\ Cardinality(UpTo(p, j)) # Cardinality(UpTo(p, i))
    BY <1>2, <2>1, FS_Subset
  <2>3. QED BY <1>2, <2>2
<1>4. rank \in Injection(w, 1..n)
  <2>1. \A i \in w : Cardinality(UpTo(p, i)) # 0
    BY <1>2, KeyOrders, FS_EmptySet
  <2>2. \A i \in w : rank[i] \in 1..n
    BY <1>1, <1>2, <2>1
  <2>3. ASSUME NEW i \in w, NEW j \in w, i # j PROVE rank[i] # rank[j]
    <3>1. CASE i \in UpTo(p, j)
      BY <1>2, <1>3, <2>3, <3>1
    <3>2. CASE j \in UpTo(p, i)
      BY <1>2, <1>3, <2>3, <3>2
    <3>3. QED BY <3>1, <3>2, KeyOrders
  <2>4. rank \in [w -> 1..n]
    BY <2>2
  <2> HIDE DEF rank
  <2>5. QED BY <2>3, <2>4 DEF Injection, IsInjective
<1>5. rank \in Surjection(w, 1..n)
  <2>1. IsFiniteSet(1..n) /\ Cardinality(1..n) = n
    BY <1>1, FS_Interval
  <2> HIDE DEF rank
  <2>2. QED BY <1>4, <2>1, FS_Injection
<1>6. \A m \in 1..n : \E i \in w : Cardinality(UpTo(p, i)) = m
  BY <1>5 DEF Surjection
<1> DEFINE at(m) == CHOOSE i \in w : Cardinality(UpTo(p, i)) = m
<1>7. \A m \in 1..n : at(m) \in w /\ Cardinality(UpTo(p, at(m))) = m
  BY <1>6
<1>8. Rejectable(p) = [m \in 1..n |-> at(m)]
  BY DEF Rejectable
<1> HIDE DEF at, n
<1>9. ASSUME NEW l \in 1..n, NEW m \in 1..n, l <= m
      PROVE  NoLower(Worthy(p, at(m)), Worthy(p, at(l)))
  <2> SUFFICES ASSUME ~NoLower(Worthy(p, at(m)), Worthy(p, at(l))) PROVE FALSE
    OBVIOUS
  <2>1. at(m) \in UpTo(p, at(l)) /\ at(l) # at(m)
    BY <1>7, KeyOrders
  <2>2. Cardinality(UpTo(p, at(m))) < Cardinality(UpTo(p, at(l)))
    BY <1>3, <1>7, <2>1
  <2>3. m < l
    BY <1>7, <2>2
  <2>4. QED BY <1>1, <1>9, <2>3
<1>10. \A m \in 1..n : Rejectable(p)[m] = at(m)
  BY <1>8
<1>11. QED BY <1>1, <1>7, <1>8, <1>9, <1>10

\* The pairs of the fallback agree prompt by prompt.
LEMMA GoldAgree ==
    ASSUME NEW p \in DOMAIN Prompts, Sampled(p)
    PROVE  OnePrompt(GoldPairs(p), p)
<1> DEFINE gold == GoldText(GoldOf[p])
           pair(i) == [prompt |-> p, chosen |-> gold, rejected |-> samples[p][i],
                       better |-> Value(p, gold), worse |-> Value(p, samples[p][i])]
           listed == [n \in DOMAIN Rejectable(p) |-> pair(Rejectable(p)[n])]
<1>1. GoldPairs(p) = Kept(listed)
  BY DEF GoldPairs
<1>2. PICK n \in Nat :
         /\ Rejectable(p) = [m \in 1..n |-> Rejectable(p)[m]]
         /\ \A m \in 1..n : Rejectable(p)[m] \in Worth(p)
         /\ \A l, m \in 1..n : l <= m =>
               NoLower(Worthy(p, Rejectable(p)[m]), Worthy(p, Rejectable(p)[l]))
  BY RejectableIs
<1>3. \A i \in Worth(p) : /\ pair(i).prompt = p /\ WorthIt(pair(i))
                          /\ pair(i).chosen = gold /\ pair(i).rejected # gold
                          /\ pair(i).worse = Worthy(p, i)
  BY DEF Worth, WorthIt, Worthy
<1>4. DOMAIN Rejectable(p) = 1..n
  BY <1>2
<1> DEFINE at(m) == pair(Rejectable(p)[m])
           T == {at(m) : m \in 1..n}
<1>5. /\ listed \in [1..n -> T] /\ DOMAIN listed = 1..n
      /\ \A m \in 1..n : listed[m] = at(m)
  BY <1>4
<1>6. \A l, m \in 1..n : /\ at(l).prompt = p /\ WorthIt(at(l))
                         /\ at(l).chosen # at(m).rejected
                         /\ l <= m => NoLower(at(m).worse, at(l).worse)
  <2> HIDE DEF pair
  <2>1. QED BY <1>2, <1>3
<1> HIDE DEF pair, at, listed, T
<1>7. listed \in Seq(T) /\ Len(listed) = n
  BY <1>2, <1>5
<1> DEFINE cap == IF n <= PairCap THEN n ELSE PairCap
           kept == SubSeq(listed, 1, cap)
<1>8. Kept(listed) = kept
  BY <1>7 DEF Kept
<1>9. /\ cap \in Nat /\ cap <= n /\ cap <= PairCap
      /\ \A i \in 1..cap : i \in 1..n
  BY MiningAssumption
<1> HIDE DEF cap
<1>10. kept \in Seq(T) /\ Len(kept) = cap /\ \A i \in 1..cap : kept[i] = listed[i]
  <2>1. 1 \in 1..(Len(listed) + 1) /\ cap \in 0..Len(listed) /\ cap - 1 + 1 = cap
    BY <1>2, <1>7, <1>9
  <2>2. QED BY <1>2, <1>7, <1>9, <2>1, SubSeqProperties
<1> HIDE DEF kept
<1>11. \A i \in 1..cap : kept[i] = at(i)
  BY <1>5, <1>9, <1>10
<1>12. IsList(kept)
  BY <1>10 DEF IsList
<1>13. OnePrompt(kept, p)
  BY <1>6, <1>9, <1>10, <1>11, <1>12 DEF OnePrompt
<1>14. QED BY <1>1, <1>8, <1>13

\* There are prompts.
LEMMA PromptsAre == Len(Prompts) \in Nat \ {0} /\ DOMAIN Prompts = 1..Len(Prompts)
BY PromptsAssumption

\* The fallback's pairs of all prompts agree.
LEMMA FallbackAgrees ==
    ASSUME \A p \in DOMAIN Prompts : Sampled(p)
    PROVE  Agrees(FlattenSeq([p \in DOMAIN Prompts |-> GoldPairs(p)]), Len(Prompts))
<1> DEFINE n == Len(Prompts)
           seqs == [p \in DOMAIN Prompts |-> GoldPairs(p)]
<1>1. n \in Nat \ {0} /\ DOMAIN Prompts = 1..n
  BY PromptsAre
<1>2. Len(seqs) = n /\ \A b \in 1..n : seqs[b] = GoldPairs(b)
  BY <1>1
<1>3. \A b \in 1..n : OnePrompt(GoldPairs(b), b)
  BY <1>1, GoldAgree
<1> DEFINE f == CHOOSE g : Joined(g, n, seqs)
<1>4. FlattenSeq(seqs) = f[n]
  <2>1. FlattenSeq(seqs) =
          LET flatten[i \in 1..Len(seqs)] ==
                IF i = 1 THEN seqs[i] ELSE flatten[i - 1] \o seqs[i]
          IN  flatten[Len(seqs)]
    <3>1. Len(seqs) # 0
      BY <1>1, <1>2
    <3> HIDE DEF seqs
    <3>2. QED BY <3>1, Zenon DEF FlattenSeq
  <2> HIDE DEF seqs
  <2>2. QED BY <1>2, <2>1 DEF Joined
<1>5. Joined(f, n, seqs)
  <2> HIDE DEF seqs
  <2>1. QED BY <1>1, JoinExists
<1> HIDE DEF f
<1>6. /\ \A b \in 1..n : b # 1 => f[b] = f[b - 1] \o GoldPairs(b)
      /\ f[1] = GoldPairs(1)
  <2> HIDE DEF seqs
  <2>1. 1 \in 1..n
    BY <1>1
  <2>2. \A b \in 1..n : f[b] = IF b = 1 THEN seqs[b] ELSE f[b - 1] \o seqs[b]
    BY <1>5, Zenon DEF Joined
  <2>3. QED BY <1>2, <2>1, <2>2
<1> DEFINE bad == {b \in 1..n : ~Agrees(f[b], b)}
<1>7. bad = {}
  <2> SUFFICES ASSUME bad # {} PROVE FALSE
    OBVIOUS
  <2>1. bad \subseteq Nat
    BY <1>1
  <2> HIDE DEF bad, seqs
  <2>2. PICK m \in bad : \A o \in bad : <<o, m>> \notin OpToRel(<, Nat)
    BY <2>1, NatLessThanWellFounded, WFMin
  <2>3. \A o \in bad : ~(o < m)
    BY <2>1, <2>2 DEF OpToRel
  <2>4. m \in 1..n /\ m \in Nat /\ ~Agrees(f[m], m)
    BY <1>1 DEF bad
  <2> DEFINE before == IF m = 1 THEN <<>> ELSE f[m - 1]
  <2>5. Agrees(before, m - 1)
    <3>1. CASE m = 1
      <4>1. IsList(<<>>) /\ Len(<<>>) = 0
        BY <<>> \in Seq({}) DEF IsList
      <4>2. QED BY <3>1, <4>1, NoPairs
    <3>2. CASE m # 1
      <4>1. m - 1 \in 1..n /\ m - 1 < m
        BY <1>1, <2>4, <3>2
      <4>2. m - 1 \notin bad
        BY <2>3, <4>1
      <4>3. QED BY <3>2, <4>1, <4>2 DEF bad
    <3>3. QED BY <3>1, <3>2
  <2>6. f[m] = before \o GoldPairs(m)
    <3>1. CASE m = 1
      <4>1. PICK S : GoldPairs(1) \in Seq(S)
        BY <1>3, <2>4, <3>1 DEF OnePrompt, IsList
      <4>2. <<>> \o GoldPairs(1) = GoldPairs(1)
        BY <4>1, ConcatEmptySeq
      <4>3. QED BY <1>6, <3>1, <4>2
    <3>2. CASE m # 1
      BY <1>6, <2>4, <3>2
    <3>3. QED BY <3>1, <3>2
  <2> HIDE DEF before
  <2>7. m - 1 \in Nat /\ (m - 1) + 1 = m
    BY <2>4
  <2>8. OnePrompt(GoldPairs(m), (m - 1) + 1)
    BY <1>3, <2>4, <2>7
  <2>9. Agrees(before \o GoldPairs(m), (m - 1) + 1)
    BY <2>5, <2>7, <2>8, NextPrompt
  <2>10. QED BY <2>4, <2>6, <2>7, <2>9
<1>8. n \in 1..n
  BY <1>1
<1>9. QED BY <1>4, <1>7, <1>8

-----------------------------------------------------------------------------
(* The inductive invariant of preference mining.                           *)

OutcomeNames == {"single_sample", "saturated", "flat", "no_pair", "paired"}

\* While sampling, the prompts before start are one sample ahead; then all have k.
Drawing ==
    /\ stage \in {"sample", "mine", "fallback", "written"}
    /\ k \in Ks
    /\ samples \in [DOMAIN Prompts -> Seq(Texts)]
    /\ stage = "sample" =>
          /\ sweep \in Nat /\ sweep < k /\ start \in 1..Len(Prompts) /\ mined = 0
          /\ \A p \in DOMAIN Prompts :
                Len(samples[p]) = IF p < start THEN sweep + 1 ELSE sweep
    /\ stage # "sample" => \A p \in DOMAIN Prompts : Len(samples[p]) = k

\* Nothing of the prompt is better than sample b or worse than sample w.
Widest(p, b, w) ==
    /\ b \in 1..k /\ w \in 1..k
    /\ \A i \in 1..k : NoLower(Worthy(p, b), Worthy(p, i)) /\ NoLower(Worthy(p, i), Worthy(p, w))

\* The outcome is that of the prompt's widest gap.
Explained(p, outcome) ==
    \E b, w \in 1..k :
       /\ Widest(p, b, w)
       /\ (outcome = "paired") <=> (k > 1 /\ Ahead(Worthy(p, b), Worthy(p, w), MinMargin))
       /\ (outcome = "saturated") <=> (k > 1 /\ Perfect(Worthy(p, w)))

Yielding ==
    /\ mined \in 0..Len(Prompts) /\ (stage = "mine" => mined # Len(Prompts))
    /\ outcomes \in Seq(OutcomeNames) /\ Len(outcomes) = mined
    /\ IsList(pairs)
    /\ stage # "written" => Agrees(pairs, mined)
    /\ stage = "written" => Agrees(pairs, Len(Prompts))
    /\ \A p \in 1..mined : Explained(p, outcomes[p])
    /\ stage # "written" =>
          \A p \in 1..mined : (outcomes[p] = "paired") <=> Has(pairs, p)
    /\ tally.identical = 0
    /\ stage # "written" => tally.votes = Len(pairs)

PrefInv == Drawing /\ Yielding

LEMMA MiningStarts == PreferencesInit => PrefInv
<1> SUFFICES ASSUME PreferencesInit PROVE PrefInv
  OBVIOUS
<1> USE DEF PreferencesInit
<1>1. Len(Prompts) \in Nat \ {0} /\ k \in Nat \ {0}
  BY PromptsAre, SamplingAssumption
<1>2. <<>> \in Seq(Texts) /\ Len(<<>>) = 0 /\ <<>> \in Seq(OutcomeNames)
  OBVIOUS
<1>3. Drawing
  <2>1. 1 \in 1..Len(Prompts) /\ \A p \in DOMAIN Prompts : ~(p < 1)
    BY <1>1, PromptsAre
  <2>2. QED BY <1>1, <1>2, <2>1 DEF Drawing
<1>4. IsList(pairs) /\ Len(pairs) = 0
  BY <<>> \in Seq({}) DEF IsList
<1>5. Agrees(pairs, 0)
  BY <1>4, NoPairs
<1>6. Yielding
  BY <1>1, <1>2, <1>4, <1>5 DEF Yielding
<1>7. QED BY <1>3, <1>6 DEF PrefInv

LEMMA SampleChunkKeeps == PrefInv /\ SampleChunk => PrefInv'
<1> SUFFICES ASSUME PrefInv, SampleChunk PROVE PrefInv'
  OBVIOUS
<1>1. Len(Prompts) \in Nat \ {0} /\ DOMAIN Prompts = 1..Len(Prompts)
  BY PromptsAre
<1>2. BatchSize \in Nat \ {0} /\ k \in Nat \ {0}
  BY SamplingAssumption DEF PrefInv, Drawing
<1>3. /\ stage = "sample" /\ k \in Ks /\ samples \in [DOMAIN Prompts -> Seq(Texts)]
      /\ sweep \in Nat /\ sweep < k /\ start \in 1..Len(Prompts) /\ mined = 0
      /\ \A p \in DOMAIN Prompts : Len(samples[p]) = IF p < start THEN sweep + 1 ELSE sweep
  BY DEF PrefInv, Drawing, SampleChunk
<1>4. PICK text \in [Chunk -> Texts] :
         samples' = [p \in DOMAIN Prompts |->
            IF p \in Chunk THEN Append(samples[p], text[p]) ELSE samples[p]]
  BY DEF SampleChunk
<1>5. \A p \in DOMAIN Prompts :
         /\ samples'[p] \in Seq(Texts)
         /\ Len(samples'[p]) = IF p \in Chunk THEN Len(samples[p]) + 1 ELSE Len(samples[p])
  <2> SUFFICES ASSUME NEW p \in DOMAIN Prompts
               PROVE  /\ samples'[p] \in Seq(Texts)
                      /\ Len(samples'[p]) = IF p \in Chunk THEN Len(samples[p]) + 1
                                                          ELSE Len(samples[p])
    OBVIOUS
  <2>1. samples[p] \in Seq(Texts)
    BY <1>3
  <2>2. CASE p \in Chunk
    <3>1. samples'[p] = Append(samples[p], text[p]) /\ text[p] \in Texts
      BY <1>4, <2>2
    <3>2. QED BY <2>1, <2>2, <3>1, AppendProperties
  <2>3. CASE p \notin Chunk
    BY <1>4, <2>1, <2>3
  <2>4. QED BY <2>2, <2>3
<1>6. samples' \in [DOMAIN Prompts -> Seq(Texts)]
  BY <1>4, <1>5
<1>7. k' = k /\ mined' = mined /\ pairs' = pairs /\ outcomes' = outcomes /\ tally' = tally
  BY DEF SampleChunk
<1>8. CASE start + BatchSize <= Len(Prompts)
  <2>1. start' = start + BatchSize /\ stage' = "sample" /\ sweep' = sweep
    BY <1>3, <1>8 DEF SampleChunk
  <2>2. Chunk = start..(start + BatchSize - 1)
    BY <1>1, <1>2, <1>3, <1>8 DEF Chunk
  <2>3. \A p \in DOMAIN Prompts :
           /\ p < start' <=> (p < start \/ p \in Chunk)
           /\ p \in Chunk => ~(p < start)
    BY <1>1, <1>2, <1>3, <2>1, <2>2
  <2>4. \A p \in DOMAIN Prompts : Len(samples'[p]) = IF p < start' THEN sweep' + 1 ELSE sweep'
    BY <1>3, <1>5, <2>1, <2>3
  <2>5. start' \in 1..Len(Prompts)
    BY <1>1, <1>2, <1>3, <1>8, <2>1
  <2>6. Drawing'
    BY <1>3, <1>6, <1>7, <2>1, <2>4, <2>5 DEF Drawing
  <2>7. stage' = stage
    BY <1>3, <2>1
  <2>8. Yielding'
    BY <1>3, <1>7, <2>7 DEF PrefInv, Yielding
  <2>9. QED BY <2>6, <2>8 DEF PrefInv
<1>9. CASE ~(start + BatchSize <= Len(Prompts))
  <2>1. start' = 1 /\ sweep' = sweep + 1 /\ stage' = IF sweep + 1 < k THEN stage ELSE "mine"
    BY <1>9 DEF SampleChunk
  <2>2. \A p \in DOMAIN Prompts : p \in Chunk <=> ~(p < start)
    BY <1>1, <1>2, <1>3, <1>9 DEF Chunk
  <2>3. \A p \in DOMAIN Prompts : Len(samples'[p]) = sweep + 1 /\ ~(p < 1)
    BY <1>1, <1>3, <1>5, <2>2
  <2>4. Drawing'
    <3>1. 1 \in 1..Len(Prompts) /\ sweep + 1 \in Nat
      BY <1>1, <1>3
    <3>2. CASE sweep + 1 < k
      BY <1>3, <1>6, <1>7, <2>1, <2>3, <3>1, <3>2 DEF Drawing
    <3>3. CASE ~(sweep + 1 < k)
      <4>1. sweep + 1 = k
        BY <1>2, <1>3, <3>3
      <4>2. stage' = "mine"
        BY <2>1, <3>3
      <4>3. QED BY <1>3, <1>6, <1>7, <2>3, <4>1, <4>2 DEF Drawing
    <3>4. QED BY <3>2, <3>3
  <2>5. stage' \in {"sample", "mine"} /\ stage = "sample" /\ mined = 0
    BY <1>3, <2>1
  <2>6. Yielding'
    BY <1>1, <1>7, <2>5 DEF PrefInv, Yielding, Explained
  <2>7. QED BY <2>4, <2>6 DEF PrefInv
<1>10. QED BY <1>8, <1>9

\* All prompts have their samples once sampling is over.
LEMMA AllSampled ==
    ASSUME PrefInv, stage # "sample", NEW p \in DOMAIN Prompts
    PROVE  Sampled(p)
<1>1. k \in Nat \ {0}
  BY SamplingAssumption DEF PrefInv, Drawing
<1>2. samples[p] \in Seq(Texts) /\ Len(samples[p]) = k
  BY DEF PrefInv, Drawing
<1>3. \A i \in 1..k : samples[p][i] \in Texts
  BY <1>2
<1>4. QED BY <1>1, <1>3 DEF Sampled

\* The ends of a ranking are the prompt's best and worst.
LEMMA EndsAreWidest ==
    ASSUME NEW p \in DOMAIN Prompts, Sampled(p), NEW order \in Ranked(p)
    PROVE  Widest(p, order[1], order[k])
<1>1. k \in Nat \ {0}
  BY DEF Sampled
<1>2. order \in Injection(1..k, 1..k)
  BY DEF Ranked, Injection, IsInjective
<1>3. IsFiniteSet(1..k)
  BY <1>1, FS_Interval
<1>4. order \in Surjection(1..k, 1..k)
  BY <1>2, <1>3, FS_Injection
<1>5. ASSUME NEW i \in 1..k
      PROVE  NoLower(Worthy(p, order[1]), Worthy(p, i)) /\ NoLower(Worthy(p, i), Worthy(p, order[k]))
  <2>1. PICK h \in 1..k : order[h] = i
    BY <1>4 DEF Surjection
  <2>2. 1 \in 1..k /\ k \in 1..k /\ 1 <= h /\ h <= k
    BY <1>1
  <2>3. QED BY <2>1, <2>2, RankingFalls
<1>6. 1 \in 1..k /\ k \in 1..k
  BY <1>1
<1>7. QED BY <1>5, <1>6, RankingFalls DEF Widest

\* Equal rewards are perfect together, and none is above a perfect one.
LEMMA PerfectTogether ==
    ASSUME NEW a, NEW b, IsFraction(a), IsFraction(b), b.num <= b.den, NoLower(b, a)
    PROVE  Perfect(a) => Perfect(b)
<1> DEFINE an == a.num  ad == a.den
           bn == b.num  bd == b.den
<1>1. an \in Nat /\ bn \in Nat /\ ad \in Nat \ {0} /\ bd \in Nat \ {0} /\ bn <= bd
  BY DEF IsFraction
<1>2. bn * ad >= an * bd /\ (Perfect(a) <=> an = ad) /\ (Perfect(b) <=> bn = bd)
  BY DEF NoLower, Perfect
<1> HIDE DEF an, ad, bn, bd
<1>3. ASSUME an = ad, bn # bd PROVE FALSE
  <2>1. bn + 1 <= bd
    BY <1>1, <1>3
  <2>2. ad * (bn + 1) <= ad * bd
    BY <1>1, <2>1
  <2>3. ad * (bn + 1) = ad * bn + ad /\ bn * ad = ad * bn /\ an * bd = ad * bd
    BY <1>1, <1>3
  <2>4. ad * bn \in Nat /\ ad * bd \in Nat
    BY <1>1
  <2>5. QED BY <1>1, <1>2, <2>2, <2>3, <2>4
<1>4. QED BY <1>2, <1>3

\* What mining says of a prompt is true of its samples.
LEMMA OutcomeIs ==
    ASSUME NEW p \in DOMAIN Prompts, Sampled(p), NEW order \in Ranked(p), NEW outcome,
           LET best == Worthy(p, order[1])
               worst == Worthy(p, order[k])
           IN  IF k = 1 \/ NoLower(worst, best)
               THEN outcome = IF k = 1 THEN "single_sample" ELSE FlatOutcome(best)
               ELSE /\ outcome \in {"paired", "no_pair"}
                    /\ (outcome = "paired") <=> (k > 1 /\ Ahead(best, worst, MinMargin))
    PROVE  Explained(p, outcome) /\ outcome \in OutcomeNames
<1> DEFINE best == Worthy(p, order[1])
           worst == Worthy(p, order[k])
<1>1. k \in Nat \ {0} /\ 1 \in 1..k /\ k \in 1..k
  BY DEF Sampled
<1>2. order[1] \in 1..k /\ order[k] \in 1..k /\ Widest(p, order[1], order[k])
  BY EndsAreWidest DEF Widest
<1>3. /\ IsFraction(best) /\ IsFraction(worst)
      /\ best.num <= best.den /\ worst.num <= worst.den
  BY <1>2, SampleValues
<1>4. NoLower(best, worst)
  BY <1>2 DEF Widest
<1>5. outcome \in OutcomeNames
  BY DEF OutcomeNames, FlatOutcome
<1>6. /\ (outcome = "paired") <=> (k > 1 /\ Ahead(best, worst, MinMargin))
      /\ (outcome = "saturated") <=> (k > 1 /\ Perfect(worst))
  <2>1. CASE k = 1
    BY <2>1
  <2>2. CASE k # 1 /\ NoLower(worst, best)
    <3>1. outcome = FlatOutcome(best)
      BY <2>2
    <3>2. Perfect(best) <=> Perfect(worst)
      BY <1>3, <1>4, <2>2, PerfectTogether
    <3>3. ~Ahead(best, worst, MinMargin)
      BY <1>3, <2>2, AheadIsHigher
    <3>4. (outcome = "saturated" <=> Perfect(best)) /\ outcome # "paired"
      BY <3>1 DEF FlatOutcome
    <3>5. QED BY <1>1, <2>2, <3>2, <3>3, <3>4
  <2>3. CASE k # 1 /\ ~NoLower(worst, best)
    <3>1. ~Perfect(worst)
      <4>1. ASSUME Perfect(worst) PROVE NoLower(worst, best)
        <5> DEFINE bn == best.num  bd == best.den
                   wn == worst.num
        <5>1. bn \in Nat /\ bd \in Nat /\ wn \in Nat /\ bn <= bd /\ worst.den = wn
          BY <1>3, <4>1 DEF IsFraction, Perfect
        <5>2. NoLower(worst, best) <=> (wn * bd >= bn * wn)
          BY <5>1 DEF NoLower
        <5> HIDE DEF bn, bd, wn
        <5>3. wn * bd >= wn * bn /\ wn * bn = bn * wn
          BY <5>1
        <5>4. QED BY <5>2, <5>3
      <4>2. QED BY <2>3, <4>1
    <3>2. QED BY <2>3, <3>1
  <2>4. QED BY <2>1, <2>2, <2>3
<1>7. QED BY <1>2, <1>5, <1>6 DEF Explained

LEMMA MinePromptKeeps == PrefInv /\ MinePrompt => PrefInv'
<1> SUFFICES ASSUME PrefInv, MinePrompt PROVE PrefInv'
  OBVIOUS
<1> DEFINE p == mined + 1
           n == Len(Prompts)
<1>1. n \in Nat \ {0} /\ DOMAIN Prompts = 1..n
  BY PromptsAre
<1>2. /\ stage = "mine" /\ mined \in 0..n /\ mined # n
      /\ outcomes \in Seq(OutcomeNames) /\ Len(outcomes) = mined /\ IsList(pairs)
      /\ Agrees(pairs, mined)
      /\ \A q \in 1..mined : Explained(q, outcomes[q])
      /\ \A q \in 1..mined : (outcomes[q] = "paired") <=> Has(pairs, q)
      /\ tally.identical = 0 /\ tally.votes = Len(pairs)
  BY DEF PrefInv, Yielding, MinePrompt
<1>3. p \in DOMAIN Prompts /\ mined \in Nat /\ p \in Nat
  <2>1. mined \in 0..n /\ mined # n
    BY <1>2
  <2>2. n \in Nat
    BY <1>1
  <2> HIDE DEF n
  <2>3. p \in 1..n /\ mined \in Nat /\ p \in Nat
    BY <2>1, <2>2
  <2>4. QED BY <1>1, <2>3
<1>4. Sampled(p)
  BY <1>2, <1>3, AllSampled
<1>5. UNCHANGED <<k, sweep, start, samples>> /\ mined' = p
      /\ stage' = IF p < n THEN "mine" ELSE "fallback"
  BY DEF MinePrompt
<1> DEFINE Goes(order) ==
        LET best == Value(p, samples[p][order[1]])
            worst == Value(p, samples[p][order[k]])
            candidates == Candidates(p, order)
            distinct == Differing(candidates)
            kept == Kept(distinct)
        IN  IF k = 1 \/ NoLower(worst, best)
            THEN /\ outcomes' = Append(outcomes, IF k = 1 THEN "single_sample"
                                                 ELSE FlatOutcome(best))
                 /\ UNCHANGED <<pairs, tally>>
            ELSE /\ outcomes' = Append(outcomes, IF kept = <<>> THEN "no_pair"
                                                 ELSE "paired")
                 /\ pairs' = pairs \o kept
                 /\ tally' = [capped |-> tally.capped + Len(distinct) - Len(kept),
                              identical |-> tally.identical
                                              + Len(candidates) - Len(distinct),
                              votes |-> tally.votes + Len(kept)]
<1>6. PICK order \in Ranked(p) : Goes(order)
  BY DEF MinePrompt
<1> DEFINE best == Worthy(p, order[1])
           worst == Worthy(p, order[k])
           candidates == Candidates(p, order)
           kept == Kept(candidates)
<1>7. /\ Differing(candidates) = candidates /\ Len(candidates) \in Nat
      /\ OnePrompt(kept, p) /\ Len(kept) \in Nat
      /\ (kept # <<>>) <=> (Len(kept) # 0)
      /\ Len(kept) # 0 <=> (k > 1 /\ Ahead(best, worst, MinMargin))
  BY <1>3, <1>4, MinedAgree
<1> DEFINE flat == k = 1 \/ NoLower(worst, best)
           outcome == IF flat THEN (IF k = 1 THEN "single_sample" ELSE FlatOutcome(best))
                      ELSE IF kept = <<>> THEN "no_pair" ELSE "paired"
           more == IF flat THEN <<>> ELSE kept
<1>8. /\ outcomes' = Append(outcomes, outcome)
      /\ flat => pairs' = pairs /\ tally' = tally
      /\ ~flat => /\ pairs' = pairs \o kept
                  /\ tally'.identical = tally.identical + Len(candidates) - Len(candidates)
                  /\ tally'.votes = tally.votes + Len(kept)
  <2>1. flat <=> (k = 1 \/ NoLower(Value(p, samples[p][order[k]]), Value(p, samples[p][order[1]])))
    BY DEF Worthy
  <2>2. CASE flat
    BY <1>6, <2>1, <2>2 DEF Worthy
  <2>3. CASE ~flat
    BY <1>6, <1>7, <2>1, <2>3
  <2>4. QED BY <2>2, <2>3
<1> HIDE DEF Goes
<1>9. Explained(p, outcome) /\ outcome \in OutcomeNames
  <2>1. CASE flat
    BY <1>3, <1>4, <2>1, OutcomeIs
  <2>2. CASE ~flat
    <3>1. outcome \in {"paired", "no_pair"} /\ (outcome = "paired" <=> kept # <<>>)
      BY <2>2
    <3>2. (outcome = "paired") <=> (k > 1 /\ Ahead(best, worst, MinMargin))
      BY <1>7, <3>1
    <3> HIDE DEF outcome, kept, candidates
    <3>3. QED BY <1>3, <1>4, <2>2, <3>1, <3>2, OutcomeIs
  <2>3. QED BY <2>1, <2>2
<1>10. flat => outcome # "paired"
  BY DEF FlatOutcome
<1>11. ~flat => (outcome = "paired" <=> Len(kept) # 0)
  BY <1>7
<1> HIDE DEF outcome, kept, candidates, flat, best, worst
<1>12. /\ outcomes' \in Seq(OutcomeNames) /\ Len(outcomes') = p
       /\ outcomes'[p] = outcome /\ \A q \in 1..mined : outcomes'[q] = outcomes[q]
  BY <1>2, <1>3, <1>8, <1>9, AppendProperties
<1>13. \A q \in 1..p : q \in 1..mined \/ q = p
  BY <1>3
<1>14. \A q \in 1..p : Explained(q, outcomes'[q])
  BY <1>2, <1>9, <1>12, <1>13
<1>15. /\ Agrees(pairs', p) /\ IsList(pairs')
       /\ tally'.identical = 0 /\ tally'.votes = Len(pairs')
       /\ \A q \in 1..p : (outcomes'[q] = "paired") <=> Has(pairs', q)
  <2>1. CASE flat
    <3>1. pairs' = pairs /\ tally' = tally /\ outcome # "paired"
      BY <1>8, <1>10, <2>1
    <3>2. Agrees(pairs, p)
      <4>1. mined <= p /\ mined \in Nat /\ p \in Nat
        BY <1>3
      <4>2. Agrees(pairs, mined)
        BY <1>2
      <4> HIDE DEF p
      <4>3. QED BY <4>1, <4>2, FewerPrompts
    <3>3. \A i \in 1..Len(pairs) : pairs[i].prompt # p
      <4>1. \A i \in 1..Len(pairs) : pairs[i].prompt \in 1..mined
        BY <1>2 DEF Agrees
      <4>2. p \notin 1..mined
        BY <1>3
      <4>3. QED BY <4>1, <4>2
    <3>4. ~Has(pairs, p)
      BY <3>3 DEF Has
    <3>5. QED BY <1>2, <1>12, <1>13, <3>1, <3>2, <3>4
  <2>2. CASE ~flat
    <3>1. /\ pairs' = pairs \o kept
          /\ tally'.identical = tally.identical + Len(candidates) - Len(candidates)
          /\ tally'.votes = tally.votes + Len(kept)
      BY <1>8, <2>2
    <3>2. /\ Agrees(pairs', p) /\ Len(pairs') = Len(pairs) + Len(kept)
          /\ \A q \in 1..mined : Has(pairs', q) <=> Has(pairs, q)
          /\ Has(pairs', p) <=> Len(kept) # 0
      <4>1. Agrees(pairs, mined) /\ mined \in Nat /\ pairs' = pairs \o kept
        BY <1>2, <1>3, <3>1
      <4>2. OnePrompt(kept, mined + 1)
        BY <1>7
      <4>3. QED BY <4>1, <4>2, NextPrompt
    <3>3. tally'.identical = 0 /\ tally'.votes = Len(pairs')
      BY <1>2, <1>7, <3>1, <3>2
    <3>4. IsList(pairs')
      BY <3>2 DEF Agrees
    <3>5. QED BY <1>2, <1>11, <1>12, <1>13, <2>2, <3>2, <3>3, <3>4
  <2>3. QED BY <2>1, <2>2
<1>16. stage' \in {"mine", "fallback"} /\ p \in 0..n /\ (stage' = "mine" => p # n)
  <2>1. p \in 1..n /\ n \in Nat
    BY <1>1, <1>3
  <2>2. stage' = IF p < n THEN "mine" ELSE "fallback"
    BY <1>5
  <2> HIDE DEF p, n
  <2>3. QED BY <2>1, <2>2
<1>17. Drawing'
  BY <1>2, <1>5, <1>16 DEF PrefInv, Drawing
<1>18. \A q \in 1..p : Explained(q, outcomes[q])'
  <2>1. \A q, o : Explained(q, o)' <=> Explained(q, o)
    BY <1>5 DEF Explained, Widest, Worthy
  <2>2. QED BY <1>14, <2>1
<1>19. Yielding'
  BY <1>5, <1>12, <1>15, <1>16, <1>18 DEF Yielding
<1>20. QED BY <1>17, <1>19 DEF PrefInv

LEMMA WriteKeeps == PrefInv /\ Write => PrefInv'
<1> SUFFICES ASSUME PrefInv, Write PROVE PrefInv'
  OBVIOUS
<1>1. /\ stage = "fallback" /\ stage' = "written"
      /\ UNCHANGED <<k, sweep, start, samples, mined, outcomes, tally>>
  BY DEF Write
<1>2. /\ mined \in 0..Len(Prompts) /\ IsList(pairs) /\ Agrees(pairs, mined)
  BY <1>1 DEF PrefInv, Yielding
<1>3. Agrees(pairs', Len(Prompts))
  <2>1. CASE pairs' = pairs
    BY <1>2, <2>1, PromptsAre, FewerPrompts
  <2>2. CASE pairs' = FlattenSeq([p \in DOMAIN Prompts |-> GoldPairs(p)])
    <3>1. \A p \in DOMAIN Prompts : Sampled(p)
      BY <1>1, AllSampled
    <3>2. Agrees(FlattenSeq([p \in DOMAIN Prompts |-> GoldPairs(p)]), Len(Prompts))
      BY <3>1, FallbackAgrees
    <3>3. QED BY <2>2, <3>2
  <2>3. QED BY <2>1, <2>2 DEF Write
<1>4. IsList(pairs')
  BY <1>3 DEF Agrees
<1>5. Drawing'
  BY <1>1 DEF PrefInv, Drawing
<1>6. \A q, o : Explained(q, o)' <=> Explained(q, o)
  BY <1>1 DEF Explained, Widest, Worthy
<1>7. \A q \in 1..mined : Explained(q, outcomes[q])
  BY DEF PrefInv, Yielding
<1>8. \A q \in 1..mined : Explained(q, outcomes[q])'
  BY <1>1, <1>6, <1>7
<1>9. Yielding'
  BY <1>1, <1>2, <1>3, <1>4, <1>8 DEF PrefInv, Yielding
<1>10. QED BY <1>5, <1>9 DEF PrefInv

\* Sampling, mining and the fallback run as the invariant says: every prompt has
\* its k samples before any is mined, and the pairs and outcomes are theirs.
THEOREM PreferencesInvariance == PreferencesSpec => []PrefInv
<1>1. ASSUME PrefInv, [PreferencesNext]_preferenceVars PROVE PrefInv'
  <2>1. CASE SampleChunk
    BY <1>1, <2>1, SampleChunkKeeps
  <2>2. CASE MinePrompt
    BY <1>1, <2>2, MinePromptKeeps
  <2>3. CASE Write
    BY <1>1, <2>3, WriteKeeps
  <2>4. CASE UNCHANGED preferenceVars
    <3>1. /\ stage' = stage /\ k' = k /\ sweep' = sweep /\ start' = start
          /\ samples' = samples /\ mined' = mined /\ pairs' = pairs
          /\ outcomes' = outcomes /\ tally' = tally
      BY <2>4 DEF preferenceVars
    <3>2. Drawing'
      BY <1>1, <3>1 DEF PrefInv, Drawing
    <3>3. \A q, o : Explained(q, o)' <=> Explained(q, o)
      BY <3>1 DEF Explained, Widest, Worthy
    <3>4. \A q \in 1..mined : Explained(q, outcomes[q])
      BY <1>1 DEF PrefInv, Yielding
    <3>5. \A q \in 1..mined : Explained(q, outcomes[q])'
      BY <3>1, <3>3, <3>4
    <3>6. Yielding'
      BY <1>1, <3>1, <3>5 DEF PrefInv, Yielding
    <3>7. QED BY <3>2, <3>6 DEF PrefInv
  <2>5. QED BY <1>1, <2>1, <2>2, <2>3, <2>4 DEF PreferencesNext
<1>2. QED BY <1>1, MiningStarts, PTL DEF PreferencesSpec

\* Every pair written prefers a text that is better by the margin, a prompt's
\* widest pairs come first and within the cap, and no text of a prompt is both
\* preferred and dispreferred, however rewards tie and texts repeat.
THEOREM PairsAgree == PreferencesSpec => []PreferencesAgree
<1>1. ASSUME PrefInv PROVE PreferencesAgree
  <2>1. Agrees(pairs, Len(Prompts))
    <3>1. CASE stage = "written"
      BY <1>1, <3>1 DEF PrefInv, Yielding
    <3>2. CASE stage # "written"
      <4>1. Agrees(pairs, mined) /\ mined \in 0..Len(Prompts)
        BY <1>1, <3>2 DEF PrefInv, Yielding
      <4>2. mined \in Nat /\ mined <= Len(Prompts) /\ Len(Prompts) \in Nat
        BY <4>1, PromptsAre
      <4>3. QED BY <4>1, <4>2, FewerPrompts
    <3>3. QED BY <3>1, <3>2
  <2>2. DOMAIN pairs = 1..Len(pairs)
    <3>1. PICK S : pairs \in Seq(S)
      BY <1>1 DEF PrefInv, Yielding, IsList
    <3>2. QED BY <3>1
  <2>3. QED BY <2>1, <2>2 DEF PreferencesAgree, Agrees
<1>2. QED BY <1>1, PreferencesInvariance, PTL

\* The best and the worst text of a prompt are worth its best and worst samples.
LEMMA ExtremesAreWidest ==
    ASSUME NEW p \in DOMAIN Prompts, Sampled(p), NEW e \in BestAndWorst(p),
           NEW b, NEW w, Widest(p, b, w)
    PROVE  /\ Ahead(Value(p, e[1]), Value(p, e[2]), MinMargin)
                <=> Ahead(Worthy(p, b), Worthy(p, w), MinMargin)
           /\ Perfect(Value(p, e[2])) <=> Perfect(Worthy(p, w))
<1> DEFINE drawn == {samples[p][i] : i \in 1..k}
<1>1. /\ e[1] \in drawn /\ e[2] \in drawn
      /\ \A t \in drawn : NoLower(Value(p, e[1]), Value(p, t)) /\ NoLower(Value(p, t), Value(p, e[2]))
  BY DEF BestAndWorst
<1>2. PICK i \in 1..k : e[1] = samples[p][i]
  BY <1>1
<1>3. PICK j \in 1..k : e[2] = samples[p][j]
  BY <1>1
<1>4. b \in 1..k /\ w \in 1..k
  BY DEF Widest
<1>5. \A h \in 1..k : samples[p][h] \in drawn
  OBVIOUS
<1>6. /\ NoLower(Worthy(p, i), Worthy(p, b)) /\ NoLower(Worthy(p, w), Worthy(p, j))
  BY <1>1, <1>2, <1>3, <1>4, <1>5 DEF Worthy
<1>7. /\ NoLower(Worthy(p, b), Worthy(p, i)) /\ NoLower(Worthy(p, j), Worthy(p, w))
  BY DEF Widest
<1>8. /\ IsFraction(Worthy(p, i)) /\ IsFraction(Worthy(p, j))
      /\ IsFraction(Worthy(p, b)) /\ IsFraction(Worthy(p, w))
      /\ Worthy(p, j).num <= Worthy(p, j).den /\ Worthy(p, w).num <= Worthy(p, w).den
  BY <1>4, SampleValues
<1>9. Ahead(Worthy(p, i), Worthy(p, j), MinMargin) <=> Ahead(Worthy(p, b), Worthy(p, w), MinMargin)
  BY <1>6, <1>7, <1>8, AheadWidens
<1>10. Perfect(Worthy(p, j)) <=> Perfect(Worthy(p, w))
  BY <1>6, <1>7, <1>8, PerfectTogether
<1>11. Value(p, e[1]) = Worthy(p, i) /\ Value(p, e[2]) = Worthy(p, j)
  BY <1>2, <1>3 DEF Worthy
<1>12. QED BY <1>9, <1>10, <1>11

\* A prompt is told as paired exactly if its best and worst completions are the
\* margin apart, as saturated exactly if all are perfect, and no candidate is
\* dropped for having equal sides.
THEOREM OutcomesAreTold == PreferencesSpec => []OutcomesExplainYield
<1>1. ASSUME PrefInv PROVE OutcomesExplainYield
  <2>1. /\ mined \in 0..Len(Prompts) /\ outcomes \in Seq(OutcomeNames) /\ Len(outcomes) = mined
        /\ \A p \in 1..mined : Explained(p, outcomes[p])
        /\ stage # "written" =>
              \A p \in 1..mined : (outcomes[p] = "paired") <=> Has(pairs, p)
        /\ tally.identical = 0 /\ (stage # "written" => tally.votes = Len(pairs))
        /\ IsList(pairs)
    BY <1>1 DEF PrefInv, Yielding
  <2>2. DOMAIN outcomes = 1..mined
    BY <2>1
  <2>3. DOMAIN pairs = 1..Len(pairs)
    <3>1. PICK S : pairs \in Seq(S)
      BY <2>1 DEF IsList
    <3>2. QED BY <3>1
  <2>4. ASSUME NEW p \in 1..mined, NEW e \in BestAndWorst(p)
        PROVE  /\ (outcomes[p] = "paired")
                     <=> (k > 1 /\ Ahead(Value(p, e[1]), Value(p, e[2]), MinMargin))
               /\ (outcomes[p] = "saturated") <=> (k > 1 /\ Perfect(Value(p, e[2])))
    <3>1. p \in DOMAIN Prompts /\ mined # 0
      <4>1. mined \in 0..Len(Prompts) /\ Len(Prompts) \in Nat
        BY <2>1, PromptsAre
      <4>2. p \in 1..Len(Prompts) /\ mined # 0
        BY <4>1
      <4>3. QED BY <4>2, PromptsAre
    <3>2. stage # "sample"
      BY <1>1, <3>1 DEF PrefInv, Drawing
    <3>3. Sampled(p)
      BY <1>1, <3>1, <3>2, AllSampled
    <3>4. PICK b \in 1..k, w \in 1..k :
             /\ Widest(p, b, w)
             /\ (outcomes[p] = "paired") <=> (k > 1 /\ Ahead(Worthy(p, b), Worthy(p, w), MinMargin))
             /\ (outcomes[p] = "saturated") <=> (k > 1 /\ Perfect(Worthy(p, w)))
      BY <2>1 DEF Explained
    <3>5. QED BY <3>1, <3>3, <3>4, ExtremesAreWidest
  <2>5. ASSUME NEW p \in 1..mined
        PROVE  (outcomes[p] = "paired") = (\E i \in DOMAIN pairs : pairs[i].prompt = p)
                  \/ stage = "written"
    BY <2>1, <2>3 DEF Has
  <2>6. ASSUME NEW p \in 1..mined, NEW e \in BestAndWorst(p)
        PROVE  /\ (outcomes[p] = "paired")
                     = (k > 1 /\ Ahead(Value(p, e[1]), Value(p, e[2]), MinMargin))
               /\ (outcomes[p] = "saturated") = (k > 1 /\ Perfect(Value(p, e[2])))
    <3>1. (k > 1) \in BOOLEAN
      BY <1>1, SamplingAssumption DEF PrefInv, Drawing
    <3>2. QED BY <2>4, <3>1
  <2>7. QED BY <2>1, <2>2, <2>5, <2>6 DEF OutcomesExplainYield
<1>2. QED BY <1>1, PreferencesInvariance, PTL

-----------------------------------------------------------------------------
(* Reports.                                                                *)

\* What an example adds to a part of a field's row.
Part(counts, stem, part) ==
    [e \in DOMAIN counts |-> IF stem \in DOMAIN counts[e] THEN counts[e][stem][part] ELSE 0]

\* A field's row is the sum over the examples.
LEMMA AddedIs ==
    ASSUME NEW counts, IsFiniteSet(DOMAIN counts), NEW stem, NEW part
    PROVE  Added(counts, stem, part) = SumOf(Part(counts, stem, part), DOMAIN counts)
<1> DEFINE S == DOMAIN counts
           g == Part(counts, stem, part)
           pick(s) == CHOOSE x \in s : TRUE
           of(x) == IF stem \in DOMAIN counts[x] THEN counts[x][stem][part] ELSE 0
           this(h, s) == IF s = {} THEN 0 ELSE of(pick(s)) + h[s \ {pick(s)}]
           is(h) == h = [s \in SUBSET S |-> this(h, s)]
           iter == CHOOSE h : is(h)
<1>1. Added(counts, stem, part) = iter[S]
  BY Zenon DEF Added, MapThenSumSet, MapThenFoldSet
<1>2. ASSUME NEW h PROVE is(h) <=> Summing(h, S, g)
  <2>1. \A s \in SUBSET S : s # {} => pick(s) \in S
    OBVIOUS
  <2>2. \A x \in S : g[x] = of(x)
    BY DEF Part
  <2> DEFINE that(s) == IF s = {} THEN 0 ELSE g[pick(s)] + h[s \ {pick(s)}]
  <2> HIDE DEF pick, of, g
  <2>3. \A s \in SUBSET S : this(h, s) = that(s)
    BY <2>1, <2>2
  <2> HIDE DEF this, that
  <2>4. is(h) <=> h = [s \in SUBSET S |-> that(s)]
    BY <2>3
  <2> HIDE DEF is
  <2>5. QED BY <2>4, Zenon DEF Summing, that, pick
<1> HIDE DEF g
<1>3. PICK f : Summing(f, S, g)
  BY SummingExists
<1> HIDE DEF is
<1>4. is(f)
  BY <1>2, <1>3
<1>5. is(iter)
  BY <1>4, Zenon
<1> HIDE DEF iter
<1>6. Summing(iter, S, g)
  BY <1>2, <1>5
<1>7. iter[S] = SumOf(g, S)
  BY <1>6, SumIs
<1>8. QED BY <1>1, <1>7 DEF g

\* What an example asks of a field.
Asks(report, stem) == [e \in report.ids |-> Under(GoldPaths(report.corpus[e].gold), stem)]

LEMMA AskedForIs ==
    ASSUME NEW report, IsFiniteSet(report.ids), NEW stem
    PROVE  AskedFor(report, stem) = SumOf(Asks(report, stem), report.ids)
<1> DEFINE S == report.ids
           g == Asks(report, stem)
           pick(s) == CHOOSE x \in s : TRUE
           of(x) == Under(GoldPaths(report.corpus[x].gold), stem)
           this(h, s) == IF s = {} THEN 0 ELSE of(pick(s)) + h[s \ {pick(s)}]
           is(h) == h = [s \in SUBSET S |-> this(h, s)]
           iter == CHOOSE h : is(h)
<1>1. AskedFor(report, stem) = iter[S]
  BY Zenon DEF AskedFor, MapThenSumSet, MapThenFoldSet
<1>2. ASSUME NEW h PROVE is(h) <=> Summing(h, S, g)
  <2>1. \A s \in SUBSET S : s # {} => pick(s) \in S
    OBVIOUS
  <2>2. \A x \in S : g[x] = of(x)
    BY DEF Asks
  <2> DEFINE that(s) == IF s = {} THEN 0 ELSE g[pick(s)] + h[s \ {pick(s)}]
  <2> HIDE DEF pick, of, g
  <2>3. \A s \in SUBSET S : this(h, s) = that(s)
    BY <2>1, <2>2
  <2> HIDE DEF this, that
  <2>4. is(h) <=> h = [s \in SUBSET S |-> that(s)]
    BY <2>3
  <2> HIDE DEF is
  <2>5. QED BY <2>4, Zenon DEF Summing, that, pick
<1> HIDE DEF g
<1>3. PICK f : Summing(f, S, g)
  BY SummingExists
<1> HIDE DEF is
<1>4. is(f)
  BY <1>2, <1>3
<1>5. is(iter)
  BY <1>4, Zenon
<1> HIDE DEF iter
<1>6. Summing(iter, S, g)
  BY <1>2, <1>5
<1>7. iter[S] = SumOf(g, S)
  BY <1>6, SumIs
<1>8. QED BY <1>1, <1>7 DEF g

\* Part of a field's paths.
LEMMA UnderPart ==
    ASSUME NEW P, IsFiniteSet(P), NEW G, IsFiniteSet(G), NEW stem
    PROVE  /\ Under(G, stem) \in Nat /\ Under(P \cap G, stem) \in Nat
           /\ Under(G, stem) # 0 => \E p \in G : Stem(p) = stem
           /\ (\E p \in P \cup G : Stem(p) = stem) \/ (Under(G, stem) = 0 /\ Under(P \cap G, stem) = 0)
           /\ {p \in G : Stem(p) = stem} \subseteq P => Under(P \cap G, stem) = Under(G, stem)
           /\ Under(P, stem) = 0 => Under(P \cap G, stem) = 0
<1> DEFINE g == {p \in G : Stem(p) = stem}
           o == {p \in P : Stem(p) = stem}
           b == {p \in P \cap G : Stem(p) = stem}
<1>1. Under(G, stem) = Cardinality(g) /\ Under(P, stem) = Cardinality(o)
      /\ Under(P \cap G, stem) = Cardinality(b)
  BY DEF Under
<1>2. IsFiniteSet(g) /\ IsFiniteSet(o) /\ IsFiniteSet(b)
  <2>1. g \subseteq G /\ o \subseteq P /\ b \subseteq G
    OBVIOUS
  <2> HIDE DEF g, o, b
  <2>2. QED BY <2>1, FS_Subset
<1>3. b \subseteq g /\ b \subseteq o /\ (g \subseteq P => b = g)
  OBVIOUS
<1>4. g = {} \/ \E p \in G : Stem(p) = stem
  OBVIOUS
<1>5. (\E p \in P \cup G : Stem(p) = stem) \/ (g = {} /\ b = {})
  OBVIOUS
<1>6. g \subseteq P <=> {p \in G : Stem(p) = stem} \subseteq P
  OBVIOUS
<1> HIDE DEF g, o, b
<1>7. /\ Cardinality(g) \in Nat /\ Cardinality(b) \in Nat
      /\ (Cardinality(g) = 0) <=> (g = {})
      /\ (Cardinality(o) = 0) <=> (o = {})
      /\ (Cardinality(b) = 0) <=> (b = {})
  BY <1>2, FS_CardinalityType, FS_EmptySet
<1>8. QED BY <1>1, <1>3, <1>4, <1>5, <1>6, <1>7

\* The report of an evaluation.
Reported(report) ==
    \E corpus \in Corpora : \E style \in [DOMAIN corpus -> Styles] : report = Report(corpus, style)

\* What a completion says and what it should say of an example of a report.
SaidBy(report, e) == LET gold == report.corpus[e].gold
                     IN  Paths(Object(Answer(report.style[e], gold)), gold)
Owed(report, e) == GoldPaths(report.corpus[e].gold)

\* Both are finite.
LEMMA SaidIsFinite ==
    ASSUME NEW report, Reported(report)
    PROVE  /\ IsFiniteSet(report.ids)
           /\ \A e \in report.ids : IsFiniteSet(SaidBy(report, e)) /\ IsFiniteSet(Owed(report, e))
<1>1. PICK corpus \in Corpora : \E style \in [DOMAIN corpus -> Styles] : report = Report(corpus, style)
  BY DEF Reported
<1>0. PICK style \in [DOMAIN corpus -> Styles] : report = Report(corpus, style)
  BY <1>1
<1>2. report.ids = DOMAIN corpus /\ report.corpus = corpus /\ report.style = style
  BY <1>0 DEF Report
<1>3. IsFiniteSet(DOMAIN corpus)
  BY ReportAssumption
<1>4. ASSUME NEW e \in DOMAIN corpus
      PROVE  IsFiniteSet(SaidBy(report, e)) /\ IsFiniteSet(Owed(report, e))
  <2> DEFINE gold == corpus[e].gold
             text == Answer(style[e], gold)
             r == Object(text)
             slot == Alignment(r, gold)
             all == [j \in DOMAIN gold.items |-> j]
  <2>1. style[e] \in Styles
    OBVIOUS
  <2>2. IsFiniteSet(Scalars) /\ Finite(gold) /\ Finite(text.record)
    BY <2>1, ReportAssumption DEF Finite
  <2>3. SaidBy(report, e) = Flat(r, slot) /\ Owed(report, e) = Flat(gold, all)
    BY <1>2 DEF SaidBy, Owed, Paths, GoldPaths
  <2>4. r = text.record \/ r = EmptyRecord
    BY StrictOutcomes DEF Object, Outcomes, Parsed, Failed
  <2>5. Finite(EmptyRecord)
    <3>1. EmptyRecord.members = {} /\ DOMAIN EmptyRecord.items = {}
      BY DEF EmptyRecord
    <3>2. QED BY <3>1, FS_EmptySet DEF Finite
  <2>6. Finite(r)
    BY <2>2, <2>4, <2>5
  <2>7. DOMAIN slot = Present(r) /\ Present(r) \subseteq DOMAIN r.items
    BY DEF Alignment, Present
  <2>8. DOMAIN all = DOMAIN gold.items
    OBVIOUS
  <2> HIDE DEF slot, all, r, gold, text
  <2>9. IsFiniteSet(DOMAIN slot) /\ IsFiniteSet(DOMAIN all)
    BY <2>2, <2>6, <2>7, <2>8, FS_Subset DEF Finite
  <2>10. IsFiniteSet(Flat(r, slot))
    BY <2>2, <2>6, <2>9, FlatIsFinite DEF Finite
  <2>11. IsFiniteSet(Flat(gold, all))
    BY <2>2, <2>9, FlatIsFinite DEF Finite
  <2>12. QED BY <2>3, <2>10, <2>11
<1>5. QED BY <1>2, <1>3, <1>4

\* The counts of the examples of a report.
CountsOf(report) ==
    [e \in report.ids |-> FieldCounts(Answer(report.style[e], report.corpus[e].gold),
                                      report.corpus[e].gold)]

\* A report's rows sum up the counts of its examples.
LEMMA RowsSumUp ==
    ASSUME NEW report, Reported(report)
    PROVE  /\ DOMAIN report.perField = UNION {DOMAIN CountsOf(report)[e] : e \in report.ids}
           /\ \A stem \in DOMAIN report.perField :
                 /\ report.perField[stem].expected = Added(CountsOf(report), stem, "expected")
                 /\ report.perField[stem].correct = Added(CountsOf(report), stem, "correct")
<1>1. PICK corpus \in Corpora : \E style \in [DOMAIN corpus -> Styles] : report = Report(corpus, style)
  BY DEF Reported
<1>0. PICK style \in [DOMAIN corpus -> Styles] : report = Report(corpus, style)
  BY <1>1
<1> DEFINE results == [e \in DOMAIN corpus |-> Scored[corpus][e][style[e]]]
           counts == [e \in DOMAIN corpus |-> results[e].fields]
<1>2. report.ids = DOMAIN corpus /\ report.corpus = corpus /\ report.style = style
  BY <1>0 DEF Report
<1>3. report.perField = [stem \in UNION {DOMAIN counts[e] : e \in DOMAIN corpus} |->
                          [part \in {"expected", "emitted", "correct"} |->
                              Added(counts, stem, part)]]
  BY <1>0 DEF Report
<1>4. \A e \in DOMAIN corpus :
         counts[e] = FieldCounts(Answer(style[e], corpus[e].gold), corpus[e].gold)
  <2>1. \A e \in DOMAIN corpus : style[e] \in Styles
    OBVIOUS
  <2>2. QED BY <2>1 DEF Scored
<1> HIDE DEF results
<1>5. counts = CountsOf(report)
  BY <1>2, <1>4 DEF CountsOf
<1> HIDE DEF counts
<1>6. QED BY <1>2, <1>3, <1>5

\* What an example adds to its fields' rows.
LEMMA CountsAre ==
    ASSUME NEW report, Reported(report), NEW stem, NEW e \in report.ids
    PROVE  LET asked == Under(Owed(report, e), stem)
               right == Part(CountsOf(report), stem, "correct")[e]
           IN  /\ asked \in Nat /\ right \in Nat
               /\ asked # 0 => stem \in DOMAIN CountsOf(report)[e]
               /\ Part(CountsOf(report), stem, "expected")[e] = asked
               /\ {p \in Owed(report, e) : Stem(p) = stem} \subseteq SaidBy(report, e) => right = asked
               /\ Under(SaidBy(report, e), stem) = 0 => right = 0
<1> DEFINE P == SaidBy(report, e)
           G == Owed(report, e)
           c == CountsOf(report)[e]
<1>1. IsFiniteSet(P) /\ IsFiniteSet(G)
  BY SaidIsFinite
<1>2. c = [s \in {Stem(p) : p \in P \cup G} |->
             [expected |-> Under(G, s), emitted |-> Under(P, s), correct |-> Under(P \cap G, s)]]
  BY DEF CountsOf, FieldCounts, SaidBy, Owed
<1>3. stem \in DOMAIN c <=> \E p \in P \cup G : Stem(p) = stem
  BY <1>2
<1>4. stem \in DOMAIN c => c[stem].expected = Under(G, stem) /\ c[stem].correct = Under(P \cap G, stem)
  BY <1>2
<1>5. /\ Part(CountsOf(report), stem, "expected")[e] = IF stem \in DOMAIN c THEN c[stem].expected ELSE 0
      /\ Part(CountsOf(report), stem, "correct")[e] = IF stem \in DOMAIN c THEN c[stem].correct ELSE 0
  <2>1. e \in DOMAIN CountsOf(report)
    BY DEF CountsOf
  <2>2. QED BY <2>1 DEF Part
<1>6. /\ Under(G, stem) \in Nat /\ Under(P \cap G, stem) \in Nat
      /\ Under(G, stem) # 0 => \E p \in G : Stem(p) = stem
      /\ (\E p \in P \cup G : Stem(p) = stem) \/ (Under(G, stem) = 0 /\ Under(P \cap G, stem) = 0)
      /\ {p \in G : Stem(p) = stem} \subseteq P => Under(P \cap G, stem) = Under(G, stem)
      /\ Under(P, stem) = 0 => Under(P \cap G, stem) = 0
  BY <1>1, UnderPart
<1> HIDE DEF P, G, c
<1>7. /\ Part(CountsOf(report), stem, "expected")[e] = Under(G, stem)
      /\ Part(CountsOf(report), stem, "correct")[e] = Under(P \cap G, stem)
      /\ Under(G, stem) # 0 => stem \in DOMAIN c
  BY <1>3, <1>4, <1>5, <1>6
<1>8. QED BY <1>6, <1>7 DEF P, G, c

\* What a report's row says of a field, by what was asked and said.
LEMMA RowsAre ==
    ASSUME NEW report, Reported(report), NEW stem
    PROVE  LET row == report.perField[stem]
           IN  /\ AskedFor(report, stem) \in Nat
               /\ AskedFor(report, stem) > 0 => stem \in DOMAIN report.perField
               /\ stem \in DOMAIN report.perField =>
                     /\ row.expected = AskedFor(report, stem)
                     /\ SaidRight(report, stem) => row.correct = AskedFor(report, stem)
                     /\ SaysNothing(report, stem) => row.correct = 0
<1> DEFINE S == report.ids
           c == CountsOf(report)
           x == Part(c, stem, "expected")
           right == Part(c, stem, "correct")
           a == Asks(report, stem)
<1>1. IsFiniteSet(S)
  BY SaidIsFinite
<1>2. DOMAIN c = S /\ DOMAIN x = S /\ DOMAIN right = S
  BY DEF CountsOf, Part
<1>3. /\ \A e \in S : a[e] = Under(Owed(report, e), stem)
      /\ \A e \in S : a[e] \in Nat /\ right[e] \in Nat /\ x[e] = a[e]
      /\ \A e \in S : a[e] # 0 => stem \in DOMAIN c[e]
      /\ SaidRight(report, stem) => \A e \in S : right[e] = a[e]
      /\ SaysNothing(report, stem) => \A e \in S : right[e] = 0
  <2>1. \A e \in S : a[e] = Under(Owed(report, e), stem)
    BY DEF Asks, Owed
  <2>2. /\ \A e \in S : a[e] \in Nat /\ right[e] \in Nat /\ x[e] = a[e]
        /\ \A e \in S : a[e] # 0 => stem \in DOMAIN c[e]
    BY <2>1, CountsAre
  <2>3. ASSUME SaidRight(report, stem), NEW e \in S PROVE right[e] = a[e]
    <3>1. {p \in Owed(report, e) : Stem(p) = stem} \subseteq SaidBy(report, e)
      BY <2>3 DEF SaidRight, SaidBy, Owed
    <3>2. QED BY <2>1, <3>1, CountsAre
  <2>4. ASSUME SaysNothing(report, stem), NEW e \in S PROVE right[e] = 0
    <3>1. Under(SaidBy(report, e), stem) = 0
      BY <2>4 DEF SaysNothing, SaidBy
    <3>2. QED BY <3>1, CountsAre
  <2>5. QED BY <2>1, <2>2, <2>3, <2>4
<1>4. AskedFor(report, stem) = SumOf(a, S)
  BY <1>1, AskedForIs
<1>5. stem \in DOMAIN report.perField =>
         /\ report.perField[stem].expected = SumOf(x, S)
         /\ report.perField[stem].correct = SumOf(right, S)
  <2>1. Added(c, stem, "expected") = SumOf(x, S) /\ Added(c, stem, "correct") = SumOf(right, S)
    BY <1>1, <1>2, AddedIs
  <2>2. QED BY <2>1, RowsSumUp
<1>6. DOMAIN report.perField = UNION {DOMAIN c[e] : e \in S}
  BY RowsSumUp
<1> HIDE DEF S, c, x, right, a
<1>7. Counts(a, S) /\ Counts(right, S)
  BY <1>3 DEF Counts
<1>8. SumOf(a, S) \in Nat /\ SumOf(x, S) = SumOf(a, S)
  BY <1>1, <1>3, <1>7, SumStep, SumSame
<1>9. ASSUME SumOf(a, S) > 0 PROVE stem \in DOMAIN report.perField
  <2>1. SumOf(a, S) # 0
    BY <1>8, <1>9
  <2>2. PICK e \in S : a[e] # 0
    BY <1>1, <1>7, <2>1, SumZero
  <2>3. stem \in DOMAIN c[e]
    BY <1>3, <2>2
  <2>4. QED BY <1>6, <2>3
<1>10. SaidRight(report, stem) => SumOf(right, S) = SumOf(a, S)
  BY <1>1, <1>3, SumSame
<1>11. SaysNothing(report, stem) => SumOf(right, S) = 0
  BY <1>1, <1>3, <1>7, SumZero
<1>12. QED BY <1>4, <1>5, <1>8, <1>9, <1>10, <1>11

\* A recall that falls from all to nothing has fallen by more than any tolerance.
LEMMA AllToNothing ==
    ASSUME NEW m \in Nat \ {0}, NEW n \in Nat \ {0}, NEW tolerance,
           tolerance.num \in Nat, tolerance.den \in Nat, tolerance.num < tolerance.den
    PROVE  Regressed(m, m, 0, n, tolerance)
<1> DEFINE p == m * n
           x == tolerance.num
           y == tolerance.den
<1>1. p \in Nat /\ p > 0 /\ 0 * m - m * n = -p
  <2>1. m * n \in Nat /\ m * n > 0 /\ 0 * m = 0
    OBVIOUS
  <2>2. QED BY <2>1
<1>2. x * m * n = x * p
  OBVIOUS
<1>3. Regressed(m, m, 0, n, tolerance) <=> (-p) * y < -(x * p)
  BY <1>1, <1>2 DEF Regressed
<1> HIDE DEF p
<1>4. x \in Nat /\ y \in Nat /\ x < y
  OBVIOUS
<1> HIDE DEF x, y
<1>5. y = x + (y - x) /\ y - x \in Nat /\ y - x > 0
  BY <1>4
<1> DEFINE d == y - x
<1>6. d \in Nat /\ d > 0 /\ y = x + d
  BY <1>5
<1> HIDE DEF d
<1>7. (-p) * y = -(x * p) - d * p /\ d * p > 0 /\ x * p \in Nat /\ d * p \in Nat
  BY <1>1, <1>4, <1>6
<1>8. QED BY <1>3, <1>7

\* The gate sees a field vanish.
LEMMA VanishingRegresses ==
    ASSUME Floors.field.num < Floors.field.den,
           NEW before, Reported(before), NEW after, Reported(after),
           NEW stem \in DOMAIN before.perField,
           \A r \in {before, after} :
              AskedFor(r, stem) >= Floors.support /\ AskedFor(r, stem) > 0,
           SaidRight(before, stem), SaysNothing(after, stem)
    PROVE  FieldRegressed(before, after)
<1> DEFINE b == before.perField[stem]
           a == after.perField[stem]
           m == AskedFor(before, stem)
           n == AskedFor(after, stem)
<1>1. m \in Nat /\ m > 0 /\ b.expected = m /\ b.correct = m /\ m >= Floors.support
  BY RowsAre
<1>2. n \in Nat /\ n > 0 /\ a.expected = n /\ a.correct = 0 /\ n >= Floors.support
      /\ stem \in DOMAIN after.perField
  BY RowsAre
<1> HIDE DEF m, n
<1>3. RecallOf(b) = <<m, m>> /\ RecallOf(a) = <<0, n>>
  BY <1>1, <1>2 DEF RecallOf
<1>4. Smaller(b.expected, a.expected) >= Floors.support
  BY <1>1, <1>2 DEF Smaller
<1>5. Floors.field.num \in Nat /\ Floors.field.den \in Nat
  BY GateAssumption
<1>6. Regressed(m, m, 0, n, Floors.field)
  BY <1>1, <1>2, <1>5, AllToNothing
<1>7. Regressed(RecallOf(b)[1], RecallOf(b)[2], RecallOf(a)[1], RecallOf(a)[2], Floors.field)
  BY <1>3, <1>6
<1>8. QED BY <1>2, <1>4, <1>7 DEF FieldRegressed

-----------------------------------------------------------------------------
(* The gate.                                                               *)

\* A decision was made on the two reports on disk, at some low end of the interval.
DecidedOn(before, after) ==
    /\ Reported(before) /\ Reported(after) /\ SameCorpus(before, after)
    /\ \E low \in Ends(before, after) : decision = Result(before, after, low)

\* The reports are reports, and a promotion was decided on them.
GateInv ==
    /\ DOMAIN reports = {"baseline", "candidate"}
    /\ \A v \in {"baseline", "candidate"} : reports[v] = NoReport \/ Reported(reports[v])
    /\ decision.outcome = "promote" => DecidedOn(reports["baseline"], reports["candidate"])

LEMMA ReportedIsWritten == \A report : Reported(report) => report # NoReport
<1>1. ASSUME NEW report, Reported(report) PROVE report.state = "written"
  BY <1>1 DEF Reported, Report
<1>2. NoReport.state = "none"
  BY DEF NoReport
<1>3. QED BY <1>1, <1>2

LEMMA GateStarts == GateInit => GateInv
<1>1. Undecided.outcome = "none"
  BY DEF Undecided
<1>2. QED BY <1>1 DEF GateInit, GateInv

LEMMA EvaluateKeeps ==
    ASSUME GateInv, NEW v \in {"baseline", "candidate"}, Evaluate(v) PROVE GateInv'
<1>1. reports[v] = NoReport /\ decision' = decision
  BY DEF Evaluate
<1>2. PICK corpus \in Corpora : \E style \in [DOMAIN corpus -> Styles] :
         reports' = [reports EXCEPT ![v] = Report(corpus, style)]
  BY DEF Evaluate
<1>3. PICK style \in [DOMAIN corpus -> Styles] :
         reports' = [reports EXCEPT ![v] = Report(corpus, style)]
  BY <1>2
<1> DEFINE new == Report(corpus, style)
<1>4. Reported(new)
  BY DEF Reported
<1> HIDE DEF new
<1>5. reports' = [reports EXCEPT ![v] = new]
  BY <1>3 DEF new
<1>6. /\ DOMAIN reports' = {"baseline", "candidate"}
      /\ \A w \in {"baseline", "candidate"} : reports'[w] = IF w = v THEN new ELSE reports[w]
  BY <1>5 DEF GateInv
<1>7. decision.outcome # "promote"
  BY <1>1, ReportedIsWritten DEF GateInv, DecidedOn
<1>8. QED BY <1>1, <1>4, <1>6, <1>7 DEF GateInv

LEMMA CompareKeeps == ASSUME GateInv, Compare PROVE GateInv'
<1> DEFINE before == reports["baseline"]
           after == reports["candidate"]
<1>1. reports' = reports /\ \A v \in DOMAIN reports : reports[v] # NoReport
  BY DEF Compare
<1>2. Reported(before) /\ Reported(after)
  BY <1>1 DEF GateInv
<1>3. ASSUME decision'.outcome = "promote" PROVE DecidedOn(before, after)'
  <2>1. \/ ~SameCorpus(before, after) /\ decision' = NotCompared
        \/ /\ SameCorpus(before, after)
           /\ \E low \in Ends(before, after) : decision' = Result(before, after, low)
    BY Zenon DEF Compare
  <2>2. decision' # NotCompared
    BY <1>3 DEF NotCompared
  <2>3. before' = before /\ after' = after
    BY <1>1
  <2> HIDE DEF before, after
  <2>4. QED BY <1>2, <2>1, <2>2, <2>3 DEF DecidedOn
<1>4. QED BY <1>1, <1>3 DEF GateInv

\* Every report is of an evaluation, and every promotion of the two on disk.
THEOREM GateInvariance == GateSpec => []GateInv
<1>1. GateInit => GateInv
  BY GateStarts
<1>2. GateInv /\ [GateNext]_gateVars => GateInv'
  <2> SUFFICES ASSUME GateInv, [GateNext]_gateVars PROVE GateInv'
    OBVIOUS
  <2>1. CASE \E v \in {"baseline", "candidate"} : Evaluate(v)
    BY <2>1, EvaluateKeeps
  <2>2. CASE Compare
    BY <2>2, CompareKeeps
  <2>3. CASE UNCHANGED gateVars
    <3>1. reports' = reports /\ decision' = decision
      BY <2>3 DEF gateVars
    <3>2. ASSUME decision'.outcome = "promote"
          PROVE  DecidedOn(reports["baseline"], reports["candidate"])'
      <4>1. DecidedOn(reports["baseline"], reports["candidate"])
        BY <3>1, <3>2 DEF GateInv
      <4>2. QED BY Zenon, <3>1, <4>1 DEF DecidedOn
    <3>3. QED BY <3>1, <3>2 DEF GateInv
  <2>4. QED BY <2>1, <2>2, <2>3 DEF GateNext
<1>3. QED BY <1>1, <1>2, PTL DEF GateSpec

\* What a promotion has cleared.
LEMMA PromotedClears ==
    ASSUME NEW before, NEW after, NEW low, Decide(before, after, low) = "promote"
    PROVE  /\ Cardinality(after.ids) # 0
           /\ ~SliceRegressed(before, after)
           /\ ~FieldRegressed(before, after)
           /\ Clears(low, Cardinality(after.ids), NoMargin)
           /\ McNemarClears(Lost(before, after), Gained(before, after))
<1> DEFINE n == Cardinality(after.ids)
           blocked == \/ BelowFloor(Cardinality(after.json), n, Floors.json)
                      \/ BelowFloor(Cardinality(after.success), n, Floors.schema)
                      \/ SliceRegressed(before, after)
                      \/ FieldRegressed(before, after)
                      \/ ~Clears(low, n, Margin)
           earned == /\ n # 0 /\ ~blocked
                     /\ Clears(low, n, NoMargin)
                     /\ McNemarClears(Lost(before, after), Gained(before, after))
           stopped == n = 0 \/ blocked
<1>1. Decide(before, after, low) = CASE stopped -> "reject" [] earned -> "promote"
                                     [] OTHER -> "hold"
  BY Zenon DEF Decide
<1>2. ~(stopped /\ earned)
  OBVIOUS
<1> HIDE DEF stopped, earned
<1>3. earned /\ ~stopped
  BY <1>1, <1>2
<1>4. QED BY <1>3 DEF stopped, earned

\* Nothing the baseline had right has vanished from a promoted candidate.
LEMMA PromotedKeepsFields ==
    ASSUME Floors.field.num < Floors.field.den, GateInv PROVE NothingVanishes
<1> DEFINE before == reports["baseline"]
           after == reports["candidate"]
<1> SUFFICES ASSUME decision.outcome = "promote", NEW stem \in DOMAIN before.perField,
                    \A r \in {before, after} :
                       AskedFor(r, stem) >= Floors.support /\ AskedFor(r, stem) > 0,
                    SaidRight(before, stem), SaysNothing(after, stem)
             PROVE  FALSE
  BY Zenon DEF NothingVanishes
<1>1. DecidedOn(before, after)
  BY DEF GateInv
<1> HIDE DEF before, after
<1>2. Reported(before) /\ Reported(after)
  BY <1>1 DEF DecidedOn
<1>3. FieldRegressed(before, after)
  BY <1>2, VanishingRegresses
<1>4. ~FieldRegressed(before, after)
  <2>1. PICK low \in Ends(before, after) : decision = Result(before, after, low)
    BY <1>1 DEF DecidedOn
  <2>2. Decide(before, after, low) = "promote"
    BY <2>1 DEF Result
  <2>3. QED BY <2>2, PromotedClears
<1>5. QED BY <1>3, <1>4

\* compare.py promotes no candidate that stopped producing a field which the
\* baseline always had right, wherever a drop in recall is tolerated only in part.
THEOREM NoFieldVanishes ==
    ASSUME Floors.field.num < Floors.field.den PROVE GateSpec => []NothingVanishes
<1>1. GateInv => NothingVanishes
  BY PromotedKeepsFields
<1>2. QED BY <1>1, GateInvariance, PTL

-----------------------------------------------------------------------------
(* The exact p-value.                                                      *)

\* The terms of a tail.
TermOf(n, j) == [h \in 0..j |-> choose(n, h)]

LEMMA TermsAre ==
    ASSUME NEW n \in Nat, NEW j \in Nat PROVE Terms(n, j) = SumOf(TermOf(n, j), 0..j)
<1> DEFINE S == 0..j
           g == TermOf(n, j)
           pick(s) == CHOOSE x \in s : TRUE
           of(x) == choose(n, x)
           this(h, s) == IF s = {} THEN 0 ELSE of(pick(s)) + h[s \ {pick(s)}]
           is(h) == h = [s \in SUBSET S |-> this(h, s)]
           iter == CHOOSE h : is(h)
<1>1. Terms(n, j) = iter[S]
  BY Zenon DEF Terms, MapThenSumSet, MapThenFoldSet
<1>2. ASSUME NEW h PROVE is(h) <=> Summing(h, S, g)
  <2>1. \A s \in SUBSET S : s # {} => pick(s) \in S
    OBVIOUS
  <2>2. \A x \in S : g[x] = of(x)
    BY DEF TermOf
  <2> DEFINE that(s) == IF s = {} THEN 0 ELSE g[pick(s)] + h[s \ {pick(s)}]
  <2> HIDE DEF pick, of, g, S
  <2>3. \A s \in SUBSET S : this(h, s) = that(s)
    BY <2>1, <2>2
  <2> HIDE DEF this, that
  <2>4. is(h) <=> h = [s \in SUBSET S |-> that(s)]
    BY <2>3
  <2> HIDE DEF is
  <2>5. QED BY <2>4, Zenon DEF Summing, that, pick
<1> HIDE DEF g
<1>3. IsFiniteSet(S)
  BY FS_Interval
<1> HIDE DEF S
<1>4. PICK f : Summing(f, S, g)
  BY <1>3, SummingExists
<1> HIDE DEF is
<1>5. is(f)
  BY <1>2, <1>4
<1>6. is(iter)
  BY <1>5, Zenon
<1> HIDE DEF iter
<1>7. Summing(iter, S, g)
  BY <1>2, <1>6
<1>8. iter[S] = SumOf(g, S)
  BY <1>3, <1>7, SumIs
<1>9. QED BY <1>1, <1>8 DEF g, S

\* The subsets of at most j elements.
Small(S, j) == {s \in SUBSET S : Cardinality(s) <= j}

\* The terms of a tail count the small subsets.
LEMMA TermsCount ==
    ASSUME NEW S, IsFiniteSet(S), NEW j \in 0..Cardinality(S)
    PROVE  Terms(Cardinality(S), j) = Cardinality(Small(S, j)) /\ Terms(Cardinality(S), j) \in Nat
<1> DEFINE n == Cardinality(S)
           g == TermOf(n, j)
           below(i) == {s \in SUBSET S : Cardinality(s) < i}
           good(i) == Cardinality(below(i)) = SumOf(g, 0..(i - 1))
           bad == {i \in Nat : i <= j + 1 /\ ~good(i)}
           m == Min(bad)
<1>1. n \in Nat /\ j \in Nat /\ j <= n
  <2>1. n \in Nat
    BY FS_CardinalityType
  <2>2. QED BY <2>1
<1>2. \A s \in SUBSET S : Cardinality(s) \in Nat
  BY FS_Subset, FS_CardinalityType
<1>3. \A i \in 0..j : g[i] = Cardinality(Parts(S, i)) /\ g[i] \in Nat
  <2>1. \A i \in 0..j : i \in Nat /\ i \in 0..n
    BY <1>1
  <2>2. ASSUME NEW i \in 0..j PROVE g[i] = Cardinality(Parts(S, i)) /\ g[i] \in Nat
    <3>1. choose(n, i) = Cardinality(Parts(S, i))
      BY <2>1, ChooseCounts
    <3>2. Cardinality(Parts(S, i)) \in Nat
      BY <2>1, PartsAre
    <3>3. g[i] = choose(n, i)
      BY DEF TermOf
    <3>4. QED BY <3>1, <3>2, <3>3
  <2>3. QED BY <2>2
<1> HIDE DEF n, g
<1>4. ASSUME bad # {} PROVE FALSE
  <2>1. m \in bad /\ m \in Nat /\ \A o \in bad : m <= o
    <3>1. bad \subseteq Nat
      OBVIOUS
    <3> HIDE DEF bad
    <3>2. QED BY <1>4, <3>1, LeastIs
  <2> HIDE DEF m
  <2>2. CASE m = 0
    <3>1. below(0) = {} /\ 0..(0 - 1) = {}
      BY <1>2
    <3> HIDE DEF below
    <3>2. SumOf(g, {}) = 0
      BY FS_EmptySet, SumPick
    <3>3. Cardinality(below(0)) = SumOf(g, 0..(0 - 1))
      BY <3>1, <3>2, FS_EmptySet
    <3>4. QED BY <2>1, <2>2, <3>3
  <2>3. CASE m # 0
    <3> DEFINE q == m - 1
    <3>1. q \in Nat /\ m = q + 1 /\ q <= j /\ q \in 0..j /\ ~(m <= q) /\ m <= j + 1
          /\ 0..(m - 1) = 0..q
      BY <1>1, <2>1, <2>3
    <3>2. q \notin bad
      <4> HIDE DEF bad
      <4>1. QED BY <2>1, <3>1
    <3>3. good(q)
      BY <1>1, <3>1, <3>2
    <3> HIDE DEF q
    <3>4. below(m) = below(q) \cup Parts(S, q) /\ below(q) \cap Parts(S, q) = {}
      BY <1>2, <3>1 DEF Parts
    <3>5. IsFiniteSet(below(q)) /\ IsFiniteSet(Parts(S, q))
      <4>1. IsFiniteSet(SUBSET S)
        BY FS_SUBSET
      <4>2. below(q) \in SUBSET (SUBSET S) /\ Parts(S, q) \in SUBSET (SUBSET S)
        BY DEF Parts
      <4>3. QED BY <4>1, <4>2, FS_Subset
    <3> DEFINE B == below(q)
               P == Parts(S, q)
    <3>6. Cardinality(below(m)) = Cardinality(B) + Cardinality(P)
      <4> HIDE DEF B, P, below
      <4>1. Cardinality(B \cup P) = Cardinality(B) + Cardinality(P) - Cardinality(B \cap P)
        BY <3>5, FS_Union DEF B, P
      <4>2. Cardinality(B \cap P) = 0
        BY <3>4, FS_EmptySet DEF B, P
      <4>3. Cardinality(B) \in Nat /\ Cardinality(P) \in Nat
        BY <3>5, FS_CardinalityType DEF B, P
      <4>4. QED BY <3>4, <4>1, <4>2, <4>3 DEF B, P
    <3>7. Cardinality(P) = g[q]
      BY <1>3, <3>1
    <3>8. SumOf(g, 0..q) = g[q] + SumOf(g, 0..(q - 1))
      <4> DEFINE T == 0..q
                 U == 0..(q - 1)
      <4>1. q \in T /\ T \ {q} = U
        BY <3>1
      <4>2. IsFiniteSet(T)
        BY <3>1, FS_Interval
      <4>3. Counts(g, T)
        <5>1. \A i \in 0..q : i \in 0..j
          BY <1>1, <3>1
        <5>2. QED BY <1>3, <5>1 DEF Counts
      <4> HIDE DEF T, U
      <4>4. SumOf(g, T) = g[q] + SumOf(g, T \ {q})
        BY <4>1, <4>2, <4>3, SumStep
      <4>5. QED BY <4>1, <4>4 DEF T, U
    <3>9. g[q] \in Nat /\ Cardinality(B) \in Nat
      BY <1>3, <3>1, <3>5, FS_CardinalityType
    <3>10. Cardinality(below(m)) = SumOf(g, 0..q)
      <4>1. Cardinality(B) = SumOf(g, 0..(q - 1))
        BY <3>3
      <4> HIDE DEF B, P, below
      <4>2. QED BY <3>6, <3>7, <3>8, <3>9, <4>1
    <3>11. 0..(m - 1) = 0..q
      BY <3>1
    <3> HIDE DEF below
    <3>12. good(m)
      BY <3>10, <3>11
    <3>13. QED BY <2>1, <3>12
  <2>4. QED BY <2>2, <2>3
<1>5. j + 1 \in Nat /\ j + 1 \notin bad /\ j + 1 <= j + 1
  <2> HIDE DEF bad
  <2>1. QED BY <1>1, <1>4
<1>6. good(j + 1)
  BY <1>5
<1>7. below(j + 1) = Small(S, j)
  BY <1>1, <1>2 DEF Small
<1> HIDE DEF below
<1>8. Cardinality(Small(S, j)) = SumOf(g, 0..j)
  <2>1. j + 1 - 1 = j
    BY <1>1
  <2>2. QED BY <1>6, <1>7, <2>1
<1>9. Terms(n, j) = SumOf(g, 0..j)
  BY <1>1, TermsAre DEF g
<1>10. Cardinality(Small(S, j)) \in Nat
  <2>1. IsFiniteSet(SUBSET S) /\ Small(S, j) \in SUBSET (SUBSET S)
    BY FS_SUBSET DEF Small
  <2>2. QED BY <2>1, FS_Subset, FS_CardinalityType
<1>11. QED BY <1>8, <1>9, <1>10 DEF n

\* What of the larger set is not in the smaller one is more than the reverse.
LEMMA MoreGained ==
    ASSUME NEW A, NEW B, IsFiniteSet(A), IsFiniteSet(B)
    PROVE  /\ Cardinality(A \ B) \in Nat /\ Cardinality(B \ A) \in Nat
           /\ Cardinality(B \ A) > Cardinality(A \ B) => Cardinality(B) > Cardinality(A)
<1>1. IsFiniteSet(A \cap B) /\ IsFiniteSet(A \ B) /\ IsFiniteSet(B \ A)
  BY FS_Intersection, FS_Difference
<1>2. Cardinality(A \ B) = Cardinality(A) - Cardinality(A \cap B)
  BY FS_Difference
<1>3. Cardinality(B \ A) = Cardinality(B) - Cardinality(A \cap B)
  <2>1. B \cap A = A \cap B
    OBVIOUS
  <2>2. Cardinality(B \ A) = Cardinality(B) - Cardinality(B \cap A)
    BY FS_Difference
  <2>3. QED BY <2>1, <2>2
<1>4. /\ Cardinality(A) \in Nat /\ Cardinality(B) \in Nat /\ Cardinality(A \cap B) \in Nat
      /\ Cardinality(A \ B) \in Nat /\ Cardinality(B \ A) \in Nat
  BY <1>1, FS_CardinalityType
<1>5. QED BY <1>2, <1>3, <1>4

\* The large subsets are the rests of small ones.
LEMMA LargeAreRests ==
    ASSUME NEW D, IsFiniteSet(D), NEW l \in Nat, l <= Cardinality(D)
    PROVE  LET large == {S \in SUBSET D : Cardinality(S) >= Cardinality(D) - l}
           IN  IsFiniteSet(large) /\ Cardinality(large) <= Cardinality(Small(D, l))
<1> DEFINE n == Cardinality(D)
           large == {S \in SUBSET D : Cardinality(S) >= n - l}
           f == [S \in large |-> D \ S]
<1>1. \A S \in SUBSET D : Cardinality(S) \in Nat /\ Cardinality(D \ S) = n - Cardinality(S)
  <2> SUFFICES ASSUME NEW S \in SUBSET D
               PROVE  Cardinality(S) \in Nat /\ Cardinality(D \ S) = n - Cardinality(S)
    OBVIOUS
  <2>1. IsFiniteSet(S) /\ D \cap S = S
    BY FS_Subset
  <2>2. QED BY <2>1, FS_Difference, FS_CardinalityType
<1>2. n \in Nat
  BY FS_CardinalityType
<1>3. \A S \in large : f[S] \in Small(D, l)
  <2> SUFFICES ASSUME NEW S \in large PROVE D \ S \in Small(D, l)
    OBVIOUS
  <2> HIDE DEF n
  <2>1. Cardinality(D \ S) <= l
    BY <1>1, <1>2
  <2>2. QED BY <2>1 DEF Small
<1>4. \A S, T \in large : f[S] = f[T] => S = T
  <2>1. \A S \in large : S = D \ f[S]
    OBVIOUS
  <2>2. QED BY <2>1
<1>5. IsFiniteSet(Small(D, l)) /\ IsFiniteSet(large)
  <2>1. IsFiniteSet(SUBSET D) /\ Small(D, l) \in SUBSET (SUBSET D) /\ large \in SUBSET (SUBSET D)
    BY FS_SUBSET DEF Small
  <2> HIDE DEF large
  <2>2. QED BY <2>1, FS_Subset
<1>6. f \in [large -> Small(D, l)]
  BY <1>3
<1>7. f \in Injection(large, Small(D, l))
  <2> HIDE DEF f, large
  <2>1. QED BY <1>4, <1>6 DEF Injection, IsInjective
<1> HIDE DEF f, large
<1>8. Cardinality(large) <= Cardinality(Small(D, l))
  BY <1>5, <1>7, FS_Injection
<1>9. QED BY <1>5, <1>8 DEF large, n

\* The exact tail is no smaller than the share of outcomes at least as lopsided.
LEMMA TailIsExact ==
    ASSUME NEW before, NEW after, IsFiniteSet(before.success), IsFiniteSet(after.success)
    PROVE  LET share == AsLopsided(before, after)
               n == Lost(before, after) + Gained(before, after)
               fewer == Smaller(Lost(before, after), Gained(before, after))
           IN  /\ share.of = 2 ^ n /\ share.of \in Nat /\ share.as \in Nat
               /\ share.as <= share.of
               /\ Terms(n, fewer) \in Nat
               /\ share.as <= 2 * Terms(n, fewer)
<1> DEFINE L == before.success \ after.success
           G == after.success \ before.success
           D == L \cup G
           l == Cardinality(L)
           g == Cardinality(G)
           n == l + g
           m == Smaller(l, g)
           gap(S) == Cardinality(S) - Cardinality(D \ S)
           size(x) == IF x < 0 THEN -x ELSE x
           W == {S \in SUBSET D : size(gap(S)) >= size(gap(G))}
           large == {S \in SUBSET D : Cardinality(S) >= Cardinality(D) - m}
<1>1. Lost(before, after) = l /\ Gained(before, after) = g
  BY DEF Lost, Gained
<1>2. AsLopsided(before, after).as = Cardinality(W)
      /\ AsLopsided(before, after).of = Cardinality(SUBSET D)
  BY DEF AsLopsided
<1>3. IsFiniteSet(L) /\ IsFiniteSet(G) /\ L \cap G = {}
  BY FS_Difference
<1>4. D \ G = L /\ G \in SUBSET D /\ D = L \cup G
  BY <1>3
<1>5. l \in Nat /\ g \in Nat /\ m \in Nat /\ ((m = l /\ l <= g) \/ (m = g /\ g <= l))
  BY <1>1, <1>3, FS_CardinalityType DEF Smaller
<1> HIDE DEF L, G, W
<1>6. IsFiniteSet(D) /\ Cardinality(D) = n
  BY <1>3, <1>5, FS_Union, FS_EmptySet
<1>7. \A S \in SUBSET D : Cardinality(S) \in Nat /\ Cardinality(D \ S) = n - Cardinality(S)
  <2> HIDE DEF D, n
  <2> SUFFICES ASSUME NEW S \in SUBSET D
               PROVE  Cardinality(S) \in Nat /\ Cardinality(D \ S) = n - Cardinality(S)
    OBVIOUS
  <2>1. IsFiniteSet(S) /\ D \cap S = S
    BY <1>6, FS_Subset
  <2>2. QED BY <1>6, <2>1, FS_Difference, FS_CardinalityType
<1> HIDE DEF D
<1>8. gap(G) = g - l
  BY <1>4
<1> HIDE DEF l, g, m
<1>9. W \subseteq Small(D, m) \cup large
  <2> SUFFICES ASSUME NEW S \in W PROVE S \in Small(D, m) \cup large
    OBVIOUS
  <2>1. S \in SUBSET D /\ size(gap(S)) >= size(gap(G))
    BY DEF W
  <2> DEFINE s == Cardinality(S)
  <2>2. s \in Nat /\ gap(S) = s - (n - s)
    BY <1>7, <2>1
  <2>3. size(s - (n - s)) >= size(g - l)
    BY <1>8, <2>1, <2>2
  <2> HIDE DEF s
  <2>4. s <= m \/ s >= n - m
    <3>1. CASE m = l /\ l <= g
      BY <1>5, <2>2, <2>3, <3>1
    <3>2. CASE m = g /\ g <= l
      BY <1>5, <2>2, <2>3, <3>2
    <3>3. QED BY <1>5, <3>1, <3>2
  <2>5. Cardinality(D) - m = n - m
    BY <1>6
  <2>6. QED BY <2>1, <2>4, <2>5 DEF Small, s
<1>10. IsFiniteSet(large) /\ Cardinality(large) <= Cardinality(Small(D, m))
  <2>1. m <= Cardinality(D)
    BY <1>5, <1>6
  <2>2. QED BY <1>5, <1>6, <2>1, LargeAreRests
<1>11. IsFiniteSet(SUBSET D) /\ Cardinality(SUBSET D) = 2 ^ n
  BY <1>6, FS_SUBSET
<1>12. W \in SUBSET (SUBSET D) /\ Small(D, m) \in SUBSET (SUBSET D)
  BY DEF W, Small
<1>13. IsFiniteSet(W) /\ IsFiniteSet(Small(D, m)) /\ Cardinality(W) <= Cardinality(SUBSET D)
  BY <1>11, <1>12, FS_Subset
<1>14. Terms(n, m) = Cardinality(Small(D, m)) /\ Terms(n, m) \in Nat
  <2>1. m \in 0..Cardinality(D)
    BY <1>5, <1>6
  <2>2. QED BY <1>6, <2>1, TermsCount
<1> DEFINE T == Small(D, m)
<1> HIDE DEF n, large, T
<1>15. Cardinality(W) <= 2 * Cardinality(T)
  <2>1. IsFiniteSet(T \cup large)
        /\ Cardinality(T \cup large) = Cardinality(T) + Cardinality(large) - Cardinality(T \cap large)
        /\ IsFiniteSet(T \cap large)
    BY <1>10, <1>13, FS_Union, FS_Intersection DEF T
  <2>2. W \in SUBSET (T \cup large)
    BY <1>9 DEF T
  <2>3. Cardinality(W) <= Cardinality(T \cup large)
    BY <2>1, <2>2, FS_Subset
  <2>4. /\ Cardinality(T) \in Nat /\ Cardinality(large) \in Nat
        /\ Cardinality(T \cap large) \in Nat /\ Cardinality(W) \in Nat
    BY <1>10, <1>13, <2>1, FS_CardinalityType DEF T
  <2>5. Cardinality(large) <= Cardinality(T)
    BY <1>10 DEF T
  <2>6. QED BY <2>1, <2>3, <2>4, <2>5
<1>16. Cardinality(W) \in Nat /\ Cardinality(SUBSET D) \in Nat
  BY <1>11, <1>13, FS_CardinalityType
<1>17. Cardinality(W) <= 2 * Terms(n, m)
  BY <1>14, <1>15 DEF T
<1>18. QED BY <1>1, <1>2, <1>11, <1>13, <1>14, <1>16, <1>17 DEF n, m

\* The examples a report counts as valid are of its ids.
LEMMA SuccessIsOfIds == ASSUME NEW report, Reported(report) PROVE report.success \subseteq report.ids
<1>1. PICK corpus \in Corpora : \E style \in [DOMAIN corpus -> Styles] : report = Report(corpus, style)
  BY DEF Reported
<1>2. PICK style \in [DOMAIN corpus -> Styles] : report = Report(corpus, style)
  BY <1>1
<1> DEFINE results == [e \in DOMAIN corpus |-> Scored[corpus][e][style[e]]]
<1>3. report.ids = DOMAIN corpus
  BY <1>2 DEF Report
<1>4. report.success = {e \in DOMAIN corpus : results[e].success}
  BY <1>2 DEF Report
<1> HIDE DEF results
<1>5. QED BY <1>3, <1>4

\* They are finitely many.
LEMMA SuccessIsFinite == ASSUME NEW report, Reported(report) PROVE IsFiniteSet(report.success)
BY SuccessIsOfIds, SaidIsFinite, FS_Subset

\* A share that is no larger than another's part clears what the other clears.
LEMMA SharesClear ==
    ASSUME NEW a \in Nat, NEW t \in Nat, NEW of \in Nat, a <= t, a <= of,
           Smaller(t, of) * Alpha.den <= Alpha.num * of
    PROVE  a * Alpha.den <= Alpha.num * of
<1> DEFINE s == Smaller(t, of)
           d == Alpha.den
           b == Alpha.num * of
<1>1. s \in Nat /\ a <= s
  BY DEF Smaller
<1>2. d \in Nat /\ b \in Int
  BY GateAssumption
<1>3. s * d <= b
  OBVIOUS
<1> HIDE DEF s, d, b
<1>4. a * d <= s * d
  <2> DEFINE e == s - a
  <2>1. e \in Nat /\ s = a + e
    BY <1>1
  <2> HIDE DEF e
  <2>2. s * d = a * d + e * d /\ e * d \in Nat /\ a * d \in Nat
    BY <1>2, <2>1
  <2>3. QED BY <2>2
<1>5. a * d \in Nat /\ s * d \in Nat
  BY <1>1, <1>2
<1>6. a * d <= b
  BY <1>2, <1>3, <1>4, <1>5
<1>7. QED BY <1>6 DEF d, b

\* Members of a slice, and of some slices.
InSlice(report, s) == {e \in report.ids : report.slice[e] = s}
InSlices(report, T) == {e \in report.ids : report.slice[e] \in T}

\* What a slice that has not regressed has won, less what it lost.
LEMMA SliceHolds ==
    ASSUME NEW n \in Nat \ {0}, NEW a \in Nat, NEW b \in Nat,
           ~Regressed(b, n, a, n, Floors.slice)
    PROVE  (a - b) * Floors.slice.den + Floors.slice.num * n >= 0
<1> DEFINE num == Floors.slice.num
           den == Floors.slice.den
           won == (a - b) * den
           may == num * n
<1>1. num \in Nat /\ den \in Nat
  BY GateAssumption
<1>2. ~((a * n - b * n) * den < -(num * n * n))
  BY DEF Regressed
<1>3. a * n - b * n = (a - b) * n
  OBVIOUS
<1>4. ((a - b) * n) * den = won * n /\ won \in Int
  BY <1>1
<1>5. num * n * n = may * n /\ may \in Nat
  BY <1>1
<1> HIDE DEF won, may
<1>6. won * n >= -(may * n)
  BY <1>2, <1>3, <1>4, <1>5
<1>7. (won + may) * n = won * n + may * n
  BY <1>4, <1>5
<1> DEFINE left == won + may
<1>8. left \in Int
  BY <1>4, <1>5
<1> HIDE DEF left
<1>9. left * n >= 0
  BY <1>4, <1>5, <1>6, <1>7 DEF left
<1>10. left >= 0
  BY <1>8, <1>9
<1>11. QED BY <1>10 DEF left, won, may

\* If no slice regressed, all slices together lost no more than each of them may.
LEMMA SlicesAddUp ==
    ASSUME NEW before, NEW after, Reported(before), Reported(after),
           before.ids = after.ids, ~SliceRegressed(before, after)
    PROVE  More(before, after) * Floors.slice.den
              >= -(Floors.slice.num * Cardinality(before.ids))
<1> DEFINE ids == before.ids
           B == before.success
           A == after.success
           num == Floors.slice.num
           den == Floors.slice.den
           all == {before.slice[e] : e \in ids}
           Of(T) == InSlices(before, T)
           won(T) == Cardinality(Of(T) \cap A) - Cardinality(Of(T) \cap B)
           holds(T) == won(T) * den + num * Cardinality(Of(T)) >= 0
           bad == {n \in Nat : \E T \in SUBSET all : Cardinality(T) = n /\ ~holds(T)}
<1>1. num \in Nat /\ den \in Nat
  BY GateAssumption
<1>2. IsFiniteSet(ids) /\ B \subseteq ids /\ A \subseteq ids
  BY SaidIsFinite, SuccessIsOfIds
<1>3. IsFiniteSet(all)
  <2> DEFINE f == [e \in ids |-> before.slice[e]]
  <2>1. IsFiniteSet({f[e] : e \in ids})
    BY <1>2, ImageIsFinite
  <2>2. {f[e] : e \in ids} = all
    OBVIOUS
  <2>3. QED BY <2>1, <2>2
<1>4. ASSUME NEW S, S \subseteq ids
      PROVE  /\ IsFiniteSet(S) /\ IsFiniteSet(S \cap A) /\ IsFiniteSet(S \cap B)
             /\ Cardinality(S) \in Nat /\ Cardinality(S \cap A) \in Nat
             /\ Cardinality(S \cap B) \in Nat
  <2>1. IsFiniteSet(S)
    BY <1>2, <1>4, FS_Subset
  <2>2. IsFiniteSet(S \cap A) /\ IsFiniteSet(S \cap B)
    BY <2>1, FS_Intersection
  <2>3. QED BY <2>1, <2>2, FS_CardinalityType
<1>5. ASSUME NEW s \in all
      PROVE  LET S == InSlice(before, s)
             IN  (Cardinality(S \cap A) - Cardinality(S \cap B)) * den
                    + num * Cardinality(S) >= 0
  <2> DEFINE S == InSlice(before, s)
  <2>1. S \subseteq ids /\ S # {}
    BY DEF InSlice
  <2>2. /\ Cardinality(S) \in Nat \ {0} /\ Cardinality(S \cap A) \in Nat
        /\ Cardinality(S \cap B) \in Nat
    BY <1>4, <2>1, FS_EmptySet
  <2>3. ~Regressed(Cardinality(S \cap B), Cardinality(S), Cardinality(S \cap A),
                   Cardinality(S), Floors.slice)
    BY DEF SliceRegressed, InSlice
  <2> HIDE DEF S
  <2>4. QED BY <2>2, <2>3, SliceHolds DEF S
<1>6. ASSUME NEW T \in SUBSET all, T # {}, ~holds(T)
      PROVE  \E s \in T : ~holds(T \ {s})
  <2>1. PICK s \in T : TRUE
    BY <1>6
  <2> DEFINE S == InSlice(before, s)
             R == Of(T \ {s})
  <2>2. /\ Of(T) = R \cup S /\ R \cap S = {} /\ R \subseteq ids /\ S \subseteq ids
        /\ Of(T) \cap A = (R \cap A) \cup (S \cap A)
        /\ Of(T) \cap B = (R \cap B) \cup (S \cap B)
        /\ (R \cap A) \cap (S \cap A) = {} /\ (R \cap B) \cap (S \cap B) = {}
    BY <2>1 DEF InSlice, InSlices
  <2>3. (Cardinality(S \cap A) - Cardinality(S \cap B)) * den + num * Cardinality(S) >= 0
    BY <1>5
  <2> HIDE DEF S, R, Of
  <2>4. /\ Cardinality(Of(T)) = Cardinality(R) + Cardinality(S)
        /\ Cardinality(Of(T) \cap A) = Cardinality(R \cap A) + Cardinality(S \cap A)
        /\ Cardinality(Of(T) \cap B) = Cardinality(R \cap B) + Cardinality(S \cap B)
    <3>1. ASSUME NEW P, IsFiniteSet(P), NEW Q, IsFiniteSet(Q), P \cap Q = {}
          PROVE  Cardinality(P \cup Q) = Cardinality(P) + Cardinality(Q)
      <4>1. Cardinality(P \cup Q) = Cardinality(P) + Cardinality(Q) - Cardinality(P \cap Q)
        BY <3>1, FS_Union
      <4>2. Cardinality(P \cap Q) = 0
        BY <3>1, FS_EmptySet
      <4>3. Cardinality(P) \in Nat /\ Cardinality(Q) \in Nat
        BY <3>1, FS_CardinalityType
      <4>4. QED BY <4>1, <4>2, <4>3
    <3>2. /\ IsFiniteSet(R) /\ IsFiniteSet(S)
          /\ IsFiniteSet(R \cap A) /\ IsFiniteSet(S \cap A)
          /\ IsFiniteSet(R \cap B) /\ IsFiniteSet(S \cap B)
      BY <1>4, <2>2
    <3>3. Cardinality(Of(T)) = Cardinality(R) + Cardinality(S)
      BY <2>2, <3>1, <3>2
    <3>4. Cardinality(Of(T) \cap A) = Cardinality(R \cap A) + Cardinality(S \cap A)
      BY <2>2, <3>1, <3>2
    <3>5. Cardinality(Of(T) \cap B) = Cardinality(R \cap B) + Cardinality(S \cap B)
      BY <2>2, <3>1, <3>2
    <3>6. QED BY <3>3, <3>4, <3>5
  <2> DEFINE x == Cardinality(R \cap A) - Cardinality(R \cap B)
             y == Cardinality(S \cap A) - Cardinality(S \cap B)
             r == Cardinality(R)
             t == Cardinality(S)
  <2>5. x \in Int /\ y \in Int /\ r \in Nat /\ t \in Nat
    <3>1. /\ Cardinality(R) \in Nat /\ Cardinality(R \cap A) \in Nat
          /\ Cardinality(R \cap B) \in Nat
      BY <1>4, <2>2
    <3>2. /\ Cardinality(S) \in Nat /\ Cardinality(S \cap A) \in Nat
          /\ Cardinality(S \cap B) \in Nat
      BY <1>4, <2>2
    <3>3. QED BY <3>1, <3>2
  <2>6. won(T) = x + y
    <3>1. /\ Cardinality(R \cap A) \in Nat /\ Cardinality(R \cap B) \in Nat
      BY <1>4, <2>2
    <3>2. /\ Cardinality(S \cap A) \in Nat /\ Cardinality(S \cap B) \in Nat
      BY <1>4, <2>2
    <3>3. QED BY <2>4, <3>1, <3>2
  <2>7. ~((x + y) * den + num * (r + t) >= 0)
    BY <1>6, <2>4, <2>6
  <2> HIDE DEF x, y, r, t
  <2>8. (x + y) * den = x * den + y * den /\ num * (r + t) = num * r + num * t
    BY <1>1, <2>5
  <2>9. /\ x * den \in Int /\ y * den \in Int /\ num * r \in Int /\ num * t \in Int
    BY <1>1, <2>5
  <2>10. y * den + num * t >= 0
    BY <2>3 DEF y, t
  <2>11. ~(x * den + num * r >= 0)
    BY <2>7, <2>8, <2>9, <2>10
  <2>12. ~holds(T \ {s})
    BY <2>11 DEF x, r, R
  <2>13. QED BY <2>1, <2>12
<1>7. bad = {}
  <2> SUFFICES ASSUME bad # {} PROVE FALSE
    OBVIOUS
  <2> DEFINE least == Min(bad)
  <2>1. least \in Nat /\ least \in bad /\ \A n \in bad : least <= n
    <3>1. bad \subseteq Nat
      OBVIOUS
    <3> HIDE DEF bad
    <3>2. QED BY <3>1, LeastIs
  <2>2. PICK T \in SUBSET all : Cardinality(T) = least /\ ~holds(T)
    BY <2>1
  <2>3. IsFiniteSet(T)
    BY <1>3, FS_Subset
  <2>4. CASE T = {}
    <3>1. Of(T) = {}
      BY <2>4 DEF InSlices
    <3>2. Cardinality({}) = 0 /\ {} \cap A = {} /\ {} \cap B = {}
      BY FS_EmptySet
    <3>3. won(T) = 0 /\ Cardinality(Of(T)) = 0
      BY <3>1, <3>2
    <3>4. holds(T)
      BY <1>1, <3>3
    <3>5. QED BY <2>2, <3>4
  <2>5. CASE T # {}
    <3>1. PICK s \in T : ~holds(T \ {s})
      BY <1>6, <2>2, <2>5
    <3> HIDE DEF holds, least
    <3>2. Cardinality(T \ {s}) = least - 1 /\ least - 1 \in Nat
      <4>1. Cardinality(T \ {s}) = Cardinality(T) - 1
        BY <2>3, FS_RemoveElement
      <4>2. Cardinality(T \ {s}) \in Nat /\ Cardinality(T) \in Nat
        BY <2>3, FS_RemoveElement, FS_CardinalityType
      <4>3. QED BY <2>2, <4>1, <4>2
    <3>3. T \ {s} \in SUBSET all
      OBVIOUS
    <3>4. least - 1 \in bad
      BY <3>1, <3>2, <3>3
    <3> HIDE DEF bad
    <3>5. least \in Nat /\ least <= least - 1
      BY Zenon, <2>1, <3>4
    <3>6. QED BY <3>5
  <2>6. QED BY <2>4, <2>5
<1>8. holds(all)
  <2>1. Cardinality(all) \in Nat
    BY <1>3, FS_CardinalityType
  <2> HIDE DEF holds
  <2>2. QED BY <1>7, <2>1
<1>9. Of(all) = ids /\ ids \cap A = A /\ ids \cap B = B
  BY <1>2 DEF InSlices
<1>10. won(all) = More(before, after)
  BY <1>9 DEF More
<1>11. /\ More(before, after) * den \in Int /\ num * Cardinality(ids) \in Int
       /\ More(before, after) * den + num * Cardinality(ids) >= 0
  <2>1. More(before, after) \in Int /\ Cardinality(ids) \in Nat
    <3>1. Cardinality(ids) \in Nat /\ Cardinality(A) \in Nat /\ Cardinality(B) \in Nat
      BY <1>2, SuccessIsFinite, FS_CardinalityType
    <3>2. QED BY <3>1 DEF More
  <2>2. QED BY <1>1, <1>8, <1>9, <1>10, <2>1
<1> HIDE DEF ids, num, den
<1>12. More(before, after) * den >= -(num * Cardinality(ids))
  <2> DEFINE u == More(before, after) * den
             w == num * Cardinality(ids)
  <2>1. u \in Int /\ w \in Int /\ u + w >= 0
    BY <1>11
  <2> HIDE DEF u, w
  <2>2. u >= -w
    BY <2>1
  <2> USE DEF u, w
  <2>3. QED BY <2>2
<1>13. QED BY <1>12 DEF ids, num, den

\* Every promotion is earned.
LEMMA PromotedIsEarned == GateInv => PromotionIsEarned
<1> DEFINE before == reports["baseline"]
           after == reports["candidate"]
           share == AsLopsided(before, after)
<1> SUFFICES ASSUME GateInv, decision.outcome = "promote"
             PROVE  /\ before.ids = after.ids /\ after.success \ before.success # {}
                    /\ share.as * Alpha.den <= Alpha.num * share.of
                    /\ More(before, after) * Floors.slice.den
                          >= -(Floors.slice.num * Cardinality(before.ids))
                    /\ decision.grounded => More(before, after) > 0
  BY Zenon DEF PromotionIsEarned
<1>1. DecidedOn(before, after)
  BY DEF GateInv
<1> HIDE DEF before, after
<1>2. Reported(before) /\ Reported(after) /\ before.ids = after.ids
  BY <1>1 DEF DecidedOn, SameCorpus, SamePairs
<1>3. PICK low \in Ends(before, after) : decision = Result(before, after, low)
  BY <1>1 DEF DecidedOn
<1> DEFINE l == Lost(before, after)
           g == Gained(before, after)
           n == Cardinality(after.ids)
           m == Smaller(l, g)
<1>4. /\ Decide(before, after, low) = "promote"
      /\ decision.grounded = (low <= 2 * (g - l))
  BY <1>3 DEF Result
<1>5. /\ ~SliceRegressed(before, after) /\ Clears(low, n, NoMargin)
      /\ McNemarClears(l, g)
  BY <1>4, PromotedClears
<1>6. IsFiniteSet(before.success) /\ IsFiniteSet(after.success) /\ IsFiniteSet(after.ids)
  BY <1>2, SuccessIsFinite, SaidIsFinite
<1>7. l \in Nat /\ g \in Nat /\ n \in Nat
      /\ (g > l => More(before, after) > 0)
  <2>1. Cardinality(before.success) \in Nat /\ Cardinality(after.success) \in Nat
    BY <1>6, FS_CardinalityType
  <2>2. l \in Nat /\ g \in Nat
    BY <1>6, MoreGained DEF Lost, Gained
  <2>3. n \in Nat
    BY <1>6, FS_CardinalityType
  <2>4. g > l => Cardinality(after.success) > Cardinality(before.success)
    BY <1>6, MoreGained DEF Lost, Gained
  <2>5. QED BY <2>1, <2>2, <2>3, <2>4 DEF More
<1>8. low \in Int /\ (low > 0 => after.success \ before.success # {})
  BY <1>2, <1>6, EndsNeedChanges
<1>9. low > 0
  <2>1. low * 1 > -(0 * 2 * n)
    BY <1>5 DEF Clears, NoMargin
  <2>2. 0 * 2 * n = 0
    BY <1>7
  <2>3. QED BY <1>8, <2>1, <2>2
<1>10. decision.grounded => More(before, after) > 0
  <2> SUFFICES ASSUME decision.grounded PROVE More(before, after) > 0
    OBVIOUS
  <2>1. low <= 2 * (g - l)
    BY Zenon, <1>4
  <2> HIDE DEF l, g
  <2>2. g > l
    BY <1>7, <1>8, <1>9, <2>1
  <2>3. QED BY <1>7, <2>2
<1>11. More(before, after) * Floors.slice.den
          >= -(Floors.slice.num * Cardinality(before.ids))
  BY <1>2, <1>5, SlicesAddUp
<1>12. /\ share.of = 2 ^ (l + g) /\ share.of \in Nat /\ share.as \in Nat
       /\ share.as <= share.of
       /\ Terms(l + g, m) \in Nat /\ share.as <= 2 * Terms(l + g, m)
  BY <1>6, TailIsExact
<1> DEFINE twice == 2 * Terms(l + g, m)
<1>13. Smaller(twice, 2 ^ (l + g)) * Alpha.den <= Alpha.num * 2 ^ (l + g)
  <2> HIDE DEF l, g
  <2>1. QED BY <1>5 DEF McNemarClears
<1>14. twice \in Nat
  BY <1>12
<1> DEFINE a == share.as
           of == share.of
<1>15. a \in Nat /\ of \in Nat /\ a <= of /\ a <= twice
       /\ Smaller(twice, of) * Alpha.den <= Alpha.num * of
  BY <1>12, <1>13
<1> HIDE DEF a, of, twice
<1>16. a * Alpha.den <= Alpha.num * of
  BY <1>14, <1>15, SharesClear
<1>17. QED BY <1>2, <1>8, <1>9, <1>10, <1>11, <1>16 DEF a, of

\* compare.py promotes no candidate, wherever the bootstrap put the interval, that won no
\* example, whose change is less lopsided than alpha asks by the exact p-value, or that
\* lost more of all examples than a slice may lose; and none that does not answer more of
\* them validly, if the interval begins no higher than the difference that was observed.
THEOREM PromotionsAreEarned == GateSpec => []PromotionIsEarned
<1>1. GateInv => PromotionIsEarned
  BY PromotedIsEarned
<1>2. QED BY <1>1, GateInvariance, PTL
=============================================================================
