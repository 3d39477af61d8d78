---------------------------- MODULE EngineProofs ----------------------------
(***************************************************************************)
(* Theorems about Engine: batching is invisible, a seeded request draws    *)
(* from its own generator only, and the reasons returned are true, for any *)
(* batch, any lengths, any context and any choice of end tokens.           *)
(***************************************************************************)
EXTENDS Engine, FiniteSetTheorems, SequenceTheorems, WellFoundedInduction, TLAPS

Written == [row : Nat, at : Nat, eos : BOOLEAN]
Drawn == [gen : Nat, nth : Nat]
Held == [tok : Written, pos : Nat]

-----------------------------------------------------------------------------
(* The invariant of the decoding loop.                                     *)

TypesHold ==
    /\ requests \in Seq(Kinds) /\ requests # <<>>
    /\ pc \in {"prefill", "decode", "done", "raised"}
    /\ active \in Seq(Rows)
    /\ generated \in [Rows -> Seq(Written)]
    /\ finish \in [Rows -> {"none", "stop", "length"}]
    /\ draws \in [Rows -> Seq(Drawn)]
    /\ used \in [{0} \cup Rows -> Nat]
    /\ turn \in Nat

\* No request is in the batch twice, and only finished ones have left it.
BatchIsUnfinished ==
    /\ \A j, k \in DOMAIN active : active[j] = active[k] => j = k
    /\ pc # "done" => \A i \in Rows :
                         finish[i] = "none" <=> \E j \in DOMAIN active : active[j] = i

\* Nothing is written before the first turn, and nobody misses one.
TurnsAreTaken ==
    /\ pc = "prefill" => /\ turn = 0 /\ active = [i \in Rows |-> i]
                         /\ \A i \in Rows : generated[i] = <<>>
    /\ pc = "decode" => \A i \in Rows : Fits(i)
    /\ pc # "done" => \A i \in Rows : finish[i] = "none" =>
          /\ Len(generated[i]) = turn
          /\ turn < requests[i].max

\* A row stops with its first end token or at its length.
StopsAreTrue(i) ==
    /\ finish[i] = "none" /\ requests[i].stopOnEos =>
          \A n \in DOMAIN generated[i] : ~generated[i][n].eos
    /\ finish[i] # "none" =>
          /\ Fits(i)
          /\ Len(generated[i]) \in 1..requests[i].max
          /\ finish[i] = "stop" <=> /\ requests[i].stopOnEos
                                    /\ generated[i][Len(generated[i])].eos
          /\ finish[i] = "length" => Len(generated[i]) = requests[i].max
          /\ requests[i].stopOnEos =>
                \A n \in DOMAIN generated[i] :
                    n # Len(generated[i]) => ~generated[i][n].eos

\* The n-th token of a request's own text, of which g has been written.
OwnToken(i, g, n) == IF n <= PromptLen(i) THEN Token(i, n, FALSE) ELSE g[n - PromptLen(i)]

\* What the batch holds for a request of which g has been written: padding,
\* prompt and completion, with a mask that hides the padding.
HeldRow(i, g) ==
    [n \in 1..(Width + Len(g)) |->
        [tok |-> IF n <= Padding(i) THEN Pad ELSE OwnToken(i, g, n - Padding(i)),
         pos |-> Position(i, n)]]
HeldMask(i, g) == [n \in 1..(Width + Len(g)) |-> IF n <= Padding(i) THEN 0 ELSE 1]

\* Alone, for what will have been written.
AloneWith(i, g) == [n \in 1..(PromptLen(i) + Len(g)) |-> [tok |-> OwnToken(i, g, n), pos |-> n - 1]]

\* The batch's j-th row holds that of its request and nothing else.
RowIsOwn(j) ==
    \A i \in {active[j]} : \A g \in {generated[i]} :
        /\ cache[j] = HeldRow(i, g)
        /\ attn[j] = HeldMask(i, g)
        /\ pos[j] = PromptLen(i) + Len(g) - 1
        /\ logits[j] = AloneWith(i, g)

\* A seeded request's draws are those of its generator, in order.
DrawsAreOwn(i) ==
    Seeded(i) /\ Random(i) =>
        /\ Len(draws[i]) = Len(generated[i]) /\ used[i] = Len(generated[i])
        /\ \A n \in DOMAIN draws[i] : draws[i][n] = [gen |-> i, nth |-> n]

EInv == /\ TypesHold
        /\ BatchIsUnfinished
        /\ TurnsAreTaken
        /\ \A i \in Rows : StopsAreTrue(i)
        /\ \A i \in Rows : DrawsAreOwn(i)
        /\ pc = "decode" => \A j \in DOMAIN active : RowIsOwn(j)
        /\ pc = "done" => \A i \in Rows : finish[i] # "none"

-----------------------------------------------------------------------------
(* Extrema.                                                                *)

\* A bounded set of numbers that is not empty has a largest member.
LEMMA MaxIsThere ==
    ASSUME NEW S \in SUBSET Nat, S # {}, NEW k \in Nat, \A n \in S : n <= k
    PROVE  Max(S) \in S /\ \A n \in S : Max(S) >= n
<1> DEFINE gaps == {k - n : n \in S}
<1>1. gaps \subseteq Nat /\ gaps # {}
  <2>1. \A n \in S : n \in Nat /\ n <= k
    OBVIOUS
  <2>2. \A n \in S : k - n \in Nat
    BY <2>1
  <2>3. QED BY <2>2
<1> HIDE DEF gaps
<1>2. PICK d \in gaps : \A e \in gaps : <<e, d>> \notin OpToRel(<, Nat)
  BY <1>1, NatLessThanWellFounded, WFMin
<1>3. \A e \in gaps : ~(e < d)
  BY <1>1, <1>2 DEF OpToRel
<1>4. PICK x \in S : d = k - x
  BY <1>2 DEF gaps
<1>5. ASSUME NEW n \in S PROVE x >= n
  <2>1. k - n \in gaps
    BY DEF gaps
  <2>2. QED BY <1>3, <1>4, <2>1
<1>6. QED BY <1>4, <1>5 DEF Max

\* The smaller of two numbers.
LEMMA MinOfTwo ==
    ASSUME NEW a \in Nat, NEW b \in Nat
    PROVE  Min({a, b}) = IF a <= b THEN a ELSE b
<1>1. CASE a <= b
  BY <1>1 DEF Min
<1>2. CASE ~(a <= b)
  BY <1>2 DEF Min
<1>3. QED BY <1>1, <1>2

-----------------------------------------------------------------------------
(* Places in ascending order.                                              *)

\* The rank grows by one at each member and nowhere else.
LEMMA RankGrows ==
    ASSUME NEW k \in Nat, NEW S \in SUBSET (1..k)
    PROVE  /\ IsFiniteSet(S) /\ Cardinality(S) \in Nat
           /\ Rank(S, 0) = 0
           /\ Rank(S, k) = Cardinality(S)
           /\ \A n \in Nat : Rank(S, n) \in Nat
           /\ \A n \in Nat : Rank(S, n + 1) = IF n + 1 \in S THEN Rank(S, n) + 1 ELSE Rank(S, n)
<1> DEFINE upTo(n) == {m \in S : m <= n}
<1>0. \A m \in S : m \in Nat /\ 1 <= m /\ m <= k
  OBVIOUS
<1>1. IsFiniteSet(S)
  <2>1. IsFiniteSet(1..k)
    BY FS_Interval
  <2>2. QED BY <2>1, FS_Subset
<1>2. \A n : IsFiniteSet(upTo(n)) /\ Cardinality(upTo(n)) \in Nat
  BY <1>1, FS_Subset, FS_CardinalityType
<1>3. upTo(0) = {}
  <2>1. \A m \in S : ~(m <= 0)
    BY <1>0
  <2>2. QED BY <2>1
<1>4. upTo(k) = S
  BY <1>0
<1>5. ASSUME NEW n \in Nat
      PROVE  Rank(S, n + 1) = IF n + 1 \in S THEN Rank(S, n) + 1 ELSE Rank(S, n)
  <2>1. CASE n + 1 \in S
    <3>1. upTo(n + 1) = upTo(n) \cup {n + 1} /\ n + 1 \notin upTo(n)
      <4>1. \A m \in S : m <= n + 1 <=> m <= n \/ m = n + 1
        BY <1>0
      <4>2. ~(n + 1 <= n)
        OBVIOUS
      <4>3. QED BY <2>1, <4>1, <4>2
    <3> HIDE DEF upTo
    <3>2. Cardinality(upTo(n + 1)) = Cardinality(upTo(n)) + 1
      BY <1>2, <3>1, FS_AddElement
    <3>3. QED BY <2>1, <3>2 DEF Rank, upTo
  <2>2. CASE n + 1 \notin S
    <3>1. upTo(n + 1) = upTo(n)
      <4>1. \A m \in S : m <= n + 1 <=> m <= n
        BY <1>0, <2>2
      <4>2. QED BY <4>1
    <3>2. QED BY <2>2, <3>1 DEF Rank
  <2>3. QED BY <2>1, <2>2
<1>6. QED BY <1>1, <1>2, <1>3, <1>4, <1>5, FS_EmptySet, FS_CardinalityType DEF Rank

\* A member's rank is larger than that of every member below it.
LEMMA RankOrders ==
    ASSUME NEW k \in Nat, NEW S \in SUBSET (1..k)
    PROVE  /\ \A p \in S : Rank(S, p) \in 1..Cardinality(S)
           /\ \A p, q \in S : Rank(S, p) = Rank(S, q) => p = q
<1> DEFINE upTo(n) == {m \in S : m <= n}
<1>1. IsFiniteSet(S)
  BY RankGrows
<1>2. \A n : IsFiniteSet(upTo(n)) /\ Cardinality(upTo(n)) \in Nat
             /\ Cardinality(upTo(n)) <= Cardinality(S)
  BY <1>1, FS_Subset, FS_CardinalityType
<1>3. ASSUME NEW p \in S PROVE Rank(S, p) \in 1..Cardinality(S)
  <2>1. p \in upTo(p)
    OBVIOUS
  <2> HIDE DEF upTo
  <2>2. Cardinality(upTo(p)) # 0
    BY <1>2, <2>1, FS_EmptySet
  <2>3. QED BY <1>1, <1>2, <2>2, FS_CardinalityType DEF Rank, upTo
<1>4. ASSUME NEW p \in S, NEW q \in S, p < q PROVE Rank(S, p) # Rank(S, q)
  <2>1. \A m \in S : m \in Nat
    OBVIOUS
  <2>2. upTo(p) \subseteq upTo(q) /\ q \in upTo(q) /\ q \notin upTo(p)
    <3>1. (\A m \in S : m <= p => m <= q) /\ q <= q /\ ~(q <= p)
      BY <1>4, <2>1
    <3>2. QED BY <3>1
  <2> HIDE DEF upTo
  <2>3. Cardinality(upTo(p)) # Cardinality(upTo(q))
    BY <1>2, <2>2, FS_Subset
  <2>4. QED BY <2>3 DEF Rank, upTo
<1>5. ASSUME NEW p \in S, NEW q \in S, Rank(S, p) = Rank(S, q) PROVE p = q
  <2>1. p \in Nat /\ q \in Nat
    OBVIOUS
  <2>2. QED BY <1>4, <1>5, <2>1
<1>6. QED BY <1>3, <1>5

\* Ascending lists the members of a set, each once.
LEMMA AscendingLists ==
    ASSUME NEW k \in Nat, NEW S \in SUBSET (1..k)
    PROVE  /\ Cardinality(S) \in Nat
           /\ Ascending(S) \in [1..Cardinality(S) -> S]
           /\ \A m, n \in 1..Cardinality(S) : Ascending(S)[m] = Ascending(S)[n] => m = n
           /\ \A p \in S : \E m \in 1..Cardinality(S) : Ascending(S)[m] = p
<1>1. Cardinality(S) \in Nat
  BY RankGrows
<1>2. ASSUME NEW m \in 1..Cardinality(S) PROVE \E n \in S : Rank(S, n) = m
  <2> DEFINE reached == {n \in Nat : Rank(S, n) >= m}
  <2>1. k \in reached
    BY <1>1, RankGrows
  <2>2. reached \subseteq Nat /\ reached # {}
    BY <2>1
  <2> HIDE DEF reached
  <2>3. PICK n \in reached : \A o \in reached : <<o, n>> \notin OpToRel(<, Nat)
    BY <2>2, NatLessThanWellFounded, WFMin
  <2>4. \A o \in reached : ~(o < n)
    BY <2>2, <2>3 DEF OpToRel
  <2>5. n \in Nat /\ Rank(S, n) >= m
    BY <2>3 DEF reached
  <2>6. n # 0
    <3>1. Rank(S, 0) = 0
      BY RankGrows
    <3>2. QED BY <1>1, <2>5, <3>1
  <2>7. n - 1 \in Nat /\ (n - 1) + 1 = n
    BY <2>5, <2>6
  <2>8. n - 1 \notin reached
    BY <2>4, <2>5, <2>7
  <2>9. ~(Rank(S, n - 1) >= m)
    BY <2>7, <2>8 DEF reached
  <2>10. Rank(S, n) = IF n \in S THEN Rank(S, n - 1) + 1 ELSE Rank(S, n - 1)
    BY <2>7, RankGrows
  <2>11. Rank(S, n) \in Nat /\ Rank(S, n - 1) \in Nat
    BY <2>5, <2>7, RankGrows
  <2>12. QED BY <1>1, <2>5, <2>9, <2>10, <2>11
<1>3. \A m \in 1..Cardinality(S) : Ascending(S)[m] \in S /\ Rank(S, Ascending(S)[m]) = m
  BY <1>2 DEF Ascending
<1>4. Ascending(S) \in [1..Cardinality(S) -> S]
  BY <1>3 DEF Ascending
<1>5. ASSUME NEW p \in S PROVE \E m \in 1..Cardinality(S) : Ascending(S)[m] = p
  <2>1. Rank(S, p) \in 1..Cardinality(S)
    BY RankOrders
  <2>2. /\ Ascending(S)[Rank(S, p)] \in S
        /\ Rank(S, Ascending(S)[Rank(S, p)]) = Rank(S, p)
    BY <1>3, <2>1
  <2>3. \A q \in S : Rank(S, q) = Rank(S, p) => q = p
    BY RankOrders
  <2>4. QED BY <2>1, <2>2, <2>3
<1>6. \A m, n \in 1..Cardinality(S) : Ascending(S)[m] = Ascending(S)[n] => m = n
  BY <1>3
<1>7. QED BY <1>1, <1>4, <1>5, <1>6

\* A stretch of places without gaps is listed from its first on.
LEMMA AscendingStretch ==
    ASSUME NEW p \in Nat, NEW w \in Nat, p <= w
    PROVE  Ascending((p + 1)..w) = [m \in 1..(w - p) |-> p + m]
<1> DEFINE S == (p + 1)..w
<1>1. S \in SUBSET (1..w)
  OBVIOUS
<1>2. Cardinality(S) = w - p
  <2>1. Cardinality((p + 1)..w) = IF p + 1 > w THEN 0 ELSE w - (p + 1) + 1
    BY FS_Interval
  <2>2. QED BY <2>1
<1>3. ASSUME NEW n \in S PROVE Rank(S, n) = n - p
  <2>1. {m \in S : m <= n} = (p + 1)..n
    OBVIOUS
  <2>2. Cardinality((p + 1)..n) = n - p
    BY FS_Interval
  <2>3. QED BY <2>1, <2>2 DEF Rank
<1>4. ASSUME NEW m \in 1..(w - p)
      PROVE  (CHOOSE n \in S : Rank(S, n) = m) = p + m
  <2>1. p + m \in S /\ \A n \in S : n - p = m <=> n = p + m
    OBVIOUS
  <2> HIDE DEF S
  <2>2. \A n \in S : Rank(S, n) = m <=> n = p + m
    BY <1>3, <2>1
  <2>3. QED BY <2>1, <2>2
<1>5. Ascending(S) = [m \in 1..(w - p) |-> CHOOSE n \in S : Rank(S, n) = m]
  BY <1>2 DEF Ascending
<1>6. QED BY <1>4, <1>5

-----------------------------------------------------------------------------
(* What a batch asks for.                                                  *)

BatchHolds == requests \in Seq(Kinds) /\ requests # <<>>

\* Every request has a prompt and asks for tokens.
LEMMA AskedFor ==
    ASSUME BatchHolds
    PROVE  /\ Len(requests) \in Nat \ {0} /\ Rows = 1..Len(requests)
           /\ \A i \in Rows : /\ requests[i].max \in Nat \ {0}
                              /\ PromptLen(i) \in 1..(MaxContext - 1)
<1>1. Len(requests) \in Nat \ {0} /\ Rows = 1..Len(requests)
  <2>1. Len(requests) \in Nat /\ DOMAIN requests = 1..Len(requests)
    BY DEF BatchHolds
  <2>2. Len(requests) # 0
    BY DEF BatchHolds
  <2>3. QED BY <2>1, <2>2 DEF Rows
<1>2. ASSUME NEW i \in Rows
      PROVE  requests[i].max \in Nat \ {0} /\ PromptLen(i) \in 1..(MaxContext - 1)
  <2>1. requests[i] \in Kinds
    BY <1>1 DEF BatchHolds
  <2>2. requests[i].max \in Nat \ {0} /\ requests[i].words \in Nat \ {0}
    BY <2>1, KindsAssumption
  <2>3. MaxContext - 1 \in Nat \ {0}
    BY ContextAssumption
  <2>4. PromptLen(i) = IF requests[i].words <= MaxContext - 1
                       THEN requests[i].words ELSE MaxContext - 1
    BY <2>2, <2>3, MinOfTwo DEF PromptLen
  <2>5. QED BY <2>2, <2>3, <2>4, ContextAssumption
<1>3. QED BY <1>1, <1>2

\* Every prompt fits the width, padded from the left.
LEMMA WidthHolds ==
    ASSUME BatchHolds
    PROVE  /\ Width \in Nat
           /\ \A i \in Rows : /\ Padding(i) \in Nat
                              /\ Width = Padding(i) + PromptLen(i)
<1> DEFINE lengths == {PromptLen(i) : i \in Rows}
<1>1. lengths \subseteq Nat /\ lengths # {} /\ \A n \in lengths : n <= MaxContext - 1
  <2>1. 1 \in Rows
    BY AskedFor
  <2>2. \A i \in Rows : PromptLen(i) \in Nat /\ PromptLen(i) <= MaxContext - 1
    BY AskedFor, ContextAssumption
  <2>3. QED BY <2>1, <2>2
<1>2. Range([i \in Rows |-> PromptLen(i)]) = lengths
  BY DEF Range
<1> HIDE DEF lengths
<1>3. Max(lengths) \in lengths /\ \A n \in lengths : Max(lengths) >= n
  <2>1. MaxContext - 1 \in Nat
    BY ContextAssumption
  <2>2. QED BY <1>1, <2>1, MaxIsThere
<1>4. Width = Max(lengths)
  BY <1>2 DEF Width, Largest
<1>5. \A i \in Rows : PromptLen(i) \in Nat /\ PromptLen(i) \in lengths
  BY AskedFor DEF lengths
<1>6. Width \in Nat /\ \A i \in Rows : Width >= PromptLen(i)
  BY <1>1, <1>3, <1>4, <1>5
<1>7. QED BY <1>5, <1>6 DEF Padding

\* The loop's bound is no less than what any request of a batch that fits asks for.
LEMMA LongestIsBound ==
    ASSUME BatchHolds, \A i \in Rows : Fits(i)
    PROVE  LET longest == Largest([i \in Rows |-> requests[i].max])
           IN  longest \in Nat /\ \A i \in Rows : requests[i].max <= longest
<1> DEFINE lengths == {requests[i].max : i \in Rows}
<1>1. lengths \subseteq Nat /\ lengths # {} /\ \A n \in lengths : n <= MaxContext
  <2>1. 1 \in Rows
    BY AskedFor
  <2>2. ASSUME NEW i \in Rows PROVE requests[i].max \in Nat /\ requests[i].max <= MaxContext
    BY AskedFor, ContextAssumption DEF Fits
  <2>3. QED BY <2>1, <2>2
<1>2. Range([i \in Rows |-> requests[i].max]) = lengths
  BY DEF Range
<1> HIDE DEF lengths
<1>3. Max(lengths) \in lengths /\ \A n \in lengths : Max(lengths) >= n
  BY <1>1, ContextAssumption, MaxIsThere
<1>4. \A i \in Rows : requests[i].max \in Nat /\ requests[i].max \in lengths
  BY AskedFor DEF lengths
<1>5. QED BY <1>1, <1>2, <1>3, <1>4 DEF Largest

-----------------------------------------------------------------------------
(* Rows.                                                                   *)

\* Appending to a sequence puts one value behind it.
LEMMA AppendIs ==
    ASSUME NEW T, NEW s \in Seq(T), NEW e \in T
    PROVE  /\ Append(s, e) \in Seq(T) /\ Len(Append(s, e)) = Len(s) + 1
           /\ Append(s, e) = [n \in 1..(Len(s) + 1) |-> IF n = Len(s) + 1 THEN e ELSE s[n]]
<1>1. Append(s, e) \in Seq(T) /\ Len(Append(s, e)) = Len(s) + 1
  OBVIOUS
<1>2. Append(s, e) = [n \in 1..(Len(s) + 1) |-> Append(s, e)[n]]
  <2>1. Append(s, e) \in [1..Len(Append(s, e)) -> T]
    BY <1>1, LenProperties
  <2>2. QED BY <1>1, <2>1
<1>3. \A n \in 1..(Len(s) + 1) : Append(s, e)[n] = IF n = Len(s) + 1 THEN e ELSE s[n]
  OBVIOUS
<1>4. QED BY <1>1, <1>2, <1>3

\* Joining two sequences puts the second behind the first.
LEMMA ConcatIs ==
    ASSUME NEW T, NEW s \in Seq(T), NEW r \in Seq(T)
    PROVE  s \o r = [n \in 1..(Len(s) + Len(r)) |-> IF n <= Len(s) THEN s[n] ELSE r[n - Len(s)]]
<1>1. s \o r \in Seq(T) /\ Len(s \o r) = Len(s) + Len(r)
  OBVIOUS
<1>2. s \o r = [n \in 1..(Len(s) + Len(r)) |-> (s \o r)[n]]
  <2>1. s \o r \in [1..Len(s \o r) -> T]
    BY <1>1, LenProperties
  <2>2. QED BY <1>1, <2>1
<1>3. \A n \in 1..(Len(s) + Len(r)) : (s \o r)[n] = IF n <= Len(s) THEN s[n] ELSE r[n - Len(s)]
  OBVIOUS
<1>4. QED BY <1>2, <1>3

\* What a request sees alone, place by place.
LEMMA AloneIs ==
    ASSUME BatchHolds, NEW i \in Rows, generated[i] \in Seq(Written)
    PROVE  Alone(i) = AloneWith(i, generated[i])
<1> DEFINE g == generated[i]
           p == PromptLen(i)
<1>1. p \in Nat /\ Len(g) \in Nat /\ DOMAIN g = 1..Len(g)
  BY AskedFor
<1>2. \A n \in 1..p : Token(i, n, FALSE) \in Written
  BY AskedFor, <1>1 DEF Token, Written
<1>3. Prompt(i) \in Seq(Written) /\ Len(Prompt(i)) = p
  <2>1. Prompt(i) \in [1..p -> Written]
    BY <1>2 DEF Prompt
  <2> HIDE DEF p
  <2>2. QED BY <1>1, <2>1
<1>4. Prompt(i) \o g = [n \in 1..(p + Len(g)) |-> OwnToken(i, g, n)]
  <2>1. \A n \in 1..p : Prompt(i)[n] = Token(i, n, FALSE)
    BY DEF Prompt
  <2> HIDE DEF p, g
  <2>2. g \in Seq(Written)
    BY DEF g
  <2>3. Prompt(i) \o g =
          [n \in 1..(p + Len(g)) |-> IF n <= p THEN Prompt(i)[n] ELSE g[n - p]]
    <3>1. Prompt(i) \o g = [n \in 1..(Len(Prompt(i)) + Len(g)) |->
            IF n <= Len(Prompt(i)) THEN Prompt(i)[n] ELSE g[n - Len(Prompt(i))]]
      BY <1>3, <2>2, ConcatIs
    <3>2. QED BY <1>3, <3>1
  <2>4. ASSUME NEW n \in 1..(p + Len(g))
        PROVE  (IF n <= p THEN Prompt(i)[n] ELSE g[n - p]) = OwnToken(i, g, n)
    <3>1. CASE n <= p
      <4>1. n \in 1..p
        BY <1>1, <3>1
      <4>2. QED BY <2>1, <3>1, <4>1 DEF OwnToken, p
    <3>2. CASE ~(n <= p)
      BY <3>2 DEF OwnToken, p
    <3>3. QED BY <3>1, <3>2
  <2>5. QED BY <2>3, <2>4
<1>5. DOMAIN (Prompt(i) \o g) = 1..(p + Len(g))
  BY <1>4
<1>6. QED BY <1>4, <1>5 DEF Alone, AloneWith

\* Under its mask a row shows its own text at its own positions.
LEMMA RowShowsItself ==
    ASSUME BatchHolds, NEW i \in Rows, NEW g \in Seq(Written)
    PROVE  Visible(HeldRow(i, g), HeldMask(i, g)) = AloneWith(i, g)
<1> DEFINE w == Width + Len(g)
           p == Padding(i)
           own == PromptLen(i) + Len(g)
<1>1. w \in Nat /\ p \in Nat /\ own \in Nat /\ w = p + own /\ p <= w /\ w - p = own
  BY AskedFor, WidthHolds
<1>2. {n \in DOMAIN HeldMask(i, g) : HeldMask(i, g)[n] = 1} = (p + 1)..w
  <2>1. DOMAIN HeldMask(i, g) = 1..w
    BY DEF HeldMask
  <2>2. \A n \in 1..w : HeldMask(i, g)[n] = IF n <= p THEN 0 ELSE 1
    BY DEF HeldMask
  <2> HIDE DEF w, p
  <2>3. QED BY <1>1, <2>1, <2>2
<1>3. Ascending((p + 1)..w) = [m \in 1..own |-> p + m]
  <2> HIDE DEF w, p, own
  <2>1. QED BY <1>1, AscendingStretch
<1>4. ASSUME NEW m \in 1..own
      PROVE  HeldRow(i, g)[p + m] = [tok |-> OwnToken(i, g, m), pos |-> m - 1]
  <2>1. p + m \in 1..w /\ ~(p + m <= p) /\ p + m - p = m /\ p + m - p - 1 = m - 1
    <3> HIDE DEF w, p, own
    <3>1. QED BY <1>1
  <2>2. HeldRow(i, g)[p + m] = [tok |-> OwnToken(i, g, p + m - p), pos |-> p + m - p - 1]
    BY <1>1, <2>1 DEF HeldRow, Position
  <2>3. QED BY <2>1, <2>2
<1>5. Selected([m \in 1..own |-> p + m], HeldRow(i, g))
        = [m \in 1..own |-> [tok |-> OwnToken(i, g, m), pos |-> m - 1]]
  <2> HIDE DEF w, p, own
  <2>1. QED BY <1>4 DEF Selected
<1>6. QED BY <1>2, <1>3, <1>5 DEF Visible, AloneWith

\* A row grows by the token written for it, at the next position.
LEMMA RowGrows ==
    ASSUME BatchHolds, NEW i \in Rows, NEW g \in Seq(Written), NEW tok \in Written
    PROVE  /\ HeldRow(i, Append(g, tok)) =
                Append(HeldRow(i, g), [tok |-> tok, pos |-> PromptLen(i) + Len(g)])
           /\ HeldMask(i, Append(g, tok)) = Append(HeldMask(i, g), 1)
<1> DEFINE w == Width + Len(g)
           p == Padding(i)
           q == PromptLen(i)
           more == Append(g, tok)
           last == [tok |-> tok, pos |-> q + Len(g)]
<1>1. w \in Nat /\ p \in Nat /\ q \in Nat /\ Len(g) \in Nat /\ w = p + q + Len(g)
  BY AskedFor, WidthHolds
<1>2. /\ Len(more) = Len(g) + 1 /\ more[Len(g) + 1] = tok
      /\ \A n \in 1..Len(g) : more[n] = g[n]
  BY AppendIs
<1>3. Width + Len(more) = w + 1
  BY <1>2, WidthHolds
<1>4. \A n \in 1..(w - p) : OwnToken(i, more, n) = OwnToken(i, g, n)
  <2> HIDE DEF more, w, p
  <2>1. \A n \in 1..(w - p) : n <= q \/ n - q \in 1..Len(g)
    BY <1>1
  <2>2. QED BY <1>2, <2>1 DEF OwnToken
<1>5. OwnToken(i, more, w + 1 - p) = tok
  <2> HIDE DEF more, w, p
  <2> HIDE DEF q
  <2>1. ~(w + 1 - p <= q) /\ w + 1 - p - q = Len(g) + 1
    BY <1>1
  <2>2. QED BY <1>1, <1>2, <2>1 DEF OwnToken, q
<1>6. \A n \in 1..w : OwnToken(i, g, n) \in Written \/ n > q + Len(g)
  <2>1. i \in Nat /\ \A n \in Nat : Token(i, n, FALSE) \in Written
    BY AskedFor DEF Token, Written
  <2>2. \A n \in 1..Len(g) : g[n] \in Written
    OBVIOUS
  <2> HIDE DEF w, p, q
  <2>3. \A n \in 1..w : n \in Nat /\ (n <= q \/ n - q \in 1..Len(g) \/ n > q + Len(g))
    BY <1>1
  <2>4. QED BY <2>1, <2>2, <2>3 DEF OwnToken, q
<1>7. HeldRow(i, g) \in Seq(Held) /\ Len(HeldRow(i, g)) = w /\ last \in Held
  <2>1. \A n \in 1..w : ~(n <= p) => n - p \in 1..w /\ ~(n - p > q + Len(g)) /\ n - p - 1 \in Nat
    <3> HIDE DEF w, p
    <3>1. QED BY <1>1
  <2>2. Pad \in Written
    BY DEF Pad, Token, Written
  <2>3. \A n \in 1..w : HeldRow(i, g)[n] \in Held
    BY <1>6, <2>1, <2>2 DEF HeldRow, Held, Position
  <2>4. HeldRow(i, g) = [n \in 1..w |-> HeldRow(i, g)[n]]
    BY DEF HeldRow
  <2>5. last \in Held
    BY <1>1 DEF Held
  <2> HIDE DEF w, last
  <2>6. QED BY <1>1, <2>3, <2>4, <2>5
<1>8. Append(HeldRow(i, g), last) =
        [n \in 1..(w + 1) |-> IF n = w + 1 THEN last ELSE HeldRow(i, g)[n]]
  <2> HIDE DEF w, last
  <2>1. QED BY <1>7, AppendIs
<1>9. \A n \in 1..(w + 1) : HeldRow(i, more)[n] = IF n = w + 1 THEN last ELSE HeldRow(i, g)[n]
  <2>1. ASSUME NEW n \in 1..w PROVE HeldRow(i, more)[n] = HeldRow(i, g)[n]
    <3>1. n <= p \/ n - p \in 1..(w - p)
      <4> HIDE DEF w, p
      <4>1. QED BY <1>1
    <3>2. n \in 1..(w + 1)
      <4> HIDE DEF w, p
      <4>1. QED BY <1>1
    <3> HIDE DEF more
    <3>3. QED BY <1>3, <1>4, <3>1, <3>2 DEF HeldRow
  <2>2. HeldRow(i, more)[w + 1] = last
    <3>1. w + 1 \in 1..(w + 1) /\ ~(w + 1 <= p) /\ w + 1 - p - 1 = q + Len(g)
      <4> HIDE DEF w, p, q
      <4>1. QED BY <1>1
    <3> HIDE DEF more
    <3>2. QED BY <1>1, <1>3, <1>5, <3>1 DEF HeldRow, Position
  <2>3. \A n \in 1..(w + 1) : n \in 1..w \/ n = w + 1
    <3> HIDE DEF w
    <3>1. QED BY <1>1
  <2>4. w + 1 \notin 1..w
    <3> HIDE DEF w
    <3>1. QED BY <1>1
  <2>5. QED BY <2>1, <2>2, <2>3, <2>4
<1>10. HeldRow(i, more) = [n \in 1..(w + 1) |-> HeldRow(i, more)[n]]
  <2> HIDE DEF more
  <2>1. QED BY <1>3 DEF HeldRow
<1>11. HeldRow(i, more) = Append(HeldRow(i, g), last)
  <2> HIDE DEF more, w, last
  <2>1. QED BY <1>8, <1>9, <1>10
<1>12. HeldMask(i, more) = Append(HeldMask(i, g), 1)
  <2>1. HeldMask(i, g) \in Seq({0, 1}) /\ Len(HeldMask(i, g)) = w
    <3>1. HeldMask(i, g) \in [1..w -> {0, 1}]
      BY DEF HeldMask
    <3> HIDE DEF w
    <3>2. QED BY <1>1, <3>1
  <2>2. Append(HeldMask(i, g), 1) =
          [n \in 1..(w + 1) |-> IF n = w + 1 THEN 1 ELSE HeldMask(i, g)[n]]
    <3> HIDE DEF w
    <3>1. QED BY <2>1, AppendIs
  <2>3. \A n \in 1..w : HeldMask(i, g)[n] = IF n <= p THEN 0 ELSE 1
    BY DEF HeldMask
  <2>4. HeldMask(i, more) = [n \in 1..(w + 1) |-> IF n <= p THEN 0 ELSE 1]
    <3> HIDE DEF more
    <3>1. QED BY <1>3 DEF HeldMask
  <2>5. \A n \in 1..(w + 1) : n = w + 1 \/ n \in 1..w
    <3> HIDE DEF w
    <3>1. QED BY <1>1
  <2>6. ~(w + 1 <= p)
    <3> HIDE DEF w, p, q
    <3>1. QED BY <1>1
  <2> HIDE DEF w, p, more
  <2>7. QED BY <2>2, <2>3, <2>4, <2>5, <2>6
<1>13. QED BY <1>11, <1>12

\* Before anything is written a row holds the padded prompt.
LEMMA PaddedIsHeld ==
    ASSUME BatchHolds, NEW i \in Rows
    PROVE  /\ PaddedRow(i) = HeldRow(i, <<>>)
           /\ Mask(i) = HeldMask(i, <<>>)
           /\ Position(i, Width) = PromptLen(i) - 1
           /\ Visible(PaddedRow(i), Mask(i)) = AloneWith(i, <<>>)
<1> DEFINE p == Padding(i)
           q == PromptLen(i)
<1>1. p \in Nat /\ q \in Nat /\ q >= 1 /\ Width \in Nat /\ Width = p + q
  BY AskedFor, WidthHolds, ContextAssumption
<1>2. <<>> \in Seq(Written) /\ Len(<<>>) = 0 /\ Width + 0 = Width
  BY <1>1
<1>3. ASSUME NEW n \in 1..Width, ~(n <= p)
      PROVE  Prompt(i)[n - p] = OwnToken(i, <<>>, n - p)
  <2>1. n - p \in 1..q /\ n - p <= q
    <3> HIDE DEF p, q
    <3>1. QED BY <1>1, <1>3
  <2>2. QED BY <2>1 DEF Prompt, OwnToken
<1>4. PaddedRow(i) = HeldRow(i, <<>>)
  <2>1. ASSUME NEW n \in 1..Width
        PROVE  (IF n <= p THEN Pad ELSE Prompt(i)[n - p])
                 = (IF n <= p THEN Pad ELSE OwnToken(i, <<>>, n - p))
    BY <1>3
  <2> HIDE DEF p
  <2>2. PaddedRow(i) = [n \in 1..Width |->
          [tok |-> IF n <= p THEN Pad ELSE Prompt(i)[n - p], pos |-> Position(i, n)]]
    BY DEF PaddedRow, p
  <2>3. HeldRow(i, <<>>) = [n \in 1..Width |->
          [tok |-> IF n <= p THEN Pad ELSE OwnToken(i, <<>>, n - p), pos |-> Position(i, n)]]
    BY <1>2 DEF HeldRow, p
  <2>4. QED BY <2>1, <2>2, <2>3
<1>5. Mask(i) = HeldMask(i, <<>>)
  BY <1>2 DEF Mask, HeldMask
<1>6. Position(i, Width) = q - 1
  BY <1>1 DEF Position
<1>7. QED BY <1>2, <1>4, <1>5, <1>6, RowShowsItself

-----------------------------------------------------------------------------
(* A turn.                                                                 *)

\* The batch does not change.
LEMMA BatchStays ==
    ASSUME requests' = requests
    PROVE  /\ Rows' = Rows /\ Width' = Width /\ (BatchHolds' <=> BatchHolds)
           /\ \A i : /\ PromptLen(i)' = PromptLen(i) /\ Padding(i)' = Padding(i)
                     /\ Fits(i)' <=> Fits(i)
                     /\ Seeded(i)' <=> Seeded(i)
                     /\ Random(i)' <=> Random(i)
           /\ \A i, g : /\ HeldRow(i, g)' = HeldRow(i, g)
                        /\ HeldMask(i, g)' = HeldMask(i, g)
                        /\ AloneWith(i, g)' = AloneWith(i, g)
<1>1. Rows' = Rows /\ (BatchHolds' <=> BatchHolds)
  BY DEF Rows, BatchHolds
<1>2. \A i : /\ PromptLen(i)' = PromptLen(i)
             /\ Seeded(i)' <=> Seeded(i)
             /\ Random(i)' <=> Random(i)
  BY DEF PromptLen, Seeded, Random
<1>3. Width' = Width
  BY <1>1, <1>2 DEF Width
<1>4. \A i : Padding(i)' = Padding(i) /\ (Fits(i)' <=> Fits(i))
  BY <1>2, <1>3 DEF Padding, Fits
<1>5. \A i, g : /\ HeldRow(i, g)' = HeldRow(i, g)
                /\ HeldMask(i, g)' = HeldMask(i, g)
                /\ AloneWith(i, g)' = AloneWith(i, g)
  BY <1>2, <1>3, <1>4 DEF HeldRow, HeldMask, AloneWith, OwnToken, Position
<1>6. QED BY <1>1, <1>2, <1>3, <1>4, <1>5

\* The batch and its rows, in the terms of the lemmas above.
LEMMA TypesGive ==
    ASSUME TypesHold
    PROVE  /\ BatchHolds
           /\ Rows \subseteq Nat \ {0} /\ 0 \notin Rows
           /\ Len(active) \in Nat /\ DOMAIN active = 1..Len(active)
           /\ \A j \in DOMAIN active : active[j] \in Rows
           /\ \A i : Contains(active, i) <=> \E j \in DOMAIN active : active[j] = i
<1>1. BatchHolds
  BY DEF TypesHold, BatchHolds
<1>2. Rows \subseteq Nat \ {0} /\ 0 \notin Rows
  BY <1>1, AskedFor
<1>3. Len(active) \in Nat /\ active \in [1..Len(active) -> Rows] /\ DOMAIN active = 1..Len(active)
  BY LenProperties DEF TypesHold
<1>4. QED BY <1>1, <1>2, <1>3 DEF Contains

\* The rows that go on after a turn.
Kept == {j \in DOMAIN active : finish'[active[j]] = "none"}

\* What a turn writes.
LEMMA TurnWrites ==
    ASSUME TypesHold, BatchIsUnfinished, DecodeStep
    PROVE  \E next \in [DOMAIN active -> Written] :
              /\ \A j \in DOMAIN active :
                    /\ generated'[active[j]] = Append(generated[active[j]], next[j])
                    /\ finish'[active[j]] =
                          ReasonAfter(active[j], generated'[active[j]], next[j].eos)
              /\ \/ Ascending(Kept) = <<>> /\ pc' = "done" /\ UNCHANGED <<active, cache, attn, pos, logits>>
                 \/ /\ EvictAndExtend(Ascending(Kept), next)
                    /\ logits' = [n \in DOMAIN Ascending(Kept) |-> Visible(cache'[n], attn'[n])]
                    /\ pc' = IF LastTurn THEN "done" ELSE "decode"
<1>1. PICK eos \in [DOMAIN active -> BOOLEAN] :
        LET next == [j \in DOMAIN active |->
                       Token(active[j], PromptLen(active[j]) + Len(generated[active[j]]) + 1, eos[j])]
            row(i) == CHOOSE j \in DOMAIN active : active[j] = i
            keep == Ascending({j \in DOMAIN active : finish'[active[j]] = "none"})
        IN  /\ generated' = [i \in Rows |-> IF Contains(active, i)
                                            THEN Append(generated[i], next[row(i)])
                                            ELSE generated[i]]
            /\ finish' = [i \in Rows |-> IF Contains(active, i)
                                         THEN ReasonAfter(i, generated'[i], eos[row(i)])
                                         ELSE finish[i]]
            /\ IF keep = <<>>
                 THEN /\ pc' = "done"
                      /\ UNCHANGED <<active, cache, attn, pos, logits>>
                 ELSE /\ EvictAndExtend(keep, next)
                      /\ logits' = [n \in DOMAIN keep |-> Visible(cache'[n], attn'[n])]
                      /\ pc' = IF LastTurn THEN "done" ELSE "decode"
  BY DEF DecodeStep
<1> DEFINE next == [j \in DOMAIN active |->
             Token(active[j], PromptLen(active[j]) + Len(generated[active[j]]) + 1, eos[j])]
           row(i) == CHOOSE j \in DOMAIN active : active[j] = i
<1>2. \A j \in DOMAIN active : next[j] \in Written /\ next[j].eos = eos[j]
  <2>1. ASSUME NEW j \in DOMAIN active
        PROVE  next[j] \in Written /\ next[j].eos = eos[j]
    <3>1. active[j] \in Rows /\ active[j] \in Nat
      BY TypesGive
    <3>2. PromptLen(active[j]) \in Nat
      BY <3>1, TypesGive, AskedFor, ContextAssumption
    <3>3. Len(generated[active[j]]) \in Nat
      BY <3>1 DEF TypesHold
    <3>4. PromptLen(active[j]) + Len(generated[active[j]]) + 1 \in Nat /\ eos[j] \in BOOLEAN
      BY <3>2, <3>3
    <3>5. QED BY <3>1, <3>4 DEF Token, Written
  <2>2. QED BY <2>1
<1>3. next \in [DOMAIN active -> Written]
  BY <1>2
<1>4. ASSUME NEW j \in DOMAIN active
      PROVE  /\ row(active[j]) = j /\ Contains(active, active[j]) /\ active[j] \in Rows
  <2>1. active[j] \in Rows /\ Contains(active, active[j])
    BY TypesGive
  <2>2. \A k \in DOMAIN active : active[k] = active[j] => k = j
    BY DEF BatchIsUnfinished
  <2>3. QED BY <2>1, <2>2
<1>5. ASSUME NEW j \in DOMAIN active
      PROVE  /\ generated'[active[j]] = Append(generated[active[j]], next[j])
             /\ finish'[active[j]] = ReasonAfter(active[j], generated'[active[j]], next[j].eos)
  <2> HIDE DEF next, row
  <2>1. /\ generated' = [i \in Rows |-> IF Contains(active, i)
                                            THEN Append(generated[i], next[row(i)])
                                            ELSE generated[i]]
        /\ finish' = [i \in Rows |-> IF Contains(active, i)
                                     THEN ReasonAfter(i, generated'[i], eos[row(i)])
                                     ELSE finish[i]]
    BY <1>1 DEF next, row
  <2>2. QED BY <1>2, <1>4, <2>1
<1>6. \/ Ascending(Kept) = <<>> /\ pc' = "done" /\ UNCHANGED <<active, cache, attn, pos, logits>>
      \/ /\ EvictAndExtend(Ascending(Kept), next)
         /\ logits' = [n \in DOMAIN Ascending(Kept) |-> Visible(cache'[n], attn'[n])]
         /\ pc' = IF LastTurn THEN "done" ELSE "decode"
  BY <1>1 DEF Kept
<1>7. QED BY <1>3, <1>5, <1>6

\* What a turn leaves alone.
LEMMA TurnLeaves ==
    ASSUME TypesHold, DecodeStep
    PROVE  /\ pc = "decode" /\ requests' = requests /\ turn' = turn + 1 /\ Draw
           /\ DOMAIN generated' = Rows /\ DOMAIN finish' = Rows
           /\ \A i \in Rows : (\A j \in DOMAIN active : active[j] # i) =>
                 generated'[i] = generated[i] /\ finish'[i] = finish[i]
<1>1. pc = "decode" /\ requests' = requests /\ turn' = turn + 1 /\ Draw
  BY DEF DecodeStep
<1>2. /\ DOMAIN generated' = Rows /\ DOMAIN finish' = Rows
      /\ \A i \in Rows : ~Contains(active, i) =>
            generated'[i] = generated[i] /\ finish'[i] = finish[i]
  BY DEF DecodeStep
<1>3. QED BY <1>1, <1>2, TypesGive

\* The rows that stay are those that go on, each once.
LEMMA KeptAreListed ==
    ASSUME TypesHold
    PROVE  LET keep == Ascending(Kept)
               size == Cardinality(Kept)
           IN  /\ size \in Nat
               /\ keep \in [1..size -> Kept]
               /\ \A m, n \in 1..size : keep[m] = keep[n] => m = n
               /\ \A j \in Kept : \E m \in 1..size : keep[m] = j
               /\ keep = <<>> => Kept = {}
<1>1. Kept \in SUBSET (1..Len(active)) /\ Len(active) \in Nat
  BY TypesGive DEF Kept
<1> HIDE DEF Kept
<1>2. /\ Cardinality(Kept) \in Nat
      /\ Ascending(Kept) \in [1..Cardinality(Kept) -> Kept]
      /\ \A m, n \in 1..Cardinality(Kept) : Ascending(Kept)[m] = Ascending(Kept)[n] => m = n
      /\ \A p \in Kept : \E m \in 1..Cardinality(Kept) : Ascending(Kept)[m] = p
  BY <1>1, AscendingLists
<1>3. ASSUME Ascending(Kept) = <<>> PROVE Kept = {}
  <2>1. DOMAIN <<>> = {}
    BY EmptySeq, LenProperties
  <2>2. 1..Cardinality(Kept) = {}
    BY <1>2, <1>3, <2>1
  <2>3. QED BY <1>2, <2>2
<1>4. QED BY <1>2, <1>3

\* The rows after a turn that does not end the call.
LEMMA RowsAfter ==
    ASSUME TypesHold, BatchIsUnfinished, DecodeStep, active' # active
    PROVE  LET keep == Ascending(Kept)
               size == Cardinality(Kept)
           IN  active' = [n \in 1..size |-> active[keep[n]]]
<1>1. active' = Selected(Ascending(Kept), active)
  BY TurnWrites DEF EvictAndExtend
<1>2. DOMAIN Ascending(Kept) = 1..Cardinality(Kept)
  BY KeptAreListed
<1>3. QED BY <1>1, <1>2 DEF Selected

\* Types survive a turn's writing and its choice of rows.
LEMMA TurnKeepsRows ==
    ASSUME TypesHold, BatchIsUnfinished, DecodeStep
    PROVE  /\ requests' = requests /\ Rows' = Rows
           /\ pc' \in {"decode", "done"}
           /\ active' \in Seq(Rows)
           /\ generated' \in [Rows -> Seq(Written)]
           /\ finish' \in [Rows -> {"none", "stop", "length"}]
           /\ \A j, k \in DOMAIN active' : active'[j] = active'[k] => j = k
<1>1. requests' = requests /\ Rows' = Rows
  BY TurnLeaves, BatchStays
<1>2. PICK next \in [DOMAIN active -> Written] :
              /\ \A j \in DOMAIN active :
                    /\ generated'[active[j]] = Append(generated[active[j]], next[j])
                    /\ finish'[active[j]] =
                          ReasonAfter(active[j], generated'[active[j]], next[j].eos)
              /\ \/ Ascending(Kept) = <<>> /\ pc' = "done" /\ UNCHANGED <<active, cache, attn, pos, logits>>
                 \/ /\ EvictAndExtend(Ascending(Kept), next)
                    /\ logits' = [n \in DOMAIN Ascending(Kept) |-> Visible(cache'[n], attn'[n])]
                    /\ pc' = IF LastTurn THEN "done" ELSE "decode"
  BY TurnWrites
<1>3. pc' \in {"decode", "done"}
  BY <1>2
<1>4. ASSUME NEW i \in Rows
      PROVE  generated'[i] \in Seq(Written) /\ finish'[i] \in {"none", "stop", "length"}
  <2>1. generated[i] \in Seq(Written) /\ finish[i] \in {"none", "stop", "length"}
    BY DEF TypesHold
  <2>2. CASE \E j \in DOMAIN active : active[j] = i
    <3>1. PICK j \in DOMAIN active : active[j] = i
      BY <2>2
    <3>2. next[j] \in Written /\ generated'[i] = Append(generated[i], next[j])
          /\ finish'[i] = ReasonAfter(i, generated'[i], next[j].eos)
      BY <1>2, <3>1
    <3>3. generated'[i] \in Seq(Written)
      BY <2>1, <3>2, AppendIs
    <3>4. QED BY <3>2, <3>3 DEF ReasonAfter
  <2>3. CASE \A j \in DOMAIN active : active[j] # i
    BY <2>1, <2>3, TurnLeaves
  <2>4. QED BY <2>2, <2>3
<1>5. generated' \in [Rows -> Seq(Written)] /\ finish' \in [Rows -> {"none", "stop", "length"}]
  <2>1. /\ generated' = [i \in Rows |-> generated'[i]]
        /\ finish' = [i \in Rows |-> finish'[i]]
    BY DEF DecodeStep
  <2>2. QED BY <1>4, <2>1
<1>6. active' \in Seq(Rows) /\ \A j, k \in DOMAIN active' : active'[j] = active'[k] => j = k
  <2>1. CASE active' = active
    BY <2>1 DEF TypesHold, BatchIsUnfinished
  <2>2. CASE active' # active
    <3> DEFINE keep == Ascending(Kept)
               size == Cardinality(Kept)
    <3>1. active' = [n \in 1..size |-> active[keep[n]]]
      BY <2>2, RowsAfter
    <3>2. size \in Nat /\ \A n \in 1..size : keep[n] \in Kept
      BY KeptAreListed
    <3>3. \A m, n \in 1..size : keep[m] = keep[n] => m = n
      BY KeptAreListed
    <3>4. \A j \in Kept : j \in DOMAIN active /\ active[j] \in Rows
      BY TypesGive DEF Kept
    <3> HIDE DEF keep, size
    <3>5. active' \in [1..size -> Rows]
      BY <3>1, <3>2, <3>4
    <3>6. \A j, k \in DOMAIN active' : active'[j] = active'[k] => j = k
      <4>1. ASSUME NEW m \in 1..size, NEW n \in 1..size, active[keep[m]] = active[keep[n]]
            PROVE  m = n
        <5>1. keep[m] \in DOMAIN active /\ keep[n] \in DOMAIN active
          BY <3>2, <3>4
        <5>2. keep[m] = keep[n]
          BY <4>1, <5>1 DEF BatchIsUnfinished
        <5>3. QED BY <3>3, <5>2
      <4>2. QED BY <3>1, <4>1
    <3>7. QED BY <3>2, <3>5, <3>6
  <2>3. QED BY <2>1, <2>2
<1>7. QED BY <1>1, <1>3, <1>5, <1>6

\* What a turn does to one request: it writes for those in the batch only.
LEMMA TurnForOne ==
    ASSUME TypesHold, BatchIsUnfinished, DecodeStep, NEW i \in Rows
    PROVE  /\ finish[i] = "none" =>
                 \E tok \in Written : /\ generated'[i] = Append(generated[i], tok)
                                      /\ finish'[i] = ReasonAfter(i, generated'[i], tok.eos)
           /\ finish[i] # "none" => generated'[i] = generated[i] /\ finish'[i] = finish[i]
<1>1. pc = "decode"
  BY TurnLeaves
<1>2. finish[i] = "none" <=> \E j \in DOMAIN active : active[j] = i
  BY <1>1 DEF BatchIsUnfinished
<1>3. QED BY <1>2, TurnWrites, TurnLeaves

-----------------------------------------------------------------------------
(* A turn preserves the invariant.                                         *)

\* What is in the batch, and who has left it.
LEMMA TurnBatch ==
    ASSUME EInv, DecodeStep
    PROVE  BatchIsUnfinished' /\ (pc' = "done" => \A i \in Rows' : finish'[i] # "none")
<1>1. TypesHold /\ BatchIsUnfinished /\ TurnsAreTaken /\ pc = "decode"
  BY TurnLeaves DEF EInv
<1>2. /\ requests' = requests /\ Rows' = Rows
      /\ \A j, k \in DOMAIN active' : active'[j] = active'[k] => j = k
  BY <1>1, TurnKeepsRows
<1>3. \A i \in Rows : finish'[i] = "none" <=> \E j \in Kept : active[j] = i
  <2>1. ASSUME NEW i \in Rows, finish'[i] = "none" PROVE \E j \in Kept : active[j] = i
    <3>1. finish[i] = "none"
      BY <1>1, <2>1, TurnForOne
    <3>2. \E j \in DOMAIN active : active[j] = i
      BY <1>1, <3>1 DEF BatchIsUnfinished
    <3>3. QED BY <2>1, <3>2 DEF Kept
  <2>2. QED BY <2>1 DEF Kept
<1>4. ASSUME pc' # "done", NEW i \in Rows
      PROVE  finish'[i] = "none" <=> \E j \in DOMAIN active' : active'[j] = i
  <2> DEFINE keep == Ascending(Kept)
             size == Cardinality(Kept)
  <2>1. active' = [n \in 1..size |-> active[keep[n]]]
    <3>1. active' = Selected(keep, active)
      BY <1>1, <1>4, TurnWrites DEF EvictAndExtend
    <3>2. DOMAIN keep = 1..size
      BY <1>1, KeptAreListed
    <3>3. QED BY <3>1, <3>2 DEF Selected
  <2>2. (\A n \in 1..size : keep[n] \in Kept) /\ \A j \in Kept : \E n \in 1..size : keep[n] = j
    BY <1>1, KeptAreListed
  <2> HIDE DEF keep, size
  <2>3. QED BY <1>3, <2>1, <2>2
<1>5. ASSUME pc' = "done", NEW i \in Rows, finish'[i] = "none"
      PROVE  FALSE
  <2>1. CASE Ascending(Kept) = <<>>
    <3>1. Kept = {}
      BY <1>1, <2>1, KeptAreListed
    <3>2. QED BY <1>3, <1>5, <3>1
  <2>2. CASE LastTurn
    <3>1. finish[i] = "none" /\ \A k \in Rows : Fits(k)
      BY <1>1, <1>5, TurnForOne DEF TurnsAreTaken
    <3>2. PICK tok \in Written : /\ generated'[i] = Append(generated[i], tok)
                                 /\ finish'[i] = ReasonAfter(i, generated'[i], tok.eos)
      BY <1>1, <3>1, TurnForOne
    <3>3. generated[i] \in Seq(Written) /\ Len(generated[i]) = turn /\ turn \in Nat
      BY <1>1, <3>1 DEF TypesHold, TurnsAreTaken
    <3>4. Len(generated'[i]) = turn + 1
      BY <3>2, <3>3, AppendIs
    <3>5. ~(turn + 1 >= requests[i].max)
      BY <1>5, <3>2, <3>4 DEF ReasonAfter
    <3>6. LET longest == Largest([k \in Rows |-> requests[k].max])
          IN  longest \in Nat /\ requests[i].max <= longest /\ turn + 1 = longest
      BY <1>1, <2>2, <3>1, TypesGive, LongestIsBound, TurnLeaves DEF LastTurn
    <3>7. requests[i].max \in Nat
      BY <1>1, TypesGive, AskedFor
    <3>8. QED BY <3>3, <3>5, <3>6, <3>7
  <2>3. QED BY <1>1, <1>5, <2>1, <2>2, TurnWrites
<1>6. QED BY <1>2, <1>4, <1>5 DEF BatchIsUnfinished

\* Everyone still in the batch has had the turn and has room for another.
LEMMA TurnTaken ==
    ASSUME EInv, DecodeStep
    PROVE  TurnsAreTaken'
<1>1. TypesHold /\ BatchIsUnfinished /\ TurnsAreTaken /\ pc = "decode"
  BY TurnLeaves DEF EInv
<1>2. requests' = requests /\ Rows' = Rows /\ turn' = turn + 1 /\ pc' \in {"decode", "done"}
  BY <1>1, TurnKeepsRows, TurnLeaves
<1>3. \A i \in Rows : Fits(i)'
  BY <1>1, <1>2, BatchStays DEF TurnsAreTaken
<1>4. ASSUME NEW i \in Rows, finish'[i] = "none"
      PROVE  Len(generated'[i]) = turn' /\ turn' < requests'[i].max
  <2>1. finish[i] = "none"
    BY <1>1, <1>4, TurnForOne
  <2>2. PICK tok \in Written : /\ generated'[i] = Append(generated[i], tok)
                               /\ finish'[i] = ReasonAfter(i, generated'[i], tok.eos)
    BY <1>1, <2>1, TurnForOne
  <2>3. generated[i] \in Seq(Written) /\ Len(generated[i]) = turn /\ turn \in Nat
    BY <1>1, <2>1 DEF TypesHold, TurnsAreTaken
  <2>4. Len(generated'[i]) = turn + 1
    BY <2>2, <2>3, AppendIs
  <2>5. ~(turn + 1 >= requests[i].max)
    BY <1>4, <2>2, <2>4 DEF ReasonAfter
  <2>6. requests[i].max \in Nat
    BY <1>1, TypesGive, AskedFor
  <2>7. QED BY <1>2, <2>3, <2>4, <2>5, <2>6
<1>5. QED BY <1>2, <1>3, <1>4 DEF TurnsAreTaken

\* A row stops with its first end token or at its length.
LEMMA TurnStops ==
    ASSUME EInv, DecodeStep, NEW i \in Rows
    PROVE  StopsAreTrue(i)'
<1>1. TypesHold /\ BatchIsUnfinished /\ TurnsAreTaken /\ pc = "decode" /\ StopsAreTrue(i)
  BY TurnLeaves DEF EInv
<1>2. requests' = requests /\ (Fits(i)' <=> Fits(i)) /\ Fits(i)
  BY <1>1, TurnLeaves, BatchStays DEF TurnsAreTaken
<1>3. CASE finish[i] # "none"
  <2>1. generated'[i] = generated[i] /\ finish'[i] = finish[i]
    BY <1>1, <1>3, TurnForOne
  <2>2. QED BY <1>1, <1>2, <2>1 DEF StopsAreTrue
<1>4. CASE finish[i] = "none"
  <2>1. PICK tok \in Written : /\ generated'[i] = Append(generated[i], tok)
                               /\ finish'[i] = ReasonAfter(i, generated'[i], tok.eos)
    BY <1>1, <1>4, TurnForOne
  <2> DEFINE g == generated[i]
             more == generated'[i]
  <2>2. g \in Seq(Written) /\ Len(g) = turn /\ turn \in Nat /\ turn < requests[i].max
    BY <1>1, <1>4 DEF TypesHold, TurnsAreTaken
  <2>3. requests[i].max \in Nat
    BY <1>1, TypesGive, AskedFor
  <2>4. /\ more \in Seq(Written) /\ Len(more) = turn + 1
        /\ more[turn + 1] = tok
        /\ \A n \in 1..turn : more[n] = g[n]
    <3>1. more = Append(g, tok)
      BY <2>1
    <3> HIDE DEF g, more
    <3>2. QED BY <2>2, <3>1, AppendIs
  <2>5. DOMAIN g = 1..turn /\ DOMAIN more = 1..(turn + 1)
    BY <2>2, <2>4, LenProperties
  <2>6. requests[i].stopOnEos => \A n \in 1..turn : ~more[n].eos
    BY <1>1, <1>4, <2>4, <2>5 DEF StopsAreTrue
  <2>7. \A n \in 1..(turn + 1) : n \in 1..turn \/ n = turn + 1
    BY <2>2
  <2> HIDE DEF g, more
  <2>8. finish'[i] = IF requests[i].stopOnEos /\ tok.eos THEN "stop"
                     ELSE IF turn + 1 >= requests[i].max THEN "length" ELSE "none"
    BY <2>1, <2>4 DEF ReasonAfter, more
  <2>9. turn + 1 \in 1..requests[i].max /\ (turn + 1 >= requests[i].max => turn + 1 = requests[i].max)
    BY <2>2, <2>3
  <2>10. finish'[i] = "none" /\ requests[i].stopOnEos => \A n \in DOMAIN more : ~more[n].eos
    BY <2>4, <2>5, <2>6, <2>7, <2>8
  <2>11. finish'[i] # "none" =>
            /\ Len(more) \in 1..requests[i].max
            /\ finish'[i] = "stop" <=> /\ requests[i].stopOnEos
                                       /\ more[Len(more)].eos
            /\ finish'[i] = "length" => Len(more) = requests[i].max
            /\ requests[i].stopOnEos =>
                  \A n \in DOMAIN more : n # Len(more) => ~more[n].eos
    <3>1. turn + 1 \in 1..requests[i].max
      BY <2>9
    <3>2. finish'[i] = "stop" <=> requests[i].stopOnEos /\ more[Len(more)].eos
      BY <2>4, <2>8
    <3>3. finish'[i] = "length" => Len(more) = requests[i].max
      BY <2>4, <2>8, <2>9
    <3>4. requests[i].stopOnEos => \A n \in DOMAIN more : n # Len(more) => ~more[n].eos
      BY <2>4, <2>5, <2>6, <2>7
    <3>5. QED BY <2>4, <3>1, <3>2, <3>3, <3>4
  <2>12. QED BY <1>2, <2>10, <2>11 DEF StopsAreTrue, more
<1>5. QED BY <1>3, <1>4

\* A draw comes from a generator of the batch.
LEMMA DrawIsOfTheBatch ==
    ASSUME TypesHold, NEW j \in DOMAIN active
    PROVE  DrawOf(j) \in Drawn /\ DrawOf(j).gen \in {0} \cup Rows
<1>1. 1 \in DOMAIN active /\ active[1] \in Rows /\ active[j] \in Rows
  <2>1. Len(active) \in Nat /\ DOMAIN active = 1..Len(active)
    BY TypesGive
  <2>2. 1 \in DOMAIN active
    BY <2>1
  <2>3. QED BY <2>2, TypesGive
<1>2. \A i \in Rows : Generator(i) \in {0} \cup Rows
  BY DEF Generator
<1>3. \A g \in {0} \cup Rows : g \in Nat /\ used[g] \in Nat
  BY TypesGive DEF TypesHold
<1>4. \A g : Cardinality(Before(g, j)) \in Nat
  <2>1. j \in Nat
    BY TypesGive
  <2>2. IsFiniteSet(1..(j - 1))
    BY <2>1, FS_Interval
  <2>3. \A g : Before(g, j) \in SUBSET (1..(j - 1))
    BY DEF Before
  <2>4. QED BY <2>2, <2>3, FS_Subset, FS_CardinalityType
<1>5. CASE Vectorised
  <2> DEFINE g == Generator(active[1])
  <2>1. DrawOf(j) = [gen |-> g, nth |-> used[g] + 1]
    BY <1>5 DEF DrawOf
  <2>2. g \in {0} \cup Rows
    BY <1>1, <1>2
  <2>3. used[g] + 1 \in Nat
    <3>1. used[g] \in Nat
      BY <1>3, <2>2
    <3> HIDE DEF g
    <3>2. QED BY <3>1
  <2> HIDE DEF g
  <2>4. QED BY <1>3, <2>1, <2>2, <2>3 DEF Drawn
<1>6. CASE ~Vectorised
  <2> DEFINE g == Generator(active[j])
  <2>1. DrawOf(j) = [gen |-> g, nth |-> used[g] + 1 + Cardinality(Before(g, j))]
    BY <1>6 DEF DrawOf
  <2>2. g \in {0} \cup Rows
    BY <1>1, <1>2
  <2>3. used[g] + 1 + Cardinality(Before(g, j)) \in Nat
    <3>1. used[g] \in Nat /\ Cardinality(Before(g, j)) \in Nat
      BY <1>3, <1>4, <2>2
    <3> HIDE DEF g
    <3>2. QED BY <3>1
  <2> HIDE DEF g
  <2>4. QED BY <1>3, <2>1, <2>2, <2>3 DEF Drawn
<1>7. QED BY <1>5, <1>6

\* The calls that drew from generator g in a turn.
Calls(g) == {j \in DOMAIN active : Random(active[j]) /\ DrawOf(j).gen = g}

\* What a turn draws.
LEMMA TurnDraws ==
    ASSUME TypesHold, BatchIsUnfinished, DecodeStep
    PROVE  /\ draws' \in [Rows -> Seq(Drawn)]
           /\ used' \in [{0} \cup Rows -> Nat]
           /\ \A j \in DOMAIN active : Random(active[j]) =>
                 draws'[active[j]] = Append(draws[active[j]], DrawOf(j))
           /\ \A i \in Rows : (\A j \in DOMAIN active : active[j] # i) => draws'[i] = draws[i]
           /\ \A g \in {0} \cup Rows : Calls(g) = {} => used'[g] = used[g]
           /\ ~Vectorised => \A g \in {0} \cup Rows :
                                used'[g] = used[g] + Cardinality(Calls(g))
<1> DEFINE row(i) == CHOOSE j \in DOMAIN active : active[j] = i
<1>1. /\ draws' = [i \in Rows |-> IF Contains(active, i) /\ Random(i)
                                  THEN Append(draws[i], DrawOf(row(i)))
                                  ELSE draws[i]]
      /\ used' = [g \in DOMAIN used |->
                    IF Vectorised THEN used[g] + (IF Calls(g) = {} THEN 0 ELSE 1)
                                  ELSE used[g] + Cardinality(Calls(g))]
  BY TurnLeaves DEF Draw, Calls
<1>2. ASSUME NEW j \in DOMAIN active
      PROVE  row(active[j]) = j /\ Contains(active, active[j]) /\ active[j] \in Rows
  <2>1. active[j] \in Rows /\ Contains(active, active[j])
    BY TypesGive
  <2>2. \A k \in DOMAIN active : active[k] = active[j] => k = j
    BY DEF BatchIsUnfinished
  <2>3. QED BY <2>1, <2>2
<1> HIDE DEF row
<1>3. \A j \in DOMAIN active : Random(active[j]) =>
         draws'[active[j]] = Append(draws[active[j]], DrawOf(j))
  BY <1>1, <1>2
<1>4. \A i \in Rows : (\A j \in DOMAIN active : active[j] # i) => draws'[i] = draws[i]
  BY <1>1, TypesGive
<1>5. ASSUME NEW i \in Rows PROVE draws'[i] \in Seq(Drawn)
  <2>1. draws[i] \in Seq(Drawn)
    BY DEF TypesHold
  <2>2. CASE Contains(active, i) /\ Random(i)
    <3>1. PICK j \in DOMAIN active : active[j] = i
      BY <2>2, TypesGive
    <3>2. draws'[i] = Append(draws[i], DrawOf(j)) /\ DrawOf(j) \in Drawn
      BY <1>3, <2>2, <3>1, DrawIsOfTheBatch
    <3>3. QED BY <2>1, <3>2, AppendIs
  <2>3. CASE ~(Contains(active, i) /\ Random(i))
    BY <1>1, <2>1, <2>3
  <2>4. QED BY <2>2, <2>3
<1>6. \A g : IsFiniteSet(Calls(g)) /\ Cardinality(Calls(g)) \in Nat
  <2>1. IsFiniteSet(DOMAIN active)
    BY TypesGive, FS_Interval
  <2>2. \A g : Calls(g) \in SUBSET DOMAIN active
    BY DEF Calls
  <2>3. QED BY <2>1, <2>2, FS_Subset, FS_CardinalityType
<1>7. DOMAIN used = {0} \cup Rows /\ \A g \in {0} \cup Rows : used[g] \in Nat
  BY DEF TypesHold
<1>8. ASSUME NEW g \in {0} \cup Rows
      PROVE  /\ used'[g] \in Nat
             /\ Calls(g) = {} => used'[g] = used[g]
             /\ ~Vectorised => used'[g] = used[g] + Cardinality(Calls(g))
  <2>1. used'[g] = IF Vectorised THEN used[g] + (IF Calls(g) = {} THEN 0 ELSE 1)
                                 ELSE used[g] + Cardinality(Calls(g))
    BY <1>1, <1>7
  <2>2. used[g] \in Nat /\ Cardinality(Calls(g)) \in Nat
    BY <1>6, <1>7
  <2>3. Calls(g) = {} => Cardinality(Calls(g)) = 0
    BY FS_EmptySet
  <2>4. CASE Vectorised
    BY <2>1, <2>2, <2>4
  <2>5. CASE ~Vectorised
    BY <2>1, <2>2, <2>3, <2>5
  <2>6. QED BY <2>4, <2>5
<1>9. draws' \in [Rows -> Seq(Drawn)]
  <2>1. draws' = [i \in Rows |-> draws'[i]]
    BY <1>1
  <2>2. QED BY <1>5, <2>1
<1>10. used' \in [{0} \cup Rows -> Nat]
  <2>1. used' = [g \in {0} \cup Rows |-> used'[g]]
    BY <1>1, <1>7
  <2>2. QED BY <1>8, <2>1
<1>11. QED BY <1>3, <1>4, <1>8, <1>9, <1>10

\* A seeded request draws from its own generator, and nobody else does.
LEMMA SeededCalls ==
    ASSUME TypesHold, BatchIsUnfinished, NEW i \in Rows, Seeded(i), Random(i)
    PROVE  /\ \A j \in DOMAIN active : active[j] = i =>
                 /\ ~Vectorised
                 /\ DrawOf(j) = [gen |-> i, nth |-> used[i] + 1]
                 /\ Calls(i) = {j}
           /\ (\A j \in DOMAIN active : active[j] # i) => Calls(i) = {}
<1>1. i # 0 /\ Generator(i) = i
  BY TypesGive DEF Generator
<1>2. \A j \in DOMAIN active : active[j] \in Rows /\ (Generator(active[j]) = i => active[j] = i)
  BY <1>1, TypesGive DEF Generator
<1>3. ASSUME NEW j \in DOMAIN active, active[j] = i
      PROVE  ~Vectorised /\ DrawOf(j) = [gen |-> i, nth |-> used[i] + 1] /\ Calls(i) = {j}
  <2>1. ~Vectorised
    BY <1>3 DEF Vectorised
  <2>2. \A k \in DOMAIN active : active[k] = i => k = j
    BY <1>3 DEF BatchIsUnfinished
  <2>3. Before(i, j) = {}
    <3>1. ASSUME NEW k \in 1..(j - 1), Generator(active[k]) = i PROVE FALSE
      <4>1. k \in DOMAIN active /\ k # j
        BY TypesGive
      <4>2. QED BY <1>2, <2>2, <3>1, <4>1
    <3>2. QED BY <3>1 DEF Before
  <2>4. Cardinality(Before(i, j)) = 0 /\ used[i] \in Nat
    BY <2>3, FS_EmptySet DEF TypesHold
  <2>5. DrawOf(j) = [gen |-> i, nth |-> used[i] + 1]
    <3>1. DrawOf(j) = [gen |-> i, nth |-> used[i] + 1 + Cardinality(Before(i, j))]
      BY <1>1, <1>3, <2>1 DEF DrawOf
    <3>2. QED BY <2>4, <3>1
  <2>6. \A k \in DOMAIN active : DrawOf(k).gen = Generator(active[k])
    BY <2>1 DEF DrawOf
  <2>7. Calls(i) = {j}
    <3>1. \A k \in DOMAIN active : DrawOf(k).gen = i => k = j
      BY <1>2, <2>2, <2>6
    <3>2. DrawOf(j).gen = i /\ Random(active[j])
      BY <1>1, <1>3, <2>6
    <3>3. QED BY <3>1, <3>2 DEF Calls
  <2>8. QED BY <2>1, <2>5, <2>7
<1>4. ASSUME \A j \in DOMAIN active : active[j] # i PROVE Calls(i) = {}
  <2>1. ASSUME NEW j \in DOMAIN active, DrawOf(j).gen = i PROVE FALSE
    <3>1. 1 \in DOMAIN active
      BY TypesGive
    <3>2. \E k \in DOMAIN active : DrawOf(j).gen = Generator(active[k])
      <4>1. CASE Vectorised
        BY <3>1, <4>1 DEF DrawOf
      <4>2. CASE ~Vectorised
        BY <4>2 DEF DrawOf
      <4>3. QED BY <4>1, <4>2
    <3>3. QED BY <1>2, <1>4, <2>1, <3>2
  <2>2. QED BY <2>1 DEF Calls
<1>5. QED BY <1>3, <1>4

\* A seeded request's draws stay its generator's, in order.
LEMMA TurnDrawsOwn ==
    ASSUME EInv, DecodeStep, NEW i \in Rows
    PROVE  DrawsAreOwn(i)'
<1>1. TypesHold /\ BatchIsUnfinished /\ pc = "decode" /\ DrawsAreOwn(i)
  BY TurnLeaves DEF EInv
<1>2. (Seeded(i)' <=> Seeded(i)) /\ (Random(i)' <=> Random(i))
  BY <1>1, TurnLeaves, BatchStays
<1> SUFFICES ASSUME Seeded(i), Random(i)
             PROVE  /\ Len(draws'[i]) = Len(generated'[i]) /\ used'[i] = Len(generated'[i])
                    /\ \A n \in DOMAIN draws'[i] : draws'[i][n] = [gen |-> i, nth |-> n]
  BY <1>2 DEF DrawsAreOwn
<1>3. /\ Len(draws[i]) = Len(generated[i]) /\ used[i] = Len(generated[i])
      /\ \A n \in DOMAIN draws[i] : draws[i][n] = [gen |-> i, nth |-> n]
  BY <1>1 DEF DrawsAreOwn
<1>4. draws[i] \in Seq(Drawn) /\ generated[i] \in Seq(Written) /\ used[i] \in Nat
  BY <1>1 DEF TypesHold
<1>5. CASE \A j \in DOMAIN active : active[j] # i
  <2>1. draws'[i] = draws[i] /\ generated'[i] = generated[i] /\ used'[i] = used[i]
    BY <1>1, <1>5, TurnDraws, TurnLeaves, SeededCalls
  <2>2. QED BY <1>3, <2>1
<1>6. CASE \E j \in DOMAIN active : active[j] = i
  <2>1. PICK j \in DOMAIN active : active[j] = i
    BY <1>6
  <2>2. ~Vectorised /\ DrawOf(j) = [gen |-> i, nth |-> used[i] + 1] /\ Calls(i) = {j}
    BY <1>1, <2>1, SeededCalls
  <2>3. draws'[i] = Append(draws[i], DrawOf(j)) /\ DrawOf(j) \in Drawn
    BY <1>1, <2>1, TurnDraws, DrawIsOfTheBatch
  <2>4. used'[i] = used[i] + 1
    <3>1. used'[i] = used[i] + Cardinality({j})
      BY <1>1, <2>2, TurnDraws
    <3>2. Cardinality({j}) = 1
      BY FS_Singleton
    <3>3. QED BY <3>1, <3>2
  <2>5. \E tok \in Written : generated'[i] = Append(generated[i], tok)
    BY <1>1, <2>1, TurnWrites
  <2>6. Len(generated'[i]) = Len(generated[i]) + 1
    BY <1>4, <2>5, AppendIs
  <2>7. /\ draws'[i] \in Seq(Drawn) /\ Len(draws'[i]) = Len(draws[i]) + 1
        /\ draws'[i][Len(draws[i]) + 1] = DrawOf(j)
        /\ \A n \in 1..Len(draws[i]) : draws'[i][n] = draws[i][n]
    BY <1>4, <2>3, AppendIs
  <2>8. DOMAIN draws[i] = 1..Len(draws[i]) /\ DOMAIN draws'[i] = 1..(Len(draws[i]) + 1)
    BY <1>4, <2>7, LenProperties
  <2>9. \A n \in 1..(Len(draws[i]) + 1) : n \in 1..Len(draws[i]) \/ n = Len(draws[i]) + 1
    BY <1>4
  <2>10. Len(draws[i]) + 1 = used[i] + 1
    BY <1>3
  <2>11. \A n \in DOMAIN draws'[i] : draws'[i][n] = [gen |-> i, nth |-> n]
    BY <1>3, <2>2, <2>7, <2>8, <2>9, <2>10
  <2>12. QED BY <1>3, <2>4, <2>6, <2>7, <2>11
<1>7. QED BY <1>5, <1>6

\* Each row that goes on keeps its own text, mask and position, and sees itself.
LEMMA TurnRows ==
    ASSUME EInv, DecodeStep, pc' = "decode", NEW m \in DOMAIN active'
    PROVE  RowIsOwn(m)'
<1> DEFINE keep == Ascending(Kept)
           size == Cardinality(Kept)
<1>1. TypesHold /\ BatchIsUnfinished /\ pc = "decode" /\ \A j \in DOMAIN active : RowIsOwn(j)
  BY TurnLeaves DEF EInv
<1>2. PICK next \in [DOMAIN active -> Written] :
        /\ \A j \in DOMAIN active : generated'[active[j]] = Append(generated[active[j]], next[j])
        /\ EvictAndExtend(keep, next)
        /\ logits' = [n \in DOMAIN keep |-> Visible(cache'[n], attn'[n])]
  BY <1>1, TurnWrites
<1>3. DOMAIN keep = 1..size /\ \A n \in 1..size : keep[n] \in Kept
  BY <1>1, KeptAreListed
<1>4. /\ active' = [n \in 1..size |-> active[keep[n]]]
      /\ cache' = [n \in 1..size |->
                     Append(cache[keep[n]], [tok |-> next[keep[n]], pos |-> pos[keep[n]] + 1])]
      /\ attn' = [n \in 1..size |-> Append(attn[keep[n]], 1)]
      /\ pos' = [n \in 1..size |-> pos[keep[n]] + 1]
      /\ logits' = [n \in 1..size |-> Visible(cache'[n], attn'[n])]
  <2> HIDE DEF keep, size
  <2>1. QED BY <1>2, <1>3 DEF EvictAndExtend, Selected
<1> DEFINE j == keep[m]
           i == active[j]
           g == generated[i]
           tok == next[j]
<1>5. m \in 1..size
  <2> HIDE DEF size, keep
  <2>1. QED BY <1>4
<1>6. j \in DOMAIN active /\ i \in Rows /\ tok \in Written /\ g \in Seq(Written)
  <2>1. j \in DOMAIN active
    BY <1>3, <1>5 DEF Kept
  <2>2. i \in Rows
    BY <1>1, <2>1, TypesGive
  <2>3. QED BY <1>1, <2>1, <2>2 DEF TypesHold
<1>7. /\ active'[m] = i
      /\ cache'[m] = Append(cache[j], [tok |-> tok, pos |-> pos[j] + 1])
      /\ attn'[m] = Append(attn[j], 1)
      /\ pos'[m] = pos[j] + 1
      /\ logits'[m] = Visible(cache'[m], attn'[m])
  <2> HIDE DEF size, keep
  <2>1. QED BY <1>4, <1>5
<1>8. generated'[i] = Append(g, tok)
  BY <1>2, <1>6
<1> HIDE DEF keep, size, j
<1>9. cache[j] = HeldRow(i, g) /\ attn[j] = HeldMask(i, g) /\ pos[j] = PromptLen(i) + Len(g) - 1
  BY <1>1, <1>6 DEF RowIsOwn
<1> HIDE DEF i, g, tok
<1>10. PromptLen(i) \in Nat /\ Len(g) \in Nat /\ BatchHolds
  BY <1>1, <1>6, TypesGive, AskedFor, ContextAssumption
<1>11. pos[j] + 1 = PromptLen(i) + Len(g)
  BY <1>9, <1>10
<1>12. cache'[m] = HeldRow(i, Append(g, tok)) /\ attn'[m] = HeldMask(i, Append(g, tok))
  BY <1>6, <1>7, <1>9, <1>10, <1>11, RowGrows
<1>13. Append(g, tok) \in Seq(Written) /\ Len(Append(g, tok)) = Len(g) + 1
  BY <1>6, AppendIs
<1>14. pos'[m] = PromptLen(i) + Len(Append(g, tok)) - 1
  BY <1>7, <1>10, <1>11, <1>13
<1>15. logits'[m] = AloneWith(i, Append(g, tok))
  BY <1>6, <1>7, <1>10, <1>12, <1>13, RowShowsItself
<1>16. /\ \A x : PromptLen(x)' = PromptLen(x)
       /\ \A x, y : /\ HeldRow(x, y)' = HeldRow(x, y)
                    /\ HeldMask(x, y)' = HeldMask(x, y)
                    /\ AloneWith(x, y)' = AloneWith(x, y)
  BY <1>1, TurnLeaves, BatchStays
<1>17. active'[m] = i /\ generated'[active'[m]] = Append(g, tok)
  BY <1>7, <1>8
<1>18. ASSUME NEW x \in {active'[m]}, NEW y \in {generated'[x]}
       PROVE  /\ cache'[m] = HeldRow(x, y)' /\ attn'[m] = HeldMask(x, y)'
              /\ pos'[m] = PromptLen(x)' + Len(y) - 1
              /\ logits'[m] = AloneWith(x, y)'
  <2>1. x = i /\ y = Append(g, tok)
    BY <1>17
  <2>2. QED BY <1>12, <1>14, <1>15, <1>16, <2>1
<1>19. QED BY <1>18 DEF RowIsOwn

-----------------------------------------------------------------------------
(* The invariant, and what follows.                                        *)

\* An empty cache and nothing written.
LEMMA InitEInv == Init => EInv
<1> SUFFICES ASSUME Init PROVE EInv
  OBVIOUS
<1>1. BatchHolds
  <2>1. PICK k \in 1..MaxBatch : requests \in [1..k -> Kinds]
    BY DEF Init
  <2>2. k \in Nat /\ k # 0
    BY <2>1, BatchAssumption
  <2>3. requests \in Seq(Kinds) /\ Len(requests) = k
    BY <2>1, <2>2
  <2>4. QED BY <2>2, <2>3, EmptySeq DEF BatchHolds
<1>2. Len(requests) \in Nat /\ Rows = 1..Len(requests) /\ \A i \in Rows : requests[i].max \in Nat \ {0}
  BY <1>1, AskedFor
<1>3. active = [i \in 1..Len(requests) |-> i] /\ active \in [1..Len(requests) -> Rows]
  BY <1>2 DEF Init
<1>4. active \in Seq(Rows)
  BY <1>2, <1>3
<1>5. TypesHold
  <2>1. /\ generated \in [Rows -> Seq(Written)] /\ draws \in [Rows -> Seq(Drawn)]
        /\ finish \in [Rows -> {"none", "stop", "length"}]
        /\ used \in [{0} \cup Rows -> Nat] /\ turn \in Nat /\ pc = "prefill"
    BY DEF Init
  <2>2. QED BY <1>1, <1>4, <2>1 DEF TypesHold, BatchHolds
<1>6. BatchIsUnfinished
  BY <1>2, <1>3 DEF Init, BatchIsUnfinished
<1>7. TurnsAreTaken
  <2>1. \A i \in Rows : Len(generated[i]) = turn /\ turn < requests[i].max
    BY <1>2 DEF Init
  <2>2. QED BY <2>1 DEF Init, TurnsAreTaken
<1>8. ASSUME NEW i \in Rows PROVE StopsAreTrue(i) /\ DrawsAreOwn(i)
  <2>1. generated[i] = <<>> /\ draws[i] = <<>> /\ finish[i] = "none" /\ used[i] = 0
    BY DEF Init
  <2>2. DOMAIN generated[i] = {} /\ DOMAIN draws[i] = {} /\ Len(<<>>) = 0
    BY <2>1
  <2>3. QED BY <2>1, <2>2 DEF StopsAreTrue, DrawsAreOwn
<1>9. QED BY <1>5, <1>6, <1>7, <1>8 DEF EInv, Init

\* The prompt pass fills the cache with the padded prompts.
LEMMA PrefillKeeps == ASSUME EInv, Prefill PROVE EInv'
<1>1. /\ pc = "prefill" /\ pc' = "decode" /\ requests' = requests
      /\ UNCHANGED <<generated, finish, active, draws, used, turn>>
      /\ \A i \in Rows : Fits(i)
  BY DEF Prefill
<1>2. BatchHolds /\ active = [i \in Rows |-> i] /\ \A i \in Rows : generated[i] = <<>>
  BY <1>1, TypesGive DEF EInv, TurnsAreTaken
<1>3. /\ Rows' = Rows
      /\ \A x : PromptLen(x)' = PromptLen(x) /\ (Fits(x)' <=> Fits(x))
                /\ (Seeded(x)' <=> Seeded(x)) /\ (Random(x)' <=> Random(x))
      /\ \A x, y : /\ HeldRow(x, y)' = HeldRow(x, y)
                   /\ HeldMask(x, y)' = HeldMask(x, y)
                   /\ AloneWith(x, y)' = AloneWith(x, y)
  BY <1>1, BatchStays
<1>4. ASSUME NEW j \in DOMAIN active'
      PROVE  RowIsOwn(j)'
  <2>1. j \in Rows /\ active'[j] = j /\ generated'[j] = <<>>
    BY <1>1, <1>2
  <2>2. /\ cache'[j] = PaddedRow(j) /\ attn'[j] = Mask(j) /\ pos'[j] = Position(j, Width)
        /\ logits'[j] = Visible(PaddedRow(j), Mask(j))
    BY <2>1 DEF Prefill
  <2>3. /\ cache'[j] = HeldRow(j, <<>>) /\ attn'[j] = HeldMask(j, <<>>)
        /\ pos'[j] = PromptLen(j) - 1 /\ logits'[j] = AloneWith(j, <<>>)
    BY <1>2, <2>1, <2>2, PaddedIsHeld
  <2>4. PromptLen(j) - 1 = PromptLen(j) + Len(<<>>) - 1
    BY <1>2, <2>1, AskedFor, ContextAssumption
  <2>5. ASSUME NEW x \in {active'[j]}, NEW y \in {generated'[x]}
        PROVE  /\ cache'[j] = HeldRow(x, y)' /\ attn'[j] = HeldMask(x, y)'
               /\ pos'[j] = PromptLen(x)' + Len(y) - 1
               /\ logits'[j] = AloneWith(x, y)'
    <3>1. x = j /\ y = <<>>
      BY <2>1
    <3>2. QED BY <1>3, <2>3, <2>4, <3>1
  <2>6. QED BY <2>5 DEF RowIsOwn
<1>5. TypesHold'
  BY <1>1, <1>3 DEF EInv, TypesHold
<1>6. BatchIsUnfinished'
  BY <1>1, <1>3 DEF EInv, BatchIsUnfinished
<1>7. TurnsAreTaken'
  BY <1>1, <1>3 DEF EInv, TurnsAreTaken
<1>8. ASSUME NEW i \in Rows PROVE StopsAreTrue(i)' /\ DrawsAreOwn(i)'
  BY <1>1, <1>3 DEF EInv, StopsAreTrue, DrawsAreOwn
<1>9. QED BY <1>1, <1>3, <1>4, <1>5, <1>6, <1>7, <1>8 DEF EInv

\* A turn preserves the invariant.
LEMMA TurnKeeps == ASSUME EInv, DecodeStep PROVE EInv'
<1>1. TypesHold /\ BatchIsUnfinished
  BY DEF EInv
<1>2. Rows' = Rows /\ pc' \in {"decode", "done"}
  BY <1>1, TurnKeepsRows
<1>3. TypesHold'
  <2>1. turn' \in Nat
    BY <1>1, TurnLeaves DEF TypesHold
  <2>2. requests' \in Seq(Kinds) /\ requests' # <<>>
    BY <1>1, TurnKeepsRows DEF TypesHold
  <2>3. QED BY <1>1, <1>2, <2>1, <2>2, TurnKeepsRows, TurnDraws DEF TypesHold
<1>4. \A i \in Rows' : StopsAreTrue(i)'
  BY <1>2, TurnStops
<1>5. \A i \in Rows' : DrawsAreOwn(i)'
  BY <1>2, TurnDrawsOwn
<1>6. pc' = "decode" => \A m \in DOMAIN active' : RowIsOwn(m)'
  BY TurnRows
<1>7. QED BY <1>3, <1>4, <1>5, <1>6, TurnBatch, TurnTaken DEF EInv

\* A step that changes nothing changes no invariant.
LEMMA StutterKeeps == ASSUME EInv, UNCHANGED vars PROVE EInv'
<1>1. /\ requests' = requests
      /\ UNCHANGED <<pc, generated, finish, active, cache, attn, pos, logits, draws, used, turn>>
  BY DEF vars
<1>2. /\ Rows' = Rows
      /\ \A x : PromptLen(x)' = PromptLen(x) /\ (Fits(x)' <=> Fits(x))
                /\ (Seeded(x)' <=> Seeded(x)) /\ (Random(x)' <=> Random(x))
      /\ \A x, y : /\ HeldRow(x, y)' = HeldRow(x, y)
                   /\ HeldMask(x, y)' = HeldMask(x, y)
                   /\ AloneWith(x, y)' = AloneWith(x, y)
  BY <1>1, BatchStays
<1>3. TypesHold' /\ BatchIsUnfinished' /\ TurnsAreTaken'
  BY <1>1, <1>2 DEF EInv, TypesHold, BatchIsUnfinished, TurnsAreTaken
<1>4. \A i \in Rows' : StopsAreTrue(i)' /\ DrawsAreOwn(i)'
  BY <1>1, <1>2 DEF EInv, StopsAreTrue, DrawsAreOwn
<1>5. pc' = "decode" => \A j \in DOMAIN active' : RowIsOwn(j)'
  BY <1>1, <1>2 DEF EInv, RowIsOwn
<1>6. QED BY <1>1, <1>2, <1>3, <1>4, <1>5 DEF EInv

\* A refused batch leaves everything as it was.
LEMMA RejectKeeps == ASSUME EInv, Reject PROVE EInv'
<1>1. /\ pc = "prefill" /\ pc' = "raised" /\ requests' = requests
      /\ UNCHANGED <<generated, finish, active, draws, used, turn>>
  BY DEF Reject
<1>2. /\ Rows' = Rows
      /\ \A x : (Fits(x)' <=> Fits(x)) /\ (Seeded(x)' <=> Seeded(x)) /\ (Random(x)' <=> Random(x))
  BY <1>1, BatchStays
<1>3. TypesHold' /\ BatchIsUnfinished' /\ TurnsAreTaken'
  BY <1>1, <1>2 DEF EInv, TypesHold, BatchIsUnfinished, TurnsAreTaken
<1>4. \A i \in Rows' : StopsAreTrue(i)' /\ DrawsAreOwn(i)'
  BY <1>1, <1>2 DEF EInv, StopsAreTrue, DrawsAreOwn
<1>5. QED BY <1>1, <1>2, <1>3, <1>4 DEF EInv

\* The decoding loop keeps its books and its rows straight, for every batch.
THEOREM EngineInvariance == Spec => []EInv
<1>1. EInv /\ [Next]_vars => EInv'
  BY RejectKeeps, PrefillKeeps, TurnKeeps, StutterKeeps DEF Next, Finished
<1>2. QED BY InitEInv, <1>1, PTL DEF Spec

\* Batching is invisible: each prediction is made from the request's own text
\* at its own positions, as when it is decoded alone.
THEOREM BatchingIsInvisible == Spec => []SeesOnlyItself
<1>1. EInv => SeesOnlyItself
  <2> SUFFICES ASSUME EInv, pc = "decode", NEW j \in DOMAIN active
               PROVE  logits[j] = Alone(active[j])
    BY DEF SeesOnlyItself
  <2>1. logits[j] = AloneWith(active[j], generated[active[j]])
    BY DEF EInv, RowIsOwn
  <2>2. BatchHolds /\ active[j] \in Rows /\ generated[active[j]] \in Seq(Written)
    <3>1. BatchHolds /\ active[j] \in Rows
      BY TypesGive DEF EInv
    <3>2. QED BY <3>1 DEF EInv, TypesHold
  <2>3. QED BY <2>1, <2>2, AloneIs
<1>2. QED BY EngineInvariance, <1>1, PTL

\* A seeded request's n-th token is its own generator's n-th draw, whoever else
\* is in the batch.
THEOREM SeedsAreIndependent == Spec => []SeededDrawsAreOwn
<1>1. EInv => SeededDrawsAreOwn
  BY DEF EInv, DrawsAreOwn, SeededDrawsAreOwn
<1>2. QED BY EngineInvariance, <1>1, PTL

\* The reasons returned are true of the tokens, and the loop's bound never cuts a
\* row off.
THEOREM StopsAreToldTruly == Spec => []ReasonsAreTrue
<1>1. EInv => ReasonsAreTrue
  <2> SUFFICES ASSUME EInv, pc = "done", NEW i \in Rows
      PROVE  /\ finish[i] # "none"
             /\ Len(generated[i]) \in 1..requests[i].max
             /\ PromptLen(i) + Len(generated[i]) <= MaxContext
             /\ Reason(i) = "stop" <=> requests[i].stopOnEos /\ Last(generated[i]).eos
             /\ Reason(i) = "length" => Len(generated[i]) = requests[i].max
             /\ requests[i].stopOnEos => \A n \in DOMAIN Text(i) : ~Text(i)[n].eos
    BY DEF ReasonsAreTrue
  <2>1. /\ finish[i] # "none" /\ StopsAreTrue(i)
        /\ generated[i] \in Seq(Written) /\ finish[i] \in {"none", "stop", "length"}
    BY DEF EInv, TypesHold
  <2>2. BatchHolds
    BY TypesGive DEF EInv
  <2>3. Reason(i) = finish[i] /\ Last(generated[i]) = generated[i][Len(generated[i])]
    BY <2>1 DEF Reason, Last
  <2>4. /\ Fits(i)
        /\ Len(generated[i]) \in 1..requests[i].max
        /\ finish[i] = "stop" <=> /\ requests[i].stopOnEos
                                  /\ generated[i][Len(generated[i])].eos
        /\ finish[i] = "length" => Len(generated[i]) = requests[i].max
        /\ requests[i].stopOnEos =>
              \A n \in DOMAIN generated[i] :
                  n # Len(generated[i]) => ~generated[i][n].eos
    BY <2>1 DEF StopsAreTrue
  <2>5. PromptLen(i) \in Nat /\ requests[i].max \in Nat /\ Len(generated[i]) \in Nat
    BY <2>1, <2>2, AskedFor, ContextAssumption
  <2>6. PromptLen(i) + Len(generated[i]) <= MaxContext
    BY <2>4, <2>5, ContextAssumption DEF Fits
  <2>7. ASSUME requests[i].stopOnEos, NEW n \in DOMAIN Text(i)
        PROVE  ~Text(i)[n].eos
    <3> DEFINE g == generated[i]
               size == Len(g)
    <3>1. DOMAIN g = 1..size /\ size \in Nat /\ size >= 1
      BY <2>1, <2>4, <2>5, LenProperties
    <3>2. CASE finish[i] = "stop"
      <4>1. Text(i) = SubSeq(g, 1, size - 1)
        BY <2>3, <3>2 DEF Text, Front
      <4> HIDE DEF g, size
      <4>2. n \in 1..(size - 1) /\ Text(i)[n] = g[n]
        BY <2>7, <3>1, <4>1
      <4>3. n \in DOMAIN g /\ n # size
        BY <3>1, <4>2
      <4>4. QED BY <2>4, <2>7, <4>2, <4>3 DEF g, size
    <3>3. CASE finish[i] # "stop"
      <4>1. Text(i) = g
        BY <2>3, <3>3 DEF Text
      <4>2. ~g[size].eos
        BY <2>4, <2>7, <3>3
      <4>3. QED BY <2>4, <2>7, <4>1, <4>2
    <3>4. QED BY <3>2, <3>3
  <2>8. QED BY <2>1, <2>3, <2>4, <2>6, <2>7
<1>2. QED BY EngineInvariance, <1>1, PTL
=============================================================================
