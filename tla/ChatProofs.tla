----------------------------- MODULE ChatProofs -----------------------------
(***************************************************************************)
(* Theorems about what is made of chats.  Collation: a training step       *)
(* learns the answer and nothing else, for any tokenizer merges, batches,  *)
(* budget and padding.  Decoding: a completion never shows the batch it    *)
(* was decoded in, for any prompts, replies, vocabularies, batch sizes and *)
(* numbers of samples.                                                     *)
(***************************************************************************)
EXTENDS Collation, Decoding, ListLemmas

-----------------------------------------------------------------------------
(* The tokenizer.                                                          *)

\* f[n] is the tokens of the first n pieces.
Reads(f, n, text) ==
    f = [i \in 0..n |-> IF i = 0 THEN <<>> ELSE Merged(f[i - 1], text[i])]

\* Every text has its tokens.
LEMMA ReadingExists == ASSUME NEW text, NEW count \in Nat PROVE \E f : Reads(f, count, text)
<1> DEFINE bad == {n \in Nat : ~ \E f : Reads(f, n, text)}
<1> SUFFICES ASSUME bad # {} PROVE FALSE
  OBVIOUS
<1>1. bad \subseteq Nat
  OBVIOUS
<1> DEFINE m == Min(bad)
<1>2. m \in bad /\ m \in Nat /\ \A o \in bad : m <= o
  <2> HIDE DEF bad
  <2>1. QED BY <1>1, LeastIs
<1> HIDE DEF m
<1>3. m # 0
  <2> SUFFICES ASSUME m = 0 PROVE FALSE
    OBVIOUS
  <2> DEFINE g == [n \in 0..0 |-> <<>>]
  <2>1. Reads(g, 0, text)
    BY DEF Reads
  <2> HIDE DEF g
  <2>2. QED BY <1>2, <2>1
<1>4. m - 1 \in Nat /\ m - 1 \notin bad
  <2>1. m - 1 \in Nat /\ ~(m <= m - 1)
    BY <1>2, <1>3
  <2> HIDE DEF bad
  <2>2. QED BY <1>2, <2>1
<1>5. PICK f : Reads(f, m - 1, text)
  BY <1>4
<1> DEFINE here == Merged(f[m - 1], text[m])
           g == [n \in 0..m |-> IF n < m THEN f[n] ELSE here]
<1> HIDE DEF here
<1>6. /\ g = [n \in 0..m |-> g[n]]
      /\ g[m] = here /\ \A n \in 0..(m - 1) : g[n] = f[n]
  BY <1>2, <1>3
<1> HIDE DEF g
<1>7. ASSUME NEW n \in 0..m
      PROVE  g[n] = IF n = 0 THEN <<>> ELSE Merged(g[n - 1], text[n])
  <2>1. CASE n = m
    <3>1. n # 0 /\ n - 1 \in 0..(m - 1)
      BY <1>2, <1>3, <2>1
    <3>2. QED BY <1>6, <2>1, <3>1 DEF here
  <2>2. CASE n # m
    <3>1. n \in 0..(m - 1) /\ (n = 0 \/ n - 1 \in 0..(m - 1))
      BY <1>2, <2>2
    <3>2. f[n] = IF n = 0 THEN <<>> ELSE Merged(f[n - 1], text[n])
      BY <1>5, <3>1 DEF Reads
    <3>3. QED BY <1>6, <3>1, <3>2
  <2>3. QED BY <2>1, <2>2
<1>8. Reads(g, m, text)
  BY <1>6, <1>7 DEF Reads
<1>9. QED BY <1>2, <1>8

\* It reads a text without looking ahead.
LEMMA ReadingAgrees ==
    ASSUME NEW m \in Nat, NEW n \in Nat, m <= n, NEW s, NEW t, \A i \in 1..m : s[i] = t[i],
           NEW f, Reads(f, m, s), NEW g, Reads(g, n, t)
    PROVE  \A i \in 0..m : f[i] = g[i]
<1> DEFINE bad == {i \in 0..m : f[i] # g[i]}
<1> SUFFICES ASSUME bad # {} PROVE FALSE
  OBVIOUS
<1> DEFINE l == Min(bad)
<1>1. l \in bad /\ l \in 0..m /\ \A o \in bad : l <= o
  <2>1. bad \subseteq Nat /\ bad \subseteq 0..m
    OBVIOUS
  <2> HIDE DEF bad
  <2>2. QED BY <2>1, LeastIs
<1> HIDE DEF l, bad
<1> l \in 0..m /\ l \in 0..n
  BY <1>1
<1>2. /\ f[l] = IF l = 0 THEN <<>> ELSE Merged(f[l - 1], s[l])
      /\ g[l] = IF l = 0 THEN <<>> ELSE Merged(g[l - 1], t[l])
  BY DEF Reads
<1>3. l # 0 => f[l - 1] = g[l - 1] /\ s[l] = t[l]
  <2> SUFFICES ASSUME l # 0 PROVE f[l - 1] = g[l - 1] /\ s[l] = t[l]
    OBVIOUS
  <2>1. l - 1 \in 0..m /\ ~(l <= l - 1) /\ l \in 1..m
    BY <1>1
  <2>2. QED BY <1>1, <2>1 DEF bad
<1>4. f[l] = g[l]
  BY <1>2, <1>3
<1>5. QED BY <1>1, <1>4 DEF bad

\* The tokens of the first n pieces.
Read(text, n) == Encode(SubSeq(text, 1, n))

\* Encode reads a text piece by piece.
LEMMA ReadIs ==
    ASSUME NEW X, NEW text \in Seq(X)
    PROVE  /\ Len(text) \in Nat
           /\ Read(text, 0) = <<>>
           /\ \A n \in 1..Len(text) : Read(text, n) = Merged(Read(text, n - 1), text[n])
           /\ Read(text, Len(text)) = Encode(text)
<1> DEFINE l == Len(text)
<1>1. l \in Nat /\ SubSeq(text, 1, l) = text
  OBVIOUS
<1>2. PICK f : Reads(f, l, text)
  BY <1>1, ReadingExists
<1>3. ASSUME NEW n \in 0..l PROVE Read(text, n) = f[n]
  <2> DEFINE t == SubSeq(text, 1, n)
  <2>1. n \in Nat /\ n <= l /\ Len(t) = n /\ \A i \in 1..n : t[i] = text[i]
    BY <1>1
  <2> HIDE DEF t, l
  <2>2. PICK g : Reads(g, n, t)
    BY <2>1, ReadingExists
  <2> DEFINE tokens == CHOOSE h : h = [i \in 0..n |-> IF i = 0 THEN <<>>
                                                ELSE Merged(h[i - 1], t[i])]
  <2>3. Encode(t) = tokens[n]
    BY <2>1, Zenon DEF Encode
  <2>4. Reads(tokens, n, t)
    BY <2>2 DEF Reads
  <2> HIDE DEF tokens
  <2>5. \A i \in 0..n : tokens[i] = f[i]
    BY <1>1, <1>2, <2>1, <2>4, ReadingAgrees
  <2>6. n \in 0..n
    BY <2>1
  <2>7. QED BY <2>3, <2>5, <2>6 DEF Read, t
<1>4. \A n \in 0..l : f[n] = IF n = 0 THEN <<>> ELSE Merged(f[n - 1], text[n])
  BY <1>2 DEF Reads
<1>5. Read(text, 0) = <<>>
  <2>1. 0 \in 0..l
    BY <1>1
  <2>2. QED BY <1>3, <1>4, <2>1
<1>6. ASSUME NEW n \in 1..l PROVE Read(text, n) = Merged(Read(text, n - 1), text[n])
  <2>1. n \in 0..l /\ n - 1 \in 0..l /\ n # 0
    BY <1>1
  <2>2. QED BY <1>3, <1>4, <2>1
<1>7. Read(text, l) = Encode(text)
  BY <1>1 DEF Read
<1>8. QED BY <1>1, <1>5, <1>6, <1>7

\* Later tokens leave the earlier ones alone, but for the last, which may grow.
Extends(u, v) ==
    /\ Len(u) <= Len(v)
    /\ \A i \in 1..(Len(u) - 1) : v[i] = u[i]
    /\ u # <<>> => \/ v[Len(u)] = u[Len(u)]
                    \/ Len(v[Len(u)]) > Len(u[Len(u)])

\* A piece goes behind the last token, or into it.
LEMMA MergedIs ==
    ASSUME NEW X, NEW u \in Seq(Seq(X)), NoneEmpty(u), NEW x \in X
    PROVE  /\ Merged(u, x) \in Seq(Seq(X)) /\ NoneEmpty(Merged(u, x)) /\ Merged(u, x) # <<>>
           /\ FlattenSeq(Merged(u, x)) = Append(FlattenSeq(u), x)
           /\ \/ /\ Len(Merged(u, x)) = Len(u) + 1
                 /\ \A i \in 1..Len(u) : Merged(u, x)[i] = u[i]
              \/ /\ Len(Merged(u, x)) = Len(u) /\ Len(u) # 0
                 /\ \A i \in 1..(Len(u) - 1) : Merged(u, x)[i] = u[i]
                 /\ Len(Merged(u, x)[Len(u)]) > Len(u[Len(u)])
<1> DEFINE U == Seq(X)
           n == Len(u)
           v == Merged(u, x)
<1>1. u \in Seq(U) /\ n \in Nat /\ <<x>> \in U /\ <<x>> # <<>> /\ FlattenSeq(u) \in U
  <2>1. FlattenSeq(u) \in U
    BY FlattenIn
  <2>2. QED BY <2>1
<1>2. CASE v = Append(u, <<x>>)
  <2>1. FlattenSeq(v) = FlattenSeq(u) \o <<x>>
    BY <1>1, <1>2, FlattenAppend
  <2>2. FlattenSeq(u) \o <<x>> = Append(FlattenSeq(u), x)
    BY <1>1, AppendIsConcat
  <2> HIDE DEF v, U
  <2>3. /\ v \in Seq(U) /\ Len(v) = n + 1 /\ v[n + 1] = <<x>> /\ \A i \in 1..n : v[i] = u[i]
    BY <1>1, <1>2, AppendProperties
  <2>4. NoneEmpty(v) /\ v # <<>>
    <3>1. \A i \in 1..(n + 1) : i \in 1..n \/ i = n + 1
      BY <1>1
    <3>2. \A i \in 1..n : v[i] # <<>>
      BY <2>3 DEF NoneEmpty
    <3>3. v # <<>>
      BY <1>1, <2>3
    <3>4. QED BY <1>1, <2>3, <3>1, <3>2, <3>3 DEF NoneEmpty
  <2>5. QED BY <2>1, <2>2, <2>3, <2>4 DEF v, U
<1>3. CASE v # Append(u, <<x>>)
  <2> DEFINE front == Front(u)
             last == Last(u)
             more == Append(last, x)
  <2>1. u # <<>> /\ v = Append(front, more)
    BY <1>3 DEF Merged
  <2>2. n # 0 /\ last = u[n] /\ front = SubSeq(u, 1, n - 1)
    BY <1>1, <2>1 DEF Last, Front
  <2>3. /\ front \in Seq(U) /\ Len(front) = n - 1 /\ n - 1 \in Nat
        /\ \A i \in 1..(n - 1) : front[i] = u[i]
    <3> HIDE DEF U
    <3>1. QED BY <1>1, <2>2
  <2>4. last \in U
    <3> HIDE DEF U
    <3>1. QED BY <1>1, <2>2
  <2>5. more \in U /\ Len(more) = Len(last) + 1 /\ Len(last) \in Nat /\ more # <<>>
    <3> HIDE DEF last
    <3>1. QED BY <2>4, AppendProperties
  <2>6. u = Append(front, last)
    <3> HIDE DEF U, last, front
    <3>1. QED BY <1>1, <2>2, <2>3, <2>4
  <2>7. FlattenSeq(u) = FlattenSeq(front) \o last /\ FlattenSeq(v) = FlattenSeq(front) \o more
    BY <2>1, <2>3, <2>4, <2>5, <2>6, FlattenAppend
  <2>8. FlattenSeq(front) \in U
    BY <2>3, FlattenIn
  <2> HIDE DEF front, last
  <2>9. FlattenSeq(front) \o more = Append(FlattenSeq(front) \o last, x)
    BY <2>4, <2>8
  <2> HIDE DEF more, U, v
  <2>10. /\ v \in Seq(U) /\ Len(v) = n /\ v[n] = more /\ \A i \in 1..(n - 1) : v[i] = u[i]
    BY <1>1, <2>1, <2>3, <2>5, AppendProperties
  <2>11. NoneEmpty(v) /\ v # <<>>
    <3>1. \A i \in 1..n : i \in 1..(n - 1) \/ i = n
      BY <1>1
    <3>2. \A i \in 1..(n - 1) : i \in 1..n /\ v[i] # <<>>
      BY <1>1, <2>10 DEF NoneEmpty
    <3>3. v # <<>>
      BY <1>1, <2>2, <2>10
    <3>4. QED BY <2>5, <2>10, <3>1, <3>2, <3>3 DEF NoneEmpty
  <2>12. Len(v[n]) > Len(u[n])
    BY <2>2, <2>5, <2>10
  <2>13. QED BY <2>2, <2>7, <2>9, <2>10, <2>11, <2>12 DEF v, U
<1>4. QED BY <1>2, <1>3

\* The tokens of a text are its pieces, in order.
LEMMA TokensAre ==
    ASSUME NEW X, NEW text \in Seq(X), NEW n \in 0..Len(text)
    PROVE  /\ Read(text, n) \in Seq(Seq(X)) /\ NoneEmpty(Read(text, n))
           /\ FlattenSeq(Read(text, n)) = SubSeq(text, 1, n)
           /\ n # 0 => Read(text, n) # <<>>
<1> DEFINE good(i) == /\ Read(text, i) \in Seq(Seq(X)) /\ NoneEmpty(Read(text, i))
                      /\ FlattenSeq(Read(text, i)) = SubSeq(text, 1, i)
                      /\ i # 0 => Read(text, i) # <<>>
           bad == {i \in 0..Len(text) : ~good(i)}
           m == Min(bad)
<1>1. ASSUME bad # {} PROVE FALSE
  <2>1. m \in bad /\ m \in 0..Len(text) /\ \A o \in bad : m <= o
    <3>1. bad \subseteq Nat /\ bad \subseteq 0..Len(text)
      OBVIOUS
    <3> HIDE DEF bad
    <3>2. QED BY <1>1, <3>1, LeastIs
  <2> HIDE DEF m
  <2>2. m # 0
    <3>1. Read(text, 0) = <<>>
      BY ReadIs
    <3>2. <<>> \in Seq(Seq(X)) /\ NoneEmpty(<<>>) /\ SubSeq(text, 1, 0) = <<>>
      BY DEF NoneEmpty
    <3>3. FlattenSeq(<<>>) = <<>>
      BY Len(<<>>) = 0, Zenon DEF FlattenSeq
    <3>4. good(0)
      BY <3>1, <3>2, <3>3
    <3>5. QED BY <2>1, <3>4
  <2>3. m - 1 \in 0..Len(text) /\ m \in 1..Len(text) /\ ~(m <= m - 1)
    BY <2>1, <2>2
  <2>4. good(m - 1)
    <3> HIDE DEF good
    <3>1. m - 1 \notin bad
      <4> HIDE DEF bad
      <4>1. QED BY <2>1, <2>3
    <3>2. QED BY <2>3, <3>1
  <2> DEFINE u == Read(text, m - 1)
             x == text[m]
  <2>5. x \in X /\ Read(text, m) = Merged(u, x)
    BY <2>3, ReadIs
  <2>6. u \in Seq(Seq(X)) /\ NoneEmpty(u) /\ FlattenSeq(u) = SubSeq(text, 1, m - 1)
    BY <2>4
  <2>7. SubSeq(text, 1, m) = Append(SubSeq(text, 1, m - 1), x)
    BY <2>3
  <2> HIDE DEF u, x
  <2>8. /\ Merged(u, x) \in Seq(Seq(X)) /\ NoneEmpty(Merged(u, x)) /\ Merged(u, x) # <<>>
        /\ FlattenSeq(Merged(u, x)) = Append(FlattenSeq(u), x)
    BY <2>5, <2>6, MergedIs
  <2>9. good(m)
    BY <2>5, <2>6, <2>7, <2>8
  <2>10. QED BY <2>1, <2>9
<1>2. good(n)
  BY <1>1
<1>3. QED BY <1>2

\* Reading on keeps the tokens before the last.
LEMMA ReadGrows ==
    ASSUME NEW X, NEW text \in Seq(X), NEW a \in 0..Len(text)
    PROVE  Extends(Read(text, a), Encode(text))
<1> DEFINE bad == {i \in a..Len(text) : ~Extends(Read(text, a), Read(text, i))}
           m == Min(bad)
<1>1. ASSUME bad # {} PROVE FALSE
  <2>1. m \in bad /\ m \in a..Len(text) /\ \A o \in bad : m <= o
    <3>1. bad \subseteq Nat /\ bad \subseteq a..Len(text)
      OBVIOUS
    <3> HIDE DEF bad
    <3>2. QED BY <1>1, <3>1, LeastIs
  <2> HIDE DEF m
  <2>2. m # a
    <3>1. Read(text, a) \in Seq(Seq(X))
      BY TokensAre
    <3>2. Len(Read(text, a)) \in Nat
      BY <3>1
    <3>3. Extends(Read(text, a), Read(text, a))
      BY <3>2 DEF Extends
    <3>4. QED BY <2>1, <3>3
  <2>3. m - 1 \in a..Len(text) /\ m - 1 \in 0..Len(text) /\ m \in 1..Len(text) /\ ~(m <= m - 1)
    BY <2>1, <2>2
  <2> DEFINE u == Read(text, a)
             w == Read(text, m - 1)
             x == text[m]
             v == Merged(w, x)
  <2>4. Extends(u, w)
    <3>1. m - 1 \notin bad
      <4> HIDE DEF bad
      <4>1. QED BY <2>1, <2>3
    <3>2. QED BY <2>3, <3>1
  <2>5. x \in X /\ Read(text, m) = v
    BY <2>3, ReadIs
  <2>6. u \in Seq(Seq(X)) /\ w \in Seq(Seq(X)) /\ NoneEmpty(w)
    BY <2>3, TokensAre
  <2> HIDE DEF u, w, x
  <2>7. /\ v \in Seq(Seq(X))
        /\ \/ Len(v) = Len(w) + 1 /\ \A i \in 1..Len(w) : v[i] = w[i]
           \/ /\ Len(v) = Len(w) /\ Len(w) # 0
              /\ \A i \in 1..(Len(w) - 1) : v[i] = w[i]
              /\ Len(v[Len(w)]) > Len(w[Len(w)])
    BY <2>5, <2>6, MergedIs
  <2> DEFINE l == Len(u)
             n == Len(w)
  <2>8. l \in Nat /\ n \in Nat /\ Len(v) \in Nat /\ (u # <<>> => l # 0)
    BY <2>6, <2>7
  <2>9. /\ \A i \in 1..l : Len(u[i]) \in Nat
        /\ \A i \in 1..n : Len(w[i]) \in Nat
        /\ \A i \in 1..Len(v) : Len(v[i]) \in Nat
    <3>1. /\ \A i \in 1..l : u[i] \in Seq(X)
          /\ \A i \in 1..n : w[i] \in Seq(X)
          /\ \A i \in 1..Len(v) : v[i] \in Seq(X)
      BY <2>6, <2>7
    <3>2. QED BY <3>1
  <2> HIDE DEF v, l, n
  <2>10. /\ l <= n
         /\ \A i \in 1..(l - 1) : w[i] = u[i]
         /\ u # <<>> => w[l] = u[l] \/ Len(w[l]) > Len(u[l])
    BY <2>4 DEF Extends, l, n
  <2>11. \/ Len(v) = n + 1 /\ \A i \in 1..n : v[i] = w[i]
         \/ /\ Len(v) = n /\ n # 0
            /\ \A i \in 1..(n - 1) : v[i] = w[i]
            /\ Len(v[n]) > Len(w[n])
    BY <2>7 DEF n
  <2>12. l <= Len(v) /\ \A i \in 1..(l - 1) : v[i] = u[i]
    BY <2>8, <2>10, <2>11
  <2>13. u # <<>> => v[l] = u[l] \/ Len(v[l]) > Len(u[l])
    <3> SUFFICES ASSUME u # <<>> PROVE v[l] = u[l] \/ Len(v[l]) > Len(u[l])
      OBVIOUS
    <3>1. l \in 1..n /\ l \in 1..l
      BY <2>8, <2>10
    <3>2. CASE v[l] = w[l]
      BY <2>10, <3>2
    <3>3. CASE v[l] # w[l]
      <4>1. l = n /\ Len(v[l]) > Len(w[l]) /\ l \in 1..Len(v)
        BY <2>8, <2>11, <3>1, <3>3
      <4>2. CASE w[l] = u[l]
        BY <4>1, <4>2
      <4>3. CASE w[l] # u[l]
        <5>1. Len(w[l]) > Len(u[l])
          BY <2>10, <4>3
        <5>2. QED BY <2>9, <3>1, <4>1, <5>1
      <4>4. QED BY <4>2, <4>3
    <3>4. QED BY <3>2, <3>3
  <2>14. Extends(u, v)
    BY <2>12, <2>13 DEF Extends, l
  <2>15. QED BY <2>1, <2>5, <2>14 DEF u
<1>2. Len(text) \in Nat /\ Len(text) \in a..Len(text)
  OBVIOUS
<1>3. Extends(Read(text, a), Read(text, Len(text)))
  BY <1>1, <1>2
<1>4. QED BY <1>3, ReadIs

\* Where the pieces of the first c tokens end.
End(v, c) == Len(FlatTo(v, c))

\* The tokens shared with the prompt are those that end within it, however a token
\* merges across the boundary.
LEMMA SplitIsExact ==
    ASSUME NEW X, NEW text \in Seq(X), NEW prompt \in Seq(X), IsPrefix(prompt, text)
    PROVE  /\ CommonPrefixLength(Encode(prompt), Encode(text)) \in 0..Len(Encode(prompt))
           /\ \A c \in 1..Len(Encode(text)) :
                 c <= CommonPrefixLength(Encode(prompt), Encode(text)) <=>
                     End(Encode(text), c) <= Len(prompt)
<1> DEFINE p == Len(prompt)
           u == Encode(prompt)
           v == Encode(text)
           l == Len(u)
           differs == {i \in 1..l : i > Len(v) \/ u[i] # v[i]}
           k == CommonPrefixLength(u, v)
<1>1. p \in 0..Len(text) /\ SubSeq(text, 1, p) = prompt
  <2>1. SubSeq(prompt, 1, Len(prompt)) = prompt /\ Len(prompt) \in Nat /\ Len(text) \in Nat
    OBVIOUS
  <2>2. QED BY <2>1 DEF IsPrefix
<1>2. u = Read(text, p)
  BY <1>1 DEF Read
<1>3. Extends(u, v)
  BY <1>1, <1>2, ReadGrows
<1>4. /\ u \in Seq(Seq(X)) /\ NoneEmpty(u) /\ FlattenSeq(u) = prompt
      /\ v \in Seq(Seq(X)) /\ NoneEmpty(v)
  <2>1. Len(text) \in 0..Len(text) /\ v = Read(text, Len(text))
    BY ReadIs
  <2>2. QED BY <1>1, <1>2, <2>1, TokensAre
<1> HIDE DEF u, v
<1>5. /\ l \in Nat /\ Len(v) \in Nat /\ l <= Len(v) /\ (l # 0 <=> u # <<>>)
      /\ \A i \in 1..(l - 1) : v[i] = u[i]
      /\ l # 0 => v[l] = u[l] \/ Len(v[l]) > Len(u[l])
  BY <1>3, <1>4 DEF Extends
<1>6. differs \subseteq {l}
  <2> SUFFICES ASSUME NEW i \in differs PROVE i = l
    OBVIOUS
  <2>1. i \in 1..l /\ (i > Len(v) \/ u[i] # v[i])
    OBVIOUS
  <2> HIDE DEF differs, l
  <2>2. QED BY <1>5, <2>1
<1>7. k = IF differs = {} THEN l ELSE l - 1
  <2>1. CASE differs = {}
    BY <2>1 DEF CommonPrefixLength
  <2>2. CASE differs # {}
    <3>1. differs = {l}
      BY <1>6, <2>2
    <3> DEFINE least == CHOOSE i \in differs : \A j \in differs : i <= j
    <3>2. least = l
      <4> HIDE DEF differs, l
      <4>1. l <= l
        BY <1>5
      <4>2. QED BY <3>1, <4>1
    <3>3. k = IF differs = {} THEN l
              ELSE least - 1
      BY Zenon DEF CommonPrefixLength
    <3> HIDE DEF differs, k, l, least
    <3>4. QED BY <2>2, <3>2, <3>3
  <2>3. QED BY <2>1, <2>2
<1>8. differs = {} => (l # 0 => v[l] = u[l])
  <2> SUFFICES ASSUME differs = {}, l # 0 PROVE v[l] = u[l]
    OBVIOUS
  <2>1. l \in 1..l /\ l \notin differs
    BY <1>5
  <2>2. QED BY <2>1
<1>9. differs # {} => l # 0 /\ Len(v[l]) > Len(u[l])
  <2> SUFFICES ASSUME differs # {} PROVE l # 0 /\ Len(v[l]) > Len(u[l])
    OBVIOUS
  <2>1. l \in differs /\ l \in 1..l
    BY <1>6
  <2>2. l # 0 /\ u[l] # v[l]
    BY <1>5, <2>1
  <2>3. QED BY <1>5, <2>2
<1> HIDE DEF differs, k
<1>10. k \in 0..l /\ \A i \in 1..k : v[i] = u[i]
  <2>1. k \in 0..l
    BY <1>5, <1>7, <1>9
  <2>2. \A i \in 1..k : i \in 1..(l - 1) \/ (i = l /\ differs = {} /\ l # 0)
    BY <1>5, <1>7
  <2>3. QED BY <1>5, <1>8, <2>1, <2>2
<1>11. \A c \in 0..l : End(u, c) \in Nat /\ End(u, c) <= p
  <2> SUFFICES ASSUME NEW c \in 0..l PROVE End(u, c) \in Nat /\ End(u, c) <= p
    OBVIOUS
  <2>1. l \in 0..l /\ c <= l
    BY <1>5
  <2>2. Len(FlatTo(u, c)) \in Nat /\ Len(FlatTo(u, c)) <= Len(FlatTo(u, l))
    BY <1>4, <2>1, FlatGrows
  <2>3. FlatTo(u, l) = prompt
    BY <1>4, FlatIs
  <2>4. QED BY <2>2, <2>3 DEF End
<1>12. ASSUME NEW c \in 1..Len(v), c <= k PROVE End(v, c) <= p
  <2>1. c \in Nat /\ c <= Len(u) /\ c <= Len(v) /\ \A i \in 1..c : v[i] = u[i]
    BY <1>5, <1>10, <1>12
  <2> DEFINE U == Seq(X)
  <2>2. u \in Seq(U) /\ v \in Seq(U)
    BY <1>4
  <2> HIDE DEF U
  <2>3. FlatTo(v, c) = FlatTo(u, c)
    BY <2>1, <2>2, FlatAgrees
  <2>4. c \in 0..l
    BY <2>1
  <2>5. QED BY <1>11, <2>3, <2>4 DEF End
<1>13. End(v, l) >= p /\ End(v, l) \in Nat /\ (k = l - 1 => End(v, l) > p)
  <2>1. FlatTo(u, l) = prompt
    BY <1>4, FlatIs
  <2>2. CASE k = l
    <3>1. \A i \in 1..l : v[i] = u[i]
      BY <1>10, <2>2
    <3> DEFINE U == Seq(X)
    <3>2. u \in Seq(U) /\ v \in Seq(U)
      BY <1>4
    <3> HIDE DEF U
    <3>3. FlatTo(v, l) = FlatTo(u, l)
      BY <1>5, <3>1, <3>2, FlatAgrees
    <3>4. QED BY <1>1, <1>5, <2>1, <2>2, <3>3 DEF End
  <2>3. CASE k # l
    <3>1. l # 0 /\ k = l - 1 /\ Len(v[l]) > Len(u[l]) /\ l \in 1..Len(v) /\ l \in 1..Len(u)
          /\ l - 1 \in Nat
      BY <1>5, <1>7, <1>9, <2>3
    <3>2. \A i \in 1..(l - 1) : v[i] = u[i]
      BY <1>5
    <3> DEFINE U == Seq(X)
    <3>3. u \in Seq(U) /\ v \in Seq(U) /\ v[l] \in U /\ u[l] \in U
      BY <1>4, <3>1
    <3>4. FlatTo(v, l - 1) = FlatTo(u, l - 1)
      <4> HIDE DEF U
      <4>1. l - 1 <= Len(u) /\ l - 1 <= Len(v)
        BY <1>5
      <4>2. QED BY <3>1, <3>2, <3>3, <4>1, FlatAgrees
    <3>5. FlatTo(v, l) = FlatTo(v, l - 1) \o v[l] /\ FlatTo(u, l) = FlatTo(u, l - 1) \o u[l]
          /\ FlatTo(u, l - 1) \in U
      <4>1. l - 1 \in 0..Len(u)
        BY <3>1
      <4>2. QED BY <1>4, <3>1, <4>1, FlatIs
    <3> DEFINE a == FlatTo(u, l - 1)  b == v[l]  d == u[l]
    <3>6. a \in Seq(X) /\ b \in Seq(X) /\ d \in Seq(X) /\ Len(b) > Len(d)
      BY <3>1, <3>3, <3>5
    <3> HIDE DEF a, b, d
    <3>7. Len(a \o b) > Len(a \o d) /\ Len(a \o b) \in Nat /\ Len(a \o d) \in Nat
      BY <3>6
    <3>8. End(v, l) = Len(a \o b)
      BY <3>4, <3>5 DEF End, a, b
    <3>9. p = Len(a \o d)
      BY <2>1, <3>5 DEF a, d
    <3> HIDE DEF p
    <3>10. QED BY <3>7, <3>8, <3>9
  <2>4. QED BY <2>2, <2>3
<1>14. ASSUME NEW c \in 1..Len(v), ~(c <= k) PROVE End(v, c) > p
  <2>1. CASE c = l
    <3>1. k = l - 1
      BY <1>7, <1>14, <2>1
    <3>2. QED BY <1>13, <2>1, <3>1
  <2>2. CASE c # l
    <3>1. l < c /\ l \in 0..Len(v) /\ c \in 0..Len(v) /\ l <= c
      BY <1>5, <1>7, <1>9, <1>14, <2>2
    <3>2. Len(FlatTo(v, l)) < Len(FlatTo(v, c)) /\ Len(FlatTo(v, c)) \in Nat
      BY <1>4, <3>1, FlatGrows
    <3>3. QED BY <1>1, <1>13, <3>2 DEF End
  <2>3. QED BY <2>1, <2>2
<1>15. \A c \in 1..Len(v) : End(v, c) \in Nat
  <2> SUFFICES ASSUME NEW c \in 1..Len(v) PROVE End(v, c) \in Nat
    OBVIOUS
  <2>1. c \in 0..Len(v) /\ c <= c
    OBVIOUS
  <2>2. QED BY <1>4, <2>1, FlatGrows DEF End
<1>16. \A c \in 1..Len(v) : c <= k <=> End(v, c) <= p
  BY <1>1, <1>12, <1>14, <1>15
<1>17. QED BY <1>10, <1>16 DEF u, v, k

-----------------------------------------------------------------------------
(* The chat templates.                                                     *)

\* The pieces the templates put around what is said.
Marks == {"start", "newline", "end", "header", "system", "user", "assistant", "system prompt"}

\* A conversation in pieces of X.
Talk(X) == [role : X, content : Seq(X)]

\* Both templates make a text of a conversation.
LEMMA RenderingIs ==
    ASSUME NEW X, Marks \subseteq X, NEW messages \in Seq(Talk(X)), NEW open \in BOOLEAN
    PROVE  /\ RenderChatml(messages, open) \in Seq(X) /\ RenderOwn(messages, open) \in Seq(X)
           /\ open => RenderChatml(messages, open) # <<>> /\ RenderOwn(messages, open) # <<>>
<1> DEFINE n == Len(messages)
           chatml == [i \in DOMAIN messages |->
                         <<"start", messages[i].role, "newline">>
                           \o messages[i].content \o <<"end", "newline">>]
           own == [i \in DOMAIN messages |->
                      <<"header", messages[i].role>> \o messages[i].content \o <<"end">>]
           chatmlOpen == IF open THEN <<"start", "assistant", "newline">> ELSE <<>>
           ownOpen == IF open THEN <<"header", "assistant">> ELSE <<>>
<1>1. n \in Nat /\ DOMAIN messages = 1..n /\ \A i \in 1..n : messages[i] \in Talk(X)
  BY LenProperties, ElementOfSeq
<1>2. \A i \in 1..n : messages[i].role \in X /\ messages[i].content \in Seq(X)
  BY <1>1 DEF Talk
<1>3. /\ "start" \in X /\ "newline" \in X /\ "end" \in X /\ "header" \in X /\ "assistant" \in X
  BY DEF Marks
<1>4. \A i \in 1..n : chatml[i] \in Seq(X) /\ own[i] \in Seq(X)
  <2> SUFFICES ASSUME NEW i \in 1..n PROVE chatml[i] \in Seq(X) /\ own[i] \in Seq(X)
    OBVIOUS
  <2> DEFINE r == messages[i].role
             c == messages[i].content
  <2>1. r \in X /\ c \in Seq(X)
    BY <1>2
  <2>2. chatml[i] = <<"start", r, "newline">> \o c \o <<"end", "newline">>
        /\ own[i] = <<"header", r>> \o c \o <<"end">>
    BY <1>1
  <2> HIDE DEF r, c
  <2>3. <<"start", r, "newline">> \in Seq(X) /\ <<"end", "newline">> \in Seq(X)
        /\ <<"header", r>> \in Seq(X) /\ <<"end">> \in Seq(X)
    BY <1>3, <2>1
  <2>4. <<"start", r, "newline">> \o c \o <<"end", "newline">> \in Seq(X)
        /\ <<"header", r>> \o c \o <<"end">> \in Seq(X)
    BY <2>1, <2>3, ConcatProperties
  <2>5. QED BY <2>2, <2>4
<1>5. chatml \in Seq(Seq(X)) /\ own \in Seq(Seq(X))
  <2> DEFINE U == Seq(X)
  <2>1. chatml = [i \in 1..n |-> chatml[i]] /\ own = [i \in 1..n |-> own[i]]
    BY <1>1
  <2> HIDE DEF chatml, own
  <2>2. \A i \in 1..n : chatml[i] \in U /\ own[i] \in U
    BY <1>4
  <2> HIDE DEF U, n
  <2>3. chatml \in Seq(U) /\ own \in Seq(U)
    BY <1>1, <2>1, <2>2
  <2>4. QED BY <2>3 DEF U
<1>6. FlattenSeq(chatml) \in Seq(X) /\ FlattenSeq(own) \in Seq(X)
  <2> HIDE DEF chatml, own
  <2>1. QED BY <1>5, FlattenIn
<1>7. /\ chatmlOpen \in Seq(X) /\ ownOpen \in Seq(X)
      /\ open => Len(chatmlOpen) = 3 /\ Len(ownOpen) = 2
  BY <1>3
<1>8. /\ RenderChatml(messages, open) = FlattenSeq(chatml) \o chatmlOpen
      /\ RenderOwn(messages, open) = FlattenSeq(own) \o ownOpen
  BY DEF RenderChatml, RenderOwn
<1> HIDE DEF chatml, own, chatmlOpen, ownOpen
<1>9. /\ FlattenSeq(chatml) \o chatmlOpen \in Seq(X) /\ FlattenSeq(own) \o ownOpen \in Seq(X)
      /\ Len(FlattenSeq(chatml) \o chatmlOpen) = Len(FlattenSeq(chatml)) + Len(chatmlOpen)
      /\ Len(FlattenSeq(own) \o ownOpen) = Len(FlattenSeq(own)) + Len(ownOpen)
      /\ Len(FlattenSeq(chatml)) \in Nat /\ Len(FlattenSeq(own)) \in Nat
  BY <1>6, <1>7, ConcatProperties, LenProperties
<1>10. open => /\ FlattenSeq(chatml) \o chatmlOpen # <<>>
               /\ FlattenSeq(own) \o ownOpen # <<>>
  <2> SUFFICES ASSUME open
               PROVE  /\ FlattenSeq(chatml) \o chatmlOpen # <<>>
                      /\ FlattenSeq(own) \o ownOpen # <<>>
    OBVIOUS
  <2> DEFINE a == FlattenSeq(chatml) \o chatmlOpen
             b == FlattenSeq(own) \o ownOpen
  <2>1. Len(a) # 0 /\ Len(b) # 0
    <3>1. Len(chatmlOpen) = 3 /\ Len(ownOpen) = 2
      BY <1>7
    <3>2. QED BY <1>9, <3>1
  <2> HIDE DEF a, b
  <2>2. a # <<>> /\ b # <<>>
    BY <2>1
  <2>3. QED BY <2>2 DEF a, b
<1>11. QED BY <1>8, <1>9, <1>10

\* Short sequences.
LEMMA TuplesAre ==
    ASSUME NEW X, NEW x \in X, NEW y \in X
    PROVE  /\ <<x>> \in Seq(X) /\ Len(<<x>>) = 1
           /\ <<x, y>> \in Seq(X) /\ Len(<<x, y>>) = 2
<1>1. QED OBVIOUS

\* What a prompt and an answer are rendered to, under every template.
LEMMA TextsAre ==
    ASSUME NEW X, Marks \subseteq X, NEW template, NEW prompt \in Seq(X), NEW completion \in Seq(X)
    PROVE  /\ PromptText(template, prompt) \in Seq(X) /\ PromptText(template, prompt) # <<>>
           /\ FullText(template, prompt, completion) \in Seq(X)
<1> DEFINE M == Talk(X)
<1>1. /\ "system" \in X /\ "user" \in X /\ "assistant" \in X /\ "system prompt" \in X
  BY DEF Marks
<1>2. /\ [role |-> "system", content |-> <<"system prompt">>] \in M
      /\ [role |-> "user", content |-> prompt] \in M
      /\ [role |-> "assistant", content |-> completion] \in M
  <2>1. <<"system prompt">> \in Seq(X)
    BY <1>1, TuplesAre
  <2>2. QED BY <1>1, <2>1 DEF Talk
<1> HIDE DEF M
<1>3. Messages(prompt) \in Seq(M) /\ Len(Messages(prompt)) = 2
  BY <1>2, TuplesAre DEF Messages
<1>4. Answered(prompt, completion) \in Seq(M) /\ Len(Answered(prompt, completion)) = 3
  <2> DEFINE m == Messages(prompt)
             last == [role |-> "assistant", content |-> completion]
  <2>1. m \in Seq(M) /\ Len(m) = 2 /\ last \in M /\ Answered(prompt, completion) = Append(m, last)
    BY <1>2, <1>3 DEF Answered
  <2> HIDE DEF m, last
  <2>2. Append(m, last) \in Seq(M) /\ Len(Append(m, last)) = Len(m) + 1
    BY <2>1, AppendProperties
  <2>3. Len(m) + 1 = 3
    BY <2>1
  <2>4. QED BY <2>1, <2>2, <2>3
<1>5. Tail(Answered(prompt, completion)) \in Seq(M)
  BY <1>4, HeadTailProperties, Len(<<>>) = 0
<1>6. \A t \in Seq(M), open \in BOOLEAN :
         /\ RenderChatml(t, open) \in Seq(X) /\ RenderOwn(t, open) \in Seq(X)
         /\ open => RenderChatml(t, open) # <<>> /\ RenderOwn(t, open) # <<>>
  BY RenderingIs DEF M
<1>7. /\ PromptText(template, prompt) \in {RenderChatml(Messages(prompt), TRUE),
                                         RenderOwn(Messages(prompt), TRUE)}
  BY <1>3 DEF PromptText, Rendered
<1>8. FullText(template, prompt, completion) \in
         {RenderChatml(Answered(prompt, completion), FALSE),
          RenderOwn(Answered(prompt, completion), FALSE),
          RenderChatml(Tail(Answered(prompt, completion)), FALSE)}
  BY <1>4 DEF FullText, Rendered
<1>9. QED BY <1>3, <1>4, <1>5, <1>6, <1>7, <1>8

\* Lists that are empty add nothing.
LEMMA FlatStops ==
    ASSUME NEW T, NEW s \in Seq(Seq(T)), NEW a \in 0..Len(s), NEW b \in a..Len(s),
           \A i \in (a + 1)..b : s[i] = <<>>
    PROVE  FlatTo(s, b) = FlatTo(s, a)
<1> DEFINE bad == {c \in a..b : FlatTo(s, c) # FlatTo(s, a)}
           m == Min(bad)
<1> SUFFICES ASSUME bad # {} PROVE FALSE
  OBVIOUS
<1>1. m \in bad /\ m \in a..b /\ \A o \in bad : m <= o
  <2>1. bad \subseteq Nat /\ bad \subseteq a..b
    OBVIOUS
  <2> HIDE DEF bad
  <2>2. QED BY <2>1, LeastIs
<1> HIDE DEF m
<1>2. m # a
  BY <1>1
<1>3. /\ m - 1 \in a..b /\ m - 1 \in 0..Len(s) /\ m \in 1..Len(s) /\ m \in (a + 1)..b
      /\ ~(m <= m - 1)
  BY <1>1, <1>2
<1>4. FlatTo(s, m - 1) = FlatTo(s, a)
  BY <1>1, <1>3
<1>5. FlatTo(s, m) = FlatTo(s, m - 1) \o s[m] /\ s[m] = <<>> /\ FlatTo(s, m - 1) \in Seq(T)
  BY <1>3, FlatIs
<1>6. FlatTo(s, m) = FlatTo(s, a)
  BY <1>4, <1>5, ConcatEmptySeq
<1>7. QED BY <1>1, <1>6

\* If all but one list are empty, that one is left.
LEMMA OneList ==
    ASSUME NEW T, NEW s \in Seq(Seq(T)), NEW n \in 1..Len(s),
           \A i \in 1..Len(s) : i # n => s[i] = <<>>
    PROVE  FlattenSeq(s) = s[n]
<1>1. n - 1 \in 0..Len(s) /\ 0 \in 0..Len(s) /\ n \in 0..Len(s) /\ Len(s) \in n..Len(s)
      /\ Len(s) \in Nat
  OBVIOUS
<1>2. FlatTo(s, n - 1) = FlatTo(s, 0)
  <2>1. \A i \in (0 + 1)..(n - 1) : i \in 1..Len(s) /\ i # n
    BY <1>1
  <2>2. QED BY <1>1, <2>1, FlatStops
<1>3. FlatTo(s, Len(s)) = FlatTo(s, n)
  <2>1. \A i \in (n + 1)..Len(s) : i \in 1..Len(s) /\ i # n
    BY <1>1
  <2>2. QED BY <1>1, <2>1, FlatStops
<1>4. FlatTo(s, 0) = <<>> /\ FlatTo(s, n) = FlatTo(s, n - 1) \o s[n] /\ FlatTo(s, Len(s)) = FlattenSeq(s)
  BY FlatIs
<1>5. s[n] \in Seq(T)
  OBVIOUS
<1>6. QED BY <1>2, <1>3, <1>4, <1>5, ConcatEmptySeq

\* What is in the lists is in the joined list, and nothing else.
LEMMA FlatHolds ==
    ASSUME NEW T, NEW s \in Seq(Seq(T)), NEW x
    PROVE  x \in ToSet(FlattenSeq(s)) <=> \E i \in 1..Len(s) : x \in ToSet(s[i])
<1> DEFINE holds(c) == x \in ToSet(FlatTo(s, c)) <=> \E i \in 1..c : x \in ToSet(s[i])
           bad == {c \in 0..Len(s) : ~holds(c)}
           m == Min(bad)
<1>1. ASSUME bad # {} PROVE FALSE
  <2>1. m \in bad /\ m \in 0..Len(s) /\ \A o \in bad : m <= o
    <3>1. bad \subseteq Nat /\ bad \subseteq 0..Len(s)
      OBVIOUS
    <3> HIDE DEF bad
    <3>2. QED BY <1>1, <3>1, LeastIs
  <2> HIDE DEF m
  <2>2. m # 0
    <3>1. ToSet(<<>>) = {}
      BY DEF ToSet
    <3>2. FlatTo(s, 0) = <<>>
      BY FlatIs
    <3>3. \A i : i \notin 1..0
      OBVIOUS
    <3>4. holds(0)
      BY <3>1, <3>2, <3>3
    <3>5. QED BY <2>1, <3>4
  <2>3. m - 1 \in 0..Len(s) /\ m \in 1..Len(s) /\ ~(m <= m - 1)
    BY <2>1, <2>2
  <2>4. holds(m - 1)
    <3> HIDE DEF holds
    <3>1. m - 1 \notin bad
      <4> HIDE DEF bad
      <4>1. QED BY <2>1, <2>3
    <3>2. QED BY <2>3, <3>1
  <2> DEFINE u == FlatTo(s, m - 1)
             w == s[m]
  <2>5. u \in Seq(T) /\ w \in Seq(T) /\ FlatTo(s, m) = u \o w
    <3>1. s[m] \in Seq(T)
      BY <2>3
    <3>2. QED BY <2>3, <3>1, FlatIs
  <2> HIDE DEF u, w
  <2>6. ToSet(u \o w) = ToSet(u) \cup ToSet(w)
    <3>1. /\ DOMAIN u = 1..Len(u) /\ DOMAIN w = 1..Len(w) /\ Len(u) \in Nat /\ Len(w) \in Nat
          /\ DOMAIN (u \o w) = 1..(Len(u) + Len(w))
          /\ \A i \in 1..Len(u) : (u \o w)[i] = u[i]
          /\ \A i \in 1..Len(w) : (u \o w)[Len(u) + i] = w[i]
      BY <2>5
    <3>2. \A i \in 1..(Len(u) + Len(w)) : i \in 1..Len(u) \/ (i - Len(u) \in 1..Len(w) /\ i = Len(u) + (i - Len(u)))
      BY <3>1
    <3>3. \A i \in 1..Len(u) : i \in 1..(Len(u) + Len(w))
      BY <3>1
    <3>4. \A i \in 1..Len(w) : Len(u) + i \in 1..(Len(u) + Len(w))
      BY <3>1
    <3>5. ToSet(u \o w) \subseteq ToSet(u) \cup ToSet(w)
      BY <3>1, <3>2 DEF ToSet
    <3>6. ToSet(u) \subseteq ToSet(u \o w) /\ ToSet(w) \subseteq ToSet(u \o w)
      BY <3>1, <3>3, <3>4 DEF ToSet
    <3>7. QED BY <3>5, <3>6
  <2>7. \A i : i \in 1..m <=> i \in 1..(m - 1) \/ i = m
    BY <2>3
  <2>8. holds(m)
    BY <2>4, <2>5, <2>6, <2>7 DEF u, w
  <2>9. QED BY <2>1, <2>8
<1>2. Len(s) \in 0..Len(s)
  OBVIOUS
<1>3. holds(Len(s))
  BY <1>1, <1>2
<1>4. QED BY <1>3, FlatIs

-----------------------------------------------------------------------------
(* The rows a training step gets.                                          *)

\* A feature of the text, of which the prompt is a prefix: its tokens from the split on
\* are those that reach behind the prompt, and they are the text's unless cut.
Marked(f, prompt, text) ==
    /\ f = [ids |-> f.ids, promptLen |-> f.promptLen]
    /\ \E X : f.ids \in Seq(Seq(X)) /\ prompt \in Seq(X) /\ text \in Seq(X)
    /\ NoneEmpty(f.ids)
    /\ f.promptLen \in Nat /\ f.promptLen < Len(f.ids)
    /\ \A c \in 1..Len(f.ids) : (c <= f.promptLen) <=> (End(f.ids, c) <= Len(prompt))
    /\ IsPrefix(FlattenSeq(f.ids), text)
    /\ End(f.ids, Len(f.ids)) = Len(text) \/ Len(f.ids) = TokenBudget

\* A refused feature has no tokens.
LEMMA RefusedIs == Len(Refused.ids) = 0 /\ Refused.ids = <<>>
  BY DEF Refused

\* encoded_split marks a text.
LEMMA FeatureMarks ==
    ASSUME NEW template, NEW prompt, NEW answer, IsText(prompt), IsText(answer),
           Feature(template, prompt, answer) # Refused
    PROVE  /\ Marked(Feature(template, prompt, answer), PromptText(template, prompt),
                     FullText(template, prompt, answer))
           /\ Feature(template, prompt, answer).ids = Encode(FullText(template, prompt, answer))
<1> DEFINE before == PromptText(template, prompt)
           text == FullText(template, prompt, answer)
           f == Feature(template, prompt, answer)
           X == Marks \cup ToSet(prompt) \cup ToSet(answer)
<1>1. prompt \in Seq(X) /\ answer \in Seq(X) /\ Marks \subseteq X
  <2>1. prompt \in Seq(ToSet(prompt)) /\ answer \in Seq(ToSet(answer))
    BY DEF IsText
  <2>2. ToSet(prompt) \subseteq X /\ ToSet(answer) \subseteq X
    OBVIOUS
  <2> HIDE DEF X
  <2>3. QED BY <2>1, <2>2, SeqMonotonic DEF X
<1> HIDE DEF X
<1>2. before \in Seq(X) /\ text \in Seq(X)
  BY <1>1, TextsAre
<1>3. /\ IsPrefix(before, text) /\ PromptLen(before, text) < Len(Encode(text))
      /\ f = [ids |-> Encode(text), promptLen |-> PromptLen(before, text)]
  <2>1. ~(template = "broken" \/ ~IsPrefix(before, text) \/ PromptLen(before, text) >= Len(Encode(text)))
    BY DEF Feature, EncodedSplit
  <2>2. f = [ids |-> Encode(text), promptLen |-> PromptLen(before, text)]
    BY <2>1 DEF Feature, EncodedSplit
  <2> HIDE DEF before, text, f
  <2>3. Encode(text) \in Seq(Seq(X))
    BY <1>2, ReadIs, TokensAre
  <2>4. Len(Encode(text)) \in Nat
    BY <2>3
  <2>5. PromptLen(before, text) \in 0..Len(Encode(before))
    BY <1>2, <2>1, SplitIsExact DEF PromptLen
  <2>6. QED BY <2>1, <2>2, <2>4, <2>5
<1> HIDE DEF before, text, f
<1> DEFINE ids == Encode(text)
           l == PromptLen(before, text)
<1>4. /\ ids \in Seq(Seq(X)) /\ NoneEmpty(ids) /\ FlattenSeq(ids) = text
  <2>1. Len(text) \in 0..Len(text) /\ ids = Read(text, Len(text)) /\ SubSeq(text, 1, Len(text)) = text
    BY <1>2, ReadIs
  <2>2. QED BY <1>2, <2>1, TokensAre
<1>5. /\ l \in Nat
      /\ \A c \in 1..Len(ids) : (c <= l) <=> (End(ids, c) <= Len(before))
  BY <1>2, <1>3, SplitIsExact DEF PromptLen
<1> HIDE DEF ids, l
<1>6. f.ids = ids /\ f.promptLen = l /\ l < Len(ids)
  BY <1>3 DEF ids, l
<1>7. IsPrefix(text, text)
  <2>1. Len(text) \in Nat
    BY <1>2
  <2>2. QED BY <2>1 DEF IsPrefix
<1>8. FlatTo(ids, Len(ids)) = FlattenSeq(ids)
  BY <1>4, FlatIs
<1>9. Marked(f, before, text)
  BY <1>2, <1>3, <1>4, <1>5, <1>6, <1>7, <1>8 DEF Marked, End, ids, l
<1>10. QED BY <1>6, <1>9 DEF before, text, f, ids

\* A text within the budget.
Whole(ids) ==
    Len(FlattenSeq(SubSeq(ids, 1, IF Len(ids) < TokenBudget THEN Len(ids) ELSE TokenBudget)))

\* _truncate marks what the budget leaves of it, and drops a side exactly if that has no
\* piece of the answer.
LEMMA TruncatedMarks ==
    ASSUME NEW f, NEW prompt, NEW text, Marked(f, prompt, text)
    PROVE  /\ Truncated(f) # Refused <=> Whole(f.ids) > Len(prompt)
           /\ Truncated(f) # Refused => /\ Marked(Truncated(f), prompt, text)
                                        /\ Len(Truncated(f).ids) <= TokenBudget
<1> DEFINE ids == f.ids
           n == Len(ids)
           l == f.promptLen
           cut == SubSeq(ids, 1, TokenBudget)
<1>1. PICK X : ids \in Seq(Seq(X)) /\ prompt \in Seq(X) /\ text \in Seq(X)
  BY DEF Marked
<1> DEFINE U == Seq(X)
<1>2. /\ NoneEmpty(ids) /\ l \in Nat /\ l < n /\ n \in Nat /\ TokenBudget \in Nat /\ TokenBudget # 0
      /\ \A c \in 1..n : (c <= l) <=> (End(ids, c) <= Len(prompt))
      /\ IsPrefix(FlattenSeq(ids), text) /\ (End(ids, n) = Len(text) \/ n = TokenBudget)
      /\ f = [ids |-> ids, promptLen |-> l]
  BY <1>1, CollationAssumption DEF Marked
<1>3. \A c \in 0..n : End(ids, c) \in Nat
  <2>1. \A c \in 0..n : c <= c
    BY <1>2
  <2>2. QED BY <1>1, <2>1, FlatGrows DEF End
<1>4. Len(prompt) \in Nat
  BY <1>1
<1>5. f # Refused
  <2>1. Len(Refused.ids) = 0
    BY RefusedIs
  <2>2. n # 0
    BY <1>2
  <2>3. QED BY <2>1, <2>2
<1>6. CASE n <= TokenBudget
  <2>1. Truncated(f) = f
    <3>1. n <= TokenBudget /\ ~(n > TokenBudget)
      BY <1>2, <1>6
    <3>2. QED BY <3>1, Zenon DEF Truncated
  <2>2. SubSeq(ids, 1, IF n < TokenBudget THEN n ELSE TokenBudget) = SubSeq(ids, 1, n)
    BY <1>2, <1>6
  <2>3. Whole(ids) = End(ids, n)
    BY <2>2 DEF Whole, End, FlatTo
  <2>4. n \in 1..n /\ ~(n <= l)
    BY <1>2
  <2>5. Whole(ids) > Len(prompt)
    BY <1>2, <1>3, <1>4, <2>3, <2>4
  <2>6. QED BY <1>5, <1>6, <2>1, <2>5
<1>7. CASE n > TokenBudget
  <2>1. TokenBudget \in 1..n
    BY <1>2, <1>7
  <2>2. Whole(ids) = End(ids, TokenBudget)
    <3>1. (IF n < TokenBudget THEN n ELSE TokenBudget) = TokenBudget
      BY <1>2, <1>7
    <3>2. QED BY <3>1 DEF Whole, End, FlatTo
  <2>3. (TokenBudget <= l) <=> ~(Whole(ids) > Len(prompt))
    BY <1>2, <1>3, <1>4, <2>1, <2>2
  <2>4. CASE l >= TokenBudget
    <3>1. Truncated(f) = Refused
      BY <1>2, <1>7, <2>4 DEF Truncated
    <3>2. QED BY <1>2, <2>3, <2>4, <3>1
  <2>5. CASE l < TokenBudget
    <3>1. Truncated(f) = [ids |-> cut, promptLen |-> l]
      <4>1. ~(n <= TokenBudget) /\ ~(l >= TokenBudget)
        BY <1>2, <1>7, <2>5
      <4>2. Truncated(f) = [f EXCEPT !.ids = SubSeq(@, 1, TokenBudget)]
        BY <4>1 DEF Truncated
      <4>3. QED BY <1>2, <4>2
    <3> DEFINE g == Truncated(f)
    <3>2. g.ids = cut /\ g.promptLen = l
      <4> HIDE DEF cut, l
      <4>1. g = [ids |-> cut, promptLen |-> l]
        BY <3>1
      <4> HIDE DEF g
      <4>2. QED BY <4>1
    <3> HIDE DEF g
    <3>3. /\ cut \in Seq(U) /\ Len(cut) = TokenBudget /\ \A i \in 1..TokenBudget : cut[i] = ids[i]
      <4>1. ids \in Seq(U)
        BY <1>1
      <4> HIDE DEF U, ids
      <4>2. QED BY <2>1, <4>1, SubSeqProperties DEF n
    <3>4. NoneEmpty(cut)
      BY <1>2, <2>1, <3>3 DEF NoneEmpty
    <3>5. ASSUME NEW c \in 1..TokenBudget PROVE End(cut, c) = End(ids, c)
      <4>1. c \in Nat /\ c <= Len(cut) /\ c <= Len(ids) /\ \A i \in 1..c : cut[i] = ids[i]
        BY <1>2, <2>1, <3>3
      <4>2. ids \in Seq(U)
        BY <1>1
      <4> HIDE DEF U, cut, ids
      <4>3. FlatTo(cut, c) = FlatTo(ids, c)
        BY <3>3, <4>1, <4>2, FlatAgrees
      <4>4. QED BY <4>3 DEF End
    <3>6. \A c \in 1..Len(cut) : (c <= l) <=> (End(cut, c) <= Len(prompt))
      <4>1. \A c \in 1..TokenBudget : c \in 1..n
        BY <1>2, <2>1
      <4> HIDE DEF cut, ids, l, n
      <4>2. QED BY <1>2, <3>3, <3>5, <4>1
    <3>7. IsPrefix(FlattenSeq(cut), text)
      <4>1. /\ TokenBudget \in 0..Len(ids) /\ Len(ids) \in 0..Len(ids) /\ TokenBudget <= Len(ids)
        BY <1>2, <2>1
      <4>2. IsPrefix(FlatTo(ids, TokenBudget), FlatTo(ids, n)) /\ FlatTo(ids, n) = FlattenSeq(ids)
            /\ FlatTo(ids, TokenBudget) \in Seq(X) /\ FlattenSeq(ids) \in Seq(X)
        <5>1. IsPrefix(FlatTo(ids, TokenBudget), FlatTo(ids, n))
          BY <1>1, <4>1, FlatGrows
        <5>2. QED BY <1>1, <4>1, <5>1, FlatIs
      <4>3. FlatTo(ids, TokenBudget) = FlattenSeq(cut)
        BY DEF FlatTo
      <4> DEFINE u == FlattenSeq(cut)  v == FlattenSeq(ids)
      <4>4. u \in Seq(X) /\ v \in Seq(X) /\ IsPrefix(u, v) /\ IsPrefix(v, text)
        BY <1>2, <4>2, <4>3
      <4> HIDE DEF u, v, U
      <4>5. /\ Len(u) \in Nat /\ Len(v) \in Nat /\ Len(text) \in Nat /\ Len(u) <= Len(v) /\ Len(v) <= Len(text)
            /\ \A i \in 1..Len(u) : SubSeq(u, 1, Len(u))[i] = u[i] /\ SubSeq(v, 1, Len(u))[i] = v[i]
                                    /\ SubSeq(text, 1, Len(u))[i] = text[i]
            /\ \A i \in 1..Len(v) : SubSeq(v, 1, Len(v))[i] = v[i] /\ SubSeq(text, 1, Len(v))[i] = text[i]
        BY <1>1, <4>4 DEF IsPrefix
      <4>6. \A i \in 1..Len(u) : i \in 1..Len(v) /\ u[i] = text[i]
        BY <4>4, <4>5 DEF IsPrefix
      <4>7. SubSeq(u, 1, Len(u)) = SubSeq(text, 1, Len(u))
        BY <1>1, <4>4, <4>5, <4>6
      <4>8. QED BY <4>5, <4>7 DEF IsPrefix, u
    <3>8. g # Refused
      <4>1. Len(g.ids) # 0 /\ Len(Refused.ids) = 0
        BY <1>2, <3>2, <3>3, RefusedIs
      <4>2. QED BY <4>1
    <3>9. /\ g = [ids |-> g.ids, promptLen |-> g.promptLen] /\ g.promptLen < Len(g.ids)
          /\ Len(g.ids) = TokenBudget
      BY <2>5, <3>1, <3>2, <3>3 DEF g
    <3>10. Marked(g, prompt, text)
      <4> HIDE DEF cut, U
      <4>1. g.ids \in Seq(Seq(X))
        BY <3>2, <3>3 DEF U
      <4>2. QED BY <1>1, <1>2, <3>2, <3>4, <3>6, <3>7, <3>9, <4>1 DEF Marked
    <3>11. QED BY <1>2, <2>3, <2>5, <3>8, <3>9, <3>10 DEF g
  <2>6. QED BY <1>2, <2>4, <2>5
<1>8. QED BY <1>2, <1>6, <1>7

\* The width holds every feature and is a multiple.
LEMMA PadWidthIs ==
    ASSUME NEW features, features # {}, \A f \in features : Len(f.ids) \in 0..TokenBudget,
           NEW multiple \in Nat \ {0}
    PROVE  /\ PadWidth(features, multiple) \in Nat
           /\ PadWidth(features, multiple) % multiple = 0
           /\ \A f \in features : Len(f.ids) <= PadWidth(features, multiple)
<1> DEFINE lengths == {Len(f.ids) : f \in features}
           longest == CHOOSE n \in lengths : \A f \in features : Len(f.ids) <= n
           up == longest + multiple - 1
           q == up \div multiple
           x == q * multiple
<1>1. longest \in 0..TokenBudget /\ \A f \in features : Len(f.ids) <= longest
  <2>1. TokenBudget \in Nat /\ lengths \subseteq 0..TokenBudget /\ lengths # {}
    BY CollationAssumption
  <2>2. \E n \in lengths : \A o \in lengths : o <= n
    <3> HIDE DEF lengths
    <3>1. QED BY <2>1, GreatestIs
  <2>3. \E n \in lengths : \A f \in features : Len(f.ids) <= n
    BY <2>2
  <2>4. longest \in lengths /\ \A f \in features : Len(f.ids) <= longest
    <3> HIDE DEF lengths
    <3>1. QED BY <2>3
  <2>5. QED BY <2>1, <2>4
<1>2. PadWidth(features, multiple) = x
  BY DEF PadWidth
<1> HIDE DEF longest
<1>3. longest \in Nat /\ up \in Nat
  BY <1>1, CollationAssumption
<1> DEFINE r == up % multiple
           y == multiple * q
<1>4. q \in Nat /\ r \in 0..(multiple - 1) /\ up = y + r
  <2> HIDE DEF up
  <2>1. QED BY <1>3
<1>5. x = y /\ x \in Nat /\ up = longest + multiple - 1
  <2> HIDE DEF up, q
  <2>1. x = y /\ x \in Nat
    BY <1>4
  <2>2. QED BY <2>1 DEF up
<1> HIDE DEF up, r, y
<1>6. longest <= x
  <2> HIDE DEF x, q
  <2>1. QED BY <1>3, <1>4, <1>5
<1>7. x % multiple = 0
  <2> DEFINE d == x \div multiple
             e == x % multiple
             z == multiple * d
             w == multiple * (q - d)
  <2>1. d \in Int /\ e \in 0..(multiple - 1) /\ x = z + e
    <3> HIDE DEF x, q
    <3>1. QED BY <1>5
  <2>2. w = x - z
    <3> HIDE DEF d
    <3>1. q \in Int /\ d \in Int
      BY <1>4, <2>1
    <3> HIDE DEF q
    <3>2. QED BY <3>1
  <2>3. w = e
    <3> HIDE DEF w, z, d, x, q
    <3>1. z \in Int
      BY <2>1 DEF z
    <3>2. QED BY <1>5, <2>1, <2>2, <3>1
  <2>4. q - d = 0
    <3> DEFINE h == q - d
    <3>1. h \in Int /\ w = multiple * h
      BY <1>4, <2>1
    <3> HIDE DEF h, w, e
    <3>2. ~(h >= 1)
      <4>1. h >= 1 => multiple * h >= multiple
        BY <3>1
      <4>2. QED BY <2>1, <2>3, <3>1, <4>1
    <3>3. ~(h <= -1)
      <4>1. h <= -1 => multiple * h <= -multiple
        BY <3>1
      <4>2. QED BY <2>1, <2>3, <3>1, <4>1
    <3>4. h = 0
      BY <3>1, <3>2, <3>3
    <3>5. QED BY <3>4 DEF h
  <2>5. w = 0
    <3> HIDE DEF q, d
    <3>1. QED BY <2>4
  <2>6. QED BY <2>3, <2>5
<1>8. QED BY <1>1, <1>2, <1>5, <1>6, <1>7, CollationAssumption

\* The columns of a row that a model sees.
Seen(row) == {c \in DOMAIN row.input : row.mask[c] = 1}

\* A row of one width learns the answer and nothing else.
Learns(row, prompt, text, width) ==
    /\ Len(row.input) = width
    /\ IsPrefix(FlattenSeq(SubSeq(row.input, 1, Cardinality(Seen(row)))), text)
    /\ Seen(row) = 1..Cardinality(Seen(row))
    /\ EndOf(row, Cardinality(Seen(row))) = Len(text) \/ Cardinality(Seen(row)) = TokenBudget
    /\ \A c \in DOMAIN row.input :
          row.labels[c] = IF c \in Seen(row) /\ EndOf(row, c) > Len(prompt)
                          THEN row.input[c] ELSE IgnoreIndex
    /\ \E c \in DOMAIN row.input : row.labels[c] # IgnoreIndex

\* Padding repeats its filler.
LEMMA PaddingIs ==
    ASSUME NEW n \in Nat, NEW T, NEW x \in T
    PROVE  /\ Padding(n, x) \in Seq(T) /\ Len(Padding(n, x)) = n
           /\ \A i \in 1..n : Padding(n, x)[i] = x
  BY DEF Padding

\* What stands where in one sequence behind another.
LEMMA BehindIs ==
    ASSUME NEW T, NEW a \in Seq(T), NEW b \in Seq(T)
    PROVE  /\ a \o b \in Seq(T) /\ Len(a \o b) = Len(a) + Len(b)
           /\ \A i \in 1..Len(a) : (a \o b)[i] = a[i]
           /\ \A i \in (Len(a) + 1)..(Len(a) + Len(b)) : (a \o b)[i] = b[i - Len(a)]
           /\ \A i \in 1..Len(b) : (a \o b)[Len(a) + i] = b[i]
  OBVIOUS

\* _stack labels what a marked feature marks.
LEMMA RowLearns ==
    ASSUME NEW f, NEW prompt, NEW text, Marked(f, prompt, text), Len(f.ids) <= TokenBudget,
           NEW width \in Nat, Len(f.ids) <= width, NEW item, NEW filler
    PROVE  /\ Learns(Stacked(item, f, width, filler), prompt, text, width)
           /\ Stacked(item, f, width, filler).item = item
<1> DEFINE ids == f.ids
           n == Len(ids)
           l == f.promptLen
           rest == width - n
           row == Stacked(item, f, width, filler)
           input == row.input
           mask == row.mask
           labels == row.labels
<1>1. PICK X : ids \in Seq(Seq(X)) /\ prompt \in Seq(X) /\ text \in Seq(X)
  BY DEF Marked
<1> DEFINE U == Seq(X)
           V == U \cup {filler, IgnoreIndex}
<1>2. /\ NoneEmpty(ids) /\ l \in Nat /\ l < n /\ n \in Nat /\ rest \in Nat
      /\ \A c \in 1..n : (c <= l) <=> (End(ids, c) <= Len(prompt))
      /\ IsPrefix(FlattenSeq(ids), text) /\ (End(ids, n) = Len(text) \/ n = TokenBudget)
  BY <1>1 DEF Marked
<1>3. ids \in Seq(V) /\ filler \in V /\ IgnoreIndex \in V /\ DOMAIN ids = 1..n
      /\ \A c \in 1..n : ids[c] \in V
  <2>1. ids \in Seq(U)
    BY <1>1
  <2> HIDE DEF U, ids
  <2>2. ids \in Seq(V)
    BY <2>1, SeqMonotonic
  <2> HIDE DEF V
  <2>3. DOMAIN ids = 1..n /\ \A c \in 1..n : ids[c] \in V
    BY <2>2
  <2>4. QED BY <2>2, <2>3 DEF V
<1>4. /\ row.item = item
      /\ input = ids \o Padding(rest, filler)
      /\ mask = Padding(n, 1) \o Padding(rest, 0)
      /\ labels = Labels(f) \o Padding(rest, IgnoreIndex)
  BY DEF Stacked
<1> HIDE DEF row, input, mask, labels, rest
<1>5. /\ input \in Seq(V) /\ Len(input) = n + rest
      /\ \A c \in 1..n : input[c] = ids[c]
  <2> HIDE DEF V, ids
  <2>1. Padding(rest, filler) \in Seq(V) /\ Len(Padding(rest, filler)) = rest
    BY <1>2, <1>3, PaddingIs
  <2> DEFINE p == Padding(rest, filler)
  <2> HIDE DEF p
  <2>2. p \in Seq(V) /\ Len(p) = rest /\ input = ids \o p
    BY <1>4, <2>1 DEF p
  <2>3. Len(ids) = n /\ DOMAIN ids = 1..n
    BY <1>3
  <2>4. QED BY <1>2, <1>3, <2>2, <2>3, BehindIs
<1>6. /\ \A c \in 1..n : mask[c] = 1
      /\ \A c \in (n + 1)..(n + rest) : mask[c] = 0
  <2> DEFINE p == Padding(n, 1)  z == Padding(rest, 0)
  <2>1. /\ p \in Seq(Nat) /\ Len(p) = n /\ \A i \in 1..n : p[i] = 1
        /\ z \in Seq(Nat) /\ Len(z) = rest /\ \A i \in 1..rest : z[i] = 0
    BY <1>2, PaddingIs
  <2> HIDE DEF p, z, n
  <2>2. mask = p \o z /\ \A c \in (n + 1)..(n + rest) : c - n \in 1..rest
    BY <1>2, <1>4 DEF p, z
  <2>3. /\ \A c \in 1..n : mask[c] = p[c]
        /\ \A c \in (n + 1)..(n + rest) : mask[c] = z[c - n]
    BY <2>1, <2>2, BehindIs
  <2>4. QED BY <1>2, <2>1, <2>2, <2>3
<1>7. /\ \A c \in 1..n : labels[c] = IF c <= l THEN IgnoreIndex ELSE ids[c]
      /\ \A c \in (n + 1)..(n + rest) : labels[c] = IgnoreIndex
  <2> DEFINE p == Labels(f)  z == Padding(rest, IgnoreIndex)
  <2>1. /\ z \in Seq(V) /\ Len(z) = rest /\ \A i \in 1..rest : z[i] = IgnoreIndex
    <3> HIDE DEF V
    <3>1. QED BY <1>2, <1>3, PaddingIs
  <2>2. p = [c \in 1..n |-> IF c <= l THEN IgnoreIndex ELSE ids[c]]
    BY <1>3 DEF Labels
  <2>3. p \in Seq(V) /\ Len(p) = n /\ \A c \in 1..n : p[c] = IF c <= l THEN IgnoreIndex ELSE ids[c]
    <3> HIDE DEF V, p, ids
    <3>1. \A c \in 1..n : (IF c <= l THEN IgnoreIndex ELSE ids[c]) \in V
      BY <1>3
    <3> HIDE DEF n
    <3>2. QED BY <1>2, <2>2, <3>1
  <2> HIDE DEF p, z, n, V
  <2>4. labels = p \o z /\ \A c \in (n + 1)..(n + rest) : c - n \in 1..rest
    BY <1>2, <1>4 DEF p, z
  <2>5. /\ \A c \in 1..n : labels[c] = p[c]
        /\ \A c \in (n + 1)..(n + rest) : labels[c] = z[c - n]
    BY <2>1, <2>3, <2>4, BehindIs
  <2>6. QED BY <1>2, <2>1, <2>3, <2>4, <2>5
<1> HIDE DEF ids, l
<1>8. DOMAIN input = 1..(n + rest) /\ width = n + rest
  <2>1. DOMAIN input = 1..Len(input)
    <3> HIDE DEF V
    <3>1. QED BY <1>5
  <2>2. width = n + rest
    BY <1>2 DEF rest
  <2>3. QED BY <1>5, <2>1, <2>2
<1>9. Seen(row) = 1..n
  <2>1. Seen(row) = {c \in 1..(n + rest) : mask[c] = 1}
    BY <1>8 DEF Seen, input, mask
  <2>2. \A c \in 1..(n + rest) : mask[c] = 1 <=> c \in 1..n
    <3>1. \A c \in 1..(n + rest) : c \in 1..n \/ (c \in (n + 1)..(n + rest) /\ c \notin 1..n)
      BY <1>2
    <3>2. QED BY <1>6, <3>1
  <2>3. 1..n \subseteq 1..(n + rest)
    BY <1>2
  <2>4. QED BY <2>1, <2>2, <2>3
<1>10. Cardinality(Seen(row)) = n
  <2>1. Cardinality(1..n) = n
    <3> HIDE DEF n
    <3>1. (IF 1 > n THEN 0 ELSE n - 1 + 1) = n
      BY <1>2
    <3>2. QED BY <1>2, <3>1, FS_Interval
  <2>2. QED BY <1>9, <2>1
<1>11. ASSUME NEW c \in 0..n PROVE FlatTo(input, c) = FlatTo(ids, c)
  <2>1. c \in Nat /\ c <= Len(input) /\ c <= Len(ids) /\ \A i \in 1..c : input[i] = ids[i]
    BY <1>2, <1>5
  <2> HIDE DEF V
  <2>2. QED BY <1>3, <1>5, <2>1, FlatAgrees
<1>12. \A c \in 0..n : EndOf(row, c) = End(ids, c)
  BY <1>11 DEF EndOf, End, FlatTo, input
<1>13. FlattenSeq(SubSeq(input, 1, n)) = FlattenSeq(ids)
  <2>1. n \in 0..n
    BY <1>2
  <2>2. FlatTo(ids, n) = FlattenSeq(ids)
    BY <1>1, FlatIs
  <2>3. QED BY <1>11, <2>1, <2>2 DEF FlatTo
<1>14. ASSUME NEW c \in 1..(n + rest)
       PROVE  labels[c] = IF c \in 1..n /\ EndOf(row, c) > Len(prompt) THEN input[c] ELSE IgnoreIndex
  <2>1. CASE c \in 1..n
    <3>1. EndOf(row, c) = End(ids, c) /\ End(ids, c) \in Nat /\ Len(prompt) \in Nat
      <4>1. c \in 0..n /\ c <= c /\ c \in 0..Len(ids)
        BY <1>2, <2>1
      <4>2. End(ids, c) \in Nat
        BY <1>1, <4>1, FlatGrows DEF End
      <4>3. QED BY <1>1, <1>12, <4>1, <4>2
    <3>2. EndOf(row, c) > Len(prompt) <=> ~(c <= l)
      BY <1>2, <2>1, <3>1
    <3>3. QED BY <1>5, <1>7, <2>1, <3>2
  <2>2. CASE c \notin 1..n
    <3>1. c \in (n + 1)..(n + rest)
      BY <1>2, <2>2
    <3>2. QED BY <1>7, <2>2, <3>1
  <2>3. QED BY <2>1, <2>2
<1>15. \E c \in 1..(n + rest) : labels[c] # IgnoreIndex
  <2>1. n \in 1..n /\ ~(n <= l) /\ n \in 1..(n + rest)
    BY <1>2
  <2>2. ids[n] # <<>>
    BY <2>1, <1>2 DEF NoneEmpty
  <2>3. QED BY <1>7, <2>1, <2>2 DEF IgnoreIndex
<1>16. EndOf(row, n) = Len(text) \/ n = TokenBudget
  <2>1. n \in 0..n
    BY <1>2
  <2>2. QED BY <1>2, <1>12, <2>1
<1>17. Learns(row, prompt, text, width)
  BY <1>2, <1>5, <1>8, <1>9, <1>10, <1>13, <1>14, <1>15, <1>16 DEF Learns, input, labels
<1>18. QED BY <1>4, <1>17 DEF row

\* A quotient and its remainder.
LEMMA QuotientIs ==
    ASSUME NEW h \in Nat \ {0}, NEW q \in Nat, NEW r \in 0..(h - 1)
    PROVE  /\ q * h + r \in Nat
           /\ (q * h + r) \div h = q
           /\ (q * h + r) % h = r
<1> DEFINE z == q * h
           x == z + r
           d == x \div h
           e == x % h
           w == h * d
           v == h * (q - d)
<1>1. z \in Nat /\ z = h * q
  OBVIOUS
<1> HIDE DEF z
<1>2. x \in Nat /\ x = z + r
  BY <1>1
<1> HIDE DEF x
<1>3. d \in Int /\ e \in 0..(h - 1) /\ x = w + e
  <2>1. x \in Nat
    BY <1>2
  <2>2. QED BY <2>1
<1> HIDE DEF e
<1>4. v = z - w /\ w \in Int /\ v \in Int
  <2> HIDE DEF d
  <2>1. QED BY <1>1, <1>3
<1>5. v = e - r
  <2> HIDE DEF v, w, d
  <2>1. QED BY <1>1, <1>2, <1>3, <1>4
<1>6. q - d = 0
  <2> DEFINE g == q - d
  <2>1. g \in Int /\ v = h * g
    BY <1>3
  <2> HIDE DEF g, v, d, w
  <2>2. ~(g >= 1)
    <3>1. g >= 1 => h * g >= h
      BY <2>1
    <3>2. QED BY <1>3, <1>5, <2>1, <3>1
  <2>3. ~(g <= -1)
    <3>1. g <= -1 => h * g <= -h
      BY <2>1
    <3>2. QED BY <1>3, <1>5, <2>1, <3>1
  <2>4. g = 0
    BY <2>1, <2>2, <2>3
  <2>5. QED BY <2>4 DEF g
<1>7. v = 0
  <2> HIDE DEF d
  <2>1. QED BY <1>6
<1>8. d = q /\ e = r
  <2> HIDE DEF d, v
  <2>1. QED BY <1>3, <1>5, <1>6, <1>7
<1>9. QED BY <1>2, <1>8 DEF x, z, e

\* The sides of an item, and the items of a batch.
SidesOf(kind) == IF kind = "pairs" THEN {"chosen", "rejected"} ELSE {"chosen"}

Items(kind, template, batch) ==
    IF kind = "pairs" THEN EncodePairs(template, batch) ELSE EncodeExamples(template, batch)

\* An item has a feature for each of its sides.
LEMMA ItemsAre ==
    ASSUME NEW kind, NEW template, NEW batch
    PROVE  /\ DOMAIN Items(kind, template, batch) = DOMAIN batch
           /\ \A i \in DOMAIN batch :
                 /\ DOMAIN Items(kind, template, batch)[i] = SidesOf(kind)
                 /\ \A s \in SidesOf(kind) :
                       Items(kind, template, batch)[i][s]
                           = Feature(template, batch[i].prompt, batch[i][s])
<1>1. CASE kind = "pairs"
  BY <1>1 DEF Items, SidesOf, EncodePairs
<1>2. CASE kind # "pairs"
  BY <1>2 DEF Items, SidesOf, EncodeExamples
<1>3. QED BY <1>1, <1>2

\* _prepare keeps exactly the items whose sides all fit.
LEMMA KeptIs ==
    ASSUME NEW n \in Nat, NEW fitted, DOMAIN fitted = 1..n
    PROVE  /\ KeptItems(fitted) \in Seq(1..n)
           /\ \A i : i \in ToSet(KeptItems(fitted)) <=>
                 i \in 1..n /\ \A side \in DOMAIN fitted[i] : fitted[i][side] # Refused
<1> DEFINE keep(i) == \A side \in DOMAIN fitted[i] : fitted[i][side] # Refused
           s == [i \in DOMAIN fitted |-> IF keep(i) THEN <<i>> ELSE <<>>]
           T == 1..n
<1>1. KeptItems(fitted) = FlattenSeq(s)
  BY DEF KeptItems
<1>2. s \in Seq(Seq(T)) /\ Len(s) = n
  <2>1. \A i \in T : (IF keep(i) THEN <<i>> ELSE <<>>) \in Seq(T)
    <3> HIDE DEF T, keep
    <3>1. QED BY TuplesAre
  <2>2. s = [i \in 1..n |-> IF keep(i) THEN <<i>> ELSE <<>>]
    OBVIOUS
  <2> DEFINE e(i) == IF keep(i) THEN <<i>> ELSE <<>>
  <2> HIDE DEF e, s
  <2>3. s = [i \in 1..n |-> e(i)] /\ \A i \in 1..n : e(i) \in Seq(T)
    BY <2>1, <2>2 DEF e
  <2> HIDE DEF T
  <2>4. QED BY <2>3
<1>3. \A i \in 1..n : ToSet(s[i]) = IF keep(i) THEN {i} ELSE {}
  <2>1. \A i \in 1..n : s[i] = IF keep(i) THEN <<i>> ELSE <<>>
    OBVIOUS
  <2>2. \A i : ToSet(<<i>>) = {i} /\ ToSet(<<>>) = {}
    BY DEF ToSet
  <2> HIDE DEF s, keep
  <2>3. QED BY <2>1, <2>2
<1>4. \A i : i \in ToSet(FlattenSeq(s)) <=> i \in 1..n /\ keep(i)
  <2> TAKE i
  <2> HIDE DEF s, keep
  <2>1. i \in ToSet(FlattenSeq(s)) <=> \E j \in 1..Len(s) : i \in ToSet(s[j])
    BY <1>2, FlatHolds
  <2>2. QED BY <1>2, <1>3, <2>1
<1>5. FlattenSeq(s) \in Seq(T)
  <2> HIDE DEF s, T
  <2>1. QED BY <1>2, FlattenIn
<1>6. QED BY <1>1, <1>4, <1>5

\* A batch as the assumption on them says.
IsBatch(batch) ==
    /\ IsText(batch)
    /\ \A i \in DOMAIN batch : /\ IsText(batch[i].prompt)
                               /\ IsText(batch[i].chosen)
                               /\ IsText(batch[i].rejected)

\* What is drawn when Collate gives rows.
LEMMA CollateIs ==
    ASSUME NEW kind, NEW template, NEW filler, NEW multiple, NEW batch,
           NEW c, c = Collate(kind, template, filler, multiple, batch), c.outcome = "rows",
           NEW items, items = Items(kind, template, batch),
           NEW fitted, fitted = Fitted(items)
    PROVE  /\ \A i \in DOMAIN items : \A side \in DOMAIN items[i] : items[i][side] # Refused
           /\ KeptItems(fitted) # <<>>
           /\ c.template = template /\ c.batch = batch /\ c.multiple = multiple
           /\ c.sides = IF kind = "pairs" THEN <<"chosen", "rejected">> ELSE <<"chosen">>
           /\ c.report = Reported(items, fitted)
           /\ c.rows = IF kind = "pairs"
                       THEN ConcatenatedBatch(Collator(fitted, "chosen", multiple, filler),
                                              Collator(fitted, "rejected", multiple, filler))
                       ELSE Collator(fitted, "chosen", multiple, filler)
<1> DEFINE none == filler = NoId
           refused == \E i \in DOMAIN items : \E side \in DOMAIN items[i] : items[i][side] = Refused
           empty == KeptItems(fitted) = <<>>
           sides == IF kind = "pairs" THEN <<"chosen", "rejected">> ELSE <<"chosen">>
           report == Reported(items, fitted)
           rows == IF kind = "pairs"
                   THEN ConcatenatedBatch(Collator(fitted, "chosen", multiple, filler),
                                          Collator(fitted, "rejected", multiple, filler))
                   ELSE Collator(fitted, "chosen", multiple, filler)
           given == [outcome |-> "rows", template |-> template, batch |-> batch, sides |-> sides,
                     multiple |-> multiple, report |-> report, rows |-> rows]
<1>1. c = CASE none -> [outcome |-> "no filler"]
            [] ~none /\ refused -> [outcome |-> "refused"]
            [] OTHER -> IF empty THEN [outcome |-> "all dropped"] ELSE given
  BY Zenon DEF Collate, Items
<1> HIDE DEF none, refused, empty, given
<1>2. ~none /\ ~refused /\ ~empty /\ c = given
  <2>1. CASE none
    <3>1. c = [outcome |-> "no filler"]
      BY <1>1, <2>1
    <3>2. c.outcome = "no filler"
      BY ONLY <3>1
    <3>3. QED BY <3>2
  <2>2. CASE ~none /\ refused
    <3>1. c = [outcome |-> "refused"]
      BY <1>1, <2>2
    <3>2. QED BY <3>1
  <2>3. CASE ~none /\ ~refused
    <3>1. c = IF empty THEN [outcome |-> "all dropped"] ELSE given
      BY <1>1, <2>3
    <3>2. CASE empty
      <4>1. c = [outcome |-> "all dropped"]
        BY <3>1, <3>2
      <4>2. c.outcome = "all dropped"
        BY ONLY <4>1
      <4>3. QED BY <4>2
    <3>3. QED BY <2>3, <3>1, <3>2
  <2>4. QED BY <2>1, <2>2, <2>3
<1> HIDE DEF sides, report, rows
<1>3. /\ c.template = template /\ c.batch = batch /\ c.multiple = multiple
      /\ c.sides = sides /\ c.report = report /\ c.rows = rows
  <2>1. c = [outcome |-> "rows", template |-> template, batch |-> batch, sides |-> sides,
             multiple |-> multiple, report |-> report, rows |-> rows]
    BY <1>2 DEF given
  <2>2. QED BY <2>1
<1>4. QED BY <1>2, <1>3 DEF refused, empty, sides, report, rows

\* The features a collator keeps, and the rows it makes of one side.
FeaturesOf(fitted, kept, sides) == {fitted[i][s] : i \in ToSet(kept), s \in sides}

RowsOf(fitted, side, kept, width, filler) ==
    [m \in DOMAIN kept |-> Stacked(kept[m], fitted[kept[m]][side], width, filler)]

\* The collator's rows.
LEMMA CollatorGives ==
    ASSUME NEW fitted, NEW side, NEW multiple, NEW filler
    PROVE  Collator(fitted, side, multiple, filler)
             = RowsOf(fitted, side, KeptItems(fitted),
                      PadWidth(FeaturesOf(fitted, KeptItems(fitted),
                                          DOMAIN fitted[KeptItems(fitted)[1]]), multiple), filler)
  BY DEF Collator, RowsOf, FeaturesOf

Fits(n, fitted, sides, kept, multiple, width) ==
    /\ n \in Nat /\ DOMAIN fitted = 1..n /\ \A i \in 1..n : DOMAIN fitted[i] = sides
    /\ kept = KeptItems(fitted) /\ kept # <<>> /\ multiple \in Nat \ {0}
    /\ \A i \in 1..n : \A s \in sides : fitted[i][s] # Refused =>
          Len(fitted[i][s].ids) \in 0..TokenBudget
    /\ width = PadWidth(FeaturesOf(fitted, kept, sides), multiple)

\* Every side of a kept item makes a row of one width, in the order of the items.
LEMMA CollatorIs ==
    ASSUME NEW n, NEW fitted, NEW sides, NEW kept, NEW multiple, NEW width,
           Fits(n, fitted, sides, kept, multiple, width), NEW side \in sides, NEW filler
    PROVE  /\ Collator(fitted, side, multiple, filler) = RowsOf(fitted, side, kept, width, filler)
           /\ width \in Nat /\ width % multiple = 0
           /\ \A i \in ToSet(kept) : \A s \in sides : Len(fitted[i][s].ids) <= width
<1> DEFINE features == FeaturesOf(fitted, kept, sides)
           T == 1..n
<1>0. /\ n \in Nat /\ DOMAIN fitted = 1..n /\ \A i \in 1..n : DOMAIN fitted[i] = sides
      /\ kept = KeptItems(fitted) /\ kept # <<>> /\ multiple \in Nat \ {0}
      /\ \A i \in 1..n : \A s \in sides : fitted[i][s] # Refused =>
            Len(fitted[i][s].ids) \in 0..TokenBudget
      /\ width = PadWidth(features, multiple)
  BY DEF Fits
<1>1. /\ kept \in Seq(T)
      /\ \A i : i \in ToSet(kept) => i \in T /\ \A s \in sides : fitted[i][s] # Refused
  BY <1>0, KeptIs
<1>2. kept[1] \in T /\ kept[1] \in ToSet(kept)
  <2> HIDE DEF T
  <2>1. 1 \in DOMAIN kept /\ kept # <<>>
    BY <1>0, <1>1
  <2>2. kept[1] \in T
    BY <1>1, <2>1
  <2>3. QED BY <1>1, <2>1, <2>2 DEF ToSet
<1>3. DOMAIN fitted[kept[1]] = sides
  BY <1>0, <1>2
<1>4. Collator(fitted, side, multiple, filler)
        = RowsOf(fitted, side, KeptItems(fitted),
                 PadWidth(FeaturesOf(fitted, KeptItems(fitted), DOMAIN fitted[KeptItems(fitted)[1]]),
                          multiple), filler)
  BY CollatorGives
<1>5. features # {} /\ \A f \in features : Len(f.ids) \in 0..TokenBudget
  <2>1. fitted[kept[1]][side] \in features
    BY <1>2 DEF FeaturesOf
  <2>2. \A i \in ToSet(kept) : \A s \in sides : Len(fitted[i][s].ids) \in 0..TokenBudget
    BY <1>0, <1>1
  <2>3. \A f \in features : Len(f.ids) \in 0..TokenBudget
    <3> TAKE f \in features
    <3>1. PICK i \in ToSet(kept), s \in sides : f = fitted[i][s]
      BY DEF FeaturesOf
    <3>2. QED BY <2>2, <3>1
  <2>4. QED BY <2>1, <2>3
<1>6. \A i \in ToSet(kept) : \A s \in sides : fitted[i][s] \in features
  BY DEF FeaturesOf
<1>7. width = PadWidth(features, multiple) /\ multiple \in Nat \ {0}
  BY <1>0
<1> HIDE DEF features
<1>8. width \in Nat /\ width % multiple = 0 /\ \A f \in features : Len(f.ids) <= width
  BY <1>5, <1>7, PadWidthIs
<1>9. QED BY <1>0, <1>3, <1>4, <1>6, <1>7, <1>8 DEF features

\* What the budget leaves of each side of each item.
LEMMA FittedIs ==
    ASSUME NEW kind \in {"examples", "pairs"}, NEW template, NEW batch, IsBatch(batch),
           NEW items, items = Items(kind, template, batch),
           \A i \in DOMAIN items : \A side \in DOMAIN items[i] : items[i][side] # Refused,
           NEW fitted, fitted = Fitted(items),
           NEW i \in DOMAIN batch, NEW side \in SidesOf(kind),
           NEW prompt, prompt = PromptText(template, batch[i].prompt),
           NEW text, text = FullText(template, batch[i].prompt, batch[i][side])
    PROVE  /\ fitted[i][side] # Refused <=> Whole(Encode(text)) > Len(prompt)
           /\ fitted[i][side] # Refused => /\ Marked(fitted[i][side], prompt, text)
                                           /\ Len(fitted[i][side].ids) <= TokenBudget
<1> DEFINE f == Feature(template, batch[i].prompt, batch[i][side])
<1>1. i \in DOMAIN items /\ side \in DOMAIN items[i] /\ items[i][side] = f
  BY ItemsAre
<1>2. fitted[i][side] = Truncated(f)
  <2>1. fitted[i] = [s \in DOMAIN items[i] |-> Truncated(items[i][s])]
    BY <1>1 DEF Fitted
  <2>2. fitted[i][side] = Truncated(items[i][side])
    BY <1>1, <2>1
  <2>3. QED BY <1>1, <2>2
<1>3. f # Refused
  BY <1>1
<1>4. IsText(batch[i].prompt) /\ IsText(batch[i][side])
  <2>1. side = "chosen" \/ side = "rejected"
    BY DEF SidesOf
  <2>2. IsText(batch[i].prompt) /\ IsText(batch[i].chosen) /\ IsText(batch[i].rejected)
    BY DEF IsBatch
  <2>3. CASE side = "chosen"
    BY <2>2, <2>3
  <2>4. CASE side = "rejected"
    BY <2>2, <2>4
  <2>5. QED BY <2>1, <2>3, <2>4
<1>5. Marked(f, prompt, text) /\ f.ids = Encode(text)
  BY <1>3, <1>4, FeatureMarks
<1> HIDE DEF f
<1>6. QED BY <1>2, <1>5, TruncatedMarks

\* The row of the same item in the first half, and the side a row is of.
Across(x, h) == ((x - 1) % h) + 1
Beside(sides, x, h) == sides[IF x <= h THEN 1 ELSE 2]

\* Rows of h items, a second half for the second side.
Halved(kind, h, chosen, rejected, S, rows, sides) ==
    /\ kind \in {"examples", "pairs"} /\ h \in Nat \ {0}
    /\ chosen \in Seq(S) /\ rejected \in Seq(S) /\ Len(chosen) = h /\ Len(rejected) = h
    /\ rows = IF kind = "pairs" THEN ConcatenatedBatch(chosen, rejected) ELSE chosen
    /\ sides = IF kind = "pairs" THEN <<"chosen", "rejected">> ELSE <<"chosen">>

\* Chosen rows first, then the rejected ones in the same order.
LEMMA BatchIs ==
    ASSUME NEW kind, NEW h, NEW chosen, NEW rejected, NEW S, NEW rows, NEW sides,
           Halved(kind, h, chosen, rejected, S, rows, sides)
    PROVE  /\ DOMAIN rows = 1..Len(rows) /\ Len(rows) \div Len(sides) = h
           /\ Len(rows) = IF kind = "pairs" THEN h + h ELSE h
           /\ ToSet(sides) = SidesOf(kind)
           /\ \A x \in 1..Len(rows) :
                 /\ Across(x, h) \in 1..h /\ rows[Across(x, h)] = chosen[Across(x, h)]
                 /\ Beside(sides, x, h) \in SidesOf(kind)
                 /\ rows[x] = IF Beside(sides, x, h) = "chosen" THEN chosen[Across(x, h)]
                              ELSE rejected[Across(x, h)]
           /\ \A y \in 1..h : y \in 1..Len(rows) /\ Across(y, h) = y
<1>0. /\ kind \in {"examples", "pairs"} /\ h \in Nat \ {0}
      /\ chosen \in Seq(S) /\ rejected \in Seq(S) /\ Len(chosen) = h /\ Len(rejected) = h
      /\ rows = IF kind = "pairs" THEN ConcatenatedBatch(chosen, rejected) ELSE chosen
      /\ sides = IF kind = "pairs" THEN <<"chosen", "rejected">> ELSE <<"chosen">>
  BY DEF Halved
<1>1. /\ 1 * h + 0 = h /\ 2 * h + 0 = h + h /\ 0 \in 0..(h - 1) /\ 1 \in Nat /\ 2 \in Nat /\ 0 \in Nat
  BY <1>0
<1>2. (h + h) \div h = 2 /\ h \div 1 = h
  BY <1>0, <1>1, QuotientIs
<1>3. (h + h) \div 2 = h
  <2>1. h * 2 + 0 = h + h /\ 0 \in 0..(2 - 1) /\ 2 \in Nat \ {0} /\ h \in Nat
    BY <1>0
  <2>2. (h * 2 + 0) \div 2 = h
    BY <1>0, <2>1, QuotientIs
  <2>3. QED BY <2>1, <2>2
<1>4. ASSUME NEW x \in 1..h PROVE Across(x, h) = x
  <2>1. x - 1 \in 0..(h - 1) /\ 0 * h + (x - 1) = x - 1 /\ 0 \in Nat
    BY <1>0
  <2>2. (0 * h + (x - 1)) % h = x - 1
    BY <1>0, <2>1, QuotientIs
  <2>3. (x - 1) % h = x - 1
    BY <1>0, <2>1, <2>2
  <2> DEFINE d == (x - 1) % h
  <2> HIDE DEF d
  <2>4. d = x - 1
    BY <2>3 DEF d
  <2>5. d + 1 = x
    BY <1>0, <2>4
  <2>6. QED BY <2>5 DEF d, Across
<1>5. ASSUME NEW x \in (h + 1)..(h + h) PROVE Across(x, h) = x - h
  <2>1. x - 1 - h \in 0..(h - 1) /\ 1 * h + (x - 1 - h) = x - 1 /\ 1 \in Nat
    BY <1>0
  <2>2. (1 * h + (x - 1 - h)) % h = x - 1 - h
    BY <1>0, <2>1, QuotientIs
  <2>3. (x - 1) % h = x - 1 - h
    BY <1>0, <2>1, <2>2
  <2> DEFINE d == (x - 1) % h
  <2> HIDE DEF d
  <2>4. d = x - 1 - h
    BY <2>3 DEF d
  <2>5. d + 1 = x - h
    BY <1>0, <2>4
  <2>6. QED BY <2>5 DEF d, Across
<1>6. CASE kind = "pairs"
  <2>1. sides = <<"chosen", "rejected">> /\ rows = chosen \o rejected /\ SidesOf(kind) = {"chosen", "rejected"}
    BY <1>0, <1>6 DEF ConcatenatedBatch, SidesOf
  <2>2. Len(sides) = 2 /\ sides[1] = "chosen" /\ sides[2] = "rejected" /\ ToSet(sides) = SidesOf(kind)
    BY <2>1 DEF ToSet
  <2> DEFINE joined == chosen \o rejected
  <2>a. /\ joined \in Seq(S) /\ Len(joined) = h + h
        /\ \A y \in 1..h : joined[y] = chosen[y]
        /\ \A x \in (h + 1)..(h + h) : joined[x] = rejected[x - h]
    <3>1. chosen \in Seq(S) /\ rejected \in Seq(S)
      BY <1>0
    <3>2. Len(chosen) = h /\ Len(rejected) = h /\ h \in Nat
      BY <1>0
    <3>3. QED BY <3>1, <3>2, BehindIs
  <2>b. rows = joined
    BY <2>1
  <2> HIDE DEF joined
  <2>3. /\ rows \in Seq(S) /\ Len(rows) = h + h /\ DOMAIN rows = 1..Len(rows)
        /\ \A y \in 1..h : rows[y] = chosen[y]
        /\ \A x \in (h + 1)..(h + h) : rows[x] = rejected[x - h]
    BY <2>a, <2>b
  <2>4. ASSUME NEW x \in 1..Len(rows), NEW y, y = Across(x, h),
               NEW side, side = Beside(sides, x, h)
        PROVE  /\ y \in 1..h /\ rows[y] = chosen[y] /\ side \in SidesOf(kind)
               /\ rows[x] = IF side = "chosen" THEN chosen[y] ELSE rejected[y]
    <3>1. CASE x <= h
      <4>1. x \in 1..h /\ side = "chosen"
        BY <1>0, <2>2, <2>4, <3>1 DEF Beside
      <4>2. y = x
        BY <1>0, <1>4, <2>4, <4>1
      <4>3. QED BY <1>0, <2>1, <2>3, <2>4, <4>1, <4>2
    <3>2. CASE ~(x <= h)
      <4>1. x \in (h + 1)..(h + h) /\ side = "rejected" /\ x - h \in 1..h
        BY <1>0, <2>2, <2>3, <2>4, <3>2 DEF Beside
      <4>2. y = x - h
        BY <1>0, <1>5, <2>4, <4>1
      <4>3. QED BY <1>0, <2>1, <2>3, <2>4, <4>1, <4>2
    <3>3. QED BY <3>1, <3>2
  <2>5. \A y \in 1..h : y \in 1..Len(rows) /\ Across(y, h) = y
    BY <1>0, <1>4, <2>3
  <2>6. Len(rows) \div Len(sides) = h
    BY <1>3, <2>2, <2>3
  <2>7. \A x \in 1..Len(rows) :
                 /\ Across(x, h) \in 1..h /\ rows[Across(x, h)] = chosen[Across(x, h)]
                 /\ Beside(sides, x, h) \in SidesOf(kind)
                 /\ rows[x] = IF Beside(sides, x, h) = "chosen" THEN chosen[Across(x, h)]
                              ELSE rejected[Across(x, h)]
    BY <1>0, <2>4
  <2>8. QED BY <1>6, <2>2, <2>3, <2>5, <2>6, <2>7
<1>7. CASE kind # "pairs"
  <2>1. sides = <<"chosen">> /\ rows = chosen /\ SidesOf(kind) = {"chosen"}
    BY <1>0, <1>7 DEF SidesOf
  <2>2. Len(sides) = 1 /\ sides[1] = "chosen" /\ ToSet(sides) = SidesOf(kind)
    BY <2>1 DEF ToSet
  <2>3. Len(rows) = h /\ DOMAIN rows = 1..Len(rows)
    BY <1>0, <2>1
  <2>4. ASSUME NEW x \in 1..Len(rows), NEW y, y = Across(x, h),
               NEW side, side = Beside(sides, x, h)
        PROVE  /\ y \in 1..h /\ rows[y] = chosen[y] /\ side \in SidesOf(kind)
               /\ rows[x] = IF side = "chosen" THEN chosen[y] ELSE rejected[y]
    <3>1. x \in 1..h /\ x <= h
      BY <1>0, <2>3, <2>4
    <3>2. side = "chosen"
      BY <1>0, <2>2, <2>4, <3>1 DEF Beside
    <3>3. y = x
      BY <1>0, <1>4, <2>4, <3>1
    <3>4. QED BY <2>1, <2>4, <3>1, <3>2, <3>3
  <2>5. \A y \in 1..h : y \in 1..Len(rows) /\ Across(y, h) = y
    BY <1>0, <1>4, <2>3
  <2>6. Len(rows) \div Len(sides) = h
    BY <1>2, <2>2, <2>3
  <2>7. \A x \in 1..Len(rows) :
                 /\ Across(x, h) \in 1..h /\ rows[Across(x, h)] = chosen[Across(x, h)]
                 /\ Beside(sides, x, h) \in SidesOf(kind)
                 /\ rows[x] = IF Beside(sides, x, h) = "chosen" THEN chosen[Across(x, h)]
                              ELSE rejected[Across(x, h)]
    BY <1>0, <2>4
  <2>8. QED BY <1>7, <2>2, <2>3, <2>5, <2>6, <2>7
<1>8. QED BY <1>6, <1>7

\* The rows of what Collate gives, one for each side of each kept item.
LEMMA RowsMark ==
    ASSUME NEW kind \in {"examples", "pairs"}, NEW template, NEW filler,
           NEW multiple \in Nat \ {0}, NEW batch, IsBatch(batch),
           collated = Collate(kind, template, filler, multiple, batch), collated.outcome = "rows"
    PROVE  LabelsMarkTheAnswer
<1> DEFINE n == Len(batch)
           items == Items(kind, template, batch)
           fitted == Fitted(items)
           kept == KeptItems(fitted)
           S == SidesOf(kind)
           width == PadWidth(FeaturesOf(fitted, kept, S), multiple)
           line(side) == RowsOf(fitted, side, kept, width, filler)
           rows == collated.rows
           sides == collated.sides
           h == Len(kept)
           before(i) == PromptText(template, batch[i].prompt)
           text(i, side) == FullText(template, batch[i].prompt, batch[i][side])
<1>1. n \in Nat /\ DOMAIN batch = 1..n
  BY DEF IsBatch, IsText
<1>2. /\ \A i \in DOMAIN items : \A side \in DOMAIN items[i] : items[i][side] # Refused
      /\ kept # <<>>
      /\ collated.template = template /\ collated.batch = batch /\ collated.multiple = multiple
      /\ sides = IF kind = "pairs" THEN <<"chosen", "rejected">> ELSE <<"chosen">>
      /\ collated.report = Reported(items, fitted)
      /\ rows = IF kind = "pairs"
                THEN ConcatenatedBatch(Collator(fitted, "chosen", multiple, filler),
                                       Collator(fitted, "rejected", multiple, filler))
                ELSE Collator(fitted, "chosen", multiple, filler)
  <2> HIDE DEF items, fitted
  <2>1. items = Items(kind, template, batch) /\ fitted = Fitted(items)
    BY DEF items, fitted
  <2>2. QED BY <2>1, CollateIs
<1>3. /\ DOMAIN items = 1..n /\ DOMAIN fitted = 1..n /\ \A i \in 1..n : DOMAIN fitted[i] = S
      /\ Len(items) = n
  <2>1. DOMAIN items = 1..n /\ \A i \in 1..n : DOMAIN items[i] = S
    <3> HIDE DEF n
    <3>1. QED BY <1>1, ItemsAre
  <2>2. Len(items) = n
    <3> HIDE DEF n
    <3>1. CASE kind = "pairs"
      BY <1>1, <3>1 DEF Items, EncodePairs
    <3>2. CASE kind # "pairs"
      BY <1>1, <3>2 DEF Items, EncodeExamples
    <3>3. QED BY <3>1, <3>2
  <2> HIDE DEF items, S, n
  <2>3. QED BY <2>1, <2>2 DEF Fitted
<1>4. \A i \in 1..n : \A side \in S :
         /\ fitted[i][side] # Refused <=> Whole(Encode(text(i, side))) > Len(before(i))
         /\ fitted[i][side] # Refused => /\ Marked(fitted[i][side], before(i), text(i, side))
                                         /\ Len(fitted[i][side].ids) <= TokenBudget
  <2> HIDE DEF items, fitted, S, n
  <2>1. items = Items(kind, template, batch) /\ fitted = Fitted(items)
    BY DEF items, fitted
  <2> TAKE i \in 1..n
  <2> TAKE side \in S
  <2>2. i \in DOMAIN batch /\ side \in SidesOf(kind)
    BY <1>1 DEF S
  <2> HIDE DEF before, text
  <2>3. before(i) = PromptText(template, batch[i].prompt)
        /\ text(i, side) = FullText(template, batch[i].prompt, batch[i][side])
    BY DEF before, text
  <2>4. QED BY <1>2, <2>1, <2>2, <2>3, FittedIs
<1> HIDE DEF items, fitted, n, before, text
<1>5. /\ kept \in Seq(1..n)
      /\ \A i : i \in ToSet(kept) <=> i \in 1..n /\ \A side \in S : fitted[i][side] # Refused
  <2>1. /\ kept \in Seq(1..n)
        /\ \A i : i \in ToSet(kept) <=>
              i \in 1..n /\ \A side \in DOMAIN fitted[i] : fitted[i][side] # Refused
    BY <1>1, <1>3, KeptIs
  <2> HIDE DEF kept, S
  <2>2. QED BY <1>3, <2>1
<1> HIDE DEF kept
<1>6. h \in Nat \ {0} /\ DOMAIN kept = 1..h /\ \A m \in 1..h : kept[m] \in ToSet(kept) /\ kept[m] \in 1..n
  BY <1>2, <1>5 DEF ToSet
<1>7. "chosen" \in S /\ (kind = "pairs" => "rejected" \in S)
  BY DEF SidesOf
<1>8. \A i \in 1..n : \A side \in S : fitted[i][side] # Refused =>
          Len(fitted[i][side].ids) \in 0..TokenBudget
  <2> TAKE i \in 1..n
  <2> TAKE side \in S
  <2> HAVE fitted[i][side] # Refused
  <2>1. Marked(fitted[i][side], before(i), text(i, side)) /\ Len(fitted[i][side].ids) <= TokenBudget
    BY <1>4
  <2>2. Len(fitted[i][side].ids) \in Nat
    BY <2>1 DEF Marked
  <2>3. QED BY <2>1, <2>2, CollationAssumption
<1> HIDE DEF S
<1>9. /\ \A side \in S : Collator(fitted, side, multiple, filler) = line(side)
      /\ width \in Nat /\ width % multiple = 0
      /\ \A i \in ToSet(kept) : \A side \in S : Len(fitted[i][side].ids) <= width
  <2> HIDE DEF width
  <2>1. ASSUME NEW side \in S
        PROVE  /\ Collator(fitted, side, multiple, filler) = line(side)
               /\ width \in Nat /\ width % multiple = 0
               /\ \A i \in ToSet(kept) : \A s \in S : Len(fitted[i][s].ids) <= width
    <3>1. kept = KeptItems(fitted) /\ width = PadWidth(FeaturesOf(fitted, kept, S), multiple)
      BY DEF kept, width
    <3>2. /\ n \in Nat /\ DOMAIN fitted = 1..n /\ \A i \in 1..n : DOMAIN fitted[i] = S
          /\ kept # <<>> /\ side \in S /\ multiple \in Nat \ {0}
      BY <1>1, <1>2, <1>3
    <3>3. Fits(n, fitted, S, kept, multiple, width)
      BY <1>8, <3>1, <3>2 DEF Fits
    <3>4. QED BY <3>2, <3>3, CollatorIs
  <2>2. QED BY <1>7, <2>1
<1> HIDE DEF width
<1>10. \A m \in 1..h : \A side \in S :
          /\ Learns(line(side)[m], before(kept[m]), text(kept[m], side), width)
          /\ line(side)[m].item = kept[m]
  <2> TAKE m \in 1..h
  <2> TAKE side \in S
  <2>1. /\ m \in DOMAIN kept
        /\ Marked(fitted[kept[m]][side], before(kept[m]), text(kept[m], side))
        /\ Len(fitted[kept[m]][side].ids) <= TokenBudget
        /\ Len(fitted[kept[m]][side].ids) <= width
    BY <1>4, <1>5, <1>6, <1>9
  <2> DEFINE f == fitted[kept[m]][side]  p == before(kept[m])  q == text(kept[m], side)
  <2>2. Marked(f, p, q) /\ Len(f.ids) <= TokenBudget /\ Len(f.ids) <= width /\ width \in Nat
    BY <1>9, <2>1
  <2>3. RowsOf(fitted, side, kept, width, filler)[m] = Stacked(kept[m], f, width, filler)
    BY <2>1 DEF RowsOf
  <2> HIDE DEF f, p, q
  <2>4. Learns(RowsOf(fitted, side, kept, width, filler)[m], p, q, width)
        /\ RowsOf(fitted, side, kept, width, filler)[m].item = kept[m]
    BY <2>2, <2>3, RowLearns
  <2>5. QED BY <2>4 DEF p, q
<1>11. /\ rows = IF kind = "pairs" THEN ConcatenatedBatch(line("chosen"), line("rejected"))
                 ELSE line("chosen")
  BY <1>2, <1>7, <1>9
<1>12. \A side : /\ line(side) = [m \in 1..h |-> line(side)[m]]
                 /\ Len(line(side)) = h
  BY <1>6 DEF RowsOf
<1> HIDE DEF line, rows, sides
<1>13. /\ DOMAIN rows = 1..Len(rows) /\ Len(rows) \div Len(sides) = h
       /\ Len(rows) = IF kind = "pairs" THEN h + h ELSE h
       /\ ToSet(sides) = S
       /\ \A x \in 1..Len(rows) :
             /\ Across(x, h) \in 1..h /\ rows[Across(x, h)] = line("chosen")[Across(x, h)]
             /\ Beside(sides, x, h) \in S
             /\ rows[x] = line(Beside(sides, x, h))[Across(x, h)]
       /\ \A y \in 1..h : y \in 1..Len(rows) /\ Across(y, h) = y
  <2> DEFINE c == line("chosen")  r == line("rejected")
             T == {c[m] : m \in 1..h} \cup {r[m] : m \in 1..h}
  <2>1. c \in Seq(T) /\ r \in Seq(T) /\ Len(c) = h /\ Len(r) = h
    <3>1. \A m \in 1..h : c[m] \in T /\ r[m] \in T
      OBVIOUS
    <3>2. c = [m \in 1..h |-> c[m]] /\ r = [m \in 1..h |-> r[m]] /\ Len(c) = h /\ Len(r) = h
      BY <1>12
    <3> HIDE DEF T, c, r, h
    <3>3. h \in Nat
      BY <1>6
    <3>4. c \in Seq(T) /\ r \in Seq(T)
      BY <3>1, <3>2, <3>3
    <3>5. QED BY <3>2, <3>4
  <2>2. rows = IF kind = "pairs" THEN ConcatenatedBatch(c, r) ELSE c
    BY <1>11
  <2> HIDE DEF T, c, r, h
  <2>3. /\ DOMAIN rows = 1..Len(rows) /\ Len(rows) \div Len(sides) = h
        /\ Len(rows) = IF kind = "pairs" THEN h + h ELSE h
        /\ ToSet(sides) = SidesOf(kind)
        /\ \A x \in 1..Len(rows) :
              /\ Across(x, h) \in 1..h /\ rows[Across(x, h)] = c[Across(x, h)]
              /\ Beside(sides, x, h) \in SidesOf(kind)
              /\ rows[x] = IF Beside(sides, x, h) = "chosen" THEN c[Across(x, h)] ELSE r[Across(x, h)]
        /\ \A y \in 1..h : y \in 1..Len(rows) /\ Across(y, h) = y
    <3>1. sides = IF kind = "pairs" THEN <<"chosen", "rejected">> ELSE <<"chosen">>
      BY <1>2 DEF sides
    <3>2. h \in Nat \ {0}
      BY <1>6 DEF h
    <3>3. kind \in {"examples", "pairs"}
      OBVIOUS
    <3>4. Halved(kind, h, c, r, T, rows, sides)
      BY <2>1, <2>2, <3>1, <3>2, <3>3 DEF Halved
    <3>5. QED BY <3>4, BatchIs
  <2>4. \A s \in SidesOf(kind) : s = "chosen" \/ s = "rejected"
    BY DEF SidesOf
  <2>5. \A x \in 1..Len(rows) : rows[x] = line(Beside(sides, x, h))[Across(x, h)]
    <3> TAKE x \in 1..Len(rows)
    <3>1. Beside(sides, x, h) = "chosen" \/ Beside(sides, x, h) = "rejected"
      BY <2>3, <2>4
    <3>2. CASE Beside(sides, x, h) = "chosen"
      BY <2>3, <3>2 DEF c
    <3>3. CASE Beside(sides, x, h) = "rejected"
      BY <2>3, <3>3 DEF r
    <3>4. QED BY <3>1, <3>2, <3>3
  <2>6. QED BY <2>3, <2>5 DEF c, S
<1> HIDE DEF h
<1>14. \A x \in 1..Len(rows) :
          /\ Learns(rows[x], before(rows[x].item), text(rows[x].item, Beside(sides, x, h)), width)
          /\ rows[x].item = rows[Across(x, h)].item /\ rows[x].item = kept[Across(x, h)]
  <2> TAKE x \in 1..Len(rows)
  <2> DEFINE y == Across(x, h)  s == Beside(sides, x, h)
  <2>1. /\ y \in 1..h /\ s \in S /\ "chosen" \in S
        /\ rows[y] = line("chosen")[y] /\ rows[x] = line(s)[y]
    BY <1>7, <1>13
  <2> HIDE DEF y, s
  <2>2. /\ Learns(line(s)[y], before(kept[y]), text(kept[y], s), width)
        /\ line(s)[y].item = kept[y] /\ line("chosen")[y].item = kept[y]
    BY <1>10, <2>1
  <2>3. /\ Learns(rows[x], before(rows[x].item), text(rows[x].item, s), width)
        /\ rows[x].item = rows[y].item /\ rows[x].item = kept[y]
    BY <2>1, <2>2
  <2>4. QED BY <2>3 DEF y, s
<1>15. \A i : (\E x \in 1..Len(rows) : rows[x].item = i) <=> i \in ToSet(kept)
  <2>1. ASSUME NEW x \in 1..Len(rows) PROVE rows[x].item \in ToSet(kept)
    BY <1>6, <1>13, <1>14
  <2>2. ASSUME NEW i \in ToSet(kept) PROVE \E x \in 1..Len(rows) : rows[x].item = i
    <3>1. PICK y \in 1..h : kept[y] = i
      BY <1>6 DEF ToSet
    <3>2. y \in 1..Len(rows)
      BY <1>13
    <3>3. PICK z \in 1..h : rows[y].item = kept[z]
      BY <1>13, <1>14, <3>2
    <3>4. Across(y, h) = y
      BY <1>13
    <3>5. rows[y].item = kept[y]
      BY <1>14, <3>2, <3>4
    <3>6. QED BY <3>1, <3>2, <3>5
  <2>3. QED BY <2>1, <2>2
<1>16. collated.report.seen = h + collated.report.dropped
  <2> DEFINE t == Cardinality({x \in (DOMAIN items) \X {"chosen", "rejected"} :
                       /\ x[2] \in DOMAIN items[x[1]]
                       /\ fitted[x[1]][x[2]] \notin {Refused, items[x[1]][x[2]]}})
  <2>1. collated.report = [seen |-> n, truncated |-> t, dropped |-> n - h]
    BY <1>2, <1>3 DEF Reported, kept, h
  <2> HIDE DEF t, h
  <2>2. collated.report.seen = n /\ collated.report.dropped = n - h
    BY <2>1
  <2>3. QED BY <1>1, <1>6, <2>2
<1> DEFINE Half == Len(collated.rows) \div Len(collated.sides)
           Side(x) == collated.sides[IF x <= Half THEN 1 ELSE 2]
           Prompt(x) == PromptText(collated.template, collated.batch[collated.rows[x].item].prompt)
           Text(x) == FullText(collated.template, collated.batch[collated.rows[x].item].prompt,
                               collated.batch[collated.rows[x].item][Side(x)])
           Sight(x) == {c \in DOMAIN collated.rows[x].input : collated.rows[x].mask[c] = 1}
<1>17. Half = h
  BY <1>13 DEF rows, sides
<1>18. ASSUME NEW x \in DOMAIN collated.rows
       PROVE  /\ Len(collated.rows[x].input) = Len(collated.rows[1].input)
              /\ Len(collated.rows[x].input) % collated.multiple = 0
              /\ IsPrefix(FlattenSeq(SubSeq(collated.rows[x].input, 1, Cardinality(Sight(x)))), Text(x))
              /\ Sight(x) = 1..Cardinality(Sight(x))
              /\ \/ EndOf(collated.rows[x], Cardinality(Sight(x))) = Len(Text(x))
                 \/ Cardinality(Sight(x)) = TokenBudget
              /\ \A c \in DOMAIN collated.rows[x].input :
                    collated.rows[x].labels[c] =
                        IF c \in Sight(x) /\ EndOf(collated.rows[x], c) > Len(Prompt(x))
                        THEN collated.rows[x].input[c] ELSE IgnoreIndex
              /\ \E c \in DOMAIN collated.rows[x].input : collated.rows[x].labels[c] # IgnoreIndex
              /\ collated.rows[x].item = collated.rows[((x - 1) % Half) + 1].item
  <2>1. x \in 1..Len(rows) /\ 1 \in 1..Len(rows)
    BY <1>6, <1>13 DEF rows
  <2>2. Prompt(x) = before(rows[x].item)
    BY <1>2 DEF rows, before
  <2>3. Text(x) = text(rows[x].item, Beside(sides, x, h))
    BY <1>2, <1>17 DEF rows, sides, text, Beside
  <2>4. Sight(x) = Seen(rows[x])
    BY DEF Seen, rows
  <2>5. Across(x, h) = ((x - 1) % Half) + 1
    BY <1>17 DEF Across
  <2> HIDE DEF Prompt, Text, Sight, Half
  <2>6. Learns(rows[x], Prompt(x), Text(x), width) /\ rows[x].item = rows[((x - 1) % Half) + 1].item
    BY <1>14, <2>1, <2>2, <2>3, <2>5
  <2>7. Len(rows[1].input) = width
    BY <1>14, <2>1 DEF Learns
  <2>8. QED BY <1>2, <1>9, <2>4, <2>6, <2>7 DEF Learns, rows
<1>19. ASSUME NEW i \in DOMAIN collated.batch
       PROVE  (\E x \in DOMAIN collated.rows : collated.rows[x].item = i) <=>
                 \A s \in ToSet(collated.sides) :
                    Whole(Encode(FullText(collated.template, collated.batch[i].prompt,
                                          collated.batch[i][s])))
                        > Len(PromptText(collated.template, collated.batch[i].prompt))
  <2>1. i \in 1..n
    BY <1>1, <1>2
  <2>2. (\E x \in DOMAIN collated.rows : collated.rows[x].item = i) <=> i \in ToSet(kept)
    BY <1>13, <1>15 DEF rows
  <2>3. i \in ToSet(kept) <=> \A s \in S : Whole(Encode(text(i, s))) > Len(before(i))
    BY <1>4, <1>5, <2>1
  <2>4. QED BY <1>2, <1>13, <2>2, <2>3 DEF sides, text, before
<1>20. QED
  <2>1. collated.report.seen = Half + collated.report.dropped
    <3> HIDE DEF Half
    <3>1. QED BY <1>16, <1>17
  <2>2. QED BY <1>18, <1>19, <2>1, Zenon DEF LabelsMarkTheAnswer, Whole

\* Nothing is collated, or what Collate gives for a legal batch.
CollInv ==
    \/ collated = Uncollated
    \/ \E kind \in {"examples", "pairs"}, template \in Templates, f \in Fillers,
          multiple \in Multiples, batch \in Batches :
          collated = Collate(kind, template, Filler(f), multiple, batch)

\* A step learns the answer and nothing else, whatever the tokenizer merges across the
\* boundary, whatever pads, and whatever the budget cuts.
THEOREM LabelsAreTheAnswers == CollationSpec => []LabelsMarkTheAnswer
<1>1. CollationInit => CollInv
  BY DEF CollationInit, CollInv
<1>2. CollInv /\ [CollationNext]_collated => CollInv'
  BY DEF CollationNext, CollInv
<1>3. CollInv => LabelsMarkTheAnswer
  <2> SUFFICES ASSUME CollInv PROVE LabelsMarkTheAnswer
    OBVIOUS
  <2>1. CASE collated = Uncollated
    BY <2>1 DEF Uncollated, LabelsMarkTheAnswer
  <2>2. CASE collated # Uncollated
    <3>1. PICK kind \in {"examples", "pairs"}, template \in Templates, f \in Fillers,
               multiple \in Multiples, batch \in Batches :
               collated = Collate(kind, template, Filler(f), multiple, batch)
      BY <2>2 DEF CollInv
    <3>2. multiple \in Nat \ {0} /\ IsBatch(batch)
      BY CollationAssumption DEF IsBatch
    <3>3. CASE collated.outcome = "rows"
      BY <3>1, <3>2, <3>3, RowsMark
    <3>4. CASE collated.outcome # "rows"
      BY <3>4 DEF LabelsMarkTheAnswer
    <3>5. QED BY <3>3, <3>4
  <2>3. QED BY <2>1, <2>2
<1>4. QED BY <1>1, <1>2, <1>3, PTL DEF CollationSpec

-----------------------------------------------------------------------------
(* The completions of the generate calls.                                  *)

\* The longest of several lists.
LEMMA LongestIs ==
    ASSUME NEW h \in Nat \ {0}, NEW f, \A n \in 1..h : Len(f[n]) \in Nat
    PROVE  /\ Max({Len(f[n]) : n \in 1..h}) \in Nat
           /\ \A n \in 1..h : Len(f[n]) <= Max({Len(f[n_1]) : n_1 \in 1..h})
           /\ \E n \in 1..h : Max({Len(f[n_1]) : n_1 \in 1..h}) = Len(f[n])
<1> DEFINE ls == {Len(f[n]) : n \in 1..h}
           bounded(m) == \E B \in Nat : \A j \in 1..m : Len(f[j]) <= B
           bad == {m \in 1..h : ~bounded(m)}
           m == Min(bad)
<1>1. ASSUME bad # {} PROVE FALSE
  <2>1. m \in bad /\ m \in 1..h /\ \A o \in bad : m <= o
    <3>1. bad \subseteq Nat /\ bad \subseteq 1..h
      OBVIOUS
    <3> HIDE DEF bad
    <3>2. QED BY <1>1, <3>1, LeastIs
  <2> HIDE DEF m
  <2>2. m # 1
    <3>1. bounded(1)
      <4>1. \A j \in 1..1 : Len(f[j]) <= Len(f[1])
        OBVIOUS
      <4>2. Len(f[1]) \in Nat
        OBVIOUS
      <4>3. QED BY <4>1, <4>2
    <3>2. QED BY <2>1, <3>1
  <2>3. m - 1 \in 1..h /\ ~(m <= m - 1) /\ m - 1 \notin bad
    <3> HIDE DEF bad
    <3>1. QED BY <2>1, <2>2
  <2>4. PICK B \in Nat : \A j \in 1..(m - 1) : Len(f[j]) <= B
    BY <2>3
  <2>5. \A j \in 1..m : j \in 1..(m - 1) \/ j = m
    BY <2>1
  <2>6. Len(f[m]) \in Nat
    BY <2>1
  <2>7. bounded(m)
    <3> DEFINE C == B + Len(f[m])
    <3>1. C \in Nat /\ B <= C /\ Len(f[m]) <= C
      BY <2>6
    <3>2. \A j \in 1..m : Len(f[j]) <= C
      <4> HIDE DEF C
      <4>1. ASSUME NEW j \in 1..m PROVE Len(f[j]) <= C
        <5>1. CASE j = m
          BY <3>1, <5>1
        <5>2. CASE j # m
          <6>1. j \in 1..(m - 1) /\ j \in 1..h
            BY <2>1, <2>5, <5>2
          <6>2. Len(f[j]) \in Nat /\ Len(f[j]) <= B
            BY <2>4, <6>1
          <6>3. QED BY <3>1, <6>2
        <5>3. QED BY <5>1, <5>2
      <4>2. QED BY <4>1
    <3> HIDE DEF C
    <3>3. QED BY <3>1, <3>2
  <2>8. QED BY <2>1, <2>7
<1>2. PICK B \in Nat : \A j \in 1..h : Len(f[j]) <= B
  <2>1. h \in 1..h
    OBVIOUS
  <2>2. QED BY <1>1, <2>1
<1>3. ls \subseteq 0..B /\ ls # {} /\ ls \subseteq Nat
  <2>1. 1 \in 1..h /\ \A n \in 1..h : Len(f[n]) \in 0..B /\ Len(f[n]) \in Nat
    BY <1>2
  <2>2. QED BY <2>1
<1>4. \E x \in ls : \A y \in ls : y <= x
  <2> HIDE DEF ls
  <2>1. QED BY <1>3, GreatestIs
<1>5. \E x \in ls : \A y \in ls : x >= y
  <2> HIDE DEF ls
  <2>1. QED BY <1>3, <1>4
<1>6. Max(ls) \in ls /\ \A y \in ls : Max(ls) >= y
  <2> HIDE DEF ls
  <2>1. QED BY <1>5 DEF Max
<1>7. Max(ls) \in Nat /\ \A y \in ls : y <= Max(ls)
  <2> HIDE DEF ls
  <2>1. QED BY <1>3, <1>6
<1>8. \A n \in 1..h : Len(f[n]) \in ls
  OBVIOUS
<1>9. \E n \in 1..h : Max(ls) = Len(f[n])
  <2> DEFINE x == Max(ls)
  <2>1. x \in ls
    BY <1>6
  <2> HIDE DEF x
  <2>2. \E n \in 1..h : x = Len(f[n])
    BY <2>1
  <2>3. QED BY <2>2 DEF x
<1>10. QED BY <1>7, <1>8, <1>9

\* The last columns of a row of zeros and ones.
LEMMA LastColumnsAre ==
    ASSUME NEW p \in Nat, NEW l \in Nat
    PROVE  Cardinality((p + 1)..(p + l)) = l
<1>1. (IF p + 1 > p + l THEN 0 ELSE p + l - (p + 1) + 1) = l
  OBVIOUS
<1>2. p + 1 \in Int /\ p + l \in Int
  OBVIOUS
<1>3. QED BY <1>1, <1>2, FS_Interval

\* A row padded on the left shows what was padded, and ends in it.
LEMMA LeftPadShows ==
    ASSUME NEW h \in Nat \ {0}, NEW rows, DOMAIN rows = 1..h, NEW filler,
           NEW T, \A n \in 1..h : rows[n] \in Seq(T) /\ rows[n] # <<>>,
           NEW n \in 1..h
    PROVE  /\ DOMAIN LeftPad(rows, filler) = 1..h
           /\ Shows(LeftPad(rows, filler)[n], rows[n])
           /\ Last(LeftPad(rows, filler)[n].mask) = 1
<1> DEFINE w == Max({Len(rows[i]) : i \in DOMAIN rows})
           ids == rows[n]
           l == Len(ids)
           p == w - l
           V == T \cup {filler}
           pads == [c \in 1..p |-> filler]
           zeros == [c \in 1..p |-> 0]
           ones == [c \in DOMAIN ids |-> 1]
           row == [input |-> pads \o ids, mask |-> zeros \o ones]
<1>1. DOMAIN LeftPad(rows, filler) = 1..h /\ LeftPad(rows, filler)[n] = row
  BY DEF LeftPad
<1>2. /\ l \in Nat \ {0} /\ DOMAIN ids = 1..l /\ ids \in Seq(T)
  OBVIOUS
<1>3. p \in Nat
  <2>1. \A i \in 1..h : Len(rows[i]) \in Nat
    OBVIOUS
  <2>2. w \in Nat /\ l <= w
    <3>1. Max({Len(rows[i]) : i \in 1..h}) \in Nat /\ Len(rows[n]) <= Max({Len(rows[i]) : i \in 1..h})
      BY <2>1, LongestIs
    <3>2. QED BY <3>1
  <2> HIDE DEF w, ids
  <2>3. QED BY <1>2, <2>2
<1> HIDE DEF p, ids
<1>4. ids \in Seq(V) /\ pads \in Seq(V) /\ Len(pads) = p
  <2>1. ids \in Seq(V)
    <3>1. T \subseteq V
      OBVIOUS
    <3> HIDE DEF V
    <3>2. QED BY <1>2, <3>1, SeqMonotonic
  <2>2. filler \in V
    OBVIOUS
  <2> HIDE DEF V
  <2>3. QED BY <1>3, <2>1, <2>2
<1>5. /\ zeros \in Seq(Nat) /\ ones \in Seq(Nat) /\ Len(zeros) = p /\ Len(ones) = l
      /\ \A c \in 1..p : zeros[c] = 0
      /\ \A c \in 1..l : ones[c] = 1
  <2> HIDE DEF l
  <2>1. ones = [c \in 1..l |-> 1]
    BY <1>2
  <2>2. QED BY <1>2, <1>3, <2>1
<1>6. row.input = pads \o ids /\ row.mask = zeros \o ones
  OBVIOUS
<1> HIDE DEF V, pads, zeros, ones, l
<1> DEFINE input == row.input  mask == row.mask
<1>a. input = pads \o ids /\ mask = zeros \o ones
  BY <1>6
<1>7. /\ \A c \in (p + 1)..(p + l) : input[c] = ids[c - p]
      /\ mask \in Seq(Nat) /\ Len(mask) = p + l /\ \A c \in 1..p : mask[c] = 0
      /\ \A c \in (p + 1)..(p + l) : mask[c] = 1
  <2> HIDE DEF row, input, mask
  <2>1. /\ input = pads \o ids
        /\ \A c \in (Len(pads) + 1)..(Len(pads) + Len(ids)) : (pads \o ids)[c] = ids[c - Len(pads)]
    BY <1>4, <1>a, BehindIs
  <2>2. /\ mask = zeros \o ones /\ mask \in Seq(Nat) /\ Len(mask) = Len(zeros) + Len(ones)
        /\ \A c \in 1..Len(zeros) : mask[c] = zeros[c]
        /\ \A c \in (Len(zeros) + 1)..(Len(zeros) + Len(ones)) : mask[c] = ones[c - Len(zeros)]
    <3> DEFINE W == Nat
    <3>1. zeros \in Seq(W) /\ ones \in Seq(W)
      BY <1>5
    <3> HIDE DEF W
    <3>2. /\ zeros \o ones \in Seq(W) /\ Len(zeros \o ones) = Len(zeros) + Len(ones)
          /\ \A c \in 1..Len(zeros) : (zeros \o ones)[c] = zeros[c]
          /\ \A c \in (Len(zeros) + 1)..(Len(zeros) + Len(ones)) :
                (zeros \o ones)[c] = ones[c - Len(zeros)]
      BY <3>1, BehindIs
    <3>3. QED BY <1>a, <3>2 DEF W
  <2>3. \A c \in (p + 1)..(p + l) : c - p \in 1..l
    BY <1>2, <1>3
  <2>4. QED BY <1>4, <1>5, <2>1, <2>2, <2>3 DEF l
<1> HIDE DEF row, input, mask
<1> DEFINE visible == {c \in DOMAIN mask : mask[c] = 1}
<1>8. visible = (p + 1)..(p + l)
  <2>1. DOMAIN mask = 1..(p + l)
    BY <1>7
  <2>2. \A c \in 1..(p + l) : c \in 1..p \/ c \in (p + 1)..(p + l)
    BY <1>2, <1>3
  <2>3. \A c \in (p + 1)..(p + l) : c \in 1..(p + l)
    BY <1>2, <1>3
  <2>4. QED BY <1>7, <2>1, <2>2, <2>3
<1>9. Cardinality(visible) = l
  BY <1>2, <1>3, <1>8, LastColumnsAre
<1>10. \A c \in visible : input[c] = ids[Cardinality({d \in visible : d <= c})]
  <2> TAKE c \in visible
  <2>1. c \in (p + 1)..(p + l) /\ c - p \in Nat
    BY <1>2, <1>3, <1>8
  <2>2. {d \in visible : d <= c} = (p + 1)..(p + (c - p))
    BY <1>2, <1>3, <1>8, <2>1
  <2>3. Cardinality({d \in visible : d <= c}) = c - p
    BY <1>3, <2>1, <2>2, LastColumnsAre
  <2>4. QED BY <1>7, <2>1, <2>3
<1>11. Shows(row, ids)
  BY <1>9, <1>10 DEF Shows, input, mask, l
<1>12. Last(mask) = 1
  <2>1. p + l \in (p + 1)..(p + l)
    BY <1>2, <1>3
  <2>2. QED BY <1>7, <2>1 DEF Last
<1>13. QED BY <1>1, <1>11, <1>12 DEF row, mask, ids

\* Where a reply stops.
LEMMA SpokenIs ==
    ASSUME NEW T, NEW reply \in Seq(T), Len(reply) >= NewTokens, NEW stops,
           NEW s, s = Spoken(reply, stops)
    PROVE  /\ s \in Seq(T) /\ Len(s) \in 1..NewTokens
           /\ \A c \in 1..Len(s) : s[c] = reply[c]
           /\ \A c \in 1..(Len(s) - 1) : reply[c] \notin stops
           /\ Len(s) = NewTokens \/ reply[Len(s)] \in stops
<1> DEFINE ends == {n \in 1..NewTokens : n = NewTokens \/ reply[n] \in stops}
           e == Min(ends)
<1>1. NewTokens \in Nat \ {0}
  BY DecodingAssumption
<1>2. e \in ends /\ \A n \in ends : e <= n
  <2>1. NewTokens \in ends /\ ends \subseteq Nat
    BY <1>1
  <2> HIDE DEF ends
  <2>2. ends # {}
    BY <2>1
  <2>3. QED BY <2>1, <2>2, LeastIs
<1>3. s = SubSeq(reply, 1, e)
  BY DEF Spoken
<1> HIDE DEF e
<1>4. /\ e \in 1..NewTokens /\ (e = NewTokens \/ reply[e] \in stops)
      /\ \A c \in 1..(e - 1) : reply[c] \notin stops
  <2>1. \A c \in 1..(e - 1) : c \in 1..NewTokens /\ ~(e <= c)
    BY <1>1, <1>2
  <2>2. QED BY <1>2, <2>1
<1>5. s \in Seq(T) /\ Len(s) = e /\ \A c \in 1..e : s[c] = reply[c]
  <2>1. e \in 0..Len(reply) /\ e <= Len(reply) /\ e \in Nat
    BY <1>1, <1>4
  <2> HIDE DEF ends
  <2>2. QED BY <1>3, <2>1
<1>6. QED BY <1>4, <1>5

\* What generate returns for a row the model read aright: the reply up to its first stop
\* or the budget, then filler.
Said(row, reply, stops, filler) ==
    \E e \in 1..NewTokens :
       /\ \A c \in 1..(e - 1) : reply[c] \notin stops
       /\ e = NewTokens \/ reply[e] \in stops
       /\ IsSeq(row) /\ Len(row) \in e..NewTokens
       /\ \A c \in 1..e : row[c] = reply[c]
       /\ \A c \in (e + 1)..Len(row) : row[c] = filler

\* A row the model read aright comes back as what it says to its prompt.
LEMMA GeneratedIs ==
    ASSUME NEW h \in Nat \ {0}, NEW inputs, DOMAIN inputs = 1..h, NEW rows, NEW said,
           \A n \in 1..h : /\ Shows(inputs[n], PromptIds(rows[n]))
                           /\ Last(inputs[n].mask) = 1
                           /\ said[rows[n]] \in Replies,
           NEW stops, NEW filler, NEW n \in 1..h
    PROVE  Said(Generated(inputs, rows, said, stops, filler)[n], said[rows[n]], stops, filler)
<1> DEFINE spoken == [i \in DOMAIN inputs |->
                         Spoken(ReplyTo(inputs[i], rows[i], said[rows[i]]), stops)]
           w == Max({Len(spoken[i]) : i \in DOMAIN inputs})
           reply == said[rows[n]]
           s == spoken[n]
           e == Len(s)
           T == ToSet(reply)
           V == T \cup {filler}
           pads == [c \in 1..(w - e) |-> filler]
           row == s \o pads
<1>1. \A i \in 1..h : spoken[i] = Spoken(said[rows[i]], stops)
  BY DEF ReplyTo
<1>2. \A i \in 1..h : /\ said[rows[i]] \in Seq(ToSet(said[rows[i]]))
                      /\ Len(said[rows[i]]) >= NewTokens
  BY DecodingAssumption DEF IsText
<1>3. Generated(inputs, rows, said, stops, filler)[n] = row
  BY DEF Generated
<1> HIDE DEF spoken
<1>4. \A i \in 1..h : Len(spoken[i]) \in 1..NewTokens
  BY <1>1, <1>2, SpokenIs
<1>5. w \in Nat /\ e <= w /\ w <= NewTokens
  <2>1. NewTokens \in Nat /\ \A i \in 1..h : Len(spoken[i]) \in Nat /\ Len(spoken[i]) <= NewTokens
    BY <1>4, DecodingAssumption
  <2> DEFINE x == Max({Len(spoken[i]) : i \in 1..h})
  <2>2. /\ x \in Nat /\ \A i \in 1..h : Len(spoken[i]) <= x
        /\ \E i \in 1..h : x = Len(spoken[i])
    BY <2>1, LongestIs
  <2>3. w = x
    OBVIOUS
  <2> HIDE DEF x, w
  <2>4. QED BY <2>1, <2>2, <2>3
<1>6. /\ s \in Seq(T) /\ e \in 1..NewTokens /\ NewTokens \in Nat
      /\ \A c \in 1..e : s[c] = reply[c]
      /\ \A c \in 1..(e - 1) : reply[c] \notin stops
      /\ e = NewTokens \/ reply[e] \in stops
  <2>1. s = Spoken(reply, stops) /\ reply \in Seq(T) /\ Len(reply) >= NewTokens
    BY <1>1, <1>2
  <2> HIDE DEF s, T, reply
  <2>2. QED BY <2>1, SpokenIs, DecodingAssumption
<1> HIDE DEF w, s, reply, T
<1>7. s \in Seq(V) /\ pads \in Seq(V) /\ Len(pads) = w - e /\ \A c \in 1..(w - e) : pads[c] = filler
  <2>1. T \subseteq V /\ filler \in V
    OBVIOUS
  <2> HIDE DEF V, e
  <2>2. s \in Seq(V)
    BY <1>6, <2>1, SeqMonotonic
  <2>3. w - e \in Nat
    BY <1>5, <1>6
  <2>4. QED BY <2>1, <2>2, <2>3
<1> HIDE DEF pads, V
<1>8. /\ row \in Seq(V) /\ Len(row) = w
      /\ \A c \in 1..e : row[c] = reply[c]
      /\ \A c \in (e + 1)..w : row[c] = filler
  <2>1. /\ row \in Seq(V) /\ Len(row) = Len(s) + Len(pads)
        /\ \A c \in 1..Len(s) : row[c] = s[c]
        /\ \A c \in (Len(s) + 1)..(Len(s) + Len(pads)) : row[c] = pads[c - Len(s)]
    BY <1>7, BehindIs
  <2>2. \A c \in (e + 1)..w : c - e \in 1..(w - e)
    BY <1>5, <1>6
  <2> HIDE DEF row
  <2>3. Len(s) + Len(pads) = w
    BY <1>5, <1>6, <1>7
  <2>4. QED BY <1>6, <1>7, <2>1, <2>2, <2>3
<1> HIDE DEF row, e
<1>9. Said(row, reply, stops, filler)
  <2>1. IsSeq(row) /\ Len(row) \in e..NewTokens /\ Len(row) = w
    BY <1>5, <1>6, <1>8 DEF IsSeq
  <2>2. QED BY ONLY <1>6, <1>8, <2>1 DEF Said
<1>10. QED BY <1>3, <1>9 DEF reply

\* How far a reply goes before any stop.
LEMMA BeforeIs ==
    ASSUME NEW reply, NEW v, NEW end, end = Before(reply, v)
    PROVE  /\ end \in 0..NewTokens /\ NewTokens \in Nat
           /\ \A c \in 1..end : reply[c] \notin StopIds(v)
           /\ end < NewTokens => reply[end + 1] \in StopIds(v)
<1> DEFINE ends == {n \in 1..(NewTokens + 1) : n > NewTokens \/ reply[n] \in StopIds(v)}
           m == Min(ends)
<1>1. NewTokens \in Nat
  BY DecodingAssumption
<1>2. m \in ends /\ \A n \in ends : m <= n
  <2>1. NewTokens + 1 \in ends /\ ends \subseteq Nat
    BY <1>1
  <2> HIDE DEF ends
  <2>2. ends # {}
    BY <2>1
  <2>3. QED BY <2>1, <2>2, LeastIs
<1>3. end = m - 1
  BY DEF Before
<1> HIDE DEF m
<1>4. m \in 1..(NewTokens + 1) /\ (m > NewTokens \/ reply[m] \in StopIds(v)) /\ end + 1 = m
  BY <1>1, <1>2, <1>3
<1>5. \A c \in 1..end : reply[c] \notin StopIds(v)
  <2>1. \A c \in 1..end : c \in 1..(NewTokens + 1) /\ ~(m <= c)
    BY <1>1, <1>3, <1>4
  <2>2. QED BY <1>2, <2>1
<1>6. QED BY <1>1, <1>3, <1>4, <1>5

\* Special tokens at the end do not show in what is decoded.
LEMMA DecodedIs ==
    ASSUME NEW row, IsSeq(row), NEW reply, IsSeq(reply),
           NEW end \in Nat, end <= Len(reply), NEW a \in end..Len(row),
           \A c \in 1..end : row[c] = reply[c],
           \A c \in (end + 1)..a : Special(row[c])
    PROVE  Decoded(SubSeq(row, 1, a)) = Decoded(SubSeq(reply, 1, end))
<1> DEFINE shown(t) == IF Special(t) THEN <<>> ELSE <<t>>
           r == [n \in 1..a |-> shown(row[n])]
           s == [n \in 1..end |-> shown(reply[n])]
<1>1. PICK T : row \in Seq(T)
  BY DEF IsSeq
<1>2. PICK U : reply \in Seq(U)
  BY DEF IsSeq
<1> DEFINE V == T \cup U
<1>3. /\ a \in Nat /\ end <= a /\ Len(row) \in Nat /\ Len(reply) \in Nat
      /\ \A n \in 1..a : n \in 1..Len(row) /\ row[n] \in V
      /\ \A n \in 1..end : n \in 1..Len(reply) /\ reply[n] \in V
  <2>1. a \in Nat /\ end <= a /\ Len(row) \in Nat /\ Len(reply) \in Nat
    BY <1>1, <1>2
  <2>2. \A n \in 1..a : n \in 1..Len(row)
    BY <2>1
  <2>3. \A n \in 1..end : n \in 1..Len(reply)
    BY <2>1
  <2>4. QED BY <1>1, <1>2, <2>1, <2>2, <2>3
<1>4. \A t \in V : shown(t) \in Seq(V)
  <2> HIDE DEF V
  <2>1. QED BY TuplesAre
<1>5. /\ SubSeq(row, 1, a) = [n \in 1..a |-> row[n]]
      /\ SubSeq(reply, 1, end) = [n \in 1..end |-> reply[n]]
  BY <1>1, <1>2, <1>3
<1>6. Decoded(SubSeq(row, 1, a)) = FlattenSeq(r) /\ Decoded(SubSeq(reply, 1, end)) = FlattenSeq(s)
  BY <1>3, <1>5 DEF Decoded
<1> HIDE DEF V, shown
<1>7. /\ r \in Seq(Seq(V)) /\ Len(r) = a /\ \A n \in 1..a : r[n] = shown(row[n])
      /\ s \in Seq(Seq(V)) /\ Len(s) = end /\ \A n \in 1..end : s[n] = shown(reply[n])
  <2> DEFINE W == Seq(V)
  <2>1. \A t \in V : shown(t) \in W
    BY <1>4
  <2> HIDE DEF W
  <2>2. /\ r \in Seq(W) /\ Len(r) = a /\ s \in Seq(W) /\ Len(s) = end
    BY <1>3, <2>1
  <2>3. QED BY <2>2 DEF W
<1> HIDE DEF r, s
<1>8. FlatTo(r, a) = FlatTo(r, end)
  <2>1. \A i \in (end + 1)..a : r[i] = <<>>
    <3>1. \A i \in (end + 1)..a : i \in 1..a
      BY <1>3
    <3>2. QED BY <1>7, <3>1 DEF shown
  <2>2. end \in 0..Len(r) /\ a \in end..Len(r)
    BY <1>3, <1>7
  <2>3. QED BY <1>7, <2>1, <2>2, FlatStops
<1>9. FlatTo(r, end) = FlatTo(s, end)
  <2>1. end \in Nat /\ end <= Len(r) /\ end <= Len(s) /\ \A i \in 1..end : r[i] = s[i]
    <3>1. \A i \in 1..end : i \in 1..a
      BY <1>3
    <3>2. QED BY <1>3, <1>7, <3>1
  <2>2. QED BY <1>7, <2>1, FlatAgrees
<1>10. FlatTo(r, a) = FlattenSeq(r) /\ FlatTo(s, end) = FlattenSeq(s)
  BY <1>7, FlatIs
<1>11. QED BY <1>6, <1>8, <1>9, <1>10

\* A least element is the least.
LEMMA LeastIsIt ==
    ASSUME NEW S, S \subseteq Nat, NEW m \in S, \A n \in S : m <= n
    PROVE  Min(S) = m
<1>1. Min(S) \in S /\ Min(S) <= m
  BY LeastIs
<1>2. m <= Min(S) /\ m \in Nat /\ Min(S) \in Nat
  BY <1>1
<1>3. QED BY <1>1, <1>2

\* The tokens an evaluation cuts a row at.
Cuts(eos, filler) == {eos, filler} \ {NoToken}

\* completion_length without anything to cut, and at the first thing to cut.
LEMMA CutIs ==
    ASSUME NEW row, IsSeq(row), NEW eos, NEW filler
    PROVE  /\ (\A n \in 1..Len(row) : row[n] \notin Cuts(eos, filler))
                 => CompletionLength(row, eos, filler) = Len(row)
           /\ \A m \in 1..Len(row) :
                 row[m] \in Cuts(eos, filler) /\ (\A n \in 1..(m - 1) : row[n] \notin Cuts(eos, filler))
                 => CompletionLength(row, eos, filler) = IF row[m] = eos THEN m ELSE m - 1
<1> DEFINE ends == {n \in DOMAIN row : row[n] \in {eos, filler} \ {NoToken}}
           none == ends = {}
           some == ends # {} /\ row[Min(ends)] = eos
           l == CompletionLength(row, eos, filler)
<1>1. DOMAIN row = 1..Len(row) /\ Len(row) \in Nat
  BY DEF IsSeq
<1>2. l = CASE none -> Len(row) [] some -> Min(ends) [] OTHER -> Min(ends) - 1
  BY Zenon DEF CompletionLength
<1>3. ASSUME \A n \in 1..Len(row) : row[n] \notin Cuts(eos, filler) PROVE l = Len(row)
  <2>1. none /\ ~some
    BY <1>1, <1>3 DEF Cuts
  <2> HIDE DEF none, some, l, ends
  <2>2. QED BY <1>2, <2>1
<1>4. ASSUME NEW m \in 1..Len(row), row[m] \in Cuts(eos, filler),
             \A n \in 1..(m - 1) : row[n] \notin Cuts(eos, filler)
      PROVE  l = IF row[m] = eos THEN m ELSE m - 1
  <2>1. m \in ends /\ ends \subseteq Nat
    BY <1>1, <1>4 DEF Cuts
  <2>2. \A n \in ends : m <= n
    <3> TAKE n \in ends
    <3>1. n \in 1..Len(row) /\ row[n] \in Cuts(eos, filler)
      BY <1>1 DEF Cuts
    <3>2. n \notin 1..(m - 1)
      BY <1>4, <3>1
    <3>3. QED BY <1>1, <3>1, <3>2
  <2>3. Min(ends) = m /\ ~none
    <3> HIDE DEF ends
    <3>1. QED BY <2>1, <2>2, LeastIsIt
  <2>4. some <=> row[m] = eos
    BY <2>3
  <2> DEFINE x == Min(ends)
  <2>5. l = CASE none -> Len(row) [] some -> x [] OTHER -> x - 1
    BY <1>2
  <2>6. x = m
    BY <2>3
  <2> HIDE DEF x, none, some, l, ends
  <2>7. CASE some
    BY <2>3, <2>4, <2>5, <2>6, <2>7
  <2>8. CASE ~some
    BY <2>3, <2>4, <2>5, <2>6, <2>8
  <2>9. QED BY <2>7, <2>8
<1>5. QED BY <1>3, <1>4

\* trim_completion cuts at the first stop.
LEMMA TrimIs ==
    ASSUME NEW row, IsSeq(row), NEW stops, NEW end \in 0..Len(row),
           \A n \in 1..end : row[n] \notin stops,
           end < Len(row) => row[end + 1] \in stops
    PROVE  TrimCompletion(row, stops) = SubSeq(row, 1, end)
<1> DEFINE ends == {n \in DOMAIN row : row[n] \in stops}
<1>1. PICK T : row \in Seq(T)
  BY DEF IsSeq
<1>2. DOMAIN row = 1..Len(row) /\ Len(row) \in Nat /\ SubSeq(row, 1, Len(row)) = row
  BY <1>1
<1>3. CASE end = Len(row)
  <2>1. ends = {}
    BY <1>2, <1>3
  <2>2. TrimCompletion(row, stops) = row
    BY <2>1 DEF TrimCompletion
  <2>3. QED BY <1>2, <1>3, <2>2
<1>4. CASE end < Len(row)
  <2>1. end + 1 \in ends /\ ends \subseteq Nat
    BY <1>2, <1>4
  <2>2. \A n \in ends : end + 1 <= n
    <3> TAKE n \in ends
    <3>1. n \in 1..Len(row) /\ row[n] \in stops
      BY <1>2
    <3>2. n \notin 1..end
      BY <3>1
    <3>3. QED BY <1>2, <3>1, <3>2
  <2>3. Min(ends) = end + 1 /\ ends # {}
    <3> HIDE DEF ends
    <3>1. QED BY <2>1, <2>2, LeastIsIt
  <2>4. TrimCompletion(row, stops) = SubSeq(row, 1, Min(ends) - 1)
    BY <2>3 DEF TrimCompletion
  <2> HIDE DEF ends
  <2>5. Min(ends) - 1 = end
    BY <2>3
  <2>6. QED BY <2>4, <2>5
<1>5. end = Len(row) \/ end < Len(row)
  <2>1. Len(row) \in Nat
    BY <1>2
  <2>2. QED BY <2>1
<1>6. QED BY <1>3, <1>4, <1>5

\* What a model's reply is like, to a first stop.
LEMMA ReplyIs ==
    ASSUME NEW v \in Vocabularies, NEW reply \in Replies, NEW end, end = Before(reply, v),
           NEW stop, stop = StopOf(reply, v)
    PROVE  /\ IsSeq(reply) /\ NewTokens \in Nat \ {0} /\ end \in 0..NewTokens /\ end <= Len(reply)
           /\ Len(reply) >= NewTokens
           /\ \A c \in 1..end : reply[c] \notin StopIds(v)
           /\ \A c \in 1..NewTokens : reply[c] # NoToken /\ (reply[c] = v.pad => v.pad \in StopIds(v))
           /\ stop = NoToken => end = NewTokens
           /\ stop # NoToken => /\ end < NewTokens /\ reply[end + 1] = stop /\ stop \in StopIds(v)
                                /\ end + 1 \in 1..NewTokens
           /\ NoToken \notin v.stops
<1>1. /\ end \in 0..NewTokens /\ NewTokens \in Nat
      /\ \A c \in 1..end : reply[c] \notin StopIds(v)
      /\ end < NewTokens => reply[end + 1] \in StopIds(v)
  BY BeforeIs
<1>2. IsSeq(reply) /\ Len(reply) >= NewTokens /\ NewTokens \in Nat \ {0} /\ Len(reply) \in Nat
  BY DecodingAssumption DEF IsText, IsSeq
<1>3. /\ NoToken \notin v.stops
      /\ \A c \in 1..NewTokens : reply[c] # NoToken /\ (reply[c] = v.pad => v.pad \in StopIds(v))
  BY FillerAssumption
<1>4. stop = IF end < NewTokens THEN reply[end + 1] ELSE NoToken
  BY DEF StopOf
<1>5. end < NewTokens => end + 1 \in 1..NewTokens
  BY <1>1
<1>6. QED
  <2>1. CASE end < NewTokens
    BY <1>1, <1>2, <1>3, <1>4, <1>5, <2>1
  <2>2. CASE ~(end < NewTokens)
    <3>1. end = NewTokens /\ stop = NoToken
      BY <1>1, <1>4, <2>2
    <3>2. QED BY <1>1, <1>2, <1>3, <3>1
  <2>3. QED BY <2>1, <2>2

\* A sampled row is cut to the reply.
LEMMA SampledIs ==
    ASSUME NEW v \in Vocabularies, NEW reply \in Replies, NEW filler,
           NEW row, Said(row, reply, StopIds(v), filler)
    PROVE  /\ Len(TrimCompletion(row, StopIds(v))) = Before(reply, v)
           /\ Decoded(TrimCompletion(row, StopIds(v)))
                = Decoded(SubSeq(reply, 1, Before(reply, v)))
<1> DEFINE end == Before(reply, v)
           stop == StopOf(reply, v)
           S == StopIds(v)
<1>1. /\ IsSeq(reply) /\ NewTokens \in Nat \ {0} /\ end \in 0..NewTokens /\ end <= Len(reply)
      /\ \A c \in 1..end : reply[c] \notin S
      /\ stop = NoToken => end = NewTokens
      /\ stop # NoToken => /\ end < NewTokens /\ reply[end + 1] = stop /\ stop \in S
                           /\ end + 1 \in 1..NewTokens
  <2> HIDE DEF end, stop, S
  <2>1. end = Before(reply, v) /\ stop = StopOf(reply, v) /\ S = StopIds(v)
    BY DEF end, stop, S
  <2>2. QED BY <2>1, ReplyIs
<1> HIDE DEF end, stop, S
<1>2. PICK e \in 1..NewTokens :
         /\ \A c \in 1..(e - 1) : reply[c] \notin S
         /\ e = NewTokens \/ reply[e] \in S
         /\ IsSeq(row) /\ Len(row) \in e..NewTokens
         /\ \A c \in 1..e : row[c] = reply[c]
         /\ \A c \in (e + 1)..Len(row) : row[c] = filler
  BY DEF Said, S
<1>3. end <= e /\ (end < e => end + 1 = e)
  <2>1. ~(end > e)
    <3>1. end > e => e \in 1..end /\ e # NewTokens
      BY <1>1
    <3>2. QED BY <1>1, <1>2, <3>1
  <2>2. end + 1 <= e - 1 => end + 1 \in 1..(e - 1) /\ end < NewTokens
    BY <1>1
  <2>3. ~(end + 1 <= e - 1)
    BY <1>1, <1>2, <2>2
  <2>4. QED BY <1>1, <2>1, <2>3
<1>4. end \in 0..Len(row) /\ Len(row) \in Nat /\ end \in Nat
  BY <1>1, <1>2, <1>3
<1>5. \A c \in 1..end : row[c] = reply[c] /\ row[c] \notin S
  <2>1. \A c \in 1..end : c \in 1..e
    BY <1>1, <1>3
  <2>2. QED BY <1>1, <1>2, <2>1
<1>6. end < Len(row) => row[end + 1] \in S
  <2>1. CASE end < e
    <3>1. end + 1 = e /\ e \in 1..e /\ end < NewTokens
      BY <1>1, <1>3, <2>1
    <3>2. row[end + 1] = reply[end + 1] /\ reply[end + 1] \in S
      BY <1>1, <1>2, <3>1
    <3>3. QED BY <3>2
  <2>2. CASE ~(end < e)
    <3>1. end = e
      BY <1>1, <1>3, <2>2
    <3>2. end = NewTokens
      <4>1. e \in 1..end
        BY <1>1, <3>1
      <4>2. QED BY <1>1, <1>2, <3>1, <4>1
    <3>3. QED BY <1>2, <1>4, <3>2
  <2>3. QED BY <2>1, <2>2
<1>7. TrimCompletion(row, S) = SubSeq(row, 1, end)
  BY <1>2, <1>4, <1>5, <1>6, TrimIs
<1>8. Len(SubSeq(row, 1, end)) = end
  <2>1. PICK T : row \in Seq(T)
    BY <1>2 DEF IsSeq
  <2>2. QED BY <1>4, <2>1
<1>9. Decoded(SubSeq(row, 1, end)) = Decoded(SubSeq(reply, 1, end))
  <2>1. \A c \in (end + 1)..end : Special(row[c])
    BY <1>4
  <2>2. end \in end..Len(row)
    BY <1>4
  <2>3. QED BY <1>1, <1>2, <1>4, <1>5, <2>1, <2>2, DecodedIs
<1>10. QED BY <1>7, <1>8, <1>9 DEF end, S

\* What an evaluation keeps of a row: the reply, the stop it counts and a filler it may.
LEMMA EvaluatedIs ==
    ASSUME NEW v \in Vocabularies, NEW reply \in Replies, NEW f, f = EvaluationPad(v), f # NoToken,
           NEW row, Said(row, reply, v.stops, f),
           NEW end, end = Before(reply, v), NEW stop, stop = StopOf(reply, v),
           NEW l, l = CompletionLength(row, v.eos, f)
    PROVE  /\ stop = NoToken => l = NewTokens
           /\ stop # NoToken /\ stop = v.eos => l = end + 1
           /\ stop # NoToken /\ stop # v.eos /\ stop = v.pad => l = end
           /\ stop # NoToken /\ stop # v.eos /\ stop # v.pad =>
                 l = end + 1 \/ (l = end + 2 /\ f = v.eos)
           /\ IsSeq(row) /\ l \in 0..Len(row)
           /\ Decoded(SubSeq(row, 1, l)) = Decoded(SubSeq(reply, 1, end))
<1> DEFINE S == StopIds(v)
           C == Cuts(v.eos, f)
<1>1. /\ IsSeq(reply) /\ NewTokens \in Nat \ {0} /\ end \in 0..NewTokens /\ end <= Len(reply)
      /\ \A c \in 1..end : reply[c] \notin S
      /\ \A c \in 1..NewTokens : reply[c] # NoToken /\ (reply[c] = v.pad => v.pad \in S)
      /\ stop = NoToken => end = NewTokens
      /\ stop # NoToken => /\ end < NewTokens /\ reply[end + 1] = stop /\ stop \in S
                           /\ end + 1 \in 1..NewTokens
      /\ NoToken \notin v.stops
  BY ReplyIs
<1>2. /\ f = v.pad \/ f = v.eos
      /\ v.pad # NoToken => f = v.pad
      /\ \A id : id \in S <=> (id \in v.stops \/ id = v.eos) /\ id # NoToken
      /\ \A id : id \in C <=> (id = v.eos \/ id = f) /\ id # NoToken
  BY DEF EvaluationPad, StopIds, Cuts
<1>3. \A id : id \in v.stops \/ id = v.eos \/ id = v.pad => Special(id)
  BY DEF Special
<1> HIDE DEF S, C
<1>4. PICK e \in 1..NewTokens :
         /\ \A c \in 1..(e - 1) : reply[c] \notin v.stops
         /\ e = NewTokens \/ reply[e] \in v.stops
         /\ IsSeq(row) /\ Len(row) \in e..NewTokens
         /\ \A c \in 1..e : row[c] = reply[c]
         /\ \A c \in (e + 1)..Len(row) : row[c] = f
  BY DEF Said
<1>5. end <= e /\ (stop # NoToken => end + 1 <= e)
  <2>1. ~(end > e)
    <3>1. end > e => e \in 1..end /\ e # NewTokens
      BY <1>1
    <3>2. \A id \in v.stops : id \in S
      BY <1>1, <1>2
    <3>3. QED BY <1>1, <1>4, <3>1, <3>2
  <2>2. stop # NoToken => end # e
    <3>1. end = e => e \in 1..end
      BY <1>1
    <3>2. \A id \in v.stops : id \in S
      BY <1>1, <1>2
    <3>3. QED BY <1>1, <1>4, <3>1, <3>2
  <2>3. QED BY <1>1, <2>1, <2>2
<1>6. Len(row) \in Nat /\ end \in 0..Len(row) /\ end \in Nat /\ e <= Len(row) /\ Len(row) <= NewTokens
  BY <1>1, <1>4, <1>5
<1>7. \A c \in 1..end : row[c] = reply[c] /\ row[c] \notin C
  <2> TAKE c \in 1..end
  <2>1. c \in 1..e /\ c \in 1..NewTokens
    BY <1>1, <1>5
  <2>2. row[c] = reply[c] /\ reply[c] \notin S /\ reply[c] # NoToken
        /\ (reply[c] = v.pad => v.pad \in S)
    BY <1>1, <1>4, <2>1
  <2>3. QED BY <1>2, <2>2
<1>8. /\ (\A n \in 1..Len(row) : row[n] \notin C) => l = Len(row)
      /\ \A m \in 1..Len(row) : row[m] \in C /\ (\A n \in 1..(m - 1) : row[n] \notin C)
                                  => l = IF row[m] = v.eos THEN m ELSE m - 1
  BY <1>4, CutIs DEF C
<1> DEFINE one == end + 1  two == end + 2
<1>a. one = end + 1 /\ two = end + 2 /\ one - 1 = end /\ two - 1 = one /\ two = one + 1
  BY <1>6
<1> HIDE DEF one, two
<1>9. ASSUME NEW a \in end..Len(row), \A c \in (end + 1)..a : Special(row[c])
      PROVE  Decoded(SubSeq(row, 1, a)) = Decoded(SubSeq(reply, 1, end))
  <2>1. /\ IsSeq(row) /\ IsSeq(reply) /\ end \in Nat /\ end <= Len(reply)
        /\ \A c \in 1..end : row[c] = reply[c]
    BY <1>1, <1>4, <1>6, <1>7
  <2>2. a \in end..Len(row) /\ \A c \in (end + 1)..a : Special(row[c])
    BY <1>9
  <2> HIDE DEF S, C
  <2>3. QED BY ONLY <2>1, <2>2, DecodedIs
<1>10. CASE stop = NoToken
  <2>1. end = NewTokens /\ Len(row) = end /\ e = end
    BY <1>1, <1>5, <1>6, <1>10
  <2>2. l = Len(row)
    BY <1>7, <1>8, <2>1
  <2>3. Len(row) \in end..Len(row) /\ \A c \in (end + 1)..Len(row) : Special(row[c])
    BY <1>6, <2>1
  <2>4. l \in 0..Len(row)
    BY <1>6, <2>2
  <2>5. QED BY <1>4, <1>9, <1>10, <2>1, <2>2, <2>3, <2>4
<1>11. CASE stop # NoToken
  <2>1. /\ one \in 1..e /\ one \in 1..Len(row) /\ reply[one] = stop /\ stop \in S
    BY <1>1, <1>5, <1>6, <1>11, <1>a
  <2>2. row[one] = stop /\ Special(stop)
    BY <1>2, <1>3, <1>4, <2>1
  <2>3. one \in end..Len(row) /\ \A c \in (end + 1)..one : Special(row[c])
    <3>1. \A c \in (end + 1)..one : c = one
      BY <1>6, <1>a
    <3>2. QED BY <1>6, <1>a, <2>1, <2>2, <3>1
  <2>4. Decoded(SubSeq(row, 1, one)) = Decoded(SubSeq(reply, 1, end))
    BY <1>9, <2>3
  <2>5. ASSUME stop \in C PROVE l = IF stop = v.eos THEN one ELSE end
    <3>1. \A n \in 1..(one - 1) : row[n] \notin C
      BY <1>7, <1>a
    <3>2. l = IF row[one] = v.eos THEN one ELSE one - 1
      BY <1>8, <2>1, <2>2, <2>5, <3>1
    <3>3. QED BY <1>a, <2>2, <3>2
  <2>6. one \in 0..Len(row)
    BY <1>6, <2>1
  <2>7. CASE stop = v.eos
    <3>1. stop \in C
      BY <1>2, <1>11, <2>7
    <3>2. l = one
      BY <2>5, <2>7, <3>1
    <3>3. QED BY <1>4, <1>11, <1>a, <2>4, <2>6, <2>7, <3>2
  <2>8. CASE stop # v.eos /\ stop = v.pad
    <3>1. stop \in C
      BY <1>2, <1>11, <2>8
    <3>2. l = end
      BY <2>5, <2>8, <3>1
    <3>3. end \in end..Len(row) /\ \A c \in (end + 1)..end : Special(row[c])
      BY <1>6
    <3>4. Decoded(SubSeq(row, 1, end)) = Decoded(SubSeq(reply, 1, end))
      BY <1>9, <3>3
    <3>5. QED BY <1>4, <1>6, <1>11, <2>8, <3>2, <3>4
  <2>9. CASE stop # v.eos /\ stop # v.pad
    <3>1. stop \in v.stops /\ stop \notin C
      BY <1>2, <2>1, <2>9
    <3>2. one = e
      <4>1. one <= e - 1 => one \in 1..(e - 1)
        BY <1>6, <2>1
      <4>2. ~(one <= e - 1)
        BY <1>4, <2>1, <3>1, <4>1
      <4>3. e \in Nat /\ one \in Nat
        BY <1>1, <2>1
      <4>4. QED BY <2>1, <4>2, <4>3
    <3>3. \A n \in 1..one : row[n] \notin C
      <4>1. \A n \in 1..one : n \in 1..end \/ n = one
        BY <1>6, <1>a
      <4>2. QED BY <1>7, <2>2, <3>1, <4>1
    <3>4. CASE Len(row) = one
      <4>1. l = one
        BY <1>8, <3>3, <3>4
      <4>2. QED BY <1>4, <1>11, <1>a, <2>4, <2>6, <2>9, <4>1
    <3>5. CASE Len(row) # one
      <4>1. two \in 1..Len(row) /\ two \in (e + 1)..Len(row)
        BY <1>6, <1>a, <2>1, <3>2, <3>5
      <4>2. row[two] = f /\ f \in C
        BY <1>2, <1>4, <4>1
      <4>3. l = IF f = v.eos THEN two ELSE one
        <5>1. \A n \in 1..(two - 1) : row[n] \notin C
          BY <1>a, <3>3
        <5>2. l = IF row[two] = v.eos THEN two ELSE two - 1
          BY <1>8, <4>1, <4>2, <5>1
        <5>3. QED BY <1>a, <4>2, <5>2
      <4>4. Decoded(SubSeq(row, 1, two)) = Decoded(SubSeq(reply, 1, end))
        <5>1. \A c \in (end + 1)..two : c = one \/ c = two
          BY <1>6, <1>a
        <5>2. Special(f)
          BY <1>2, <1>3
        <5>3. \A c \in (end + 1)..two : Special(row[c])
          BY <2>2, <4>2, <5>1, <5>2
        <5>4. two \in end..Len(row)
          BY <1>6, <1>a, <4>1
        <5>5. QED BY <1>9, <5>3, <5>4
      <4>5. two \in 0..Len(row)
        BY <1>6, <4>1
      <4>6. CASE f = v.eos
        <5>1. l = two
          BY <4>3, <4>6
        <5>2. QED BY <1>4, <1>11, <1>a, <2>9, <4>4, <4>5, <4>6, <5>1
      <4>7. CASE f # v.eos
        <5>1. l = one
          BY <4>3, <4>7
        <5>2. QED BY <1>4, <1>11, <1>a, <2>4, <2>6, <2>9, <5>1
      <4>8. QED BY <4>6, <4>7
    <3>6. QED BY <3>4, <3>5
  <2>10. QED BY <2>7, <2>8, <2>9
<1>12. QED BY <1>10, <1>11

\* What the job at hand pads with, and stops at.
JobFiller == IF job.how # "sample" THEN EvaluationPad(job.vocabulary)
             ELSE SamplingPad(job.vocabulary)
JobStops == IF job.how # "sample" THEN job.vocabulary.stops ELSE StopIds(job.vocabulary)

\* A sample made of a row the model read aright.
LEMMA SampleIsOwned ==
    ASSUME job.vocabulary \in Vocabularies, JobFiller # NoToken,
           NEW reply \in Replies, NEW row, Said(row, reply, JobStops, JobFiller),
           NEW i, NEW draw, NEW made, made = Sample(row, i, reply, draw)
    PROVE  Owned(made, i, job.vocabulary, job.how) /\ made.draw = draw
<1> DEFINE v == job.vocabulary
           how == job.how
           end == Before(reply, v)
           stop == StopOf(reply, v)
           kept == IF how # "sample" THEN SubSeq(row, 1, CompletionLength(row, v.eos, EvaluationPad(v)))
                   ELSE TrimCompletion(row, StopIds(v))
           text == Decoded(kept)
           length == Len(kept)
           good == CASE how = "sample" -> length = end
                     [] how # "sample" /\ stop = NoToken -> length = NewTokens
                     [] how # "sample" /\ stop = v.eos /\ stop # NoToken -> length = end + 1
                     [] OTHER -> length \in
                           CASE stop = v.pad -> {end}
                             [] EvaluationPad(v) = v.eos -> {end + 1, end + 2}
                             [] OTHER -> {end + 1}
<1>1. made = [example |-> i, text |-> text, tokens |-> length, draw |-> draw, solo |-> reply]
  BY DEF Sample
<1> HIDE DEF text, length
<1>2. /\ made.example = i /\ made.text = text /\ made.tokens = length /\ made.draw = draw
      /\ made.solo = reply
  BY <1>1
<1>3. SUFFICES text = Decoded(SubSeq(reply, 1, end)) /\ good
  BY <1>2, Zenon DEF Owned
<1> HIDE DEF end, stop, kept, v, how
<1>4. CASE how = "sample"
  <2>1. kept = TrimCompletion(row, StopIds(v)) /\ JobStops = StopIds(v)
    BY <1>4 DEF kept, v, how, JobStops
  <2>2. Said(row, reply, StopIds(v), JobFiller) /\ v \in Vocabularies
    BY <2>1 DEF v
  <2>3. Len(kept) = end /\ Decoded(kept) = Decoded(SubSeq(reply, 1, end))
    BY <2>1, <2>2, SampledIs DEF end
  <2>4. length = end
    BY <2>3 DEF length
  <2>5. good
    BY <1>4, <2>4
  <2>6. QED BY <2>3, <2>5 DEF text
<1>5. CASE how # "sample"
  <2> DEFINE f == EvaluationPad(v)
             l == CompletionLength(row, v.eos, f)
  <2>1. kept = SubSeq(row, 1, l) /\ JobStops = v.stops /\ JobFiller = f /\ v \in Vocabularies
    BY <1>5 DEF kept, v, how, JobStops, JobFiller
  <2>2. f # NoToken /\ Said(row, reply, v.stops, f)
    BY <2>1
  <2> HIDE DEF f, l
  <2>3. f = EvaluationPad(v) /\ l = CompletionLength(row, v.eos, f)
    BY DEF f, l
  <2>4. /\ stop = NoToken => l = NewTokens
        /\ stop # NoToken /\ stop = v.eos => l = end + 1
        /\ stop # NoToken /\ stop # v.eos /\ stop = v.pad => l = end
        /\ stop # NoToken /\ stop # v.eos /\ stop # v.pad =>
              l = end + 1 \/ (l = end + 2 /\ f = v.eos)
        /\ IsSeq(row) /\ l \in 0..Len(row)
        /\ Decoded(SubSeq(row, 1, l)) = Decoded(SubSeq(reply, 1, end))
    <3>1. end = Before(reply, v) /\ stop = StopOf(reply, v)
      BY DEF end, stop
    <3>2. QED BY <2>1, <2>2, <2>3, <3>1, EvaluatedIs
  <2>5. length = l
    <3>1. PICK T : row \in Seq(T)
      BY <2>4 DEF IsSeq
    <3>2. Len(SubSeq(row, 1, l)) = l
      BY <2>4, <3>1
    <3>3. QED BY <2>1, <3>2 DEF length
  <2>6. good
    <3> DEFINE A == how = "sample"
               B == how # "sample" /\ stop = NoToken
               C == how # "sample" /\ stop = v.eos /\ stop # NoToken
               a == length = end
               b == length = NewTokens
               c == length = end + 1
               P == stop = v.pad
               Q == f = v.eos
               D == length \in CASE P -> {end} [] Q -> {end + 1, end + 2} [] OTHER -> {end + 1}
    <3>1. good <=> CASE A -> a [] B -> b [] C -> c [] OTHER -> D
      BY <2>3
    <3>2. /\ ~A /\ (B <=> stop = NoToken) /\ (C <=> stop = v.eos /\ stop # NoToken)
          /\ (B => b) /\ (C => c) /\ (B => ~C)
      BY <1>5, <2>4, <2>5
    <3>3. ~B /\ ~C => D
      <4> SUFFICES ASSUME stop # NoToken, stop # v.eos PROVE D
        BY <3>2
      <4>1. CASE P
        <5>1. ~Q
          BY <2>1, <2>3, <4>1 DEF EvaluationPad
        <5>2. length \in {end}
          BY <2>4, <2>5, <4>1
        <5> DEFINE X == {end}  Y == {end + 1, end + 2}  Z == {end + 1}
        <5>3. D <=> length \in CASE P -> X [] Q -> Y [] OTHER -> Z
          OBVIOUS
        <5> HIDE DEF D, P, Q, Y, Z
        <5>4. QED BY <4>1, <5>1, <5>2, <5>3
      <4>2. CASE ~P /\ Q
        <5>1. length \in {end + 1, end + 2}
          BY <2>4, <2>5, <4>2
        <5> DEFINE X == {end}  Y == {end + 1, end + 2}  Z == {end + 1}
        <5>3. D <=> length \in CASE P -> X [] Q -> Y [] OTHER -> Z
          OBVIOUS
        <5> HIDE DEF D, P, Q, X, Z
        <5>4. QED BY <4>2, <5>1, <5>3
      <4>3. CASE ~P /\ ~Q
        <5>1. length \in {end + 1}
          BY <2>4, <2>5, <4>3
        <5> DEFINE X == {end}  Y == {end + 1, end + 2}  Z == {end + 1}
        <5>3. D <=> length \in CASE P -> X [] Q -> Y [] OTHER -> Z
          OBVIOUS
        <5> HIDE DEF D, P, Q, X, Y
        <5>4. QED BY <4>3, <5>1, <5>3
      <4>4. QED BY <4>1, <4>2, <4>3
    <3> HIDE DEF A, B, C, D, a, b, c, good
    <3>4. CASE B
      BY <3>1, <3>2, <3>4
    <3>5. CASE C
      BY <3>1, <3>2, <3>5
    <3>6. CASE ~B /\ ~C
      BY <3>1, <3>2, <3>3, <3>6
    <3>7. QED BY <3>4, <3>5, <3>6
  <2>7. QED BY <2>1, <2>4, <2>6 DEF text
<1>6. QED BY <1>4, <1>5

-----------------------------------------------------------------------------
(* The order of the prompts, and their batches.                            *)

\* An order has everyone once.
IsOrder(order, n) ==
    /\ order \in Seq(1..n) /\ Len(order) = n
    /\ \A a, b \in 1..n : order[a] = order[b] => a = b
    /\ \A i \in 1..n : \E a \in 1..n : order[a] = i

\* Who comes before whom in length_sorted_batches, and the order.
Sooner(lengths, i) ==
    {j \in DOMAIN lengths : \/ lengths[j] < lengths[i]
                            \/ lengths[j] = lengths[i] /\ j < i}

ShortestFirst(lengths) ==
    [m \in DOMAIN lengths |->
        CHOOSE i \in DOMAIN lengths : Cardinality(Sooner(lengths, i)) = m - 1]

\* By length, and by place where lengths are equal, is an order.
LEMMA SortedIs ==
    ASSUME NEW n \in Nat, NEW lengths, DOMAIN lengths = 1..n, \A i \in 1..n : lengths[i] \in Nat
    PROVE  IsOrder(ShortestFirst(lengths), n)
<1> DEFINE w == 1..n
           before(i) == Sooner(lengths, i)
           rank == [i \in w |-> Cardinality(before(i)) + 1]
           pick(m) == CHOOSE i \in DOMAIN lengths : Cardinality(Sooner(lengths, i)) = m - 1
           order == [m \in DOMAIN lengths |-> pick(m)]
<1>1. IsFiniteSet(w) /\ Cardinality(w) = n
  <2>1. (IF 1 > n THEN 0 ELSE n - 1 + 1) = n
    OBVIOUS
  <2>2. QED BY <2>1, FS_Interval
<1>2. \A i \in w : before(i) \subseteq w /\ i \notin before(i)
  BY DEF Sooner
<1>3. \A i, j \in w : /\ j \in before(i) => before(j) \subseteq before(i)
                      /\ i # j => j \in before(i) \/ i \in before(j)
  <2> TAKE i, j \in w
  <2>1. lengths[i] \in Nat /\ lengths[j] \in Nat /\ i \in Nat /\ j \in Nat
    OBVIOUS
  <2>2. ASSUME j \in before(i), NEW o \in before(j) PROVE o \in before(i)
    <3>1. o \in w /\ lengths[o] \in Nat /\ o \in Nat
      BY <1>2
    <3>2. QED BY <2>1, <2>2, <3>1 DEF Sooner
  <2>3. i # j => j \in before(i) \/ i \in before(j)
    BY <2>1 DEF Sooner
  <2>4. QED BY <2>2, <2>3
<1> HIDE DEF before
<1>4. \A i \in w : /\ IsFiniteSet(before(i)) /\ Cardinality(before(i)) \in Nat
                   /\ Cardinality(before(i)) < n
  <2> TAKE i \in w
  <2>1. IsFiniteSet(before(i)) /\ Cardinality(before(i)) <= n /\ Cardinality(before(i)) # n
    BY <1>1, <1>2, FS_Subset
  <2>2. Cardinality(before(i)) \in Nat
    BY <2>1, FS_CardinalityType
  <2>3. QED BY <2>1, <2>2
<1>5. \A i, j \in w : j \in before(i) => Cardinality(before(j)) < Cardinality(before(i))
  <2> TAKE i, j \in w
  <2> HAVE j \in before(i)
  <2>1. before(j) \subseteq before(i) /\ j \notin before(j)
    BY <1>2, <1>3
  <2>2. Cardinality(before(j)) <= Cardinality(before(i)) /\ Cardinality(before(j)) # Cardinality(before(i))
    BY <1>4, <2>1, FS_Subset
  <2>3. QED BY <1>4, <2>2
<1>6. \A i \in w : rank[i] = Cardinality(before(i)) + 1 /\ rank[i] \in w
  BY <1>4
<1>7. \A i, j \in w : rank[i] = rank[j] => i = j
  <2> TAKE i, j \in w
  <2> HAVE rank[i] = rank[j]
  <2>1. Cardinality(before(i)) = Cardinality(before(j))
    BY <1>4, <1>6
  <2>2. j \notin before(i) /\ i \notin before(j)
    BY <1>4, <1>5, <2>1
  <2>3. QED BY <1>3, <2>2
<1>8. rank \in Surjection(w, w)
  <2>1. rank \in [w -> w]
    BY <1>6
  <2> HIDE DEF rank, w
  <2>2. rank \in Injection(w, w)
    BY <1>7, <2>1 DEF Injection, IsInjective
  <2>3. QED BY <1>1, <2>2, FS_Injection
<1>9. \A m \in w : \E i \in w : Cardinality(before(i)) = m - 1
  <2> TAKE m \in w
  <2>1. PICK i \in w : rank[i] = m
    <3> HIDE DEF rank, w
    <3>1. QED BY <1>8 DEF Surjection
  <2>2. Cardinality(before(i)) = m - 1
    <3> HIDE DEF rank
    <3>1. rank[i] = Cardinality(before(i)) + 1 /\ Cardinality(before(i)) \in Nat
      BY <1>4, <1>6
    <3>2. QED BY <2>1, <3>1
  <2>3. QED BY <2>2
<1>10. \A m \in w : pick(m) \in w /\ Cardinality(before(pick(m))) = m - 1
  BY <1>9 DEF before
<1> HIDE DEF pick
<1>11. \A m \in w : order[m] = pick(m) /\ order[m] \in w /\ rank[order[m]] = m
  <2> TAKE m \in w
  <2>1. order[m] = pick(m) /\ order[m] \in w
    BY <1>10
  <2>2. rank[order[m]] = (m - 1) + 1
    BY <1>6, <1>10, <2>1
  <2>3. QED BY <2>1, <2>2
<1>12. order = [m \in 1..n |-> order[m]]
  OBVIOUS
<1> HIDE DEF order, rank
<1>13. order \in Seq(1..n) /\ Len(order) = n
  BY <1>11, <1>12
<1>14. \A a, b \in 1..n : order[a] = order[b] => a = b
  BY <1>11
<1>15. \A i \in 1..n : \E a \in 1..n : order[a] = i
  <2> TAKE i \in 1..n
  <2>1. rank[i] \in w /\ order[rank[i]] \in w /\ rank[order[rank[i]]] = rank[i]
    BY <1>6, <1>11
  <2>2. order[rank[i]] = i
    BY <1>7, <2>1
  <2>3. QED BY <2>1, <2>2
<1>16. QED BY <1>13, <1>14, <1>15 DEF IsOrder, order, pick, ShortestFirst

\* Batches that have every one of 1..n once.
Covers(batches, n) ==
    /\ Len(batches) \in Nat \ {0} /\ DOMAIN batches = 1..Len(batches)
    /\ \A b \in 1..Len(batches) : batches[b] \in Seq(1..n) /\ batches[b] # <<>>
    /\ \A i \in 1..n : \E b \in 1..Len(batches) : \E j \in 1..Len(batches[b]) : batches[b][j] = i
    /\ \A b, c \in 1..Len(batches) : \A j \in 1..Len(batches[b]), l \in 1..Len(batches[c]) :
          batches[b][j] = batches[c][l] => b = c /\ j = l

\* Cutting an order into calls gives such batches.
LEMMA CallsCover ==
    ASSUME NEW n \in Nat \ {0}, NEW order, IsOrder(order, n)
    PROVE  Covers(InCalls(order), n)
<1> DEFINE R == RowsPerCall
           up == n + R - 1
           C == up \div R
           batches == InCalls(order)
           lo(b) == (b - 1) * R
           hi(b) == IF b * R < n THEN b * R ELSE n
<1>1. R \in Nat \ {0} /\ up \in Nat
  BY DecodingAssumption
<1>2. order \in Seq(1..n) /\ Len(order) = n /\ (\A a, b \in 1..n : order[a] = order[b] => a = b)
      /\ (\A i \in 1..n : \E a \in 1..n : order[a] = i)
  BY DEF IsOrder
<1>3. /\ DOMAIN batches = 1..C
      /\ \A b \in 1..C : batches[b] = SubSeq(order, lo(b) + 1, hi(b))
      /\ batches = [b \in 1..C |-> batches[b]]
  BY <1>2 DEF InCalls
<1> HIDE DEF R, batches
<1>4. C \in Int /\ \E e \in 0..(R - 1) : up = R * C + e
  <2> HIDE DEF up
  <2>1. up % R \in 0..(R - 1) /\ up = R * (up \div R) + (up % R)
    BY <1>1
  <2>2. QED BY <1>1, <2>1
<1> HIDE DEF C
<1>5. C >= 1 /\ n <= R * C /\ R * C <= n + R - 1
  <2>1. PICK e \in 0..(R - 1) : up = R * C + e
    BY <1>4
  <2> DEFINE x == R * C
  <2>2. x \in Int /\ (C <= 0 => x <= 0)
    BY <1>1, <1>4
  <2> HIDE DEF x
  <2>3. x <= n + R - 1 /\ n <= x
    BY <1>1, <2>1, <2>2 DEF x
  <2>4. C >= 1
    BY <1>4, <2>2, <2>3
  <2>5. QED BY <2>3, <2>4 DEF x
<1>6. ASSUME NEW b \in 1..C
      PROVE  lo(b) \in Nat /\ lo(b) < n /\ b * R = lo(b) + R
  <2> DEFINE x == R * C  y == (C - b) * R  z == (b - 1) * R  t == b * R
  <2>1. b \in Nat /\ C - b \in Nat /\ b - 1 \in Nat
    BY <1>4
  <2>2. /\ y \in Nat /\ z \in Nat /\ t = z + R /\ t + y = x /\ x \in Int
    BY <1>1, <1>4, <2>1
  <2>3. x <= n + R - 1
    BY <1>5
  <2> HIDE DEF x, y, z, t
  <2>4. z \in Nat /\ z < n /\ t = z + R
    BY <1>1, <2>2, <2>3
  <2>5. QED BY <2>4 DEF z, t
<1> DEFINE l(b) == hi(b) - lo(b)
<1>7. ASSUME NEW b \in 1..C
      PROVE  /\ l(b) \in 1..R /\ hi(b) \in 1..n /\ lo(b) + l(b) = hi(b)
             /\ hi(b) = n \/ l(b) = R
  <2> DEFINE z == lo(b)  t == b * R  u == hi(b)
  <2>1. z \in Nat /\ z < n /\ t = z + R
    BY <1>6
  <2>2. u = IF t < n THEN t ELSE n
    OBVIOUS
  <2> HIDE DEF z, t, u
  <2>3. u - z \in 1..R /\ u \in 1..n /\ z + (u - z) = u /\ (u = n \/ u - z = R)
    BY <1>1, <2>1, <2>2
  <2>4. QED BY <2>3 DEF z, u
<1> HIDE DEF lo, hi
<1>8. ASSUME NEW b \in 1..C
      PROVE  /\ batches[b] \in Seq(1..n) /\ Len(batches[b]) = l(b)
             /\ \A j \in 1..l(b) : lo(b) + j \in 1..n /\ batches[b][j] = order[lo(b) + j]
  <2> DEFINE W == 1..n  u == lo(b) + 1  d == hi(b)  z == lo(b)  t == l(b)
  <2>1. z \in Nat /\ z < n /\ t \in 1..R /\ d \in 1..n /\ z + t = d /\ Len(order) = n /\ u = z + 1
    BY <1>2, <1>6, <1>7
  <2> HIDE DEF W, u, d, z, t
  <2>2. order \in Seq(W) /\ u \in 1..(Len(order) + 1) /\ d \in (u - 1)..Len(order)
        /\ d - u + 1 = t /\ u \in Nat /\ d \in Nat
        /\ \A j \in 1..t : u + j - 1 = z + j /\ z + j \in 1..n
    <3>1. order \in Seq(W)
      BY <1>2 DEF W
    <3>2. \A j \in 1..t : j \in Nat /\ j <= t
      BY <1>1, <2>1
    <3>3. t \in Nat
      BY <1>1, <2>1
    <3>4. QED BY <2>1, <3>1, <3>2, <3>3
  <2> HIDE DEF l
  <2>3. batches[b] = SubSeq(order, u, d)
    BY <1>3 DEF u, d
  <2>4. /\ SubSeq(order, u, d) \in Seq(W) /\ Len(SubSeq(order, u, d)) = d - u + 1
        /\ \A j \in 1..(d - u + 1) : SubSeq(order, u, d)[j] = order[u + j - 1]
    BY <2>2, SubSeqProperties
  <2>5. batches[b] \in Seq(W) /\ Len(batches[b]) = t
        /\ \A j \in 1..t : batches[b][j] = order[z + j] /\ z + j \in 1..n
    BY <2>2, <2>3, <2>4
  <2>6. QED BY <2>5 DEF W, t, z
<1>9. batches \in Seq(Seq(1..n)) /\ Len(batches) = C
  <2> DEFINE W == Seq(1..n)
  <2>1. \A b \in 1..C : batches[b] \in W
    BY <1>8
  <2> HIDE DEF W
  <2>2. batches \in Seq(W) /\ Len(batches) = C
    BY <1>3, <1>4, <1>5, <2>1
  <2>3. QED BY <2>2 DEF W
<1>10. \A b \in 1..C : batches[b] # <<>>
  BY <1>7, <1>8
<1>11. \A i \in 1..n : \E b \in 1..C : \E j \in 1..l(b) : batches[b][j] = i
  <2> TAKE i \in 1..n
  <2>1. PICK a \in 1..n : order[a] = i
    BY <1>2
  <2> DEFINE q == (a - 1) \div R
             r == (a - 1) % R
             x == R * q
             y == R * C
             b == q + 1
             j == r + 1
  <2>2. a - 1 \in Nat /\ a - 1 = x + r /\ r \in 0..(R - 1) /\ q \in Int /\ x \in Int /\ y \in Int
        /\ a \in Nat
    <3> DEFINE g == a - 1
    <3>1. g \in Nat
      OBVIOUS
    <3> HIDE DEF g
    <3>2. g = R * (g \div R) + (g % R) /\ g % R \in 0..(R - 1) /\ g \div R \in Int
      BY <1>1, <3>1
    <3> HIDE DEF q, r
    <3>3. a - 1 = x + r /\ r \in 0..(R - 1) /\ q \in Int
      BY <3>2 DEF g, q, r
    <3>4. QED BY <1>1, <1>4, <3>3
  <2> HIDE DEF q, r
  <2>3. q >= 0
    <3>1. q <= -1 => x <= -R
      BY <1>1, <2>2
    <3> HIDE DEF x
    <3>2. QED BY <1>1, <2>2, <3>1
  <2>4. q < C
    <3>1. q >= C => x >= y
      BY <1>1, <1>4, <2>2
    <3>2. n <= y
      BY <1>5
    <3> HIDE DEF x, y
    <3>3. QED BY <1>4, <2>2, <3>1, <3>2
  <2>5. b \in 1..C /\ lo(b) = x
    BY <1>1, <1>4, <2>2, <2>3, <2>4 DEF lo
  <2>6. j \in 1..l(b) /\ lo(b) + j = a
    <3>1. j \in 1..R /\ x + j = a /\ x \in Nat
      <4>1. x \in Nat
        BY <1>6, <2>5
      <4> HIDE DEF x
      <4>2. QED BY <1>1, <2>2, <4>1
    <3>2. l(b) \in 1..R /\ lo(b) + l(b) = hi(b) /\ (hi(b) = n \/ l(b) = R)
      BY <1>7, <2>5
    <3> HIDE DEF x, b, j, l
    <3>3. QED BY <1>1, <2>5, <3>1, <3>2
  <2>7. batches[b][j] = i
    BY <1>8, <2>1, <2>5, <2>6
  <2> HIDE DEF b, j
  <2>8. QED BY <2>5, <2>6, <2>7
<1>12. \A b, c \in 1..C : \A j \in 1..l(b), m \in 1..l(c) :
           batches[b][j] = batches[c][m] => b = c /\ j = m
  <2> TAKE b, c \in 1..C
  <2> TAKE j \in 1..l(b), m \in 1..l(c)
  <2> HAVE batches[b][j] = batches[c][m]
  <2>1. lo(b) + j = lo(c) + m
    BY <1>2, <1>8
  <2> DEFINE p == (b - 1) * R  q == (c - 1) * R
  <2>2. /\ b - 1 \in Nat /\ c - 1 \in Nat /\ j - 1 \in 0..(R - 1) /\ m - 1 \in 0..(R - 1)
        /\ p \in Nat /\ q \in Nat
    <3>1. l(b) \in 1..R /\ l(c) \in 1..R
      BY <1>7
    <3>2. p \in Nat /\ q \in Nat
      BY <1>6 DEF lo
    <3> HIDE DEF l, p, q
    <3>3. QED BY <1>1, <1>4, <3>1, <3>2
  <2>3. p + (j - 1) = q + (m - 1)
    <3>1. p + j = q + m
      BY <2>1 DEF lo
    <3> HIDE DEF p, q
    <3>2. j \in Nat /\ m \in Nat
      BY <1>7
    <3>3. QED BY <2>2, <3>1, <3>2
  <2>4. /\ (p + (j - 1)) \div R = b - 1 /\ (p + (j - 1)) % R = j - 1
        /\ (q + (m - 1)) \div R = c - 1 /\ (q + (m - 1)) % R = m - 1
    BY <1>1, <2>2, QuotientIs
  <2>5. b - 1 = c - 1 /\ j - 1 = m - 1
    <3> HIDE DEF p, q
    <3>1. QED BY <2>3, <2>4
  <2>6. b \in Nat /\ c \in Nat /\ j \in Nat /\ m \in Nat
    BY <1>7
  <2>7. QED BY <2>5, <2>6
<1> HIDE DEF l
<1>13. Covers(batches, n)
  <2>1. Len(batches) \in Nat \ {0} /\ DOMAIN batches = 1..Len(batches) /\ Len(batches) = C
        /\ \A b \in 1..C : Len(batches[b]) = l(b)
    BY <1>3, <1>4, <1>5, <1>8, <1>9
  <2>2. \A b \in 1..Len(batches) : batches[b] \in Seq(1..n) /\ batches[b] # <<>>
    BY <1>8, <1>10, <2>1
  <2>3. \A i \in 1..n : \E b \in 1..Len(batches) : \E j \in 1..Len(batches[b]) : batches[b][j] = i
    <3> TAKE i \in 1..n
    <3>1. PICK b \in 1..C : \E j \in 1..l(b) : batches[b][j] = i
      BY <1>11
    <3>2. Len(batches[b]) = l(b) /\ b \in 1..Len(batches)
      BY <2>1
    <3>3. QED BY <3>1, <3>2
  <2>4. \A b, c \in 1..Len(batches) : \A j \in 1..Len(batches[b]), m \in 1..Len(batches[c]) :
          batches[b][j] = batches[c][m] => b = c /\ j = m
    <3> TAKE b, c \in 1..Len(batches)
    <3>1. Len(batches[b]) = l(b) /\ Len(batches[c]) = l(c) /\ b \in 1..C /\ c \in 1..C
      BY <2>1
    <3>2. QED BY <1>12, <3>1
  <2>5. QED BY <2>1, <2>2, <2>3, <2>4 DEF Covers
<1>14. QED BY <1>13 DEF batches

\* A prompt has tokens.
LEMMA PromptsAre ==
    ASSUME NEW template
    PROVE  \E T : \A i \in DOMAIN Requests :
              /\ Encode(PromptText(template, Requests[i])) \in Seq(T)
              /\ Encode(PromptText(template, Requests[i])) # <<>>
<1> DEFINE X == Marks \cup UNION {ToSet(Requests[i]) : i \in DOMAIN Requests}
           T == Seq(X)
<1>1. ASSUME NEW i \in DOMAIN Requests 
      PROVE  /\ Encode(PromptText(template, Requests[i])) \in Seq(T)
             /\ Encode(PromptText(template, Requests[i])) # <<>>
  <2> DEFINE prompt == Requests[i]
             text == PromptText(template, prompt)
  <2>1. prompt \in Seq(X)
    <3>1. prompt \in Seq(ToSet(prompt)) /\ ToSet(prompt) \subseteq X
      BY DecodingAssumption DEF IsText
    <3> HIDE DEF X, prompt
    <3>2. QED BY <3>1, SeqMonotonic
  <2>2. Marks \subseteq X
    OBVIOUS
  <2> HIDE DEF X, prompt, T
  <2>3. text \in Seq(X) /\ text # <<>>
    BY <2>1, <2>2, TextsAre
  <2>4. Encode(PromptText(template, Requests[i])) = Encode(text)
    BY DEF prompt
  <2> HIDE DEF text
  <2>5. Len(text) \in 0..Len(text) /\ Len(text) # 0 /\ SubSeq(text, 1, Len(text)) = text
    BY <2>3
  <2>6. /\ Read(text, Len(text)) \in Seq(Seq(X)) /\ Read(text, Len(text)) # <<>>
    BY <2>3, <2>5, TokensAre
  <2>7. Read(text, Len(text)) = Encode(text)
    BY <2>5 DEF Read
  <2>8. QED BY <2>4, <2>6, <2>7 DEF T
<1> HIDE DEF T
<1>2. QED BY <1>1

\* So has one of the job at hand.
LEMMA PromptIdsAre ==
    \E T : \A i \in DOMAIN Requests : PromptIds(i) \in Seq(T) /\ PromptIds(i) # <<>>
<1>1. PICK T : \A i \in DOMAIN Requests :
                  /\ Encode(PromptText(job.template, Requests[i])) \in Seq(T)
                  /\ Encode(PromptText(job.template, Requests[i])) # <<>>
  BY PromptsAre
<1>2. QED BY <1>1 DEF PromptIds

\* Rows with tokens in them.
AreRows(h, rows, T) == /\ h \in Nat \ {0} /\ DOMAIN rows = 1..h
                       /\ \A n \in 1..h : rows[n] \in Seq(T) /\ rows[n] # <<>>

\* All of them are shown as they are.
LEMMA AllShow ==
    ASSUME NEW h, NEW rows, NEW T, AreRows(h, rows, T), NEW filler, NEW n \in 1..h
    PROVE  /\ DOMAIN LeftPad(rows, filler) = 1..h
           /\ Shows(LeftPad(rows, filler)[n], rows[n])
           /\ Last(LeftPad(rows, filler)[n].mask) = 1
<1>1. /\ h \in Nat \ {0} /\ DOMAIN rows = 1..h
      /\ \A j \in 1..h : rows[j] \in Seq(T) /\ rows[j] # <<>>
  BY DEF AreRows
<1>2. QED BY <1>1, LeftPadShows

\* Each row of a call comes back as the reply to its own prompt.
LEMMA OutIs ==
    ASSUME NEW rows \in Seq(1..Len(Requests)), rows # <<>>, NEW said \in [ToSet(rows) -> Replies],
           NEW stops, NEW filler, NEW n \in 1..Len(rows),
           NEW inputs, inputs = LeftPad([j \in DOMAIN rows |-> PromptIds(rows[j])], filler)
    PROVE  /\ Said(Generated(inputs, rows, said, stops, filler)[n], said[rows[n]], stops, filler)
           /\ said[rows[n]] \in Replies
<1> DEFINE h == Len(rows)
           ids == [j \in DOMAIN rows |-> PromptIds(rows[j])]
<1>1. h \in Nat \ {0} /\ DOMAIN rows = 1..h /\ DOMAIN ids = 1..h /\ n \in 1..h
  OBVIOUS
<1>2. DOMAIN Requests = 1..Len(Requests)
  BY DecodingAssumption DEF IsText
<1>3. PICK T : \A i \in DOMAIN Requests : PromptIds(i) \in Seq(T) /\ PromptIds(i) # <<>>
  BY PromptIdsAre
<1>4. \A j \in 1..h : ids[j] = PromptIds(rows[j]) /\ rows[j] \in 1..Len(Requests) /\ rows[j] \in ToSet(rows)
  BY DEF ToSet
<1>5. \A j \in 1..h : ids[j] \in Seq(T) /\ ids[j] # <<>>
  BY <1>2, <1>3, <1>4
<1>6. inputs = LeftPad(ids, filler)
  OBVIOUS
<1> HIDE DEF ids, h
<1>a. AreRows(h, ids, T)
  BY <1>1, <1>5 DEF AreRows
<1>7. \A j \in 1..h : /\ DOMAIN LeftPad(ids, filler) = 1..h
                      /\ Shows(LeftPad(ids, filler)[j], ids[j])
                      /\ Last(LeftPad(ids, filler)[j].mask) = 1
  BY <1>a, AllShow
<1>8. DOMAIN inputs = 1..h
  BY <1>1, <1>6, <1>7
<1>9. \A j \in 1..h : said[rows[j]] \in Replies
  BY <1>4
<1>10. \A j \in 1..h : Shows(inputs[j], PromptIds(rows[j])) /\ Last(inputs[j].mask) = 1
  BY <1>4, <1>6, <1>7
<1>11. Said(Generated(inputs, rows, said, stops, filler)[n], said[rows[n]], stops, filler)
  BY <1>1, <1>8, <1>9, <1>10, GeneratedIs
<1>12. QED BY <1>1, <1>9, <1>11

\* What a call files under example i.
New(rows, made, i) == FlattenSeq([n \in DOMAIN rows |-> IF rows[n] = i THEN <<made[n]>> ELSE <<>>])

\* It is the sample of the row that is the example's, or nothing.
Files(old, rows, h, made, i) ==
    /\ (\A n \in 1..h : rows[n] # i) => old \o New(rows, made, i) = old
    /\ \A j \in 1..h : (\A n \in 1..h : rows[n] = i <=> n = j) =>
          old \o New(rows, made, i) = Append(old, made[j])

\* So it is.
LEMMA FiledIs ==
    ASSUME NEW rows, NEW h \in Nat, DOMAIN rows = 1..h, NEW i, NEW made, NEW old, IsSeq(old)
    PROVE  Files(old, rows, h, made, i)
<1> DEFINE filed == old \o New(rows, made, i)
           T == {made[n] : n \in 1..h}
           e(n) == IF rows[n] = i THEN <<made[n]>> ELSE <<>>
           lists == [n \in DOMAIN rows |-> e(n)]
<1>1. \A n \in 1..h : e(n) \in Seq(T)
  <2> TAKE n \in 1..h
  <2>1. made[n] \in T
    OBVIOUS
  <2> HIDE DEF T
  <2>2. QED BY <2>1, TuplesAre
<1>2. lists = [n \in 1..h |-> e(n)] /\ filed = old \o FlattenSeq(lists)
  BY DEF New
<1> HIDE DEF e, lists, filed
<1>3. lists \in Seq(Seq(T)) /\ Len(lists) = h /\ \A n \in 1..h : lists[n] = e(n)
  <2> DEFINE U == Seq(T)
  <2>1. \A n \in 1..h : e(n) \in U
    BY <1>1
  <2> HIDE DEF U
  <2>2. lists \in Seq(U) /\ Len(lists) = h /\ \A n \in 1..h : lists[n] = e(n)
    BY <1>2, <2>1
  <2>3. QED BY <2>2 DEF U
<1> HIDE DEF T
<1>4. PICK S : old \in Seq(S)
  BY DEF IsSeq
<1>5. ASSUME \A n \in 1..h : rows[n] # i PROVE filed = old
  <2>1. \A n \in (0 + 1)..Len(lists) : lists[n] = <<>>
    BY <1>3, <1>5 DEF e
  <2>2. 0 \in 0..Len(lists) /\ Len(lists) \in 0..Len(lists)
    BY <1>3
  <2>3. FlatTo(lists, Len(lists)) = FlatTo(lists, 0)
    BY <1>3, <2>1, <2>2, FlatStops
  <2>4. FlattenSeq(lists) = <<>>
    BY <1>3, <2>3, FlatIs
  <2>5. QED BY <1>2, <1>4, <2>4, ConcatEmptySeq
<1>6. ASSUME NEW j \in 1..h, \A n \in 1..h : rows[n] = i <=> n = j PROVE filed = Append(old, made[j])
  <2>1. \A n \in 1..Len(lists) : n # j => lists[n] = <<>>
    BY <1>3, <1>6 DEF e
  <2>2. j \in 1..Len(lists)
    BY <1>3
  <2>3. FlattenSeq(lists) = lists[j]
    BY <1>3, <2>1, <2>2, OneList
  <2>4. lists[j] = <<made[j]>>
    BY <1>3, <1>6 DEF e
  <2>5. old \o <<made[j]>> = Append(old, made[j])
    <3> DEFINE x == made[j]
    <3> HIDE DEF x
    <3>1. old \o <<x>> = Append(old, x)
      BY <1>4
    <3>2. QED BY <3>1 DEF x
  <2>6. QED BY <1>2, <2>3, <2>4, <2>5
<1>7. QED BY <1>5, <1>6 DEF filed, Files

-----------------------------------------------------------------------------
(* The invariant of the generate calls.                                    *)

\* The calls from the p-th on are to come.
ToGo(calls, batches, k, p) ==
    /\ IsSeq(calls)
    /\ p \in 0..(k * Len(batches)) /\ Len(calls) = k * Len(batches) - p
    /\ \A c \in 1..Len(calls) : calls[c] = Sweeps(batches, k)[p + c]

\* The samples of the j-th prompt of batch b, l of them.
Filed(list, i, l, b, j, v, how) ==
    /\ IsSeq(list) /\ Len(list) = l
    /\ \A m \in 1..l : /\ Owned(list[m], i, v, how)
                       /\ list[m].draw = <<<<m - 1, b - 1>>, j>>

\* s whole sweeps are made, and r calls of the next.
Halfway(batches, s, r, calls, lists, the) ==
    /\ Covers(batches, Len(Requests))
    /\ s \in Nat /\ r \in 0..(Len(batches) - 1)
    /\ ToGo(calls, batches, the.k, s * Len(batches) + r)
    /\ \A b \in 1..Len(batches) : \A j \in 1..Len(batches[b]) :
          Filed(lists[batches[b][j]], batches[b][j], IF b <= r THEN s + 1 ELSE s, b, j,
                the.vocabulary, the.how)

\* The calls there are at the start.
LEMMA AllToGo ==
    ASSUME NEW batches, Len(batches) \in Nat \ {0}, NEW k \in Nat \ {0}
    PROVE  ToGo(Sweeps(batches, k), batches, k, 0) /\ Sweeps(batches, k) # <<>>
<1> DEFINE C == Len(batches)
           x == k * C
           S == Sweeps(batches, k)
<1>1. x \in Nat \ {0}
  <2>1. x \in Nat
    OBVIOUS
  <2>2. x # 0
    <3>1. k >= 1 /\ C >= 1
      OBVIOUS
    <3>2. k * C >= 1 * C
      BY <3>1
    <3>3. QED BY <3>1, <3>2
  <2>3. QED BY <2>1, <2>2
<1>2. DOMAIN S = 1..x /\ S = [c \in 1..x |-> S[c]]
  BY DEF Sweeps
<1> HIDE DEF x, S
<1> DEFINE T == {S[c] : c \in 1..x}
<1>3. \A c \in 1..x : S[c] \in T
  OBVIOUS
<1> HIDE DEF T
<1>4. S \in Seq(T) /\ Len(S) = x
  BY <1>1, <1>2, <1>3
<1>5. IsSeq(S) /\ S # <<>>
  BY <1>1, <1>4 DEF IsSeq
<1>6. 0 \in 0..x /\ Len(S) = x - 0 /\ \A c \in 1..Len(S) : S[c] = S[0 + c]
  BY <1>1, <1>4
<1>7. QED BY <1>5, <1>6 DEF ToGo, S, x

\* After the last call as many sweeps are made as were asked for.
LEMMA NoneToGo ==
    ASSUME NEW batches, Len(batches) \in Nat \ {0}, NEW k \in Nat, NEW s \in Nat,
           NEW r \in 0..(Len(batches) - 1), NEW calls, calls = <<>>,
           ToGo(calls, batches, k, s * Len(batches) + r)
    PROVE  s = k /\ r = 0
<1> DEFINE C == Len(batches)
           x == k * C
           p == s * C + r
<1>1. p \in Nat /\ p \div C = s /\ p % C = r
  BY QuotientIs
<1>2. (k * C + 0) \div C = k /\ (k * C + 0) % C = 0
  <2>1. 0 \in 0..(C - 1)
    OBVIOUS
  <2>2. QED BY <2>1, QuotientIs
<1>3. x \in Nat /\ k * C + 0 = x
  OBVIOUS
<1>4. Len(calls) = x - p
  BY DEF ToGo
<1>5. Len(calls) = 0
  BY EmptyAny
<1> HIDE DEF x, p
<1>6. p = x
  BY <1>1, <1>3, <1>4, <1>5
<1>7. QED BY <1>1, <1>2, <1>3, <1>6

\* s whole sweeps are made and r calls of the next, of those that are to be.
From(calls, batches, k, s, r) ==
    /\ Len(batches) \in Nat \ {0} /\ s \in Nat /\ r \in 0..(Len(batches) - 1)
    /\ ToGo(calls, batches, k, s * Len(batches) + r)

\* That call.
CallAt(batches, s, r) == [rows |-> batches[r + 1], sweep |-> s, chunk |-> r]

\* The next call, and what is to come after it.
LEMMA NextToGo ==
    ASSUME NEW batches, NEW k \in Nat, NEW s, NEW r, NEW calls, calls # <<>>,
           From(calls, batches, k, s, r)
    PROVE  /\ Head(calls) = CallAt(batches, s, r)
           /\ r + 1 < Len(batches) => From(Tail(calls), batches, k, s, r + 1)
           /\ ~(r + 1 < Len(batches)) => From(Tail(calls), batches, k, s + 1, 0)
<1> DEFINE C == Len(batches)
           x == k * C
           p == s * C + r
           q == p + 1
           rest == Tail(calls)
<1>0. C \in Nat \ {0} /\ s \in Nat /\ r \in 0..(C - 1) /\ ToGo(calls, batches, k, p)
  BY DEF From
<1> HIDE DEF C
<1>1. p \in Nat /\ x \in Nat
  BY <1>0, QuotientIs
<1>2. /\ r + 1 < C => r + 1 \in 0..(C - 1) /\ s * C + (r + 1) = q
      /\ ~(r + 1 < C) => s + 1 \in Nat /\ 0 \in 0..(C - 1) /\ (s + 1) * C + 0 = q
  <2>1. (s + 1) * C = s * C + C
    BY <1>0
  <2>2. QED BY <1>0, <2>1
<1>3. /\ IsSeq(calls) /\ p \in 0..x /\ Len(calls) = x - p
      /\ \A c \in 1..Len(calls) : calls[c] = Sweeps(batches, k)[p + c]
  BY <1>0 DEF ToGo, C
<1> HIDE DEF x
<1>4. PICK T : calls \in Seq(T)
  BY <1>3 DEF IsSeq
<1>5. Len(calls) \in Nat \ {0}
  BY <1>4
<1>6. /\ Head(calls) = calls[1] /\ rest \in Seq(T) /\ Len(rest) = Len(calls) - 1
      /\ \A c \in 1..Len(rest) : rest[c] = calls[c + 1]
  BY <1>4, <1>5
<1>7. p < x
  <2> HIDE DEF p
  <2>1. QED BY <1>1, <1>3, <1>5
<1>8. Sweeps(batches, k)[p + 1] = [rows |-> batches[r + 1], sweep |-> s, chunk |-> r]
  <2>1. p \div C = s /\ p % C = r
    BY <1>0, QuotientIs
  <2> DEFINE c == p + 1
  <2>2. c \in 1..x /\ c - 1 = p
    <3> HIDE DEF p
    <3>1. QED BY <1>1, <1>7
  <2> HIDE DEF c, p
  <2>3. Sweeps(batches, k)[c] = [rows |-> batches[((c - 1) % C) + 1], sweep |-> (c - 1) \div C,
                                 chunk |-> (c - 1) % C]
    BY <2>2 DEF Sweeps, x, C
  <2>4. QED BY <2>1, <2>2, <2>3 DEF c
<1>9. Head(calls) = Sweeps(batches, k)[p + 1]
  BY <1>3, <1>5, <1>6
<1>b. q = p + 1
  OBVIOUS
<1> HIDE DEF p, q, rest
<1>10. q \in 0..x /\ Len(rest) = x - q
  BY <1>1, <1>b, <1>3, <1>6, <1>7
<1>11. \A c \in 1..Len(rest) : rest[c] = Sweeps(batches, k)[q + c]
  <2> TAKE c \in 1..Len(rest)
  <2> DEFINE d == c + 1
  <2>1. d \in 1..Len(calls) /\ p + d = q + c
    BY <1>1, <1>b, <1>5, <1>6
  <2>2. rest[c] = calls[d]
    BY <1>6
  <2> HIDE DEF d
  <2>3. QED BY <1>3, <2>1, <2>2
<1>12. ToGo(rest, batches, k, q)
  BY <1>6, <1>10, <1>11 DEF ToGo, IsSeq, x, C
<1>13. r + 1 < C => From(rest, batches, k, s, r + 1)
  BY <1>0, <1>2, <1>12 DEF From, C
<1>14. ~(r + 1 < C) => From(rest, batches, k, s + 1, 0)
  BY <1>0, <1>2, <1>12 DEF From, C
<1>15. QED BY <1>8, <1>9, <1>13, <1>14 DEF rest, C, CallAt

\* A sample goes behind those there are.
LEMMA FiledNext ==
    ASSUME NEW list, NEW i, NEW l \in Nat, NEW b \in Nat, NEW j, NEW v, NEW how,
           Filed(list, i, l, b, j, v, how),
           NEW sample, Owned(sample, i, v, how), sample.draw = <<<<l, b - 1>>, j>>
    PROVE  Filed(Append(list, sample), i, l + 1, b, j, v, how)
<1> DEFINE n == l + 1
           longer == Append(list, sample)
<1>1. /\ IsSeq(list) /\ Len(list) = l
      /\ \A m \in 1..l : /\ Owned(list[m], i, v, how)
                         /\ list[m].draw = <<<<m - 1, b - 1>>, j>>
  BY DEF Filed
<1>2. /\ IsSeq(longer) /\ Len(longer) = n /\ longer[n] = sample
      /\ \A m \in 1..l : longer[m] = list[m]
  BY <1>1, AppendAny
<1>3. n - 1 = l /\ \A m \in 1..n : m = n \/ m \in 1..l
  OBVIOUS
<1> HIDE DEF n, longer
<1>4. \A m \in 1..n : /\ Owned(longer[m], i, v, how)
                      /\ longer[m].draw = <<<<m - 1, b - 1>>, j>>
  BY <1>1, <1>2, <1>3
<1>5. QED BY <1>2, <1>4 DEF Filed, n, longer

\* Each row of the call has its sample.
OneEach(rows, made, s, r, the) ==
    \A n \in 1..Len(rows) : /\ Owned(made[n], rows[n], the.vocabulary, the.how)
                            /\ made[n].draw = <<<<s, r>>, n>>

\* A call takes its batch one sample further, and no one else.
LEMMA OneCall ==
    ASSUME NEW batches, NEW s, NEW r, NEW calls, NEW lists, NEW the,
           Halfway(batches, s, r, calls, lists, the), calls # <<>>, the.k \in Nat,
           NEW rows, rows = batches[r + 1], NEW made,
           OneEach(rows, made, s, r, the),
           NEW next, next = [i \in DOMAIN Requests |-> lists[i] \o New(rows, made, i)]
    PROVE  \E s2, r2 : Halfway(batches, s2, r2, Tail(calls), next, the)
<1> DEFINE C == Len(batches)
           N == Len(Requests)
           v == the.vocabulary
           how == the.how
           h == Len(rows)
           s2 == IF r + 1 < C THEN s ELSE s + 1
           r2 == IF r + 1 < C THEN r + 1 ELSE 0
           goes(b, j, l) == Filed(next[batches[b][j]], batches[b][j], l, b, j, v, how)
<1>0. \A n \in 1..h : /\ Owned(made[n], rows[n], v, how)
                      /\ made[n].draw = <<<<s, r>>, n>>
  BY DEF OneEach
<1>1. /\ Covers(batches, N) /\ s \in Nat /\ r \in 0..(C - 1)
      /\ ToGo(calls, batches, the.k, s * C + r)
      /\ \A b \in 1..C : \A j \in 1..Len(batches[b]) :
            Filed(lists[batches[b][j]], batches[b][j], IF b <= r THEN s + 1 ELSE s, b, j, v, how)
  BY DEF Halfway
<1>2. /\ C \in Nat \ {0}
      /\ \A b \in 1..C : batches[b] \in Seq(1..N)
      /\ \A b, c \in 1..C : \A j \in 1..Len(batches[b]), l \in 1..Len(batches[c]) :
            batches[b][j] = batches[c][l] => b = c /\ j = l
  BY <1>1 DEF Covers
<1>3. DOMAIN Requests = 1..N
  BY DecodingAssumption DEF IsText
<1>4. r + 1 \in 1..C /\ h \in Nat /\ DOMAIN rows = 1..h
  <2>1. r + 1 \in 1..C
    BY <1>1, <1>2
  <2>2. QED BY <1>2, <2>1
<1>5. s2 \in Nat /\ r2 \in 0..(C - 1) /\ ToGo(Tail(calls), batches, the.k, s2 * C + r2)
  <2> DEFINE k == the.k
  <2>1. k \in Nat /\ From(calls, batches, k, s, r)
    BY <1>1, <1>2 DEF From
  <2> HIDE DEF k
  <2>2. /\ r + 1 < C => From(Tail(calls), batches, k, s, r + 1)
        /\ ~(r + 1 < C) => From(Tail(calls), batches, k, s + 1, 0)
    BY <2>1, NextToGo
  <2>3. From(Tail(calls), batches, k, s2, r2)
    BY <2>2
  <2>4. QED BY <2>3 DEF From, k
<1>6. ASSUME NEW b \in 1..C, NEW j \in 1..Len(batches[b])
      PROVE  Filed(next[batches[b][j]], batches[b][j], IF b <= r2 THEN s2 + 1 ELSE s2, b, j, v, how)
  <2> DEFINE i == batches[b][j]
             was == IF b <= r THEN s + 1 ELSE s
             is == IF b <= r2 THEN s2 + 1 ELSE s2
  <2>1. i \in 1..N /\ was \in Nat
    <3>1. batches[b] \in Seq(1..N)
      BY <1>2
    <3>2. i \in 1..N
      BY <3>1
    <3>3. QED BY <1>1, <3>2
  <2>2. Filed(lists[i], i, was, b, j, v, how)
    BY <1>1
  <2>3. next[i] = lists[i] \o New(rows, made, i)
    BY <1>3, <2>1
  <2>4. IsSeq(lists[i])
    BY <2>2 DEF Filed
  <2>5. /\ (\A n \in 1..h : rows[n] # i) => next[i] = lists[i]
        /\ \A a \in 1..h : (\A n \in 1..h : rows[n] = i <=> n = a) =>
              next[i] = Append(lists[i], made[a])
    <3> DEFINE old == lists[i]
    <3>1. IsSeq(old) /\ next[i] = old \o New(rows, made, i)
      BY <2>3, <2>4
    <3> HIDE DEF old, i, h
    <3>2. Files(old, rows, h, made, i)
      BY <1>4, <3>1, FiledIs
    <3>3. QED BY <3>1, <3>2 DEF old, Files
  <2>6. CASE b = r + 1
    <3>1. rows = batches[b] /\ j \in 1..h /\ \A n \in 1..h : rows[n] = i <=> n = j
      BY <1>2, <2>6
    <3>2. next[i] = Append(lists[i], made[j])
      BY <2>5, <3>1
    <3>3. /\ was = s /\ b - 1 = r /\ is = s + 1 /\ b \in Nat
      BY <1>1, <1>2, <2>6
    <3>4. Owned(made[j], i, v, how) /\ made[j].draw = <<<<s, r>>, j>>
      BY <1>0, <3>1
    <3> HIDE DEF i, was, is, v, how
    <3>5. Filed(lists[i], i, s, b, j, v, how) /\ made[j].draw = <<<<s, b - 1>>, j>>
      BY <2>2, <3>3, <3>4
    <3>6. Filed(Append(lists[i], made[j]), i, s + 1, b, j, v, how)
      BY <1>1, <3>3, <3>4, <3>5, FiledNext
    <3>7. QED BY <3>2, <3>3, <3>6 DEF i, is
  <2>7. CASE b # r + 1
    <3>1. \A n \in 1..h : rows[n] # i
      BY <1>2, <1>4, <2>7
    <3>2. next[i] = lists[i]
      BY <2>5, <3>1
    <3>3. is = was
      BY <1>1, <1>2, <2>7
    <3>4. QED BY <2>2, <3>2, <3>3
  <2>8. QED BY <2>6, <2>7
<1> HIDE DEF s2, r2
<1>7. Halfway(batches, s2, r2, Tail(calls), next, the)
  BY <1>1, <1>5, <1>6 DEF Halfway
<1>8. QED BY <1>7

\* A call under way or done: its vocabulary has a filler, and it is somewhere in its sweeps.
Called ==
    /\ job.vocabulary \in Vocabularies
    /\ JobFiller # NoToken
    /\ job.k \in Nat \ {0}
    /\ \E batches, s, r : Halfway(batches, s, r, pending, completions, job)

\* The invariant.
DecInv ==
    /\ progress = "idle" => \A i \in DOMAIN Requests : completions[i] = <<>>
    /\ progress \in {"done", "failed"} /\ job.how = "sample" => mode = job.mode
    /\ progress = "decoding" => mode = "eval" /\ pending # <<>>
    /\ progress = "done" => pending = <<>>
    /\ progress \in {"decoding", "done"} => Called

\* A call at its start.
LEMMA StartIs ==
    ASSUME DecInv, NEW how, NEW v \in Vocabularies, NEW template, NEW k \in Nat \ {0}, NEW met,
           NEW calls, NEW filler, StartCall(how, v, template, k, met, calls, filler),
           filler = IF how # "sample" THEN EvaluationPad(v) ELSE SamplingPad(v),
           NEW batches, Covers(batches, Len(Requests)), calls = Sweeps(batches, k)
    PROVE  DecInv'
<1> DEFINE C == Len(batches)
           N == Len(Requests)
<1>1. /\ progress = "idle" /\ pending' = calls /\ completions' = completions
      /\ job' = [how |-> how, vocabulary |-> v, template |-> template, k |-> k, mode |-> met]
      /\ IF filler = NoToken THEN mode' = met /\ progress' = "failed"
                             ELSE mode' = "eval" /\ progress' = "decoding"
  BY DEF StartCall
<1>2. job'.how = how /\ job'.vocabulary = v /\ job'.k = k /\ job'.mode = met
  BY <1>1
<1>3. CASE filler = NoToken
  <2>1. progress' = "failed" /\ mode' = met
    BY <1>1, <1>3
  <2>2. QED BY <1>2, <2>1 DEF DecInv
<1>4. CASE filler # NoToken
  <2>1. progress' = "decoding" /\ mode' = "eval"
    BY <1>1, <1>4
  <2>2. C \in Nat \ {0} /\ \A b \in 1..C : batches[b] \in Seq(1..N)
    BY DEF Covers
  <2>3. ToGo(calls, batches, k, 0) /\ calls # <<>>
    BY <2>2, AllToGo
  <2>4. 0 \in Nat /\ 0 \in 0..(C - 1) /\ 0 * C + 0 = 0
    BY <2>2
  <2>5. \A b \in 1..C : \A j \in 1..Len(batches[b]) :
           Filed(completions'[batches[b][j]], batches[b][j], IF b <= 0 THEN 0 + 1 ELSE 0, b, j, v, how)
    <3> TAKE b \in 1..C
    <3> TAKE j \in 1..Len(batches[b])
    <3> DEFINE i == batches[b][j]
    <3>1. i \in DOMAIN Requests
      BY <2>2, DecodingAssumption DEF IsText
    <3> HIDE DEF i
    <3>2. completions'[i] = <<>>
      BY <1>1, <3>1 DEF DecInv
    <3>3. (IF b <= 0 THEN 0 + 1 ELSE 0) = 0
      BY <2>2
    <3>4. Filed(<<>>, i, 0, b, j, v, how)
      BY EmptyAny DEF Filed
    <3>5. QED BY <3>2, <3>3, <3>4 DEF i
  <2>6. Halfway(batches, 0, 0, pending', completions', job')
    BY <1>1, <1>2, <2>3, <2>4, <2>5 DEF Halfway
  <2>7. JobFiller' # NoToken
    BY <1>2, <1>4 DEF JobFiller
  <2>8. Called'
    BY <1>2, <2>6, <2>7 DEF Called
  <2>9. pending' # <<>>
    BY <1>1, <2>3
  <2>10. QED BY <2>1, <2>8, <2>9 DEF DecInv
<1>5. QED BY <1>3, <1>4

\* The batches of an evaluation.
LEMMA ByLengthIs ==
    ASSUME NEW template, Requests # <<>>
    PROVE  \E batches : Covers(batches, Len(Requests)) /\ ByLength(template) = Sweeps(batches, 1)
<1> DEFINE N == Len(Requests)
           lengths == [i \in DOMAIN Requests |-> Len(Encode(PromptText(template, Requests[i])))]
           order == ShortestFirst(lengths)
<1>1. N \in Nat \ {0} /\ DOMAIN Requests = 1..N
  BY DecodingAssumption DEF IsText
<1>2. PICK T : \A i \in DOMAIN Requests :
                  /\ Encode(PromptText(template, Requests[i])) \in Seq(T)
                  /\ Encode(PromptText(template, Requests[i])) # <<>>
  BY PromptsAre
<1>3. \A i \in 1..N : lengths[i] \in Nat
  BY <1>1, <1>2
<1>4. DOMAIN lengths = 1..N
  BY <1>1
<1>5. LengthSorted(lengths) = InCalls(order)
  BY DEF LengthSorted, Sooner, ShortestFirst
<1>6. ByLength(template) = Sweeps(LengthSorted(lengths), 1)
  BY DEF ByLength
<1> HIDE DEF lengths, N
<1>7. IsOrder(order, N)
  BY <1>1, <1>3, <1>4, SortedIs
<1> HIDE DEF order
<1>8. Covers(InCalls(order), N)
  BY <1>1, <1>7, CallsCover
<1>9. QED BY <1>5, <1>6, <1>8 DEF N

\* The batches of the sampler.
LEMMA InOrderIs ==
    ASSUME Requests # <<>>
    PROVE  Covers(InCalls([i \in DOMAIN Requests |-> i]), Len(Requests))
<1> DEFINE N == Len(Requests)
           order == [i \in DOMAIN Requests |-> i]
<1>1. N \in Nat \ {0} /\ DOMAIN Requests = 1..N
  BY DecodingAssumption DEF IsText
<1>2. order = [i \in 1..N |-> i]
  BY <1>1
<1> HIDE DEF order, N
<1>3. order \in Seq(1..N) /\ Len(order) = N /\ \A i \in 1..N : order[i] = i
  BY <1>1, <1>2
<1>4. IsOrder(order, N)
  BY <1>3 DEF IsOrder
<1>5. QED BY <1>1, <1>4, CallsCover DEF order, N

\* One generate call.
LEMMA GenerateIs ==
    ASSUME DecInv, GenerateBatch
    PROVE  DecInv'
<1> DEFINE call == Head(pending)
           v == job.vocabulary
           how == job.how
           N == Len(Requests)
<1>1. /\ progress = "decoding" /\ pending' = Tail(pending) /\ job' = job
      /\ IF Tail(pending) = <<>> THEN progress' = "done" /\ mode' = Handed
                                 ELSE UNCHANGED <<progress, mode>>
  BY DEF GenerateBatch
<1>2. mode = "eval" /\ pending # <<>> /\ Called
  BY <1>1 DEF DecInv
<1>3. v \in Vocabularies /\ JobFiller # NoToken /\ job.k \in Nat \ {0}
  BY <1>2 DEF Called
<1>4. PICK batches, s, r : Halfway(batches, s, r, pending, completions, job)
  BY <1>2 DEF Called
<1>5. /\ Covers(batches, N) /\ s \in Nat /\ r \in 0..(Len(batches) - 1)
      /\ ToGo(pending, batches, job.k, s * Len(batches) + r)
  BY <1>4 DEF Halfway
<1>6. /\ Len(batches) \in Nat \ {0}
      /\ \A b \in 1..Len(batches) : batches[b] \in Seq(1..N) /\ batches[b] # <<>>
  BY <1>5 DEF Covers
<1>7. call = [rows |-> batches[r + 1], sweep |-> s, chunk |-> r]
  <2> DEFINE k == job.k  calls == pending
  <2>1. k \in Nat /\ calls # <<>> /\ From(calls, batches, k, s, r)
    BY <1>2, <1>3, <1>5, <1>6 DEF From
  <2> HIDE DEF k, calls
  <2>2. Head(calls) = CallAt(batches, s, r)
    <3> DEFINE first == Head(calls)
    <3>1. /\ first = CallAt(batches, s, r)
          /\ r + 1 < Len(batches) => From(Tail(calls), batches, k, s, r + 1)
          /\ ~(r + 1 < Len(batches)) => From(Tail(calls), batches, k, s + 1, 0)
      BY <2>1, NextToGo, Zenon
    <3>2. QED BY <3>1
  <2>3. QED BY <2>2 DEF calls, CallAt
<1> DEFINE rows == call.rows
           h == Len(rows)
           inputs == LeftPad([n \in DOMAIN rows |-> PromptIds(rows[n])], JobFiller)
           out(said) == Generated(inputs, rows, said, JobStops, JobFiller)
           one(said, n) == Sample(out(said)[n], rows[n], said[rows[n]], <<Stream(call), n>>)
<1>8. rows = batches[r + 1] /\ Stream(call) = <<s, r>> /\ rows \in Seq(1..N) /\ rows # <<>>
  <2>1. r + 1 \in 1..Len(batches)
    BY <1>5, <1>6
  <2>2. QED BY <1>6, <1>7, <2>1 DEF Stream
<1>9. PICK said \in [ToSet(rows) -> Replies] :
         completions' = [i \in DOMAIN Requests |->
            completions[i] \o FlattenSeq([n \in DOMAIN rows |->
                                 IF rows[n] = i THEN <<one(said, n)>> ELSE <<>>])]
  BY DEF GenerateBatch, Slot, JobFiller, JobStops
<1> HIDE DEF call, inputs, v, how
<1> DEFINE made == [n \in 1..h |-> one(said, n)]
<1>10. \A n \in 1..h : /\ Owned(made[n], rows[n], v, how)
                       /\ made[n].draw = <<<<s, r>>, n>>
  <2> TAKE n \in 1..h
  <2> DEFINE row == out(said)[n]
             reply == said[rows[n]]
             i == rows[n]
             draw == <<Stream(call), n>>
  <2>1. Said(row, reply, JobStops, JobFiller) /\ reply \in Replies
    BY <1>8, OutIs DEF inputs
  <2>2. made[n] = Sample(row, i, reply, draw) /\ draw = <<<<s, r>>, n>>
    BY <1>8
  <2> DEFINE sample == made[n]
  <2> HIDE DEF row, reply, i, draw, sample, made
  <2>3. sample = Sample(row, i, reply, draw)
    BY <2>2 DEF sample
  <2>4. Owned(sample, i, job.vocabulary, job.how) /\ sample.draw = draw
    BY <1>3, <2>1, <2>3, SampleIsOwned DEF v
  <2>5. QED BY <2>2, <2>4 DEF v, how, i, sample
<1>11. completions' = [i \in DOMAIN Requests |-> completions[i] \o New(rows, made, i)]
  <2>1. \A i : [n \in DOMAIN rows |-> IF rows[n] = i THEN <<one(said, n)>> ELSE <<>>]
                  = [n \in DOMAIN rows |-> IF rows[n] = i THEN <<made[n]>> ELSE <<>>]
    <3>1. DOMAIN rows = 1..h
      BY <1>8
    <3>2. \A n \in DOMAIN rows : made[n] = one(said, n)
      BY <3>1
    <3> HIDE DEF one, made
    <3>3. QED BY <3>2
  <2>2. \A i : FlattenSeq([n \in DOMAIN rows |-> IF rows[n] = i THEN <<one(said, n)>> ELSE <<>>])
                  = New(rows, made, i)
    <3> HIDE DEF one, made
    <3>1. QED BY <2>1 DEF New
  <2> HIDE DEF one, made
  <2>3. QED BY <1>9, <2>2
<1> HIDE DEF rows, made
<1>12. \E s2, r2 : Halfway(batches, s2, r2, Tail(pending), completions', job)
  <2> DEFINE next == completions'
             calls == pending
             lists == completions
             the == job
  <2>1. Halfway(batches, s, r, calls, lists, the) /\ calls # <<>> /\ the.k \in Nat
    BY <1>2, <1>3, <1>4
  <2>2. OneEach(rows, made, s, r, the)
    BY <1>10 DEF v, how, OneEach
  <2>3. next = [i \in DOMAIN Requests |-> lists[i] \o New(rows, made, i)]
    BY <1>11
  <2> HIDE DEF next, calls, lists, the
  <2>4. \E s2, r2 : Halfway(batches, s2, r2, Tail(calls), next, the)
    BY <1>8, <2>1, <2>2, <2>3, OneCall
  <2>5. QED BY <2>4 DEF next, calls, the
<1>13. Called'
  <2>1. \E b, s2, r2 : Halfway(b, s2, r2, pending', completions', job')
    BY <1>1, <1>12
  <2>2. JobFiller' = JobFiller
    BY <1>1 DEF JobFiller
  <2>3. QED BY <1>1, <1>3, <2>1, <2>2 DEF Called, v
<1>14. CASE Tail(pending) = <<>>
  <2>1. progress' = "done" /\ mode' = Handed /\ pending' = <<>>
    BY <1>1, <1>14
  <2>2. job'.how = "sample" => mode' = job'.mode
    BY <1>1, <2>1 DEF Handed
  <2>3. QED BY <1>13, <2>1, <2>2 DEF DecInv
<1>15. CASE Tail(pending) # <<>>
  <2>1. progress' = "decoding" /\ mode' = "eval" /\ pending' # <<>>
    BY <1>1, <1>2, <1>15
  <2>2. QED BY <1>13, <2>1 DEF DecInv
<1>16. QED BY <1>14, <1>15

\* Every step keeps the invariant.
LEMMA DecodingStep ==
    ASSUME DecInv, [DecodingNext]_decodingVars
    PROVE  DecInv'
<1>1. CASE StartEvaluation
  <2>1. PICK v \in Vocabularies, template \in {"none", "own"}, met \in {"train", "eval"} :
           StartCall("evaluate", v, template, 1, met, ByLength(template), EvaluationPad(v))
    BY <1>1 DEF StartEvaluation
  <2>2. Requests # <<>>
    BY <2>1 DEF StartCall
  <2>3. PICK batches : /\ Covers(batches, Len(Requests))
                       /\ ByLength(template) = Sweeps(batches, 1)
    BY <2>2, ByLengthIs
  <2> DEFINE calls == ByLength(template)  filler == EvaluationPad(v)  k == 1  how == "evaluate"
  <2>4. /\ k \in Nat \ {0} /\ StartCall(how, v, template, k, met, calls, filler)
        /\ filler = IF how # "sample" THEN EvaluationPad(v) ELSE SamplingPad(v)
        /\ calls = Sweeps(batches, k)
    BY <2>1, <2>3
  <2> HIDE DEF calls, filler, k, how
  <2>5. QED BY <2>3, <2>4, StartIs
<1>2. CASE StartProbing
  <2>1. PICK v \in Vocabularies, template \in {"none", "own"} :
           StartCall("probe", v, template, 1, "eval", ByLength(template), EvaluationPad(v))
    BY <1>2 DEF StartProbing
  <2>2. Requests # <<>>
    BY <2>1 DEF StartCall
  <2>3. PICK batches : /\ Covers(batches, Len(Requests))
                       /\ ByLength(template) = Sweeps(batches, 1)
    BY <2>2, ByLengthIs
  <2> DEFINE calls == ByLength(template)  filler == EvaluationPad(v)  k == 1  how == "probe"
             met == "eval"
  <2>4. /\ k \in Nat \ {0} /\ StartCall(how, v, template, k, met, calls, filler)
        /\ filler = IF how # "sample" THEN EvaluationPad(v) ELSE SamplingPad(v)
        /\ calls = Sweeps(batches, k)
    BY <2>1, <2>3
  <2> HIDE DEF calls, filler, k, how, met
  <2>5. QED BY <2>3, <2>4, StartIs
<1>3. CASE StartSampling
  <2>1. PICK v \in Vocabularies, template \in {"none", "own"}, met \in {"train", "eval"},
             k \in SampleCounts :
           StartCall("sample", v, template, k, met,
                     Sweeps(InCalls([i \in DOMAIN Requests |-> i]), k), SamplingPad(v))
    BY <1>3 DEF StartSampling
  <2>2. Requests # <<>> /\ k \in Nat \ {0}
    BY <2>1, DecodingAssumption DEF StartCall
  <2>3. Covers(InCalls([i \in DOMAIN Requests |-> i]), Len(Requests))
    BY <2>2, InOrderIs
  <2>4. QED BY <2>1, <2>2, <2>3, StartIs
<1>4. CASE GenerateBatch
  BY <1>4, GenerateIs
<1>5. CASE GenerateRaises
  <2>1. progress' = "failed" /\ mode' = Handed /\ job' = job
    BY <1>5 DEF GenerateRaises
  <2>2. job'.how = "sample" => mode' = job'.mode
    BY <2>1 DEF Handed
  <2>3. QED BY <2>1, <2>2 DEF DecInv
<1>6. CASE UNCHANGED decodingVars
  BY <1>6 DEF decodingVars, DecInv, Called, JobFiller
<1>7. QED BY <1>1, <1>2, <1>3, <1>4, <1>5, <1>6 DEF DecodingNext

\* A finished call has every prompt's own samples.
LEMMA DoneIs ==
    ASSUME DecInv, progress = "done"
    PROVE  \A i \in DOMAIN Requests :
              /\ Len(completions[i]) = job.k
              /\ \A n \in 1..job.k :
                    /\ Owned(completions[i][n], i, job.vocabulary, job.how)
                    /\ \A j \in DOMAIN Requests : \A m \in 1..job.k :
                          completions[j][m].draw = completions[i][n].draw => i = j /\ n = m
<1> DEFINE v == job.vocabulary
           how == job.how
           k == job.k
<1>1. pending = <<>> /\ Called
  BY DEF DecInv
<1>2. PICK batches, s, r : Halfway(batches, s, r, pending, completions, job)
  BY <1>1 DEF Called
<1> DEFINE C == Len(batches)
<1>3. /\ Covers(batches, Len(Requests)) /\ s \in Nat /\ r \in 0..(C - 1)
      /\ ToGo(pending, batches, k, s * C + r)
      /\ \A b \in 1..C : \A j \in 1..Len(batches[b]) :
            Filed(completions[batches[b][j]], batches[b][j], IF b <= r THEN s + 1 ELSE s, b, j, v, how)
  BY <1>2 DEF Halfway
<1>4. C \in Nat \ {0} /\ k \in Nat
  BY <1>1, <1>3 DEF Covers, Called
<1>5. s = k /\ r = 0
  BY <1>1, <1>3, <1>4, NoneToGo
<1>6. \A b \in 1..C : \A j \in 1..Len(batches[b]) :
         Filed(completions[batches[b][j]], batches[b][j], k, b, j, v, how)
  <2> TAKE b \in 1..C
  <2> TAKE j \in 1..Len(batches[b])
  <2>1. (IF b <= r THEN s + 1 ELSE s) = k
    BY <1>4, <1>5
  <2>2. QED BY <1>3, <2>1
<1>7. \A i \in DOMAIN Requests : \E b \in 1..C : \E j \in 1..Len(batches[b]) : batches[b][j] = i
  <2>1. \A i \in 1..Len(Requests) : \E b \in 1..C : \E j \in 1..Len(batches[b]) : batches[b][j] = i
    BY <1>3, Zenon DEF Covers
  <2>2. DOMAIN Requests = 1..Len(Requests)
    BY DecodingAssumption DEF IsText
  <2>3. QED BY <2>1, <2>2
<1> HIDE DEF C, v, how, k
<1>8. ASSUME NEW i \in DOMAIN Requests
      PROVE  \E b, j : /\ b \in 1..C /\ j \in 1..Len(batches[b])
                      /\ batches[b][j] = i /\ Filed(completions[i], i, k, b, j, v, how)
  BY <1>6, <1>7
<1>9. ASSUME NEW i \in DOMAIN Requests, NEW n \in 1..k
      PROVE  /\ Len(completions[i]) = k
             /\ Owned(completions[i][n], i, v, how)
             /\ \A j \in DOMAIN Requests : \A m \in 1..k :
                   completions[j][m].draw = completions[i][n].draw => i = j /\ n = m
  <2>1. PICK b, a : /\ b \in 1..C /\ a \in 1..Len(batches[b])
                    /\ batches[b][a] = i /\ Filed(completions[i], i, k, b, a, v, how)
    BY <1>8
  <2>2. /\ Len(completions[i]) = k
        /\ Owned(completions[i][n], i, v, how)
        /\ completions[i][n].draw = <<<<n - 1, b - 1>>, a>>
    BY <2>1 DEF Filed
  <2>3. ASSUME NEW j \in DOMAIN Requests, NEW m \in 1..k,
               completions[j][m].draw = completions[i][n].draw
        PROVE  i = j /\ n = m
    <3>1. PICK c, l : /\ c \in 1..C /\ l \in 1..Len(batches[c])
                      /\ batches[c][l] = j /\ Filed(completions[j], j, k, c, l, v, how)
      BY <1>8
    <3>2. completions[j][m].draw = <<<<m - 1, c - 1>>, l>>
      BY <3>1 DEF Filed
    <3>3. <<<<m - 1, c - 1>>, l>> = <<<<n - 1, b - 1>>, a>>
      BY <2>2, <2>3, <3>2
    <3>4. m - 1 = n - 1 /\ c - 1 = b - 1 /\ l = a
      BY ONLY <3>3
    <3>5. m = n /\ c = b
      BY <1>4, <2>1, <3>1, <3>4
    <3>6. QED BY <2>1, <3>1, <3>4, <3>5
  <2>4. QED BY <2>2, <2>3
<1>10. ASSUME NEW i \in DOMAIN Requests PROVE Len(completions[i]) = k
  BY <1>8 DEF Filed
<1>11. QED BY <1>9, <1>10 DEF v, how, k

\* So the invariant gives the property.
LEMMA DecInvGives ==
    ASSUME DecInv
    PROVE  CompletionsAreOwn
<1>1. /\ progress \in {"done", "failed"} /\ job.how = "sample" => mode = job.mode
      /\ progress = "decoding" => mode = "eval"
  BY DEF DecInv
<1>2. progress = "done" =>
         \A i \in DOMAIN Requests :
            /\ Len(completions[i]) = job.k
            /\ \A n \in 1..job.k :
                  /\ Owned(completions[i][n], i, job.vocabulary, job.how)
                  /\ job.how = "sample" =>
                        \A j \in DOMAIN Requests : \A m \in 1..job.k :
                           completions[j][m].draw = completions[i][n].draw => i = j /\ n = m
  BY DoneIs
<1>3. QED BY <1>1, <1>2 DEF CompletionsAreOwn

-----------------------------------------------------------------------------
(* A completion never shows the batch it was decoded in: whatever the      *)
(* prompts, the replies, the vocabulary, the batch size and the budget.    *)
THEOREM EverySampleIsItsPrompts == DecodingSpec => []CompletionsAreOwn
<1>1. DecodingInit => DecInv
  BY DEF DecodingInit, DecInv
<1>2. DecInv /\ [DecodingNext]_decodingVars => DecInv'
  BY DecodingStep
<1>3. DecInv => CompletionsAreOwn
  BY DecInvGives
<1>4. QED BY <1>1, <1>2, <1>3, PTL DEF DecodingSpec
=============================================================================
