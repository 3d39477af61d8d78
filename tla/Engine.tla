------------------------------- MODULE Engine -------------------------------
(***************************************************************************)
(* llmserve.engine.GenerationEngine.generate_batch: one batch decoded      *)
(* token by token against a shared cache from which finished rows are      *)
(* evicted.  A token is known by the row and the place it was written for, *)
(* so that the cache shows whose text a row really attends to; what the    *)
(* model would write there is left open but for being EOS or not.          *)
(***************************************************************************)
EXTENDS Naturals, SequencesExt

CONSTANTS Kinds,        \* the requests of a batch: [words, max, stopOnEos, sampling]
          MaxBatch,     \* bound of the model: rows of a batch
          MaxContext    \* max_context

ASSUME ContextAssumption == MaxContext \in Nat \ {0, 1}
ASSUME BatchAssumption == MaxBatch \in Nat \ {0}
ASSUME KindsAssumption == \A k \in Kinds : {k.words, k.max} \subseteq Nat \ {0}

VARIABLES
    requests,     \* the batch
    pc,           \* "prefill", "decode", "done" or "raised"
    generated,    \* per request: the tokens written so far
    finish,       \* per request: "none", "stop" or "length"
    active,       \* the requests whose rows are still in the batch
    cache,        \* per active row: past_key_values, a list of [tok, pos]
    attn,         \* per active row: cur_attn
    pos,          \* per active row: cur_pos
    logits,       \* per active row: what the model saw to predict the next token
    draws,        \* per request: the random draws behind its tokens
    used,         \* per generator (0 is the engine's own): draws so far
    turn          \* iterations of the decoding loop

vars == <<requests, pc, generated, finish, active, cache, attn, pos, logits,
          draws, used, turn>>

Rows == DOMAIN requests
Largest(f) == Max(Range(f))

\* The tokenizer truncates to max_context - 1.
PromptLen(i) == Min({requests[i].words, MaxContext - 1})

Token(i, n, eos) == [row |-> i, at |-> n, eos |-> eos]
Prompt(i) == [n \in 1..PromptLen(i) |-> Token(i, n, FALSE)]
Pad == Token(0, 0, TRUE)

Selected(keep, s) == [n \in DOMAIN keep |-> s[keep[n]]]

\* The members of a set of places in ascending order: the m-th has m up to itself.
Rank(places, n) == Cardinality({m \in places : m <= n})
Ascending(places) ==
    [m \in 1..Cardinality(places) |-> CHOOSE n \in places : Rank(places, n) = m]

\* The entries of one row that its mask leaves visible.
Visible(entries, mask) == Selected(Ascending({n \in DOMAIN mask : mask[n] = 1}), entries)

Init == /\ requests \in UNION {[1..n -> Kinds] : n \in 1..MaxBatch}
        /\ pc = "prefill"
        /\ generated = [i \in Rows |-> <<>>]
        /\ finish = [i \in Rows |-> "none"]
        /\ active = [i \in Rows |-> i]
        /\ cache = <<>> /\ attn = <<>> /\ pos = <<>> /\ logits = <<>>
        /\ draws = [i \in Rows |-> <<>>]
        /\ used = [g \in {0} \cup Rows |-> 0]
        /\ turn = 0

-----------------------------------------------------------------------------
(* Prefill                                                                 *)

Fits(i) == PromptLen(i) + requests[i].max <= MaxContext

\* One request that does not fit fails the call before the model runs.
Reject == /\ pc = "prefill"
          /\ \E i \in Rows : ~Fits(i)
          /\ pc' = "raised"
          /\ UNCHANGED <<requests, generated, finish, active, cache, attn, pos,
                         logits, draws, used, turn>>

Width == Largest([i \in Rows |-> PromptLen(i)])
Padding(i) == Width - PromptLen(i)
Mask(i) == [n \in 1..Width |-> IF n <= Padding(i) THEN 0 ELSE 1]

\* (attn.cumsum - 1).clamp(min=0)
Position(i, n) == IF n <= Padding(i) THEN 0 ELSE n - Padding(i) - 1

PaddedRow(i) ==
    [n \in 1..Width |-> [tok |-> IF n <= Padding(i) THEN Pad ELSE Prompt(i)[n - Padding(i)],
                         pos |-> Position(i, n)]]

Prefill == /\ pc = "prefill"
           /\ \A i \in Rows : Fits(i)
           /\ pc' = "decode"
           /\ cache' = [i \in Rows |-> PaddedRow(i)]
           /\ attn' = [i \in Rows |-> Mask(i)]
           /\ pos' = [i \in Rows |-> Position(i, Width)]
           /\ logits' = [i \in Rows |-> Visible(PaddedRow(i), Mask(i))]
           /\ UNCHANGED <<requests, generated, finish, active, draws, used, turn>>

-----------------------------------------------------------------------------
(* Sampling                                                                *)

Sampling(j) == requests[active[j]].sampling
Seeded(i) == requests[i].sampling.seed # 0
Random(i) == requests[i].sampling.how # "greedy"

\* Fault: seeded rows may share one call.
UniformSampling ==
    /\ \A j \in DOMAIN active : Sampling(j) = Sampling(1)
    /\ ~Sampling(1).penalty

\* One vectorised call serves rows that all sample alike, without penalty and
\* without a seed.
Vectorised == /\ \A j \in DOMAIN active : Sampling(j) = Sampling(1)
              /\ ~Sampling(1).penalty
              /\ \A j \in DOMAIN active : ~Seeded(active[j])

Generator(i) == IF Seeded(i) THEN i ELSE 0

\* The rows that drew from generator g before row j did, in this turn.
Before(g, j) == {k \in 1..(j - 1) : Random(active[k]) /\ Generator(active[k]) = g}

\* The draw that gives active row j its token: in one call all rows share the
\* first row's generator and call number, row by row each draws from its own.
DrawOf(j) ==
    IF Vectorised
      THEN LET g == Generator(active[1]) IN [gen |-> g, nth |-> used[g] + 1]
      ELSE LET g == Generator(active[j])
           IN  [gen |-> g, nth |-> used[g] + 1 + Cardinality(Before(g, j))]

Draw == /\ draws' = [i \in Rows |->
                       IF Contains(active, i) /\ Random(i)
                       THEN Append(draws[i], DrawOf(CHOOSE j \in DOMAIN active : active[j] = i))
                       ELSE draws[i]]
        /\ used' = [g \in DOMAIN used |->
                       LET calls == {j \in DOMAIN active : Random(active[j]) /\ DrawOf(j).gen = g}
                       IN  IF Vectorised
                           THEN used[g] + (IF calls = {} THEN 0 ELSE 1)
                           ELSE used[g] + Cardinality(calls)]

-----------------------------------------------------------------------------
(* One iteration of the decoding loop                                      *)

\* Fault: one token too many before a row is stopped for its length.
ReasonAfterOverrun(i, written, eos) ==
    IF requests[i].stopOnEos /\ eos THEN "stop"
    ELSE IF Len(written) > requests[i].max THEN "length"
    ELSE "none"

\* EOS takes precedence over the length.
ReasonAfter(i, written, eos) ==
    IF requests[i].stopOnEos /\ eos THEN "stop"
    ELSE IF Len(written) >= requests[i].max THEN "length"
    ELSE "none"

\* Fault: the mask is not evicted with its row.
EvictKeepingMasks(keep, next) ==
    /\ active' = Selected(keep, active)
    /\ cache' = [n \in DOMAIN keep |->
                    Append(cache[keep[n]], [tok |-> next[keep[n]], pos |-> pos[keep[n]] + 1])]
    /\ attn' = [n \in DOMAIN keep |-> Append(attn[n], 1)]
    /\ pos' = [n \in DOMAIN keep |-> pos[keep[n]] + 1]

\* The rows in `keep` stay: cache, token, mask and position move with their row,
\* then each grows by the token just written.
EvictAndExtend(keep, next) ==
    /\ active' = Selected(keep, active)
    /\ cache' = [n \in DOMAIN keep |->
                    Append(cache[keep[n]], [tok |-> next[keep[n]], pos |-> pos[keep[n]] + 1])]
    /\ attn' = [n \in DOMAIN keep |-> Append(attn[keep[n]], 1)]
    /\ pos' = [n \in DOMAIN keep |-> pos[keep[n]] + 1]

LastTurn == turn' = Largest([i \in Rows |-> requests[i].max])

DecodeStep ==
    /\ pc = "decode"
    /\ \E eos \in [DOMAIN active -> BOOLEAN] :
          LET next == [j \in DOMAIN active |->
                         Token(active[j], PromptLen(active[j]) + Len(generated[active[j]]) + 1, eos[j])]
              row(i) == CHOOSE j \in DOMAIN active : active[j] = i
              keep == Ascending({j \in DOMAIN active : finish'[active[j]] = "none"})
          IN  /\ generated' = [i \in Rows |-> IF Contains(active, i)
                                              THEN Append(generated[i], next[row(i)])
                                              ELSE generated[i]]
              /\ finish' = [i \in Rows |-> IF Contains(active, i)
                                           THEN ReasonAfter(i, generated'[i], eos[row(i)])
                                           ELSE finish[i]]
              /\ Draw
              /\ turn' = turn + 1
              /\ IF keep = <<>>
                   THEN /\ pc' = "done"
                        /\ UNCHANGED <<active, cache, attn, pos, logits>>
                   ELSE /\ EvictAndExtend(keep, next)
                        /\ logits' = [n \in DOMAIN keep |-> Visible(cache'[n], attn'[n])]
                        /\ pc' = IF LastTurn THEN "done" ELSE "decode"
    /\ UNCHANGED requests

\* What the call returns for request i: finish[i] or "length", and the text
\* without the EOS that stopped it.
Reason(i) == IF finish[i] = "none" THEN "length" ELSE finish[i]
Text(i) == IF Reason(i) = "stop" THEN Front(generated[i]) ELSE generated[i]

Finished == pc \in {"done", "raised"} /\ UNCHANGED vars
Next == Reject \/ Prefill \/ DecodeStep \/ Finished

Spec == Init /\ [][Next]_vars

-----------------------------------------------------------------------------
(* Properties                                                              *)

\* Request i's own prompt and tokens at positions 0, 1, ...: what the model sees
\* when the request is decoded alone, unpadded and uncached.
Alone(i) == LET text == Prompt(i) \o generated[i]
            IN  [n \in DOMAIN text |-> [tok |-> text[n], pos |-> n - 1]]

\* Batching is invisible: whatever padding a row has, whichever rows were evicted
\* before it, every prediction is made from exactly what the request would see
\* alone.
SeesOnlyItself ==
    pc = "decode" => \A j \in DOMAIN active : logits[j] = Alone(active[j])

\* A seeded request's n-th token is the n-th draw of its own generator, so its
\* output never depends on its batch-mates.
SeededDrawsAreOwn ==
    \A i \in Rows : Seeded(i) /\ Random(i) =>
        /\ Len(draws[i]) = Len(generated[i])
        /\ \A n \in DOMAIN draws[i] : draws[i][n] = [gen |-> i, nth |-> n]

\* The reasons returned are true of the tokens returned, the loop's bound never
\* cuts a row off, and nobody is asked for a token beyond its context.
ReasonsAreTrue ==
    pc = "done" => \A i \in Rows :
        /\ finish[i] # "none"
        /\ Len(generated[i]) \in 1..requests[i].max
        /\ PromptLen(i) + Len(generated[i]) <= MaxContext
        /\ Reason(i) = "stop" <=> requests[i].stopOnEos /\ Last(generated[i]).eos
        /\ Reason(i) = "length" => Len(generated[i]) = requests[i].max
        /\ requests[i].stopOnEos => \A n \in DOMAIN Text(i) : ~Text(i)[n].eos
=============================================================================
