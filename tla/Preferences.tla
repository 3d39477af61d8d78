---------------------------- MODULE Preferences -----------------------------
(***************************************************************************)
(* sftdpo.prefs: k completions sampled for every prompt in batches, scored *)
(* by the strict verifier and mined for pairs prompt by prompt, with the   *)
(* pipeline's fallback to the gold records when nothing could be paired.   *)
(***************************************************************************)
EXTENDS Verifier, SequencesExt

CONSTANTS Prompts,          \* the prompts of the mined split, a sequence
          GoldOf,           \* the gold record of each prompt
          Texts,            \* completions the policy may give
          GoldText(_),      \* the completion that spells a record out
          Ks,               \* choices of k; greedy decoding allows k = 1 only
          BatchSize,        \* rows per generate call
          MinMargin,        \* the smallest gap worth a pair, a fraction
          PairCap,          \* max_pairs_per_prompt
          Fallback          \* gold_pair_fallback

ASSUME SamplingAssumption == Ks \subseteq Nat \ {0} /\ BatchSize \in Nat \ {0}
ASSUME MiningAssumption == {MinMargin.num, MinMargin.den, PairCap} \subseteq Nat \ {0}

\* stage_mine and _cmd_prefs_mine refuse an empty split; a gold record states something.
ASSUME PromptsAssumption ==
    /\ Prompts \in Seq(ToSet(Prompts)) \ {<<>>}
    /\ IsFiniteSet(Scalars)
    /\ \A p \in DOMAIN Prompts :
          /\ GoldPaths(GoldOf[p]) # {}
          /\ \A r \in {GoldOf[p]} \cup {t.record : t \in Texts \cup {GoldText(GoldOf[p])}} :
                IsFiniteSet(r.members) /\ IsFiniteSet(DOMAIN r.items)

VARIABLES
    stage,         \* "sample", "mine", "fallback", "written"
    k,             \* completions per prompt
    sweep,         \* the sample index being drawn
    start,         \* the first prompt of the next chunk
    samples,       \* per prompt, its completions so far
    mined,         \* how many prompts have been mined
    pairs,         \* the preference pairs
    outcomes,      \* per mined prompt, its PromptOutcome
    tally          \* capped and identical candidates, and votes of the rejected sides

preferenceVars == <<stage, k, sweep, start, samples, mined, pairs, outcomes, tally>>

PreferencesInit == /\ stage = "sample"
                   /\ k \in Ks
                   /\ sweep = 0
                   /\ start = 1
                   /\ samples = [p \in DOMAIN Prompts |-> <<>>]
                   /\ mined = 0
                   /\ pairs = <<>>
                   /\ outcomes = <<>>
                   /\ tally = [capped |-> 0, identical |-> 0, votes |-> 0]

-----------------------------------------------------------------------------
(* Sampling: all prompts at one sample index, then at the next.            *)

Chunk == start..(IF start + BatchSize - 1 < Len(Prompts) THEN start + BatchSize - 1
                 ELSE Len(Prompts))

SampleChunk ==
    /\ stage = "sample"
    /\ \E text \in [Chunk -> Texts] :
          samples' = [p \in DOMAIN Prompts |->
              IF p \in Chunk THEN Append(samples[p], text[p]) ELSE samples[p]]
    /\ IF start + BatchSize <= Len(Prompts)
       THEN start' = start + BatchSize /\ UNCHANGED <<stage, sweep>>
       ELSE /\ start' = 1
            /\ sweep' = sweep + 1
            /\ stage' = IF sweep + 1 < k THEN stage ELSE "mine"
    /\ UNCHANGED <<k, mined, pairs, outcomes, tally>>

-----------------------------------------------------------------------------
(* Mining.                                                                 *)

Judgement == [p \in DOMAIN Prompts |->
                 [t \in Texts \cup {GoldText(GoldOf[p])} |-> StrictReward(t, GoldOf[p])]]
Value(p, t) == Judgement[p][t]

\* The sample indices of a prompt, best reward first; the seeded shuffle before
\* the stable sort may leave equal rewards in any order.
Ranked(p) == {order \in [1..k -> 1..k] :
                 /\ \A h, i \in 1..k : h # i => order[h] # order[i]
                 /\ \A h \in 1..(k - 1) : NoLower(Value(p, samples[p][order[h]]),
                                                  Value(p, samples[p][order[h + 1]]))}

Candidate(p, order, h) ==
    LET chosen == samples[p][order[h]]
        rejected == samples[p][order[k + 1 - h]]
    IN  [prompt |-> p, chosen |-> chosen, rejected |-> rejected,
         better |-> Value(p, chosen), worse |-> Value(p, rejected)]

WorthIt(pair) == Ahead(pair.better, pair.worse, MinMargin)

\* From the outside in, up to the first candidate under the margin.
Candidates(p, order) ==
    LET reach == {h \in 1..(k \div 2) :
                     \A g \in 1..h : WorthIt(Candidate(p, order, g))}
    IN  [h \in 1..Cardinality(reach) |-> Candidate(p, order, h)]

\* The candidates whose sides are different texts, in their order.
Differing(candidates) ==
    LET places == {n \in DOMAIN candidates : candidates[n].chosen # candidates[n].rejected}
    IN  [m \in 1..Cardinality(places) |->
            candidates[CHOOSE n \in places : Nth(n, places) = m]]

\* Fault: the prompt with equal rewards counts as saturated whatever they are.
FlatOutcomeAlways(value) == "saturated"

FlatOutcome(value) == IF Perfect(value) THEN "saturated" ELSE "flat"

\* Fault: the cap is checked after the pair was added.
KeptBeyondCap(distinct) == SubSeq(distinct, 1, IF Len(distinct) <= PairCap THEN Len(distinct)
                                               ELSE PairCap + 1)

Kept(distinct) == SubSeq(distinct, 1, IF Len(distinct) <= PairCap THEN Len(distinct)
                                      ELSE PairCap)

MinePrompt ==
    /\ stage = "mine"
    /\ LET p == mined + 1
       IN  \E order \in Ranked(p) :
              LET best == Value(p, samples[p][order[1]])
                  worst == Value(p, samples[p][order[k]])
                  candidates == Candidates(p, order)
                  distinct == Differing(candidates)
                  kept == Kept(distinct)
              IN  IF k = 1 \/ NoLower(worst, best)
                  THEN /\ outcomes' = Append(outcomes, IF k = 1 THEN "single_sample"
                                                       ELSE FlatOutcome(best))
                       /\ UNCHANGED <<pairs, tally>>
                  ELSE /\ outcomes' = Append(outcomes, IF kept = <<>> THEN "no_pair"
                                                       ELSE "paired")
                       /\ pairs' = pairs \o kept
                       /\ tally' = [capped |-> tally.capped + Len(distinct) - Len(kept),
                                    identical |-> tally.identical
                                                    + Len(candidates) - Len(distinct),
                                    votes |-> tally.votes + Len(kept)]
    /\ mined' = mined + 1
    /\ stage' = IF mined + 1 < Len(Prompts) THEN "mine" ELSE "fallback"
    /\ UNCHANGED <<k, sweep, start, samples>>

-----------------------------------------------------------------------------
(* The gold fallback of the pipeline, and the pairs written.               *)

\* The samples of a prompt worth rejecting, each text once.
Worth(p) ==
    LET gold == GoldText(GoldOf[p])
    IN  {i \in 1..k :
            /\ samples[p][i].form # "empty"
            /\ samples[p][i] # gold
            /\ Ahead(Value(p, gold), Value(p, samples[p][i]), MinMargin)
            /\ \A h \in 1..(i - 1) : samples[p][h] # samples[p][i]}

\* The sort key: worst first, then in the order of sampling.
UpTo(p, i) ==
    LET value(j) == Value(p, samples[p][j])
    IN  {j \in Worth(p) : /\ NoLower(value(i), value(j))
                          /\ NoLower(value(j), value(i)) => j <= i}
Rejectable(p) ==
    [n \in 1..Cardinality(Worth(p)) |->
        CHOOSE i \in Worth(p) : Cardinality(UpTo(p, i)) = n]

GoldPairs(p) ==
    LET worst == Rejectable(p)
        gold == GoldText(GoldOf[p])
    IN  Kept([n \in DOMAIN worst |->
            LET text == samples[p][worst[n]]
            IN  [prompt |-> p, chosen |-> gold, rejected |-> text,
                 better |-> Value(p, gold), worse |-> Value(p, text)]])

Write == /\ stage = "fallback"
         /\ stage' = "written"
         /\ pairs' = IF pairs = <<>> /\ Fallback
                     THEN FlattenSeq([p \in DOMAIN Prompts |-> GoldPairs(p)])
                     ELSE pairs
         /\ UNCHANGED <<k, sweep, start, samples, mined, outcomes, tally>>

PreferencesNext == SampleChunk \/ MinePrompt \/ Write

PreferencesSpec == PreferencesInit /\ [][PreferencesNext]_preferenceVars

-----------------------------------------------------------------------------

\* The preference signal of a prompt is consistent: every pair prefers a text
\* that is better by the margin, the widest pairs first, at most the cap, and no
\* text is preferred in one pair and dispreferred in another, however rewards tie
\* and texts repeat.
PreferencesAgree ==
    \A i \in DOMAIN pairs :
        /\ WorthIt(pairs[i])
        /\ \A j \in DOMAIN pairs : pairs[j].prompt = pairs[i].prompt =>
              /\ pairs[i].chosen # pairs[j].rejected
              /\ i <= j => NoLower(pairs[j].worse, pairs[i].worse)
        /\ Cardinality({j \in DOMAIN pairs : pairs[j].prompt = pairs[i].prompt}) <= PairCap

BestAndWorst(p) ==
    LET drawn == {samples[p][i] : i \in 1..k}
    IN  {e \in drawn \X drawn :
            \A t \in drawn : NoLower(Value(p, e[1]), Value(p, t)) /\ NoLower(Value(p, t), Value(p, e[2]))}

\* A prompt's outcome says why it gave what it gave: paired exactly if its best
\* and worst completions are the margin apart, saturated exactly if all are
\* perfect, and the votes of the rejected sides add up to the pairs mined.
OutcomesExplainYield ==
    /\ \A p \in DOMAIN outcomes : \A e \in BestAndWorst(p) :
          /\ (outcomes[p] = "paired")
                = (k > 1 /\ Ahead(Value(p, e[1]), Value(p, e[2]), MinMargin))
          /\ (outcomes[p] = "saturated") = (k > 1 /\ Perfect(Value(p, e[2])))
          /\ (outcomes[p] = "paired") = (\E i \in DOMAIN pairs : pairs[i].prompt = p)
                \/ stage = "written"
    /\ tally.identical = 0
    /\ tally.votes = Len(pairs) \/ stage = "written"
=============================================================================
