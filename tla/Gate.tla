-------------------------------- MODULE Gate --------------------------------
(***************************************************************************)
(* sftdpo.eval: one completion per example scored into a report, and the   *)
(* promotion gate over the reports of an incumbent and of a challenger.    *)
(* Rates are counts over the number of examples, so that every comparison  *)
(* is exact.                                                               *)
(***************************************************************************)
EXTENDS Verifier, FiniteSetsExt, Combinatorics

CONSTANTS Corpora,          \* corpora: functions from example ids to [slice, gold]
          Styles,           \* the ways a model may answer an example
          Answer(_, _),     \* the completion a style gives for a gold record
          Margin,           \* how much success rate may be lost, a fraction
          Alpha,            \* significance level of the McNemar test, a fraction
          Floors            \* [json, schema, slice, field: fractions, support: a count]

ASSUME GateAssumption == /\ Margin.num \in Nat /\ Margin.den \in Nat \ {0}
                         /\ Alpha.num \in Nat /\ Alpha.den \in Nat \ {0}
                         /\ \A f \in {"json", "schema", "slice", "field"} :
                               Floors[f].den \in Nat /\ Floors[f].num \in 0..Floors[f].den
                         /\ Floors.support \in Nat

ASSUME ReportAssumption ==
    /\ IsFiniteSet(Scalars)
    /\ \A corpus \in Corpora :
          /\ IsFiniteSet(DOMAIN corpus)
          /\ \A e \in DOMAIN corpus :
                \A r \in {corpus[e].gold}
                            \cup {Answer(s, corpus[e].gold).record : s \in Styles} :
                   IsFiniteSet(r.members) /\ IsFiniteSet(DOMAIN r.items)

VARIABLES reports,   \* the reports on disk, of the "baseline" and the "candidate"
          decision   \* what the comparison came to

gateVars == <<reports, decision>>

NoReport == [ids |-> {}, state |-> "none"]
Undecided == [outcome |-> "none"]
NotCompared == [outcome |-> "refused"]

GateInit == /\ reports = [v \in {"baseline", "candidate"} |-> NoReport]
            /\ decision = Undecided

-----------------------------------------------------------------------------
(* Evaluation.                                                             *)

\* field_stem: the top-level field of a path.
Stem(path) == CASE path[1] = "scalar" -> path[2]
                [] path[1] \in {"product", "amount", "junk"} -> "recommendations"
                [] OTHER -> path[1]

Under(paths, stem) == Cardinality({path \in paths : Stem(path) = stem})

Object(text) == IF ExtractStrict(text).ok THEN ExtractStrict(text).record ELSE EmptyRecord

\* field_scores of one completion, counted by top-level field.
FieldCounts(text, gold) ==
    LET emitted == Paths(Object(text), gold)
        expected == GoldPaths(gold)
    IN  [stem \in {Stem(path) : path \in emitted \cup expected} |->
            [expected |-> Under(expected, stem), emitted |-> Under(emitted, stem),
             correct |-> Under(emitted \cap expected, stem)]]

Added(counts, stem, part) ==
    MapThenSumSet(LAMBDA e : IF stem \in DOMAIN counts[e] THEN counts[e][stem][part] ELSE 0,
                  DOMAIN counts)

Scored == [corpus \in Corpora |->
              [e \in DOMAIN corpus |->
                  [style \in Styles |->
                      LET text == Answer(style, corpus[e].gold)
                          strict == StrictReward(text, corpus[e].gold)
                      IN  [slice |-> corpus[e].slice, json |-> strict.parsed,
                           success |-> strict.valid,
                           fields |-> FieldCounts(text, corpus[e].gold)]]]]

\* evaluate: the outcomes in any order of the samples, summed up by field.  The
\* styles are kept for the properties only.
Report(corpus, style) ==
    LET outcomes == [e \in DOMAIN corpus |-> Scored[corpus][e][style[e]]]
        counts == [e \in DOMAIN corpus |-> outcomes[e].fields]
    IN  [state |-> "written", ids |-> DOMAIN corpus, corpus |-> corpus, style |-> style,
         slice |-> [e \in DOMAIN corpus |-> outcomes[e].slice],
         json |-> {e \in DOMAIN corpus : outcomes[e].json},
         success |-> {e \in DOMAIN corpus : outcomes[e].success},
         perField |-> [stem \in UNION {DOMAIN counts[e] : e \in DOMAIN corpus} |->
                          [part \in {"expected", "emitted", "correct"} |->
                              Added(counts, stem, part)]]]

Evaluate(variant) ==
    /\ reports[variant] = NoReport
    /\ \E corpus \in Corpora : \E style \in [DOMAIN corpus -> Styles] :
          reports' = [reports EXCEPT ![variant] = Report(corpus, style)]
    /\ UNCHANGED decision

-----------------------------------------------------------------------------
(* The paired statistics.                                                  *)

Lost(before, after) == Cardinality(before.success \ after.success)
Gained(before, after) == Cardinality(after.success \ before.success)

Smaller(a, b) == IF a <= b THEN a ELSE b

\* Fault: the smaller tail without its largest term.
TermsOpen(n, k) == MapThenSumSet(LAMBDA h : choose(n, h), 0..(k - 1))

Terms(n, k) == MapThenSumSet(LAMBDA h : choose(n, h), 0..k)

\* mcnemar_exact: twice the smaller tail of Binomial(lost + gained, 1/2), at most 1.
McNemarClears(lost, gained) ==
    LET n == lost + gained
        twice == 2 * Terms(n, Smaller(lost, gained))
    IN  Smaller(twice, 2 ^ n) * Alpha.den <= Alpha.num * 2 ^ n

\* _check_paired_keys.
SamePairs(before, after) == before.ids = after.ids

\* _paired_differences: candidate minus baseline, example by example.
Differences(before, after) ==
    [e \in before.ids |-> CASE e \in after.success \ before.success -> 1
                            [] e \in before.success \ after.success -> -1
                            [] OTHER -> 0]

\* bootstrap_ci: where an end of the interval may be, in halves of an example.  A replicate
\* is the mean of any draws, and with a single resample it is both ends: nothing but the
\* worst and the best difference bounds them, and the observed mean may be outside.
Ends(before, after) ==
    LET all == {Differences(before, after)[e] : e \in before.ids}
        n == Cardinality(before.ids)
    IN  IF all = {} THEN {0} ELSE (2 * n * Min(all))..(2 * n * Max(all))

Clears(low, n, margin) == low * margin.den > -(margin.num * 2 * n)
NoMargin == [num |-> 0, den |-> 1]

-----------------------------------------------------------------------------
(* The gate.                                                               *)

BelowFloor(count, n, floor) == count * floor.den < floor.num * n

\* after - before < -tolerance, for two rates with denominators m and n.
Regressed(before, m, after, n, tolerance) ==
    (after * m - before * n) * tolerance.den < -(tolerance.num * m * n)

SliceRegressed(before, after) ==
    \E s \in {before.slice[e] : e \in before.ids} :
        LET members == {e \in before.ids : before.slice[e] = s}
            n == Cardinality(members)
        IN  Regressed(Cardinality(members \cap before.success), n,
                      Cardinality(members \cap after.success), n, Floors.slice)

\* recall is 1 where gold had nothing.
RecallOf(row) == IF row.expected = 0 THEN <<1, 1>> ELSE <<row.correct, row.expected>>

\* Fault: the support of a field is how often the candidate emits it.
FieldRegressedIfEmitted(before, after) ==
    \E stem \in DOMAIN before.perField \cap DOMAIN after.perField :
        LET b == before.perField[stem]
            a == after.perField[stem]
        IN  /\ Smaller(b.expected, a.emitted) >= Floors.support
            /\ Regressed(RecallOf(b)[1], RecallOf(b)[2], RecallOf(a)[1], RecallOf(a)[2],
                         Floors.field)

FieldRegressed(before, after) ==
    \E stem \in DOMAIN before.perField \cap DOMAIN after.perField :
        LET b == before.perField[stem]
            a == after.perField[stem]
        IN  /\ Smaller(b.expected, a.expected) >= Floors.support
            /\ Regressed(RecallOf(b)[1], RecallOf(b)[2], RecallOf(a)[1], RecallOf(a)[2],
                         Floors.field)

Decide(before, after, low) ==
    LET n == Cardinality(after.ids)
        blocked == \/ BelowFloor(Cardinality(after.json), n, Floors.json)
                   \/ BelowFloor(Cardinality(after.success), n, Floors.schema)
                   \/ SliceRegressed(before, after)
                   \/ FieldRegressed(before, after)
                   \/ ~Clears(low, n, Margin)
    IN  CASE n = 0 \/ blocked -> "reject"
          [] n # 0 /\ ~blocked
             /\ Clears(low, n, NoMargin)
             /\ McNemarClears(Lost(before, after), Gained(before, after)) -> "promote"
          [] OTHER -> "hold"

\* _check_same_corpus: the same ids in the same slices.
SameCorpus(before, after) == SamePairs(before, after) /\ before.slice = after.slice

\* What is kept of the success difference: does the interval begin no higher than the
\* difference that was observed?
Result(before, after, low) ==
    [outcome |-> Decide(before, after, low),
     grounded |-> low <= 2 * (Gained(before, after) - Lost(before, after))]

Compare ==
    /\ decision = Undecided
    /\ \A v \in DOMAIN reports : reports[v] # NoReport
    /\ LET before == reports["baseline"]
           after == reports["candidate"]
       IN  IF ~SameCorpus(before, after) THEN decision' = NotCompared
           ELSE \E low \in Ends(before, after) : decision' = Result(before, after, low)
    /\ UNCHANGED reports

GateNext == (\E v \in {"baseline", "candidate"} : Evaluate(v)) \/ Compare

GateSpec == GateInit /\ [][GateNext]_gateVars

-----------------------------------------------------------------------------

\* The p-value by its definition: of all ways the discordant examples could have
\* fallen, the share that is at least as lopsided as what was observed.
AsLopsided(before, after) ==
    LET discordant == (before.success \ after.success) \cup (after.success \ before.success)
        gap(S) == Cardinality(S) - Cardinality(discordant \ S)
        observed == gap(after.success \ before.success)
        size(g) == IF g < 0 THEN -g ELSE g
    IN  [as |-> Cardinality({S \in SUBSET discordant : size(gap(S)) >= size(observed)}),
         of |-> Cardinality(SUBSET discordant)]

More(before, after) == Cardinality(after.success) - Cardinality(before.success)

\* What a promotion says of the same ids, wherever the bootstrap put the interval: some
\* example was won, chance gives a change so lopsided in a share of at most alpha, and over
\* all slices together no more was lost than each of them tolerates.  That the candidate
\* answers more examples validly takes an interval that begins no higher than the
\* difference that was observed, which many resamples give and one need not.
PromotionIsEarned ==
    decision.outcome = "promote" =>
        LET before == reports["baseline"]
            after == reports["candidate"]
        IN  /\ before.ids = after.ids /\ after.success \ before.success # {}
            /\ AsLopsided(before, after).as * Alpha.den
                 <= Alpha.num * AsLopsided(before, after).of
            /\ More(before, after) * Floors.slice.den
                 >= -(Floors.slice.num * Cardinality(before.ids))
            /\ decision.grounded => More(before, after) > 0

\* What the model of a report said and what it should have said, by stem.
SaidRight(report, stem) ==
    \A e \in report.ids :
        LET gold == report.corpus[e].gold
            said == Paths(Object(Answer(report.style[e], gold)), gold)
        IN  {p \in GoldPaths(gold) : Stem(p) = stem} \subseteq said
SaysNothing(report, stem) ==
    \A e \in report.ids :
        LET gold == report.corpus[e].gold
        IN  Under(Paths(Object(Answer(report.style[e], gold)), gold), stem) = 0
AskedFor(report, stem) ==
    MapThenSumSet(LAMBDA e : Under(GoldPaths(report.corpus[e].gold), stem), report.ids)

\* No candidate is promoted that stopped producing a field the baseline had right,
\* although leaving the field out may raise every average of the report.
NothingVanishes ==
    decision.outcome = "promote" =>
        LET before == reports["baseline"]
            after == reports["candidate"]
        IN  \A stem \in DOMAIN before.perField :
               ~(/\ \A r \in {before, after} :
                       AskedFor(r, stem) >= Floors.support /\ AskedFor(r, stem) > 0
                 /\ SaidRight(before, stem)
                 /\ SaysNothing(after, stem))
=============================================================================
