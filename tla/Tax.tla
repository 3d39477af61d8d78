-------------------------------- MODULE Tax ---------------------------------
(***************************************************************************)
(* sftdpo.eval.tax and the `eval tax` command: general instructions put to *)
(* the model before and after alignment, each reply checked against its    *)
(* own instruction, and the paired loss judged with the gate's statistics. *)
(***************************************************************************)
EXTENDS Gate

CONSTANTS Probes,      \* the instructions
          TaxMargin    \* the share of them that may be lost, a fraction

ASSUME TaxAssumption == /\ IsFiniteSet(Probes)
                        /\ TaxMargin.num \in Nat /\ TaxMargin.den \in Nat \ {0}

VARIABLES probed,   \* the probe reports, of the model "before" and "after"
          tax       \* the comparison

taxVars == <<probed, tax>>

NoProbes == [state |-> "none", ids |-> {}, success |-> {}]
NoTax == [state |-> "none"]

TaxInit == /\ probed = [which \in {"before", "after"} |-> NoProbes]
           /\ tax = NoTax

\* score_probes: an outcome for every probe, no more.
ScoredProbes(passed) == [state |-> "scored", ids |-> Probes, success |-> passed]

\* Any replies; the model before alignment is probed first.
RunProbes(which) ==
    /\ probed[which] = NoProbes
    /\ which = "after" => probed["before"] # NoProbes
    /\ \E passed \in SUBSET Probes : probed' = [probed EXCEPT ![which] = ScoredProbes(passed)]
    /\ UNCHANGED tax

Verdict(low, high, n, margin) ==
    [passed |-> Clears(low, n, margin),
     superior |-> Clears(low, n, NoMargin),
     inferior |-> high * margin.den <= -(margin.num * 2 * n)]

\* Fault: an interval that only ends at zero excludes it too.
ExcludesZeroOpen(low, high) == ~(low < 0 /\ 0 < high)

ExcludesZero(low, high) == ~(low <= 0 /\ 0 <= high)

\* AlignmentTax, with its delta and the loss floored at zero.
TaxOf(before, after, low, high) ==
    LET n == Cardinality(before.ids)
        net == Cardinality(before.success) - Cardinality(after.success)
    IN  [state |-> "measured", delta |-> [low |-> low, high |-> high], loss |-> IF net > 0 THEN net ELSE 0,
         lost |-> Lost(before, after), gained |-> Gained(before, after),
         significant |-> ExcludesZero(low, high),
         verdict |-> Verdict(low, high, n, TaxMargin)]

MeasureTax ==
    /\ tax = NoTax
    /\ probed["after"] # NoProbes
    /\ SamePairs(probed["before"], probed["after"])
    /\ \E low, high \in Ends(probed["before"], probed["after"]) :
          /\ low <= high
          /\ tax' = TaxOf(probed["before"], probed["after"], low, high)
    /\ UNCHANGED probed

TaxNext == (\E which \in {"before", "after"} : RunProbes(which)) \/ MeasureTax

TaxSpec == TaxInit /\ [][TaxNext]_taxVars

-----------------------------------------------------------------------------

\* Wherever the bootstrap put the interval, the verdicts agree with each other and with
\* what changed: none is both within the margin and inferior, only a model that gained a
\* probe is superior, and only a change of some probe is significant.  If the interval
\* contains the observed change, they are true of it: a loss within the margin is smaller
\* than it and an inferior one is not, a superior model gained more than it lost, and a
\* significant change is one of the pass rate.
TaxIsTold ==
    tax # NoTax =>
        LET n == Cardinality(Probes)
            net == Cardinality(probed["before"].success) - Cardinality(probed["after"].success)
        IN  /\ tax.lost - tax.gained = net
            /\ tax.loss >= net /\ (tax.loss > 0 => tax.loss = net)
            /\ ~(tax.verdict.passed /\ tax.verdict.inferior)
            /\ tax.verdict.superior => tax.verdict.passed /\ tax.significant /\ tax.gained > 0
            /\ tax.significant => tax.lost + tax.gained > 0
            /\ tax.delta.low <= -2 * net /\ -2 * net <= tax.delta.high =>
                  /\ tax.verdict.passed => net * TaxMargin.den < TaxMargin.num * n
                  /\ tax.verdict.inferior => net * TaxMargin.den >= TaxMargin.num * n
                  /\ tax.verdict.superior => net < 0
                  /\ tax.significant => net # 0
=============================================================================
