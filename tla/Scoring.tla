------------------------------ MODULE Scoring -------------------------------
(***************************************************************************)
(* sftdpo verify check: completions judged against gold records by the     *)
(* strict and by the lenient verifier.                                     *)
(***************************************************************************)
EXTENDS Verifier

CONSTANTS Golds,            \* gold records
          Completions       \* completions to judge

\* Gold records are generated ones: they pass the check they are scored with, and
\* recommend a product once.
ASSUME GoldAssumption ==
    \A g \in Golds :
        /\ Check(g) = {}
        /\ \A i, j \in DOMAIN g.items :
              i # j => g.items[i].product # g.items[j].product

\* A record's fields, and those of its items, are these.
IsRecord(r) ==
    /\ r = [scalars |-> [s \in Scalars |-> r.scalars[s]], members |-> r.members,
            items |-> r.items, invented |-> r.invented]
    /\ Len(r.items) \in Nat
    /\ r.items = [i \in 1..Len(r.items) |->
                     [product |-> r.items[i].product, amount |-> r.items[i].amount,
                      invented |-> r.items[i].invented]]

ASSUME RecordAssumption ==
    /\ IsFiniteSet(Scalars)
    /\ \A r \in Golds \cup {t.record : t \in Completions} :
          IsRecord(r) /\ IsFiniteSet(r.members)
    /\ \A t \in Completions :
          t = [record |-> t.record, form |-> t.form, decoy |-> t.decoy, fence |-> t.fence,
               prose |-> t.prose, cut |-> t.cut, slips |-> t.slips]

VARIABLE judged             \* the completion judged last

Unjudged == [state |-> "none"]

ScoringInit == judged = Unjudged

Judge == /\ judged = Unjudged
         /\ \E gold \in Golds, t \in Completions :
               judged' = [state |-> "judged", gold |-> gold, completion |-> t,
                          strict |-> StrictReward(t, gold), lenient |-> LenientReward(t, gold)]

ScoringSpec == ScoringInit /\ [][Judge]_judged

-----------------------------------------------------------------------------
(* One error less in a record.                                             *)

\* A scalar set right, a missing member added, an item's product or amount made
\* that of the slot the item is judged against.
Repairs(c, g) ==
    LET slot == Alignment(c, g)
        matched == {i \in DOMAIN slot : slot[i] \in DOMAIN g.items}
    IN  {[c EXCEPT !.scalars[s] = g.scalars[s]] : s \in Scalars}
          \cup {[c EXCEPT !.members = @ \cup {m}] : m \in g.members}
          \cup {[c EXCEPT !.items[i].product = g.items[slot[i]].product] : i \in matched}
          \cup {[c EXCEPT !.items[i].amount = g.items[slot[i]].amount] :
                    i \in {i \in matched : g.items[slot[i]].amount # None}}

\* What the record invented outside its recommendations taken out of it.
Deletions(c, g) == {[c EXCEPT !.members = @ \ {m}] : m \in c.members \ g.members}
                     \cup {[c EXCEPT !.invented = FALSE]}

\* An invented key of an item taken out, or an amount that gold does not state.
ItemDeletions(c, g) ==
    LET slot == Alignment(c, g)
        unstated == {i \in DOMAIN slot : slot[i] \in DOMAIN g.items
                                           => g.items[slot[i]].amount = None}
    IN  {[c EXCEPT !.items[i].invented = FALSE] : i \in DOMAIN c.items}
          \cup {[c EXCEPT !.items[i].amount = None] : i \in unstated}

\* The same object out of the same packaging, with one error less.
NeverLower(changed) ==
    \A r \in changed :
        NoLower(LenientReward([judged.completion EXCEPT !.record = r], judged.gold),
                judged.lenient)

\* Repairing a field towards gold, or deleting a member or a top-level key the
\* record invented, never lowers the reward, though what the recommendations are judged
\* against goes by what they hold: mined pairs never prefer the more damaged completion.
RepairNeverLowers ==
    judged.state = "judged" =>
        NeverLower(Repairs(judged.completion.record, judged.gold)
                     \cup Deletions(judged.completion.record, judged.gold))

\* A completion never scores lower for being judged leniently, so the gap the
\* evaluation reports between the two parse rates is never negative.
LenientIsNoLower ==
    judged.state = "judged" =>
        /\ NoLower(judged.lenient, judged.strict)
        /\ judged.strict.parsed => judged.lenient = judged.strict

\* reward.py:13: deleting a field the model invented never lowers the reward.
\* It does when the field is all there is of an item: without it the item takes
\* no part in the alignment and the items after it are judged against the slots
\* before theirs.
DeletionNeverLowers ==
    judged.state = "judged" =>
        NeverLower(ItemDeletions(judged.completion.record, judged.gold))
=============================================================================
