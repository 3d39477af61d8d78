----------------------------- MODULE Collation ------------------------------
(***************************************************************************)
(* sftdpo.modeling.collate: examples or preference pairs tokenised, cut to *)
(* the budget, padded to one width and labelled, as a training step gets   *)
(* them.  What the steps make of the rows is Training's.                   *)
(***************************************************************************)
EXTENDS Chat, FiniteSets

CONSTANTS Batches,       \* batches of [prompt, chosen, rejected], each a text
          Fillers,       \* tokenizers' [pad, eos] ids; NoId if they have none
          Multiples,     \* pad_to_multiple_of; 1 when it is not set
          TokenBudget    \* max_length

ASSUME CollationAssumption ==
    /\ TokenBudget \in Nat /\ TokenBudget >= 2
    /\ Multiples \subseteq Nat \ {0}
    /\ \A batch \in Batches :
          /\ IsText(batch)
          /\ \A i \in DOMAIN batch : /\ IsText(batch[i].prompt)
                                     /\ IsText(batch[i].chosen)
                                     /\ IsText(batch[i].rejected)

VARIABLE collated     \* the batch a step is given

NoId == <<>>
IgnoreIndex == <<>>

Uncollated == [outcome |-> "none"]
CollationInit == collated = Uncollated

\* resolve_pad_token_id.
Filler(f) == IF f.pad # NoId THEN f.pad ELSE f.eos

\* _truncate.  A feature that does not fit is Refused.
Truncated(feature) ==
    CASE Len(feature.ids) <= TokenBudget -> feature
      [] Len(feature.ids) > TokenBudget /\ feature.promptLen >= TokenBudget -> Refused
      [] OTHER -> [feature EXCEPT !.ids = SubSeq(@, 1, TokenBudget)]

PadWidth(features, multiple) ==
    LET longest == CHOOSE n \in {Len(f.ids) : f \in features} :
                      \A f \in features : Len(f.ids) <= n
    IN  ((longest + multiple - 1) \div multiple) * multiple

Padding(n, with) == [i \in 1..n |-> with]

Labels(feature) ==
    [i \in DOMAIN feature.ids |-> IF i <= feature.promptLen THEN IgnoreIndex
                                  ELSE feature.ids[i]]

\* One row of _stack, with the number of the item it was made of.
Stacked(item, feature, width, filler) ==
    LET rest == width - Len(feature.ids)
    IN  [item |-> item,
         input |-> feature.ids \o Padding(rest, filler),
         mask |-> Padding(Len(feature.ids), 1) \o Padding(rest, 0),
         labels |-> Labels(feature) \o Padding(rest, IgnoreIndex)]

\* encode_sft_example; an answer without tokens makes no feature.
Feature(template, prompt, answer) == EncodedSplit(template, prompt, answer)

\* An example has one side; a pair has two of one prompt, each split by itself.
EncodeExamples(template, batch) ==
    [i \in DOMAIN batch |->
        [chosen |-> Feature(template, batch[i].prompt, batch[i].chosen)]]
EncodePairs(template, batch) ==
    [i \in DOMAIN batch |->
        [chosen |-> Feature(template, batch[i].prompt, batch[i].chosen),
         rejected |-> Feature(template, batch[i].prompt, batch[i].rejected)]]

\* _prepare: an item is kept if all its sides fit.
Fitted(items) == [i \in DOMAIN items |-> [side \in DOMAIN items[i] |->
                     Truncated(items[i][side])]]
KeptItems(fitted) ==
    FlattenSeq([i \in DOMAIN fitted |->
                   IF \A side \in DOMAIN fitted[i] : fitted[i][side] # Refused
                   THEN <<i>> ELSE <<>>])

\* CollationReport counts items seen and dropped, and sequences truncated.
Reported(items, fitted) ==
    [seen |-> Len(items),
     truncated |-> Cardinality({x \in (DOMAIN items) \X {"chosen", "rejected"} :
                       /\ x[2] \in DOMAIN items[x[1]]
                       /\ fitted[x[1]][x[2]] \notin {Refused, items[x[1]][x[2]]}}),
     dropped |-> Len(items) - Len(KeptItems(fitted))]

\* The collator pads all sides to one width.
Collator(fitted, side, multiple, filler) ==
    LET kept == KeptItems(fitted)
        width == PadWidth({fitted[i][s] : i \in ToSet(kept),
                                          s \in DOMAIN fitted[kept[1]]}, multiple)
    IN  [n \in DOMAIN kept |-> Stacked(kept[n], fitted[kept[n]][side], width, filler)]

\* All rejected rows go behind all chosen ones.
ConcatenatedBatch(chosen, rejected) == chosen \o rejected

\* What a step gets, for examples or for pairs.
Collate(kind, template, filler, multiple, batch) ==
    LET items == IF kind = "pairs" THEN EncodePairs(template, batch)
                 ELSE EncodeExamples(template, batch)
        fitted == Fitted(items)
        rows(side) == Collator(fitted, side, multiple, filler)
    IN  CASE filler = NoId -> [outcome |-> "no filler"]
          [] filler # NoId /\ \E i \in DOMAIN items : \E side \in DOMAIN items[i] :
                                 items[i][side] = Refused -> [outcome |-> "refused"]
          [] OTHER -> IF KeptItems(fitted) = <<>> THEN [outcome |-> "all dropped"]
                      ELSE [outcome |-> "rows", template |-> template, batch |-> batch,
                            sides |-> IF kind = "pairs" THEN <<"chosen", "rejected">>
                                      ELSE <<"chosen">>,
                            multiple |-> multiple,
                            report |-> Reported(items, fitted),
                            rows |-> IF kind = "pairs"
                                     THEN ConcatenatedBatch(rows("chosen"), rows("rejected"))
                                     ELSE rows("chosen")]

CollationNext ==
    /\ collated = Uncollated
    /\ \E kind \in {"examples", "pairs"}, template \in Templates, f \in Fillers,
          multiple \in Multiples, batch \in Batches :
          collated' = Collate(kind, template, Filler(f), multiple, batch)

CollationSpec == CollationInit /\ [][CollationNext]_collated

-----------------------------------------------------------------------------

\* Where the pieces of row r's token c end in its text.
EndOf(r, c) == Len(FlattenSeq(SubSeq(r.input, 1, c)))

\* A step learns the answer and nothing else: in every row, exactly the visible tokens
\* that reach into the answer or its stop mark are labelled, with themselves, however
\* the tokenizer merges across the boundary, whatever pads, and whatever the budget
\* cuts; the n-th row of the second half is the other side of the n-th pair; and an item
\* is missing exactly if the budget leaves nothing of an answer.
LabelsMarkTheAnswer ==
    collated.outcome = "rows" =>
        LET rows == collated.rows
            half == Len(rows) \div Len(collated.sides)
            side(n) == collated.sides[IF n <= half THEN 1 ELSE 2]
            prompt(n) == PromptText(collated.template, collated.batch[rows[n].item].prompt)
            text(n) == FullText(collated.template, collated.batch[rows[n].item].prompt,
                                collated.batch[rows[n].item][side(n)])
            seen(n) == {c \in DOMAIN rows[n].input : rows[n].mask[c] = 1}
        IN  /\ \A n \in DOMAIN rows :
                  /\ Len(rows[n].input) = Len(rows[1].input)
                  /\ Len(rows[n].input) % collated.multiple = 0
                  /\ IsPrefix(FlattenSeq(SubSeq(rows[n].input, 1, Cardinality(seen(n)))), text(n))
                  /\ seen(n) = 1..Cardinality(seen(n))
                  /\ EndOf(rows[n], Cardinality(seen(n))) = Len(text(n))
                        \/ Cardinality(seen(n)) = TokenBudget
                  /\ \A c \in DOMAIN rows[n].input :
                        rows[n].labels[c] =
                            IF c \in seen(n) /\ EndOf(rows[n], c) > Len(prompt(n))
                            THEN rows[n].input[c] ELSE IgnoreIndex
                  /\ \E c \in DOMAIN rows[n].input : rows[n].labels[c] # IgnoreIndex
                  /\ rows[n].item = rows[((n - 1) % half) + 1].item
            /\ \A i \in DOMAIN collated.batch :
                  (\E n \in DOMAIN rows : rows[n].item = i) <=>
                      \A s \in ToSet(collated.sides) :
                          LET ids == Encode(FullText(collated.template,
                                                     collated.batch[i].prompt,
                                                     collated.batch[i][s]))
                              whole == Len(FlattenSeq(SubSeq(ids, 1, IF Len(ids) < TokenBudget
                                                                     THEN Len(ids)
                                                                     ELSE TokenBudget)))
                          IN  whole > Len(PromptText(collated.template,
                                                     collated.batch[i].prompt))
            /\ collated.report.seen = half + collated.report.dropped
=============================================================================
