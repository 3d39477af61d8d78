---------------------------- MODULE MCAlignment -----------------------------
(***************************************************************************)
(* Records, completions, corpora and training settings for TLC.            *)
(***************************************************************************)
EXTENDS Alignment

CONSTANTS age, m1, m2, p1, p2, p3, a1, a2

OneScalar == {age}

GoldRecord(members, items) ==
    [scalars |-> [s \in Scalars |-> "right"], members |-> members, items |-> items,
     invented |-> FALSE]
Item(product, amount, invented) ==
    [product |-> product, amount |-> amount, invented |-> invented]
GoldItem(product, amount) == Item(product, amount, FALSE)
Plain(record) == [record |-> record, form |-> "object", decoy |-> FALSE, fence |-> FALSE,
                  prose |-> FALSE, cut |-> "no", slips |-> FALSE]

-----------------------------------------------------------------------------
(* verify check: every list of up to three items in plain JSON, and every  *)
(* packaging of a short record.                                            *)

SomeGolds == {GoldRecord({m1}, <<GoldItem(p1, a1), GoldItem(p2, a2)>>),
              GoldRecord({}, <<GoldItem(p2, a1), GoldItem(p1, None), GoldItem(p3, a1)>>)}

Items == [product : {p1, p2, p3, None}, amount : {a1, a2, None}, invented : {FALSE}]
           \cup {Item(None, None, TRUE), Item(p1, None, TRUE), Item(None, a2, TRUE)}
Lists(n) == UNION {[1..m -> Items] : m \in 0..n}
Records(lists) == [scalars : [Scalars -> {"right", "wrong", "quoted", "absent"}],
                   members : SUBSET {m1, m2}, items : lists, invented : BOOLEAN]

LongLists == {Plain(r) : r \in [scalars : [Scalars -> {"right", "quoted"}],
                                members : {{m1, m2}}, items : Lists(3), invented : {FALSE}]}
ShortLists == {Plain(r) : r \in Records(Lists(1))}
Packed == [record : Records({<<>>, <<GoldItem(p1, a1)>>}),
           form : {"object", "array", "value", "prose", "broken"}, decoy : BOOLEAN,
           fence : BOOLEAN, prose : BOOLEAN, cut : {"no", "between", "in string"},
           slips : BOOLEAN]
AllCompletions == LongLists \cup ShortLists \cup Packed

-----------------------------------------------------------------------------
(* prefs mine and eval: two gold records, answers of several qualities.    *)

Gold1 == GoldRecord({m1}, <<GoldItem(p1, a1)>>)
Gold2 == GoldRecord({}, <<GoldItem(p2, None)>>)
TwoPrompts == <<1, 2>>
TwoGolds == <<Gold1, Gold2>>
FourTexts == {Plain(Gold1), [Plain(Gold1) EXCEPT !.prose = TRUE],
              Plain([Gold1 EXCEPT !.scalars[age] = "wrong"]),
              [Plain(Gold1) EXCEPT !.fence = TRUE]}
Twentieth == [num |-> 1, den |-> 20]

FourStyles == {"right", "spoiled", "bare", "fenced"}
AnswerIn(style, gold) ==
    CASE style = "right" -> Plain(gold)
      [] style = "spoiled" -> Plain([gold EXCEPT !.invented = TRUE])
      [] style = "bare" -> Plain([gold EXCEPT !.members = {}])
      [] OTHER -> [Plain(gold) EXCEPT !.fence = TRUE]

\* Four examples in two slices, two of the same ids in other slices, and none.
Four == [e \in 1..4 |-> [slice |-> IF e < 3 THEN "clean" ELSE "long",
                         gold |-> IF e < 4 THEN Gold1 ELSE Gold2]]
Two == [e \in 1..2 |-> [slice |-> "clean", gold |-> Gold1]]
Moved == [e \in 1..2 |-> [slice |-> IF e = 1 THEN "clean" ELSE "long", gold |-> Gold1]]
SomeCorpora == {Four, Two, Moved, [e \in {} |-> 0]}
Eighth == [num |-> 1, den |-> 8]
Quarter == [num |-> 1, den |-> 4]
SomeFloors == [json |-> [num |-> 1, den |-> 2], schema |-> [num |-> 0, den |-> 1],
               slice |-> [num |-> 1, den |-> 20], field |-> [num |-> 1, den |-> 10],
               support |-> 3]

\* eval tax: three probes, one of which may be lost.
ThreeProbes == {"word", "list", "letter"}
Third == [num |-> 1, den |-> 3]

-----------------------------------------------------------------------------
(* sft train and dpo train: three examples that all fit, and three of which *)
(* one is dropped and one truncated.                                       *)

Lengths(p, c, r) == [prompt |-> p, chosen |-> c, rejected |-> r]
Easy == <<Lengths(1, 1, 2), Lengths(2, 1, 2), Lengths(1, 3, 1)>>
Hard == <<Lengths(4, 1, 1), Lengths(2, 1, 3), Lengths(1, 2, 1)>>
Setting(name, examples, validation, batch, accumulation, maxSteps, evalEvery) ==
    [stage |-> name, examples |-> examples, validation |-> validation, batch |-> batch,
     accumulation |-> accumulation, epochs |-> 2, maxSteps |-> maxSteps, logEvery |-> 3,
     evalEvery |-> evalEvery]
SomeSettings == {Setting("sft", Easy, <<Lengths(1, 1, 1)>>, 2, 1, 0, 3),
                 Setting("sft", Hard, <<Lengths(4, 1, 1)>>, 2, 2, 0, 2),
                 Setting("sft", Hard, <<>>, 2, 1, 3, 1),
                 Setting("dpo", Hard, <<>>, 2, 2, 0, 1),
                 Setting("dpo", Easy, <<>>, 1, 2, 1, 1)}
TwoSettings == {Setting("sft", Easy, <<>>, 2, 2, 1, 0),
                Setting("dpo", Easy, <<>>, 2, 2, 1, 0)}
SomeLosses == {1, 2, NaN}

-----------------------------------------------------------------------------
(* data build: splits of two slices that share a note.                     *)

Size(train, val, test) ==
    [s \in Splits |-> CASE s = "train" -> train [] s = "val" -> val [] OTHER -> test]
SomeSizes == {Size(2, 1, 1), Size(1, 1, 1), Size(3, 0, 1)}
OneSize == {Size(1, 0, 0)}
TwoSlices == <<"clean", "long">>
NotesOf(slice) == IF slice = "clean" THEN 1..3 ELSE 3..4

-----------------------------------------------------------------------------
(* Training rows: three answers of different lengths, one prompt too long, *)
(* line breaks and repetitions that merge.                                 *)

SomeMerges == {<<"newline", "brace">>, <<"a", "a">>, <<"brace", "a">>}
Text(p, c, r) == [prompt |-> p, chosen |-> c, rejected |-> r]
SomeTexts == {Text(<<"a">>, <<"brace", "a">>, <<"a">>),
              Text(<<"a", "a", "b">>, <<"a", "a", "a">>, <<"brace", "brace">>),
              Text(<<"a", "b", "a", "b", "a", "b">>, <<"b">>, <<>>),
              Text(<<>>, <<"b", "b", "b">>, <<"brace">>)}
SomeBatches == UNION {[1..n -> SomeTexts] : n \in 1..2}
End == <<"end">>
SomeFillers == {[pad |-> NoId, eos |-> End], [pad |-> <<"fill">>, eos |-> End],
                [pad |-> NoId, eos |-> NoId]}

-----------------------------------------------------------------------------
(* Decoding: three prompts, two of one length; replies that stop at once,  *)
(* after a token, or not within the budget; six families of tokenizers.    *)

ThreeRequests == <<<<"a", "b">>, <<"b">>, <<"a">>>>
C == <<"c">>
Stop == <<"stop">>
SomeReplies == {<<C, End, C>>, <<Stop, C, C>>, <<C, C, C>>}
SomeVocabularies == {[eos |-> End, pad |-> NoToken, stops |-> {End}],
                     [eos |-> End, pad |-> Stop, stops |-> {End, Stop}],
                     [eos |-> End, pad |-> End, stops |-> {End, Stop}],
                     [eos |-> End, pad |-> NoToken, stops |-> {End, Stop}],
                     [eos |-> NoToken, pad |-> NoToken, stops |-> {Stop}],
                     [eos |-> End, pad |-> <<"fill">>, stops |-> {}]}
=============================================================================
