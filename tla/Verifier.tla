------------------------------ MODULE Verifier ------------------------------
(***************************************************************************)
(* sftdpo.verify: from a completion to its reward.  A record is told apart *)
(* by the fate of each scalar field, by the members of its sets, by the    *)
(* items of its recommendations, and by whether it has an invented key.  A *)
(* completion is a record in its packaging.                                *)
(***************************************************************************)
EXTENDS Integers, FiniteSets, Sequences

CONSTANTS Scalars,          \* the required scalar fields
          None              \* a key that an item does not have

ParseWeight == 1
SchemaWeight == 1
FieldWeight == 3
TotalWeight == ParseWeight + SchemaWeight + FieldWeight

-----------------------------------------------------------------------------
(* parse: one object out of a completion.                                  *)

EmptyRecord == [scalars |-> [s \in Scalars |-> "absent"], members |-> {},
                items |-> <<>>, invented |-> FALSE]

\* form is what the completion holds: an object, an array of it, another JSON
\* value, prose without a brace, or braces that no repair makes valid.  decoy:
\* one of the object's strings contains a fenced "{}".
HasBrace(t) == t.form \in {"object", "array", "broken"}
Bare(t) == ~t.fence /\ ~t.prose /\ t.cut = "no" /\ ~t.slips

Parsed(record) == [ok |-> TRUE, record |-> record, kinds |-> {}]
Failed(kind) == [ok |-> FALSE, record |-> EmptyRecord, kinds |-> {kind}]

ExtractStrict(t) ==
    CASE Bare(t) /\ t.form = "object" -> Parsed(t.record)
      [] Bare(t) /\ t.form \in {"array", "value"} -> Failed("not_an_object")
      [] OTHER -> Failed(IF HasBrace(t) THEN "unparseable" ELSE "no_json")

\* The first fenced block with a brace, then the first object in it, closed if
\* the completion was cut between two members, then the syntax ladder.
Recover(t) ==
    CASE ~HasBrace(t) -> Failed("no_json")
      [] HasBrace(t) /\ t.decoy /\ ~t.fence -> Parsed(EmptyRecord)
      [] HasBrace(t) /\ (t.decoy => t.fence)
            /\ (t.decoy \/ t.form = "broken" \/ t.cut = "in string") -> Failed("unparseable")
      [] OTHER -> Parsed(t.record)

\* Fault: the completion that is an object already goes through the scanner too.
ExtractLenientAlways(t) == Recover(t)

ExtractLenient(t) == IF ExtractStrict(t).ok THEN ExtractStrict(t) ELSE Recover(t)

-----------------------------------------------------------------------------
(* schema_check: the kinds of violation of an object.                      *)

Severity == <<"no_json", "unparseable", "not_an_object", "missing_field", "extra_field",
              "wrong_type", "bad_enum", "bad_date", "out_of_range">>

KindOf == [absent |-> "missing_field", quoted |-> "wrong_type", enum |-> "bad_enum",
           nodate |-> "bad_date", excessive |-> "out_of_range"]

Check(record) ==
    {KindOf[record.scalars[s]] : s \in {s \in Scalars : record.scalars[s] \in DOMAIN KindOf}}
      \cup (IF \E i \in DOMAIN record.items : record.items[i].product = None
            THEN {"missing_field"} ELSE {})
      \cup (IF record.invented \/ \E i \in DOMAIN record.items : record.items[i].invented
            THEN {"extra_field"} ELSE {})

Headline(kinds) == IF kinds = {} THEN "none"
                   ELSE LET first == CHOOSE n \in DOMAIN Severity :
                                /\ Severity[n] \in kinds
                                /\ \A m \in 1..(n - 1) : Severity[m] \notin kinds
                        IN  Severity[first]

-----------------------------------------------------------------------------
(* fields: the alignment of the recommendations and the paths in common.   *)

\* An item without any key leaves no path, so the alignment never sees it.
Present(r) == {i \in DOMAIN r.items :
                  \/ r.items[i].product # None
                  \/ r.items[i].amount # None
                  \/ r.items[i].invented}

Nth(i, S) == Cardinality({h \in S : h <= i})
Ordinal(r, i) == Cardinality({h \in 1..i : r.items[h].product = r.items[i].product})

\* Gold slots claim in order, each the first unclaimed item of its product.
Claims(g, j, c, i) == /\ c.items[i].product = g.items[j].product
                      /\ Ordinal(c, i) = Ordinal(g, j)
Claimed(c, g) == {i \in Present(c) : \E j \in DOMAIN g.items : Claims(g, j, c, i)}
Filled(c, g) == {j \in DOMAIN g.items : \E i \in Present(c) : Claims(g, j, c, i)}

\* Fault: the items left over are paired with the slots from the first one on.
AlignmentFromTheTop(c, g) ==
    [i \in Present(c) |->
        IF i \in Claimed(c, g) THEN CHOOSE j \in DOMAIN g.items : Claims(g, j, c, i)
        ELSE Nth(i, Present(c) \ Claimed(c, g))]

\* Then the items left over fill the slots left over in order, and the surplus
\* goes past the end.
Alignment(c, g) ==
    LET items == Present(c) \ Claimed(c, g)
        slots == DOMAIN g.items \ Filled(c, g)
    IN  [i \in Present(c) |->
            CASE i \in Claimed(c, g) -> CHOOSE j \in DOMAIN g.items : Claims(g, j, c, i)
              [] i \in items /\ Nth(i, items) <= Cardinality(slots) ->
                     CHOOSE j \in slots : Nth(j, slots) = Nth(i, items)
              [] OTHER -> Len(g.items) + Nth(i, items) - Cardinality(slots)]

\* flatten and the reindexing: the paths with their comparison keys.
Flat(r, slot) ==
    {<<"scalar", s, r.scalars[s]>> : s \in {s \in Scalars : r.scalars[s] # "absent"}}
      \cup {<<"member", m, "in">> : m \in r.members}
      \cup (IF r.invented THEN {<<"key", "invented", "any">>} ELSE {})
      \cup {<<"product", slot[i], r.items[i].product>> :
                i \in {i \in DOMAIN slot : r.items[i].product # None}}
      \cup {<<"amount", slot[i], r.items[i].amount>> :
                i \in {i \in DOMAIN slot : r.items[i].amount # None}}
      \cup {<<"junk", slot[i], "any">> : i \in {i \in DOMAIN slot : r.items[i].invented}}

GoldPaths(g) == Flat(g, [j \in DOMAIN g.items |-> j])
Paths(c, g) == Flat(c, Alignment(c, g))

-----------------------------------------------------------------------------
(* reward: a fraction, so that two rewards are compared exactly.           *)

Credit(b, weight) == IF b THEN weight ELSE 0

Reward(outcome, gold) ==
    LET kinds == IF outcome.ok THEN Check(outcome.record) ELSE outcome.kinds
        valid == outcome.ok /\ kinds = {}
        paths == IF outcome.ok THEN Paths(outcome.record, gold) ELSE {}
        total == Cardinality(paths) + Cardinality(GoldPaths(gold))
        agree == Cardinality(paths \cap GoldPaths(gold))
    IN  [parsed |-> outcome.ok, valid |-> valid, headline |-> Headline(kinds),
         exact |-> valid /\ paths = GoldPaths(gold),
         num |-> (Credit(outcome.ok, ParseWeight) + Credit(valid, SchemaWeight)) * total
                   + FieldWeight * 2 * agree,
         den |-> TotalWeight * total]

StrictReward(t, gold) == Reward(ExtractStrict(t), gold)
LenientReward(t, gold) == Reward(ExtractLenient(t), gold)

NoLower(a, b) == a.num * b.den >= b.num * a.den
Perfect(a) == a.num = a.den

\* a is ahead of b by at least the margin.
Ahead(a, b, margin) ==
    (a.num * b.den - b.num * a.den) * margin.den >= margin.num * a.den * b.den
=============================================================================
