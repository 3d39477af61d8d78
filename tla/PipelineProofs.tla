--------------------------- MODULE PipelineProofs ---------------------------
(***************************************************************************)
(* Theorems about Pipeline for every set of configurations and selections, *)
(* and any number of invocations and crashes.                              *)
(***************************************************************************)
EXTENDS Pipeline, WellFoundedInduction, TLAPS

\* What the files of the stage at hand hold while an invocation works on it.
AtHand ==
    /\ phase # "idle" => run.config \in Configs
    /\ phase = "write" =>
          /\ part <= Parts(Current)
          /\ made.own = run.config
          /\ \A k \in 1..(part - 1) : art[<<Current, k>>].own = run.config
    /\ phase = "record" =>
          /\ \/ Current \in interrupted
             \/ \A o \in Of(Current) : art[o].own = run.config
          /\ made = Absent => record[Current] = run.config

\* The stages an invocation is done with.
Done ==
    outcome \in {"running", "returned"} =>
        \A s \in (run.selected \ todo) \ interrupted :
            \A o \in Of(s) : art[o].own = run.config

PInv == PipelineTypeOK /\ AtHand /\ RecordTellsUnlessInterrupted /\ Done

-----------------------------------------------------------------------------
(* The stage at hand.                                                      *)

\* StageOrder gives every stage a place.
LEMMA PlaceIsNatural == \A s \in Stage : Place[s] \in Nat
<1> SUFFICES ASSUME NEW s \in Stage PROVE Place[s] \in Nat
  OBVIOUS
<1>1. DOMAIN StageOrder \subseteq Nat
  BY DEF StageOrder
<1>2. \E i \in DOMAIN StageOrder : StageOrder[i] = s
  BY DEF Stage, ToSet
<1>3. QED BY <1>1, <1>2 DEF Place

\* While anything is left to do, the stage at hand is one of them.
LEMMA CurrentIsDue ==
    ASSUME todo \subseteq Stage, todo # {}
    PROVE  Current \in todo /\ \A t \in todo : Place[Current] <= Place[t]
<1> DEFINE places == {Place[s] : s \in todo}
<1>1. places \subseteq Nat /\ places # {}
  BY PlaceIsNatural
<1> HIDE DEF places
<1>2. \E n \in places : \A m \in places : n <= m
  <2>1. PICK n \in places : \A m \in places : <<m, n>> \notin OpToRel(<, Nat)
    BY <1>1, NatLessThanWellFounded, WFMin
  <2>2. \A m \in places : ~(m < n)
    BY <1>1, <2>1 DEF OpToRel
  <2>3. QED BY <1>1, <2>2
<1>3. \E s \in todo : \A t \in todo : Place[s] <= Place[t]
  BY <1>2 DEF places
<1>4. QED BY <1>3 DEF Current

\* It stays the same until the invocation moves on.
LEMMA CurrentStays == ASSUME todo' = todo PROVE Current' = Current
  BY DEF Current

-----------------------------------------------------------------------------
(* What an invocation opens and writes.                                    *)

\* Every stage has one or two outputs.
LEMMA PartsAre == \A s : Parts(s) \in {1, 2}
  BY DEF Parts

\* The outputs of a stage.
LEMMA OutputsOf ==
    ASSUME NEW s \in Stage
    PROVE  /\ \A k \in 1..Parts(s) : <<s, k>> \in Of(s) /\ <<s, k>> \in Output
           /\ \A o \in Of(s) : o \in Output /\ \E k \in 1..Parts(s) : o = <<s, k>>
<1>1. \A k \in 1..Parts(s) : k \in {1, 2}
  BY PartsAre
<1>2. \A o \in Of(s) : o \in Output /\ o = <<s, o[2]>> /\ o[2] \in 1..Parts(s)
  BY PartsAre DEF Of, Output
<1>3. QED BY <1>1, <1>2 DEF Of, Output

\* A stage opens nothing but outputs of the pipeline.
LEMMA ReadsAreOutputs == ASSUME NEW s \in Stage PROVE Reads(s) \subseteq Output
<1>1. /\ {"data", "sft", "mine", "dpo", "eval_base", "eval_sft", "eval_dpo"} \subseteq Stage
      /\ s \in {"data", "eval_base", "sft", "eval_sft", "mine", "dpo", "eval_dpo",
                "compare", "report"}
  BY DEF Stage, StageOrder, ToSet
<1>2. /\ \A k \in {1, 2} : <<"data", k>> \in Output /\ <<"sft", k>> \in Output
      /\ <<"mine", 2>> \in Output /\ <<"dpo", 2>> \in Output
      /\ <<"eval_base", 1>> \in Output /\ <<"eval_sft", 1>> \in Output
      /\ <<"eval_dpo", 1>> \in Output
  BY <1>1 DEF Output, Parts
<1>3. QED BY <1>1, <1>2 DEF Reads, EvaluationReads, Reported, Corpus

-----------------------------------------------------------------------------
(* The invariant.                                                          *)

\* An empty run directory satisfies the invariant.
LEMMA InitPInv == Init => PInv
<1> SUFFICES ASSUME Init PROVE PInv
  OBVIOUS
<1>1. PipelineTypeOK
  BY DEF Init, PipelineTypeOK, Artefact, Absent
<1>2. AtHand /\ Done
  BY DEF Init, AtHand, Done
<1>3. RecordTellsUnlessInterrupted
  BY ConfigsAssumption DEF Init, RecordTellsUnlessInterrupted
<1>4. QED BY <1>1, <1>2, <1>3 DEF PInv

\* While a stage is at hand it is one of the selected ones.
LEMMA AtHandIsSelected ==
    ASSUME PipelineTypeOK, phase # "idle"
    PROVE  Current \in todo /\ Current \in run.selected /\ Current \in Stage
  BY CurrentIsDue DEF PipelineTypeOK

\* An invocation begins: nothing is done yet, and the directory is as the last
\* one left it.
LEMMA InvokeKeeps ==
    ASSUME PInv, NEW c \in Configs, NEW selected \in Selections, NEW force \in BOOLEAN,
           Invoke(c, selected, force)
    PROVE  PInv'
<1> USE DEF PInv, Invoke, disk
<1>1. PipelineTypeOK'
  BY SelectionsAssumption DEF PipelineTypeOK
<1>2. AtHand' /\ Done'
  BY DEF AtHand, Done
<1>3. RecordTellsUnlessInterrupted'
  BY DEF RecordTellsUnlessInterrupted
<1>4. QED BY <1>1, <1>2, <1>3

\* An invocation ends without having touched the directory in its last step.
LEMMA EndKeeps ==
    ASSUME PInv, phase = "consider", NEW how \in {"bad_record", "failed", "crashed"},
           End(how), UNCHANGED <<disk, run, interrupted>>
    PROVE  PInv'
<1> USE DEF PInv, End, disk
<1>1. PipelineTypeOK'
  BY DEF PipelineTypeOK, Artefact, Absent
<1>2. AtHand' /\ Done'
  BY DEF AtHand, Done
<1>3. RecordTellsUnlessInterrupted'
  BY DEF RecordTellsUnlessInterrupted
<1>4. QED BY <1>1, <1>2, <1>3

\* A stage is skipped only if its record vouches for this configuration.
LEMMA SkipKeeps == ASSUME PInv, Skip PROVE PInv'
<1> USE DEF PInv, Skip, disk
<1>0. Current' = Current /\ Current \in Stage
  BY CurrentStays, AtHandIsSelected
<1>1. PipelineTypeOK'
  BY DEF PipelineTypeOK
<1>2. AtHand'
  <2>1. Current \in interrupted \/ \A o \in Of(Current) : art[o].own = run.config
    BY <1>0 DEF Reusable, RecordTellsUnlessInterrupted, AtHand
  <2>2. Of(Current)' = Of(Current)
    BY <1>0 DEF Of, Output
  <2>3. QED BY <1>0, <2>1, <2>2 DEF AtHand, Reusable
<1>3. Done'
  BY DEF Done, Of, Output
<1>4. RecordTellsUnlessInterrupted'
  BY <1>0 DEF RecordTellsUnlessInterrupted
<1>5. QED BY <1>1, <1>2, <1>3, <1>4

\* A stage computes its outputs from what it reads.
LEMMA ExecuteKeeps == ASSUME PInv, Execute PROVE PInv'
<1> USE DEF PInv, Execute, disk
<1>0. Current' = Current /\ Current \in Stage /\ run.config \in Configs
  BY CurrentStays, AtHandIsSelected DEF AtHand
<1>1. PipelineTypeOK'
  <2>1. made' \in Artefact
    <3>1. \A in \in Reads(Current) : art[in].from \subseteq Configs \cup {"torn"}
      BY <1>0, ReadsAreOutputs DEF PipelineTypeOK, Artefact
    <3>2. QED BY <1>0, <3>1 DEF Artefact
  <2>2. QED BY <2>1 DEF PipelineTypeOK
<1>2. AtHand'
  BY <1>0, PartsAre DEF AtHand
<1>3. Done'
  BY DEF Done
<1>4. RecordTellsUnlessInterrupted'
  BY <1>0 DEF RecordTellsUnlessInterrupted
<1>5. QED BY <1>1, <1>2, <1>3, <1>4

\* One output after the other is written, all of them under the invocation's
\* configuration, and nobody else's.
LEMMA WriteKeeps == ASSUME PInv, Write PROVE PInv'
<1> USE DEF PInv, Write
<1>0. /\ Current' = Current /\ Current \in todo /\ Current \in Stage
      /\ part \in 1..Parts(Current) /\ part \in {1, 2}
      /\ <<Current, part>> \in Output
      /\ art'[<<Current, part>>] = made
      /\ made.own = run.config /\ run.config \in Configs
  BY CurrentStays, AtHandIsSelected, OutputsOf, PartsAre DEF AtHand, PipelineTypeOK
<1>1. \A o \in Output : o # <<Current, part>> => art'[o] = art[o]
  BY DEF PipelineTypeOK
<1>2. PipelineTypeOK'
  BY <1>0, PartsAre DEF PipelineTypeOK
<1>3. AtHand'
  <2>1. \A k \in 1..part : <<Current, k>> \in Output /\ art'[<<Current, k>>].own = run.config
    <3> SUFFICES ASSUME NEW k \in 1..part
                 PROVE  <<Current, k>> \in Output /\ art'[<<Current, k>>].own = run.config
      OBVIOUS
    <3>1. k \in 1..Parts(Current) /\ <<Current, k>> \in Output
      BY <1>0, OutputsOf, PartsAre
    <3>2. CASE k = part
      BY <1>0, <3>2
    <3>3. CASE k \in 1..(part - 1)
      BY <1>0, <1>1, <3>1, <3>3 DEF AtHand
    <3>4. QED BY <1>0, <3>1, <3>2, <3>3
  <2>2. CASE part = Parts(Current)
    <3>1. \A o \in Of(Current) : art'[o].own = run.config
      BY <1>0, <2>1, <2>2, OutputsOf
    <3>2. made # Absent
      BY <1>0, ConfigsAssumption DEF Absent
    <3>3. QED BY <1>0, <2>2, <3>1, <3>2 DEF AtHand, Of, Output
  <2>3. CASE part # Parts(Current)
    BY <1>0, <2>1, <2>3, PartsAre DEF AtHand
  <2>4. QED BY <2>2, <2>3
<1>4. \A s \in Stage : s # Current => \A o \in Of(s) : art'[o] = art[o]
  BY <1>1 DEF Of
<1>5. Done'
  BY <1>0, <1>4 DEF Done, PipelineTypeOK
<1>6. RecordTellsUnlessInterrupted'
  BY <1>0, <1>4, ConfigsAssumption DEF RecordTellsUnlessInterrupted
<1>7. QED BY <1>2, <1>3, <1>5, <1>6

\* The record is written last: it vouches for outputs that are all there.
LEMMA WriteRecordKeeps == ASSUME PInv, WriteRecord PROVE PInv'
<1> USE DEF PInv, WriteRecord
<1>0. /\ Current \in todo /\ Current \in Stage /\ run.config \in Configs
      /\ todo' = todo \ {Current}
      /\ todo' # {} => phase' = "consider" /\ outcome' = "running"
      /\ todo' = {} => phase' = "idle" /\ outcome' = "returned"
  BY AtHandIsSelected DEF End, AtHand, PipelineTypeOK
<1>1. \A o \in Of(Current) : Current \in interrupted \/ art[o].own = run.config
  BY DEF AtHand
<1>2. PipelineTypeOK'
  BY <1>0 DEF PipelineTypeOK, End, Artefact, Absent
<1>3. AtHand'
  BY <1>0 DEF AtHand
<1>4. Done'
  BY <1>0, <1>1 DEF Done, PipelineTypeOK
<1>5. RecordTellsUnlessInterrupted'
  BY <1>0, <1>1 DEF RecordTellsUnlessInterrupted, PipelineTypeOK
<1>6. QED BY <1>2, <1>3, <1>4, <1>5

\* A crash leaves a record that no longer tells only for a stage it interrupts.
LEMMA CrashKeeps == ASSUME PInv, Crash PROVE PInv'
<1> USE DEF PInv, Crash
<1>0. Current \in todo /\ Current \in Stage /\ run.config \in Configs
  BY AtHandIsSelected DEF AtHand
<1>1. /\ phase' = "idle" /\ outcome' = "crashed" /\ todo' = {} /\ part' = 1
      /\ made' = Absent /\ run' = run
      /\ interrupted \subseteq interrupted' /\ interrupted' \subseteq Stage
  BY <1>0 DEF End, PipelineTypeOK
<1>2. AtHand' /\ Done'
  BY <1>1 DEF AtHand, Done
<1>3. Absent \in Artefact /\ Torn \in Artefact
  BY DEF Absent, Torn, Artefact
<1>4. CASE phase = "consider"
  <2>1. UNCHANGED disk
    BY <1>4
  <2>2. PipelineTypeOK'
    BY <1>1, <1>3, <2>1 DEF PipelineTypeOK, disk
  <2>3. RecordTellsUnlessInterrupted'
    BY <1>1, <1>4, <2>1 DEF RecordTellsUnlessInterrupted, disk
  <2>4. QED BY <1>2, <2>2, <2>3
<1>5. CASE phase = "write"
  <2>1. /\ record' = record
        /\ \E left \in {art[<<Current, part>>], Torn, Absent} :
              art' = [art EXCEPT ![<<Current, part>>] = left]
    BY <1>5
  <2>2. <<Current, part>> \in Output
    BY <1>0, <1>5, OutputsOf DEF AtHand, PipelineTypeOK
  <2>3. PipelineTypeOK'
    BY <1>1, <1>3, <2>1, <2>2 DEF PipelineTypeOK
  <2>4. \A s \in Stage : s # Current => \A o \in Of(s) : art'[o] = art[o]
    BY <2>1 DEF Of, PipelineTypeOK
  <2>5. record[Current] \in Configs => Current \in interrupted'
    BY <1>0, <1>5, ConfigsAssumption DEF AtHand, Absent
  <2>6. RecordTellsUnlessInterrupted'
    BY <1>1, <1>5, <2>1, <2>4, <2>5 DEF RecordTellsUnlessInterrupted
  <2>7. QED BY <1>2, <2>3, <2>6
<1>6. CASE phase = "record"
  <2>1. /\ art' = art
        /\ \E left \in {record[Current], "torn"} :
              record' = [record EXCEPT ![Current] = left]
    BY <1>6
  <2>2. PipelineTypeOK'
    BY <1>0, <1>1, <1>3, <2>1 DEF PipelineTypeOK
  <2>3. \A s \in Stage : s # Current => record'[s] = record[s]
    BY <2>1 DEF PipelineTypeOK
  <2>4. record'[Current] \in Configs /\ Current \notin interrupted' =>
            \A o \in Of(Current) : art[o].own = record'[Current]
    <3>1. HAVE record'[Current] \in Configs /\ Current \notin interrupted'
    <3>2. record'[Current] = record[Current] /\ record[Current] \in Configs
      BY <1>0, <2>1, <3>1, ConfigsAssumption DEF PipelineTypeOK
    <3>3. made = Absent
      BY <3>1, <3>2, ConfigsAssumption
    <3>4. QED BY <1>1, <1>6, <3>1, <3>2, <3>3 DEF AtHand
  <2>5. RecordTellsUnlessInterrupted'
    BY <1>1, <1>6, <2>1, <2>3, <2>4 DEF RecordTellsUnlessInterrupted, Of, Output
  <2>6. QED BY <1>2, <2>2, <2>5
<1>7. QED BY <1>0, <1>4, <1>5, <1>6 DEF PipelineTypeOK

\* Every step of the pipeline keeps the invariant.
LEMMA NextPInv == ASSUME PInv, [Next]_vars PROVE PInv'
<1>1. ASSUME NEW c \in Configs, NEW selected \in Selections, NEW force \in BOOLEAN,
             Invoke(c, selected, force)
      PROVE  PInv'
  BY <1>1, InvokeKeeps
<1>2. CASE ReadTornRecord
  BY <1>2, EndKeeps DEF ReadTornRecord
<1>3. CASE StageFails
  BY <1>3, EndKeeps DEF StageFails
<1>4. CASE UNCHANGED vars
  <2>1. PipelineTypeOK'
    BY <1>4 DEF PInv, PipelineTypeOK, vars, disk
  <2>2. AtHand' /\ Done' /\ RecordTellsUnlessInterrupted'
    BY <1>4 DEF PInv, AtHand, Done, RecordTellsUnlessInterrupted, Current, Of, Output,
                vars, disk
  <2>3. QED BY <2>1, <2>2 DEF PInv
<1>5. QED
  BY <1>1, <1>2, <1>3, <1>4, SkipKeeps, ExecuteKeeps, WriteKeeps, WriteRecordKeeps,
     CrashKeeps DEF Next

-----------------------------------------------------------------------------
(* What went into an artefact.                                             *)

\* The stages whose outputs a stage may open.
Upstream == [s \in Stage |->
    IF s = "data" THEN {}
    ELSE IF s \in {"eval_base", "sft"} THEN {"data"}
    ELSE IF s \in {"eval_sft", "mine"} THEN {"data", "sft"}
    ELSE IF s = "dpo" THEN {"mine", "sft"}
    ELSE IF s = "eval_dpo" THEN {"data", "dpo"}
    ELSE IF s = "compare" THEN {"eval_base", "eval_sft", "eval_dpo"}
    ELSE Stage \ {"report"}]

\* A selection that holds with every stage those whose outputs it opens: the
\* default of all nine, or --only naming a beginning of the pipeline.
Closed(selected) == \A s \in selected : Upstream[s] \subseteq selected

\* While nothing was interrupted: what a record vouches for, what an invocation
\* is done with and what it is writing owe nothing to another configuration.
Untainted ==
    interrupted = {} =>
        /\ \A s \in Stage :
              record[s] \in Configs /\ ~(phase \in {"write", "record"} /\ Current = s) =>
                  \A o \in Of(s) : art[o].from = {record[s]}
        /\ outcome \in {"running", "returned"} =>
              \A s \in run.selected \ todo : \A o \in Of(s) : art[o].from = {run.config}
        /\ phase = "write" =>
              /\ made.from = {run.config}
              /\ \A k \in 1..(part - 1) : art[<<Current, k>>].from = {run.config}
        /\ phase = "record" => \A o \in Of(Current) : art[o].from = {run.config}

NInv == /\ PInv
        /\ phase # "idle" => run.selected \in Selections
        /\ Untainted

\* The pipeline's order.
LEMMA StagesAre ==
    /\ Stage = {"data", "eval_base", "sft", "eval_sft", "mine", "dpo", "eval_dpo", "compare",
                "report"}
    /\ Place["data"] = 1 /\ Place["eval_base"] = 2 /\ Place["sft"] = 3 /\ Place["eval_sft"] = 4
    /\ Place["mine"] = 5 /\ Place["dpo"] = 6 /\ Place["eval_dpo"] = 7
    /\ Place["compare"] = 8 /\ Place["report"] = 9
<1>1. DOMAIN StageOrder = 1..9
  BY DEF StageOrder
<1>2. /\ StageOrder[1] = "data" /\ StageOrder[2] = "eval_base" /\ StageOrder[3] = "sft"
      /\ StageOrder[4] = "eval_sft" /\ StageOrder[5] = "mine" /\ StageOrder[6] = "dpo"
      /\ StageOrder[7] = "eval_dpo" /\ StageOrder[8] = "compare" /\ StageOrder[9] = "report"
  BY DEF StageOrder
<1>3. \A i \in 1..9 : i \in {1, 2, 3, 4, 5, 6, 7, 8, 9}
  OBVIOUS
<1> HIDE DEF StageOrder
<1>4. Stage = {StageOrder[i] : i \in 1..9}
  BY <1>1 DEF Stage, ToSet
<1>5. ASSUME NEW i \in 1..9 PROVE Place[StageOrder[i]] = i
  <2>1. \A j \in 1..9 : StageOrder[j] = StageOrder[i] => j = i
    BY <1>2, <1>3
  <2>2. StageOrder[i] \in Stage
    BY <1>4
  <2>3. QED BY <1>1, <2>1, <2>2 DEF Place
<1>6. /\ Place["data"] = 1 /\ Place["eval_base"] = 2 /\ Place["sft"] = 3 /\ Place["eval_sft"] = 4
      /\ Place["mine"] = 5 /\ Place["dpo"] = 6 /\ Place["eval_dpo"] = 7
      /\ Place["compare"] = 8 /\ Place["report"] = 9
  BY <1>2, <1>5
<1>7. QED BY <1>2, <1>3, <1>4, <1>6

\* A stage opens outputs of stages upstream of it, which come before it.
LEMMA ReadsAreUpstream ==
    ASSUME NEW s \in Stage
    PROVE  /\ \A in \in Reads(s) : in[1] \in Upstream[s] /\ in \in Of(in[1])
           /\ \A t \in Upstream[s] : t \in Stage /\ Place[t] < Place[s]
<1>1. \A t \in Upstream[s] : t \in Stage /\ Place[t] < Place[s]
  BY StagesAre DEF Upstream
<1>2. \A in \in Reads(s) : in \in Output /\ in \in Of(in[1])
  BY ReadsAreOutputs DEF Of
<1>3. \A in \in Reads(s) : in[1] \in Upstream[s]
  <2>1. CASE s # "report"
    BY <2>1, StagesAre DEF Reads, EvaluationReads, Corpus, Upstream
  <2>2. CASE s = "report"
    BY <2>2, StagesAre DEF Reads, Reported, Upstream, Output
  <2>3. QED BY <2>1, <2>2
<1>4. QED BY <1>1, <1>2, <1>3

\* In a closed selection, what the stage at hand opens is done already.
LEMMA ReadsAreDone ==
    ASSUME PipelineTypeOK, phase # "idle", Closed(run.selected), NEW in \in Reads(Current)
    PROVE  in[1] \in run.selected \ todo /\ in \in Of(in[1])
<1>1. Current \in todo /\ Current \in run.selected /\ Current \in Stage
  BY AtHandIsSelected
<1>2. /\ in[1] \in Upstream[Current] /\ in \in Of(in[1]) /\ in[1] \in Stage
      /\ Place[in[1]] < Place[Current]
  BY <1>1, ReadsAreUpstream
<1>3. in[1] \in run.selected
  BY <1>1, <1>2 DEF Closed
<1>4. in[1] \notin todo
  <2>1. \A t \in todo : Place[Current] <= Place[t]
    BY <1>1, CurrentIsDue DEF PipelineTypeOK
  <2>2. Place[in[1]] \in Nat /\ Place[Current] \in Nat
    BY <1>1, <1>2, PlaceIsNatural
  <2>3. QED BY <1>2, <2>1, <2>2
<1>5. QED BY <1>2, <1>3, <1>4

\* Only an invocation's start changes what is selected.
LEMMA SelectedStays ==
    ASSUME [Next]_vars, phase' # "idle", phase # "idle"
    PROVE  run' = run
  BY DEF Next, Invoke, ReadTornRecord, Skip, Execute, StageFails, Write, WriteRecord, Crash,
         End, vars

\* The outputs of a stage do not change.
LEMMA OutputsStay == \A s : Of(s)' = Of(s)
  BY DEF Of, Output

\* An invocation begins.
LEMMA InvokeIsUntainted ==
    ASSUME NInv, NEW c \in Configs, NEW selected \in Selections, NEW force \in BOOLEAN,
           Invoke(c, selected, force)
    PROVE  Untainted' /\ run'.selected \in Selections
<1>1. /\ phase = "idle" /\ phase' = "consider" /\ run'.selected = selected /\ todo' = selected
      /\ UNCHANGED <<art, record, interrupted>>
  BY DEF Invoke, disk
<1>2. QED BY <1>1, OutputsStay DEF NInv, Untainted

\* An invocation ends without having touched the directory in its last step.
LEMMA EndIsUntainted ==
    ASSUME NInv, phase = "consider", NEW how \in {"bad_record", "failed"},
           End(how), UNCHANGED <<disk, run, interrupted>>
    PROVE  Untainted'
  BY OutputsStay DEF NInv, Untainted, End, disk

\* What is skipped was vouched for.
LEMMA SkipIsUntainted == ASSUME NInv, Skip PROVE Untainted'
<1>1. /\ phase = "consider" /\ phase' = "record" /\ Reusable(Current)
      /\ UNCHANGED <<art, record, run, todo, made, outcome, interrupted>>
  BY DEF Skip, disk
<1>2. Current' = Current /\ Current \in Stage /\ run.config \in Configs
  BY <1>1, CurrentStays, AtHandIsSelected DEF NInv, PInv, AtHand
<1>3. interrupted = {} => \A o \in Of(Current) : art[o].from = {run.config}
  BY <1>1, <1>2 DEF NInv, Untainted, Reusable
<1>4. Of(Current)' = Of(Current)
  BY <1>2 DEF Of, Output
<1>5. QED BY <1>1, <1>2, <1>3, <1>4, OutputsStay DEF NInv, Untainted

\* What is computed from outputs of this configuration is of this configuration.
LEMMA ExecuteIsUntainted ==
    ASSUME \A S \in Selections : Closed(S), NInv, Execute
    PROVE  Untainted'
<1>1. /\ phase = "consider" /\ phase' = "write" /\ part' = 1
      /\ made' = [own |-> run.config,
                  from |-> {run.config} \cup UNION {art[in].from : in \in Reads(Current)}]
      /\ UNCHANGED <<art, record, run, todo, outcome, interrupted>>
  BY DEF Execute, disk
<1>2. Current' = Current /\ PipelineTypeOK /\ outcome = "running" /\ Closed(run.selected)
  BY <1>1, CurrentStays DEF NInv, PInv, PipelineTypeOK
<1>3. ASSUME interrupted = {} PROVE made'.from = {run.config}
  <2>1. \A in \in Reads(Current) : art[in].from = {run.config}
    BY <1>1, <1>2, <1>3, ReadsAreDone DEF NInv, Untainted
  <2>2. QED BY <1>1, <2>1
<1>4. 1..(part' - 1) = {}
  BY <1>1
<1>5. QED BY <1>1, <1>2, <1>3, <1>4, OutputsStay DEF NInv, Untainted

\* Each output gets what was computed.
LEMMA WriteIsUntainted == ASSUME NInv, Write PROVE Untainted'
<1>0. /\ Current' = Current /\ Current \in todo /\ Current \in Stage
      /\ part \in 1..Parts(Current) /\ part \in {1, 2}
      /\ <<Current, part>> \in Output
  BY CurrentStays, AtHandIsSelected, OutputsOf, PartsAre
     DEF NInv, PInv, AtHand, PipelineTypeOK, Write
<1>1. /\ phase = "write" /\ art' = [art EXCEPT ![<<Current, part>>] = made]
      /\ \/ part = Parts(Current) /\ phase' = "record"
         \/ part # Parts(Current) /\ phase' = "write" /\ part' = part + 1
      /\ UNCHANGED <<record, run, todo, made, outcome, interrupted>>
  BY DEF Write
<1>2. /\ art'[<<Current, part>>] = made
      /\ \A o \in Output : o # <<Current, part>> => art'[o] = art[o]
  BY <1>0, <1>1 DEF NInv, PInv, PipelineTypeOK
<1>3. \A s \in Stage : s # Current => \A o \in Of(s) : art'[o] = art[o]
  BY <1>2 DEF Of
<1>4. ASSUME interrupted = {}, NEW k \in 1..part
      PROVE  art'[<<Current, k>>].from = {run.config}
  <2>1. made.from = {run.config} /\ \A i \in 1..(part - 1) : art[<<Current, i>>].from = {run.config}
    BY <1>1, <1>4 DEF NInv, Untainted
  <2>2. k \in 1..Parts(Current) /\ (k = part \/ k \in 1..(part - 1))
    BY <1>0, PartsAre
  <2>3. <<Current, k>> \in Output
    BY <1>0, <2>2, OutputsOf
  <2>4. k # part => <<Current, k>> # <<Current, part>>
    OBVIOUS
  <2>5. QED BY <1>2, <2>1, <2>2, <2>3, <2>4
<1>5. ASSUME interrupted = {}, part = Parts(Current), NEW o \in Of(Current)
      PROVE  art'[o].from = {run.config}
  <2>1. \E k \in 1..part : o = <<Current, k>>
    BY <1>0, <1>5, OutputsOf
  <2>2. QED BY <1>4, <1>5, <2>1
<1>6. part # Parts(Current) => (part + 1) - 1 = part
  BY <1>0
<1>7. ASSUME interrupted' = {}
      PROVE  /\ \A s \in Stage :
                   record'[s] \in Configs /\ ~(phase' \in {"write", "record"} /\ Current' = s) =>
                       \A o \in Of(s)' : art'[o].from = {record'[s]}
             /\ outcome' \in {"running", "returned"} =>
                   \A s \in run'.selected \ todo' : \A o \in Of(s)' : art'[o].from = {run'.config}
  <2>1. interrupted = {}
    BY <1>1, <1>7
  <2>2. \A s \in Stage : record[s] \in Configs /\ s # Current =>
           \A o \in Of(s) : art[o].from = {record[s]}
    BY <2>1 DEF NInv, Untainted
  <2>3. outcome \in {"running", "returned"} =>
           \A s \in run.selected \ todo : s \in Stage /\ \A o \in Of(s) : art[o].from = {run.config}
    BY <2>1 DEF NInv, PInv, PipelineTypeOK, Untainted
  <2>4. phase' \in {"write", "record"}
    BY <1>1
  <2>5. QED BY <1>0, <1>1, <1>3, <2>2, <2>3, <2>4, OutputsStay
<1>8. ASSUME interrupted' = {}, phase' = "write"
      PROVE  /\ made'.from = {run'.config}
             /\ \A k \in 1..(part' - 1) : art'[<<Current', k>>].from = {run'.config}
  BY <1>0, <1>1, <1>4, <1>6, <1>8 DEF NInv, Untainted
<1>9. ASSUME interrupted' = {}, phase' = "record", NEW o \in Of(Current)'
      PROVE  art'[o].from = {run'.config}
  <2>1. Of(Current)' = Of(Current)
    BY <1>0 DEF Of, Output
  <2>2. QED BY <1>1, <1>5, <1>9, <2>1
<1>10. QED BY <1>7, <1>8, <1>9 DEF Untainted

\* The record vouches for what the stage at hand holds.
LEMMA WriteRecordIsUntainted == ASSUME NInv, WriteRecord PROVE Untainted'
<1>0. /\ phase = "record" /\ Current \in todo /\ Current \in Stage
      /\ record' = [record EXCEPT ![Current] = run.config]
      /\ todo' = todo \ {Current} /\ phase' \in {"idle", "consider"}
      /\ UNCHANGED <<art, run, interrupted>> /\ outcome = "running"
  BY AtHandIsSelected DEF NInv, PInv, PipelineTypeOK, WriteRecord, End
<1>1. /\ record'[Current] = run.config
      /\ \A s \in Stage : s # Current => record'[s] = record[s]
  BY <1>0 DEF NInv, PInv, PipelineTypeOK
<1>2. interrupted = {} => \A o \in Of(Current) : art[o].from = {run.config}
  BY <1>0 DEF NInv, Untainted
<1>3. \A s \in run.selected \ todo' : s = Current \/ s \in run.selected \ todo
  BY <1>0
<1>4. QED BY <1>0, <1>1, <1>2, <1>3, OutputsStay DEF NInv, Untainted

\* A crash that interrupts no stage leaves nothing vouched for that it touched.
LEMMA CrashIsUntainted == ASSUME NInv, Crash PROVE Untainted'
<1>1. /\ phase # "idle" /\ phase' = "idle" /\ outcome' = "crashed"
      /\ interrupted \subseteq interrupted'
  BY DEF Crash, End
<1>2. Current \in Stage /\ run.config \in Configs /\ PipelineTypeOK
  BY <1>1, AtHandIsSelected DEF NInv, PInv, AtHand
<1>3. ASSUME interrupted' = {} PROVE interrupted = {} /\ (made # Absent => record[Current] = "none")
  BY <1>1, <1>3 DEF Crash
<1>4. ASSUME interrupted' = {}, NEW s \in Stage, record'[s] \in Configs, NEW o \in Of(s)
      PROVE  art'[o].from = {record'[s]}
  <2>1. CASE phase = "consider"
    <3>1. UNCHANGED <<art, record>>
      BY <2>1 DEF Crash, disk
    <3>2. QED BY <1>3, <1>4, <2>1, <3>1 DEF NInv, Untainted
  <2>2. CASE phase = "write"
    <3>1. record' = record /\ \A x \in Output : x # <<Current, part>> => art'[x] = art[x]
      BY <1>2, <2>2 DEF Crash, PipelineTypeOK
    <3>2. made # Absent
      BY <1>2, <2>2, ConfigsAssumption DEF NInv, PInv, AtHand, Absent
    <3>3. record[Current] \notin Configs
      BY <1>3, <1>4, <3>2, ConfigsAssumption
    <3>4. s # Current /\ o \in Output /\ o # <<Current, part>>
      BY <1>4, <3>1, <3>3 DEF Of
    <3>5. QED BY <1>3, <1>4, <3>1, <3>4 DEF NInv, Untainted
  <2>3. CASE phase = "record"
    <3>1. art' = art /\ record'[Current] \in {record[Current], "torn"}
          /\ \A x \in Stage : x # Current => record'[x] = record[x]
      BY <1>2, <2>3 DEF Crash, PipelineTypeOK
    <3>2. CASE s # Current
      BY <1>3, <1>4, <3>1, <3>2 DEF NInv, Untainted
    <3>3. CASE s = Current
      <4>1. record'[s] = record[s]
        BY <1>4, <3>1, <3>3, ConfigsAssumption
      <4>2. made = Absent
        BY <1>3, <1>4, <3>3, <4>1, ConfigsAssumption
      <4>3. record[Current] = run.config
        BY <2>3, <4>2 DEF NInv, PInv, AtHand
      <4>4. QED BY <1>3, <1>4, <2>3, <3>1, <3>3, <4>1, <4>3 DEF NInv, Untainted
    <3>4. QED BY <3>2, <3>3
  <2>4. QED BY <1>1, <1>2, <2>1, <2>2, <2>3 DEF PipelineTypeOK
<1>5. QED BY <1>1, <1>4, OutputsStay DEF Untainted

\* Every step keeps it, as long as selections are closed.
LEMMA NextNInv ==
    ASSUME \A S \in Selections : Closed(S), NInv, [Next]_vars
    PROVE  NInv'
<1>1. PInv'
  BY NextPInv DEF NInv
<1>2. CASE \E c \in Configs, selected \in Selections, force \in BOOLEAN :
              Invoke(c, selected, force)
  BY <1>1, <1>2, InvokeIsUntainted DEF NInv
<1>3. CASE UNCHANGED vars
  <2>1. Current' = Current
    BY <1>3, CurrentStays DEF vars
  <2>2. UNCHANGED <<art, record, run, todo, phase, part, made, outcome, interrupted>>
    BY <1>3 DEF vars, disk
  <2>3. Of(Current)' = Of(Current)
    BY <2>1 DEF Of, Output
  <2>4. QED BY <1>1, <2>1, <2>2, <2>3, OutputsStay DEF NInv, Untainted
<1>4. CASE ReadTornRecord \/ StageFails
  BY <1>1, <1>4, EndIsUntainted DEF NInv, ReadTornRecord, StageFails, End
<1>5. CASE Skip \/ Execute \/ Write \/ WriteRecord \/ Crash
  <2>1. Untainted'
    BY <1>5, SkipIsUntainted, ExecuteIsUntainted, WriteIsUntainted, WriteRecordIsUntainted,
       CrashIsUntainted
  <2>2. phase # "idle"
    BY <1>5 DEF Skip, Execute, Write, WriteRecord, Crash
  <2>3. phase' # "idle" => run'.selected \in Selections
    BY <2>2, SelectedStays DEF NInv
  <2>4. QED BY <1>1, <2>1, <2>3 DEF NInv
<1>6. QED BY <1>2, <1>3, <1>4, <1>5 DEF Next

-----------------------------------------------------------------------------
(* Theorems.                                                               *)

\* PInv is an invariant: what the files of a stage hold while it is skipped or
\* rewritten, what records vouch for, and what an invocation is done with.
THEOREM PipelineInvariance == Spec => []PInv
<1>1. QED BY InitPInv, NextPInv, PTL DEF Spec

\* The run directory and the invocation's progress are well formed.
THEOREM PipelineTypeCorrect == Spec => []PipelineTypeOK
<1>1. PInv => PipelineTypeOK
  BY DEF PInv
<1>2. QED BY <1>1, PipelineInvariance, PTL

\* A record's digest is the configuration of its stage's files, for any number of
\* configurations, failures and crashes, unless the stage died while it was
\* rewritten under an older record.
THEOREM RecordsTell == Spec => []RecordTellsUnlessInterrupted
<1>1. PInv => RecordTellsUnlessInterrupted
  BY DEF PInv
<1>2. QED BY <1>1, PipelineInvariance, PTL

\* What an invocation returns was written under its own configuration, with the
\* same exception.
THEOREM ReturnsCurrent == Spec => []ReturnedIsCurrentUnlessInterrupted
<1>1. PInv => ReturnedIsCurrentUnlessInterrupted
  BY DEF PInv, PipelineTypeOK, Done, ReturnedIsCurrentUnlessInterrupted
<1>2. QED BY <1>1, PipelineInvariance, PTL

\* Without --force no stage is executed whose record vouches for whole files of
\* this configuration: an interrupted run costs only what it had not finished.
THEOREM FinishedStays == Spec => FinishedIsKept
<1> DEFINE Keeps == Execute /\ ~run.force =>
                       \/ record[Current] \notin Configs
                       \/ \E o \in Of(Current) : art[o].own # run.config
                       \/ Current \in interrupted
<1>1. ASSUME PInv PROVE Keeps
  <2> SUFFICES ASSUME Execute, ~run.force, record[Current] \in Configs,
                      Current \notin interrupted
               PROVE  \E o \in Of(Current) : art[o].own # run.config
    OBVIOUS
  <2>1. Current \in Stage /\ run.config \in Configs
    BY <1>1, AtHandIsSelected DEF PInv, AtHand, Execute
  <2>2. CASE ~Complete(Current)
    <3>1. PICK o \in Of(Current) : art[o] = Absent
      BY <2>2 DEF Complete
    <3>2. art[o].own # run.config
      BY <2>1, <3>1, ConfigsAssumption DEF Absent
    <3>3. QED BY <3>2
  <2>3. CASE ~Reusable(Current)
    <3>1. <<Current, 1>> \in Of(Current)
      BY <2>1, OutputsOf, PartsAre
    <3>2. art[<<Current, 1>>].own = record[Current]
      BY <1>1, <2>1, <3>1 DEF PInv, RecordTellsUnlessInterrupted, Execute
    <3>3. QED BY <2>3, <3>1, <3>2 DEF Reusable
  <2>4. QED BY <2>2, <2>3 DEF Execute, Due
<1>2. QED BY <1>1, PipelineInvariance, PTL DEF FinishedIsKept

\* Unless --only names a stage without what it reads, a full invocation leaves no
\* number that owes anything to another configuration, after any number of
\* configurations, failures and crashes that interrupted no recorded stage.
THEOREM WholeRunsAreOwn ==
    ASSUME \A S \in Selections : Closed(S)
    PROVE  Spec => []NothingForeign
<1>1. Init => NInv
  <2> SUFFICES ASSUME Init PROVE NInv
    OBVIOUS
  <2>1. Untainted
    BY ConfigsAssumption DEF Init, Untainted
  <2>2. QED BY <2>1, InitPInv DEF NInv, Init
<1>2. NInv /\ [Next]_vars => NInv'
  BY NextNInv
<1>3. NInv => NothingForeign
  <2> SUFFICES ASSUME NInv, outcome = "returned", run.selected = Stage, interrupted = {},
                      NEW o \in Output
               PROVE  art[o].from = {run.config}
    BY DEF NothingForeign
  <2>1. todo = {} /\ o[1] \in Stage /\ o \in Of(o[1])
    BY DEF NInv, PInv, PipelineTypeOK, Output, Of
  <2>2. QED BY <2>1 DEF NInv, Untainted
<1>4. QED BY <1>1, <1>2, <1>3, PTL DEF Spec
=============================================================================
