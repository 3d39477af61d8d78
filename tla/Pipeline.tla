------------------------------ MODULE Pipeline ------------------------------
(***************************************************************************)
(* sftdpo.pipeline.run_pipeline: nine stages that communicate only through *)
(* files of one run directory, and the rule by which a later invocation    *)
(* skips a stage.  Invocations may differ in configuration, in the stages  *)
(* they select and in --force, and may die at any point; files are written *)
(* in place, one after the other.                                          *)
(***************************************************************************)
EXTENDS Naturals, SequencesExt

CONSTANTS Configs,          \* run configurations, told apart by config_digest
          Selections,       \* the sets of stages invocations may ask for
          MayForce,         \* whether --force is ever used
          MaxInvocations,   \* bound of the model
          MaxCrashes        \* bound of the model

StageOrder == <<"data", "eval_base", "sft", "eval_sft", "mine", "dpo",
                "eval_dpo", "compare", "report">>
Stage == ToSet(StageOrder)
Place == [s \in Stage |-> CHOOSE i \in DOMAIN StageOrder : StageOrder[i] = s]

ASSUME SelectionsAssumption == Selections \subseteq (SUBSET Stage) \ {{}}
ASSUME ConfigsAssumption == Configs \cap {"none", "torn", "absent"} = {}
ASSUME BoundsAssumption ==
    MaxInvocations \in Nat /\ MaxCrashes \in Nat /\ MayForce \in BOOLEAN

VARIABLES
    art,           \* the files: per output, what was written there
    record,        \* per stage, the digest of its StageRecord, "none" or "torn"
    run,           \* the latest invocation: its configuration, stages and force
    todo,          \* the selected stages it has not finished
    phase,         \* "idle", "consider", "write" or "record"
    part,          \* the output being written
    made,          \* what the running stage computed; Absent for a skipped one
    outcome,       \* how the latest invocation ended, or "running"
    invocations,   \* bound of the model
    crashes,       \* bound of the model
    interrupted    \* history: stages that died while an older record vouched
                   \* for them

disk == <<art, record>>
vars == <<disk, run, todo, phase, part, made, outcome, invocations, crashes, interrupted>>

\* A stage's outputs: the corpus's splits and its manifest with the statistics;
\* a trainer's logs and its published adapter; samples and mined pairs with
\* their statistics; the comparisons; one report or one evaluation otherwise.
Parts(s) == IF s \in {"data", "sft", "mine", "dpo", "compare"} THEN 2 ELSE 1
Output == {o \in Stage \X {1, 2} : o[2] <= Parts(o[1])}
Of(s) == {o \in Output : o[1] = s}
Adapters == {<<"sft", 2>>, <<"dpo", 2>>}

\* An output carries the configuration it was written under and, beneath, every
\* configuration that went into it.
Absent == [own |-> "absent", from |-> {}]
Torn == [own |-> "torn", from |-> {"torn"}]

Init == /\ art = [o \in Output |-> Absent]
        /\ record = [s \in Stage |-> "none"]
        /\ run = [config |-> "none", selected |-> {}, force |-> FALSE]
        /\ todo = {}
        /\ phase = "idle"
        /\ part = 1
        /\ made = Absent
        /\ outcome = "none"
        /\ invocations = 0
        /\ crashes = 0
        /\ interrupted = {}

-----------------------------------------------------------------------------
(* An invocation.                                                          *)

Invoke(c, selected, force) ==
    /\ phase = "idle"
    /\ invocations < MaxInvocations
    /\ run' = [config |-> c, selected |-> selected, force |-> force]
    /\ todo' = selected
    /\ phase' = "consider"
    /\ outcome' = "running"
    /\ invocations' = invocations + 1
    /\ UNCHANGED <<disk, part, made, crashes, interrupted>>

\* Always in dependency order.
Current == CHOOSE s \in todo : \A t \in todo : Place[s] <= Place[t]

End(how) == /\ phase' = "idle"
            /\ outcome' = how
            /\ todo' = {}
            /\ part' = 1
            /\ made' = Absent

\* Presence only: neither a torn file nor a stale one is incomplete.
Complete(s) == \A o \in Of(s) : art[o] # Absent

\* Fault: a stage is reusable as soon as it left a record.
ReusableIfRecorded(s) == record[s] # "none"

\* Fault: the digest covers the run directory's path, and the directory was moved.
ReusableUnlessMoved(s) == record[s] = run.config /\ invocations = 1

Reusable(s) == record[s] = run.config

\* A record that does not parse ends the invocation, with --force too.
ReadTornRecord == /\ phase = "consider"
                  /\ record[Current] = "torn"
                  /\ End("bad_record")
                  /\ UNCHANGED <<disk, run, invocations, crashes, interrupted>>

\* Fault: files that are present are enough.
SkipIfPresent == /\ phase = "consider"
                 /\ record[Current] # "torn"
                 /\ ~run.force /\ Complete(Current)
                 /\ phase' = "record"
                 /\ UNCHANGED <<disk, run, todo, part, made, outcome, invocations, crashes,
                                interrupted>>

Skip == /\ phase = "consider"
        /\ record[Current] # "torn"
        /\ ~run.force /\ Complete(Current) /\ Reusable(Current)
        /\ phase' = "record"
        /\ UNCHANGED <<disk, run, todo, part, made, outcome, invocations, crashes,
                       interrupted>>

-----------------------------------------------------------------------------
(* Running a stage.                                                        *)

Corpus == {<<"data", 1>>, <<"data", 2>>}

\* _evaluate_variant opens the corpus and the adapter of its variant, if it has one.
EvaluationReads(adapter) == Corpus \cup adapter

\* build_report takes whatever is there.
Reported == {o \in Output : o[1] # "report" /\ art[o] # Absent}

\* The outputs of other stages a stage opens.
Reads(s) ==
    CASE s = "data" -> {}
      [] s = "eval_base" -> EvaluationReads({})
      [] s = "sft" -> Corpus
      [] s = "eval_sft" -> EvaluationReads({<<"sft", 2>>})
      [] s = "mine" -> Corpus \cup {<<"sft", 2>>}
      [] s = "dpo" -> {<<"mine", 2>>, <<"sft", 2>>}
      [] s = "eval_dpo" -> EvaluationReads({<<"dpo", 2>>})
      [] s = "compare" -> {<<"eval_base", 1>>, <<"eval_sft", 1>>, <<"eval_dpo", 1>>}
      [] s = "report" -> Reported

\* _require and Dataset.load: inputs exist, and the corpus is one corpus.
Loadable(s) == /\ \A in \in Reads(s) : art[in] # Absent
               /\ s # "report" /\ Corpus \subseteq Reads(s) =>
                     art[<<"data", 1>>] = art[<<"data", 2>>] /\ art[<<"data", 1>>] # Torn

Due(s) == record[s] # "torn" /\ (run.force \/ ~Complete(s) \/ ~Reusable(s))

Execute == /\ phase = "consider"
           /\ Due(Current)
           /\ Loadable(Current)
           /\ made' = [own |-> run.config,
                       from |-> {run.config} \cup UNION {art[in].from : in \in Reads(Current)}]
           /\ phase' = "write"
           /\ part' = 1
           /\ UNCHANGED <<disk, run, todo, outcome, invocations, crashes, interrupted>>

\* An input is missing, one that is torn is noticed, or no pair was mined.
StageFails == /\ phase = "consider"
              /\ Due(Current)
              /\ \/ ~Loadable(Current)
                 \/ \E in \in Reads(Current) : art[in] = Torn
                 \/ Current = "dpo"
              /\ End("failed")
              /\ UNCHANGED <<disk, run, invocations, crashes, interrupted>>

Write == /\ phase = "write"
         /\ art' = [art EXCEPT ![<<Current, part>>] = made]
         /\ IF part = Parts(Current)
              THEN phase' = "record" /\ UNCHANGED part
              ELSE part' = part + 1 /\ UNCHANGED phase
         /\ UNCHANGED <<record, run, todo, made, outcome, invocations, crashes, interrupted>>

\* A skipped stage's record is written again too.
WriteRecord ==
    /\ phase = "record"
    /\ record' = [record EXCEPT ![Current] = run.config]
    /\ IF todo = {Current}
         THEN End("returned")
         ELSE /\ todo' = todo \ {Current}
              /\ phase' = "consider"
              /\ made' = Absent
              /\ UNCHANGED <<part, outcome>>
    /\ UNCHANGED <<art, run, invocations, crashes, interrupted>>

-----------------------------------------------------------------------------
(* The process dies: a kill, a full disk, an exception between two writes.  *)
(* The file being written may be left truncated, and an adapter directory   *)
(* removed and not yet copied.                                              *)

Crash ==
    /\ phase # "idle"
    /\ crashes < MaxCrashes
    /\ crashes' = crashes + 1
    /\ CASE phase = "consider" -> UNCHANGED disk
         [] phase = "write" ->
              /\ \E left \in {art[<<Current, part>>], Torn}
                               \cup (IF <<Current, part>> \in Adapters THEN {Absent} ELSE {}) :
                    art' = [art EXCEPT ![<<Current, part>>] = left]
              /\ UNCHANGED record
         [] phase = "record" ->
              /\ \E left \in {record[Current], "torn"} :
                    record' = [record EXCEPT ![Current] = left]
              /\ UNCHANGED art
    /\ interrupted' = interrupted \cup
           (IF made # Absent /\ record[Current] # "none" THEN {Current} ELSE {})
    /\ End("crashed")
    /\ UNCHANGED <<run, invocations>>

Next == \/ \E c \in Configs, selected \in Selections, force \in BOOLEAN :
              (force => MayForce) /\ Invoke(c, selected, force)
        \/ ReadTornRecord
        \/ Skip
        \/ Execute
        \/ StageFails
        \/ Write
        \/ WriteRecord
        \/ Crash

Spec == Init /\ [][Next]_vars

-----------------------------------------------------------------------------
(* Properties.                                                             *)

Artefact == [own : Configs \cup {"absent", "torn"}, from : SUBSET (Configs \cup {"torn"})]

PipelineTypeOK ==
    /\ art \in [Output -> Artefact]
    /\ record \in [Stage -> Configs \cup {"none", "torn"}]
    /\ run \in [config : Configs \cup {"none"}, selected : SUBSET Stage, force : BOOLEAN]
    /\ made \in Artefact
    /\ part \in {1, 2}
    /\ phase \in {"idle", "consider", "write", "record"}
    /\ todo \subseteq run.selected
    /\ phase # "idle" <=> todo # {}
    /\ outcome = "running" <=> phase # "idle"
    /\ interrupted \subseteq Stage

\* After an invocation has returned, every artefact it vouches for was written
\* under its configuration, whole: whatever earlier invocations with other
\* configurations, --force, failures and crashes left behind.
ReturnedIsCurrent ==
    outcome = "returned" =>
        \A s \in run.selected : \A o \in Of(s) : art[o].own = run.config

\* The same, but for stages that died while an older record vouched for them.
ReturnedIsCurrentUnlessInterrupted ==
    outcome = "returned" =>
        \A s \in run.selected \ interrupted : \A o \in Of(s) : art[o].own = run.config

\* A record's digest names the configuration of its artefacts, at every moment at
\* which no stage is being rewritten.
RecordTellsUnlessInterrupted ==
    \A s \in Stage \ interrupted :
        (record[s] \in Configs /\ ~(phase \in {"write", "record"} /\ Current = s)) =>
            \A o \in Of(s) : art[o].own = record[s]

\* Comparing digests turns a changed configuration into a re-run instead of a
\* silent mismatch: after a full invocation no number in the run directory owes
\* anything to another configuration.
NothingForeign ==
    outcome = "returned" /\ run.selected = Stage /\ interrupted = {} =>
        \A o \in Output : art[o].from = {run.config}

\* Resuming costs only what is unfinished: without --force no stage is executed
\* whose artefacts are whole, of this configuration and already recorded.
FinishedIsKept ==
    [][Execute /\ ~run.force =>
          \/ record[Current] \notin Configs
          \/ \E o \in Of(Current) : art[o].own # run.config
          \/ Current \in interrupted]_vars
=============================================================================
