----------------------------- MODULE MCPipeline -----------------------------
(***************************************************************************)
(* Selections for TLC.                                                     *)
(***************************************************************************)
EXTENDS Pipeline

\* Selections that hold every stage whose artefacts they read.
ClosedSelections == {Stage, {"data"}, {"data", "sft"}}

\* With --only naming a stage in the middle.
AnySelections == {Stage, {"data", "sft"}, {"eval_sft"}}
=============================================================================
