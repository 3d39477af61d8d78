----------------------------- MODULE Alignment ------------------------------
(***************************************************************************)
(* sftdpo.cli: every process runs one command over its own files.  `data   *)
(* build`, `verify check`, `prefs mine`, the training stages, `eval run`   *)
(* with `eval compare`, and `eval tax`.  The rows a training step gets and *)
(* the generate calls of an evaluation or of mining are followed on their  *)
(* own.  The order of the pipeline's stages is Pipeline's.                 *)
(***************************************************************************)
EXTENDS Scoring, Preferences, Tax, Training, Corpus, Collation, Decoding

VARIABLE command

alignmentVars == <<command, judged, preferenceVars, gateVars, taxVars, trainingVars,
                   corpusVars, collated, decodingVars>>

Init == /\ command \in {"data", "verify", "prefs", "train", "eval", "tax", "collate", "decode"}
        /\ ScoringInit /\ GateInit /\ TaxInit
        /\ CollationInit /\ DecodingInit
        \* What a command does not run stays where it began.
        /\ PreferencesInit /\ (command # "prefs" => k = CHOOSE n \in Ks : TRUE)
        /\ TrainingInit /\ run = CHOOSE s \in Settings : TRUE
        /\ CorpusInit /\ sizes = CHOOSE s \in Sizes : TRUE

Next == /\ UNCHANGED command
        /\ \/ /\ command = "verify" /\ Judge
              /\ UNCHANGED <<preferenceVars, gateVars, taxVars, trainingVars,
                             corpusVars, collated, decodingVars>>
           \/ /\ command = "prefs" /\ PreferencesNext
              /\ UNCHANGED <<judged, gateVars, taxVars, trainingVars,
                             corpusVars, collated, decodingVars>>
           \/ /\ command = "eval" /\ GateNext
              /\ UNCHANGED <<judged, preferenceVars, taxVars, trainingVars,
                             corpusVars, collated, decodingVars>>
           \/ /\ command = "tax" /\ TaxNext
              /\ UNCHANGED <<judged, preferenceVars, gateVars, trainingVars,
                             corpusVars, collated, decodingVars>>
           \/ /\ command = "train" /\ TrainingNext
              /\ UNCHANGED <<judged, preferenceVars, gateVars, taxVars,
                             corpusVars, collated, decodingVars>>
           \/ /\ command = "data" /\ CorpusNext
              /\ UNCHANGED <<judged, preferenceVars, gateVars, taxVars,
                             trainingVars, collated, decodingVars>>
           \/ /\ command = "collate" /\ CollationNext
              /\ UNCHANGED <<judged, preferenceVars, gateVars, taxVars,
                             trainingVars, corpusVars, decodingVars>>
           \/ /\ command = "decode" /\ DecodingNext
              /\ UNCHANGED <<judged, preferenceVars, gateVars, taxVars,
                             trainingVars, corpusVars, collated>>

Spec == Init /\ [][Next]_alignmentVars
=============================================================================
