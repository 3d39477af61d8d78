-------------------------------- MODULE Labs --------------------------------
(***************************************************************************)
(* The two experimental packages, nanoformer and loraeval.  Every process  *)
(* runs one command: nanoformer's train (with --resume), generate and      *)
(* train-tokenizer, loraeval's run with predict, and a program that keeps  *)
(* the adapters of one model in memory.  They meet in files only.          *)
(***************************************************************************)
EXTENDS Trainer, Generation, Tokenizer, Finetune, LoRA

VARIABLE command

labsVars == <<command, trainerVars, generationVars, tokenizerVars, finetuneVars, loraVars>>

\* The parts the command does not run.
NoTraining == /\ interval = CHOOSE i \in Intervals : TRUE
              /\ valLoss = [n \in Step |-> 1]
              /\ live = NoTrainer /\ at = "off"
              /\ files = [f \in Checkpoint |-> Absent]
              /\ metrics = <<>> /\ starts = 0 /\ orderly = TRUE

NoGeneration == /\ out = [r \in Rows |-> <<Eos>>] /\ finished = {} /\ budget = 0
                /\ cache = <<>> /\ seqLen = 0 /\ hidden = <<>> /\ layer = 1
                /\ generating = "off" /\ training = [now |-> TRUE, before |-> TRUE]

NoTokenizer == /\ freq = <<>> /\ seqs = <<>> /\ merges = <<>>
               /\ word = <<>> /\ ids = <<>> /\ tokenizing = "off"

NoExperiment == /\ sizes = [l \in Labels |-> 0]
                /\ fractions = CHOOSE f \in Fractions : TRUE
                /\ run = NoRun /\ runs = 0 /\ split = <<>>
                /\ net = <<>> /\ scores = <<>> /\ best = NoBest
                /\ doing = "idle" /\ dir = Empty /\ loaded = NotLoaded

Init == /\ command \in {"train", "generate", "train-tokenizer", "run", "adapters"}
        /\ IF command = "train" THEN TrainerInit ELSE NoTraining
        /\ IF command = "generate" THEN GenerationInit ELSE NoGeneration
        /\ IF command = "train-tokenizer" THEN TokenizerInit ELSE NoTokenizer
        /\ IF command = "run" THEN FinetuneInit ELSE NoExperiment
        /\ LoRAInit

Next == /\ UNCHANGED command
        /\ \/ /\ command = "train" /\ TrainerNext
              /\ UNCHANGED <<generationVars, tokenizerVars, finetuneVars, loraVars>>
           \/ /\ command = "generate" /\ GenerationNext
              /\ UNCHANGED <<trainerVars, tokenizerVars, finetuneVars, loraVars>>
           \/ /\ command = "train-tokenizer" /\ TokenizerNext
              /\ UNCHANGED <<trainerVars, generationVars, finetuneVars, loraVars>>
           \/ /\ command = "run" /\ FinetuneNext
              /\ UNCHANGED <<trainerVars, generationVars, tokenizerVars, loraVars>>
           \/ /\ command = "adapters" /\ LoRANext
              /\ UNCHANGED <<trainerVars, generationVars, tokenizerVars, finetuneVars>>

Spec == Init /\ [][Next]_labsVars
=============================================================================
