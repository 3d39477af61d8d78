------------------------------ MODULE Trainer -------------------------------
(***************************************************************************)
(* nanoformer.trainer.Trainer and the train command: the loop over         *)
(* optimiser steps, its evaluations, its rows and its checkpoints, killed  *)
(* at any point and resumed from any whole checkpoint.  torch.save writes  *)
(* in place, so a killed save leaves a torn file.                          *)
(***************************************************************************)
EXTENDS Naturals, SequencesExt

CONSTANTS MaxSteps,         \* cfg.max_steps
          Accum,            \* cfg.grad_accum_steps
          WarmupSteps,      \* cfg.warmup_steps
          Intervals,        \* choices of the eval, checkpoint and log intervals
          MaxLoss,          \* bound of the model: validation losses are 1..MaxLoss
          MaxStarts         \* bound of the model: invocations of the command

ASSUME TrainConfigAssumption ==
    /\ MaxSteps \in Nat \ {0} /\ Accum \in Nat \ {0} /\ WarmupSteps \in Nat
    /\ Intervals \subseteq [eval : Nat, save : Nat, log : Nat]
ASSUME TrainerBoundsAssumption == MaxLoss \in Nat /\ MaxStarts \in Nat

VARIABLES
    interval,      \* cfg.eval_interval, cfg.checkpoint_interval, cfg.log_interval
    valLoss,       \* the validation loss of the weights after each step
    live,          \* the Trainer of the running process
    at,            \* where train() is; "off" before and after a process
    files,         \* the checkpoints of out_dir
    metrics,       \* the rows of metrics.jsonl
    starts,        \* how often the command was invoked
    orderly        \* history: nobody resumed from an older checkpoint than the
                   \* newest, or started afresh, while a whole one was there

trainerVars == <<interval, valLoss, live, at, files, metrics, starts, orderly>>

Step == 0..MaxSteps
Losses == 1..MaxLoss
Infinity == MaxLoss + 1

Best == <<"ckpt_best", 0>>
Final == <<"ckpt_final", 0>>
Numbered(n) == <<"ckpt", n>>
Checkpoint == {Best, Final} \cup {Numbered(n) : n \in 1..(MaxSteps - 1)}

Absent == [kind |-> "absent"]
Torn == [kind |-> "torn"]
Whole == {f \in Checkpoint : files[f].kind = "whole"}

\* birth tells apart the weights of different fresh starts: cmd_train builds the
\* model before Trainer seeds torch.  data and noise count the draws taken from
\* data_rng and from torch's generator (dropout).
NewTrainer(birth) == [kind |-> "whole", birth |-> birth, weights |-> <<>>, moments |-> 0,
                      step |-> 0, history |-> <<>>, best |-> Infinity,
                      data |-> 0, noise |-> 0]
NoTrainer == [kind |-> "absent"]

TrainerInit == /\ interval \in Intervals
               /\ valLoss \in [Step -> Losses]
               /\ live = NoTrainer
               /\ at = "off"
               /\ files = [f \in Checkpoint |-> Absent]
               /\ metrics = <<>>
               /\ starts = 0
               /\ orderly = TRUE

-----------------------------------------------------------------------------
(* The train command.                                                      *)

Begin(trainer) == /\ at \in {"off", "done"}
                  /\ starts < MaxStarts
                  /\ starts' = starts + 1
                  /\ live' = trainer
                  /\ at' = "head"
                  /\ UNCHANGED <<interval, valLoss, files, metrics>>

StartFresh == /\ Begin(NewTrainer(starts + 1))
              /\ orderly' = (orderly /\ Whole = {})

\* Fault: the checkpoint's data_rng_state is not put back.
RestoredButData(ckpt) == [ckpt EXCEPT !.data = 0]

\* The saved state, field by field, over a trainer built from the saved configs;
\* set_rng_state comes last, after the constructors have drawn and seeded.
Restored(ckpt) == ckpt

Resume(f) == /\ f \in Whole
             /\ Begin(Restored(files[f]))
             /\ orderly' = (orderly /\ \A g \in Whole : files[g].step <= files[f].step)

-----------------------------------------------------------------------------
(* One optimisation step.                                                  *)

\* lr_at, by the branch and the step it computes with.
LrAt(step) == IF WarmupSteps > 0 /\ step < WarmupSteps THEN <<"warmup", step>>
              ELSE IF step >= MaxSteps THEN <<"min", 0>>
              ELSE <<"cosine", step - WarmupSteps>>

\* Accumulated micro-batches, each with a data draw and dropout's draws.
Update(t) == [lr |-> LrAt(t.step), moments |-> t.moments,
              draws |-> {t.data + i : i \in 0..(Accum - 1)},
              noise |-> {t.noise + i : i \in 0..(Accum - 1)}]

TrainStep(t) == [t EXCEPT !.weights = Append(@, Update(t)),
                          !.moments = @ + 1,
                          !.data = @ + Accum,
                          !.noise = @ + Accum,
                          !.step = @ + 1]

Due(every, step) == every > 0 /\ step % every = 0

Row(t, kind, best) == [birth |-> t.birth, kind |-> kind, step |-> t.step, best |-> best]

Record(t, row) == /\ live' = [t EXCEPT !.history = Append(@, row)]
                  /\ metrics' = Append(metrics, row)

\* The first half of torch.save: the file is open and being overwritten.
OpenFile(f) == files' = [files EXCEPT ![f] = Torn]
WriteFile(f) == files' = [files EXCEPT ![f] = live]

SaveDue(t) == Due(interval.save, t.step) /\ t.step < MaxSteps

Train == /\ at = "train"
         /\ LET t == TrainStep(live)
            IN  /\ IF Due(interval.log, t.step)
                   THEN Record(t, Row(t, "train", FALSE))
                   ELSE live' = t /\ UNCHANGED metrics
                /\ IF SaveDue(t)
                   THEN OpenFile(Numbered(t.step)) /\ at' = "numbered"
                   ELSE UNCHANGED files /\ at' = "head"
         /\ UNCHANGED <<interval, valLoss, starts, orderly>>

SaveNumbered == /\ at = "numbered"
                /\ WriteFile(Numbered(live.step))
                /\ at' = "head"
                /\ UNCHANGED <<interval, valLoss, live, metrics, starts, orderly>>

-----------------------------------------------------------------------------
(* Evaluation, which draws from generators of its own.                     *)

Finished == live.step >= MaxSteps
Onward == IF Finished THEN "final" ELSE "train"

NoEvaluation == /\ at = "head"
                /\ ~Finished /\ ~Due(interval.eval, live.step)
                /\ at' = "train"
                /\ UNCHANGED <<interval, valLoss, live, files, metrics, starts, orderly>>

Evaluation == at = "head" /\ (Finished \/ Due(interval.eval, live.step))

\* Fault: the row enters the history before the checkpoint is taken.
EvaluateBetterRecorded ==
    /\ Evaluation
    /\ valLoss[live.step] < live.best
    /\ Record([live EXCEPT !.best = valLoss[live.step]], Row(live, "eval", TRUE))
    /\ OpenFile(Best)
    /\ at' = "best"
    /\ UNCHANGED <<interval, valLoss, starts, orderly>>

\* Fault: the checkpoint is written, the lowest loss is not remembered.
EvaluateBetterForgotten ==
    /\ Evaluation
    /\ valLoss[live.step] < live.best
    /\ OpenFile(Best)
    /\ at' = "best"
    /\ UNCHANGED <<interval, valLoss, live, metrics, starts, orderly>>

EvaluateBetter == /\ Evaluation
                  /\ valLoss[live.step] < live.best
                  /\ live' = [live EXCEPT !.best = valLoss[live.step]]
                  /\ OpenFile(Best)
                  /\ at' = "best"
                  /\ UNCHANGED <<interval, valLoss, metrics, starts, orderly>>

EvaluateWorse == /\ Evaluation
                 /\ valLoss[live.step] >= live.best
                 /\ Record(live, Row(live, "eval", FALSE))
                 /\ at' = Onward
                 /\ UNCHANGED <<interval, valLoss, files, starts, orderly>>

SaveBest == /\ at = "best"
            /\ WriteFile(Best)
            /\ at' = "record"
            /\ UNCHANGED <<interval, valLoss, live, metrics, starts, orderly>>

RecordBest == /\ at = "record"
              /\ Record(live, Row(live, "eval", TRUE))
              /\ at' = Onward
              /\ UNCHANGED <<interval, valLoss, files, starts, orderly>>

OpenFinal == /\ at = "final"
             /\ OpenFile(Final)
             /\ at' = "saving"
             /\ UNCHANGED <<interval, valLoss, live, metrics, starts, orderly>>

SaveFinal == /\ at = "saving"
             /\ WriteFile(Final)
             /\ at' = "done"
             /\ UNCHANGED <<interval, valLoss, live, metrics, starts, orderly>>

\* A kill: memory is lost, files stay as they are.
Kill == /\ at \notin {"off", "done"}
        /\ at' = "off"
        /\ live' = NoTrainer
        /\ UNCHANGED <<interval, valLoss, files, metrics, starts, orderly>>

TrainerNext == \/ StartFresh
               \/ \E f \in Checkpoint : Resume(f)
               \/ NoEvaluation \/ EvaluateBetter \/ EvaluateWorse
               \/ SaveBest \/ RecordBest
               \/ Train \/ SaveNumbered
               \/ OpenFinal \/ SaveFinal
               \/ Kill

TrainerSpec == TrainerInit /\ [][TrainerNext]_trainerVars

-----------------------------------------------------------------------------
(* What the trainer promises.                                              *)

\* Every trainer there is, in memory or in a file.
Trainers == {t \in {live} \cup {files[f] : f \in Checkpoint} : t.kind = "whole"}

\* What an uninterrupted run does in its n-th step.
StraightUpdate(n) ==
    [lr |-> LrAt(n - 1), moments |-> n - 1,
     draws |-> {(n - 1) * Accum + i : i \in 0..(Accum - 1)},
     noise |-> {(n - 1) * Accum + i : i \in 0..(Accum - 1)}]

\* However often it was killed and resumed, and from which checkpoint, a
\* trainer's weights are those of the run that was never interrupted: the same
\* batches, noise, rates and moments in every step (resume: "so that training
\* continues exactly").
ContinuesExactly ==
    \A t \in Trainers : t.weights = [n \in 1..t.step |-> StraightUpdate(n)]

\* The history holds every evaluation and every logged step up to the present
\* one once, across kills and resumes: ckpt_best is saved before its row, and
\* resuming from it evaluates again.  Only the closing evaluation may repeat,
\* when a finished run is resumed.  Every row is in metrics.jsonl as well.
HistoryComplete ==
    \A t \in Trainers :
        /\ ToSet(t.history) \subseteq ToSet(metrics)
        /\ \A i, j \in DOMAIN t.history :
              i < j => \/ t.history[i].step < t.history[j].step
                       \/ t.history[i].kind = "train" /\ t.history[j].kind = "eval"
                            /\ t.history[i].step = t.history[j].step
                       \/ t.history[i].step = MaxSteps
        /\ \A n \in 0..t.step :
              /\ n > 0 /\ Due(interval.log, n) =>
                    \E r \in ToSet(t.history) : r.step = n /\ r.kind = "train"
              /\ n < t.step /\ Due(interval.eval, n) =>
                    \E r \in ToSet(t.history) : r.step = n /\ r.kind = "eval"

Evaluated == {n \in Step : n = MaxSteps \/ Due(interval.eval, n)}

\* When a run has ended, ckpt_best is whole and holds the weights of the first
\* evaluation with the lowest validation loss, provided every resume took the
\* newest checkpoint there was.
BestIsKept ==
    at = "done" /\ orderly =>
        /\ files[Best].kind = "whole" /\ files[Best].birth = live.birth
        /\ files[Best].step \in Evaluated
        /\ \A n \in Evaluated :
              /\ valLoss[files[Best].step] <= valLoss[n]
              /\ valLoss[files[Best].step] = valLoss[n] => files[Best].step <= n
=============================================================================
