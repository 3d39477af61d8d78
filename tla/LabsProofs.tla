----------------------------- MODULE LabsProofs -----------------------------
(***************************************************************************)
(* Theorems about nanoformer and loraeval.  Trainer: training continues    *)
(* exactly, for any number of steps, micro-batches, kills and resumes, and *)
(* its history and its best loss with it.  Generation: the key/value cache *)
(* is invisible, for any number of blocks, rows and tokens.  Tokenizer:    *)
(* encoding replays training and keeps every byte, for any corpora, words  *)
(* and numbers of merges.  LoRA and Finetune: merging never shows, an      *)
(* experiment keeps its best epoch, and what is rebuilt from a run         *)
(* directory is what was tested, for any layers, runs, class sizes,        *)
(* patience and scores.                                                    *)
(***************************************************************************)
EXTENDS Trainer, Generation, Tokenizer, Finetune, LoRA, ListLemmas

Straight(n) == [i \in 1..n |-> StraightUpdate(i)]

\* A trainer after n steps of an uninterrupted run.
After(n, birth, history, lowest) ==
    [kind |-> "whole", birth |-> birth, weights |-> Straight(n), moments |-> n, step |-> n,
     history |-> history, best |-> lowest, data |-> n * Accum, noise |-> n * Accum]

Sound(t) == \E n \in Nat : \E birth, history, lowest : t = After(n, birth, history, lowest)

\* Every checkpoint is absent, torn or sound, and so is the live trainer while a
\* process runs.
CInv == /\ files \in [Checkpoint -> {files[f] : f \in Checkpoint}]
        /\ \A f \in Checkpoint : files[f].kind = "whole" => Sound(files[f])
        /\ live.kind = "whole" <=> at # "off"
        /\ live.kind = "whole" => Sound(live)

-----------------------------------------------------------------------------

\* After n steps, whatever the history and the best loss, a trainer is sound.
LEMMA AfterIsSound ==
  ASSUME NEW n \in Nat, NEW birth, NEW history, NEW lowest
  PROVE  Sound(After(n, birth, history, lowest))
BY Zenon DEF Sound

\* A sound trainer is not torn and not absent.
LEMMA SoundIsWhole == ASSUME NEW t, Sound(t) PROVE t.kind = "whole"
BY DEF Sound, After

\* A new row, a lower loss: neither touches weights or counters.
LEMMA SoundKept ==
  ASSUME NEW t, Sound(t), NEW h, NEW b
  PROVE  /\ Sound([t EXCEPT !.history = h])
         /\ Sound([t EXCEPT !.best = b])
<1>0. PICK n \in Nat : \E birth, history, lowest : t = After(n, birth, history, lowest)
  BY Zenon DEF Sound
<1>1. PICK birth, history, lowest : t = After(n, birth, history, lowest)
  BY <1>0
<1>2. [t EXCEPT !.history = h] = After(n, birth, h, lowest)
  BY <1>1 DEF After
<1>3. [t EXCEPT !.best = b] = After(n, birth, history, b)
  BY <1>1 DEF After
<1>4. Sound(After(n, birth, h, lowest)) /\ Sound(After(n, birth, history, b))
  BY AfterIsSound
<1> QED BY <1>2, <1>3, <1>4, Zenon

\* Append to the weights of n steps.
LEMMA StraightAppend ==
  ASSUME NEW n \in Nat PROVE Append(Straight(n), StraightUpdate(n + 1)) = Straight(n + 1)
<1> DEFINE S == {StraightUpdate(i) : i \in Nat}
<1>1. Straight(n) \in Seq(S) /\ Len(Straight(n)) = n
  <2> HIDE DEF S
  <2>1. \A i \in 1..n : StraightUpdate(i) \in S
    BY DEF S
  <2> QED BY <2>1 DEF Straight
<1>2. StraightUpdate(n + 1) \in S
  OBVIOUS
<1> HIDE DEF S
<1> QED BY <1>1, <1>2 DEF Straight

\* The step a sound trainer takes is the next one of the uninterrupted run.
LEMMA NextUpdate ==
  ASSUME NEW n \in Nat, NEW birth, NEW history, NEW lowest
  PROVE  Update(After(n, birth, history, lowest)) = StraightUpdate(n + 1)
<1> DEFINE t == After(n, birth, history, lowest)
<1>1. t.step = n /\ t.moments = n /\ t.data = n * Accum /\ t.noise = n * Accum
  BY DEF After
<1>2. (n + 1) - 1 = n
  OBVIOUS
<1> HIDE DEF t
<1>3. Update(t) = StraightUpdate(n + 1)
  BY <1>1, <1>2, Zenon DEF Update, StraightUpdate
<1> QED BY <1>3 DEF t

\* train_step keeps a trainer sound: one more step of the uninterrupted run.
LEMMA SoundStep == ASSUME NEW t, Sound(t) PROVE Sound(TrainStep(t))
<1>0. PICK n \in Nat : \E birth, history, lowest : t = After(n, birth, history, lowest)
  BY Zenon DEF Sound
<1>1. PICK birth, history, lowest : t = After(n, birth, history, lowest)
  BY <1>0
<1>2. n + 1 \in Nat /\ n * Accum + Accum = (n + 1) * Accum
  BY TrainConfigAssumption
<1>3. Append(Straight(n), Update(t)) = Straight(n + 1)
  BY <1>1, StraightAppend, NextUpdate
<1>4. TrainStep(t) = After(n + 1, birth, history, lowest)
  <2>1. /\ t.weights = Straight(n) /\ t.moments = n /\ t.step = n
        /\ t.data = n * Accum /\ t.noise = n * Accum
    BY <1>1 DEF After
  <2> DEFINE w == Append(t.weights, Update(t))
  <2>2. w = Straight(n + 1)
    BY <1>3, <2>1
  <2> DEFINE d == n * Accum + Accum
  <2>3. TrainStep(t) = [t EXCEPT !.weights = w, !.moments = n + 1, !.data = d, !.noise = d,
                                 !.step = n + 1]
    BY <2>1, Zenon DEF TrainStep
  <2>4. d = (n + 1) * Accum
    BY <1>2
  <2> DEFINE k == n * Accum
  <2>5. t = [kind |-> "whole", birth |-> birth, weights |-> Straight(n), moments |-> n,
             step |-> n, history |-> history, best |-> lowest, data |-> k, noise |-> k]
    BY <1>1, Zenon DEF After
  <2> HIDE DEF w, d, k
  <2>6. TrainStep(t) = [kind |-> "whole", birth |-> birth, weights |-> w, moments |-> n + 1,
                        step |-> n + 1, history |-> history, best |-> lowest, data |-> d,
                        noise |-> d]
    BY <2>3, <2>5
  <2> QED BY <2>2, <2>4, <2>6, Zenon DEF After
<1> QED BY <1>2, <1>4, AfterIsSound

\* A new trainer is the one after no step.
LEMMA SoundNew == ASSUME NEW b PROVE Sound(NewTrainer(b))
<1>1. Straight(0) = <<>>
  BY DEF Straight
<1>2. 0 * Accum = 0
  BY TrainConfigAssumption
<1>3. NewTrainer(b) = After(0, b, <<>>, Infinity)
  BY <1>1, <1>2 DEF NewTrainer, After
<1> QED BY <1>3 DEF Sound

-----------------------------------------------------------------------------

\* Before the first process there are no checkpoints and no trainer.
LEMMA CInitInv == TrainerInit => CInv
  BY DEF TrainerInit, CInv, Absent, NoTrainer

\* Opening tears a checkpoint; writing it makes it the live trainer.
LEMMA OpenKeeps ==
  ASSUME CInv, NEW f, OpenFile(f)
  PROVE  /\ files' \in [Checkpoint -> {files'[g] : g \in Checkpoint}]
         /\ \A g \in Checkpoint : files'[g].kind = "whole" => Sound(files'[g])
BY DEF CInv, OpenFile, Torn

\* Writing a checkpoint stores the live trainer, which is sound.
LEMMA WriteKeeps ==
  ASSUME CInv, NEW f, WriteFile(f), at # "off"
  PROVE  /\ files' \in [Checkpoint -> {files'[g] : g \in Checkpoint}]
         /\ \A g \in Checkpoint : files'[g].kind = "whole" => Sound(files'[g])
BY DEF CInv, WriteFile

\* What a new row does to the live trainer.
LEMMA RecordKeeps ==
  ASSUME NEW t, Sound(t), NEW row, Record(t, row)
  PROVE  Sound(live') /\ live'.kind = "whole"
<1>1. Sound(live')
  BY SoundKept, Zenon DEF Record
<1> QED BY <1>1, SoundIsWhole

-----------------------------------------------------------------------------
(* The steps.                                                              *)

\* A process that begins with a sound trainer keeps the invariant.
LEMMA BeginInv ==
  ASSUME CInv, NEW trainer, Sound(trainer), Begin(trainer) PROVE CInv'
<1>1. live' = trainer /\ files' = files /\ at' = "head"
  BY DEF Begin
<1> QED BY <1>1, SoundIsWhole DEF CInv

\* A training step, its log row and the save it may open.
LEMMA TrainInv == ASSUME CInv, Train PROVE CInv'
<1>1. Sound(live) /\ at' # "off"
  BY DEF CInv, Train
<1>2. Sound(TrainStep(live))
  BY <1>1, SoundStep
<1>3. Sound(live') /\ live'.kind = "whole"
  <2>1. CASE Due(interval.log, TrainStep(live).step)
    BY <1>2, <2>1, RecordKeeps, Zenon DEF Train
  <2>2. CASE ~Due(interval.log, TrainStep(live).step)
    <3>1. live' = TrainStep(live)
      BY <2>2, Zenon DEF Train
    <3> QED BY <1>2, <3>1, SoundIsWhole
  <2> QED BY <2>1, <2>2
<1>4. /\ files' \in [Checkpoint -> {files'[g] : g \in Checkpoint}]
      /\ \A g \in Checkpoint : files'[g].kind = "whole" => Sound(files'[g])
  <2>1. CASE SaveDue(TrainStep(live))
    <3>1. OpenFile(Numbered(TrainStep(live).step))
      BY <2>1, Zenon DEF Train
    <3> QED BY <3>1, OpenKeeps
  <2>2. CASE ~SaveDue(TrainStep(live))
    BY <2>2 DEF Train, CInv
  <2> QED BY <2>1, <2>2
<1> QED BY <1>1, <1>3, <1>4 DEF CInv

\* An evaluation, better or worse than the best so far.
LEMMA EvaluateInv == ASSUME CInv, EvaluateBetter \/ EvaluateWorse PROVE CInv'
<1>1. Sound(live)
  BY DEF CInv, EvaluateBetter, EvaluateWorse, Evaluation
<1>2. CASE EvaluateBetter
  <2>1. Sound(live') /\ at' = "best"
    BY <1>1, <1>2, SoundKept DEF EvaluateBetter
  <2> QED BY <1>2, <2>1, SoundIsWhole, OpenKeeps DEF EvaluateBetter, CInv
<1>3. CASE EvaluateWorse
  <2>1. Sound(live') /\ live'.kind = "whole"
    BY <1>1, <1>3, RecordKeeps DEF EvaluateWorse
  <2> QED BY <1>3, <2>1 DEF EvaluateWorse, Onward, CInv
<1> QED BY <1>2, <1>3

\* The saves of numbered, best and final checkpoints.
LEMMA SaveInv ==
  ASSUME CInv, SaveNumbered \/ SaveBest \/ OpenFinal \/ SaveFinal PROVE CInv'
<1>1. CASE SaveNumbered
  BY <1>1, WriteKeeps DEF SaveNumbered, CInv
<1>2. CASE SaveBest
  BY <1>2, WriteKeeps DEF SaveBest, CInv
<1>3. CASE OpenFinal
  BY <1>3, OpenKeeps DEF OpenFinal, CInv
<1>4. CASE SaveFinal
  BY <1>4, WriteKeeps DEF SaveFinal, CInv
<1> QED BY <1>1, <1>2, <1>3, <1>4

\* The row of an evaluation that improved on the best.
LEMMA RecordBestInv == ASSUME CInv, RecordBest PROVE CInv'
<1>1. Sound(live)
  BY DEF CInv, RecordBest
<1>2. Sound(live') /\ live'.kind = "whole"
  BY <1>1, RecordKeeps DEF RecordBest
<1> QED BY <1>2 DEF RecordBest, Onward, CInv

\* Every step of a run, a kill included, keeps the invariant.
LEMMA CStepInv == ASSUME CInv, [TrainerNext]_trainerVars PROVE CInv'
<1>1. CASE StartFresh
  BY <1>1, SoundNew, BeginInv DEF StartFresh
<1>2. ASSUME NEW f \in Checkpoint, Resume(f) PROVE CInv'
  <2>1. Sound(files[f]) /\ Begin(files[f])
    BY <1>2 DEF CInv, Resume, Restored, Whole
  <2> QED BY <2>1, BeginInv
<1>3. CASE NoEvaluation
  BY <1>3 DEF NoEvaluation, CInv
<1>4. CASE EvaluateBetter \/ EvaluateWorse
  BY <1>4, EvaluateInv
<1>5. CASE RecordBest
  BY <1>5, RecordBestInv
<1>6. CASE Train
  BY <1>6, TrainInv
<1>7. CASE SaveNumbered \/ SaveBest \/ OpenFinal \/ SaveFinal
  BY <1>7, SaveInv
<1>8. CASE Kill
  BY <1>8 DEF Kill, NoTrainer, CInv
<1>9. CASE UNCHANGED trainerVars
  BY <1>9 DEF trainerVars, CInv
<1> QED BY <1>1, <1>2, <1>3, <1>4, <1>5, <1>6, <1>7, <1>8, <1>9 DEF TrainerNext

\* The inductive invariant: every trainer in memory or on disk is one of the
\* uninterrupted run.
THEOREM TrainerInvariance == TrainerSpec => []CInv
  BY CInitInv, CStepInv, PTL DEF TrainerSpec

\* Killed and resumed from any checkpoint, any number of times, training takes the
\* steps of the uninterrupted run (Trainer.resume: "so that training continues
\* exactly").
THEOREM TrainingContinues == TrainerSpec => []ContinuesExactly
<1>1. CInv => ContinuesExactly
  <2> SUFFICES ASSUME CInv, NEW t \in Trainers PROVE t.weights = Straight(t.step)
    BY DEF ContinuesExactly, Straight
  <2>1. Sound(t)
    BY DEF CInv, Trainers
  <2> QED BY <2>1 DEF Sound, After
<1> QED BY <1>1, TrainerInvariance, PTL

-----------------------------------------------------------------------------
(* Where a run is, what its history tells and what ckpt_best holds.        *)

\* The positions in train() and the steps possible there; every numbered checkpoint
\* is of its step, the final one of the last.
PInv == /\ interval \in Intervals
        /\ valLoss \in [Step -> Losses]
        /\ at \in {"off", "head", "train", "numbered", "best", "record", "final", "saving", "done"}
        /\ at # "off" => live.step \in Step /\ live.best \in 1..Infinity
        /\ at = "train" => live.step < MaxSteps
        /\ at = "numbered" => live.step \in 1..(MaxSteps - 1)
        /\ at \in {"final", "saving", "done"} => live.step = MaxSteps
        /\ at \in {"best", "record"} => live.step \in Evaluated
        /\ \A f \in Whole : files[f].step \in Step /\ files[f].best \in 1..Infinity
        /\ Final \in Whole => files[Final].step = MaxSteps
        /\ \A n \in 1..(MaxSteps - 1) : Numbered(n) \in Whole => files[Numbered(n)].step = n

\* No row lies ahead, the rows are in order, and those that are due are there.
Follows(r, q) == \/ r.step < q.step
                 \/ r.kind = "train" /\ q.kind = "eval" /\ r.step = q.step
                 \/ r.step = MaxSteps
HasRow(h, kind, n) == \E i \in DOMAIN h : h[i].step = n /\ h[i].kind = kind
Told(t, rows, every) ==
    /\ IsSeq(t.history)
    /\ \A i \in DOMAIN t.history : /\ t.history[i].step \in 0..t.step
                                   /\ t.history[i].kind \in {"train", "eval"}
                                   /\ t.history[i] \in ToSet(rows)
    /\ \A i, j \in DOMAIN t.history : i < j => Follows(t.history[i], t.history[j])
    /\ \A n \in 1..t.step : Due(every.log, n) => HasRow(t.history, "train", n)
    /\ \A n \in 0..(t.step - 1) : Due(every.eval, n) => HasRow(t.history, "eval", n)

\* The evaluation of the present step is still to be recorded (of the last step, it
\* may be recorded again).
Unrecorded(t) == \A i \in DOMAIN t.history :
                    t.history[i].kind = "eval" =>
                        t.history[i].step < t.step \/ t.history[i].step = MaxSteps

\* Checkpoints are taken before the row of their step's evaluation.
HInv == /\ IsSeq(metrics)
        /\ at # "off" => Told(live, metrics, interval)
        /\ at \notin {"off", "train"} => Unrecorded(live)
        /\ at = "train" /\ Due(interval.eval, live.step) =>
              HasRow(live.history, "eval", live.step)
        /\ \A f \in Whole : Told(files[f], metrics, interval) /\ Unrecorded(files[f])

\* A trainer's best loss is no higher than the evaluations before step m, and one of
\* them.
Lowest(t, m) == /\ \A n \in Evaluated : n < m => t.best <= valLoss[n]
                /\ t.best = Infinity \/ \E n \in Evaluated : n < m /\ t.best = valLoss[n]

\* ckpt_best is of that loss, or a lower one is still to come.
Kept(t) == \/ Best \in Whole /\ files[Best].best = t.best
           \/ \E p \in Evaluated : p >= t.step /\ valLoss[p] < t.best

FirstLowest(t) == /\ t.step \in Evaluated /\ t.best = valLoss[t.step]
                  /\ \A n \in Evaluated : n < t.step => t.best < valLoss[n]

\* The checkpoints, as long as every process took the newest one there was.
BFiles == /\ \A f, g \in Whole : files[f].birth = files[g].birth
          /\ \A f \in Whole \ {Best} : Kept(files[f])
          /\ Best \in Whole => FirstLowest(files[Best])
          /\ Final \in Whole => Lowest(files[Final], MaxSteps + 1)
          /\ \A n \in 1..(MaxSteps - 1) :
                Numbered(n) \in Whole => Lowest(files[Numbered(n)], n)

\* The live trainer, which is no older than any of them.
BLive == /\ \A f \in Whole : files[f].birth = live.birth /\ files[f].step <= live.step
         /\ at # "best" => Kept(live)
         /\ at = "best" => Best \notin Whole /\ FirstLowest(live)
         /\ at = "record" => /\ Best \in Whole /\ files[Best].best = live.best
                             /\ FirstLowest(live)
         /\ \A n \in Evaluated : n < live.step => live.best <= valLoss[n]
         /\ \/ live.best = Infinity
            \/ \E n \in Evaluated : n <= live.step /\ live.best = valLoss[n]
         /\ at = "numbered" => Lowest(live, live.step)
         /\ at \notin {"head", "numbered"} \/ Final \in Whole =>
               \A n \in Evaluated : n <= live.step => live.best <= valLoss[n]

BInv == orderly => BFiles /\ (at # "off" => BLive)

-----------------------------------------------------------------------------
(* Lemmas about trainers and checkpoints.                                  *)

\* A longer history keeps the rows of the shorter.
LEMMA AppendRow ==
  ASSUME NEW s, IsSeq(s), NEW x
  PROVE  /\ IsSeq(Append(s, x)) /\ Len(s) \in Nat
         /\ DOMAIN s = 1..Len(s) /\ DOMAIN Append(s, x) = 1..Len(s) + 1
         /\ Append(s, x)[Len(s) + 1] = x
         /\ \A i \in 1..Len(s) : Append(s, x)[i] = s[i]
<1>1. PICK S : s \in Seq(S)
  BY DEF IsSeq
<1> DEFINE T == S \cup {x}
<1>2. s \in Seq(T) /\ x \in T
  BY <1>1
<1> HIDE DEF T
<1> QED BY <1>2 DEF IsSeq

\* A sound trainer is a record of these fields.
LEMMA SoundFields ==
  ASSUME NEW t, Sound(t)
  PROVE  /\ t.step \in Nat
         /\ t = [kind |-> t.kind, birth |-> t.birth, weights |-> t.weights,
                 moments |-> t.moments, step |-> t.step, history |-> t.history,
                 best |-> t.best, data |-> t.data, noise |-> t.noise]
<1>0. PICK n \in Nat : \E birth, history, lowest : t = After(n, birth, history, lowest)
  BY Zenon DEF Sound
<1>1. PICK birth, history, lowest : t = After(n, birth, history, lowest)
  BY <1>0
<1> DEFINE w == Straight(n)
           d == n * Accum
<1>2. t = [kind |-> "whole", birth |-> birth, weights |-> w, moments |-> n, step |-> n,
           history |-> history, best |-> lowest, data |-> d, noise |-> d]
  BY <1>1, Zenon DEF After
<1> HIDE DEF w, d
<1> QED BY <1>2

\* What a new row, a new best loss and a step leave alone.
LEMMA Changed ==
  ASSUME NEW t, Sound(t), NEW h, NEW b
  PROVE  /\ [t EXCEPT !.history = h].history = h
         /\ [t EXCEPT !.history = h].step = t.step
         /\ [t EXCEPT !.history = h].best = t.best
         /\ [t EXCEPT !.history = h].birth = t.birth
         /\ [t EXCEPT !.best = b].history = t.history
         /\ [t EXCEPT !.best = b].step = t.step
         /\ [t EXCEPT !.best = b].best = b
         /\ [t EXCEPT !.best = b].birth = t.birth
         /\ TrainStep(t).history = t.history
         /\ TrainStep(t).step = t.step + 1
         /\ TrainStep(t).best = t.best
         /\ TrainStep(t).birth = t.birth
<1>1. PICK k, i, w, m, n, r, l, d, z :
         t = [kind |-> k, birth |-> i, weights |-> w, moments |-> m, step |-> n,
              history |-> r, best |-> l, data |-> d, noise |-> z]
  BY SoundFields
<1> DEFINE u == Append(t.weights, Update(t))
<1>2. TrainStep(t) = [t EXCEPT !.weights = u, !.moments = @ + 1, !.data = @ + Accum,
                               !.noise = @ + Accum, !.step = @ + 1]
  BY Zenon DEF TrainStep
<1> HIDE DEF u
<1> QED BY <1>1, <1>2

\* A recorded row is the last of the history and of the metrics.
LEMMA Recorded ==
  ASSUME NEW t, Sound(t), NEW row, Record(t, row)
  PROVE  /\ live'.history = Append(t.history, row) /\ metrics' = Append(metrics, row)
         /\ live'.step = t.step /\ live'.best = t.best /\ live'.birth = t.birth
<1>1. live' = [t EXCEPT !.history = Append(t.history, row)] /\ metrics' = Append(metrics, row)
  <2>1. PICK h : h = Append(t.history, row)
    OBVIOUS
  <2> QED BY Zenon DEF Record
<1> QED BY <1>1, Changed

\* The names of the checkpoints are all different.
LEMMA CheckpointNames ==
  /\ Best \in Checkpoint /\ Final \in Checkpoint /\ Best # Final
  /\ \A n \in 1..(MaxSteps - 1) : Numbered(n) \in Checkpoint /\ Numbered(n) \notin {Best, Final}
  /\ \A m, n \in 1..(MaxSteps - 1) : Numbered(m) = Numbered(n) => m = n
  /\ \A f \in Checkpoint :
        f = Best \/ f = Final \/ \E n \in 1..(MaxSteps - 1) : f = Numbered(n)
BY DEF Best, Final, Numbered, Checkpoint

\* Opening a checkpoint tears it, and only it.
LEMMA Opened ==
  ASSUME CInv, NEW f \in Checkpoint, OpenFile(f)
  PROVE  Whole' = Whole \ {f} /\ \A g \in Whole' : files'[g] = files[g]
BY DEF CInv, OpenFile, Whole, Torn

\* Writing a checkpoint makes it the live trainer, and leaves the others.
LEMMA Written ==
  ASSUME CInv, at # "off", NEW f \in Checkpoint, WriteFile(f)
  PROVE  /\ Whole' = Whole \cup {f} /\ files'[f] = live
         /\ \A g \in Whole \ {f} : files'[g] = files[g]
BY DEF CInv, WriteFile, Whole

-----------------------------------------------------------------------------
(* What each action does, in these terms.                                  *)

Same(t, u) == t.step = u.step /\ t.best = u.best /\ t.birth = u.birth /\ t.history = u.history

\* The files stay what they are.
FilesStay == Whole' = Whole /\ \A f \in Whole : files'[f] = files[f]

\* A row is added, to the history and to the metrics.
Adds(row) == /\ live'.history = Append(live.history, row)
             /\ metrics' = Append(metrics, row)

\* train_step: one step on, the row of a logged step, a numbered checkpoint opened.
LEMMA TrainDoes ==
  ASSUME CInv, Train
  PROVE  /\ at = "train" /\ UNCHANGED <<interval, valLoss, orderly>>
         /\ live'.step = live.step + 1 /\ live'.best = live.best /\ live'.birth = live.birth
         /\ \/ Due(interval.log, live.step + 1) /\ \E row : /\ Adds(row)
                                                            /\ row.kind = "train"
                                                            /\ row.step = live.step + 1
            \/ /\ ~Due(interval.log, live.step + 1)
               /\ live'.history = live.history /\ metrics' = metrics
         /\ \/ at' = "head" /\ FilesStay
            \/ /\ at' = "numbered" /\ live.step + 1 < MaxSteps
               /\ Whole' = Whole \ {Numbered(live.step + 1)}
               /\ \A g \in Whole' : files'[g] = files[g]
<1>1. at = "train" /\ Sound(live) /\ UNCHANGED <<interval, valLoss, orderly>>
  BY DEF CInv, Train
<1> DEFINE t == TrainStep(live)
<1>2. /\ t.step = live.step + 1 /\ t.best = live.best /\ t.birth = live.birth
      /\ t.history = live.history /\ Sound(t)
  BY <1>1, Changed, SoundStep
<1>3. \/ Due(interval.log, t.step) /\ Record(t, Row(t, "train", FALSE))
      \/ ~Due(interval.log, t.step) /\ live' = t /\ UNCHANGED metrics
  BY DEF Train
<1>4. \/ /\ t.step < MaxSteps /\ OpenFile(Numbered(t.step)) /\ at' = "numbered"
      \/ UNCHANGED files /\ at' = "head"
  BY DEF Train, SaveDue
<1> HIDE DEF t
<1>5. /\ live'.step = live.step + 1 /\ live'.best = live.best /\ live'.birth = live.birth
      /\ \/ Due(interval.log, live.step + 1) /\ \E row : /\ Adds(row)
                                                         /\ row.kind = "train"
                                                         /\ row.step = live.step + 1
         \/ /\ ~Due(interval.log, live.step + 1)
            /\ live'.history = live.history /\ metrics' = metrics
  <2>1. CASE ~Due(interval.log, t.step) /\ live' = t /\ UNCHANGED metrics
    BY <1>2, <2>1
  <2>2. CASE Due(interval.log, t.step) /\ Record(t, Row(t, "train", FALSE))
    <3>1. PICK row : row = Row(t, "train", FALSE)
      OBVIOUS
    <3>2. row.kind = "train" /\ row.step = live.step + 1
      BY <1>2, <3>1 DEF Row
    <3>3. /\ live'.history = Append(t.history, row) /\ metrics' = Append(metrics, row)
          /\ live'.step = t.step /\ live'.best = t.best /\ live'.birth = t.birth
      BY <1>2, <2>2, <3>1, Recorded
    <3> QED BY <1>2, <2>2, <3>2, <3>3 DEF Adds
  <2> QED BY <1>3, <2>1, <2>2
<1>6. \/ at' = "head" /\ FilesStay
      \/ /\ at' = "numbered" /\ live.step + 1 < MaxSteps
         /\ Whole' = Whole \ {Numbered(live.step + 1)}
         /\ \A g \in Whole' : files'[g] = files[g]
  <2>1. CASE UNCHANGED files /\ at' = "head"
    BY <2>1 DEF FilesStay, Whole
  <2>2. CASE t.step < MaxSteps /\ OpenFile(Numbered(t.step)) /\ at' = "numbered"
    <3>1. live.step \in Nat
      BY <1>1, SoundFields
    <3>2. t.step \in 1..(MaxSteps - 1)
      BY <1>2, <2>2, <3>1, TrainConfigAssumption
    <3>3. Numbered(t.step) \in Checkpoint
      BY <3>2, CheckpointNames
    <3> QED BY <1>2, <2>2, <3>3, Opened
  <2> QED BY <1>4, <2>1, <2>2
<1> QED BY <1>1, <1>5, <1>6

\* evaluate, when the loss is the lowest so far: ckpt_best is opened.
LEMMA BetterDoes ==
  ASSUME CInv, EvaluateBetter
  PROVE  /\ at = "head" /\ at' = "best" /\ UNCHANGED <<interval, valLoss, metrics, orderly>>
         /\ live.step >= MaxSteps \/ Due(interval.eval, live.step)
         /\ valLoss[live.step] < live.best
         /\ live'.best = valLoss[live.step]
         /\ live'.step = live.step /\ live'.birth = live.birth /\ live'.history = live.history
         /\ Whole' = Whole \ {Best} /\ \A g \in Whole' : files'[g] = files[g]
<1>1. Sound(live) /\ OpenFile(Best) /\ Best \in Checkpoint
  BY CheckpointNames DEF CInv, EvaluateBetter, Evaluation
<1>2. live' = [live EXCEPT !.best = valLoss[live.step]]
  BY DEF EvaluateBetter
<1>3. /\ live'.best = valLoss[live.step]
      /\ live'.step = live.step /\ live'.birth = live.birth /\ live'.history = live.history
  BY <1>1, <1>2, Changed
<1> QED BY <1>1, <1>3, Opened DEF EvaluateBetter, Evaluation, Finished

\* A row of the present step's evaluation: the lowest loss's once it is saved, any
\* other's at once.
LEMMA RowDoes ==
  ASSUME CInv, EvaluateWorse \/ RecordBest
  PROVE  /\ UNCHANGED <<interval, valLoss, orderly>> /\ FilesStay
         /\ \/ at' = "final" /\ live.step >= MaxSteps
            \/ at' = "train" /\ ~(live.step >= MaxSteps)
         /\ live'.step = live.step /\ live'.best = live.best /\ live'.birth = live.birth
         /\ \E row : Adds(row) /\ row.kind = "eval" /\ row.step = live.step
<1>1. Sound(live) /\ UNCHANGED <<interval, valLoss, orderly, files>>
  BY DEF CInv, EvaluateWorse, RecordBest, Evaluation
<1>2. PICK b : Record(live, Row(live, "eval", b))
  BY DEF EvaluateWorse, RecordBest
<1>3. PICK row : row = Row(live, "eval", b)
  OBVIOUS
<1>4. row.kind = "eval" /\ row.step = live.step
  BY <1>3 DEF Row
<1>5. /\ live'.history = Append(live.history, row) /\ metrics' = Append(metrics, row)
      /\ live'.step = live.step /\ live'.best = live.best /\ live'.birth = live.birth
  BY <1>1, <1>2, <1>3, Recorded
<1>6. \/ at' = "final" /\ live.step >= MaxSteps
      \/ at' = "train" /\ ~(live.step >= MaxSteps)
  BY DEF EvaluateWorse, RecordBest, Onward, Finished
<1> QED BY <1>1, <1>4, <1>5, <1>6 DEF Adds, FilesStay, Whole

-----------------------------------------------------------------------------
(* PInv is inductive.                                                      *)

\* The position and the steps, when the files stay or lose some of their number.
LEMMA PositionKept ==
  ASSUME PInv, UNCHANGED <<interval, valLoss>>,
         Whole' \subseteq Whole, \A f \in Whole' : files'[f] = files[f],
         at' \in {"off", "head", "train", "numbered", "best", "record", "final", "saving", "done"},
         at' # "off" => live'.step \in Step /\ live'.best \in 1..Infinity,
         at' = "train" => live'.step < MaxSteps,
         at' = "numbered" => live'.step \in 1..(MaxSteps - 1),
         at' \in {"final", "saving", "done"} => live'.step = MaxSteps,
         at' \in {"best", "record"} => live'.step \in Evaluated'
  PROVE  PInv'
BY DEF PInv

\* The same, when the live trainer has been written.
LEMMA PositionWritten ==
  ASSUME PInv, UNCHANGED <<interval, valLoss, live>>, at # "off",
         NEW f \in Checkpoint, Whole' = Whole \cup {f}, files'[f] = live,
         \A g \in Whole \ {f} : files'[g] = files[g],
         f = Final => live.step = MaxSteps,
         \A n \in 1..(MaxSteps - 1) : f = Numbered(n) => live.step = n,
         at' \in {"head", "record", "done"},
         at' = "done" => live.step = MaxSteps,
         at' = "record" => live.step \in Evaluated
  PROVE  PInv'
<1>1. Evaluated' = Evaluated
  BY DEF Evaluated
<1>2. \A g \in Whole' : files'[g].step \in Step /\ files'[g].best \in 1..Infinity
  BY DEF PInv
<1>3. /\ Final \in Whole' => files'[Final].step = MaxSteps
      /\ \A n \in 1..(MaxSteps - 1) : Numbered(n) \in Whole' => files'[Numbered(n)].step = n
  BY DEF PInv
<1> QED BY <1>1, <1>2, <1>3 DEF PInv

\* Before the first process nothing is anywhere.
LEMMA PInitInv == TrainerInit => PInv
  BY DEF TrainerInit, PInv, Whole, Absent

\* Every step keeps PInv.
LEMMA PStepInv == ASSUME CInv, PInv, [TrainerNext]_trainerVars PROVE PInv'
<1>0. /\ MaxSteps \in Nat \ {0} /\ Infinity \in Nat /\ Infinity >= 1
      /\ \A n \in Step : valLoss[n] \in 1..Infinity
  BY TrainConfigAssumption, TrainerBoundsAssumption DEF PInv, Losses, Infinity
<1>1. CASE StartFresh
  <2>1. live' = NewTrainer(starts + 1) /\ at' = "head" /\ UNCHANGED <<interval, valLoss, files>>
    BY <1>1 DEF StartFresh, Begin
  <2>2. live'.step = 0 /\ live'.best = Infinity
    BY <2>1 DEF NewTrainer
  <2> QED BY <1>0, <2>1, <2>2, PositionKept DEF Whole, Step
<1>2. ASSUME NEW f \in Checkpoint, Resume(f) PROVE PInv'
  <2>1. live' = files[f] /\ f \in Whole /\ at' = "head" /\ UNCHANGED <<interval, valLoss, files>>
    BY <1>2 DEF Resume, Begin, Restored
  <2>2. live'.step \in Step /\ live'.best \in 1..Infinity
    BY <2>1 DEF PInv
  <2> QED BY <2>1, <2>2, PositionKept DEF Whole
<1>3. CASE NoEvaluation
  <2>1. at = "head" /\ at' = "train" /\ UNCHANGED <<interval, valLoss, live>> /\ Whole' = Whole
        /\ \A g \in Whole' : files'[g] = files[g]
    BY <1>3 DEF NoEvaluation, Whole
  <2>2. live.step \in Step /\ live.best \in 1..Infinity
    BY <2>1 DEF PInv
  <2>3. live.step < MaxSteps
    BY <1>0, <1>3, <2>2 DEF NoEvaluation, Finished, Step
  <2> QED BY <2>1, <2>2, <2>3, PositionKept
<1>4. CASE EvaluateBetter
  <2>1. live'.step \in Step /\ live'.best \in 1..Infinity
    BY <1>0, <1>4, BetterDoes DEF PInv
  <2>2. live'.step \in Evaluated'
    BY <1>0, <1>4, <2>1, BetterDoes DEF Evaluated, Step
  <2>3. Whole' \subseteq Whole /\ \A g \in Whole' : files'[g] = files[g]
    BY <1>4, BetterDoes
  <2> QED BY <1>4, <2>1, <2>2, <2>3, BetterDoes, PositionKept
<1>5. CASE EvaluateWorse \/ RecordBest
  <2>0. at # "off"
    BY <1>5 DEF EvaluateWorse, RecordBest, Evaluation
  <2>1. live'.step \in Step /\ live'.best \in 1..Infinity
    BY <1>5, <2>0, RowDoes DEF PInv
  <2>2. Whole' \subseteq Whole /\ \A g \in Whole' : files'[g] = files[g]
    BY <1>5, RowDoes DEF FilesStay
  <2>3. /\ at' \in {"final", "train"} /\ UNCHANGED <<interval, valLoss>>
        /\ at' = "final" => live'.step = MaxSteps
        /\ at' = "train" => live'.step < MaxSteps
    BY <1>0, <1>5, <2>1, RowDoes DEF Step
  <2> QED BY <2>1, <2>2, <2>3, PositionKept
<1>6. CASE Train
  <2>1. live.step < MaxSteps /\ live.step \in Step /\ live.best \in 1..Infinity
    BY <1>6, TrainDoes DEF PInv
  <2>2. live'.step \in Step /\ live'.best \in 1..Infinity
    BY <1>0, <1>6, <2>1, TrainDoes DEF Step
  <2>3. Whole' \subseteq Whole /\ \A g \in Whole' : files'[g] = files[g]
    BY <1>6, TrainDoes DEF FilesStay
  <2>4. /\ at' \in {"head", "numbered"} /\ UNCHANGED <<interval, valLoss>>
        /\ at' = "numbered" => live'.step \in 1..(MaxSteps - 1)
    BY <1>0, <1>6, <2>1, TrainDoes DEF Step
  <2> QED BY <2>2, <2>3, <2>4, PositionKept
<1>7. CASE SaveNumbered
  <2>1. at = "numbered" /\ at' = "head" /\ UNCHANGED <<interval, valLoss, live>>
    BY <1>7 DEF SaveNumbered
  <2>2. PICK n \in 1..(MaxSteps - 1) : n = live.step
    BY <2>1 DEF PInv
  <2>3. WriteFile(Numbered(n)) /\ Numbered(n) \in Checkpoint
    BY <1>7, <2>2, CheckpointNames DEF SaveNumbered
  <2>4. /\ Whole' = Whole \cup {Numbered(n)} /\ files'[Numbered(n)] = live
        /\ \A g \in Whole \ {Numbered(n)} : files'[g] = files[g]
    BY <2>1, <2>3, Written
  <2> QED BY <2>1, <2>2, <2>3, <2>4, CheckpointNames, PositionWritten
<1>8. CASE SaveBest
  <2>1. at = "best" /\ at' = "record" /\ UNCHANGED <<interval, valLoss, live>>
    BY <1>8 DEF SaveBest
  <2>2. /\ Whole' = Whole \cup {Best} /\ files'[Best] = live
        /\ \A g \in Whole \ {Best} : files'[g] = files[g]
    BY <1>8, <2>1, CheckpointNames, Written DEF SaveBest
  <2>3. live.step \in Evaluated
    BY <2>1 DEF PInv
  <2> QED BY <2>1, <2>2, <2>3, CheckpointNames, PositionWritten
<1>9. CASE OpenFinal
  <2>1. Whole' = Whole \ {Final} /\ \A g \in Whole' : files'[g] = files[g]
    BY <1>9, CheckpointNames, Opened DEF OpenFinal
  <2> QED BY <1>9, <2>1, PositionKept DEF OpenFinal, PInv
<1>10. CASE SaveFinal
  <2>1. at = "saving" /\ at' = "done" /\ UNCHANGED <<interval, valLoss, live>>
    BY <1>10 DEF SaveFinal
  <2>2. /\ Whole' = Whole \cup {Final} /\ files'[Final] = live
        /\ \A g \in Whole \ {Final} : files'[g] = files[g]
    BY <1>10, <2>1, CheckpointNames, Written DEF SaveFinal
  <2>3. live.step = MaxSteps
    BY <2>1 DEF PInv
  <2> QED BY <2>1, <2>2, <2>3, CheckpointNames, PositionWritten
<1>11. CASE Kill
  BY <1>11, PositionKept DEF Kill, Whole
<1>12. CASE UNCHANGED trainerVars
  <2>1. Whole' = Whole /\ Evaluated' = Evaluated
    BY <1>12 DEF trainerVars, Whole, Evaluated
  <2> QED BY <1>12, <2>1 DEF trainerVars, PInv
<1> QED BY <1>1, <1>2, <1>3, <1>4, <1>5, <1>6, <1>7, <1>8, <1>9, <1>10, <1>11, <1>12
        DEF TrainerNext

-----------------------------------------------------------------------------
(* HInv is inductive.                                                      *)

\* More rows in metrics.jsonl do not make a history less complete.
LEMMA ToldKeeps ==
  ASSUME NEW t, NEW rows, NEW more, NEW every, Told(t, rows, every),
         ToSet(rows) \subseteq ToSet(more)
  PROVE  Told(t, more, every)
BY DEF Told

\* A row added to the metrics is one of them, like those before it.
LEMMA MoreRows ==
  ASSUME NEW rows, IsSeq(rows), NEW row
  PROVE  /\ IsSeq(Append(rows, row)) /\ row \in ToSet(Append(rows, row))
         /\ ToSet(rows) \subseteq ToSet(Append(rows, row))
<1>1. PICK n \in Nat : n = Len(rows) /\ DOMAIN rows = 1..n /\ DOMAIN Append(rows, row) = 1..n + 1
  BY AppendRow
<1>2. n + 1 \in DOMAIN Append(rows, row) /\ Append(rows, row)[n + 1] = row
  BY <1>1, AppendRow
<1>3. \A i \in 1..n : i \in DOMAIN Append(rows, row) /\ Append(rows, row)[i] = rows[i]
  BY <1>1, AppendRow
<1> QED BY <1>1, <1>2, <1>3, AppendRow DEF ToSet

\* The row of the present step's evaluation comes in its order.
LEMMA EvalRow ==
  ASSUME NEW t, NEW u, NEW rows, NEW every, NEW row, IsSeq(rows), t.step \in Step,
         Told(t, rows, every), Unrecorded(t), row.kind = "eval", row.step = t.step,
         u.step = t.step, u.history = Append(t.history, row)
  PROVE  /\ Told(u, Append(rows, row), every)
         /\ HasRow(u.history, "eval", u.step)
         /\ u.step = MaxSteps => Unrecorded(u)
<1>1. PICK n \in Nat, s \in Nat : n = Len(t.history) /\ s = t.step
  BY TrainConfigAssumption, AppendRow DEF Told, Step
<1>2. /\ IsSeq(u.history) /\ DOMAIN t.history = 1..n /\ DOMAIN u.history = 1..n + 1
      /\ u.history[n + 1] = row
      /\ \A i \in 1..n : u.history[i] = t.history[i]
  BY <1>1, AppendRow DEF Told
<1>3. \A i \in 1..n + 1 : i \in 1..n \/ i = n + 1
  OBVIOUS
<1>4. \A i \in 1..n + 1 : /\ u.history[i].step \in 0..s
                          /\ u.history[i].kind \in {"train", "eval"}
                          /\ u.history[i] \in ToSet(Append(rows, row))
  <2>1. \A i \in 1..n : /\ t.history[i].step \in 0..s /\ t.history[i] \in ToSet(rows)
                        /\ t.history[i].kind \in {"train", "eval"}
    BY <1>1, <1>2 DEF Told
  <2>2. row \in ToSet(Append(rows, row)) /\ ToSet(rows) \subseteq ToSet(Append(rows, row))
    BY MoreRows
  <2>3. row.step \in 0..s
    BY <1>1
  <2>4. \A i \in 1..n : t.history[i] \in ToSet(Append(rows, row))
    BY <2>1, <2>2
  <2> QED BY <1>2, <1>3, <2>1, <2>2, <2>3, <2>4
<1>5. ASSUME NEW i \in 1..n + 1, NEW j \in 1..n + 1, i < j
      PROVE  Follows(u.history[i], u.history[j])
  <2>0. i \in 1..n
    BY <1>1, <1>5
  <2>1. CASE j \in 1..n
    <3>1. Follows(t.history[i], t.history[j])
      BY <1>2, <1>5, <2>0, <2>1 DEF Told
    <3> QED BY <1>2, <2>0, <2>1, <3>1
  <2>2. CASE j = n + 1
    <3>1. PICK q : q = t.history[i] /\ q = u.history[i]
      BY <1>2, <2>0
    <3>2. q.step \in 0..s /\ (q.kind = "eval" => q.step < s \/ q.step = MaxSteps)
      BY <1>1, <1>2, <2>0, <3>1 DEF Told, Unrecorded
    <3>3. q.kind = "train" \/ q.kind = "eval"
      BY <1>2, <2>0, <3>1 DEF Told
    <3> QED BY <1>1, <1>2, <2>2, <3>1, <3>2, <3>3 DEF Follows
  <2> QED BY <1>3, <2>1, <2>2
<1>6. \A kind, m : HasRow(t.history, kind, m) => HasRow(u.history, kind, m)
  BY <1>2 DEF HasRow
<1>7. HasRow(u.history, "eval", s)
  BY <1>1, <1>2 DEF HasRow
<1>8. Told(u, Append(rows, row), every)
  BY <1>1, <1>2, <1>4, <1>5, <1>6 DEF Told
<1>9. ASSUME u.step = MaxSteps PROVE Unrecorded(u)
  <2>1. \A i \in 1..n : u.history[i].kind = "eval" =>
                           u.history[i].step < s \/ u.history[i].step = MaxSteps
    BY <1>1, <1>2 DEF Unrecorded
  <2> QED BY <1>1, <1>2, <1>3, <1>9, <2>1 DEF Unrecorded
<1> QED BY <1>1, <1>7, <1>8, <1>9

\* After a step, logged when that is due, the evaluation of the new step is not
\* recorded and every earlier one is.
LEMMA StepRow ==
  ASSUME NEW t, NEW u, NEW rows, NEW more, NEW every, IsSeq(rows), t.step \in Nat,
         Told(t, rows, every), u.step = t.step + 1,
         Due(every.eval, t.step) => HasRow(t.history, "eval", t.step),
         \/ Due(every.log, t.step + 1) /\ \E row : /\ u.history = Append(t.history, row)
                                                   /\ more = Append(rows, row)
                                                   /\ row.kind = "train"
                                                   /\ row.step = t.step + 1
         \/ ~Due(every.log, t.step + 1) /\ u.history = t.history /\ more = rows
  PROVE  Told(u, more, every) /\ Unrecorded(u)
<1>1. PICK n \in Nat, s \in Nat : n = Len(t.history) /\ s = t.step
  BY AppendRow DEF Told
<1>2. DOMAIN t.history = 1..n /\ IsSeq(t.history)
  BY <1>1, AppendRow DEF Told
<1>3. \A i \in 1..n : /\ t.history[i].step \in 0..s /\ t.history[i] \in ToSet(rows)
                      /\ t.history[i].kind \in {"train", "eval"}
  BY <1>1, <1>2 DEF Told
<1>4. \A i, j \in 1..n : i < j => Follows(t.history[i], t.history[j])
  BY <1>2 DEF Told
<1>5. \A m \in 0..s : Due(every.eval, m) => HasRow(t.history, "eval", m)
  <2>1. \A m \in 0..s : m \in 0..(s - 1) \/ m = s
    OBVIOUS
  <2> QED BY <1>1, <2>1 DEF Told
<1>6. \A m \in 1..s : Due(every.log, m) => HasRow(t.history, "train", m)
  BY <1>1 DEF Told
<1>7. \A m \in 1..s + 1 : m \in 1..s \/ m = s + 1
  OBVIOUS
<1>8. CASE ~Due(every.log, t.step + 1) /\ u.history = t.history /\ more = rows
  <2>1. Told(u, more, every)
    <3>1. \A i \in DOMAIN u.history : u.history[i].step \in 0..u.step
      BY <1>1, <1>2, <1>3, <1>8
    <3>2. \A m \in 1..u.step : Due(every.log, m) => HasRow(u.history, "train", m)
      BY <1>1, <1>6, <1>7, <1>8
    <3>3. (s + 1) - 1 = s
      OBVIOUS
    <3> QED BY <1>1, <1>2, <1>3, <1>4, <1>5, <1>8, <3>1, <3>2, <3>3 DEF Told
  <2>2. Unrecorded(u)
    BY <1>1, <1>2, <1>3, <1>8 DEF Unrecorded
  <2> QED BY <2>1, <2>2
<1>9. ASSUME Due(every.log, t.step + 1),
             NEW row, u.history = Append(t.history, row), more = Append(rows, row),
             row.kind = "train", row.step = t.step + 1
      PROVE  Told(u, more, every) /\ Unrecorded(u)
  <2>0. \A i \in 1..n + 1 : i \in 1..n \/ i = n + 1
    OBVIOUS
  <2>1. /\ IsSeq(u.history) /\ DOMAIN u.history = 1..n + 1 /\ u.history[n + 1] = row
        /\ \A i \in 1..n : u.history[i] = t.history[i]
    BY <1>1, <1>2, <1>9, AppendRow
  <2>2. row \in ToSet(more) /\ ToSet(rows) \subseteq ToSet(more)
    BY <1>9, MoreRows
  <2>3. \A i \in 1..n + 1 : /\ u.history[i].step \in 0..s + 1
                            /\ u.history[i].kind \in {"train", "eval"}
                            /\ u.history[i] \in ToSet(more)
    <3>1. \A i \in 1..n : t.history[i] \in ToSet(more)
      BY <1>3, <2>2
    <3>2. \A i \in 1..n : t.history[i].step \in 0..s + 1
      BY <1>3
    <3>3. row.step \in 0..s + 1
      BY <1>1, <1>9
    <3> QED BY <1>3, <1>9, <2>0, <2>1, <2>2, <3>1, <3>2, <3>3
  <2>4. ASSUME NEW i \in 1..n + 1, NEW j \in 1..n + 1, i < j
        PROVE  Follows(u.history[i], u.history[j])
    <3>0. i \in 1..n
      BY <1>1, <2>4
    <3>1. CASE j \in 1..n
      BY <1>4, <2>1, <2>4, <3>0, <3>1
    <3>2. CASE j = n + 1
      <4>1. PICK q : q = t.history[i] /\ q = u.history[i]
        BY <2>1, <3>0
      <4>2. q.step \in 0..s
        BY <1>3, <3>0, <4>1
      <4> QED BY <1>1, <1>9, <2>1, <3>2, <4>1, <4>2 DEF Follows
    <3> QED BY <2>0, <3>1, <3>2
  <2>5. \A kind, m : HasRow(t.history, kind, m) => HasRow(u.history, kind, m)
    BY <1>2, <2>1 DEF HasRow
  <2>6. HasRow(u.history, "train", s + 1)
    BY <1>1, <1>9, <2>1 DEF HasRow
  <2>7. (s + 1) - 1 = s
    OBVIOUS
  <2>8. Told(u, more, every)
    BY <1>1, <1>5, <1>6, <1>7, <2>1, <2>3, <2>4, <2>5, <2>6, <2>7 DEF Told
  <2>9. Unrecorded(u)
    <3>1. \A i \in 1..n : u.history[i].step < s + 1
      BY <1>3, <2>1
    <3> QED BY <1>1, <1>9, <2>0, <2>1, <3>1 DEF Unrecorded
  <2> QED BY <2>8, <2>9
<1> QED BY <1>8, <1>9

\* Before the first process there is no history.
LEMMA HInitInv == TrainerInit => HInv
<1>1. <<>> \in Seq({})
  OBVIOUS
<1> QED BY <1>1 DEF TrainerInit, HInv, Whole, Absent, IsSeq

\* The files' histories stay told while metrics.jsonl grows and checkpoints are opened.
LEMMA FilesTold ==
  ASSUME HInv, interval' = interval, ToSet(metrics) \subseteq ToSet(metrics'),
         Whole' \subseteq Whole, \A f \in Whole' : files'[f] = files[f]
  PROVE  \A f \in Whole' : Told(files'[f], metrics', interval') /\ Unrecorded(files'[f])
<1> SUFFICES ASSUME NEW f \in Whole'
             PROVE  Told(files'[f], metrics', interval') /\ Unrecorded(files'[f])
  OBVIOUS
<1>1. Told(files[f], metrics, interval) /\ Unrecorded(files[f])
  BY DEF HInv
<1>2. Told(files[f], metrics', interval)
  BY <1>1, ToldKeeps
<1> QED BY <1>1, <1>2

\* Every step keeps HInv.
LEMMA HStepInv == ASSUME CInv, PInv, HInv, [TrainerNext]_trainerVars PROVE HInv'
<1>1. CASE StartFresh
  <2>1. live' = NewTrainer(starts + 1) /\ at' = "head" /\ UNCHANGED <<interval, files, metrics>>
    BY <1>1 DEF StartFresh, Begin
  <2>2. live'.step = 0 /\ live'.history = <<>>
    BY <2>1 DEF NewTrainer
  <2>3. IsSeq(<<>>)
    <3>1. <<>> \in Seq({})
      OBVIOUS
    <3> QED BY <3>1 DEF IsSeq
  <2>4. Told(live', metrics', interval') /\ Unrecorded(live')
    BY <2>2, <2>3 DEF Told, Unrecorded
  <2> QED BY <2>1, <2>4 DEF HInv, Whole
<1>2. ASSUME NEW f \in Checkpoint, Resume(f) PROVE HInv'
  <2>1. live' = files[f] /\ f \in Whole /\ at' = "head" /\ UNCHANGED <<interval, files, metrics>>
    BY <1>2 DEF Resume, Begin, Restored
  <2>2. Told(live', metrics', interval') /\ Unrecorded(live')
    BY <2>1 DEF HInv
  <2> QED BY <2>1, <2>2 DEF HInv, Whole
<1>3. CASE NoEvaluation
  BY <1>3 DEF NoEvaluation, HInv, Whole
<1>4. CASE EvaluateBetter
  <2>1. /\ at = "head" /\ at' = "best" /\ UNCHANGED <<interval, metrics>>
        /\ live'.step = live.step /\ live'.history = live.history
        /\ Whole' \subseteq Whole /\ \A g \in Whole' : files'[g] = files[g]
    BY <1>4, BetterDoes
  <2>2. Told(live, metrics, interval) /\ Unrecorded(live)
    BY <2>1 DEF HInv
  <2>3. Told(live', metrics', interval') /\ Unrecorded(live')
    BY <2>1, <2>2 DEF Told, Unrecorded
  <2>4. \A f \in Whole' : Told(files'[f], metrics', interval') /\ Unrecorded(files'[f])
    BY <2>1, FilesTold
  <2> QED BY <2>1, <2>3, <2>4 DEF HInv
<1>5. CASE EvaluateWorse \/ RecordBest
  <2>0. at \in {"head", "record"} /\ live.step \in Step
    BY <1>5 DEF EvaluateWorse, RecordBest, Evaluation, PInv
  <2>1. PICK row : Adds(row) /\ row.kind = "eval" /\ row.step = live.step
    BY <1>5, RowDoes
  <2>2. /\ UNCHANGED interval /\ live'.step = live.step
        /\ live'.history = Append(live.history, row) /\ metrics' = Append(metrics, row)
        /\ Whole' \subseteq Whole /\ \A g \in Whole' : files'[g] = files[g]
    BY <1>5, <2>1, RowDoes DEF FilesStay, Adds
  <2>3. \/ at' = "final" /\ live'.step = MaxSteps
        \/ at' = "train"
    BY <1>5, <2>0, <2>2, RowDoes, TrainConfigAssumption DEF Step
  <2>4. Told(live, metrics, interval) /\ Unrecorded(live) /\ IsSeq(metrics)
    BY <2>0 DEF HInv
  <2>5. /\ Told(live', metrics', interval')
        /\ HasRow(live'.history, "eval", live'.step)
        /\ live'.step = MaxSteps => Unrecorded(live')
    BY <2>0, <2>1, <2>2, <2>4, EvalRow
  <2>6. IsSeq(metrics') /\ ToSet(metrics) \subseteq ToSet(metrics')
    BY <2>2, <2>4, MoreRows
  <2>7. \A f \in Whole' : Told(files'[f], metrics', interval') /\ Unrecorded(files'[f])
    BY <2>2, <2>6, FilesTold
  <2> QED BY <2>3, <2>5, <2>6, <2>7 DEF HInv
<1>6. CASE Train
  <2>1. at = "train" /\ live.step \in Nat /\ at' \in {"head", "numbered"}
    BY <1>6, TrainDoes, TrainConfigAssumption DEF PInv, Step
  <2>2. /\ Told(live, metrics, interval) /\ IsSeq(metrics)
        /\ Due(interval.eval, live.step) => HasRow(live.history, "eval", live.step)
    BY <2>1 DEF HInv
  <2>3. /\ UNCHANGED interval /\ live'.step = live.step + 1
        /\ \/ /\ Due(interval.log, live.step + 1)
              /\ \E row : /\ live'.history = Append(live.history, row)
                          /\ metrics' = Append(metrics, row)
                          /\ row.kind = "train"
                          /\ row.step = live.step + 1
           \/ /\ ~Due(interval.log, live.step + 1)
              /\ live'.history = live.history /\ metrics' = metrics
    BY <1>6, TrainDoes DEF Adds
  <2>4. Told(live', metrics', interval) /\ Unrecorded(live')
    BY <2>1, <2>2, <2>3, StepRow
  <2>5. IsSeq(metrics') /\ ToSet(metrics) \subseteq ToSet(metrics')
    BY <2>2, <2>3, MoreRows
  <2>6. Whole' \subseteq Whole /\ \A g \in Whole' : files'[g] = files[g]
    BY <1>6, TrainDoes DEF FilesStay
  <2>7. \A f \in Whole' : Told(files'[f], metrics', interval') /\ Unrecorded(files'[f])
    BY <2>3, <2>5, <2>6, FilesTold
  <2> QED BY <2>1, <2>3, <2>4, <2>5, <2>7 DEF HInv
<1>7. ASSUME NEW f \in Checkpoint, WriteFile(f), at \in {"numbered", "best", "saving"},
             at' \in {"head", "record", "done"}, UNCHANGED <<interval, live, metrics>>
      PROVE  HInv'
  <2>1. /\ Whole' = Whole \cup {f} /\ files'[f] = live
        /\ \A g \in Whole \ {f} : files'[g] = files[g]
    BY <1>7, Written
  <2>2. Told(live, metrics, interval) /\ Unrecorded(live)
    BY <1>7 DEF HInv
  <2>3. \A g \in Whole' : Told(files'[g], metrics', interval') /\ Unrecorded(files'[g])
    BY <1>7, <2>1, <2>2 DEF HInv
  <2> QED BY <1>7, <2>2, <2>3 DEF HInv
<1>8. CASE SaveNumbered
  <2>1. PICK n \in 1..(MaxSteps - 1) : n = live.step
    BY <1>8 DEF SaveNumbered, PInv
  <2> QED BY <1>7, <1>8, <2>1, CheckpointNames DEF SaveNumbered
<1>9. CASE SaveBest \/ SaveFinal
  BY <1>7, <1>9, CheckpointNames DEF SaveBest, SaveFinal
<1>10. CASE OpenFinal
  <2>1. Whole' = Whole \ {Final} /\ \A g \in Whole' : files'[g] = files[g]
    BY <1>10, CheckpointNames, Opened DEF OpenFinal
  <2> QED BY <1>10, <2>1 DEF OpenFinal, HInv
<1>11. CASE Kill
  BY <1>11 DEF Kill, HInv, Whole
<1>12. CASE UNCHANGED trainerVars
  BY <1>12 DEF trainerVars, HInv, Whole
<1> QED BY <1>1, <1>2, <1>3, <1>4, <1>5, <1>6, <1>8, <1>9, <1>10, <1>11, <1>12
        DEF TrainerNext

-----------------------------------------------------------------------------
(* BInv is inductive.                                                      *)

\* Evaluations are of possible steps, the last always among them, and their losses
\* are below the initial best.
LEMMA Losing ==
  ASSUME PInv
  PROVE  /\ Evaluated \subseteq Nat /\ MaxSteps \in Evaluated
         /\ \A n \in Evaluated : n <= MaxSteps /\ valLoss[n] \in Nat /\ valLoss[n] < Infinity
         /\ MaxSteps \in Nat \ {0} /\ Infinity \in Nat
BY TrainConfigAssumption, TrainerBoundsAssumption DEF PInv, Evaluated, Step, Losses, Infinity

\* While the schedule stays, so do the evaluations.
LEMMA SameEvaluations == ASSUME UNCHANGED interval PROVE Evaluated' = Evaluated
BY DEF Evaluated

\* The files' part, when they stay or lose some other than ckpt_best.
LEMMA FilesKeptBest ==
  ASSUME BFiles, UNCHANGED <<interval, valLoss>>, Whole' \subseteq Whole,
         \A f \in Whole' : files'[f] = files[f], Best \in Whole => Best \in Whole'
  PROVE  BFiles'
<1>1. Evaluated' = Evaluated
  BY SameEvaluations
<1>2. \A f \in Whole' \ {Best} : Kept(files[f])
  BY DEF BFiles
<1>3. ASSUME NEW f \in Whole' \ {Best} PROVE Kept(files[f])'
  BY <1>1, <1>2, <1>3 DEF Kept
<1>4. Best \in Whole' => FirstLowest(files[Best])'
  BY <1>1 DEF FirstLowest, BFiles
<1>5. Final \in Whole' => Lowest(files[Final], MaxSteps + 1)'
  BY <1>1 DEF Lowest, BFiles
<1>6. \A n \in 1..(MaxSteps - 1) : Numbered(n) \in Whole' => Lowest(files[Numbered(n)], n)'
  BY <1>1 DEF Lowest, BFiles
<1>7. \A f, g \in Whole' : files'[f].birth = files'[g].birth
  BY DEF BFiles
<1> QED BY <1>3, <1>4, <1>5, <1>6, <1>7 DEF BFiles

\* The live trainer's part, when neither it nor the files change.
LEMMA LiveMoves ==
  ASSUME BLive, UNCHANGED <<interval, valLoss>>, FilesStay,
         live'.step = live.step, live'.best = live.best, live'.birth = live.birth,
         at # "best",
         at' \notin {"best", "record", "numbered", "head"},
         at = "head" => \A n \in Evaluated : n <= live.step => live.best <= valLoss[n],
         at # "numbered"
  PROVE  BLive'
<1>1. Evaluated' = Evaluated
  BY SameEvaluations
<1>2. Kept(live)'
  BY <1>1 DEF Kept, FilesStay, BLive
<1> QED BY <1>1, <1>2 DEF BLive, FilesStay

\* A fresh start, with no whole checkpoint: the first evaluation is still to come.
LEMMA BFresh == ASSUME PInv, BInv, StartFresh, orderly' PROVE BInv'
<1>1. /\ Whole = {} /\ Whole' = {} /\ UNCHANGED <<interval, valLoss>> /\ at' = "head"
      /\ live' = NewTrainer(starts + 1)
  BY DEF StartFresh, Begin, Whole
<1>2. live'.step = 0 /\ live'.best = Infinity
  BY <1>1 DEF NewTrainer
<1>3. Evaluated' = Evaluated
  BY <1>1, SameEvaluations
<1>4. Kept(live)'
  BY <1>1, <1>2, <1>3, Losing DEF Kept
<1>5. BFiles'
  BY <1>1 DEF BFiles
<1>6. BLive'
  BY <1>1, <1>2, <1>3, <1>4, Losing DEF BLive
<1> QED BY <1>5, <1>6 DEF BInv

\* The newest checkpoint resumed: of the same birth as the others, no older than any,
\* and if there is a final one the loss is the lowest of all.
LEMMA BResume ==
  ASSUME PInv, BInv, NEW f \in Checkpoint, Resume(f), orderly' PROVE BInv'
<1>1. /\ f \in Whole /\ Whole' = Whole /\ files' = files /\ live' = files[f] /\ at' = "head"
      /\ UNCHANGED <<interval, valLoss>> /\ orderly
      /\ \A g \in Whole : files[g].step <= files[f].step
  BY DEF Resume, Begin, Restored, Whole
<1>2. BFiles /\ BFiles'
  BY <1>1, FilesKeptBest DEF BInv
<1>3. Evaluated' = Evaluated
  BY <1>1, SameEvaluations
<1>4. Kept(files[f])
  BY <1>1, <1>2 DEF BFiles, Kept
<1>5. Kept(live)'
  BY <1>1, <1>3, <1>4 DEF Kept
<1>6. \A g \in Whole : files[g].birth = files[f].birth
  BY <1>1, <1>2 DEF BFiles
<1>7. files[f].step \in Nat /\ files[f].best \in Nat /\ files[f].step <= MaxSteps
  BY <1>1, Losing DEF PInv, Step
<1>8. /\ \A n \in Evaluated : n < files[f].step => files[f].best <= valLoss[n]
      /\ \/ files[f].best = Infinity
         \/ \E n \in Evaluated : n <= files[f].step /\ files[f].best = valLoss[n]
      /\ Final \in Whole => \A n \in Evaluated : n <= files[f].step => files[f].best <= valLoss[n]
  <2>1. CASE f = Best
    <3>1. FirstLowest(files[f])
      BY <1>1, <1>2, <2>1 DEF BFiles
    <3>2. \A n \in Evaluated : n <= files[f].step => n < files[f].step \/ n = files[f].step
      BY <1>7, Losing
    <3>3. \A n \in Evaluated : n < files[f].step => files[f].best <= valLoss[n]
      BY <1>7, <3>1, Losing DEF FirstLowest
    <3> QED BY <1>7, <3>1, <3>2, <3>3, Losing DEF FirstLowest
  <2>2. CASE f = Final
    <3>1. Lowest(files[f], MaxSteps + 1) /\ files[f].step = MaxSteps
      BY <1>1, <1>2, <2>2 DEF BFiles, PInv
    <3>2. \A n \in Evaluated : n < MaxSteps + 1 /\ n <= MaxSteps
      BY Losing
    <3> QED BY <1>7, <3>1, <3>2 DEF Lowest
  <2>3. ASSUME NEW n \in 1..(MaxSteps - 1), f = Numbered(n)
        PROVE  /\ Final \notin Whole
               /\ \A m \in Evaluated : m < files[f].step => files[f].best <= valLoss[m]
               /\ \/ files[f].best = Infinity
                  \/ \E m \in Evaluated : m <= files[f].step /\ files[f].best = valLoss[m]
    <3>1. Lowest(files[f], n) /\ files[f].step = n
      BY <1>1, <1>2, <2>3 DEF BFiles, PInv
    <3>2. Final \notin Whole
      BY <1>1, <2>3, <3>1, Losing DEF PInv
    <3>3. \A m \in Evaluated : m < n => m <= n
      BY Losing
    <3> QED BY <3>1, <3>2, <3>3 DEF Lowest
  <2> QED BY <1>1, <2>1, <2>2, <2>3, CheckpointNames
<1>9. BLive'
  BY <1>1, <1>3, <1>5, <1>6, <1>8 DEF BLive
<1> QED BY <1>2, <1>9 DEF BInv

\* A better evaluation tears ckpt_best: every other checkpoint has a lower loss to come.
LEMMA BBetter == ASSUME CInv, PInv, BInv, EvaluateBetter, orderly' PROVE BInv'
<1>1. /\ at = "head" /\ at' = "best" /\ UNCHANGED <<interval, valLoss>> /\ orderly
      /\ live.step >= MaxSteps \/ Due(interval.eval, live.step)
      /\ valLoss[live.step] < live.best /\ live'.best = valLoss[live.step]
      /\ live'.step = live.step /\ live'.birth = live.birth
      /\ Whole' = Whole \ {Best} /\ \A g \in Whole' : files'[g] = files[g]
  BY BetterDoes
<1>2. BFiles /\ BLive
  BY <1>1 DEF BInv
<1>3. Evaluated' = Evaluated
  BY <1>1, SameEvaluations
<1>4. PICK s \in Nat : s = live.step
  BY <1>1 DEF PInv, Step
<1>5. s \in Evaluated /\ s <= MaxSteps
  BY <1>1, <1>4, Losing DEF PInv, Step, Evaluated
<1>6. \A n \in Evaluated : n < s => valLoss[s] < valLoss[n]
  <2>1. \A n \in Evaluated : n < s => live.best <= valLoss[n]
    BY <1>2, <1>4 DEF BLive
  <2>2. live.best \in Nat
    BY <1>1, Losing DEF PInv
  <2> QED BY <1>1, <1>4, <1>5, <2>1, <2>2, Losing
<1>7. Final \notin Whole
  <2>1. ASSUME Final \in Whole PROVE live.best <= valLoss[s]
    BY <1>2, <1>4, <1>5, <2>1 DEF BLive
  <2>2. live.best \in Nat
    BY <1>1, Losing DEF PInv
  <2> QED BY <1>1, <1>4, <1>5, <2>1, <2>2, Losing
<1>8. ASSUME NEW f \in Whole \ {Best} PROVE files[f].step <= s /\ valLoss[s] < files[f].best
  <2>1. PICK n \in 1..(MaxSteps - 1) : f = Numbered(n)
    BY <1>7, CheckpointNames DEF Whole
  <2>2. Lowest(files[f], n) /\ files[f].step = n /\ n <= s
    BY <1>2, <1>4, <2>1 DEF BFiles, BLive, PInv
  <2>3. CASE files[f].best = Infinity
    BY <1>2, <1>4, <1>5, <2>2, <2>3, Losing
  <2>4. ASSUME NEW m \in Evaluated, m < n, files[f].best = valLoss[m]
        PROVE  valLoss[s] < files[f].best
    <3>1. m < s
      BY <1>4, <2>2, <2>4, Losing
    <3> QED BY <1>6, <2>4, <3>1
  <2> QED BY <2>2, <2>3, <2>4 DEF Lowest
<1>9. BFiles'
  <2>1. ASSUME NEW f \in Whole' \ {Best} PROVE Kept(files[f])'
    <3>1. files'[f].step <= s /\ valLoss'[s] < files'[f].best
      BY <1>1, <1>8
    <3>2. files'[f].step \in Nat
      BY <1>1 DEF PInv, Step
    <3> QED BY <1>3, <1>5, <3>1, <3>2 DEF Kept
  <2>2. \A n \in 1..(MaxSteps - 1) : Numbered(n) \in Whole' => Lowest(files[Numbered(n)], n)'
    BY <1>1, <1>2, <1>3 DEF Lowest, BFiles
  <2>3. Best \notin Whole' /\ Final \notin Whole'
    BY <1>1, <1>7
  <2>4. \A f, g \in Whole' : files'[f].birth = files'[g].birth
    BY <1>1, <1>2 DEF BFiles
  <2> QED BY <2>1, <2>2, <2>3, <2>4 DEF BFiles
<1>10. BLive'
  <2>1. FirstLowest(live)' /\ Best \notin Whole'
    BY <1>1, <1>3, <1>4, <1>5, <1>6 DEF FirstLowest
  <2>2. \A n \in Evaluated : n <= s => valLoss[s] <= valLoss[n]
    <3>1. \A n \in Evaluated : n <= s => n < s \/ n = s
      BY Losing
    <3>2. \A n \in Evaluated : valLoss[n] \in Nat
      BY Losing
    <3> QED BY <1>5, <1>6, <3>1, <3>2
  <2>3. \A n \in Evaluated : n < s => n <= s
    BY Losing
  <2>4. \A f \in Whole' : files'[f].birth = live'.birth /\ files'[f].step <= live'.step
    BY <1>1, <1>2 DEF BLive
  <2>5. \E n \in Evaluated' : n <= live'.step /\ live'.best = valLoss'[n]
    BY <1>1, <1>3, <1>4, <1>5
  <2> QED BY <1>1, <1>3, <1>4, <2>1, <2>2, <2>3, <2>4, <2>5 DEF BLive
<1> QED BY <1>1, <1>9, <1>10 DEF BInv

\* A worse evaluation, the row of a better one, or none: nothing lower was passed by.
LEMMA BPassed ==
  ASSUME CInv, PInv, BInv, EvaluateWorse \/ RecordBest \/ NoEvaluation, orderly' PROVE BInv'
<1>1. /\ at \in {"head", "record"} /\ at' \in {"final", "train"}
      /\ UNCHANGED <<interval, valLoss>> /\ orderly /\ FilesStay
      /\ live'.step = live.step /\ live'.best = live.best /\ live'.birth = live.birth
  <2>1. CASE NoEvaluation
    BY <2>1 DEF NoEvaluation, FilesStay, Whole
  <2>2. CASE EvaluateWorse \/ RecordBest
    BY <2>2, RowDoes DEF EvaluateWorse, RecordBest, Evaluation
  <2> QED BY <2>1, <2>2
<1>2. BFiles /\ BLive
  BY <1>1 DEF BInv
<1>3. BFiles'
  BY <1>1, <1>2, FilesKeptBest DEF FilesStay
<1>4. PICK s \in Nat : s = live.step
  BY <1>1 DEF PInv, Step
<1>5. live.best \in Nat /\ s <= MaxSteps
  BY <1>1, <1>4, Losing DEF PInv, Step
<1>6. ASSUME at = "head", NEW n \in Evaluated, n <= s PROVE live.best <= valLoss[n]
  <2>0. n < s \/ n = s
    BY <1>4, <1>6, Losing
  <2>1. CASE n < s
    BY <1>2, <1>4, <2>1 DEF BLive
  <2>2. CASE n = s
    <3>1. CASE EvaluateWorse
      BY <1>4, <1>5, <2>2, <3>1, Losing DEF EvaluateWorse
    <3>2. CASE NoEvaluation
      BY <1>4, <1>5, <2>2, <3>2, Losing DEF NoEvaluation, Finished, Evaluated
    <3>3. CASE RecordBest
      BY <1>6, <3>3 DEF RecordBest
    <3> QED BY <3>1, <3>2, <3>3
  <2> QED BY <2>0, <2>1, <2>2
<1>7. BLive'
  BY <1>1, <1>2, <1>4, <1>6, LiveMoves
<1> QED BY <1>3, <1>7 DEF BInv

\* A training step: a lower loss to come is of a later step.
LEMMA BTrain == ASSUME CInv, PInv, BInv, Train, orderly' PROVE BInv'
<1>1. /\ at = "train" /\ at' \in {"head", "numbered"} /\ UNCHANGED <<interval, valLoss>>
      /\ orderly
      /\ live'.step = live.step + 1 /\ live'.best = live.best /\ live'.birth = live.birth
  BY TrainDoes
<1>2. PICK s \in Nat : s = live.step /\ s < MaxSteps /\ live.best \in Nat
  BY <1>1, Losing DEF PInv, Step
<1>3. /\ Whole' \subseteq Whole /\ \A g \in Whole' : files'[g] = files[g]
      /\ Best \in Whole => Best \in Whole'
  <2>1. CASE FilesStay
    BY <2>1 DEF FilesStay
  <2>2. CASE /\ live.step + 1 < MaxSteps /\ Whole' = Whole \ {Numbered(live.step + 1)}
             /\ \A g \in Whole' : files'[g] = files[g]
    <3>1. s + 1 \in 1..(MaxSteps - 1)
      BY <1>2, <2>2, Losing
    <3> QED BY <1>2, <2>2, <3>1, CheckpointNames
  <2> QED BY <2>1, <2>2, TrainDoes
<1>4. BFiles /\ BLive
  BY <1>1 DEF BInv
<1>5. BFiles'
  BY <1>1, <1>3, <1>4, FilesKeptBest
<1>6. Evaluated' = Evaluated
  BY <1>1, SameEvaluations
<1>7. \A n \in Evaluated : n < s + 1 => n <= s /\ live.best <= valLoss[n]
  <2>1. \A n \in Evaluated : n <= s => live.best <= valLoss[n]
    BY <1>1, <1>2, <1>4 DEF BLive
  <2> QED BY <2>1, Losing
<1>8. Kept(live)'
  <2>1. CASE Best \in Whole /\ files[Best].best = live.best
    BY <1>1, <1>3, <2>1 DEF Kept
  <2>2. ASSUME NEW p \in Evaluated, p >= s, valLoss[p] < live.best PROVE Kept(live)'
    <3>1. p >= s + 1
      BY <1>2, <1>7, <2>2, Losing
    <3> QED BY <1>1, <1>2, <1>6, <2>2, <3>1 DEF Kept
  <2> QED BY <1>1, <1>2, <1>4, <2>1, <2>2 DEF BLive, Kept
<1>9. live.best = Infinity \/ \E n \in Evaluated : n < s + 1 /\ live.best = valLoss[n]
  <2>1. \A n \in Evaluated : n <= s => n < s + 1
    BY Losing
  <2> QED BY <1>2, <1>4, <2>1 DEF BLive
<1>10. Lowest(live, live.step)'
  BY <1>1, <1>2, <1>6, <1>7, <1>9 DEF Lowest
<1>11. Final \notin Whole'
  BY <1>2, <1>3, <1>4, Losing DEF BLive, PInv
<1>12. \A f \in Whole' : files'[f].birth = live'.birth /\ files'[f].step <= live'.step
  <2>1. \A f \in Whole : files[f].birth = live.birth /\ files[f].step <= s /\ files[f].step \in Nat
    BY <1>2, <1>4 DEF BLive, PInv, Step
  <2>2. \A f \in Whole : files[f].step <= s + 1
    BY <2>1
  <2> QED BY <1>1, <1>2, <1>3, <2>1, <2>2
<1>13. live'.best = Infinity \/ \E n \in Evaluated' : n <= live'.step /\ live'.best = valLoss'[n]
  <2>1. \A n \in Evaluated : n < s + 1 => n <= s + 1
    BY Losing
  <2> QED BY <1>1, <1>2, <1>6, <1>9, <2>1
<1>14. BLive'
  BY <1>1, <1>2, <1>6, <1>7, <1>8, <1>10, <1>11, <1>12, <1>13 DEF BLive
<1> QED BY <1>5, <1>14 DEF BInv

\* A checkpoint written is one of the live trainer.
LEMMA BSave ==
  ASSUME CInv, PInv, BInv, SaveNumbered \/ SaveBest \/ SaveFinal, orderly' PROVE BInv'
<1>1. /\ at \in {"numbered", "best", "saving"} /\ orderly
      /\ UNCHANGED <<interval, valLoss, live>>
      /\ at = "numbered" => at' = "head"
      /\ at = "best" => at' = "record"
      /\ at = "saving" => at' = "done"
  BY DEF SaveNumbered, SaveBest, SaveFinal
<1>2. PICK f \in Checkpoint :
         /\ WriteFile(f)
         /\ at = "numbered" => live.step \in 1..(MaxSteps - 1) /\ f = Numbered(live.step)
         /\ at = "best" => f = Best
         /\ at = "saving" => f = Final
  <2>1. CASE SaveNumbered
    <3>1. live.step \in 1..(MaxSteps - 1)
      BY <2>1 DEF SaveNumbered, PInv
    <3> QED BY <2>1, <3>1, CheckpointNames DEF SaveNumbered
  <2>2. CASE SaveBest \/ SaveFinal
    BY <2>2, CheckpointNames DEF SaveBest, SaveFinal
  <2> QED BY <2>1, <2>2
<1>3. /\ Whole' = Whole \cup {f} /\ files'[f] = live
      /\ \A g \in Whole \ {f} : files'[g] = files[g]
  BY <1>1, <1>2, Written
<1>4. BFiles /\ BLive
  BY <1>1 DEF BInv
<1>5. Evaluated' = Evaluated
  BY <1>1, SameEvaluations
<1>6. PICK s \in Nat : s = live.step /\ live.best \in Nat /\ s <= MaxSteps
  BY <1>1, Losing DEF PInv, Step
<1>7. f = Best => at = "best" /\ Best \notin Whole /\ FirstLowest(live)
  BY <1>1, <1>2, <1>4, CheckpointNames DEF BLive
<1>8. \A t : (f # Best /\ Kept(t)) =>
               \/ Best \in Whole' /\ files'[Best].best = t.best
               \/ \E p \in Evaluated : p >= t.step /\ valLoss[p] < t.best
  BY <1>3 DEF Kept
<1>9. ASSUME NEW g \in Whole' \ {Best} PROVE Kept(files[g])'
  <2>1. CASE f = Best
    <3>1. Kept(files[g]) /\ files'[g] = files[g]
      BY <1>3, <1>4, <1>9, <2>1 DEF BFiles
    <3> QED BY <1>1, <1>5, <1>7, <2>1, <3>1 DEF Kept
  <2>2. CASE f # Best /\ g = f
    <3>1. Kept(live)
      BY <1>1, <1>2, <1>4, <2>2 DEF BLive
    <3> QED BY <1>1, <1>3, <1>5, <1>8, <2>2, <3>1 DEF Kept
  <2>3. CASE f # Best /\ g # f
    <3>1. Kept(files[g]) /\ files'[g] = files[g]
      BY <1>3, <1>4, <1>9, <2>3 DEF BFiles
    <3> QED BY <1>1, <1>5, <1>8, <2>3, <3>1 DEF Kept
  <2> QED BY <2>1, <2>2, <2>3
<1>10. Best \in Whole' => FirstLowest(files[Best])'
  BY <1>1, <1>3, <1>4, <1>5, <1>7 DEF FirstLowest, BFiles
<1>11. ASSUME Final \in Whole' PROVE Lowest(files[Final], MaxSteps + 1)'
  <2>1. CASE f = Final
    <3>1. at = "saving" /\ s = MaxSteps
      BY <1>1, <1>2, <1>6, <2>1, CheckpointNames DEF PInv
    <3>2. /\ \A n \in Evaluated : live.best <= valLoss[n]
          /\ live.best = Infinity \/ \E n \in Evaluated : live.best = valLoss[n]
      BY <1>4, <1>6, <3>1, Losing DEF BLive
    <3>3. \A n \in Evaluated : n < MaxSteps + 1
      BY Losing
    <3> QED BY <1>1, <1>3, <1>5, <2>1, <3>2, <3>3 DEF Lowest
  <2>2. CASE f # Final
    <3>1. Final \in Whole /\ files'[Final] = files[Final]
      BY <1>3, <1>11, <2>2
    <3> QED BY <1>1, <1>4, <1>5, <3>1 DEF Lowest, BFiles
  <2> QED BY <2>1, <2>2
<1>12. ASSUME NEW n \in 1..(MaxSteps - 1), Numbered(n) \in Whole'
       PROVE  Lowest(files[Numbered(n)], n)'
  <2>1. CASE f = Numbered(n)
    <3>1. at = "numbered" /\ s = n
      BY <1>1, <1>2, <1>6, <2>1, CheckpointNames
    <3>2. Lowest(live, n)
      BY <1>4, <1>6, <3>1 DEF BLive
    <3> QED BY <1>1, <1>3, <1>5, <2>1, <3>2 DEF Lowest
  <2>2. CASE f # Numbered(n)
    <3>1. Numbered(n) \in Whole /\ files'[Numbered(n)] = files[Numbered(n)]
      BY <1>3, <1>12, <2>2
    <3> QED BY <1>1, <1>4, <1>5, <3>1 DEF Lowest, BFiles
  <2> QED BY <2>1, <2>2
<1>13. \A g \in Whole' : files'[g].birth = live.birth /\ files'[g].step <= live.step
  BY <1>3, <1>4, <1>6 DEF BLive
<1>14. BFiles'
  BY <1>9, <1>10, <1>11, <1>12, <1>13 DEF BFiles
<1>15. BLive'
  <2>1. Kept(live)'
    <3>1. CASE f = Best
      BY <1>1, <1>3, <3>1 DEF Kept
    <3>2. CASE f # Best
      <4>1. Kept(live)
        BY <1>1, <1>2, <1>4, <3>2 DEF BLive
      <4> QED BY <1>1, <1>5, <1>8, <3>2, <4>1 DEF Kept
    <3> QED BY <3>1, <3>2
  <2>2. at' = "record" => FirstLowest(live)' /\ Best \in Whole' /\ files'[Best].best = live'.best
    BY <1>1, <1>2, <1>3, <1>5, <1>7 DEF FirstLowest
  <2>3. at' # "best" /\ at' # "numbered"
    BY <1>1
  <2>4. at' \notin {"head", "numbered"} \/ Final \in Whole' =>
           \A n \in Evaluated : n <= live.step => live.best <= valLoss[n]
    <3>1. CASE at # "numbered"
      BY <1>1, <1>4, <3>1 DEF BLive
    <3>2. CASE at = "numbered"
      <4>1. at' = "head" /\ (Final \in Whole' => Final \in Whole)
        BY <1>1, <1>2, <1>3, <3>2, CheckpointNames
      <4> QED BY <1>4, <4>1 DEF BLive
    <3> QED BY <3>1, <3>2
  <2> QED BY <1>1, <1>4, <1>5, <1>13, <2>1, <2>2, <2>3, <2>4 DEF BLive
<1> QED BY <1>14, <1>15 DEF BInv

\* The final checkpoint torn, memory lost: less to claim.
LEMMA BLoss == ASSUME CInv, BInv, OpenFinal \/ Kill, orderly' PROVE BInv'
<1>1. UNCHANGED <<interval, valLoss>> /\ orderly /\ at # "off"
  BY DEF OpenFinal, Kill
<1>2. BFiles /\ BLive
  BY <1>1 DEF BInv
<1>3. CASE Kill
  <2>1. BFiles'
    BY <1>2, <1>3, FilesKeptBest DEF Kill, Whole
  <2> QED BY <1>3, <2>1 DEF Kill, BInv
<1>4. CASE OpenFinal
  <2>1. /\ Whole' = Whole \ {Final} /\ \A g \in Whole' : files'[g] = files[g]
        /\ at = "final" /\ at' = "saving" /\ live' = live
    BY <1>4, CheckpointNames, Opened DEF OpenFinal
  <2>2. Best \in Whole => Best \in Whole'
    BY <2>1, CheckpointNames
  <2>3. BFiles'
    BY <1>1, <1>2, <2>1, <2>2, FilesKeptBest
  <2>4. Evaluated' = Evaluated
    BY <1>1, SameEvaluations
  <2>5. Kept(live)'
    BY <1>1, <1>2, <2>1, <2>2, <2>4 DEF BLive, Kept
  <2>6. BLive'
    BY <1>1, <1>2, <2>1, <2>4, <2>5 DEF BLive
  <2> QED BY <2>3, <2>6 DEF BInv
<1> QED BY <1>3, <1>4

\* Before the first process there is nothing to keep.
LEMMA BInitInv == TrainerInit => BInv
  BY DEF TrainerInit, BInv, BFiles, Whole, Absent

\* Every step keeps BInv.
LEMMA BStepInv == ASSUME CInv, PInv, BInv, [TrainerNext]_trainerVars PROVE BInv'
<1> SUFFICES ASSUME orderly' PROVE BInv'
  BY DEF BInv
<1>1. CASE UNCHANGED trainerVars
  <2>1. /\ UNCHANGED <<interval, valLoss, live, at>> /\ Whole' = Whole
        /\ \A f \in Whole' : files'[f] = files[f]
    BY <1>1 DEF trainerVars, Whole
  <2>2. Evaluated' = Evaluated /\ orderly
    BY <1>1, SameEvaluations DEF trainerVars
  <2>3. BFiles /\ (at # "off" => BLive)
    BY <2>2 DEF BInv
  <2>4. BFiles'
    BY <2>1, <2>3, FilesKeptBest
  <2>5. at' # "off" => BLive'
    BY <2>1, <2>2, <2>3 DEF BLive, Kept, FirstLowest, Lowest
  <2> QED BY <2>4, <2>5 DEF BInv
<1> QED BY <1>1, BFresh, BResume, BPassed, BBetter, BTrain, BSave, BLoss DEF TrainerNext

-----------------------------------------------------------------------------
(* The theorems.                                                           *)

\* The inductive invariant of the whole trainer: positions, histories and ckpt_best.
THEOREM CheckpointInvariance == TrainerSpec => [](PInv /\ HInv /\ BInv)
<1>1. TrainerInit => CInv /\ PInv /\ HInv /\ BInv
  BY CInitInv, PInitInv, HInitInv, BInitInv
<1>2. CInv /\ PInv /\ HInv /\ BInv /\ [TrainerNext]_trainerVars => (CInv /\ PInv /\ HInv /\ BInv)'
  BY CStepInv, PStepInv, HStepInv, BStepInv
<1> QED BY <1>1, <1>2, PTL DEF TrainerSpec

\* Whatever is killed between a row and a checkpoint, no trainer in memory or on disk
\* has lost an evaluation or a logged step, has one twice (but the closing one), or a
\* row metrics.jsonl lacks.
THEOREM HistoriesAreComplete == TrainerSpec => []HistoryComplete
<1>1. CInv /\ PInv /\ HInv => HistoryComplete
  <2> SUFFICES ASSUME CInv, PInv, HInv, NEW t \in Trainers
               PROVE  /\ ToSet(t.history) \subseteq ToSet(metrics)
                      /\ \A i, j \in DOMAIN t.history :
                            i < j => \/ t.history[i].step < t.history[j].step
                                     \/ t.history[i].kind = "train" /\ t.history[j].kind = "eval"
                                          /\ t.history[i].step = t.history[j].step
                                     \/ t.history[i].step = MaxSteps
                      /\ \A n \in 0..t.step :
                            /\ n > 0 /\ Due(interval.log, n) =>
                                  \E r \in ToSet(t.history) : r.step = n /\ r.kind = "train"
                            /\ n < t.step /\ Due(interval.eval, n) =>
                                  \E r \in ToSet(t.history) : r.step = n /\ r.kind = "eval"
    BY DEF HistoryComplete
  <2>1. Told(t, metrics, interval) /\ t.step \in Nat
    <3>1. Sound(t)
      BY DEF CInv, Trainers
    <3> QED BY <3>1, SoundFields DEF Trainers, CInv, HInv, Whole
  <2>2. \A i \in DOMAIN t.history : t.history[i] \in ToSet(metrics)
    BY <2>1 DEF Told
  <2>3. ToSet(t.history) \subseteq ToSet(metrics)
    BY <2>2 DEF ToSet
  <2>4. \A kind, n : HasRow(t.history, kind, n) =>
                        \E r \in ToSet(t.history) : r.step = n /\ r.kind = kind
    BY DEF HasRow, ToSet
  <2>5. \A n \in 0..t.step : /\ n > 0 => n \in 1..t.step
                             /\ n < t.step => n \in 0..(t.step - 1)
    BY <2>1
  <2> QED BY <2>1, <2>3, <2>4, <2>5 DEF Told, Follows
<1> QED BY <1>1, CheckpointInvariance, TrainerInvariance, PTL

\* When a run has ended whose processes each took the newest checkpoint, ckpt_best is
\* whole, of this run, and of the first evaluation with the lowest loss, wherever
\* earlier processes were killed: in the middle of writing ckpt_best too.
THEOREM BestStays == TrainerSpec => []BestIsKept
<1>1. PInv /\ BInv => BestIsKept
  <2> SUFFICES ASSUME PInv, BInv, at = "done", orderly
               PROVE  /\ files[Best].kind = "whole" /\ files[Best].birth = live.birth
                      /\ files[Best].step \in Evaluated
                      /\ \A n \in Evaluated :
                            /\ valLoss[files[Best].step] <= valLoss[n]
                            /\ valLoss[files[Best].step] = valLoss[n] => files[Best].step <= n
    BY DEF BestIsKept
  <2>1. BFiles /\ BLive /\ live.step = MaxSteps /\ live.best \in Nat
    BY Losing DEF BInv, PInv
  <2>2. \A n \in Evaluated : live.best <= valLoss[n]
    BY <2>1, Losing DEF BLive
  <2>3. Best \in Whole /\ files[Best].best = live.best
    <3>1. ASSUME NEW p \in Evaluated, p >= live.step, valLoss[p] < live.best PROVE FALSE
      BY <2>1, <2>2, <3>1, Losing
    <3> QED BY <2>1, <3>1 DEF BLive, Kept
  <2>4. FirstLowest(files[Best]) /\ files[Best].birth = live.birth
    BY <2>1, <2>3 DEF BFiles, BLive
  <2>5. ASSUME NEW n \in Evaluated, valLoss[files[Best].step] = valLoss[n]
        PROVE  files[Best].step <= n
    BY <2>3, <2>4, <2>5, Losing DEF FirstLowest
  <2> QED BY <2>2, <2>3, <2>4, <2>5 DEF FirstLowest, Whole
<1> QED BY <1>1, CheckpointInvariance, PTL

-----------------------------------------------------------------------------
(* A full pass over a text.                                                *)

\* The first k blocks' outputs.
Unfolds(h, k, tokens) ==
    h = [n \in 0..k |-> IF n = 0 THEN Embed(tokens, 0) ELSE Block(h[n - 1], h[n - 1])]

\* The recursion over the blocks has a solution, however many there are: a least
\* depth without one would be one block above a depth that has one.
LEMMA PassExists == ASSUME NEW tokens, NEW k \in Nat PROVE \E h : Unfolds(h, k, tokens)
<1> DEFINE bad == {n \in Nat : ~ \E h : Unfolds(h, n, tokens)}
<1> SUFFICES ASSUME bad # {} PROVE FALSE
  OBVIOUS
<1>1. bad \subseteq Nat
  OBVIOUS
<1> HIDE DEF bad
<1>2. PICK m \in bad : \A o \in bad : <<o, m>> \notin OpToRel(<, Nat)
  BY <1>1, NatLessThanWellFounded, WFMin
<1>3. \A o \in bad : ~(o < m)
  BY <1>1, <1>2 DEF OpToRel
<1>4. m \in Nat
  BY <1>1, <1>2
<1>5. CASE m = 0
  <2> DEFINE g == [n \in 0..0 |-> Embed(tokens, 0)]
  <2>1. Unfolds(g, 0, tokens)
    BY DEF Unfolds
  <2>2. QED BY <1>2, <1>5, <2>1 DEF bad
<1>6. CASE m # 0
  <2>1. m - 1 \in Nat /\ m - 1 < m
    BY <1>4, <1>6
  <2>2. m - 1 \notin bad
    BY <1>3, <2>1
  <2>3. PICK f : Unfolds(f, m - 1, tokens)
    BY <2>1, <2>2 DEF bad
  <2> DEFINE g == [n \in 0..m |-> IF n < m THEN f[n] ELSE Block(f[m - 1], f[m - 1])]
  <2>4. \A n \in 0..m : g[n] = IF n = 0 THEN Embed(tokens, 0) ELSE Block(g[n - 1], g[n - 1])
    <3>1. \A n \in 0..(m - 1) : f[n] = IF n = 0 THEN Embed(tokens, 0) ELSE Block(f[n - 1], f[n - 1])
      BY <2>3 DEF Unfolds
    <3>2. \A n \in 0..m : n = m \/ n \in 0..(m - 1)
      BY <1>4
    <3>3. \A n \in 0..(m - 1) : g[n] = f[n]
      BY <1>4
    <3>4. g[m] = Block(f[m - 1], f[m - 1])
      BY <1>4
    <3> HIDE DEF g
    <3>5. ASSUME NEW n \in 0..m
          PROVE  g[n] = IF n = 0 THEN Embed(tokens, 0) ELSE Block(g[n - 1], g[n - 1])
      <4>1. CASE n = m
        <5>1. m - 1 \in 0..(m - 1)
          BY <1>4, <1>6
        <5>2. QED BY <1>6, <3>3, <3>4, <4>1, <5>1
      <4>2. CASE n \in 0..(m - 1)
        <5>1. n = 0 \/ n - 1 \in 0..(m - 1)
          BY <1>4, <4>2
        <5>2. QED BY <3>1, <3>3, <4>2, <5>1
      <4>3. QED BY <3>2, <4>1, <4>2
    <3>6. QED BY <3>5
  <2>5. g = [n \in 0..m |-> g[n]]
    OBVIOUS
  <2> HIDE DEF g
  <2>6. Unfolds(g, m, tokens)
    BY <2>4, <2>5 DEF Unfolds
  <2>7. QED BY <1>2, <2>6 DEF bad
<1>7. QED BY <1>5, <1>6

\* So a full pass is its equations: the embedding, then block after block.
LEMMA HiddenIs ==
    ASSUME NEW tokens
    PROVE  /\ Hidden(tokens)[0] = Embed(tokens, 0)
           /\ \A n \in 1..Layers :
                 Hidden(tokens)[n] = Block(Hidden(tokens)[n - 1], Hidden(tokens)[n - 1])
<1> DEFINE h == Hidden(tokens)
<1>1. Layers \in Nat
  BY GenerationAssumption
<1>2. h = CHOOSE g :
            g = [n \in 0..Layers |-> IF n = 0 THEN Embed(tokens, 0) ELSE Block(g[n - 1], g[n - 1])]
  BY DEF Hidden
<1>3. \E g : g = [n \in 0..Layers |-> IF n = 0 THEN Embed(tokens, 0) ELSE Block(g[n - 1], g[n - 1])]
  BY <1>1, PassExists DEF Unfolds
<1>4. h = [n \in 0..Layers |-> IF n = 0 THEN Embed(tokens, 0) ELSE Block(h[n - 1], h[n - 1])]
  <2> HIDE DEF h
  <2>1. QED BY <1>2, <1>3
<1> HIDE DEF h
<1>5. 0 \in 0..Layers /\ \A n \in 1..Layers : n \in 0..Layers /\ n # 0
  BY <1>1
<1>6. QED BY <1>4, <1>5 DEF h

\* f is a list of k things, whatever they are.
IsList(f, k) == f = [i \in 1..k |-> f[i]]
\* Its first k.
UpTo(f, k) == [i \in 1..k |-> f[i]]

\* A list is a sequence.
LEMMA ListIs ==
    ASSUME NEW k \in Nat, NEW f, IsList(f, k)
    PROVE  /\ Len(f) = k /\ DOMAIN f = 1..k
           /\ \A n \in 0..k : SubSeq(f, 1, n) = UpTo(f, n)
           /\ Last(f) = f[k]
<1> DEFINE S == {f[i] : i \in 1..k}
<1>1. f \in [1..k -> S]
  BY DEF IsList
<1> HIDE DEF S
<1>2. f \in Seq(S) /\ Len(f) = k
  BY <1>1
<1>3. ASSUME NEW n \in 0..k PROVE SubSeq(f, 1, n) = UpTo(f, n)
  <2>1. /\ SubSeq(f, 1, n) \in Seq(S) /\ Len(SubSeq(f, 1, n)) = n
        /\ \A i \in 1..n : SubSeq(f, 1, n)[i] = f[i]
    BY <1>2
  <2>2. SubSeq(f, 1, n) \in [1..n -> S]
    BY <2>1, LenProperties
  <2>3. QED BY <2>1, <2>2 DEF UpTo
<1>4. QED BY <1>1, <1>2, <1>3 DEF Last

\* What one position takes from a block.
Attended(query, keys) == [query EXCEPT !.saw = Append(@, keys)]

\* A block, position by position: each attends to everything up to itself.
LEMMA BlockIs ==
    ASSUME NEW size \in Nat, NEW fed \in 0..size,
           NEW keys, IsList(keys, size), NEW queries, IsList(queries, fed)
    PROVE  /\ IsList(Block(queries, keys), fed)
           /\ \A i \in 1..fed :
                 Block(queries, keys)[i] = Attended(queries[i], UpTo(keys, size - fed + i))
<1>1. DOMAIN queries = 1..fed /\ Len(queries) = fed /\ Len(keys) = size
  <2>1. fed \in Nat
    OBVIOUS
  <2>2. QED BY <2>1, ListIs
<1>2. ASSUME NEW i \in 1..fed
      PROVE  Visible(queries, keys, i) = UpTo(keys, size - fed + i)
  <2>1. size - fed + i \in 0..size
    OBVIOUS
  <2>2. SubSeq(keys, 1, size - fed + i) = UpTo(keys, size - fed + i)
    BY <2>1, ListIs
  <2>3. QED BY <1>1, <2>2 DEF Visible
<1>3. QED BY <1>1, <1>2 DEF Block, Attended, IsList

\* The same where nothing was cached.
LEMMA FullBlockIs ==
    ASSUME NEW size \in Nat, NEW keys, IsList(keys, size)
    PROVE  /\ IsList(Block(keys, keys), size)
           /\ \A i \in 1..size : Block(keys, keys)[i] = Attended(keys[i], UpTo(keys, i))
<1>1. PICK fed \in 0..size : fed = size
  OBVIOUS
<1>2. IsList(keys, fed)
  BY <1>1
<1>3. /\ IsList(Block(keys, keys), fed)
      /\ \A i \in 1..fed : Block(keys, keys)[i] = Attended(keys[i], UpTo(keys, size - fed + i))
  BY <1>2, BlockIs
<1>4. \A i \in 1..fed : size - fed + i = i
  BY <1>1
<1>5. QED BY <1>1, <1>3, <1>4

\* Every block turns a text into as many vectors as it has tokens.
LEMMA PassIsList ==
    ASSUME NEW tokens \in Seq(Tokens), NEW n \in 0..Layers
    PROVE  IsList(Hidden(tokens)[n], Len(tokens))
<1> DEFINE h == Hidden(tokens)
           size == Len(tokens)
           bad == {m \in 0..Layers : ~IsList(h[m], size)}
<1> SUFFICES ASSUME bad # {} PROVE FALSE
  OBVIOUS
<1>1. Layers \in Nat /\ bad \subseteq Nat
  BY GenerationAssumption
<1> HIDE DEF bad
<1>2. PICK m \in bad : \A o \in bad : <<o, m>> \notin OpToRel(<, Nat)
  BY <1>1, NatLessThanWellFounded, WFMin
<1>3. \A o \in bad : ~(o < m)
  BY <1>1, <1>2 DEF OpToRel
<1>4. m \in 0..Layers /\ ~IsList(h[m], size)
  BY <1>2 DEF bad
<1>5. size \in Nat /\ DOMAIN tokens = 1..size
  OBVIOUS
<1>6. CASE m = 0
  <2>1. h[0] = Embed(tokens, 0)
    BY HiddenIs
  <2> HIDE DEF h
  <2>2. QED BY <1>4, <1>5, <1>6, <2>1 DEF Embed, IsList
<1>7. CASE m # 0
  <2>1. m \in 1..Layers /\ m - 1 \in 0..Layers /\ m - 1 < m
    BY <1>1, <1>4, <1>7
  <2>2. h[m] = Block(h[m - 1], h[m - 1])
    BY <2>1, HiddenIs
  <2> HIDE DEF h, size
  <2>3. m - 1 \notin bad
    BY <1>3, <2>1
  <2>4. IsList(h[m - 1], size)
    BY <2>1, <2>3 DEF bad
  <2>5. IsList(h[m], size)
    BY <1>5, <2>2, <2>4, FullBlockIs
  <2>6. QED BY <1>4, <2>5
<1>8. QED BY <1>6, <1>7

\* One block of a full pass.
LEMMA PassIs ==
    ASSUME NEW tokens \in Seq(Tokens), NEW n \in 1..Layers, NEW i \in 1..Len(tokens)
    PROVE  Hidden(tokens)[n][i] =
             Attended(Hidden(tokens)[n - 1][i], UpTo(Hidden(tokens)[n - 1], i))
<1> DEFINE h == Hidden(tokens)
           size == Len(tokens)
<1>1. n - 1 \in 0..Layers /\ size \in Nat
  BY GenerationAssumption
<1>2. IsList(h[n - 1], size)
  BY <1>1, PassIsList
<1>3. h[n] = Block(h[n - 1], h[n - 1])
  BY HiddenIs
<1> HIDE DEF h, size
<1>4. \A k \in 1..size : h[n][k] = Attended(h[n - 1][k], UpTo(h[n - 1], k))
  BY <1>1, <1>2, <1>3, FullBlockIs
<1>5. QED BY <1>4 DEF h, size

\* Attention is causal: what follows a position does not change it, in any block.
LEMMA PassIsCausal ==
    ASSUME NEW tokens \in Seq(Tokens), NEW next \in Tokens, NEW n \in 0..Layers
    PROVE  \A i \in 1..Len(tokens) : Hidden(Append(tokens, next))[n][i] = Hidden(tokens)[n][i]
<1> DEFINE h == Hidden(tokens)
           more == Append(tokens, next)
           g == Hidden(more)
           size == Len(tokens)
           bad == {m \in 0..Layers : \E i \in 1..size : g[m][i] # h[m][i]}
<1> SUFFICES ASSUME bad # {} PROVE FALSE
  OBVIOUS
<1>1. Layers \in Nat /\ bad \subseteq Nat
  BY GenerationAssumption
<1> HIDE DEF bad
<1>2. PICK m \in bad : \A o \in bad : <<o, m>> \notin OpToRel(<, Nat)
  BY <1>1, NatLessThanWellFounded, WFMin
<1>3. \A o \in bad : ~(o < m)
  BY <1>1, <1>2 DEF OpToRel
<1>4. m \in 0..Layers /\ \E i \in 1..size : g[m][i] # h[m][i]
  BY <1>2 DEF bad
<1>5. PICK i \in 1..size : g[m][i] # h[m][i]
  BY <1>4
<1>6. /\ size \in Nat /\ DOMAIN tokens = 1..size
      /\ more \in Seq(Tokens) /\ Len(more) = size + 1 /\ DOMAIN more = 1..(size + 1)
      /\ \A k \in 1..size : more[k] = tokens[k]
  OBVIOUS
<1> HIDE DEF more
<1>7. CASE m = 0
  <2>1. h[0] = Embed(tokens, 0) /\ g[0] = Embed(more, 0)
    BY HiddenIs
  <2>2. i \in 1..(size + 1)
    BY <1>6
  <2> HIDE DEF h, g, size
  <2>3. QED BY <1>5, <1>6, <1>7, <2>1, <2>2 DEF Embed
<1>8. CASE m # 0
  <2>1. m \in 1..Layers /\ m - 1 \in 0..Layers /\ m - 1 < m /\ i \in 1..Len(more)
    BY <1>1, <1>4, <1>6, <1>8
  <2>2. h[m][i] = Attended(h[m - 1][i], UpTo(h[m - 1], i))
    BY <2>1, PassIs
  <2>3. g[m][i] = Attended(g[m - 1][i], UpTo(g[m - 1], i))
    BY <1>6, <2>1, PassIs
  <2> HIDE DEF h, g
  <2>4. m - 1 \notin bad
    BY <1>3, <2>1
  <2>5. \A k \in 1..size : g[m - 1][k] = h[m - 1][k]
    BY <2>1, <2>4 DEF bad
  <2>6. \A k \in 1..i : k \in 1..size
    BY <1>6
  <2>7. UpTo(g[m - 1], i) = UpTo(h[m - 1], i)
    BY <2>5, <2>6 DEF UpTo
  <2>8. QED BY <1>5, <2>2, <2>3, <2>5, <2>7
<1>9. QED BY <1>7, <1>8

-----------------------------------------------------------------------------
(* The cache and the full pass.                                            *)

\* The first `known` slots of block n's cache are what a full pass feeds block n.
CacheHolds(slots, texts, n, known) ==
    \A r \in Rows : \A i \in 1..known : slots[n][r][i] = Hidden(texts[r])[n - 1][i]

\* What is being fed is what a full pass has after n blocks, from `done` on.
FedHolds(fed, texts, n, done, size) ==
    \A r \in Rows : /\ IsList(fed[r], size - done)
                    /\ \A i \in 1..(size - done) : fed[r][i] = Hidden(texts[r])[n][done + i]

\* All rows have one length, and the cache its slots.
GenerationTypes ==
    /\ out \in [Rows -> Seq(Tokens)]
    /\ Length \in Nat \ {0} /\ \A r \in Rows : Len(out[r]) = Length
    /\ budget \in Nat /\ seqLen \in Nat /\ layer \in 1..Layers
    /\ generating \in {"call", "forward", "sample", "returned", "refused"}
    /\ DOMAIN cache = 1..Layers

\* Blocks the pass has been through hold every position, the others those of the
\* earlier passes; and a call that was accepted keeps room for its budget.
GInv ==
    /\ GenerationTypes
    /\ generating = "call" => seqLen = 0
    /\ generating = "forward" =>
          /\ seqLen < Length /\ Length + budget <= MaxSeqLen
          /\ \A n \in 1..Layers :
                CacheHolds(cache, out, n, IF n < layer THEN Length ELSE seqLen)
          /\ FedHolds(hidden, out, layer - 1, seqLen, Length)
    /\ generating = "sample" =>
          /\ seqLen = Length /\ Length + budget <= MaxSeqLen
          /\ \A n \in 1..Layers : CacheHolds(cache, out, n, Length)
          /\ \E done \in 0..(Length - 1) : FedHolds(hidden, out, Layers, done, Length)

\* Embedding is what the first block is fed.
LEMMA EmbedIs ==
    ASSUME NEW tokens \in Seq(Tokens), NEW from \in Nat
    PROVE  /\ IsList(Embed(tokens, from), Len(tokens))
           /\ \A i \in 1..Len(tokens) :
                 Embed(tokens, from)[i] = [token |-> tokens[i], pos |-> from + i - 1, saw |-> <<>>]
<1>1. DOMAIN tokens = 1..Len(tokens)
  OBVIOUS
<1>2. QED BY <1>1 DEF Embed, IsList

\* A call starts with an empty cache.
LEMMA InitGInv == GenerationInit => GInv
<1> SUFFICES ASSUME GenerationInit PROVE GInv
  OBVIOUS
<1>1. PICK l \in PromptLens : out \in [Rows -> [1..l -> Tokens]]
  BY DEF GenerationInit
<1>2. l \in Nat \ {0}
  BY GenerationAssumption
<1>3. \A r \in Rows : out[r] \in Seq(Tokens) /\ Len(out[r]) = l
  BY <1>1, <1>2
<1>4. (CHOOSE r \in Rows : TRUE) \in Rows
  BY GenerationAssumption
<1>5. Length = l
  BY <1>3, <1>4 DEF Length
<1>6. budget \in Nat /\ MaxSeqLen \in Nat /\ 1 \in 1..Layers /\ DOMAIN cache = 1..Layers
  BY GenerationAssumption DEF GenerationInit
<1>7. out \in [Rows -> Seq(Tokens)]
  BY <1>1, <1>3
<1>8. QED BY <1>2, <1>3, <1>5, <1>6, <1>7 DEF GInv, GenerationTypes, GenerationInit

\* The prompt is fed from position 0.
LEMMA PrefillGInv == ASSUME GInv, Prefill PROVE GInv'
<1>1. /\ generating = "call" /\ generating' = "forward" /\ layer' = 1 /\ seqLen = 0
      /\ hidden' = [r \in Rows |-> Embed(out[r], seqLen)]
      /\ UNCHANGED <<out, budget, cache, seqLen>>
      /\ Length + budget <= MaxSeqLen
  BY DEF Prefill, Feed, GInv
<1>2. Length' = Length
  BY <1>1 DEF Length
<1>3. Length \in Nat \ {0} /\ GenerationTypes
  BY DEF GInv, GenerationTypes
<1>4. ASSUME NEW r \in Rows
      PROVE  /\ IsList(hidden'[r], Length - 0)
             /\ \A i \in 1..(Length - 0) : hidden'[r][i] = Hidden(out[r])[0][0 + i]
  <2>1. out[r] \in Seq(Tokens) /\ Len(out[r]) = Length
    BY <1>3 DEF GenerationTypes
  <2>2. hidden'[r] = Embed(out[r], 0) /\ Hidden(out[r])[0] = Embed(out[r], 0)
    BY <1>1, HiddenIs
  <2>3. IsList(hidden'[r], Length)
    BY <2>1, <2>2, EmbedIs
  <2>4. Length - 0 = Length /\ \A i \in 1..Length : 0 + i = i
    BY <1>3
  <2>5. QED BY <2>2, <2>3, <2>4
<1>5. FedHolds(hidden', out', layer' - 1, seqLen', Length')
  <2>1. layer' - 1 = 0
    BY <1>1
  <2>2. QED BY <1>1, <1>2, <1>4, <2>1 DEF FedHolds
<1>6. \A n \in 1..Layers : CacheHolds(cache', out', n, IF n < layer' THEN Length' ELSE seqLen')
  BY <1>1 DEF CacheHolds
<1>7. 1 \in 1..Layers
  BY GenerationAssumption
<1>8. GenerationTypes'
  BY <1>1, <1>2, <1>3, <1>7 DEF GenerationTypes
<1>9. QED BY <1>1, <1>2, <1>3, <1>5, <1>6, <1>8 DEF GInv

\* A block writes what it is fed into its cache, and computes from the cache what
\* a full pass computes from the whole text.
LEMMA ForwardGInv == ASSUME GInv, ForwardLayer PROVE GInv'
<1>1. /\ generating = "forward" /\ seqLen < Length /\ Length + budget <= MaxSeqLen
      /\ \A n \in 1..Layers :
            CacheHolds(cache, out, n, IF n < layer THEN Length ELSE seqLen)
      /\ FedHolds(hidden, out, layer - 1, seqLen, Length)
      /\ GenerationTypes
  BY DEF GInv, ForwardLayer
<1>2. /\ Length \in Nat \ {0} /\ budget \in Nat /\ seqLen \in Nat /\ layer \in 1..Layers
      /\ Layers \in Nat /\ MaxSeqLen \in Nat
      /\ \A r \in Rows : out[r] \in Seq(Tokens) /\ Len(out[r]) = Length
  BY <1>1, GenerationAssumption DEF GenerationTypes
<1> DEFINE fed == Length - seqLen
<1>3. fed \in 0..Length /\ fed \in Nat /\ seqLen + fed = Length /\ Length - fed = seqLen
  BY <1>1, <1>2
<1>4. Fed = fed
  <2>1. (CHOOSE r \in Rows : TRUE) \in Rows
    BY GenerationAssumption
  <2>2. \A r \in Rows : IsList(hidden[r], fed)
    BY <1>1 DEF FedHolds
  <2> HIDE DEF fed
  <2>3. QED BY <1>3, <2>1, <2>2, ListIs DEF Fed
<1>5. Fits
  BY <1>1, <1>2, <1>3, <1>4 DEF Fits
<1>6. /\ cache' = [cache EXCEPT ![layer] = [r \in Rows |-> Updated(r)]]
      /\ hidden' = [r \in Rows |-> Block(hidden[r], Cached(r))]
      /\ seqLen' = IF layer = Layers THEN Length ELSE seqLen
      /\ layer' = IF layer = Layers THEN layer ELSE layer + 1
      /\ generating' = IF layer = Layers THEN "sample" ELSE "forward"
      /\ UNCHANGED <<out, budget>>
  <2>1. seqLen + Fed = Length
    BY <1>3, <1>4
  <2>2. QED BY <1>5, <2>1 DEF ForwardLayer, Advance
<1>7. Length' = Length
  BY <1>6 DEF Length
<1> DEFINE pass(r) == Hidden(out[r])
<1>8. ASSUME NEW r \in Rows
      PROVE  /\ IsList(Updated(r), MaxSeqLen)
             /\ \A i \in 1..Length : Updated(r)[i] = pass(r)[layer - 1][i]
  <2>1. Updated(r) = [i \in 1..MaxSeqLen |-> IF i \in (seqLen + 1)..Length
                                      THEN hidden[r][i - seqLen] ELSE cache[layer][r][i]]
    BY <1>3, <1>4 DEF Updated
  <2>2. ASSUME NEW i \in 1..Length
        PROVE  Updated(r)[i] = pass(r)[layer - 1][i]
    <3>1. i \in 1..MaxSeqLen
      BY <1>1, <1>2
    <3>2. CASE i \in (seqLen + 1)..Length
      <4>1. i - seqLen \in 1..fed /\ seqLen + (i - seqLen) = i
        BY <1>2, <3>2
      <4>2. hidden[r][i - seqLen] = pass(r)[layer - 1][seqLen + (i - seqLen)]
        BY <1>1, <4>1 DEF FedHolds
      <4>3. QED BY <2>1, <3>1, <3>2, <4>1, <4>2
    <3>3. CASE i \notin (seqLen + 1)..Length
      <4>1. i \in 1..seqLen
        BY <1>2, <3>3
      <4>2. CacheHolds(cache, out, layer, seqLen)
        BY <1>1, <1>2
      <4>3. cache[layer][r][i] = pass(r)[layer - 1][i]
        BY <4>1, <4>2 DEF CacheHolds
      <4>4. QED BY <2>1, <3>1, <3>3, <4>3
    <3>4. QED BY <3>2, <3>3
  <2>3. IsList(Updated(r), MaxSeqLen)
    BY <2>1 DEF IsList
  <2>4. QED BY <2>2, <2>3
<1>9. ASSUME NEW r \in Rows
      PROVE  /\ IsList(hidden'[r], fed)
             /\ \A i \in 1..fed : hidden'[r][i] = pass(r)[layer][seqLen + i]
  <2> DEFINE keys == Cached(r)
             h == pass(r)
  <2>1. keys = UpTo(Updated(r), Length)
    <3>1. Length \in 0..MaxSeqLen
      BY <1>1, <1>2
    <3>2. Cached(r) = SubSeq(Updated(r), 1, Length)
      BY <1>3, <1>4 DEF Cached
    <3>3. QED BY <1>2, <1>8, <3>1, <3>2, ListIs
  <2>2. IsList(keys, Length) /\ \A i \in 1..Length : keys[i] = h[layer - 1][i]
    <3>1. \A i \in 1..Length : Updated(r)[i] = h[layer - 1][i]
      BY <1>8
    <3> HIDE DEF keys, h
    <3>2. QED BY <2>1, <3>1 DEF UpTo, IsList
  <2>3. IsList(hidden[r], fed) /\ \A i \in 1..fed : hidden[r][i] = h[layer - 1][seqLen + i]
    BY <1>1 DEF FedHolds
  <2>4. hidden'[r] = Block(hidden[r], keys)
    BY <1>6
  <2> HIDE DEF keys, fed
  <2>5. /\ IsList(hidden'[r], fed)
        /\ \A i \in 1..fed : hidden'[r][i] = Attended(hidden[r][i], UpTo(keys, Length - fed + i))
    BY <1>2, <1>3, <2>2, <2>3, <2>4, BlockIs
  <2>6. ASSUME NEW i \in 1..fed
        PROVE  hidden'[r][i] = h[layer][seqLen + i]
    <3>1. seqLen + i \in 1..Length /\ Length - fed + i = seqLen + i
      BY <1>2, <1>3
    <3>2. h[layer][seqLen + i] = Attended(h[layer - 1][seqLen + i], UpTo(h[layer - 1], seqLen + i))
      BY <1>2, <3>1, PassIs
    <3>3. \A k \in 1..(seqLen + i) : k \in 1..Length
      BY <1>2, <3>1
    <3> HIDE DEF h
    <3>4. UpTo(keys, seqLen + i) = UpTo(h[layer - 1], seqLen + i)
      BY <2>2, <3>3 DEF UpTo
    <3>5. QED BY <2>3, <2>5, <3>1, <3>2, <3>4
  <2>7. QED BY <2>5, <2>6
<1>10. ASSUME NEW n \in 1..Layers
       PROVE  /\ n = layer => CacheHolds(cache', out, n, Length)
              /\ n # layer => CacheHolds(cache', out, n, IF n < layer THEN Length ELSE seqLen)
  <2>1. DOMAIN cache = 1..Layers
    BY <1>1 DEF GenerationTypes
  <2>2. CASE n = layer
    <3>1. cache'[n] = [r \in Rows |-> Updated(r)]
      BY <1>6, <2>1, <2>2
    <3>2. \A r \in Rows : cache'[n][r] = Updated(r)
      BY <3>1
    <3>3. QED BY <1>8, <2>2, <3>2 DEF CacheHolds
  <2>3. CASE n # layer
    <3>1. cache'[n] = cache[n]
      BY <1>6, <2>1, <2>3
    <3>2. CacheHolds(cache, out, n, IF n < layer THEN Length ELSE seqLen)
      BY <1>1
    <3>3. QED BY <2>3, <3>1, <3>2 DEF CacheHolds
  <2>4. QED BY <2>2, <2>3
<1>11. FedHolds(hidden', out, layer, seqLen, Length)
  BY <1>9 DEF FedHolds
<1>12. GenerationTypes'
  <2>1. layer' \in 1..Layers /\ seqLen' \in Nat
    BY <1>2, <1>6
  <2>2. DOMAIN cache' = 1..Layers
    BY <1>1, <1>6 DEF GenerationTypes
  <2>3. generating' \in {"forward", "sample"}
    BY <1>6
  <2>4. QED BY <1>1, <1>2, <1>6, <1>7, <2>1, <2>2, <2>3 DEF GenerationTypes
<1> HIDE DEF fed
<1>13. CASE layer = Layers
  <2>1. generating' = "sample" /\ seqLen' = Length /\ seqLen \in 0..(Length - 1)
    BY <1>1, <1>2, <1>6, <1>13
  <2>2. ASSUME NEW n \in 1..Layers PROVE CacheHolds(cache', out, n, Length)
    <3>1. n = layer \/ n < layer
      BY <1>2, <1>13
    <3>2. QED BY <1>2, <1>10, <3>1
  <2>3. FedHolds(hidden', out, Layers, seqLen, Length)
    BY <1>11, <1>13
  <2>4. QED BY <1>1, <1>6, <1>7, <1>12, <2>1, <2>2, <2>3 DEF GInv
<1>14. CASE layer # Layers
  <2>1. /\ generating' = "forward" /\ seqLen' = seqLen /\ layer' = layer + 1
        /\ layer' - 1 = layer
    BY <1>2, <1>6, <1>14
  <2>2. ASSUME NEW n \in 1..Layers
        PROVE  CacheHolds(cache', out, n, IF n < layer' THEN Length ELSE seqLen)
    <3>1. n < layer' <=> n < layer \/ n = layer
      BY <1>2, <2>1
    <3>2. QED BY <1>10, <3>1
  <2>3. FedHolds(hidden', out', layer' - 1, seqLen', Length')
    BY <1>6, <1>7, <1>11, <2>1
  <2>4. QED BY <1>1, <1>6, <1>7, <1>12, <2>1, <2>2, <2>3 DEF GInv
<1>15. QED BY <1>13, <1>14

\* One token more per row: by causality the cache stays that of the longer text.
LEMMA SampleGInv == ASSUME GInv, Sample PROVE GInv'
<1>1. /\ generating = "sample" /\ seqLen = Length /\ Length + budget <= MaxSeqLen
      /\ \A n \in 1..Layers : CacheHolds(cache, out, n, Length)
      /\ GenerationTypes /\ budget > 0 /\ budget' = budget - 1
      /\ UNCHANGED <<cache, seqLen>>
  BY DEF GInv, Sample
<1>2. /\ Length \in Nat \ {0} /\ budget \in Nat /\ seqLen \in Nat /\ layer \in 1..Layers
      /\ Layers \in Nat \ {0} /\ MaxSeqLen \in Nat
      /\ \A r \in Rows : out[r] \in Seq(Tokens) /\ Len(out[r]) = Length
  BY <1>1, GenerationAssumption DEF GenerationTypes
<1>3. PICK next \in [Rows -> Tokens] :
        LET new == [r \in Rows |-> Chosen(next, r)]
        IN  /\ out' = [r \in Rows |-> Append(out[r], new[r])]
            /\ IF finished' = Rows
               THEN Leave("returned") /\ UNCHANGED <<hidden, layer>>
               ELSE Feed([r \in Rows |-> <<new[r]>>]) /\ UNCHANGED training
  BY DEF Sample
<1> DEFINE new == [r \in Rows |-> Chosen(next, r)]
<1>4. \A r \in Rows : new[r] \in Tokens
  BY GenerationAssumption DEF Chosen
<1>5. out' = [r \in Rows |-> Append(out[r], new[r])]
  BY <1>3
<1>6. \/ generating' = "returned" /\ UNCHANGED <<hidden, layer>>
      \/ /\ generating' = "forward" /\ layer' = 1
         /\ hidden' = [r \in Rows |-> Embed(<<new[r]>>, seqLen)]
  BY <1>3 DEF Leave, Feed
<1> HIDE DEF new
<1>7. \A r \in Rows : /\ out'[r] = Append(out[r], new[r])
                      /\ out'[r] \in Seq(Tokens) /\ Len(out'[r]) = Length + 1
                      /\ out'[r][Length + 1] = new[r]
  BY <1>2, <1>4, <1>5
<1>8. Length' = Length + 1
  <2>1. (CHOOSE r \in Rows : TRUE) \in Rows
    BY GenerationAssumption
  <2>2. QED BY <1>7, <2>1 DEF Length
<1>9. GenerationTypes'
  <2>1. out' \in [Rows -> Seq(Tokens)]
    BY <1>5, <1>7
  <2>2. budget' \in Nat /\ Length' \in Nat \ {0}
    BY <1>1, <1>2, <1>8
  <2>3. layer' \in 1..Layers
    BY <1>2, <1>6
  <2>4. generating' \in {"returned", "forward"}
    BY <1>6
  <2>5. QED BY <1>1, <1>7, <1>8, <2>1, <2>2, <2>3, <2>4 DEF GenerationTypes
<1>10. ASSUME NEW n \in 1..Layers PROVE CacheHolds(cache', out', n, Length)
  <2>1. n - 1 \in 0..Layers
    BY <1>2
  <2>2. ASSUME NEW r \in Rows, NEW i \in 1..Length
        PROVE  cache'[n][r][i] = Hidden(out'[r])[n - 1][i]
    <3>1. cache[n][r][i] = Hidden(out[r])[n - 1][i]
      BY <1>1 DEF CacheHolds
    <3>2. Hidden(Append(out[r], new[r]))[n - 1][i] = Hidden(out[r])[n - 1][i]
      BY <1>2, <1>4, <2>1, PassIsCausal
    <3>3. QED BY <1>1, <1>7, <3>1, <3>2
  <2>3. QED BY <2>2 DEF CacheHolds
<1>11. CASE generating' = "returned"
  BY <1>9, <1>11 DEF GInv
<1>12. CASE generating' = "forward"
  <2>1. layer' = 1 /\ hidden' = [r \in Rows |-> Embed(<<new[r]>>, seqLen)]
    BY <1>6, <1>12
  <2>2. Length + 1 - Length = 1 /\ Length + 1 - 1 = Length
    BY <1>2
  <2>3. ASSUME NEW r \in Rows
        PROVE  /\ IsList(hidden'[r], 1)
               /\ \A i \in 1..1 : hidden'[r][i] = Hidden(out'[r])[0][Length + i]
    <3>1. <<new[r]>> \in Seq(Tokens) /\ Len(<<new[r]>>) = 1 /\ <<new[r]>>[1] = new[r]
      BY <1>4
    <3>2. hidden'[r] = Embed(<<new[r]>>, Length)
      BY <1>1, <2>1
    <3>3. IsList(hidden'[r], 1)
      BY <1>2, <3>1, <3>2, EmbedIs
    <3>4. hidden'[r][1] = [token |-> new[r], pos |-> Length + 1 - 1, saw |-> <<>>]
      <4>1. 1 \in 1..1
        OBVIOUS
      <4>2. QED BY <1>2, <3>1, <3>2, <4>1, EmbedIs
    <3>5. Hidden(out'[r])[0][Length + 1] =
            [token |-> out'[r][Length + 1], pos |-> 0 + (Length + 1) - 1, saw |-> <<>>]
      <4>1. Length + 1 \in 1..(Length + 1)
        BY <1>2
      <4>2. Hidden(out'[r])[0] = Embed(out'[r], 0)
        BY HiddenIs
      <4>3. QED BY <1>7, <4>1, <4>2, EmbedIs
    <3>6. 0 + (Length + 1) - 1 = Length + 1 - 1 /\ \A i \in 1..1 : i = 1
      BY <1>2
    <3>7. QED BY <1>7, <3>3, <3>4, <3>5, <3>6
  <2>4. FedHolds(hidden', out', layer' - 1, seqLen', Length')
    <3>1. layer' - 1 = 0 /\ seqLen' = Length /\ Length' - seqLen' = 1
      BY <1>1, <1>2, <1>8, <2>1
    <3>2. QED BY <2>3, <3>1 DEF FedHolds
  <2>5. \A n \in 1..Layers : CacheHolds(cache', out', n, IF n < layer' THEN Length' ELSE seqLen')
    BY <1>1, <1>10, <2>1
  <2>6. seqLen' < Length' /\ Length' + budget' <= MaxSeqLen
    BY <1>1, <1>2, <1>8
  <2>7. QED BY <1>9, <1>12, <2>4, <2>5, <2>6 DEF GInv
<1>13. QED BY <1>6, <1>11, <1>12

\* GInv is an invariant: block by block the cache holds what a full pass over the
\* text so far would, and the call never runs out of slots.
THEOREM GenerationInvariance == GenerationSpec => []GInv
<1>1. ASSUME GInv, [GenerationNext]_generationVars PROVE GInv'
  <2>1. CASE Refuse
    <3>1. UNCHANGED <<out, budget, cache, seqLen, layer>> /\ generating' = "refused"
      BY <2>1 DEF Refuse
    <3>2. Length' = Length
      BY <3>1 DEF Length
    <3>3. QED BY <1>1, <3>1, <3>2 DEF GInv, GenerationTypes
  <2>2. CASE ReturnAll
    <3>1. UNCHANGED <<out, budget, cache, seqLen, layer>> /\ generating' = "returned"
      BY <2>2 DEF ReturnAll, Leave
    <3>2. Length' = Length
      BY <3>1 DEF Length
    <3>3. QED BY <1>1, <3>1, <3>2 DEF GInv, GenerationTypes
  <2>3. CASE UNCHANGED generationVars
    <3>1. UNCHANGED <<out, budget, cache, seqLen, layer, hidden, generating>>
      BY <2>3 DEF generationVars
    <3>2. Length' = Length
      BY <3>1 DEF Length
    <3>3. QED BY <1>1, <3>1, <3>2 DEF GInv, GenerationTypes
  <2>4. QED BY <1>1, <2>1, <2>2, <2>3, PrefillGInv, ForwardGInv, SampleGInv DEF GenerationNext
<1>2. QED BY InitGInv, <1>1, PTL DEF GenerationSpec

\* The cached path computes what the uncached one would, for any number of blocks,
\* rows and tokens, and an accepted call never overflows the cache.
THEOREM CacheIsInvisible == GenerationSpec => []CachedIsUncached
<1>1. GInv => CachedIsUncached
  <2> SUFFICES ASSUME GInv, generating = "sample", NEW r \in Rows
               PROVE  Last(hidden[r]) = Last(Hidden(out[r])[Layers])
    BY DEF CachedIsUncached, GInv, GenerationTypes
  <2>1. PICK done \in 0..(Length - 1) : FedHolds(hidden, out, Layers, done, Length)
    BY DEF GInv
  <2>2. /\ Length \in Nat \ {0} /\ out[r] \in Seq(Tokens) /\ Len(out[r]) = Length
        /\ Layers \in 0..Layers
    BY GenerationAssumption DEF GInv, GenerationTypes
  <2>3. IsList(Hidden(out[r])[Layers], Length)
    BY <2>2, PassIsList
  <2>4. Last(Hidden(out[r])[Layers]) = Hidden(out[r])[Layers][Length]
    BY <2>2, <2>3, ListIs
  <2> DEFINE fed == Length - done
  <2>5. fed \in Nat /\ fed \in 1..fed /\ done + fed = Length
    BY <2>2
  <2>6. IsList(hidden[r], fed) /\ hidden[r][fed] = Hidden(out[r])[Layers][done + fed]
    BY <2>1, <2>5 DEF FedHolds
  <2> HIDE DEF fed
  <2>7. Last(hidden[r]) = hidden[r][fed]
    BY <2>5, <2>6, ListIs
  <2>8. QED BY <2>4, <2>5, <2>6, <2>7
<1>2. QED BY GenerationInvariance, <1>1, PTL

-----------------------------------------------------------------------------
(* The tokenizer: a pair merged from the left.                             *)

\* f[n] is what becomes of the first n ids.
MergesOn(f, n, s, pair, new) ==
    f = [i \in 0..n |-> IF i = 0 THEN <<>> ELSE Onto(f[i - 1], s[i], pair, new)]

\* A pair can be merged in any list.
LEMMA MergingExists ==
    ASSUME NEW s, NEW pair, NEW new, NEW count \in Nat
    PROVE  \E f : MergesOn(f, count, s, pair, new)
<1> DEFINE bad == {n \in Nat : ~ \E f : MergesOn(f, n, s, pair, new)}
<1> SUFFICES ASSUME bad # {} PROVE FALSE
  OBVIOUS
<1>1. bad \subseteq Nat
  OBVIOUS
<1> DEFINE m == Min(bad)
<1>2. m \in bad /\ m \in Nat /\ \A o \in bad : m <= o
  <2> HIDE DEF bad
  <2>1. QED BY <1>1, LeastIs
<1> HIDE DEF m
<1>3. m # 0
  <2> SUFFICES ASSUME m = 0 PROVE FALSE
    OBVIOUS
  <2> DEFINE g == [n \in 0..0 |-> <<>>]
  <2>1. MergesOn(g, 0, s, pair, new)
    BY DEF MergesOn
  <2> HIDE DEF g
  <2>2. QED BY <1>2, <2>1
<1>4. m - 1 \in Nat /\ m - 1 \notin bad
  <2>1. m - 1 \in Nat /\ ~(m <= m - 1)
    BY <1>2, <1>3
  <2> HIDE DEF bad
  <2>2. QED BY <1>2, <2>1
<1>5. PICK f : MergesOn(f, m - 1, s, pair, new)
  BY <1>4
<1> DEFINE here == Onto(f[m - 1], s[m], pair, new)
           g == [n \in 0..m |-> IF n < m THEN f[n] ELSE here]
<1> HIDE DEF here
<1>6. /\ g = [n \in 0..m |-> g[n]]
      /\ g[m] = here /\ \A n \in 0..(m - 1) : g[n] = f[n]
  BY <1>2, <1>3
<1> HIDE DEF g
<1>7. ASSUME NEW n \in 0..m
      PROVE  g[n] = IF n = 0 THEN <<>> ELSE Onto(g[n - 1], s[n], pair, new)
  <2>1. CASE n = m
    <3>1. n # 0 /\ n - 1 \in 0..(m - 1)
      BY <1>2, <1>3, <2>1
    <3>2. QED BY <1>6, <2>1, <3>1 DEF here
  <2>2. CASE n # m
    <3>1. n \in 0..(m - 1) /\ (n = 0 \/ n - 1 \in 0..(m - 1))
      BY <1>2, <2>2
    <3>2. f[n] = IF n = 0 THEN <<>> ELSE Onto(f[n - 1], s[n], pair, new)
      BY <1>5, <3>1 DEF MergesOn
    <3>3. QED BY <1>6, <3>1, <3>2
  <2>3. QED BY <2>1, <2>2
<1>8. MergesOn(g, m, s, pair, new)
  BY <1>6, <1>7 DEF MergesOn
<1>9. QED BY <1>2, <1>8

\* It goes from the left: what comes later does not matter.
LEMMA MergingAgrees ==
    ASSUME NEW m \in Nat, NEW n \in Nat, m <= n, NEW s, NEW t, \A i \in 1..m : s[i] = t[i],
           NEW pair, NEW new,
           NEW f, MergesOn(f, m, s, pair, new), NEW g, MergesOn(g, n, t, pair, new)
    PROVE  \A i \in 0..m : f[i] = g[i]
<1> DEFINE bad == {i \in 0..m : f[i] # g[i]}
<1> SUFFICES ASSUME bad # {} PROVE FALSE
  OBVIOUS
<1> DEFINE l == Min(bad)
<1>1. l \in bad /\ l \in 0..m /\ \A o \in bad : l <= o
  <2>1. bad \subseteq Nat /\ bad \subseteq 0..m
    OBVIOUS
  <2> HIDE DEF bad
  <2>2. QED BY <2>1, LeastIs
<1> HIDE DEF l, bad
<1> l \in 0..m /\ l \in 0..n
  BY <1>1
<1>2. /\ f[l] = IF l = 0 THEN <<>> ELSE Onto(f[l - 1], s[l], pair, new)
      /\ g[l] = IF l = 0 THEN <<>> ELSE Onto(g[l - 1], t[l], pair, new)
  BY DEF MergesOn
<1>3. l # 0 => f[l - 1] = g[l - 1] /\ s[l] = t[l]
  <2> SUFFICES ASSUME l # 0 PROVE f[l - 1] = g[l - 1] /\ s[l] = t[l]
    OBVIOUS
  <2>1. l - 1 \in 0..m /\ ~(l <= l - 1) /\ l \in 1..m
    BY <1>1
  <2>2. QED BY <1>1, <2>1 DEF bad
<1>4. f[l] = g[l]
  BY <1>2, <1>3
<1>5. QED BY <1>1, <1>4 DEF bad

\* What becomes of the first n ids.
Merging(s, n, pair, new) == MergePair(SubSeq(s, 1, n), pair, new)

\* MergePair goes id by id.
LEMMA MergingIs ==
    ASSUME NEW T, NEW s \in Seq(T), NEW pair, NEW new
    PROVE  /\ Len(s) \in Nat
           /\ Merging(s, 0, pair, new) = <<>>
           /\ \A n \in 1..Len(s) :
                 Merging(s, n, pair, new) = Onto(Merging(s, n - 1, pair, new), s[n], pair, new)
           /\ Merging(s, Len(s), pair, new) = MergePair(s, pair, new)
<1> DEFINE l == Len(s)
<1>1. l \in Nat /\ SubSeq(s, 1, l) = s
  OBVIOUS
<1>2. PICK f : MergesOn(f, l, s, pair, new)
  BY <1>1, MergingExists
<1>3. ASSUME NEW n \in 0..l PROVE Merging(s, n, pair, new) = f[n]
  <2> DEFINE t == SubSeq(s, 1, n)
  <2>1. n \in Nat /\ n <= l /\ Len(t) = n /\ \A i \in 1..n : t[i] = s[i]
    BY <1>1
  <2> HIDE DEF t, l
  <2>2. PICK g : MergesOn(g, n, t, pair, new)
    BY <2>1, MergingExists
  <2> DEFINE onto == CHOOSE h : h = [i \in 0..n |-> IF i = 0 THEN <<>>
                                                ELSE Onto(h[i - 1], t[i], pair, new)]
  <2>3. MergePair(t, pair, new) = onto[n]
    BY <2>1, Zenon DEF MergePair
  <2>4. MergesOn(onto, n, t, pair, new)
    BY <2>2 DEF MergesOn
  <2> HIDE DEF onto
  <2>5. \A i \in 0..n : onto[i] = f[i]
    BY <1>1, <1>2, <2>1, <2>4, MergingAgrees
  <2>6. n \in 0..n
    BY <2>1
  <2>7. QED BY <2>3, <2>5, <2>6 DEF Merging, t
<1>4. \A n \in 0..l : f[n] = IF n = 0 THEN <<>> ELSE Onto(f[n - 1], s[n], pair, new)
  BY <1>2 DEF MergesOn
<1>5. Merging(s, 0, pair, new) = <<>>
  <2>1. 0 \in 0..l
    BY <1>1
  <2>2. QED BY <1>3, <1>4, <2>1
<1>6. ASSUME NEW n \in 1..l
      PROVE  Merging(s, n, pair, new) = Onto(Merging(s, n - 1, pair, new), s[n], pair, new)
  <2>1. n \in 0..l /\ n - 1 \in 0..l /\ n # 0
    BY <1>1
  <2>2. QED BY <1>3, <1>4, <2>1
<1>7. Merging(s, l, pair, new) = MergePair(s, pair, new)
  BY <1>1 DEF Merging
<1>8. QED BY <1>1, <1>5, <1>6, <1>7

\* A list without its last.
LEMMA FrontIs ==
    ASSUME NEW T, NEW s \in Seq(T), s # <<>>
    PROVE  /\ Front(s) \in Seq(T) /\ Len(Front(s)) = Len(s) - 1
           /\ \A i \in 1..(Len(s) - 1) : Front(s)[i] = s[i]
           /\ Last(s) = s[Len(s)] /\ Last(s) \in T /\ Len(s) \in Nat \ {0}
           /\ s = Append(Front(s), Last(s))
<1> DEFINE n == Len(s)
           front == Front(s)
           last == Last(s)
<1>1. n \in Nat \ {0} /\ last = s[n] /\ front = SubSeq(s, 1, n - 1)
  BY DEF Last, Front
<1>2. last \in T
  BY <1>1
<1>3. /\ front \in Seq(T) /\ Len(front) = n - 1 /\ n - 1 \in Nat
      /\ \A i \in 1..(n - 1) : front[i] = s[i]
  <2> HIDE DEF n, front
  <2>1. n - 1 \in Nat /\ n - 1 <= n /\ s \in Seq(T) /\ \A i \in 1..n : s[i] \in T
    BY <1>1 DEF n
  <2>2. \A i \in 1..(n - 1) : s[i] \in T
    BY <1>1, <2>1
  <2>3. front \in Seq(T) /\ Len(front) = n - 1
    BY <1>1, <2>1, <2>2, SubSeqProperties
  <2>4. QED BY <1>1, <2>1, <2>2, <2>3, SubSeqProperties
<1>4. s = Append(front, last)
  <2> HIDE DEF front, last
  <2>1. QED BY <1>1, <1>2, <1>3
<1>5. QED BY <1>1, <1>2, <1>3, <1>4

\* An id goes behind the others, or merges with the last of them.
LEMMA OntoIs ==
    ASSUME NEW T, NEW acc \in Seq(T), NEW x \in T, NEW pair, NEW new \in T
    PROVE  \/ /\ acc # <<>> /\ Len(acc) # 0 /\ acc[Len(acc)] = pair[1] /\ x = pair[2]
              /\ \E front \in Seq(T) : /\ Len(front) = Len(acc) - 1
                                       /\ \A i \in 1..(Len(acc) - 1) : front[i] = acc[i]
                                       /\ acc = Append(front, pair[1])
                                       /\ Onto(acc, x, pair, new) = Append(front, new)
           \/ /\ acc = <<>> \/ acc[Len(acc)] # pair[1] \/ x # pair[2]
              /\ Onto(acc, x, pair, new) = Append(acc, x)
<1>1. CASE acc # <<>> /\ Last(acc) = pair[1] /\ x = pair[2]
  <2> DEFINE front == Front(acc)
  <2>1. Onto(acc, x, pair, new) = Append(front, new)
    BY <1>1 DEF Onto
  <2>2. /\ front \in Seq(T) /\ Len(front) = Len(acc) - 1 /\ Len(acc) # 0
        /\ \A i \in 1..(Len(acc) - 1) : front[i] = acc[i]
        /\ Last(acc) = acc[Len(acc)] /\ acc = Append(front, Last(acc))
    BY <1>1, FrontIs
  <2> HIDE DEF front
  <2>3. QED BY <1>1, <2>1, <2>2
<1>2. CASE ~(acc # <<>> /\ Last(acc) = pair[1] /\ x = pair[2])
  <2>1. Onto(acc, x, pair, new) = Append(acc, x)
    BY <1>2 DEF Onto
  <2>2. QED BY <1>2, <2>1 DEF Last
<1>3. QED BY <1>1, <1>2

\* f gives each id its bytes.
Spells(f, T) == f \in [T -> ByteWords]

\* A pair is merged into an id of the same bytes.
SpellsPair(f, T, pair, new) == /\ {pair[1], pair[2], new} \subseteq T
                               /\ f[new] = f[pair[1]] \o f[pair[2]]

\* The bytes of a list of ids, f giving those of each.
Spelled(f, s) == FlattenSeq([i \in DOMAIN s |-> f[s[i]]])

\* In v, the bytes of x follow those of u.
SpellsAfter(f, u, x, v) == Spelled(f, v) = Spelled(f, u) \o f[x]

\* One more id, its bytes behind the others.
LEMMA SpelledAppend ==
    ASSUME NEW T, NEW f, Spells(f, T), NEW s \in Seq(T), NEW x \in T
    PROVE  /\ Spelled(f, s) \in ByteWords
           /\ Spelled(f, Append(s, x)) = Spelled(f, s) \o f[x]
<1> DEFINE V == Seq(0..(Bytes - 1))
           u == [i \in DOMAIN s |-> f[s[i]]]
           v == [i \in DOMAIN Append(s, x) |-> f[Append(s, x)[i]]]
           n == Len(s)
<1>1. /\ n \in Nat /\ DOMAIN s = 1..n /\ \A i \in 1..n : s[i] \in T
      /\ DOMAIN Append(s, x) = 1..(n + 1) /\ Append(s, x)[n + 1] = x
      /\ \A i \in 1..n : Append(s, x)[i] = s[i]
  OBVIOUS
<1> HIDE DEF V
<1>2. f \in [T -> V]
  BY DEF V, Spells, ByteWords
<1>3. u \in [1..n -> V] /\ f[x] \in V
  BY <1>1, <1>2
<1>4. u \in Seq(V) /\ Len(u) = n
  <2> HIDE DEF u, n
  <2>1. QED BY <1>1, <1>3
<1>5. v = Append(u, f[x])
  <2>1. /\ DOMAIN v = 1..(n + 1) /\ v[n + 1] = f[x]
        /\ \A i \in 1..n : v[i] = u[i]
        /\ v = [i \in 1..(n + 1) |-> v[i]]
    BY <1>1
  <2> HIDE DEF u, v, n
  <2>2. /\ DOMAIN Append(u, f[x]) = 1..(n + 1) /\ Append(u, f[x])[n + 1] = f[x]
        /\ \A i \in 1..n : Append(u, f[x])[i] = u[i]
        /\ Append(u, f[x]) \in Seq(V) /\ Len(Append(u, f[x])) = n + 1
    BY <1>1, <1>3, <1>4
  <2>3. \A i \in 1..(n + 1) : i \in 1..n \/ i = n + 1
    BY <1>1
  <2>4. \A i \in 1..(n + 1) : v[i] = Append(u, f[x])[i]
    BY <2>1, <2>2, <2>3
  <2>5. Append(u, f[x]) = [i \in 1..(n + 1) |-> Append(u, f[x])[i]]
    BY <2>2
  <2>6. QED BY <2>1, <2>4, <2>5
<1>6. u \in Seq(Seq(0..(Bytes - 1))) /\ f[x] \in Seq(0..(Bytes - 1))
  BY <1>3, <1>4 DEF V
<1> HIDE DEF u, v
<1>7. FlattenSeq(v) = FlattenSeq(u) \o f[x] /\ FlattenSeq(u) \in Seq(0..(Bytes - 1))
  BY <1>5, <1>6, FlattenAppend, FlattenIn
<1>8. QED BY <1>7 DEF Spelled, u, v, ByteWords

\* Of no id, no bytes.
LEMMA SpelledNone == ASSUME NEW f PROVE Spelled(f, <<>>) = <<>>
<1> DEFINE u == [i \in DOMAIN <<>> |-> f[<<>>[i]]]
<1>1. u = <<>>
  OBVIOUS
<1>2. FlattenSeq(<<>>) = <<>>
  BY Len(<<>>) = 0, Zenon DEF FlattenSeq
<1>3. QED BY <1>1, <1>2 DEF Spelled

\* Merging an id with the one before it changes no bytes.
LEMMA OntoSpells ==
    ASSUME NEW T, NEW f, Spells(f, T), NEW acc \in Seq(T), NEW x \in T,
           NEW pair, NEW new, SpellsPair(f, T, pair, new)
    PROVE  /\ Onto(acc, x, pair, new) \in Seq(T)
           /\ Onto(acc, x, pair, new) # <<>>
           /\ SpellsAfter(f, acc, x, Onto(acc, x, pair, new))
<1>1. CASE Onto(acc, x, pair, new) = Append(acc, x)
  <2>1. Append(acc, x) \in Seq(T) /\ Append(acc, x) # <<>>
    BY AppendProperties
  <2>2. QED BY <1>1, <2>1, SpelledAppend DEF SpellsAfter
<1>2. CASE Onto(acc, x, pair, new) # Append(acc, x)
  <2> DEFINE a == pair[1]
             b == pair[2]
  <2>0. a \in T /\ b \in T /\ new \in T /\ f[new] = f[a] \o f[b]
    BY DEF SpellsPair
  <2>1. PICK front \in Seq(T) : /\ acc = Append(front, a)
                                /\ Onto(acc, x, pair, new) = Append(front, new)
    BY <1>2, <2>0, OntoIs
  <2>2. x = b
    BY <1>2, <2>0, OntoIs
  <2> HIDE DEF a, b
  <2>3. /\ Spelled(f, acc) = Spelled(f, front) \o f[a]
        /\ Spelled(f, Append(front, new)) = Spelled(f, front) \o f[new]
        /\ Spelled(f, front) \in ByteWords
    <3>1. /\ Spelled(f, Append(front, a)) = Spelled(f, front) \o f[a]
          /\ Spelled(f, Append(front, new)) = Spelled(f, front) \o f[new]
          /\ Spelled(f, front) \in ByteWords
      <4>1. /\ Spelled(f, Append(front, a)) = Spelled(f, front) \o f[a]
            /\ Spelled(f, front) \in ByteWords
        BY <2>0, SpelledAppend, Zenon
      <4>2. Spelled(f, Append(front, new)) = Spelled(f, front) \o f[new]
        BY <2>0, SpelledAppend, Zenon
      <4>3. QED BY <4>1, <4>2
    <3>2. QED BY <2>1, <3>1
  <2>4. f[a] \in ByteWords /\ f[b] \in ByteWords
    BY <2>0 DEF Spells
  <2>5. Spelled(f, front) \o (f[a] \o f[b]) = (Spelled(f, front) \o f[a]) \o f[b]
    <3> DEFINE p == Spelled(f, front)
               q == f[a]
               r == f[b]
    <3> HIDE DEF p, q, r
    <3>1. p \in Seq(0..(Bytes - 1)) /\ q \in Seq(0..(Bytes - 1)) /\ r \in Seq(0..(Bytes - 1))
      BY <2>3, <2>4 DEF p, q, r, ByteWords
    <3>2. p \o (q \o r) = (p \o q) \o r
      BY ONLY <3>1, ConcatAssociative
    <3>3. QED BY <3>2 DEF p, q, r
  <2>6. Append(front, new) \in Seq(T) /\ Append(front, new) # <<>>
    BY <2>0, AppendProperties
  <2>7. QED BY <2>0, <2>1, <2>2, <2>3, <2>5, <2>6 DEF SpellsAfter
<1>3. QED BY <1>1, <1>2

\* Merging a pair changes no bytes.
LEMMA MergeSpells ==
    ASSUME NEW T, NEW f, Spells(f, T), NEW s \in Seq(T),
           NEW pair, NEW new, SpellsPair(f, T, pair, new)
    PROVE  /\ MergePair(s, pair, new) \in Seq(T)
           /\ Spelled(f, MergePair(s, pair, new)) = Spelled(f, s)
<1> DEFINE acc(n) == Merging(s, n, pair, new)
           good(n) == /\ acc(n) \in Seq(T)
                      /\ Spelled(f, acc(n)) = Spelled(f, SubSeq(s, 1, n))
           bad == {n \in 0..Len(s) : ~good(n)}
           m == Min(bad)
<1>1. /\ Len(s) \in Nat /\ acc(0) = <<>>
      /\ \A n \in 1..Len(s) : acc(n) = Onto(acc(n - 1), s[n], pair, new)
      /\ acc(Len(s)) = MergePair(s, pair, new)
  BY MergingIs
<1> HIDE DEF acc
<1>2. ASSUME bad # {} PROVE FALSE
  <2>1. m \in bad /\ m \in 0..Len(s) /\ \A o \in bad : m <= o
    <3>1. bad \subseteq Nat /\ bad \subseteq 0..Len(s)
      BY <1>1
    <3> HIDE DEF bad
    <3>2. QED BY <1>2, <3>1, LeastIs
  <2> HIDE DEF m
  <2>2. m # 0
    <3>1. <<>> \in Seq(T) /\ SubSeq(s, 1, 0) = <<>>
      OBVIOUS
    <3>2. good(0)
      BY <1>1, <3>1
    <3>3. QED BY <2>1, <3>2
  <2>3. m - 1 \in 0..Len(s) /\ m \in 1..Len(s) /\ ~(m <= m - 1)
    BY <1>1, <2>1, <2>2
  <2>4. good(m - 1)
    <3> HIDE DEF good
    <3>1. m - 1 \notin bad
      <4> HIDE DEF bad
      <4>1. QED BY <2>1, <2>3
    <3>2. QED BY <2>3, <3>1
  <2> DEFINE x == s[m]
             t == SubSeq(s, 1, m - 1)
  <2>5. /\ x \in T /\ t \in Seq(T)
        /\ SubSeq(s, 1, m) = Append(t, x)
        /\ acc(m) = Onto(acc(m - 1), x, pair, new)
    BY <1>1, <2>3
  <2> DEFINE a == acc(m - 1)
             b == acc(m)
  <2> HIDE DEF x
  <2>6. a \in Seq(T) /\ Spelled(f, a) = Spelled(f, t) /\ b = Onto(a, x, pair, new)
    BY <2>4, <2>5
  <2> HIDE DEF a, b, t
  <2>7. b \in Seq(T) /\ Spelled(f, b) = Spelled(f, a) \o f[x]
    <3>1. /\ Onto(a, x, pair, new) \in Seq(T)
          /\ Spelled(f, Onto(a, x, pair, new)) = Spelled(f, a) \o f[x]
      <4>1. Onto(a, x, pair, new) \in Seq(T)
        BY <2>5, <2>6, OntoSpells
      <4>2. SpellsAfter(f, a, x, Onto(a, x, pair, new))
        BY <2>5, <2>6, OntoSpells
      <4>3. QED BY <4>1, <4>2 DEF SpellsAfter
    <3>2. QED BY <2>6, <3>1
  <2>8. Spelled(f, Append(t, x)) = Spelled(f, t) \o f[x]
    BY <2>5, SpelledAppend
  <2>9. good(m)
    BY <2>5, <2>6, <2>7, <2>8 DEF b
  <2>10. QED BY <2>1, <2>9
<1>3. good(Len(s)) /\ SubSeq(s, 1, Len(s)) = s
  BY <1>1, <1>2
<1>4. QED BY <1>1, <1>3

-----------------------------------------------------------------------------
(* What a merge leaves.                                                    *)

\* Adjacent ids of a longer list.
LEMMA PairsAppend ==
    ASSUME NEW T, NEW u \in Seq(T), NEW x \in T
    PROVE  /\ \A p \in Pairs(Append(u, x)) : p \in Pairs(u) \/ (u # <<>> /\ p = <<u[Len(u)], x>>)
           /\ Pairs(u) \subseteq Pairs(Append(u, x))
<1> DEFINE n == Len(u)
           v == Append(u, x)
<1>1. n \in Nat /\ Len(v) = n + 1 /\ v[n + 1] = x /\ \A i \in 1..n : v[i] = u[i]
      /\ (n # 0 => u # <<>>)
  OBVIOUS
<1> HIDE DEF v
<1>2. ASSUME NEW p \in Pairs(v) PROVE p \in Pairs(u) \/ (u # <<>> /\ p = <<u[n], x>>)
  <2>1. PICK i \in 1..(Len(v) - 1) : p = <<v[i], v[i + 1]>>
    BY DEF Pairs
  <2>2. CASE i = n
    BY <1>1, <2>1, <2>2
  <2>3. CASE i # n
    <3>1. i \in 1..(n - 1) /\ i \in 1..n /\ i + 1 \in 1..n
      BY <1>1, <2>1, <2>3
    <3>2. p = <<u[i], u[i + 1]>>
      BY <1>1, <2>1, <3>1
    <3>3. QED BY <3>1, <3>2 DEF Pairs
  <2>4. QED BY <2>2, <2>3
<1>3. ASSUME NEW p \in Pairs(u) PROVE p \in Pairs(v)
  <2>1. PICK i \in 1..(n - 1) : p = <<u[i], u[i + 1]>>
    BY DEF Pairs
  <2>2. i \in 1..(Len(v) - 1) /\ i \in 1..n /\ i + 1 \in 1..n
    BY <1>1, <2>1
  <2>3. p = <<v[i], v[i + 1]>>
    BY <1>1, <2>1, <2>2
  <2>4. QED BY <2>2, <2>3 DEF Pairs
<1>4. QED BY <1>2, <1>3 DEF v

\* A pair can be merged away: it is one of old ids, the merged id is new.
CanMerge(pair, new, T) == /\ pair = <<pair[1], pair[2]>>
                          /\ pair[1] \in T /\ pair[2] \in T /\ new \notin T

\* What merging has left of the first n ids: adjacent old ids were adjacent before, and
\* are not the pair.
Left(acc, s, n, pair, new, T) ==
    /\ acc \in Seq(T \cup {new})
    /\ acc # <<>> => n # 0 /\ acc[Len(acc)] \in {s[n], new}
    /\ \A p \in Pairs(acc) : p # pair /\ (p[1] # new /\ p[2] # new => p \in Pairs(s))

\* The next id.
LEMMA OntoLeaves ==
    ASSUME NEW T, NEW s \in Seq(T), NEW n \in 0..(Len(s) - 1), NEW pair, NEW new,
           CanMerge(pair, new, T), NEW acc, Left(acc, s, n, pair, new, T)
    PROVE  Left(Onto(acc, s[n + 1], pair, new), s, n + 1, pair, new, T)
<1> DEFINE W == T \cup {new}
           x == s[n + 1]
           r == Onto(acc, x, pair, new)
           a == pair[1]
           b == pair[2]
           l == Len(acc)
<1>0. /\ n + 1 \in 1..Len(s) /\ Len(s) \in Nat /\ n \in Nat /\ n + 1 # 0
      /\ x \in T /\ x \in W /\ new \in W /\ acc \in Seq(W) /\ l \in Nat
  BY DEF Left
<1>1. /\ a \in T /\ b \in T /\ a # new /\ b # new /\ pair = <<a, b>> /\ T \subseteq W /\ x # new
  BY <1>0 DEF CanMerge
<1>2. /\ acc # <<>> => n # 0 /\ (acc[l] = s[n] \/ acc[l] = new)
      /\ \A p \in Pairs(acc) : p # pair /\ (p[1] # new /\ p[2] # new => p \in Pairs(s))
  BY DEF Left
<1> HIDE DEF x, W, l
<1>3. CASE r # Append(acc, x)
  <2>1. PICK front \in Seq(W) : acc = Append(front, a) /\ r = Append(front, new)
    BY <1>0, <1>3, OntoIs
  <2>2. r \in Seq(W) /\ r[Len(r)] = new
    BY <1>0, <2>1
  <2>3. ASSUME NEW p \in Pairs(r)
        PROVE  p # pair /\ (p[1] # new /\ p[2] # new => p \in Pairs(s))
    <3>1. CASE p \in Pairs(front)
      <4>1. p \in Pairs(acc)
        BY <1>0, <1>1, <2>1, <3>1, PairsAppend
      <4>2. QED BY <1>2, <4>1
    <3>2. CASE p \notin Pairs(front)
      <4>1. p = <<front[Len(front)], new>>
        BY <1>0, <2>1, <2>3, <3>2, PairsAppend
      <4>2. QED BY <1>1, <4>1
    <3>3. QED BY <3>1, <3>2
  <2> HIDE DEF r
  <2>4. QED BY <1>0, <2>2, <2>3 DEF Left, W, x, r
<1>4. CASE r = Append(acc, x)
  <2>1. r \in Seq(W) /\ r[Len(r)] = x
    BY <1>0, <1>4
  <2>2. acc # <<>> => acc[l] # a \/ x # b
    <3> SUFFICES ASSUME acc # <<>>, acc[l] = a, x = b PROVE FALSE
      OBVIOUS
    <3>1. PICK front \in Seq(W) : Len(front) = l - 1 /\ r = Append(front, new)
      BY <1>0, OntoIs DEF l
    <3>2. r[Len(r)] = new
      BY <1>0, <3>1
    <3>3. QED BY <1>1, <2>1, <3>2
  <2>3. ASSUME NEW p \in Pairs(r)
        PROVE  p # pair /\ (p[1] # new /\ p[2] # new => p \in Pairs(s))
    <3>1. CASE p \in Pairs(acc)
      BY <1>2, <3>1
    <3>2. CASE p \notin Pairs(acc)
      <4>1. acc # <<>> /\ p = <<acc[l], x>>
        BY <1>0, <1>4, <2>3, <3>2, PairsAppend DEF l
      <4>2. p # pair
        BY <1>1, <2>2, <4>1
      <4>3. ASSUME p[1] # new PROVE p \in Pairs(s)
        <5>1. acc[l] = s[n] /\ n # 0
          BY <1>2, <4>1, <4>3
        <5>2. n \in 1..(Len(s) - 1) /\ p = <<s[n], s[n + 1]>>
          BY <1>0, <4>1, <5>1 DEF x
        <5>3. QED BY <5>2 DEF Pairs
      <4>4. QED BY <4>2, <4>3
    <3>3. QED BY <3>1, <3>2
  <2> HIDE DEF r
  <2>4. QED BY <1>0, <2>1, <2>3 DEF Left, W, x, r
<1>5. QED BY <1>3, <1>4

\* A pair merged is gone, and no other pair of old ids comes up.
LEMMA MergeLeaves ==
    ASSUME NEW T, NEW s \in Seq(T), NEW pair, NEW new, CanMerge(pair, new, T)
    PROVE  /\ MergePair(s, pair, new) \in Seq(T \cup {new})
           /\ pair \notin Pairs(MergePair(s, pair, new))
           /\ \A p \in Pairs(MergePair(s, pair, new)) :
                 p[1] # new /\ p[2] # new => p \in Pairs(s)
<1> DEFINE acc(n) == Merging(s, n, pair, new)
           good(n) == Left(acc(n), s, n, pair, new, T)
           bad == {n \in 0..Len(s) : ~good(n)}
           m == Min(bad)
<1>1. /\ Len(s) \in Nat /\ acc(0) = <<>>
      /\ \A n \in 1..Len(s) : acc(n) = Onto(acc(n - 1), s[n], pair, new)
      /\ acc(Len(s)) = MergePair(s, pair, new)
  BY MergingIs
<1> HIDE DEF acc
<1>2. ASSUME bad # {} PROVE FALSE
  <2>1. m \in bad /\ m \in 0..Len(s) /\ \A o \in bad : m <= o
    <3>1. bad \subseteq Nat /\ bad \subseteq 0..Len(s)
      BY <1>1
    <3> HIDE DEF bad
    <3>2. QED BY <1>2, <3>1, LeastIs
  <2> HIDE DEF m
  <2>2. m # 0
    <3>1. <<>> \in Seq(T \cup {new})
      OBVIOUS
    <3>2. Pairs(<<>>) = {}
      BY DEF Pairs
    <3>3. good(0)
      BY <1>1, <3>1, <3>2 DEF Left
    <3>4. QED BY <2>1, <3>3
  <2> DEFINE k == m - 1
  <2>3. /\ k \in 0..Len(s) /\ m \in 1..Len(s) /\ ~(m <= k) /\ k \in 0..(Len(s) - 1)
        /\ m = k + 1
    BY <1>1, <2>1, <2>2
  <2>4. good(k)
    <3> HIDE DEF good
    <3>1. k \notin bad
      <4> HIDE DEF bad
      <4>1. QED BY <2>1, <2>3
    <3>2. QED BY <2>3, <3>1
  <2>5. acc(m) = Onto(acc(k), s[k + 1], pair, new)
    BY <1>1, <2>3
  <2> HIDE DEF k
  <2>6. Left(Onto(acc(k), s[k + 1], pair, new), s, k + 1, pair, new, T)
    <3> DEFINE u == acc(k)
    <3>1. Left(u, s, k, pair, new, T)
      BY <2>4
    <3> HIDE DEF u
    <3>2. Left(Onto(u, s[k + 1], pair, new), s, k + 1, pair, new, T)
      BY <2>3, <3>1, OntoLeaves
    <3>3. QED BY <3>2 DEF u
  <2>7. good(m)
    BY <2>3, <2>5, <2>6
  <2>8. QED BY <2>1, <2>7
<1>3. Left(MergePair(s, pair, new), s, Len(s), pair, new, T)
  BY <1>1, <1>2
<1>4. QED BY <1>3 DEF Left

\* A prefix and the element behind it.
LEMMA PrefixGrows ==
    ASSUME NEW T, NEW s \in Seq(T), NEW m \in 1..Len(s)
    PROVE  /\ SubSeq(s, 1, m - 1) \in Seq(T) /\ Len(SubSeq(s, 1, m - 1)) = m - 1
           /\ \A i \in 1..(m - 1) : SubSeq(s, 1, m - 1)[i] = s[i]
           /\ SubSeq(s, 1, m) = Append(SubSeq(s, 1, m - 1), s[m]) /\ s[m] \in T
OBVIOUS

\* Merging a pair that is not there changes nothing.
LEMMA MergeAbsent ==
    ASSUME NEW T, NEW s \in Seq(T), NEW pair, pair = <<pair[1], pair[2]>>, pair \notin Pairs(s),
           NEW new
    PROVE  MergePair(s, pair, new) = s
<1> DEFINE acc(n) == Merging(s, n, pair, new)
           good(n) == acc(n) = SubSeq(s, 1, n)
           bad == {n \in 0..Len(s) : ~good(n)}
           m == Min(bad)
<1>1. /\ Len(s) \in Nat /\ acc(0) = <<>>
      /\ \A n \in 1..Len(s) : acc(n) = Onto(acc(n - 1), s[n], pair, new)
      /\ acc(Len(s)) = MergePair(s, pair, new)
  BY MergingIs
<1> HIDE DEF acc
<1>2. ASSUME bad # {} PROVE FALSE
  <2>1. m \in bad /\ m \in 0..Len(s) /\ \A o \in bad : m <= o
    <3>1. bad \subseteq Nat /\ bad \subseteq 0..Len(s)
      BY <1>1
    <3> HIDE DEF bad
    <3>2. QED BY <1>2, <3>1, LeastIs
  <2> HIDE DEF m
  <2>2. m # 0
    <3>1. SubSeq(s, 1, 0) = <<>>
      OBVIOUS
    <3>2. good(0)
      BY <1>1, <3>1
    <3>3. QED BY <2>1, <3>2
  <2> DEFINE k == m - 1
             t == SubSeq(s, 1, k)
             x == s[m]
  <2>3. /\ k \in 0..Len(s) /\ m \in 1..Len(s) /\ ~(m <= k) /\ k \in 0..(Len(s) - 1)
        /\ m = k + 1
    BY <1>1, <2>1, <2>2
  <2>4. good(k)
    <3> HIDE DEF good
    <3>1. k \notin bad
      <4> HIDE DEF bad
      <4>1. QED BY <2>1, <2>3
    <3>2. QED BY <2>3, <3>1
  <2>5. acc(m) = Onto(t, x, pair, new) /\ SubSeq(s, 1, m) = Append(t, x)
        /\ t \in Seq(T) /\ Len(t) = k /\ x \in T
    <3>1. t \in Seq(T) /\ Len(t) = k /\ x \in T /\ SubSeq(s, 1, m) = Append(t, x)
      BY <2>3, PrefixGrows
    <3>2. acc(m) = Onto(acc(k), x, pair, new) /\ acc(k) = t
      BY <1>1, <2>3, <2>4
    <3>3. QED BY <3>1, <3>2
  <2>6. t # <<>> => t[Len(t)] = s[k] /\ k \in 1..(Len(s) - 1)
    <3>1. \A i \in 1..k : t[i] = s[i]
      BY <2>3, PrefixGrows
    <3>2. t # <<>> => k # 0
      BY <2>5
    <3>3. QED BY <2>3, <2>5, <3>1, <3>2
  <2> HIDE DEF t
  <2>7. ASSUME t # <<>>, Last(t) = pair[1], x = pair[2] PROVE FALSE
    <3>1. Last(t) = t[Len(t)]
      BY DEF Last
    <3>2. pair = <<s[k], s[k + 1]>> /\ k \in 1..(Len(s) - 1)
      BY <2>3, <2>6, <2>7, <3>1
    <3>3. QED BY <3>2 DEF Pairs
  <2>8. Onto(t, x, pair, new) = Append(t, x)
    BY <2>7 DEF Onto
  <2>9. QED BY <2>1, <2>5, <2>8
<1>3. good(Len(s)) /\ SubSeq(s, 1, Len(s)) = s
  BY <1>1, <1>2
<1>4. QED BY <1>1, <1>3

-----------------------------------------------------------------------------
(* The best pair.                                                          *)

\* A finite set of numbers has a greatest one.
LEMMA FiniteMost ==
    ASSUME NEW S, S \subseteq Nat, S # {}, IsFiniteSet(S)
    PROVE  \E m \in S : \A n \in S : n <= m
<1> DEFINE most(X) == \E m \in X : \A n \in X : n <= m
           ofSize(k) == {X \in SUBSET Nat : X # {} /\ IsFiniteSet(X) /\ Cardinality(X) = k}
           bad == {k \in Nat : \E X \in ofSize(k) : ~most(X)}
           k == Min(bad)
<1>1. ASSUME bad # {} PROVE FALSE
  <2>1. k \in bad /\ k \in Nat /\ \A o \in bad : k <= o
    <3>1. bad \subseteq Nat
      OBVIOUS
    <3> HIDE DEF bad
    <3>2. QED BY <1>1, <3>1, LeastIs
  <2> HIDE DEF k
  <2>2. PICK X \in ofSize(k) : ~most(X)
    BY <2>1
  <2>3. PICK x \in X : TRUE
    BY <2>2
  <2> DEFINE Y == X \ {x}
  <2>4. X \subseteq Nat /\ IsFiniteSet(X) /\ Cardinality(X) = k /\ x \in Nat
    BY <2>2, <2>3
  <2>5. IsFiniteSet(Y) /\ Cardinality(Y) = k - 1
    BY <2>3, <2>4, FS_RemoveElement
  <2>6. k - 1 \in Nat /\ ~(k <= k - 1)
    <3>1. Cardinality(Y) \in Nat
      BY <2>5, FS_CardinalityType
    <3>2. QED BY <2>1, <2>5, <3>1
  <2>7. most(Y) \/ Y = {}
    <3> SUFFICES ASSUME Y # {} PROVE most(Y)
      OBVIOUS
    <3>1. Y \in ofSize(k - 1)
      BY <2>4, <2>5
    <3> HIDE DEF ofSize, most
    <3>2. k - 1 \notin bad
      <4> HIDE DEF bad
      <4>1. QED BY <2>1, <2>6
    <3>3. QED BY <2>6, <3>1, <3>2
  <2>8. CASE Y = {}
    <3>1. \A n \in X : n = x
      BY <2>8
    <3>2. most(X)
      BY <2>3, <2>4, <3>1
    <3>3. QED BY <2>2, <3>2
  <2>9. CASE most(Y)
    <3>1. PICK y \in Y : \A n \in Y : n <= y
      BY <2>9
    <3>2. y \in Nat /\ y \in X /\ (\A n \in X : n \in Y \/ n = x)
      BY <2>4, <3>1
    <3>3. CASE x <= y
      <4>1. \A n \in X : n <= y
        BY <3>1, <3>2, <3>3
      <4>2. QED BY <2>2, <3>2, <4>1
    <3>4. CASE ~(x <= y)
      <4>1. \A n \in X : n <= x
        BY <2>4, <3>1, <3>2, <3>4
      <4>2. QED BY <2>2, <2>3, <4>1
    <3>5. QED BY <3>3, <3>4
  <2>10. QED BY <2>7, <2>8, <2>9
<1>2. S \in ofSize(Cardinality(S)) /\ Cardinality(S) \in Nat
  BY FS_CardinalityType
<1>3. QED BY <1>1, <1>2

\* The image of a finite set under a function is finite.
LEMMA FiniteImage ==
    ASSUME NEW S, IsFiniteSet(S), NEW f, DOMAIN f = S, f = [x \in S |-> f[x]]
    PROVE  IsFiniteSet({f[x] : x \in S})
<1> DEFINE T == {f[x] : x \in S}
<1>1. f \in [S -> T]
  OBVIOUS
<1>2. \A t \in T : \E x \in S : f[x] = t
  OBVIOUS
<1> HIDE DEF T
<1>3. f \in Surjection(S, T)
  BY <1>1, <1>2 DEF Surjection
<1>4. IsFiniteSet(T)
  BY <1>3, FS_Surjection
<1>5. QED BY <1>4 DEF T

-----------------------------------------------------------------------------

\* A corpus cut into ids.
IsCut == /\ IsFiniteSet(DOMAIN freq)
         /\ \A w \in DOMAIN freq : freq[w] \in Nat /\ Len(seqs[w]) \in Nat
         /\ \A w \in DOMAIN freq : \A i \in 1..Len(seqs[w]) : seqs[w][i] \in Nat

\* Pairs are counted, and there are finitely many.
LEMMA PairsCount ==
    ASSUME IsCut
    PROVE  /\ IsFiniteSet(AllPairs)
           /\ \A p \in AllPairs : PairCount(p) \in Nat /\ p \in Nat \X Nat
<1>1. IsFiniteSet(AllPairs)
  <2>1. ASSUME NEW w \in DOMAIN freq PROVE IsFiniteSet(Pairs(seqs[w]))
    <3> DEFINE s == seqs[w]
               S == 1..(Len(s) - 1)
               f == [i \in S |-> <<s[i], s[i + 1]>>]
    <3>1. IsFiniteSet(S)
      <4>1. Len(s) - 1 \in Int
        BY DEF IsCut
      <4>2. QED BY <4>1, FS_Interval
    <3>2. DOMAIN f = S /\ f = [x \in S |-> f[x]]
      OBVIOUS
    <3>3. Pairs(s) = {f[i] : i \in S}
      BY DEF Pairs
    <3> HIDE DEF f, S
    <3>4. IsFiniteSet({f[i] : i \in S})
      BY <3>1, <3>2, FiniteImage
    <3>5. QED BY <3>3, <3>4
  <2> DEFINE f == [w \in DOMAIN freq |-> Pairs(seqs[w])]
  <2>2. DOMAIN f = DOMAIN freq /\ f = [x \in DOMAIN freq |-> f[x]]
        /\ \A w \in DOMAIN freq : f[w] = Pairs(seqs[w])
    OBVIOUS
  <2>3. AllPairs = UNION {f[w] : w \in DOMAIN freq}
    BY DEF AllPairs
  <2> HIDE DEF f
  <2>4. IsFiniteSet({f[w] : w \in DOMAIN freq})
    BY <2>2, FiniteImage DEF IsCut
  <2>5. \A T \in {f[w] : w \in DOMAIN freq} : IsFiniteSet(T)
    BY <2>1, <2>2
  <2> DEFINE S == {f[w] : w \in DOMAIN freq}
  <2>6. IsFiniteSet(S) /\ (\A T \in S : IsFiniteSet(T)) /\ AllPairs = UNION S
    BY <2>3, <2>4, <2>5
  <2> HIDE DEF S
  <2>7. QED BY <2>6, FS_UNION
<1>2. ASSUME NEW p \in AllPairs PROVE PairCount(p) \in Nat
  <2> DEFINE here(w) == {w} \X (1..freq[w]) \X {i \in 1..(Len(seqs[w]) - 1) :
                                                 <<seqs[w][i], seqs[w][i + 1]>> = p}
             f == [w \in DOMAIN freq |-> here(w)]
             S == {f[w] : w \in DOMAIN freq}
  <2>1. ASSUME NEW w \in DOMAIN freq PROVE IsFiniteSet(here(w))
    <3> DEFINE A == {w}
               B == 1..freq[w]
               I == 1..(Len(seqs[w]) - 1)
               C == {i \in I : <<seqs[w][i], seqs[w][i + 1]>> = p}
               g(t) == <<t[1], t[2][1], t[2][2]>>
               h == [t \in A \X (B \X C) |-> g(t)]
    <3>1. IsFiniteSet(A) /\ IsFiniteSet(B) /\ IsFiniteSet(I)
      <4>1. freq[w] \in Int /\ Len(seqs[w]) - 1 \in Int /\ 1 \in Int
        BY DEF IsCut
      <4>2. QED BY <4>1, FS_Interval, FS_Singleton
    <3>2. IsFiniteSet(C)
      <4>1. C \in SUBSET I
        OBVIOUS
      <4>2. QED BY <3>1, <4>1, FS_Subset
    <3> HIDE DEF A, B, C
    <3>3. IsFiniteSet(B \X C)
      BY <3>1, <3>2, FS_Product
    <3>4. IsFiniteSet(A \X (B \X C))
      <4> DEFINE D == B \X C
      <4>1. IsFiniteSet(D)
        BY <3>3
      <4> HIDE DEF D
      <4>2. IsFiniteSet(A \X D)
        BY <3>1, <4>1, FS_Product
      <4>3. QED BY <4>2 DEF D
    <3>5. DOMAIN h = A \X (B \X C) /\ h = [x \in A \X (B \X C) |-> h[x]]
      OBVIOUS
    <3>6. A \X B \X C = {h[t] : t \in A \X (B \X C)}
      <4>1. ASSUME NEW t \in A \X (B \X C) PROVE h[t] \in A \X B \X C
        OBVIOUS
      <4>2. ASSUME NEW a \in A, NEW b \in B, NEW c \in C
            PROVE  <<a, b, c>> = h[<<a, <<b, c>>>>] /\ <<a, <<b, c>>>> \in A \X (B \X C)
        OBVIOUS
      <4> HIDE DEF h
      <4>3. ASSUME NEW x \in A \X B \X C PROVE x \in {h[t] : t \in A \X (B \X C)}
        <5>1. PICK a \in A, b \in B, c \in C : x = <<a, b, c>>
          OBVIOUS
        <5>2. x = h[<<a, <<b, c>>>>] /\ <<a, <<b, c>>>> \in A \X (B \X C)
          BY <4>2, <5>1
        <5> DEFINE X == A \X (B \X C)
                   t == <<a, <<b, c>>>>
        <5>3. x = h[t] /\ t \in X
          BY <5>2
        <5> HIDE DEF X, t
        <5>4. x \in {h[y] : y \in X}
          BY <5>3
        <5>5. QED BY <5>4 DEF X
      <4>4. QED BY <4>1, <4>3
    <3> HIDE DEF h
    <3>7. IsFiniteSet({h[t] : t \in A \X (B \X C)})
      <4> DEFINE X == A \X (B \X C)
      <4>1. IsFiniteSet(X) /\ DOMAIN h = X /\ h = [x \in X |-> h[x]]
        BY <3>4, <3>5
      <4> HIDE DEF X
      <4>2. IsFiniteSet({h[t] : t \in X})
        BY <4>1, FiniteImage
      <4>3. QED BY <4>2 DEF X
    <3>8. IsFiniteSet(A \X B \X C)
      BY <3>6, <3>7
    <3>9. QED BY <3>8 DEF A, B, C
  <2>2. PairCount(p) = Cardinality(UNION S)
    BY DEF PairCount
  <2> HIDE DEF here
  <2>3. DOMAIN f = DOMAIN freq /\ f = [x \in DOMAIN freq |-> f[x]]
        /\ \A w \in DOMAIN freq : f[w] = here(w)
    OBVIOUS
  <2> HIDE DEF f
  <2>4. IsFiniteSet(S)
    BY <2>3, FiniteImage DEF IsCut
  <2>5. \A T \in S : IsFiniteSet(T)
    BY <2>1, <2>3
  <2> HIDE DEF S
  <2>6. IsFiniteSet(UNION S)
    BY <2>4, <2>5, FS_UNION
  <2>7. QED BY <2>2, <2>6, FS_CardinalityType
<1>3. ASSUME NEW p \in AllPairs PROVE p \in Nat \X Nat
  <2>1. PICK w \in DOMAIN freq : p \in Pairs(seqs[w])
    BY DEF AllPairs
  <2>2. PICK i \in 1..(Len(seqs[w]) - 1) : p = <<seqs[w][i], seqs[w][i + 1]>>
    BY <2>1 DEF Pairs
  <2>3. i \in 1..Len(seqs[w]) /\ i + 1 \in 1..Len(seqs[w])
    BY DEF IsCut
  <2>4. QED BY <2>2, <2>3 DEF IsCut
<1>4. QED BY <1>1, <1>2, <1>3

\* There is a best pair, and it is one of them.
LEMMA BestPairIs == ASSUME IsCut, AllPairs # {} PROVE BestPair \in AllPairs
<1> DEFINE P == AllPairs
           f == [p \in P |-> PairCount(p)]
           counts == {f[p] : p \in P}
<1>1. IsFiniteSet(P) /\ \A p \in P : PairCount(p) \in Nat /\ p \in Nat \X Nat
  BY PairsCount
<1>2. P # {}
  OBVIOUS
<1> HIDE DEF P
<1>3. PICK m \in counts : \A n \in counts : n <= m
  <2>1. DOMAIN f = P /\ f = [x \in P |-> f[x]] /\ \A p \in P : f[p] \in Nat
    BY <1>1
  <2> HIDE DEF f
  <2>2. IsFiniteSet(counts)
    BY <1>1, <2>1, FiniteImage
  <2>3. counts \subseteq Nat /\ counts # {}
    BY <1>2, <2>1
  <2> HIDE DEF counts
  <2>4. QED BY <2>2, <2>3, FiniteMost
<1>4. m \in Nat /\ (\E p \in P : PairCount(p) = m) /\ \A p \in P : PairCount(p) <= m
  <2>1. \A p \in P : f[p] = PairCount(p) /\ f[p] \in counts
    OBVIOUS
  <2>2. PICK p \in P : f[p] = m
    BY <1>3
  <2> HIDE DEF f, counts
  <2>3. QED BY <1>1, <1>3, <2>1, <2>2
<1> HIDE DEF counts
<1> DEFINE top == {p \in P : PairCount(p) = m}
           firsts == {p[1] : p \in top}
<1>5. top \subseteq P /\ top # {} /\ \A p \in top : p[1] \in Nat /\ p[2] \in Nat /\ p = <<p[1], p[2]>>
  BY <1>1, <1>4
<1>6. \A p \in P : p \notin top => PairCount(p) < m
  BY <1>1, <1>4
<1>7. \A p \in top : PairCount(p) = m
  OBVIOUS
<1> HIDE DEF top
<1>8. PICK p1 \in top : \A p \in top : p1[1] <= p[1]
  <2>1. firsts \subseteq Nat /\ firsts # {}
    BY <1>5
  <2> HIDE DEF firsts
  <2>2. Min(firsts) \in firsts /\ \A n \in firsts : Min(firsts) <= n
    BY <2>1, LeastIs
  <2>3. QED BY <2>2 DEF firsts
<1> DEFINE seconds == {p[2] : p \in {q \in top : q[1] = p1[1]}}
<1>9. PICK p2 \in top : p2[1] = p1[1] /\ \A p \in top : p[1] = p1[1] => p2[2] <= p[2]
  <2>1. seconds \subseteq Nat /\ seconds # {}
    BY <1>5, <1>8
  <2> HIDE DEF seconds
  <2>2. Min(seconds) \in seconds /\ \A n \in seconds : Min(seconds) <= n
    BY <2>1, LeastIs
  <2>3. QED BY <2>2 DEF seconds
<1>10. ASSUME NEW q \in P \ {p2}
       PROVE  \/ PairCount(p2) > PairCount(q)
              \/ PairCount(p2) = PairCount(q) /\ Before(p2, q)
  <2>1. CASE q \in top
    <3>1. q[1] \in Nat /\ q[2] \in Nat /\ q = <<q[1], q[2]>> /\ p1[1] <= q[1]
          /\ p2[1] \in Nat /\ p2[2] \in Nat /\ p2 = <<p2[1], p2[2]>>
      BY <1>5, <1>8, <1>9, <2>1
    <3>2. p2[1] < q[1] \/ (p2[1] = q[1] /\ p2[2] < q[2])
      BY <1>9, <2>1, <3>1
    <3>3. QED BY <1>7, <1>9, <2>1, <3>2 DEF Before
  <2>2. CASE q \notin top
    <3>1. PairCount(q) < m /\ PairCount(q) \in Nat
      BY <1>1, <1>6, <2>2
    <3>2. QED BY <1>4, <1>7, <1>9, <3>1
  <2>3. QED BY <2>1, <2>2
<1>11. p2 \in P
  BY <1>5
<1>12. QED BY <1>10, <1>11 DEF BestPair, P

-----------------------------------------------------------------------------
(* What the ids spell.                                                     *)

\* The ids after n merges.
Ids(n) == 0..(Bytes + n - 1)

\* f gives the bytes of the ids after n of the merges M.
Vocab(f, n, M) ==
    f = [id \in Ids(n) |-> IF id < Bytes THEN <<id>>
                           ELSE f[M[id - Bytes + 1][1]] \o f[M[id - Bytes + 1][2]]]

\* Each merge is of ids there were before it.
OldPairs(M) == /\ M \in Seq(Nat \X Nat)
               /\ \A q \in 1..Len(M) : M[q][1] \in Ids(q - 1) /\ M[q][2] \in Ids(q - 1)

\* Merges are numbered one by one.
LEMMA IdsAre ==
    /\ Bytes \in Nat \ {0}
    /\ \A n \in Nat : /\ Bytes + n \notin Ids(n) /\ Ids(n + 1) = Ids(n) \cup {Bytes + n}
                      /\ Bytes + n \in Ids(n + 1) /\ Ids(n) \subseteq Nat
    /\ \A n \in Nat : \A m \in 0..n : Ids(m) \subseteq Ids(n)
    /\ Ids(0) = 0..(Bytes - 1)
<1>1. Bytes \in Nat \ {0}
  BY TokenizerAssumption
<1>2. QED BY <1>1 DEF Ids

\* They are counted.
LEMMA OldPairsLen == ASSUME NEW M, OldPairs(M) PROVE Len(M) \in Nat
<1>1. M \in Seq(Nat \X Nat)
  BY DEF OldPairs
<1> DEFINE T == Nat \X Nat
<1> HIDE DEF T
<1>2. M \in Seq(T) => Len(M) \in Nat
  OBVIOUS
<1>3. QED BY <1>1, <1>2 DEF T

LEMMA PairIsOld ==
    ASSUME NEW M, OldPairs(M), NEW n \in 0..Len(M), NEW id \in Ids(n), ~(id < Bytes)
    PROVE  /\ id - Bytes + 1 \in 1..n
           /\ M[id - Bytes + 1][1] \in Ids(n) /\ M[id - Bytes + 1][1] < id
           /\ M[id - Bytes + 1][2] \in Ids(n) /\ M[id - Bytes + 1][2] < id
<1>1. Len(M) \in Nat /\ Bytes \in Nat \ {0} /\ n \in Nat /\ n <= Len(M)
  BY IdsAre DEF OldPairs
<1> DEFINE q == id - Bytes + 1
<1>2. q \in 1..n /\ q \in 1..Len(M) /\ q - 1 = id - Bytes
  BY <1>1 DEF Ids
<1>3. M[q][1] \in Ids(q - 1) /\ M[q][2] \in Ids(q - 1)
  BY <1>2 DEF OldPairs
<1>4. \A x \in Ids(q - 1) : x < id /\ x \in Ids(n)
  BY <1>1, <1>2 DEF Ids
<1> HIDE DEF q
<1>5. QED BY <1>2, <1>3, <1>4 DEF q

\* What each merge spells is given by the merges.
LEMMA VocabExists ==
    ASSUME NEW M, OldPairs(M), NEW count \in 0..Len(M)
    PROVE  \E f : Vocab(f, count, M)
<1> DEFINE bad == {n \in 0..Len(M) : ~ \E f : Vocab(f, n, M)}
<1> SUFFICES ASSUME bad # {} PROVE FALSE
  OBVIOUS
<1>1. bad \subseteq Nat /\ Len(M) \in Nat /\ Bytes \in Nat \ {0}
  <2>1. Len(M) \in Nat /\ Bytes \in Nat \ {0}
    BY OldPairsLen, IdsAre
  <2>2. bad \subseteq 0..Len(M)
    OBVIOUS
  <2> HIDE DEF bad
  <2>3. QED BY <2>1, <2>2
<1> DEFINE m == Min(bad)
<1>2. m \in bad /\ m \in 0..Len(M) /\ \A o \in bad : m <= o
  <2>1. bad \subseteq 0..Len(M)
    OBVIOUS
  <2> HIDE DEF bad
  <2>2. QED BY <1>1, <2>1, LeastIs
<1> HIDE DEF m
<1>3. m # 0
  <2> SUFFICES ASSUME m = 0 PROVE FALSE
    OBVIOUS
  <2> DEFINE g == [id \in Ids(0) |-> <<id>>]
  <2>1. \A id \in Ids(0) : id < Bytes
    BY <1>1 DEF Ids
  <2>2. Vocab(g, 0, M)
    BY <2>1 DEF Vocab
  <2> HIDE DEF g
  <2>3. QED BY <1>2, <2>2
<1>4. m - 1 \in Nat /\ m - 1 \in 0..Len(M) /\ m - 1 \notin bad
  <2>1. m - 1 \in Nat /\ m - 1 \in 0..Len(M) /\ ~(m <= m - 1)
    BY <1>2, <1>3, <1>1
  <2> HIDE DEF bad
  <2>2. QED BY <1>2, <2>1
<1>5. PICK f : Vocab(f, m - 1, M)
  BY <1>4
<1> DEFINE old == Ids(m - 1)
           this == Bytes + m - 1
           here == f[M[m][1]] \o f[M[m][2]]
           g == [id \in Ids(m) |-> IF id # this THEN f[id] ELSE here]
<1> HIDE DEF here
<1>6. /\ g = [id \in Ids(m) |-> g[id]]
      /\ g[this] = here /\ \A id \in old : g[id] = f[id]
      /\ \A id \in Ids(m) : id \in old \/ id = this
      /\ this - Bytes + 1 = m /\ ~(this < Bytes)
  BY <1>1, <1>2, <1>3, <1>4 DEF Ids
<1> HIDE DEF g, old, this
<1>7. ASSUME NEW id \in Ids(m)
      PROVE  g[id] = IF id < Bytes THEN <<id>>
                     ELSE g[M[id - Bytes + 1][1]] \o g[M[id - Bytes + 1][2]]
  <2>1. CASE id = this
    <3>1. M[m][1] \in old /\ M[m][2] \in old
      <4>1. m \in 1..Len(M)
        BY <1>2, <1>3, <1>1
      <4>2. QED BY <4>1 DEF OldPairs, old
    <3>2. QED BY <1>6, <2>1, <3>1 DEF here
  <2>2. CASE id # this
    <3>1. id \in old
      BY <1>6, <2>2
    <3>2. f[id] = IF id < Bytes THEN <<id>>
                  ELSE f[M[id - Bytes + 1][1]] \o f[M[id - Bytes + 1][2]]
      BY <1>5, <3>1 DEF Vocab, old
    <3>3. ~(id < Bytes) => M[id - Bytes + 1][1] \in old /\ M[id - Bytes + 1][2] \in old
      BY <1>4, <3>1, PairIsOld DEF old
    <3>4. QED BY <1>6, <3>1, <3>2, <3>3
  <2>3. QED BY <2>1, <2>2
<1>8. Vocab(g, m, M)
  BY <1>6, <1>7 DEF Vocab
<1>9. QED BY <1>2, <1>8

\* Each id spells bytes, a byte itself and a merged one what its pair does.
LEMMA VocabSpells ==
    ASSUME NEW M, OldPairs(M), NEW n \in 0..Len(M), NEW f, Vocab(f, n, M)
    PROVE  /\ Spells(f, Ids(n))
           /\ \A id \in 0..(Bytes - 1) : f[id] = <<id>>
           /\ \A q \in 1..n : SpellsPair(f, Ids(n), M[q], Bytes + q - 1)
<1>1. Len(M) \in Nat /\ Bytes \in Nat \ {0} /\ n \in Nat /\ n <= Len(M)
  BY IdsAre DEF OldPairs
<1>2. /\ DOMAIN f = Ids(n) /\ f = [id \in Ids(n) |-> f[id]]
      /\ \A id \in Ids(n) : f[id] = IF id < Bytes THEN <<id>>
                                    ELSE f[M[id - Bytes + 1][1]] \o f[M[id - Bytes + 1][2]]
  BY DEF Vocab
<1> DEFINE bad == {id \in Ids(n) : f[id] \notin ByteWords}
           m == Min(bad)
<1>3. ASSUME bad # {} PROVE FALSE
  <2>1. m \in bad /\ m \in Ids(n) /\ \A o \in bad : m <= o
    <3>1. bad \subseteq Nat /\ bad \subseteq Ids(n)
      BY <1>1 DEF Ids
    <3> HIDE DEF bad
    <3>2. QED BY <1>3, <3>1, LeastIs
  <2> HIDE DEF m
  <2>2. CASE m < Bytes
    <3>1. f[m] = <<m>> /\ m \in 0..(Bytes - 1)
      BY <1>1, <1>2, <2>1, <2>2 DEF Ids
    <3>2. f[m] \in ByteWords
      BY <3>1 DEF ByteWords
    <3>3. QED BY <2>1, <3>2
  <2>3. CASE ~(m < Bytes)
    <3> DEFINE a == M[m - Bytes + 1][1]
               b == M[m - Bytes + 1][2]
    <3>1. a \in Ids(n) /\ b \in Ids(n) /\ a < m /\ b < m
      BY <2>1, <2>3, PairIsOld
    <3> HIDE DEF a, b
    <3>2. f[a] \in ByteWords /\ f[b] \in ByteWords
      <4>1. m \in Nat /\ a \in Nat /\ b \in Nat
        BY <1>1, <2>1, <3>1 DEF Ids
      <4>2. ~(m <= a) /\ ~(m <= b)
        BY <3>1, <4>1
      <4>3. QED BY <2>1, <3>1, <4>2
    <3>3. f[m] = f[a] \o f[b]
      BY <1>2, <2>1, <2>3 DEF a, b
    <3>4. f[a] \o f[b] \in ByteWords
      BY <3>2, ConcatProperties DEF ByteWords
    <3>5. QED BY <2>1, <3>3, <3>4
  <2>4. QED BY <2>2, <2>3
<1>4. Spells(f, Ids(n))
  BY <1>2, <1>3 DEF Spells
<1>5. \A id \in 0..(Bytes - 1) : f[id] = <<id>>
  <2>1. \A id \in 0..(Bytes - 1) : id \in Ids(n) /\ id < Bytes
    BY <1>1 DEF Ids
  <2>2. QED BY <1>2, <2>1
<1>6. ASSUME NEW q \in 1..n PROVE SpellsPair(f, Ids(n), M[q], Bytes + q - 1)
  <2> DEFINE id == Bytes + q - 1
  <2>1. id \in Ids(n) /\ ~(id < Bytes) /\ id - Bytes + 1 = q
    BY <1>1 DEF Ids
  <2> HIDE DEF id
  <2>2. f[id] = f[M[q][1]] \o f[M[q][2]]
    BY <1>2, <2>1
  <2>3. M[q][1] \in Ids(n) /\ M[q][2] \in Ids(n)
    BY <2>1, PairIsOld
  <2>4. QED BY <2>1, <2>2, <2>3 DEF SpellsPair, id
<1>7. QED BY <1>4, <1>5, <1>6

\* Later merges do not change what the earlier ones spell.
LEMMA VocabAgrees ==
    ASSUME NEW M, OldPairs(M), NEW n \in 0..Len(M), NEW f, Vocab(f, n, M),
           NEW N, OldPairs(N), NEW k \in n..Len(N), NEW g, Vocab(g, k, N),
           \A q \in 1..n : M[q] = N[q]
    PROVE  \A id \in Ids(n) : f[id] = g[id]
<1>1. Len(M) \in Nat /\ Bytes \in Nat \ {0} /\ n \in Nat /\ n <= Len(M) /\ k \in Nat /\ n <= k
      /\ Len(N) \in Nat /\ k <= Len(N)
  <2>1. Len(M) \in Nat /\ Len(N) \in Nat /\ Bytes \in Nat \ {0}
    BY OldPairsLen, IdsAre
  <2>2. QED BY <2>1
<1> DEFINE bad == {id \in Ids(n) : f[id] # g[id]}
           m == Min(bad)
<1> SUFFICES ASSUME bad # {} PROVE FALSE
  OBVIOUS
<1>2. m \in bad /\ m \in Ids(n) /\ \A o \in bad : m <= o
  <2>1. bad \subseteq Nat /\ bad \subseteq Ids(n)
    BY <1>1 DEF Ids
  <2> HIDE DEF bad
  <2>2. QED BY <2>1, LeastIs
<1> HIDE DEF m
<1> DEFINE q == m - Bytes + 1
<1>3. m \in Ids(k)
  BY <1>1, <1>2 DEF Ids
<1>4. /\ f[m] = IF m < Bytes THEN <<m>> ELSE f[M[q][1]] \o f[M[q][2]]
      /\ g[m] = IF m < Bytes THEN <<m>> ELSE g[N[q][1]] \o g[N[q][2]]
  BY <1>2, <1>3 DEF Vocab
<1>5. ASSUME ~(m < Bytes)
      PROVE  f[M[q][1]] = g[M[q][1]] /\ f[M[q][2]] = g[M[q][2]] /\ M[q] = N[q]
  <2> DEFINE a == M[q][1]
             b == M[q][2]
  <2>1. q \in 1..n /\ a \in Ids(n) /\ b \in Ids(n) /\ a < m /\ b < m
    BY <1>2, <1>5, PairIsOld
  <2> HIDE DEF a, b, q
  <2>2. m \in Nat /\ a \in Nat /\ b \in Nat
    BY <1>1, <1>2, <2>1 DEF Ids
  <2>3. ~(m <= a) /\ ~(m <= b)
    BY <2>1, <2>2
  <2>4. f[a] = g[a] /\ f[b] = g[b]
    BY <1>2, <2>1, <2>3
  <2>5. QED BY <2>1, <2>4 DEF a, b
<1>6. f[m] = g[m]
  BY <1>4, <1>5
<1>7. QED BY <1>2, <1>6

\* Equal bytes for each id, equal bytes for a list of them.
LEMMA SpelledSame ==
    ASSUME NEW T, NEW s \in Seq(T), NEW f, NEW g, \A x \in T : f[x] = g[x]
    PROVE  Spelled(f, s) = Spelled(g, s)
<1>1. [i \in DOMAIN s |-> f[s[i]]] = [i \in DOMAIN s |-> g[s[i]]]
  OBVIOUS
<1>2. QED BY <1>1 DEF Spelled

\* Bytes spell themselves.
LEMMA SpelledBytes ==
    ASSUME NEW T, NEW f, Spells(f, T), 0..(Bytes - 1) \subseteq T,
           \A id \in 0..(Bytes - 1) : f[id] = <<id>>, NEW w \in ByteWords
    PROVE  Spelled(f, w) = w
<1> DEFINE A == 0..(Bytes - 1)
           good(n) == Spelled(f, SubSeq(w, 1, n)) = SubSeq(w, 1, n)
           bad == {n \in 0..Len(w) : ~good(n)}
           m == Min(bad)
<1>0. w \in Seq(A) /\ w \in Seq(T)
  <2>1. w \in Seq(A) /\ A \subseteq T
    BY DEF ByteWords
  <2> HIDE DEF A
  <2>2. QED BY <2>1
<1> HIDE DEF A
<1>1. Len(w) \in Nat
  BY <1>0
<1>2. ASSUME bad # {} PROVE FALSE
  <2>1. m \in bad /\ m \in 0..Len(w) /\ \A o \in bad : m <= o
    <3>1. bad \subseteq Nat /\ bad \subseteq 0..Len(w)
      BY <1>1
    <3> HIDE DEF bad
    <3>2. QED BY <1>2, <3>1, LeastIs
  <2> HIDE DEF m
  <2>2. m # 0
    <3>1. SubSeq(w, 1, 0) = <<>>
      BY <1>0
    <3>2. good(0)
      BY <3>1, SpelledNone
    <3>3. QED BY <2>1, <3>2
  <2> DEFINE k == m - 1
             t == SubSeq(w, 1, k)
             x == w[m]
  <2>3. k \in 0..Len(w) /\ m \in 1..Len(w) /\ ~(m <= k)
    BY <1>1, <2>1, <2>2
  <2>4. good(k)
    <3> HIDE DEF good
    <3>1. k \notin bad
      <4> HIDE DEF bad
      <4>1. QED BY <2>1, <2>3
    <3>2. QED BY <2>3, <3>1
  <2>5. /\ t \in Seq(A) /\ x \in A /\ SubSeq(w, 1, m) = Append(t, x)
        /\ t \in Seq(T) /\ x \in T
    BY <1>0, <2>3, PrefixGrows
  <2>6. Spelled(f, t) = t
    BY <2>4
  <2> HIDE DEF t, x
  <2>7. Spelled(f, Append(t, x)) = t \o f[x]
    BY <2>5, <2>6, SpelledAppend
  <2>8. f[x] = <<x>>
    BY <2>5 DEF A
  <2>9. t \o <<x>> = Append(t, x)
    BY <2>5, AppendIsConcat
  <2>10. QED BY <2>1, <2>5, <2>7, <2>8, <2>9
<1>3. good(Len(w)) /\ SubSeq(w, 1, Len(w)) = w
  BY <1>0, <1>1, <1>2
<1>4. QED BY <1>3

\* The vocabulary of the merges learned so far.
LEMMA TokenBytesIs == ASSUME OldPairs(merges) PROVE Vocab(TokenBytes, Len(merges), merges)
<1>1. Len(merges) \in Nat /\ Len(merges) \in 0..Len(merges)
  BY DEF OldPairs
<1>2. PICK f : Vocab(f, Len(merges), merges)
  BY <1>1, VocabExists
<1> DEFINE is(g) == g = [id \in 0..(NewId - 1) |->
                            IF id < Bytes THEN <<id>>
                            ELSE g[merges[id - Bytes + 1][1]] \o g[merges[id - Bytes + 1][2]]]
<1>3. \A g : is(g) <=> Vocab(g, Len(merges), merges)
  <2>1. 0..(NewId - 1) = Ids(Len(merges))
    <3> DEFINE n == Len(merges)
    <3>1. n \in Nat /\ Bytes \in Nat
      BY <1>1, IdsAre
    <3> HIDE DEF n
    <3>2. (Bytes + n) - 1 = Bytes + n - 1
      BY <3>1
    <3>3. QED BY <3>2 DEF NewId, Ids, n
  <2>2. QED BY <2>1, Zenon DEF Vocab
<1>4. TokenBytes = CHOOSE g : is(g)
  BY DEF TokenBytes
<1> HIDE DEF is
<1>5. is(TokenBytes)
  BY <1>2, <1>3, <1>4
<1>6. QED BY <1>3, <1>5

\* After n of the merges M, the ids s spell the word w.
Says(s, w, n, M) == \A f : Vocab(f, n, M) => Spelled(f, s) = w

\* A word as bytes spells itself.
LEMMA BytesSay ==
    ASSUME NEW M, OldPairs(M), NEW n \in 0..Len(M), NEW w \in ByteWords
    PROVE  w \in Seq(Ids(0)) /\ Says(w, w, n, M)
<1>1. w \in Seq(Ids(0))
  BY IdsAre DEF ByteWords
<1>2. ASSUME NEW f, Vocab(f, n, M) PROVE Spelled(f, w) = w
  <2>1. n \in Nat /\ 0 \in 0..n
    BY OldPairsLen
  <2> DEFINE T == Ids(n)
  <2>2. 0..(Bytes - 1) \subseteq T
    BY <2>1, IdsAre
  <2>3. Spells(f, T) /\ \A id \in 0..(Bytes - 1) : f[id] = <<id>>
    BY <1>2, VocabSpells
  <2> HIDE DEF T
  <2>4. QED BY <2>2, <2>3, SpelledBytes
<1>3. QED BY <1>1, <1>2 DEF Says

\* A merge keeps what is spelled.
LEMMA MergedSay ==
    ASSUME NEW M, OldPairs(M), NEW n \in 0..Len(M), NEW q \in 1..n, NEW w,
           NEW s \in Seq(Ids(n)), Says(s, w, n, M)
    PROVE  /\ MergePair(s, M[q], Bytes + q - 1) \in Seq(Ids(n))
           /\ Says(MergePair(s, M[q], Bytes + q - 1), w, n, M)
<1> DEFINE T == Ids(n)
           new == Bytes + q - 1
           pair == M[q]
           t == MergePair(s, pair, new)
<1>1. ASSUME NEW f, Vocab(f, n, M) PROVE t \in Seq(T) /\ Spelled(f, t) = w
  <2>1. Spells(f, T) /\ SpellsPair(f, T, pair, new)
    BY <1>1, VocabSpells
  <2>2. s \in Seq(T) /\ Spelled(f, s) = w
    BY <1>1 DEF Says
  <2> HIDE DEF T, new, pair
  <2>3. QED BY <2>1, <2>2, MergeSpells
<1>2. \E f : Vocab(f, n, M)
  BY VocabExists
<1> HIDE DEF t
<1>3. t \in Seq(T) /\ Says(t, w, n, M)
  BY <1>1, <1>2 DEF Says
<1>4. QED BY <1>3 DEF t

\* N learned one pair more than M.
OneMore(M, N) == /\ Len(N) = Len(M) + 1
                 /\ \A q \in 1..Len(M) : M[q] = N[q]

\* Another pair learned keeps what is spelled.
LEMMA LaterSay ==
    ASSUME NEW M, OldPairs(M), NEW N, OldPairs(N), OneMore(M, N), NEW w,
           NEW s \in Seq(Ids(Len(M))), Says(s, w, Len(M), M)
    PROVE  Says(s, w, Len(N), N)
<1> DEFINE n == Len(M)
           k == Len(N)
           T == Ids(n)
<1>1. n \in Nat /\ n \in 0..n /\ k \in Nat /\ k \in n..k /\ k \in 0..k
      /\ \A q \in 1..n : M[q] = N[q]
  BY OldPairsLen DEF OneMore
<1>2. ASSUME NEW g, Vocab(g, k, N) PROVE Spelled(g, s) = w
  <2>1. PICK f : Vocab(f, n, M)
    BY <1>1, VocabExists
  <2>2. \A id \in T : f[id] = g[id]
    BY <1>1, <1>2, <2>1, VocabAgrees
  <2>3. Spelled(f, s) = w /\ s \in Seq(T)
    BY <2>1 DEF Says
  <2> HIDE DEF T
  <2>4. QED BY <2>2, <2>3, SpelledSame
<1>3. QED BY <1>2 DEF Says

-----------------------------------------------------------------------------

\* h[i] is the word after the first i of the merges M, each applied in its turn.
Replays(h, w, M) == /\ h[0] = w
                    /\ \A i \in 1..Len(M) : h[i] = MergePair(h[i - 1], M[i], Bytes + i - 1)

\* The next pair is applied in its turn.
LEMMA ReplayGrows ==
    ASSUME NEW M, OldPairs(M), NEW N, OneMore(M, N), NEW w, NEW h, Replays(h, w, M)
    PROVE  \E g : /\ Replays(g, w, N)
                  /\ g[Len(N)] = MergePair(h[Len(M)], N[Len(N)], Bytes + Len(M))
<1> DEFINE n == Len(M)
           here == MergePair(h[n], N[n + 1], Bytes + n)
           g == [i \in 0..(n + 1) |-> IF i = n + 1 THEN here ELSE h[i]]
<1>1. /\ n \in Nat /\ Bytes \in Nat /\ Len(N) = n + 1 /\ \A q \in 1..n : M[q] = N[q]
      /\ Bytes + (n + 1) - 1 = Bytes + n /\ (n + 1) - 1 = n /\ n \in 0..n
  BY OldPairsLen, IdsAre DEF OneMore
<1> HIDE DEF here, n
<1>2. g[n + 1] = here /\ \A i \in 0..n : g[i] = h[i]
  BY <1>1
<1> HIDE DEF g
<1>3. ASSUME NEW i \in 1..(n + 1) PROVE g[i] = MergePair(g[i - 1], N[i], Bytes + i - 1)
  <2>1. CASE i = n + 1
    BY <1>1, <1>2, <2>1 DEF here
  <2>2. CASE i # n + 1
    <3>1. i \in 1..n /\ i \in 0..n /\ i - 1 \in 0..n
      BY <1>1, <2>2
    <3>2. h[i] = MergePair(h[i - 1], M[i], Bytes + i - 1)
      BY <3>1 DEF Replays, n
    <3>3. QED BY <1>1, <1>2, <3>1, <3>2
  <2>3. QED BY <2>1, <2>2
<1>4. g[0] = w
  <2>1. 0 \in 0..n /\ h[0] = w
    BY <1>1 DEF Replays
  <2>2. QED BY <1>2, <2>1
<1>5. Replays(g, w, N)
  BY <1>1, <1>3, <1>4 DEF Replays
<1>6. g[Len(N)] = MergePair(h[Len(M)], N[Len(N)], Bytes + Len(M))
  BY <1>1, <1>2 DEF here, n
<1>7. QED BY <1>5, <1>6

\* None of the merges from r on to k is of a pair of s.
NoneOf(s, r, k, M) == \A q \in (r + 1)..k : M[q] \notin Pairs(s)

\* Merges of pairs that are not there are passed over.
LEMMA ReplayStands ==
    ASSUME NEW M, OldPairs(M), NEW w, NEW h, Replays(h, w, M), NEW T, NEW s \in Seq(T),
           NEW k \in 0..Len(M), NEW r \in 0..k, h[r] = s, NoneOf(s, r, k, M)
    PROVE  h[k] = s
<1> DEFINE bad == {i \in r..k : h[i] # s}
           m == Min(bad)
<1>1. Len(M) \in Nat /\ k \in Nat /\ r \in Nat /\ r <= k /\ k <= Len(M)
  BY OldPairsLen
<1> SUFFICES ASSUME bad # {} PROVE FALSE
  BY <1>1
<1>2. m \in bad /\ m \in r..k /\ \A o \in bad : m <= o
  <2>1. bad \subseteq Nat /\ bad \subseteq r..k
    BY <1>1
  <2> HIDE DEF bad
  <2>2. QED BY <2>1, LeastIs
<1> HIDE DEF m
<1>3. m # r
  BY <1>2
<1>4. /\ m - 1 \in r..k /\ ~(m <= m - 1) /\ m \in (r + 1)..k /\ m \in 1..Len(M)
  BY <1>1, <1>2, <1>3
<1>5. h[m - 1] = s
  <2>1. m - 1 \notin bad
    <3> HIDE DEF bad
    <3>1. QED BY <1>2, <1>4
  <2>2. QED BY <1>4, <2>1
<1>6. h[m] = MergePair(s, M[m], Bytes + m - 1)
  BY <1>4, <1>5 DEF Replays
<1> DEFINE pair == M[m]
<1>7. pair \notin Pairs(s) /\ pair = <<pair[1], pair[2]>>
  <2>1. M \in Seq(Nat \X Nat)
    BY DEF OldPairs
  <2>2. pair \in Nat \X Nat
    BY <1>4, <2>1
  <2> HIDE DEF pair
  <2>3. pair = <<pair[1], pair[2]>>
    BY <2>2
  <2>4. pair \notin Pairs(s)
    BY <1>4 DEF NoneOf, pair
  <2>5. QED BY <2>3, <2>4
<1> HIDE DEF pair
<1>8. MergePair(s, pair, Bytes + m - 1) = s
  BY <1>7, MergeAbsent
<1>9. QED BY <1>2, <1>6, <1>8 DEF pair

\* s is what the merges M, each applied in its turn, make of w.
Replayed(h, M, w, s) == Replays(h, w, M) /\ h[Len(M)] = s

\* What training keeps of the word w, cut into s.
CutInto(M, w, s) == /\ s \in Seq(Ids(Len(M))) /\ Says(s, w, Len(M), M)
                /\ \E h : Replayed(h, M, w, s)

\* What encoding keeps of w, at s after the merges up to r.
Encodes(M, w, s, r) == /\ r \in 0..Len(M) /\ s \in Seq(Ids(r)) /\ Says(s, w, Len(M), M)
                       /\ \A q \in 1..r : M[q] \notin Pairs(s)

\* Training passed through s after r merges on its way to final.
Passes(M, w, s, r, final) == \E h : Replayed(h, M, w, final) /\ h[r] = s

\* A word as bytes is cut.
LEMMA CutBytes ==
    ASSUME NEW w \in ByteWords
    PROVE  OldPairs(<<>>) /\ CutInto(<<>>, w, w)
<1>1. OldPairs(<<>>)
  <2> DEFINE T == Nat \X Nat
  <2>1. <<>> \in Seq(T) /\ 1..Len(<<>>) = {}
    OBVIOUS
  <2> HIDE DEF T
  <2>2. QED BY <2>1 DEF OldPairs, T
<1>2. Len(<<>>) = 0 /\ 0 \in 0..Len(<<>>)
  OBVIOUS
<1>3. w \in Seq(Ids(0)) /\ Says(w, w, 0, <<>>)
  BY <1>1, <1>2, BytesSay
<1> DEFINE h == [i \in {0} |-> w]
<1>4. Replayed(h, <<>>, w, w)
  BY <1>2 DEF Replayed, Replays
<1>5. QED BY <1>1, <1>2, <1>3, <1>4 DEF CutInto

\* Learning a pair of old ids.
LEMMA LearnCuts ==
    ASSUME NEW M, OldPairs(M), NEW p \in Ids(Len(M)) \X Ids(Len(M)), NEW N, N = Append(M, p)
    PROVE  /\ OldPairs(N) /\ OneMore(M, N) /\ N[Len(N)] = p
<1> DEFINE n == Len(M)
           T == Nat \X Nat
<1>1. M \in Seq(T) /\ n \in Nat /\ Ids(n) \subseteq Nat
  BY OldPairsLen, IdsAre DEF OldPairs
<1>2. p \in T /\ p[1] \in Ids(n) /\ p[2] \in Ids(n)
  BY <1>1
<1> HIDE DEF T
<1>3. N \in Seq(T) /\ Len(N) = n + 1 /\ N[n + 1] = p /\ \A q \in 1..n : N[q] = M[q]
  BY <1>1, <1>2
<1>4. ASSUME NEW q \in 1..(n + 1) PROVE N[q][1] \in Ids(q - 1) /\ N[q][2] \in Ids(q - 1)
  <2>1. CASE q = n + 1
    <3>1. q - 1 = n
      BY <1>1, <2>1
    <3>2. QED BY <1>2, <1>3, <2>1, <3>1
  <2>2. CASE q # n + 1
    <3>1. q \in 1..n
      BY <1>1, <2>2
    <3>2. M[q][1] \in Ids(q - 1) /\ M[q][2] \in Ids(q - 1)
      BY <3>1 DEF OldPairs
    <3>3. QED BY <1>3, <3>1, <3>2
  <2>3. QED BY <2>1, <2>2
<1>5. QED BY <1>3, <1>4 DEF OldPairs, OneMore, T

\* A cut word after one more pair.
LEMMA CutGrows ==
    ASSUME NEW M, OldPairs(M), NEW N, OldPairs(N), OneMore(M, N), NEW w, NEW s, CutInto(M, w, s)
    PROVE  CutInto(N, w, MergePair(s, N[Len(N)], Bytes + Len(M)))
<1> DEFINE n == Len(M)
           k == Len(N)
           t == MergePair(s, N[k], Bytes + n)
<1>1. /\ n \in Nat /\ k \in Nat /\ k = n + 1 /\ k \in 0..k /\ k \in 1..k
      /\ Bytes + k - 1 = Bytes + n /\ n \in 0..k /\ Bytes \in Nat
  <2>1. n \in Nat /\ k = n + 1
    BY OldPairsLen DEF OneMore
  <2>2. Bytes \in Nat
    BY IdsAre
  <2> HIDE DEF n, k
  <2>3. QED BY <2>1, <2>2
<1>2. s \in Seq(Ids(n)) /\ Says(s, w, k, N)
  BY LaterSay DEF CutInto
<1>3. s \in Seq(Ids(k))
  <2> DEFINE A == Ids(n)
             B == Ids(k)
  <2>1. s \in Seq(A) /\ A \subseteq B
    BY <1>1, <1>2, IdsAre
  <2> HIDE DEF A, B
  <2>2. s \in Seq(B)
    BY <2>1
  <2>3. QED BY <2>2 DEF B
<1>4. t \in Seq(Ids(k)) /\ Says(t, w, k, N)
  <2> DEFINE q == k
             u == MergePair(s, N[q], Bytes + q - 1)
  <2>1. u \in Seq(Ids(k)) /\ Says(u, w, k, N)
    BY <1>1, <1>2, <1>3, MergedSay
  <2>2. u = t
    BY <1>1
  <2> HIDE DEF u, t
  <2>3. QED BY <2>1, <2>2
<1>5. PICK h : Replayed(h, M, w, s)
  BY DEF CutInto
<1>6. PICK g : Replays(g, w, N) /\ g[k] = MergePair(h[n], N[k], Bytes + n)
  BY <1>5, ReplayGrows DEF Replayed
<1>7. Replayed(g, N, w, t)
  BY <1>5, <1>6 DEF Replayed
<1> HIDE DEF t
<1>8. CutInto(N, w, t)
  BY <1>4, <1>7 DEF CutInto
<1>9. QED BY <1>8 DEF t

\* Before the first merge.
LEMMA EncodesBytes ==
    ASSUME NEW M, OldPairs(M), NEW w \in ByteWords
    PROVE  /\ Encodes(M, w, w, 0)
           /\ \A s : CutInto(M, w, s) => Passes(M, w, w, 0, s)
<1>1. 0 \in 0..Len(M) /\ Len(M) \in 0..Len(M) /\ 1..0 = {}
  BY OldPairsLen
<1>2. w \in Seq(Ids(0)) /\ Says(w, w, Len(M), M)
  BY <1>1, BytesSay
<1>3. Encodes(M, w, w, 0)
  BY <1>1, <1>2 DEF Encodes
<1>4. QED BY <1>3 DEF CutInto, Passes, Replayed, Replays

\* The merges from r on to k are passed over.
LEMMA PassesOn ==
    ASSUME NEW M, OldPairs(M), NEW w, NEW final, NEW r, NEW s, Encodes(M, w, s, r),
           NEW k \in r..Len(M), NoneOf(s, r, k, M), Passes(M, w, s, r, final)
    PROVE  Passes(M, w, s, k, final)
<1>1. k \in 0..Len(M) /\ r \in 0..k /\ s \in Seq(Ids(r))
  BY OldPairsLen DEF Encodes
<1>2. PICK h : Replayed(h, M, w, final) /\ h[r] = s
  BY DEF Passes
<1>3. h[k] = s
  BY <1>1, <1>2, ReplayStands DEF Replayed
<1>4. QED BY <1>2, <1>3 DEF Passes

\* The next merge that is of a pair of s, the k-th.
LEMMA EncodesNext ==
    ASSUME NEW M, OldPairs(M), NEW w, NEW r, NEW s, Encodes(M, w, s, r),
           NEW k \in (r + 1)..Len(M), NoneOf(s, r, k - 1, M)
    PROVE  /\ Encodes(M, w, MergePair(s, M[k], Bytes + k - 1), k)
           /\ \A final : Passes(M, w, s, k - 1, final)
                            => Passes(M, w, MergePair(s, M[k], Bytes + k - 1), k, final)
<1> DEFINE n == Len(M)
           T == Ids(k - 1)
           new == Bytes + k - 1
           pair == M[k]
           t == MergePair(s, pair, new)
<1>1. /\ n \in Nat /\ r \in Nat /\ k \in 1..n /\ k - 1 \in Nat /\ r \in 0..(k - 1) /\ k \in 0..n
      /\ n \in 0..n /\ Bytes \in Nat /\ new = Bytes + (k - 1) /\ (k - 1) + 1 = k /\ k \in Nat
      /\ r \in 0..n
  BY OldPairsLen, IdsAre DEF Encodes
<1>2. s \in Seq(T) /\ s \in Seq(Ids(n))
  <2> DEFINE A == Ids(r)
             B == Ids(n)
  <2>1. s \in Seq(A) /\ A \subseteq T /\ A \subseteq B
    BY <1>1, IdsAre DEF Encodes
  <2> HIDE DEF A, B, T
  <2>2. s \in Seq(T) /\ s \in Seq(B)
    BY <2>1
  <2>3. QED BY <2>2 DEF B
<1>3. CanMerge(pair, new, T) /\ T \cup {new} = Ids(k)
  <2>1. pair[1] \in T /\ pair[2] \in T
    BY <1>1 DEF OldPairs
  <2>2. pair = <<pair[1], pair[2]>>
    <3>1. M \in Seq(Nat \X Nat)
      BY DEF OldPairs
    <3>2. pair \in Nat \X Nat
      BY <1>1, <3>1
    <3> HIDE DEF pair
    <3>3. QED BY <3>2
  <2>3. new \notin T /\ Ids(k) = T \cup {new}
    BY <1>1, IdsAre
  <2>4. QED BY <2>1, <2>2, <2>3 DEF CanMerge
<1>4. Says(t, w, n, M)
  <2>1. Says(s, w, n, M)
    BY DEF Encodes
  <2>2. QED BY <1>1, <1>2, <2>1, MergedSay
<1>5. /\ t \in Seq(T \cup {new}) /\ pair \notin Pairs(t)
      /\ \A p \in Pairs(t) : p[1] # new /\ p[2] # new => p \in Pairs(s)
  <2> HIDE DEF T, new, pair
  <2>1. QED BY <1>2, <1>3, MergeLeaves
<1>6. ASSUME NEW q \in 1..k PROVE M[q] \notin Pairs(t)
  <2>1. CASE q = k
    BY <1>5, <2>1
  <2>2. CASE q # k
    <3>1. q \in 1..n /\ q - 1 \in 0..(k - 1) /\ (q \in 1..r \/ q \in (r + 1)..(k - 1))
      BY <1>1, <2>2
    <3>2. M[q] \notin Pairs(s)
      BY <3>1 DEF Encodes, NoneOf
    <3>3. M[q][1] \in T /\ M[q][2] \in T
      <4>1. M[q][1] \in Ids(q - 1) /\ M[q][2] \in Ids(q - 1)
        BY <3>1 DEF OldPairs
      <4>2. Ids(q - 1) \subseteq T
        BY <1>1, <3>1, IdsAre
      <4>3. QED BY <4>1, <4>2
    <3>4. new \notin T
      BY <1>3 DEF CanMerge
    <3> HIDE DEF t, T, new
    <3>5. QED BY <1>5, <3>2, <3>3, <3>4
  <2>3. QED BY <2>1, <2>2
<1>7. ASSUME NEW final, Passes(M, w, s, k - 1, final) PROVE Passes(M, w, t, k, final)
  <2>1. PICK h : Replayed(h, M, w, final) /\ h[k - 1] = s
    BY <1>7 DEF Passes
  <2>2. h[k] = t
    BY <1>1, <2>1 DEF Replayed, Replays
  <2> HIDE DEF t
  <2>3. QED BY <2>1, <2>2 DEF Passes
<1> HIDE DEF t
<1>8. Encodes(M, w, t, k)
  BY <1>1, <1>3, <1>4, <1>5, <1>6 DEF Encodes
<1>9. QED BY <1>7, <1>8 DEF t

-----------------------------------------------------------------------------
(* The steps of the tokenizer.                                             *)

TokenizerIInv ==
    /\ freq \in Corpora /\ OldPairs(merges)
    /\ seqs = [w \in DOMAIN freq |-> seqs[w]]
    /\ \A w \in DOMAIN freq : CutInto(merges, w, seqs[w])
    /\ tokenizing \in {"training", "trained", "encoding", "encoded"}
    /\ tokenizing \in {"encoding", "encoded"} =>
          \E r \in 0..Len(merges) :
             /\ Encodes(merges, word, ids, r)
             /\ word \in DOMAIN freq => Passes(merges, word, ids, r, seqs[word])
    /\ tokenizing = "encoded" => Known(ids) = {}

LEMMA TokenizerInit_Inv == TokenizerInit => TokenizerIInv
<1> SUFFICES ASSUME TokenizerInit PROVE TokenizerIInv
  OBVIOUS
<1>1. /\ freq \in Corpora /\ merges = <<>> /\ tokenizing = "training"
      /\ seqs = [w \in DOMAIN freq |-> w]
  BY DEF TokenizerInit
<1>2. \A w \in DOMAIN freq : w \in ByteWords /\ seqs[w] = w
  BY <1>1, TokenizerAssumption
<1>3. seqs = [w \in DOMAIN freq |-> seqs[w]]
  BY <1>1
<1>4. \A w \in DOMAIN freq : CutInto(merges, w, seqs[w])
  BY <1>1, <1>2, CutBytes
<1>5. OldPairs(merges)
  <2>1. <<>> \in ByteWords
    BY DEF ByteWords
  <2>2. QED BY <1>1, <2>1, CutBytes
<1>6. QED BY <1>1, <1>3, <1>4, <1>5 DEF TokenizerIInv

\* A corpus cut into ids is countable.
LEMMA CorpusIsCut == ASSUME TokenizerIInv PROVE IsCut
<1>1. freq \in Corpora /\ \A w \in DOMAIN freq : seqs[w] \in Seq(Ids(Len(merges)))
  BY DEF TokenizerIInv, CutInto
<1>2. IsFiniteSet(DOMAIN freq) /\ \A w \in DOMAIN freq : freq[w] \in Nat
  BY <1>1, TokenizerAssumption
<1>3. Ids(Len(merges)) \subseteq Nat
  <2>1. Len(merges) \in Nat
    BY OldPairsLen DEF TokenizerIInv
  <2>2. QED BY <2>1, IdsAre
<1> DEFINE T == Ids(Len(merges))
<1>4. ASSUME NEW w \in DOMAIN freq
      PROVE  Len(seqs[w]) \in Nat /\ \A i \in 1..Len(seqs[w]) : seqs[w][i] \in Nat
  <2> DEFINE s == seqs[w]
  <2>1. s \in Seq(T) /\ T \subseteq Nat
    BY <1>1, <1>3
  <2> HIDE DEF s, T
  <2>2. Len(s) \in Nat /\ \A i \in 1..Len(s) : s[i] \in Nat
    <3>1. Len(s) \in Nat /\ \A i \in 1..Len(s) : s[i] \in T
      <4>1. s \in Seq(T)
        BY <2>1
      <4>2. QED BY ONLY <4>1
    <3>2. QED BY <2>1, <3>1
  <2>3. QED BY <2>2 DEF s
<1>5. QED BY <1>2, <1>4 DEF IsCut

\* The least known rank.
LEMMA BestRankIs ==
    ASSUME OldPairs(merges), NEW s, Known(s) # {}
    PROVE  /\ BestRank(s) \in 1..Len(merges) /\ merges[BestRank(s)] \in Pairs(s)
           /\ \A q \in 1..Len(merges) : merges[q] \in Pairs(s) => BestRank(s) <= q
<1> DEFINE K == Known(s)
           b == BestRank(s)
<1>1. DOMAIN merges = 1..Len(merges) /\ Len(merges) \in Nat
  <2> DEFINE T == Nat \X Nat
  <2>1. merges \in Seq(T)
    BY DEF OldPairs
  <2> HIDE DEF T
  <2>2. QED BY <2>1
<1>2. K = {r \in 1..Len(merges) : merges[r] \in Pairs(s)} /\ K # {} /\ K \subseteq Nat
  BY <1>1 DEF Known
<1>3. b = CHOOSE r \in K : \A q \in K : r <= q
  BY Zenon DEF BestRank
<1> HIDE DEF K, b
<1>4. Min(K) \in K /\ \A q \in K : Min(K) <= q
  BY <1>2, LeastIs
<1>5. b \in K /\ \A q \in K : b <= q
  BY <1>3, <1>4
<1>6. QED BY <1>2, <1>5 DEF b

LEMMA Learn_Inv == TokenizerIInv /\ Learn => TokenizerIInv'
<1> SUFFICES ASSUME TokenizerIInv, Learn PROVE TokenizerIInv'
  OBVIOUS
<1> DEFINE p == BestPair
           n == Len(merges)
           new == NewId
<1>1. /\ tokenizing = "training" /\ tokenizing' = "training" /\ AllPairs # {}
      /\ merges' = Append(merges, p) /\ freq' = freq
      /\ seqs' = [w \in DOMAIN seqs |-> MergePair(seqs[w], p, new)]
  BY DEF Learn
<1>2. /\ OldPairs(merges) /\ freq \in Corpora /\ DOMAIN seqs = DOMAIN freq
      /\ \A w \in DOMAIN freq : CutInto(merges, w, seqs[w])
  BY DEF TokenizerIInv
<1>3. p \in Ids(n) \X Ids(n)
  <2>1. p \in AllPairs
    BY <1>1, CorpusIsCut, BestPairIs
  <2> DEFINE T == Ids(n)
  <2>2. PICK w \in DOMAIN freq : p \in Pairs(seqs[w])
    BY <2>1 DEF AllPairs
  <2> DEFINE s == seqs[w]
  <2>3. s \in Seq(T)
    BY <1>2 DEF CutInto
  <2>4. PICK i \in 1..(Len(s) - 1) : p = <<s[i], s[i + 1]>>
    BY <2>2 DEF Pairs
  <2> HIDE DEF p, T, s
  <2>5. s[i] \in T /\ s[i + 1] \in T
    BY <2>3, <2>4
  <2>6. QED BY <2>4, <2>5 DEF T
<1> HIDE DEF p
<1>4. OldPairs(merges') /\ OneMore(merges, merges') /\ merges'[Len(merges')] = p
  BY <1>1, <1>2, <1>3, LearnCuts
<1>5. new = Bytes + n
  BY DEF NewId
<1> HIDE DEF new
<1>6. seqs' = [w \in DOMAIN freq' |-> seqs'[w]]
  BY <1>1, <1>2
<1>7. ASSUME NEW w \in DOMAIN freq' PROVE CutInto(merges', w, seqs'[w])
  <2>1. w \in DOMAIN freq /\ seqs'[w] = MergePair(seqs[w], p, new)
    BY <1>1, <1>2
  <2>2. CutInto(merges, w, seqs[w])
    BY <1>2, <2>1
  <2>3. CutInto(merges', w, MergePair(seqs[w], merges'[Len(merges')], Bytes + n))
    BY <1>2, <1>4, <2>2, CutGrows
  <2>4. QED BY <1>4, <1>5, <2>1, <2>3
<1>8. QED BY <1>1, <1>2, <1>4, <1>6, <1>7 DEF TokenizerIInv

LEMMA Apply_Inv == TokenizerIInv /\ Apply => TokenizerIInv'
<1> SUFFICES ASSUME TokenizerIInv, Apply PROVE TokenizerIInv'
  OBVIOUS
<1> DEFINE k == BestRank(ids)
           t == MergePair(ids, merges[k], Bytes + k - 1)
<1>1. /\ tokenizing = "encoding" /\ tokenizing' = "encoding" /\ Known(ids) # {} /\ ids' = t
      /\ freq' = freq /\ merges' = merges /\ seqs' = seqs /\ word' = word
  BY DEF Apply
<1>2. /\ OldPairs(merges) /\ freq \in Corpora /\ seqs = [w \in DOMAIN freq |-> seqs[w]]
      /\ \A w \in DOMAIN freq : CutInto(merges, w, seqs[w])
  BY DEF TokenizerIInv
<1>3. PICK r \in 0..Len(merges) :
         /\ Encodes(merges, word, ids, r)
         /\ word \in DOMAIN freq => Passes(merges, word, ids, r, seqs[word])
  BY <1>1 DEF TokenizerIInv
<1>4. /\ k \in 1..Len(merges) /\ merges[k] \in Pairs(ids)
      /\ \A q \in 1..Len(merges) : merges[q] \in Pairs(ids) => k <= q
  BY <1>1, <1>2, BestRankIs
<1> HIDE DEF k
<1>5. Len(merges) \in Nat
  BY <1>2, OldPairsLen
<1>6. k \in (r + 1)..Len(merges) /\ k - 1 \in r..Len(merges) /\ k \in 0..Len(merges)
  <2>1. ~(k \in 1..r)
    BY <1>3, <1>4 DEF Encodes
  <2>2. QED BY <1>4, <1>5, <2>1
<1>7. NoneOf(ids, r, k - 1, merges)
  <2>1. ASSUME NEW q \in (r + 1)..(k - 1) PROVE merges[q] \notin Pairs(ids)
    <3>1. q \in 1..Len(merges) /\ ~(k <= q)
      BY <1>5, <1>6
    <3>2. QED BY <1>4, <3>1
  <2>2. QED BY <2>1 DEF NoneOf
<1>8. Encodes(merges, word, t, k)
  BY <1>2, <1>3, <1>6, <1>7, EncodesNext
<1>9. ASSUME word \in DOMAIN freq PROVE Passes(merges, word, t, k, seqs[word])
  <2> DEFINE final == seqs[word]
  <2>1. Passes(merges, word, ids, r, final)
    BY <1>3, <1>9
  <2> HIDE DEF final
  <2>2. Passes(merges, word, ids, k - 1, final)
    BY <1>2, <1>3, <1>6, <1>7, <2>1, PassesOn
  <2>3. Passes(merges, word, t, k, final)
    BY <1>2, <1>3, <1>6, <1>7, <2>2, EncodesNext
  <2>4. QED BY <2>3 DEF final
<1> HIDE DEF t
<1>10. QED BY <1>1, <1>2, <1>6, <1>8, <1>9 DEF TokenizerIInv

LEMMA EncodeWord_Inv == TokenizerIInv /\ EncodeWord => TokenizerIInv'
<1> SUFFICES ASSUME TokenizerIInv, EncodeWord PROVE TokenizerIInv'
  OBVIOUS
<1>1. /\ tokenizing' = "encoding" /\ ids' = word' /\ word' \in Probes \cup DOMAIN freq
      /\ freq' = freq /\ merges' = merges /\ seqs' = seqs
  BY DEF EncodeWord
<1>2. /\ OldPairs(merges) /\ freq \in Corpora /\ seqs = [w \in DOMAIN freq |-> seqs[w]]
      /\ \A w \in DOMAIN freq : CutInto(merges, w, seqs[w])
  BY DEF TokenizerIInv
<1>3. word' \in ByteWords
  BY <1>1, <1>2, TokenizerAssumption
<1>4. /\ Encodes(merges, word', word', 0)
      /\ word' \in DOMAIN freq => Passes(merges, word', word', 0, seqs[word'])
  BY <1>2, <1>3, EncodesBytes
<1>5. 0 \in 0..Len(merges)
  BY <1>2, OldPairsLen
<1>6. QED BY <1>1, <1>2, <1>4, <1>5 DEF TokenizerIInv

LEMMA Trained_Inv == TokenizerIInv /\ Trained => TokenizerIInv'
<1> SUFFICES ASSUME TokenizerIInv, Trained PROVE TokenizerIInv'
  OBVIOUS
<1>1. tokenizing' = "trained" /\ freq' = freq /\ merges' = merges /\ seqs' = seqs
  BY DEF Trained
<1>2. QED BY <1>1 DEF TokenizerIInv

LEMMA Encoded_Inv == TokenizerIInv /\ Encoded => TokenizerIInv'
<1> SUFFICES ASSUME TokenizerIInv, Encoded PROVE TokenizerIInv'
  OBVIOUS
<1>1. /\ tokenizing = "encoding" /\ tokenizing' = "encoded" /\ Known(ids) = {}
      /\ freq' = freq /\ merges' = merges /\ seqs' = seqs /\ ids' = ids /\ word' = word
  BY DEF Encoded
<1>2. Known(ids)' = {}
  BY <1>1 DEF Known
<1>3. QED BY <1>1, <1>2 DEF TokenizerIInv

LEMMA TokenizerNext_Inv == TokenizerIInv /\ [TokenizerNext]_tokenizerVars => TokenizerIInv'
<1> SUFFICES ASSUME TokenizerIInv, [TokenizerNext]_tokenizerVars PROVE TokenizerIInv'
  OBVIOUS
<1>1. CASE UNCHANGED tokenizerVars
  <2>1. /\ freq' = freq /\ merges' = merges /\ seqs' = seqs /\ ids' = ids /\ word' = word
        /\ tokenizing' = tokenizing
    BY <1>1 DEF tokenizerVars
  <2>2. Known(ids)' = Known(ids)
    BY <2>1 DEF Known
  <2>3. QED BY <2>1, <2>2 DEF TokenizerIInv
<1>2. QED BY <1>1, Learn_Inv, Trained_Inv, EncodeWord_Inv, Apply_Inv, Encoded_Inv
          DEF TokenizerNext

LEMMA TokenizerIInv_Replays == TokenizerIInv => EncodingReplaysTraining
<1> SUFFICES ASSUME TokenizerIInv PROVE EncodingReplaysTraining
  OBVIOUS
<1> DEFINE n == Len(merges)
<1>1. /\ OldPairs(merges) /\ \A w \in DOMAIN freq : CutInto(merges, w, seqs[w])
  BY DEF TokenizerIInv
<1>2. n \in Nat /\ Vocab(TokenBytes, n, merges)
  BY <1>1, OldPairsLen, TokenBytesIs
<1>3. \A s, w : Says(s, w, n, merges) => Decode(s) = w
  <2> DEFINE f == TokenBytes
  <2>1. Vocab(f, n, merges)
    BY <1>2
  <2>2. \A s : Decode(s) = Spelled(f, s)
    BY DEF Decode, Spelled
  <2> HIDE DEF f, n
  <2>3. QED BY <2>1, <2>2 DEF Says
<1>4. \A w \in DOMAIN freq : Decode(seqs[w]) = w
  BY <1>1, <1>3 DEF CutInto
<1>5. ASSUME tokenizing \in {"encoding", "encoded"} PROVE Decode(ids) = word
  <2>1. Says(ids, word, n, merges)
    BY <1>5 DEF TokenizerIInv, Encodes
  <2>2. QED BY <1>3, <2>1
<1>6. ASSUME tokenizing = "encoded", word \in DOMAIN freq PROVE ids = seqs[word]
  <2> DEFINE final == seqs[word]
  <2>1. PICK r \in 0..n : /\ Encodes(merges, word, ids, r)
                          /\ Passes(merges, word, ids, r, final)
    BY <1>6 DEF TokenizerIInv
  <2>2. ASSUME NEW q \in (r + 1)..n PROVE merges[q] \notin Pairs(ids)
    <3>1. q \in DOMAIN merges
      <4> DEFINE T == Nat \X Nat
      <4>1. merges \in Seq(T)
        BY <1>1 DEF OldPairs
      <4> HIDE DEF T
      <4>2. DOMAIN merges = 1..n
        BY <4>1
      <4> HIDE DEF n
      <4>3. QED BY <1>2, <4>2
    <3>2. Known(ids) = {}
      BY <1>6 DEF TokenizerIInv
    <3>3. QED BY <3>1, <3>2 DEF Known
  <2> HIDE DEF final
  <2>3. Passes(merges, word, ids, n, final)
    <3>1. n \in r..n /\ NoneOf(ids, r, n, merges)
      BY <1>2, <2>2 DEF NoneOf
    <3>2. QED BY <1>1, <2>1, <3>1, PassesOn
  <2>4. ids = final
    BY <2>3 DEF Passes, Replayed
  <2>5. QED BY <2>4 DEF final
<1>7. QED BY <1>4, <1>5, <1>6 DEF EncodingReplaysTraining

\* Encoding a word of the corpus replays how training cut it, and both keep its bytes.
THEOREM EncodingReplays == TokenizerSpec => []EncodingReplaysTraining
<1>1. QED BY TokenizerInit_Inv, TokenizerNext_Inv, TokenizerIInv_Replays, PTL DEF TokenizerSpec

-----------------------------------------------------------------------------
(* Adapters.                                                               *)

\* The base weight holds the adapter's update exactly while it is merged, unless
\* other adapters were loaded over merged ones.
BaseInStep == mergedLoads = 0 =>
                 \A m \in Wrapped : base[m] = IF merged[m] THEN adapter[m] ELSE 0

LInv == /\ base \in [Wrapped -> Int]
        /\ adapter \in [Wrapped -> Int]
        /\ merged \in [Wrapped -> BOOLEAN]
        /\ shipped \in [Wrapped -> Int]
        /\ mergedLoads \in Nat
        /\ BaseInStep

\* A new model: no update, nothing merged.
LEMMA LoRAInitInv == LoRAInit => LInv
  BY LoRAAssumption DEF LoRAInit, LInv, BaseInStep

\* merge adds the update once, whichever layers were merged before.
LEMMA MergeInv == ASSUME LInv, NEW layers \in SUBSET Wrapped, Merge(layers) PROVE LInv'
<1>1. base' \in [Wrapped -> Int] /\ merged' \in [Wrapped -> BOOLEAN]
  BY DEF LInv, Merge, MergedBase
<1>2. BaseInStep'
  <2> SUFFICES ASSUME mergedLoads' = 0, NEW m \in Wrapped
               PROVE  base'[m] = IF merged'[m] THEN adapter'[m] ELSE 0
    BY DEF BaseInStep
  <2>1. base[m] = IF merged[m] THEN adapter[m] ELSE 0
    BY DEF LInv, BaseInStep, Merge
  <2>2. CASE m \in layers /\ ~merged[m]
    <3>1. base'[m] = base[m] + adapter[m] /\ base[m] = 0
      BY <2>1, <2>2 DEF Merge, MergedBase
    <3>2. merged'[m]
      BY <2>2, Zenon DEF Merge
    <3> QED BY <3>1, <3>2 DEF LInv, Merge
  <2>3. CASE m \in layers /\ merged[m]
    BY <2>1, <2>3 DEF LInv, Merge, MergedBase
  <2>4. CASE m \notin layers
    BY <2>1, <2>4 DEF LInv, Merge
  <2> QED BY <2>2, <2>3, <2>4
<1> QED BY <1>1, <1>2 DEF LInv, Merge

\* unmerge takes out what merge put in: the adapter has not moved in between.
LEMMA UnmergeInv == ASSUME LInv, NEW layers \in SUBSET Wrapped, Unmerge(layers) PROVE LInv'
<1>1. base' \in [Wrapped -> Int] /\ merged' \in [Wrapped -> BOOLEAN]
  BY DEF LInv, Unmerge, UnmergedBase
<1>2. BaseInStep'
  <2> SUFFICES ASSUME mergedLoads' = 0, NEW m \in Wrapped
               PROVE  base'[m] = IF merged'[m] THEN adapter'[m] ELSE 0
    BY DEF BaseInStep
  <2>1. base[m] = IF merged[m] THEN adapter[m] ELSE 0
    BY DEF LInv, BaseInStep, Unmerge
  <2>2. CASE m \in layers /\ ~merged[m]
    BY <2>1, <2>2 DEF LInv, Unmerge, UnmergedBase
  <2>3. CASE m \in layers /\ merged[m]
    <3>1. base'[m] = base[m] - adapter[m] /\ base[m] = adapter[m]
      BY <2>1, <2>3 DEF Unmerge, UnmergedBase
    <3>2. ~merged'[m]
      BY <2>3, Zenon DEF Unmerge
    <3> QED BY <3>1, <3>2 DEF LInv, Unmerge
  <2>4. CASE m \notin layers
    BY <2>1, <2>4 DEF LInv, Unmerge
  <2> QED BY <2>2, <2>3, <2>4
<1> QED BY <1>1, <1>2 DEF LInv, Unmerge

\* Training moves unmerged adapters only.
LEMMA OptimiserStepInv ==
  ASSUME LInv, NEW a \in [Wrapped -> Adapters], OptimiserStep(a) PROVE LInv'
<1>1. adapter' \in [Wrapped -> Int]
  BY LoRAAssumption DEF LInv, OptimiserStep
<1>2. BaseInStep'
  BY DEF LInv, BaseInStep, OptimiserStep
<1> QED BY <1>1, <1>2 DEF LInv, OptimiserStep

\* A load that changes a merged layer's adapter is counted; any other leaves the
\* merged ones as they are.
LEMMA LoadAdapterInv == ASSUME LInv, LoadAdapter PROVE LInv'
<1> DEFINE over == \E m \in Wrapped : merged[m] /\ adapter[m] # shipped[m]
<1>1. CASE over
  BY <1>1 DEF LInv, BaseInStep, LoadAdapter
<1>2. CASE ~over
  <2>1. mergedLoads' = mergedLoads
    BY <1>2 DEF LInv, LoadAdapter
  <2>2. BaseInStep'
    BY <1>2, <2>1 DEF LInv, BaseInStep, LoadAdapter
  <2> QED BY <2>1, <2>2 DEF LInv, LoadAdapter
<1> QED BY <1>1, <1>2

\* Every step of a model keeps the invariant.
LEMMA LoRAStepInv == ASSUME LInv, [LoRANext]_loraVars PROVE LInv'
<1>1. CASE \E layers \in SUBSET Wrapped : Merge(layers)
  BY <1>1, MergeInv
<1>2. CASE \E layers \in SUBSET Wrapped : Unmerge(layers)
  BY <1>2, UnmergeInv
<1>3. CASE \E a \in [Wrapped -> Adapters] : OptimiserStep(a)
  BY <1>3, OptimiserStepInv
<1>4. CASE Ship
  BY <1>4 DEF LInv, BaseInStep, Ship
<1>5. CASE LoadAdapter
  BY <1>5, LoadAdapterInv
<1>6. CASE UNCHANGED loraVars
  BY <1>6 DEF LInv, BaseInStep, loraVars
<1> QED BY <1>1, <1>2, <1>3, <1>4, <1>5, <1>6 DEF LoRANext

\* The inductive invariant: types, and base weights in step with the merged flags.
THEOREM LoRAInvariance == LoRASpec => []LInv
  BY LoRAInitInv, LoRAStepInv, PTL DEF LoRASpec

\* Every layer computes the pretrained weight plus its adapter's update, merged
\* or not, and unmerging restores the pretrained weight (LoRALinear.merge,
\* unmerge, forward).
THEOREM MergingIsInvisible == LoRASpec => []MergeIsInvisible
<1>1. LInv => MergeIsInvisible
  <2> SUFFICES ASSUME LInv, mergedLoads = 0, NEW m \in Wrapped
               PROVE  Effective(m) = adapter[m] /\ (~merged[m] => base[m] = 0)
    BY DEF MergeIsInvisible
  <2>1. base[m] = IF merged[m] THEN adapter[m] ELSE 0
    BY DEF LInv, BaseInStep
  <2>2. base[m] \in Int /\ adapter[m] \in Int
    BY DEF LInv
  <2>3. CASE merged[m]
    BY <2>1, <2>2, <2>3 DEF Effective
  <2>4. CASE ~merged[m]
    BY <2>1, <2>2, <2>4 DEF Effective
  <2> QED BY <2>3, <2>4
<1> QED BY <1>1, LoRAInvariance, PTL

-----------------------------------------------------------------------------
(* Experiments.                                                            *)

\* A model under a strategy: its parts, and those that are not trained as they
\* came.
IsModel(strategy, model) ==
    /\ strategy \in Strategies
    /\ model = [p \in Names(strategy) |-> model[p]]
    /\ \A p \in Names(strategy) \ Trainable(strategy) : model[p] = <<"pretrained">>

\* What the epochs are judged by: the first of the best scores.
Wins(e) == \A f \in DOMAIN scores : /\ scores[f] <= scores[e]
                                    /\ scores[f] = scores[e] => e <= f
BestOf(e) == [epoch |-> e, score |-> scores[e], waited |-> Len(scores) - e,
              state |-> [p \in Trainable(run.strategy) |-> <<"epoch", run.id, e>>]]

BestInv == \/ scores = <<>> /\ best = NoBest
           \/ \E e \in DOMAIN scores : Wins(e) /\ best = BestOf(e)

TrainedFor(n) == \A p \in Trainable(run.strategy) : net[p] = <<"epoch", run.id, n>>

RunInv ==
    /\ run = [id |-> runs, strategy |-> run.strategy, patience |-> run.patience]
    /\ run.patience \in Nat
    /\ split = [l \in Labels |-> Cut(sizes[l])]
    /\ IsModel(run.strategy, net)
    /\ scores \in Seq(1..Scores)
    /\ BestInv
    /\ doing \in {"epoch", "validate"} => Len(scores) < MaxEpochs /\ ~OutOfPatience(best)
    /\ doing = "validate" => TrainedFor(Len(scores) + 1)
    /\ doing \notin {"epoch", "validate"} =>
          /\ scores # <<>> /\ TrainedFor(best.epoch)
          /\ Len(scores) = MaxEpochs \/ Len(scores) = best.epoch + run.patience

\* A directory with one run's configuration and weights has that run's
\* predictions, and the weights are the trained part of the model that made them.
Coherent(d) ==
    d.by = d.config.id /\ d.by # 0 =>
        /\ IsModel(d.config.strategy, d.tested)
        /\ d.weights = TrainedState(d.config.strategy, d.tested)

DirInv ==
    /\ dir = [files |-> dir.files, config |-> dir.config, tested |-> dir.tested,
              weights |-> dir.weights, by |-> dir.by]
    /\ dir.by \in 0..runs /\ dir.config.id \in 0..runs
    /\ "weights" \in dir.files => dir.by # 0
    /\ Coherent(dir)
    /\ doing # "idle" => dir.by < runs
    /\ doing \in {"epoch", "validate", "test", "config"} => dir.config.id < runs
    /\ doing \in {"metrics", "predictions", "weights"} => dir.config = run
    /\ doing = "weights" => dir.tested = net

Reloaded(d) == IF DOMAIN d.weights \subseteq Names(d.config.strategy)
               THEN [how |-> "loaded", model |-> Rebuilt(d), from |-> d]
               ELSE [how |-> "KeyError", model |-> <<>>, from |-> d]

LoadedInv == \/ loaded = NotLoaded
             \/ \E d : loaded = Reloaded(d) /\ Coherent(d) /\ d.by # 0

FInv == /\ sizes \in [Labels -> ClassSizes] /\ fractions \in Fractions /\ runs \in Nat
        /\ doing \in {"idle", "epoch", "validate", "test"} \cup DOMAIN AfterFile
        /\ doing # "idle" => RunInv
        /\ DirInv
        /\ LoadedInv

\* What a strategy trains is part of its model; the rest comes pretrained.
LEMMA StrategyParts ==
    ASSUME NEW strategy \in Strategies
    PROVE  /\ Trainable(strategy) \subseteq Names(strategy)
           /\ Names(strategy) \ Trainable(strategy) \subseteq {"body", "wrapped"}
           /\ Trainable(strategy) \cap {"wrapped"} = {}
           /\ \A seed : IsModel(strategy, FreshNet(strategy, seed))
<1>1. /\ strategy = "head" => Trainable(strategy) = {"head"}
      /\ strategy = "lora" => Trainable(strategy) = {"adapter", "head"}
      /\ strategy = "full" => Trainable(strategy) = {"body", "head"}
  BY DEF Trainable
<1>2. /\ Trainable(strategy) \subseteq Names(strategy)
      /\ Names(strategy) \ Trainable(strategy) \subseteq {"body", "wrapped"}
      /\ Trainable(strategy) \cap {"wrapped"} = {}
  BY <1>1 DEF Strategies, Names
<1>3. QED BY <1>2 DEF IsModel, FreshNet

\* A partial load replaces trained parts and leaves the model the strategy's.
LEMMA OverrideModel ==
    ASSUME NEW strategy, NEW model, IsModel(strategy, model),
           NEW state, DOMAIN state \subseteq Trainable(strategy)
    PROVE  /\ IsModel(strategy, Override(model, state))
           /\ \A p \in DOMAIN state : Override(model, state)[p] = state[p]
BY StrategyParts DEF IsModel, Override

-----------------------------------------------------------------------------
(* The split.                                                              *)

\* The lesser of two numbers.
LEMMA MinOfTwo ==
    ASSUME NEW a \in Int, NEW b \in Int, b <= a PROVE Min({a, b}) = b
<1>1. \A x \in {a, b} : (\A y \in {a, b} : x =< y) <=> x = b
  OBVIOUS
<1>2. QED BY <1>1 DEF Min

\* Rounding moves a number of hundredths by at most a half, and by none from zero.
LEMMA RoundBounds ==
    ASSUME NEW n \in Nat
    PROVE  Round(n) \in Nat /\ 100 * Round(n) <= n + 50 /\ (n = 0 => Round(n) = 0)
BY DEF Round

\* The two shares never overlap: their sum is under the whole, and each is rounded
\* by at most half an example.
LEMMA SharesFit ==
    ASSUME NEW n \in Nat, NEW f \in Nat, NEW g \in Nat, f + g < 100
    PROVE  /\ n * f \in Nat /\ n * g \in Nat
           /\ Round(n * f) \in Nat /\ Round(n * g) \in Nat
           /\ Round(n * f) + Round(n * g) <= n
<1> DEFINE a == n * f
           b == n * g
<1>1. a \in Nat /\ b \in Nat /\ a + b <= 99 * n /\ (n = 0 => a = 0 /\ b = 0)
  <2>1. n * (f + g) <= n * 99
    OBVIOUS
  <2>2. QED BY <2>1
<1> HIDE DEF a, b
<1>2. /\ Round(a) \in Nat /\ 100 * Round(a) <= a + 50 /\ (a = 0 => Round(a) = 0)
      /\ Round(b) \in Nat /\ 100 * Round(b) <= b + 50 /\ (b = 0 => Round(b) = 0)
  BY <1>1, RoundBounds
<1>3. Round(a) + Round(b) <= n
  BY <1>1, <1>2
<1>4. QED BY <1>1, <1>2, <1>3 DEF a, b

\* The cut of a class: neither share is cut short by the other.
LEMMA CutShares ==
    ASSUME NEW n \in Nat, fractions \in Fractions
    PROVE  /\ Cut(n).test = Round(n * fractions[2])
           /\ Cut(n).val = Round(n * fractions[1])
           /\ Cut(n).train + Cut(n).val + Cut(n).test = n
<1> DEFINE t == Round(n * fractions[2])
           v == Round(n * fractions[1])
<1>1. t \in Nat /\ v \in Nat /\ v + t <= n
  BY SharesFit, FinetuneAssumption
<1> HIDE DEF t, v
<1>2. Min({n, t}) = t /\ Min({n - t, v}) = v
  BY <1>1, MinOfTwo
<1>3. QED BY <1>1, <1>2 DEF Cut, t, v

-----------------------------------------------------------------------------
(* The steps of an experiment.                                             *)

\* A new directory, no run.
LEMMA FinetuneInitInv == FinetuneInit => FInv
  BY DEF FinetuneInit, FInv, DirInv, LoadedInv, Coherent, Empty, NoRun

\* A run begins with its own split, model and record of epochs.
LEMMA StartRunInv ==
    ASSUME FInv, NEW s \in Strategies, NEW k \in Patiences, StartRun(s, k) PROVE FInv'
<1>1. /\ runs \in Nat /\ runs' = runs + 1 /\ doing' = "epoch"
      /\ run' = [id |-> runs', strategy |-> s, patience |-> k] /\ k \in Nat
      /\ scores' = <<>> /\ best' = NoBest
      /\ UNCHANGED <<sizes, fractions, dir, loaded>>
  BY FinetuneAssumption DEF FInv, StartRun
<1>2. IsModel(run'.strategy, net')
  BY <1>1, StrategyParts DEF StartRun
<1>3. split' = [l \in Labels |-> Cut(sizes[l])]'
  BY <1>1 DEF StartRun, Cut
<1>4. RunInv'
  <2>1. scores' \in Seq(1..Scores) /\ Len(scores') < MaxEpochs
    BY <1>1, FinetuneAssumption
  <2>2. ~OutOfPatience(best)' /\ BestInv'
    BY <1>1 DEF OutOfPatience, NoBest, BestInv
  <2>3. QED BY <1>1, <1>2, <1>3, <2>1, <2>2 DEF RunInv
<1>5. DirInv'
  BY <1>1 DEF FInv, DirInv, Coherent
<1>6. LoadedInv'
  BY <1>1 DEF FInv, LoadedInv
<1>7. QED BY <1>1, <1>4, <1>5, <1>6 DEF FInv

\* An epoch moves the trained parts, all of them.
LEMMA TrainEpochInv == ASSUME FInv, TrainEpoch PROVE FInv'
<1>1. /\ doing = "epoch" /\ doing' = "validate" /\ RunInv
      /\ UNCHANGED <<sizes, fractions, run, runs, split, scores, best, dir, loaded>>
  BY DEF FInv, TrainEpoch
<1>2. IsModel(run.strategy, net') /\ TrainedFor(Len(scores) + 1)'
  BY <1>1, StrategyParts DEF RunInv, IsModel, TrainEpoch, TrainedFor
<1>3. RunInv'
  BY <1>1, <1>2 DEF RunInv, BestInv, BestOf, Wins, Cut, OutOfPatience
<1>4. DirInv' /\ LoadedInv'
  BY <1>1 DEF FInv, DirInv, Coherent, LoadedInv
<1>5. QED BY <1>1, <1>3, <1>4 DEF FInv

\* A validation score beats the best, which it then is, or leaves it, one epoch
\* older.
LEMMA BestEpochStays ==
    ASSUME RunInv, doing = "validate", NEW score \in 1..Scores, Validate(score)
    PROVE  \E e \in DOMAIN scores' : (Wins(e) /\ best = BestOf(e))'
<1>0. PICK n \in Nat : n = Len(scores)
  BY DEF RunInv
<1>1. /\ scores \in Seq(1..Scores) /\ scores' = Append(scores, score) /\ UNCHANGED run
      /\ scores' \in Seq(1..Scores) /\ Len(scores') = n + 1
      /\ scores'[n + 1] = score /\ \A i \in 1..n : scores'[i] = scores[i]
      /\ \A i \in 1..n : scores[i] \in 1..Scores
  <2>1. scores \in Seq(1..Scores) /\ scores' = Append(scores, score) /\ UNCHANGED run
    BY DEF RunInv, Validate
  <2> DEFINE S == 1..Scores
  <2>2. scores \in Seq(S) /\ score \in S
    BY <2>1
  <2> HIDE DEF S
  <2>3. /\ Append(scores, score) \in Seq(S) /\ Len(Append(scores, score)) = n + 1
        /\ Append(scores, score)[n + 1] = score
        /\ \A i \in 1..n : Append(scores, score)[i] = scores[i] /\ scores[i] \in S
    BY <1>0, <2>2
  <2>4. QED BY <2>1, <2>3 DEF S
<1>2. TrainedState(run.strategy, net) = [p \in Trainable(run.strategy) |-> <<"epoch", run.id, n + 1>>]
  BY <1>0 DEF RunInv, TrainedFor, TrainedState
<1>3. CASE score > best.score
  <2>1. \A i \in 1..n : scores[i] < score
    <3>1. CASE scores = <<>>
      <4>1. n = 0
        BY <1>0, <3>1
      <4>2. QED BY <4>1
    <3>2. CASE \E e \in DOMAIN scores : Wins(e) /\ best = BestOf(e)
      <4>1. PICK e \in 1..n : Wins(e) /\ best.score = scores[e]
        BY <1>0, <1>1, <3>2 DEF BestOf
      <4>2. \A i \in 1..n : scores[i] <= scores[e]
        BY <1>0, <1>1, <4>1 DEF Wins
      <4>3. QED BY <1>1, <1>3, <4>1, <4>2
    <3>3. QED BY <3>1, <3>2 DEF RunInv, BestInv
  <2>2. n + 1 \in DOMAIN scores' /\ Wins(n + 1)'
    BY <1>1, <2>1 DEF Wins
  <2>3. best' = BestOf(n + 1)'
    <3>1. best' = [epoch |-> n + 1, score |-> score, waited |-> 0,
                   state |-> TrainedState(run.strategy, net)]
      BY <1>1, <1>3 DEF Validate
    <3>2. QED BY <1>1, <1>2, <3>1 DEF BestOf
  <2>4. QED BY <2>2, <2>3
<1>4. CASE ~(score > best.score)
  <2>1. PICK e \in DOMAIN scores : Wins(e) /\ best = BestOf(e)
    BY <1>4 DEF RunInv, BestInv, NoBest
  <2>2. e \in 1..n /\ score <= scores[e] /\ e \in DOMAIN scores'
    BY <1>0, <1>1, <1>4, <2>1 DEF BestOf
  <2>3. Wins(e)'
    BY <1>0, <1>1, <2>1, <2>2 DEF Wins
  <2>4. best' = BestOf(e)'
    <3>1. best' = [best EXCEPT !.waited = @ + 1]
      BY <1>4 DEF Validate
    <3>2. best = [epoch |-> e, score |-> scores[e], waited |-> n - e,
                  state |-> [p \in Trainable(run.strategy) |-> <<"epoch", run.id, e>>]]
      BY <1>0, <2>1 DEF BestOf
    <3>3. best' = [epoch |-> e, score |-> scores'[e], waited |-> (n + 1) - e,
                   state |-> [p \in Trainable(run.strategy) |-> <<"epoch", run.id, e>>]]
      <4>1. (n - e) + 1 = (n + 1) - e /\ scores'[e] = scores[e]
        BY <1>1, <2>2
      <4>2. QED BY <3>1, <3>2, <4>1
    <3>4. QED BY <1>1, <3>3 DEF BestOf
  <2>5. QED BY <2>2, <2>3, <2>4
<1>5. QED BY <1>3, <1>4

\* After a validation the run goes on, in its patience, or its best epoch is put
\* back.
LEMMA ValidateInv == ASSUME FInv, NEW score \in 1..Scores, Validate(score) PROVE FInv'
<1>1. /\ doing = "validate" /\ RunInv /\ scores' = Append(scores, score)
      /\ UNCHANGED <<sizes, fractions, run, runs, split, dir, loaded>>
  BY DEF FInv, Validate
<1>2. PICK e \in DOMAIN scores' : (Wins(e) /\ best = BestOf(e))'
  BY <1>1, BestEpochStays
<1>3. /\ scores' \in Seq(1..Scores) /\ Len(scores') = Len(scores) + 1 /\ Len(scores) \in Nat
      /\ scores' # <<>> /\ e \in 1..Len(scores')
  BY <1>1, <1>2 DEF RunInv
<1>4. /\ best'.epoch = e /\ best'.waited = Len(scores') - e
      /\ best'.state = [p \in Trainable(run.strategy) |-> <<"epoch", run.id, e>>]
  BY <1>1, <1>2 DEF BestOf
<1>5. CASE OutOfPatience(best') \/ Len(scores') = MaxEpochs
  <2>1. doing' = "test" /\ net' = Override(net, best'.state)
    BY <1>5 DEF Validate, BestNet
  <2>2. IsModel(run.strategy, net') /\ TrainedFor(e)'
    <3>1. DOMAIN best'.state = Trainable(run.strategy) /\ IsModel(run.strategy, net)
      BY <1>1, <1>4 DEF RunInv
    <3>2. /\ IsModel(run.strategy, Override(net, best'.state))
          /\ \A p \in Trainable(run.strategy) :
                 Override(net, best'.state)[p] = best'.state[p]
      BY <3>1, OverrideModel DEF IsModel
    <3>3. QED BY <1>1, <1>4, <2>1, <3>2 DEF TrainedFor
  <2>3. ASSUME OutOfPatience(best') PROVE Len(scores') = e + run.patience
    <3>1. run.patience \in Nat /\ Len(scores') - e >= run.patience /\ run.patience > 0
      BY <1>1, <1>4, <2>3 DEF OutOfPatience, RunInv
    <3>2. e # Len(scores')
      BY <3>1, <1>3
    <3>3. e \in DOMAIN scores /\ best.waited = Len(scores) - e
      <4>1. e \in 1..Len(scores) /\ scores # <<>>
        BY <1>3, <3>2
      <4>2. ~(score > best.score)
        <5>1. score > best.score => best'.waited = 0
          BY DEF Validate
        <5>2. QED BY <5>1, <1>4, <3>1
      <4>3. best' = [best EXCEPT !.waited = @ + 1]
        BY <4>2 DEF Validate
      <4>4. PICK f \in DOMAIN scores : Wins(f) /\ best = BestOf(f)
        BY <1>1, <4>1 DEF RunInv, BestInv
      <4>5. best'.epoch = f
        BY <4>3, <4>4 DEF BestOf
      <4>6. QED BY <1>4, <4>4, <4>5 DEF BestOf
    <3>4. ~(Len(scores) - e >= run.patience)
      BY <1>1, <3>1, <3>3 DEF RunInv, OutOfPatience
    <3>5. QED BY <1>3, <3>1, <3>4
  <2>4. RunInv'
    <3>1. BestInv'
      BY <1>2 DEF BestInv
    <3>2. (Len(scores) = MaxEpochs \/ Len(scores) = best.epoch + run.patience)'
      BY <1>1, <1>4, <1>5, <2>3
    <3>3. (scores # <<>> /\ TrainedFor(best.epoch))'
      BY <1>3, <1>4, <2>2
    <3>4. split' = [l \in Labels |-> Cut(sizes[l])]'
      BY <1>1 DEF RunInv, Cut
    <3>5. QED BY <1>1, <1>3, <2>1, <2>2, <3>1, <3>2, <3>3, <3>4 DEF RunInv
  <2>5. DirInv' /\ LoadedInv'
    BY <1>1, <2>1 DEF FInv, DirInv, Coherent, LoadedInv
  <2>6. QED BY <1>1, <2>1, <2>4, <2>5 DEF FInv
<1>6. CASE ~(OutOfPatience(best') \/ Len(scores') = MaxEpochs)
  <2>1. doing' = "epoch" /\ net' = net
    BY <1>6 DEF Validate
  <2>2. RunInv'
    <3>1. BestInv'
      BY <1>2 DEF BestInv
    <3>2. Len(scores') < MaxEpochs /\ ~OutOfPatience(best)'
      BY <1>1, <1>3, <1>6, FinetuneAssumption DEF RunInv, OutOfPatience
    <3>3. split' = [l \in Labels |-> Cut(sizes[l])]'
      BY <1>1 DEF RunInv, Cut
    <3>4. QED BY <1>1, <1>3, <2>1, <3>1, <3>2, <3>3 DEF RunInv
  <2>3. DirInv' /\ LoadedInv'
    BY <1>1, <2>1 DEF FInv, DirInv, Coherent, LoadedInv
  <2>4. QED BY <1>1, <2>1, <2>2, <2>3 DEF FInv
<1>7. QED BY <1>5, <1>6

\* The test, an empty loader and a kill change no file and no model.
LEMMA OtherStepsInv == ASSUME FInv, Test \/ NoBatches \/ KillRun PROVE FInv'
<1>1. UNCHANGED <<sizes, fractions, run, runs, split, net, scores, best, dir, loaded>>
  BY DEF Test, NoBatches, KillRun
<1>2. \/ doing = "test" /\ doing' = "config"
      \/ doing' = "idle"
  BY DEF Test, NoBatches, KillRun
<1>3. RunInv => (doing' = "config" => RunInv')
  BY <1>1, <1>2 DEF RunInv, BestInv, BestOf, Wins, Cut, TrainedFor
<1>4. DirInv' /\ LoadedInv'
  BY <1>1, <1>2 DEF FInv, DirInv, Coherent, LoadedInv
<1>5. QED BY <1>1, <1>2, <1>3, <1>4 DEF FInv, AfterFile

\* The files, in their order: between the configuration and the weights the
\* directory holds nothing whole of this run.
LEMMA WriteRunFileInv == ASSUME FInv, WriteRunFile PROVE FInv'
<1>1. /\ doing \in {"config", "metrics", "predictions", "weights"} /\ RunInv /\ DirInv
      /\ UNCHANGED <<sizes, fractions, run, runs, split, net, scores, best, loaded>>
  BY DEF FInv, WriteRunFile, AfterFile
<1>2. runs \in Nat /\ run.id = runs /\ dir.by \in 0..runs /\ dir.by < runs
  BY <1>1 DEF FInv, RunInv, DirInv
<1>3. RunInv'
  <2>1. doing' \notin {"epoch", "validate"}
    BY <1>1 DEF WriteRunFile, AfterFile
  <2>2. QED BY <1>1, <2>1 DEF RunInv, BestInv, BestOf, Wins, Cut, TrainedFor
<1>4. DirInv'
  <2>1. dir = [files |-> dir.files, config |-> dir.config, tested |-> dir.tested,
               weights |-> dir.weights, by |-> dir.by]
    BY <1>1 DEF DirInv
  <2>2. CASE doing = "config"
    <3>1. dir' = [dir EXCEPT !.files = @ \cup {"config"}, !.config = run] /\ doing' = "metrics"
      BY <2>2 DEF WriteRunFile, AfterFile
    <3>2. /\ dir' = [files |-> dir.files \cup {"config"}, config |-> run, tested |-> dir.tested,
                     weights |-> dir.weights, by |-> dir.by]
          /\ "weights" \in dir'.files => "weights" \in dir.files
      BY <2>1, <3>1
    <3>3. dir'.by < runs' /\ dir'.config.id = runs' /\ Coherent(dir')
      BY <1>1, <1>2, <3>2 DEF Coherent
    <3>4. /\ dir'.by \in 0..runs' /\ dir'.config.id \in 0..runs'
          /\ dir' = [files |-> dir'.files, config |-> dir'.config, tested |-> dir'.tested,
                     weights |-> dir'.weights, by |-> dir'.by]
      BY <1>1, <1>2, <3>2
    <3>5. ("weights" \in dir.files => dir.by # 0)' /\ (dir.config = run)'
      BY <1>1, <3>2 DEF DirInv
    <3>6. QED BY <3>1, <3>3, <3>4, <3>5 DEF DirInv
  <2>3. CASE doing = "metrics"
    <3>1. dir' = [dir EXCEPT !.files = @ \cup {"metrics"}] /\ doing' = "predictions"
      BY <2>3 DEF WriteRunFile, AfterFile
    <3>2. QED BY <1>1, <1>2, <2>1, <2>3, <3>1 DEF DirInv, Coherent
  <2>4. CASE doing = "predictions"
    <3>1. /\ dir' = [dir EXCEPT !.files = @ \cup {"predictions"}, !.tested = net]
          /\ doing' = "weights"
      BY <2>4 DEF WriteRunFile, AfterFile
    <3>2. dir'.by # dir'.config.id
      BY <1>1, <1>2, <2>1, <2>4, <3>1 DEF DirInv
    <3>3. QED BY <1>1, <1>2, <2>1, <2>4, <3>1, <3>2 DEF DirInv, Coherent
  <2>5. CASE doing = "weights"
    <3>1. /\ dir' = [dir EXCEPT !.files = @ \cup {"weights"}, !.by = run.id,
                                !.weights = TrainedState(run.strategy, net)]
          /\ doing' = "idle"
      BY <2>5 DEF WriteRunFile, AfterFile
    <3>2. dir'.config = run /\ dir'.tested = net
      BY <1>1, <2>1, <2>5, <3>1 DEF DirInv
    <3>3. Coherent(dir')
      BY <1>1, <2>1, <3>1, <3>2 DEF RunInv, Coherent
    <3>4. /\ dir'.by = runs
          /\ dir' = [files |-> dir'.files, config |-> dir'.config, tested |-> dir'.tested,
                     weights |-> dir'.weights, by |-> dir'.by]
      BY <1>2, <2>1, <3>1
    <3>5. QED BY <1>1, <1>2, <3>1, <3>2, <3>3, <3>4 DEF DirInv
  <2>6. QED BY <1>1, <2>2, <2>3, <2>4, <2>5
<1>5. doing' \in {"idle", "epoch", "validate", "test"} \cup DOMAIN AfterFile
  BY <1>1 DEF WriteRunFile, AfterFile
<1>6. LoadedInv'
  BY <1>1 DEF FInv, LoadedInv
<1>7. QED BY <1>1, <1>3, <1>4, <1>5, <1>6 DEF FInv

\* A model is rebuilt from the files there are.
LEMMA LoadRunInv == ASSUME FInv, LoadRun PROVE FInv'
<1>1. /\ UNCHANGED <<sizes, fractions, run, runs, split, net, scores, best, doing, dir>>
      /\ loaded' = Reloaded(dir) /\ "weights" \in dir.files
  BY DEF LoadRun, Reloaded
<1>2. Coherent(dir) /\ dir.by # 0
  BY <1>1 DEF FInv, DirInv
<1>3. LoadedInv'
  BY <1>1, <1>2 DEF LoadedInv, Coherent
<1>4. RunInv => RunInv'
  BY <1>1 DEF RunInv, BestInv, BestOf, Wins, Cut, TrainedFor, OutOfPatience
<1>5. DirInv'
  BY <1>1 DEF FInv, DirInv
<1>6. QED BY <1>1, <1>3, <1>4, <1>5 DEF FInv

\* Every step of the experiments keeps the invariant.
LEMMA FinetuneStepInv == ASSUME FInv, [FinetuneNext]_finetuneVars PROVE FInv'
<1>1. CASE UNCHANGED finetuneVars
  <2>1. RunInv => RunInv'
    BY <1>1 DEF finetuneVars, RunInv, BestInv, BestOf, Wins, Cut, TrainedFor, OutOfPatience
  <2>2. DirInv' /\ LoadedInv'
    BY <1>1 DEF finetuneVars, FInv, DirInv, LoadedInv
  <2>3. QED BY <1>1, <2>1, <2>2 DEF finetuneVars, FInv
<1>2. QED
  BY <1>1, StartRunInv, TrainEpochInv, ValidateInv, OtherStepsInv, WriteRunFileInv, LoadRunInv
     DEF FinetuneNext

-----------------------------------------------------------------------------
(* Theorems.                                                               *)

\* The inductive invariant: the split, the best epoch so far and its state, the
\* patience left, and how much of the latest run the directory holds.
THEOREM FinetuneInvariance == FinetuneSpec => []FInv
  BY FinetuneInitInv, FinetuneStepInv, PTL DEF FinetuneSpec

\* Every class is split by its rounded fractions, for all class sizes and all
\* fractions DataConfig accepts: rounding never makes two shares collide
\* (stratified_split).
THEOREM SplitsAreStratified == FinetuneSpec => []SplitIsStratified
<1>1. FInv => SplitIsStratified
  <2> SUFFICES ASSUME FInv, doing # "idle", NEW l \in Labels
               PROVE  /\ split[l].test = Round(sizes[l] * fractions[2])
                      /\ split[l].val = Round(sizes[l] * fractions[1])
                      /\ split[l].train + split[l].val + split[l].test = sizes[l]
    BY DEF SplitIsStratified
  <2>1. split[l] = Cut(sizes[l]) /\ sizes[l] \in Nat /\ fractions \in Fractions
    BY FinetuneAssumption DEF FInv, RunInv
  <2>2. QED BY <2>1, CutShares
<1>2. QED BY <1>1, FinetuneInvariance, PTL

\* What is tested and written is the first epoch with the best score, and training
\* stopped neither before nor after its patience (train: best_state, since_best).
THEOREM BestEpochsAreKept == FinetuneSpec => []BestEpochIsKept
<1>1. FInv => BestEpochIsKept
  <2> SUFFICES ASSUME FInv, doing \in {"test"} \cup DOMAIN AfterFile
               PROVE  LET e == CHOOSE e \in DOMAIN scores : Wins(e)
                      IN  /\ \A p \in Trainable(run.strategy) : net[p] = <<"epoch", run.id, e>>
                          /\ Len(scores) = MaxEpochs \/ Len(scores) = e + run.patience
    BY DEF BestEpochIsKept, Wins
  <2>1. RunInv /\ scores # <<>> /\ scores \in Seq(1..Scores)
    BY DEF FInv, RunInv, AfterFile
  <2>2. PICK e \in DOMAIN scores : Wins(e) /\ best = BestOf(e)
    BY <2>1 DEF RunInv, BestInv
  <2>3. \A f \in DOMAIN scores : Wins(f) <=> f = e
    <3>1. DOMAIN scores = 1..Len(scores) /\ Len(scores) \in Nat
          /\ \A i \in 1..Len(scores) : scores[i] \in Int
      <4>1. scores \in Seq(Int)
        BY <2>1, FinetuneAssumption
      <4>2. QED BY <4>1
    <3>2. QED BY <2>2, <3>1, FinetuneAssumption DEF Wins
  <2>4. e = CHOOSE f \in DOMAIN scores : Wins(f)
    BY <2>3
  <2>5. TrainedFor(e) /\ (Len(scores) = MaxEpochs \/ Len(scores) = e + run.patience)
    BY <2>1, <2>2 DEF FInv, RunInv, BestOf, AfterFile
  <2>6. QED BY <2>4, <2>5 DEF TrainedFor
<1>2. QED BY <1>1, FinetuneInvariance, PTL

\* A model rebuilt from one run's configuration and weights is the model that was
\* tested, whichever runs shared the directory or died in it (load_run_model).
THEOREM RebuiltModelsAreTested == FinetuneSpec => []RebuiltIsTested
<1>1. FInv => RebuiltIsTested
  <2> SUFFICES ASSUME FInv, loaded.how # "none", loaded.from.by = loaded.from.config.id
               PROVE  loaded.how = "loaded" /\ loaded.model = loaded.from.tested
    BY DEF RebuiltIsTested
  <2>1. PICK d : loaded = Reloaded(d) /\ Coherent(d) /\ d.by # 0
    BY DEF FInv, LoadedInv, NotLoaded
  <2> DEFINE s == d.config.strategy
  <2>2. /\ loaded.from = d
        /\ IsModel(s, d.tested) /\ d.weights = TrainedState(s, d.tested)
    BY <2>1 DEF Reloaded, Coherent
  <2>3. DOMAIN d.weights = Trainable(s) /\ Trainable(s) \subseteq Names(s)
    BY <2>2, StrategyParts DEF IsModel, TrainedState
  <2>4. loaded.how = "loaded" /\ loaded.model = Rebuilt(d)
    BY <2>1, <2>3 DEF Reloaded
  <2>5. IsModel(s, FreshNet(s, 0))
    BY <2>2, StrategyParts DEF IsModel
  <2>6. /\ IsModel(s, Rebuilt(d))
        /\ \A p \in Trainable(s) : Rebuilt(d)[p] = d.weights[p]
    BY <2>3, <2>5, OverrideModel DEF Rebuilt
  <2>7. \A p \in Names(s) : Rebuilt(d)[p] = d.tested[p]
    BY <2>2, <2>3, <2>6 DEF IsModel, TrainedState
  <2>8. QED BY <2>2, <2>4, <2>6, <2>7 DEF IsModel
<1>2. QED BY <1>1, FinetuneInvariance, PTL
=============================================================================
