---------------------------- MODULE TrainingProofs --------------------------
(***************************************************************************)
(* Theorems about sftdpo's training: the reference of every preference     *)
(* update is the bare checkpoint, every update is the mean over its own    *)
(* group of examples and no other, and a run publishes its best weights,   *)
(* for any settings, examples, losses and number of runs.                  *)
(***************************************************************************)
EXTENDS Training, ListLemmas

-----------------------------------------------------------------------------
(* The invariant of the training loops.                                    *)

StageNames == {"sft", "dpo"}
Directories == {"best", "final"}

\* The adapter is on, but between the two passes of a preference micro-batch.
AdapterOn == /\ loop = "reference" => ~enabled
             /\ loop \notin {"reference", "failed"} => enabled

\* The accumulated gradient is of the present weights against the bare checkpoint.
GradientIsNow ==
    loop \in {"micro", "reference"} =>
        /\ IsSeq(gradient)
        /\ \A c \in DOMAIN gradient : /\ gradient[c].policy = weights
                                      /\ gradient[c].reference = <<>>

\* So was that of every update of this run.
UpdatesWereNow ==
    \A m \in Len(origin) + 1..Len(weights) : \A part \in ToSet(weights[m].gradient) :
        /\ part.policy = SubSeq(weights, 1, m - 1)
        /\ part.reference = <<>>

\* The weights of this run's n-th step.
At(n) == SubSeq(weights, 1, Len(origin) + n)

\* The evaluation a run keeps: the first, if its loss is NaN, or else the first of
\* the lowest.
Kept(i) == /\ i \in DOMAIN curve
           /\ IF curve[1].loss = NaN THEN i = 1
              ELSE /\ curve[i].loss # NaN
                   /\ \A j \in DOMAIN curve :
                         curve[j].loss # NaN => \/ curve[i].loss < curve[j].loss
                                                \/ curve[i].loss = curve[j].loss /\ i <= j

Evaluations == [step : Nat, loss : Nat]

BestIsSaved ==
    /\ curve \in Seq(Evaluations)
    /\ \A i \in DOMAIN curve : curve[i].step <= step
    /\ curve = <<>> => bestEval = {} /\ adapterPath \in {"none", "final"}
    /\ curve # <<>> =>
          /\ run.stage = "sft" /\ adapterPath = "best"
          /\ \E i \in DOMAIN curve : /\ Kept(i) /\ bestEval = {curve[i]}
                                     /\ saved["sft"]["best"] = Saved(At(curve[i].step))
    /\ adapterPath = "final" => /\ saved[run.stage]["final"] = Saved(weights)
                                /\ loop \in {"publish", "done", "failed"}
    /\ loop \in {"publish", "done"} => adapterPath # "none"
    /\ loop = "done" => published[run.stage] = saved[run.stage][adapterPath]

\* What is on disk.
DirectoriesAreWhole ==
    /\ saved = [s \in StageNames |-> [d \in Directories |-> saved[s][d]]]
    /\ published = [s \in StageNames |-> published[s]]
    /\ \A s \in StageNames : /\ IsSeq(published[s].weights)
                             /\ \A d \in Directories : IsSeq(saved[s][d].weights)

TInv == /\ run \in Settings
        /\ loop = "validate" => run.stage = "sft"
        /\ IsSeq(origin) /\ IsSeq(weights) /\ Len(origin) <= Len(weights)
        /\ AdapterOn
        /\ GradientIsNow
        /\ UpdatesWereNow
        /\ BestIsSaved
        /\ DirectoriesAreWhole

-----------------------------------------------------------------------------
(* Lemmas about sequences of anything.                                     *)

\* Every function on an initial segment is one.
LEMMA FunctionIsSeq ==
    ASSUME NEW n \in Nat, NEW f, f = [i \in 1..n |-> f[i]] PROVE IsSeq(f) /\ Len(f) = n
<1> DEFINE T == {f[i] : i \in 1..n}
<1>1. \A i \in 1..n : f[i] \in T
  OBVIOUS
<1> HIDE DEF T
<1>2. f \in Seq(T) /\ Len(f) = n
  BY <1>1
<1>3. QED BY <1>2 DEF IsSeq

-----------------------------------------------------------------------------
(* The steps.                                                              *)

\* Nothing trained, nothing saved.
LEMMA TrainingInitInv == TrainingInit => TInv
<1> SUFFICES ASSUME TrainingInit PROVE TInv
  OBVIOUS
<1>1. curve \in Seq(Evaluations) /\ curve = <<>>
  BY DEF TrainingInit
<1>2. BestIsSaved
  BY <1>1, EmptyAny DEF TrainingInit, BestIsSaved
<1>3. DirectoriesAreWhole
  BY EmptyAny DEF TrainingInit, DirectoriesAreWhole, Nothing, StageNames, Directories
<1>4. UpdatesWereNow
  BY EmptyAny DEF TrainingInit, UpdatesWereNow
<1>5. QED
  BY <1>2, <1>3, <1>4, EmptyAny DEF TrainingInit, TInv, AdapterOn, GradientIsNow

\* A run begins with the adapter on, no update and no evaluation of its own.
LEMMA BeginInv == ASSUME TInv, Begin PROVE TInv'
<1>1. /\ run' \in Settings /\ weights' = origin' /\ enabled' = TRUE /\ loop' = "epoch"
      /\ curve' = <<>> /\ bestEval' = {} /\ adapterPath' = "none"
      /\ UNCHANGED <<saved, published>>
  BY DEF Begin
<1>2. IsSeq(origin')
  <2>1. "sft" \in StageNames
    BY DEF StageNames
  <2>2. origin' = <<>> \/ origin' = published["sft"].weights
    BY DEF Begin
  <2>3. QED BY <2>1, <2>2, EmptyAny DEF TInv, DirectoriesAreWhole
<1>3. Len(origin') \in Nat
  BY <1>2, AppendAny
<1>4. BestIsSaved'
  <2>1. curve' \in Seq(Evaluations)
    BY <1>1
  <2>2. QED BY <1>1, <2>1, EmptyAny DEF BestIsSaved
<1>5. UpdatesWereNow'
  BY <1>1, <1>3 DEF UpdatesWereNow
<1>6. DirectoriesAreWhole'
  BY <1>1 DEF TInv, DirectoriesAreWhole
<1>7. QED
  BY <1>1, <1>2, <1>3, <1>4, <1>5, <1>6 DEF TInv, AdapterOn, GradientIsNow

\* What keeps the invariant of a step that leaves the weights, the evaluations and the
\* files alone.
LEMMA SameWeights ==
    ASSUME TInv,
           UNCHANGED <<run, origin, weights, curve, bestEval, adapterPath, saved>>,
           loop' \notin {"publish", "done"}, published' = published,
           adapterPath = "final" => loop' = "failed",
           loop' = "validate" => run.stage = "sft",
           AdapterOn', GradientIsNow'
    PROVE  TInv'
<1>1. BestIsSaved'
  BY DEF TInv, BestIsSaved, Kept, At, step
<1>2. UpdatesWereNow' /\ DirectoriesAreWhole'
  BY DEF TInv, UpdatesWereNow, DirectoriesAreWhole
<1>3. QED BY <1>1, <1>2 DEF TInv

\* The shuffle of a pass, the cleared gradient and a batch that cannot be collated.
LEMMA BookkeepingInv ==
    ASSUME TInv, Shuffle \/ ZeroGrad \/ CollateFails \/ ValidationFails PROVE TInv'
<1>1. /\ UNCHANGED <<run, origin, weights, curve, bestEval, adapterPath, saved, published>>
      /\ loop' \in {"group", "micro", "failed"}
      /\ enabled' = enabled
  BY DEF Shuffle, ZeroGrad, CollateFails, ValidationFails
<1>2. loop \notin {"publish", "done", "failed", "reference"}
  BY DEF Shuffle, ZeroGrad, CollateFails, ValidationFails, InMicro
<1>3. adapterPath # "final"
  BY <1>2 DEF TInv, BestIsSaved
<1>4. AdapterOn'
  BY <1>1, <1>2 DEF TInv, AdapterOn
<1>5. loop' = "micro" => gradient' = <<>>
  BY DEF Shuffle, ZeroGrad, CollateFails, ValidationFails, Cleared
<1>6. GradientIsNow'
  BY <1>1, <1>5, EmptyAny DEF GradientIsNow
<1>7. QED BY <1>1, <1>3, <1>4, <1>6, SameWeights

\* A pass over a micro-batch adds a gradient taken with the adapter on; the reference
\* pass, taken with it off, sees the bare checkpoint.
LEMMA PassInv ==
    ASSUME TInv, SupervisedPass \/ PolicyPass \/ ReferencePass PROVE TInv'
<1>1. /\ UNCHANGED <<run, origin, weights, curve, bestEval, adapterPath, saved, published>>
      /\ loop \in {"micro", "reference"} /\ loop' \in {"micro", "reference"}
  BY DEF SupervisedPass, PolicyPass, ReferencePass, InMicro
<1>2. adapterPath # "final"
  BY <1>1 DEF TInv, BestIsSaved
<1>3. AdapterOn'
  BY <1>1 DEF TInv, AdapterOn, SupervisedPass, PolicyPass, ReferencePass, InMicro, AfterContext
<1>4. CASE SupervisedPass \/ PolicyPass
  <2>1. enabled /\ Running = weights
    BY <1>4 DEF TInv, AdapterOn, SupervisedPass, PolicyPass, InMicro, Running
  <2>2. gradient' = Append(gradient, Backward(weights, <<>>))
    BY <1>4, <2>1 DEF SupervisedPass, PolicyPass
  <2>3. Backward(weights, <<>>).policy = weights /\ Backward(weights, <<>>).reference = <<>>
    BY DEF Backward
  <2>4. /\ IsSeq(gradient)
        /\ \A c \in DOMAIN gradient : /\ gradient[c].policy = weights
                                      /\ gradient[c].reference = <<>>
    BY <1>1 DEF TInv, GradientIsNow
  <2> DEFINE part == Backward(weights, <<>>)
  <2> HIDE DEF part
  <2>5. /\ IsSeq(Append(gradient, part)) /\ Len(gradient) \in Nat
        /\ DOMAIN gradient = 1..Len(gradient)
        /\ DOMAIN Append(gradient, part) = 1..Len(gradient) + 1
        /\ Append(gradient, part)[Len(gradient) + 1] = part
        /\ \A i \in 1..Len(gradient) : Append(gradient, part)[i] = gradient[i]
    BY <2>4, AppendAny
  <2>6. ASSUME NEW c \in 1..Len(gradient) + 1
        PROVE  /\ Append(gradient, part)[c].policy = weights
               /\ Append(gradient, part)[c].reference = <<>>
    <3>1. CASE c = Len(gradient) + 1
      BY <2>3, <2>5, <3>1 DEF part
    <3>2. CASE c \in 1..Len(gradient)
      BY <2>4, <2>5, <3>2
    <3>3. QED BY <2>5, <3>1, <3>2
  <2>7. GradientIsNow'
    BY <1>1, <2>2, <2>5, <2>6 DEF GradientIsNow, part
  <2>8. QED BY <1>1, <1>2, <1>3, <2>7, SameWeights
<1>5. CASE ReferencePass
  <2>1. Running = <<>> /\ loop = "reference"
    BY <1>5 DEF TInv, AdapterOn, ReferencePass, Running
  <2>2. gradient' = [gradient EXCEPT ![Len(gradient)].reference = <<>>]
    BY <1>5, <2>1 DEF ReferencePass
  <2>3. /\ IsSeq(gradient)
        /\ \A c \in DOMAIN gradient : /\ gradient[c].policy = weights
                                      /\ gradient[c].reference = <<>>
    BY <1>1 DEF TInv, GradientIsNow
  <2>4. DOMAIN gradient' = DOMAIN gradient
    BY <2>2
  <2>5. \A c \in DOMAIN gradient : /\ gradient'[c].policy = weights
                                  /\ gradient'[c].reference = <<>>
    BY <2>2, <2>3
  <2>6. IsSeq(gradient')
    <3>1. Len(gradient) \in Nat /\ DOMAIN gradient = 1..Len(gradient)
      BY <2>3, AppendAny
    <3>2. gradient' = [i \in 1..Len(gradient) |-> gradient'[i]]
      BY <2>2, <3>1
    <3>3. QED BY <3>1, <3>2, FunctionIsSeq
  <2>7. GradientIsNow'
    BY <1>1, <2>4, <2>5, <2>6 DEF GradientIsNow
  <2>8. QED BY <1>1, <1>2, <1>3, <2>7, SameWeights
<1>6. QED BY <1>4, <1>5

\* Where a step leads.
LEMMA OnwardIs == \A done, rest : Onward(done, rest) \in {"finish", "epoch", "group"}
  BY Zenon DEF Onward

\* An update appends the gradient of the weights before it and leaves the earlier ones.
LEMMA UpdateInv == ASSUME TInv, Update PROVE TInv'
<1>1. /\ UNCHANGED <<run, origin, enabled, gradient, curve, bestEval, adapterPath, saved,
                     published>>
      /\ loop = "micro"
  BY DEF Update
<1>2. PICK u : weights' = Append(weights, u) /\ u.gradient = gradient
  BY DEF Update
<1>3. loop' \in {"validate", "finish", "epoch", "group"}
  BY OnwardIs DEF Update
<1>4. loop' = "validate" => run.stage = "sft"
  <2>1. \A done, rest : Onward(done, rest) # "validate"
    BY OnwardIs
  <2>2. QED BY <2>1 DEF Update
<1>5. /\ IsSeq(weights') /\ Len(weights) \in Nat /\ Len(weights') = Len(weights) + 1
      /\ weights'[Len(weights) + 1] = u
      /\ \A i \in 1..Len(weights) : weights'[i] = weights[i]
      /\ \A n \in 0..Len(weights) : SubSeq(weights', 1, n) = SubSeq(weights, 1, n)
      /\ SubSeq(weights, 1, Len(weights)) = weights
  BY <1>2, AppendAny DEF TInv
<1>6. Len(origin) \in Nat /\ Len(origin) <= Len(weights)
  BY AppendAny DEF TInv
<1>7. UpdatesWereNow'
  <2> SUFFICES ASSUME NEW m \in Len(origin) + 1..Len(weights) + 1,
                      NEW part \in ToSet(weights'[m].gradient)
               PROVE  /\ part.policy = SubSeq(weights', 1, m - 1)
                      /\ part.reference = <<>>
    BY <1>1, <1>5 DEF UpdatesWereNow
  <2>1. CASE m \in Len(origin) + 1..Len(weights)
    <3>1. m - 1 \in 0..Len(weights) /\ m \in 1..Len(weights)
      BY <1>5, <1>6, <2>1
    <3>2. weights'[m] = weights[m] /\ SubSeq(weights', 1, m - 1) = SubSeq(weights, 1, m - 1)
      BY <1>5, <3>1
    <3>3. QED BY <2>1, <3>2 DEF TInv, UpdatesWereNow
  <2>2. CASE m = Len(weights) + 1
    <3>1. part \in ToSet(gradient) /\ m - 1 = Len(weights)
      BY <1>2, <1>5, <2>2
    <3>2. SubSeq(weights', 1, m - 1) = weights
      BY <1>5, <3>1
    <3>3. QED BY <1>1, <3>1, <3>2 DEF TInv, GradientIsNow, ToSet
  <2>3. QED BY <1>5, <1>6, <2>1, <2>2
<1>8. BestIsSaved'
  <2>1. step' = step + 1 /\ step \in Nat
    BY <1>1, <1>5, <1>6 DEF step
  <2>2. ASSUME NEW n \in 0..step PROVE At(n)' = At(n)
    BY <1>1, <1>5, <1>6 DEF step, At
  <2>3. /\ curve \in Seq(Evaluations)
        /\ \A i \in DOMAIN curve : curve[i].step <= step /\ curve[i].step \in Nat
    <3>1. curve \in Seq(Evaluations) /\ \A i \in DOMAIN curve : curve[i].step <= step
      BY DEF TInv, BestIsSaved
    <3>2. \A i \in DOMAIN curve : curve[i] \in Evaluations
      BY <3>1
    <3>3. QED BY <3>1, <3>2 DEF Evaluations
  <2>4. \A i \in DOMAIN curve : curve[i].step <= step' /\ At(curve[i].step)' = At(curve[i].step)
    BY <1>1, <2>1, <2>2, <2>3
  <2>5. adapterPath # "final"
    BY <1>1 DEF TInv, BestIsSaved
  <2>6. \A i : Kept(i)' <=> Kept(i)
    BY <1>1 DEF Kept
  <2>7. curve # <<>> =>
          /\ run.stage = "sft" /\ adapterPath = "best"
          /\ \E i \in DOMAIN curve : /\ Kept(i)' /\ bestEval = {curve[i]}
                                     /\ saved["sft"]["best"] = Saved(At(curve[i].step)')
    BY <2>4, <2>6 DEF TInv, BestIsSaved
  <2>8. QED BY <1>1, <1>3, <2>3, <2>4, <2>5, <2>7 DEF TInv, BestIsSaved
<1>9. QED
  BY <1>1, <1>3, <1>4, <1>5, <1>6, <1>7, <1>8
     DEF TInv, AdapterOn, GradientIsNow, DirectoriesAreWhole

\* A validation that improves keeps its evaluation; one that does not keeps the earlier.
LEMMA KeptAfter ==
    ASSUME TInv, NEW e \in Evaluations, curve' = Append(curve, e)
    PROVE  LET n == Len(curve) IN
           /\ n \in Nat /\ DOMAIN curve = 1..n /\ DOMAIN curve' = 1..n + 1 /\ curve' # <<>>
           /\ curve' \in Seq(Evaluations) /\ curve'[n + 1] = e
           /\ \A i \in 1..n : curve'[i] = curve[i] /\ curve[i] \in Evaluations
           /\ Improves(e.loss) => \E i \in 1..n + 1 : i = n + 1 /\ Kept(i)'
           /\ ~Improves(e.loss) =>
                 \E i \in 1..n : /\ Kept(i)' /\ bestEval = {curve[i]} /\ n # 0
                                /\ saved["sft"]["best"] = Saved(At(curve[i].step))
<1>1. PICK n \in Nat : n = Len(curve)
  BY DEF TInv, BestIsSaved
<1>2. /\ curve \in Seq(Evaluations) /\ DOMAIN curve = 1..n
      /\ \A i \in 1..n : curve[i] \in Evaluations
  BY <1>1 DEF TInv, BestIsSaved
<1>3. /\ curve' \in Seq(Evaluations) /\ DOMAIN curve' = 1..n + 1 /\ curve'[n + 1] = e
      /\ \A i \in 1..n : curve'[i] = curve[i]
      /\ curve' # <<>>
  BY <1>1, <1>2
<1>4. \A i \in 1..n + 1 : curve'[i].loss \in Nat /\ curve'[i] \in Evaluations
  <2>1. ASSUME NEW i \in 1..n + 1 PROVE curve'[i] \in Evaluations
    <3>1. i \in 1..n \/ i = n + 1
      OBVIOUS
    <3>2. QED BY <1>2, <1>3, <3>1
  <2>2. QED BY <2>1 DEF Evaluations
<1>5. n # 0 => \E i \in 1..n : /\ Kept(i) /\ bestEval = {curve[i]}
                              /\ saved["sft"]["best"] = Saved(At(curve[i].step))
  BY <1>1, <1>2 DEF TInv, BestIsSaved
<1>6. n = 0 => bestEval = {}
  BY <1>1, <1>2 DEF TInv, BestIsSaved
<1>7. ASSUME Improves(e.loss) PROVE Kept(n + 1)'
  <2>1. CASE n = 0
    BY <1>3, <2>1 DEF Kept
  <2>2. CASE n # 0
    <3>1. PICK i \in 1..n : Kept(i) /\ bestEval = {curve[i]}
      BY <1>5, <2>2
    <3>2. e.loss < curve[i].loss /\ e.loss # NaN /\ curve[i].loss # NaN
      BY <1>7, <3>1 DEF Improves
    <3>3. curve[1].loss # NaN
      BY <3>1, <3>2 DEF Kept
    <3>4. curve'[1].loss # NaN /\ e.loss \in Nat /\ curve[i].loss \in Nat
      BY <1>2, <1>3, <2>2, <3>3 DEF Evaluations
    <3>5. ASSUME NEW j \in 1..n + 1, curve'[j].loss # NaN
          PROVE  \/ curve'[n + 1].loss < curve'[j].loss
                 \/ curve'[n + 1].loss = curve'[j].loss /\ n + 1 <= j
      <4>0. j \in 1..n \/ j = n + 1
        OBVIOUS
      <4>1. CASE j = n + 1
        BY <1>3, <3>4, <4>1
      <4>2. CASE j \in 1..n
        <5>1. curve'[j] = curve[j] /\ curve[j].loss \in Nat
          BY <1>3, <1>4, <4>2
        <5>2. curve[i].loss < curve[j].loss \/ curve[i].loss = curve[j].loss
          BY <1>2, <3>1, <3>3, <3>5, <4>2, <5>1 DEF Kept
        <5>3. QED BY <1>3, <3>2, <3>4, <5>1, <5>2
      <4>3. QED BY <4>0, <4>1, <4>2
    <3>6. QED BY <1>3, <3>2, <3>4, <3>5 DEF Kept
  <2>3. QED BY <2>1, <2>2
<1>8. ASSUME ~Improves(e.loss)
      PROVE  \E i \in 1..n : /\ Kept(i)' /\ bestEval = {curve[i]} /\ n # 0
                            /\ saved["sft"]["best"] = Saved(At(curve[i].step))
  <2>1. n # 0
    BY <1>6, <1>8 DEF Improves
  <2>2. PICK i \in 1..n : /\ Kept(i) /\ bestEval = {curve[i]}
                          /\ saved["sft"]["best"] = Saved(At(curve[i].step))
    BY <1>5, <2>1
  <2>3. ~(e.loss < curve[i].loss) \/ e.loss = NaN \/ curve[i].loss = NaN
    BY <1>8, <2>2 DEF Improves
  <2>4. Kept(i)'
    <3>1. CASE curve[1].loss = NaN
      BY <1>2, <1>3, <2>1, <2>2, <3>1 DEF Kept
    <3>2. CASE curve[1].loss # NaN
      <4>1. /\ curve[i].loss # NaN /\ curve[i].loss \in Nat /\ e.loss \in Nat
            /\ \A j \in 1..n : curve[j].loss # NaN =>
                   \/ curve[i].loss < curve[j].loss
                   \/ curve[i].loss = curve[j].loss /\ i <= j
        BY <1>2, <1>4, <1>3, <2>2, <3>2 DEF Kept
      <4>2. ASSUME NEW j \in 1..n + 1, curve'[j].loss # NaN
            PROVE  \/ curve'[i].loss < curve'[j].loss
                   \/ curve'[i].loss = curve'[j].loss /\ i <= j
        <5>0. j \in 1..n \/ j = n + 1
          OBVIOUS
        <5>1. CASE j = n + 1
          BY <1>3, <2>3, <4>1, <4>2, <5>1
        <5>2. CASE j \in 1..n
          BY <1>3, <4>1, <4>2, <5>2
        <5>3. QED BY <5>0, <5>1, <5>2
      <4>3. QED BY <1>3, <2>1, <3>2, <4>1, <4>2 DEF Kept
    <3>3. QED BY <3>1, <3>2
  <2>5. QED BY <2>1, <2>2, <2>4
<1>9. QED BY <1>1, <1>2, <1>3, <1>7, <1>8

\* validate keeps, and saves, the weights it finds best.
LEMMA ValidateInv == ASSUME TInv, Validate PROVE TInv'
<1>1. /\ UNCHANGED <<run, origin, weights, enabled, gradient, published>>
      /\ loop = "validate" /\ run.stage = "sft"
  BY DEF TInv, Validate
<1>2. loop' \in {"finish", "epoch", "group"}
  BY OnwardIs DEF Validate
<1>3. Len(weights) \in Nat /\ Len(origin) \in Nat /\ Len(origin) <= Len(weights) /\ step \in Nat
      /\ At(step) = weights
  BY AppendAny DEF TInv, step, At
<1>4. PICK loss \in Losses :
          /\ curve' = Append(curve, [step |-> step, loss |-> loss])
          /\ IF Improves(loss)
             THEN /\ bestEval' = {[step |-> step, loss |-> loss]}
                  /\ adapterPath' = "best"
                  /\ saved' = [saved EXCEPT !["sft"]["best"] = Saved(weights)]
             ELSE UNCHANGED <<bestEval, adapterPath, saved>>
  BY DEF Validate
<1> DEFINE e == [step |-> step, loss |-> loss]
<1>5. PICK v : v = e
  OBVIOUS
<1>6. v \in Evaluations /\ v.step = step /\ v.loss = loss
  BY <1>3, <1>5, TrainingAssumption DEF Evaluations
<1>7. PICK n \in Nat : n = Len(curve)
  BY DEF TInv, BestIsSaved
<1>8. /\ DOMAIN curve = 1..n /\ DOMAIN curve' = 1..n + 1 /\ curve' # <<>>
      /\ curve' \in Seq(Evaluations) /\ curve'[n + 1] = v
      /\ \A i \in 1..n : curve'[i] = curve[i] /\ curve[i] \in Evaluations
      /\ Improves(loss) => \E i \in 1..n + 1 : i = n + 1 /\ Kept(i)'
      /\ ~Improves(loss) =>
            \E i \in 1..n : /\ Kept(i)' /\ bestEval = {curve[i]} /\ n # 0
                           /\ saved["sft"]["best"] = Saved(At(curve[i].step))
  <2>1. curve' = Append(curve, v)
    BY <1>4, <1>5
  <2>2. QED BY <1>6, <1>7, <2>1, KeptAfter
<1>9. \A i \in DOMAIN curve' : curve'[i].step <= step'
  <2>1. ASSUME NEW i \in 1..n + 1 PROVE curve'[i].step <= step
    <3>0. i \in 1..n \/ i = n + 1
      OBVIOUS
    <3>1. CASE i \in 1..n
      BY <1>8, <3>1 DEF TInv, BestIsSaved
    <3>2. CASE i = n + 1
      BY <1>3, <1>6, <1>8, <3>2
    <3>3. QED BY <3>0, <3>1, <3>2
  <2>2. QED BY <1>1, <1>8, <2>1 DEF step
<1>10. adapterPath' = "best" /\
       \E i \in DOMAIN curve' : /\ Kept(i)' /\ bestEval' = {curve'[i]}
                               /\ saved'["sft"]["best"] = Saved(At(curve'[i].step))
  <2>1. CASE Improves(loss)
    <3>1. saved'["sft"]["best"] = Saved(weights)
      BY <1>4, <2>1 DEF TInv, DirectoriesAreWhole, StageNames, Directories
    <3>2. At(curve'[n + 1].step) = weights
      BY <1>3, <1>6, <1>8
    <3>3. QED BY <1>4, <1>5, <1>8, <2>1, <3>1, <3>2
  <2>2. CASE ~Improves(loss)
    <3>1. PICK i \in 1..n : /\ Kept(i)' /\ bestEval = {curve[i]} /\ n # 0
                            /\ saved["sft"]["best"] = Saved(At(curve[i].step))
      BY <1>8, <2>2
    <3>2. adapterPath = "best"
      <4>1. curve # <<>>
        BY <1>7, <3>1
      <4>2. QED BY <4>1 DEF TInv, BestIsSaved
    <3>3. i \in DOMAIN curve'
      BY <1>8
    <3>4. curve'[i] = curve[i] /\ At(curve'[i].step) = At(curve[i].step)
      BY <1>8
    <3>5. UNCHANGED <<bestEval, adapterPath, saved>>
      BY <1>4, <2>2
    <3>6. QED BY <3>1, <3>2, <3>3, <3>4, <3>5
  <2>3. QED BY <2>1, <2>2
<1>11. BestIsSaved'
  <2>1. \E i \in DOMAIN curve' : /\ Kept(i)' /\ bestEval' = {curve'[i]}
                                /\ saved'["sft"]["best"] = Saved(SubSeq(weights', 1,
                                                          Len(origin') + curve'[i].step))
    BY <1>1, <1>10 DEF At
  <2>2. QED BY <1>1, <1>2, <1>8, <1>9, <1>10, <2>1 DEF BestIsSaved, At
<1>12. DirectoriesAreWhole'
  BY <1>1, <1>4 DEF TInv, DirectoriesAreWhole, StageNames, Directories, Saved
<1>13. QED
  BY <1>1, <1>2, <1>11, <1>12 DEF TInv, AdapterOn, GradientIsNow, UpdatesWereNow

\* Without a validation the last weights are saved.
LEMMA FinishInv == ASSUME TInv, Finish PROVE TInv'
<1>1. /\ UNCHANGED <<run, origin, weights, enabled, gradient, curve, bestEval, published>>
      /\ loop = "finish" /\ loop' = "publish" /\ run.stage \in StageNames
  BY TrainingAssumption DEF TInv, Finish, StageNames
<1>2. DirectoriesAreWhole'
  BY <1>1 DEF TInv, DirectoriesAreWhole, StageNames, Directories, Saved, Finish
<1>3. BestIsSaved'
  <2>1. CASE adapterPath = "none"
    <3>1. /\ adapterPath' = "final" /\ saved'[run.stage]["final"] = Saved(weights)
      BY <1>1, <2>1 DEF Finish, TInv, DirectoriesAreWhole, StageNames, Directories
    <3>2. curve = <<>>
      BY <2>1 DEF TInv, BestIsSaved
    <3>3. QED BY <1>1, <3>1, <3>2, EmptyAny DEF TInv, BestIsSaved
  <2>2. CASE adapterPath # "none"
    BY <1>1, <2>2 DEF Finish, TInv, BestIsSaved, Kept, At, step
  <2>3. QED BY <2>1, <2>2
<1>4. QED
  BY <1>1, <1>2, <1>3 DEF TInv, AdapterOn, GradientIsNow, UpdatesWereNow

\* What was saved is published, whole.
LEMMA PublishInv == ASSUME TInv, Publish PROVE TInv'
<1>1. /\ UNCHANGED <<run, origin, weights, enabled, gradient, curve, bestEval, adapterPath,
                     saved>>
      /\ loop = "publish" /\ loop' = "done" /\ run.stage \in StageNames
      /\ published' = [published EXCEPT ![run.stage] = saved[run.stage][adapterPath]]
  BY TrainingAssumption DEF TInv, Publish, StageNames, Source
<1>2. adapterPath \in Directories
  BY <1>1 DEF TInv, BestIsSaved, Directories
<1>3. DirectoriesAreWhole'
  BY <1>1, <1>2 DEF TInv, DirectoriesAreWhole
<1>4. BestIsSaved'
  <2>1. published'[run.stage] = saved[run.stage][adapterPath]
    BY <1>1 DEF TInv, DirectoriesAreWhole
  <2>2. QED BY <1>1, <2>1 DEF TInv, BestIsSaved, Kept, At, step
<1>5. QED
  BY <1>1, <1>3, <1>4 DEF TInv, AdapterOn, GradientIsNow, UpdatesWereNow

\* A death leaves a run that will do nothing more.
LEMMA DieInv == ASSUME TInv, Die PROVE TInv'
<1>1. /\ UNCHANGED <<run, origin, weights, enabled, gradient, curve, bestEval, adapterPath,
                     saved>>
      /\ loop' = "failed" /\ run.stage \in StageNames
  BY TrainingAssumption DEF TInv, Die, StageNames
<1>2. DirectoriesAreWhole'
  <2>1. Nothing.weights = <<>>
    BY DEF Nothing
  <2>2. \/ published' = published
        \/ published' = [published EXCEPT ![run.stage] = Nothing]
    BY DEF Die
  <2>3. \A s \in StageNames : published'[s] = published[s] \/ published'[s] = Nothing
    BY <2>2 DEF TInv, DirectoriesAreWhole
  <2>4. published' = [s \in StageNames |-> published'[s]]
    BY <2>2 DEF TInv, DirectoriesAreWhole
  <2>5. QED BY <1>1, <2>1, <2>3, <2>4, EmptyAny DEF TInv, DirectoriesAreWhole
<1>3. BestIsSaved'
  BY <1>1 DEF TInv, BestIsSaved, Kept, At, step
<1>4. QED BY <1>1, <1>2, <1>3 DEF TInv, AdapterOn, GradientIsNow, UpdatesWereNow

\* Every step of training keeps the invariant.
LEMMA TrainingStepInv == ASSUME TInv, [TrainingNext]_trainingVars PROVE TInv'
<1>1. CASE UNCHANGED trainingVars
  <2>1. BestIsSaved'
    BY <1>1 DEF TInv, BestIsSaved, Kept, At, step, trainingVars
  <2>2. QED
    BY <1>1, <2>1 DEF TInv, trainingVars, AdapterOn, GradientIsNow, UpdatesWereNow,
                      DirectoriesAreWhole
<1>2. QED
  BY <1>1, BeginInv, BookkeepingInv, PassInv, UpdateInv, ValidateInv, FinishInv, PublishInv,
     DieInv DEF TrainingNext

\* The inductive invariant: at every point of every run the accumulated gradient and
\* all updates are of the weights they were applied to against the bare checkpoint,
\* and what is on disk is what the run's evaluations chose.
THEOREM TrainingInvariance == TrainingSpec => []TInv
  BY TrainingInitInv, TrainingStepInv, PTL DEF TrainingSpec

-----------------------------------------------------------------------------
(* What training promises.                                                 *)

\* The updates of this run are the tail of the weights.
LEMMA MyUpdatesAre ==
    ASSUME TInv
    PROVE  LET o == Len(origin) IN
           /\ o \in Nat /\ DOMAIN MyUpdates = 1..Len(weights) - o
           /\ \A n \in DOMAIN MyUpdates : /\ n \in Nat /\ o + n \in o + 1..Len(weights)
                                          /\ MyUpdates[n] = weights[o + n]
           /\ \A m \in o + 1..Len(weights) :
                 \E n \in DOMAIN MyUpdates : o + n = m /\ MyUpdates[n] = weights[m]
<1>1. PICK S : weights \in Seq(S)
  BY DEF TInv, IsSeq
<1>2. PICK o \in Nat : o = Len(origin)
  BY AppendAny DEF TInv
<1>3. Len(weights) \in Nat /\ o <= Len(weights)
  BY <1>1, <1>2 DEF TInv
<1>4. MyUpdates = SubSeq(weights, o + 1, Len(weights))
  BY <1>2 DEF MyUpdates
<1>5. /\ DOMAIN MyUpdates = 1..Len(weights) - o
      /\ \A n \in 1..Len(weights) - o : MyUpdates[n] = weights[o + n]
  BY <1>1, <1>3, <1>4
<1>6. \A n \in 1..Len(weights) - o : n \in Nat /\ o + n \in o + 1..Len(weights)
  BY <1>3
<1>7. ASSUME NEW m \in o + 1..Len(weights)
      PROVE  \E n \in DOMAIN MyUpdates : o + n = m /\ MyUpdates[n] = weights[m]
  <2>1. m - o \in 1..Len(weights) - o /\ o + (m - o) = m
    BY <1>3
  <2>2. QED BY <1>5, <2>1
<1>8. QED BY <1>2, <1>5, <1>6, <1>7

\* No update of any run, supervised or preference, was computed with the adapter in the
\* wrong position: its policy is the weights before it and its reference the bare
\* checkpoint (reference_context disables the adapter and switches it on again).
THEOREM ReferencesAreBase == TrainingSpec => []ReferenceIsBase
<1>1. TInv => ReferenceIsBase
  <2> SUFFICES ASSUME TInv, NEW n \in DOMAIN MyUpdates, NEW part \in ToSet(MyUpdates[n].gradient)
               PROVE  /\ part.policy = SubSeq(weights, 1, Len(origin) + n - 1)
                      /\ part.reference = <<>>
    BY DEF ReferenceIsBase
  <2>1. MyUpdates[n] = weights[Len(origin) + n] /\ Len(origin) + n \in Len(origin) + 1..Len(weights)
    BY MyUpdatesAre
  <2>2. PICK o \in Nat : o = Len(origin) /\ n \in Nat
    BY MyUpdatesAre
  <2>3. (o + n) - 1 = o + n - 1
    BY <2>2
  <2>4. part \in ToSet(weights[o + n].gradient) /\ o + n \in o + 1..Len(weights)
    BY <2>1, <2>2
  <2>5. UpdatesWereNow
    BY DEF TInv
  <2>6. QED BY <2>2, <2>3, <2>4, <2>5, Zenon DEF UpdatesWereNow
<1>2. QED BY <1>1, TrainingInvariance, PTL

\* After a run the published adapter is the first of its lowest-validated weights (its
\* last weights if it validated nothing, its first evaluated if that one was NaN), for
\* every history of earlier runs into the same directories, failed ones included.
THEOREM BestIsPublished == TrainingSpec => []PublishedIsBest
<1> DEFINE sound == {i \in DOMAIN curve : curve[i].loss # NaN}
           Least(i) == /\ i \in sound
                       /\ \A j \in sound : \/ curve[i].loss < curve[j].loss
                                           \/ curve[i].loss = curve[j].loss /\ i <= j
           first == CHOOSE i \in sound :
                        \A j \in sound : \/ curve[i].loss < curve[j].loss
                                         \/ curve[i].loss = curve[j].loss /\ i <= j
           chosen == CASE curve = <<>> -> weights
                       [] curve # <<>> /\ curve[1].loss = NaN -> At(curve[1].step)
                       [] OTHER -> At(curve[first].step)
<1>1. TInv /\ loop = "done" => published[run.stage] = Saved(chosen)
  <2> SUFFICES ASSUME TInv, loop = "done" PROVE published[run.stage] = Saved(chosen)
    OBVIOUS
  <2>1. published[run.stage] = saved[run.stage][adapterPath] /\ adapterPath # "none"
    BY DEF TInv, BestIsSaved
  <2>2. CASE curve = <<>>
    <3>1. published[run.stage] = Saved(weights)
      BY <2>1, <2>2 DEF TInv, BestIsSaved
    <3>2. chosen = weights
      BY <2>2, Zenon
    <3>3. QED BY <3>1, <3>2
  <2>3. CASE curve # <<>>
    <3>1. PICK i \in DOMAIN curve : Kept(i) /\ saved["sft"]["best"] = Saved(At(curve[i].step))
      BY <2>3 DEF TInv, BestIsSaved
    <3>2. published[run.stage] = Saved(At(curve[i].step))
      BY <2>1, <2>3, <3>1 DEF TInv, BestIsSaved
    <3>3. CASE curve[1].loss = NaN
      <4>1. chosen = At(curve[1].step)
        BY <2>3, <3>3, Zenon
      <4>2. i = 1
        BY <3>1, <3>3 DEF Kept
      <4>3. QED BY <3>2, <4>1, <4>2
    <3>4. CASE curve[1].loss # NaN
      <4>1. chosen = At(curve[first].step)
        BY <2>3, <3>4, Zenon
      <4>2. Least(i)
        BY <3>1, <3>4 DEF Kept
      <4>3. \A j \in sound : curve[j].loss \in Nat /\ j \in Nat
        <5>1. curve \in Seq(Evaluations)
          BY DEF TInv, BestIsSaved
        <5>2. \A j \in DOMAIN curve : curve[j] \in Evaluations /\ j \in Nat
          BY <5>1
        <5>3. QED BY <5>2 DEF Evaluations
      <4>4. Least(first)
        <5> HIDE DEF sound
        <5>1. QED BY <4>2
      <4>5. first = i
        <5> HIDE DEF first
        <5>1. first \in sound /\ i \in sound
          BY <4>2, <4>4
        <5>2. QED BY <4>2, <4>3, <4>4, <5>1
      <4>6. QED BY <3>2, <4>1, <4>5
    <3>5. QED BY <3>3, <3>4
  <2>4. QED BY <2>2, <2>3
<1>2. (loop = "done" => published[run.stage] = Saved(chosen)) => PublishedIsBest
  BY Zenon DEF PublishedIsBest, At
<1>3. TInv => PublishedIsBest
  BY <1>1, <1>2
<1>4. QED BY <1>3, TrainingInvariance, PTL
-----------------------------------------------------------------------------
(* How accumulation_groups cuts a pass.                                    *)

\* A smaller factor gives a smaller product, by at least the other factor.
LEMMA ProductGrows ==
    ASSUME NEW n \in Nat, NEW i \in Nat, NEW h \in Nat, i < h
    PROVE  i * n \in Nat /\ h * n \in Nat /\ i * n + n <= h * n
<1> DEFINE e == h - i - 1
<1>1. e \in Nat /\ h = i + 1 + e
  OBVIOUS
<1> HIDE DEF e
<1>2. h * n = i * n + n + e * n
  BY <1>1
<1>3. e * n \in Nat /\ i * n \in Nat
  BY <1>1
<1>4. QED BY <1>2, <1>3

\* No two places of the pieces stand for one of the whole.
LEMMA PlacesDiffer ==
    ASSUME NEW n \in Nat \ {0}, NEW i \in Nat, NEW h \in Nat, NEW j \in 1..n, NEW l \in 1..n,
           i * n + j = h * n + l
    PROVE  i = h /\ j = l
<1>1. ~(i < h)
  <2>1. i < h => i * n \in Nat /\ h * n \in Nat /\ i * n + n <= h * n
    BY ProductGrows
  <2>2. QED BY <2>1
<1>2. ~(h < i)
  <2>1. h < i => h * n \in Nat /\ i * n \in Nat /\ h * n + n <= i * n
    BY ProductGrows
  <2>2. QED BY <2>1
<1>3. i = h
  BY <1>1, <1>2
<1>4. i * n \in Nat
  OBVIOUS
<1>5. QED BY <1>3, <1>4

\* As many pieces as it takes.
LEMMA CeilDivIs ==
    ASSUME NEW a \in Nat, NEW n \in Nat \ {0}
    PROVE  /\ CeilDiv(a, n) \in Nat /\ CeilDiv(a, n) * n \in Nat
           /\ a <= CeilDiv(a, n) * n /\ CeilDiv(a, n) * n < a + n
           /\ a # 0 => CeilDiv(a, n) # 0
<1> DEFINE c == a + n - 1
           q == c \div n
           r == c % n
<1>1. c \in Nat /\ CeilDiv(a, n) = q
  BY DEF CeilDiv
<1> HIDE DEF c
<1>2. q \in Nat /\ r \in 0..n - 1 /\ c = n * q + r
  BY <1>1
<1> HIDE DEF q, r
<1>3. q * n = n * q /\ q * n \in Nat
  BY <1>2
<1>4. q * n = a + n - 1 - r
  BY <1>2, <1>3 DEF c
<1>5. a <= q * n /\ q * n < a + n
  BY <1>2, <1>4
<1>6. q = 0 => q * n = 0
  BY <1>2
<1>7. QED BY <1>1, <1>2, <1>3, <1>5, <1>6

\* A piece of a sequence.
LEMMA PieceIs ==
    ASSUME NEW T, NEW s \in Seq(T), NEW x \in 1..Len(s), NEW y \in 1..Len(s), x <= y
    PROVE  /\ SubSeq(s, x, y) \in Seq(T) /\ DOMAIN SubSeq(s, x, y) = 1..y - x + 1
           /\ \A j \in 1..y - x + 1 : SubSeq(s, x, y)[j] = s[x + j - 1]
  OBVIOUS

\* The pieces are made of the places of the whole, each of which is in one.
Pieces(pieces, s, n) ==
    /\ \A i \in DOMAIN pieces :
          /\ i \in Nat /\ i - 1 \in Nat
          /\ \A j \in DOMAIN pieces[i] : /\ j \in 1..n /\ (i - 1) * n + j \in DOMAIN s
                                        /\ pieces[i][j] = s[(i - 1) * n + j]
    /\ \A k \in DOMAIN s :
          \E i \in DOMAIN pieces : \E j \in DOMAIN pieces[i] : k = (i - 1) * n + j

LEMMA CutIs ==
    ASSUME NEW T, NEW s \in Seq(T), NEW n \in Nat \ {0}
    PROVE  Cut(s, n) \in Seq(Seq(T)) /\ Pieces(Cut(s, n), s, n)
<1> DEFINE a == Len(s)
           q == CeilDiv(a, n)
           lo(i) == (i - 1) * n + 1
           hi(i) == IF i * n < a THEN i * n ELSE a
<1>1. a \in Nat /\ DOMAIN s = 1..a
  OBVIOUS
<1>2. q \in Nat /\ q * n \in Nat /\ a <= q * n /\ q * n < a + n
  BY <1>1, CeilDivIs
<1>3. Cut(s, n) = [i \in 1..q |-> SubSeq(s, lo(i), hi(i))]
  BY DEF Cut
<1> HIDE DEF q, a
<1>4. ASSUME NEW i \in 1..q
      PROVE  /\ i - 1 \in Nat /\ i \in Nat
             /\ (i - 1) * n \in Nat /\ i * n = (i - 1) * n + n /\ (i - 1) * n < a
             /\ lo(i) \in 1..a /\ hi(i) \in 1..a /\ lo(i) <= hi(i)
  <2>1. i - 1 \in Nat /\ i \in Nat /\ i - 1 < q
    BY <1>2
  <2>2. (i - 1) * n \in Nat /\ (i - 1) * n + n <= q * n
    BY <1>2, <2>1, ProductGrows
  <2>3. i * n = (i - 1) * n + n
    <3> DEFINE d == i - 1
    <3>1. d \in Nat /\ i = d + 1
      BY <2>1
    <3> HIDE DEF d
    <3>2. i * n = d * n + n
      BY <3>1
    <3>3. QED BY <3>2 DEF d
  <2> DEFINE p == (i - 1) * n
  <2> HIDE DEF p
  <2>4. p \in Nat /\ p < a /\ i * n = p + n
    BY <1>1, <1>2, <2>2, <2>3 DEF p
  <2>5. /\ p + 1 \in 1..a
        /\ (IF p + n < a THEN p + n ELSE a) \in 1..a
        /\ p + 1 <= (IF p + n < a THEN p + n ELSE a)
    BY <1>1, <2>4
  <2>6. QED BY <2>1, <2>2, <2>3, <2>4, <2>5 DEF p
<1>5. ASSUME NEW i \in 1..q
      PROVE  /\ Cut(s, n)[i] = SubSeq(s, lo(i), hi(i)) /\ Cut(s, n)[i] \in Seq(T)
             /\ DOMAIN Cut(s, n)[i] = 1..hi(i) - lo(i) + 1
             /\ \A j \in 1..hi(i) - lo(i) + 1 : Cut(s, n)[i][j] = s[lo(i) + j - 1]
  <2>1. Cut(s, n)[i] = SubSeq(s, lo(i), hi(i))
    BY <1>3
  <2>2. lo(i) \in 1..a /\ hi(i) \in 1..a /\ lo(i) <= hi(i)
    BY <1>4
  <2>3. PICK x \in 1..a, y \in 1..a : x = lo(i) /\ y = hi(i) /\ x <= y
    BY <2>2
  <2>4. /\ SubSeq(s, x, y) \in Seq(T) /\ DOMAIN SubSeq(s, x, y) = 1..y - x + 1
        /\ \A j \in 1..y - x + 1 : SubSeq(s, x, y)[j] = s[x + j - 1]
    BY <2>3, PieceIs DEF a
  <2> HIDE DEF lo, hi
  <2>5. QED BY <2>1, <2>3, <2>4
<1>6. Cut(s, n) \in Seq(Seq(T)) /\ DOMAIN Cut(s, n) = 1..q
  <2> DEFINE piece == [i \in 1..q |-> SubSeq(s, lo(i), hi(i))]
             U == Seq(T)
  <2>1. Cut(s, n) = piece /\ DOMAIN piece = 1..q /\ piece = [i \in 1..q |-> piece[i]]
    BY <1>3
  <2>2. \A i \in 1..q : piece[i] \in U
    BY <1>5, <2>1
  <2> HIDE DEF piece, U
  <2>3. piece \in Seq(U)
    BY <1>2, <2>1, <2>2
  <2>4. QED BY <2>1, <2>3 DEF U
<1>7. ASSUME NEW i \in 1..q, NEW j \in DOMAIN Cut(s, n)[i]
      PROVE  /\ j \in 1..n /\ (i - 1) * n + j \in DOMAIN s
             /\ Cut(s, n)[i][j] = s[(i - 1) * n + j]
  <2> DEFINE p == (i - 1) * n
  <2>1. p \in Nat /\ i * n = p + n /\ lo(i) = p + 1 /\ hi(i) = (IF p + n < a THEN p + n ELSE a)
    BY <1>4
  <2> HIDE DEF p
  <2>2. j \in 1..hi(i) - lo(i) + 1 /\ Cut(s, n)[i][j] = s[lo(i) + j - 1]
    BY <1>5
  <2> HIDE DEF lo, hi
  <2>3. j \in 1..n /\ p + j \in 1..a /\ lo(i) + j - 1 = p + j
    BY <1>1, <2>1, <2>2
  <2>4. QED BY <1>1, <2>2, <2>3 DEF p
<1>8. ASSUME NEW k \in 1..a
      PROVE  \E i \in 1..q : \E j \in DOMAIN Cut(s, n)[i] : k = (i - 1) * n + j
  <2> DEFINE d == (k - 1) \div n
             j == ((k - 1) % n) + 1
  <2>1. d \in Nat /\ j \in 1..n /\ k - 1 = n * d + (j - 1)
    BY <1>1
  <2> HIDE DEF d, j
  <2>2. n * d = d * n /\ d * n \in Nat
    BY <2>1
  <2>3. k = d * n + j
    BY <2>1, <2>2
  <2>4. d < q
    <3>1. ~(q < d)
      <4>1. q < d => q * n + n <= d * n
        BY <1>2, <2>1, ProductGrows
      <4>2. QED BY <1>1, <1>2, <2>1, <2>2, <2>3, <4>1
    <3>2. d # q
      <4>1. d = q => d * n = q * n
        OBVIOUS
      <4>2. QED BY <1>1, <1>2, <2>1, <2>2, <2>3, <4>1
    <3>3. QED BY <1>2, <2>1, <3>1, <3>2
  <2>5. PICK i \in 1..q : i - 1 = d
    <3>1. d + 1 \in 1..q /\ (d + 1) - 1 = d
      BY <1>2, <2>1, <2>4
    <3>2. QED BY <3>1
  <2>6. j \in DOMAIN Cut(s, n)[i]
    <3> DEFINE p == (i - 1) * n
    <3>1. p = d * n
      BY <2>5
    <3>2. p \in Nat /\ i * n = p + n /\ lo(i) = p + 1 /\ hi(i) = (IF p + n < a THEN p + n ELSE a)
      BY <1>4
    <3> HIDE DEF p
    <3>3. DOMAIN Cut(s, n)[i] = 1..hi(i) - lo(i) + 1
      BY <1>5
    <3> HIDE DEF lo, hi
    <3>4. p + j <= a /\ j \in 1..n
      BY <1>1, <2>1, <2>3, <3>1
    <3>5. QED BY <1>1, <3>2, <3>3, <3>4
  <2>7. QED BY <2>3, <2>5, <2>6
<1>9. \A i \in DOMAIN Cut(s, n) : i \in Nat /\ i - 1 \in Nat
  BY <1>4, <1>6
<1> HIDE DEF lo, hi
<1>10. QED BY <1>1, <1>6, <1>7, <1>8, <1>9 DEF Pieces

\* A shuffle has every row at one place.
LEMMA ShuffleIs ==
    ASSUME NEW n \in Nat, NEW p \in SetToSeqs(1..n)
    PROVE  /\ p \in Seq(1..n) /\ DOMAIN p = 1..n
           /\ \A a, b \in 1..n : p[a] = p[b] => a = b
           /\ \A i \in 1..n : \E a \in 1..n : p[a] = i
<1> DEFINE T == 1..n
<1>1. IsFiniteSet(T) /\ Cardinality(T) = n
  BY FS_Interval
<1>2. SetToSeqs(T) = {f \in [1..Cardinality(T) -> T] : \A a, b \in 1..Cardinality(T) : a # b => f[a] # f[b]}
  BY Zenon DEF SetToSeqs
<1>3. p \in [1..n -> T] /\ \A a, b \in 1..n : a # b => p[a] # p[b]
  BY <1>1, <1>2
<1>4. p \in Injection(T, T)
  BY <1>3 DEF Injection, IsInjective
<1>5. p \in Surjection(T, T)
  <2> HIDE DEF T
  <2>1. QED BY <1>1, <1>4, FS_Injection
<1>6. \A i \in T : \E a \in T : p[a] = i
  BY <1>5 DEF Surjection
<1>7. p \in Seq(T) /\ DOMAIN p = 1..n
  BY <1>3
<1>8. QED BY <1>3, <1>6, <1>7

\* The rows that occur in what is left of a pass.
Pending(left) == UNION {UNION {ToSet(left[g][m]) : m \in DOMAIN left[g]} : g \in DOMAIN left}

LEMMA PendingIs ==
    ASSUME NEW left, NEW i
    PROVE  i \in Pending(left) <=>
               \E g \in DOMAIN left : \E m \in DOMAIN left[g] : i \in ToSet(left[g][m])
  BY DEF Pending

\* No row is in two micro-batches of what is left.
Once(left) ==
    \A g, h \in DOMAIN left : \A m \in DOMAIN left[g] : \A n \in DOMAIN left[h] :
        \A i : i \in ToSet(left[g][m]) /\ i \in ToSet(left[h][n]) => g = h /\ m = n

\* What a pass may be left with.
Groups == Seq(Seq(Seq(DOMAIN run.examples)))

\* The elements of a sequence, by their places.
LEMMA Occurs == ASSUME NEW s, NEW i PROVE i \in ToSet(s) <=> \E a \in DOMAIN s : s[a] = i
  BY Zenon DEF ToSet

\* accumulation_groups puts every row of a shuffled pass into one micro-batch.
LEMMA GroupsSplit ==
    ASSUME NEW n \in Nat, DOMAIN run.examples = 1..n, NEW p \in SetToSeqs(1..n),
           run.batch \in Nat \ {0}, run.accumulation \in Nat \ {0}
    PROVE  /\ AccumulationGroups(p) \in Groups
           /\ Once(AccumulationGroups(p))
           /\ Pending(AccumulationGroups(p)) = DOMAIN run.examples
<1> DEFINE T == 1..n
           b == run.batch
           a == run.accumulation
           micros == Cut(p, b)
           left == Cut(micros, a)
<1>1. /\ p \in Seq(T) /\ DOMAIN p = 1..n
      /\ \A x, y \in 1..n : p[x] = p[y] => x = y
      /\ \A i \in 1..n : \E x \in 1..n : p[x] = i
  BY ShuffleIs
<1>2. AccumulationGroups(p) = left /\ b \in Nat \ {0} /\ a \in Nat \ {0}
  BY DEF AccumulationGroups
<1> HIDE DEF a, b, T
<1>3. micros \in Seq(Seq(T)) /\ Pieces(micros, p, b)
  BY <1>1, <1>2, CutIs
<1> DEFINE U == Seq(T)
<1> HIDE DEF micros, U
<1>4. micros \in Seq(U)
  BY <1>3 DEF U
<1>5. left \in Seq(Seq(U)) /\ Pieces(left, micros, a)
  BY <1>2, <1>4, CutIs
<1> HIDE DEF left
<1>6. left \in Groups
  BY <1>5 DEF Groups, U, T
<1>7. Once(left)
  <2> SUFFICES ASSUME NEW g \in DOMAIN left, NEW h \in DOMAIN left, NEW m \in DOMAIN left[g],
                      NEW o \in DOMAIN left[h], NEW i,
                      i \in ToSet(left[g][m]), i \in ToSet(left[h][o])
               PROVE  g = h /\ m = o
    BY DEF Once
  <2>1. PICK c \in DOMAIN micros :
            c = (g - 1) * a + m /\ left[g][m] = micros[c] /\ g - 1 \in Nat /\ m \in 1..a
    BY <1>5 DEF Pieces
  <2>2. PICK d \in DOMAIN micros :
            d = (h - 1) * a + o /\ left[h][o] = micros[d] /\ h - 1 \in Nat /\ o \in 1..a
    BY <1>5 DEF Pieces
  <2>3. PICK x \in DOMAIN micros[c] : micros[c][x] = i
    BY <2>1, Occurs
  <2>4. PICK y \in DOMAIN micros[d] : micros[d][y] = i
    BY <2>2, Occurs
  <2>5. PICK k \in 1..n : k = (c - 1) * b + x /\ p[k] = i /\ c - 1 \in Nat /\ x \in 1..b
    BY <1>1, <1>3, <2>3 DEF Pieces
  <2>6. PICK l \in 1..n : l = (d - 1) * b + y /\ p[l] = i /\ d - 1 \in Nat /\ y \in 1..b
    BY <1>1, <1>3, <2>4 DEF Pieces
  <2>7. k = l
    BY <1>1, <2>5, <2>6
  <2>8. c - 1 = d - 1
    <3> DEFINE e == c - 1
               f == d - 1
    <3>1. e * b + x = f * b + y /\ e \in Nat /\ f \in Nat
      BY <2>5, <2>6, <2>7
    <3> HIDE DEF e, f
    <3>2. e = f
      BY <1>2, <2>5, <2>6, <3>1, PlacesDiffer
    <3>3. QED BY <3>2 DEF e, f
  <2>9. c = d
    <3>1. c \in Nat /\ d \in Nat
      BY <1>3 DEF Pieces
    <3>2. QED BY <2>8, <3>1
  <2>10. g - 1 = h - 1 /\ m = o
    <3> DEFINE e == g - 1
               f == h - 1
    <3>1. e * a + m = f * a + o /\ e \in Nat /\ f \in Nat
      BY <2>1, <2>2, <2>9
    <3> HIDE DEF e, f
    <3>2. e = f /\ m = o
      BY <1>2, <2>1, <2>2, <3>1, PlacesDiffer
    <3>3. QED BY <3>2 DEF e, f
  <2>11. g \in Nat /\ h \in Nat
    BY <1>5 DEF Pieces
  <2>12. QED BY <2>10, <2>11
<1>8. ASSUME NEW i \in 1..n
      PROVE  \E g \in DOMAIN left : \E m \in DOMAIN left[g] : i \in ToSet(left[g][m])
  <2>1. PICK x \in 1..n : p[x] = i
    BY <1>1
  <2>2. PICK c \in DOMAIN micros : \E j \in DOMAIN micros[c] : x = (c - 1) * b + j
    BY <1>1, <1>3 DEF Pieces
  <2>3. PICK j \in DOMAIN micros[c] : x = (c - 1) * b + j
    BY <2>2
  <2>4. micros[c][j] = i
    BY <1>3, <2>1, <2>3 DEF Pieces
  <2>5. i \in ToSet(micros[c])
    BY <2>4, Occurs
  <2>6. PICK g \in DOMAIN left : \E m \in DOMAIN left[g] : c = (g - 1) * a + m
    BY <1>5 DEF Pieces
  <2>7. PICK m \in DOMAIN left[g] : c = (g - 1) * a + m
    BY <2>6
  <2>8. left[g][m] = micros[c]
    BY <1>5, <2>7 DEF Pieces
  <2>9. QED BY <2>5, <2>8
<1>9. ASSUME NEW g \in DOMAIN left, NEW m \in DOMAIN left[g], NEW i \in ToSet(left[g][m])
      PROVE  i \in 1..n
  <2>1. PICK c \in DOMAIN micros : left[g][m] = micros[c]
    BY <1>5 DEF Pieces
  <2>2. PICK j \in DOMAIN micros[c] : micros[c][j] = i
    BY <2>1, Occurs
  <2>3. PICK k \in 1..n : p[k] = i
    BY <1>1, <1>3, <2>2 DEF Pieces
  <2>4. QED BY <1>1, <2>3 DEF T
<1>10. Pending(left) = DOMAIN run.examples
  BY <1>8, <1>9, PendingIs
<1>11. QED BY <1>2, <1>6, <1>7, <1>10

\* A micro-batch taken off what is left takes its rows with it, and no others.
LEMMA TakeMicro ==
    ASSUME groups \in Groups, groups # <<>>, groups[1] # <<>>
    PROVE  /\ WithoutMicro \in Groups /\ WithoutMicro # <<>>
           /\ ToSet(Micro) \subseteq DOMAIN run.examples
           /\ ToSet(Micro) \cup Pending(WithoutMicro) = Pending(groups)
           /\ Once(groups) => /\ Once(WithoutMicro)
                              /\ ToSet(Micro) \cap Pending(WithoutMicro) = {}
<1> DEFINE T == DOMAIN run.examples
           V == Seq(T)
           U == Seq(V)
           top == groups[1]
           left == WithoutMicro
<1> HIDE DEF T
<1>1. groups \in Seq(U) /\ Len(groups) \in Nat \ {0} /\ DOMAIN groups = 1..Len(groups)
  BY DEF Groups, T
<1> HIDE DEF U
<1>2. top \in U /\ 1 \in DOMAIN groups
  BY <1>1
<1>3. top \in Seq(V) /\ top # <<>>
  BY <1>2 DEF U
<1> HIDE DEF V
<1>4. /\ Len(top) \in Nat \ {0} /\ DOMAIN top = 1..Len(top) /\ Tail(top) \in Seq(V)
      /\ DOMAIN Tail(top) = 1..Len(top) - 1
      /\ \A m \in 1..Len(top) - 1 : Tail(top)[m] = top[m + 1]
      /\ top[1] \in V /\ Head(top) = top[1]
  BY <1>3
<1>5. Micro = top[1] /\ Micro \in V
  BY <1>1, <1>4 DEF Micro
<1>6. left = [groups EXCEPT ![1] = Tail(top)]
  BY DEF WithoutMicro
<1>7. /\ left \in Seq(U) /\ DOMAIN left = DOMAIN groups /\ left # <<>>
      /\ left[1] = Tail(top)
      /\ \A g \in DOMAIN groups : g # 1 => left[g] = groups[g]
  <2>1. Tail(top) \in U
    BY <1>4 DEF U
  <2> DEFINE t == Tail(top)
  <2> HIDE DEF t, top, left
  <2>2. left = [groups EXCEPT ![1] = t] /\ t \in U
    BY <1>6, <2>1 DEF t
  <2>3. QED BY <1>1, <1>2, <2>2 DEF t
<1> HIDE DEF left, top
<1>8. \A m \in DOMAIN left[1] : m + 1 \in DOMAIN top /\ left[1][m] = top[m + 1] /\ m + 1 # 1 /\ m \in Nat
  BY <1>4, <1>7
<1>9. \A m \in DOMAIN top : m = 1 \/ \E j \in DOMAIN left[1] : m = j + 1 /\ left[1][j] = top[m]
  <2> SUFFICES ASSUME NEW m \in DOMAIN top, m # 1
               PROVE \E j \in DOMAIN left[1] : m = j + 1 /\ left[1][j] = top[m]
    OBVIOUS
  <2>1. m - 1 \in 1..Len(top) - 1 /\ m = (m - 1) + 1
    BY <1>4
  <2>2. QED BY <1>4, <1>7, <2>1
<1>10. top = groups[1]
  BY DEF top
<1>11. ASSUME Once(groups) PROVE Once(left)
  <2> SUFFICES ASSUME NEW g \in DOMAIN left, NEW h \in DOMAIN left, NEW m \in DOMAIN left[g],
                      NEW o \in DOMAIN left[h], NEW i,
                      i \in ToSet(left[g][m]), i \in ToSet(left[h][o])
               PROVE  g = h /\ m = o
    BY DEF Once
  <2> DEFINE was(x, y) == IF x = 1 THEN y + 1 ELSE y
  <2>1. /\ was(g, m) \in DOMAIN groups[g] /\ groups[g][was(g, m)] = left[g][m]
        /\ was(h, o) \in DOMAIN groups[h] /\ groups[h][was(h, o)] = left[h][o]
    BY <1>7, <1>8, <1>10
  <2>2. g = h /\ was(g, m) = was(h, o)
    <3> HIDE DEF was
    <3>1. QED BY <1>7, <1>11, <2>1 DEF Once
  <2>3. CASE g = 1
    BY <1>8, <2>2, <2>3
  <2>4. CASE g # 1
    BY <2>2, <2>4
  <2>5. QED BY <2>3, <2>4
<1>12. ToSet(Micro) \subseteq T
  BY <1>5, Occurs DEF V
<1>13. ASSUME NEW i PROVE i \in ToSet(Micro) \/ i \in Pending(left) <=> i \in Pending(groups)
  <2>1. ASSUME NEW g \in DOMAIN groups, NEW m \in DOMAIN groups[g], i \in ToSet(groups[g][m])
        PROVE  \/ i \in ToSet(Micro)
               \/ \E h \in DOMAIN left : \E o \in DOMAIN left[h] : i \in ToSet(left[h][o])
    <3>1. CASE g # 1
      BY <1>7, <2>1, <3>1
    <3>2. CASE g = 1
      <4>1. m \in DOMAIN top /\ i \in ToSet(top[m])
        BY <1>10, <2>1, <3>2
      <4>2. CASE m = 1
        BY <1>5, <4>1, <4>2
      <4>3. CASE m # 1
        <5>1. PICK j \in DOMAIN left[1] : left[1][j] = top[m]
          BY <1>9, <4>1, <4>3
        <5>2. QED BY <1>2, <1>7, <4>1, <5>1
      <4>4. QED BY <4>2, <4>3
    <3>3. QED BY <3>1, <3>2
  <2>2. ASSUME NEW g \in DOMAIN left, NEW m \in DOMAIN left[g], i \in ToSet(left[g][m])
        PROVE  \E h \in DOMAIN groups : \E o \in DOMAIN groups[h] : i \in ToSet(groups[h][o])
    <3>1. CASE g # 1
      BY <1>7, <2>2, <3>1
    <3>2. CASE g = 1
      BY <1>2, <1>8, <1>10, <2>2, <3>2
    <3>3. QED BY <3>1, <3>2
  <2>3. i \in ToSet(Micro) => \E h \in DOMAIN groups : \E o \in DOMAIN groups[h] : i \in ToSet(groups[h][o])
    <3>1. 1 \in DOMAIN groups[1]
      BY <1>4, <1>10
    <3>2. QED BY <1>2, <1>5, <1>10, <3>1
  <2>4. QED BY <2>1, <2>2, <2>3, PendingIs
<1>14. ASSUME Once(groups), NEW i \in ToSet(Micro), i \in Pending(left) PROVE FALSE
  <2>1. PICK g \in DOMAIN left : \E m \in DOMAIN left[g] : i \in ToSet(left[g][m])
    BY <1>14, PendingIs
  <2>2. PICK m \in DOMAIN left[g] : i \in ToSet(left[g][m])
    BY <2>1
  <2>3. 1 \in DOMAIN groups[1] /\ i \in ToSet(groups[1][1])
    BY <1>4, <1>5, <1>10
  <2>4. CASE g # 1
    BY <1>2, <1>7, <1>14, <2>2, <2>3, <2>4 DEF Once
  <2>5. CASE g = 1
    <3>1. m + 1 \in DOMAIN groups[1] /\ i \in ToSet(groups[1][m + 1]) /\ m + 1 # 1
      BY <1>8, <1>10, <2>2, <2>5
    <3>2. QED BY <1>2, <1>14, <2>3, <3>1 DEF Once
  <2>6. QED BY <2>4, <2>5
<1>15. WithoutMicro \in Groups /\ WithoutMicro # <<>>
  BY <1>7 DEF left, Groups, U, V, T
<1>16. QED BY <1>11, <1>12, <1>13, <1>14, <1>15 DEF left, T

\* A step that is done takes nothing with it.
LEMMA TakeGroup ==
    ASSUME groups \in Groups, Once(groups), groups # <<>>, groups[1] = <<>>
    PROVE  /\ Tail(groups) \in Groups /\ Once(Tail(groups))
           /\ Pending(Tail(groups)) = Pending(groups)
<1> DEFINE U == Seq(Seq(DOMAIN run.examples))
           left == Tail(groups)
           n == Len(groups)
<1>1. groups \in Seq(U)
  BY DEF Groups
<1> HIDE DEF U
<1>2. /\ left \in Seq(U) /\ n \in Nat \ {0} /\ DOMAIN groups = 1..n /\ DOMAIN left = 1..n - 1
      /\ \A g \in 1..n - 1 : left[g] = groups[g + 1]
  BY <1>1
<1> HIDE DEF left, n
<1>3. \A g \in DOMAIN left : g + 1 \in DOMAIN groups /\ left[g] = groups[g + 1] /\ g \in Nat
  BY <1>2
<1>4. \A g \in DOMAIN groups : \A m \in DOMAIN groups[g] :
          \E h \in DOMAIN left : g = h + 1 /\ left[h] = groups[g]
  <2> SUFFICES ASSUME NEW g \in DOMAIN groups, NEW m \in DOMAIN groups[g]
               PROVE  \E h \in DOMAIN left : g = h + 1 /\ left[h] = groups[g]
    OBVIOUS
  <2>1. g # 1
    BY EmptyAny
  <2>2. g - 1 \in 1..n - 1 /\ g = (g - 1) + 1
    BY <1>2, <2>1
  <2>3. QED BY <1>2, <2>2
<1>5. Once(left)
  <2> SUFFICES ASSUME NEW g \in DOMAIN left, NEW h \in DOMAIN left, NEW m \in DOMAIN left[g],
                      NEW o \in DOMAIN left[h], NEW i,
                      i \in ToSet(left[g][m]), i \in ToSet(left[h][o])
               PROVE  g = h /\ m = o
    BY DEF Once
  <2>1. g + 1 = h + 1 /\ m = o
    BY <1>3 DEF Once
  <2>2. QED BY <1>3, <2>1
<1>6. Pending(left) = Pending(groups)
  <2>1. ASSUME NEW g \in DOMAIN groups, NEW m \in DOMAIN groups[g], NEW i \in ToSet(groups[g][m])
        PROVE  \E h \in DOMAIN left : \E o \in DOMAIN left[h] : i \in ToSet(left[h][o])
    BY <1>4
  <2>2. ASSUME NEW g \in DOMAIN left, NEW m \in DOMAIN left[g], NEW i \in ToSet(left[g][m])
        PROVE  \E h \in DOMAIN groups : \E o \in DOMAIN groups[h] : i \in ToSet(groups[h][o])
    BY <1>3
  <2>3. ASSUME NEW i PROVE i \in Pending(left) <=> i \in Pending(groups)
    BY <2>1, <2>2, PendingIs
  <2>4. QED BY <2>3
<1>7. QED BY <1>2, <1>5, <1>6 DEF Groups, U, left

-----------------------------------------------------------------------------
(* What an example counts for.                                             *)

\* What the configuration of a run is.
LEMMA RunIs ==
    ASSUME run \in Settings
    PROVE  /\ run.stage \in {"sft", "dpo"} /\ MaxLength \in Nat
           /\ run.batch \in Nat \ {0} /\ run.accumulation \in Nat \ {0}
           /\ run.epochs \in Nat \ {0} /\ run.maxSteps \in Nat
           /\ Len(run.examples) \in Nat \ {0} /\ DOMAIN run.examples = 1..Len(run.examples)
           /\ IsFiniteSet(DOMAIN run.examples)
           /\ \A i \in DOMAIN run.examples :
                 /\ run.examples[i].prompt \in Nat \ {0}
                 /\ run.examples[i].chosen \in Nat \ {0}
                 /\ run.examples[i].rejected \in Nat \ {0}
<1> DEFINE Row == [prompt : Nat \ {0}, chosen : Nat \ {0}, rejected : Nat \ {0}]
<1>1. /\ run.stage \in {"sft", "dpo"} /\ MaxLength \in Nat
      /\ run.batch \in Nat \ {0} /\ run.accumulation \in Nat \ {0}
      /\ run.epochs \in Nat \ {0} /\ run.maxSteps \in Nat
      /\ run.examples # <<>> /\ run.examples \in Seq(Row)
  BY TrainingAssumption
<1>2. \A x \in Row : /\ x.prompt \in Nat \ {0} /\ x.chosen \in Nat \ {0}
                     /\ x.rejected \in Nat \ {0}
  OBVIOUS
<1> HIDE DEF Row
<1>3. /\ Len(run.examples) \in Nat \ {0} /\ DOMAIN run.examples = 1..Len(run.examples)
      /\ \A i \in DOMAIN run.examples : run.examples[i] \in Row
  BY <1>1
<1>4. IsFiniteSet(DOMAIN run.examples)
  BY <1>3, FS_Interval
<1>5. QED BY <1>1, <1>2, <1>3, <1>4

\* What _truncate leaves is the completion's positions within the budget.
LEMMA PositionsAre ==
    ASSUME MaxLength \in Nat, NEW p \in Nat \ {0}, NEW c \in Nat \ {0}
    PROVE  /\ Fits(p, c) <=> Positions(p, c) # {}
           /\ Cardinality(Positions(p, c)) \in Nat
           /\ Fits(p, c) => Supervised(p, c) = Cardinality(Positions(p, c))
<1> DEFINE top == IF p + c <= MaxLength THEN p + c ELSE MaxLength
<1>1. top \in Nat /\ Positions(p, c) = p + 1..top
  BY DEF Positions
<1>2. Cardinality(Positions(p, c)) = IF p + 1 > top THEN 0 ELSE top - (p + 1) + 1
  <2> HIDE DEF top
  <2>1. p + 1 \in Int /\ top \in Int
    BY <1>1
  <2>2. QED BY <1>1, <2>1, FS_Interval
<1>3. Fits(p, c) <=> p + 1 <= top
  BY DEF Fits
<1>4. Fits(p, c) => Supervised(p, c) = top - (p + 1) + 1
  BY DEF Fits, Supervised
<1>5. (p + 1..top) # {} <=> p + 1 <= top
  <2> HIDE DEF top
  <2>1. p + 1 <= top => p + 1 \in p + 1..top
    BY <1>1
  <2>2. QED BY <1>1, <2>1
<1> HIDE DEF top
<1>6. QED BY <1>1, <1>2, <1>3, <1>4, <1>5

\* An example survives the collator just when it has something to learn from, and
\* then counts for its supervised tokens, or as a pair.
LEMMA ShareIs ==
    ASSUME run \in Settings, NEW i \in DOMAIN run.examples
    PROVE  /\ Survives(run.examples[i]) <=> i \in Usable
           /\ Share(i) \in Nat
           /\ run.stage = "dpo" => Share(i) = 1
           /\ run.stage = "sft" /\ i \in Usable => Share(i) = Tokens(run.examples[i])
<1> DEFINE x == run.examples[i]
<1>1. /\ MaxLength \in Nat /\ x.prompt \in Nat \ {0} /\ x.chosen \in Nat \ {0}
      /\ x.rejected \in Nat \ {0} /\ run.stage \in {"sft", "dpo"}
  BY RunIs
<1> HIDE DEF x
<1>2. PICK p \in Nat \ {0}, c \in Nat \ {0}, r \in Nat \ {0} :
          x.prompt = p /\ x.chosen = c /\ x.rejected = r
  BY <1>1
<1>3. /\ Fits(p, c) <=> Positions(p, c) # {}
      /\ Fits(p, r) <=> Positions(p, r) # {}
      /\ Cardinality(Positions(p, c)) \in Nat
      /\ Fits(p, c) => Supervised(p, c) = Cardinality(Positions(p, c))
  BY <1>1, PositionsAre
<1>4. Survives(x) <=> Fits(p, c) /\ (run.stage = "dpo" => Fits(p, r))
  BY <1>2 DEF Survives
<1>5. i \in Usable <=> Positions(p, c) # {} /\ (run.stage = "dpo" => Positions(p, r) # {})
  BY <1>2 DEF Usable, x
<1>6. Share(i) = IF run.stage = "dpo" THEN 1 ELSE Cardinality(Positions(p, c))
  BY <1>2 DEF Share, x
<1>7. run.stage = "sft" => Tokens(x) = Supervised(p, c) + 0
  BY <1>2 DEF Tokens
<1>8. Survives(x) <=> i \in Usable
  BY <1>3, <1>4, <1>5
<1>9. run.stage = "sft" /\ i \in Usable => Share(i) = Tokens(x)
  BY <1>3, <1>5, <1>6, <1>7
<1>10. QED BY <1>3, <1>6, <1>8, <1>9 DEF x

\* The shares of the examples, as a function.
Shares == [i \in DOMAIN run.examples |-> Share(i)]

\* What a batch's loss is a mean over is the shares of its examples.
LEMMA CountIs ==
    ASSUME run \in Settings, NEW S, S \subseteq Usable
    PROVE  /\ Count(S) = SumOf(Shares, S)
           /\ SumFunction([i \in S |-> Share(i)]) = SumOf(Shares, S)
<1> DEFINE own == [i \in S |-> Share(i)]
           tokens == [i \in S |-> Tokens(run.examples[i])]
<1>1. S \subseteq DOMAIN run.examples
  BY DEF Usable
<1>2. IsFiniteSet(S)
  BY <1>1, RunIs, FS_Subset
<1>3. SumFunction(own) = SumOf(own, S) /\ TokensOf(S) = SumOf(tokens, S)
  <2>1. DOMAIN own = S /\ DOMAIN tokens = S /\ TokensOf(S) = SumFunction(tokens)
    BY DEF TokensOf
  <2> HIDE DEF own, tokens
  <2>2. QED BY <2>1, SumOfAll
<1>4. \A i \in S : own[i] = Shares[i]
  BY <1>1 DEF Shares
<1>5. SumOf(own, S) = SumOf(Shares, S)
  <2> HIDE DEF own
  <2>1. QED BY <1>2, <1>4, SumSame
<1>6. CASE run.stage = "sft"
  <2>1. \A i \in S : Shares[i] = tokens[i]
    BY <1>1, <1>6, ShareIs DEF Shares
  <2> HIDE DEF tokens
  <2>2. SumOf(Shares, S) = SumOf(tokens, S)
    BY <1>2, <2>1, SumSame
  <2>3. QED BY <1>3, <1>5, <1>6, <2>2 DEF Count
<1>7. CASE run.stage = "dpo"
  <2>1. \A i \in S : Shares[i] = 1
    BY <1>1, <1>7, ShareIs DEF Shares
  <2>2. SumOf(Shares, S) = Cardinality(S)
    BY <1>2, <2>1, SumOnes
  <2>3. QED BY <1>3, <1>5, <1>7, <2>2 DEF Count
<1>8. QED BY <1>6, <1>7, RunIs

\* The usable examples are finitely many, and their shares are numbers.
LEMMA UsableIs ==
    ASSUME run \in Settings
    PROVE  Usable \subseteq DOMAIN run.examples /\ IsFiniteSet(Usable) /\ Counts(Shares, Usable)
<1>1. Usable \subseteq DOMAIN run.examples
  BY DEF Usable
<1>2. IsFiniteSet(Usable)
  BY <1>1, RunIs, FS_Subset
<1>3. Counts(Shares, Usable)
  BY <1>1, ShareIs DEF Counts, Shares
<1>4. QED BY <1>1, <1>2, <1>3

-----------------------------------------------------------------------------
(* The gradient of a step.                                                 *)

\* The examples of an accumulated gradient, and what it is divided by.
Gathered(parts) == UNION {parts[c].examples : c \in DOMAIN parts}
OverAll(parts) == SumFunction([c \in DOMAIN parts |-> parts[c].over])

\* Each part is the exact sum over its examples, no two parts share one.
Exact(usable, shares, parts) ==
    /\ IsSeq(parts)
    /\ \A c \in DOMAIN parts : /\ parts[c].examples \subseteq usable
                               /\ parts[c].over = SumOf(shares, parts[c].examples)
                               /\ parts[c].times = parts[c].over
    /\ \A c, d \in DOMAIN parts : c # d => parts[c].examples \cap parts[d].examples = {}
    /\ OverAll(parts) = SumOf(shares, Gathered(parts))

\* A cleared gradient is exact.
LEMMA ExactNone ==
    ASSUME NEW usable, NEW shares PROVE Exact(usable, shares, <<>>) /\ Gathered(<<>>) = {}
<1> DEFINE none == [c \in {} |-> <<>>[c].over]
<1>1. Gathered(<<>>) = {}
  BY EmptyAny DEF Gathered
<1>2. OverAll(<<>>) = SumOf(none, {})
  <2>1. OverAll(<<>>) = SumFunction(none) /\ DOMAIN none = {}
    BY EmptyAny DEF OverAll
  <2> HIDE DEF none
  <2>2. QED BY <2>1, SumOfAll
<1> HIDE DEF none
<1>3. SumOf(none, {}) = 0 /\ SumOf(shares, {}) = 0
  BY FS_EmptySet, SumPick
<1>4. QED BY <1>1, <1>2, <1>3, EmptyAny DEF Exact

\* The examples of a part count for a number.
LEMMA PartCounts ==
    ASSUME NEW usable, IsFiniteSet(usable), NEW shares, Counts(shares, usable),
           NEW S, S \subseteq usable
    PROVE  IsFiniteSet(S) /\ Counts(shares, S) /\ SumOf(shares, S) \in Nat
<1>1. IsFiniteSet(S) /\ Counts(shares, S)
  BY FS_Subset DEF Counts
<1>2. QED BY <1>1, SumStep

\* One more micro-batch keeps it exact, if its examples are new.
LEMMA ExactAppend ==
    ASSUME NEW usable, IsFiniteSet(usable), NEW shares, Counts(shares, usable),
           NEW parts, Exact(usable, shares, parts),
           NEW S, S \subseteq usable, S \cap Gathered(parts) = {},
           NEW part, part.examples = S, part.over = SumOf(shares, S), part.times = part.over
    PROVE  /\ Exact(usable, shares, Append(parts, part))
           /\ Gathered(Append(parts, part)) = Gathered(parts) \cup S
<1> DEFINE more == Append(parts, part)
           n == Len(parts)
           G == Gathered(parts)
           over == [c \in DOMAIN parts |-> parts[c].over]
           overs == [c \in DOMAIN more |-> more[c].over]
<1>1. /\ n \in Nat /\ DOMAIN parts = 1..n /\ IsSeq(more) /\ DOMAIN more = 1..n + 1
      /\ more[n + 1] = part /\ \A c \in 1..n : more[c] = parts[c]
  BY AppendAny DEF Exact
<1>2. OverAll(parts) = SumOf(over, 1..n)
  <2>1. DOMAIN over = 1..n /\ OverAll(parts) = SumFunction(over)
    BY <1>1 DEF OverAll
  <2> HIDE DEF over
  <2>2. QED BY <2>1, SumOfAll
<1> HIDE DEF more, n
<1>3. \A c \in DOMAIN more : c = n + 1 \/ c \in DOMAIN parts
  BY <1>1
<1>4. Gathered(more) = G \cup S
  <2>1. \A c \in DOMAIN parts : c \in DOMAIN more /\ more[c].examples = parts[c].examples
    BY <1>1
  <2>2. n + 1 \in DOMAIN more /\ more[n + 1].examples = S
    BY <1>1
  <2>3. QED BY <1>3, <2>1, <2>2 DEF Gathered
<1>5. \A c \in DOMAIN more : /\ more[c].examples \subseteq usable
                             /\ more[c].over = SumOf(shares, more[c].examples)
                             /\ more[c].times = more[c].over
  BY <1>1, <1>3 DEF Exact
<1>6. ASSUME NEW c \in DOMAIN more, NEW d \in DOMAIN more, c # d
      PROVE  more[c].examples \cap more[d].examples = {}
  <2>1. \A e \in DOMAIN parts : parts[e].examples \cap S = {} /\ more[e] = parts[e]
    BY <1>1 DEF Gathered
  <2>2. CASE c = n + 1
    <3>1. d \in DOMAIN parts /\ more[c].examples = S
      BY <1>1, <1>3, <1>6, <2>2
    <3>2. QED BY <2>1, <3>1
  <2>3. CASE d = n + 1
    <3>1. c \in DOMAIN parts /\ more[d].examples = S
      BY <1>1, <1>3, <1>6, <2>3
    <3>2. QED BY <2>1, <3>1
  <2>4. CASE c \in DOMAIN parts /\ d \in DOMAIN parts
    BY <1>6, <2>1, <2>4 DEF Exact
  <2>5. QED BY <1>3, <2>2, <2>3, <2>4
<1>7. \A c \in DOMAIN more : more[c].over \in Nat
  BY <1>5, PartCounts
<1>8. /\ Counts(overs, 1..n + 1) /\ DOMAIN overs = 1..n + 1 /\ OverAll(more) = SumFunction(overs)
      /\ overs[n + 1] = SumOf(shares, S) /\ \A c \in 1..n : overs[c] = over[c]
  BY <1>1, <1>7 DEF Counts, OverAll
<1> HIDE DEF over, overs
<1>9. OverAll(more) = OverAll(parts) + SumOf(shares, S)
  <2>1. OverAll(more) = SumOf(overs, 1..n + 1)
    BY <1>8, SumOfAll
  <2>2. SumOf(overs, 1..n + 1) = SumOf(over, 1..n) + overs[n + 1]
    BY <1>1, <1>8, SumAppend
  <2>3. QED BY <1>2, <1>8, <2>1, <2>2
<1>10. G \subseteq usable /\ G \cap S = {}
  BY DEF Gathered, Exact
<1> HIDE DEF G
<1>11. IsFiniteSet(G) /\ IsFiniteSet(S) /\ Counts(shares, G) /\ Counts(shares, S)
  BY <1>10, PartCounts
<1>12. SumOf(shares, G \cup S) = SumOf(shares, G) + SumOf(shares, S)
  BY <1>10, <1>11, SumUnion
<1>13. OverAll(parts) = SumOf(shares, G)
  BY DEF Exact, G
<1>14. Exact(usable, shares, more)
  BY <1>1, <1>4, <1>5, <1>6, <1>9, <1>12, <1>13 DEF Exact
<1>15. QED BY <1>4, <1>14 DEF more, G

\* Exactness is about the examples and what they count for alone.
LEMMA ExactSame ==
    ASSUME NEW usable, NEW shares, NEW parts, Exact(usable, shares, parts),
           NEW others, IsSeq(others), DOMAIN others = DOMAIN parts,
           \A c \in DOMAIN parts : /\ others[c].examples = parts[c].examples
                                   /\ others[c].over = parts[c].over
                                   /\ others[c].times = parts[c].times
    PROVE  Exact(usable, shares, others) /\ Gathered(others) = Gathered(parts)
<1>1. Gathered(others) = Gathered(parts)
  BY DEF Gathered
<1>2. OverAll(others) = OverAll(parts)
  <2>1. [c \in DOMAIN others |-> others[c].over] = [c \in DOMAIN parts |-> parts[c].over]
    OBVIOUS
  <2>2. QED BY <2>1, Zenon DEF OverAll
<1>3. QED BY <1>1, <1>2 DEF Exact

-----------------------------------------------------------------------------
(* The invariant of the exact updates.                                     *)

\* The examples the updates of w after the first o learned from in a pass.
Used(w, o, pass) == UNION {Gathered(w[m].gradient) : m \in {n \in o + 1..Len(w) : w[n].epoch = pass}}

\* No two of its updates in one pass share an example.
Separate(w, o) ==
    \A m, n \in o + 1..Len(w) :
        m # n /\ w[m].epoch = w[n].epoch =>
            Gathered(w[m].gradient) \cap Gathered(w[n].gradient) = {}

\* The usable examples of a pass are used, held in the gradient or left, and only one
\* of these; of what is left no example occurs twice.
Split(usable, used, held, left) ==
    /\ Once(left)
    /\ used \cup held \cup (Pending(left) \cap usable) = usable
    /\ used \cap held = {} /\ used \cap Pending(left) = {} /\ held \cap Pending(left) = {}

\* The examples in the accumulated gradient, and what of the pass is left: a micro-batch
\* between its two passes is in the gradient already.
Held == IF loop \in {"micro", "reference"} THEN Gathered(gradient) ELSE {}
Left == IF loop = "reference" THEN WithoutMicro ELSE groups

\* The last row of the log accounts for all updates.
Logged ==
    /\ log # <<>> /\ log[Len(log)].step = step
    /\ run.stage = "sft" =>
          log[Len(log)].tokens = SumFunction([n \in DOMAIN MyUpdates |-> MyUpdates[n].divisor])

\* Where the run is in its schedule.
OnSchedule ==
    /\ epoch \in Nat /\ IsSeq(log)
    /\ loop \in {"epoch", "group", "micro", "reference"} => step < Total
    /\ loop = "validate" => step <= Total /\ (step = Total => Logged)
    /\ loop \in {"finish", "publish", "done"} => step = Total /\ Logged
    /\ loop \in {"group", "micro", "reference"} => groups # <<>>
    /\ loop = "reference" => groups[1] # <<>> /\ gradient # <<>>
    /\ loop = "epoch" => groups = <<>>
    /\ loop \in {"group", "micro", "reference", "validate"} => epoch # 0

\* Every update is exact, and every finished pass is whole.
UpdatesExact ==
    /\ \A m \in Len(origin) + 1..Len(weights) :
          /\ Exact(Usable, Shares, weights[m].gradient)
          /\ weights[m].divisor = OverAll(weights[m].gradient)
          /\ weights[m].epoch \in 1..epoch
    /\ Separate(weights, Len(origin))
    /\ \A e \in 1..epoch - 1 : Used(weights, Len(origin), e) = Usable
    /\ loop \in {"micro", "reference"} => Exact(Usable, Shares, gradient)

\* So is the pass the run is in.
PassIsSplit ==
    loop \in {"epoch", "group", "micro", "reference", "validate"} /\ epoch # 0 =>
        /\ groups \in Groups
        /\ Split(Usable, Used(weights, Len(origin), epoch), Held, Left)

UInv == OnSchedule /\ UpdatesExact /\ PassIsSplit

-----------------------------------------------------------------------------
(* Its steps.                                                              *)

\* A run has at least one step.
LEMMA TotalIs ==
    ASSUME NEW r \in Settings
    PROVE  (IF r.maxSteps > 0 THEN r.maxSteps
            ELSE CeilDiv(Len(r.examples), r.batch * r.accumulation) * r.epochs) \in Nat \ {0}
<1> DEFINE Row == [prompt : Nat \ {0}, chosen : Nat \ {0}, rejected : Nat \ {0}]
<1>1. /\ r.batch \in Nat \ {0} /\ r.accumulation \in Nat \ {0}
      /\ r.epochs \in Nat \ {0} /\ r.maxSteps \in Nat
      /\ r.examples # <<>> /\ r.examples \in Seq(Row)
  BY TrainingAssumption
<1> HIDE DEF Row
<1>2. Len(r.examples) \in Nat /\ Len(r.examples) # 0
  BY <1>1
<1>3. PICK b \in Nat \ {0}, a \in Nat \ {0}, k \in Nat \ {0} :
          b = r.batch /\ a = r.accumulation /\ k = r.epochs
  BY <1>1
<1>4. b * a \in Nat \ {0}
  <2>1. PICK d \in Nat : b = d + 1
    <3>1. b - 1 \in Nat /\ b = (b - 1) + 1
      OBVIOUS
    <3>2. QED BY <3>1
  <2>2. b * a = d * a + a /\ d * a \in Nat
    BY <2>1
  <2>3. QED BY <2>2
<1> DEFINE q == CeilDiv(Len(r.examples), b * a)
<1>5. q \in Nat /\ q # 0
  BY <1>2, <1>4, CeilDivIs
<1> HIDE DEF q
<1>6. q * k \in Nat \ {0}
  <2>1. PICK d \in Nat : q = d + 1
    <3>1. q - 1 \in Nat /\ q = (q - 1) + 1
      BY <1>5
    <3>2. QED BY <3>1
  <2>2. q * k = d * k + k /\ d * k \in Nat
    BY <2>1
  <2>3. QED BY <2>2
<1>7. QED BY <1>1, <1>3, <1>6 DEF q

\* Where a step leads, by what is done and what is left.
LEMMA OnwardTo ==
    ASSUME NEW done \in Nat, NEW rest, Total \in Nat
    PROVE  /\ Onward(done, rest) \in {"finish", "epoch", "group"}
           /\ Onward(done, rest) = "finish" <=> done >= Total
           /\ Onward(done, rest) = "epoch" => rest = <<>>
           /\ Onward(done, rest) = "group" => rest # <<>>
<1> DEFINE over == done >= Total
           none == done < Total /\ rest = <<>>
<1>1. Onward(done, rest) = CASE over -> "finish" [] none -> "epoch" [] OTHER -> "group"
  BY DEF Onward
<1>2. ~(over /\ none) /\ (~over /\ ~none => rest # <<>>)
  OBVIOUS
<1>3. none => rest = <<>>
  OBVIOUS
<1>4. over => Onward(done, rest) = "finish"
  <2> HIDE DEF over, none
  <2>1. QED BY <1>1, <1>2, Zenon
<1>5. none => Onward(done, rest) = "epoch"
  <2> HIDE DEF over, none
  <2>1. QED BY <1>1, <1>2, Zenon
<1>6. ~over /\ ~none => Onward(done, rest) = "group"
  <2> HIDE DEF over, none
  <2>1. QED BY <1>1, Zenon
<1> HIDE DEF none
<1>7. QED BY <1>2, <1>3, <1>4, <1>5, <1>6

\* One more update.
LEMMA UsedAppend ==
    ASSUME NEW w, IsSeq(w), NEW o \in Nat, o <= Len(w), NEW u
    PROVE  /\ \A e : Used(Append(w, u), o, e) =
                        Used(w, o, e) \cup (IF u.epoch = e THEN Gathered(u.gradient) ELSE {})
           /\ /\ Separate(w, o)
              /\ Gathered(u.gradient) \cap Used(w, o, u.epoch) = {}
              => Separate(Append(w, u), o)
<1> DEFINE v == Append(w, u)
           n == Len(w)
<1>1. /\ n \in Nat /\ Len(v) = n + 1 /\ v[n + 1] = u /\ \A m \in 1..n : v[m] = w[m]
  BY AppendAny
<1> HIDE DEF v, n
<1>2. /\ o + 1..n \subseteq 1..n /\ n + 1 \notin o + 1..n
      /\ \A m : m \in o + 1..n + 1 <=> m \in o + 1..n \/ m = n + 1
  BY <1>1 DEF n
<1>3. \A m \in o + 1..n : v[m] = w[m]
  BY <1>1, <1>2
<1>4. ASSUME NEW e
      PROVE  Used(v, o, e) = Used(w, o, e) \cup (IF u.epoch = e THEN Gathered(u.gradient) ELSE {})
  <2> DEFINE mine == {m \in o + 1..n : w[m].epoch = e}
             more == {m \in o + 1..n + 1 : v[m].epoch = e}
  <2>1. \A m \in mine : v[m] = w[m]
    BY <1>3
  <2>2. more = mine \cup (IF u.epoch = e THEN {n + 1} ELSE {})
    BY <1>1, <1>2, <1>3
  <2>3. Used(v, o, e) = UNION {Gathered(v[m].gradient) : m \in more}
    BY <1>1 DEF Used
  <2>4. Used(w, o, e) = UNION {Gathered(w[m].gradient) : m \in mine}
    BY DEF Used, n
  <2> HIDE DEF mine, more
  <2>5. CASE u.epoch = e
    <3>1. more = mine \cup {n + 1} /\ v[n + 1] = u
      BY <1>1, <2>2, <2>5
    <3>2. QED BY <2>1, <2>3, <2>4, <2>5, <3>1
  <2>6. CASE u.epoch # e
    <3>1. more = mine
      BY <2>2, <2>6
    <3>2. QED BY <2>1, <2>3, <2>4, <2>6, <3>1
  <2>7. QED BY <2>5, <2>6
<1>5. ASSUME Separate(w, o), Gathered(u.gradient) \cap Used(w, o, u.epoch) = {}
      PROVE  Separate(v, o)
  <2>1. \A m \in o + 1..n :
            w[m].epoch = u.epoch => Gathered(w[m].gradient) \cap Gathered(u.gradient) = {}
    BY <1>5 DEF Used, n
  <2> SUFFICES ASSUME NEW l \in o + 1..n + 1, NEW m \in o + 1..n + 1,
                      l # m, v[l].epoch = v[m].epoch
               PROVE  Gathered(v[l].gradient) \cap Gathered(v[m].gradient) = {}
    BY <1>1 DEF Separate
  <2>2. CASE l \in o + 1..n /\ m \in o + 1..n
    <3>1. v[l] = w[l] /\ v[m] = w[m]
      BY <1>3, <2>2
    <3>2. QED BY <1>5, <2>2, <3>1 DEF Separate, n
  <2>3. CASE l \in o + 1..n /\ m = n + 1
    BY <1>1, <1>3, <2>1, <2>3
  <2>4. CASE l = n + 1 /\ m \in o + 1..n
    BY <1>1, <1>3, <2>1, <2>4
  <2>5. QED BY <1>2, <2>2, <2>3, <2>4
<1>6. QED BY <1>4, <1>5 DEF v

\* What depends on the settings only.
LEMMA SameRun ==
    ASSUME run' = run
    PROVE  Usable' = Usable /\ Shares' = Shares /\ Groups' = Groups /\ Total' = Total
  BY DEF Usable, Shares, Share, Groups, Total

\* The present step, and what bounds it.
LEMMA StepIs ==
    ASSUME TInv
    PROVE  /\ Len(origin) \in Nat /\ Len(weights) \in Nat /\ Len(origin) <= Len(weights)
           /\ step \in Nat /\ Total \in Nat \ {0}
<1>1. Len(origin) \in Nat /\ Len(weights) \in Nat /\ Len(origin) <= Len(weights)
  BY AppendAny DEF TInv
<1>2. Total \in Nat \ {0}
  BY TotalIs DEF TInv, Total
<1>3. QED BY <1>1, <1>2 DEF step

\* Nothing trained yet.
LEMMA UpdatesInit == TrainingInit => UInv
<1> SUFFICES ASSUME TrainingInit PROVE UInv
  OBVIOUS
<1>1. loop = "idle" /\ epoch = 0 /\ log = <<>> /\ weights = <<>> /\ origin = <<>>
  BY DEF TrainingInit
<1>2. OnSchedule /\ PassIsSplit
  BY <1>1, EmptyAny DEF OnSchedule, PassIsSplit
<1>3. UpdatesExact
  BY <1>1, EmptyAny DEF UpdatesExact, Separate
<1>4. QED BY <1>2, <1>3 DEF UInv

\* A run begins with its whole schedule ahead.
LEMMA BeginExact == ASSUME TInv, TInv', UInv, Begin PROVE UInv'
<1>1. loop' = "epoch" /\ epoch' = 0 /\ log' = <<>> /\ weights' = origin' /\ groups' = <<>>
  BY DEF Begin
<1>2. Len(origin') \in Nat /\ run' \in Settings
  BY AppendAny DEF TInv
<1>3. step' = 0
  BY <1>1, <1>2 DEF step
<1>4. Total' \in Nat \ {0}
  BY <1>2, TotalIs DEF Total
<1>5. OnSchedule' /\ PassIsSplit'
  BY <1>1, <1>3, <1>4, EmptyAny DEF OnSchedule, PassIsSplit
<1>6. UpdatesExact'
  BY <1>1, <1>2 DEF UpdatesExact, Separate
<1>7. QED BY <1>5, <1>6 DEF UInv

\* A failure leaves the updates as they are, and so do the last two steps of a run.
LEMMA EndExact ==
    ASSUME TInv, UInv, CollateFails \/ ValidationFails \/ Die \/ Finish \/ Publish PROVE UInv'
<1>1. /\ UNCHANGED <<run, origin, weights, epoch, gradient, log>>
      /\ \/ loop' = "failed"
         \/ loop = "finish" /\ loop' = "publish"
         \/ loop = "publish" /\ loop' = "done"
  BY DEF CollateFails, ValidationFails, Die, Finish, Publish
<1>2. Logged' = Logged /\ step' = step /\ Total' = Total
  BY <1>1, SameRun DEF Logged, step, MyUpdates
<1>3. OnSchedule'
  BY <1>1, <1>2 DEF UInv, OnSchedule
<1>4. UpdatesExact' /\ PassIsSplit'
  BY <1>1, SameRun DEF UInv, UpdatesExact, PassIsSplit
<1>5. QED BY <1>3, <1>4 DEF UInv

\* A pass over the examples begins when the one before it is whole.
LEMMA ShuffleExact == ASSUME TInv, UInv, Shuffle PROVE UInv'
<1> DEFINE o == Len(origin)
<1>1. /\ UNCHANGED <<run, origin, weights, gradient, log>>
      /\ loop = "epoch" /\ loop' = "group" /\ epoch' = epoch + 1 /\ epoch \in Nat
      /\ step < Total
  BY DEF Shuffle, UInv, OnSchedule
<1>2. PICK p \in SetToSeqs(DOMAIN run.examples) : groups' = AccumulationGroups(p)
  BY DEF Shuffle
<1>3. groups' \in Groups /\ Once(groups') /\ Pending(groups') = DOMAIN run.examples
  <2>1. /\ Len(run.examples) \in Nat /\ DOMAIN run.examples = 1..Len(run.examples)
        /\ run.batch \in Nat \ {0} /\ run.accumulation \in Nat \ {0}
    BY RunIs DEF TInv
  <2>2. QED BY <1>2, <2>1, GroupsSplit
<1>4. groups' # <<>>
  <2>1. Pending(<<>>) = {}
    BY EmptyAny DEF Pending
  <2>2. 1 \in DOMAIN run.examples
    BY RunIs DEF TInv
  <2>3. QED BY <1>3, <2>1, <2>2
<1>5. OnSchedule'
  <2>1. step' = step /\ Total' = Total
    BY <1>1, SameRun DEF step
  <2>2. QED BY <1>1, <1>4, <2>1 DEF UInv, OnSchedule
<1>6. Used(weights, o, epoch + 1) = {}
  <2>1. \A m \in o + 1..Len(weights) : weights[m].epoch # epoch + 1
    BY <1>1 DEF UInv, UpdatesExact
  <2>2. QED BY <2>1 DEF Used
<1>7. epoch # 0 => Used(weights, o, epoch) = Usable
  <2> SUFFICES ASSUME epoch # 0 PROVE Used(weights, o, epoch) = Usable
    OBVIOUS
  <2>1. groups = <<>> /\ Split(Usable, Used(weights, o, epoch), Held, Left)
    BY <1>1 DEF UInv, OnSchedule, PassIsSplit
  <2>2. Held = {} /\ Left = <<>>
    BY <1>1, <2>1 DEF Held, Left
  <2>3. Pending(<<>>) = {}
    BY EmptyAny DEF Pending
  <2>4. QED BY <2>1, <2>2, <2>3 DEF Split
<1>8. UpdatesExact'
  <2>1. \A e \in 1..epoch : e \in 1..epoch - 1 \/ (e = epoch /\ epoch # 0)
    BY <1>1
  <2>2. \A e \in 1..epoch : Used(weights, o, e) = Usable
    BY <1>7, <2>1 DEF UInv, UpdatesExact
  <2>3. (epoch + 1) - 1 = epoch /\ \A e \in 1..epoch : e \in 1..epoch + 1
    BY <1>1
  <2>4. Usable' = Usable /\ Shares' = Shares
    BY <1>1, SameRun
  <2>5. \A e \in 1..epoch' - 1 : Used(weights', Len(origin'), e) = Usable'
    BY <1>1, <2>2, <2>3, <2>4
  <2>6. \A m \in o + 1..Len(weights) : weights[m].epoch \in 1..epoch'
    BY <1>1, <2>3 DEF UInv, UpdatesExact
  <2>7. QED BY <1>1, <2>4, <2>5, <2>6 DEF UInv, UpdatesExact
<1>9. PassIsSplit'
  <2>1. Held' = {} /\ Left' = groups'
    BY <1>1 DEF Held, Left
  <2>2. Usable' = Usable /\ Groups' = Groups /\ Usable \subseteq DOMAIN run.examples
    BY <1>1, SameRun, UsableIs DEF TInv
  <2>3. Split(Usable, {}, {}, groups')
    BY <1>3, <2>2 DEF Split
  <2>4. QED BY <1>1, <1>3, <1>6, <2>1, <2>2, <2>3 DEF PassIsSplit
<1>10. QED BY <1>5, <1>8, <1>9 DEF UInv

\* A step begins with nothing accumulated.
LEMMA ZeroGradExact == ASSUME TInv, UInv, ZeroGrad PROVE UInv'
<1>1. /\ UNCHANGED <<run, origin, weights, epoch, groups, log>>
      /\ loop = "group" /\ loop' = "micro" /\ gradient' = <<>>
  BY DEF ZeroGrad, Cleared
<1>2. OnSchedule'
  <2>1. step' = step /\ Total' = Total
    BY <1>1, SameRun DEF step
  <2>2. QED BY <1>1, <2>1 DEF UInv, OnSchedule
<1>3. UpdatesExact'
  <2>1. Exact(Usable, Shares, <<>>)
    BY ExactNone
  <2>2. QED BY <1>1, <2>1, SameRun DEF UInv, UpdatesExact
<1>4. PassIsSplit'
  <2>1. Held = {} /\ Held' = {} /\ Left' = Left
    BY <1>1, ExactNone DEF Held, Left
  <2>2. QED BY <1>1, <2>1, SameRun DEF UInv, PassIsSplit
<1>5. QED BY <1>2, <1>3, <1>4 DEF UInv

\* A micro-batch moves from what is left into the gradient.
LEMMA PassExact == ASSUME TInv, UInv, SupervisedPass \/ PolicyPass PROVE UInv'
<1> DEFINE S == Survivors(Micro)
           used == Used(weights, Len(origin), epoch)
<1>1. /\ UNCHANGED <<run, origin, weights, epoch, log>>
      /\ loop = "micro" /\ Head(groups) # <<>> /\ epoch \in Nat /\ epoch # 0
      /\ groups # <<>>
      /\ \/ loop' = "micro" /\ groups' = WithoutMicro
         \/ loop' = "reference" /\ groups' = groups
  BY DEF SupervisedPass, PolicyPass, InMicro, UInv, OnSchedule
<1>2. PICK policy : gradient' = Append(gradient, Backward(policy, <<>>))
  BY DEF SupervisedPass, PolicyPass
<1>3. groups \in Groups /\ Split(Usable, used, Gathered(gradient), groups)
  BY <1>1 DEF UInv, PassIsSplit, Held, Left
<1>4. groups[1] # <<>>
  BY <1>1, <1>3 DEF Groups
<1>5. /\ WithoutMicro \in Groups /\ WithoutMicro # <<>>
      /\ ToSet(Micro) \subseteq DOMAIN run.examples
      /\ ToSet(Micro) \cup Pending(WithoutMicro) = Pending(groups)
      /\ Once(WithoutMicro) /\ ToSet(Micro) \cap Pending(WithoutMicro) = {}
  BY <1>1, <1>3, <1>4, TakeMicro DEF Split
<1>6. S = ToSet(Micro) \cap Usable
  BY <1>5, ShareIs DEF TInv, Survivors
<1> HIDE DEF S
<1>7. S \subseteq Usable /\ S \cap Gathered(gradient) = {}
  BY <1>3, <1>5, <1>6 DEF Split
<1> DEFINE part == Backward(policy, <<>>)
<1>8. part.examples = S /\ part.over = SumOf(Shares, S) /\ part.times = part.over
  <2>1. part.examples = S /\ part.over = Count(S) /\ part.times = Count(S)
    BY DEF Backward, S
  <2> HIDE DEF part
  <2>2. QED BY <1>7, <2>1, CountIs DEF TInv
<1> HIDE DEF part
<1>9. Exact(Usable, Shares, gradient') /\ Gathered(gradient') = Gathered(gradient) \cup S
  <2>1. Exact(Usable, Shares, gradient)
    BY <1>1 DEF UInv, UpdatesExact
  <2>2. IsFiniteSet(Usable) /\ Counts(Shares, Usable)
    BY UsableIs DEF TInv
  <2>3. /\ Exact(Usable, Shares, Append(gradient, part))
        /\ Gathered(Append(gradient, part)) = Gathered(gradient) \cup S
    BY <1>7, <1>8, <2>1, <2>2, ExactAppend
  <2>4. QED BY <1>2, <2>3 DEF part
<1>10. gradient' # <<>>
  <2>1. IsSeq(gradient)
    BY <1>1 DEF UInv, UpdatesExact, Exact
  <2>2. QED BY <1>2, <2>1, AppendAny, EmptyAny DEF part
<1>11. OnSchedule'
  <2>1. step' = step /\ Total' = Total /\ step < Total
    BY <1>1, SameRun DEF step, UInv, OnSchedule
  <2>2. groups' # <<>> /\ (loop' = "reference" => groups'[1] # <<>>)
    BY <1>1, <1>4, <1>5
  <2>3. QED BY <1>1, <1>10, <2>1, <2>2 DEF UInv, OnSchedule
<1>12. UpdatesExact'
  BY <1>1, <1>9, SameRun DEF UInv, UpdatesExact
<1>13. PassIsSplit'
  <2>1. Held' = Gathered(gradient) \cup S
    BY <1>1, <1>9 DEF Held
  <2>2. Left' = WithoutMicro
    BY <1>1 DEF Left, WithoutMicro
  <2>3. Split(Usable, used, Gathered(gradient) \cup S, WithoutMicro)
    BY <1>3, <1>5, <1>6 DEF Split
  <2>4. groups' \in Groups /\ Groups' = Groups /\ Usable' = Usable
    BY <1>1, <1>3, <1>5, SameRun
  <2>5. Split(Usable', Used(weights', Len(origin'), epoch'), Held', Left')
    BY <1>1, <2>1, <2>2, <2>3, <2>4
  <2>6. QED BY <2>4, <2>5 DEF PassIsSplit
<1>14. QED BY <1>11, <1>12, <1>13 DEF UInv

\* The reference pass changes what an example is compared with, not what it counts for.
LEMMA ReferenceExact == ASSUME TInv, UInv, ReferencePass PROVE UInv'
<1>1. /\ UNCHANGED <<run, origin, weights, epoch, log>>
      /\ loop = "reference" /\ loop' = "micro" /\ groups' = WithoutMicro
      /\ groups # <<>> /\ groups[1] # <<>> /\ epoch \in Nat /\ epoch # 0
  BY DEF ReferencePass, UInv, OnSchedule
<1>2. /\ groups \in Groups
      /\ Split(Usable, Used(weights, Len(origin), epoch), Gathered(gradient), WithoutMicro)
  BY <1>1 DEF UInv, PassIsSplit, Held, Left
<1>3. WithoutMicro \in Groups /\ WithoutMicro # <<>>
  BY <1>1, <1>2, TakeMicro
<1>4. PICK n, base : gradient' = [gradient EXCEPT ![n].reference = base]
  BY DEF ReferencePass
<1>5. Exact(Usable, Shares, gradient)
  BY <1>1 DEF UInv, UpdatesExact
<1>6. IsSeq(gradient') /\ DOMAIN gradient' = DOMAIN gradient
  <2>1. Len(gradient) \in Nat /\ DOMAIN gradient = 1..Len(gradient)
    BY <1>5, AppendAny DEF Exact
  <2>2. DOMAIN gradient' = 1..Len(gradient) /\ gradient' = [i \in 1..Len(gradient) |-> gradient'[i]]
    BY <1>4, <2>1
  <2>3. QED BY <2>1, <2>2, FunctionIsSeq
<1>7. \A c \in DOMAIN gradient : /\ gradient'[c].examples = gradient[c].examples
                                 /\ gradient'[c].over = gradient[c].over
                                 /\ gradient'[c].times = gradient[c].times
  BY <1>4
<1>8. Exact(Usable, Shares, gradient') /\ Gathered(gradient') = Gathered(gradient)
  BY <1>5, <1>6, <1>7, ExactSame
<1>9. OnSchedule'
  <2>1. step' = step /\ Total' = Total /\ step < Total
    BY <1>1, SameRun DEF step, UInv, OnSchedule
  <2>2. QED BY <1>1, <1>3, <2>1 DEF UInv, OnSchedule
<1>10. UpdatesExact'
  BY <1>1, <1>8, SameRun DEF UInv, UpdatesExact
<1>11. PassIsSplit'
  <2>1. Held' = Gathered(gradient) /\ Left' = WithoutMicro
    BY <1>1, <1>8 DEF Held, Left
  <2>2. groups' \in Groups /\ Groups' = Groups /\ Usable' = Usable
    BY <1>1, <1>3, SameRun
  <2>3. Split(Usable', Used(weights', Len(origin'), epoch'), Held', Left')
    BY <1>1, <1>2, <2>1, <2>2
  <2>4. QED BY <2>2, <2>3 DEF PassIsSplit
<1>12. QED BY <1>9, <1>10, <1>11 DEF UInv

\* The supervised tokens of exact updates are their divisors.
LEMMA TokensAre ==
    ASSUME run \in Settings, run.stage = "sft", NEW updates,
           \A n \in DOMAIN updates : /\ Exact(Usable, Shares, updates[n].gradient)
                                     /\ updates[n].divisor = OverAll(updates[n].gradient)
    PROVE  TokensSeen(updates) = SumFunction([n \in DOMAIN updates |-> updates[n].divisor])
<1>1. ASSUME NEW n \in DOMAIN updates
      PROVE  SumFunction([c \in DOMAIN updates[n].gradient |->
                              TokensOf(updates[n].gradient[c].examples)]) = updates[n].divisor
  <2> DEFINE parts == updates[n].gradient
  <2>1. Exact(Usable, Shares, parts) /\ updates[n].divisor = OverAll(parts)
    OBVIOUS
  <2> HIDE DEF parts
  <2>2. ASSUME NEW c \in DOMAIN parts PROVE TokensOf(parts[c].examples) = parts[c].over
    <3>1. parts[c].examples \subseteq Usable /\ parts[c].over = SumOf(Shares, parts[c].examples)
      BY <2>1 DEF Exact
    <3>2. Count(parts[c].examples) = parts[c].over
      BY <3>1, CountIs
    <3>3. QED BY <3>2 DEF Count
  <2>3. [c \in DOMAIN parts |-> TokensOf(parts[c].examples)] = [c \in DOMAIN parts |-> parts[c].over]
    BY <2>2
  <2>4. SumFunction([c \in DOMAIN parts |-> TokensOf(parts[c].examples)]) = OverAll(parts)
    BY <2>3, Zenon DEF OverAll
  <2>5. QED BY <2>1, <2>4 DEF parts
<1> DEFINE seen(n) == SumFunction([c \in DOMAIN updates[n].gradient |->
                                       TokensOf(updates[n].gradient[c].examples)])
<1>2. TokensSeen(updates) = SumFunction([n \in DOMAIN updates |-> seen(n)])
  BY Zenon DEF TokensSeen
<1>3. \A n \in DOMAIN updates : seen(n) = updates[n].divisor
  BY <1>1
<1> HIDE DEF seen
<1>4. [n \in DOMAIN updates |-> seen(n)] = [n \in DOMAIN updates |-> updates[n].divisor]
  BY <1>3
<1>5. QED BY <1>2, <1>4, Zenon

\* The gradient becomes an update of the pass, and the last one is logged.
LEMMA UpdateExact == ASSUME TInv, TInv', UInv, Update PROVE UInv'
<1> DEFINE o == Len(origin)
           used == Used(weights, o, epoch)
           done == step + 1
           u == [gradient |-> gradient, divisor |-> Divisor, epoch |-> epoch]
<1>1. /\ UNCHANGED <<run, origin, epoch, gradient>>
      /\ loop = "micro" /\ Head(groups) = <<>> /\ epoch \in Nat /\ epoch # 0
      /\ groups # <<>> /\ groups' = Tail(groups) /\ step < Total
  BY DEF Update, UInv, OnSchedule
<1>2. /\ weights' = Append(weights, u)
      /\ log' = IF done % run.logEvery = 0 \/ done = Total
                THEN Append(log, [step |-> done,
                                  tokens |-> TokensSeen(SubSeq(weights', Len(origin) + 1,
                                                               Len(weights')))])
                ELSE log
      /\ loop' = "validate" \/ loop' = Onward(done, Tail(groups))
  BY DEF Update
<1>3. /\ o \in Nat /\ IsSeq(weights) /\ o <= Len(weights) /\ Len(weights) \in Nat
      /\ step \in Nat /\ Total \in Nat
  BY StepIs DEF TInv
<1>4. PICK v : v = u
  OBVIOUS
<1>5. v.gradient = gradient /\ v.divisor = OverAll(gradient) /\ v.epoch = epoch
  BY <1>4, Zenon DEF Divisor, OverAll
<1> HIDE DEF u
<1>6. /\ weights' = Append(weights, v) /\ Len(weights') = Len(weights) + 1
      /\ weights'[Len(weights) + 1] = v
      /\ \A m \in 1..Len(weights) : weights'[m] = weights[m]
  BY <1>2, <1>3, <1>4, AppendAny
<1>7. step' = done /\ done \in Nat /\ done <= Total
  BY <1>1, <1>3, <1>6 DEF step
<1>8. groups \in Groups /\ Split(Usable, used, Gathered(gradient), groups)
  BY <1>1 DEF UInv, PassIsSplit, Held, Left
<1>9. Tail(groups) \in Groups /\ Once(Tail(groups)) /\ Pending(Tail(groups)) = Pending(groups)
  <2>1. groups[1] = <<>>
    BY <1>1, <1>8 DEF Groups
  <2>2. QED BY <1>1, <1>8, <2>1, TakeGroup DEF Split
<1>10. Usable' = Usable /\ Shares' = Shares /\ Groups' = Groups /\ Total' = Total
  BY <1>1, SameRun
<1>11. Exact(Usable, Shares, gradient)
  BY <1>1 DEF UInv, UpdatesExact
<1>12. /\ loop' \in {"validate", "finish", "epoch", "group"}
       /\ loop' = "finish" => done = Total
       /\ loop' \in {"epoch", "group"} => done < Total
       /\ loop' = "epoch" => Tail(groups) = <<>>
       /\ loop' = "group" => Tail(groups) # <<>>
  <2>1. /\ Onward(done, Tail(groups)) \in {"finish", "epoch", "group"}
        /\ Onward(done, Tail(groups)) = "finish" <=> done >= Total
        /\ Onward(done, Tail(groups)) = "epoch" => Tail(groups) = <<>>
        /\ Onward(done, Tail(groups)) = "group" => Tail(groups) # <<>>
    BY <1>3, <1>7, OnwardTo
  <2>2. CASE loop' = "validate"
    BY <2>2
  <2>3. CASE loop' = Onward(done, Tail(groups))
    <3>1. loop' = "finish" <=> done >= Total
      BY <2>1, <2>3
    <3>2. QED BY <1>3, <1>7, <2>1, <2>3, <3>1
  <2>4. QED BY <1>2, <2>2, <2>3
<1>13. /\ \A m \in o + 1..Len(weights) + 1 :
             /\ Exact(Usable, Shares, weights'[m].gradient)
             /\ weights'[m].divisor = OverAll(weights'[m].gradient)
             /\ weights'[m].epoch \in 1..epoch
  <2> SUFFICES ASSUME NEW m \in o + 1..Len(weights) + 1
               PROVE  /\ Exact(Usable, Shares, weights'[m].gradient)
                      /\ weights'[m].divisor = OverAll(weights'[m].gradient)
                      /\ weights'[m].epoch \in 1..epoch
    OBVIOUS
  <2>1. CASE m \in o + 1..Len(weights)
    <3>1. weights'[m] = weights[m]
      BY <1>3, <1>6, <2>1
    <3>2. QED BY <2>1, <3>1 DEF UInv, UpdatesExact
  <2>2. CASE m = Len(weights) + 1
    BY <1>1, <1>5, <1>6, <1>11, <2>2
  <2>3. QED BY <1>3, <2>1, <2>2
<1>14. /\ \A e : Used(weights', o, e) =
                    Used(weights, o, e) \cup (IF epoch = e THEN Gathered(gradient) ELSE {})
       /\ Separate(weights', o)
  <2>1. Separate(weights, o) /\ Gathered(v.gradient) \cap Used(weights, o, v.epoch) = {}
    BY <1>5, <1>8 DEF UInv, UpdatesExact, Split
  <2>2. /\ \A e : Used(Append(weights, v), o, e) =
                     Used(weights, o, e) \cup (IF v.epoch = e THEN Gathered(v.gradient) ELSE {})
        /\ Separate(Append(weights, v), o)
    BY <1>3, <2>1, UsedAppend
  <2>3. QED BY <1>5, <1>6, <2>2
<1>15. UpdatesExact'
  <2>1. ASSUME NEW e \in 1..epoch - 1 PROVE Used(weights', o, e) = Usable
    <3>1. epoch # e
      BY <1>1
    <3>2. Used(weights, o, e) = Usable
      BY DEF UInv, UpdatesExact
    <3>3. QED BY <1>14, <3>1, <3>2
  <2>2. loop' \notin {"micro", "reference"}
    BY <1>12
  <2>3. /\ \A m \in Len(origin') + 1..Len(weights') :
             /\ Exact(Usable', Shares', weights'[m].gradient)
             /\ weights'[m].divisor = OverAll(weights'[m].gradient)
             /\ weights'[m].epoch \in 1..epoch'
    BY <1>1, <1>6, <1>10, <1>13
  <2>4. Separate(weights', Len(origin')) /\ \A e \in 1..epoch' - 1 : Used(weights', Len(origin'), e) = Usable'
    BY <1>1, <1>10, <1>14, <2>1
  <2>5. QED BY <2>2, <2>3, <2>4 DEF UpdatesExact
<1>16. PassIsSplit'
  <2>1. Held' = {} /\ Left' = Tail(groups)
    BY <1>1, <1>12 DEF Held, Left
  <2>2. Used(weights', o, epoch) = used \cup Gathered(gradient)
    BY <1>14
  <2>3. Split(Usable, used \cup Gathered(gradient), {}, Tail(groups))
    BY <1>8, <1>9 DEF Split
  <2>4. QED BY <1>1, <1>9, <1>10, <2>1, <2>2, <2>3 DEF PassIsSplit
<1>17. done = Total => Logged'
  <2> SUFFICES ASSUME done = Total PROVE Logged'
    OBVIOUS
  <2> DEFINE row == [step |-> done, tokens |-> TokensSeen(SubSeq(weights', Len(origin) + 1, Len(weights')))]
  <2>1. PICK z : z = row
    OBVIOUS
  <2>2. z.step = done /\ z.tokens = TokensSeen(SubSeq(weights', Len(origin) + 1, Len(weights')))
    BY <2>1
  <2>3. log' = Append(log, z)
    BY <1>2, <2>1
  <2> HIDE DEF row
  <2>4. log' # <<>> /\ log'[Len(log')] = z
    <3>1. IsSeq(log)
      BY DEF UInv, OnSchedule
    <3>2. Len(log) \in Nat /\ Len(log') = Len(log) + 1 /\ log'[Len(log) + 1] = z
      BY <2>3, <3>1, AppendAny
    <3>3. QED BY <3>2, EmptyAny
  <2>5. PICK mine : mine = MyUpdates'
    OBVIOUS
  <2>6. SubSeq(weights', Len(origin) + 1, Len(weights')) = mine
    BY <1>1, <2>5 DEF MyUpdates
  <2>7. ASSUME NEW n \in DOMAIN mine PROVE o + n \in o + 1..Len(weights) + 1 /\ mine[n] = weights'[o + n]
    <3>1. PICK S : weights' \in Seq(S)
      BY DEF TInv, IsSeq
    <3>2. mine = SubSeq(weights', o + 1, Len(weights) + 1)
      BY <1>6, <2>6
    <3>3. /\ DOMAIN SubSeq(weights', o + 1, Len(weights) + 1) = 1..(Len(weights) + 1) - o
          /\ \A i \in 1..(Len(weights) + 1) - o :
                SubSeq(weights', o + 1, Len(weights) + 1)[i] = weights'[o + i]
      BY <1>3, <1>6, <3>1
    <3>4. QED BY <1>3, <3>2, <3>3
  <2>8. \A n \in DOMAIN mine : /\ Exact(Usable, Shares, mine[n].gradient)
                               /\ mine[n].divisor = OverAll(mine[n].gradient)
    BY <1>13, <2>7
  <2>9. run.stage = "sft" => TokensSeen(mine) = SumFunction([n \in DOMAIN mine |-> mine[n].divisor])
    BY <2>8, TokensAre DEF TInv
  <2>10. run'.stage = "sft" => z.tokens = SumFunction([n \in DOMAIN MyUpdates' |-> MyUpdates'[n].divisor])
    BY <1>1, <2>2, <2>5, <2>6, <2>9
  <2>11. QED BY <1>7, <2>2, <2>4, <2>10 DEF Logged
<1>18. OnSchedule'
  <2>1. IsSeq(log')
    <3>1. IsSeq(log)
      BY DEF UInv, OnSchedule
    <3>2. \/ log' = log \/ \E z : log' = Append(log, z)
      BY <1>2
    <3>3. \A z : IsSeq(Append(log, z))
      BY <3>1, AppendAny
    <3>4. QED BY <3>1, <3>2, <3>3
  <2>2. QED BY <1>1, <1>7, <1>10, <1>12, <1>17, <2>1 DEF OnSchedule
<1>19. QED BY <1>15, <1>16, <1>18 DEF UInv

\* A validation changes nothing of this.
LEMMA ValidateExact == ASSUME TInv, UInv, Validate PROVE UInv'
<1>1. /\ UNCHANGED <<run, origin, weights, epoch, groups, gradient, log>>
      /\ loop = "validate" /\ loop' = Onward(step, groups)
      /\ epoch \in Nat /\ epoch # 0 /\ step <= Total /\ (step = Total => Logged)
  BY DEF Validate, UInv, OnSchedule
<1>2. /\ Onward(step, groups) \in {"finish", "epoch", "group"}
      /\ Onward(step, groups) = "finish" <=> step >= Total
      /\ Onward(step, groups) = "epoch" => groups = <<>>
      /\ Onward(step, groups) = "group" => groups # <<>>
  BY StepIs, OnwardTo
<1>3. step' = step /\ Total' = Total /\ Logged' = Logged
  BY <1>1, SameRun DEF step, Logged, MyUpdates
<1>4. OnSchedule'
  <2>1. loop' = "finish" => step = Total
    BY <1>1, <1>2, StepIs
  <2>2. loop' # "finish" => step < Total
    BY <1>1, <1>2, StepIs
  <2>3. QED BY <1>1, <1>2, <1>3, <2>1, <2>2 DEF UInv, OnSchedule
<1>5. UpdatesExact'
  BY <1>1, <1>2, SameRun DEF UInv, UpdatesExact
<1>6. PassIsSplit'
  <2>1. Held = {} /\ Held' = {} /\ Left' = Left
    BY <1>1, <1>2 DEF Held, Left
  <2>2. QED BY <1>1, <1>2, <2>1, SameRun DEF UInv, PassIsSplit
<1>7. QED BY <1>4, <1>5, <1>6 DEF UInv

\* Every step of training keeps the updates exact.
LEMMA UpdatesStep == ASSUME TInv, TInv', UInv, [TrainingNext]_trainingVars PROVE UInv'
<1>1. CASE UNCHANGED trainingVars
  <2>1. /\ Usable' = Usable /\ Shares' = Shares /\ Groups' = Groups /\ Total' = Total
        /\ step' = step /\ Logged' = Logged /\ Held' = Held /\ Left' = Left
    BY <1>1, SameRun DEF trainingVars, step, Logged, MyUpdates, Held, Left, WithoutMicro
  <2>2. QED BY <1>1, <2>1 DEF UInv, OnSchedule, UpdatesExact, PassIsSplit, trainingVars
<1>2. QED
  BY <1>1, BeginExact, ShuffleExact, ZeroGradExact, PassExact, ReferenceExact, UpdateExact,
     ValidateExact, EndExact DEF TrainingNext

\* The inductive invariant of the exact updates, on top of that of the loops.
THEOREM UpdatesInvariance == TrainingSpec => [](TInv /\ UInv)
  BY TrainingInitInv, TrainingStepInv, UpdatesInit, UpdatesStep, PTL DEF TrainingSpec

\* Whatever the examples, their lengths, the batch size, the accumulation, the number of
\* passes and the shuffles: an update divides by exactly the supervised tokens (or
\* pairs) its examples have, each of which is in one micro-batch, a finished pass learned
\* from every usable example once, and the last log row accounts for the whole run.
THEOREM UpdatesAlwaysExact == TrainingSpec => []UpdatesAreExact
<1>1. TInv /\ UInv => UpdatesAreExact
  <2> SUFFICES ASSUME TInv, UInv PROVE UpdatesAreExact
    OBVIOUS
  <2> DEFINE o == Len(origin)
  <2>1. /\ DOMAIN MyUpdates = 1..Len(weights) - o
        /\ \A n \in DOMAIN MyUpdates : /\ n \in Nat /\ o + n \in o + 1..Len(weights)
                                       /\ MyUpdates[n] = weights[o + n]
        /\ \A m \in o + 1..Len(weights) :
              \E n \in DOMAIN MyUpdates : o + n = m /\ MyUpdates[n] = weights[m]
        /\ o \in Nat
    BY MyUpdatesAre
  <2> HIDE DEF o
  <2>2. \A u : Learned(u) = Gathered(u.gradient)
    BY DEF Learned, Gathered
  <2>3. ASSUME NEW n \in DOMAIN MyUpdates
        PROVE  LET u == MyUpdates[n]
               IN  /\ u.divisor = SumFunction([i \in Learned(u) |-> Share(i)])
                   /\ \A c, d \in DOMAIN u.gradient :
                         c # d => u.gradient[c].examples \cap u.gradient[d].examples = {}
                   /\ \A part \in ToSet(u.gradient) : part.times = part.over
    <3> DEFINE u == MyUpdates[n]
    <3>1. Exact(Usable, Shares, u.gradient) /\ u.divisor = OverAll(u.gradient)
      BY <2>1 DEF UInv, UpdatesExact, o
    <3> HIDE DEF u
    <3>2. u.divisor = SumOf(Shares, Learned(u)) /\ Learned(u) \subseteq Usable
      BY <2>2, <3>1 DEF Exact, Gathered
    <3>3. u.divisor = SumFunction([i \in Learned(u) |-> Share(i)])
      <4> DEFINE L == Learned(u)
      <4> HIDE DEF L
      <4>1. SumFunction([i \in L |-> Share(i)]) = SumOf(Shares, L)
        BY <3>2, CountIs DEF L, TInv
      <4>2. QED BY <3>2, <4>1 DEF L
    <3>4. \A part \in ToSet(u.gradient) : part.times = part.over
      BY <3>1, Occurs DEF Exact
    <3>5. QED BY <3>1, <3>3, <3>4 DEF Exact, u
  <2>4. ASSUME NEW e \in 1..(IF loop = "epoch" THEN epoch ELSE epoch - 1)
        PROVE  /\ UNION {Learned(MyUpdates[n]) : n \in UpdatesOf(e)} = Usable
               /\ \A m, n \in UpdatesOf(e) :
                     m # n => Learned(MyUpdates[m]) \cap Learned(MyUpdates[n]) = {}
    <3>1. Used(weights, o, e) = Usable
      <4>1. CASE e \in 1..epoch - 1
        BY <4>1 DEF UInv, UpdatesExact, o
      <4>2. CASE loop = "epoch" /\ e = epoch
        <5>1. epoch # 0 /\ groups = <<>>
          BY <4>2 DEF UInv, OnSchedule
        <5>2. Split(Usable, Used(weights, o, epoch), Held, Left)
          BY <4>2, <5>1 DEF UInv, PassIsSplit, o
        <5>3. Held = {} /\ Left = <<>> /\ Pending(<<>>) = {}
          BY <4>2, <5>1, EmptyAny DEF Held, Left, Pending
        <5>4. QED BY <4>2, <5>2, <5>3 DEF Split
      <4>3. epoch \in Nat
        BY DEF UInv, OnSchedule
      <4>4. e \in 1..epoch - 1 \/ (loop = "epoch" /\ e = epoch)
        BY <4>3
      <4>5. QED BY <4>1, <4>2, <4>4
    <3>2. UNION {Learned(MyUpdates[n]) : n \in UpdatesOf(e)} = Used(weights, o, e)
      <4> DEFINE mine == {m \in o + 1..Len(weights) : weights[m].epoch = e}
      <4>1. Used(weights, o, e) = UNION {Gathered(weights[m].gradient) : m \in mine}
        BY DEF Used
      <4>2. \A n \in UpdatesOf(e) : o + n \in mine /\ MyUpdates[n] = weights[o + n]
        BY <2>1 DEF UpdatesOf
      <4>3. \A m \in mine : \E n \in UpdatesOf(e) : MyUpdates[n] = weights[m]
        BY <2>1 DEF UpdatesOf
      <4> HIDE DEF mine
      <4>4. ASSUME NEW n \in UpdatesOf(e), NEW i \in Learned(MyUpdates[n])
            PROVE  i \in Used(weights, o, e)
        BY <2>2, <4>1, <4>2
      <4>5. ASSUME NEW m \in mine, NEW i \in Gathered(weights[m].gradient)
            PROVE  \E n \in UpdatesOf(e) : i \in Learned(MyUpdates[n])
        BY <2>2, <4>3
      <4>6. QED BY <4>1, <4>4, <4>5
    <3>3. ASSUME NEW m \in UpdatesOf(e), NEW n \in UpdatesOf(e), m # n
          PROVE  Learned(MyUpdates[m]) \cap Learned(MyUpdates[n]) = {}
      <4>1. /\ m \in DOMAIN MyUpdates /\ MyUpdates[m].epoch = e
            /\ n \in DOMAIN MyUpdates /\ MyUpdates[n].epoch = e
        BY DEF UpdatesOf
      <4>2. /\ o + m \in o + 1..Len(weights) /\ MyUpdates[m] = weights[o + m]
            /\ o + n \in o + 1..Len(weights) /\ MyUpdates[n] = weights[o + n]
            /\ o + m # o + n
        BY <2>1, <3>3, <4>1
      <4>3. Separate(weights, o)
        BY DEF UInv, UpdatesExact, o
      <4>4. QED BY <2>2, <4>1, <4>2, <4>3 DEF Separate
    <3>4. QED BY <3>1, <3>2, <3>3
  <2>5. loop \in {"finish", "publish", "done"} =>
          /\ step = Total /\ log # <<>>
          /\ log[Len(log)].step = step
          /\ run.stage = "sft" =>
                log[Len(log)].tokens =
                   SumFunction([n \in DOMAIN MyUpdates |-> MyUpdates[n].divisor])
    BY DEF UInv, OnSchedule, Logged
  <2>6. QED BY <2>3, <2>4, <2>5 DEF UpdatesAreExact
<1>2. QED BY <1>1, UpdatesInvariance, PTL
=============================================================================
