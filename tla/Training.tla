------------------------------ MODULE Training ------------------------------
(***************************************************************************)
(* sftdpo.train: the supervised loop (train_sft) and the preference loop   *)
(* (train_dpo) over one adapter, the collators that feed them, and the     *)
(* publication of what they saved.  An adapter is the sequence of updates  *)
(* its weights have had: <<>> behaves as the bare checkpoint.              *)
(***************************************************************************)
EXTENDS Naturals, FiniteSets, SequencesExt, FiniteSetsExt

CONSTANTS Settings,      \* the training runs that may be asked for
          MaxLength,     \* max_seq_length, in tokens
          Losses,        \* the values a validation loss may take
          MaxRuns        \* bound: training runs of a behaviour

\* The two stages, TrainConfig's field constraints, and SFTFeature's: a completion is
\* not empty.
ASSUME TrainingAssumption ==
    /\ MaxLength \in Nat /\ MaxLength >= 2 /\ Losses \subseteq Nat
    /\ \A s \in Settings :
          /\ s.stage \in {"sft", "dpo"}
          /\ {s.batch, s.accumulation, s.epochs, s.logEvery} \subseteq Nat \ {0}
          /\ {s.maxSteps, s.evalEvery} \subseteq Nat      \* 0: not set
          /\ s.examples # <<>>
          /\ {s.examples, s.validation} \subseteq
                Seq([prompt : Nat \ {0}, chosen : Nat \ {0}, rejected : Nat \ {0}])

VARIABLES
    run,         \* the settings of the run, one of Settings
    runs,        \* how many were begun
    loop,        \* where the run is
    origin,      \* the weights the run began with
    weights,     \* the weights now
    enabled,     \* is the adapter switched on in the forward pass?
    epoch,       \* passes begun over the examples
    groups,      \* the rest of this pass: optimiser steps of micro-batches
    gradient,    \* what was accumulated since zero_grad
    log,         \* TrainLog: [step, tokens]
    curve,       \* val_curve: [step, loss]
    bestEval,    \* best_val_loss and best_step, a set of at most one
    adapterPath, \* the directory the run will hand over, or "none"
    saved,       \* what the output directories of a stage hold
    published    \* the adapter that later stages load

trainingVars == <<run, runs, loop, origin, weights, enabled, epoch, groups, gradient, log,
                  curve, bestEval, adapterPath, saved, published>>

NaN == 1000000
Nothing == [there |-> FALSE, weights |-> <<>>]
Saved(w) == [there |-> TRUE, weights |-> w]

TrainingInit ==
    /\ run \in Settings /\ runs = 0 /\ loop = "idle"
    /\ origin = <<>> /\ weights = <<>> /\ enabled = TRUE
    /\ epoch = 0 /\ groups = <<>> /\ gradient = <<>>
    /\ log = <<>> /\ curve = <<>> /\ bestEval = {} /\ adapterPath = "none"
    /\ saved = [s \in {"sft", "dpo"} |-> [d \in {"best", "final"} |-> Nothing]]
    /\ published = [s \in {"sft", "dpo"} |-> Nothing]

step == Len(weights) - Len(origin)
Running == IF enabled THEN weights ELSE <<>>

-----------------------------------------------------------------------------
(* The collators.                                                          *)

Fits(prompt, completion) == prompt + completion <= MaxLength \/ prompt < MaxLength

\* _truncate: the completion tokens that are left.
Supervised(prompt, completion) ==
    IF prompt + completion <= MaxLength THEN completion ELSE MaxLength - prompt

\* CompletionOnlyCollator._prepare and PreferenceCollator._prepare.
Survives(x) == /\ Fits(x.prompt, x.chosen)
               /\ run.stage = "dpo" => Fits(x.prompt, x.rejected)
Survivors(micro) == {i \in ToSet(micro) : Survives(run.examples[i])}

\* supervised_token_count and pair_token_count.
Tokens(x) == Supervised(x.prompt, x.chosen)
               + IF run.stage = "dpo" THEN Supervised(x.prompt, x.rejected) ELSE 0
TokensOf(indices) == SumFunction([i \in indices |-> Tokens(run.examples[i])])

\* What a batch's mean loss is a mean over: tokens, or pairs.
Count(indices) == IF run.stage = "sft" THEN TokensOf(indices) ELSE Cardinality(indices)

-----------------------------------------------------------------------------
(* The schedule of a run.                                                  *)

CeilDiv(a, b) == (a + b - 1) \div b

\* TrainConfig.total_steps.
Total == IF run.maxSteps > 0 THEN run.maxSteps
         ELSE CeilDiv(Len(run.examples), run.batch * run.accumulation) * run.epochs

Cut(s, n) == [i \in 1..CeilDiv(Len(s), n) |-> SubSeq(s, (i - 1) * n + 1,
                                                    IF i * n < Len(s) THEN i * n ELSE Len(s))]

AccumulationGroups(sequence) == Cut(Cut(sequence, run.batch), run.accumulation)

\* After the step that leaves `rest` of the pass.
Onward(done, rest) == CASE done >= Total -> "finish"
                        [] done < Total /\ rest = <<>> -> "epoch"
                        [] OTHER -> "group"

\* stage_sft and stage_dpo, or their commands, up to the loop: supervised training
\* begins on a fresh adapter, preference training on the published one, or on a fresh
\* one with --adapter none.
Begin ==
    /\ loop \in {"idle", "done", "failed"} /\ runs < MaxRuns
    /\ \E s \in Settings :
          /\ run' = s
          /\ \/ origin' = <<>>
             \/ /\ s.stage = "dpo" /\ published["sft"].there
                /\ origin' = published["sft"].weights
    /\ weights' = origin' /\ enabled' = TRUE
    /\ runs' = runs + 1 /\ loop' = "epoch"
    /\ epoch' = 0 /\ groups' = <<>> /\ gradient' = <<>>
    /\ log' = <<>> /\ curve' = <<>> /\ bestEval' = {} /\ adapterPath' = "none"
    /\ UNCHANGED <<saved, published>>

Shuffle ==
    /\ loop = "epoch"
    /\ \E permuted \in SetToSeqs(DOMAIN run.examples) : groups' = AccumulationGroups(permuted)
    /\ epoch' = epoch + 1 /\ loop' = "group"
    /\ UNCHANGED <<run, runs, origin, weights, enabled, gradient, log, curve, bestEval,
                   adapterPath, saved, published>>

\* Fault: the gradient of the last step is not cleared.
KeptGradient == gradient
Cleared == <<>>

ZeroGrad ==
    /\ loop = "group"
    /\ gradient' = Cleared /\ loop' = "micro"
    /\ UNCHANGED <<run, runs, origin, weights, enabled, epoch, groups, log, curve, bestEval,
                   adapterPath, saved, published>>

-----------------------------------------------------------------------------
(* One micro-batch.                                                        *)

Micro == Head(Head(groups))
WithoutMicro == [groups EXCEPT ![1] = Tail(@)]

\* (loss * count).backward(): the mean over `over`, taken `times` over.
Backward(policy, reference) ==
    LET indices == Survivors(Micro)
    IN  [examples |-> indices, over |-> Count(indices), times |-> Count(indices),
         policy |-> policy, reference |-> reference]

InMicro == loop = "micro" /\ Head(groups) # <<>>

\* A batch that loses every example raises, whatever was accumulated before it.
CollateFails ==
    /\ InMicro /\ Survivors(Micro) = {}
    /\ loop' = "failed"
    /\ UNCHANGED <<run, runs, origin, weights, enabled, epoch, groups, gradient, log, curve,
                   bestEval, adapterPath, saved, published>>

SupervisedPass ==
    /\ InMicro /\ run.stage = "sft" /\ Survivors(Micro) # {}
    /\ gradient' = Append(gradient, Backward(Running, <<>>))
    /\ groups' = WithoutMicro
    /\ UNCHANGED <<run, runs, loop, origin, weights, enabled, epoch, log, curve, bestEval,
                   adapterPath, saved, published>>

\* policy_logprobs, and the entry into reference_context, which disables the adapter.
PolicyPass ==
    /\ InMicro /\ run.stage = "dpo" /\ Survivors(Micro) # {}
    /\ gradient' = Append(gradient, Backward(Running, <<>>))
    /\ enabled' = FALSE /\ loop' = "reference"
    /\ UNCHANGED <<run, runs, origin, weights, epoch, groups, log, curve, bestEval,
                   adapterPath, saved, published>>

\* Fault: the adapter stays off after the reference pass.
LeftDisabled == FALSE
AfterContext == TRUE

\* reference_logprobs with the adapter off, the loss, and the exit of the context.
ReferencePass ==
    /\ loop = "reference"
    /\ gradient' = [gradient EXCEPT ![Len(gradient)].reference = Running]
    /\ enabled' = AfterContext /\ loop' = "micro"
    /\ groups' = WithoutMicro
    /\ UNCHANGED <<run, runs, origin, weights, epoch, log, curve, bestEval, adapterPath,
                   saved, published>>

-----------------------------------------------------------------------------
(* The optimiser step, validation and the end of the run.                  *)

\* group_tokens or group_pairs.
Divisor == SumFunction([c \in DOMAIN gradient |-> gradient[c].over])

TokensSeen(updates) ==
    SumFunction([n \in DOMAIN updates |->
        SumFunction([c \in DOMAIN updates[n].gradient |->
            TokensOf(updates[n].gradient[c].examples)])])

Update ==
    /\ loop = "micro" /\ Head(groups) = <<>>
    /\ LET done == step + 1
           due == /\ run.stage = "sft" /\ run.validation # <<>> /\ run.evalEvery > 0
                  /\ done % run.evalEvery = 0 \/ done = Total
       IN  /\ weights' = Append(weights, [gradient |-> gradient, divisor |-> Divisor,
                                          epoch |-> epoch])
           /\ log' = IF done % run.logEvery = 0 \/ done = Total
                     THEN Append(log, [step |-> done,
                                       tokens |-> TokensSeen(SubSeq(weights', Len(origin) + 1,
                                                                    Len(weights')))])
                     ELSE log
           /\ groups' = Tail(groups)
           /\ loop' = IF due THEN "validate" ELSE Onward(done, Tail(groups))
    /\ UNCHANGED <<run, runs, origin, enabled, epoch, gradient, curve, bestEval, adapterPath,
                   saved, published>>

\* A comparison with NaN is false.
Improves(loss) == \A b \in bestEval : loss < b.loss /\ NaN \notin {loss, b.loss}

\* evaluate_loss over the validation examples in their order, and the checkpoint.
Validate ==
    /\ loop = "validate"
    /\ \A i \in DOMAIN Cut(run.validation, run.batch) :
          \E x \in ToSet(Cut(run.validation, run.batch)[i]) : Survives(x)
    /\ \E loss \in Losses :
          /\ curve' = Append(curve, [step |-> step, loss |-> loss])
          /\ IF Improves(loss)
             THEN /\ bestEval' = {[step |-> step, loss |-> loss]}
                  /\ adapterPath' = "best"
                  /\ saved' = [saved EXCEPT !["sft"]["best"] = Saved(weights)]
             ELSE UNCHANGED <<bestEval, adapterPath, saved>>
    /\ loop' = Onward(step, groups)
    /\ UNCHANGED <<run, runs, origin, weights, enabled, epoch, groups, gradient, log, published>>

ValidationFails ==
    /\ loop = "validate"
    /\ \E i \in DOMAIN Cut(run.validation, run.batch) :
          \A x \in ToSet(Cut(run.validation, run.batch)[i]) : ~Survives(x)
    /\ loop' = "failed"
    /\ UNCHANGED <<run, runs, origin, weights, enabled, epoch, groups, gradient, log, curve,
                   bestEval, adapterPath, saved, published>>

Finish ==
    /\ loop = "finish"
    /\ IF adapterPath = "none"
       THEN /\ adapterPath' = "final"
            /\ saved' = [saved EXCEPT ![run.stage]["final"] = Saved(weights)]
       ELSE UNCHANGED <<adapterPath, saved>>
    /\ loop' = "publish"
    /\ UNCHANGED <<run, runs, origin, weights, enabled, epoch, groups, gradient, log, curve,
                   bestEval, published>>

\* Fault: the directory is looked for rather than told.
SourceFound == IF saved[run.stage]["best"].there THEN "best" ELSE "final"
Source == adapterPath

\* publish_adapter: copies over whatever was there.
Publish ==
    /\ loop = "publish"
    /\ published' = [published EXCEPT ![run.stage] = saved[run.stage][Source]]
    /\ loop' = "done"
    /\ UNCHANGED <<run, runs, origin, weights, enabled, epoch, groups, gradient, log, curve,
                   bestEval, adapterPath, saved>>

\* The process dies; between rmtree and copytree the published adapter goes with it.
Die ==
    /\ loop \notin {"idle", "done", "failed"}
    /\ loop' = "failed"
    /\ \/ UNCHANGED published
       \/ loop = "publish" /\ published' = [published EXCEPT ![run.stage] = Nothing]
    /\ UNCHANGED <<run, runs, origin, weights, enabled, epoch, groups, gradient, log, curve,
                   bestEval, adapterPath, saved>>

TrainingNext == \/ Begin \/ Shuffle \/ ZeroGrad
                \/ CollateFails \/ SupervisedPass \/ PolicyPass \/ ReferencePass
                \/ Update \/ Validate \/ ValidationFails \/ Finish \/ Publish \/ Die

TrainingSpec == TrainingInit /\ [][TrainingNext]_trainingVars

-----------------------------------------------------------------------------

MyUpdates == SubSeq(weights, Len(origin) + 1, Len(weights))

\* The completion positions of a sequence that a budget of MaxLength leaves.
Positions(prompt, completion) == {p \in prompt + 1..prompt + completion : p <= MaxLength}
Usable == {i \in DOMAIN run.examples :
              LET x == run.examples[i]
              IN  /\ Positions(x.prompt, x.chosen) # {}
                  /\ run.stage = "dpo" => Positions(x.prompt, x.rejected) # {}}
Share(i) == IF run.stage = "dpo" THEN 1
            ELSE Cardinality(Positions(run.examples[i].prompt, run.examples[i].chosen))
Learned(u) == UNION {u.gradient[c].examples : c \in DOMAIN u.gradient}
UpdatesOf(e) == {n \in DOMAIN MyUpdates : MyUpdates[n].epoch = e}

\* Every update is the exact mean gradient of its group at the weights before it: each
\* supervised token (each pair) counts once and equally, however the micro-batches and
\* truncation cut the group; a finished pass used every usable example once; and the
\* last log row accounts for the whole run.
UpdatesAreExact ==
    /\ \A n \in DOMAIN MyUpdates :
          LET u == MyUpdates[n]
          IN  /\ u.divisor = SumFunction([i \in Learned(u) |-> Share(i)])
              /\ \A c, d \in DOMAIN u.gradient :
                    c # d => u.gradient[c].examples \cap u.gradient[d].examples = {}
              /\ \A part \in ToSet(u.gradient) : part.times = part.over
    /\ \A e \in 1..(IF loop = "epoch" THEN epoch ELSE epoch - 1) :
          /\ UNION {Learned(MyUpdates[n]) : n \in UpdatesOf(e)} = Usable
          /\ \A m, n \in UpdatesOf(e) :
                m # n => Learned(MyUpdates[m]) \cap Learned(MyUpdates[n]) = {}
    /\ loop \in {"finish", "publish", "done"} =>
          /\ step = Total /\ log # <<>>
          /\ log[Len(log)].step = step
          /\ run.stage = "sft" =>
                log[Len(log)].tokens =
                   SumFunction([n \in DOMAIN MyUpdates |-> MyUpdates[n].divisor])

\* Every preference update compares the policy as it is, adapter on, with the bare
\* checkpoint; switching the adapter off for the reference never leaks into the next
\* forward pass, and a supervised update is the gradient of the weights it moves.
ReferenceIsBase ==
    \A n \in DOMAIN MyUpdates : \A part \in ToSet(MyUpdates[n].gradient) :
        /\ part.policy = SubSeq(weights, 1, Len(origin) + n - 1)
        /\ part.reference = <<>>

\* What later stages load after a run is the first of its lowest-validated weights, or
\* its last weights if nothing was validated, whatever an earlier run into the same
\* directories left there.  A first loss of NaN is never improved upon.
PublishedIsBest ==
    loop = "done" =>
        LET at(n) == SubSeq(weights, 1, Len(origin) + n)
            sound == {i \in DOMAIN curve : curve[i].loss # NaN}
            first == CHOOSE i \in sound :
                        \A j \in sound : \/ curve[i].loss < curve[j].loss
                                         \/ curve[i].loss = curve[j].loss /\ i <= j
        IN  published[run.stage] =
                Saved(CASE curve = <<>> -> weights
                        [] curve # <<>> /\ curve[1].loss = NaN -> at(curve[1].step)
                        [] OTHER -> at(curve[first].step))

\* What stage_dpo says of its reference: it is the supervised model the run began from.
ReferenceIsSupervised ==
    run.stage = "dpo" =>
        \A n \in DOMAIN MyUpdates : \A part \in ToSet(MyUpdates[n].gradient) :
            part.reference = origin
=============================================================================
