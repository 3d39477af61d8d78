------------------------------ MODULE Finetune ------------------------------
(***************************************************************************)
(* loraeval.experiment: one configuration to one run directory.  The       *)
(* examples are split, a strategy chooses what is trained, epochs run      *)
(* under early stopping, the best one is put back, tested and saved; later *)
(* the run's model is rebuilt from the directory.  Runs may share the      *)
(* directory and die between its files.                                    *)
(***************************************************************************)
EXTENDS Integers, Sequences, FiniteSetsExt

CONSTANTS Labels,           \* the classes
          ClassSizes,       \* numbers of examples per class tried
          Fractions,        \* pairs of val and test fractions, in percent
          MaxEpochs,        \* cfg.train.epochs
          Patiences,        \* cfg.train.patience (0 = never stop)
          Scores,           \* bound of the model: macro-F1 values are 1..Scores
          MaxRuns           \* bound of the model

ASSUME FinetuneAssumption ==
    /\ ClassSizes \subseteq Nat
    /\ Fractions \subseteq Nat \X Nat /\ \A f \in Fractions : f[1] + f[2] < 100
    /\ MaxEpochs \in Nat \ {0} /\ Patiences \subseteq Nat
    /\ Scores \in Nat /\ MaxRuns \in Nat

VARIABLES
    sizes,         \* per class, the examples given
    fractions,     \* DataConfig's val_fraction and test_fraction
    run,           \* the configuration of the latest run
    runs,          \* bound of the model
    split,         \* per class, the numbers of train, val and test examples
    net,           \* the weights of each part of the model
    scores,        \* the validation scores of the epochs so far
    best,          \* best_epoch, best_state, the best score, and epochs since
    doing,         \* where run_experiment is
    dir,           \* the run directory's files
    loaded         \* the latest model rebuilt, and the files it came from

finetuneVars == <<sizes, fractions, run, runs, split, net, scores, best, doing, dir, loaded>>

-----------------------------------------------------------------------------
(* stratified_split.                                                       *)

\* Fault: fractions are rounded up.
RoundUp(n) == (n + 99) \div 100

\* Python's round, of hundredths: halves go to the even neighbour.
Round(n) == LET q == n \div 100 IN
            IF n % 100 > 50 \/ (n % 100 = 50 /\ q % 2 = 1) THEN q + 1 ELSE q

\* Slices of a permutation, cut where the permutation ends.
Cut(n) == LET test == Min({n, Round(n * fractions[2])})
              val == Min({n - test, Round(n * fractions[1])})
          IN  [test |-> test, val |-> val, train |-> n - test - val]

None(part) == \A l \in Labels : split[l][part] = 0

-----------------------------------------------------------------------------
(* apply_strategy.                                                         *)

Strategies == {"head", "lora", "full"}

\* Parameters by name: inject_lora renames what it wraps.
Names(strategy) == IF strategy = "lora" THEN {"wrapped", "adapter", "head"} ELSE {"body", "head"}

Trainable(strategy) == CASE strategy = "head" -> {"head"}
                         [] strategy = "lora" -> {"adapter", "head"}
                         [] strategy = "full" -> {"body", "head"}

\* Pretrained weights, and heads and adapters fresh from the generator.
FreshNet(strategy, seed) ==
    [p \in Names(strategy) |-> IF p \in {"body", "wrapped"} THEN <<"pretrained">>
                               ELSE <<"fresh", seed>>]

\* trainable_state_dict and the partial load over it.
TrainedState(strategy, model) == [p \in Trainable(strategy) |-> model[p]]
Override(model, state) == [p \in DOMAIN model |-> IF p \in DOMAIN state THEN state[p] ELSE model[p]]

-----------------------------------------------------------------------------
(* run_experiment.                                                         *)

NoRun == [id |-> 0, strategy |-> "head", patience |-> 0]
NoBest == [epoch |-> 0, score |-> 0, state |-> <<>>, waited |-> 0]
Empty == [files |-> {}, config |-> NoRun, tested |-> <<>>, weights |-> <<>>, by |-> 0]
NotLoaded == [how |-> "none", model |-> <<>>, from |-> Empty]

FinetuneInit == /\ sizes \in [Labels -> ClassSizes]
                /\ fractions \in Fractions
                /\ run = NoRun /\ runs = 0
                /\ split = [l \in Labels |-> Cut(0)]
                /\ net = <<>> /\ scores = <<>> /\ best = NoBest
                /\ doing = "idle"
                /\ dir = Empty
                /\ loaded = NotLoaded

StartRun(strategy, patience) ==
    /\ doing = "idle" /\ runs < MaxRuns
    /\ runs' = runs + 1
    /\ run' = [id |-> runs', strategy |-> strategy, patience |-> patience]
    /\ split' = [l \in Labels |-> Cut(sizes[l])]
    /\ net' = FreshNet(strategy, runs')
    /\ scores' = <<>> /\ best' = NoBest
    /\ doing' = "epoch"
    /\ UNCHANGED <<sizes, fractions, dir, loaded>>

\* An epoch over the training batches.
TrainEpoch ==
    /\ doing = "epoch" /\ ~None("train")
    /\ net' = [p \in DOMAIN net |-> IF p \in Trainable(run.strategy)
                                    THEN <<"epoch", run.id, Len(scores) + 1>> ELSE net[p]]
    /\ doing' = "validate"
    /\ UNCHANGED <<sizes, fractions, run, runs, split, scores, best, dir, loaded>>

\* The schedule of the learning rate raises before the first epoch when there is no batch
\* to train on, predict when its loader yields none.
NoBatches == /\ \/ doing = "epoch" /\ None("train")
                \/ doing = "validate" /\ None("val")
                \/ doing = "test" /\ None("test")
             /\ doing' = "idle"
             /\ UNCHANGED <<sizes, fractions, run, runs, split, net, scores, best, dir, loaded>>

\* load_trainable_state_dict(model, best_state).
BestNet(b) == Override(net, b.state)

\* Fault: the last epoch of the patience is not waited for.
ImpatientByOne(b) == run.patience > 0 /\ b.waited + 1 >= run.patience

OutOfPatience(b) == run.patience > 0 /\ b.waited >= run.patience

Validate(score) ==
    /\ doing = "validate" /\ ~None("val")
    /\ scores' = Append(scores, score)
    /\ best' = IF score > best.score
               THEN [epoch |-> Len(scores'), score |-> score, waited |-> 0,
                     state |-> TrainedState(run.strategy, net)]
               ELSE [best EXCEPT !.waited = @ + 1]
    /\ IF OutOfPatience(best') \/ Len(scores') = MaxEpochs
       THEN doing' = "test" /\ net' = BestNet(best')
       ELSE doing' = "epoch" /\ UNCHANGED net
    /\ UNCHANGED <<sizes, fractions, run, runs, split, dir, loaded>>

\* predict over the test set; then the files, one after the other.
Test == /\ doing = "test" /\ ~None("test")
        /\ doing' = "config"
        /\ UNCHANGED <<sizes, fractions, run, runs, split, net, scores, best, dir, loaded>>

AfterFile == [config |-> "metrics", metrics |-> "predictions", predictions |-> "weights",
              weights |-> "idle"]

WriteRunFile ==
    /\ doing \in DOMAIN AfterFile
    /\ dir' = CASE doing = "config" -> [dir EXCEPT !.files = @ \cup {"config"}, !.config = run]
                [] doing = "metrics" -> [dir EXCEPT !.files = @ \cup {"metrics"}]
                [] doing = "predictions" ->
                      [dir EXCEPT !.files = @ \cup {"predictions"}, !.tested = net]
                [] doing = "weights" ->
                      [dir EXCEPT !.files = @ \cup {"weights"}, !.by = run.id,
                                  !.weights = TrainedState(run.strategy, net)]
    /\ doing' = AfterFile[doing]
    /\ UNCHANGED <<sizes, fractions, run, runs, split, net, scores, best, loaded>>

KillRun == /\ doing # "idle"
           /\ doing' = "idle"
           /\ UNCHANGED <<sizes, fractions, run, runs, split, net, scores, best, dir, loaded>>

-----------------------------------------------------------------------------
(* load_run_model.                                                         *)

\* Fault: the strategy is not applied before the weights are put in.
RebuiltBare(d) == Override(FreshNet("full", 0), d.weights)

\* A fresh model (its head drawn anew) under the saved configuration's strategy,
\* and the saved weights over it.
Rebuilt(d) == Override(FreshNet(d.config.strategy, 0), d.weights)

\* Keys of the file unknown to the model are an error; the converse is not.
LoadRun == /\ doing = "idle"
           /\ {"config", "weights"} \subseteq dir.files
           /\ loaded' = IF DOMAIN dir.weights \subseteq Names(dir.config.strategy)
                        THEN [how |-> "loaded", model |-> Rebuilt(dir), from |-> dir]
                        ELSE [how |-> "KeyError", model |-> <<>>, from |-> dir]
           /\ UNCHANGED <<sizes, fractions, run, runs, split, net, scores, best, doing, dir>>

FinetuneNext == \/ \E s \in Strategies, p \in Patiences : StartRun(s, p)
                \/ TrainEpoch \/ NoBatches
                \/ \E score \in 1..Scores : Validate(score)
                \/ Test \/ WriteRunFile
                \/ KillRun
                \/ LoadRun

FinetuneSpec == FinetuneInit /\ [][FinetuneNext]_finetuneVars

-----------------------------------------------------------------------------
(* What an experiment promises.                                            *)

\* Each class's test and validation shares are its rounded fractions, neither
\* cut short by the other; what is left is for training ("every split has the
\* same label mix").
SplitIsStratified ==
    doing # "idle" =>
        \A l \in Labels :
            /\ split[l].test = Round(sizes[l] * fractions[2])
            /\ split[l].val = Round(sizes[l] * fractions[1])
            /\ split[l].train + split[l].val + split[l].test = sizes[l]

\* What is tested and written is the first epoch with the best score, and
\* training ended no sooner than the patience allows: at the last epoch, or with
\* exactly patience epochs after the best one.
BestEpochIsKept ==
    doing \in {"test"} \cup DOMAIN AfterFile =>
        LET Wins(e) == \A f \in DOMAIN scores : /\ scores[f] <= scores[e]
                                                /\ scores[f] = scores[e] => e <= f
            e == CHOOSE e \in DOMAIN scores : Wins(e)
        IN  /\ \A p \in Trainable(run.strategy) : net[p] = <<"epoch", run.id, e>>
            /\ Len(scores) = MaxEpochs \/ Len(scores) = e + run.patience

\* A model rebuilt from a directory whose configuration and weights are of one
\* run is the model whose test predictions the directory holds, in every part,
\* though its head and adapter were drawn anew ("base weights + trained
\* deltas").
RebuiltIsTested ==
    loaded.how # "none" /\ loaded.from.by = loaded.from.config.id =>
        /\ loaded.how = "loaded"
        /\ loaded.model = loaded.from.tested
=============================================================================
