# Formal models of llm-engineering-lab

TLA+ models of this repository's stateful core, TLC configurations that check
them on small instances, and TLAPS proofs of the main results for every value of
the constants. Paths below are relative to `src/`.

## 1. The system

The repository holds four independent Python projects. Nothing is shared between
them at run time; each is a package with its own command line.

### llm-inference-server (`llmserve`): a completions endpoint over one model

| part | state | operations | talks to |
|---|---|---|---|
| `scheduler.py` DynamicBatcher | `_queue`, `_task`, `_inflight`, a future per request, the worker's local batch | `start`, `stop`, `submit`, `_collect_batch`, `_run` | engine in a thread, handlers through futures |
| `api.py` | `app.state.ready`, one coroutine per request | lifespan startup and shutdown, `completions`, `health`, `ready`, `metrics` | batcher |
| `engine.py` | per call: cache, mask, positions, active rows, generated tokens, generators | `generate_batch` | model and tokenizer (libraries) |
| `sampling.py` | none | filters and `sample_token` | engine |
| `config`, `logging_utils`, `metrics`, `cli`, `benchmark`, `quantize` | gauges, settings | plumbing | all |

Hard: everything but the engine call is one event loop, so every `await` is a
point where a timeout, a shutdown or another request gets in: the batching
window, the engine call, `stop` waiting for its own worker, a handler waiting for
its future. Within the engine, rows of different lengths share one padded cache
from which finished rows are removed while the others go on.
Correct means: every accepted request is answered once, with its own generation,
in order, in groups of bounded size, whatever times out, fails or stops; a status
code has the cause it names; batching is invisible to each request.

### sft-dpo-alignment (`sftdpo`): fine-tune, mine preferences, DPO, evaluate, gate

| part | state | operations |
|---|---|---|
| `pipeline.py` | the run directory: artefacts and one record per stage | `run_pipeline` over nine stages, skip rule, `publish_adapter` |
| `task/` | the corpus and its manifest | `build_dataset`, `save`, `load`, text generation |
| `verify/` | none | parse with repair, schema check, field alignment, reward |
| `prefs/` | sampling streams | `sample_completions`, `mine_pairs` |
| `train/` | step, accumulation, best loss, adapters, logs | `train_sft`, `train_dpo`, the DPO loss and its cross-check |
| `eval/` | none | generation, metrics, statistics, `compare`, `gate`, alignment tax |
| `modeling/` | adapter on or off | chat prompts, collation and label masks, loading, `reference_context` |
| `cli.py`, `schemas.py` | none | plumbing and records |

Hard: runs take hours and are expected to be interrupted and resumed
(`pipeline.py:6-9`), perhaps with another configuration or with `--only` and
`--force`; files are written in place. Correct means: an invocation that returns
vouches only for artefacts its configuration produced, and repeats nothing that
was finished. In training: the accumulated gradient is that of the whole group,
the best checkpoint is the best, the reference policy is always restored. In
mining and gating: chosen beats rejected by the margin, and a gate never passes
without evidence. A reward that compares lists realigns them after every change,
so that "one error less" may move others; a corpus of six slices must give each
note to one split only.

### transformer-from-scratch (`nanoformer`)

`trainer.py` (step, optimizer, random states, history, best loss, checkpoints,
`metrics.jsonl`; `train`, `save_checkpoint`, `resume`), `cache.py` (length and
per-layer buffers; `update`, `advance`, `select`), `generate.py`, `tokenizer.py`
(merges), and the model, layers, data, optimizer, config and CLI. Hard: a crash
at any write and a resume that claims to continue *exactly*; a cache whose length
and contents advance separately.

### lora-finetune-eval (`loraeval`)

`lora.py` (wrapped layers, merged or not), `train.py` (epochs, early stopping,
best weights), `data.py` (stratified split), experiments, metrics, reports, CLI.
Hard: merge and unmerge change a base weight in place; best weights must be a copy.

## 2. Modules

| module | what it is | models |
|---|---|---|
| `FifoService` | abstract specification: one line, served in groups | what the batcher promises |
| `Batcher` | detailed state machine | `scheduler.py` |
| `Server` (extends `Batcher`) | composition | `api.py` over the batcher |
| `Engine` | state machine of one call | `engine.py`, choice of path in `sampling.py` |
| `Pipeline` | state machine over the run directory | `pipeline.py`, `task/dataset.py` save and load |
| `Trainer` | state machine with kills and resumes | nanoformer `trainer.py`, `optim.lr_at`, `train` of `cli.py` |
| `Generation` | state machine of one call, layer by layer | nanoformer `generate.py`, `cache.py`, the passes of `model.py` and `layers.py` |
| `Tokenizer` | training, then encoding, merge by merge | nanoformer `tokenizer.py` |
| `Finetune` | state machine over a run directory | loraeval `experiment.py`, `train.py`, `data.py`, `models.py` |
| `LoRA` | state machine of wrapped layers | loraeval `lora.py` |
| `Labs` (extends the five) | one command per process | the command lines of both packages |
| `Verifier` | operators | sftdpo `verify/` |
| `Scoring` (extends `Verifier`) | one judgement | `verify check` |
| `Preferences` (extends `Verifier`) | state machine | sftdpo `prefs/`, `gold_fallback_pairs` |
| `Gate` (extends `Verifier`) | reports and decision | sftdpo `eval/metrics.py`, `stats.py`, `compare.py` |
| `Tax` (extends `Gate`) | probe reports and their comparison | sftdpo `eval/tax.py`, `measure_alignment_tax` |
| `Chat` | operators | sftdpo `modeling/chat.py` |
| `Collation` (extends `Chat`) | one batch | sftdpo `modeling/collate.py`, the encoding in `train/sft.py` and `train/dpo.py` |
| `Decoding` (extends `Chat`) | state machine of one call | sftdpo `eval/generate.py`, `prefs/sample.py`, `generate_replies` |
| `Training` | state machine of both loops | sftdpo `train/`, `modeling/lora.py`, `publish_adapter` |
| `Corpus` | build, save, kill, load | sftdpo `task/dataset.py` |
| `Alignment` (extends these) | one command per process | sftdpo `cli.py` |
| `MCBatcher`, `MCServer`, `MCEngine`, `MCPipeline`, `MCLabs`, `MCAlignment` | instances for TLC | |
| `ServerProofs`, `EngineProofs`, `PipelineProofs`, `LabsProofs`, `TrainingProofs`, `AlignmentProofs`, `ChatProofs` | theorems | |
| `ListLemmas` | facts about numbers, lists, sums and subsets that `LabsProofs`, `ChatProofs`, `TrainingProofs` and `AlignmentProofs` share | |

A definition whose comment begins with `Fault:` is a wrong variant of the
definition that follows it, the kind of bug each property is there to catch. No
specification uses one; substituting it makes the property fail.

### Batcher

One action is the code between two suspension points of a coroutine. `future[r]`
is the asyncio future of request `r` (`"unsubmitted"` before `submit`); `queue`,
`inflight` are the attributes of the same names and `batch` is the local list of
`_collect_batch`, which is what matters on a cancellation. `worker` names the
await the worker task is suspended on (`get`, `window`, `engine`). `task` folds
`_task` and `_queue` with the progress of `stop`: `cancelling` after
`_task.cancel()`, `cancelled` when the worker has ended, `none` when both are None.

* `Submit`, `Refuse`, `Abandon`: `submit` up to its await, its two exceptions, and
  the cancellation of the awaited future by the caller's timeout. The request
  itself stays where it is, as in the code.
* `CollectBatch`: everything from the worker's `get` to its next suspension: drain
  up to the batch size, then dispatch or wait for a straggler. The deadline may
  have passed at any moment, so dispatching early is always possible.
* `Stragglers`, `WindowCloses`: the window loop. A request put in the queue at the
  moment `wait_for` times out stays there.
* `BatchReturned`, `BatchRaised`: resume after the engine, resolve or fail those
  not done, and collect the next batch in the same step, for nothing suspends in
  between.
* `StopCancels`, `WorkerCancelled`, `StopReturns`: `stop`, with its await between.
  `dropped` is a history variable: the requests of `batch` at the cancellation.

`FifoService` knows none of this: it has a line, a group being served and
answers. `Batcher` implements it under the mapping at the end of the module
(`line` is `batch \o queue`): `Turn(n)` is a whole group being answered and the
next one beginning, `Close(n)` a shutdown that forgets a group being collected,
which is the one way the service loses a request.

### Server

`reply[r]` is the HTTP status the handler of `r` produced. `Completion` is the
handler up to its await (readiness, limits, submit), `Deliver` and `Timeout` the
two ways it resumes; in `Timeout` the timer may also beat a future that is done
but whose handler has not run. Batcher steps are taken unchanged
(`Background`), with the engine's context check deciding between returning and
`ContextLengthError` (`EngineCall`). The server starts and stops once, as the
lifespan does.

### Engine

A token is the pair of the row and the place it was written for, so the cache
shows whose text a row attends to, and `logits[j]` is what the model saw when it
predicted: the visible entries of row `j` with their positions. What the model
would say is left open but for EOS. Positions, masks and padding are computed as
in the code; eviction selects rows of all four lists. Random draws are recorded as
(generator, number of the draw).

### Pipeline

`art` gives each output the configuration it was written under and all that went
into it; `record` the digest in the stage's record. A stage with several outputs
has two here: the first and the last file in writing order are enough to be caught
between. `Write` and `WriteRecord` are separate steps, `Crash` may come before,
between or inside them and leaves a torn file or, for an adapter, none. A digest
is identified with its configuration, and different configurations with different
corpora. `Skip` and `Execute` are the two branches of the skip rule; a skipped
stage's record is written again, as in the code.

### Labs: nanoformer and loraeval

The commands of the two packages are sequential processes that meet in files only,
so `Labs` lets one command run in a behaviour and leaves the others where they began.

* `Trainer`. `live` is the `Trainer` object of the running process, `files` the
  checkpoints, `metrics` the rows of `metrics.jsonl`, `at` the place in `train`. The
  weights are the sequence of their updates, and an update records what it was
  computed from: the step of the learning rate, the age of the moments, the data
  batches drawn and the draws of dropout. Two runs are equal exactly if their
  sequences are. A checkpoint is opened and written in two steps, `Kill` comes
  anywhere, and `Resume` takes any whole checkpoint. `birth` tells apart the models
  of different fresh starts, which are built before anything is seeded.
* `Generation`. A hidden vector is the token, its position and, block after block,
  what it could attend to. `cache` has `MaxSeqLen` slots a layer, as preallocated;
  `Updated` writes at `seqLen`, which moves only when the pass is over. `training`
  follows the model's mode through every return and exception.
* `Tokenizer`. Words are sequences of byte ids; `Learn` is one merge, `Apply` one
  round of `_encode_word`. `MergePair` reads a word id by id, as the code does; `Onto`
  replaces an id already read when its partner comes, instead of looking ahead.
* `Finetune`. Parameters are named groups (the body, the wrapped body, adapters,
  head) with the epoch they were last trained in. The split is the counts per class.
  `WriteRunFile` writes the directory's files one by one. Without a training example the
  schedule raises before the first epoch (`NoBatches`).
* `LoRA`. A weight is an integer and an adapter its update; float rounding of a
  merge and its undoing is left out. `mergedLoads` counts loads over merged layers.

### Alignment: sftdpo

* `Verifier`. A record is told apart by the fate of each scalar (right, wrong,
  quoted, absent), the members of its sets, its recommendations (product, amount,
  invented key) and whether it has an invented key. A completion is a record in
  its packaging: fence, prose, a cut, syntax slips, a decoy in a string. `Alignment`
  is `_alignment` exactly, and `Reward` the weighted sum as a fraction.
* `Preferences`. One step per `generate` call and per mined prompt. Equal rewards may be ranked
  in any order, as the shuffle before the stable sort leaves them.
* `Gate`. A report is what `evaluate` keeps of the completions. All rates are
  compared as fractions. McNemar's p-value is exact. The interval is open: either end is
  any value between the worst and the best difference of an example (`Ends`), as
  `bootstrap_ci` bounds a replicate by nothing else and accepts a single one. `grounded`,
  kept in the decision for the properties, says whether the low end is at most the
  difference that was observed.
* `Tax`. A probe report is the set of probes whose replies passed; any set, the model
  before alignment first. The comparison is the gate's, with a margin of its own and both
  ends of the interval open.
* `Chat`, `Collation`. A text is a sequence of pieces and a tokenizer a set of pairs of
  pieces it merges, so that the last piece of a prompt may or may not become one token
  with the first of an answer. `Rendered` is ChatML, a template of the tokenizer's own,
  one that rewrites earlier turns or one that fails. A batch is encoded, cut, padded and
  labelled in one step, with the filler any tokenizer offers.
* `Decoding`. Prompts are encoded, padded on the left and put into `generate` calls;
  `GenerateBatch` is one of them, with any reply for each prompt, cut as the caller cuts
  it. A row whose last column is not its prompt's last token, or whose mask shows
  something else than its prompt, gets junk. A vocabulary says which special tokens a
  tokenizer and the model's generation config have, the same one for two uses included.
  `draw` records the stream and the row of a sample.
* `Training`. An adapter is the sequence of its updates, and an update holds the
  parts of its accumulated gradient: which examples, the count the mean was over,
  the factor it was multiplied with, and the policy and reference weights it was
  computed at. Token counts come from the collator's truncation. `loop` is the place
  in the loop; failures of the collator and kills end a run and leave the directories. A
  preference run starts from the published supervised adapter or from the bare base.
* `Corpus`. A cell's stream yields any note of its slice. Each file is truncated and
  filled in two steps; a torn one may read as any prefix of its lines, or not at all.

## 3. What the runs check

| run | properties | result |
|---|---|---|
| `batcher` | WaitingIsHeld, OwnResult, StopAnswersHeld, AnswersAreFinal, ServesInOrder (refinement), EveryoneAnswered (liveness) | hold |
| `batcher_stop` | StopAnswersAll | violated |
| `server` | ReadyMeansRunning, LiveWhileWaited, StatusHasCause, EveryoneGetsAReply, BackpressureEnds (liveness) | hold |
| `server_context` | ContextErrorIsOwn | violated |
| `engine` | SeesOnlyItself, SeededDrawsAreOwn, ReasonsAreTrue | hold |
| `pipeline` | ReturnedIsCurrentUnlessInterrupted, RecordTellsUnlessInterrupted, NothingForeign, FinishedIsKept | hold |
| `pipeline_interrupted` | ReturnedIsCurrent | violated |
| `pipeline_only` | NothingForeign | violated |
| `labs` | ContinuesExactly, HistoryComplete, BestIsKept; CachedIsUncached; EncodingReplaysTraining; SplitIsStratified, BestEpochIsKept, RebuiltIsTested; MergeIsInvisible | hold |
| `alignment` | RepairNeverLowers, LenientIsNoLower; PreferencesAgree, OutcomesExplainYield; PromotionIsEarned, TaxIsTold, NothingVanishes; UpdatesAreExact, ReferenceIsBase, PublishedIsBest; CorpusIsSound; LabelsMarkTheAnswer; CompletionsAreOwn | hold |
| `reward_deletion` | DeletionNeverLowers | violated |
| `dpo_reference` | ReferenceIsSupervised | violated |

What the properties of the last two passing runs say:

* *Training that survives.* `ContinuesExactly`: whatever was killed and wherever it was
  resumed, every step is the step of the uninterrupted run. `HistoryComplete`: no
  evaluation is lost or repeated but the closing one. `BestIsKept`: a finished run
  leaves the first lowest-loss weights in `ckpt_best`, if every resume took the newest
  whole checkpoint; without that condition an older best may be lost to a torn save.
* *Two ways to one result.* `CachedIsUncached`: after every pass the last hidden vector
  of each row, frozen ones included, is that of a pass without cache over the whole
  row, or the call has refused or overflowed. `EncodingReplaysTraining`: encoding by
  rank gives what the training merges, replayed in order, give, and decodes to the
  word. `RebuiltIsTested`: `load_run_model` gives the model whose predictions are in
  the directory, if its configuration and weights are of one run; a directory in which a
  kill left the files of two is loaded as it is, and no property speaks of it. `LenientIsNoLower`:
  the repairing parser never scores a completion lower than the strict one.
* *Choices among many.* `BestEpochIsKept`, `PublishedIsBest`: the first best, exactly
  as late as patience or the schedule allows, and never a leftover of an earlier run.
  `PreferencesAgree`, `OutcomesExplainYield`: pairs have their margin and order, no text
  is both preferred and dispreferred for a prompt, each outcome names its cause.
* *What a batch hides.* `LabelsMarkTheAnswer`: in every row exactly the tokens that reach
  into the answer are labelled, with themselves, however a tokenizer merges across the
  boundary, whatever the budget cuts and whatever pads; pairs stay paired.
  `CompletionsAreOwn`: every prompt gets what the model says to it alone, cut at its own
  stop, whoever shares its batch and however lengths are sorted; its tokens are counted
  right; no two samples share a draw; and the sampler gives the model back in the mode
  it found, after a failure too.
* *Numbers.* `UpdatesAreExact`: each update is the mean over its group, each example
  is used once a pass, however batches, truncation and drops fall; the log adds up.
  `SplitIsStratified`: shares of each class as rounded. `PromotionIsEarned`:
  wherever the interval lies, a promoted candidate won some example, its p-value is that of
  the definition, by counting outcomes, and over all slices together it lost no more than a
  slice may; if the interval begins no higher than the observed difference, it answers more
  examples validly. `TaxIsTold`: the tax's counts, loss and verdicts agree, wherever the
  interval lies, and are true of the pass rates if the observed change is in it.
  `NothingVanishes`: no promotion of a candidate that stopped giving a field the baseline had.
* *Switches.* `MergeIsInvisible` and `ReferenceIsBase`: in-place changes of the model
  are undone before anyone sees them.
* `CorpusIsSound`: what loads is one whole build, its notes distinct over all splits.

The six violations are disagreements of the code with its documentation:

* `StopAnswersAll`. *llm-inference-server/README.md:38*: shutdown fails pending
  and in-flight futures. Requests the worker holds in its local batch during the
  batching window are in neither list when `stop` cancels it (`scheduler.py:83`,
  `113-130`). Their callers wait for the endpoint's timeout, which
  `EveryoneGetsAReply` shows to be the only thing that answers them.
  `StopAnswersHeld` and `StopWithoutWindow` give the exact extent: those requests
  and no others, and none at all without a window.
* `ContextErrorIsOwn`. A batch fails as a whole with the exception of the one
  request that does not fit (`scheduler.py:147`), and its neighbours get a 400
  for a prompt that is not theirs.
* `ReturnedIsCurrent`. Before a stage is re-run its old record is not removed
  (`pipeline.py:1357-1364`): run A, start B and kill it inside a stage, run A
  again, and A skips that stage over B's or torn files.
* `NothingForeign` with `--only` of a stage in the middle. The digest does not
  cover what the stage read (`pipeline.py:1336-1338`): run A, `--only eval_sft`
  under B, then all of B: the evaluation of A's adapter is kept as B's.
* `DeletionNeverLowers`. *verify/reward.py:13*: repairing a field, or deleting one
  the model invented, never lowers the reward. Items without a known product are
  aligned by their place among the items that have any key (`verify/fields.py:354-376`).
  Deleting an item's only, invented key takes it out of the count, and the items
  after it are judged against other gold items. `RepairNeverLowers` gives the part of
  the promise that holds: all repairs, and deletions outside the recommendations.
* `ReferenceIsSupervised`. *pipeline.py:1178-1180*: the reference inside
  `reference_context` is the supervised model. The supervised model is the adapter
  that context disables, so the reference is the bare checkpoint, as
  `docs/RESULTS.md:264-267` of the package says too.

### Bounds, and why they are enough

* `batcher`: four requests, batches up to three, a queue of two, two lives. The
  smallest sizes at which a batch can be computed while another request waits and
  the queue is full behind it, a batch can end partly abandoned, a drain can leave
  someone in the queue, and a request can survive into a restart. One kind of
  engine error: nothing distinguishes kinds here.
* `server`: two ordinary requests, one too long for the context, one over the
  endpoint's limits; batches of two, a queue of one, one life. Every branch of the
  handler and every status is reached.
* `engine`: every batch of one to three requests out of eight kinds with prompts of
  1, 2, 3 and 8 words (the last truncated), one to three new tokens and a context
  of six; EOS is chosen freely at each step. Three rows give every order of
  eviction: first, middle, last, two at once.
* `pipeline`: two configurations, three invocations, two crashes: a third
  invocation is what it takes to be misled by a second that was interrupted. The
  selections of the passing run contain all stages whose files they read; the
  violation run adds one that does not.

* `labs`: three steps, three starts, all intervals up to two, any validation losses of
  two values (ties happen): a third start is what it takes to resume from a
  checkpoint written after a resume, and three steps to have a best one that is
  neither first nor last. Two rows, two layers, three tokens and four positions: one
  row freezes while the other goes on, and the sequence can outgrow the cache. Four
  words with overlapping pairs and ties, three merges, and every word of up to four
  bytes to encode. Classes of 0, 1, 3 and 7 with fractions that round both ways and leave
  training empty; three epochs, patience 0 to 2, two runs into one directory. Two
  layers and three updates for merging, one load over merged layers.
* `alignment`: every list of up to three items over three products and two amounts
  against two gold lists, and every packaging of a short record. Two prompts, chunks
  of one, one or four samples of four texts. Baseline and candidate over four
  examples in two slices with any mixture of four styles, and corpora that differ
  or are empty. Three training examples, cut and dropped ones among them, two runs,
  with batches and groups that do not divide the pass; the second run may train into
  the directories of the first. Splits of up to three notes whose slices share one,
  two attempts a draw, two builds.
  Three probes with a margin of one. Batches of one or two of four texts under four
  kinds of template, with a budget of 17 tokens: one answer is cut in the middle, one
  prompt leaves nothing of its answer, one text merges across the boundary, one answer
  is empty. Three requests of two lengths in calls of two rows, so that one shares a call
  with a longer one and one is alone; replies that stop at once, after a token, or not
  within three; six tokenizers (end token as filler, alone or beside a second stop, the
  second stop as filler or not, none but the model's stop, a filler of its own without
  stops).
* `reward_deletion` and `dpo_reference` check the same specification as `alignment`
  with small records and settings.

`Labs` and `Alignment` are run with deadlock checking off: a command ends.
`MaxMergedLoads`, `MaxStarts`, `MaxRuns`, `MaxBuilds` bound the histories, and
`lives`, `invocations`, `crashes` are bounded by constants named in the modules
(`MaxLives`, `MaxInvocations`, `MaxCrashes`, and `MaxBatch` for the engine). Deadlock is
checked for the engine, which must run to its end; the others may stop: nobody
has to call anything, and each request is made once.

### Fairness

Weak fairness of the worker, the engine thread, and `stop` past its call: the
event loop runs every task that is ready, timers fire, and an engine call ends
because its loop is bounded (`Engine` shows it takes no more iterations than the
largest `max_new_tokens`). In `Server` also of each handler's resumption and of
its timer. No fairness for callers: nobody must submit, give up, start or stop.

`Labs` and `Alignment` assume none: nothing obliges a command to be run to its end
or a killed one to be resumed, and what their components promise is safety.

## 4. What is proved

Every proof holds for any value of the constants that satisfies the named
assumptions of the modules (table below), of the component's own specification
(`Spec`, `ServerSpec`, `TrainerSpec`, ...); the steps of those of `Labs` and `Alignment`
are the steps these take when they run that command. Of the properties
the passing runs check, all but the three liveness properties named at the end of this
section are theorems.

**Batcher** (`ServerProofs`). None of the properties is inductive. `IInv` adds
to `TypeOK` (proved, so no run repeats it) what each of the worker's awaits implies: which of `batch`,
`inflight`, `results` are empty, that `results` is `inflight` when the call has
returned, that an idle worker means a stopped or stopping batcher, and that every
waiting request not `dropped` is somewhere in `queue \o batch \o inflight`. The
proof has one lemma per action; the two operations on lists everything rests on
(splitting a queue, joining lists) have lemmas that say what happens to their sets.
`ResultsAreOwn` follows because results are compared by place with the same list
they were computed from; `StopAnswersTheHeld` because an ended `stop` leaves all
three lists empty; `StopWithoutWindow` adds that without a window the local batch is
always empty, so the documented promise is true for `batch_window_ms = 0`. `Final` is
an action property from the same invariant. `OInv` says that no list repeats a
request and no two share one: `WaitingIsHeld` asks for exactly one place, which
`IInv` (at least one) and `OInv` (at most one) give together. `Implements` is the
refinement `Spec => ServesInOrder`: each step of the batcher is a step of the service
or invisible to it. The invariant it needs (`Room`) bounds the batch being collected
below the batch size, so that the line, which contains it, never exceeds what the
service admits.

**Server** (`ServerProofs`). `ServerDrivesBatcher`: every step of the endpoint, its
timers and the lifespan is a step of the batcher or leaves it alone, so
`ServerSpec => Spec`, and all of the above, the refinement included, holds under the
endpoint's traffic (`ClientsAreServedInOrder`). `SInv` adds to `IInv` how far each
handler is with its future (`HandlersInStep`) and that an open gate means a running
batcher; from it follow `ReadyMeansRunning`, `LiveWhileWaited` and `StatusHasCause`.

**Engine** (`EngineProofs`). `EInv` determines the batch from what was written: the
row of a request is its padding, prompt and completion, its mask hides exactly the
padding, its position is the last one, and the logits are those of the request alone
(`RowIsOwn`). A decode turn keeps it because eviction keeps rows, masks and logits at
the same places, and masked positions are invisible to the pass. With the turns
(`Len(generated[i]) = turn` for whoever is unfinished) and the draws of each generator
this gives `SeesOnlyItself`, `SeededDrawsAreOwn` and `ReasonsAreTrue`.

**Pipeline** (`PipelineProofs`). `PInv` is `PipelineTypeOK` (proved only; the run leaves
it out), `RecordTellsUnlessInterrupted` and two facts about the running invocation:
the stages it is done with have artefacts of its configuration (`Done`), and so have
the files the stage at hand has written so far (`AtHand`). Interrupted stages are
excepted throughout. `RecordsTell`, `ReturnsCurrent` and `FinishedStays` follow.
`WholeRunsAreOwn` is `NothingForeign` under the hypothesis that every selection
contains the stages whose files it reads (`Closed`, what every flag but `--only`
gives); `pipeline_only` shows that the hypothesis is needed.

**nanoformer** (`LabsProofs`). `TrainingContinues` is `ContinuesExactly`: `CInv` says
that every trainer, in memory or on disk, is `After(n, ...)` for some n, all five
counters and the weights those of the uninterrupted run after n steps. It is
inductive because a checkpoint holds all of them and a save writes nothing that is
not live. A training step keeps it because `Straight(n + 1)` is `Straight(n)` with one
update more (`StraightAppend`), and that update is the one a trainer after n steps
takes (`NextUpdate`). `PInv` adds where `train()` is, `HInv` which rows a history must
have by then (`Told`): a checkpoint is taken before its step's evaluation is recorded, so a
resumed run writes that row again and no other. `BInv` follows the best loss: as long
as every resume took the newest checkpoint, `ckpt_best` is the first lowest or a lower
one is still to come (`Kept`). `GInv` says of each block and position what the cache holds:
what the full pass computes there. The recursive function `Hidden` is met only through
its defining equation and a least-counterexample argument on its depth; that what
a pass computes for a position does not depend on later ones is `PassIsCausal`.
`EncodingReplays` is `EncodingReplaysTraining`. `TokenizerIInv` says that each word of the corpus is
what the merges, *each applied in its turn*, make of it (`Replays`), and that encoding, having
come to rank r, is where training was after r merges, with no pair of an earlier
rank left (`Encodes`, `Passes`). Encoding asks for the least rank only, so it skips merges
training went through; those are of pairs that are not there and change nothing
(`MergeAbsent`). It never has to go back because a merge removes its pair, and brings up no pair
but of the new id (`MergeLeaves`), which no earlier merge is of (`OldPairs`). What a
segmentation decodes to is kept by every merge (`MergeSpells`) and by every later one (`VocabAgrees`):
the recursive `TokenBytes` and `MergePair` are met through their equations and a least counterexample.
That there is a best pair at all, and so that a merge is of a pair seen, needs the
corpus to be finite (`BestPairIs`).

**loraeval** (`LabsProofs`). `MergingIsInvisible` holds for any layers and integer
updates. `BaseInStep` is what `MergeIsInvisible` lacks to be inductive: a base weight is
off by exactly the update of the adapter as it is *now*, so an adapter must not move
while merged, which the forward pass ensures by leaving it out of the gradient. `FInv`:
the network is the pretrained one but for what the strategy trains, which is of the
last epoch or, after the restore, of the best; the best is the first maximum of the
scores so far; and a directory whose configuration and weights are of one run holds
that run's predictions. It gives the three properties of `Finetune`.

**sftdpo training** (`TrainingProofs`). `TInv`: the adapter is off exactly between the two
passes of a preference micro-batch; the gradient being accumulated, and that of
every update of this run, is of the weights as they were then, against the bare
checkpoint; and once anything was evaluated the best directory holds the weights of
the evaluation the code would keep. `ReferenceIsBase` and `PublishedIsBest` follow.
`UInv` says where a run is in its schedule (`OnSchedule`: how many micro-batches of the
pass are taken, how many updates that makes), that the usable examples of the present
pass are those used, those held in the gradient and those left, without overlap
(`PassIsSplit`), and that every update is exact (`UpdatesExact`). The shuffle is one to one and
`Cut` gives each place to exactly one micro-batch, by quotient and remainder (`CutIs`, `PieceIs`), so
parts of a group have no example in common; a sum over disjoint sets is the sum of
the sums (`SumUnion`), so the divisor is the tokens, or the pairs, of exactly the
examples in the gradient. `UpdatesAlwaysExact` is the property. That a run clears its gradient
before its next group is what keeps `PassIsSplit`, and the step that needs it.

**sftdpo corpus, verifier, tax, mining, gate** (`AlignmentProofs`). `CorpusInv`: each split is
as long as its cells and follows their slices, all notes are on record, the manifest
is of a whole corpus. That the cells of a split are its slices' shares in order is
an induction over the buckets (`CellsAre`). `LenienceCostsNothing` goes through what the
two extractors may return and `RewardsAreFractions`: a reward is a fraction of at most
one, for any finite record. For `RepairNeverLowers` a reward only grows with the paths
that are right and falls with those that are wrong (`ShareGrows`), so that one repaired path
decides it, if the others keep their slots. They do: an item that takes the product of
the slot it fills is claimed by that slot, which was claimed by none because no item had its
product (`UnfilledIsMissing`), and of the items and slots left over the same place drops
out on both sides (`NthWithout`, `NamingKeepsSlots`). Deleting an item's only key drops a
place on one side only, which is how `DeletionNeverLowers` fails. `SlotsAreDistinct` is
the promise at `verify/fields.py:345` that the alignment is injective.
`TaxInv` says that a tax is a comparison of two whole
reports over some interval between the worst and the best difference. That the verdicts agree
then follows from its ends being in order (`VerdictsAre`), and that one above zero names a
model that gained, since a replicate above zero draws an example that was gained
(`EndsNeedChanges`). What `TaxIsTold` says of the pass rates has as its hypothesis that the
interval contains the observed change. `PrefInv`: while sampling, the prompts before `start` are
one sample ahead; afterwards all have k; the pairs of the prompts mined so far agree
(`Agrees`) and each outcome is that of a best and a worst sample of its prompt. Its
core is that a ranking falls all the way (`RankingFalls`), so that the candidates
worth a pair are the outermost ones, and a text on both sides would close a gap that
is positive (`SidesDiffer`). A by-product: `tally.identical` is always zero, the code's check
for equal sides never applies. The gold pairs are listed worst first because the
sort key is a linear order on samples (`RejectableIs`).
`GateInv` says that a report on disk is of one evaluation and a promotion was decided on the
two that are there. For `NothingVanishes` a field's row is the sum over the examples
(`RowsAre`): what the baseline always had right has recall one, what the candidate never
gives has recall zero, and such a fall exceeds every tolerance below one. The theorem
has that as its hypothesis, since `Floors` accepts a tolerance of one, with which the gate is
off. For `PromotionIsEarned` a low end above zero draws on an example that was won, and
if it is at most the observed difference, more was gained than lost. What each slice may lose
adds up to what all may (`SlicesAddUp`: the slices are disjoint, and a least set of slices that
together lost more would have a smaller one). The terms `choose(n, h)` of the exact tail count the subsets of h
discordant examples (`PartsCount`, by Pascal's rule), a subset at least as lopsided
as the observed one is small or the rest of a small one (`LargeAreRests`), and so twice the
tail is no less than their number (`TailIsExact`), whichever of the two counts is the smaller.

**sftdpo chats** (`ChatProofs`). Two properties about one text in many rows.
`LabelsAreTheAnswers` is `LabelsMarkTheAnswer`. `Encode` is met through the equation of its
recursive function and the least counterexample: tokens are never empty and, joined, give the
text back (`TokensAre`), and after each piece the tokens so far are those of the text up to it.
A token that `EncodedSplit` counts as the answer's is the first at which the encoding of the
conversation leaves that of the prompt; the tokens before it end inside the prompt's text
and it does not (`SplitIsExact`), whichever template gave the prompt as a prefix. Cutting the
end, padding either side and stacking keep tokens and labels at the same places, and
items of which nothing is left to learn are left out by the pair, so that both sides stay
in step.
`EverySampleIsItsPrompts` is `CompletionsAreOwn`. A left-padded row under its mask shows its prompt and
ends with its last token, so the reply is the prompt's own; what `generate` appends is
that reply up to its stop and then filler, and trimming, counting and decoding give it
back (`SampleIsOwned`). The order by length is a permutation: ranks are told apart by the
index, and an injection of a finite set into itself is onto. Cut into calls it covers every
prompt once. The inductive invariant says how far a call to `sample_completions` is (`Halfway`): after s
whole sweeps and r calls of the next, a prompt of the r calls has s + 1 samples and any other
s, all its own, drawn from the streams of its sweeps and its place in its call; two
samples with one draw would be of one sweep, one call and one place.

The assumptions, beyond positive sizes and finite sets:

| assumption | why the code justifies it |
|---|---|
| `TokenizerAssumption` | words are finite strings of bytes, a corpus is finitely many of them with their counts |
| `ErrorsAssumption`, `ConfigsAssumption` | the names of errors and configurations are none of the model's own marks |
| `KindsAssumption`, `GenerationAssumption` | requests and prompts are never empty and ask for a token; a call has rows |
| `SelectionsAssumption` | a selection of no stage is refused |
| `TrainConfigAssumption`, `TrainingAssumption`, `FinetuneAssumption` | what the configurations' validation enforces: positive batches, accumulation and steps, fractions that leave a training part; a list of training examples is not empty, and neither is a prompt or a reply, which ends in its end token |
| `CorpusAssumption` | slices are listed once each; sizes per split |
| `GoldAssumption`, `RecordAssumption`, `PromptsAssumption` | generated gold records pass the check and name a product once (`task/generate.py:498`); a hand-written one in a file for `verify check` is only parsed, so an impossible date in it is outside the model; records and completions have their fields and are finite; mining an empty split is refused |
| `MiningAssumption` | `_validate_settings` refuses a margin that is not positive and a cap below one |
| `CollationAssumption`, `DecodingAssumption` | texts are sequences of pieces; settings are positive; a reply is at least as long as the code lets it run |
| `FillerAssumption` | a filler that is none of the stops is a token reserved for padding, which no model is trained to say; one that is ends the reply |
| `TaxAssumption` | the probes are a finite list; the margin is a non-negative fraction |
| the interval contains, or begins no higher than, the observed change: hypotheses inside `TaxIsTold` and `PromotionIsEarned`, of no specification | `eval tax` always draws 2000 resamples at 95 %, whose percentiles lie on both sides of the mean but for a vanishing chance; `eval compare --resamples` may ask for one, and then it need not hold (section 5) |
| `GateAssumption`, `ReportAssumption` | `Floors` checks that its rates are rates and the support is not negative; corpora and records are finite |

Only model-checked:

* the liveness properties `EveryoneAnswered`, `EveryoneGetsAReply`, `BackpressureEnds`:
  fairness and ENABLED are beyond the prover.

## 5. What is not modelled

* The forward pass, sampling arithmetic, losses, learning rates' values and the
  bootstrap: real-valued. `crosscheck.py`, which compares two computations of the
  same loss, consists of these.
* Prometheus gauges and counters, logs, response bodies, request ids, reports, plots
  and all other rendering; argument parsing; the settings classes' validation.
* Two concurrent calls of `stop`; restarting the application (only the batcher
  restarts, in `batcher`). An engine thread that outlives its cancelled await is
  dropped: its outcome reaches nobody.
* `config.json` and the report's text; a corrupted file that is neither whole nor
  noticed as torn; two processes in one directory.
* A record torn by a crash ends every later invocation that selects its stage
  (`ReadTornRecord`), with `--force` too. The model has it; no property calls it an error.
* Text: `task/generate.py`'s templates, the checks of single probe replies, the
  splitting of text into words before byte-pair merges, the characters of a JSON
  repair. A note, a word or a completion is a value or a small record.
* `KVCache.reset` and row selection, which `generate` does not call;
  `save_best_adapter=False`, with which a stage has nothing to publish.
* `benchmark.py` and `quantize.py`: a load generator and calls into torch.

Places where the models follow the code and a reader of the docs may expect more,
without a run of their own:

* Two reports are of one corpus if their ids and slices agree (`eval/compare.py:451`).
  Ids are positions, so two corpora of one size and different seeds pass.
* The gate may promote a candidate that lost more examples than it gained. Neither of its
  tests looks at the sign of the observed difference (`eval/compare.py:523`): McNemar's p is
  two-sided, and the interval of one resample, which `_check_resampling` accepts
  (`eval/stats.py:244`), is that resample. With `--resamples 1 --seed 164` and 200 examples of
  one slice, of which the first eight by id are lost and the ninth is gained, p is 0.039, the
  loss of 3.5 % is inside the default slice tolerance and the one replicate is positive. The
  verdict that promotes says "whether the candidate is better, not merely not worse"
  (`eval/stats.py:118`). `PromotionIsEarned` gives what does hold of every promotion, and names
  the interval that rules this out.
* `task/dataset.py:91` says that splits cannot interfere. The streams are independent,
  the record of used notes is shared: a note drawn for `train` makes the same
  draw for `val` move on to its next attempt.
* A micro-batch in which every prompt is too long ends the run (`modeling/collate.py:349`);
  whether there is one depends on the shuffle (`CollateFails`).
* A validation loss of NaN at the first evaluation is never improved upon
  (`train/sft.py:526`); `PublishedIsBest` states it as it is.
* Where the end token is the filler and the model stops at another stop of its
  generation config, `completion_length` (`eval/generate.py:138-165`) counts one filler
  as the model's own token, if a longer reply is in the batch. Where the model
  stops at a stop that is the filler but not the end token, its stop is taken for filler and
  not counted, though the docstring counts "the stop token it emitted". `CompletionsAreOwn`
  allows exactly these two counts.
* Resuming nanoformer from an older checkpoint than the newest can lose the best one
  to a torn save; `BestIsKept` has the condition.

## 6. Plan

Every component with state has its module, and every safety property a passing run checks
is a theorem. Liveness stays with TLC.
