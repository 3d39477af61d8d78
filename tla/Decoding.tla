------------------------------ MODULE Decoding ------------------------------
(***************************************************************************)
(* sftdpo.eval.generate, pipeline.generate_replies and the generating half *)
(* of sftdpo.prefs.sample: prompts padded on the left and decoded in       *)
(* batches; an evaluation's and the probes' greedily and by length, the    *)
(* samples' k times over, each batch with a stream of its own.  What the   *)
(* model says is open; generate's stopping, filling and reading of the     *)
(* mask are as its callers rely on.                                        *)
(***************************************************************************)
EXTENDS Chat, FiniteSets, FiniteSetsExt

CONSTANTS Requests,       \* the prompts, a sequence of texts
          Replies,        \* what a model may say to a prompt, past any stop
          Vocabularies,   \* [eos, pad, stops]: the tokenizer's ids, NoToken if it has
                          \* none, and the stops of the model's generation config
          SampleCounts,   \* choices of k
          RowsPerCall,    \* batch_size
          NewTokens       \* max_new_tokens

ASSUME DecodingAssumption == /\ SampleCounts \subseteq Nat \ {0}
                             /\ {RowsPerCall, NewTokens} \subseteq Nat \ {0}
                             /\ IsText(Requests)
                             /\ \A i \in DOMAIN Requests : IsText(Requests[i])
                             /\ \A reply \in Replies : /\ IsText(reply)
                                                       /\ Len(reply) >= NewTokens

VARIABLES
    job,           \* the call: how, over which vocabulary and template, k, the mode it met
    pending,       \* the generate calls still to make
    completions,   \* per prompt, its samples so far
    mode,          \* of the model, "train" or "eval"
    progress       \* "idle", "decoding", "done" or "failed"

decodingVars == <<job, pending, completions, mode, progress>>

NoToken == <<>>
NoJob == [how |-> "none"]

DecodingInit == /\ job = NoJob
                /\ pending = <<>>
                /\ completions = [i \in DOMAIN Requests |-> <<>>]
                /\ mode = "train"
                /\ progress = "idle"

PromptIds(i) == Encode(PromptText(job.template, Requests[i]))

-----------------------------------------------------------------------------
(* The tokenizer's and the model's special ids.                            *)

\* eval's resolve_pad_token_id, and the sampler's, which also asks the model.
EvaluationPad(v) == IF v.pad # NoToken THEN v.pad ELSE v.eos
SamplingPad(v) == CASE EvaluationPad(v) # NoToken -> EvaluationPad(v)
                    [] EvaluationPad(v) = NoToken /\ Cardinality(v.stops) = 1 ->
                          CHOOSE id \in v.stops : TRUE
                    [] OTHER -> NoToken

\* resolve_eos_ids.
StopIds(v) == (v.stops \cup {v.eos}) \ {NoToken}

\* A model says its filler only where it stops.
ASSUME FillerAssumption ==
    \A v \in Vocabularies :
        /\ NoToken \notin v.stops
        /\ \A reply \in Replies : \A n \in 1..NewTokens :
              /\ reply[n] # NoToken
              /\ reply[n] = v.pad => v.pad \in StopIds(v)

Special(token) == token \in UNION {v.stops \cup {v.eos, v.pad} : v \in Vocabularies}

-----------------------------------------------------------------------------
(* Batches.                                                                *)

InCalls(order) ==
    [b \in 1..((Len(order) + RowsPerCall - 1) \div RowsPerCall) |->
        SubSeq(order, (b - 1) * RowsPerCall + 1,
               IF b * RowsPerCall < Len(order) THEN b * RowsPerCall ELSE Len(order))]

\* length_sorted_batches.
LengthSorted(lengths) ==
    LET earlier(i) == {j \in DOMAIN lengths :
                          \/ lengths[j] < lengths[i]
                          \/ lengths[j] = lengths[i] /\ j < i}
    IN  InCalls([m \in DOMAIN lengths |->
                    CHOOSE i \in DOMAIN lengths : Cardinality(earlier(i)) = m - 1])

\* All batches at one sample index, then at the next, as sample_completions loops.
Sweeps(batches, k) ==
    [c \in 1..(k * Len(batches)) |->
        [rows |-> batches[((c - 1) % Len(batches)) + 1],
         sweep |-> (c - 1) \div Len(batches),
         chunk |-> (c - 1) % Len(batches)]]

\* stream_seed: the place a call's randomness comes from.
Stream(call) == <<call.sweep, call.chunk>>

LeftPad(rows, filler) ==
    LET width == Max({Len(rows[n]) : n \in DOMAIN rows})
        pads(n, with) == [c \in 1..(width - Len(rows[n])) |-> with]
    IN  [n \in DOMAIN rows |-> [input |-> pads(n, filler) \o rows[n],
                                mask |-> pads(n, 0) \o [c \in DOMAIN rows[n] |-> 1]]]

-----------------------------------------------------------------------------
(* generate.                                                               *)

\* The columns a row lets the model see are the prompt, in order.
Shows(row, ids) ==
    LET visible == {c \in DOMAIN row.mask : row.mask[c] = 1}
    IN  /\ Cardinality(visible) = Len(ids)
        /\ \A c \in visible : row.input[c] = ids[Cardinality({d \in visible : d <= c})]

\* A row goes on from its last column: with the reply to its prompt if it shows that.
ReplyTo(row, i, reply) ==
    IF Shows(row, PromptIds(i)) /\ Last(row.mask) = 1
    THEN reply
    ELSE [n \in 1..NewTokens |-> <<"junk">>]

\* Up to the first stop, with it, and within the budget.
Spoken(reply, stops) ==
    LET ends == {n \in 1..NewTokens : n = NewTokens \/ reply[n] \in stops}
    IN  SubSeq(reply, 1, Min(ends))

\* The batch is squared off with filler.
Generated(inputs, rows, said, stops, filler) ==
    LET spoken == [n \in DOMAIN inputs |->
                      Spoken(ReplyTo(inputs[n], rows[n], said[rows[n]]), stops)]
        width == Max({Len(spoken[n]) : n \in DOMAIN inputs})
    IN  [n \in DOMAIN inputs |->
            spoken[n] \o [c \in 1..(width - Len(spoken[n])) |-> filler]]

-----------------------------------------------------------------------------
(* Cutting a row, and the samples.                                         *)

CompletionLength(row, eos, filler) ==
    LET ends == {n \in DOMAIN row : row[n] \in {eos, filler} \ {NoToken}}
    IN  CASE ends = {} -> Len(row)
          [] ends # {} /\ row[Min(ends)] = eos -> Min(ends)
          [] OTHER -> Min(ends) - 1

TrimCompletion(row, stops) ==
    LET ends == {n \in DOMAIN row : row[n] \in stops}
    IN  IF ends = {} THEN row ELSE SubSeq(row, 1, Min(ends) - 1)

\* decode leaves special tokens out.
Decoded(tokens) ==
    FlattenSeq([n \in DOMAIN tokens |->
                   IF Special(tokens[n]) THEN <<>> ELSE <<tokens[n]>>])

\* The sample filed under example i; solo is what the model says to it alone.
Sample(row, i, said, draw) ==
    LET v == job.vocabulary
        kept == IF job.how # "sample"
                THEN SubSeq(row, 1, CompletionLength(row, v.eos, EvaluationPad(v)))
                ELSE TrimCompletion(row, StopIds(v))
    IN  [example |-> i, text |-> Decoded(kept), tokens |-> Len(kept),
         draw |-> draw, solo |-> said]

\* Evaluation and probes leave the model in eval mode, the sampler gives back the mode it met.
Handed == IF job.how = "sample" THEN job.mode ELSE "eval"

StartCall(how, v, template, k, met, calls, filler) ==
    /\ progress = "idle"
    /\ Requests # <<>>           \* without prompts the call returns at once
    /\ job' = [how |-> how, vocabulary |-> v, template |-> template, k |-> k, mode |-> met]
    /\ pending' = calls
    /\ IF filler = NoToken
       THEN mode' = met /\ progress' = "failed"
       ELSE mode' = "eval" /\ progress' = "decoding"
    /\ UNCHANGED completions

\* length_sorted_batches over the prompts' ids, one sweep.
ByLength(template) ==
    Sweeps(LengthSorted([i \in DOMAIN Requests |->
                            Len(Encode(PromptText(template, Requests[i])))]), 1)

StartEvaluation ==
    \E v \in Vocabularies, template \in {"none", "own"}, met \in {"train", "eval"} :
        StartCall("evaluate", v, template, 1, met, ByLength(template), EvaluationPad(v))

\* generate_replies, on a model just loaded.
StartProbing ==
    \E v \in Vocabularies, template \in {"none", "own"} :
        StartCall("probe", v, template, 1, "eval", ByLength(template), EvaluationPad(v))

StartSampling ==
    \E v \in Vocabularies, template \in {"none", "own"}, met \in {"train", "eval"},
       k \in SampleCounts :
        StartCall("sample", v, template, k, met,
                  Sweeps(InCalls([i \in DOMAIN Requests |-> i]), k), SamplingPad(v))

\* Fault: the samples are put down in the order they were decoded.
NextSlot(index, n) == Cardinality({i \in DOMAIN Requests : completions[i] # <<>>}) + n
Slot(index, n) == index

GenerateBatch ==
    /\ progress = "decoding"
    /\ LET call == Head(pending)
           v == job.vocabulary
           filler == IF job.how # "sample" THEN EvaluationPad(v) ELSE SamplingPad(v)
           stops == IF job.how # "sample" THEN v.stops ELSE StopIds(v)
           inputs == LeftPad([n \in DOMAIN call.rows |-> PromptIds(call.rows[n])], filler)
       IN  \E said \in [ToSet(call.rows) -> Replies] :
              LET out == Generated(inputs, call.rows, said, stops, filler)
                  made(n) == Sample(out[n], call.rows[n], said[call.rows[n]],
                                    <<Stream(call), n>>)
              IN  completions' = [i \in DOMAIN Requests |->
                      completions[i] \o
                          FlattenSeq([n \in DOMAIN call.rows |->
                              IF Slot(call.rows[n], n) = i THEN <<made(n)>> ELSE <<>>])]
    /\ pending' = Tail(pending)
    /\ IF Tail(pending) = <<>> THEN progress' = "done" /\ mode' = Handed
                               ELSE UNCHANGED <<progress, mode>>
    /\ UNCHANGED job

\* generate raises, out of memory say; the sampler restores the mode all the same.
GenerateRaises ==
    /\ progress = "decoding"
    /\ progress' = "failed"
    /\ mode' = Handed
    /\ UNCHANGED <<job, pending, completions>>

DecodingNext == StartEvaluation \/ StartProbing \/ StartSampling \/ GenerateBatch \/ GenerateRaises

DecodingSpec == DecodingInit /\ [][DecodingNext]_decodingVars

-----------------------------------------------------------------------------

\* How much of a reply comes before a stop.
Before(reply, v) ==
    Min({n \in 1..(NewTokens + 1) : n > NewTokens \/ reply[n] \in StopIds(v)}) - 1

\* The stop it meets within the budget.
StopOf(reply, v) ==
    IF Before(reply, v) < NewTokens THEN reply[Before(reply, v) + 1] ELSE NoToken

\* A sample of example i is what the model says to it alone, up to the first stop or the
\* budget, with its tokens counted.  The evaluation counts its stop token; where the
\* filler is the end token and the model stopped at another stop, it may count one
\* filler more; a stop that is the filler but not the end token it does not count.
Owned(sample, i, v, how) ==
    LET end == Before(sample.solo, v)
        stop == StopOf(sample.solo, v)
    IN  /\ sample.example = i
        /\ sample.text = Decoded(SubSeq(sample.solo, 1, end))
        /\ CASE how = "sample" -> sample.tokens = end
             [] how # "sample" /\ stop = NoToken -> sample.tokens = NewTokens
             [] how # "sample" /\ stop = v.eos /\ stop # NoToken -> sample.tokens = end + 1
             [] OTHER -> sample.tokens \in CASE stop = v.pad -> {end}
                                             [] EvaluationPad(v) = v.eos -> {end + 1, end + 2}
                                             [] OTHER -> {end + 1}

\* A completion never shows the batch it was decoded in: every prompt gets samples of its
\* own, whoever shares its batch, however lengths sort and whatever pads; no two samples
\* are one draw; and the sampler gives the model back in the mode it found, after a
\* failure too.
CompletionsAreOwn ==
    /\ progress \in {"done", "failed"} /\ job.how = "sample" => mode = job.mode
    /\ progress = "decoding" => mode = "eval"
    /\ progress = "done" =>
         \A i \in DOMAIN Requests :
            /\ Len(completions[i]) = job.k
            /\ \A n \in 1..job.k :
                  /\ Owned(completions[i][n], i, job.vocabulary, job.how)
                  /\ job.how = "sample" =>
                        \A j \in DOMAIN Requests : \A m \in 1..job.k :
                           completions[j][m].draw = completions[i][n].draw => i = j /\ n = m
=============================================================================
