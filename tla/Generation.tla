----------------------------- MODULE Generation -----------------------------
(***************************************************************************)
(* nanoformer.generate.generate over nanoformer.cache.KVCache: the prompt  *)
(* is prefilled once, each further step feeds one token, layer by layer.   *)
(* A hidden vector is what it was computed from, a sampled token any       *)
(* token: logits are left open.                                            *)
(***************************************************************************)
EXTENDS Integers, SequencesExt, FiniteSetsExt

CONSTANTS Tokens, Eos,      \* the vocabulary, and eos_id
          Rows,             \* the batch
          Layers,           \* n_layers
          MaxSeqLen,        \* max_seq_len of the model, and of the cache
          PromptLens        \* lengths of the prompts tried

ASSUME GenerationAssumption ==
    /\ Eos \in Tokens /\ Rows # {} /\ Layers \in Nat \ {0}
    /\ MaxSeqLen \in Nat \ {0} /\ PromptLens \subseteq Nat \ {0}

VARIABLES
    out,           \* per row, the prompt and the tokens generated so far
    finished,      \* the rows that emitted Eos
    budget,        \* max_new_tokens not yet generated
    cache,         \* per layer and row, the preallocated slots of keys
    seqLen,        \* cache.seq_len
    hidden,        \* per row, the hidden vectors of the tokens being fed
    layer,         \* the block the forward pass is in
    generating,    \* "call", "forward", "sample", "returned", "refused", "overflow"
    training       \* the mode of the model, and what it was before the call

generationVars == <<out, finished, budget, cache, seqLen, hidden, layer, generating, training>>

-----------------------------------------------------------------------------
(* The forward pass.                                                       *)

\* A token as block 1 receives it, at the rotary position it will be given.
Embed(tokens, from) == [i \in DOMAIN tokens |-> [token |-> tokens[i], pos |-> from + i - 1,
                                                 saw |-> <<>>]]

\* causal_mask: the queries are the last Len(queries) positions of the keys.
Visible(queries, keys, i) == SubSeq(keys, 1, Len(keys) - Len(queries) + i)

\* One block: each position mixes in the keys it may attend to.
Block(queries, keys) ==
    [i \in DOMAIN queries |-> [queries[i] EXCEPT !.saw = Append(@, Visible(queries, keys, i))]]

\* The same pass without a cache, after each block: every block sees the whole
\* sequence.
Hidden(tokens) ==
    LET h[n \in 0..Layers] == IF n = 0 THEN Embed(tokens, 0) ELSE Block(h[n - 1], h[n - 1])
    IN  h

-----------------------------------------------------------------------------
(* generate.                                                               *)

\* A slot nobody wrote.
Zero == [token |-> Eos, pos |-> -1, saw |-> <<>>]

GenerationInit ==
    /\ \E l \in PromptLens : out \in [Rows -> [1..l -> Tokens]]
    /\ budget \in 0..MaxSeqLen
    /\ finished = {}
    /\ cache = [n \in 1..Layers |-> [r \in Rows |-> [i \in 1..MaxSeqLen |-> Zero]]]
    /\ seqLen = 0
    /\ hidden = [r \in Rows |-> <<>>]
    /\ layer = 1
    /\ generating = "call"
    /\ \E mode \in BOOLEAN : training = [now |-> mode, before |-> mode]

Length == Len(out[CHOOSE r \in Rows : TRUE])

Refuse == /\ generating = "call"
          /\ Length + budget > MaxSeqLen
          /\ generating' = "refused"
          /\ UNCHANGED <<out, finished, budget, cache, seqLen, hidden, layer, training>>

\* Tokens enter the first block, at positions counted from seq_len.
Feed(tokens) == /\ hidden' = [r \in Rows |-> Embed(tokens[r], seqLen)]
                /\ layer' = 1
                /\ generating' = "forward"

Prefill == /\ generating = "call"
           /\ Length + budget <= MaxSeqLen
           /\ Feed(out)
           /\ training' = [training EXCEPT !.now = FALSE]
           /\ UNCHANGED <<out, finished, budget, cache, seqLen>>

Fed == Len(hidden[CHOOSE r \in Rows : TRUE])

\* KVCache.update for the block's layer: the slots after seq_len are written.
Updated(r) == [i \in 1..MaxSeqLen |-> IF i \in (seqLen + 1)..(seqLen + Fed)
                                      THEN hidden[r][i - seqLen] ELSE cache[layer][r][i]]

\* What update returns: every position cached so far.
Cached(r) == SubSeq(Updated(r), 1, seqLen + Fed)

\* Fault: the position advances with every layer's write.
AdvancePerLayer == seqLen' = seqLen + Fed

\* KVCache.advance, once every layer has written.
Advance == seqLen' = IF layer = Layers THEN seqLen + Fed ELSE seqLen

Fits == seqLen + Fed <= MaxSeqLen

\* The mode is put back on every way out.
Leave(how) == /\ generating' = how
              /\ training' = [training EXCEPT !.now = training.before]

\* One block; update raises ValueError when the cache would overflow.
ForwardLayer ==
    /\ generating = "forward"
    /\ IF ~Fits
       THEN Leave("overflow") /\ UNCHANGED <<cache, hidden, seqLen, layer>>
       ELSE /\ cache' = [cache EXCEPT ![layer] = [r \in Rows |-> Updated(r)]]
            /\ hidden' = [r \in Rows |-> Block(hidden[r], Cached(r))]
            /\ Advance
            /\ layer' = IF layer = Layers THEN layer ELSE layer + 1
            /\ generating' = IF layer = Layers THEN "sample" ELSE "forward"
            /\ UNCHANGED training
    /\ UNCHANGED <<out, finished, budget>>

ReturnAll == /\ generating = "sample"
             /\ budget = 0
             /\ Leave("returned")
             /\ UNCHANGED <<out, finished, budget, cache, seqLen, hidden, layer>>

\* A frozen row is filled with Eos.
Chosen(next, r) == IF r \in finished THEN Eos ELSE next[r]

\* Sampling, appending and feeding the new tokens, unless every row is finished.
Sample == /\ generating = "sample"
          /\ budget > 0
          /\ \E next \in [Rows -> Tokens] :
                LET new == [r \in Rows |-> Chosen(next, r)]
                IN  /\ out' = [r \in Rows |-> Append(out[r], new[r])]
                    /\ finished' = finished \cup {r \in Rows : new[r] = Eos}
                    /\ IF finished' = Rows
                       THEN Leave("returned") /\ UNCHANGED <<hidden, layer>>
                       ELSE Feed([r \in Rows |-> <<new[r]>>]) /\ UNCHANGED training
          /\ budget' = budget - 1
          /\ UNCHANGED <<cache, seqLen>>

GenerationNext == \/ Refuse \/ Prefill
                  \/ ForwardLayer
                  \/ ReturnAll \/ Sample

GenerationSpec == GenerationInit /\ [][GenerationNext]_generationVars

-----------------------------------------------------------------------------
(* What generation promises.                                               *)

\* The cached path computes what the uncached one would: whenever a token is
\* sampled, the last hidden vector of every row is that of a full pass over the
\* row's tokens, in every layer, and a call that was accepted never overflows
\* the cache ("exists so the two paths can be tested for equality").
CachedIsUncached ==
    /\ generating # "overflow"
    /\ generating = "sample" =>
          \A r \in Rows : Last(hidden[r]) = Last(Hidden(out[r])[Layers])
=============================================================================
