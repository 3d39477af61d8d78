------------------------------ MODULE Tokenizer -----------------------------
(***************************************************************************)
(* nanoformer.tokenizer.BPETokenizer: merges learned one at a time from    *)
(* word counts, then words encoded by the learned ranks.  Bytes are        *)
(* 0..Bytes-1, and merge i has id Bytes + i - 1.                           *)
(***************************************************************************)
EXTENDS Naturals, SequencesExt, FiniteSetsExt

CONSTANTS Bytes,            \* 256 in the code
          Corpora,          \* word counts (word_freq) tried: functions from words
          Probes,           \* words encoded after training
          Merges            \* vocab_size - 256 - len(special_tokens)

ByteWords == Seq(0..(Bytes - 1))

ASSUME TokenizerAssumption ==
    /\ Bytes \in Nat \ {0} /\ Merges \in Nat
    /\ \A counts \in Corpora : /\ IsFiniteSet(DOMAIN counts) /\ DOMAIN counts \subseteq ByteWords
                              /\ \A w \in DOMAIN counts : counts[w] \in Nat
    /\ Probes \subseteq ByteWords

VARIABLES
    freq,          \* word_freq
    seqs,          \* the words as segmented so far
    merges,        \* learned pairs, in order
    word,          \* the word being encoded
    ids,           \* its tokens so far
    tokenizing     \* "training", "trained", "encoding" or "encoded"

tokenizerVars == <<freq, seqs, merges, word, ids, tokenizing>>

Pairs(s) == {<<s[i], s[i + 1]>> : i \in 1..(Len(s) - 1)}

\* _merge_pair: from the left, without overlap (new occurs nowhere in s).
Onto(acc, x, pair, new) == IF acc # <<>> /\ Last(acc) = pair[1] /\ x = pair[2]
                           THEN Append(Front(acc), new) ELSE Append(acc, x)

MergePair(s, pair, new) ==
    LET merged[n \in 0..Len(s)] ==
            IF n = 0 THEN <<>> ELSE Onto(merged[n - 1], s[n], pair, new)
    IN  merged[Len(s)]

-----------------------------------------------------------------------------
(* train.                                                                  *)

\* Each occurrence of the pair in each occurrence of a word.
PairCount(pair) ==
    Cardinality(UNION {{w} \X (1..freq[w]) \X {i \in 1..(Len(seqs[w]) - 1) :
                                                 <<seqs[w][i], seqs[w][i + 1]>> = pair} :
                       w \in DOMAIN freq})

AllPairs == UNION {Pairs(seqs[w]) : w \in DOMAIN freq}

Before(p, q) == p[1] < q[1] \/ (p[1] = q[1] /\ p[2] < q[2])

\* The highest count, then the smallest pair.
BestPair == CHOOSE p \in AllPairs :
               \A q \in AllPairs \ {p} : \/ PairCount(p) > PairCount(q)
                                         \/ PairCount(p) = PairCount(q) /\ Before(p, q)

TokenizerInit == /\ freq \in Corpora
                 /\ seqs = [w \in DOMAIN freq |-> w]
                 /\ merges = <<>>
                 /\ word = <<>> /\ ids = <<>>
                 /\ tokenizing = "training"

NewId == Bytes + Len(merges)

Learn == /\ tokenizing = "training"
         /\ Len(merges) < Merges /\ AllPairs # {}
         /\ merges' = Append(merges, BestPair)
         /\ seqs' = [w \in DOMAIN seqs |-> MergePair(seqs[w], BestPair, NewId)]
         /\ UNCHANGED <<freq, word, ids, tokenizing>>

Trained == /\ tokenizing = "training"
           /\ Len(merges) = Merges \/ AllPairs = {}
           /\ tokenizing' = "trained"
           /\ UNCHANGED <<freq, seqs, merges, word, ids>>

-----------------------------------------------------------------------------
(* _encode_word.                                                           *)

Known(s) == {r \in DOMAIN merges : merges[r] \in Pairs(s)}

\* Fault: the pair of the highest rank first.
LatestRank(s) == CHOOSE r \in Known(s) : \A q \in Known(s) : q <= r

BestRank(s) == CHOOSE r \in Known(s) : \A q \in Known(s) : r <= q

EncodeWord == /\ tokenizing = "trained"
              /\ word' \in Probes \cup DOMAIN freq
              /\ ids' = word'
              /\ tokenizing' = "encoding"
              /\ UNCHANGED <<freq, seqs, merges>>

Apply == /\ tokenizing = "encoding"
         /\ Known(ids) # {}
         /\ ids' = MergePair(ids, merges[BestRank(ids)], Bytes + BestRank(ids) - 1)
         /\ UNCHANGED <<freq, seqs, merges, word, tokenizing>>

Encoded == /\ tokenizing = "encoding"
           /\ Known(ids) = {}
           /\ tokenizing' = "encoded"
           /\ UNCHANGED <<freq, seqs, merges, word, ids>>

TokenizerNext == Learn \/ Trained \/ EncodeWord \/ Apply \/ Encoded

TokenizerSpec == TokenizerInit /\ [][TokenizerNext]_tokenizerVars

-----------------------------------------------------------------------------
(* What the tokenizer promises.                                            *)

\* _vocab: the bytes of each id.
TokenBytes[id \in 0..(NewId - 1)] ==
    IF id < Bytes THEN <<id>>
    ELSE TokenBytes[merges[id - Bytes + 1][1]] \o TokenBytes[merges[id - Bytes + 1][2]]

Decode(s) == FlattenSeq([i \in DOMAIN s |-> TokenBytes[s[i]]])

\* Encoding a word of the corpus gives the segmentation training ended with,
\* though it starts from bytes and asks the ranks again at every step; and every
\* encoding, at every step, decodes to the bytes of its word ("decoding is
\* lossless").
EncodingReplaysTraining ==
    /\ tokenizing = "encoded" /\ word \in DOMAIN freq => ids = seqs[word]
    /\ tokenizing \in {"encoding", "encoded"} => Decode(ids) = word
    /\ \A w \in DOMAIN freq : Decode(seqs[w]) = w
=============================================================================
