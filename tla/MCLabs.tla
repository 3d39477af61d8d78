------------------------------- MODULE MCLabs -------------------------------
(***************************************************************************)
(* Intervals, corpora and probes for nanoformer, class sizes and fractions *)
(* for loraeval.                                                           *)
(***************************************************************************)
EXTENDS Labs

\* Evaluating and saving never, always or every second step; logging every
\* second step.
AllIntervals == [eval : 0..2, save : 0..2, log : {2}]

\* Every choice of words with overlapping pairs, ties and repeats, each once
\* or twice in the corpus.
Words == {<<0, 0, 1>>, <<0, 1, 0, 1>>, <<0, 0, 0>>, <<1, 0>>}
AllCorpora == UNION {[S -> 1..2] : S \in SUBSET Words \ {{}}}
ShortWords == UNION {[1..n -> 0..1] : n \in 0..4}

\* Splits with an empty part, with a half to round, and with nothing left for
\* training.
SomeSizes == {0, 1, 3, 7}
SomeFractions == {<<15, 15>>, <<49, 50>>, <<50, 0>>}
=============================================================================
