------------------------------ MODULE MCEngine ------------------------------
(***************************************************************************)
(* Batches for TLC: prompts of one to three tokens and one longer than the *)
(* context, one to three new tokens, greedy, sampled, penalised and seeded *)
(* requests, two of them alike but for their text.                         *)
(***************************************************************************)
EXTENDS Engine

Sampled(how, seed, penalty) == [how |-> how, seed |-> seed, penalty |-> penalty]
Request(words, max, stop, sampling) ==
    [words |-> words, max |-> max, stopOnEos |-> stop, sampling |-> sampling]

MCKinds == {Request(1, 3, TRUE, Sampled("hot", 0, FALSE)),
            Request(3, 2, FALSE, Sampled("hot", 0, FALSE)),
            Request(2, 3, TRUE, Sampled("hot", 7, FALSE)),
            Request(1, 2, TRUE, Sampled("hot", 7, FALSE)),
            Request(2, 1, TRUE, Sampled("greedy", 0, FALSE)),
            Request(3, 3, TRUE, Sampled("hot", 0, TRUE)),
            Request(8, 1, TRUE, Sampled("greedy", 0, FALSE)),
            Request(8, 2, TRUE, Sampled("greedy", 0, FALSE))}
=============================================================================
