----------------------------- MODULE MCBatcher -----------------------------
(***************************************************************************)
(* The batcher for TLC.  The requests are model values; four of them with  *)
(* batches of at most three and a queue of two fill the queue while a      *)
(* batch is computed and another one waits in the window.                  *)
(***************************************************************************)
EXTENDS Batcher, TLC
=============================================================================
