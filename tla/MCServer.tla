------------------------------ MODULE MCServer ------------------------------
(***************************************************************************)
(* The server for TLC: three ordinary requests, one whose tokens do not    *)
(* fit the context and one over the endpoint's limits.                     *)
(***************************************************************************)
EXTENDS Server, TLC
=============================================================================
