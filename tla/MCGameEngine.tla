----------------------------- MODULE MCGameEngine -----------------------------
(* A game session and the reader of its trace: state instances are interchangeable. *)
EXTENDS TraceContext, TLC

Symmetry == Permutations(States)
=============================================================================
