---------------------------- MODULE MCForemanTurns ----------------------------
(***************************************************************************)
(* ForemanTurns for TLC: the sentences, and the threads that serve the     *)
(* tool calls, are interchangeable.                                        *)
(***************************************************************************)
EXTENDS ForemanTurns

Symmetry == Permutations(Sentences) \cup Permutations(Callers)
=============================================================================
