----------------------------- MODULE MCHandlers -----------------------------
(* Instances of Handlers for TLC.                                          *)
EXTENDS Handlers

(* The FuncRedir classes are interchangeable, and so are the values.       *)
Symmetry == Permutations(Redirs) \cup Permutations(Values)
=============================================================================
