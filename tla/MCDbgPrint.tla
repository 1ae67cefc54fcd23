----------------------------- MODULE MCDbgPrint -----------------------------
(* Instances of DbgPrint for TLC.                                          *)
EXTENDS DbgPrint, TLC

(* The clients run the same code and are interchangeable.                  *)
Symmetry == Permutations(Clients)
=============================================================================
