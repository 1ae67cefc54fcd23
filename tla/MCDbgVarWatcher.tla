--------------------------- MODULE MCDbgVarWatcher --------------------------
(* Instances of DbgVarWatcher for TLC.                                     *)
EXTENDS DbgVarWatcher, TLC

(* Accessors are interchangeable, the other threads are, and so are the    *)
(* values.                                                                 *)
Symmetry ==
  Permutations(Accessors) \cup Permutations(Threads \ Accessors)
    \cup Permutations(Values)
=============================================================================
