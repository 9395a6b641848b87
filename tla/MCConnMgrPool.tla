---------------------------- MODULE MCConnMgrPool ----------------------------
(***************************************************************************)
(* Small instances of ConnMgrPool.  Threads and connections are model      *)
(* values that the specification never tells apart, unless TryPoppers or   *)
(* Destroyers single one out; symmetry is used for safety only.            *)
(***************************************************************************)
EXTENDS ConnMgrPool, TLC

Symmetry == Permutations(Conns) \cup Permutations(Threads)

==============================================================================
