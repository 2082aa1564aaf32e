------------------------------ MODULE MCDBApp ------------------------------
(* Instances of DBApp for TLC.                                             *)
EXTENDS DBApp, TLC

\* Threads, Connction addresses and connection objects are interchangeable.
Symmetry ==
  Permutations(Workers) \cup Permutations(Connctions) \cup Permutations(Sqls)
=============================================================================
