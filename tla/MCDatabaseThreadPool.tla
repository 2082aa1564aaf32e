------------------------ MODULE MCDatabaseThreadPool ------------------------
(* Instances of DatabaseThreadPool for TLC.                                *)
EXTENDS DatabaseThreadPool, TLC

\* Threads, databases and connection objects are interchangeable.
Symmetry ==
  Permutations(Workers) \cup Permutations(Connctions) \cup Permutations(Sqls)
=============================================================================
