---------------------------- MODULE MCTCPServer ----------------------------
(* Instances of TCPServer for TLC.                                         *)
EXTENDS TCPServer, TLC

\* Clients, and stream addresses, are interchangeable.
Symmetry == Permutations(Sessions) \cup Permutations(Handles)
=============================================================================
