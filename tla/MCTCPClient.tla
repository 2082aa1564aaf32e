---------------------------- MODULE MCTCPClient ----------------------------
(* Instances of TCPClient for TLC: the owner sends a few messages.         *)
EXTENDS TCPClient
=============================================================================
