---------------------------- MODULE MCGameSystem ----------------------------
(* Instances of GameSystem for TLC.                                        *)
EXTENDS GameSystem
=============================================================================
