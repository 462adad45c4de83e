---------------------------- MODULE MCMainRoute ----------------------------
(* A small instance of MainRoute for TLC.                                  *)
EXTENDS MainRoute, TLC
=============================================================================
