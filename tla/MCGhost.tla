------------------------------ MODULE MCGhost ------------------------------
(* A small instance of Ghost.                                              *)
EXTENDS Ghost
=============================================================================
