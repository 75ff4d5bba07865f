------------------------------ MODULE MCDriver ------------------------------
(* Instance of Driver for TLC.                                              *)
EXTENDS Driver
=============================================================================
