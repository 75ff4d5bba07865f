------------------------------- MODULE MCLink -------------------------------
(* Instance of Link for TLC.                                                *)
EXTENDS Link

MCRttPairs == {<<InitialRtt, InitialRttVar>>}
=============================================================================
