------------------------------ MODULE MCSender ------------------------------
(* Instance of Sender for TLC.  The peer sends any ACK, and NAKs of one     *)
(* range or of two single sequences that lie around what can have been sent *)
(* (a range 2^30 behind the stream is outside the contract of diff).        *)
EXTENDS Sender

MCRttPairs == {<<InitialRtt, InitialRttVar>>, <<2, 0>>}

MCNakSeqs == {SeqAdd(InitialSndSeq, n) : n \in -1 .. MaxPush}

MCNakReports ==
    {<<[first |-> a, last |-> b]>> : a, b \in MCNakSeqs} \cup
    {<<[first |-> a, last |-> a], [first |-> b, last |-> b]>> : a, b \in MCNakSeqs}
=============================================================================
