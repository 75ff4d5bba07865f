----------------------------- MODULE MCReceiver -----------------------------
(* Instance of Receiver for TLC: a stream of MCStream packets that starts   *)
(* below the wrap of the sequence space, in any order, with repetitions.    *)
EXTENDS Receiver

MCStream == 0 .. 4

MCPacket(i) == [seq |-> SeqAdd(InitialRcvSeq, i), msg |-> i + 1, ts |-> Timestamp(i \div 3),
                payload |-> i]

MCDataPackets == {MCPacket(i) : i \in MCStream}

MCDropReqs == {[first |-> SeqAdd(InitialRcvSeq, a), last |-> SeqAdd(InitialRcvSeq, b), msg |-> m] :
                 a, b \in {1, 2, 3}, m \in {0, 3}}
=============================================================================
