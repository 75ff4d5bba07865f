------------------------------- MODULE Stream -------------------------------
(***************************************************************************)
(* What one direction of a live-mode connection promises its applications, *)
(* with no packets, losses or acknowledgements in sight.  Messages come    *)
(* out in the order they were submitted, none twice and none before its    *)
(* play time; a message that does not come out was passed over when its    *)
(* own play time had come, never earlier.                                  *)
(***************************************************************************)
EXTENDS Integers, Sequences

CONSTANT Latency    \* the negotiated playout latency

VARIABLES
    clock,
    submitted,   \* when each message was submitted
    position,    \* messages that were played or passed over
    played       \* the messages that came out, numbered from 0

streamVars == <<clock, submitted, position, played>>

StreamInit ==
    /\ clock = 0
    /\ submitted = <<>>
    /\ position = 0
    /\ played = <<>>

SubmitMessage ==
    /\ submitted' = Append(submitted, clock)
    /\ UNCHANGED <<clock, position, played>>

\* The first n messages have all reached their play time.
AllDue(n) == \A i \in 1 .. n : submitted[i] + Latency <= clock

\* Message n comes out; those between it and the last one never will.
PlayMessage(n) ==
    /\ AllDue(n + 1)
    /\ position' = n + 1
    /\ played' = Append(played, n)
    /\ UNCHANGED <<clock, submitted>>

\* Messages are passed over: they arrived and could not be read.
PassOver(n) ==
    /\ AllDue(n)
    /\ position' = n
    /\ UNCHANGED <<clock, submitted, played>>

TimePasses ==
    /\ clock' = clock + 1
    /\ UNCHANGED <<submitted, position, played>>

StreamNext ==
    \/ SubmitMessage
    \/ \E n \in position .. Len(submitted) - 1 : PlayMessage(n)
    \/ \E n \in position + 1 .. Len(submitted) : PassOver(n)
    \/ TimePasses

StreamSpec == StreamInit /\ [][StreamNext]_streamVars

-----------------------------------------------------------------------------
\* The order of submission is the order of playing, and nothing is played twice.
PlayedInOrder ==
    /\ \A k \in 1 .. Len(played) : played[k] < position
    /\ \A j, k \in 1 .. Len(played) : j < k => played[j] < played[k]

\* Everything behind the play position, played or passed over, is past its time.
NothingGivenUpEarly == position <= Len(submitted) /\ AllDue(position)
=============================================================================
