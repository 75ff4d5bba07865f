------------------------------- MODULE Clock -------------------------------
(***************************************************************************)
(* Time as the sans-I/O core sees it: an explicit "now" that every call is *)
(* given, and the 32-bit wire timestamps of src/core/time.rs.  One unit of *)
(* model time stands for the granularity at which the thresholds of the    *)
(* components are told apart.                                              *)
(***************************************************************************)
EXTENDS Integers

CONSTANTS
    MaxTime,     \* bound on the clock
    TsMod,       \* size of the wire timestamp space (2^32 microseconds)
    ClockOffset  \* age of the peer's timebase at time 0

ASSUME ClockAssumption ==
    /\ MaxTime \in Nat
    /\ TsMod \in Nat \ {0}
    /\ ClockOffset \in Nat

VARIABLE now

\* None of an Option<Instant>.
NoTime == -1

\* Timebase::timestamp: time since the socket started, truncated.
Timestamp(t) == (t + ClockOffset) % TsMod

\* TimestampExtender::extend with an anchor <<instant, ext>> already set: of
\* the values congruent to ts, the one nearest the locally expected time.
Extend(anchorInstant, anchorExt, ts, t) ==
    LET expected == anchorExt + (IF t >= anchorInstant THEN t - anchorInstant ELSE 0)
        d        == (ts - expected) % TsMod
        delta    == IF d >= TsMod \div 2 THEN d - TsMod ELSE d
    IN  IF expected + delta < 0 THEN 0 ELSE expected + delta

Tick ==
    /\ now < MaxTime
    /\ now' = now + 1
=============================================================================
