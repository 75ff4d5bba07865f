---------------------------- MODULE PlayoutClock ----------------------------
(***************************************************************************)
(* What the receiver measures with every matched ACKACK (handle_ackack of  *)
(* src/core/receiver.rs): the smoothed round trip and its variance, and    *)
(* the clock drift that DriftTracer (src/core/time.rs) folds into the      *)
(* playout deadlines.  Which ACKACKs match is the subject of Receiver; here *)
(* every sample does.                                                      *)
(*                                                                         *)
(* The peer's clock is the local one less "skew", as of the last change;   *)
(* its timestamps wrap.  The environment moves the skew and chooses the    *)
(* round trips; paths are symmetric, the assumption the drift formula      *)
(* makes.                                                                  *)
(***************************************************************************)
EXTENDS Clock

CONSTANTS
    DriftMaxSamples,   \* TSBPD_DRIFT_MAX_SAMPLES
    DriftMaxValue,     \* TSBPD_DRIFT_MAX_VALUE_US
    InitialRtt,        \* INITIAL_RTT_US
    InitialRttVar,     \* INITIAL_RTT_VAR_US
    AnchorDelay,       \* path delay of the packet that set the anchor
    Rtts,              \* round trips to explore
    MaxSkew            \* bound on the skew

ASSUME PlayoutAssumption ==
    /\ DriftMaxSamples \in Nat \ {0}
    /\ {DriftMaxValue, InitialRtt, InitialRttVar, AnchorDelay, MaxSkew} \subseteq Nat
    /\ Rtts \subseteq Nat

VARIABLES
    skew,           \* how far the local clock has run ahead since the anchor
    rttFirst, firstRtt, srtt, rttVar,      \* RTT estimator
    driftSum, driftSamples, driftUs, baseShift,  \* DriftTracer
    rttRange,       \* history: <<smallest, largest>> round trip measured
    batchRange,     \* history: <<smallest, largest>> offset of the batch in progress
    commitRange,    \* history: the same of the last batch committed
    skewRange,      \* history: <<smallest, largest>> skew of the batch in progress
    skewCommit      \* history: the same of the last batch committed

rttVars == <<rttFirst, firstRtt, srtt, rttVar, rttRange>>
driftVars == <<driftSum, driftSamples, driftUs, baseShift>>
batchVars == <<batchRange, commitRange, skewRange, skewCommit>>
playoutCore == <<skew, rttVars, driftVars, batchVars>>
playoutVars == <<playoutCore, now>>

NoRange == <<>>

\* The anchor, set by the handshake at time 0.
AnchorExt == ClockOffset

PlayoutInit ==
    /\ now = 0
    /\ skew = 0
    /\ rttFirst = TRUE /\ firstRtt = 0 /\ srtt = InitialRtt /\ rttVar = InitialRttVar
    /\ driftSum = 0 /\ driftSamples = 0 /\ driftUs = 0 /\ baseShift = 0
    /\ rttRange = NoRange /\ batchRange = NoRange /\ commitRange = NoRange
    /\ skewRange = NoRange /\ skewCommit = NoRange

-----------------------------------------------------------------------------
\* Integer division as in the code: towards zero.
Trunc(a, b) == IF a >= 0 THEN a \div b ELSE -((-a) \div b)

AbsDiff(a, b) == IF a > b THEN a - b ELSE b - a

Lower(a, b) == IF a < b THEN a ELSE b

Upper(a, b) == IF a > b THEN a ELSE b

Clamp(x, lo, hi) == Upper(lo, Lower(hi, x))

Widen(range, x) == IF range = NoRange THEN <<x, x>> ELSE <<Lower(range[1], x), Upper(range[2], x)>>

\* The RTT estimator: the first sample replaces the initial values; then RTTVar
\* with the old SRTT, and SRTT.
UpdateRtt(rtt) ==
    /\ rttFirst' = FALSE
    /\ IF rttFirst
       THEN firstRtt' = rtt /\ srtt' = rtt /\ rttVar' = rtt \div 2
       ELSE /\ rttVar' = (3 * rttVar + AbsDiff(srtt, rtt)) \div 4
            /\ srtt' = (7 * srtt + rtt) \div 8
            /\ UNCHANGED firstRtt

\* DriftTracer::sample.
Shift(avg) ==
    IF Upper(avg, -avg) > DriftMaxValue THEN Clamp(avg, -DriftMaxValue, DriftMaxValue) ELSE 0

MutSample(offset) ==
    LET sum == driftSum + offset
        avg == Trunc(sum, driftSamples + 1)
    IN  IF driftSamples + 1 < DriftMaxSamples
        THEN /\ driftSum' = sum /\ driftSamples' = driftSamples + 1
             /\ UNCHANGED <<driftUs, baseShift>>
        ELSE /\ driftSum' = 0 /\ driftSamples' = 0
             /\ baseShift' = baseShift + Shift(avg)
             /\ driftUs' = avg - Shift(avg)

Sample(offset) ==
    LET sum == driftSum + (offset - baseShift)
        avg == Trunc(sum, driftSamples + 1)
    IN  IF driftSamples + 1 < DriftMaxSamples
        THEN /\ driftSum' = sum /\ driftSamples' = driftSamples + 1
             /\ UNCHANGED <<driftUs, baseShift>>
        ELSE /\ driftSum' = 0 /\ driftSamples' = 0
             /\ baseShift' = baseShift + Shift(avg)
             /\ driftUs' = avg - Shift(avg)

\* DriftTracer::correction_us, part of every playout deadline.
Correction == baseShift + driftUs

\* The drift sample of an ACKACK with this header timestamp; first is the first
\* round trip, this one included.
DriftOffset(ts, rtt, first) ==
    now - (Extend(0, AnchorExt, ts, now) - AnchorExt) - Trunc(rtt - first, 2)

\* The header timestamp of an ACKACK that left the peer half a round trip ago,
\* relative to an anchor whose own packet took AnchorDelay.
PeerTimestamp(rtt) == Timestamp(now - skew - (rtt \div 2) + AnchorDelay)

\* History of a sample.
Record(offset) ==
    LET batch == Widen(batchRange, offset)
        skews == Widen(skewRange, skew)
    IN  IF driftSamples + 1 < DriftMaxSamples
        THEN batchRange' = batch /\ skewRange' = skews /\ UNCHANGED <<commitRange, skewCommit>>
        ELSE /\ batchRange' = NoRange /\ skewRange' = NoRange
             /\ commitRange' = batch /\ skewCommit' = skews

\* Receiver::handle_ackack after the journal lookup.
AckAckSample(rtt) ==
    /\ rtt > 0
    /\ UpdateRtt(rtt)
    /\ rttRange' = Widen(rttRange, rtt)
    /\ LET offset == DriftOffset(PeerTimestamp(rtt), rtt, IF rttFirst THEN rtt ELSE firstRtt)
       IN  Sample(offset) /\ Record(offset)
    /\ UNCHANGED <<skew, now>>

\* A round trip below the clock's resolution is ignored altogether.
AckAckIgnored(rtt) ==
    /\ rtt = 0
    /\ UNCHANGED playoutVars

\* Time passes, and the clocks drift apart.
Drift ==
    /\ Tick
    /\ \E d \in {-1, 0, 1} : skew + d \in -MaxSkew .. MaxSkew /\ skew' = skew + d
    /\ UNCHANGED <<rttVars, driftVars, batchVars>>

PlayoutNext ==
    \/ \E rtt \in Rtts : AckAckSample(rtt) \/ AckAckIgnored(rtt)
    \/ Drift

PlayoutSpec == PlayoutInit /\ [][PlayoutNext]_playoutVars

-----------------------------------------------------------------------------
(***************************************************************************)
(* Properties                                                              *)
(***************************************************************************)

\* From the first sample on, the smoothed round trip lies between the smallest
\* and the largest one measured: the initial 100 ms leave no trace
\* (handle_ackack: "First sample resets the estimator").
SrttWithinSamples ==
    rttRange # NoRange => srtt \in rttRange[1] .. rttRange[2]

\* The correction is an average of the last committed batch: it lies between the
\* batch's smallest and largest measurement, whatever was shifted into the base
\* before and however the clamp splits it (DriftTracer::sample).
CorrectionWithinBatch ==
    commitRange # NoRange => Correction \in commitRange[1] .. commitRange[2]

\* End to end, through wrapping timestamps and changing path delays, the
\* correction tracks the peer's real clock: it is within one unit of rounding of
\* a skew the batch saw, up to the constant error of the anchor.
AnchorBias == (firstRtt \div 2) - AnchorDelay

CorrectionTracksSkew ==
    skewCommit # NoRange =>
        Correction - AnchorBias \in skewCommit[1] - 1 .. skewCommit[2] + 1
=============================================================================
