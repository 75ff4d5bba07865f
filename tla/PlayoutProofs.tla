--------------------------- MODULE PlayoutProofs ----------------------------
(***************************************************************************)
(* The receiver's estimators for every batch size, clamp, round trip and   *)
(* clock: the smoothed round trip stays within the samples, the drift      *)
(* correction within the last batch of measurements.                       *)
(***************************************************************************)
EXTENDS PlayoutClock, TLAPS

Ranges == {NoRange} \cup (Int \X Int)

PlayoutTypeOK ==
    /\ skew \in Int /\ now \in Nat
    /\ rttFirst \in BOOLEAN /\ firstRtt \in Nat /\ srtt \in Nat /\ rttVar \in Nat
    /\ driftSum \in Int /\ driftSamples \in Nat /\ driftUs \in Int /\ baseShift \in Int
    /\ rttRange \in Ranges /\ batchRange \in Ranges /\ commitRange \in Ranges

\* The first sample is the one that opens the range.
RttAccount == (rttFirst <=> rttRange = NoRange) /\ SrttWithinSamples

\* The batch in progress: the base is the one its samples were taken against, so
\* the sum lies between as many times its smallest and its largest measurement.
BatchAccount ==
    /\ batchRange = NoRange <=> driftSamples = 0
    /\ driftSamples = 0 => driftSum = 0
    /\ batchRange # NoRange =>
          /\ driftSamples * (batchRange[1] - baseShift) <= driftSum
          /\ driftSum <= driftSamples * (batchRange[2] - baseShift)

PlayoutInv == PlayoutTypeOK /\ RttAccount /\ BatchAccount /\ CorrectionWithinBatch

-----------------------------------------------------------------------------
\* Multiplying by a count keeps the order.
LEMMA TimesMono ==
  ASSUME NEW n \in Nat, NEW a \in Int, NEW b \in Int, a <= b
  PROVE  n * a \in Int /\ n * b \in Int /\ n * a <= n * b
  OBVIOUS

\* One more sample adds one more bound.
LEMMA TimesNext ==
  ASSUME NEW n \in Nat, NEW a \in Int
  PROVE  (n + 1) * a = n * a + a /\ n * a \in Int
  OBVIOUS

\* What integer division returns.
LEMMA QuotientBounds ==
  ASSUME NEW n \in Nat \ {0}, NEW s \in Nat
  PROVE  /\ s \div n \in Nat
         /\ n * (s \div n) <= s
         /\ s < n * ((s \div n) + 1)
  OBVIOUS

\* An average lies between the bounds of what it averages, rounding included.
LEMMA TruncBetween ==
  ASSUME NEW n \in Nat \ {0}, NEW s \in Int, NEW lo \in Int, NEW hi \in Int,
         n * lo <= s, s <= n * hi
  PROVE  Trunc(s, n) \in Int /\ lo <= Trunc(s, n) /\ Trunc(s, n) <= hi
  <1>1. CASE s >= 0
    <2> DEFINE q == s \div n
    <2>1. q \in Nat /\ n * q <= s /\ s < n * (q + 1)
      BY <1>1, QuotientBounds
    <2> HIDE DEF q
    <2>2. lo <= q
      <3> SUFFICES ASSUME q + 1 <= lo PROVE FALSE
        BY <2>1
      <3> QED
        BY <2>1, TimesMono
    <2>3. q <= hi
      <3> SUFFICES ASSUME hi + 1 <= q PROVE FALSE
        BY <2>1
      <3>1. n * (hi + 1) <= n * q /\ n * (hi + 1) \in Int /\ n * q \in Int
        BY <2>1, TimesMono
      <3>2. n * (hi + 1) = n * hi + n /\ n * hi \in Int
        OBVIOUS
      <3> QED
        BY <2>1, <3>1, <3>2
    <2> QED
      BY <1>1, <2>1, <2>2, <2>3 DEF Trunc, q
  <1>2. CASE s < 0
    <2> DEFINE q == (-s) \div n
    <2>1. q \in Nat /\ n * q <= -s /\ -s < n * (q + 1)
      BY <1>2, QuotientBounds
    <2>2. Trunc(s, n) = -q
      BY <1>2 DEF Trunc
    <2> HIDE DEF q
    <2>3. lo <= -q
      <3> SUFFICES ASSUME -q + 1 <= lo PROVE FALSE
        BY <2>1
      <3>1. n * (-q + 1) <= n * lo
        BY <2>1, TimesMono
      <3>2. n * (-q + 1) = -(n * q) + n /\ n * q \in Int /\ n * lo \in Int
        BY <2>1
      <3> QED
        BY <2>1, <3>1, <3>2
    <2>4. -q <= hi
      <3> SUFFICES ASSUME hi <= -(q + 1) PROVE FALSE
        BY <2>1
      <3>1. n * hi <= n * (-(q + 1))
        BY <2>1, TimesMono
      <3>2. n * (-(q + 1)) = -(n * (q + 1)) /\ n * (q + 1) \in Int /\ n * hi \in Int
        BY <2>1
      <3> QED
        BY <2>1, <3>1, <3>2
    <2> QED
      BY <2>1, <2>2, <2>3, <2>4
  <1> QED
    BY <1>1, <1>2

-----------------------------------------------------------------------------
\* A drift sample is a number, whatever the header timestamp reads.
LEMMA OffsetType ==
  ASSUME PlayoutTypeOK, NEW rtt \in Nat, NEW first \in Nat
  PROVE  DriftOffset(PeerTimestamp(rtt), rtt, first) \in Int
  <1> DEFINE ts == PeerTimestamp(rtt)
  <1>1. ts \in Nat
    BY ClockAssumption, PlayoutAssumption DEF PlayoutTypeOK, PeerTimestamp, Timestamp
  <1> HIDE DEF ts
  <1>2. Extend(0, AnchorExt, ts, now) \in Nat
    BY <1>1, ClockAssumption DEF PlayoutTypeOK, Extend, AnchorExt
  <1>3. Trunc(rtt - first, 2) \in Int
    BY DEF Trunc
  <1>4. DriftOffset(ts, rtt, first) \in Int
    BY <1>2, <1>3, ClockAssumption DEF DriftOffset, AnchorExt, PlayoutTypeOK
  <1> QED
    BY <1>4 DEF ts

\* A range widened by a value contains it and what it contained.
LEMMA WidenContains ==
  ASSUME NEW r \in Ranges, NEW x \in Int
  PROVE  LET w == Widen(r, x) IN
         /\ w \in Int \X Int /\ w # NoRange
         /\ w[1] <= x /\ x <= w[2]
         /\ r # NoRange => w[1] <= r[1] /\ r[2] <= w[2]
         /\ r = NoRange => w[1] = x /\ w[2] = x
  BY DEF Widen, Ranges, NoRange, Lower, Upper

\* The RTT estimator after a sample.
LEMMA RttSample ==
  ASSUME PlayoutTypeOK, RttAccount, NEW rtt \in Nat,
         UpdateRtt(rtt), rttRange' = Widen(rttRange, rtt)
  PROVE  /\ rttFirst' = FALSE /\ firstRtt' \in Nat /\ srtt' \in Nat /\ rttVar' \in Nat
         /\ rttRange' \in Ranges /\ RttAccount'
  <1> DEFINE w == Widen(rttRange, rtt)
  <1>1. /\ w \in Int \X Int /\ w # NoRange
        /\ w[1] <= rtt /\ rtt <= w[2]
        /\ rttRange # NoRange => w[1] <= rttRange[1] /\ rttRange[2] <= w[2]
    <2>1. rttRange \in Ranges /\ rtt \in Int
      BY DEF PlayoutTypeOK
    <2> QED
      BY <2>1, WidenContains
  <1> HIDE DEF w
  <1>2. w[1] \in Int /\ w[2] \in Int
    BY <1>1
  <1>3. CASE rttFirst
    <2>1. rttFirst' = FALSE /\ firstRtt' = rtt /\ srtt' = rtt /\ rttVar' = rtt \div 2
      BY <1>3 DEF UpdateRtt
    <2>2. srtt' \in w[1] .. w[2]
      BY <1>1, <1>2, <2>1
    <2> QED
      BY <1>1, <2>1, <2>2 DEF w, Ranges, RttAccount, SrttWithinSamples
  <1>4. CASE ~rttFirst
    <2>1. /\ rttFirst' = FALSE /\ firstRtt' = firstRtt
          /\ srtt' = (7 * srtt + rtt) \div 8
          /\ rttVar' = (3 * rttVar + AbsDiff(srtt, rtt)) \div 4
      BY <1>4 DEF UpdateRtt
    <2>2. rttRange # NoRange /\ rttRange[1] \in Int /\ rttRange[2] \in Int
      BY <1>4 DEF RttAccount, PlayoutTypeOK, Ranges
    <2>3. w[1] <= srtt /\ srtt <= w[2] /\ srtt \in Nat
      BY <1>1, <1>2, <2>2 DEF RttAccount, SrttWithinSamples, PlayoutTypeOK
    <2>4. srtt' \in Nat /\ w[1] <= srtt' /\ srtt' <= w[2]
      BY <1>1, <1>2, <2>1, <2>3
    <2>5. rttVar' \in Nat
      BY <2>1, <2>3 DEF PlayoutTypeOK, AbsDiff
    <2>6. srtt' \in w[1] .. w[2]
      BY <1>2, <2>4
    <2> QED
      BY <1>1, <2>1, <2>4, <2>5, <2>6
         DEF w, Ranges, RttAccount, SrttWithinSamples, PlayoutTypeOK
  <1> QED
    BY <1>3, <1>4 DEF PlayoutTypeOK

\* The drift tracer after a sample, a batch in progress or completed.
LEMMA DriftSample ==
  ASSUME PlayoutTypeOK, BatchAccount, CorrectionWithinBatch, NEW offset \in Int,
         Sample(offset), Record(offset)
  PROVE  /\ driftSum' \in Int /\ driftSamples' \in Nat /\ driftUs' \in Int
         /\ baseShift' \in Int /\ batchRange' \in Ranges /\ commitRange' \in Ranges
         /\ BatchAccount' /\ CorrectionWithinBatch'
  <1> DEFINE w == Widen(batchRange, offset)
             n == driftSamples + 1
             sum == driftSum + (offset - baseShift)
             lo == w[1] - baseShift
             hi == w[2] - baseShift
  <1>1. /\ w \in Int \X Int /\ w # NoRange
        /\ w[1] <= offset /\ offset <= w[2]
        /\ batchRange # NoRange => w[1] <= batchRange[1] /\ batchRange[2] <= w[2]
    BY WidenContains DEF PlayoutTypeOK
  <1> HIDE DEF w
  <1>2. /\ w[1] \in Int /\ w[2] \in Int /\ driftSum \in Int /\ driftSamples \in Nat
        /\ baseShift \in Int /\ driftUs \in Int
    BY <1>1 DEF PlayoutTypeOK
  <1>3. lo \in Int /\ hi \in Int /\ n \in Nat \ {0} /\ sum \in Int
    BY <1>2
  <1>4. driftSamples * lo <= driftSum /\ driftSum <= driftSamples * hi
    <2>1. CASE batchRange = NoRange
      BY <1>2, <1>3, <2>1 DEF BatchAccount
    <2>2. CASE batchRange # NoRange
      <3> DEFINE a == batchRange[1] - baseShift
                 b == batchRange[2] - baseShift
      <3>1. a \in Int /\ b \in Int /\ lo <= a /\ b <= hi
        BY <1>1, <1>2, <2>2 DEF PlayoutTypeOK, Ranges
      <3>2. driftSamples * a <= driftSum /\ driftSum <= driftSamples * b
        BY <2>2 DEF BatchAccount
      <3> HIDE DEF a, b, lo, hi
      <3>3. driftSamples * lo <= driftSamples * a /\ driftSamples * b <= driftSamples * hi
        BY <1>2, <1>3, <3>1, TimesMono
      <3>4. /\ driftSamples * lo \in Int /\ driftSamples * a \in Int
            /\ driftSamples * b \in Int /\ driftSamples * hi \in Int
        BY <1>2, <1>3, <3>1, TimesMono
      <3> QED
        BY <1>2, <3>2, <3>3, <3>4
    <2> QED
      BY <2>1, <2>2
  <1>5. lo <= offset - baseShift /\ offset - baseShift <= hi
    BY <1>1, <1>2
  <1>6. n * lo <= sum /\ sum <= n * hi
    <2> DEFINE x == offset - baseShift
    <2>1. x \in Int /\ sum = driftSum + x
      BY <1>2
    <2> HIDE DEF x, lo, hi
    <2>2. n * lo = driftSamples * lo + lo /\ driftSamples * lo \in Int
      BY <1>2, <1>3, TimesNext
    <2>3. n * hi = driftSamples * hi + hi /\ driftSamples * hi \in Int
      BY <1>2, <1>3, TimesNext
    <2>4. lo <= x /\ x <= hi
      BY <1>5 DEF x
    <2> HIDE DEF sum, n
    <2> QED
      BY <1>2, <1>3, <1>4, <2>1, <2>2, <2>3, <2>4
  <1>7. CASE n < DriftMaxSamples
    <2>1. /\ driftSum' = sum /\ driftSamples' = n /\ driftUs' = driftUs
          /\ baseShift' = baseShift /\ batchRange' = w /\ commitRange' = commitRange
      BY <1>7 DEF Sample, Record, w
    <2>2. BatchAccount'
      BY <1>1, <1>3, <1>6, <2>1 DEF BatchAccount
    <2>3. CorrectionWithinBatch'
      BY <2>1 DEF CorrectionWithinBatch, Correction
    <2> QED
      BY <1>1, <1>2, <1>3, <2>1, <2>2, <2>3 DEF PlayoutTypeOK, Ranges
  <1>8. CASE ~(n < DriftMaxSamples)
    <2> DEFINE avg == Trunc(sum, n)
    <2>1. /\ driftSum' = 0 /\ driftSamples' = 0
          /\ baseShift' = baseShift + Shift(avg) /\ driftUs' = avg - Shift(avg)
          /\ batchRange' = NoRange /\ commitRange' = w
      BY <1>8 DEF Sample, Record, w
    <2>2. avg \in Int /\ lo <= avg /\ avg <= hi
      <3> HIDE DEF n, sum, lo, hi
      <3> QED
        BY <1>3, <1>6, TruncBetween
    <2> HIDE DEF avg
    <2>3. Shift(avg) \in Int
      BY <2>2, PlayoutAssumption DEF Shift, Clamp, Upper, Lower
    <2>4. Correction' = baseShift + avg
      BY <1>2, <2>1, <2>2, <2>3 DEF Correction
    <2>5. baseShift + avg \in w[1] .. w[2]
      BY <1>2, <2>2
    <2>6. CorrectionWithinBatch'
      BY <2>1, <2>4, <2>5 DEF CorrectionWithinBatch
    <2>7. BatchAccount'
      BY <2>1 DEF BatchAccount
    <2> QED
      BY <1>1, <1>2, <2>1, <2>2, <2>3, <2>6, <2>7 DEF Ranges
  <1> QED
    BY <1>7, <1>8

-----------------------------------------------------------------------------
\* The accounts balance at the start and after every step.
LEMMA PlayoutInvariant == PlayoutSpec => []PlayoutInv
  <1>1. PlayoutInit => PlayoutInv
    BY PlayoutAssumption
       DEF PlayoutInit, PlayoutInv, PlayoutTypeOK, Ranges, RttAccount, SrttWithinSamples,
           BatchAccount, CorrectionWithinBatch
  <1>2. PlayoutInv /\ [PlayoutNext]_playoutVars => PlayoutInv'
    <2> SUFFICES ASSUME PlayoutInv, [PlayoutNext]_playoutVars PROVE PlayoutInv'
      OBVIOUS
    <2> USE DEF PlayoutInv
    <2>1. ASSUME NEW rtt \in Rtts, AckAckSample(rtt) PROVE PlayoutInv'
      <3> DEFINE first == IF rttFirst THEN rtt ELSE firstRtt
                 offset == DriftOffset(PeerTimestamp(rtt), rtt, first)
      <3>1. rtt \in Nat /\ first \in Nat
        BY PlayoutAssumption DEF PlayoutTypeOK
      <3>2. offset \in Int
        <4> HIDE DEF first
        <4> QED
          BY <3>1, OffsetType
      <3>3. /\ UpdateRtt(rtt) /\ rttRange' = Widen(rttRange, rtt)
            /\ Sample(offset) /\ Record(offset)
            /\ skew' = skew /\ now' = now
        BY <2>1 DEF AckAckSample
      <3> HIDE DEF offset
      <3>4. /\ rttFirst' = FALSE /\ firstRtt' \in Nat /\ srtt' \in Nat /\ rttVar' \in Nat
            /\ rttRange' \in Ranges /\ RttAccount'
        BY <3>1, <3>3, RttSample
      <3>5. /\ driftSum' \in Int /\ driftSamples' \in Nat /\ driftUs' \in Int
            /\ baseShift' \in Int /\ batchRange' \in Ranges /\ commitRange' \in Ranges
            /\ BatchAccount' /\ CorrectionWithinBatch'
        BY <3>2, <3>3, DriftSample
      <3> QED
        BY <3>3, <3>4, <3>5 DEF PlayoutTypeOK
    <2>2. CASE Drift
      <3>1. skew' \in Int /\ now' \in Nat
        BY <2>2 DEF Drift, Tick, PlayoutTypeOK
      <3>2. UNCHANGED <<rttVars, driftVars, batchVars>>
        BY <2>2 DEF Drift
      <3> QED
        BY <3>1, <3>2 DEF rttVars, driftVars, batchVars, PlayoutTypeOK, RttAccount,
             SrttWithinSamples, BatchAccount, CorrectionWithinBatch, Correction
    <2>3. CASE UNCHANGED playoutVars
      BY <2>3 DEF playoutVars, playoutCore, rttVars, driftVars, batchVars, PlayoutTypeOK,
           RttAccount, SrttWithinSamples, BatchAccount, CorrectionWithinBatch, Correction
    <2> QED
      BY <2>1, <2>2, <2>3 DEF PlayoutNext, AckAckIgnored
  <1> QED
    BY <1>1, <1>2, PTL DEF PlayoutSpec

\* The drift correction never leaves the range the last batch measured, for every
\* batch size and clamp.
THEOREM CorrectionStaysWithinBatch == PlayoutSpec => []CorrectionWithinBatch
  <1>1. PlayoutInv => CorrectionWithinBatch
    BY DEF PlayoutInv
  <1> QED
    BY <1>1, PlayoutInvariant, PTL

\* The smoothed round trip never leaves the range of the samples.
THEOREM SrttStaysWithinSamples == PlayoutSpec => []SrttWithinSamples
  <1>1. PlayoutInv => SrttWithinSamples
    BY DEF PlayoutInv, RttAccount
  <1> QED
    BY <1>1, PlayoutInvariant, PTL
=============================================================================
