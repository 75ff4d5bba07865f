---------------------------- MODULE PacingProofs ----------------------------
(***************************************************************************)
(* Pacing for every rate, payload size and clock: the ceiling stays        *)
(* positive, the schedule never runs ahead of the configured rate, and the *)
(* gate never closes without a wake-up.                                    *)
(***************************************************************************)
EXTENDS Pacing, TLAPS

Armed == nextSendTime # NoTime

EstimatorType ==
    [period : Nat, start : Nat \cup {NoTime}, pkts : Nat, bytes : Nat,
     rate : Nat \cup {NoRate}]

\* What the variables hold.
PaceTypeOK ==
    /\ now \in Nat
    /\ bandwidth \in BandwidthOption /\ Validated(bandwidth)
    /\ maxBw \in Nat \ {0}
    /\ avgPayload \in Nat /\ period \in Nat /\ credit \in Nat
    /\ nextSendTime \in Nat \cup {NoTime}
    /\ est \in EstimatorType
    /\ waiting \in Nat /\ lost \in Nat /\ nextSeq \in Nat
    /\ windowOpen \in BOOLEAN /\ woken \in BOOLEAN
    /\ busyStart \in Nat /\ charged \in Nat /\ lastCharge \in Nat
    /\ lastSend \in Nat \cup {NoTime}

\* The account behind the schedule: what it has moved on since it was armed is
\* exactly what was charged and the lateness still to be made up for.
PaceAccount ==
    /\ Armed => /\ lastSend # NoTime
                /\ nextSendTime - credit = busyStart + charged + lastCharge
                /\ nextSendTime <= lastSend + lastCharge
                /\ charged <= lastSend - busyStart
    /\ ~Armed => credit = 0

PaceInv == PaceTypeOK /\ PaceAccount /\ GateHasWakeUp

-----------------------------------------------------------------------------
(***************************************************************************)
(* Arithmetic                                                              *)
(***************************************************************************)

\* The quotients of the rate formulas are natural numbers.
LEMMA DivNat == ASSUME NEW a \in Nat, NEW b \in Nat \ {0} PROVE a \div b \in Nat
  OBVIOUS

\* So are their products.
LEMMA TimesNat == ASSUME NEW a \in Nat, NEW b \in Nat PROVE a * b \in Nat
  OBVIOUS

\* A charge that ends slack before t fits between its start and t.
LEMMA FitsBefore ==
  ASSUME NEW t \in Nat, NEW slack \in Nat, NEW from \in Nat, NEW c \in Nat,
         t - slack = from + c
  PROVE  c <= t - from
  OBVIOUS

\* with_overhead never makes a rate smaller.
LEMMA OverheadGrows ==
  ASSUME NEW base \in Nat, NEW pct \in Nat
  PROVE  WithOverhead(base, pct) \in Nat /\ WithOverhead(base, pct) >= base
  <1>1. base * pct \in Nat
    BY TimesNat
  <1>2. base * (100 + pct) = base * 100 + base * pct
    BY SMT
  <1>3. (base * 100 + base * pct) \div 100 >= base
    BY <1>1, SMT
  <1>4. (base * 100 + base * pct) \div 100 \in Nat
    BY <1>1, SMT
  <1> QED
    BY <1>2, <1>3, <1>4 DEF WithOverhead

\* recompute_period yields an interval.
LEMMA PeriodNat ==
  ASSUME NEW bw \in Nat, NEW payload \in Nat
  PROVE  PeriodFor(bw, payload) \in Nat
  <1>1. Larger(bw, 1) \in Nat \ {0}
    BY DEF Larger
  <1>2. payload + DataHdrSize \in Nat /\ Second \in Nat
    BY PacingAssumption
  <1>3. Second * (payload + DataHdrSize) \in Nat
    BY <1>2, TimesNat
  <1> QED
    BY <1>1, <1>3, DivNat DEF PeriodFor

\* avg_iir yields a length.
LEMMA AvgNat ==
  ASSUME NEW old \in Nat, NEW sample \in Nat
  PROVE  AvgIir(PayloadIir, old, sample) \in Nat
  <1>1. PayloadIir \in Nat \ {0} /\ PayloadIir - 1 \in Nat
    BY PacingAssumption
  <1>2. old * (PayloadIir - 1) \in Nat
    BY <1>1, TimesNat
  <1> QED
    BY <1>1, <1>2, DivNat DEF AvgIir

\* InputRateEstimator::on_input keeps the estimator well formed: the division at
\* the close of a window is never by zero.
LEMMA OnInputType ==
  ASSUME now \in Nat, est \in EstimatorType, NEW len \in Nat
  PROVE  OnInput(len) \in EstimatorType
  <1>1. CASE est.start = NoTime
    BY <1>1 DEF OnInput, EstimatorType
  <1>2. CASE est.start # NoTime
    <2> DEFINE e == Counted(len)
    <2>1. e \in EstimatorType /\ e.start \in Nat
      <3>1. est.pkts + 1 \in Nat /\ est.bytes + len \in Nat /\ est.start \in Nat
        BY <1>2 DEF EstimatorType
      <3> QED
        BY <3>1 DEF Counted, EstimatorType
    <2>2. CASE ~WindowCloses(e)
      BY <1>2, <2>1, <2>2 DEF OnInput
    <2>3. CASE WindowCloses(e)
      <3>1. now - e.start \in Nat \ {0}
        BY <2>1, <2>3 DEF WindowCloses
      <3>2. e.pkts * DataHdrSize \in Nat
        BY <2>1, PacingAssumption, TimesNat DEF EstimatorType
      <3>3. (e.bytes + e.pkts * DataHdrSize) \in Nat /\ Second \in Nat
        BY <2>1, <3>2, PacingAssumption DEF EstimatorType
      <3>4. (e.bytes + e.pkts * DataHdrSize) * Second \in Nat
        BY <3>3, TimesNat
      <3>5. ClosedRate(e) \in Nat
        BY <3>1, <3>4, DivNat DEF ClosedRate
      <3>6. OnInput(len) = [period |-> Running, start |-> now, pkts |-> 0, bytes |-> 0,
                            rate |-> ClosedRate(e)]
        BY <1>2, <2>3 DEF OnInput
      <3> QED
        BY <3>5, <3>6, PacingAssumption DEF EstimatorType
    <2> QED
      BY <2>2, <2>3
  <1> QED
    BY <1>1, <1>2

\* Pacer::refresh keeps the ceiling positive and touches no schedule.
LEMMA RefreshKeeps ==
  ASSUME PaceTypeOK, Refresh
  PROVE  /\ maxBw' \in Nat \ {0} /\ period' \in Nat
         /\ UNCHANGED <<avgPayload, nextSendTime, credit>>
  <1>1. CASE bandwidth.mode = "Estimated"
    <2>1. Larger(bandwidth.rate, CeilingInput) \in Nat /\ bandwidth.overhead \in Nat
      BY PacingAssumption
         DEF PaceTypeOK, BandwidthOption, CeilingInput, EstimatorType, Larger
    <2>2. EstimatedBw \in Nat
      BY <2>1, OverheadGrows DEF EstimatedBw
    <2>3. RefreshedBw \in Nat \ {0}
      BY <2>2 DEF RefreshedBw, PaceTypeOK
    <2>4. PeriodFor(RefreshedBw, avgPayload) \in Nat
      BY <2>3, PeriodNat DEF PaceTypeOK
    <2> QED
      BY <2>3, <2>4 DEF Refresh
  <1>2. CASE bandwidth.mode # "Estimated"
    BY <1>2, PeriodNat DEF Refresh, RefreshedBw, PaceTypeOK
  <1> QED
    BY <1>1, <1>2

\* An event leaves the schedule alone, so the account still balances.
LEMMA EventKeepsAccount ==
  ASSUME PaceInv, Event, UNCHANGED <<nextSendTime, credit>>
  PROVE  PaceAccount' /\ GateHasWakeUp'
  BY DEF PaceInv, PaceAccount, Armed, GateHasWakeUp, Event, historyVars

\* A packet sent when the gate is open: the account moves on by its interval.
LEMMA SendKeepsAccount ==
  ASSUME PaceInv, NEW len \in Nat, NEW probe \in BOOLEAN,
         woken, woken' = woken, ~Gated, OnSend(len, probe), Charge(probe), now' = now
  PROVE  /\ PaceAccount' /\ GateHasWakeUp'
         /\ maxBw' = maxBw /\ period' = period /\ avgPayload' \in Nat
         /\ credit' \in Nat /\ nextSendTime' \in Nat
         /\ busyStart' \in Nat /\ charged' \in Nat /\ lastCharge' \in Nat
         /\ lastSend' \in Nat
  <1> USE DEF NoTime
  <1>1. /\ now \in Nat /\ period \in Nat /\ credit \in Nat
        /\ nextSendTime \in Nat \cup {-1}
        /\ busyStart \in Nat /\ charged \in Nat /\ lastCharge \in Nat
        /\ avgPayload \in Nat
    BY DEF PaceInv, PaceTypeOK
  <1>2. nextSendTime # -1 => /\ nextSendTime <= now
                             /\ Accrued = credit + (now - nextSendTime)
                             /\ now - Accrued = busyStart + charged + lastCharge
    BY <1>1 DEF PaceInv, PaceAccount, Armed, Gated, Accrued
  <1>3. nextSendTime = -1 => Accrued = 0
    BY <1>1 DEF PaceInv, PaceAccount, Armed, Accrued
  <1>4. Accrued \in Nat
    BY <1>1, <1>2, <1>3
  <1>5. /\ busyStart' \in Nat /\ charged' \in Nat /\ lastCharge' \in Nat
        /\ lastSend' = now /\ lastCharge' = IF probe THEN 0 ELSE period
    BY <1>1 DEF Charge
  <1>6. now - Accrued = busyStart' + charged'
    BY <1>1, <1>2, <1>3, <1>4 DEF Charge
  <1>7. /\ nextSendTime' \in Nat /\ credit' \in Nat
        /\ nextSendTime' - credit' = now - Accrued + lastCharge'
        /\ nextSendTime' <= now + lastCharge'
    <2>1. CASE probe
      BY <1>1, <1>4, <1>5, <2>1 DEF OnSend
    <2>2. CASE ~probe /\ Accrued >= period
      BY <1>1, <1>4, <1>5, <2>2 DEF OnSend
    <2>3. CASE ~probe /\ Accrued < period
      BY <1>1, <1>4, <1>5, <2>3 DEF OnSend
    <2> QED
      BY <1>1, <1>4, <2>1, <2>2, <2>3
  <1>8. /\ maxBw' = maxBw /\ period' = period /\ avgPayload' \in Nat
    BY <1>1, AvgNat DEF OnSend
  <1>9. PaceAccount'
    <2>1. lastSend' # -1
      BY <1>1, <1>5
    <2>2. nextSendTime' - credit' = busyStart' + charged' + lastCharge'
      BY <1>1, <1>4, <1>5, <1>6, <1>7
    <2>3. nextSendTime' <= lastSend' + lastCharge'
      BY <1>5, <1>7
    <2>4. charged' <= lastSend' - busyStart'
      <3>1. busyStart' \in Nat /\ charged' \in Nat /\ lastSend' = now /\ now \in Nat
        BY <1>1, <1>5
      <3> QED
        BY <1>4, <1>6, <3>1, FitsBefore
    <2>5. nextSendTime' # -1
      BY <1>7
    <2> QED
      BY <2>1, <2>2, <2>3, <2>4, <2>5 DEF PaceAccount, Armed
  <1>10. GateHasWakeUp'
    BY DEF GateHasWakeUp
  <1> QED
    BY <1>1, <1>5, <1>7, <1>8, <1>9, <1>10

-----------------------------------------------------------------------------
(***************************************************************************)
(* The invariant                                                           *)
(***************************************************************************)

\* Pacer::new from a validated option satisfies it.
LEMMA PaceInitInv == PaceInit => PaceInv
  <1> SUFFICES ASSUME PaceInit PROVE PaceInv
    OBVIOUS
  <1>1. bandwidth \in BandwidthOption /\ Validated(bandwidth)
    BY PacingAssumption DEF PaceInit
  <1>2. InitialCeiling(bandwidth) \in Nat \ {0}
    <2>1. bandwidth.rate \in Nat /\ bandwidth.overhead \in Nat
      BY <1>1 DEF BandwidthOption
    <2>2. CASE bandwidth.mode = "Max"
      BY <1>1, <2>1, <2>2 DEF InitialCeiling, Validated
    <2>3. CASE bandwidth.mode = "Input"
      <3>1. bandwidth.rate # 0
        BY <1>1, <2>3 DEF Validated
      <3>2. /\ WithOverhead(bandwidth.rate, bandwidth.overhead) \in Nat
            /\ WithOverhead(bandwidth.rate, bandwidth.overhead) >= bandwidth.rate
        BY <2>1, OverheadGrows
      <3>3. WithOverhead(bandwidth.rate, bandwidth.overhead) # 0
        BY <2>1, <3>1, <3>2
      <3> QED
        BY <2>3, <3>2, <3>3 DEF InitialCeiling
    <2>4. CASE bandwidth.mode = "Estimated"
      BY <2>4, PacingAssumption DEF InitialCeiling
    <2> QED
      BY <1>1, <2>2, <2>3, <2>4 DEF BandwidthOption
  <1>3. AtMost(LiveDefPayload, MaxPayload) \in Nat
    BY PacingAssumption DEF AtMost
  <1>4. PeriodFor(InitialCeiling(bandwidth), AtMost(LiveDefPayload, MaxPayload)) \in Nat
    BY <1>2, <1>3, PeriodNat
  <1>5. FreshEstimator \in EstimatorType
    BY PacingAssumption DEF FreshEstimator, EstimatorType
  <1>6. nextSeq \in Nat
    BY PacingAssumption DEF PaceInit
  <1>7. PaceTypeOK
    BY <1>1, <1>2, <1>3, <1>4, <1>5, <1>6 DEF PaceInit, PaceTypeOK
  <1> QED
    BY <1>7 DEF PaceInit, PaceInv, PaceAccount, Armed, GateHasWakeUp

\* Every operation of the data path keeps it.
LEMMA PaceStepInv == PaceInv /\ [PaceNext]_paceVars => PaceInv'
  <1> SUFFICES ASSUME PaceInv, [PaceNext]_paceVars PROVE PaceInv'
    OBVIOUS
  <1> USE DEF PaceInv
  <1>1. ASSUME NEW len \in Payloads, Submit(len) PROVE PaceInv'
    <2>1. est' \in EstimatorType
      BY <1>1, OnInputType, PacingAssumption DEF Submit, PaceTypeOK
    <2>2. waiting' \in Nat /\ lost' \in Nat /\ windowOpen' \in BOOLEAN
      <3>1. waiting' \in Nat /\ lost' \in Nat
        BY <1>1, SMT DEF Submit, PaceTypeOK
      <3>2. windowOpen' \in BOOLEAN
        BY <1>1, Zenon DEF Submit, PaceTypeOK
      <3> QED
        BY <3>1, <3>2
    <2>3. PaceTypeOK'
      BY <1>1, <2>1, <2>2 DEF Submit, Event, PaceTypeOK, pacerVars, historyVars
    <2> QED
      BY <1>1, <2>3, EventKeepsAccount DEF Submit, pacerVars
  <1>2. CASE FullAck
    <2>1. /\ maxBw' \in Nat \ {0} /\ period' \in Nat
          /\ UNCHANGED <<avgPayload, nextSendTime, credit>>
      BY <1>2, RefreshKeeps DEF FullAck
    <2>2. PaceTypeOK'
      BY <1>2, <2>1 DEF FullAck, Event, PaceTypeOK, historyVars
    <2> QED
      BY <1>2, <2>1, <2>2, EventKeepsAccount DEF FullAck
  <1>3. CASE LightAck
    <2>1. lost' \in Nat
      BY <1>3, SMT DEF LightAck, PaceTypeOK
    <2>2. windowOpen' \in BOOLEAN
      BY <1>3, Zenon DEF LightAck, PaceTypeOK
    <2>3. PaceTypeOK'
      BY <1>3, <2>1, <2>2 DEF LightAck, Event, PaceTypeOK, pacerVars, historyVars
    <2> QED
      BY <1>3, <2>3, EventKeepsAccount DEF LightAck, pacerVars
  <1>4. CASE Nak
    <2>1. lost' \in Nat
      BY <1>4, PacingAssumption DEF Nak, PaceTypeOK, AtMost
    <2>2. /\ maxBw' \in Nat \ {0} /\ period' \in Nat
          /\ UNCHANGED <<avgPayload, nextSendTime, credit>>
      BY <1>4, RefreshKeeps DEF Nak
    <2>3. PaceTypeOK'
      BY <1>4, <2>1, <2>2 DEF Nak, Event, PaceTypeOK, historyVars
    <2> QED
      BY <1>4, <2>2, <2>3, EventKeepsAccount DEF Nak
  <1>5. CASE OnTimer
    <2>1. /\ maxBw' \in Nat \ {0} /\ period' \in Nat
          /\ UNCHANGED <<avgPayload, nextSendTime, credit>>
      BY <1>5, RefreshKeeps DEF OnTimer
    <2>2. waiting' \in Nat /\ lost' \in Nat
      BY <1>5, SMT DEF OnTimer, PaceTypeOK
    <2>3. windowOpen' \in BOOLEAN
      BY <1>5, Zenon DEF OnTimer, PaceTypeOK
    <2>4. PaceTypeOK'
      BY <1>5, <2>1, <2>2, <2>3 DEF OnTimer, Event, PaceTypeOK, historyVars
    <2> QED
      BY <1>5, <2>1, <2>4, EventKeepsAccount DEF OnTimer
  <1>6. CASE PollGated
    <2>1. PaceTypeOK'
      BY <1>6 DEF PollGated, PaceTypeOK, pacerVars, pathVars, historyVars
    <2>2. PaceAccount'
      BY <1>6 DEF PollGated, PaceAccount, Armed, pacerVars, historyVars
    <2>3. GateHasWakeUp'
      BY <1>6 DEF PollGated, Gated, PaceAccount, Armed, GateHasWakeUp, PaceDeadline,
                  pacerVars, pathVars, historyVars
    <2> QED
      BY <2>1, <2>2, <2>3
  <1>7. ASSUME NEW len \in Payloads, PollRexmit(len) PROVE PaceInv'
    <2>1. len \in Nat
      BY PacingAssumption
    <2>2. /\ PaceAccount' /\ GateHasWakeUp'
          /\ maxBw' = maxBw /\ period' = period /\ avgPayload' \in Nat
          /\ credit' \in Nat /\ nextSendTime' \in Nat
          /\ busyStart' \in Nat /\ charged' \in Nat /\ lastCharge' \in Nat
          /\ lastSend' \in Nat
      BY <1>7, <2>1, SendKeepsAccount DEF PollRexmit
    <2>3. lost' \in Nat
      BY <1>7 DEF PollRexmit, PaceTypeOK
    <2> QED
      BY <1>7, <2>2, <2>3 DEF PollRexmit, PaceTypeOK
  <1>8. ASSUME NEW len \in Payloads, PollNew(len) PROVE PaceInv'
    <2>1. len \in Nat
      BY PacingAssumption
    <2>2. /\ PaceAccount' /\ GateHasWakeUp'
          /\ maxBw' = maxBw /\ period' = period /\ avgPayload' \in Nat
          /\ credit' \in Nat /\ nextSendTime' \in Nat
          /\ busyStart' \in Nat /\ charged' \in Nat /\ lastCharge' \in Nat
          /\ lastSend' \in Nat
      BY <1>8, <2>1, SendKeepsAccount DEF PollNew
    <2>3. lost' \in Nat /\ waiting' \in Nat /\ nextSeq' \in Nat /\ windowOpen' \in BOOLEAN
      BY <1>8 DEF PollNew, PaceTypeOK
    <2> QED
      BY <1>8, <2>2, <2>3 DEF PollNew, PaceTypeOK
  <1>9. CASE PollNothing
    <2>1. PaceTypeOK'
      BY <1>9 DEF PollNothing, OnNothingToSend, PaceTypeOK, historyVars
    <2>2. PaceAccount'
      BY <1>9 DEF PollNothing, OnNothingToSend, PaceAccount, Armed
    <2>3. GateHasWakeUp'
      BY <1>9 DEF PollNothing, GateHasWakeUp
    <2> QED
      BY <2>1, <2>2, <2>3
  <1>10. CASE PaceTick
    <2>1. now' \in Nat
      BY <1>10 DEF PaceTick, Tick, PaceTypeOK
    <2>2. UNCHANGED paceCore
      BY <1>10 DEF PaceTick
    <2> QED
      BY <2>1, <2>2 DEF paceCore, pacerVars, pathVars, historyVars, PaceTypeOK,
                        PaceAccount, Armed, GateHasWakeUp, PaceDeadline
  <1>11. CASE UNCHANGED paceVars
    BY <1>11 DEF paceVars, paceCore, pacerVars, pathVars, historyVars, PaceTypeOK,
                 PaceAccount, Armed, GateHasWakeUp, PaceDeadline
  <1> QED
    BY <1>1, <1>2, <1>3, <1>4, <1>5, <1>6, <1>7, <1>8, <1>9, <1>10, <1>11 DEF PaceNext

\* So it holds throughout, for every value of the constants.
LEMMA PaceInvariant == PaceSpec => []PaceInv
  BY PaceInitInv, PaceStepInv, PTL DEF PaceSpec

\* However late the driver wakes and whatever is retransmitted, the pacer never
\* lets the packets of a busy period run ahead of the configured rate.
THEOREM PacedRateHolds == PaceSpec => []PacedRate
  <1>1. PaceInv => PacedRate
    BY DEF PaceInv, PaceAccount, Armed, PacedRate
  <1> QED
    BY <1>1, PaceInvariant, PTL

\* The sender never gates data without advertising when the gate opens.
THEOREM GateAlwaysWakes == PaceSpec => []GateHasWakeUp
  <1>1. PaceInv => GateHasWakeUp
    BY DEF PaceInv
  <1> QED
    BY <1>1, PaceInvariant, PTL

\* The ceiling is positive under every validated bandwidth option.
THEOREM CeilingStaysPositive == PaceSpec => []CeilingNeverZero
  <1>1. PaceInv => CeilingNeverZero
    BY DEF PaceInv, PaceTypeOK, CeilingNeverZero
  <1> QED
    BY <1>1, PaceInvariant, PTL
=============================================================================
