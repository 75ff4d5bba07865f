------------------------------- MODULE Pacing -------------------------------
(***************************************************************************)
(* LiveCC pacing (src/core/pacing.rs) and the data path it gates (the      *)
(* pacing hooks of src/core/sender.rs): the send interval, the lateness    *)
(* credit, the input-rate estimator behind Bandwidth::Estimated, and the   *)
(* wake-up that the armed schedule owes the driver.                        *)
(*                                                                         *)
(* What the sender has to send is reduced to the number of new packets     *)
(* waiting, the number of retransmissions queued and whether the window is *)
(* open; Sender has the detail.  Rates are bytes per Second.  The interval *)
(* is exact where the code divides in f64, and the saturation of products  *)
(* beyond 64 bits is left out.                                             *)
(***************************************************************************)
EXTENDS Clock

CONSTANTS
    Second,            \* one second in clock units (10^6)
    BwInfinite,        \* BW_INFINITE
    DataHdrSize,       \* DATA_HDR_SIZE
    LiveDefPayload,    \* LIVE_DEF_PAYLOAD
    MaxPayload,        \* the negotiated maximum payload
    PayloadIir,        \* N of avg_iir over emitted payloads (128)
    FastStart,         \* INPUTRATE_FAST_START
    Running,           \* INPUTRATE_RUNNING
    InputMaxPackets,   \* INPUTRATE_MAX_PACKETS
    ProbeEvery,        \* a new packet in so many starts a probe pair (16)
    Bandwidths,        \* bandwidth options to explore
    Payloads,          \* payload lengths
    MaxWaiting,        \* bound: packets waiting at a time
    MaxWindow,         \* bound: submissions in one estimator window
    MaxSeq             \* bound: sequence numbers used

\* Bandwidth: mode, rate (the floor for Estimated) and overhead percentage.
BandwidthOption == [mode : {"Max", "Input", "Estimated"}, rate : Nat, overhead : Nat]

\* Bandwidth::validate.  Unlimited has no pacer at all.
Validated(b) ==
    /\ b.mode \in {"Max", "Input"} => b.rate # 0
    /\ b.mode \in {"Input", "Estimated"} => b.overhead \in 5 .. 100

ASSUME PacingAssumption ==
    /\ Second \in Nat \ {0}
    /\ BwInfinite \in Nat \ {0}
    /\ DataHdrSize \in Nat
    /\ LiveDefPayload \in Nat
    /\ MaxPayload \in Nat
    /\ PayloadIir \in Nat \ {0}
    /\ FastStart \in Nat /\ Running \in Nat
    /\ InputMaxPackets \in Nat
    /\ ProbeEvery \in Nat \ {0}
    /\ Bandwidths \subseteq BandwidthOption
    /\ Payloads \subseteq Nat
    /\ MaxWaiting \in Nat /\ MaxWindow \in Nat
    /\ MaxSeq \in Nat

VARIABLES
    bandwidth,     \* the option, fixed at connect
    maxBw,         \* effective ceiling, bytes per Second
    avgPayload,    \* smoothed payload length
    period,        \* interval between packets
    nextSendTime,  \* when the gate opens; NoTime: disarmed
    credit,        \* lateness to be made up for
    est,           \* InputRateEstimator
    waiting,       \* new packets in the send buffer
    lost,          \* retransmissions queued
    windowOpen,    \* flight() < effective_window()
    nextSeq,       \* sequence number of the next new packet
    woken,         \* an event was handled and the transmissions not yet drained
    busyStart,     \* history: when the schedule was armed
    charged,       \* history: intervals charged since, before the last packet
    lastCharge,    \* history: the interval charged for the last packet
    lastSend       \* history: when it was sent; NoTime: nothing sent yet

pacerVars == <<maxBw, avgPayload, period, nextSendTime, credit>>
pathVars == <<waiting, lost, windowOpen, nextSeq>>
historyVars == <<busyStart, charged, lastCharge, lastSend>>
paceCore == <<bandwidth, pacerVars, est, pathVars, woken, historyVars>>
paceVars == <<paceCore, now>>

\* Definitions named Mut... are deliberate bugs; no specification uses them.

-----------------------------------------------------------------------------
AvgIir(n, old, sample) == (old * (n - 1) + sample) \div n

WithOverhead(base, pct) == (base * (100 + pct)) \div 100

AtMost(x, hi) == IF x > hi THEN hi ELSE x

Larger(x, y) == IF x > y THEN x ELSE y

\* recompute_period, from the ceiling and the smoothed payload.
PeriodFor(bw, payload) == (Second * (payload + DataHdrSize)) \div Larger(bw, 1)

\* Pacer::new: the ceiling before the first refresh.
InitialCeiling(b) ==
    CASE b.mode = "Max"       -> b.rate
      [] b.mode = "Input"     -> WithOverhead(b.rate, b.overhead)
      [] b.mode = "Estimated" -> BwInfinite

\* InputRateEstimator::new: the window is not stamped and no rate measured.
NoRate == -1

FreshEstimator == [period |-> FastStart, start |-> NoTime, pkts |-> 0, bytes |-> 0, rate |-> NoRate]

PaceInit ==
    /\ now = 0
    /\ bandwidth \in {b \in Bandwidths : Validated(b)}
    /\ maxBw = InitialCeiling(bandwidth)
    /\ avgPayload = AtMost(LiveDefPayload, MaxPayload)
    /\ period = PeriodFor(InitialCeiling(bandwidth), AtMost(LiveDefPayload, MaxPayload))
    /\ nextSendTime = NoTime
    /\ credit = 0
    /\ est = FreshEstimator
    /\ waiting = 0
    /\ lost = 0
    /\ windowOpen = TRUE
    /\ nextSeq \in 0 .. ProbeEvery - 1
    /\ woken = FALSE
    /\ busyStart = 0
    /\ charged = 0
    /\ lastCharge = 0
    /\ lastSend = NoTime

-----------------------------------------------------------------------------
\* InputRateEstimator::on_input.  The first sample only stamps the window; a
\* window closes when it is old enough or, in the fast start, full.
Counted(len) ==
    [period |-> est.period, start |-> est.start, pkts |-> est.pkts + 1,
     bytes |-> est.bytes + len, rate |-> est.rate]

WindowCloses(e) ==
    /\ \/ e.period < Running /\ e.pkts > InputMaxPackets
       \/ now - e.start > e.period
    /\ now - e.start >= 1

ClosedRate(e) == ((e.bytes + e.pkts * DataHdrSize) * Second) \div (now - e.start)

OnInput(len) ==
    IF est.start = NoTime THEN [est EXCEPT !.start = now]
    ELSE IF ~WindowCloses(Counted(len)) THEN Counted(len)
    ELSE [period |-> Running, start |-> now, pkts |-> 0, bytes |-> 0,
          rate |-> ClosedRate(Counted(len))]

\* Pacer::refresh.  A zero estimate keeps the ceiling.
CeilingInput == IF est.rate = NoRate THEN BwInfinite ELSE est.rate

EstimatedBw == WithOverhead(Larger(bandwidth.rate, CeilingInput), bandwidth.overhead)

MutCeilingFollowsEstimate == IF bandwidth.mode = "Estimated" THEN EstimatedBw ELSE maxBw

RefreshedBw ==
    IF bandwidth.mode = "Estimated" /\ EstimatedBw > 0 THEN EstimatedBw ELSE maxBw

Refresh ==
    /\ maxBw' = RefreshedBw
    /\ period' = PeriodFor(RefreshedBw, avgPayload)
    /\ UNCHANGED <<avgPayload, nextSendTime, credit>>

-----------------------------------------------------------------------------
\* Events of the data path.  The driver drains the transmissions after each of
\* them, so the next one comes when that is done.

Event ==
    /\ ~woken
    /\ woken' = TRUE
    /\ UNCHANGED <<bandwidth, nextSeq, historyVars, now>>

\* Sender::push: the estimator sees every submission.  TLPKTDROP and the overflow
\* policy may release packets not yet sent, retransmissions and packets in flight.
Submit(len) ==
    /\ Event
    /\ waiting < MaxWaiting /\ est.pkts < MaxWindow
    /\ est' = IF bandwidth.mode = "Estimated" THEN OnInput(len) ELSE est
    /\ waiting' \in 1 .. waiting + 1
    /\ lost' \in 0 .. lost
    /\ windowOpen' \in {windowOpen, TRUE}
    /\ UNCHANGED pacerVars

\* Sender::handle_ack, full: the peer's advertised window may also shrink.
FullAck ==
    /\ Event
    /\ lost' \in 0 .. lost
    /\ windowOpen' \in BOOLEAN
    /\ Refresh
    /\ UNCHANGED <<est, waiting>>

\* Sender::handle_ack, light: returns before the refresh.
LightAck ==
    /\ Event
    /\ lost' \in 0 .. lost
    /\ windowOpen' \in {windowOpen, TRUE}
    /\ UNCHANGED <<pacerVars, est, waiting>>

\* Sender::handle_nak for packets that were sent.
Nak ==
    /\ Event
    /\ lastSend # NoTime
    /\ lost' = AtMost(lost + 1, MaxWaiting)
    /\ Refresh
    /\ UNCHANGED <<est, waiting, windowOpen>>

\* Sender::on_timer, at the pace deadline or at any other of the connection.
OnTimer ==
    /\ Event
    /\ waiting' \in 0 .. waiting
    /\ lost' \in 0 .. lost
    /\ windowOpen' \in {windowOpen, TRUE}
    /\ Refresh
    /\ UNCHANGED est

-----------------------------------------------------------------------------
\* Sender::poll_transmit, called until it returns None.

\* The gate: a schedule in the future blocks new data and retransmissions.
Gated == nextSendTime # NoTime /\ now < nextSendTime

PollGated ==
    /\ woken
    /\ Gated
    /\ woken' = FALSE
    /\ UNCHANGED <<bandwidth, pacerVars, est, pathVars, historyVars, now>>

\* The credit with the lateness of this poll.
Accrued == IF nextSendTime = NoTime THEN credit ELSE credit + (now - nextSendTime)

\* Pacer::on_send for the poll's credit.
MutOnSendKeepsCredit(len, probe) ==
    /\ avgPayload' = AvgIir(PayloadIir, avgPayload, len)
    /\ credit' = Accrued
    /\ nextSendTime' = IF probe \/ Accrued >= period THEN now ELSE now + period - Accrued
    /\ UNCHANGED <<maxBw, period>>

OnSend(len, probe) ==
    /\ avgPayload' = AvgIir(PayloadIir, avgPayload, len)
    /\ \/ /\ probe
          /\ nextSendTime' = now
          /\ credit' = Accrued
       \/ /\ ~probe /\ Accrued >= period
          /\ nextSendTime' = now
          /\ credit' = Accrued - period
       \/ /\ ~probe /\ Accrued < period
          /\ nextSendTime' = now + (period - Accrued)
          /\ credit' = 0
    /\ UNCHANGED <<maxBw, period>>

Charge(probe) ==
    /\ lastSend' = now
    /\ lastCharge' = IF probe THEN 0 ELSE period
    /\ busyStart' = IF nextSendTime = NoTime THEN now ELSE busyStart
    /\ charged' = IF nextSendTime = NoTime THEN 0 ELSE charged + lastCharge

\* A retransmission, after the throttled ones were taken off the list.
PollRexmit(len) ==
    /\ woken /\ ~Gated
    /\ \E l \in 1 .. lost : lost' = l - 1
    /\ OnSend(len, FALSE)
    /\ Charge(FALSE)
    /\ UNCHANGED <<bandwidth, est, waiting, windowOpen, nextSeq, woken, now>>

\* A new packet: there is no retransmission, or all are throttled.  Packets
\* with seq & 0xF = 0 start a probe pair.
PollNew(len) ==
    /\ woken /\ ~Gated
    /\ waiting > 0 /\ windowOpen
    /\ nextSeq < MaxSeq
    /\ lost' = 0
    /\ waiting' = waiting - 1
    /\ nextSeq' = nextSeq + 1
    /\ windowOpen' \in BOOLEAN
    /\ OnSend(len, nextSeq % ProbeEvery = 0)
    /\ Charge(nextSeq % ProbeEvery = 0)
    /\ UNCHANGED <<bandwidth, est, woken, now>>

\* Pacer::on_nothing_to_send.
OnNothingToSend ==
    /\ nextSendTime' = NoTime
    /\ credit' = 0
    /\ UNCHANGED <<maxBw, avgPayload, period>>

PollNothing ==
    /\ woken /\ ~Gated
    /\ waiting = 0 \/ ~windowOpen
    /\ lost' = 0
    /\ woken' = FALSE
    /\ OnNothingToSend
    /\ UNCHANGED <<bandwidth, est, waiting, windowOpen, nextSeq, historyVars, now>>

PaceTick ==
    /\ Tick
    /\ UNCHANGED paceCore

PaceNext ==
    \/ \E len \in Payloads : Submit(len) \/ PollRexmit(len) \/ PollNew(len)
    \/ FullAck \/ LightAck \/ Nak \/ OnTimer
    \/ PollGated \/ PollNothing
    \/ PaceTick

PaceSpec == PaceInit /\ [][PaceNext]_paceVars

\* Pacer::deadline, always part of Sender::next_deadline.
MutDeadlineOnlyWithData == IF waiting > 0 THEN nextSendTime ELSE NoTime

PaceDeadline == nextSendTime

-----------------------------------------------------------------------------
(***************************************************************************)
(* Properties                                                              *)
(***************************************************************************)

\* The ceiling is never 0 (the doc of Pacer::max_bw): validation refuses zero
\* rates and refresh keeps the previous ceiling on a zero estimate, however the
\* estimator's windows close.
CeilingNeverZero == maxBw > 0

\* Lateness credit never buys more than the time lost: since the schedule was
\* last armed, the intervals charged for the packets before the last one sent
\* (one interval each, at the period then in force, retransmissions included,
\* probes excepted) fit in the time from the arming to that last packet.  So
\* back-to-back sends after a late wake-up stay within the configured rate.
PacedRate == nextSendTime # NoTime => charged <= lastSend - busyStart

\* A gate never closes without a wake-up (the comment of next_deadline: "a gate
\* without a wake-up would park the driver forever"): between events, whatever
\* may be sent is waiting for a deadline the sender advertises, at most one
\* interval after the last packet.
GateHasWakeUp ==
    ~woken /\ (lost > 0 \/ (waiting > 0 /\ windowOpen)) =>
        /\ PaceDeadline # NoTime
        /\ PaceDeadline <= lastSend + lastCharge
=============================================================================
