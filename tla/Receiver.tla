------------------------------ MODULE Receiver ------------------------------
(***************************************************************************)
(* The live-mode data receiver (src/core/receiver.rs): packet slots, loss  *)
(* list, ACK generation and journal, NAKs, DROPREQ, TSBPD release.         *)
(*                                                                         *)
(* Everything is kept in wire sequence numbers, as in the code.  The ACK,  *)
(* ACK-repeat and NAK timers fire at any moment (their periods follow the  *)
(* measured RTT); TSBPD deadlines use the clock.  The RTT estimate and the *)
(* value of the drift correction are choices of the environment.           *)
(***************************************************************************)
EXTENDS SeqNumber, Clock, SequencesExt

CONSTANTS
    InitialRcvSeq,     \* ReceiverConfig::initial_seq
    RcvLatency,        \* ReceiverConfig::rcv_latency
    RcvBufferPkts,     \* ReceiverConfig::buffer_pkts
    LightAckPackets,   \* LIGHT_ACK_PACKETS
    AckHistory,        \* ACK_HISTORY
    AckMod,            \* size of the ACK number space (2^31)
    MinAvailBuf,       \* MIN_AVAIL_BUF
    MaxNakWords,       \* (max_payload / 4).max(MIN_NAK_WORDS)
    DriftCorrections,  \* values DriftTracer::correction_us may take
    MaxPktCount,       \* bound: packets counted between two timer ACKs
    DataPackets,       \* data packets a peer may send
    DropReqs           \* DROPREQs a peer may send

ASSUME ReceiverAssumption ==
    /\ InitialRcvSeq \in SeqNumbers
    /\ RcvLatency \in Nat
    /\ RcvBufferPkts \in Nat /\ 2 * RcvBufferPkts < SeqSpace
    /\ LightAckPackets \in Nat \ {0}
    /\ AckHistory \in Nat \ {0} /\ AckHistory < AckMod
    /\ AckMod \in Nat
    /\ MinAvailBuf \in Nat
    /\ MaxNakWords \in Nat /\ MaxNakWords >= 2
    /\ DriftCorrections \subseteq Int /\ 0 \in DriftCorrections
    /\ MaxPktCount \in Nat
    /\ \A pkt \in DataPackets : pkt.seq \in SeqNumbers
    /\ \A d \in DropReqs : d.first \in SeqNumbers /\ d.last \in SeqNumbers

VARIABLES
    baseSeq,         \* next sequence to deliver
    slots,           \* slots[k] holds sequence baseSeq + k - 1, or is a hole
    scanHint,        \* the first scanHint slots are holes
    rcvCurrSeq,      \* highest sequence received
    loss,            \* missing ranges
    anchor,          \* TSBPD and timestamp-extension anchor
    drift,           \* drift.correction_us()
    rcvLastAck,
    rcvLastAckAck,
    ackJournal,
    ackSeqNo,
    pktCount,
    lightAckCount,
    discrepancy,
    rcvControl       \* ACKs and NAKs owed to the peer (control_q)

slotVars == <<baseSeq, slots, scanHint, rcvCurrSeq, loss>>
ackVars == <<rcvLastAck, rcvLastAckAck, ackJournal, ackSeqNo>>
lightVars == <<pktCount, lightAckCount>>
rcvCore == <<slotVars, ackVars, lightVars, anchor, drift, discrepancy, rcvControl>>
rcvVars == <<rcvCore, now>>

NoSlot == [hole |-> TRUE]
NoAnchor == [unset |-> TRUE]

\* new, with the time base anchored at a (set_hs_anchor) or not yet.
RcvInitWith(a) ==
    /\ baseSeq = InitialRcvSeq
    /\ slots = <<>>
    /\ scanHint = 0
    /\ rcvCurrSeq = SeqPrev(InitialRcvSeq)
    /\ loss = <<>>
    /\ anchor = a
    /\ drift = 0
    /\ rcvLastAck = InitialRcvSeq
    /\ rcvLastAckAck = InitialRcvSeq
    /\ ackJournal = <<>>
    /\ ackSeqNo = 0
    /\ pktCount = 0
    /\ lightAckCount = 1
    /\ discrepancy = FALSE
    /\ rcvControl = {}

RcvInit == now = 0 /\ RcvInitWith(NoAnchor)

-----------------------------------------------------------------------------
\* The loss list.  Definitions named Mut... are deliberate bugs; no
\* specification uses them.

MutCutRangeKeepsLeft(e, lo, hi) ==
    IF SeqDiff(hi, e.first) < 0 \/ SeqDiff(e.last, lo) < 0 THEN <<e>>
    ELSE IF SeqDiff(e.first, lo) < 0 THEN <<[first |-> e.first, last |-> SeqPrev(lo)]>> ELSE <<>>

\* What is left of a missing range once lo .. hi is taken out of it.
CutRange(e, lo, hi) ==
    IF SeqDiff(hi, e.first) < 0 \/ SeqDiff(e.last, lo) < 0 THEN <<e>>
    ELSE (IF SeqDiff(e.first, lo) < 0 THEN <<[first |-> e.first, last |-> SeqPrev(lo)]>> ELSE <<>>)
      \o (IF SeqDiff(e.last, hi) > 0 THEN <<[first |-> SeqNext(hi), last |-> e.last]>> ELSE <<>>)

RemoveLossRange(l, lo, hi) == FlattenSeq([k \in DOMAIN l |-> CutRange(l[k], lo, hi)])

MutUnloseNothing(l, seq) == l

\* unlose: the scan stops at the first entry that holds seq or lies after it.
Unlose(l, seq) ==
    LET stops == {k \in DOMAIN l : SeqDiff(seq, l[k].first) < 0 \/ SeqDiff(l[k].last, seq) >= 0}
        k     == CHOOSE j \in stops : \A i \in stops : j <= i
    IN  IF stops = {} \/ SeqDiff(seq, l[k].first) < 0 THEN l
        ELSE SubSeq(l, 1, k - 1) \o CutRange(l[k], seq, seq) \o SubSeq(l, k + 1, Len(l))

-----------------------------------------------------------------------------
\* Control messages owed to the peer.  The first argument pair stands for the
\* loss list and receive cursor at the time the message is built.
MutAckLastLoss(l, curr) == IF l = <<>> THEN SeqNext(curr) ELSE l[Len(l)].first

AckValueOf(l, curr) == IF l = <<>> THEN SeqNext(curr) ELSE l[1].first

AckValue == AckValueOf(loss, rcvCurrSeq)

\* avail_buf_pkts, for an ACK position.
AvailBufPkts(ack) ==
    LET used == IF SeqDiff(ack, baseSeq) < 0 THEN 0 ELSE SeqDiff(ack, baseSeq)
    IN  IF RcvBufferPkts - used < MinAvailBuf THEN MinAvailBuf ELSE RcvBufferPkts - used

FullAckMsg(number, ack) ==
    [type |-> "fullack", number |-> number, seq |-> ack, avail |-> AvailBufPkts(ack)]
LightAckMsg(ack) == [type |-> "lightack", seq |-> ack]
NakMsg(ranges) == [type |-> "nak", ranges |-> ranges]

\* nak_ranges: as many entries as fit one packet; a proper range takes two words.
NakRanges ==
    LET words(k) == k + Cardinality({j \in 1 .. k : loss[j].first # loss[j].last})
        fitting  == {k \in 0 .. Len(loss) : words(k) <= MaxNakWords}
    IN  SubSeq(loss, 1, CHOOSE k \in fitting : \A j \in fitting : j <= k)

\* The light ACK due once this arrival is counted, queue_light_ack included.
LightAckDue == pktCount + 1 >= LightAckPackets * lightAckCount

LightAcks(l, curr) ==
    IF LightAckDue /\ AckValueOf(l, curr) # rcvLastAckAck
      THEN {LightAckMsg(AckValueOf(l, curr))} ELSE {}

-----------------------------------------------------------------------------
\* ingest and store_data.
Offset(seq) == SeqDiff(seq, baseSeq)
Occupied(offset) == offset \in 0 .. Len(slots) - 1 /\ slots[offset + 1] # NoSlot
BufferEmpty == \A k \in scanHint + 1 .. Len(slots) : slots[k] = NoSlot

MutBeyondOneEarly(seq) == Offset(seq) >= RcvBufferPkts - 1

BeyondBuffer(seq) == Offset(seq) >= RcvBufferPkts

\* The common part of every arrival: counters and anchoring.
Arrive(pkt) ==
    /\ pktCount < MaxPktCount
    /\ pktCount' = pktCount + 1
    /\ lightAckCount' = IF LightAckDue THEN lightAckCount + 1 ELSE lightAckCount
    /\ anchor' = IF anchor = NoAnchor THEN [instant |-> now, ext |-> pkt.ts] ELSE anchor
    /\ UNCHANGED <<baseSeq, ackVars, drift>>

\* Belated, beyond capacity or a duplicate: not stored.  Beyond an empty buffer
\* it is a sequence discrepancy.
Refused(seq) == Offset(seq) < 0 \/ BeyondBuffer(seq) \/ Occupied(Offset(seq))

IngestRefused(pkt) ==
    /\ Refused(pkt.seq)
    /\ Arrive(pkt)
    /\ discrepancy' = (discrepancy \/ (BeyondBuffer(pkt.seq) /\ BufferEmpty))
    /\ rcvControl' = rcvControl \cup LightAcks(loss, rcvCurrSeq)
    /\ UNCHANGED <<slots, scanHint, rcvCurrSeq, loss>>

GapRange(seq) == [first |-> SeqNext(rcvCurrSeq), last |-> SeqPrev(seq)]

MutGapIgnoresSingles(seq) == SeqDiff(seq, SeqNext(rcvCurrSeq)) > 1

Gap(seq) == SeqDiff(seq, SeqNext(rcvCurrSeq)) > 0

\* A gap revealed by an undecryptable packet is neither recorded nor reported.
IngestStored(pkt, undecryptable) ==
    LET offset   == Offset(pkt.seq)
        ext      == IF anchor = NoAnchor THEN pkt.ts
                    ELSE Extend(anchor.instant, anchor.ext, pkt.ts, now)
        slot     == [msg |-> pkt.msg, ext |-> ext, payload |-> pkt.payload,
                     undecryptable |-> undecryptable]
        reported == Gap(pkt.seq) /\ ~undecryptable
    IN  /\ ~Refused(pkt.seq)
        /\ Arrive(pkt)
        /\ slots' = [k \in 1 .. (IF Len(slots) <= offset THEN offset + 1 ELSE Len(slots)) |->
                       IF k = offset + 1 THEN slot
                       ELSE IF k <= Len(slots) THEN slots[k] ELSE NoSlot]
        /\ scanHint' = IF offset < scanHint THEN offset ELSE scanHint
        /\ IF SeqDiff(pkt.seq, rcvCurrSeq) > 0
             THEN /\ rcvCurrSeq' = pkt.seq
                  /\ loss' = IF reported THEN Append(loss, GapRange(pkt.seq)) ELSE loss
             ELSE /\ loss' = Unlose(loss, pkt.seq)
                  /\ UNCHANGED rcvCurrSeq
        /\ rcvControl' = rcvControl \cup LightAcks(loss', rcvCurrSeq') \cup
                           (IF reported THEN {NakMsg(<<GapRange(pkt.seq)>>)} ELSE {})
        /\ UNCHANGED discrepancy

Ingest(pkt, undecryptable) == IngestRefused(pkt) \/ IngestStored(pkt, undecryptable)

\* set_hs_anchor: the time base is set once, before any data.
SetHsAnchor(ts) ==
    /\ anchor = NoAnchor
    /\ anchor' = [instant |-> now, ext |-> ts]
    /\ UNCHANGED <<slotVars, ackVars, lightVars, drift, discrepancy, rcvControl>>

-----------------------------------------------------------------------------
\* handle_ackack.  A sample of zero microseconds is dropped after the journal
\* has been consumed.
HandleAckAck(number, positive) ==
    \E pos \in DOMAIN ackJournal :
        /\ ackJournal[pos].number = number
        /\ \A j \in 1 .. pos - 1 : ackJournal[j].number # number
        /\ ackJournal' = SubSeq(ackJournal, pos + 1, Len(ackJournal))
        /\ rcvLastAckAck' = IF positive /\ SeqDiff(ackJournal[pos].seq, rcvLastAckAck) > 0
                              THEN ackJournal[pos].seq ELSE rcvLastAckAck
        /\ drift' \in IF positive /\ anchor # NoAnchor THEN DriftCorrections ELSE {drift}
        /\ UNCHANGED <<slotVars, lightVars, anchor, rcvLastAck, ackSeqNo, discrepancy, rcvControl>>

\* handle_dropreq.  A message number other than zero also frees that message.
HandleDropReq(first, last, msg) ==
    /\ SeqDiff(first, last) <= 0
    /\ loss' = RemoveLossRange(loss, first, last)
    /\ slots' = [k \in DOMAIN slots |->
                   IF /\ msg # 0 /\ slots[k] # NoSlot
                      /\ Offset(first) <= k - 1 /\ k - 1 <= Offset(last)
                      /\ slots[k].msg = msg
                     THEN NoSlot ELSE slots[k]]
    /\ rcvCurrSeq' = IF SeqDiff(first, SeqNext(rcvCurrSeq)) <= 0 /\ SeqDiff(last, rcvCurrSeq) > 0
                       THEN last ELSE rcvCurrSeq
    /\ UNCHANGED <<baseSeq, scanHint, ackVars, lightVars, anchor, drift, discrepancy, rcvControl>>

-----------------------------------------------------------------------------
\* on_timer.  queue_full_ack sends a new position at once and repeats an
\* unconfirmed one when its repeat interval has passed.
AdvanceDue == AckValue # rcvLastAckAck /\ SeqDiff(AckValue, rcvLastAck) > 0

FullAckDue(repeatDue) ==
    /\ AdvanceDue \/ (AckValue # rcvLastAckAck /\ AckValue = rcvLastAck /\ repeatDue)
    /\ SeqDiff(AckValue, rcvLastAckAck) > 0

QueueFullAck(repeatDue) ==
    /\ rcvLastAck' = IF AdvanceDue THEN AckValue ELSE rcvLastAck
    /\ IF FullAckDue(repeatDue)
         THEN /\ ackSeqNo' = (ackSeqNo + 1) % AckMod
              /\ ackJournal' =
                   LET kept == IF Len(ackJournal) = AckHistory THEN Tail(ackJournal) ELSE ackJournal
                   IN  Append(kept, [number |-> ackSeqNo', seq |-> AckValue])
         ELSE UNCHANGED <<ackSeqNo, ackJournal>>

RcvOnTimer(ackDue, repeatDue, nakDue) ==
    /\ IF ackDue
         THEN QueueFullAck(repeatDue) /\ pktCount' = 0 /\ lightAckCount' = 1
         ELSE UNCHANGED <<rcvLastAck, ackSeqNo, ackJournal, lightVars>>
    /\ rcvControl' = rcvControl
         \cup (IF ackDue /\ FullAckDue(repeatDue)
                 THEN {FullAckMsg((ackSeqNo + 1) % AckMod, AckValue)} ELSE {})
         \cup (IF nakDue /\ loss # <<>> THEN {NakMsg(NakRanges)} ELSE {})
    /\ UNCHANGED <<slotVars, rcvLastAckAck, anchor, drift, discrepancy>>

\* poll_control.
RcvPollControl(m) ==
    /\ m \in rcvControl
    /\ rcvControl' = rcvControl \ {m}
    /\ UNCHANGED <<slotVars, ackVars, lightVars, anchor, drift, discrepancy>>

-----------------------------------------------------------------------------
\* poll_deliver.  The loop frees due undecryptable packets until it meets a
\* packet to deliver, or one whose play time is ahead, or no packet.
TsbpdDeadline(ext) == anchor.instant + (ext - anchor.ext) + drift + RcvLatency

Due(k) == TsbpdDeadline(slots[k].ext) <= now

Packets == {k \in scanHint + 1 .. Len(slots) : slots[k] # NoSlot}

\* Where the loop stops looking: the first packet it does not free, or the end.
StopsAt ==
    LET stops == {k \in Packets : ~Due(k) \/ ~slots[k].undecryptable}
    IN  IF stops = {} THEN Len(slots) + 1 ELSE CHOOSE k \in stops : \A j \in stops : k <= j

Deliverable == anchor # NoAnchor /\ StopsAt <= Len(slots) /\ Due(StopsAt)

MutConsumeKeepsHint(n, hint) ==
    /\ slots' = SubSeq(slots, n + 1, Len(slots))
    /\ baseSeq' = SeqAdd(baseSeq, n)
    /\ loss' = IF n > 0 THEN RemoveLossRange(loss, baseSeq, SeqAdd(baseSeq, n - 1)) ELSE loss
    /\ scanHint' = IF hint = 0 /\ scanHint <= Len(slots) - n THEN scanHint ELSE hint
    /\ UNCHANGED <<rcvCurrSeq, ackVars, lightVars, anchor, drift, discrepancy, rcvControl>>

MutConsumeOne(n, hint) ==
    /\ slots' = SubSeq(slots, n + 1, Len(slots))
    /\ baseSeq' = IF n > 0 THEN SeqNext(baseSeq) ELSE baseSeq
    /\ scanHint' = hint
    /\ loss' = IF n > 0 THEN RemoveLossRange(loss, baseSeq, SeqAdd(baseSeq, n - 1)) ELSE loss
    /\ UNCHANGED <<rcvCurrSeq, ackVars, lightVars, anchor, drift, discrepancy, rcvControl>>

\* The front n slots are consumed, the holes among them given up for good.
Consume(n, hint) ==
    /\ slots' = SubSeq(slots, n + 1, Len(slots))
    /\ baseSeq' = SeqAdd(baseSeq, n)
    /\ scanHint' = hint
    /\ loss' = IF n > 0 THEN RemoveLossRange(loss, baseSeq, SeqAdd(baseSeq, n - 1)) ELSE loss
    /\ UNCHANGED <<rcvCurrSeq, ackVars, lightVars, anchor, drift, discrepancy, rcvControl>>

\* poll_deliver returning slots[StopsAt].payload.
Deliver ==
    /\ Deliverable
    /\ Consume(StopsAt, 0)

\* poll_deliver returning nothing.
DeliverNone ==
    LET freed == {k \in Packets : k < StopsAt}
        n     == IF freed = {} THEN 0 ELSE CHOOSE k \in freed : \A j \in freed : j <= k
    IN  /\ anchor # NoAnchor
        /\ ~Deliverable
        /\ Consume(n, StopsAt - 1 - n)

\* The play times next_deadline wakes the driver for: of the first packet, if any.
PlayDeadlines ==
    {TsbpdDeadline(slots[k].ext) :
        k \in {j \in Packets : anchor # NoAnchor /\ \A i \in Packets : j <= i}}

-----------------------------------------------------------------------------
\* The receiver facing a peer.  The driver sends what a handler has queued
\* before it runs the next one.
RcvStep ==
    \/ \E sent \in 0 .. now : SetHsAnchor(Timestamp(sent))
    \/ \E pkt \in DataPackets, undecryptable \in BOOLEAN : Ingest(pkt, undecryptable)
    \/ \E number \in 0 .. AckMod - 1, positive \in BOOLEAN : HandleAckAck(number, positive)
    \/ \E d \in DropReqs : HandleDropReq(d.first, d.last, d.msg)
    \/ \E ackDue, repeatDue, nakDue \in BOOLEAN : RcvOnTimer(ackDue, repeatDue, nakDue)
    \/ Deliver
    \/ DeliverNone

RcvNext ==
    \/ rcvControl = {} /\ ~discrepancy /\ RcvStep /\ UNCHANGED now
    \/ \E m \in rcvControl : RcvPollControl(m) /\ UNCHANGED now
    \/ Tick /\ UNCHANGED rcvCore

RcvSpec == RcvInit /\ [][RcvNext]_rcvVars

-----------------------------------------------------------------------------
RangeSet(r) == {SeqAdd(r.first, n) : n \in 0 .. SeqDiff(r.last, r.first)}

\* The sequences on the loss list, and those in base .. curr without a packet.
Missing == UNION {RangeSet(loss[k]) : k \in DOMAIN loss}

Holes == {SeqAdd(baseSeq, n) : n \in {m \in 0 .. SeqDiff(rcvCurrSeq, baseSeq) : ~Occupied(m)}}

\* "Missing ranges, ascending and disjoint": the entries are proper, do not touch
\* each other, and name only sequences between the delivery position and the
\* highest received one that have no packet.  unlose and ack_value rely on it.
LossShape ==
    /\ \A k \in DOMAIN loss : SeqDiff(loss[k].last, loss[k].first) >= 0
    /\ \A k \in 1 .. Len(loss) - 1 : SeqDiff(loss[k + 1].first, loss[k].last) > 1
    /\ Missing \subseteq Holes

\* slots[.. scan_hint] is all-None, so no buffered packet is overlooked by
\* poll_deliver, next_deadline and the empty-buffer test of store_data; the hint
\* stays inside the buffer and the buffer inside its capacity, whatever
\* interleaving of gaps, drops and deliveries shortens it.  A wake-up is asked
\* for as long as any packet is held, for the time at which poll_deliver moves on.
HintSound ==
    /\ scanHint <= Len(slots) /\ Len(slots) <= RcvBufferPkts
    /\ \A k \in 1 .. scanHint : slots[k] = NoSlot
    /\ anchor # NoAnchor /\ (\E k \in DOMAIN slots : slots[k] # NoSlot) => PlayDeadlines # {}
    /\ Deliverable => \E t \in PlayDeadlines : t <= now

\* What the peer confirmed is at most what was acknowledged, which is at most
\* what may be acknowledged now; delivery never overtakes it.  Rule 5 of
\* queue_full_ack ("internal error") therefore never applies.
AckOrder ==
    /\ SeqDiff(rcvLastAck, rcvLastAckAck) >= 0
    /\ SeqDiff(AckValue, rcvLastAck) >= 0
    /\ SeqDiff(AckValue, baseSeq) >= 0
    /\ \A k \in DOMAIN ackJournal : SeqDiff(rcvLastAck, ackJournal[k].seq) >= 0

\* The ACK position never regresses, whatever is lost, repaired, dropped by the
\* peer or skipped at play time: ack_value is "monotonic by construction".
AckNeverRegresses == [][SeqDiff(AckValue', AckValue) >= 0]_rcvVars

\* A missing sequence that no NAK will name again was given up for a reason: it
\* was in the range of a DROPREQ, or in a gap revealed by an undecryptable
\* packet.  Repairs, cuts and skips around it never make it disappear from the
\* loss list while it can still be played.
NoSilentLoss ==
    [][\A s \in (Holes \ Missing)' :
         \/ s \in Holes \ Missing
         \/ \E d \in DropReqs : HandleDropReq(d.first, d.last, d.msg) /\ s \in RangeSet(d)
         \/ \E pkt \in DataPackets : IngestStored(pkt, TRUE) /\ s \in RangeSet(GapRange(pkt.seq))
      ]_rcvVars
=============================================================================
