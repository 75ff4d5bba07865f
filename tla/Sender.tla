------------------------------- MODULE Sender -------------------------------
(***************************************************************************)
(* The live-mode data sender (src/core/sender.rs): send buffer, loss list, *)
(* in-flight window, sender TLPKTDROP and the ACKACK throttle.             *)
(*                                                                         *)
(* Packets are tracked by extended indices (0 is the packet with sequence  *)
(* number InitialSndSeq), as in the code; wire numbers appear in what the  *)
(* peer sends and is sent.  The pacing gate (absent with the default       *)
(* Bandwidth::Unlimited), payload bytes, encryption and the statistics     *)
(* counters are left out.                                                  *)
(***************************************************************************)
EXTENDS SeqNumber, Clock, Sequences

CONSTANTS
    InitialSndSeq,   \* SenderConfig::initial_seq
    FlowWindow,      \* SenderConfig::flow_window
    SendBufferPkts,  \* SenderConfig::buffer_pkts
    DropThreshold,   \* drop_threshold(): max(snd_latency, 1 s) + 20 ms
    AckAckThrottle,  \* ACKACK_THROTTLE
    InitialRtt,      \* INITIAL_RTT_US
    InitialRttVar,   \* INITIAL_RTT_VAR_US
    MsgMod,          \* size of the message-number space (2^26)
    MaxPush,         \* bound: messages the application submits
    AckNumbers,      \* ACK numbers a peer may send
    RttPairs,        \* <<SRTT, RTTVar>> pairs a full ACK may carry
    Windows,         \* free-buffer values a full ACK may carry
    NakReports       \* lists of ranges a NAK may carry

ASSUME SenderAssumption ==
    /\ InitialSndSeq \in SeqNumbers
    /\ FlowWindow \in Nat
    /\ SendBufferPkts \in Nat
    /\ DropThreshold \in Nat \ {0}
    /\ AckAckThrottle \in Nat
    /\ InitialRtt \in Nat
    /\ InitialRttVar \in Nat
    /\ MsgMod \in Nat /\ MsgMod >= 2
    /\ MaxPush \in Nat
    /\ AckNumbers \subseteq Nat
    /\ RttPairs \subseteq Nat \X Nat
    /\ Windows \subseteq Nat
    /\ NakReports \subseteq Seq(LossRange)

VARIABLES
    buffer,             \* extended index -> BufEntry, on baseIndex .. end - 1
    bufferEnd,          \* baseIndex + buffer.len()
    baseIndex,          \* extended index of the buffer front
    nextSendIndex,      \* next packet to transmit for the first time
    lastAckIndex,       \* base of the in-flight window
    nextMsg,            \* message number of the next submitted payload
    advertisedWindow,   \* the peer's advertised free buffer
    lossList,           \* extended indices awaiting retransmission
    dropRequests,       \* DROPREQ ranges owed to the peer (control_queue)
    lastAckAckNumber,
    lastAckAckTime,
    rttUs,
    rttVarUs,
    rttAdopted,
    protocolViolation

bufVars == <<buffer, bufferEnd, baseIndex, nextMsg>>
ackAckVars == <<lastAckAckNumber, lastAckAckTime>>
sndRttVars == <<rttUs, rttVarUs, rttAdopted>>
sndCore == <<bufVars, nextSendIndex, lastAckIndex, advertisedWindow, lossList, dropRequests,
             ackAckVars, sndRttVars, protocolViolation>>
sndVars == <<sndCore, now>>

BufEntry == [msg : 0 .. MsgMod - 1, origin : Nat, rexmit : Nat \cup {NoTime}]

SndInit ==
    /\ now = 0
    /\ buffer = [i \in {} |-> 0]
    /\ bufferEnd = 0
    /\ baseIndex = 0
    /\ nextSendIndex = 0
    /\ lastAckIndex = 0
    /\ nextMsg = 1
    /\ advertisedWindow = FlowWindow
    /\ lossList = {}
    /\ dropRequests = {}
    /\ lastAckAckNumber = 0
    /\ lastAckAckTime = NoTime
    /\ rttUs = InitialRtt
    /\ rttVarUs = InitialRttVar
    /\ rttAdopted = FALSE
    /\ protocolViolation = FALSE

-----------------------------------------------------------------------------
\* Wire sequence for an extended index, and back, relative to the buffer base.
SeqAt(index) == (InitialSndSeq + index) % SeqSpace

ExtOf(seq) == baseIndex + SeqDiff(seq, SeqAt(baseIndex))

EffectiveWindow == IF FlowWindow < advertisedWindow THEN FlowWindow ELSE advertisedWindow

AtLeast(x, lo) == IF x < lo THEN lo ELSE x

\* Packets in flight once the buffer front has been dropped up to b.
FlightAt(b) ==
    LET sent  == AtLeast(nextSendIndex, b)
        acked == AtLeast(lastAckIndex, b)
    IN  IF sent > acked THEN sent - acked ELSE 0

Flight == FlightAt(baseIndex)

\* Definitions named Mut... are deliberate bugs; no specification uses them.

\* The wire packet for a buffered index.  A retransmission carries the
\* sequence, message number and timestamp of the first transmission.
MutPacketRestamped(i) ==
    [seq |-> SeqAt(i), msg |-> buffer[i].msg, ts |-> Timestamp(now), payload |-> i]

PacketAt(i) ==
    [seq |-> SeqAt(i), msg |-> buffer[i].msg, ts |-> Timestamp(buffer[i].origin), payload |-> i]

DropReq(first, last) == [first |-> SeqAt(first), last |-> SeqAt(last)]

\* Where the too-late scan stops: the new front (check_tlpktdrop).  A set with
\* one element; the front itself when the buffered timespan is within the
\* threshold.
TooLate(i) == now - buffer[i].origin >= DropThreshold

TimespanExceeded ==
    /\ baseIndex < bufferEnd
    /\ buffer[bufferEnd - 1].origin - buffer[baseIndex].origin > DropThreshold

TooLateFront ==
    IF TimespanExceeded
      THEN {b \in baseIndex .. bufferEnd :
              /\ \A i \in baseIndex .. b - 1 : TooLate(i)
              /\ b < bufferEnd => ~TooLate(b)}
      ELSE {baseIndex}

TooLateDropReqs(b) ==
    IF b > baseIndex THEN {DropReq(baseIndex, b - 1)} ELSE {}

\* Where the two overflow loops of push stop, starting from front b.
OverflowFront(b) ==
    LET Fits(c) == /\ bufferEnd - c < SendBufferPkts
                   /\ FlightAt(c) < EffectiveWindow
    IN  {c \in b .. bufferEnd :
           /\ c = bufferEnd \/ Fits(c)
           /\ \A d \in b .. c - 1 : ~Fits(d)}

MutFakeAckKeepsLastAck(b) ==
    /\ baseIndex' = b
    /\ nextSendIndex' = AtLeast(nextSendIndex, b)
    /\ lossList' = {i \in lossList : i >= b}
    /\ UNCHANGED lastAckIndex

\* drop_front: release the packets below b and fake-acknowledge them.
FakeAck(b) ==
    /\ baseIndex' = b
    /\ nextSendIndex' = AtLeast(nextSendIndex, b)
    /\ lastAckIndex' = AtLeast(lastAckIndex, b)
    /\ lossList' = {i \in lossList : i >= b}

-----------------------------------------------------------------------------
\* Message numbers wrap past zero.
NextMsg(m) == IF (m + 1) % MsgMod = 0 THEN 1 ELSE (m + 1) % MsgMod

\* Sender::push.
Push ==
    /\ bufferEnd < MaxPush
    /\ \E b1 \in TooLateFront : \E b \in OverflowFront(b1) :
         /\ FakeAck(b)
         /\ dropRequests' = dropRequests \cup TooLateDropReqs(b1)
         /\ buffer' = [i \in b .. bufferEnd |->
                         IF i = bufferEnd THEN [msg |-> nextMsg, origin |-> now, rexmit |-> NoTime]
                                          ELSE buffer[i]]
    /\ bufferEnd' = bufferEnd + 1
    /\ nextMsg' = NextMsg(nextMsg)
    /\ UNCHANGED <<advertisedWindow, ackAckVars, sndRttVars, protocolViolation>>

\* Sender::on_timer.
SndOnTimer ==
    /\ \E b \in TooLateFront :
         /\ FakeAck(b)
         /\ dropRequests' = dropRequests \cup TooLateDropReqs(b)
         /\ buffer' = [i \in b .. bufferEnd - 1 |-> buffer[i]]
    /\ UNCHANGED <<bufferEnd, nextMsg, advertisedWindow, ackAckVars, sndRttVars,
                   protocolViolation>>

MutAckOfLastSent(seq) ==
    /\ ExtOf(seq) >= nextSendIndex
    /\ protocolViolation' = TRUE
    /\ UNCHANGED <<bufVars, nextSendIndex, lastAckIndex, advertisedWindow, lossList,
                   dropRequests, ackAckVars, sndRttVars>>

\* Sender::handle_ack for data never sent: the connection must be broken.
AckBeyondSent(seq) ==
    /\ ExtOf(seq) > nextSendIndex
    /\ protocolViolation' = TRUE
    /\ UNCHANGED <<bufVars, nextSendIndex, lastAckIndex, advertisedWindow, lossList,
                   dropRequests, ackAckVars, sndRttVars>>

\* The part of handle_ack that light and full ACKs share.
ReleaseAcked(seq) ==
    LET released == IF ExtOf(seq) <= baseIndex THEN baseIndex
                    ELSE IF ExtOf(seq) < bufferEnd THEN ExtOf(seq) ELSE bufferEnd
    IN  /\ ExtOf(seq) <= nextSendIndex
        /\ baseIndex' = released
        /\ buffer' = [i \in released .. bufferEnd - 1 |-> buffer[i]]
        /\ lossList' = IF ExtOf(seq) > baseIndex
                         THEN {i \in lossList : i >= released} ELSE lossList
        /\ UNCHANGED <<bufferEnd, nextMsg, nextSendIndex, dropRequests, protocolViolation>>

HandleLightAck(seq) ==
    /\ ReleaseAcked(seq)
    /\ IF ExtOf(seq) >= lastAckIndex
         THEN /\ advertisedWindow' = AtLeast(advertisedWindow - (ExtOf(seq) - lastAckIndex), 0)
              /\ lastAckIndex' = ExtOf(seq)
         ELSE UNCHANGED <<advertisedWindow, lastAckIndex>>
    /\ UNCHANGED <<ackAckVars, sndRttVars>>

\* Whether a full ACK is answered with an ACKACK.
AckAckDue(number) ==
    \/ lastAckAckTime = NoTime
    \/ now - lastAckAckTime > AckAckThrottle
    \/ number = lastAckAckNumber

\* The peer's RTT pair is adopted once neither value is the initial one.
RttMeasured(rtt, var) == rttAdopted \/ (rtt # InitialRtt /\ var # InitialRttVar)

HandleFullAck(seq, number, rtt, var, avail) ==
    /\ ReleaseAcked(seq)
    /\ IF RttMeasured(rtt, var)
         THEN rttUs' = rtt /\ rttVarUs' = var /\ rttAdopted' = TRUE
         ELSE UNCHANGED sndRttVars
    /\ IF AckAckDue(number)
         THEN lastAckAckNumber' = number /\ lastAckAckTime' = now
         ELSE UNCHANGED ackAckVars
    /\ IF ExtOf(seq) >= lastAckIndex
         THEN advertisedWindow' = avail /\ lastAckIndex' = ExtOf(seq)
         ELSE UNCHANGED <<advertisedWindow, lastAckIndex>>

\* Sender::handle_nak: the ranges up to the first one that names a sequence
\* never sent are processed, then the violation is raised.
NakValid(r) == ExtOf(r.first) <= ExtOf(r.last) /\ ExtOf(r.last) < nextSendIndex

MutStillSent(r) == {i \in 0 .. nextSendIndex - 1 : ExtOf(r.first) <= i /\ i <= ExtOf(r.last)}

StillInFlight(r) == {i \in lastAckIndex .. nextSendIndex - 1 :
                       ExtOf(r.first) <= i /\ i <= ExtOf(r.last)}

MutRangePartlyReleased(r) == ExtOf(r.first) < lastAckIndex /\ r.first # r.last

RangeReleased(r) == ExtOf(r.last) < lastAckIndex /\ r.first # r.last

HandleNak(ranges) ==
    \E k \in 0 .. Len(ranges) :
        /\ \A j \in 1 .. k : NakValid(ranges[j])
        /\ k < Len(ranges) => ~NakValid(ranges[k + 1])
        /\ lossList' = lossList \cup UNION {StillInFlight(ranges[j]) : j \in 1 .. k}
        /\ dropRequests' = dropRequests \cup
                             {ranges[j] : j \in {m \in 1 .. k : RangeReleased(ranges[m])}}
        /\ protocolViolation' = (protocolViolation \/ k < Len(ranges))
        /\ UNCHANGED <<bufVars, nextSendIndex, lastAckIndex, advertisedWindow, ackAckVars,
                       sndRttVars>>

-----------------------------------------------------------------------------
\* Sender::poll_transmit.  A packet retransmitted within the last
\* SRTT - 4 RTTVar is presumed in flight: its entry is popped, not requeued.
RexmitWindow == AtLeast(rttUs - 4 * rttVarUs, 0)

Throttled(i) == buffer[i].rexmit # NoTime /\ now - buffer[i].rexmit < RexmitWindow

Retransmittable(i) ==
    /\ i \in lossList
    /\ baseIndex <= i /\ i < nextSendIndex
    /\ ~Throttled(i)

Retransmit(i) ==
    /\ Retransmittable(i)
    /\ \A j \in lossList : j < i => ~Retransmittable(j)
    /\ lossList' = {j \in lossList : j > i}
    /\ buffer' = [buffer EXCEPT ![i].rexmit = now]
    /\ UNCHANGED <<bufferEnd, baseIndex, nextMsg, nextSendIndex, lastAckIndex, advertisedWindow,
                   dropRequests, ackAckVars, sndRttVars, protocolViolation>>

MutWindowOffByOne == nextSendIndex < bufferEnd /\ Flight <= EffectiveWindow

WindowOpen == nextSendIndex < bufferEnd /\ Flight < EffectiveWindow

SendNew ==
    /\ \A i \in lossList : ~Retransmittable(i)
    /\ WindowOpen
    /\ lossList' = {}
    /\ nextSendIndex' = nextSendIndex + 1
    /\ UNCHANGED <<bufVars, lastAckIndex, advertisedWindow, dropRequests, ackAckVars,
                   sndRttVars, protocolViolation>>

NothingToSend ==
    /\ \A i \in lossList : ~Retransmittable(i)
    /\ ~WindowOpen
    /\ lossList # {}
    /\ lossList' = {}
    /\ UNCHANGED <<bufVars, nextSendIndex, lastAckIndex, advertisedWindow, dropRequests,
                   ackAckVars, sndRttVars, protocolViolation>>

\* Sender::poll_control.  The queue is a set: the path may reorder what it holds.
SndPollControl(d) ==
    /\ d \in dropRequests
    /\ dropRequests' = dropRequests \ {d}
    /\ UNCHANGED <<bufVars, nextSendIndex, lastAckIndex, advertisedWindow, lossList,
                   ackAckVars, sndRttVars, protocolViolation>>

MutDropDeadlineAlways ==
    IF baseIndex < bufferEnd THEN buffer[baseIndex].origin + DropThreshold ELSE NoTime

\* Sender::next_deadline, TLPKTDROP part: NoTime while nothing is armed.
DropDeadline ==
    IF TimespanExceeded THEN buffer[baseIndex].origin + DropThreshold ELSE NoTime

-----------------------------------------------------------------------------
\* The sender facing a peer that may send it anything the wire can carry.  The
\* connection is closed as soon as a violation is raised.
HandleAck(seq) ==
    \/ AckBeyondSent(seq)
    \/ HandleLightAck(seq)
    \/ \E number \in AckNumbers, pair \in RttPairs, avail \in Windows :
         HandleFullAck(seq, number, pair[1], pair[2], avail)

SndStep ==
    \/ Push
    \/ SndOnTimer
    \/ \E seq \in SeqNumbers : HandleAck(seq)
    \/ \E ranges \in NakReports : HandleNak(ranges)
    \/ \E i \in lossList : Retransmit(i)
    \/ SendNew
    \/ NothingToSend
    \/ \E d \in dropRequests : SndPollControl(d)

SndNext ==
    /\ ~protocolViolation
    /\ \/ SndStep /\ UNCHANGED now
       \/ Tick /\ UNCHANGED sndCore

SndSpec == SndInit /\ [][SndNext]_sndVars

-----------------------------------------------------------------------------
\* Type invariant of the sender state.
SndTypeOK ==
    /\ now \in Nat
    /\ baseIndex \in Nat /\ bufferEnd \in Nat /\ baseIndex <= bufferEnd
    /\ buffer \in [baseIndex .. bufferEnd - 1 -> BufEntry]
    /\ nextSendIndex \in Nat
    /\ lastAckIndex \in Nat
    /\ nextMsg \in 1 .. MsgMod - 1
    /\ advertisedWindow \in Nat
    /\ lossList \subseteq Nat
    /\ dropRequests \subseteq LossRange
    /\ lastAckAckNumber \in Nat
    /\ lastAckAckTime \in Nat \cup {NoTime}
    /\ rttUs \in Nat /\ rttVarUs \in Nat
    /\ rttAdopted \in BOOLEAN
    /\ protocolViolation \in BOOLEAN

\* The in-flight window starts at the buffer front: whatever mix of ACKs, stale
\* ACKs, overflow and too-late drops has run, the acknowledged position
\* (last_ack_index, which only full and light ACKs and drop_front move) and the
\* release position (base_index) are the same, and what was sent lies between the
\* front and the end of the buffer.  handle_nak clips at one and poll_transmit
\* indexes the buffer with the other.
WindowAtBufferFront ==
    /\ lastAckIndex = baseIndex
    /\ baseIndex <= nextSendIndex /\ nextSendIndex <= bufferEnd

\* Every queued retransmission names a packet that was sent and is still
\* buffered, so poll_transmit never indexes outside the buffer and its range
\* check is, as its comment says, defensive only.
LossListInFlight == lossList \subseteq baseIndex .. nextSendIndex - 1

\* What send_new, push and drop_front bound.
WithinLimits ==
    /\ nextSendIndex - lastAckIndex <= FlowWindow
    /\ bufferEnd - baseIndex <= AtLeast(SendBufferPkts, 1)

\* Never more than the negotiated flow window is in flight, also when the peer
\* shrinks its advertised window under packets already sent, and the buffer
\* never outgrows its capacity (one packet is always admitted).
\* Nor does the message number of the next packet wrap to 0, which no message has.
SenderBounded == WithinLimits /\ nextMsg # 0

\* A DROPREQ owed to the peer names only packets the sender has released: the
\* peer is never told to give up on a packet that may still be (re)transmitted,
\* however long the DROPREQ waited in the queue.
DropRequestsReleased ==
    \A d \in dropRequests : ExtOf(d.first) <= ExtOf(d.last) /\ ExtOf(d.last) < baseIndex

\* While it stays buffered a packet keeps its message number and its timestamp
\* (a retransmission must not be restamped), its index is never reused, and the
\* buffer front, the send position and the buffer end never move back.
BufferedPacketsImmutable ==
    [][/\ baseIndex' >= baseIndex /\ nextSendIndex' >= nextSendIndex /\ bufferEnd' >= bufferEnd
       /\ \A i \in baseIndex .. bufferEnd - 1 :
            i >= baseIndex' => PacketAt(i)' = PacketAt(i)]_sndVars

\* A TLPKTDROP wake-up does its work: after on_timer has run, either no drop
\* deadline is armed or it lies in the future, so the driver that sleeps until
\* next_deadline never spins.
TimerMakesProgress ==
    [][SndOnTimer => DropDeadline' = NoTime \/ DropDeadline' > now]_sndVars
=============================================================================
