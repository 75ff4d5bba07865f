-------------------------------- MODULE Link --------------------------------
(***************************************************************************)
(* One direction of an established connection: the sender of one peer, the *)
(* receiver of the other, and a datagram path that loses, duplicates,      *)
(* delays and reorders in both directions.  The routing of messages is     *)
(* handle_transmission_control, handle_data_packet and poll_transmit of    *)
(* src/core/mod.rs; either side closes the connection on a violation.      *)
(***************************************************************************)
EXTENDS Sender, Receiver

CONSTANTS
    MaxFullAcks,      \* bound: full ACKs the receiver sends; no bound if AckMod
    DecryptFailures   \* whether packets may fail to decrypt: subset of BOOLEAN

ASSUME LinkAssumption ==
    /\ InitialRcvSeq = InitialSndSeq
    /\ MaxFullAcks \in 0 .. AckMod
    /\ DecryptFailures \subseteq BOOLEAN
    /\ 2 * MaxPush < SeqSpace

VARIABLES
    net,         \* datagrams that were sent; each may arrive any number of times
    pushedAt,    \* history: when each message was submitted
    abandoned,   \* history: packets the sender dropped unacknowledged
    delivered    \* history: payloads handed to the receiving application

histVars == <<pushedAt, abandoned, delivered>>
linkVars == <<sndVars, rcvCore, net, histVars>>

\* The receiver is anchored at establishment by the peer's CONCLUSION.
LinkInit ==
    /\ SndInit
    /\ RcvInitWith([instant |-> 0, ext |-> Timestamp(0)])
    /\ net = {}
    /\ pushedAt = <<>>
    /\ abandoned = {}
    /\ delivered = <<>>

DataMsg(pkt) == [type |-> "data", pkt |-> pkt]
DropReqMsg(d) == [type |-> "dropreq", first |-> d.first, last |-> d.last]
AckAckMsg(number) == [type |-> "ackack", number |-> number]

InFlight(type) == {m \in net : m.type = type}

-----------------------------------------------------------------------------
\* The sending peer.
SenderOnly == UNCHANGED <<rcvCore, delivered>>

Abandon == abandoned' = abandoned \cup (baseIndex .. baseIndex' - 1)

LinkPush ==
    /\ Push
    /\ pushedAt' = Append(pushedAt, now)
    /\ Abandon
    /\ SenderOnly /\ UNCHANGED net

LinkSndTimer ==
    /\ TimespanExceeded
    /\ SndOnTimer
    /\ Abandon
    /\ SenderOnly /\ UNCHANGED <<net, pushedAt>>

LinkTransmit ==
    /\ \/ SendNew /\ net' = net \cup {DataMsg(PacketAt(nextSendIndex))}
       \/ \E i \in lossList : Retransmit(i) /\ net' = net \cup {DataMsg(PacketAt(i))}
       \/ NothingToSend /\ UNCHANGED net
    /\ SenderOnly /\ UNCHANGED <<pushedAt, abandoned>>

LinkSndControl ==
    /\ \E d \in dropRequests : SndPollControl(d) /\ net' = net \cup {DropReqMsg(d)}
    /\ SenderOnly /\ UNCHANGED <<pushedAt, abandoned>>

LinkLightAck ==
    /\ \E m \in InFlight("lightack") : AckBeyondSent(m.seq) \/ HandleLightAck(m.seq)
    /\ SenderOnly /\ UNCHANGED <<net, pushedAt, abandoned>>

LinkFullAck(seq) ==
    /\ \E m \in InFlight("fullack") :
         /\ m.seq = seq
         /\ \/ AckBeyondSent(seq) /\ UNCHANGED net
            \/ /\ \E pair \in RttPairs : HandleFullAck(seq, m.number, pair[1], pair[2], m.avail)
               /\ net' = IF AckAckDue(m.number) THEN net \cup {AckAckMsg(m.number)} ELSE net
    /\ SenderOnly /\ UNCHANGED <<pushedAt, abandoned>>

LinkNak ==
    /\ \E m \in InFlight("nak") : HandleNak(m.ranges)
    /\ SenderOnly /\ UNCHANGED <<net, pushedAt, abandoned>>

-----------------------------------------------------------------------------
\* The receiving peer.
ReceiverOnly == UNCHANGED <<sndCore, pushedAt, abandoned>>

LinkData ==
    /\ \E m \in InFlight("data"), undecryptable \in DecryptFailures : Ingest(m.pkt, undecryptable)
    /\ ReceiverOnly /\ UNCHANGED <<net, delivered>>

LinkDropReq ==
    /\ \E m \in InFlight("dropreq") : HandleDropReq(m.first, m.last, 0)
    /\ ReceiverOnly /\ UNCHANGED <<net, delivered>>

LinkAckAck ==
    /\ \E m \in InFlight("ackack"), positive \in BOOLEAN : HandleAckAck(m.number, positive)
    /\ ReceiverOnly /\ UNCHANGED <<net, delivered>>

LinkRcvTimer ==
    /\ \E ackDue, repeatDue, nakDue \in BOOLEAN :
         /\ ackDue => ackSeqNo < MaxFullAcks
         /\ RcvOnTimer(ackDue, repeatDue, nakDue)
    /\ ReceiverOnly /\ UNCHANGED <<net, delivered>>

LinkRcvControl ==
    /\ \E m \in rcvControl : RcvPollControl(m) /\ net' = net \cup {m}
    /\ ReceiverOnly /\ UNCHANGED delivered

LinkDeliver ==
    /\ \/ Deliver /\ delivered' = Append(delivered, slots[StopsAt].payload)
       \/ DeliverNone /\ UNCHANGED delivered
    /\ ReceiverOnly /\ UNCHANGED net

-----------------------------------------------------------------------------
Closed == protocolViolation \/ discrepancy

\* Each driver sends what a handler has queued before it handles anything else.
LinkStep ==
    \/ LinkPush
    \/ LinkSndTimer
    \/ LinkTransmit
    \/ LinkLightAck
    \/ \E seq \in SeqNumbers : LinkFullAck(seq)
    \/ LinkNak
    \/ LinkData
    \/ LinkDropReq
    \/ LinkAckAck
    \/ LinkRcvTimer
    \/ LinkDeliver

Ready == ~Closed /\ dropRequests = {} /\ rcvControl = {}

LinkTick == Tick /\ UNCHANGED <<sndCore, rcvCore, net, histVars>>

LinkSendControl == ~Closed /\ (LinkSndControl \/ LinkRcvControl) /\ UNCHANGED now

LinkNext ==
    \/ Ready /\ LinkStep /\ UNCHANGED now
    \/ Ready /\ LinkTick
    \/ LinkSendControl

LinkSpec == LinkInit /\ [][LinkNext]_linkVars

\* Drivers send what is queued, the ACK timer fires, time passes, and a full ACK
\* that is repeated arrives before it is stale.
FreshFullAck == \E seq \in SeqNumbers : ExtOf(seq) >= lastAckIndex /\ LinkFullAck(seq)

AckTimer == RcvOnTimer(TRUE, TRUE, TRUE) /\ ReceiverOnly /\ UNCHANGED <<net, delivered>>

LinkFairness ==
    /\ SF_linkVars(LinkSendControl)
    /\ SF_linkVars(Ready /\ AckTimer /\ UNCHANGED now)
    /\ SF_linkVars(Ready /\ FreshFullAck /\ UNCHANGED now)
    /\ SF_linkVars(Ready /\ LinkTick)

FairLinkSpec == LinkSpec /\ LinkFairness

-----------------------------------------------------------------------------
\* Extended index of a wire sequence number of this stream.
IndexOf(seq) == SeqDiff(seq, InitialSndSeq)

\* Two correct peers never break the connection on each other: no ACK or NAK
\* the receiver emits, however old, repeated or reordered when it arrives, and
\* whatever the sender has dropped meanwhile, names a packet not yet sent.
PeersNeverViolate == ~protocolViolation

\* The connection implements the live stream it promises: through losses,
\* duplicates, reordering, the drops of both sides and the wrap of sequence
\* numbers and timestamps, the application receives submitted messages in
\* submission order, each at most once, and the receiver (poll_deliver) gives up
\* on a message only when its play time has come.
LiveStream ==
    INSTANCE Stream WITH
        Latency <- RcvLatency, clock <- now, submitted <- pushedAt,
        position <- IndexOf(baseSeq), played <- delivered

StreamRefinement == LiveStream!StreamSpec

\* An acknowledged packet is really there: below the position the receiver
\* acknowledges, every packet not yet played is buffered, or was abandoned by
\* the sender first.  An ACK never releases a packet that is still wanted.
AckedIsReceived ==
    \A i \in IndexOf(baseSeq) .. IndexOf(AckValue) - 1 :
        Occupied(i - IndexOf(baseSeq)) \/ i \in abandoned

\* A sequence discrepancy means the sender had abandoned packets: losses and
\* reordering alone never make correct peers break the connection.
DiscrepancyMeansAbandoned == discrepancy => abandoned # {}

\* "Live mode never blocks" (push): a window that light ACKs have used up opens
\* again, since full ACKs never advertise less than the floor of MIN_AVAIL_BUF,
\* the "deadlock breaker".
WindowReopens == (EffectiveWindow = 0) ~> (EffectiveWindow > 0 \/ Closed)
=============================================================================
