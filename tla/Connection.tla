----------------------------- MODULE Connection -----------------------------
(***************************************************************************)
(* The connection state machine of src/core/mod.rs: Connecting,            *)
(* Established, Closed; the packets it owes, its liveness, idle and        *)
(* keepalive timers, and the hand-over of early data and pending sends.    *)
(* Sender, Receiver and CallerHandshake appear by what they return to it.  *)
(*                                                                         *)
(* An Instant `x' of the code is the age `sinceX' here: the time that has  *)
(* passed since x, saturating at MaxAge.                                   *)
(***************************************************************************)
EXTENDS Naturals, Sequences
LOCAL INSTANCE SequencesExt

CONSTANTS
    KeepaliveInterval,   \* KEEPALIVE_INTERVAL
    ExpMaxCount,         \* EXP_MAX_COUNT
    ExpMinInterval,      \* EXP_MIN_INTERVAL_US
    ExpPad,              \* EXP_PAD_US
    ExpPeriods,          \* values SRTT + 4 * RTTVar may take
    PeerIdleTimeout,     \* opts.peer_idle_timeout
    DataIdleTimeouts,    \* opts.data_idle_timeout: {} is None, {w} is Some(w)
    HsRetryInterval,     \* HS_RETRY_INTERVAL
    ConnectTimeout,      \* opts.connect_timeout
    EarlyDataMax,        \* EARLY_DATA_MAX
    SendBufferPkts,      \* opts.send_buffer_pkts
    RecvBufferPkts,      \* buffer_pkts of the receiver
    MaxSends,            \* bound: payloads the application submits
    MaxData,             \* bound: data packets that arrive
    MaxSeq,              \* bound: their sequence numbers, counted from the initial one
    MaxQueue,            \* bound: control packets waiting in transmitQ
    MaxAge               \* bound: ages saturate here

ASSUME ConnectionAssumption ==
    /\ {KeepaliveInterval, ExpMinInterval, PeerIdleTimeout, HsRetryInterval,
        ConnectTimeout} \subseteq Nat \ {0}
    /\ {ExpMaxCount, ExpPad, EarlyDataMax, SendBufferPkts, RecvBufferPkts, MaxSends, MaxData,
        MaxSeq, MaxQueue, MaxAge} \subseteq Nat
    /\ ExpPeriods \subseteq Nat /\ ExpPeriods # {}
    /\ DataIdleTimeouts \subseteq Nat \ {0}

VARIABLES
    state,         \* State
    reason,        \* CloseReason of State::Closed, "none" before
    hsReply,       \* whether hs_reply holds a CONCLUSION response to replay
    connectAge,    \* time since the caller handshake started
    hsWait,        \* time until CallerHandshake.next_send
    pendingSend,   \* State::Connecting.pending_send
    earlyData,     \* State::Connecting.early_data
    transmitQ,     \* control packets owed to the peer
    sinceSent, sinceRecv, sinceData,   \* ages of last_sent, last_recv, last_data
    expCount,      \* exp_count
    period,        \* SRTT + 4 * RTTVar of the receiver
    owed,          \* whether Sender or Receiver has a packet to transmit
    rcv,           \* the Receiver: its base_seq, the slots held, those of them whose
                   \* payload is mute (undecryptable), its discrepancy flag
    submitted,     \* history: payloads Sender.push has accepted, in order
    large,         \* the payloads longer than the negotiated limit
    sends, arrivals   \* history: payloads passed to send, data packets arrived

hsVars == <<hsReply, connectAge, hsWait>>
livenessVars == <<sinceRecv, expCount>>
counters == <<large, sends, arrivals>>
connVars == <<state, reason, hsVars, pendingSend, earlyData, transmitQ, sinceSent,
              livenessVars, sinceData, period, owed, rcv, submitted, counters>>

Blank ==
    /\ reason = "none"
    /\ connectAge = 0 /\ hsWait = 0
    /\ pendingSend = <<>> /\ earlyData = <<>>
    /\ sinceSent = 0 /\ sinceRecv = 0 /\ sinceData = 0
    /\ expCount = 1
    /\ period \in ExpPeriods
    /\ owed = FALSE
    /\ rcv = [base |-> 1, held |-> {}, mute |-> {}, discrepancy |-> FALSE]
    /\ submitted = <<>>
    /\ large = {} /\ sends = 0 /\ arrivals = 0

Connect ==
    /\ state = "Connecting"
    /\ hsReply = FALSE
    /\ transmitQ = <<>>
    /\ Blank

Accepted ==
    /\ state = "Established"
    /\ hsReply = TRUE
    /\ transmitQ = <<"hsreply">>
    /\ Blank

-----------------------------------------------------------------------------
Larger(a, b) == IF a > b THEN a ELSE b
Smaller(a, b) == IF a < b THEN a ELSE b

\* Time from last_recv to the expiry of EXP number `count'.
ExpDeadline(count) == Larger(count * period + ExpPad, count * ExpMinInterval)

Expired == sinceRecv >= ExpDeadline(expCount)

TimedOut == connectAge >= ConnectTimeout

MutDueWithoutKeepalive ==
    \/ transmitQ # <<>>
    \/ state = "Connecting" /\ (hsWait = 0 \/ TimedOut)
    \/ state = "Established" /\ Expired

\* next_deadline has come: handle_timer is to run.
Due ==
    \/ transmitQ # <<>>
    \/ state = "Connecting" /\ (hsWait = 0 \/ TimedOut)
    \/ /\ state = "Established"
       /\ \/ sinceSent >= KeepaliveInterval
          \/ Expired
          \/ \E w \in DataIdleTimeouts : sinceData >= w

MutCloseWithShutdown(q, why, shutdown) ==
    /\ state' = "Closed"
    /\ reason' = why
    /\ transmitQ' = Append(q, "shutdown")
    /\ sinceSent' = 0
    /\ pendingSend' = <<>> /\ earlyData' = <<>>
    /\ owed' = FALSE

\* close_with: State::Connecting drops its queues, State::Established keeps the
\* receiver only.  `q' is transmit_q as the handler has left it.
CloseWith(q, why, shutdown) ==
    /\ state' = "Closed"
    /\ reason' = why
    /\ transmitQ' = IF shutdown THEN Append(q, "shutdown") ELSE q
    /\ sinceSent' = IF shutdown THEN 0 ELSE sinceSent
    /\ pendingSend' = <<>> /\ earlyData' = <<>>
    /\ owed' = FALSE

Open(q) ==
    /\ transmitQ' = q
    /\ UNCHANGED <<state, reason, sinceSent>>

Touch == sinceRecv' = 0 /\ expCount' = 1

\* Packets other than data of this direction leave these alone.
NoData == UNCHANGED <<sinceData, rcv, arrivals>>

-----------------------------------------------------------------------------
\* handle_packet.  Packets for another socket id change nothing.

\* KEEPALIVE, CONGESTION-WARNING, PEERERROR, unknown control types, ACKACK,
\* KMRSP, handshake packets that are ignored: liveness only.  An ACKACK gives the
\* receiver a new RTT sample.
HandleOther ==
    /\ state # "Closed"
    /\ Touch
    /\ period' \in (IF state = "Established" THEN ExpPeriods ELSE {period})
    /\ UNCHANGED <<state, reason, transmitQ, sinceSent, owed, pendingSend, earlyData,
                   submitted, large, sends, hsVars>>
    /\ NoData

HandleShutdown ==
    /\ state # "Closed"
    /\ Touch
    /\ CloseWith(transmitQ, "Shutdown", FALSE)
    /\ UNCHANGED <<submitted, large, sends, period, hsVars>>
    /\ NoData

\* A data packet: its place in the sequence, and whether its payload can be decrypted
\* and is within the negotiated size limit ("large": over it, "huge": also over
\* the local one).
DataPackets == [seq : 1 .. MaxSeq, payload : {"good", "undecryptable", "large", "huge"}]

MutIngestBelated(r, pkt) ==
    LET beyond == pkt.seq >= r.base + RecvBufferPkts IN
    IF pkt.payload \in {"large", "huge"} \/ pkt.seq \in r.held THEN r
    ELSE IF beyond THEN [r EXCEPT !.discrepancy = @ \/ r.held = {}]
    ELSE [r EXCEPT !.held = @ \cup {pkt.seq},
                   !.mute = IF pkt.payload = "good" THEN @ ELSE @ \cup {pkt.seq}]

\* ingest_data and Receiver.store_data: a packet takes the slot of its sequence number,
\* decrypted or not, unless it is too large, belated, a duplicate or beyond the buffer;
\* beyond an empty buffer, reception can never resume.
Ingest(r, pkt) ==
    LET beyond == pkt.seq >= r.base + RecvBufferPkts IN
    IF pkt.payload \in {"large", "huge"} \/ pkt.seq < r.base \/ pkt.seq \in r.held THEN r
    ELSE IF beyond THEN [r EXCEPT !.discrepancy = @ \/ r.held = {}]
    ELSE [r EXCEPT !.held = @ \cup {pkt.seq},
                   !.mute = IF pkt.payload = "good" THEN @ ELSE @ \cup {pkt.seq}]

\* Data before establishment is buffered while there is room, unless it is too large
\* for this side.
HandleEarlyData ==
    /\ state = "Connecting"
    /\ arrivals < MaxData
    /\ Touch
    /\ arrivals' = arrivals + 1
    /\ sinceData' = 0
    /\ \E pkt \in DataPackets :
         earlyData' = IF pkt.payload # "huge" /\ Len(earlyData) < EarlyDataMax
                      THEN Append(earlyData, pkt) ELSE earlyData
    /\ Open(transmitQ)
    /\ UNCHANGED <<owed, pendingSend, rcv, submitted, large, sends, period, hsVars>>

\* The receiver takes the packet and may owe an ACK or a NAK; a discrepancy, of this
\* packet or of the early data, breaks the connection.
HandleData ==
    /\ state = "Established"
    /\ arrivals < MaxData
    /\ Touch
    /\ arrivals' = arrivals + 1
    /\ sinceData' = 0
    /\ \E pkt \in DataPackets : rcv' = Ingest(rcv, pkt)
    /\ \/ /\ rcv'.discrepancy
          /\ CloseWith(transmitQ, "SequenceDiscrepancy", TRUE)
       \/ /\ ~rcv'.discrepancy
          /\ Open(transmitQ)
          /\ owed' \in {owed, TRUE}
          /\ UNCHANGED <<pendingSend, earlyData>>
    /\ UNCHANGED <<submitted, large, sends, period, hsVars>>

\* A DROPREQ empties the slots of the message it names.
HandleDropReq ==
    /\ state = "Established"
    /\ Touch
    /\ \E gone \in SUBSET rcv.held :
         rcv' = [rcv EXCEPT !.held = @ \ gone, !.mute = @ \ gone]
    /\ Open(transmitQ)
    /\ UNCHANGED <<owed, pendingSend, earlyData, submitted, counters, sinceData, period, hsVars>>

\* An ACK may owe an ACKACK and, on a secured connection, a KMREQ; a NAK may
\* owe retransmissions; either may name data never sent.
HandleAckNak ==
    /\ state = "Established"
    /\ Len(transmitQ) + 2 <= MaxQueue
    /\ Touch
    /\ \E km \in {<<>>, <<"kmreq">>}, reply \in {<<>>, <<"ackack">>} :
         \/ Open(transmitQ \o km \o reply) /\ owed' \in {owed, TRUE}
            /\ UNCHANGED <<pendingSend, earlyData>>
         \/ CloseWith(transmitQ, "Local", TRUE)
    /\ UNCHANGED <<submitted, large, sends, period, hsVars>>
    /\ NoData

\* An in-stream KMREQ that installs is echoed.
HandleKmReq ==
    /\ state = "Established"
    /\ Len(transmitQ) < MaxQueue
    /\ Touch
    /\ Open(Append(transmitQ, "kmrsp"))
    /\ UNCHANGED <<owed, pendingSend, earlyData, submitted, large, sends, period, hsVars>>
    /\ NoData

\* A repeated CONCLUSION is answered with the stored response.
HandleConclusionAgain ==
    /\ state = "Established" /\ hsReply
    /\ Len(transmitQ) < MaxQueue
    /\ Touch
    /\ Open(Append(transmitQ, "hsreply"))
    /\ UNCHANGED <<owed, pendingSend, earlyData, submitted, large, sends, period, hsVars>>
    /\ NoData

\* An induction response moves the caller to its conclusion: send at once.
HandleInduction ==
    /\ state = "Connecting"
    /\ Touch
    /\ hsWait' = 0
    /\ Open(transmitQ)
    /\ UNCHANGED <<owed, pendingSend, earlyData, submitted, large, sends, period, hsReply, connectAge>>
    /\ NoData

\* A rejection, or a response the caller cannot accept.
HandleRejection ==
    /\ state = "Connecting"
    /\ Touch
    /\ CloseWith(transmitQ, "Rejected", FALSE)
    /\ UNCHANGED <<submitted, large, sends, period, hsVars>>
    /\ NoData

\* establish: the receiver takes the early data as it takes any packet, in the order
\* of arrival; the sender takes the pending payloads in order, and refuses those over
\* the limit that has just been negotiated.
Establish ==
    /\ state = "Connecting"
    /\ state' = "Established"
    /\ sinceRecv' = 0 /\ sinceData' = 0 /\ expCount' = 1
    /\ period' \in ExpPeriods
    /\ rcv' = FoldLeft(Ingest, rcv, earlyData)
    /\ submitted' = SelectSeq(pendingSend, LAMBDA payload : payload \notin large)
    /\ pendingSend' = <<>> /\ earlyData' = <<>>
    /\ owed' \in (IF submitted' = <<>> /\ earlyData = <<>> THEN {FALSE} ELSE BOOLEAN)
    /\ UNCHANGED <<reason, transmitQ, sinceSent, counters, hsVars>>

-----------------------------------------------------------------------------
\* handle_timer.

TimerConnecting ==
    /\ state = "Connecting"
    /\ IF TimedOut
       THEN CloseWith(transmitQ, "ConnectTimeout", FALSE)
       ELSE Open(transmitQ) /\ UNCHANGED <<pendingSend, earlyData, owed>>
    /\ UNCHANGED <<submitted, large, sends, period, hsVars, livenessVars>>
    /\ NoData

MutPeerIdleByTime == Expired /\ sinceRecv >= PeerIdleTimeout

MutPeerIdleOneMore == Expired /\ expCount > ExpMaxCount + 1 /\ sinceRecv >= PeerIdleTimeout

PeerIdle == Expired /\ expCount > ExpMaxCount /\ sinceRecv >= PeerIdleTimeout

MutDataIdleStrict == \E w \in DataIdleTimeouts : sinceData > w

DataIdle == \E w \in DataIdleTimeouts : sinceData >= w
KeepaliveDue == ~PeerIdle /\ ~DataIdle /\ sinceSent >= KeepaliveInterval

TimerEstablished ==
    /\ state = "Established"
    /\ expCount' = IF Expired /\ ~PeerIdle THEN expCount + 1 ELSE expCount
    /\ \/ /\ PeerIdle
          /\ CloseWith(transmitQ, "PeerIdle", TRUE)
       \/ /\ DataIdle /\ ~PeerIdle
          /\ CloseWith(transmitQ, "DataIdle", TRUE)
       \/ /\ ~PeerIdle /\ ~DataIdle
          /\ transmitQ' = IF KeepaliveDue THEN Append(transmitQ, "keepalive") ELSE transmitQ
          /\ sinceSent' = IF KeepaliveDue THEN 0 ELSE sinceSent
          /\ owed' \in {owed, TRUE}
          /\ UNCHANGED <<state, reason, pendingSend, earlyData>>
    /\ UNCHANGED <<sinceRecv, submitted, large, sends, period, hsVars>>
    /\ NoData

HandleTimer == TimerConnecting \/ TimerEstablished

-----------------------------------------------------------------------------
\* Calls of the application; a closed connection refuses both.  A payload over the
\* local limit is refused before it gets here; `isLarge': over the negotiated one.

Submit(isLarge) ==
    /\ sends < MaxSends
    /\ sends' = sends + 1
    /\ large' = IF isLarge THEN large \cup {sends'} ELSE large

\* Before establishment the oldest payload makes room for the newest.
SendPending(isLarge) ==
    /\ state = "Connecting"
    /\ Submit(isLarge)
    /\ pendingSend' = Append(IF Len(pendingSend) >= SendBufferPkts /\ pendingSend # <<>>
                             THEN Tail(pendingSend) ELSE pendingSend, sends')
    /\ Open(transmitQ)
    /\ UNCHANGED <<earlyData, owed, submitted, period, hsVars, livenessVars>>
    /\ NoData

\* Sender.push takes the payload or refuses it; its pacer decides when it is owed.
SendEstablished(isLarge) ==
    /\ state = "Established"
    /\ Submit(isLarge)
    /\ submitted' = IF isLarge THEN submitted ELSE Append(submitted, sends')
    /\ owed' \in (IF isLarge THEN {owed} ELSE {owed, TRUE})
    /\ Open(transmitQ)
    /\ UNCHANGED <<pendingSend, earlyData, period, hsVars, livenessVars>>
    /\ NoData

Send(isLarge) == SendPending(isLarge) \/ SendEstablished(isLarge)

\* The peer learns of a local close only once it knows this socket.
Close ==
    /\ state # "Closed"
    /\ CloseWith(transmitQ, "Local", state = "Established")
    /\ UNCHANGED <<submitted, large, sends, period, hsVars, livenessVars>>
    /\ NoData
=============================================================================
