------------------------------- MODULE Driver -------------------------------
(***************************************************************************)
(* The driver task of src/socket.rs around one Connection, and the handle  *)
(* the application holds.  The task repeats: wait for a datagram, a due    *)
(* deadline or a command, let the connection handle it, then one turn that *)
(* transmits, delivers and publishes everything the connection owes.       *)
(* Time passes in unit steps; a task that has something to do gets to it   *)
(* within MaxLate.                                                         *)
(***************************************************************************)
EXTENDS Connection
LOCAL INSTANCE SequencesExt

CONSTANTS
    CmdQueue,     \* CMD_QUEUE
    DataQueue,    \* depth of the data channel: opts.recv_buffer_pkts.max(16)
    MaxLate       \* bound: scheduling delay of the driver task

ASSUME DriverAssumption == {CmdQueue, DataQueue, MaxLate} \subseteq Nat

VARIABLES
    pc,            \* "turn": draining, "select": waiting, "done": task finished
    late,          \* how long the task has had something to do
    cmdQ,          \* commands from the handle
    handle,        \* the application's SrtSocket: "open", "closing" or "dropped"
    dataQ,         \* payloads released to the application and not yet read
    readUpTo,      \* history: last payload the application has read
    announced,     \* whether establishment has been signalled
    closeReason,   \* reason shared with the handle
    lastWire,      \* history: last packet handed to UDP, "shutdown" or "other"
    sinceWire      \* history: time since then

taskVars == <<pc, late, announced, closeReason>>
appVars == <<cmdQ, handle, dataQ, readUpTo>>
wireVars == <<lastWire, sinceWire>>
driverVars == <<connVars, taskVars, appVars, wireVars>>

DriverInit ==
    /\ Connect \/ Accepted
    /\ pc = "turn"
    /\ late = 0
    /\ cmdQ = <<>> /\ handle = "open" /\ dataQ = <<>> /\ readUpTo = 0
    /\ announced = (state = "Established")
    /\ closeReason = "none"
    /\ lastWire = "none" /\ sinceWire = 0

-----------------------------------------------------------------------------
\* One turn of the loop: the poll_transmit and poll_deliver drains, the shared
\* state, and the end of the task once the connection is closed.

HsRequestDue == state = "Connecting" /\ ~TimedOut /\ hsWait = 0

Transmitted ==
    transmitQ \o (IF HsRequestDue THEN <<"hsrequest">> ELSE <<>>)
              \o (IF state = "Established" /\ owed THEN <<"media">> ELSE <<>>)

InOrder(seqs) == SetToSortSeq(seqs, <)

\* poll_deliver releases, in sequence order, the packets whose play time has come and
\* skips the holes before them: the base_seq it may stop at.  Once closed,
\* everything that plays within CLOSE_DRAIN_HORIZON is flushed: nearly always all.
Released == {rcv.base} \cup {seq + 1 : seq \in rcv.held}

\* deliver: never blocks, the payloads that find the channel full are dropped.  The
\* undecryptable ones end here.
Delivered(base) ==
    LET due == InOrder({seq \in rcv.held \ rcv.mute : seq < base}) IN
    IF handle = "dropped" THEN <<>>
    ELSE SubSeq(dataQ \o due, 1, Smaller(Len(dataQ) + Len(due), Larger(Len(dataQ), DataQueue)))

Turn ==
    /\ pc = "turn"
    /\ transmitQ' = <<>> /\ owed' = FALSE
    /\ hsWait' = IF HsRequestDue THEN HsRetryInterval ELSE hsWait
    /\ IF Transmitted = <<>>
       THEN UNCHANGED <<sinceSent, wireVars>>
       ELSE /\ lastWire' = IF Transmitted[Len(Transmitted)] = "shutdown" THEN "shutdown"
                           ELSE "other"
            /\ sinceSent' = 0 /\ sinceWire' = 0
    /\ \E base \in Released :
         /\ dataQ' = Delivered(base)
         /\ LET left == {seq \in rcv.held : seq >= base} IN
            rcv' = [rcv EXCEPT !.base = base, !.held = left, !.mute = @ \cap left]
    /\ announced' = (announced \/ state = "Established")
    /\ closeReason' = reason
    /\ pc' = IF state = "Closed" THEN "done" ELSE "select"
    /\ UNCHANGED <<late, cmdQ, handle, readUpTo, state, reason, hsReply, connectAge,
                   pendingSend, earlyData, livenessVars, sinceData, period, submitted,
                   counters>>

-----------------------------------------------------------------------------
\* The branches of select!.
ToTurn == pc = "select" /\ pc' = "turn" /\ UNCHANGED <<late, announced, closeReason, wireVars>>

Datagram ==
    \/ HandleOther \/ HandleShutdown \/ HandleEarlyData \/ HandleData \/ HandleDropReq
    \/ HandleAckNak \/ HandleKmReq \/ HandleConclusionAgain \/ HandleInduction \/ HandleRejection \/ Establish

DriverRecv == ToTurn /\ Datagram /\ UNCHANGED appVars

\* Deadlines of the sender and the receiver run the timer at any time.
DriverTimer ==
    /\ ToTurn
    /\ Due \/ state = "Established"
    /\ HandleTimer
    /\ UNCHANGED appVars

DriverCmd ==
    /\ ToTurn
    /\ cmdQ # <<>>
    /\ cmdQ' = Tail(cmdQ)
    /\ IF Head(cmdQ) = "close" THEN Close ELSE Send(Head(cmdQ) = "sendlarge")
    /\ UNCHANGED <<handle, dataQ, readUpTo>>

\* The handle is gone and its commands are consumed.
DriverHandleGone ==
    /\ ToTurn
    /\ cmdQ = <<>> /\ handle = "dropped"
    /\ Close
    /\ UNCHANGED appVars

\* An accepted connection whose listener driver has exited.
DriverSourceGone == ToTurn /\ hsReply /\ Close /\ UNCHANGED appVars

-----------------------------------------------------------------------------
\* The application.  The handle refuses a payload over the limit it knows: the local
\* one until establishment is announced, then the negotiated one.
AppSend ==
    /\ handle = "open" /\ pc # "done"
    /\ Len(cmdQ) < CmdQueue
    /\ sends + Len(cmdQ) < MaxSends
    /\ \E cmd \in (IF announced THEN {"send"} ELSE {"send", "sendlarge"}) :
         cmdQ' = Append(cmdQ, cmd)
    /\ UNCHANGED <<handle, dataQ, readUpTo>>

\* close(): queue the command, then wait for the task; nothing is read again.
AppClose ==
    /\ handle = "open"
    /\ pc # "done" => Len(cmdQ) < CmdQueue
    /\ cmdQ' = IF pc = "done" THEN cmdQ ELSE Append(cmdQ, "close")
    /\ handle' = "closing"
    /\ UNCHANGED <<dataQ, readUpTo>>

AppDrop ==
    /\ handle = "open"
    /\ handle' = "dropped" /\ dataQ' = <<>>
    /\ UNCHANGED <<cmdQ, readUpTo>>

AppRecv ==
    /\ handle = "open" /\ dataQ # <<>>
    /\ readUpTo' = Head(dataQ) /\ dataQ' = Tail(dataQ)
    /\ UNCHANGED <<cmdQ, handle>>

App == (AppSend \/ AppClose \/ AppDrop \/ AppRecv) /\ UNCHANGED <<connVars, taskVars, wireVars>>

-----------------------------------------------------------------------------
Busy == pc = "turn" \/ (pc = "select" /\ Due)

Older(age) == Smaller(age + 1, MaxAge)

Tick ==
    /\ pc # "done"
    /\ Busy => late < MaxLate
    /\ late' = IF Busy THEN late + 1 ELSE 0
    /\ connectAge' = IF state = "Connecting" THEN connectAge + 1 ELSE connectAge
    /\ hsWait' = IF hsWait > 0 /\ state = "Connecting" THEN hsWait - 1 ELSE hsWait
    /\ sinceSent' = Older(sinceSent) /\ sinceRecv' = Older(sinceRecv)
    /\ sinceData' = Older(sinceData) /\ sinceWire' = Older(sinceWire)
    /\ UNCHANGED <<state, reason, hsReply, pendingSend, earlyData, transmitQ, expCount,
                   period, owed, rcv, submitted, counters, pc, announced,
                   closeReason, appVars, lastWire>>

DriverNext ==
    \/ Turn \/ DriverRecv \/ DriverTimer \/ DriverCmd \/ DriverHandleGone \/ DriverSourceGone
    \/ App
    \/ Tick

DriverSpec == DriverInit /\ [][DriverNext]_driverVars

\* The task runs while it has work; select! polls its ready branches in random
\* order, so a due timer is not starved by datagrams; time goes on whatever arrives.
DriverFairness ==
    /\ WF_driverVars(Turn)
    /\ SF_driverVars(Due /\ DriverTimer)
    /\ SF_driverVars(Tick)

FairDriverSpec == DriverSpec /\ DriverFairness

-----------------------------------------------------------------------------
\* SHUTDOWN is the last word: at most one is ever owed, only an established
\* connection that this side broke owes it, nothing is queued or sent after it,
\* and the driver task does not finish before it has gone out.
ShutdownIsLast ==
    /\ \A i \in 1 .. Len(transmitQ) :
         transmitQ[i] = "shutdown" => i = Len(transmitQ) /\ state = "Closed" /\ lastWire # "shutdown"
    /\ lastWire = "shutdown" => transmitQ = <<>> /\ state = "Closed"
    /\ reason \in {"PeerIdle", "DataIdle", "SequenceDiscrepancy"} /\ pc = "done"
         => lastWire = "shutdown"
    /\ reason \in {"Shutdown", "Rejected", "ConnectTimeout"} => lastWire # "shutdown"

\* A peer is declared idle only after a silence of the whole idle timeout and of
\* more than EXP_MAX_COUNT expirations, however late or often the timer runs.
PeerIdleIsSilence ==
    reason = "PeerIdle" =>
        sinceRecv >= Larger(PeerIdleTimeout, (ExpMaxCount + 1) * ExpMinInterval)

\* A silent peer is noticed: an established connection never outlives the first
\* EXP expiry past EXP_MAX_COUNT that is not below the idle timeout, nor its
\* data idle timeout, by more than the delay of the task itself.
SilenceIsNoticed ==
    state = "Established" =>
        /\ \A c \in ExpMaxCount + 1 .. ExpMaxCount + PeerIdleTimeout :
             ExpDeadline(c) >= PeerIdleTimeout => sinceRecv <= ExpDeadline(c) + MaxLate
        /\ \A w \in DataIdleTimeouts : sinceData <= w + MaxLate

\* The peer hears from an established connection at least every keepalive
\* interval: what counts as sent for the timer really left for the wire.
NeverSilent ==
    state = "Established" /\ lastWire # "none" => sinceWire <= KeepaliveInterval + MaxLate

\* Nothing is reordered or repeated on the way through the connection.  Payloads
\* submitted before and after establishment reach the sender in order, none of them
\* over the negotiated limit; one within the limit is missing only if the queue of
\* pending payloads overflowed with newer ones, and then nothing older is left.
\* Whatever the order in which packets arrive, before and after establishment, the
\* application reads them in sequence order, each once.  No queue on the way
\* outgrows its limit.
FlowsInOrder ==
    LET out == submitted \o pendingSend
        in == <<readUpTo>> \o dataQ \o InOrder(rcv.held \ rcv.mute) IN
    /\ state # "Closed" =>
         /\ \A k \in 1 .. Len(out) - 1 : out[k] < out[k + 1]
         /\ \A k \in 1 .. Len(submitted) : submitted[k] \notin large
         /\ \A payload \in (1 .. sends) \ large :
              \/ \E k \in 1 .. Len(out) : out[k] = payload
              \/ /\ sends - payload >= Larger(SendBufferPkts, 1)
                 /\ \A k \in 1 .. Len(out) : out[k] > payload
    /\ \A k \in 1 .. Len(in) - 1 : in[k] < in[k + 1]
    /\ Len(pendingSend) <= Larger(SendBufferPkts, 1) /\ Len(earlyData) <= EarlyDataMax
    /\ Len(dataQ) <= DataQueue /\ Len(cmdQ) <= CmdQueue

\* The driver never spins: whatever made a deadline due is done with after
\* finitely many turns (the deadline moves on, or the connection ends).
DeadlinesPass == Due ~> ~Due
=============================================================================
