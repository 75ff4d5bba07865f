------------------------------ MODULE Handshake ------------------------------
(***************************************************************************)
(* Connection set-up: the caller handshakes and the stateless responder of *)
(* src/core/handshake.rs, and the listener driver of src/listener.rs that  *)
(* demultiplexes datagrams to the connections it has accepted.             *)
(*                                                                         *)
(* A caller stands for one connect(): its address, socket id and initial   *)
(* sequence number.  A datagram once sent may arrive any number of times,  *)
(* in any order and any later, or be lost for good.                        *)
(***************************************************************************)
EXTENDS Naturals, Sequences, FiniteSets, Functions

CONSTANTS
    Callers,         \* connection attempts
    SocketIds,       \* ids the listener may draw
    Passphrases,     \* passphrases, without "none"
    KeyLens,         \* option values of pbkeylen, in bytes; 0 for unset
    StreamIds,       \* option values of streamid, "none" included
    Latencies,       \* option values of latency and peer_latency, in time units
    MssValues,       \* option values of mss
    UnitsPerMs,      \* time units in a millisecond
    MaxMs,           \* u16::MAX
    RequestFaults,   \* what may be wrong with a caller's CONCLUSION, "none" included
    ResponseFaults,  \* what may be wrong with a listener's responses, "none" included
    Minute,          \* clock ticks in a minute of the cookie
    ConnectTimeout,  \* opts.connect_timeout, in clock ticks
    AcceptBacklog,   \* ACCEPT_BACKLOG
    MaxClock,        \* bound: clock
    MaxAccepts       \* bound: connections accepted

ASSUME HandshakeAssumption ==
    /\ "none" \notin Passphrases
    /\ KeyLens \subseteq {0, 16, 24, 32} /\ "none" \in StreamIds
    /\ Latencies \subseteq Nat /\ MssValues \subseteq Nat
    /\ {UnitsPerMs, MaxMs, Minute} \subseteq Nat \ {0}
    /\ {ConnectTimeout, AcceptBacklog, MaxClock, MaxAccepts} \subseteq Nat
    /\ "none" \in RequestFaults \cap ResponseFaults

VARIABLES
    clock,       \* time, in ticks
    opts,        \* options of each caller
    lopts,       \* options of the listener
    caller,      \* CallerHandshake and the Connection around it, per caller
    net,         \* datagrams on their way
    acceptRx,    \* whether the SrtListener handle exists
    acceptOpen,  \* ListenerDriver.accept_open
    acceptQ,     \* ids of accepted sockets the application has not taken
    conns,       \* ListenerDriver.conns: socket id -> caller
    byPeer,      \* ListenerDriver.by_peer: caller -> socket id
    tasks,       \* driver tasks of accepted connections
    finished,    \* whether the listener driver has returned
    accepts      \* history: Negotiated of every connection accepted

listenerVars == <<acceptRx, acceptOpen, acceptQ, conns, byPeer, tasks, finished, accepts>>
hsVars == <<clock, opts, lopts, caller, net, listenerVars>>

-----------------------------------------------------------------------------
MsU16(d) == IF d \div UnitsPerMs < MaxMs THEN d \div UnitsPerMs ELSE MaxMs
MsDur(ms) == ms * UnitsPerMs
Greater(a, b) == IF a > b THEN a ELSE b
Lesser(a, b) == IF a < b THEN a ELSE b

Options(faults) ==
    [pass : Passphrases \cup {"none"}, keyLen : KeyLens, sid : StreamIds, latency : Latencies, peerLatency : Latencies,
     mss : MssValues, fault : faults]

Idle == [st |-> "Idle", start |-> 0, cookie |-> 0, keyLen |-> 0, why |-> "none", neg |-> {}]

\* The Encryption Field that advertises a PBKEYLEN, 0 when it is unset, and its
\* inverse: 0 also for the values that are no advert.
DefaultKeyLen == 16
PbkeylenBits(len) == IF len = 0 THEN 0 ELSE len \div 8
PbkeylenFromBits(bits) == IF bits \in 2..4 THEN bits * 8 ELSE 0

\* The listener's advert wins over the caller's own PBKEYLEN.
AdoptPeerPbkeylen(own, advert) ==
    IF PbkeylenFromBits(advert) # 0 THEN PbkeylenFromBits(advert) ELSE own

HandshakeInit ==
    /\ clock = 0
    /\ opts \in [Callers -> Options(RequestFaults)]
    /\ lopts \in Options(ResponseFaults)
    /\ caller = [c \in Callers |-> Idle]
    /\ net = {}
    /\ acceptRx = TRUE /\ acceptOpen = TRUE /\ acceptQ = <<>>
    /\ conns = <<>> /\ byPeer = <<>>
    /\ tasks = {} /\ finished = FALSE
    /\ accepts = {}

\* Messages, to or from the caller `c'.
InductionReq(c) == [type |-> "inductionReq", c |-> c]
InductionRsp(c, cookie) ==
    [type |-> "inductionRsp", c |-> c, cookie |-> cookie,
     enc |-> IF lopts.fault = "advert" THEN 7 ELSE PbkeylenBits(lopts.keyLen)]
KmReq(c) ==
    IF opts[c].pass = "none" THEN {}
    ELSE {[sek |-> c, pass |-> opts[c].pass,
           len |-> IF caller[c].keyLen = 0 THEN DefaultKeyLen ELSE caller[c].keyLen]}
\* An empty stream id is not attached.
AttachedSid(sid) == IF sid = "" THEN "none" ELSE sid
ConclusionReq(c, cookie) ==
    [type |-> "conclusionReq", c |-> c, cookie |-> cookie, km |-> KmReq(c), mss |-> opts[c].mss,
     sid |-> AttachedSid(opts[c].sid),
     recvMs |-> MsU16(opts[c].latency), sendMs |-> MsU16(opts[c].peerLatency)]
ConclusionRsp(neg) ==
    [type |-> "conclusionRsp", c |-> neg.peer, id |-> neg.local, mss |-> neg.mss,
     km |-> IF lopts.fault \in {"unsecured", "noecho"} THEN {} ELSE neg.key,
     recvMs |-> MsU16(neg.rcvLatency), sendMs |-> MsU16(neg.sndLatency)]
Rejection(c, code) == [type |-> "rejection", c |-> c, code |-> code]
ShutdownTo(c) == [type |-> "shutdown", c |-> c]
ShutdownFrom(c, id) == [type |-> "goodbye", c |-> c, id |-> id]

-----------------------------------------------------------------------------
\* The caller.
Trying(c) == caller[c].st \in {"Induction", "Conclusion"}
CallerTimedOut(c) == clock >= caller[c].start + ConnectTimeout

CallerStart(c) ==
    /\ caller[c].st = "Idle"
    /\ caller' = [caller EXCEPT ![c].st = "Induction", ![c].start = clock]
    /\ UNCHANGED net

\* poll_transmit: the request of the current phase, again and again.
CallerTransmit(c) ==
    /\ Trying(c) /\ ~CallerTimedOut(c)
    /\ net' = net \cup {IF caller[c].st = "Induction" THEN InductionReq(c)
                        ELSE ConclusionReq(c, caller[c].cookie)}
    /\ UNCHANGED caller

CallerFail(c, why) == caller' = [caller EXCEPT ![c].st = "Closed", ![c].why = why]

\* handle_timer once the deadline has passed; handlers may run just before it.
CallerTimeout(c) ==
    /\ Trying(c) /\ CallerTimedOut(c)
    /\ CallerFail(c, "TIMEOUT")
    /\ UNCHANGED net

\* on_induction_response: a listener that is not HSv5 ends the attempt.
CallerInduction(c) ==
    /\ caller[c].st = "Induction"
    /\ \E m \in net :
         /\ m.type = "inductionRsp" /\ m.c = c
         /\ IF lopts.fault = "hsv4" THEN CallerFail(c, "VERSION")
            ELSE caller' = [caller EXCEPT ![c].st = "Conclusion", ![c].cookie = m.cookie,
                                          ![c].keyLen = AdoptPeerPbkeylen(opts[c].keyLen, m.enc)]
    /\ UNCHANGED net

MutResponseKmIgnored(c, m) ==
    CASE lopts.fault = "version0" -> "PEER"
      [] lopts.fault = "hsv4conclusion" -> "VERSION"
      [] lopts.fault \in {"invalid", "isn", "extension", "oldsrt"} -> "ROGUE"
      [] lopts.fault = "stream" -> "MESSAGEAPI"
      [] OTHER -> "none"

\* Code of the first check of on_conclusion_response that fails, "none" if all
\* pass.  A responder that reports UNSECURED in place of the echo is accepted.
ResponseVerdict(c, m) ==
    CASE lopts.fault = "version0" -> "PEER"
      [] lopts.fault = "hsv4conclusion" -> "VERSION"
      [] lopts.fault \in {"invalid", "isn", "extension", "oldsrt"} -> "ROGUE"
      [] lopts.fault = "stream" -> "MESSAGEAPI"
      [] lopts.fault = "unsecured" /\ KmReq(c) # {} -> "none"
      [] KmReq(c) = {} /\ m.km # {} -> "ENCRYPTION"
      [] m.km # KmReq(c) -> "UNSECURE"
      [] OTHER -> "none"

MutNegotiatedSwapped(c, m) ==
    [peer |-> m.id, mss |-> m.mss, key |-> KmReq(c), echo |-> m.km, sid |-> opts[c].sid,
     sndLatency |-> MsDur(m.sendMs), rcvLatency |-> MsDur(m.recvMs)]

\* The caller keeps its own key, whatever the response says of it in `echo'.
CallerNegotiated(c, m) ==
    [peer |-> m.id, mss |-> m.mss, key |-> KmReq(c), echo |-> m.km, sid |-> opts[c].sid,
     sndLatency |-> MsDur(m.recvMs), rcvLatency |-> MsDur(m.sendMs)]

CallerConclusion(c) ==
    /\ caller[c].st = "Conclusion"
    /\ \E m \in net :
         /\ m.type = "conclusionRsp" /\ m.c = c
         /\ IF ResponseVerdict(c, m) # "none" THEN CallerFail(c, ResponseVerdict(c, m))
            ELSE caller' = [caller EXCEPT ![c].st = "Established",
                                          ![c].neg = {CallerNegotiated(c, m)}]
    /\ UNCHANGED net

\* Without a passphrase of one's own, UNSECURE says that the peer wants one.
RejectError(c, code) ==
    IF code = "UNSECURE" /\ opts[c].pass = "none" THEN "ENCRYPTION" ELSE code

CallerRejected(c) ==
    /\ Trying(c)
    /\ \E m \in net :
         m.type = "rejection" /\ m.c = c /\ CallerFail(c, RejectError(c, m.code))
    /\ UNCHANGED net

\* A SHUTDOWN closes the connection in every state that is not closed.
CallerShutdown(c) ==
    /\ Trying(c) \/ caller[c].st = "Established"
    /\ ShutdownTo(c) \in net
    /\ CallerFail(c, "SHUTDOWN")
    /\ UNCHANGED net

\* Local close, or an idle timeout once established.
CallerClose(c) ==
    /\ Trying(c) \/ caller[c].st = "Established"
    /\ CallerFail(c, "LOCAL")
    /\ net' = net \cup {ShutdownFrom(c, n.peer) : n \in caller[c].neg}

-----------------------------------------------------------------------------
\* The responder: Listener.handle_handshake, without state per peer.
CookieAt(minute) == minute
CurrentMinute == clock \div Minute

MutCookieThisMinute(cookie) == cookie = CookieAt(CurrentMinute)

CookieOk(cookie) ==
    \/ cookie = CookieAt(CurrentMinute)
    \/ CurrentMinute > 0 /\ cookie = CookieAt(CurrentMinute - 1)

\* The matrix of local passphrase and received KMREQ.
KmVerdict(km) ==
    CASE lopts.pass = "none" /\ km = {} -> "none"
      [] lopts.pass = "none" \/ km = {} -> "UNSECURE"
      [] \A k \in km : k.pass = lopts.pass -> "none"
      [] OTHER -> "BADSECRET"

\* What on_conclusion does with a request: "drop" it silently, reject it with a
\* code, or accept it ("none").
RequestVerdict(m) ==
    LET fault == opts[m.c].fault IN
    CASE fault = "invalid" \/ ~CookieOk(m.cookie) -> "drop"
      [] fault = "version" -> "VERSION"
      [] fault \in {"extension", "oldsrt"} -> "ROGUE"
      [] fault = "stream" -> "MESSAGEAPI"
      [] fault = "congestion" -> "CONGESTION"
      [] fault = "filter" -> "FILTER"
      [] fault = "malformed" -> "ROGUE"
      [] OTHER -> KmVerdict(m.km)

MutNegotiateOwn(m, id) ==
    [local |-> id, peer |-> m.c, key |-> m.km, sid |-> m.sid, mss |-> Lesser(lopts.mss, m.mss),
     rcvLatency |-> lopts.latency, sndLatency |-> lopts.peerLatency]

\* Each direction takes the larger of what its receiver and its sender ask for.
Negotiate(m, id) ==
    [local |-> id, peer |-> m.c, key |-> m.km, sid |-> m.sid, mss |-> Lesser(lopts.mss, m.mss),
     rcvLatency |-> Greater(lopts.latency, MsDur(m.sendMs)),
     sndLatency |-> Greater(lopts.peerLatency, MsDur(m.recvMs))]

-----------------------------------------------------------------------------
\* The listener driver.
Put(f, k, v) == [x \in DOMAIN f \cup {k} |-> IF x = k THEN v ELSE f[x]]

MutAnySocketId == SocketIds

UnusedSocketIds == SocketIds \ DOMAIN conns

Requests(c, type) == {m \in net : m.type = type /\ m.c = c}
NewPeer(c) == ~finished /\ c \notin DOMAIN byPeer

ListenerInduction(c) ==
    /\ NewPeer(c) /\ acceptOpen
    /\ Requests(c, "inductionReq") # {}
    /\ net' = net \cup {InductionRsp(c, CookieAt(CurrentMinute))}
    /\ UNCHANGED listenerVars

\* Rejections of the core, of a listener that is closed, of a full backlog.
ListenerReject(c) ==
    /\ NewPeer(c)
    /\ \E m \in Requests(c, "conclusionReq") :
         \/ ~acceptOpen /\ net' = net \cup {Rejection(c, "CLOSE")}
         \/ /\ acceptOpen /\ RequestVerdict(m) \notin {"drop", "none"}
            /\ net' = net \cup {Rejection(c, RequestVerdict(m))}
         \/ /\ acceptOpen /\ RequestVerdict(m) = "none"
            /\ ~acceptRx \/ Len(acceptQ) >= AcceptBacklog
            /\ net' = net \cup {Rejection(c, "BACKLOG")}
    /\ UNCHANGED listenerVars

\* A connection is created with its response queued; its task sends it first.
ListenerAccept(c) ==
    /\ NewPeer(c) /\ acceptOpen
    /\ acceptRx /\ Len(acceptQ) < AcceptBacklog
    /\ Cardinality(accepts) < MaxAccepts
    /\ \E m \in Requests(c, "conclusionReq"), id \in UnusedSocketIds :
         LET neg == Negotiate(m, id) IN
         /\ RequestVerdict(m) = "none"
         /\ net' = net \cup {ConclusionRsp(neg)}
         /\ tasks' = tasks \cup {[id |-> id, peer |-> c, neg |-> neg, st |-> "running", inbox |-> FALSE]}
         /\ conns' = Put(conns, id, c)
         /\ byPeer' = Put(byPeer, c, id)
         /\ acceptQ' = Append(acceptQ, id)
         /\ accepts' = accepts \cup {neg}
    /\ UNCHANGED <<acceptRx, acceptOpen, finished>>

Running == {t \in tasks : t.st = "running"}
Become(t, u) == tasks' = (tasks \ {t}) \cup {u}

\* A repeated CONCLUSION of a peer already accepted goes to its connection; the
\* task may be gone and not yet reaped.
ListenerForward(c) ==
    /\ ~finished /\ c \in DOMAIN byPeer
    /\ Requests(c, "conclusionReq") # {}
    /\ \E t \in Running : t.id = byPeer[c] /\ ~t.inbox /\ Become(t, [t EXCEPT !.inbox = TRUE])
    /\ UNCHANGED <<net, acceptRx, acceptOpen, acceptQ, conns, byPeer, finished, accepts>>

ListenerNoticesDrop ==
    /\ acceptOpen /\ ~acceptRx
    /\ acceptOpen' = FALSE
    /\ finished' = (conns = <<>>)
    /\ UNCHANGED <<net, acceptRx, acceptQ, conns, byPeer, tasks, accepts>>

Reap ==
    /\ ~finished
    /\ \E t \in tasks \ Running :
         LET routed == {p \in DOMAIN byPeer :
                          t.id \in DOMAIN conns /\ conns[t.id] = p /\ byPeer[p] = t.id} IN
         /\ tasks' = tasks \ {t}
         /\ conns' = Restrict(conns, DOMAIN conns \ {t.id})
         /\ byPeer' = Restrict(byPeer, DOMAIN byPeer \ routed)
         /\ finished' = (~acceptOpen /\ conns' = <<>>)
    /\ UNCHANGED <<net, acceptRx, acceptOpen, acceptQ, accepts>>

-----------------------------------------------------------------------------
\* Accepted connections and the listening application.

MutReplayNothing ==
    /\ \E t \in Running : t.inbox /\ Become(t, [t EXCEPT !.inbox = FALSE])
    /\ UNCHANGED <<net, acceptRx, acceptOpen, acceptQ, conns, byPeer, finished, accepts>>

TaskReplay ==
    /\ \E t \in Running :
         /\ t.inbox
         /\ Become(t, [t EXCEPT !.inbox = FALSE])
         /\ net' = net \cup {ConclusionRsp(t.neg)}
    /\ UNCHANGED <<acceptRx, acceptOpen, acceptQ, conns, byPeer, finished, accepts>>

\* Closed by the application or an idle timer, while MaxAccepts leaves room for
\* the peer to be accepted again.
TaskExit ==
    /\ Cardinality(accepts) < MaxAccepts
    /\ \E t \in Running :
         /\ Become(t, [t EXCEPT !.st = "exited"])
         /\ net' = net \cup {ShutdownTo(t.peer)}
    /\ UNCHANGED <<acceptRx, acceptOpen, acceptQ, conns, byPeer, finished, accepts>>

\* Closed by the peer: routed by socket id and source address.
TaskShutdown ==
    /\ ~finished
    /\ \E t \in Running, m \in net :
         /\ m.type = "goodbye" /\ m.id = t.id
         /\ t.id \in DOMAIN conns /\ conns[t.id] = m.c
         /\ Become(t, [t EXCEPT !.st = "exited"])
    /\ UNCHANGED <<net, acceptRx, acceptOpen, acceptQ, conns, byPeer, finished, accepts>>

AppAccept ==
    /\ acceptQ # <<>>
    /\ acceptQ' = Tail(acceptQ)
    /\ UNCHANGED <<net, acceptRx, acceptOpen, conns, byPeer, tasks, finished, accepts>>

DropListener ==
    /\ acceptRx
    /\ acceptRx' = FALSE /\ acceptQ' = <<>>
    /\ UNCHANGED <<net, acceptOpen, conns, byPeer, tasks, finished, accepts>>

-----------------------------------------------------------------------------
AsCaller(A) == A /\ UNCHANGED <<clock, opts, lopts, listenerVars>>
AsListener(A) == A /\ UNCHANGED <<clock, opts, lopts, caller>>

CallerStep(c) ==
    \/ CallerStart(c) \/ CallerTransmit(c) \/ CallerTimeout(c) \/ CallerInduction(c)
    \/ CallerConclusion(c) \/ CallerRejected(c) \/ CallerShutdown(c) \/ CallerClose(c)

ListenerStep(c) ==
    \/ ListenerInduction(c) \/ ListenerReject(c) \/ ListenerAccept(c) \/ ListenerForward(c)

ServerStep ==
    \/ ListenerNoticesDrop \/ Reap \/ TaskReplay \/ TaskExit \/ TaskShutdown
    \/ AppAccept \/ DropListener

Lose ==
    /\ \E m \in net : net' = net \ {m}
    /\ UNCHANGED <<clock, opts, lopts, caller, listenerVars>>

ClockTick ==
    /\ clock < MaxClock
    /\ clock' = clock + 1
    /\ UNCHANGED <<opts, lopts, caller, net, listenerVars>>

HandshakeNext ==
    \/ \E c \in Callers : AsCaller(CallerStep(c)) \/ AsListener(ListenerStep(c))
    \/ AsListener(ServerStep)
    \/ ClockTick

HandshakeSpec == HandshakeInit /\ [][HandshakeNext]_hsVars

\* For progress it matters that a datagram may be gone for good.
LossyNext == HandshakeNext \/ Lose

\* Callers retransmit, tasks run, and what is sent over and over arrives.
HandshakeFairness ==
    /\ \A c \in Callers :
         /\ WF_hsVars(AsCaller(CallerTransmit(c)))
         /\ SF_hsVars(AsCaller(CallerInduction(c)))
         /\ SF_hsVars(AsCaller(CallerConclusion(c)))
         /\ SF_hsVars(AsCaller(CallerRejected(c)))
         /\ SF_hsVars(AsListener(ListenerInduction(c)))
         /\ SF_hsVars(AsListener(ListenerReject(c)))
         /\ SF_hsVars(AsListener(ListenerAccept(c)))
         /\ SF_hsVars(AsListener(ListenerForward(c)))
    /\ WF_hsVars(AsListener(TaskReplay))
    /\ WF_hsVars(AsListener(Reap))

FairHandshakeSpec == HandshakeInit /\ [][LossyNext]_hsVars /\ HandshakeFairness

-----------------------------------------------------------------------------
\* What the wire carries of a latency.
OnWire(d) == MsDur(MsU16(d))

\* Both ends of a connection agree: an established caller talks to a connection
\* the listener accepted for this very caller, with the same key or none, the
\* same MSS and stream id, and for each direction the same latency up to what the wire can
\* carry.  A response replayed, or re-derived after the first connection died,
\* changes nothing of this.
EndsAgree ==
    lopts.fault = "none" =>
        \A c \in Callers : \A n \in caller[c].neg : \E a \in accepts :
            /\ a.local = n.peer /\ a.peer = c
            /\ a.key = n.key /\ a.mss = n.mss /\ a.sid = AttachedSid(n.sid)
            /\ n.sndLatency = OnWire(a.rcvLatency)
            /\ n.rcvLatency = OnWire(a.sndLatency)

\* Neither side plays out earlier than it asked for, or than its peer proposed,
\* as far as the wire can carry the value.
LatencyHonoured ==
    \A c \in Callers : \A n \in caller[c].neg :
        /\ n.rcvLatency >= OnWire(opts[c].latency)
        /\ n.rcvLatency >= OnWire(lopts.peerLatency)
        /\ n.sndLatency >= OnWire(lopts.latency)
        /\ n.sndLatency >= OnWire(opts[c].peerLatency)

\* Encryption is enforced: a side with a passphrase is never on a connection
\* without the key both passphrases unwrap, a side without one never on a secured
\* one.  A caller goes on only if the response has confirmed the very key it keeps,
\* or, with no key, carries none; save that it also keeps its key and goes on when
\* the peer reports that it has no crypto.  The key has the length the listener is
\* configured with, else the caller's.
EncryptionEnforced ==
    /\ \A a \in accepts :
         /\ (a.key = {}) = (lopts.pass = "none")
         /\ lopts.keyLen # 0 /\ lopts.fault # "advert" => \A k \in a.key : k.len = lopts.keyLen
         /\ lopts.keyLen = 0 /\ opts[a.peer].keyLen # 0 =>
                \A k \in a.key : k.len = opts[a.peer].keyLen
         /\ \A k \in a.key : k.pass = lopts.pass /\ k.sek = a.peer
    /\ \A c \in Callers : \A n \in caller[c].neg :
         n.echo = n.key \/ (n.key # {} /\ lopts.fault = "unsecured")

\* The demux tables are inverse to each other and route every running
\* connection: no accept, exit or late reap takes away another connection's
\* routes, and no peer has two connections.  The listener driver, which feeds
\* them, outlives every connection accepted before its handle was dropped, and
\* the backlog of accepted ones stays within its limit.
DemuxConsistent ==
    /\ \A c \in DOMAIN byPeer : byPeer[c] \in DOMAIN conns /\ conns[byPeer[c]] = c
    /\ \A id \in DOMAIN conns : conns[id] \in DOMAIN byPeer /\ byPeer[conns[id]] = id
    /\ \A t \in Running : t.id \in DOMAIN conns /\ conns[t.id] = t.peer
    /\ finished => Running = {}
    /\ Len(acceptQ) <= AcceptBacklog

\* A cookie stays acceptable for as long as the caller that adopted it keeps
\* trying, also across the turn of the minute, for connect timeouts of up to a
\* minute.
CookieOutlivesCaller ==
    ConnectTimeout <= Minute =>
        \A c \in Callers :
            caller[c].st = "Conclusion" /\ ~CallerTimedOut(c) => CookieOk(caller[c].cookie)

\* A caller that keeps trying is answered, although any response may be lost:
\* the listener, or the connection it already accepted, answers every repetition.
CallersAnswered ==
    \A c \in Callers : Trying(c) ~> (~Trying(c) \/ finished)

\* The latency a connection runs with fits the 16 bits of the wire, the horizon
\* the close flush relies on.
LatencyWithinWire == \A a \in accepts : a.rcvLatency <= MsDur(MaxMs)
=============================================================================
