------------------------------ MODULE MCParts -------------------------------
(* Parts that share no state with each other, in one instance for TLC: the   *)
(* packet codecs, the pacer of a sender and the play-out clock of a          *)
(* receiver.  A behaviour runs one of them.                                  *)
EXTENDS Wire, Pacing, PlayoutClock

VARIABLE part

-----------------------------------------------------------------------------
\* Codecs: bytes of 16 values, packets at the edges of every field.
MCTop == Word - 1
MCHeader == {[timestamp |-> 0, dst_socket_id |-> MCTop], [timestamp |-> MCTop, dst_socket_id |-> 7]}

MCData ==
    {[kind |-> "data", seq |-> s, position |-> pp, order |-> o, encryption |-> kk,
      retransmitted |-> r, msg_number |-> m, timestamp |-> 258, dst_socket_id |-> MCTop,
      payload |-> pl] :
        s \in {0, SeqSpace - 1}, pp \in 0 .. 3, o \in 0 .. 1, kk \in 0 .. 3, r \in 0 .. 1,
        m \in {1, MsgSpace - 1}, pl \in {<<>>, <<9, 0, 15>>}}

MCAcks ==
    {[kind |-> "ack", ack_number |-> n, cif |-> AckCif(s, [i \in 1 .. 6 |->
                                                           IF i <= k THEN 17 * i ELSE None])] :
        n \in {0, MCTop}, s \in {0, SeqSpace - 1}, k \in {0, 3, 5, 6}}

MCOne(s) == [first |-> s, last |-> s]
MCPair(s, n) == [first |-> s, last |-> SeqAdd(s, n)]

MCNaks ==
    {[kind |-> "nak", ranges |-> r] :
        r \in {<<MCOne(0)>>, <<MCPair(SeqSpace - 1, 2)>>,
               <<MCPair(3, 4), MCOne(SeqSpace - 1), MCPair(SeqSpace - 2, 5), MCOne(9)>>}}

\* Handshakes as the caller and the listener build them.
MCInduction ==
    [kind |-> "handshake", version |-> 4, encryption |-> 0, extension_field |-> 2,
     initial_seq |-> SeqSpace - 2, mss |-> 1500, flow_window |-> 8192,
     handshake_type |-> [kind |-> "Induction", code |-> 0], socket_id |-> MCTop,
     cookie |-> 0, peer_ip |-> EncodePeerIp(<<10, 0, 0, 1>>), extensions |-> <<>>]

MCInductionReply ==
    [MCInduction EXCEPT !.version = 5, !.encryption = 2, !.extension_field = 201,
                        !.cookie = MCTop]

MCHs(cmd) == Ext("Hs", cmd, <<260, 63, Half - 1, 3>>)
MCSid == {<<>>} \cup {<<Ext("String", CmdSid, sid)>> : sid \in {<<1>>, <<1, 2, 3, 4>>, <<1, 0, 3, 4, 5>>}}
MCBlob(n) == [i \in 1 .. n |-> (5 * i) % Base]

MCConclusions ==
    {[MCInduction EXCEPT !.version = 5, !.extension_field = ExtensionBits(exts),
                         !.handshake_type.kind = "Conclusion", !.extensions = exts] :
       exts \in {<<MCHs(CmdHsReq)>> \o sid \o km :
                   sid \in MCSid, km \in {<<>>, <<Ext("Km", CmdKmReq, MCBlob(8))>>}}
                \cup {<<MCHs(CmdHsRsp)>> \o km :
                        km \in {<<>>, <<Ext("Km", CmdKmRsp, MCBlob(4))>>}}}

MCRejection ==
    [MCInduction EXCEPT !.version = 5, !.extension_field = 3,
                        !.handshake_type = [kind |-> "Rejection", code |-> 1010]]

MCControl ==
    MCAcks \cup MCNaks \cup MCConclusions \cup {MCInduction, MCInductionReply, MCRejection}
    \cup {[kind |-> k] : k \in {"keepalive", "congestion", "shutdown"}}
    \cup {[kind |-> "ackack", ack_number |-> n] : n \in {1, MCTop}}
    \cup {[kind |-> "dropreq", msg_number |-> 0, first |-> SeqSpace - 1, last |-> 1]}
    \cup {[kind |-> "peererror", code |-> 4000]}
    \cup {[kind |-> k, blob |-> MCBlob(n)] : k \in {"kmreq", "kmrsp"}, n \in {4, 12}}

MCPackets ==
    MCData \cup {[kind |-> "control", timestamp |-> h.timestamp,
                  dst_socket_id |-> h.dst_socket_id, control_type |-> c] :
                   h \in MCHeader, c \in MCControl}

-----------------------------------------------------------------------------
\* Pacer: one option of each kind, one validate refuses, and an Estimated one
\* without a floor whose windows may measure a rate of zero.
MCBandwidths ==
    {[mode |-> "Max", rate |-> 2, overhead |-> 0],
     [mode |-> "Max", rate |-> 0, overhead |-> 0],
     [mode |-> "Input", rate |-> 3, overhead |-> 50],
     [mode |-> "Estimated", rate |-> 1, overhead |-> 100],
     [mode |-> "Estimated", rate |-> 0, overhead |-> 50]}

-----------------------------------------------------------------------------
\* A part that does not run stays in one initial state.
OnePacket ==
    /\ sent = [kind |-> "control", timestamp |-> 0, dst_socket_id |-> MCTop,
               control_type |-> [kind |-> "keepalive"]]
    /\ WireInit
OnePacer == bandwidth = [mode |-> "Input", rate |-> 3, overhead |-> 50] /\ nextSeq = 0 /\ PaceInit

MCInit ==
    \/ part = "wire" /\ WireInit /\ OnePacer /\ PlayoutInit
    \/ part = "pacer" /\ PaceInit /\ OnePacket /\ PlayoutInit
    \/ part = "playout" /\ PlayoutInit /\ OnePacket /\ OnePacer

MCNext ==
    /\ \/ part = "wire" /\ WireNext /\ UNCHANGED <<now, paceCore, playoutCore>>
       \/ part = "pacer" /\ PaceNext /\ UNCHANGED <<wireVars, playoutCore>>
       \/ part = "playout" /\ PlayoutNext /\ UNCHANGED <<wireVars, paceCore>>
    /\ UNCHANGED part

MCSpec == MCInit /\ [][MCNext]_<<part, wireVars, paceVars, playoutVars>>
=============================================================================
