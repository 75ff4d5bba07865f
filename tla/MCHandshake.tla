---------------------------- MODULE MCHandshake ----------------------------
(* Instances of Handshake for TLC.                                          *)
EXTENDS Handshake, TLC

\* Callers and socket ids are interchangeable in the runs without liveness.
MCSymmetry == Permutations(Callers) \cup Permutations(SocketIds)

\* One dimension of the options at a time, with all passphrases: latencies and
\* MSS, key lengths and stream ids, or one failing check of either side.
MCPlain == [pass |-> "none", keyLen |-> 0, sid |-> "none", latency |-> 1, peerLatency |-> 1,
            mss |-> 8, fault |-> "none"]
MCVarying(fields, faults) ==
    {o \in Options(faults) :
        \A f \in DOMAIN o \ ({"pass", "fault"} \cup fields) : o[f] = MCPlain[f]}
MCPairs(fields, callerFaults, listenerFaults) ==
    MCVarying(fields, callerFaults) \X MCVarying(fields, listenerFaults)
MCChoices ==
    MCPairs({"latency", "peerLatency", "mss"}, {"none"}, {"none"})
    \cup MCPairs({"keyLen", "sid"}, {"none"}, {"none"})
    \cup MCPairs({}, RequestFaults, ResponseFaults)

\* The callers have the same options.
MCInit ==
    /\ \E p \in MCChoices : opts = [c \in Callers |-> p[1]] /\ lopts = p[2]
    /\ HandshakeInit
MCSpec == MCInit /\ [][HandshakeNext]_hsVars

\* One caller with every choice of options; time, or several callers and more
\* connections, with the plainest ones.
MCOptions == Range(opts) \cup {lopts}
MCOneCaller == Cardinality({c \in Callers : caller[c].st # "Idle"}) <= 1
MCFocus ==
    \/ /\ clock = 0 /\ MCOneCaller
       /\ Cardinality(accepts) <= (IF \A o \in MCOptions : o.fault = "none" THEN 2 ELSE 1)
    \/ MCOptions = {MCPlain} /\ (clock = 0 \/ (MCOneCaller /\ Cardinality(accepts) <= 2))
=============================================================================
