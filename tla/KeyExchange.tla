---------------------------- MODULE KeyExchange -----------------------------
(* Key refresh between two connected endpoints: the sending direction of one *)
(* engine (Crypto), the receive slots of the other, and the KMREQs and       *)
(* KMRSPs between them (handle_transmission_control, handle_kmreq and        *)
(* handle_kmrsp of src/core/mod.rs).  Messages are lost and reordered, and   *)
(* retransmissions repeat them, except that a KMREQ does not arrive after a  *)
(* newer one: a whole refresh period lies between the two.                   *)
EXTENDS Crypto

CONSTANT MaxLosses  \* KMREQs and KMRSPs the path loses after each pre-announcement

VARIABLES
    peerRx, peerRcvState,  \* rx and rcv_state of the peer
    kmReqs, kmRsps,        \* messages on the path
    losses,                \* messages lost since the last pre-announcement
    blind                  \* send slots switched to before the peer had confirmed

pathVars == <<kmReqs, kmRsps, losses>>
peerVars == <<peerRx, peerRcvState>>
exchangeVars == <<cryptoVars, pathVars, peerVars, blind>>

ExchangeInit ==
    /\ CryptoInit
    /\ sndState = "Secured"
    /\ peerRx = rx /\ peerRcvState = "Secured"
    /\ kmReqs = {} /\ kmRsps = {} /\ losses = 0
    /\ blind = {}

\* One transmission of a KMREQ; retransmissions are told apart by the retries left.
Copy(out) == [km |-> out.blob, copy |-> out.retries]

\* A message m is put on the path, or lost.
Sent(path, m) ==
    \/ path' = path \cup {m} /\ UNCHANGED losses
    \/ losses < MaxLosses /\ losses' = losses + 1 /\ UNCHANGED path

SentFirst(path, m) ==
    \/ path' = path \cup {m} /\ losses' = 0
    \/ MaxLosses > 0 /\ losses' = 1 /\ UNCHANGED path

\* What is left once m has arrived.
NotOlder(m) == {n \in kmReqs \ {m} : \A s \in Slots : n.km.keys[s] >= m.km.keys[s]}

SendPacket == Encrypt /\ UNCHANGED <<pathVars, peerVars, blind>>

\* handle_transmission_control on an ACK: on_ack, and the KMREQ it returns.
ReceiveAck(paceDue) ==
    /\ OnAck(paceDue)
    /\ \/ outstanding' = outstanding /\ UNCHANGED <<kmReqs, losses>>
       \/ lastKey' # lastKey /\ SentFirst(kmReqs, Copy(outstanding'))
       \/ /\ outstanding' # outstanding /\ lastKey' = lastKey
          /\ Sent(kmReqs, Copy(outstanding'))
    /\ blind' = IF active' = active THEN blind
                ELSE (blind \ {active'}) \cup (IF Idle THEN {} ELSE {active'})
    /\ UNCHANGED <<kmRsps, peerVars>>

\* Connection::handle_kmreq at the peer: install, echo.
MutInstallEvenOnly(m) ==
    /\ kmReqs' = NotOlder(m)
    /\ peerRx' = [peerRx EXCEPT ![Even] = m.km.keys[Even]]
    /\ peerRcvState' = "Secured"
    /\ Sent(kmRsps, m)
    /\ UNCHANGED <<cryptoVars, blind>>

ReceiveKmReq(m) ==
    /\ kmReqs' = NotOlder(m)
    /\ peerRx' = Install(peerRx, m.km)
    /\ peerRcvState' = "Secured"
    /\ Sent(kmRsps, m)
    /\ UNCHANGED <<cryptoVars, blind>>

\* Connection::handle_kmrsp: the echo may be old, or repeated.
ReceiveKmRsp(m) ==
    /\ HandleEcho(m.km)
    /\ kmRsps' = kmRsps \ {m}
    /\ UNCHANGED <<kmReqs, losses, peerVars, blind>>

ExchangeNext ==
    \/ SendPacket
    \/ \E paceDue \in BOOLEAN : ReceiveAck(paceDue)
    \/ \E m \in kmReqs : ReceiveKmReq(m)
    \/ \E m \in kmRsps : ReceiveKmRsp(m)

\* ACKs keep coming, also after the pacing interval, and what is on the path arrives.
ExchangeFairness ==
    /\ WF_exchangeVars(ReceiveAck(TRUE))
    /\ WF_exchangeVars(\E m \in kmReqs : ReceiveKmReq(m))
    /\ WF_exchangeVars(\E m \in kmRsps : ReceiveKmRsp(m))

ExchangeSpec == ExchangeInit /\ [][ExchangeNext]_exchangeVars /\ ExchangeFairness

-----------------------------------------------------------------------------
\* What the peer has confirmed it has installed: once no KMREQ is outstanding,
\* every key the sender may encrypt with is in the peer's matching slot, after
\* any sequence of lost, repeated and late messages.
ConfirmedIsInstalled ==
    Idle =>
        /\ peerRcvState = "Secured"
        /\ \A s \in Slots : txKey[s] # NoKey => peerRx[s] = txKey[s]

\* A refresh never interrupts the stream: packets encrypted under the active or
\* the previous key decrypt correctly at the peer all through an announcement,
\* unless the sender switched to that key before it was confirmed.
StreamStaysReadable ==
    \A s \in Slots \ blind :
        txState[s] \in {"Active", "Deprecated"} =>
            peerRcvState = "Secured" /\ peerRx[s] = txKey[s]

\* Every pre-announced key is confirmed in the end when the path loses fewer
\* messages than on_ack has retries (a newer announcement takes its place).
AnnouncementsConfirmed == (outstanding.retries > 0) ~> Idle
=============================================================================
