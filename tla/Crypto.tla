------------------------------- MODULE Crypto -------------------------------
(* The key-material engine of one endpoint (src/crypto/context.rs): two send *)
(* slots rotated by packet counters, two receive slots written by the peer's *)
(* KMREQs, the cached KMREQ with its retry budget, and the two KM states.    *)
(* Keys are numbers in the order they are generated; ciphers, salts, key     *)
(* encryption keys and key lengths are left out.  A KMREQ is the pair of     *)
(* keys it carries, or one of the classes of payload handle_kmreq rejects.   *)
EXTENDS Naturals

CONSTANTS
    KmRefreshRate,  \* km_refresh_rate: packets per key
    KmPreannounce,  \* km_preannounce: packets before the switch
    KmMaxRetry,     \* KM_MAX_RETRY
    CntMod,         \* 2^32, the width of pkt_cnt
    MaxKeys,        \* bound on the keys generated here
    PeerKms,        \* payloads of the peer's KMREQs
    AdoptedKms      \* handshake KMREQs a responder adopts

Even == 0
Odd == 1
Slots == {Even, Odd}
NoKey == 0

Km(even, odd) == [class |-> "km", keys |-> [s \in Slots |-> IF s = Even THEN even ELSE odd]]
KmReq == [class : {"km"}, keys : [Slots -> Nat]]
Rejected == [class : {"precheck", "unsupported", "wrongsecret"}, keys : [Slots -> {NoKey}]]
KmStates == {"Unsecured", "Securing", "Secured", "NoSecret", "BadSecret"}
\* What the single word of a KMRSP that is no echo may report.
Statuses == KmStates \cup {"unknown"}

\* crypto_config validates the two rates.
ASSUME CryptoAssumption ==
    /\ KmRefreshRate \in Nat \ {0} /\ KmPreannounce \in Nat
    /\ 2 * KmPreannounce < KmRefreshRate
    /\ CntMod \in Nat /\ KmRefreshRate < CntMod
    /\ KmMaxRetry \in Nat \ {0}
    /\ PeerKms \subseteq KmReq \cup Rejected
    /\ AdoptedKms \subseteq KmReq
    /\ \A m \in AdoptedKms : m.keys[Even] # m.keys[Odd]

VARIABLES
    txKey, txCnt, txState,  \* tx: key, pkt_cnt and role of each slot
    active,                 \* active
    rx,                     \* rx: key of each slot
    sndState, rcvState,     \* snd_state, rcv_state
    outstanding,            \* outstanding: blob, retries left, last_send
    lastKey,                \* the newest key generated here
    sinceTick,              \* history: packets encrypted since the thresholds were last
                            \* evaluated, counted up to CntMod
    longestGap              \* history: the most this has been under the active key

txVars == <<txKey, txCnt, txState, active, lastKey>>
kmVars == <<sndState, rcvState, outstanding>>
gapVars == <<sinceTick, longestGap>>
cryptoVars == <<txVars, kmVars, rx, gapVars>>

Outstanding(blob, retries, lastSend) ==
    [blob |-> blob, retries |-> retries, lastSend |-> lastSend]

\* Nothing is outstanding: the blob carries no key.
NoKmReq == Outstanding(Km(NoKey, NoKey), 0, "never")
Idle == outstanding.blob = Km(NoKey, NoKey)

-----------------------------------------------------------------------------
\* new_initiator, once the handshake response has been applied: either the echo
\* has confirmed the first even key or the peer has reported UNSECURED.
NewInitiator ==
    /\ active = Even
    /\ txKey = [s \in Slots |-> IF s = Even THEN 1 ELSE NoKey]
    /\ txCnt = [s \in Slots |-> IF s = Even THEN 1 ELSE 0]
    /\ txState = [s \in Slots |-> IF s = Even THEN "Active" ELSE "None"]
    /\ rx = txKey
    /\ lastKey = 1
    /\ \/ sndState = "Secured" /\ rcvState = "Secured" /\ outstanding = NoKmReq
       \/ /\ sndState = "Unsecured" /\ rcvState = "NoSecret"
          /\ outstanding = Outstanding(Km(1, NoKey), 0, "never")

\* new_responder: the caller's keys m serve both directions.
NewResponder(m) ==
    /\ active = IF m.keys[Even] # NoKey THEN Even ELSE Odd
    /\ txKey = m.keys
    /\ txCnt = [s \in Slots |-> IF s = active THEN 1 ELSE 0]
    /\ txState = [s \in Slots |-> IF m.keys[s] = NoKey THEN "None"
                                  ELSE IF s = active THEN "Active" ELSE "Announced"]
    /\ rx = m.keys
    /\ lastKey = IF m.keys[Even] > m.keys[Odd] THEN m.keys[Even] ELSE m.keys[Odd]
    /\ sndState = "Secured" /\ rcvState = "Secured"
    /\ outstanding = Outstanding(m, 0, "never")

CryptoInit ==
    /\ sinceTick = 0 /\ longestGap = 0
    /\ NewInitiator \/ \E m \in AdoptedKms : NewResponder(m)

-----------------------------------------------------------------------------
\* Saturating subtraction.
Monus(a, b) == IF a > b THEN a - b ELSE 0

Alt == 1 - active
Cnt == txCnt[active]
Announced == txState[Alt] = "Announced"

\* Crypto::encrypt, in every KM state and however long no ACK has come.  The guard
\* is the bound MaxKeys: the last key is not used up.
Encrypt ==
    /\ lastKey < MaxKeys \/ Announced \/ Cnt < Monus(KmRefreshRate, KmPreannounce)
    /\ txCnt' = [txCnt EXCEPT ![active] = (@ + 1) % CntMod]
    /\ sinceTick' = IF sinceTick < CntMod THEN sinceTick + 1 ELSE CntMod
    /\ longestGap' = IF sinceTick' > longestGap THEN sinceTick' ELSE longestGap
    /\ UNCHANGED <<txKey, txState, active, lastKey, rx, kmVars>>

\* Crypto::decrypt: the slot a packet's KK bits select, and the state gate.  A
\* packet is decrypted only if Decryptable.
RxSlot(kk) == IF kk = "Even" THEN Even ELSE Odd

Decrypt(kk) ==
    /\ rcvState' = IF kk # "None" /\ rcvState = "Unsecured" THEN "Securing" ELSE rcvState
    /\ UNCHANGED <<txVars, rx, sndState, outstanding, gapVars>>

-----------------------------------------------------------------------------
\* tick_refresh: at most one of pre-announce, switch, decommission, in order.
\* Definitions named Mut... are deliberate bugs; no specification uses them.
PreannounceDue == Cnt > Monus(KmRefreshRate, KmPreannounce) /\ ~Announced

MutSwitchOnRollover == ~PreannounceDue /\ Cnt = 0 /\ Announced
MutSwitchUnannounced == Cnt > KmRefreshRate \/ Cnt = 0

SwitchDue == ~PreannounceDue /\ (Cnt > KmRefreshRate \/ Cnt = 0) /\ Announced

DecommissionDue ==
    ~PreannounceDue /\ ~SwitchDue /\ txState[Alt] = "Deprecated" /\ Cnt > KmPreannounce

MutPreannounceKeepsKmReq ==
    /\ PreannounceDue
    /\ lastKey' = lastKey + 1
    /\ txKey' = [txKey EXCEPT ![Alt] = lastKey']
    /\ txCnt' = [txCnt EXCEPT ![Alt] = 0]
    /\ txState' = [txState EXCEPT ![Alt] = "Announced"]
    /\ outstanding' = IF Idle
                        THEN Outstanding(Km(txKey'[Even], txKey'[Odd]), KmMaxRetry, "some")
                        ELSE outstanding
    /\ UNCHANGED active

\* A new key for the other slot, and the KMREQ that carries both.
Preannounce ==
    /\ PreannounceDue
    /\ lastKey' = lastKey + 1
    /\ txKey' = [txKey EXCEPT ![Alt] = lastKey']
    /\ txCnt' = [txCnt EXCEPT ![Alt] = 0]
    /\ txState' = [txState EXCEPT ![Alt] = "Announced"]
    /\ outstanding' = Outstanding(Km(txKey'[Even], txKey'[Odd]), KmMaxRetry, "some")
    /\ UNCHANGED active

Switch ==
    /\ SwitchDue
    /\ txState' = [txState EXCEPT ![active] = "Deprecated", ![Alt] = "Active"]
    /\ active' = Alt
    /\ UNCHANGED <<txKey, txCnt, lastKey>>

Decommission ==
    /\ DecommissionDue
    /\ txKey' = [txKey EXCEPT ![Alt] = NoKey]
    /\ txCnt' = [txCnt EXCEPT ![Alt] = 0]
    /\ txState' = [txState EXCEPT ![Alt] = "None"]
    /\ UNCHANGED <<active, lastKey>>

KeepKeys == ~PreannounceDue /\ ~SwitchDue /\ ~DecommissionDue /\ UNCHANGED txVars

MutResendOnce(paceDue) ==
    outstanding' = IF outstanding.retries > 0 /\ outstanding.lastSend = "never"
                     THEN Outstanding(outstanding.blob, outstanding.retries - 1, "some")
                     ELSE outstanding

\* The paced retransmission; paceDue: 1.5 smoothed round trips have elapsed.
Resend(paceDue) ==
    outstanding' = IF outstanding.retries > 0 /\ (outstanding.lastSend = "never" \/ paceDue)
                     THEN Outstanding(outstanding.blob, outstanding.retries - 1, "some")
                     ELSE outstanding

\* The thresholds, then the outstanding KMREQ.
Refresh(paceDue) ==
    /\ \/ Preannounce
       \/ (Switch \/ Decommission \/ KeepKeys) /\ Resend(paceDue)
    /\ sinceTick' = 0
    /\ longestGap' = IF active' = active THEN longestGap ELSE 0
    /\ UNCHANGED <<rx, sndState, rcvState>>

\* Crypto::on_ack, which skips all of it while the peer is known to have no key.
\* It sends outstanding'.blob exactly when it changes outstanding.
OnAck(paceDue) ==
    IF sndState = "Unsecured" THEN UNCHANGED cryptoVars ELSE Refresh(paceDue)

-----------------------------------------------------------------------------
\* install_rx: a key dies only by being overwritten.
Install(r, m) == [s \in Slots |-> IF m.keys[s] # NoKey THEN m.keys[s] ELSE r[s]]

RejectedState(class) == IF class = "unsupported" THEN "NoSecret" ELSE "BadSecret"

\* Crypto::handle_kmreq.  The receive half alone when the KMREQ is accepted.
HandleKmReq(m) ==
    /\ \/ /\ m.class = "km"
          /\ rx' = Install(rx, m)
          /\ rcvState' = "Secured"
          /\ UNCHANGED sndState
       \/ /\ m.class # "km"
          /\ rcvState' = RejectedState(m.class)
          /\ sndState' = IF m.class = "precheck" THEN sndState ELSE RejectedState(m.class)
          /\ UNCHANGED rx
    /\ UNCHANGED <<txVars, outstanding, gapVars>>

\* Does the echo m confirm the cached KMREQ (handle_kmrsp)?
MutAnyEchoConfirms(m) == ~Idle

Confirms(m) == ~Idle /\ outstanding.blob = m

\* Crypto::handle_kmrsp with an echo; one that matches nothing is ignored.
HandleEcho(m) ==
    /\ IF Confirms(m)
         THEN /\ outstanding' = NoKmReq
              /\ sndState' = "Secured" /\ rcvState' = "Secured"
         ELSE UNCHANGED kmVars
    /\ UNCHANGED <<txVars, rx, gapVars>>

\* Crypto::handle_kmrsp with a status word (peer_km_failure).
HandleStatus(reported) ==
    /\ outstanding' = Outstanding(outstanding.blob, 0, outstanding.lastSend)
    /\ sndState' = IF reported \in {"BadSecret", "Unsecured"} THEN reported ELSE "NoSecret"
    /\ rcvState' = CASE reported = "BadSecret" -> "BadSecret"
                     [] reported = "NoSecret" -> "Unsecured"
                     [] OTHER -> "NoSecret"
    /\ UNCHANGED <<txVars, rx, gapVars>>

-----------------------------------------------------------------------------
\* The endpoint facing a peer that may send it anything.
CryptoNext ==
    \/ Encrypt
    \/ \E kk \in {"None", "Even", "Odd", "Both"} : Decrypt(kk)
    \/ \E paceDue \in BOOLEAN : OnAck(paceDue)
    \/ \E m \in PeerKms : HandleKmReq(m)
    \/ \E m \in PeerKms \cup {outstanding.blob} : HandleEcho(m)
    \/ \E reported \in Statuses : HandleStatus(reported)

CryptoSpec == CryptoInit /\ [][CryptoNext]_cryptoVars

-----------------------------------------------------------------------------
\* Type invariant of the engine.
CryptoTypeOK ==
    /\ active \in Slots
    /\ txKey \in [Slots -> Nat] /\ txCnt \in [Slots -> 0 .. CntMod - 1]
    /\ txState \in [Slots -> {"None", "Active", "Announced", "Deprecated"}]
    /\ rx \in [Slots -> Nat]
    /\ sndState \in KmStates /\ rcvState \in KmStates
    /\ outstanding \in [blob : KmReq, retries : 0 .. KmMaxRetry, lastSend : {"never", "some"}]
    /\ lastKey \in Nat /\ sinceTick \in 0 .. longestGap /\ longestGap \in 0 .. CntMod

\* The slot roles never get out of step, so that the expects of encrypt and
\* tick_refresh cannot fire: the active slot is keyed and alone in its role,
\* and an announced key is unused, keyed and distinct from the active one.
SlotRoles ==
    /\ txState[active] = "Active" /\ txState[Alt] # "Active"
    /\ \A s \in Slots : txState[s] = "None" <=> txKey[s] = NoKey
    /\ Announced => txCnt[Alt] = 0
    /\ txKey[active] # txKey[Alt]

\* No key encrypts more than km_refresh_rate packets plus twice the longest run
\* of packets, under this key, over which the thresholds were not evaluated,
\* because no ACK came or because a status word had made the send direction
\* UNSECURED.  As long as such runs are short of the width of pkt_cnt, it does not
\* roll over, whatever KMREQs, KMRSPs and status words arrive.
KeyUseBounded ==
    LET bound == KmRefreshRate + 2 * longestGap IN bound < CntMod => Cnt <= bound

\* The cached KMREQ is never stale: what on_ack retransmits, and what an echo
\* confirms, are the keys the two send slots hold now.
OutstandingIsCurrent ==
    ~Idle =>
        \A s \in Slots : txKey[s] # NoKey => outstanding.blob.keys[s] = txKey[s]
=============================================================================
