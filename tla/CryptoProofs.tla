---------------------------- MODULE CryptoProofs ----------------------------
(* Proofs about Crypto for every refresh rate, pre-announce window, counter  *)
(* width and retry budget that CryptoAssumption allows.                      *)
EXTENDS Crypto, TLAPS

\* Two gaps as long as the longest one of the active key fit into pkt_cnt.
GapsFit == KmRefreshRate + 2 * longestGap < CntMod

\* How far the active key can have been used, by what the last evaluation of
\* the thresholds left; keys are numbered in the order they are generated.
KeyAges ==
    /\ GapsFit /\ ~Announced => Cnt <= KmRefreshRate - KmPreannounce + sinceTick
    /\ GapsFit /\ Announced => Cnt <= KmRefreshRate + longestGap + sinceTick
    /\ \A s \in Slots : txKey[s] <= lastKey

CryptoInv == CryptoTypeOK /\ SlotRoles /\ OutstandingIsCurrent /\ KeyAges

LEMMA AgesBoundUse == CryptoInv => KeyUseBounded
  BY CryptoAssumption DEF CryptoInv, CryptoTypeOK, KeyAges, GapsFit, KeyUseBounded, Cnt, Slots, Even, Odd

\* The KMREQ built from two keys carries them.
LEMMA KmKeys ==
    ASSUME NEW a \in Nat, NEW b \in Nat
    PROVE  /\ Km(a, b) \in KmReq
           /\ Km(a, b).keys[Even] = a /\ Km(a, b).keys[Odd] = b
  BY DEF Km, KmReq, Slots, Even, Odd

LEMMA CryptoInitInv == CryptoInit => CryptoInv
<1> SUFFICES ASSUME CryptoInit PROVE CryptoInv
  OBVIOUS
<1>0. /\ sinceTick = 0 /\ longestGap = 0 /\ KmRefreshRate - KmPreannounce >= 1
      /\ CntMod \in Nat /\ CntMod > 1 /\ KmMaxRetry \in Nat
      /\ KmRefreshRate \in Nat /\ KmPreannounce \in Nat
  BY CryptoAssumption DEF CryptoInit
<1>1. CASE NewInitiator
  <2>1. /\ active = 0
        /\ txKey = [s \in {0, 1} |-> IF s = 0 THEN 1 ELSE 0]
        /\ txCnt = [s \in {0, 1} |-> IF s = 0 THEN 1 ELSE 0]
        /\ txState = [s \in {0, 1} |-> IF s = 0 THEN "Active" ELSE "None"]
        /\ rx = txKey /\ lastKey = 1
    BY <1>1 DEF NewInitiator, Slots, Even, Odd, NoKey
  <2>2. /\ Km(1, NoKey) \in KmReq /\ Km(NoKey, NoKey) \in KmReq
        /\ Km(1, NoKey).keys[Even] = 1
    BY KmKeys DEF NoKey
  <2>3. /\ sndState \in KmStates /\ rcvState \in KmStates
        /\ \/ outstanding = NoKmReq
           \/ outstanding = Outstanding(Km(1, NoKey), 0, "never")
    BY <1>1 DEF NewInitiator, KmStates
  <2>7. outstanding \in [blob : KmReq, retries : 0 .. KmMaxRetry, lastSend : {"never", "some"}]
    BY <1>0, <2>2, <2>3 DEF NoKmReq, Outstanding
  <2>4. CryptoTypeOK
    BY <1>0, <2>1, <2>3, <2>7 DEF CryptoTypeOK, Slots, Even, Odd
  <2>5. SlotRoles /\ KeyAges
    BY <1>0, <2>1 DEF SlotRoles, KeyAges, GapsFit, Announced, Cnt, Alt, NoKey, Slots, Even, Odd
  <2>6. OutstandingIsCurrent
    BY <2>1, <2>2, <2>3 DEF OutstandingIsCurrent, Idle, NoKmReq, Outstanding, NoKey, Slots, Even, Odd
  <2> QED BY <2>4, <2>5, <2>6 DEF CryptoInv
<1>2. ASSUME NEW m \in AdoptedKms, NewResponder(m) PROVE CryptoInv
  <2>1. /\ m \in KmReq /\ m.keys \in [{0, 1} -> Nat] /\ m.keys[0] # m.keys[1]
    BY CryptoAssumption DEF KmReq, Slots, Even, Odd
  <2>2. /\ active = (IF m.keys[0] # 0 THEN 0 ELSE 1)
        /\ txKey = m.keys
        /\ txCnt = [s \in {0, 1} |-> IF s = active THEN 1 ELSE 0]
        /\ txState = [s \in {0, 1} |-> IF m.keys[s] = 0 THEN "None"
                                      ELSE IF s = active THEN "Active" ELSE "Announced"]
        /\ rx = m.keys
        /\ lastKey = (IF m.keys[0] > m.keys[1] THEN m.keys[0] ELSE m.keys[1])
        /\ sndState \in KmStates /\ rcvState \in KmStates
        /\ outstanding = Outstanding(m, 0, "never")
    BY <1>2 DEF NewResponder, Slots, Even, Odd, NoKey, KmStates
  <2>3. CryptoTypeOK
    BY <1>0, <2>1, <2>2 DEF CryptoTypeOK, Outstanding, Slots, Even, Odd
  <2>4. SlotRoles /\ KeyAges
    BY <1>0, <2>1, <2>2 DEF SlotRoles, KeyAges, GapsFit, Announced, Cnt, Alt, NoKey, Slots, Even, Odd
  <2>5. OutstandingIsCurrent
    BY <2>1, <2>2 DEF OutstandingIsCurrent, Outstanding, NoKey, Slots, Even, Odd
  <2> QED BY <2>3, <2>4, <2>5 DEF CryptoInv
<1> QED BY <1>1, <1>2 DEF CryptoInit

-----------------------------------------------------------------------------
\* The facts every step starts from, with the definitions of the slots opened.
LEMMA InvFacts ==
    ASSUME CryptoInv
    PROVE  /\ active \in {0, 1} /\ Alt \in {0, 1} /\ Alt # active
           /\ txKey \in [{0, 1} -> Nat] /\ txCnt \in [{0, 1} -> 0 .. CntMod - 1]
           /\ txState \in [{0, 1} -> {"None", "Active", "Announced", "Deprecated"}]
           /\ lastKey \in Nat /\ longestGap \in 0 .. CntMod /\ sinceTick \in 0 .. longestGap
           /\ Cnt = txCnt[active] /\ Cnt \in 0 .. CntMod - 1
           /\ KmRefreshRate \in Nat \ {0} /\ KmPreannounce \in Nat
           /\ CntMod \in Nat /\ KmMaxRetry \in Nat \ {0}
           /\ 2 * KmPreannounce < KmRefreshRate /\ KmRefreshRate < CntMod
           /\ Monus(KmRefreshRate, KmPreannounce) = KmRefreshRate - KmPreannounce
  BY CryptoAssumption DEF CryptoInv, CryptoTypeOK, Alt, Cnt, Slots, Even, Odd, Monus

\* Steps that leave the send slots and the cached KMREQ's keys alone.
LEMMA SlotsUntouched ==
    ASSUME CryptoInv, UNCHANGED <<txVars, gapVars>>,
           CryptoTypeOK',
           Idle' \/ outstanding'.blob = outstanding.blob
    PROVE  CryptoInv'
<1>1. UNCHANGED <<txKey, txCnt, txState, active, lastKey, sinceTick, longestGap>>
  BY DEF txVars, gapVars
<1>2. SlotRoles' /\ KeyAges'
  BY <1>1 DEF CryptoInv, SlotRoles, KeyAges, GapsFit, Announced, Cnt, Alt
<1>3. OutstandingIsCurrent'
  BY <1>1 DEF CryptoInv, OutstandingIsCurrent, Idle
<1> QED BY <1>2, <1>3 DEF CryptoInv

LEMMA StutterInv == ASSUME CryptoInv, UNCHANGED cryptoVars PROVE CryptoInv'
<1>1. /\ UNCHANGED <<txVars, gapVars>> /\ UNCHANGED <<rx, sndState, rcvState, outstanding>>
  BY DEF cryptoVars, kmVars
<1>2. CryptoTypeOK'
  BY <1>1 DEF CryptoInv, CryptoTypeOK, txVars, gapVars
<1> QED BY <1>1, <1>2, SlotsUntouched

\* One more packet fits the counter of width m, and keeps to the bound: cnt is the
\* key's count, r the refresh rate, since the gap so far, gap the longest one and
\* longer the longest one with this packet.
LEMMA NoRollover ==
    ASSUME NEW cnt \in Nat, NEW r \in Nat, NEW since \in Nat, NEW gap \in Nat,
           NEW longer \in Nat, NEW m \in Nat,
           gap <= longer, since + 1 <= longer, r + 2 * longer < m, cnt <= r + gap + since
    PROVE  cnt + 1 < m /\ cnt + 1 <= r + longer + (since + 1)
  OBVIOUS

LEMMA EncryptInv == CryptoInv /\ Encrypt => CryptoInv'
<1> SUFFICES ASSUME CryptoInv, Encrypt PROVE CryptoInv'
  OBVIOUS
<1>0. /\ active \in {0, 1} /\ txCnt \in [{0, 1} -> 0 .. CntMod - 1]
      /\ longestGap \in 0 .. CntMod /\ sinceTick \in 0 .. longestGap
      /\ Cnt = txCnt[active] /\ Cnt \in 0 .. CntMod - 1 /\ CntMod \in Nat /\ CntMod > 0
      /\ Alt \in {0, 1} /\ Alt # active
      /\ KmRefreshRate \in Nat /\ KmPreannounce \in Nat
  BY InvFacts
<1>1. /\ sinceTick' = (IF sinceTick < CntMod THEN sinceTick + 1 ELSE CntMod)
      /\ longestGap' = (IF sinceTick' > longestGap THEN sinceTick' ELSE longestGap)
      /\ txCnt' = [txCnt EXCEPT ![active] = (@ + 1) % CntMod]
      /\ UNCHANGED <<txKey, txState, active, lastKey, rx, sndState, rcvState, outstanding>>
  BY DEF Encrypt, kmVars
<1>2. /\ longestGap' \in 0 .. CntMod /\ sinceTick' \in 0 .. longestGap'
      /\ longestGap' >= longestGap
  BY <1>0, <1>1
<1>3. Cnt' = (Cnt + 1) % CntMod /\ txCnt'[Alt] = txCnt[Alt] /\ txCnt' \in [{0, 1} -> 0 .. CntMod - 1]
  <2>1. (txCnt[active] + 1) % CntMod \in 0 .. CntMod - 1
    BY <1>0
  <2> QED BY <1>0, <1>1, <2>1 DEF Cnt
<1>4. Alt' = Alt /\ Announced' = Announced
  BY <1>1 DEF Alt, Announced
<1>5. CryptoTypeOK'
  BY <1>0, <1>1, <1>2, <1>3 DEF CryptoInv, CryptoTypeOK, Slots, Even, Odd
<1>6. SlotRoles'
  BY <1>1, <1>3, <1>4 DEF CryptoInv, SlotRoles
<1>7. OutstandingIsCurrent'
  BY <1>1 DEF CryptoInv, OutstandingIsCurrent, Idle
<1>8. ASSUME GapsFit'
      PROVE  /\ GapsFit /\ sinceTick' = sinceTick + 1
             /\ Cnt + 1 < CntMod => Cnt' = Cnt + 1
  <2>1. GapsFit /\ sinceTick < CntMod
    BY <1>0, <1>1, <1>2, <1>8 DEF GapsFit
  <2>2. Cnt + 1 < CntMod => (Cnt + 1) % CntMod = Cnt + 1
    BY <1>0
  <2> QED BY <1>1, <1>3, <2>1, <2>2
<1>9. KeyAges'
  <2>0. /\ Cnt \in Nat /\ sinceTick \in Nat /\ sinceTick' \in Nat
        /\ longestGap \in Nat /\ longestGap' \in Nat
        /\ sinceTick' <= longestGap' /\ longestGap <= longestGap'
        /\ CntMod \in Nat /\ KmRefreshRate \in Nat /\ KmPreannounce \in Nat
    BY <1>0, <1>2
  <2>1. ASSUME GapsFit', ~Announced PROVE Cnt' <= KmRefreshRate - KmPreannounce + sinceTick'
    <3>1. Cnt <= KmRefreshRate - KmPreannounce + sinceTick
      BY <1>8, <2>1 DEF CryptoInv, KeyAges
    <3>2. sinceTick + 1 <= longestGap' /\ KmRefreshRate + 2 * longestGap' < CntMod
      BY <1>8, <2>0, <2>1 DEF GapsFit
    <3>3. Cnt <= KmRefreshRate + longestGap + sinceTick
      BY <2>0, <3>1
    <3>4. Cnt + 1 < CntMod
      BY <2>0, <3>2, <3>3, NoRollover
    <3> QED BY <1>0, <1>8, <2>1, <3>1, <3>4
  <2>2. ASSUME GapsFit', Announced PROVE Cnt' <= KmRefreshRate + longestGap' + sinceTick'
    <3>1. Cnt <= KmRefreshRate + longestGap + sinceTick
      BY <1>8, <2>2 DEF CryptoInv, KeyAges
    <3>2. sinceTick + 1 <= longestGap' /\ KmRefreshRate + 2 * longestGap' < CntMod
      BY <1>8, <2>0, <2>2 DEF GapsFit
    <3>3. Cnt + 1 < CntMod /\ Cnt + 1 <= KmRefreshRate + longestGap' + (sinceTick + 1)
      BY <2>0, <3>1, <3>2, NoRollover
    <3> QED BY <1>8, <2>2, <3>3
  <2> QED BY <1>1, <1>4, <2>1, <2>2 DEF CryptoInv, KeyAges
<1> QED BY <1>5, <1>6, <1>7, <1>9 DEF CryptoInv

\* The paced retransmission keeps the cached KMREQ's keys.
LEMMA ResendKeeps ==
    ASSUME CryptoInv, NEW paceDue \in BOOLEAN, Resend(paceDue)
    PROVE  /\ outstanding' \in [blob : KmReq, retries : 0 .. KmMaxRetry, lastSend : {"never", "some"}]
           /\ outstanding'.blob = outstanding.blob
<1>1. /\ outstanding \in [blob : KmReq, retries : 0 .. KmMaxRetry, lastSend : {"never", "some"}]
      /\ KmMaxRetry \in Nat
  BY CryptoAssumption DEF CryptoInv, CryptoTypeOK
<1>2. \/ outstanding' = outstanding
      \/ /\ outstanding.retries > 0
         /\ outstanding' = Outstanding(outstanding.blob, outstanding.retries - 1, "some")
  BY DEF Resend
<1> QED BY <1>1, <1>2 DEF Outstanding

LEMMA PreannounceInv ==
    ASSUME CryptoInv, Preannounce, sinceTick' = 0, UNCHANGED <<longestGap, rx, sndState, rcvState>>
    PROVE  CryptoInv'
<1>0. /\ active \in {0, 1} /\ Alt \in {0, 1} /\ Alt # active
      /\ txKey \in [{0, 1} -> Nat] /\ txCnt \in [{0, 1} -> 0 .. CntMod - 1]
      /\ txState \in [{0, 1} -> {"None", "Active", "Announced", "Deprecated"}]
      /\ lastKey \in Nat /\ longestGap \in 0 .. CntMod /\ sinceTick \in 0 .. longestGap
      /\ Cnt = txCnt[active] /\ Cnt \in 0 .. CntMod - 1 /\ CntMod \in Nat
      /\ KmRefreshRate \in Nat \ {0} /\ KmPreannounce \in Nat
      /\ KmMaxRetry \in Nat
  BY InvFacts
<1>1. /\ ~Announced /\ lastKey' = lastKey + 1
      /\ txKey' = [txKey EXCEPT ![Alt] = lastKey + 1]
      /\ txCnt' = [txCnt EXCEPT ![Alt] = 0]
      /\ txState' = [txState EXCEPT ![Alt] = "Announced"]
      /\ outstanding' = Outstanding(Km(txKey'[Even], txKey'[Odd]), KmMaxRetry, "some")
      /\ active' = active
  BY DEF Preannounce, PreannounceDue
<1>2. /\ Alt' = Alt /\ Cnt' = Cnt /\ Announced'
      /\ txKey' \in [{0, 1} -> Nat] /\ txCnt' \in [{0, 1} -> 0 .. CntMod - 1]
      /\ txState' \in [{0, 1} -> {"None", "Active", "Announced", "Deprecated"}]
      /\ txKey'[active] = txKey[active] /\ txKey'[Alt] = lastKey + 1
      /\ txCnt'[Alt] = 0 /\ txState'[active] = txState[active]
  BY <1>0, <1>1 DEF Alt, Cnt, Announced
<1>3. /\ outstanding' \in [blob : KmReq, retries : 0 .. KmMaxRetry, lastSend : {"never", "some"}]
      /\ outstanding'.blob.keys[0] = txKey'[0] /\ outstanding'.blob.keys[1] = txKey'[1]
  <2>1. txKey'[Even] \in Nat /\ txKey'[Odd] \in Nat
    BY <1>2 DEF Even, Odd
  <2>2. /\ Km(txKey'[Even], txKey'[Odd]) \in KmReq
        /\ Km(txKey'[Even], txKey'[Odd]).keys[Even] = txKey'[Even]
        /\ Km(txKey'[Even], txKey'[Odd]).keys[Odd] = txKey'[Odd]
    BY <2>1, KmKeys
  <2> QED BY <1>0, <1>1, <2>2 DEF Outstanding, Even, Odd
<1>4. CryptoTypeOK'
  BY <1>0, <1>1, <1>2, <1>3 DEF CryptoInv, CryptoTypeOK, Slots, Even, Odd
<1>5. \A s \in {0, 1} : s = active \/ s = Alt
  BY <1>0
<1>6. txKey[active] # 0 /\ txKey[active] <= lastKey /\ txState[active] = "Active"
  BY <1>0 DEF CryptoInv, SlotRoles, KeyAges, Slots, Even, Odd, NoKey
<1>7. SlotRoles'
  BY <1>0, <1>1, <1>2, <1>5, <1>6 DEF SlotRoles, Slots, Even, Odd, NoKey, Announced
<1>8. OutstandingIsCurrent'
  BY <1>3 DEF OutstandingIsCurrent, Slots, Even, Odd
<1>9. KeyAges'
  <2>1. GapsFit' => Cnt <= KmRefreshRate - KmPreannounce + sinceTick
    BY <1>1 DEF CryptoInv, KeyAges, GapsFit
  <2>2. GapsFit' => Cnt' <= KmRefreshRate + longestGap' + sinceTick'
    BY <1>0, <1>2, <2>1
  <2>3. \A s \in Slots : txKey'[s] <= lastKey'
    BY <1>0, <1>1, <1>2, <1>5, <1>6 DEF Slots, Even, Odd
  <2> QED BY <1>2, <2>2, <2>3 DEF KeyAges
<1> QED BY <1>4, <1>7, <1>8, <1>9 DEF CryptoInv

\* What on_ack does when it generates no key.
LEMMA RotateInv ==
    ASSUME CryptoInv, NEW paceDue \in BOOLEAN, Switch \/ Decommission \/ KeepKeys, Resend(paceDue),
           sinceTick' = 0, longestGap' = (IF active' = active THEN longestGap ELSE 0),
           UNCHANGED <<rx, sndState, rcvState>>
    PROVE  CryptoInv'
<1>0. /\ active \in {0, 1} /\ Alt \in {0, 1} /\ Alt # active
      /\ txKey \in [{0, 1} -> Nat] /\ txCnt \in [{0, 1} -> 0 .. CntMod - 1]
      /\ txState \in [{0, 1} -> {"None", "Active", "Announced", "Deprecated"}]
      /\ lastKey \in Nat /\ longestGap \in 0 .. CntMod /\ sinceTick \in 0 .. longestGap
      /\ Cnt = txCnt[active] /\ Cnt \in 0 .. CntMod - 1 /\ CntMod \in Nat
      /\ KmRefreshRate \in Nat \ {0} /\ KmPreannounce \in Nat
      /\ 2 * KmPreannounce < KmRefreshRate
      /\ KmRefreshRate < CntMod
      /\ Monus(KmRefreshRate, KmPreannounce) = KmRefreshRate - KmPreannounce
  BY InvFacts
<1>1. /\ outstanding' \in [blob : KmReq, retries : 0 .. KmMaxRetry, lastSend : {"never", "some"}]
      /\ outstanding'.blob = outstanding.blob
  BY ResendKeeps
<1>2. \A s \in {0, 1} : s = active \/ s = Alt
  BY <1>0
<1>3. CASE Switch
  <2>1. /\ Announced /\ active' = Alt /\ UNCHANGED <<txKey, txCnt, lastKey>>
        /\ txState' = [txState EXCEPT ![active] = "Deprecated", ![Alt] = "Active"]
    BY <1>3 DEF Switch, SwitchDue
  <2>2. /\ Alt' = active /\ Cnt' = txCnt[Alt]
        /\ txState' \in [{0, 1} -> {"None", "Active", "Announced", "Deprecated"}]
        /\ txState'[Alt] = "Active" /\ txState'[active] = "Deprecated" /\ ~Announced'
    BY <1>0, <2>1 DEF Alt, Cnt, Announced
  <2>3. CryptoTypeOK'
    BY <1>0, <1>1, <2>1, <2>2 DEF CryptoInv, CryptoTypeOK, Slots, Even, Odd
  <2>4. /\ txKey[active] # 0 /\ txKey[Alt] # 0 /\ txKey[active] # txKey[Alt] /\ txCnt[Alt] = 0
        /\ txState[Alt] = "Announced"
    BY <1>0, <2>1 DEF CryptoInv, SlotRoles, Announced, Slots, Even, Odd, NoKey
  <2>5. SlotRoles'
    BY <1>0, <1>2, <2>1, <2>2, <2>4 DEF SlotRoles, Slots, Even, Odd, NoKey
  <2>6. OutstandingIsCurrent'
    BY <1>1, <2>1 DEF CryptoInv, OutstandingIsCurrent, Idle
  <2>7. KeyAges'
    BY <1>0, <2>1, <2>2, <2>4 DEF CryptoInv, KeyAges
  <2> QED BY <2>3, <2>5, <2>6, <2>7 DEF CryptoInv
<1>4. CASE Decommission
  <2>1. /\ ~PreannounceDue /\ txState[Alt] = "Deprecated" /\ UNCHANGED <<active, lastKey>>
        /\ txKey' = [txKey EXCEPT ![Alt] = 0] /\ txCnt' = [txCnt EXCEPT ![Alt] = 0]
        /\ txState' = [txState EXCEPT ![Alt] = "None"]
    BY <1>4 DEF Decommission, DecommissionDue, NoKey
  <2>2. /\ Alt' = Alt /\ Cnt' = Cnt
        /\ txKey' \in [{0, 1} -> Nat] /\ txCnt' \in [{0, 1} -> 0 .. CntMod - 1]
        /\ txState' \in [{0, 1} -> {"None", "Active", "Announced", "Deprecated"}]
        /\ txState'[Alt] = "None" /\ txState'[active] = txState[active] /\ ~Announced'
        /\ txKey'[Alt] = 0 /\ txKey'[active] = txKey[active]
    BY <1>0, <2>1 DEF Alt, Cnt, Announced
  <2>3. CryptoTypeOK'
    BY <1>0, <1>1, <2>1, <2>2 DEF CryptoInv, CryptoTypeOK, Slots, Even, Odd
  <2>4. txKey[active] # 0 /\ txState[active] = "Active" /\ txKey[active] <= lastKey
    BY <1>0 DEF CryptoInv, SlotRoles, KeyAges, Slots, Even, Odd, NoKey
  <2>5. SlotRoles'
    BY <1>0, <1>2, <2>1, <2>2, <2>4 DEF SlotRoles, Slots, Even, Odd, NoKey
  <2>6. OutstandingIsCurrent'
    BY <1>0, <1>1, <1>2, <2>1, <2>2 DEF CryptoInv, OutstandingIsCurrent, Idle, Slots, Even, Odd, NoKey
  <2>7. Cnt <= KmRefreshRate - KmPreannounce
    BY <1>0, <2>1 DEF PreannounceDue, Announced
  <2>8. KeyAges'
    BY <1>0, <1>2, <2>1, <2>2, <2>4, <2>7 DEF KeyAges, Slots, Even, Odd
  <2> QED BY <2>3, <2>5, <2>6, <2>8 DEF CryptoInv
<1>5. CASE KeepKeys
  <2>1. ~PreannounceDue /\ ~SwitchDue /\ UNCHANGED <<txKey, txCnt, txState, active, lastKey>>
    BY <1>5 DEF KeepKeys, txVars
  <2>2. Alt' = Alt /\ Cnt' = Cnt /\ Announced' = Announced
    BY <2>1 DEF Alt, Cnt, Announced
  <2>3. CryptoTypeOK'
    BY <1>0, <1>1, <2>1 DEF CryptoInv, CryptoTypeOK, Slots, Even, Odd
  <2>4. SlotRoles'
    BY <2>1, <2>2 DEF CryptoInv, SlotRoles
  <2>5. OutstandingIsCurrent'
    BY <1>1, <2>1 DEF CryptoInv, OutstandingIsCurrent, Idle
  <2>6. /\ ~Announced => Cnt <= KmRefreshRate - KmPreannounce
        /\ Announced => Cnt <= KmRefreshRate
    BY <1>0, <2>1 DEF PreannounceDue, SwitchDue
  <2>7. KeyAges'
    BY <1>0, <2>1, <2>2, <2>6 DEF CryptoInv, KeyAges
  <2> QED BY <2>3, <2>4, <2>5, <2>7 DEF CryptoInv
<1> QED BY <1>3, <1>4, <1>5

\* An ACK changes nothing in UNSECURED; otherwise it evaluates the thresholds.
LEMMA OnAckInv == ASSUME CryptoInv, NEW paceDue \in BOOLEAN, OnAck(paceDue) PROVE CryptoInv'
<1>1. CASE UNCHANGED cryptoVars
  BY <1>1, StutterInv
<1>2. CASE Refresh(paceDue)
  <2>1. CASE Preannounce
    <3>1. sinceTick' = 0 /\ UNCHANGED <<longestGap, rx, sndState, rcvState>>
      BY <1>2, <2>1 DEF Refresh, Preannounce
    <3> QED BY <2>1, <3>1, PreannounceInv
  <2>2. CASE (Switch \/ Decommission \/ KeepKeys) /\ Resend(paceDue)
    <3>1. /\ sinceTick' = 0 /\ longestGap' = (IF active' = active THEN longestGap ELSE 0)
          /\ UNCHANGED <<rx, sndState, rcvState>>
      BY <1>2 DEF Refresh
    <3> QED BY <2>2, <3>1, RotateInv
  <2> QED BY <1>2, <2>1, <2>2 DEF Refresh
<1> QED BY <1>1, <1>2 DEF OnAck

LEMMA DecryptInv == ASSUME CryptoInv, NEW kk, Decrypt(kk) PROVE CryptoInv'
<1>1. /\ rcvState' \in KmStates /\ UNCHANGED <<txVars, rx, sndState, outstanding, gapVars>>
  BY DEF Decrypt, CryptoInv, CryptoTypeOK, KmStates
<1>2. CryptoTypeOK'
  BY <1>1 DEF CryptoInv, CryptoTypeOK, txVars, gapVars
<1> QED BY <1>1, <1>2, SlotsUntouched

LEMMA HandleKmReqInv == ASSUME CryptoInv, NEW m \in PeerKms, HandleKmReq(m) PROVE CryptoInv'
<1>1. /\ rcvState' \in KmStates /\ sndState' \in KmStates
      /\ UNCHANGED <<txVars, outstanding, gapVars>>
  BY DEF HandleKmReq, RejectedState, CryptoInv, CryptoTypeOK, KmStates
<1>2. rx' \in [Slots -> Nat]
  <2>1. rx \in [Slots -> Nat] /\ (rx' = rx \/ (m.class = "km" /\ rx' = Install(rx, m)))
    BY DEF HandleKmReq, CryptoInv, CryptoTypeOK
  <2>2. m.keys \in [Slots -> Nat]
    BY CryptoAssumption DEF KmReq, Rejected, NoKey
  <2> QED BY <2>1, <2>2 DEF Install
<1>3. CryptoTypeOK'
  BY <1>1, <1>2 DEF CryptoInv, CryptoTypeOK, txVars, gapVars
<1> QED BY <1>1, <1>3, SlotsUntouched

LEMMA HandleEchoInv == ASSUME CryptoInv, NEW m, HandleEcho(m) PROVE CryptoInv'
<1>1. /\ rcvState' \in KmStates /\ sndState' \in KmStates
      /\ outstanding' = NoKmReq \/ outstanding' = outstanding
      /\ UNCHANGED <<txVars, rx, gapVars>>
  BY DEF HandleEcho, CryptoInv, CryptoTypeOK, KmStates, kmVars
<1>2. /\ NoKmReq \in [blob : KmReq, retries : 0 .. KmMaxRetry, lastSend : {"never", "some"}]
      /\ NoKmReq.blob = Km(NoKey, NoKey)
  BY KmKeys, CryptoAssumption DEF NoKmReq, Outstanding, NoKey
<1>3. CryptoTypeOK'
  BY <1>1, <1>2 DEF CryptoInv, CryptoTypeOK, txVars, gapVars
<1>4. Idle' \/ outstanding'.blob = outstanding.blob
  BY <1>1, <1>2 DEF Idle
<1> QED BY <1>1, <1>3, <1>4, SlotsUntouched

LEMMA HandleStatusInv == ASSUME CryptoInv, NEW reported \in Statuses, HandleStatus(reported) PROVE CryptoInv'
<1>1. /\ rcvState' \in KmStates /\ sndState' \in KmStates
      /\ outstanding' = Outstanding(outstanding.blob, 0, outstanding.lastSend)
      /\ UNCHANGED <<txVars, rx, gapVars>>
  BY DEF HandleStatus, KmStates
<1>2. /\ outstanding' \in [blob : KmReq, retries : 0 .. KmMaxRetry, lastSend : {"never", "some"}]
      /\ outstanding'.blob = outstanding.blob
  BY <1>1, CryptoAssumption DEF CryptoInv, CryptoTypeOK, Outstanding
<1>3. CryptoTypeOK'
  BY <1>1, <1>2 DEF CryptoInv, CryptoTypeOK, txVars, gapVars
<1> QED BY <1>1, <1>2, <1>3, SlotsUntouched

LEMMA CryptoNextInv == CryptoInv /\ [CryptoNext]_cryptoVars => CryptoInv'
<1> SUFFICES ASSUME CryptoInv, [CryptoNext]_cryptoVars PROVE CryptoInv'
  OBVIOUS
<1>1. CASE CryptoNext
  BY <1>1, EncryptInv, DecryptInv, OnAckInv, HandleKmReqInv, HandleEchoInv, HandleStatusInv
     DEF CryptoNext
<1>2. CASE UNCHANGED cryptoVars
  BY <1>2, StutterInv
<1> QED BY <1>1, <1>2

LEMMA CryptoInvariant == CryptoSpec => []CryptoInv
  BY CryptoInitInv, CryptoNextInv, PTL DEF CryptoSpec

-----------------------------------------------------------------------------
\* The slots never get out of step, whatever the peer sends: encrypt and
\* tick_refresh always find the keys they expect.
THEOREM CryptoSlotRoles == CryptoSpec => []SlotRoles
<1>1. CryptoInv => SlotRoles
  BY DEF CryptoInv
<1> QED BY <1>1, CryptoInvariant, PTL

\* A key is used for at most km_refresh_rate packets plus twice the longest run of
\* packets over which tick_refresh did not run, as long as that fits pkt_cnt:
\* the roll-over of pkt_cnt takes a run without ACKs, or in UNSECURED, of nearly
\* half its range.
THEOREM CryptoKeyUseBounded == CryptoSpec => []KeyUseBounded
  BY AgesBoundUse, CryptoInvariant, PTL

\* A retransmitted or confirmed KMREQ always carries the keys in the send slots.
THEOREM CryptoOutstandingIsCurrent == CryptoSpec => []OutstandingIsCurrent
<1>1. CryptoInv => OutstandingIsCurrent
  BY DEF CryptoInv
<1> QED BY <1>1, CryptoInvariant, PTL
=============================================================================
