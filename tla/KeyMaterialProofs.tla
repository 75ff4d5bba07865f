------------------------- MODULE KeyMaterialProofs --------------------------
(* Proofs about the key material.  The inductive invariant says what the     *)
(* cached receive KEK is: the one that install_rx would derive anew.         *)
EXTENDS KeyMaterial, TLAPS

KekCurrent == \E len \in KeyLengths : InForce = DeriveKek(OwnPass, rxSalt, len)

AsAnnounced == \A s \in KeySlots : announced[s] # NotAnnounced => rxKeys[s] = announced[s].key

MaterialInv == KekCurrent /\ AsAnnounced

\* KeyLength::bytes tells the three lengths apart.
LEMMA KeyBytesInjective ==
    ASSUME NEW k \in KeyLengths, NEW l \in KeyLengths, KeyBytes(k) = KeyBytes(l)
    PROVE  k = l
BY DEF KeyLengths, KeyBytes

\* A payload that passes KmMessage::parse names one of the three key lengths.
LEMMA ParsedLength ==
    ASSUME NEW buf, WellFormed(buf)
    PROVE  ParseKm(buf).keyLen \in KeyLengths
<1>1. \E len \in KeyLengths : KeyBytes(len) = buf.klen * 4
  BY DEF WellFormed, FromBytes
<1>2. (CHOOSE len \in KeyLengths : KeyBytes(len) = buf.klen * 4) \in KeyLengths
  BY <1>1
<1> QED BY <1>2 DEF ParseKm, KmMessage

\* install_rx opens a message with the KEK of the message's salt and key length,
\* whether it takes the cached one or derives it.
LEMMA KekForIsDerived ==
    ASSUME KekCurrent, NEW msg, msg.keyLen \in KeyLengths
    PROVE  KekFor(msg) = DeriveKek(OwnPass, msg.salt, msg.keyLen)
<1>1. PICK len \in KeyLengths : InForce = DeriveKek(OwnPass, rxSalt, len)
  BY DEF KekCurrent
<1>2. InForce.len = len
  BY <1>1 DEF DeriveKek
<1>3. CASE Fresh(msg)
  BY <1>3 DEF KekFor
<1>4. CASE ~Fresh(msg)
  <2>1. msg.salt = rxSalt /\ KeyBytes(msg.keyLen) = KeyBytes(len)
    BY <1>2, <1>4 DEF Fresh
  <2>2. msg.keyLen = len
    BY <2>1, KeyBytesInjective
  <2> QED BY <1>1, <1>4, <2>1, <2>2 DEF KekFor
<1> QED BY <1>3, <1>4

\* A derived KEK is never the marker of an absent one.
LEMMA DerivedIsSome ==
    ASSUME NEW pass, NEW salt, NEW len \in KeyLengths
    PROVE  DeriveKek(pass, salt, len) # NoKek
<1>1. DeriveKek(pass, salt, len).len = len /\ NoKek.len = "none"
  BY DEF DeriveKek, NoKek
<1>2. len # "none"
  BY DEF KeyLengths
<1> QED BY <1>1, <1>2

\* new_initiator and new_responder establish the invariant.
LEMMA MaterialInitInv == MaterialInit => MaterialInv
<1> SUFFICES ASSUME MaterialInit PROVE MaterialInv
  OBVIOUS
<1>1. InForce = kek
  BY DEF MaterialInit, InForce
<1>2. CASE InitiatorInit
  <2>1. PICK salt \in Salts, len \in KeyLengths, id \in KeyIds :
          /\ kek = DeriveKek(OwnPass, salt, len)
          /\ rxSalt = salt
          /\ rxKeys = [s \in KeySlots |-> IF s = "Even" THEN Sek(id, len) ELSE NoSek]
          /\ announced = [s \in KeySlots |-> IF s = "Even" THEN Announcement(Sek(id, len), salt)
                                          ELSE NotAnnounced]
    BY <1>2 DEF InitiatorInit
  <2>2. KekCurrent
    BY <1>1, <2>1 DEF KekCurrent
  <2>3. AsAnnounced
    BY <2>1 DEF AsAnnounced, Announcement
  <2> QED BY <2>2, <2>3 DEF MaterialInv
<1>3. CASE ResponderInit
  <2>1. PICK buf \in Kms :
          /\ WellFormed(buf)
          /\ kek = DeriveKek(OwnPass, ParseKm(buf).salt, ParseKm(buf).keyLen)
          /\ rxSalt = ParseKm(buf).salt
          /\ announced = [s \in KeySlots |-> IF s \in ParseKm(buf).keys
                                            THEN Announcement(rxKeys[s], ParseKm(buf).salt)
                                            ELSE NotAnnounced]
    BY <1>3 DEF ResponderInit
  <2>2. KekCurrent
    BY <1>1, <2>1, ParsedLength DEF KekCurrent
  <2>3. AsAnnounced
    BY <2>1 DEF AsAnnounced, Announcement
  <2> QED BY <2>2, <2>3 DEF MaterialInv
<1> QED BY <1>2, <1>3 DEF MaterialInit

\* A KMREQ, installed or rejected, preserves it.
LEMMA MaterialStepInv == MaterialInv /\ [MaterialNext]_materialVars => MaterialInv'
<1> SUFFICES ASSUME MaterialInv, [MaterialNext]_materialVars PROVE MaterialInv'
  OBVIOUS
<1>1. ASSUME UNCHANGED kek, KeepReceiveKeys PROVE MaterialInv'
  BY <1>1 DEF MaterialInv, KekCurrent, AsAnnounced, InForce, KeepReceiveKeys
<1>2. ASSUME NEW buf \in Kms, KmInstalled(buf) PROVE MaterialInv'
  <2> DEFINE msg == ParseKm(buf)
  <2>1. msg.keyLen \in KeyLengths
    BY <1>2, ParsedLength DEF KmInstalled
  <2> HIDE DEF msg
  <2>2. InstallRx(msg) /\ kek' = kek
    BY <1>2 DEF KmInstalled, msg
  <2>3. KekFor(msg) = DeriveKek(OwnPass, msg.salt, msg.keyLen)
    BY <2>1, KekForIsDerived DEF MaterialInv
  <2>4. InForce' = KekFor(msg)
    <3>1. CASE Fresh(msg)
      <4>1. rxKek' = KekFor(msg) /\ KekFor(msg) # NoKek
        BY <2>1, <2>2, <2>3, <3>1, DerivedIsSome DEF InstallRx
      <4> QED BY <4>1 DEF InForce
    <3>2. CASE ~Fresh(msg)
      BY <2>2, <3>2 DEF InstallRx, InForce, KekFor
    <3> QED BY <3>1, <3>2
  <2>5. KekCurrent'
    BY <2>1, <2>2, <2>3, <2>4 DEF KekCurrent, InstallRx
  <2>6. AsAnnounced'
    <3>1. rxKeys' = [s \in KeySlots |-> IF s \in msg.keys THEN SplitSeks(msg, s) ELSE rxKeys[s]]
      BY <2>2 DEF InstallRx
    <3>2. announced' = [s \in KeySlots |-> IF s \in msg.keys THEN Announcement(rxKeys'[s], msg.salt)
                                        ELSE announced[s]]
      BY <2>2 DEF InstallRx
    <3> QED BY <3>1, <3>2 DEF AsAnnounced, MaterialInv, Announcement
  <2> QED BY <2>5, <2>6 DEF MaterialInv
<1>3. CASE UNCHANGED materialVars
  BY <1>1, <1>3 DEF materialVars, KeepReceiveKeys
<1> QED BY <1>1, <1>2, <1>3 DEF MaterialNext, KmRefused, KmMalformed, KmNotOpened

\* apply_keystream is its own inverse.
LEMMA KeystreamCancels ==
    ASSUME NEW key, NEW salt, NEW seq
    PROVE  ApplyKeystream(key, salt, seq, ApplyKeystream(key, salt, seq, ClearText)) = ClearText
BY DEF ApplyKeystream, Toggle, ClearText

\* The invariant is enough.
LEMMA MaterialInvUsable == MaterialInv => KeyMaterialUsable
<1> SUFFICES ASSUME MaterialInv PROVE KeyMaterialUsable
  OBVIOUS
<1>1. ASSUME NEW buf \in Kms, Genuine(buf) PROVE OpenError(ParseKm(buf)) = "none"
  <2>1. KekFor(ParseKm(buf)) = DeriveKek(OwnPass, ParseKm(buf).salt, ParseKm(buf).keyLen)
    BY <1>1, ParsedLength, KekForIsDerived DEF Genuine, MaterialInv
  <2>2. ParseKm(buf).salt = buf.salt /\ ParseKm(buf).wrapped = buf.wrapped
    BY DEF ParseKm, KmMessage
  <2>3. buf.klen * 4 \in {16, 24, 32}
    BY <1>1 DEF Genuine, WellFormed, FromBytes, KeyLengths, KeyBytes
  <2>4. buf.wrapped.size \in Nat /\ buf.wrapped.size >= 24 /\ buf.wrapped.size % 8 = 0
    <3>1. buf.wrapped.size = 8 + KeyCount(buf.kk) * (buf.klen * 4)
      BY <1>1 DEF Genuine, WrapSize, WrapIcvLen
    <3>2. KeyCount(buf.kk) \in {1, 2}
      BY DEF KeyCount
    <3> QED BY <2>3, <3>1, <3>2
  <2>5. buf.wrapped.kek = DeriveKek(OwnPass, buf.salt, ParseKm(buf).keyLen)
    BY <1>1 DEF Genuine
  <2>6. ~(buf.wrapped.size < 24 \/ buf.wrapped.size % 8 # 0)
    BY <2>4
  <2>7. ParseKm(buf).wrapped.kek = KekFor(ParseKm(buf))
    BY <2>1, <2>2, <2>5
  <2> QED BY <2>2, <2>6, <2>7 DEF OpenError, UnwrapError
<1>2. ASSUME NEW s \in KeySlots, NEW seq \in Seqs, announced[s] # NotAnnounced,
             announced[s].salt = rxSalt
      PROVE  ApplyKeystream(rxKeys[s], rxSalt, seq,
               ApplyKeystream(announced[s].key, announced[s].salt, seq, ClearText)) = ClearText
  BY <1>2, KeystreamCancels DEF MaterialInv, AsAnnounced
<1> QED BY <1>1, <1>2 DEF KeyMaterialUsable

\* For every set of passphrases, salts and payloads: the KEK cached by
\* install_rx never refuses a KMREQ of a peer with the same passphrase, and the
\* keys last accepted decrypt what they encrypted.
THEOREM KeyMaterialStaysUsable == MaterialSpec => []KeyMaterialUsable
<1>1. MaterialInit => MaterialInv
  BY MaterialInitInv
<1>2. MaterialInv /\ [MaterialNext]_materialVars => MaterialInv'
  BY MaterialStepInv
<1>3. MaterialInv => KeyMaterialUsable
  BY MaterialInvUsable
<1> QED BY <1>1, <1>2, <1>3, PTL DEF MaterialSpec

\* "No carry ever reaches byte 13": two packets of a connection never share a
\* block of keystream input, however long each of them is within the 2^16 blocks
\* of the counter, so that incrementing the whole counter block, as
\* xor_keystream does, is the same as incrementing its last two bytes.
THEOREM KeystreamBlocksDistinct ==
    ASSUME NEW salt \in Salts, NEW m \in Seqs, NEW n \in Seqs, m # n,
           NEW i \in 0 .. CtrSpace - 1, NEW j \in 0 .. CtrSpace - 1
    PROVE  KeystreamBlock(salt, m, i) # KeystreamBlock(salt, n, j)
<1> DEFINE a == BitXor(salt.iv, m)
           b == BitXor(salt.iv, n)
<1>1. a \in Nat /\ b \in Nat /\ a # b /\ CtrSpace \in Nat \ {0}
  BY KeyMaterialAssumption
<1> HIDE DEF a, b
<1>2. ASSUME NEW x \in Nat, NEW y \in Nat, x < y,
             NEW k \in 0 .. CtrSpace - 1, NEW l \in 0 .. CtrSpace - 1
      PROVE  x * CtrSpace + k # y * CtrSpace + l
  <2>1. x + 1 <= y
    BY <1>2
  <2>2. (x + 1) * CtrSpace <= y * CtrSpace
    BY <1>1, <2>1
  <2>3. (x + 1) * CtrSpace = x * CtrSpace + CtrSpace
    BY <1>1
  <2> QED BY <1>1, <2>2, <2>3
<1>3. a * CtrSpace + i # b * CtrSpace + j
  BY <1>1, <1>2
<1> QED BY <1>3 DEF KeystreamBlock, CounterBlock, a, b
=============================================================================
