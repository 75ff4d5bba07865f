---------------------------- MODULE KeyMaterial -----------------------------
(* Key material of one endpoint in detail: the key-encrypting key derived    *)
(* from the passphrase and the salt, the wrapped keys, the KM message and    *)
(* its validation (crypto/keys.rs, crypto/km.rs), the counter mode keystream *)
(* (crypto/ctr.rs), and how handle_kmreq and install_rx of                   *)
(* crypto/context.rs cache the receive KEK and salt from one KMREQ to the    *)
(* next.  The ciphers themselves are symbolic: a wrapped key opens with the  *)
(* KEK it was wrapped with, and a keystream applied twice cancels out.       *)
EXTENDS Integers, Sequences, FiniteSets

CONSTANTS
    OwnPass,      \* cfg.passphrase
    Passphrases,  \* the peer's passphrase: OwnPass, or another one
    Salts,        \* salts, as the parts of the 16 bytes that matter
    KeyIds,       \* identities of random SEKs
    Kms,          \* KMREQ payloads the peer sends
    Seqs,         \* sequence numbers
    CtrSpace,     \* 2^16, blocks the counter of one packet distinguishes
    BitXor(_, _)  \* bitwise exclusive or

\* iv: bytes 0 .. 13, which the counter block uses; kdf: bytes 8 .. 15, which
\* the key derivation uses.
SaltSet == [iv : Nat, kdf : Nat]

ASSUME KeyMaterialAssumption ==
    /\ OwnPass \in Passphrases
    /\ Salts \subseteq SaltSet
    /\ Seqs \subseteq Nat
    /\ CtrSpace \in Nat \ {0}
    /\ \A x \in Salts, m, n \in Seqs :
         /\ BitXor(x.iv, m) \in Nat
         /\ BitXor(x.iv, m) = BitXor(x.iv, n) => m = n

KeySlots == {"Even", "Odd"}
KeyLengths == {"Aes128", "Aes192", "Aes256"}

\* KeyLength::bytes, and KeyLength::from_bytes as its inverse.
KeyBytes(len) == CASE len = "Aes128" -> 16 [] len = "Aes192" -> 24 [] len = "Aes256" -> 32

FromBytes(n) == {len \in KeyLengths : KeyBytes(len) = n}

\* SecretKey::generate, of which the identity and the length matter.
Sek(id, len) == [id |-> id, len |-> len]
NoSek == [id |-> "none", len |-> "none"]

-----------------------------------------------------------------------------
\* derive_kek: the last 8 bytes of the salt only.
DeriveKek(pass, salt, len) == [pass |-> pass, kdf |-> salt.kdf, len |-> len]
NoKek == [pass |-> "none", kdf |-> 0, len |-> "none"]

WrapIcvLen == 8

\* wrap_key over one key, or over the even and the odd key in that order.
WrapKey(key, plain) ==
    [kek |-> key, plain |-> plain, size |-> WrapIcvLen + Len(plain) * KeyBytes(plain[1].len)]

\* unwrap_key: the keys, unless the integrity check tells that the KEK was another one.
UnwrapError(key, wrapped) ==
    IF wrapped.size < 24 \/ wrapped.size % 8 # 0 THEN "BadKmMessage"
    ELSE IF wrapped.kek # key THEN "WrongSecret" ELSE "none"

-----------------------------------------------------------------------------
KmHeaderLen == 16
KmSaltLen == 16
KmSign == 8233 \* 0x2029

\* KmKeys: the slots a message carries, and their two bits on the wire.
KmKeys == (SUBSET KeySlots) \ {{}}
KeyBits(keys) == (IF "Even" \in keys THEN 1 ELSE 0) + (IF "Odd" \in keys THEN 2 ELSE 0)

KmMessage(keys, keyLen, salt, wrapped) ==
    [keys |-> keys, keyLen |-> keyLen, salt |-> salt, wrapped |-> wrapped]

\* KmKeys::count, and the length of the wrap it calls for.
KeyCount(kk) == IF kk % 4 = 3 THEN 2 ELSE 1
WrapSize(buf) == WrapIcvLen + KeyCount(buf.kk) * (buf.klen * 4)

\* KmMessage::encode: the fields of the payload, and its length in bytes.
EncodeKm(msg) ==
    [size |-> KmHeaderLen + KmSaltLen + msg.wrapped.size,
     version |-> 1, pt |-> 2, sign |-> KmSign, kk |-> KeyBits(msg.keys),
     cipher |-> 2, auth |-> 0, se |-> 2,
     slen |-> KmSaltLen \div 4, klen |-> KeyBytes(msg.keyLen) \div 4,
     salt |-> msg.salt, wrapped |-> msg.wrapped]

\* The pre-checks of parse_kmreq, which KmMessage::parse repeats ...
PreChecked(buf) == buf.size > KmHeaderLen /\ buf.klen # 0

\* ... and what else it checks.
WellFormed(buf) ==
    /\ buf.version = 1 /\ buf.pt = 2 /\ buf.sign = KmSign /\ buf.se = 2
    /\ buf.kk % 4 # 0
    /\ buf.slen * 4 = KmSaltLen
    /\ FromBytes(buf.klen * 4) # {}
    /\ buf.size = KmHeaderLen + KmSaltLen + WrapSize(buf)
    /\ buf.cipher = 2 /\ buf.auth = 0

ParseKm(buf) ==
    KmMessage(CHOOSE keys \in KmKeys : KeyBits(keys) = buf.kk % 4,
              CHOOSE len \in KeyLengths : KeyBytes(len) = buf.klen * 4,
              buf.salt, buf.wrapped)

-----------------------------------------------------------------------------
\* counter_block: the salted sequence number above a counter that starts at 0.
CounterBlock(salt, seq) == BitXor(salt.iv, seq) * CtrSpace

\* The block that xor_keystream encrypts for the i-th block of a payload.
KeystreamBlock(salt, seq, i) == CounterBlock(salt, seq) + i

Toggle(set, x) == IF x \in set THEN set \ {x} ELSE set \cup {x}

\* apply_keystream.  A payload is the set of the keystreams laid over its text.
ClearText == {}
ApplyKeystream(key, salt, seq, payload) == Toggle(payload, <<key, CounterBlock(salt, seq)>>)

-----------------------------------------------------------------------------
VARIABLES
    kek,                 \* kek
    rxKek,               \* rx_kek
    rxSalt,              \* rx_salt
    rxKeys,              \* rx: the key of each slot
    sndKm, rcvKm,        \* snd_state, rcv_state
    announced            \* for each slot, key and salt of the last KM accepted with it

materialVars == <<kek, rxKek, rxSalt, rxKeys, sndKm, rcvKm, announced>>

Announcement(key, salt) == [key |-> key, salt |-> salt]
NoSalt == [iv |-> 0, kdf |-> 0]
NotAnnounced == Announcement(NoSek, NoSalt)

\* split_seks: even first.
SplitSeks(msg, s) ==
    CASE s \notin msg.keys -> NoSek
      [] s \in msg.keys /\ Cardinality(msg.keys) = 2 /\ s = "Odd" -> msg.wrapped.plain[2]
      [] OTHER -> msg.wrapped.plain[1]

\* new_initiator, once the echo has confirmed its first key.
InitiatorInit ==
    \E salt \in Salts, len \in KeyLengths, id \in KeyIds :
        /\ kek = DeriveKek(OwnPass, salt, len)
        /\ rxSalt = salt
        /\ rxKeys = [s \in KeySlots |-> IF s = "Even" THEN Sek(id, len) ELSE NoSek]
        /\ announced = [s \in KeySlots |-> IF s = "Even" THEN Announcement(Sek(id, len), salt)
                                        ELSE NotAnnounced]

\* new_responder with the KM of the handshake, of whatever key length.
ResponderInit ==
    \E buf \in Kms :
        LET msg == ParseKm(buf)
            own == DeriveKek(OwnPass, msg.salt, msg.keyLen) IN
        /\ PreChecked(buf) /\ WellFormed(buf)
        /\ UnwrapError(own, msg.wrapped) = "none"
        /\ kek = own
        /\ rxSalt = msg.salt
        /\ rxKeys = [s \in KeySlots |-> SplitSeks(msg, s)]
        /\ announced = [s \in KeySlots |-> IF s \in msg.keys THEN Announcement(rxKeys[s], msg.salt)
                                        ELSE NotAnnounced]

MaterialInit ==
    /\ rxKek = NoKek
    /\ sndKm = "Secured" /\ rcvKm = "Secured"
    /\ InitiatorInit \/ ResponderInit

\* The KEK that opens the peer's messages, and the one install_rx opens msg with:
\* derived anew only if the salt or the key length has changed.
InForce == IF rxKek = NoKek THEN kek ELSE rxKek

Fresh(msg) == msg.salt # rxSalt \/ KeyBytes(msg.keyLen) # KeyBytes(InForce.len)

KekFor(msg) == IF Fresh(msg) THEN DeriveKek(OwnPass, msg.salt, msg.keyLen) ELSE InForce

OpenError(msg) == UnwrapError(KekFor(msg), msg.wrapped)

\* Definitions named Mut... are deliberate bugs; no specification uses them.
MutInstallKeepsKek(msg) ==
    /\ OpenError(msg) = "none"
    /\ rxKeys' = [s \in KeySlots |-> IF s \in msg.keys THEN SplitSeks(msg, s) ELSE rxKeys[s]]
    /\ rxSalt' = msg.salt
    /\ announced' = [s \in KeySlots |-> IF s \in msg.keys THEN Announcement(rxKeys'[s], msg.salt)
                                     ELSE announced[s]]
    /\ UNCHANGED rxKek

\* install_rx: the receive KEK and salt are committed only if msg was opened.
InstallRx(msg) ==
    /\ OpenError(msg) = "none"
    /\ rxKeys' = [s \in KeySlots |-> IF s \in msg.keys THEN SplitSeks(msg, s) ELSE rxKeys[s]]
    /\ rxKek' = IF Fresh(msg) THEN KekFor(msg) ELSE rxKek
    /\ rxSalt' = msg.salt
    /\ announced' = [s \in KeySlots |-> IF s \in msg.keys THEN Announcement(rxKeys'[s], msg.salt)
                                     ELSE announced[s]]

KeepReceiveKeys == UNCHANGED <<rxKeys, rxKek, rxSalt, announced>>

\* Crypto::handle_kmreq.
KmRefused(buf) ==
    /\ ~PreChecked(buf)
    /\ rcvKm' = "BadSecret"
    /\ KeepReceiveKeys /\ UNCHANGED <<kek, sndKm>>

KmMalformed(buf) ==
    /\ PreChecked(buf) /\ ~WellFormed(buf)
    /\ rcvKm' = "NoSecret" /\ sndKm' = "NoSecret"
    /\ KeepReceiveKeys /\ UNCHANGED kek

KmInstalled(buf) ==
    /\ PreChecked(buf) /\ WellFormed(buf)
    /\ InstallRx(ParseKm(buf))
    /\ rcvKm' = "Secured"
    /\ UNCHANGED <<kek, sndKm>>

KmNotOpened(buf) ==
    /\ PreChecked(buf) /\ WellFormed(buf)
    /\ OpenError(ParseKm(buf)) # "none"
    /\ rcvKm' = IF OpenError(ParseKm(buf)) = "WrongSecret" THEN "BadSecret" ELSE "NoSecret"
    /\ sndKm' = rcvKm'
    /\ KeepReceiveKeys /\ UNCHANGED kek

MaterialNext ==
    \E buf \in Kms : KmRefused(buf) \/ KmMalformed(buf) \/ KmInstalled(buf) \/ KmNotOpened(buf)

MaterialSpec == MaterialInit /\ [][MaterialNext]_materialVars

-----------------------------------------------------------------------------
\* The KM a peer with the passphrase pass sends for the slots in keys.
PeerKm(pass, salt, len, keys, plain) ==
    EncodeKm(KmMessage(keys, len, salt, WrapKey(DeriveKek(pass, salt, len), plain)))

\* A payload that a peer with the same passphrase has encoded.
Genuine(buf) ==
    /\ PreChecked(buf) /\ WellFormed(buf)
    /\ buf.wrapped.kek = DeriveKek(OwnPass, buf.salt, ParseKm(buf).keyLen)
    /\ buf.wrapped.size = WrapSize(buf)

\* Whatever KMREQs were accepted or rejected before, the cached KEK never makes
\* install_rx fail on one from a peer with the same passphrase, of any salt and
\* any key length; and while the receive direction is secured, packets under the
\* last accepted key of each slot come out as they were sent, unless a later KM
\* has changed the salt without that slot.
KeyMaterialUsable ==
    /\ \A buf \in Kms : Genuine(buf) => OpenError(ParseKm(buf)) = "none"
    /\ \A s \in KeySlots, seq \in Seqs :
         /\ rcvKm = "Secured"
         /\ announced[s] # NotAnnounced
         /\ announced[s].salt = rxSalt
         => LET sent == ApplyKeystream(announced[s].key, announced[s].salt, seq, ClearText) IN
            ApplyKeystream(rxKeys[s], rxSalt, seq, sent) = ClearText
=============================================================================
