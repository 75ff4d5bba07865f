------------------------------ MODULE MCCrypto ------------------------------
(* The crypto engine for TLC: the rotation of its keys (Crypto) or the key   *)
(* material it accepts (KeyMaterial), one of them in a behaviour.  The       *)
(* options that configure the engine come along with their constants.        *)
EXTENDS Crypto, Options, KeyMaterial, Bitwise

VARIABLE aspect

\* Rotation: the peer's keys are numbered from 90.
MCAdoptedKms == {Km(1, NoKey), Km(NoKey, 1), Km(1, 2)}
MCPeerKms == {Km(1, NoKey), Km(92, 91)} \cup Rejected

\* Key material: salts that differ in either part, KMs of every kind from peers
\* with either passphrase, and one with each of its fields altered.
MCSalts == {[iv |-> 5, kdf |-> 1], [iv |-> 6, kdf |-> 1], [iv |-> 5, kdf |-> 2]}
MCXor(a, b) == a ^^ b

MCPlain(keys, ids, len) ==
    IF Cardinality(keys) = 2 THEN <<Sek(ids[1], len), Sek(ids[2], len)>> ELSE <<Sek(ids[1], len)>>

MCSoundKms ==
    {PeerKm(pass, salt, len, keys, MCPlain(keys, ids, len)) :
        pass \in Passphrases, salt \in Salts, len \in {"Aes128", "Aes256"}, keys \in KmKeys,
        ids \in {<<"a", "b">>, <<"b", "a">>}}

MCOneKm == PeerKm(OwnPass, [iv |-> 5, kdf |-> 1], "Aes192", {"Odd"}, <<Sek("a", "Aes192")>>)

MCKms ==
    MCSoundKms \cup {MCOneKm}
    \cup {[MCOneKm EXCEPT !.size = n] : n \in {KmHeaderLen, MCOneKm.size - 1}}
    \cup {[MCOneKm EXCEPT !.klen = n] : n \in {0, 5}}
    \cup {[MCOneKm EXCEPT !.version = 2], [MCOneKm EXCEPT !.pt = 1], [MCOneKm EXCEPT !.sign = 0],
          [MCOneKm EXCEPT !.se = 1], [MCOneKm EXCEPT !.kk = 4], [MCOneKm EXCEPT !.slen = 2],
          [MCOneKm EXCEPT !.cipher = 1], [MCOneKm EXCEPT !.auth = 1],
          [MCOneKm EXCEPT !.wrapped.kek = NoKek]}

-----------------------------------------------------------------------------
\* The aspect that does not run stays in one initial state.
OneRotation == sinceTick = 0 /\ longestGap = 0 /\ NewInitiator
OneMaterial ==
    LET salt == [iv |-> 5, kdf |-> 1] IN
    /\ kek = DeriveKek(OwnPass, salt, "Aes128")
    /\ announced = [s \in KeySlots |-> IF s = "Even" THEN Announcement(Sek("a", "Aes128"), salt)
                                       ELSE NotAnnounced]
    /\ MaterialInit

MCInit ==
    \/ aspect = "rotation" /\ CryptoInit /\ OneMaterial
    \/ aspect = "material" /\ MaterialInit /\ OneRotation

MCNext ==
    /\ \/ aspect = "rotation" /\ CryptoNext /\ UNCHANGED materialVars
       \/ aspect = "material" /\ MaterialNext /\ UNCHANGED cryptoVars
    /\ UNCHANGED aspect

MCSpec == MCInit /\ [][MCNext]_<<aspect, cryptoVars, materialVars>>
=============================================================================
