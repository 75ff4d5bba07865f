------------------------------ MODULE Options -------------------------------
(* Options of a connection (src/options.rs), the checks SrtSocket::connect and *)
(* SrtListener::bind make of them before any packet is sent, and the receive   *)
(* buffer they lead to.  The options that take part in no check and in no      *)
(* other module (addresses, socket buffers) are left out; lengths stand for    *)
(* strings, and -1 for None.                                                   *)
EXTENDS Integers

CONSTANTS
    I31Max,              \* 2^31 - 1
    DefaultRefreshRate,  \* 2^24
    DefaultPreannounce   \* 2^16

ASSUME OptionsAssumption ==
    /\ I31Max \in Nat /\ DefaultRefreshRate \in 1 .. I31Max
    /\ DefaultPreannounce \in Nat /\ 2 * DefaultPreannounce < DefaultRefreshRate

Unset == -1 \* None
U32 == 0 .. 2 * I31Max + 1

PassphraseMin == 10
PassphraseMax == 80
StreamIdMax == 512

PbKeyLengths == {"Aes128", "Aes192", "Aes256"}
Modes == {"Unlimited", "Max", "Input", "Estimated"}

\* SrtOptions: latencies in milliseconds, passphrase and streamid by length.
SrtOptions ==
    [latency : Nat, peerLatency : Nat, mss : U32,
     flowWindow : U32, recvBufferPkts : Nat, sendBufferPkts : Nat,
     connectTimeout : Nat, peerIdleTimeout : Nat, dataIdleTimeout : Nat \cup {Unset},
     streamid : Nat \cup {Unset}, passphrase : Nat \cup {Unset},
     bandwidth : [mode : Modes, rate : Nat, overheadPct : 0 .. 255],
     pbkeylen : PbKeyLengths \cup {"none"},
     kmRefreshRate : U32 \cup {Unset}, kmPreannounce : U32 \cup {Unset}]

DefaultOptions ==
    [latency |-> 120, peerLatency |-> 0, mss |-> 1500,
     flowWindow |-> 8192, recvBufferPkts |-> 8192, sendBufferPkts |-> 8192,
     connectTimeout |-> 3000, peerIdleTimeout |-> 5000, dataIdleTimeout |-> Unset,
     streamid |-> Unset, passphrase |-> Unset,
     bandwidth |-> [mode |-> "Unlimited", rate |-> 0, overheadPct |-> 0],
     pbkeylen |-> "none", kmRefreshRate |-> Unset, kmPreannounce |-> Unset]

-----------------------------------------------------------------------------
\* crypto_config.  None or 0 asks for the default.
Encrypted(o) == o.passphrase \notin {Unset, 0}

RateExplicit(o) == o.kmRefreshRate \notin {Unset, 0}

RefreshRateOf(o) == IF RateExplicit(o) THEN o.kmRefreshRate ELSE DefaultRefreshRate

MaxPreannounce(o) == (IF RefreshRateOf(o) > 1 THEN RefreshRateOf(o) - 1 ELSE 0) \div 2

PreannounceOf(o) ==
    IF o.kmPreannounce \notin {Unset, 0} THEN o.kmPreannounce
    ELSE IF RateExplicit(o) THEN MaxPreannounce(o) ELSE DefaultPreannounce

KmOutOfRange(o) ==
    RefreshRateOf(o) > I31Max \/ (o.kmPreannounce # Unset /\ o.kmPreannounce > MaxPreannounce(o))

CryptoError(o) ==
    IF ~Encrypted(o) THEN "none"
    ELSE IF o.passphrase \notin PassphraseMin .. PassphraseMax THEN "InvalidPassphrase"
    ELSE IF KmOutOfRange(o) THEN "InvalidKmParameters" ELSE "none"

CryptoConfig(o) ==
    [passphrase |-> o.passphrase,
     keyLen |-> IF o.pbkeylen = "none" THEN "Aes128" ELSE o.pbkeylen,
     kmRefreshRate |-> RefreshRateOf(o), kmPreannounce |-> PreannounceOf(o)]

\* Bandwidth::validate.
BandwidthError(b) ==
    \/ b.mode \in {"Max", "Input"} /\ b.rate = 0
    \/ b.mode \in {"Input", "Estimated"} /\ b.overheadPct \notin 5 .. 100

\* The checks of SrtSocket::connect, in order; SrtListener::bind makes the last two.
BindError(o) ==
    IF CryptoError(o) # "none" THEN CryptoError(o)
    ELSE IF BandwidthError(o.bandwidth) THEN "InvalidBandwidth" ELSE "none"

ConnectError(o) ==
    IF o.streamid > StreamIdMax THEN "StreamIdTooLong" ELSE BindError(o)

-----------------------------------------------------------------------------
\* scaled_recv_buffer: a negotiated latency above the configured one asks for a
\* larger buffer, in proportion and up to a cap.  1 stands for a millisecond.
MaxRecvBufferScale == 64
MaxScaledRecvBufferPkts == 1048576

AtLeast(a, b) == IF a > b THEN a ELSE b
AtMost(a, b) == IF a < b THEN a ELSE b

ConfiguredLatency(o) == AtLeast(o.latency, 1)

DivCeil(a, b) == (a + (b - 1)) \div b

RecvBufferCap(o) ==
    AtLeast(AtMost(o.recvBufferPkts * MaxRecvBufferScale, MaxScaledRecvBufferPkts), o.recvBufferPkts)

ScaledRecvBuffer(o, rcvLatency) ==
    IF rcvLatency <= o.latency THEN o.recvBufferPkts
    ELSE AtMost(DivCeil(o.recvBufferPkts * rcvLatency, ConfiguredLatency(o)), RecvBufferCap(o))
=============================================================================
