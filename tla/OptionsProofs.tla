--------------------------- MODULE OptionsProofs ----------------------------
(* What the validation of the options guarantees to the modules behind it.   *)
EXTENDS Options, TLAPS

\* Every option set that connect or bind accepts resolves to a refresh rate and a
\* pre-announce distance with which the refresh cycle of the key engine is in
\* order (the assumption of module Crypto): the rate is positive and below the
\* 2^31 sequence numbers, and the two pre-announce windows of a key do not meet.
THEOREM AcceptedOptionsFitCrypto ==
    ASSUME NEW o \in SrtOptions, BindError(o) = "none", Encrypted(o)
    PROVE  /\ CryptoConfig(o).kmRefreshRate \in 1 .. I31Max
           /\ CryptoConfig(o).kmPreannounce \in Nat
           /\ 2 * CryptoConfig(o).kmPreannounce < CryptoConfig(o).kmRefreshRate
<1> DEFINE rr == RefreshRateOf(o)
           pa == PreannounceOf(o)
           max == MaxPreannounce(o)
<1>1. /\ o.kmRefreshRate \in U32 \cup {Unset} /\ o.kmPreannounce \in U32 \cup {Unset}
      /\ o.passphrase \in Nat \cup {Unset}
  BY DEF SrtOptions
<1>2. CryptoError(o) = "none"
  BY DEF BindError
<1>3. ~(rr > I31Max) /\ ~(o.kmPreannounce # Unset /\ o.kmPreannounce > max)
  <2>1. ~KmOutOfRange(o)
    BY <1>2 DEF CryptoError
  <2> QED BY <2>1 DEF KmOutOfRange
<1>4. rr \in 1 .. I31Max
  BY <1>1, <1>3, OptionsAssumption DEF RefreshRateOf, RateExplicit, U32, Unset
<1>5. max \in Nat /\ 2 * max < rr
  <2> HIDE DEF rr
  <2>1. max = (IF rr > 1 THEN rr - 1 ELSE 0) \div 2
    BY DEF MaxPreannounce, rr
  <2> QED BY <1>4, <2>1
<1>6. pa \in Nat /\ 2 * pa < rr
  <2>1. CASE o.kmPreannounce \notin {Unset, 0}
    <3>1. pa = o.kmPreannounce /\ pa \in Nat
      BY <1>1, <2>1 DEF PreannounceOf, U32
    <3>2. pa <= max
      BY <1>3, <1>5, <2>1, <3>1
    <3> HIDE DEF pa, max, rr
    <3> QED BY <1>4, <1>5, <3>1, <3>2
  <2>2. CASE o.kmPreannounce \in {Unset, 0} /\ RateExplicit(o)
    BY <1>5, <2>2 DEF PreannounceOf
  <2>3. CASE o.kmPreannounce \in {Unset, 0} /\ ~RateExplicit(o)
    BY <2>3, OptionsAssumption DEF PreannounceOf, RefreshRateOf
  <2> QED BY <2>1, <2>2, <2>3
<1> QED BY <1>4, <1>6 DEF CryptoConfig

\* The defaults pass every check, without encryption and without pacing.
LEMMA DefaultsAccepted ==
    ConnectError(DefaultOptions) = "none" /\ ~Encrypted(DefaultOptions)
BY DEF ConnectError, BindError, CryptoError, BandwidthError, Encrypted, DefaultOptions, StreamIdMax, Unset

-----------------------------------------------------------------------------
\* A quotient rounded up, times its divisor, covers the dividend.
LEMMA DivCeilCovers ==
    ASSUME NEW a \in Nat, NEW b \in Nat \ {0}
    PROVE  DivCeil(a, b) \in Nat /\ DivCeil(a, b) * b >= a
<1> DEFINE q == (a + (b - 1)) \div b
           r == (a + (b - 1)) % b
<1>1. q \in Nat /\ r \in 0 .. b - 1 /\ a + (b - 1) = b * q + r
  OBVIOUS
<1>2. b * q = q * b
  BY <1>1
<1> HIDE DEF q, r
<1>3. b * q \in Int
  BY <1>1
<1>4. b * q >= a
  BY <1>1, <1>3
<1> QED BY <1>1, <1>2, <1>4 DEF DivCeil, q

\* Products grow with either factor, strictly with the first.
LEMMA ProductsGrow ==
    ASSUME NEW p \in Nat, NEW q \in Nat, NEW l \in Nat \ {0}, NEW r \in Nat
    PROVE  /\ l <= r => p * l <= p * r
           /\ q < p => q * l < p * l
  BY SMTT(30)

\* The receive buffer of a connection is never smaller than configured and never
\* larger than its cap, and below the cap it holds the negotiated latency at the
\* packet rate for which the configured buffer holds the configured latency: a
\* peer that raises the latency does not make a sound buffer too small.
THEOREM RecvBufferHoldsLatency ==
    ASSUME NEW o \in SrtOptions, NEW rcvLatency \in Nat
    PROVE  LET pkts == ScaledRecvBuffer(o, rcvLatency) IN
           /\ o.recvBufferPkts <= pkts /\ pkts <= RecvBufferCap(o)
           /\ pkts < RecvBufferCap(o) /\ rcvLatency > o.latency =>
                  pkts * ConfiguredLatency(o) >= o.recvBufferPkts * rcvLatency
<1> DEFINE n == o.recvBufferPkts
           l == ConfiguredLatency(o)
           cap == RecvBufferCap(o)
           need == DivCeil(n * rcvLatency, l)
<1>1. n \in Nat /\ o.latency \in Nat
  BY DEF SrtOptions
<1>2. l \in Nat \ {0} /\ (rcvLatency > o.latency => l <= rcvLatency)
  BY <1>1 DEF ConfiguredLatency, AtLeast
<1>3. cap \in Nat /\ n <= cap
  <2>1. n * MaxRecvBufferScale \in Nat /\ MaxScaledRecvBufferPkts \in Nat
    BY <1>1 DEF MaxRecvBufferScale, MaxScaledRecvBufferPkts
  <2> QED BY <1>1, <2>1 DEF RecvBufferCap, AtLeast, AtMost
<1> HIDE DEF l, cap
<1>4. n * rcvLatency \in Nat
  BY <1>1
<1>5. need \in Nat /\ need * l >= n * rcvLatency
  BY <1>2, <1>4, DivCeilCovers
<1> HIDE DEF n, need
<1>6. ASSUME rcvLatency > o.latency PROVE n <= need
  <2>1. n * l <= n * rcvLatency
    BY <1>1, <1>2, <1>5, <1>6, ProductsGrow
  <2>2. n * l \in Int /\ need * l \in Int
    BY <1>1, <1>2, <1>5
  <2>3. ~(need * l < n * l)
    BY <1>4, <1>5, <2>1, <2>2
  <2>4. ~(need < n)
    BY <1>1, <1>2, <1>5, <2>3, ProductsGrow
  <2> QED BY <1>1, <1>5, <2>4
<1>7. ScaledRecvBuffer(o, rcvLatency) =
        IF rcvLatency <= o.latency THEN n ELSE IF need < cap THEN need ELSE cap
  BY DEF ScaledRecvBuffer, AtMost, n, need, l, cap
<1>8. CASE rcvLatency <= o.latency
  BY <1>1, <1>3, <1>7, <1>8 DEF n, cap
<1>9. CASE rcvLatency > o.latency
  <2>1. n <= need
    BY <1>6, <1>9
  <2>2. ScaledRecvBuffer(o, rcvLatency) = IF need < cap THEN need ELSE cap
    BY <1>1, <1>7, <1>9
  <2> QED BY <1>1, <1>3, <1>5, <2>1, <2>2 DEF n, l, cap
<1> QED BY <1>1, <1>8, <1>9
=============================================================================
