# Formal models of rsrt

TLA+ models of rsrt, a Rust implementation of the live mode of SRT (Secure
Reliable Transport), with the TLC configurations that check them on small
instances and TLAPS proofs of the central invariants. `PROJECT.json` holds the
run list, the definition-to-source map, the hazards, the findings and the
theorem list. Source lines below are those of the repository's `src/`.

## The system and its parts

rsrt is sans-I/O state machines under a tokio runtime layer.

| Part | Source | Modules | State of the work |
|---|---|---|---|
| Sequence numbers | `packet/types.rs` | `SeqNumber` | modelled |
| Packet codecs | `packet/*.rs` | `Wire` | modelled to the byte |
| Clock, timestamp extension, drift | `core/time.rs` | `Clock`, `PlayoutClock`, `PlayoutProofs` | modelled; proved |
| Data sender | `core/sender.rs` | `Sender`, `SenderProofs` | modelled; proved |
| Pacing and its gate in the sender | `core/pacing.rs`, `core/sender.rs` | `Pacing`, `PacingProofs` | modelled; proved |
| Data receiver | `core/receiver.rs` | `Receiver`, `PlayoutClock` | modelled; timer intervals nondeterministic |
| One direction of a connection | `core/mod.rs` | `Link`, `Stream`, `StreamProofs` | composed; implements the abstract stream |
| Key engine | `crypto/context.rs` | `Crypto`, `CryptoProofs` | modelled; proved |
| Key material, key wrap, counter mode | `crypto/km.rs`, `crypto/keys.rs`, `crypto/ctr.rs` | `KeyMaterial`, `KeyMaterialProofs` | modelled with symbolic ciphers; proved |
| In-stream key exchange | `core/mod.rs`, `crypto/context.rs` | `KeyExchange` | two engines composed |
| Connection life cycle and timers | `core/mod.rs` | `Connection` | modelled |
| Driver task and socket handle | `socket.rs` | `Driver` | composed with `Connection`; without the wait of `connect` |
| Caller handshake, responder | `core/handshake.rs` | `Handshake` | modelled |
| Listener driver and demux | `listener.rs` | `Handshake` | modelled |
| Options and their validation | `options.rs` | `Options`, `OptionsProofs` | modelled; proved |
| Errors, network helpers | `error.rs`, `net.rs` | - | not modelled, see the end |

How they interact: a driver task (`socket.rs`) owns one `Connection`. While
connecting, the `Connection` owns a `CallerHandshake`; once established it owns a
`Sender`, a `Receiver` and, with a passphrase, a `Crypto` engine. A listener has
one driver of its own, which answers handshakes statelessly and routes every
other datagram by socket id to the task of the connection it accepted.

## Modules

Definitions carry the names of the code. Definitions named `Mut...` are
deliberate bugs used to show that a property can fail; no specification uses
them. `MC...` modules give constants their values, and `MCHandshake` also
the symmetry and the state constraint of its runs.

**SeqNumber, Clock.** The width of sequence numbers and of the wire clock are
constants, so that both wraps happen in small instances. `SeqDiff` is the signed
shortest distance of `SeqNumber::diff`, `Extend` the timestamp extension.

**Wire.** Every packet kind and handshake extension, encoded to a sequence of
bytes and parsed back, field by field and check by check. A byte has `Base`
values (256 in the code, 16 in the run); every bit field is counted from the top
of its word, so the layout is that of the code at every base. A behaviour takes
one packet, encodes it and lets the path cut bytes off or append a few.
`RoundTrip` covers the packets the endpoints build. A stream id that ends in a
NUL byte is outside of them: the parser trims trailing NULs, so it would come back shorter.

**Sender.** Packets are tracked by extended indices as in the code. `Push`
contains the too-late scan and both overflow loops of `push`, each loop given by
the set of fronts where it stops. `HandleLightAck`, `HandleFullAck`,
`AckBeyondSent`, `HandleNak`, `SndOnTimer`, `SendNew`, `Retransmit`,
`NothingToSend` and `SndPollControl` are the other operations. Abstracted:
payload bytes, statistics, and pacing, which is absent with the default
bandwidth option and has a module of its own.

**Pacing.** `LiveCC` and the calls the sender makes to it. What is to be sent is
reduced to two counters and whether the window is open; the ceiling in each
bandwidth mode, the estimator and its windows, the period, the schedule, the
lateness credit and the advertised deadline are those of the code. An event of
the data path (`Submit`, `FullAck`, `LightAck`, `Nak`, `OnTimer`) wakes the driver,
which polls until `poll_transmit` returns nothing (`PollGated`, `PollRexmit`,
`PollNew`, `PollNothing`). The interval is exact where the code divides in
floating point, and products beyond 64 bits do not saturate.

**Receiver.** `slots`, `scanHint`, `baseSeq`, `loss`, the ACK positions and the
ACK journal are the fields of the struct. `Ingest` is `handle_data` with
`store_data`; `RcvOnTimer` takes as parameters which of its intervals have
passed; `Deliver` and `DeliverNone` are `poll_deliver` with its loop over
undecryptable packets. `PlayDeadlines` is the play-out part of `next_deadline`.

**PlayoutClock.** What a matched ACKACK feeds: RTT smoothing and the drift
tracer. The environment moves the skew between the two clocks and chooses round
trips; timestamps wrap. Paths are taken to be symmetric, as the drift formula does.

**Link.** Sender and receiver over a network that is a set of sent datagrams,
each of which may arrive any number of times, in any order, or never. A handler
drains its control queue before the next one runs, as the driver does. History
variables record when each message was pushed, what the sender abandoned and
what the receiver delivered. `StreamRefinement` maps `Link` onto `Stream`: the
clock, the times of submission, the play position (`baseSeq` of the receiver
counted from the first packet) and the messages delivered.

**Stream.** The promise of one direction: messages come out in order, none
twice, none before its play time, and one that does not come out was passed over
when its own play time had come.

**Crypto, KeyExchange.** Keys are numbers in order of generation. `OnAck`
contains the refresh evaluation (pre-announce, switch, decommission, in this
order and at most one) and the paced repetition of the outstanding KMREQ.
Nothing ties ACKs to packets: the engine may encrypt any number of packets before
`OnAck` runs, the packet counter wraps (at `CntMod`, 2^32 in the code), and in the
state `Unsecured` an ACK evaluates nothing, as in the code. The history variable
`longestGap` records the longest run of packets without an evaluation. `Crypto`
alone meets a peer that sends any KMREQ, echo or status word at any
time; `KeyExchange` composes it with the receive slots of a peer over a lossy,
reordering path. It assumes that a KMREQ does not arrive after a newer one,
which is a whole refresh period younger.

**KeyMaterial.** The inside of a KMREQ: every field `KmMessage::parse` checks,
the wrapped keys, and the KEK and salt that `install_rx` caches from one message
to the next. A wrapped key opens with the KEK it was wrapped with and a keystream
applied twice cancels; a salt is split into the part the key derivation uses
and the part the counter block uses.

**Options.** The record of options, its defaults, `crypto_config`,
`Bandwidth::validate`, the order of the checks of `connect` and `bind`, and
`scaled_recv_buffer`. It has no state; its theorems say what the accepted
options guarantee to the other parts.

**Connection, Driver.** Time is kept as ages (since the last packet sent or
received, since the last data). `Connection` has the packet handlers and the
timer with its EXP escalation; `Driver` adds the task's loop: `Turn` drains
transmissions and deliveries and publishes state, then one branch of `select!`
runs (datagram, timer, command, handle dropped, source closed). The task may be
up to `MaxLate` late. The sender is reduced to the payloads it has accepted and
"data is owed"; `Link` has the detail. The receiver (`rcv`) is the set of slots it
holds by sequence number: `Ingest` drops what is too large, belated or repeated,
keeps the slot of an undecryptable packet, and flags the discrepancy of a packet
beyond an empty buffer; `HandleDropReq` empties slots; `Released` is where
`poll_deliver` may stop, also in the last flush, which ends at its horizon. Sizes
are classes: a packet or payload is within the negotiated limit, over it, or over
the local limit too. Early data over the local limit is dropped on arrival, the rest
is judged when `Establish` replays it; the sender refuses pending payloads over
the limit, and the handle refuses them once it knows the limit.
The application may use the handle from the start: `SrtSocket::connect` hands it out
only once the connection is established, so sends while connecting, which
`Connection::send` provides for, are more than the public interface allows. The
wait of `connect` for the result is left out.

**Handshake.** A caller is one connection attempt: address, socket id and
initial sequence number. Messages carry what the two sides act on. A fault in a
request or a response stands for the one check of the code that it fails;
`RequestVerdict` and `ResponseVerdict` list these checks in the order of the
code. The induction response carries the listener's key length, which the caller
adopts before it generates its key; the stream id, unless it is empty, goes from
the conclusion to the accepted connection. A caller that accepts the answer
UNSECURED keeps its own engine. The listener's tables, its accept queue, the accepted tasks,
late reaps and the drop of the handle are explicit.

## What the runs check

| Run | Config | Checks | Bounds | Distinct states |
|---|---|---|---|---|
| `sender` | `MCSender.cfg` | `WindowAtBufferFront`, `LossListInFlight`, `SenderBounded`, `DropRequestsReleased`, `BufferedPacketsImmutable`, `TimerMakesProgress` | 3 messages, window 2, buffer 3, all ACKs, NAKs of one range or two singles, both wraps crossed | 59,998 |
| `receiver` | `MCReceiver.cfg` | `LossShape`, `HintSound`, `AckOrder`, `AckNeverRegresses`, `NoSilentLoss` | 5 packets in any order, buffer 4, 18 DROPREQs, wrap inside the stream | 605,083 |
| `link` | `MCLink.cfg` | `PeersNeverViolate`, `AckedIsReceived`, `DiscrepancyMeansAbandoned`, `StreamRefinement` | 3 messages, buffers 2, 2 full ACKs, both wraps | 467,824 |
| `window_stall` | `MCStall.cfg` | `WindowReopens`, violated: first finding | 4 messages, no bound on full ACKs | |
| `crypto` | `MCCrypto.cfg` | `SlotRoles`, `KeyUseBounded`, `OutstandingIsCurrent`; `KeyMaterialUsable` | 3 keys, rate 3, a counter of width 8 that wraps, ACKs at any distance; KMREQs of two passphrases, three salts, two key lengths, and one with each field altered | 305,274 |
| `key_exchange` | `MCKeyExchange.cfg` | `ConfirmedIsInstalled`, `StreamStaysReadable`, `AnnouncementsConfirmed` | 4 keys, a counter of width 5 that wraps, one loss per announcement and one retry | 193,639 |
| `driver_timers` | `MCDriver.cfg` | `ShutdownIsLast`, `PeerIdleIsSilence`, `SilenceIsNoticed`, `NeverSilent`, `DeadlinesPass` | scaled time constants with every threshold reached, task late by up to 1, one data packet | 393,663 |
| `driver_flows` | `MCDriverFlows.cfg` | `FlowsInOrder` | every queue of depth 2, receive buffer 3, 3 payloads sent, 4 packets with any of 4 sequence numbers | 2,424,602 |
| `handshake` | `MCHandshake.cfg` | `EndsAgree`, `LatencyHonoured`, `EncryptionEnforced`, `CookieOutlivesCaller`, `DemuxConsistent` | one caller with each choice of `MCChoices`; two callers, three accepts and time with the plainest options (`MCFocus`) | 502,515 |
| `handshake_progress` | `MCHandshakeProgress.cfg` | `CallersAnswered` | any datagram may be lost; the first connection may die | 62,178 |
| `latency_wire` | `MCLatency.cfg` | `LatencyWithinWire`, violated: second finding | latency options within and above the 16-bit range | |
| `parts` | `MCParts.cfg` | `RoundTrip`, `WrongLengthNeverMisread`; `CeilingNeverZero`, `PacedRate`, `GateHasWakeUp`; `CorrectionTracksSkew` | every packet kind at the edges of its fields, each length of its datagram; every bandwidth mode; drift batches of 3 | 2,781,182 |

`crypto` and `parts` run parts that share no state: a behaviour chooses one of them
(variables `aspect` and `part`) and the others stay in an initial state.

Why these bounds suffice for the cases of interest: the widths of sequence
numbers, message numbers, wire clock and ACK numbers are small enough to wrap
within the run; every queue and buffer is small enough to overflow; every timer
constant is small enough to expire, in both orders relative to the others; the
latency options include a fraction of a millisecond and a value above the 16-bit
limit. The ACKACK throttle is 0 in all runs and the drift correction constant, so
what depends on their size is outside the runs (the proofs hold for every
throttle). Time in `parts` stops at 4 units: enough to be late by several
intervals, to close an estimator window in either of its ways and to commit more
than one drift batch. `MCChoices` varies one dimension of the options at a time,
with all passphrases (latencies and MSS; key lengths and stream ids; one failing
check of either side), and `MCFocus` explores several callers and the passage of
time with the plainest options; combinations of these are not explored. Both driver
runs let two control packets wait in the queue, which is what one ACK can add.
`driver_flows` keeps all ages at 0: only the connect timeout and the deadlines of
sender and receiver come there, and `driver_timers` has the others. Deadlock checking is off where a model stops at a
bound or where the connection is closed.

The symmetry of `handshake` permutes callers and socket ids, which are only ever
compared for equality; callers have the same options, and the run checks
invariants only.

## Fairness

* `Driver`: the task's turn is weakly fair (tokio schedules ready tasks). A due
  timer is strongly fair because `select!` polls its branches in random order,
  so datagrams cannot starve it. Time is strongly fair: it passes whatever
  arrives.
* `KeyExchange`: ACKs keep coming, also ones that find the pacing interval of the
  KMREQ over, and what is on the path arrives. Losses are
  explicit and bounded per announcement, below the retry budget.
* `Handshake`: callers retransmit, tasks run, and a datagram sent over and over
  arrives in the end (strong fairness of reception while `Lose` may remove any
  copy).
* `Link` (`window_stall`): queued control packets are sent, the ACK timer fires,
  time passes, and a full ACK that is not stale arrives in the end. The
  counterexample ends in a state where no such ACK can be produced any more.

## What is proved

`SenderProofs` proves, for every sequence space, window, buffer size, drop
threshold, every set of NAKs and every ACK, that the inductive invariant

    SndInv == SndTypeOK /\ WindowAtBufferFront /\ LossListInFlight /\ SenderBounded

holds, and from it `SenderTypeCorrect`, `SenderWindowAtFront`,
`SenderLossListInFlight`, `SenderStaysBounded` and the action property
`SenderPacketsImmutable`. The conjuncts need each other: a NAK is clipped at
`lastAckIndex` while `poll_transmit` indexes from `baseIndex`, so the loss list
stays inside the buffer only because both are equal; they stay equal only
because an ACK beyond `nextSendIndex` is refused and because `drop_front` moves
all three positions. Assumptions: `SenderAssumption`, `SeqSpaceAssumption` and
those of `Clock`, all evaluated by TLC in the runs.

`CryptoProofs` proves `CryptoSlotRoles`, `CryptoKeyUseBounded` and
`CryptoOutstandingIsCurrent` from

    CryptoInv == CryptoTypeOK /\ SlotRoles /\ OutstandingIsCurrent /\ KeyAges

where `KeyAges` bounds, under `GapsFit`, the use of the active key by what the last
evaluation of the thresholds left behind: before an announcement by the
pre-announce threshold, after it by the refresh rate plus one gap, each plus what
was encrypted since that evaluation. The bound on key use is not inductive without
it. How many packets go by without an evaluation is up to the peer, so the bound
is stated in terms of the longest such run, `KmRefreshRate + 2 * longestGap`, and
holds as long as this fits the counter (`GapsFit`); the code has no bound of its
own beyond that. `CryptoAssumption` states what `crypto_config` validates.

`PacingProofs` proves `PacedRateHolds`, `GateAlwaysWakes` and
`CeilingStaysPositive` for every rate, overhead, payload length, estimator window
and lateness, from

    PaceInv == PaceTypeOK /\ PaceAccount /\ GateHasWakeUp

where `PaceAccount` is the equation behind the rate bound: while the schedule is
armed, the scheduled time less the credit is the time of the arming plus all that
was charged since. The bound alone is not inductive, since a late poll
turns waiting time into credit.

`PlayoutProofs` proves `CorrectionStaysWithinBatch` and `SrttStaysWithinSamples`
for every batch size, clamp and sequence of round trips. `PlayoutInv` adds that
the running sum lies between its number of samples times the smallest and times
the largest offset of the batch, relative to the base in force. That the
correction follows the real skew (`CorrectionTracksSkew`) is model-checked only:
it goes through the modular arithmetic of the timestamp extension.

`StreamProofs` proves `StreamInOrder` and `StreamPatient` of the abstract stream
for every latency. What `Link` inherits from them by `StreamRefinement` is
checked by TLC on the instance of `link`.

`KeyMaterialProofs` proves `KeyMaterialStaysUsable` from `MaterialInv`: the KEK
in force is always the one derived from the own passphrase, the salt in force and
its own key length, and every slot holds what was last accepted for it. The first
part is what makes the test of `install_rx` (same salt, same length) sound, and
it survives only because salt and KEK are committed together. The module also
proves `KeystreamBlocksDistinct`, from the assumption that exclusive or with a
fixed salt is injective.

`OptionsProofs` proves that accepted options satisfy what `CryptoAssumption`
asks of refresh rate and pre-announce distance (`AcceptedOptionsFitCrypto`) and
that the scaled receive buffer holds the negotiated latency whenever the cap
allows it (`RecvBufferHoldsLatency`).

The invariance proofs follow the usual three steps: initial states, each
operation of the code, conclusion.

Only model-checked: all liveness properties (outside the prover's reach); the
codecs, whose parsers are recursive; the refinement of `Link`; and the receiver,
link, connection, driver, key exchange and handshake invariants.

## Findings

1. **A zero window can last for ever** (`window_stall`, `core/sender.rs:279`).
   Light ACKs reduce `advertised_window`, possibly to 0. If two messages are then
   pushed before the next full ACK arrives, the window loop of `push` compares
   flight 0 with window 0 and drops the first of them although it was never
   sent. `drop_front` moves `last_ack_index` past it without a DROPREQ. The
   receiver never learns of the packet, so its full ACKs stay below
   `last_ack_index`, are taken for stale and never restore the window. The doc
   of `push` says that live mode never blocks (`core/sender.rs:244`), and the
   floor of the advertised window is called a deadlock breaker
   (`core/receiver.rs:76`). If the loop only drops packets that were sent, TLC
   finds no violation on the same instance without time steps (`MaxTime = 0`).
2. **A latency above 65535 ms** (`latency_wire`, `core/handshake.rs:802`). The
   comment on the close flush (`socket.rs:89`) takes the negotiated latency to be
   at most 65535 ms. The wire value is, but the responder's own `opts.latency`
   enters the maximum unclamped and is not validated, so the flush horizon of
   70 s can be shorter than what is buffered. A related detail, not checked
   separately: a caller's effective latency is its own option rounded down to
   milliseconds and 16 bits, where `options.rs:96` speaks of the maximum of both.

## Not modelled, and why

* Network helpers (`net.rs`), error types (`error.rs`) and re-exports (`lib.rs`):
  system calls, declarations and text without decisions of their own. The
  rejection codes and close reasons that are told apart appear where they matter.
* The arithmetic of AES, PBKDF2 and the key wrap: keys are identities, and what a
  result depends on is recorded instead of computed.
* Statistics, logging, socket buffer sizes, the setters of the options.
* The size of the receiver's timer intervals: they fire at any time in `Receiver`,
  which covers every interval. RTT and drift are in `PlayoutClock`, not composed
  with `Receiver`; there the drift correction is any value of a set.
* The conversion of stream ids to UTF-8, floating-point rounding of the pacing
  interval and the saturation of its products.
* A KMREQ delayed by more than a refresh period, and data of a dead connection
  that reaches a new one with the same initial sequence number: listed as
  hazards. Both need a path that holds packets over a whole life of a key or of a
  connection, next to the data path of two of them, which is beyond the state
  space TLC covers.
* Data retransmitted under a key that a later refresh has overwritten at the peer:
  `StreamStaysReadable` is about the active and the previous key.
* Errors of the UDP socket: the driver counts a failed send and goes on, so
  `NeverSilent` is about what is handed to the socket.
* Deadlines of the receiver: `DeadlinesPass` is about those of the connection,
  `TimerMakesProgress` about the drop deadline of the sender.
* An accepted connection whose caller refuses the response is possible in `Handshake`
  as in the code; what ends it is the peer idle timeout of `Connection`.
* Two endpoints with all their timers in one model. Each side is checked against
  any peer instead: `NeverSilent` bounds the silence of one side and
  `PeerIdleIsSilence` says that nothing but silence breaks the other.
