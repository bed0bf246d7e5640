# TLA+ models of gt-bbr (quic-go with a BBR congestion controller)

This directory holds TLA+ models of the parts of `src/` whose behaviour
depends on the order of events. The models are checked with TLC.
`PROJECT.json` maps every modelled definition to the source lines it
translates. It also lists the runs, the mutants, the findings and the
hazards.

## The system and its parts

| Part | Source | State | Operations | Status |
|---|---|---|---|---|
| Sent-packet handler | `src/internal/ackhandler/sent_packet_handler.go` | three packet-number spaces (Initial, Handshake, 1-RTT), each with a history, a generator, largest sent and largest acked; a retransmission queue; bytesInFlight; crypto and PTO counters; numProbesToSend; lossTime; one alarm | SentPacket, SentPacketsAsRetransmission, ReceivedAck, DropPackets, OnAlarm, DequeuePacketForRetransmission, DequeueProbePacket, SendMode, ResetForRetry | modelled (`SentPacketHandler`) |
| Crypto setup | `src/internal/handshake/crypto_setup.go` | the write level; the sealers and openers per level; channels shared with the TLS goroutine | SetWriteKey, SetReadKey, WriteRecord, HandleMessage, Received1RTTAck, GetOpener, GetSealer, Close, RunHandshake | write-key progression and key dropping in `SentPacketHandler`; the channel protocol and the opener/sealer fields in `CryptoSetupChannels` |
| Incoming streams map | `src/streams_map_incoming_generic.go` | streams, nextStreamToAccept, nextStreamToOpen, maxStream, streamsToDelete, closeErr; a RW mutex and a cond var | AcceptStream, GetOrOpenStream, DeleteStream, CloseWithError | modelled (`IncomingStreamsMap`, refining `StreamQueue`) |
| Frame codecs | `src/internal/wire/{max_streams,streams_blocked,retire_connection_id}_frame.go` | none (pure) | parse, Write, Length | modelled (`FrameCodec`) |
| HTTP/3 response body, test server, interval/stats types | `src/http3`, `src/integrationtests`, `src/internal/utils`, `src/internal/congestion` | none worth modelling | — | not modelled |

How the parts interact:
- The session (not under `src/`) asks the handler for `SendMode` and sends a packet.
- It then records the packet with `SentPacket` or `SentPacketsAsRetransmission`.
- It passes every ACK frame to `ReceivedAck`. After a 1-RTT ACK it calls the crypto setup's `Received1RTTAck`, which calls `DropPackets` for the Initial and Handshake spaces.
- The session calls `OnAlarm` when the handler's alarm fires.
- The level the session writes at is the crypto setup's write level. `SetWriteKey` advances it when the TLS stack installs keys.
- The crypto setup runs qtls in a goroutine started by `RunHandshake`. qtls calls back `ReadHandshakeMessage`, `WriteRecord`, `SetReadKey`, `SetWriteKey` and `SendAlert`. The session hands over each handshake message with `HandleMessage`, which waits on channels until qtls has reacted to it.

## Modules

### `SentPacketHandler.tla`

This module models the handler, together with the parts of the session and
crypto setup that drive it. The spaces are functions of `Levels`. A history
is a function from packet number to a record holding:
- `sendTime`;
- `largestAcked`, the ACK the packet carried;
- `canBeRetransmitted`;
- `retransmissionOf`;
- `retransmittedAs`.

Every packet counts one unit of bytesInFlight, so lengths are abstracted.

| Action | Code |
|---|---|
| `SendNewPacket(l)` | `SentPacket` of an ack-eliciting packet, with `sentPacketImpl` and `updateLossDetectionAlarm` |
| `SendAckOnlyPacket(l)` | `SentPacket` of an ACK-only packet |
| `SendRetransmission` | `DequeuePacketForRetransmission` followed by `SentPacketsAsRetransmission` |
| `SendProbePacket` | `DequeueProbePacket`, including its error when nothing is outstanding, followed by the resend |
| `ReceiveAck` / `HandleAckFrame(l, acked)` | `ReceivedAck` in full: the two PROTOCOL_VIOLATION checks, `determineNewlyAckedPackets` (recursive `NewlyAcked`), `onPacketAcked` folded over the acked packets, `detectLostPackets`, the counter resets and the alarm; then, for 1-RTT, `Received1RTTAck`/`DropPackets` (`InHistories` for bytes in flight, `WithoutLevels` for the queue, `DropSpaces` for the histories) |
| `OnAlarmNothingOutstanding`, `OnAlarmCrypto`, `OnAlarmLossTime`, `OnAlarmPTO` | `OnAlarm` and the three branches of `onVerifiedAlarm` |
| `ResetForRetry` | `ResetForRetry` |
| `InstallWriteKey` | `SetWriteKey` |
| `Tick`, `Close` | the clock, and the session closing |

A handler error closes the connection (`Fail`).

The constants are:
- `LossDelay`, `CryptoTimeout` and `PTOTimeout`, which replace the RTT-derived durations;
- `CongestionWindow`, which stands for BBR's `CanSend`;
- `MaxTrackedSentPackets` and `MaxOutstandingSentPackets`;
- `SkipPacketNumbers`, which says whether the generator may skip a number;
- `HonestPeer`, which says whether ACKs report only sent packets;
- `CarriedAcks`, the largest-acked values our ACKs can carry.

`MCSentPacketHandler.tla` bounds packet numbers to 0..1 per space and time to 0..2.

### `IncomingStreamsMap.tla`

This module models `incomingItemsMap`. Streams are stream numbers. There are two kinds of goroutine:
- **The session goroutine** is the only caller of `GetOrOpenStream`, `DeleteStream` and `CloseWithError` (spec 5: one task owns the per-connection state).
- **Application goroutines** (`Acceptors`) call `AcceptStream`.

The cond var is a FIFO notify list (`notifyList`), as Go's `sync.Cond` is. `pc[a]` says whether an acceptor is idle, asleep in `cond.Wait`, or woken and waiting for the mutex.

| Action | Code |
|---|---|
| `AcceptReturnsError(a)` | `AcceptStream`, one loop pass that ends with the close error |
| `AcceptReturnsStream(a)` | `AcceptStream`, one loop pass that ends with a stream, including the deferred `deleteStream` |
| `AcceptWaits(a)` | `AcceptStream`, one loop pass that ends in `cond.Wait` |
| `GetOrOpenStreamAboveLimit(num)` | `GetOrOpenStream`, the RLock part, when `num` is above the limit |
| `GetOrOpenStream(num)` | `GetOrOpenStream`, the RLock part, for a new stream |
| `OpenNewStreams` | `GetOrOpenStream`, the Lock part: opens the streams and calls one `Signal` per stream |
| `DeleteStream(num)` | `DeleteStream`/`deleteStream` |
| `CloseWithError`, `Broadcast` | `CloseWithError`, then its `Broadcast` after `Unlock` |

Fairness is weak fairness on three things:
- a woken acceptor's step;
- the Lock part of `GetOrOpenStream`;
- the `Broadcast`.

These are goroutines that are runnable and hold, or can take, the mutex. The application and the peer are not required to do anything.

`MCIncomingStreamsMap` uses three acceptors, `MaxNumStreams = 2`, stream numbers 1..5 and a peer that may exceed its limit. With these bounds:
- one `GetOrOpenStream` opens streams for two waiters;
- the limit is raised by several MAX_STREAMS frames;
- a stream is deleted before it is accepted.

### `StreamQueue.tla` and the second refinement

`StreamQueue` is the abstract specification of what the incoming streams map promises, without its mutex, condition variable, deferred deletions or MAX_STREAMS bookkeeping. Its state is four variables:
- `opened`: streams 1..opened are open;
- `accepted`: streams 1..accepted were handed to the application;
- `deleted`: the streams the session is done with;
- `closed`.

`Open` lets the peer open streams in order up to its `Credit`: `MaxNumStreams` plus the streams that are both accepted and deleted. `Accept` takes the next open stream, `Delete` marks an open stream done, and `Close` ends everything.

`IncomingStreamsMap` instantiates it as `SQ`:
- `opened` is `nextStreamToOpen - 1`;
- `accepted` is `nextStreamToAccept - 1`;
- `deleted` is `streamsToDelete` together with the opened streams no longer in the map;
- `closed` is `closeErr`.

The `streams_map` run checks `ImplementsStreamQueue == SQ!Spec`. The RLock part of `GetOrOpenStream`, the waits and the broadcast are stuttering steps. The Lock part is `Open`: it opens up to the limit read before the mutex was released, and the refinement shows that this limit is still within the credit. The `maxStream` that `deleteStream` computes from `nextStreamToOpen` and `len(m.streams)` is never more than the credit.

### `CryptoSetupChannels.tla`

This module models the channel protocol of `cryptoSetup` between three goroutines:
- **the TLS goroutine**, running `qtls.Handshake`;
- **`RunHandshake`**, waiting in one select;
- **the session**, which calls `HandleMessage` for each message and may call `Close`.

Channels are abstracted as follows:
- `messageChan` is a sequence;
- `writeRecord` is a token count;
- the unbuffered `receivedReadKey`, `receivedWriteKey`, `paramsChan` and `alertChan` are rendezvous: the TLS goroutine is `blocked` (or `alerting`) on its send, and the receiving select case completes it;
- closed channels are booleans.

qtls is not under `src/`. Its order of reads, writes and key installations (`ClientScript`, `ServerScript`) is the TLS 1.3 order that the comments in `handleMessageForClient` and `handleMessageForServer` rely on. `ServerScript` includes the NewSessionTicket the server writes with the 1-RTT key after its Finished, before it reads the client's Finished. The perspective (`perspective`, from the constant set `Perspectives`) and whether the server sends a HelloRetryRequest are chosen in `Init`.

The peer sends its flight in order (`ClientPeerMsgs`, `ServerPeerMsgs`). A message is delivered once `GetOpener` gives the opener for its level and the peer has our records it answers. It is not delivered on a level that `HandleMessage` has reported finished. `Misbehaviours` lets the peer also send one message of a type qtls does not expect (`wrongType`) or at the wrong level (`wrongLevel`), or a NewSessionTicket to a server after its handshake, which a server's qtls rejects (`ticket`).

| Action | Code |
|---|---|
| `TLSReadMessage`, `TLSReadClosed` | `ReadHandshakeMessage`; an unexpected type makes qtls call `SendAlert` |
| `WriteRecord` | `WriteRecord`, including the `writeRecord` token at the Initial level |
| `SetReadKey`, `SetWriteKey` | the mutex part, then the block on the unbuffered send |
| `SendParams` | the extension handler's send on `paramsChan` |
| `HandshakeReturns`, `HandshakeFails` | the goroutine in `RunHandshake`: `handshakeComplete`/`handshakeErrChan`, then the deferred `close(handshakeDone)` |
| `RunHandshakeComplete`, `RunHandshakeClose`, `RunHandshakeClosed`, `RunHandshakeAlert`, `RunHandshakeError`, `RunHandshakePostAlert` | the cases of `RunHandshake`'s select; Go picks a ready case at random, so each is its own action |
| `HandleMessage(m)` via `DeliverMessage` / `DeliverBogusMessage` | `HandleMessage` up to its first select: `checkEncryptionLevel`, the send on `messageChan` |
| `HandleMessageSelect` | one select of `handleMessageForClient`/`handleMessageForServer` (`Waits`), and the returned "stream finished" |
| `HandlePostHandshakeMessage`, `PostHandshakeAlertForwarded` | `handlePostHandshakeMessage`: qtls's post-handshake read, a `SendAlert` for a rejected message (`PostHandshakeAccepted`), and the forwarding goroutine that receives the alert so that `onError` can report it |
| `Close`, `CloseReturns` | `Close`, which holds the mutex while it waits for `handshakeDone` |
| `Received1RTTAck` | `Received1RTTAck`: the Initial, then the Handshake opener and sealer become nil. The session calls it for an ACK in a 1-RTT packet, so the guard asks for both 1-RTT keys |
| `GetOpener(l)`, `GetSealer`, `GetSealerWithEncryptionLevel(l)` (operators) | the getters, with the error each returns for a nil field |

The key fields are `opener` and `sealer`, one boolean per level: non-nil or nil. `Init` sets the Initial ones, as `newCryptoSetup` does with `NewInitialAEAD`. `SetReadKey` and `SetWriteKey` set the field of the level they move to. The key values are not modelled. For that reason `ChangeConnectionID`, which only replaces the Initial keys by others, is not an action.

Fairness: weak fairness on each goroutine (TLS, `RunHandshake`, the session's selects) and on delivery of the peer's flight. QUIC retransmits CRYPTO frames, so the flight is eventually delivered. Neither the bogus message, nor `Close`, nor `Received1RTTAck` is required to happen. The runs use `CHECK_DEADLOCK FALSE`: the handshake really ends, and `HandshakeTerminates` states that every behaviour reaches the end with every goroutine returned. A goroutine blocked forever violates it. Two known deadlocks are shown by violation runs of their own, so `HandshakeTerminates` and `OpenerNotYetAvailableIsTemporary` are stated for the behaviours without them: `NoEarlyClose` leaves out a `Close` before `handshakeDone` (`crypto_close_deadlock`), and `NoPostAlertTheft` leaves out `RunHandshake` taking a post-handshake alert (`crypto_post_alert`). The premises are temporal formulas over the behaviour, so the runs still explore these behaviours for the invariants.

The model is small (at most about a thousand states per run) because the handshake is finite. The bounds are the full client and server flights, with and without a HelloRetryRequest, plus one misbehaving message.

### `LossRecovery.tla` and the refinement

`LossRecovery` is the abstract specification of what loss recovery promises
of a packet, whatever the timers and the congestion controller do. Its state
is per space: the packets in flight, each with the packet it retransmits and
whether its data is "covered", meaning already queued again or carried by an
acknowledged retransmission. It also holds the queue of data to send again,
the next usable packet number, the largest acknowledged, the dropped spaces
and `closed`. Its actions are:
- `Send`, `Retransmit` and `Probe`;
- `Ack`: an ACK removes what it acknowledges and covers their retransmissions, then may declare lost only packets at or below the new largest acknowledged; an application-level ACK ends the handshake spaces;
- `Lose`, the loss timer;
- `Requeue`, the crypto alarm;
- `Retry` and `Close`.

A packet that leaves flight unacknowledged and uncovered is queued in
packet-number order. A covered one is never queued again.

`SentPacketHandler` instantiates it as `LR` with these mappings:
- `flight` is the histories, with `covered` being `~canBeRetransmitted`;
- `queue` is `retransmissionQueue`;
- the other variables map by name.

The run checks `ImplementsLossRecovery == LR!Spec`. Timers, counters, bytes
in flight and the alarm map to stuttering steps. A handler error maps to
`Close`.

### `FrameCodec.tla`

This module covers the three frames of `internal/wire` with one operator per
function:
- `ParseMaxStreamsFrame`, `MaxStreamsFrameWrite`, `MaxStreamsFrameLength`;
- the same three for STREAMS_BLOCKED and for RETIRE_CONNECTION_ID.

The QUIC varint codec they call (`utils`, not under `src/`) is modelled from
spec section 4.A. `ReadVarInt` reads the width from the prefix bits and
fails with EOF on a short input. `WriteVarInt` writes the minimal width.

A small state machine drives it. This endpoint writes a frame, or the peer
writes one with its number in any width that holds it. The packet may lose
bytes at its tail. The receiver then parses it.

TLC's integers are 32 bits wide, so a byte has `ByteBits = 3` bits instead
of 8. Every bound is derived from `ByteBits` as the code derives it from 8:
- a varint of w bytes holds `8w-2` bits' worth;
- a stream count holds 60 of 64.

`MCFrameCodec` takes numbers on both sides of every varint width boundary
and of the stream-count limit.

## Runs

| Run | Cfg | Result | What it shows |
|---|---|---|---|
| `sph_honest` | `MCSentPacketHandler.cfg` | pass, about 461k states | With an honest peer, every interleaving keeps the following: bytesInFlight equals the packets in live histories; retransmission links stay intact; no packet is queued twice; no handler error occurs; the alarm is armed while packets are outstanding. The handler also implements `LossRecovery` (`ImplementsLossRecovery`). |
| `sph_peer` | `MCSentPacketHandlerPeer.cfg` | pass, about 492k states | The generator skips packet numbers and the peer acks any packet number. The handler fails only with ACK errors, never with an internal error, and its bookkeeping holds. The retransmission queue alone stays below `MaxTrackedSentPackets`, so ACKs can always lead out of `SendNone` (`SendNoneRecoverable`). No packet of a dropped level stays in the retransmission queue, where it would be sealed with the nil Initial sealer (`QueueHoldsNoDroppedLevel`). |
| `streams_map` | `MCIncomingStreamsMap.cfg` | pass, about 9k states | Every opened stream stays in the map until it is accepted. Deferred deletions are carried out on accept. The peer never has more than `maxNumStreams` streams. `maxStream` never decreases, which is the assumption at line 108. A blocked `AcceptStream` is woken for every stream it can take, and `CloseWithError` releases every waiting `AcceptStream` (`CloseReleasesAcceptors`; both liveness). The map implements `StreamQueue` (`ImplementsStreamQueue`). |
| `crypto_handshake` | `MCCryptoSetupHandshake.cfg` | pass, about 1.2k states | Client and server handshakes, with or without HelloRetryRequest, with one unexpected, misplaced or (to a server) post-handshake peer message, and a session that may `Close` at any point. A second token never enters `writeRecord`, where `WriteRecord` would block while holding the mutex (`WriteRecordNeverBlocks`). A level is reported finished only when the peer is done with it (`FinishedOnlyAtLevelEnd`). `GetSealer` always gives the sealer of `writeEncLevel` (`SealerAtWriteLevel`). Without a `Close` during the handshake and without the post-handshake alert theft, every goroutine returns (`HandshakeTerminates`), and a packet that `GetOpener` reports as not yet available becomes decryptable later unless the handshake fails, also after `Received1RTTAck` (`OpenerNotYetAvailableIsTemporary`). |
| `crypto_close_deadlock` | `MCCryptoSetupCloseDeadlock.cfg` | violation | A client that closes before the ClientHello is written blocks forever in `Close`. |
| `crypto_lost_alert` | `MCCryptoSetupLostAlert.cfg` | violation | `RunHandshake` may take `closeChan` while qtls is blocked in `SendAlert`, so the alert is never received. |
| `crypto_post_alert` | `MCCryptoSetupPostAlert.cfg` | violation | A NewSessionTicket sent to a server after its handshake is never reported: `RunHandshake`'s still-pending select takes the alert, and `RunHandshake` and the session block forever. |
| `crypto_sealer_dropped` | `MCCryptoSetupSealerDropped.cfg` | violation | After `Received1RTTAck`, `GetSealerWithEncryptionLevel` gives a nil Initial sealer with no error, not `ErrKeysDropped`. |
| `sph_loss_report` | `MCSentPacketHandlerLossReport.cfg` | violation | The losses found in `ReceivedAck` never reach the congestion event. |
| `frame_codec` | `MCFrameCodec.cfg` | pass, about 2k states | Every frame, written minimally by us or in any varint width by the peer, parses back to itself and consumes exactly its bytes. `Length` equals what `Write` emits. Every proper prefix of a frame fails to parse. |
| `frame_stream_limit` | `MCFrameCodecStreamLimit.cfg` | violation | MAX_STREAMS and STREAMS_BLOCKED accept a stream count above 2^60. |
| `sph_early_pto` | `MCSentPacketHandlerEarlyPTO.cfg` | violation | After `DropPackets` the stale crypto deadline makes `OnAlarm` enter PTO mode early. |

Why the bounds are enough:
- Two packet numbers per space let a packet and its retransmission coexist.
- They let one ACK cover a packet and its retransmission.
- They let a packet be lost behind a larger acked one.
- They let a probe replace an outstanding packet.
- Three time steps let the loss delay, a crypto timeout and a PTO (with `PTOTimeout = 2` in `sph_early_pto`) expire.
- `MaxTrackedSentPackets = 4` makes `SendNone` reachable. It still leaves room to retransmit a crypto packet after a second crypto alarm.

Each property of a passing run has a mutant in `SentPacketHandler.tla`, named next to the definition it replaces:
- skipping the bytesInFlight decrement for queued packets;
- leaving the parent's `retransmittedAs` untouched;
- queueing crypto packets that were already queued;
- not re-arming the alarm on send;
- decrementing `numProbesToSend` below zero;
- counting non-retransmittable packets as outstanding;
- declaring packets above the largest acked lost (breaks `ImplementsLossRecovery`);
- `ResetForRetry` queueing Initial packets that were already queued (breaks `SendNoneRecoverable`);
- `DropPackets` leaving the retransmission queue as it is (breaks `QueueHoldsNoDroppedLevel`).

TLC finds each of these violated.

The mutants of `CryptoSetupChannels` are these:
- the ClientHello is signalled on `writeRecord` too (breaks `WriteRecordNeverBlocks`);
- the receive on `writeRecord` is always ready, as if the channel were closed rather than sent on (breaks `TypeOK`);
- a HelloRetryRequest token is taken as the end of the level;
- the client forgets the 1-RTT write key;
- the server forgets the 1-RTT write key;
- `GetOpener` reports every nil Handshake opener as not yet available, without the Initial-opener check (breaks `OpenerNotYetAvailableIsTemporary`);
- `GetSealer` prefers the Handshake sealer to the 1-RTT one (breaks `SealerAtWriteLevel`).

The mutants of `IncomingStreamsMap` are a limit counted from `nextStreamToAccept`, a limit one too high, a deleted stream removed before it is accepted (this one also breaks `ImplementsStreamQueue`), an accepted stream left in `streamsToDelete`, `nextStreamToAccept` incremented after the deferred delete, a single `Signal` for several opened streams, and a `Signal` in place of the `Broadcast` of `CloseWithError` (breaks `CloseReleasesAcceptors`).

The mutants of `FrameCodec` are a MAX_STREAMS `Length` without the type byte, and a RETIRE_CONNECTION_ID parser that ignores the varint's EOF.

## Findings

- **Shadowed variable, line 267.** `ReceivedAck` redeclares `lostPacketsForEvent` inside an `if`. The congestion event is therefore always passed nil losses, and BBR never learns of losses detected on ACK.
- **Stale alarm, lines 107-133.** `DropPackets` does not recompute the alarm. After the handshake the next `OnAlarm` can fire at the old crypto deadline. With nothing crypto left outstanding it then enters PTO mode before the PTO deadline.

- **Close deadlocks a client, line 295.** `Close` holds `h.mutex` while it waits for `handshakeDone`. A TLS goroutine that has not yet written the ClientHello then waits for that mutex in `WriteRecord`, so it never returns. A server reaches the same deadlock when the session closes after `HandleMessage(ClientHello)` has returned: qtls then writes its NewSessionTicket, and that `WriteRecord` waits for the mutex.
- **Stream count above 2^60, `max_streams_frame.go:33`.** `parseMaxStreamsFrame` and `parseStreamsBlockedFrame` take any 62-bit varint as a `StreamNum`. The spec (section 3) calls a StreamNum a 60-bit ordinal. A peer's MAX_STREAMS above 2^60 is accepted, and the stream IDs derived from it no longer fit a varint.
- **Dropped sealer without an error, line 588.** The comment on `ErrKeysDropped` (line 64) says it is returned when an opener or a sealer is requested for a level whose keys were dropped. After `Received1RTTAck`, `GetSealerWithEncryptionLevel(Initial)` returns the nil `initialSealer` with a nil error, and the Handshake level gives `errNoSealer`. Whether a session caller asks for these levels after the drop is outside `src/` and not modelled.
- **Stolen post-handshake alert, line 273.** The comment at lines 455-458 says `handlePostHandshakeMessage` reads the alert from `h.alertChan` in a goroutine so that `HandlePostHandshakeMessage` does not deadlock. `RunHandshake`'s select receives from the same channel, and it can still be pending after the handshake: `handshakeComplete` is ready but not yet chosen. When a server's peer sends a NewSessionTicket, `RunHandshake` can take the alert and wait on `handshakeErrChan`, which a successful handshake never fills. The session then waits on its local `alertChan` (line 469), the error is never reported, and the session goroutine never returns.
- **Lost alert, line 564.** `SendAlert` blocks on the unbuffered `alertChan`. If `Close` runs at the same time, `RunHandshake` may take `closeChan` and only wait for `handshakeDone`. The TLS goroutine stays in `SendAlert`, and `Close` never returns.

## Fairness and liveness

The sent-packet handler runs check safety only. The session's run loop gives the handler no fairness that the model could assume without modelling the loop. Leaving `SendNone` is stated as its safety core, `SendNoneRecoverable`: the queue alone never reaches the limit, so ACKs of the packets in the histories always bring `SendMode` back. Checking it as `~>` under weak fairness of the peer's ACKs did not finish within 30 minutes on this state space.

## Not modelled

- RTT estimation and pacing. They change timing only, not the control flow checked here. Pacing is the `nextSendTime` update in `sentPacketImpl` (line 202), `TimeUntilSend` and `ShouldSendNumPackets` (lines 627-642). All three take their delay from BBR's `TimeUntilSend`, which is not under `src/`. Only the session's send loop reads them, to decide when to send and how many packets, and no other operation of the handler reads `nextSendTime`. The model sends one packet per step at any time, which includes every burst the pacer allows.
- Packet lengths.
- Logging.
- The received-packet tracker, which is not under `src/`.
- The AEAD and HKDF key derivation, the key values (and so `ChangeConnectionID`), and `ConnectionState`, which only move data.
- The overflow of `duration << cryptoCount` and `<< ptoCount` (lines 684 and 689) is not listed as a hazard, because it cannot happen in a connection. The base duration is at least `TimerGranularity` (1 ms, about 2^20 ns). A shift overflows an int64 only at 2^63 ns, so at least 43 alarms must fire in a row without an ACK. Each alarm waits for the previous duration, so the connection would first have to be silent for about 2^62 ns, roughly 146 years. The handshake and idle timeouts close it long before that. Time is a small integer in the model.
