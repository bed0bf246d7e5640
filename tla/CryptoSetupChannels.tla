------------------------- MODULE CryptoSetupChannels -------------------------
(***************************************************************************)
(* The channel protocol of cryptoSetup (internal/handshake/crypto_setup.go)*)
(* between three goroutines:                                               *)
(*   - the TLS goroutine started by RunHandshake, running qtls.Handshake,  *)
(*     which calls back ReadHandshakeMessage, WriteRecord, SetReadKey,     *)
(*     SetWriteKey and SendAlert;                                          *)
(*   - RunHandshake itself, selecting on handshakeComplete, closeChan and  *)
(*     alertChan;                                                          *)
(*   - the session goroutine, calling HandleMessage for every handshake    *)
(*     message the peer sends, and Close.                                  *)
(* Channels are abstracted to what a receiver can observe: messageChan is  *)
(* a sequence (capacity 100, never reached), writeRecord a count of tokens *)
(* (capacity 1), the unbuffered receivedReadKey, receivedWriteKey,         *)
(* paramsChan and alertChan are rendezvous with the TLS goroutine blocked  *)
(* on its send, and closed channels are booleans.                          *)
(*                                                                         *)
(* qtls is not under src/: the order in which it reads messages, writes   *)
(* records and installs keys (Script) is the TLS 1.3 order that the       *)
(* comments of handleMessageForClient/handleMessageForServer rely on.     *)
(***************************************************************************)
EXTENDS Naturals, Sequences, FiniteSets

CONSTANTS
  Perspectives,           \* the perspectives ("client", "server") a behaviour may take
  Misbehaviours,          \* how the peer may misbehave, once: "wrongType", "wrongLevel", "ticket"
  CloseDuringHandshake    \* the session may call Close before handshakeDone

ASSUME Perspectives \subseteq {"client", "server"} /\ Perspectives # {}
ASSUME Misbehaviours \subseteq {"wrongType", "wrongLevel", "ticket"}
ASSUME CloseDuringHandshake \in BOOLEAN

\* Encryption levels: Initial, Handshake, 1-RTT.
Initial == 0
Handshake == 1
OneRTT == 2
EncLevels == {Initial, Handshake, OneRTT}

MsgTypes == {"CH", "SH", "EE", "Cert", "CV", "Fin", "NST"}

\* A handshake message as the peer sends it: its type, the level of the
\* CRYPTO frames carrying it, and how many of our records the peer must
\* have received before it sends it.
Msg(t, l, need) == [type |-> t, level |-> l, need |-> need]

\* The steps of qtls.Handshake that touch cryptoSetup.
Read(t) == [op |-> "read", type |-> t]
Write == [op |-> "write", type |-> "none"]
Params == [op |-> "params", type |-> "none"]
ReadKey == [op |-> "readKey", type |-> "none"]
WriteKey == [op |-> "writeKey", type |-> "none"]

ClientScript(hrr) ==
  <<Write>>
  \o (IF hrr THEN <<Read("SH"), Write>> ELSE <<>>)
  \o <<Read("SH"), WriteKey, ReadKey, Read("EE"), Params, Read("Cert"),
       Read("CV"), Read("Fin"), ReadKey, Write, WriteKey>>

\* The server writes its NewSessionTicket (the NST the client run receives)
\* with the 1-RTT key, after its Finished and before it reads the client's
\* Finished: a WriteRecord after HandleMessage(ClientHello) has returned.
ServerScript(hrr) ==
  (IF hrr THEN <<Read("CH"), Write>> ELSE <<>>)
  \o <<Read("CH"), Params, Write, ReadKey, WriteKey, Write, WriteKey, Write,
       Read("Fin"), ReadKey>>

\* What an honest peer sends, in order.
ClientPeerMsgs(hrr) ==
  LET w == IF hrr THEN 2 ELSE 1
  IN  (IF hrr THEN <<Msg("SH", Initial, 1)>> ELSE <<>>)
      \o <<Msg("SH", Initial, w), Msg("EE", Handshake, w),
           Msg("Cert", Handshake, w), Msg("CV", Handshake, w),
           Msg("Fin", Handshake, w), Msg("NST", OneRTT, w)>>

ServerPeerMsgs(hrr) ==
  IF hrr THEN <<Msg("CH", Initial, 0), Msg("CH", Initial, 1),
                Msg("Fin", Handshake, 3)>>
         ELSE <<Msg("CH", Initial, 0), Msg("Fin", Handshake, 2)>>

VARIABLES
  perspective,       \* h.perspective
  hrr,               \* whether the server answers the first ClientHello with a HelloRetryRequest
  tlsPc,             \* index of the next step of Script
  tls,               \* "running", "blocked" (on an unbuffered send), "alerting", "failing", "returned"
  readEncLevel, writeEncLevel,
  clientHelloWritten,
  written,           \* number of WriteRecord calls (records the peer can receive)
  messageChan, messageChanClosed,
  writeRecord,       \* tokens in the writeRecord channel
  handshakeComplete, handshakeDone, handshakeErr,
  runner,            \* RunHandshake: "select", "awaitErr", "closing", "done"
  session,           \* "idle", "select", "post", "postAlert", "postStuck", "closing", "closed"
  current,           \* the message HandleMessage is handling
  waits,             \* the selects of HandleMessage still to do
  closed, closeChan, mutexHeld,
  delivered,         \* how many of the honest peer's messages were handed to HandleMessage
  bogusSent,
  finished,          \* levels for which HandleMessage returned true
  onError,           \* runner.OnError was called
  opener, sealer     \* per level, whether the opener/sealer field is non-nil

vars == <<perspective, hrr, tlsPc, tls, readEncLevel, writeEncLevel, clientHelloWritten,
          written, messageChan, messageChanClosed, writeRecord,
          handshakeComplete, handshakeDone, handshakeErr, runner, session,
          current, waits, closed, closeChan, mutexHeld, delivered, bogusSent,
          finished, onError, opener, sealer>>

keyVars == <<opener, sealer>>
tlsVars == <<tlsPc, tls, readEncLevel, writeEncLevel, clientHelloWritten, written,
             keyVars>>
chanVars == <<messageChan, messageChanClosed, writeRecord, handshakeComplete,
              handshakeDone, handshakeErr>>
sessionVars == <<session, current, waits, closed, closeChan, mutexHeld,
                 finished, onError>>
peerVars == <<perspective, hrr, delivered, bogusSent>>

\* The messages a misbehaving peer may send besides: a type qtls does not
\* expect, at the level it belongs to, a type at the wrong level, or a
\* NewSessionTicket sent to a server, which qtls rejects after the handshake.
BogusMsgs ==
  LET need == IF perspective = "client" THEN 1 ELSE 0
  IN  (IF "wrongType" \in Misbehaviours THEN {Msg("Cert", Handshake, need)} ELSE {})
      \cup (IF "wrongLevel" \in Misbehaviours THEN {Msg("Fin", Initial, need)} ELSE {})
      \cup (IF "ticket" \in Misbehaviours /\ perspective = "server"
              THEN {Msg("NST", OneRTT, need)} ELSE {})

Script == IF perspective = "client" THEN ClientScript(hrr) ELSE ServerScript(hrr)
PeerMsgs == IF perspective = "client" THEN ClientPeerMsgs(hrr) ELSE ServerPeerMsgs(hrr)
Step == Script[tlsPc]

Message == [type : MsgTypes, level : EncLevels, need : 0..3]

Init ==
  /\ perspective \in Perspectives
  /\ hrr \in BOOLEAN
  /\ tlsPc = 1
  /\ tls = "running"
  /\ readEncLevel = Initial /\ writeEncLevel = Initial
  /\ clientHelloWritten = FALSE
  /\ written = 0
  /\ messageChan = <<>> /\ messageChanClosed = FALSE
  /\ writeRecord = 0
  /\ handshakeComplete = FALSE /\ handshakeDone = FALSE /\ handshakeErr = FALSE
  /\ runner = "select"
  /\ session = "idle"
  /\ current = Msg("CH", Initial, 0)
  /\ waits = <<>>
  /\ closed = FALSE /\ closeChan = FALSE /\ mutexHeld = FALSE
  /\ delivered = 0 /\ bogusSent = FALSE
  /\ finished = {}
  /\ onError = FALSE
  /\ opener = [l \in EncLevels |-> l = Initial]
  /\ sealer = [l \in EncLevels |-> l = Initial]

-----------------------------------------------------------------------------
(* The TLS goroutine.                                                       *)

Running == tls = "running" /\ tlsPc <= Len(Script)

\* ReadHandshakeMessage: receive from messageChan. qtls answers a message
\* of a type it does not expect with SendAlert(alertUnexpectedMessage),
\* a blocking send on the unbuffered alertChan.
TLSReadMessage ==
  /\ Running /\ Step.op = "read"
  /\ messageChan # <<>>
  /\ messageChan' = Tail(messageChan)
  /\ IF Head(messageChan).type = Step.type
       THEN tlsPc' = tlsPc + 1 /\ UNCHANGED tls
       ELSE tls' = "alerting" /\ UNCHANGED tlsPc
  /\ UNCHANGED <<readEncLevel, writeEncLevel, clientHelloWritten, written,
                 keyVars>>
  /\ UNCHANGED <<messageChanClosed, writeRecord, handshakeComplete,
                 handshakeDone, handshakeErr, runner, sessionVars, peerVars>>

\* ReadHandshakeMessage on a closed and drained messageChan returns an
\* error, and qtls.Handshake returns it.
TLSReadClosed ==
  /\ Running /\ Step.op = "read"
  /\ messageChan = <<>> /\ messageChanClosed
  /\ tls' = "failing"
  /\ UNCHANGED <<tlsPc, readEncLevel, writeEncLevel, clientHelloWritten, written,
                 keyVars>>
  /\ UNCHANGED <<chanVars, runner, sessionVars, peerVars>>

\* Mutant: every Initial record is signalled, the ClientHello included.
WriteRecordSignalsClientHello ==
  /\ Running /\ Step.op = "write"
  /\ ~mutexHeld
  /\ IF writeEncLevel = Initial
       THEN /\ writeRecord' = writeRecord + 1
            /\ clientHelloWritten' = (clientHelloWritten \/ perspective = "client")
       ELSE UNCHANGED <<writeRecord, clientHelloWritten>>
  /\ written' = written + 1
  /\ tlsPc' = tlsPc + 1
  /\ UNCHANGED <<tls, readEncLevel, writeEncLevel, keyVars>>
  /\ UNCHANGED <<messageChan, messageChanClosed, handshakeComplete,
                 handshakeDone, handshakeErr, runner, sessionVars, peerVars>>

\* WriteRecord, under the mutex. At the Initial level every record but the
\* client's first (the ClientHello) is signalled by a send on writeRecord.
WriteRecord ==
  /\ Running /\ Step.op = "write"
  /\ ~mutexHeld
  /\ IF writeEncLevel = Initial
       THEN IF ~clientHelloWritten /\ perspective = "client"
              THEN clientHelloWritten' = TRUE /\ UNCHANGED writeRecord
              ELSE writeRecord' = writeRecord + 1 /\ UNCHANGED clientHelloWritten
       ELSE UNCHANGED <<writeRecord, clientHelloWritten>>
  /\ written' = written + 1
  /\ tlsPc' = tlsPc + 1
  /\ UNCHANGED <<tls, readEncLevel, writeEncLevel, keyVars>>
  /\ UNCHANGED <<messageChan, messageChanClosed, handshakeComplete,
                 handshakeDone, handshakeErr, runner, sessionVars, peerVars>>

\* SetReadKey: under the mutex, advance readEncLevel (the switch panics past
\* 1-RTT) and install the opener of the new level (handshakeOpener or
\* opener); after Unlock, block on the send on receivedReadKey.
SetReadKey ==
  /\ Running /\ Step.op = "readKey"
  /\ ~mutexHeld
  /\ readEncLevel < OneRTT
  /\ readEncLevel' = readEncLevel + 1
  /\ opener' = [opener EXCEPT ![readEncLevel + 1] = TRUE]
  /\ tls' = "blocked"
  /\ UNCHANGED <<tlsPc, writeEncLevel, clientHelloWritten, written, sealer>>
  /\ UNCHANGED <<chanVars, runner, sessionVars, peerVars>>

\* SetWriteKey, the same for writeEncLevel, the sealers and receivedWriteKey.
SetWriteKey ==
  /\ Running /\ Step.op = "writeKey"
  /\ ~mutexHeld
  /\ writeEncLevel < OneRTT
  /\ writeEncLevel' = writeEncLevel + 1
  /\ sealer' = [sealer EXCEPT ![writeEncLevel + 1] = TRUE]
  /\ tls' = "blocked"
  /\ UNCHANGED <<tlsPc, readEncLevel, clientHelloWritten, written, opener>>
  /\ UNCHANGED <<chanVars, runner, sessionVars, peerVars>>

\* The extension handler hands the peer's transport parameters over
\* paramsChan and blocks until HandleMessage receives them.
SendParams ==
  /\ Running /\ Step.op = "params"
  /\ tls' = "blocked"
  /\ UNCHANGED <<tlsPc, readEncLevel, writeEncLevel, clientHelloWritten, written,
                 keyVars>>
  /\ UNCHANGED <<chanVars, runner, sessionVars, peerVars>>

\* conn.Handshake returns nil: close(handshakeComplete), then the deferred
\* close(handshakeDone).
HandshakeReturns ==
  /\ tls = "running" /\ tlsPc > Len(Script)
  /\ tls' = "returned"
  /\ handshakeComplete' = TRUE /\ handshakeDone' = TRUE
  /\ UNCHANGED <<tlsPc, readEncLevel, writeEncLevel, clientHelloWritten, written,
                 keyVars>>
  /\ UNCHANGED <<messageChan, messageChanClosed, writeRecord, handshakeErr,
                 runner, sessionVars, peerVars>>

\* conn.Handshake returns an error: handshakeErrChan <- err (buffered),
\* then the deferred close(handshakeDone).
HandshakeFails ==
  /\ tls = "failing"
  /\ tls' = "returned"
  /\ handshakeErr' = TRUE /\ handshakeDone' = TRUE
  /\ UNCHANGED <<tlsPc, readEncLevel, writeEncLevel, clientHelloWritten, written,
                 keyVars>>
  /\ UNCHANGED <<messageChan, messageChanClosed, writeRecord, handshakeComplete,
                 runner, sessionVars, peerVars>>

-----------------------------------------------------------------------------
(* RunHandshake, after starting the TLS goroutine: one select. Go picks     *)
(* among the ready cases at random; each case is an action of its own.      *)

RunHandshakeComplete ==
  /\ runner = "select" /\ handshakeComplete
  /\ runner' = "done"
  /\ UNCHANGED <<tlsVars, chanVars, sessionVars, peerVars>>

\* case <-h.closeChan: close(h.messageChan), then wait for handshakeDone.
RunHandshakeClose ==
  /\ runner = "select" /\ closeChan
  /\ runner' = "closing"
  /\ messageChanClosed' = TRUE
  /\ UNCHANGED <<tlsVars, messageChan, writeRecord, handshakeComplete,
                 handshakeDone, handshakeErr, sessionVars, peerVars>>

RunHandshakeClosed ==
  /\ runner = "closing" /\ handshakeDone
  /\ runner' = "done"
  /\ UNCHANGED <<tlsVars, chanVars, sessionVars, peerVars>>

\* case alert := <-h.alertChan: the rendezvous with SendAlert; then
\* handshakeErr := <-handshakeErrChan and onError.
RunHandshakeAlert ==
  /\ runner = "select" /\ tls = "alerting"
  /\ runner' = "awaitErr"
  /\ tls' = "failing"
  /\ UNCHANGED <<tlsPc, readEncLevel, writeEncLevel, clientHelloWritten, written,
                 keyVars>>
  /\ UNCHANGED <<chanVars, sessionVars, peerVars>>

RunHandshakeError ==
  /\ runner = "awaitErr" /\ handshakeErr
  /\ runner' = "done"
  /\ onError' = TRUE
  /\ UNCHANGED <<tlsVars, chanVars, session, current, waits, closed,
                 closeChan, mutexHeld, finished, peerVars>>

\* The same case taken after a successful handshake: RunHandshake is still
\* in its select (handshakeComplete is ready but not yet chosen) when the
\* session's qtls sends a post-handshake alert, and the select receives it
\* in place of the forwarding goroutine. SendAlert returns; RunHandshake
\* then waits on handshakeErrChan, which a successful Handshake never
\* fills, and the session on the local alertChan, which nothing fills.
RunHandshakePostAlert ==
  /\ runner = "select" /\ session = "postAlert"
  /\ runner' = "awaitErr"
  /\ session' = "postStuck"
  /\ UNCHANGED <<tlsVars, chanVars, current, waits, closed, closeChan,
                 mutexHeld, finished, onError, peerVars>>

-----------------------------------------------------------------------------
(* The keys. The session asks for an opener to decrypt each packet and for  *)
(* a sealer to seal each packet, under the mutex; it drops the Initial and *)
(* Handshake keys on the first ACK of a 1-RTT packet. Key values (and      *)
(* ChangeConnectionID, which replaces the Initial keys by others) are not  *)
(* modelled, only whether each field is nil.                               *)

\* Mutant: a nil handshakeOpener is always "not yet available".
GetOpenerNoDropCheck(l) ==
  CASE opener[l]   -> "none"
    [] l = Initial -> "KeysDropped"
    [] OTHER       -> "NotYetAvailable"

\* GetOpener: the error returned with a nil opener. A nil handshakeOpener
\* with the Initial opener gone means the Handshake keys were dropped too.
GetOpener(l) ==
  CASE opener[l]                          -> "none"
    [] l = Initial                        -> "KeysDropped"
    [] l = Handshake /\ ~opener[Initial]  -> "KeysDropped"
    [] OTHER                              -> "NotYetAvailable"

\* Mutant: the Handshake sealer is preferred to the 1-RTT one.
GetSealerHandshakeFirst ==
  LET l == CASE sealer[Handshake] -> Handshake
             [] sealer[OneRTT]    -> OneRTT
             [] OTHER             -> Initial
  IN  [level |-> l, sealer |-> sealer[l]]

\* GetSealer: the highest level with a sealer, else the Initial sealer.
GetSealer ==
  LET l == CASE sealer[OneRTT]    -> OneRTT
             [] sealer[Handshake] -> Handshake
             [] OTHER             -> Initial
  IN  [level |-> l, sealer |-> sealer[l]]

\* GetSealerWithEncryptionLevel: the Initial sealer is returned as it is,
\* nil or not; a nil Handshake or 1-RTT sealer is errNoSealer.
GetSealerWithEncryptionLevel(l) ==
  IF l = Initial \/ sealer[l]
    THEN [sealer |-> sealer[l], err |-> "none"]
    ELSE [sealer |-> FALSE, err |-> "noSealer"]

\* Received1RTTAck, called by the session when an ACK in a 1-RTT packet
\* (opened with the 1-RTT opener) acknowledges one of its 1-RTT packets
\* (sealed with the 1-RTT sealer): drop the Initial keys if still there,
\* then the Handshake keys. No mutex is taken.
Received1RTTAck ==
  /\ session = "idle" /\ ~closed
  /\ opener[OneRTT] /\ sealer[OneRTT]
  /\ opener[Initial] \/ opener[Handshake]
  /\ opener' = [opener EXCEPT ![Initial] = FALSE, ![Handshake] = FALSE]
  /\ sealer' = [sealer EXCEPT ![Initial] = FALSE, ![Handshake] = FALSE]
  /\ UNCHANGED <<tlsPc, tls, readEncLevel, writeEncLevel, clientHelloWritten,
                 written, chanVars, runner, sessionVars, peerVars>>

-----------------------------------------------------------------------------
(* The session goroutine.                                                   *)

\* checkEncryptionLevel: the level each message type must arrive at.
ExpectedLevel(t) ==
  CASE t \in {"CH", "SH"} -> Initial
    [] t = "NST"          -> OneRTT
    [] OTHER              -> Handshake

\* The selects of handleMessageForServer/handleMessageForClient, in order.
\* "record" is <-h.writeRecord; every select also has <-h.handshakeDone.
\* Mutant: the server does not wait for the 1-RTT write key.
ServerWaitsNoOneRTTWriteKey(t) ==
  CASE t = "CH"  -> <<{"record", "params"}, {"readKey"}, {"writeKey"}>>
    [] t = "Fin" -> <<{"readKey"}>>
    [] OTHER     -> <<>>

ServerWaits(t) ==
  CASE t = "CH"  -> <<{"record", "params"}, {"readKey"}, {"writeKey"}, {"writeKey"}>>
    [] t = "Fin" -> <<{"readKey"}>>
    [] OTHER     -> <<>>

\* Mutant: on a Finished the client waits for the 1-RTT read key only.
ClientWaitsReadKeyOnly(t) ==
  CASE t = "SH"  -> <<{"record", "writeKey"}, {"readKey"}>>
    [] t = "EE"  -> <<{"params"}>>
    [] t = "Fin" -> <<{"readKey"}>>
    [] OTHER     -> <<>>

ClientWaits(t) ==
  CASE t = "SH"  -> <<{"record", "writeKey"}, {"readKey"}>>
    [] t = "EE"  -> <<{"params"}>>
    [] t = "Fin" -> <<{"readKey"}, {"writeKey"}>>
    [] OTHER     -> <<>>

Waits(t) == IF perspective = "client" THEN ClientWaits(t) ELSE ServerWaits(t)

\* What HandleMessage returns ("stream finished") once every select of
\* message type t received its key or parameters.
LevelFinished(t) ==
  IF perspective = "client" THEN t \in {"SH", "Fin"} ELSE t \in {"CH", "Fin"}

\* HandleMessage(data, encLevel) up to its first select: the level check
\* (a mismatch calls onError and returns false), the send on messageChan,
\* then handlePostHandshakeMessage for 1-RTT messages or the selects.
HandleMessage(m) ==
  /\ session = "idle" /\ ~closed
  /\ IF m.level # ExpectedLevel(m.type)
       THEN /\ onError' = TRUE
            /\ UNCHANGED <<messageChan, session, current, waits>>
       ELSE /\ messageChan' = Append(messageChan, m)
            /\ current' = m
            /\ waits' = IF m.level = OneRTT THEN <<>> ELSE Waits(m.type)
            /\ session' = IF m.level = OneRTT THEN "post"
                          ELSE IF Waits(m.type) = <<>> THEN "idle" ELSE "select"
            /\ UNCHANGED onError
  /\ UNCHANGED <<tlsVars, messageChanClosed, writeRecord, handshakeComplete,
                 handshakeDone, handshakeErr, runner, closed, closeChan,
                 mutexHeld, finished>>

\* The crypto stream hands over the peer's next message once it has the
\* opener for its level and the peer has our records it answers; data at a
\* level whose stream HandleMessage reported finished is a connection error.
DeliverMessage ==
  /\ delivered < Len(PeerMsgs)
  /\ LET m == PeerMsgs[delivered + 1]
     IN  /\ written >= m.need /\ GetOpener(m.level) = "none"
         /\ m.level \notin finished
         /\ HandleMessage(m)
  /\ delivered' = delivered + 1
  /\ UNCHANGED <<perspective, hrr, bogusSent>>

DeliverBogusMessage ==
  /\ ~bogusSent
  /\ \E m \in BogusMsgs :
       /\ written >= m.need /\ GetOpener(m.level) = "none"
       /\ m.level \notin finished
       /\ HandleMessage(m)
  /\ bogusSent' = TRUE
  /\ UNCHANGED <<perspective, hrr, delivered>>

\* Mutant: the receive on writeRecord is always ready, as if the channel
\* were closed rather than sent on.
ReadyRecordAlways(c) ==
  CASE c = "record" -> TRUE
    [] c = "done"   -> handshakeDone
    [] OTHER        -> tls = "blocked" /\ Step.op = c

\* Whether a case of the current select can proceed.
Ready(c) ==
  CASE c = "record" -> writeRecord > 0
    [] c = "done"   -> handshakeDone
    [] OTHER        -> tls = "blocked" /\ Step.op = c

\* Mutant: a HelloRetryRequest signal is taken as the end of the level.
HandleMessageSelectRecordFinishes ==
  /\ session = "select"
  /\ \E c \in Head(waits) \cup {"done"} :
       /\ Ready(c)
       /\ writeRecord' = IF c = "record" THEN writeRecord - 1 ELSE writeRecord
       /\ IF c \in {"params", "readKey", "writeKey"}
            THEN tls' = "running" /\ tlsPc' = tlsPc + 1
            ELSE UNCHANGED <<tls, tlsPc>>
       /\ LET return == c \in {"record", "done"} \/ Len(waits) = 1
              stillFinished == c # "done" /\ LevelFinished(current.type)
          IN  /\ session' = IF return THEN "idle" ELSE "select"
              /\ waits' = IF return THEN <<>> ELSE Tail(waits)
              /\ finished' = IF return /\ stillFinished
                               THEN finished \cup {current.level}
                               ELSE finished
  /\ UNCHANGED <<readEncLevel, writeEncLevel, clientHelloWritten, written,
                 keyVars>>
  /\ UNCHANGED <<messageChan, messageChanClosed, handshakeComplete,
                 handshakeDone, handshakeErr, runner, current, closed,
                 closeChan, mutexHeld, onError, peerVars>>

\* One select of HandleMessage. Receiving a key or the parameters completes
\* the TLS goroutine's send; <-h.writeRecord and <-h.handshakeDone return
\* false; the last select returns LevelFinished.
HandleMessageSelect ==
  /\ session = "select"
  /\ \E c \in Head(waits) \cup {"done"} :
       /\ Ready(c)
       /\ writeRecord' = IF c = "record" THEN writeRecord - 1 ELSE writeRecord
       /\ IF c \in {"params", "readKey", "writeKey"}
            THEN tls' = "running" /\ tlsPc' = tlsPc + 1
            ELSE UNCHANGED <<tls, tlsPc>>
       /\ LET return == c \in {"record", "done"} \/ Len(waits) = 1
              stillFinished == c \notin {"record", "done"} /\ LevelFinished(current.type)
          IN  /\ session' = IF return THEN "idle" ELSE "select"
              /\ waits' = IF return THEN <<>> ELSE Tail(waits)
              /\ finished' = IF return /\ stillFinished
                               THEN finished \cup {current.level}
                               ELSE finished
  /\ UNCHANGED <<readEncLevel, writeEncLevel, clientHelloWritten, written,
                 keyVars>>
  /\ UNCHANGED <<messageChan, messageChanClosed, handshakeComplete,
                 handshakeDone, handshakeErr, runner, current, closed,
                 closeChan, mutexHeld, onError, peerVars>>

\* handlePostHandshakeMessage: wait for handshakeDone, start the goroutine
\* that forwards an alert from h.alertChan into a local one-slot alertChan,
\* then conn.HandlePostHandshakeMessage reads the next message from
\* messageChan in the session goroutine. A client's qtls takes a
\* NewSessionTicket; anything else it rejects with SendAlert, a blocking
\* send on h.alertChan (the comment on lines 455-458).
PostHandshakeAccepted(m) == m.type = "NST" /\ perspective = "client"

HandlePostHandshakeMessage ==
  /\ session = "post" /\ handshakeDone
  /\ messageChan # <<>>
  /\ messageChan' = Tail(messageChan)
  /\ session' = IF PostHandshakeAccepted(Head(messageChan)) THEN "idle" ELSE "postAlert"
  /\ UNCHANGED <<tlsVars, messageChanClosed, writeRecord, handshakeComplete,
                 handshakeDone, handshakeErr, runner, current, waits, closed,
                 closeChan, mutexHeld, finished, onError, peerVars>>

\* The forwarding goroutine receives the alert; SendAlert returns, qtls
\* returns the error and h.onError(<-alertChan, ...) reports it.
PostHandshakeAlertForwarded ==
  /\ session = "postAlert"
  /\ session' = "idle"
  /\ onError' = TRUE
  /\ UNCHANGED <<tlsVars, chanVars, runner, current, waits, closed, closeChan,
                 mutexHeld, finished, peerVars>>

\* Close: Lock, closed = true, close(closeChan), then wait for handshakeDone
\* still holding the mutex.
Close ==
  /\ session = "idle" /\ ~closed
  /\ CloseDuringHandshake \/ handshakeDone
  /\ ~mutexHeld
  /\ closed' = TRUE /\ closeChan' = TRUE /\ mutexHeld' = TRUE
  /\ session' = "closing"
  /\ UNCHANGED <<tlsVars, chanVars, runner, current, waits, finished, onError,
                 peerVars>>

CloseReturns ==
  /\ session = "closing" /\ handshakeDone
  /\ mutexHeld' = FALSE
  /\ session' = "closed"
  /\ UNCHANGED <<tlsVars, chanVars, runner, current, waits, closed, closeChan,
                 finished, onError, peerVars>>

-----------------------------------------------------------------------------
TLSStep ==
  \/ TLSReadMessage \/ TLSReadClosed \/ WriteRecord \/ SetReadKey
  \/ SetWriteKey \/ SendParams \/ HandshakeReturns \/ HandshakeFails

RunHandshakeStep ==
  \/ RunHandshakeComplete \/ RunHandshakeClose \/ RunHandshakeClosed
  \/ RunHandshakeAlert \/ RunHandshakeError \/ RunHandshakePostAlert

SessionStep ==
  \/ HandleMessageSelect \/ HandlePostHandshakeMessage
  \/ PostHandshakeAlertForwarded \/ CloseReturns

Next ==
  \/ TLSStep
  \/ RunHandshakeStep
  \/ SessionStep
  \/ DeliverMessage
  \/ DeliverBogusMessage
  \/ Received1RTTAck
  \/ Close

\* Every goroutine that can run eventually runs; the peer's messages are
\* eventually delivered (QUIC retransmits CRYPTO frames). Neither the
\* misbehaving message nor Close is required to happen.
Fairness ==
  /\ WF_vars(TLSStep)
  /\ WF_vars(RunHandshakeStep)
  /\ WF_vars(SessionStep)
  /\ WF_vars(DeliverMessage)

Spec == Init /\ [][Next]_vars /\ Fairness

-----------------------------------------------------------------------------
(* Properties.                                                              *)

TypeOK ==
  /\ perspective \in Perspectives
  /\ hrr \in BOOLEAN
  /\ tlsPc \in 1..(Len(Script) + 1)
  /\ tls \in {"running", "blocked", "alerting", "failing", "returned"}
  /\ readEncLevel \in EncLevels /\ writeEncLevel \in EncLevels
  /\ written \in Nat
  /\ messageChan \in Seq(Message)
  /\ writeRecord \in Nat
  /\ runner \in {"select", "awaitErr", "closing", "done"}
  /\ session \in {"idle", "select", "post", "postAlert", "postStuck", "closing", "closed"}
  /\ current \in Message
  /\ finished \subseteq EncLevels
  /\ delivered \in 0..Len(PeerMsgs)

\* WriteRecord's send on writeRecord (line 551) always finds room in the
\* channel's one-slot buffer: the session's HandleMessage takes each token
\* (the server's HelloRetryRequest, the client's reply to a ServerHello)
\* before qtls writes the next Initial record. A second token would block
\* the TLS goroutine inside WriteRecord while it holds the mutex, where the
\* comment on the field promises a non-blocking send, and GetSealer and
\* Close would wait on that mutex.
WriteRecordNeverBlocks == writeRecord <= 1

\* HandleMessage returns true ("stream finished") for a level only when the
\* peer sends nothing more at that level: the crypto stream manager then
\* finishes the level's stream, and later data on it is a connection error.
\* This is what telling a HelloRetryRequest apart by <-h.writeRecord is for.
FinishedOnlyAtLevelEnd ==
  \A l \in finished :
    \A i \in (delivered + 1)..Len(PeerMsgs) : PeerMsgs[i].level # l

\* The session calls Close only once the handshake is done. A Close during
\* the handshake can deadlock (line 295, the crypto_close_deadlock run), so
\* the liveness properties below are stated for the behaviours without one.
NoEarlyClose == [](closed => handshakeDone)

\* RunHandshake's select never takes a post-handshake alert meant for the
\* forwarding goroutine of handlePostHandshakeMessage. When it does, both
\* goroutines block forever (the crypto_post_alert run), so the liveness
\* properties below are stated for the behaviours where it does not.
NoPostAlertTheft == [](session # "postStuck")

\* Without a Close during the handshake, and without that theft, the TLS
\* goroutine and RunHandshake always return, and the session is never left
\* blocked in HandleMessage or handlePostHandshakeMessage: no goroutine
\* waits forever on a channel no one serves.
HandshakeTerminates ==
  NoEarlyClose /\ NoPostAlertTheft =>
    /\ <>(tls = "returned" /\ runner = "done")
    /\ []<>(session \in {"idle", "closed"})

\* Close returns: the TLS goroutine returns once closeChan is closed, so the
\* <-h.handshakeDone in Close (line 295) does not wait forever.
CloseEventuallyReturns ==
  session = "closing" ~> session = "closed"

\* An alert qtls sends with SendAlert (line 564) is received by RunHandshake
\* (line 272), so the TLS goroutine does not stay blocked on alertChan.
AlertEventuallyReceived ==
  tls = "alerting" ~> tls # "alerting"

\* A post-handshake message qtls rejects (a NewSessionTicket sent to a
\* server) is reported: handlePostHandshakeMessage receives the alert from
\* its forwarding goroutine, calls runner.OnError and returns (lines
\* 468-470), so the session goes on handling packets.
PostHandshakeErrorReported ==
  session = "postAlert" ~> (onError /\ session = "idle")

\* A packet for which GetOpener reports ErrOpenerNotYetAvailable is buffered
\* for later (spec, error handling), so the opener of its level must come:
\* SetReadKey installs it, or the handshake fails. Packets of a level whose
\* keys Received1RTTAck dropped must be reported ErrKeysDropped (and
\* discarded), or they would wait in the buffer for keys that never come.
\* A Close during the handshake is left out, as for HandshakeTerminates.
OpenerNotYetAvailableIsTemporary ==
  NoEarlyClose =>
    \A l \in EncLevels :
      GetOpener(l) = "NotYetAvailable" ~> (GetOpener(l) = "none" \/ handshakeErr)

\* The sealer GetSealer hands to the packet packer is never nil and is at
\* writeEncLevel, the level of the crypto stream WriteRecord writes to:
\* SetWriteKey moves both under the mutex, and Received1RTTAck leaves the
\* 1-RTT sealer in place.
SealerAtWriteLevel ==
  GetSealer.sealer /\ GetSealer.level = writeEncLevel

\* A sealer requested for a level whose keys were dropped is refused with
\* ErrKeysDropped, as the comment on ErrKeysDropped (line 64) says. A nil
\* sealer below writeEncLevel is one Received1RTTAck dropped.
DroppedSealerReportsKeysDropped ==
  \A l \in {Initial, Handshake} :
    ~sealer[l] /\ l < writeEncLevel =>
      GetSealerWithEncryptionLevel(l).err = "KeysDropped"
=============================================================================
