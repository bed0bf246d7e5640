-------------------------- MODULE SentPacketHandler --------------------------
(***************************************************************************)
(* The sent-packet handler of internal/ackhandler/sent_packet_handler.go:  *)
(* per-encryption-level packet-number spaces with their sent-packet        *)
(* history, the retransmission queue, bytes in flight, time-threshold loss *)
(* detection, the single loss-detection alarm (crypto / loss-time / PTO    *)
(* mode) and the send-mode decision.                                       *)
(*                                                                         *)
(* The handler is driven by the session loop (send, ACK arrival, alarm,    *)
(* Retry, key installation) and by the peer, whose ACK frames may report   *)
(* any non-empty set of the packet numbers sent so far: that covers lost,  *)
(* reordered, delayed and duplicated packets and ACKs.                     *)
(*                                                                         *)
(* Abstractions: a packet is one byte long, so bytes in flight count       *)
(* packets; every history entry is ack-eliciting, so it is included in     *)
(* bytes in flight; the RTT statistics are fixed, so the loss delay and    *)
(* the base crypto and PTO timeouts are constants in clock ticks; the BBR  *)
(* window is a constant number of packets.                                 *)
(***************************************************************************)
EXTENDS Integers, Sequences, FiniteSets, SequencesExt, TLC

CONSTANTS
  MaxPacketNumber,            \* the packet-number generator of a space stops here
  MaxTime,                    \* the clock stops here
  LossDelay,                  \* max(timeThreshold * maxRTT, TimerGranularity), in ticks
  CryptoTimeout,              \* max(2 * SmoothedOrInitialRTT, TimerGranularity), in ticks
  PTOTimeout,                 \* SmoothedOrInitialRTT + max(4 * MeanDeviation, TimerGranularity) + maxAckDelay
  CongestionWindow,           \* the BBR congestion window, in packets
  MaxTrackedSentPackets,      \* protocol.MaxTrackedSentPackets
  MaxOutstandingSentPackets,  \* protocol.MaxOutstandingSentPackets
  SkipPacketNumbers,          \* whether the generator may skip a packet number
  HonestPeer,                 \* whether every ACK reports only packets that were sent
  CarriedAcks                 \* largest acked of the ACK frames our packets carry

ASSUME MaxPacketNumber \in Nat /\ MaxTime \in Nat
ASSUME {LossDelay, CryptoTimeout, PTOTimeout} \subseteq Nat \ {0}
ASSUME MaxOutstandingSentPackets < MaxTrackedSentPackets
ASSUME SkipPacketNumbers \in BOOLEAN /\ HonestPeer \in BOOLEAN
ASSUME CarriedAcks \subseteq Nat

Initial == "Initial"
Handshake == "Handshake"
OneRTT == "OneRTT"
Levels == {Initial, Handshake, OneRTT}
CryptoLevels == {Initial, Handshake}
LevelRank == [l \in Levels |-> CASE l = Initial -> 0 [] l = Handshake -> 1 [] OTHER -> 2]

Invalid == -1   \* protocol.InvalidPacketNumber
NoTime == -1    \* the zero time.Time
PN == 0 .. MaxPacketNumber
Time == 0 .. MaxTime

\* The errors ReceivedAck, OnAlarm and DequeueProbePacket can return.
Errors == {"ProtocolViolation", "SkippedPacketAcked", "WrongPacketAcked",
           "RetransmissionNotFound", "NoOutstandingForProbe", "SpaceDropped"}

VARIABLES
  history,              \* history[l]: packet number -> sent packet, of level l
  dropped,              \* the levels whose packet-number space DropPackets removed
  nextPN,               \* the next packet number each generator hands out
  skipped,              \* the packet numbers each generator skipped
  largestSent,
  largestAcked,
  retransmissionQueue,  \* sequence of <<level, packet number>>
  bytesInFlight,
  lastSentCryptoPacketTime,
  lastSentAckElicitingPacketTime,
  cryptoCount,
  ptoCount,
  numProbesToSend,
  lossTime,
  alarm,
  writeLevel,           \* the session's highest write key (crypto setup)
  retried,              \* the session processed a Retry
  now,                  \* the clock
  closed,               \* the connection is closed
  err,                  \* the error that closed it, or "none"
  lostNotReported,      \* packets declared lost that no congestion event reported
  sent,                 \* sent[l]: the packet numbers sent in the current space of l
  lowestNotConfirmedAcked

vars == <<history, dropped, nextPN, skipped, largestSent, largestAcked,
          retransmissionQueue, bytesInFlight, lastSentCryptoPacketTime,
          lastSentAckElicitingPacketTime, cryptoCount, ptoCount,
          numProbesToSend, lossTime, alarm, writeLevel, retried, now, closed,
          err, lostNotReported, sent, lowestNotConfirmedAcked>>

Packet == [sendTime: Time, largestAcked: CarriedAcks \cup {Invalid}, canBeRetransmitted: BOOLEAN,
           retransmissionOf: PN \cup {Invalid}, retransmittedAs: SUBSET PN]

-----------------------------------------------------------------------------
(* The sent-packet history (sent_packet_history.go, outside src/).          *)

\* A packet as SentPacket / sentPacketImpl store it; carried is the largest
\* acked of the ACK frame it carries, or Invalid.
NewPacket(carried) == [sendTime |-> now, largestAcked |-> carried, canBeRetransmitted |-> TRUE,
                       retransmissionOf |-> Invalid, retransmittedAs |-> {}]

RemovePacket(h, pn) == [x \in DOMAIN h \ {pn} |-> h[x]]

MarkCannotBeRetransmitted(h, S) ==
  [x \in DOMAIN h |-> IF x \in S THEN [h[x] EXCEPT !.canBeRetransmitted = FALSE]
                                 ELSE h[x]]

\* SentPacketsAsRetransmission: link the new packet to its parent, if the
\* parent is still in the history, else store it as an ordinary packet.
AddRetransmission(h, pn, of) ==
  IF of \in DOMAIN h
  THEN [h EXCEPT ![of].retransmittedAs = {pn}]
         @@ (pn :> [NewPacket(Invalid) EXCEPT !.retransmissionOf = of])
  ELSE h @@ (pn :> NewPacket(Invalid))

\* The outstanding packets: those in the history that can be retransmitted.
OutstandingIn(h) == {pn \in DOMAIN h : h[pn].canBeRetransmitted}

Ascending(S) == SetToSortSeq(S, <)

-----------------------------------------------------------------------------
(* Queries of the handler.                                                  *)

HasOutstandingCrypto(h, drp) ==
  \E l \in CryptoLevels \ drp : OutstandingIn(h[l]) # {}

\* Mutant: every packet still in a history counts as outstanding.
HasOutstandingInHistory(h, drp) ==
  \E l \in Levels \ drp : DOMAIN h[l] # {}

HasOutstanding(h, drp) ==
  OutstandingIn(h[OneRTT]) # {} \/ HasOutstandingCrypto(h, drp)

\* updateLossDetectionAlarm, with computeCryptoTimeout and computePTOTimeout.
AlarmFor(h, drp, lt, cc, pc, lastCrypto, lastAckEliciting) ==
  CASE ~HasOutstanding(h, drp)    -> NoTime
    [] HasOutstandingCrypto(h, drp) -> lastCrypto + CryptoTimeout * 2^cc
    [] lt # NoTime                -> lt
    [] OTHER                      -> lastAckEliciting + PTOTimeout * 2^pc

LossDetectionAlarm ==
  AlarmFor(history, dropped, lossTime, cryptoCount, ptoCount,
           lastSentCryptoPacketTime, lastSentAckElicitingPacketTime)

\* The number of packets in the histories of the levels L.
InHistories(h, L) == Cardinality(UNION {{<<l, pn>> : pn \in DOMAIN h[l]} : l \in L})

NumTracked == Len(retransmissionQueue) + InHistories(history, Levels \ dropped)

\* The BBR sender's CanSend.
CanSend(bif) == bif < CongestionWindow

SendMode ==
  CASE NumTracked >= MaxTrackedSentPackets      -> "SendNone"
    [] numProbesToSend > 0                      -> "SendPTO"
    [] ~CanSend(bytesInFlight)                  -> "SendAck"
    [] Len(retransmissionQueue) > 0             -> "SendRetransmission"
    [] NumTracked >= MaxOutstandingSentPackets  -> "SendAck"
    [] OTHER                                    -> "SendAny"

-----------------------------------------------------------------------------
(* ACK processing.                                                          *)

\* The ACK ranges of a set of packet numbers, largest first, as on the wire.
AckRangesOf(S) ==
  LET maximal == {[smallest |-> a, largest |-> b] :
                    a \in {x \in S : x - 1 \notin S}, b \in {x \in S : x + 1 \notin S}}
      ranges == {r \in maximal : r.smallest <= r.largest /\ r.smallest .. r.largest \subseteq S}
  IN SetToSortSeq(ranges, LAMBDA r1, r2 : r1.largest > r2.largest)

\* The inner loop of determineNewlyAckedPackets that advances ackRangeIndex.
RECURSIVE RangeIndexFor(_, _, _)
RangeIndexFor(ranges, pn, i) ==
  IF pn > ranges[Len(ranges) - i].largest /\ i < Len(ranges) - 1
  THEN RangeIndexFor(ranges, pn, i + 1)
  ELSE i

\* determineNewlyAckedPackets: walk the history (ascending packet numbers
\* pns) against the ACK ranges, keeping ackRangeIndex i.
RECURSIVE NewlyAcked(_, _, _, _)
NewlyAcked(ranges, pns, i, acked) ==
  IF pns = <<>> THEN [acked |-> acked, bug |-> FALSE]
  ELSE
    LET pn == Head(pns)
        j == RangeIndexFor(ranges, pn, i)
        r == ranges[Len(ranges) - j]
    IN CASE pn < ranges[Len(ranges)].smallest -> NewlyAcked(ranges, Tail(pns), i, acked)
         [] pn > ranges[1].largest             -> [acked |-> acked, bug |-> FALSE]
         [] Len(ranges) = 1                    -> NewlyAcked(ranges, Tail(pns), i, acked \cup {pn})
         [] pn >= r.smallest /\ pn > r.largest -> [acked |-> acked, bug |-> TRUE]
         [] pn >= r.smallest                   -> NewlyAcked(ranges, Tail(pns), j, acked \cup {pn})
         [] OTHER                              -> NewlyAcked(ranges, Tail(pns), j, acked)

\* stopRetransmissionsFor: the packet and, transitively, its retransmissions
\* still in the history.
RECURSIVE StopRetransmissionsFor(_, _)
StopRetransmissionsFor(h, pn) ==
  {pn} \cup UNION {StopRetransmissionsFor(h, r) : r \in h[pn].retransmittedAs \cap DOMAIN h}

\* Mutant: a packet already queued for retransmission (a probe's parent)
\* is not taken out of bytesInFlight.
OnPacketAckedKeepsQueuedBytes(s, pn) ==
  IF s.err # "none" \/ pn \notin DOMAIN s.h THEN s
  ELSE
    LET p == s.h[pn]
        parent == p.retransmissionOf
        h1 == IF parent # Invalid /\ parent \in DOMAIN s.h
              THEN [s.h EXCEPT ![parent].retransmittedAs =
                      IF Cardinality(@) = 1 THEN {} ELSE @ \ {pn}]
              ELSE s.h
    IN IF p.retransmittedAs \ DOMAIN h1 # {}
       THEN [s EXCEPT !.err = "RetransmissionNotFound"]
       ELSE [h |-> RemovePacket(MarkCannotBeRetransmitted(h1, StopRetransmissionsFor(h1, pn)), pn),
             bif |-> IF p.canBeRetransmitted THEN s.bif - 1 ELSE s.bif,
             err |-> "none"]

\* Mutant: the parent keeps the acked retransmission in retransmittedAs.
OnPacketAckedKeepsParentLink(s, pn) ==
  IF s.err # "none" \/ pn \notin DOMAIN s.h THEN s
  ELSE
    LET p == s.h[pn]
        h1 == s.h
    IN IF p.retransmittedAs \ DOMAIN h1 # {}
       THEN [s EXCEPT !.err = "RetransmissionNotFound"]
       ELSE [h |-> RemovePacket(MarkCannotBeRetransmitted(h1, StopRetransmissionsFor(h1, pn)), pn),
             bif |-> s.bif - 1,
             err |-> "none"]

\* onPacketAcked, on s = [h |-> history, bif |-> bytes in flight, err |-> error].
OnPacketAcked(s, pn) ==
  IF s.err # "none" \/ pn \notin DOMAIN s.h THEN s
  ELSE
    LET p == s.h[pn]
        parent == p.retransmissionOf
        h1 == IF parent # Invalid /\ parent \in DOMAIN s.h
              THEN [s.h EXCEPT ![parent].retransmittedAs =
                      IF Cardinality(@) = 1 THEN {} ELSE @ \ {pn}]
              ELSE s.h
    IN IF p.retransmittedAs \ DOMAIN h1 # {}
       THEN [s EXCEPT !.err = "RetransmissionNotFound"]
       ELSE [h |-> RemovePacket(MarkCannotBeRetransmitted(h1, StopRetransmissionsFor(h1, pn)), pn),
             bif |-> s.bif - 1,
             err |-> "none"]

\* Mutant: packets above the largest acked are declared lost too.
LostPacketsAboveLargestAcked(h, la, t) == {pn \in DOMAIN h : t - h[pn].sendTime > LossDelay}

\* The packets detectLostPackets declares lost at time t.
LostPackets(h, la, t) == {pn \in DOMAIN h : pn <= la /\ t - h[pn].sendTime > LossDelay}

\* The loss time detectLostPackets sets for the 1-RTT space: the deadline of
\* the first packet at or below the largest acked that is not yet lost.
LossTimeAfter(h, la, t) ==
  LET waiting == {pn \in DOMAIN h : pn <= la} \ LostPackets(h, la, t)
  IN IF waiting = {} THEN NoTime ELSE h[Min(waiting)].sendTime + LossDelay

\* Queue entries <<l, pn>> for the packet numbers S, in ascending order.
Tagged(l, S) == LET s == Ascending(S) IN [i \in DOMAIN s |-> <<l, s[i]>>]

\* Mutant: DropPackets leaves the retransmission queue as it is.
WithoutLevelsKeepingQueue(q, L) == q

\* DropPackets: the queue without the packets of the dropped levels.
WithoutLevels(q, L) == SelectSeq(q, LAMBDA e : e[1] \notin L)

\* DropPackets: the histories of the dropped levels go (the Initial or
\* Handshake space is set to nil; any other level panics, and only the
\* crypto levels are ever dropped).
DropSpaces(h, L) == [d \in Levels |-> IF d \in L THEN <<>> ELSE h[d]]

-----------------------------------------------------------------------------
Init ==
  /\ history = [l \in Levels |-> <<>>]
  /\ dropped = {}
  /\ nextPN = [l \in Levels |-> 0]
  /\ skipped = [l \in Levels |-> {}]
  /\ largestSent = [l \in Levels |-> Invalid]
  /\ largestAcked = [l \in Levels |-> Invalid]
  /\ retransmissionQueue = <<>>
  /\ bytesInFlight = 0
  /\ lastSentCryptoPacketTime = NoTime
  /\ lastSentAckElicitingPacketTime = NoTime
  /\ cryptoCount = 0
  /\ ptoCount = 0
  /\ numProbesToSend = 0
  /\ lossTime = NoTime
  /\ alarm = NoTime
  /\ writeLevel = Initial
  /\ retried = FALSE
  /\ now = 0
  /\ closed = FALSE
  /\ err = "none"
  /\ lostNotReported = {}
  /\ sent = [l \in Levels |-> {}]
  /\ lowestNotConfirmedAcked = 0

-----------------------------------------------------------------------------
(* Sending: the session loop asks SendMode, then sends a packet and calls   *)
(* SentPacket or SentPacketsAsRetransmission (sentPacketImpl, the history   *)
(* update and updateLossDetectionAlarm).                                    *)

timerVars == <<cryptoCount, ptoCount, lossTime>>
sessionVars == <<writeLevel, retried, now>>

\* The connection closes with error e; nothing else changes.
Fail(e) ==
  /\ closed' = TRUE
  /\ err' = e
  /\ UNCHANGED <<history, dropped, nextPN, skipped, largestSent, largestAcked,
                 retransmissionQueue, bytesInFlight, lastSentCryptoPacketTime,
                 lastSentAckElicitingPacketTime, numProbesToSend, alarm,
                 timerVars, sessionVars, lostNotReported, sent, lowestNotConfirmedAcked>>

\* PopPacketNumber: the generator hands out its next number, possibly after
\* skipping one.
PopPacketNumber(l, pn) ==
  /\ pn \in IF SkipPacketNumbers THEN {nextPN[l], nextPN[l] + 1} ELSE {nextPN[l]}
  /\ pn <= MaxPacketNumber
  /\ nextPN' = [nextPN EXCEPT ![l] = pn + 1]
  /\ skipped' = [skipped EXCEPT ![l] = @ \cup (nextPN[l] .. pn - 1)]
  /\ sent' = [sent EXCEPT ![l] = @ \cup {pn}]

CanWriteAt(l) == l \notin dropped /\ LevelRank[l] <= LevelRank[writeLevel]

\* sentPacketImpl of an ack-eliciting packet pn of level l, the history of l
\* becoming h, then updateLossDetectionAlarm.
\* Mutant: sending leaves the alarm as it was.
SentAckElicitingNoAlarm(l, pn, h) ==
  /\ largestSent' = [largestSent EXCEPT ![l] = pn]
  /\ history' = [history EXCEPT ![l] = h]
  /\ bytesInFlight' = bytesInFlight + 1
  /\ lastSentCryptoPacketTime' = IF l # OneRTT THEN now ELSE lastSentCryptoPacketTime
  /\ lastSentAckElicitingPacketTime' = now
  /\ numProbesToSend' = IF numProbesToSend > 0 THEN numProbesToSend - 1 ELSE 0
  /\ alarm' = alarm

\* Mutant: the probe count is decremented without the > 0 guard.
SentAckElicitingUnguardedProbes(l, pn, h) ==
  /\ largestSent' = [largestSent EXCEPT ![l] = pn]
  /\ history' = [history EXCEPT ![l] = h]
  /\ bytesInFlight' = bytesInFlight + 1
  /\ lastSentCryptoPacketTime' = IF l # OneRTT THEN now ELSE lastSentCryptoPacketTime
  /\ lastSentAckElicitingPacketTime' = now
  /\ numProbesToSend' = numProbesToSend - 1
  /\ alarm' = AlarmFor(history', dropped, lossTime, cryptoCount, ptoCount,
                       lastSentCryptoPacketTime', lastSentAckElicitingPacketTime')

SentAckEliciting(l, pn, h) ==
  /\ largestSent' = [largestSent EXCEPT ![l] = pn]
  /\ history' = [history EXCEPT ![l] = h]
  /\ bytesInFlight' = bytesInFlight + 1
  /\ lastSentCryptoPacketTime' = IF l # OneRTT THEN now ELSE lastSentCryptoPacketTime
  /\ lastSentAckElicitingPacketTime' = now
  /\ numProbesToSend' = IF numProbesToSend > 0 THEN numProbesToSend - 1 ELSE 0
  /\ alarm' = AlarmFor(history', dropped, lossTime, cryptoCount, ptoCount,
                       lastSentCryptoPacketTime', lastSentAckElicitingPacketTime')

\* SendAny: a new ack-eliciting packet (SentPacket).
SendNewPacket(l) ==
  /\ ~closed /\ SendMode = "SendAny" /\ CanWriteAt(l)
  /\ \E pn \in PN, carried \in CarriedAcks \cup {Invalid} :
       /\ PopPacketNumber(l, pn)
       /\ SentAckEliciting(l, pn, history[l] @@ (pn :> NewPacket(carried)))
  /\ UNCHANGED <<dropped, largestAcked, retransmissionQueue, timerVars,
                 sessionVars, closed, err, lostNotReported, lowestNotConfirmedAcked>>

\* SendAck (or SendAny): a packet carrying only an ACK (SentPacket of a
\* packet that is not ack-eliciting: it is not stored in the history).
SendAckOnlyPacket(l) ==
  /\ ~closed /\ SendMode \in {"SendAck", "SendAny"} /\ CanWriteAt(l)
  /\ \E pn \in PN :
       /\ PopPacketNumber(l, pn)
       /\ largestSent' = [largestSent EXCEPT ![l] = pn]
  /\ UNCHANGED <<history, dropped, largestAcked, retransmissionQueue,
                 bytesInFlight, lastSentCryptoPacketTime,
                 lastSentAckElicitingPacketTime, numProbesToSend, alarm,
                 timerVars, sessionVars, closed, err, lostNotReported, lowestNotConfirmedAcked>>

\* The frames of packet <<l, of>> sent in a new packet of level l
\* (SentPacketsAsRetransmission), h being the history of l beforehand and q
\* the retransmission queue after the dequeue.
SendRetransmissionOf(l, of, h, q) ==
  /\ \E pn \in PN :
       /\ PopPacketNumber(l, pn)
       /\ SentAckEliciting(l, pn, AddRetransmission(h, pn, of))
  /\ retransmissionQueue' = q
  /\ UNCHANGED <<dropped, largestAcked, timerVars, sessionVars, closed, err,
                 lostNotReported, lowestNotConfirmedAcked>>

\* SendRetransmission: DequeuePacketForRetransmission, then resend.
SendRetransmission ==
  /\ ~closed /\ SendMode = "SendRetransmission"
  /\ LET e == Head(retransmissionQueue)
     IN SendRetransmissionOf(e[1], e[2], history[e[1]], Tail(retransmissionQueue))

\* SendPTO: DequeueProbePacket, then resend. With an empty queue the first
\* outstanding 1-RTT packet is queued (queuePacketForRetransmission) first.
SendProbePacket ==
  /\ ~closed /\ SendMode = "SendPTO"
  /\ IF retransmissionQueue # <<>>
     THEN LET e == Head(retransmissionQueue)
          IN SendRetransmissionOf(e[1], e[2], history[e[1]], Tail(retransmissionQueue))
     ELSE LET out == OutstandingIn(history[OneRTT])
          IN IF out = {}
             THEN Fail("NoOutstandingForProbe")
             ELSE SendRetransmissionOf(OneRTT, Min(out),
                    MarkCannotBeRetransmitted(history[OneRTT], {Min(out)}), <<>>)

-----------------------------------------------------------------------------
(* Receiving an ACK: the session's handleAckFrame calls ReceivedAck and,    *)
(* for a 1-RTT ACK, the crypto setup's Received1RTTAck, which drops the     *)
(* Initial and Handshake spaces (DropPackets).                              *)

\* The ACK frames the peer can send for level l: the packet numbers they
\* report.
AckableSets(l) ==
  (SUBSET (IF HonestPeer THEN sent[l] ELSE PN)) \ {{}}

\* ReceivedAck raises lowestNotConfirmedAcked past the ACK frames carried
\* by the newly acked 1-RTT packets.
LowestNotConfirmedAfter(acked) ==
  LET carried == {history[OneRTT][pn].largestAcked + 1 :
                    pn \in {x \in acked : history[OneRTT][x].largestAcked # Invalid}}
  IN IF carried = {} THEN lowestNotConfirmedAcked
     ELSE Max(carried \cup {lowestNotConfirmedAcked})

HandleAckFrame(l, acked) ==
  LET ranges == AckRangesOf(acked)
      la == ranges[1].largest
      newLargestAcked == IF la > largestAcked[l] THEN la ELSE largestAcked[l]
      det == NewlyAcked(ranges, Ascending(DOMAIN history[l]), 0, {})
      res == FoldLeft(OnPacketAcked,
                      [h |-> history[l], bif |-> bytesInFlight, err |-> "none"],
                      Ascending(det.acked))
      lost == LostPackets(res.h, newLargestAcked, now)
      lossTimeAfter == IF l = OneRTT THEN LossTimeAfter(res.h, newLargestAcked, now)
                                     ELSE lossTime
      hist == [history EXCEPT ![l] = [x \in DOMAIN res.h \ lost |-> res.h[x]]]
      queue == retransmissionQueue
                 \o Tagged(l, {pn \in lost : res.h[pn].canBeRetransmitted})
      toDrop == IF l = OneRTT THEN CryptoLevels \ dropped ELSE {}
      ackErr == CASE la > largestSent[l]        -> "ProtocolViolation"
                  [] acked \cap skipped[l] # {} -> "SkippedPacketAcked"
                  [] det.bug                    -> "WrongPacketAcked"
                  [] OTHER                      -> res.err
  IN
  /\ ~closed /\ l \notin dropped
  /\ IF ackErr # "none" THEN Fail(ackErr)
     ELSE
     /\ largestAcked' = [largestAcked EXCEPT ![l] = newLargestAcked]
     /\ dropped' = dropped \cup toDrop
     /\ IF det.acked = {}
        THEN \* nothing newly acked: ReceivedAck returns early
             /\ history' = DropSpaces(history, toDrop)
             /\ bytesInFlight' = bytesInFlight - InHistories(history, toDrop)
             /\ retransmissionQueue' = WithoutLevels(retransmissionQueue, toDrop)
             /\ UNCHANGED <<timerVars, numProbesToSend, alarm, lostNotReported,
                            lowestNotConfirmedAcked>>
        ELSE
             /\ history' = DropSpaces(hist, toDrop)
             /\ bytesInFlight' = res.bif - Cardinality(lost) - InHistories(history, toDrop)
             /\ retransmissionQueue' = WithoutLevels(queue, toDrop)
             /\ lossTime' = lossTimeAfter
             /\ cryptoCount' = 0
             /\ ptoCount' = 0
             /\ numProbesToSend' = 0
             \* the alarm is updated by ReceivedAck, before the spaces are dropped
             /\ alarm' = AlarmFor(hist, dropped, lossTimeAfter, 0, 0,
                                  lastSentCryptoPacketTime, lastSentAckElicitingPacketTime)
             \* the congestion event is passed no lost packets
             /\ lostNotReported' = lostNotReported \cup {<<l, pn>> : pn \in lost}
             /\ lowestNotConfirmedAcked' =
                  IF l = OneRTT THEN LowestNotConfirmedAfter(det.acked) ELSE lowestNotConfirmedAcked
     /\ UNCHANGED <<nextPN, skipped, largestSent, lastSentCryptoPacketTime,
                    lastSentAckElicitingPacketTime, sessionVars, closed, err, sent>>

ReceiveAck ==
  \E l \in Levels : LevelRank[l] <= LevelRank[writeLevel] /\ \E acked \in AckableSets(l) : HandleAckFrame(l, acked)

-----------------------------------------------------------------------------
(* The loss-detection alarm: the session calls OnAlarm once the alarm has   *)
(* expired; onVerifiedAlarm acts in crypto, loss-time or PTO mode.          *)

AlarmExpired == ~closed /\ alarm # NoTime /\ now >= alarm

\* Nothing is outstanding: OnAlarm only re-arms the alarm.
OnAlarmNothingOutstanding ==
  /\ AlarmExpired /\ ~HasOutstanding(history, dropped)
  /\ alarm' = LossDetectionAlarm
  /\ UNCHANGED <<history, dropped, nextPN, skipped, largestSent, largestAcked,
                 retransmissionQueue, bytesInFlight, lastSentCryptoPacketTime,
                 lastSentAckElicitingPacketTime, numProbesToSend, timerVars,
                 sessionVars, closed, err, lostNotReported, sent, lowestNotConfirmedAcked>>

\* Mutant: queueAllPacketsForRetransmission without its canBeRetransmitted
\* filter queues every packet of the crypto histories.
OnAlarmCryptoQueueingAll ==
  /\ AlarmExpired /\ HasOutstandingCrypto(history, dropped)
  /\ IF dropped \cap CryptoLevels # {} THEN Fail("SpaceDropped")
     ELSE
     /\ cryptoCount' = cryptoCount + 1
     /\ retransmissionQueue' = retransmissionQueue
                                 \o Tagged(Initial, DOMAIN history[Initial])
                                 \o Tagged(Handshake, DOMAIN history[Handshake])
     /\ history' = [l \in Levels |-> IF l \in CryptoLevels
                                     THEN MarkCannotBeRetransmitted(history[l], DOMAIN history[l])
                                     ELSE history[l]]
     /\ alarm' = AlarmFor(history', dropped, lossTime, cryptoCount', ptoCount,
                          lastSentCryptoPacketTime, lastSentAckElicitingPacketTime)
     /\ UNCHANGED <<dropped, nextPN, skipped, largestSent, largestAcked,
                    bytesInFlight, lastSentCryptoPacketTime,
                    lastSentAckElicitingPacketTime, numProbesToSend, ptoCount,
                    lossTime, sessionVars, closed, err, lostNotReported, sent, lowestNotConfirmedAcked>>

\* Crypto mode: queueCryptoPacketsForRetransmission queues every
\* retransmittable Initial, then Handshake, packet; both spaces must exist.
OnAlarmCrypto ==
  /\ AlarmExpired /\ HasOutstandingCrypto(history, dropped)
  /\ IF dropped \cap CryptoLevels # {} THEN Fail("SpaceDropped")
     ELSE
     /\ cryptoCount' = cryptoCount + 1
     /\ retransmissionQueue' = retransmissionQueue
                                 \o Tagged(Initial, OutstandingIn(history[Initial]))
                                 \o Tagged(Handshake, OutstandingIn(history[Handshake]))
     /\ history' = [l \in Levels |-> IF l \in CryptoLevels
                                     THEN MarkCannotBeRetransmitted(history[l], OutstandingIn(history[l]))
                                     ELSE history[l]]
     /\ alarm' = AlarmFor(history', dropped, lossTime, cryptoCount', ptoCount,
                          lastSentCryptoPacketTime, lastSentAckElicitingPacketTime)
     /\ UNCHANGED <<dropped, nextPN, skipped, largestSent, largestAcked,
                    bytesInFlight, lastSentCryptoPacketTime,
                    lastSentAckElicitingPacketTime, numProbesToSend, ptoCount,
                    lossTime, sessionVars, closed, err, lostNotReported, sent, lowestNotConfirmedAcked>>

\* Loss-time mode: detectLostPackets on the 1-RTT space; the losses are
\* passed to the congestion event.
OnAlarmLossTime ==
  /\ AlarmExpired /\ HasOutstanding(history, dropped)
  /\ ~HasOutstandingCrypto(history, dropped) /\ lossTime # NoTime
  /\ LET h == history[OneRTT]
         lost == LostPackets(h, largestAcked[OneRTT], now)
     IN /\ history' = [history EXCEPT ![OneRTT] = [x \in DOMAIN h \ lost |-> h[x]]]
        /\ bytesInFlight' = bytesInFlight - Cardinality(lost)
        /\ retransmissionQueue' = retransmissionQueue
                                    \o Tagged(OneRTT, {pn \in lost : h[pn].canBeRetransmitted})
        /\ lossTime' = LossTimeAfter(h, largestAcked[OneRTT], now)
  /\ alarm' = AlarmFor(history', dropped, lossTime', cryptoCount, ptoCount,
                       lastSentCryptoPacketTime, lastSentAckElicitingPacketTime)
  /\ UNCHANGED <<dropped, nextPN, skipped, largestSent, largestAcked,
                 lastSentCryptoPacketTime, lastSentAckElicitingPacketTime,
                 numProbesToSend, cryptoCount, ptoCount, sessionVars, closed,
                 err, lostNotReported, sent, lowestNotConfirmedAcked>>

\* PTO mode: two probe packets are to be sent.
OnAlarmPTO ==
  /\ AlarmExpired /\ HasOutstanding(history, dropped)
  /\ ~HasOutstandingCrypto(history, dropped) /\ lossTime = NoTime
  /\ ptoCount' = ptoCount + 1
  /\ numProbesToSend' = numProbesToSend + 2
  /\ alarm' = AlarmFor(history, dropped, lossTime, cryptoCount, ptoCount',
                       lastSentCryptoPacketTime, lastSentAckElicitingPacketTime)
  /\ UNCHANGED <<history, dropped, nextPN, skipped, largestSent, largestAcked,
                 retransmissionQueue, bytesInFlight, lastSentCryptoPacketTime,
                 lastSentAckElicitingPacketTime, cryptoCount, lossTime,
                 sessionVars, closed, err, lostNotReported, sent, lowestNotConfirmedAcked>>

-----------------------------------------------------------------------------
(* The rest of the session.                                                 *)

\* Mutant: ResetForRetry queues the Initial packets without the
\* canBeRetransmitted filter.
ResetForRetryQueueingAll ==
  /\ ~closed /\ ~retried /\ writeLevel = Initial
  /\ retried' = TRUE
  /\ cryptoCount' = 0
  /\ bytesInFlight' = 0
  /\ retransmissionQueue' = retransmissionQueue
                              \o Tagged(Initial, DOMAIN history[Initial])
  /\ history' = [history EXCEPT ![Initial] = <<>>]
  /\ skipped' = [skipped EXCEPT ![Initial] = {}]
  /\ largestSent' = [largestSent EXCEPT ![Initial] = Invalid]
  /\ largestAcked' = [largestAcked EXCEPT ![Initial] = Invalid]
  /\ sent' = [sent EXCEPT ![Initial] = {}]
  /\ alarm' = AlarmFor(history', dropped, lossTime, 0, ptoCount,
                       lastSentCryptoPacketTime, lastSentAckElicitingPacketTime)
  /\ UNCHANGED <<dropped, nextPN, lastSentCryptoPacketTime,
                 lastSentAckElicitingPacketTime, numProbesToSend, ptoCount,
                 lossTime, writeLevel, now, closed, err, lostNotReported, lowestNotConfirmedAcked>>

\* A Retry: ResetForRetry requeues the retransmittable Initial packets and
\* starts a new Initial space whose generator continues where the old one
\* stopped. The client accepts one Retry, before it has Handshake keys.
ResetForRetry ==
  /\ ~closed /\ ~retried /\ writeLevel = Initial
  /\ retried' = TRUE
  /\ cryptoCount' = 0
  /\ bytesInFlight' = 0
  /\ retransmissionQueue' = retransmissionQueue
                              \o Tagged(Initial, OutstandingIn(history[Initial]))
  /\ history' = [history EXCEPT ![Initial] = <<>>]
  /\ skipped' = [skipped EXCEPT ![Initial] = {}]
  /\ largestSent' = [largestSent EXCEPT ![Initial] = Invalid]
  /\ largestAcked' = [largestAcked EXCEPT ![Initial] = Invalid]
  /\ sent' = [sent EXCEPT ![Initial] = {}]
  /\ alarm' = AlarmFor(history', dropped, lossTime, 0, ptoCount,
                       lastSentCryptoPacketTime, lastSentAckElicitingPacketTime)
  /\ UNCHANGED <<dropped, nextPN, lastSentCryptoPacketTime,
                 lastSentAckElicitingPacketTime, numProbesToSend, ptoCount,
                 lossTime, writeLevel, now, closed, err, lostNotReported, lowestNotConfirmedAcked>>

\* The crypto setup installs the next write key (SetWriteKey).
InstallWriteKey ==
  /\ ~closed /\ writeLevel # OneRTT
  /\ writeLevel' = IF writeLevel = Initial THEN Handshake ELSE OneRTT
  /\ UNCHANGED <<history, dropped, nextPN, skipped, largestSent, largestAcked,
                 retransmissionQueue, bytesInFlight, lastSentCryptoPacketTime,
                 lastSentAckElicitingPacketTime, numProbesToSend, alarm,
                 timerVars, retried, now, closed, err, lostNotReported, sent, lowestNotConfirmedAcked>>

Tick ==
  /\ ~closed /\ now < MaxTime
  /\ now' = now + 1
  /\ UNCHANGED <<history, dropped, nextPN, skipped, largestSent, largestAcked,
                 retransmissionQueue, bytesInFlight, lastSentCryptoPacketTime,
                 lastSentAckElicitingPacketTime, numProbesToSend, alarm,
                 timerVars, writeLevel, retried, closed, err, lostNotReported, sent, lowestNotConfirmedAcked>>

\* The idle timeout or the application closes the connection.
Close ==
  /\ ~closed
  /\ closed' = TRUE
  /\ UNCHANGED <<history, dropped, nextPN, skipped, largestSent, largestAcked,
                 retransmissionQueue, bytesInFlight, lastSentCryptoPacketTime,
                 lastSentAckElicitingPacketTime, numProbesToSend, alarm,
                 timerVars, sessionVars, err, lostNotReported, sent, lowestNotConfirmedAcked>>

Closed == closed /\ UNCHANGED vars

Next ==
  \/ \E l \in Levels : SendNewPacket(l) \/ SendAckOnlyPacket(l)
  \/ SendRetransmission
  \/ SendProbePacket
  \/ ReceiveAck
  \/ OnAlarmNothingOutstanding
  \/ OnAlarmCrypto
  \/ OnAlarmLossTime
  \/ OnAlarmPTO
  \/ ResetForRetry
  \/ InstallWriteKey
  \/ Tick
  \/ Close
  \/ Closed

Spec == Init /\ [][Next]_vars

-----------------------------------------------------------------------------
(* Properties.                                                              *)

TypeOK ==
  /\ \A l \in Levels : history[l] \in [DOMAIN history[l] -> Packet] /\ DOMAIN history[l] \subseteq PN
  /\ dropped \subseteq CryptoLevels
  /\ nextPN \in [Levels -> 0 .. MaxPacketNumber + 2]
  /\ largestSent \in [Levels -> PN \cup {Invalid}]
  /\ largestAcked \in [Levels -> PN \cup {Invalid}]
  /\ retransmissionQueue \in Seq(Levels \X PN)
  /\ bytesInFlight \in Int
  /\ numProbesToSend \in Nat
  /\ lossTime \in Int /\ alarm \in Int
  /\ err \in Errors \cup {"none"}
  /\ lowestNotConfirmedAcked \in Nat

\* Bytes in flight (maintained by sentPacketImpl, onPacketAcked,
\* detectLostPackets, DropPackets and ResetForRetry) always equal the bytes
\* of the packets in the histories of the live spaces.
BytesInFlightMatchesHistory ==
  bytesInFlight = InHistories(history, Levels \ dropped)

\* Every retransmission a packet in the history lists is still in the
\* history and names that packet as its parent: stopRetransmissionsFor can
\* always find them.
RetransmissionLinksIntact ==
  \A l \in Levels \ dropped : \A p \in DOMAIN history[l] :
    \A r \in history[l][p].retransmittedAs :
      r \in DOMAIN history[l] /\ history[l][r].retransmissionOf = p

\* A packet is queued for retransmission at most once: a queued packet
\* still in its history cannot be queued again and has no retransmission
\* in flight (the crypto alarm, loss detection, probes and ResetForRetry
\* all queue only packets that can be retransmitted).
QueuedAtMostOnce ==
  /\ \A i, j \in DOMAIN retransmissionQueue :
       i # j => retransmissionQueue[i] # retransmissionQueue[j]
  /\ \A i \in DOMAIN retransmissionQueue :
       LET l == retransmissionQueue[i][1]
           pn == retransmissionQueue[i][2]
       IN l \notin dropped /\ pn \in DOMAIN history[l] =>
            /\ ~history[l][pn].canBeRetransmitted
            /\ history[l][pn].retransmittedAs = {}

\* With an honest peer the handler never fails: no internal BUG error of
\* stopRetransmissionsFor or determineNewlyAckedPackets, no probe without an
\* outstanding packet, no crypto retransmission of a dropped space.
NoHandlerError == err = "none"

\* Whatever ACKs the peer sends, the handler fails only with the errors an
\* ACK can cause: never with an internal BUG error of
\* stopRetransmissionsFor, never with a probe that finds nothing
\* outstanding, never with a crypto retransmission of a dropped space.
NoInternalError ==
  err \in {"none", "ProtocolViolation", "SkippedPacketAcked", "WrongPacketAcked"}

\* While packets are outstanding the loss-detection alarm is armed, so that
\* a lost tail is retransmitted.
AlarmArmedWhileOutstanding ==
  ~closed /\ HasOutstanding(history, dropped) => alarm # NoTime

\* Every packet declared lost is passed to the congestion controller in a
\* congestion event (spec 4.F).
LossesReportedToCongestionControl == lostNotReported = {}

\* SendMode's SendNone (the retransmission queue and the histories hold
\* MaxTrackedSentPackets packets; not even an ACK is sent) can always be
\* left: the queue alone stays below the limit, whatever the crypto alarm,
\* probes, loss detection and ResetForRetry queue, so ACKs of the packets
\* in the histories (which the peer can always send) bring SendMode back.
SendNoneRecoverable == Len(retransmissionQueue) < MaxTrackedSentPackets

\* The retransmission queue never holds a packet of a level whose keys
\* Received1RTTAck dropped: DequeuePacketForRetransmission would hand it to
\* the packer, and GetSealerWithEncryptionLevel answers a dropped Initial
\* level with a nil sealer and no error (crypto_setup.go:588). Loss
\* detection, the crypto alarm, probes and ResetForRetry queue packets;
\* DropPackets, called in the same Received1RTTAck, must purge them all.
QueueHoldsNoDroppedLevel ==
  \A i \in DOMAIN retransmissionQueue : retransmissionQueue[i][1] \notin dropped

\* OnAlarm enters PTO mode (ptoCount grows, probes are owed) only once the
\* PTO deadline of spec 4.E, last ack-eliciting send + PTO << ptoCount, has
\* passed.
PTOOnlyAfterTimeout ==
  [][ptoCount' > ptoCount =>
       now >= lastSentAckElicitingPacketTime + PTOTimeout * 2^ptoCount]_vars


\* The loss-recovery state of the handler: the packets of each history in
\* flight, a packet covered once it can no longer be retransmitted, and
\* the retransmission queue.
LR == INSTANCE LossRecovery
        WITH flight <- [l \in Levels |->
                          [pn \in DOMAIN history[l] |->
                             [retxOf |-> history[l][pn].retransmissionOf,
                              covered |-> ~history[l][pn].canBeRetransmitted]]],
             queue <- retransmissionQueue

\* The handler implements loss recovery (LossRecovery): sending, ACK
\* processing with determineNewlyAckedPackets and detectLostPackets, the
\* crypto and loss-time alarms, probes, DropPackets and ResetForRetry never
\* lose a packet's data, never declare a packet above the largest acked
\* lost, and never queue data twice.
ImplementsLossRecovery == LR!Spec
=============================================================================
