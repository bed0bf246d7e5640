------------------------- MODULE IncomingStreamsMap -------------------------
(***************************************************************************)
(* incomingItemsMap (src/streams_map_incoming_generic.go): the streams the *)
(* peer opens, handed to the application by AcceptStream.  The session     *)
(* goroutine is the only caller of GetOrOpenStream, DeleteStream and       *)
(* CloseWithError; any number of application goroutines call AcceptStream *)
(* and block in cond.Wait.  Every action runs with the mutex held; the     *)
(* mutex is released between the RLock and the Lock part of                *)
(* GetOrOpenStream, inside cond.Wait, and before CloseWithError's          *)
(* Broadcast.  A stream is its number: the items themselves are abstract.  *)
(***************************************************************************)
EXTENDS Naturals, Sequences, FiniteSets

CONSTANTS
  Acceptors,      \* the application goroutines that call AcceptStream
  MaxNumStreams,  \* maxNumStreams: how many streams the peer may have open
  MaxStreamNum,   \* the largest stream number the peer uses
  HonestPeer      \* whether the peer opens only streams up to maxStream

ASSUME MaxNumStreams \in Nat \ {0} /\ MaxStreamNum \in Nat /\ HonestPeer \in BOOLEAN

VARIABLES
  streams,             \* the keys of m.streams
  streamsToDelete,
  nextStreamToAccept,
  nextStreamToOpen,
  maxStream,
  closeErr,            \* whether CloseWithError has set m.closeErr
  notifyList,          \* the goroutines in cond.Wait, oldest first
  pc,                  \* pc[a]: "idle", "waiting" (in cond.Wait), "woken" (relocking)
  session,             \* the session goroutine: [op: "idle" | "opening" | "broadcast", num]
  streamErr            \* the stream error the last call returned, or "none"

vars == <<streams, streamsToDelete, nextStreamToAccept, nextStreamToOpen,
          maxStream, closeErr, notifyList, pc, session, streamErr>>

StreamNums == 1 .. MaxStreamNum

-----------------------------------------------------------------------------
\* newIncomingItemsMap.
Init ==
  /\ streams = {}
  /\ streamsToDelete = {}
  /\ nextStreamToAccept = 1
  /\ nextStreamToOpen = 1
  /\ maxStream = MaxNumStreams
  /\ closeErr = FALSE
  /\ notifyList = <<>>
  /\ pc = [a \in Acceptors |-> "idle"]
  /\ session = [op |-> "idle", num |-> 0]
  /\ streamErr = "none"

\* Mutant: the new limit is counted from the next stream to accept.
RemoveStreamFromAccepted(num) ==
  LET left == streams \ {num}
  IN /\ streams' = left
     /\ maxStream' = IF MaxNumStreams > Cardinality(left)
                     THEN nextStreamToAccept + (MaxNumStreams - Cardinality(left)) - 1
                     ELSE maxStream

\* Mutant: the new limit is one too high.
RemoveStreamOffByOne(num) ==
  LET left == streams \ {num}
  IN /\ streams' = left
     /\ maxStream' = IF MaxNumStreams > Cardinality(left)
                     THEN nextStreamToOpen + (MaxNumStreams - Cardinality(left))
                     ELSE maxStream

\* The removal at the end of deleteStream: the stream leaves the map and a
\* MAX_STREAMS frame raises the limit to keep MaxNumStreams streams open.
RemoveStream(num) ==
  LET left == streams \ {num}
  IN /\ streams' = left
     /\ maxStream' = IF MaxNumStreams > Cardinality(left)
                     THEN nextStreamToOpen + (MaxNumStreams - Cardinality(left)) - 1
                     ELSE maxStream

\* Mutant: a stream is removed at once, accepted or not.
DeleteStreamLockedAtOnce(num, toAccept, toDelete) ==
  IF num \notin streams
  THEN /\ streamErr' = "unknown stream"
       /\ UNCHANGED <<streams, streamsToDelete, maxStream>>
  ELSE /\ streamsToDelete' = toDelete
       /\ RemoveStream(num)
       /\ UNCHANGED streamErr

\* deleteStream, called with nextStreamToAccept = toAccept and
\* streamsToDelete = toDelete.
DeleteStreamLocked(num, toAccept, toDelete) ==
  CASE num \notin streams ->
         /\ streamErr' = "unknown stream"
         /\ UNCHANGED <<streams, streamsToDelete, maxStream>>
    [] num >= toAccept /\ num \in toDelete ->
         /\ streamErr' = "deleted multiple times"
         /\ UNCHANGED <<streams, streamsToDelete, maxStream>>
    [] num >= toAccept ->
         /\ streamsToDelete' = toDelete \cup {num}
         /\ UNCHANGED <<streams, maxStream, streamErr>>
    [] OTHER ->
         /\ streamsToDelete' = toDelete
         /\ RemoveStream(num)
         /\ UNCHANGED streamErr

-----------------------------------------------------------------------------
(* AcceptStream: one pass of its loop, on a new call (pc "idle") or after   *)
(* cond.Wait has returned and the mutex is held again (pc "woken").         *)

Running(a) == pc[a] \in {"idle", "woken"}

\* m.closeErr is set: AcceptStream returns it.
AcceptReturnsError(a) ==
  /\ Running(a) /\ closeErr
  /\ pc' = [pc EXCEPT ![a] = "idle"]
  /\ UNCHANGED <<streams, streamsToDelete, nextStreamToAccept, nextStreamToOpen,
                 maxStream, closeErr, notifyList, session, streamErr>>

\* Mutant: the stream is not taken out of streamsToDelete first.
AcceptReturnsStreamKeepsDeleteMark(a) ==
  LET num == nextStreamToAccept IN
  /\ Running(a) /\ ~closeErr /\ num \in streams
  /\ nextStreamToAccept' = num + 1
  /\ pc' = [pc EXCEPT ![a] = "idle"]
  /\ IF num \in streamsToDelete
     THEN DeleteStreamLocked(num, num + 1, streamsToDelete)
     ELSE UNCHANGED <<streams, streamsToDelete, maxStream, streamErr>>
  /\ UNCHANGED <<nextStreamToOpen, closeErr, notifyList, session>>

\* Mutant: nextStreamToAccept is incremented after the deferred deleteStream.
AcceptReturnsStreamLateIncrement(a) ==
  LET num == nextStreamToAccept IN
  /\ Running(a) /\ ~closeErr /\ num \in streams
  /\ nextStreamToAccept' = num + 1
  /\ pc' = [pc EXCEPT ![a] = "idle"]
  /\ IF num \in streamsToDelete
     THEN DeleteStreamLocked(num, num, streamsToDelete \ {num})
     ELSE UNCHANGED <<streams, streamsToDelete, maxStream, streamErr>>
  /\ UNCHANGED <<nextStreamToOpen, closeErr, notifyList, session>>

\* The next stream is in the map: it is returned, and deleted now if the
\* session deleted it before it was accepted.
AcceptReturnsStream(a) ==
  LET num == nextStreamToAccept IN
  /\ Running(a) /\ ~closeErr /\ num \in streams
  /\ nextStreamToAccept' = num + 1
  /\ pc' = [pc EXCEPT ![a] = "idle"]
  /\ IF num \in streamsToDelete
     THEN DeleteStreamLocked(num, num + 1, streamsToDelete \ {num})
     ELSE UNCHANGED <<streams, streamsToDelete, maxStream, streamErr>>
  /\ UNCHANGED <<nextStreamToOpen, closeErr, notifyList, session>>

\* The next stream is not open yet: cond.Wait releases the mutex.
AcceptWaits(a) ==
  /\ Running(a) /\ ~closeErr /\ nextStreamToAccept \notin streams
  /\ pc' = [pc EXCEPT ![a] = "waiting"]
  /\ notifyList' = Append(notifyList, a)
  /\ UNCHANGED <<streams, streamsToDelete, nextStreamToAccept, nextStreamToOpen,
                 maxStream, closeErr, session, streamErr>>

AcceptStep(a) == AcceptReturnsError(a) \/ AcceptReturnsStream(a) \/ AcceptWaits(a)

-----------------------------------------------------------------------------
(* The session goroutine.                                                   *)

SessionIdle == session.op = "idle" /\ ~closeErr /\ streamErr = "none"

\* GetOrOpenStream for a stream above maxStream: a stream error, after
\* which the session closes the connection.  (For a stream below
\* nextStreamToOpen it only reads the map: a stuttering step.)
GetOrOpenStreamAboveLimit(num) ==
  /\ SessionIdle /\ num > maxStream
  /\ streamErr' = "above limit"
  /\ UNCHANGED <<streams, streamsToDelete, nextStreamToAccept, nextStreamToOpen,
                 maxStream, closeErr, notifyList, pc, session>>

\* GetOrOpenStream for a new stream: the checks under RLock, then RUnlock.
GetOrOpenStream(num) ==
  /\ SessionIdle /\ nextStreamToOpen <= num /\ num <= maxStream
  /\ session' = [op |-> "opening", num |-> num]
  /\ UNCHANGED <<streams, streamsToDelete, nextStreamToAccept, nextStreamToOpen,
                 maxStream, closeErr, notifyList, pc, streamErr>>

\* Woken(k): the goroutines the first k cond.Signal calls wake.
Woken(k) == {notifyList[i] : i \in 1 .. (IF k < Len(notifyList) THEN k ELSE Len(notifyList))}

\* Mutant: cond.Signal is called once, not once per opened stream.
OpenNewStreamsSignalOnce ==
  LET new == nextStreamToOpen .. session.num IN
  /\ session.op = "opening"
  /\ streams' = streams \cup new
  /\ nextStreamToOpen' = session.num + 1
  /\ pc' = [a \in Acceptors |-> IF a \in Woken(1) THEN "woken" ELSE pc[a]]
  /\ notifyList' = SubSeq(notifyList, 2, Len(notifyList))
  /\ session' = [op |-> "idle", num |-> 0]
  /\ UNCHANGED <<streamsToDelete, nextStreamToAccept, maxStream, closeErr, streamErr>>

\* The Lock part of GetOrOpenStream: open every stream up to num and
\* cond.Signal once per opened stream.
OpenNewStreams ==
  LET new == nextStreamToOpen .. session.num
      k == Cardinality(new)
  IN
  /\ session.op = "opening"
  /\ streams' = streams \cup new
  /\ nextStreamToOpen' = session.num + 1
  /\ pc' = [a \in Acceptors |-> IF a \in Woken(k) THEN "woken" ELSE pc[a]]
  /\ notifyList' = SubSeq(notifyList, k + 1, Len(notifyList))
  /\ session' = [op |-> "idle", num |-> 0]
  /\ UNCHANGED <<streamsToDelete, nextStreamToAccept, maxStream, closeErr, streamErr>>

\* DeleteStream, when a stream the session knows has completed.
DeleteStream(num) ==
  /\ SessionIdle
  /\ DeleteStreamLocked(num, nextStreamToAccept, streamsToDelete)
  /\ UNCHANGED <<nextStreamToAccept, nextStreamToOpen, closeErr, notifyList, pc, session>>

\* CloseWithError: m.closeErr is set under the mutex ...
CloseWithError ==
  /\ session.op = "idle" /\ ~closeErr
  /\ closeErr' = TRUE
  /\ session' = [op |-> "broadcast", num |-> 0]
  /\ UNCHANGED <<streams, streamsToDelete, nextStreamToAccept, nextStreamToOpen,
                 maxStream, notifyList, pc, streamErr>>

\* Mutant: cond.Signal in place of cond.Broadcast wakes the oldest waiter only.
BroadcastSignalOnce ==
  /\ session.op = "broadcast"
  /\ pc' = IF notifyList = <<>> THEN pc ELSE [pc EXCEPT ![Head(notifyList)] = "woken"]
  /\ notifyList' = IF notifyList = <<>> THEN <<>> ELSE Tail(notifyList)
  /\ session' = [op |-> "idle", num |-> 0]
  /\ UNCHANGED <<streams, streamsToDelete, nextStreamToAccept, nextStreamToOpen,
                 maxStream, closeErr, streamErr>>

\* ... and cond.Broadcast wakes every waiting goroutine after Unlock.
Broadcast ==
  /\ session.op = "broadcast"
  /\ pc' = [a \in Acceptors |-> IF pc[a] = "waiting" THEN "woken" ELSE pc[a]]
  /\ notifyList' = <<>>
  /\ session' = [op |-> "idle", num |-> 0]
  /\ UNCHANGED <<streams, streamsToDelete, nextStreamToAccept, nextStreamToOpen,
                 maxStream, closeErr, streamErr>>

Next ==
  \/ \E a \in Acceptors : AcceptStep(a)
  \/ \E num \in StreamNums :
       \/ ~HonestPeer /\ GetOrOpenStreamAboveLimit(num)
       \/ GetOrOpenStream(num)
  \/ OpenNewStreams
  \/ \E num \in streams \ streamsToDelete : DeleteStream(num)
  \/ CloseWithError
  \/ Broadcast

\* The Go scheduler runs a goroutine that holds or can take the mutex; the
\* application and the peer need not call anything.
Fairness ==
  /\ \A a \in Acceptors : WF_vars(pc[a] = "woken" /\ AcceptStep(a))
  /\ WF_vars(OpenNewStreams)
  /\ WF_vars(Broadcast)

Spec == Init /\ [][Next]_vars /\ Fairness

-----------------------------------------------------------------------------
(* Properties.                                                              *)

TypeOK ==
  /\ streams \subseteq StreamNums /\ streamsToDelete \subseteq streams
  /\ nextStreamToAccept \in 1 .. MaxStreamNum + 1
  /\ nextStreamToOpen \in 1 .. MaxStreamNum + 1
  /\ maxStream \in Nat /\ closeErr \in BOOLEAN
  /\ notifyList \in Seq(Acceptors)
  /\ pc \in [Acceptors -> {"idle", "waiting", "woken"}]
  /\ session.op \in {"idle", "opening", "broadcast"}
  /\ streamErr \in {"none", "above limit", "unknown stream", "deleted multiple times"}

\* Every stream the peer opened stays in the map until AcceptStream has
\* returned it, even when the session deleted it first: deleteStream only
\* records it in streamsToDelete, so the application sees every stream.
UnacceptedStreamsKept ==
  \A num \in nextStreamToAccept .. nextStreamToOpen - 1 : num \in streams

\* A deletion deferred by deleteStream is carried out when AcceptStream
\* returns the stream: no accepted stream stays in streamsToDelete, where
\* it would keep a slot of the stream limit for ever.
NoDeferredDeleteLeaked ==
  \A num \in streamsToDelete : num >= nextStreamToAccept

\* However the peer, the session and the acceptors interleave, the peer
\* never has more than maxNumStreams streams in the map: every MAX_STREAMS
\* frame deleteStream queues grants exactly the slots that are free.
StreamLimitRespected == Cardinality(streams) <= MaxNumStreams

\* maxStream never decreases, as GetOrOpenStream assumes when it does not
\* check the limit again after re-locking (line 108).
MaxStreamNeverDecreases == [][maxStream' >= maxStream]_vars

\* When the next stream is in the map and an AcceptStream call is blocked
\* in cond.Wait, the stream is eventually accepted (or the map closed):
\* the Signal calls of GetOrOpenStream never leave a waiter asleep next to
\* a stream it could take.
WaitingAcceptorGetsStream ==
  \A num \in StreamNums :
    (/\ nextStreamToAccept = num /\ num \in streams
     /\ \E a \in Acceptors : pc[a] = "waiting")
      ~> (nextStreamToAccept > num \/ closeErr)

-----------------------------------------------------------------------------
(* The refinement. Stream n is open once nextStreamToOpen has passed it,    *)
(* accepted once nextStreamToAccept has, and deleted when deleteStream has  *)
(* run for it: it is then either in streamsToDelete (not yet accepted) or   *)
(* gone from the map.                                                       *)

SQ == INSTANCE StreamQueue WITH
        opened <- nextStreamToOpen - 1,
        accepted <- nextStreamToAccept - 1,
        deleted <- streamsToDelete \cup ((1 .. nextStreamToOpen - 1) \ streams),
        closed <- closeErr

\* The map implements StreamQueue: every step of the acceptors and of the
\* session, with the mutex released between the RLock and the Lock part of
\* GetOrOpenStream and inside cond.Wait, is a step of the abstract queue or
\* leaves it unchanged. In particular the MAX_STREAMS limit deleteStream
\* computes from nextStreamToOpen and len(m.streams) is never above the
\* credit of accepted-and-deleted streams, and a stream is never taken out
\* of the map before AcceptStream returned it.
ImplementsStreamQueue == SQ!Spec

\* Once CloseWithError has run, every AcceptStream call returns: the
\* Broadcast after Unlock (line 168) wakes all goroutines in cond.Wait, and
\* each one, relocking, finds closeErr and returns it. A goroutine left in
\* cond.Wait would never be woken again, as nothing opens streams after
\* the close.
CloseReleasesAcceptors ==
  closeErr ~> \A a \in Acceptors : pc[a] = "idle"

=============================================================================
