---------------------------- MODULE StreamQueue ----------------------------
(***************************************************************************)
(* What the incoming streams map promises, without its mutex, condition    *)
(* variable, deferred deletions or MAX_STREAMS bookkeeping:                *)
(*   - the peer opens streams 1, 2, ... in order, never more than          *)
(*     MaxNumStreams beyond the streams the application has accepted and   *)
(*     the session has deleted (the flow-control credit of the stream      *)
(*     count);                                                             *)
(*   - the application accepts the opened streams in order, each once;     *)
(*   - the session deletes any opened stream once, accepted or not;        *)
(*   - after the map is closed nothing more happens.                       *)
(***************************************************************************)
EXTENDS Naturals, FiniteSets

CONSTANTS MaxNumStreams, MaxStreamNum

VARIABLES
  opened,    \* streams 1..opened are open
  accepted,  \* streams 1..accepted were handed to the application
  deleted,   \* the streams the session has deleted
  closed

qvars == <<opened, accepted, deleted, closed>>

\* The largest stream number the peer may open: a slot comes free when a
\* stream is both accepted and deleted.
Credit == MaxNumStreams + Cardinality({s \in deleted : s <= accepted})

Init ==
  /\ opened = 0
  /\ accepted = 0
  /\ deleted = {}
  /\ closed = FALSE

\* The peer opens every stream up to n.
Open ==
  /\ UNCHANGED <<accepted, deleted, closed>>
  /\ ~closed
  /\ \E n \in (opened + 1) .. MaxStreamNum : n <= Credit /\ opened' = n

\* The application takes the next stream.
Accept ==
  /\ UNCHANGED <<opened, deleted, closed>>
  /\ ~closed /\ accepted < opened
  /\ accepted' = accepted + 1

\* The session is done with an open stream.
Delete ==
  /\ UNCHANGED <<opened, accepted, closed>>
  /\ ~closed
  /\ \E s \in (1 .. opened) \ deleted : deleted' = deleted \cup {s}

Close ==
  /\ UNCHANGED <<opened, accepted, deleted>>
  /\ ~closed /\ closed' = TRUE

Next == Open \/ Accept \/ Delete \/ Close

Spec == Init /\ [][Next]_qvars
=============================================================================
