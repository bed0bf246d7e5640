---------------------------- MODULE LossRecovery ----------------------------
(***************************************************************************)
(* What loss recovery promises of a sent packet, whatever the timers and   *)
(* the congestion controller do. A packet of a packet-number space is in   *)
(* flight until it is acknowledged, declared lost, or its space is         *)
(* dropped. Its data is "covered" once something else carries it: it was   *)
(* queued for retransmission, or a retransmission of it was acknowledged.  *)
(*                                                                         *)
(*  - packet numbers of a space only grow;                                 *)
(*  - only packets at or below the largest acknowledged may be declared    *)
(*    lost, and only when an ACK or the loss timer says so;                *)
(*  - a packet leaving flight unacknowledged and uncovered is queued, in   *)
(*    packet-number order, so that its data is sent again; a covered one   *)
(*    is not queued twice;                                                 *)
(*  - an ACK covers the retransmissions of the packets it acknowledges;    *)
(*  - an ACK at the application level ends the handshake spaces.           *)
(***************************************************************************)
EXTENDS Integers, Sequences, SequencesExt

CONSTANTS Levels, CryptoLevels, Initial, OneRTT,
          LevelRank,  \* the order of the levels
          PN,         \* the packet numbers
          Invalid     \* no packet number

VARIABLES flight,        \* flight[l]: packet number -> [retxOf, covered]
          queue,         \* the data to send again: <<level, packet number>>
          nextPN,        \* the lowest packet number each space may still use
          largestAcked,
          dropped,       \* the spaces that were dropped
          closed

avars == <<flight, queue, nextPN, largestAcked, dropped, closed>>

Fresh(of) == [retxOf |-> of, covered |-> FALSE]

Uncovered(l) == {p \in DOMAIN flight[l] : ~flight[l][p].covered}

\* Queue entries for the pairs S: by level, then by packet number.
InOrder(S) ==
  SetToSortSeq(S, LAMBDA a, b : LevelRank[a[1]] < LevelRank[b[1]]
                                \/ (a[1] = b[1] /\ a[2] < b[2]))

\* The packets of f that descend from S through retransmissions.
RECURSIVE Descendants(_, _)
Descendants(f, S) ==
  LET T == S \cup {c \in DOMAIN f : f[c].retxOf \in S}
  IN IF T = S THEN S ELSE Descendants(f, T)

\* f without the packets S.
Without(f, S) == [p \in DOMAIN f \ S |-> f[p]]

\* f with the packets S covered.
Cover(f, S) == [p \in DOMAIN f |-> IF p \in S THEN [f[p] EXCEPT !.covered = TRUE] ELSE f[p]]

\* The queue entries for the packets S of level l that leave flight with f.
Requeued(l, f, S) == InOrder({<<l, p>> : p \in {x \in S : ~f[x].covered}})

\* A new packet number pn of level l.
UsePN(l, pn) == pn >= nextPN[l] /\ nextPN' = [nextPN EXCEPT ![l] = pn + 1]

Init == /\ flight = [l \in Levels |-> <<>>]
        /\ queue = <<>>
        /\ nextPN = [l \in Levels |-> 0]
        /\ largestAcked = [l \in Levels |-> Invalid]
        /\ dropped = {}
        /\ closed = FALSE

\* A packet with new data, or one without data to recover (an ACK).
Send(l) ==
  /\ UNCHANGED <<queue, largestAcked, dropped, closed>>
  /\ ~closed /\ l \notin dropped
  /\ \E pn \in PN : /\ UsePN(l, pn)
                    /\ \/ flight' = [flight EXCEPT ![l] = @ @@ (pn :> Fresh(Invalid))]
                       \/ flight' = flight

\* The head of the queue is sent again, linked to its packet if that is
\* still in flight.
Retransmit ==
  /\ UNCHANGED <<largestAcked, dropped, closed>>
  /\ ~closed /\ queue # <<>>
  /\ LET l == Head(queue)[1]
         of == Head(queue)[2]
     IN \E pn \in PN :
          /\ UsePN(l, pn)
          /\ flight' = [flight EXCEPT ![l] =
                          @ @@ (pn :> Fresh(IF of \in DOMAIN @ THEN of ELSE Invalid))]
  /\ queue' = Tail(queue)

\* With nothing queued, an uncovered application packet is sent again.
Probe ==
  /\ UNCHANGED <<queue, largestAcked, dropped, closed>>
  /\ ~closed /\ queue = <<>>
  /\ \E of \in Uncovered(OneRTT), pn \in PN :
       /\ UsePN(OneRTT, pn)
       /\ flight' = [flight EXCEPT ![OneRTT] = Cover(@, {of}) @@ (pn :> Fresh(of))]

\* An ACK of level l acknowledges the packets acked and raises the largest
\* acknowledged; if it acknowledges any, packets at or below that may be
\* declared lost (lost: those of the level that leave flight unacked).
Ack(l) ==
  /\ UNCHANGED <<nextPN, closed>>
  /\ ~closed /\ l \notin dropped
  /\ LET la == largestAcked'[l]
         ended == IF l = OneRTT THEN CryptoLevels ELSE {}
     IN /\ la \in PN /\ la >= largestAcked[l]
        /\ largestAcked' = [largestAcked EXCEPT ![l] = la]
        /\ dropped' = dropped \cup ended
        /\ \E acked \in SUBSET DOMAIN flight[l] :
             LET f == Cover(Without(flight[l], acked), Descendants(flight[l], acked))
                 lost == DOMAIN f \ DOMAIN flight'[l]
             IN /\ acked = {} => lost = {}
                /\ \A p \in acked \cup lost : p <= la
                /\ flight' = [m \in Levels |-> CASE m \in ended -> <<>>
                                                 [] m = l      -> Without(f, lost)
                                                 [] OTHER      -> flight[m]]
                /\ queue' = SelectSeq(queue \o Requeued(l, f, lost),
                                      LAMBDA e : e[1] \notin ended)

\* The loss timer declares packets at or below the largest acknowledged lost.
Lose(l) ==
  /\ UNCHANGED <<nextPN, largestAcked, dropped, closed>>
  /\ ~closed
  /\ \E lost \in SUBSET {p \in DOMAIN flight[l] : p <= largestAcked[l]} :
       /\ flight' = [flight EXCEPT ![l] = Without(@, lost)]
       /\ queue' = queue \o Requeued(l, flight[l], lost)

\* Uncovered packets still in flight are queued and covered (S: those the
\* step covers).
Requeue ==
  /\ UNCHANGED <<nextPN, largestAcked, dropped, closed>>
  /\ ~closed
  /\ LET S == {e \in Levels \X PN : /\ e[2] \in Uncovered(e[1])
                                    /\ e[2] \in DOMAIN flight'[e[1]]
                                    /\ flight'[e[1]][e[2]].covered}
     IN /\ flight' = [l \in Levels |-> Cover(flight[l], {e[2] : e \in {x \in S : x[1] = l}})]
        /\ queue' = queue \o InOrder(S)

\* A Retry ends the Initial space: its uncovered packets are queued.
Retry ==
  /\ UNCHANGED <<nextPN, dropped, closed>>
  /\ ~closed
  /\ queue' = queue \o Requeued(Initial, flight[Initial], DOMAIN flight[Initial])
  /\ flight' = [flight EXCEPT ![Initial] = <<>>]
  /\ largestAcked' = [largestAcked EXCEPT ![Initial] = Invalid]

Close == ~closed /\ closed' = TRUE /\ UNCHANGED <<flight, queue, nextPN, largestAcked, dropped>>

Next == \/ \E l \in Levels : Send(l) \/ Ack(l) \/ Lose(l)
        \/ Retransmit \/ Probe \/ Requeue \/ Retry \/ Close

Spec == Init /\ [][Next]_avars
=============================================================================
