------------------------- MODULE MCSentPacketHandler -------------------------
(* Model-checking instance of SentPacketHandler: three packet numbers per   *)
(* space, a clock of a few ticks, and tracking limits small enough that     *)
(* the SendNone / SendAck limits of SendMode are reached.                   *)
EXTENDS SentPacketHandler

MCMaxPacketNumber == 1
MCMaxTime == 2
====
