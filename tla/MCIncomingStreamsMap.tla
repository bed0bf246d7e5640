------------------------ MODULE MCIncomingStreamsMap ------------------------
(* Three acceptor goroutines, a limit of two open streams and stream       *)
(* numbers up to five, so that MAX_STREAMS frames raise the limit several  *)
(* times and one GetOrOpenStream can open streams for two waiters.         *)
EXTENDS IncomingStreamsMap

CONSTANTS a1, a2, a3

MCAcceptors == {a1, a2, a3}
=============================================================================
