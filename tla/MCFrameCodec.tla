---------------------------- MODULE MCFrameCodec ----------------------------
(* FrameCodec with 3-bit bytes: varints of 1, 2, 4 and 8 bytes hold up to   *)
(* 1, 15, 1023 and 2^22-1, and a stream count is at most 2^20. The values   *)
(* sit on both sides of every width boundary and of the stream limit.       *)
EXTENDS FrameCodec

MCValues == {0, 1, 2, 15, 16, 1023, 1024, 2^20, 2^20 + 1, 2^22 - 1}
=============================================================================
