------------------------------ MODULE FrameCodec ------------------------------
(***************************************************************************)
(* The MAX_STREAMS, STREAMS_BLOCKED and RETIRE_CONNECTION_ID frames of      *)
(* internal/wire: parse, Write and Length, over the QUIC varint codec.      *)
(*                                                                         *)
(* A byte has ByteBits bits (8 in the code). TLC's integers are 32 bits    *)
(* wide, so the model runs with narrower bytes; every bound of the codec   *)
(* is derived from ByteBits the way the code derives it from 8: the        *)
(* 1/2/4/8-byte varints carry 8w-2 bits, and a stream number has 60 = 64-4 *)
(* bits. A frame's type byte is a symbol ("0x12", ...).                    *)
(*                                                                         *)
(* A sender writes one frame into a packet, the packet may arrive cut      *)
(* short, and the receiver parses it. The peer may also send any varint   *)
(* encoding, minimal or not, of any value.                                 *)
(***************************************************************************)
EXTENDS Naturals, Sequences, SequencesExt

CONSTANTS ByteBits, \* bits per byte (8 in the code)
          Values    \* the numbers frames carry

ASSUME ByteBits \in 3..4

\* The varint length prefix sits in the top two bits of the first byte.
PrefixUnit == 2^(ByteBits - 2)

\* maxVarInt1/2/4/8: the largest value of each varint width.
MaxVarInt(w) == 2^(w * ByteBits - 2) - 1
VarIntWidths == <<1, 2, 4, 8>>

\* protocol.MaxStreamCount: a stream number has 60 bits (spec section 3).
MaxStreamCount == 2^(8 * ByteBits - 4)

-----------------------------------------------------------------------------
(* The varint codec (utils, not under src/; QUIC section 16).              *)

\* utils.VarIntLen: the width WriteVarInt picks for i.
VarIntLen(i) ==
  CASE i <= MaxVarInt(1) -> 1
    [] i <= MaxVarInt(2) -> 2
    [] i <= MaxVarInt(4) -> 4
    [] OTHER             -> 8

\* The w bytes of i, most significant first.
RECURSIVE BigEndian(_, _)
BigEndian(i, w) ==
  IF w = 0 THEN <<>>
  ELSE BigEndian(i \div 2^ByteBits, w - 1) \o <<i % 2^ByteBits>>

\* i encoded in w bytes, the length prefix in the top bits of the first one.
EncodeVarInt(i, w) ==
  LET bytes == BigEndian(i, w)
      prefix == CHOOSE p \in 0..3 : VarIntWidths[p + 1] = w
  IN  [bytes EXCEPT ![1] = @ + prefix * PrefixUnit]

\* utils.WriteVarInt: the minimal encoding (the code panics above maxVarInt8).
WriteVarInt(i) == EncodeVarInt(i, VarIntLen(i))

\* utils.ReadVarInt on the bytes r: the width from the first byte's prefix,
\* then byte by byte; a missing byte is io.EOF.
ReadVarInt(r) ==
  IF r = <<>> THEN [ok |-> FALSE, value |-> 0, len |-> 0]
  ELSE LET w == VarIntWidths[(r[1] \div PrefixUnit) + 1]
       IN  IF Len(r) < w THEN [ok |-> FALSE, value |-> 0, len |-> 0]
           ELSE [ok |-> TRUE, len |-> w,
                 value |-> FoldLeft(LAMBDA acc, b : acc * 2^ByteBits + b,
                                    r[1] % PrefixUnit, SubSeq(r, 2, w))]

-----------------------------------------------------------------------------
(* The frames. A frame is a record: its kind, its stream type (bidi, uni,   *)
(* or none for RETIRE_CONNECTION_ID) and its number: MaxStreamNum,          *)
(* StreamLimit or SequenceNumber.                                           *)

Kinds == {"MAX_STREAMS", "STREAMS_BLOCKED", "RETIRE_CONNECTION_ID"}
StreamTypes == {"bidi", "uni"}
Frame(k, t, n) == [kind |-> k, type |-> t, num |-> n]
NoFrame == Frame("none", "none", 0)
Failed == [ok |-> FALSE, frame |-> NoFrame, len |-> 0]
Parsed(f, v) == [ok |-> TRUE, frame |-> f, len |-> 1 + v.len]

\* parseMaxStreamsFrame: ReadByte, the type switch (a byte it does not list
\* leaves the zero value, StreamTypeUni), ReadVarInt, and the value taken
\* as the StreamNum as it is.
ParseMaxStreamsFrame(r) ==
  IF r = <<>> THEN Failed
  ELSE LET v == ReadVarInt(Tail(r))
       IN  IF ~v.ok THEN Failed
           ELSE Parsed(Frame("MAX_STREAMS", IF r[1] = "0x12" THEN "bidi" ELSE "uni",
                             v.value), v)

\* MaxStreamsFrame.Write: 0x12 or 0x13, then WriteVarInt.
MaxStreamsFrameWrite(f) ==
  <<IF f.type = "bidi" THEN "0x12" ELSE "0x13">> \o WriteVarInt(f.num)

\* Mutant: a Length that leaves out the type byte.
MaxStreamsFrameLengthNoTypeByte(f) == VarIntLen(f.num)

\* MaxStreamsFrame.Length.
MaxStreamsFrameLength(f) == 1 + VarIntLen(f.num)

\* parseStreamsBlockedFrame: as parseMaxStreamsFrame, with 0x16 and 0x17.
ParseStreamsBlockedFrame(r) ==
  IF r = <<>> THEN Failed
  ELSE LET v == ReadVarInt(Tail(r))
       IN  IF ~v.ok THEN Failed
           ELSE Parsed(Frame("STREAMS_BLOCKED", IF r[1] = "0x16" THEN "bidi" ELSE "uni",
                             v.value), v)

\* StreamsBlockedFrame.Write: 0x16 or 0x17, then WriteVarInt.
StreamsBlockedFrameWrite(f) ==
  <<IF f.type = "bidi" THEN "0x16" ELSE "0x17">> \o WriteVarInt(f.num)

\* StreamsBlockedFrame.Length.
StreamsBlockedFrameLength(f) == 1 + VarIntLen(f.num)

\* Mutant: the error of ReadVarInt is not checked.
ParseRetireConnectionIDFrameIgnoresEOF(r) ==
  IF r = <<>> THEN Failed
  ELSE LET v == ReadVarInt(Tail(r))
       IN  Parsed(Frame("RETIRE_CONNECTION_ID", "none", v.value), v)

\* parseRetireConnectionIDFrame: skip the type byte, ReadVarInt.
ParseRetireConnectionIDFrame(r) ==
  IF r = <<>> THEN Failed
  ELSE LET v == ReadVarInt(Tail(r))
       IN  IF ~v.ok THEN Failed
           ELSE Parsed(Frame("RETIRE_CONNECTION_ID", "none", v.value), v)

\* RetireConnectionIDFrame.Write: 0x19, then WriteVarInt.
RetireConnectionIDFrameWrite(f) == <<"0x19">> \o WriteVarInt(f.num)

\* RetireConnectionIDFrame.Length.
RetireConnectionIDFrameLength(f) == 1 + VarIntLen(f.num)

\* The frame parser's dispatch on the type byte, and the Frame interface.
Parse(kind, r) ==
  CASE kind = "MAX_STREAMS"     -> ParseMaxStreamsFrame(r)
    [] kind = "STREAMS_BLOCKED" -> ParseStreamsBlockedFrame(r)
    [] OTHER                    -> ParseRetireConnectionIDFrame(r)
Write(f) ==
  CASE f.kind = "MAX_STREAMS"     -> MaxStreamsFrameWrite(f)
    [] f.kind = "STREAMS_BLOCKED" -> StreamsBlockedFrameWrite(f)
    [] OTHER                      -> RetireConnectionIDFrameWrite(f)
Length(f) ==
  CASE f.kind = "MAX_STREAMS"     -> MaxStreamsFrameLength(f)
    [] f.kind = "STREAMS_BLOCKED" -> StreamsBlockedFrameLength(f)
    [] OTHER                      -> RetireConnectionIDFrameLength(f)
-----------------------------------------------------------------------------
(* One frame on the wire: written by this endpoint (Write, whose size the   *)
(* packet packer reserves with Length) or by the peer in any varint         *)
(* encoding; the packet may arrive cut short; the receiver parses it.       *)

VARIABLES phase,    \* "idle", "inflight" or "received"
          by,       \* "us" or "peer": who wrote the bytes
          sent,     \* the frame that was meant
          wire,     \* the bytes in flight
          cut,      \* whether the bytes lost their tail
          received  \* the parser's result

vars == <<phase, by, sent, wire, cut, received>>

Frames ==
  {Frame(k, t, n) : k \in Kinds \ {"RETIRE_CONNECTION_ID"}, t \in StreamTypes, n \in Values}
    \cup {Frame("RETIRE_CONNECTION_ID", "none", n) : n \in Values}

Init == /\ phase = "idle"
        /\ by = "us"
        /\ sent = NoFrame
        /\ wire = <<>>
        /\ cut = FALSE
        /\ received = Failed

\* This endpoint writes a frame.
Send == /\ phase = "idle"
        /\ \E f \in Frames : /\ sent' = f
                             /\ wire' = Write(f)
        /\ phase' = "inflight"
        /\ by' = "us"
        /\ UNCHANGED <<cut, received>>

\* The peer writes a frame with its number in any width that holds it.
PeerSends == /\ phase = "idle"
             /\ \E f \in Frames, w \in {1, 2, 4, 8} :
                  /\ w >= VarIntLen(f.num)
                  /\ sent' = f
                  /\ wire' = <<Head(Write(f))>> \o EncodeVarInt(f.num, w)
             /\ phase' = "inflight"
             /\ by' = "peer"
             /\ UNCHANGED <<cut, received>>

\* The packet ends early: the frame loses its last byte.
Truncate == /\ phase = "inflight"
            /\ wire # <<>>
            /\ wire' = Front(wire)
            /\ cut' = TRUE
            /\ UNCHANGED <<phase, by, sent, received>>

\* The receiver's frame parser reads the bytes.
Receive == /\ phase = "inflight"
           /\ received' = Parse(sent.kind, wire)
           /\ phase' = "received"
           /\ UNCHANGED <<by, sent, wire, cut>>

\* The next frame.
Reset == /\ phase = "received"
         /\ phase' = "idle"
         /\ by' = "us"
         /\ sent' = NoFrame
         /\ wire' = <<>>
         /\ cut' = FALSE
         /\ received' = Failed

Next == Send \/ PeerSends \/ Truncate \/ Receive \/ Reset

Spec == Init /\ [][Next]_vars

-----------------------------------------------------------------------------
\* Round trip: every whole frame, this endpoint's minimal one or the peer's
\* in any varint width, parses back to the frame that was meant and
\* consumes exactly its bytes; and what Length reserves for this endpoint's
\* frame is what Write puts on the wire.
FrameRoundTrip ==
  phase \in {"inflight", "received"} /\ ~cut =>
    /\ by = "us" => Length(sent) = Len(wire)
    /\ phase = "received" =>
         /\ received.ok
         /\ received.frame = sent
         /\ received.len = Len(wire)

\* Every proper prefix of a frame fails to parse with an EOF error (the
\* "errors on EOFs" test of max_streams_frame_test.go): a frame cut short
\* is never taken for a shorter one.
TruncatedFrameRejected ==
  phase = "received" /\ cut => ~received.ok

\* A MAX_STREAMS or STREAMS_BLOCKED frame that parses carries a stream
\* count of at most 2^60, the range of a StreamNum (spec section 3).
StreamCountWithinLimit ==
  phase = "received" /\ received.ok
    /\ received.frame.kind \in {"MAX_STREAMS", "STREAMS_BLOCKED"}
    => received.frame.num <= MaxStreamCount
=============================================================================
