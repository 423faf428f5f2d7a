----------------------------- MODULE TcpFraming -----------------------------
(***************************************************************************)
(* TCP framing (src/src/frame.rs) and the loop that reads through it       *)
(* (tcp_reader_loop of src/examples/cli.rs).                               *)
(*                                                                         *)
(* A byte is a number, and the four bytes of the length are one.  The      *)
(* stream keeps every byte ever written; the reader has drained those up   *)
(* to `pos` and holds those up to `read` in its buffer.  What stands in    *)
(* the stream before the first frame is junk.                              *)
(***************************************************************************)
EXTENDS Integers, SequencesExt

CONSTANTS
  Magic,      (* the magic header                                          *)
  Bodies,     (* payloads                                                  *)
  Junk,       (* what the stream may begin with                            *)
  ChunkSize,  (* bytes one read returns at most: 4096                      *)
  MaxSent     (* bound on the payloads sent                                *)

VARIABLES
  sent, delivered, stream, read, pos,
  starts  (* history: the bytes before each frame                          *)

Header == Len(Magic) + 1

ToBytes(body) == Magic \o <<Len(body)>> \o body

Buffer == SubSeq(stream, pos + 1, read)

ScanFrame(buf) ==
  IF Len(buf) < Header THEN "incomplete"
  ELSE IF ~IsPrefix(Magic, buf) THEN "desync"
  ELSE IF Len(buf) < Header + buf[Header] THEN "incomplete" ELSE "complete"

FrameLen(buf) == Header + buf[Header]

FramePayload(buf) == SubSeq(buf, Header + 1, FrameLen(buf))

Init ==
  /\ stream \in Junk
  /\ sent = <<>> /\ delivered = <<>>
  /\ read = 0 /\ pos = 0 /\ starts = <<>>

Send ==
  /\ Len(sent) < MaxSent
  /\ \E body \in Bodies : /\ sent' = Append(sent, body)
                          /\ stream' = stream \o ToBytes(body)
  /\ starts' = Append(starts, Len(stream))
  /\ UNCHANGED <<delivered, read, pos>>

(* A full chunk is taken for read, however little came.                    *)
ReadMutant ==
  /\ ScanFrame(Buffer) = "incomplete"
  /\ read < Len(stream)
  /\ read' = read + ChunkSize
  /\ UNCHANGED <<sent, delivered, stream, pos, starts>>

(* The stream is read only when no more can be made of the buffer.         *)
Read ==
  /\ ScanFrame(Buffer) = "incomplete"
  /\ \E n \in 1 .. ChunkSize : read + n <= Len(stream) /\ read' = read + n
  /\ UNCHANGED <<sent, delivered, stream, pos, starts>>

(* All that was read is thrown away.                                       *)
SlideMutant ==
  /\ ScanFrame(Buffer) = "desync"
  /\ pos' = read
  /\ UNCHANGED <<sent, delivered, stream, read, starts>>

(* Slide one byte and look for a magic again.                              *)
Slide ==
  /\ ScanFrame(Buffer) = "desync"
  /\ pos' = pos + 1
  /\ UNCHANGED <<sent, delivered, stream, read, starts>>

(* Only the payload is drained.                                            *)
DeliverMutant ==
  /\ ScanFrame(Buffer) = "complete"
  /\ delivered' = Append(delivered, FramePayload(Buffer))
  /\ pos' = pos + Len(FramePayload(Buffer))
  /\ UNCHANGED <<sent, stream, read, starts>>

Deliver ==
  /\ ScanFrame(Buffer) = "complete"
  /\ delivered' = Append(delivered, FramePayload(Buffer))
  /\ pos' = pos + FrameLen(Buffer)
  /\ UNCHANGED <<sent, stream, read, starts>>

Next == Send \/ Read \/ Slide \/ Deliver

-----------------------------------------------------------------------------
(* The junk, with the magic that follows it, holds a magic of its own.     *)
FalseMagic ==
  LET junk == IF starts = <<>> THEN Len(stream) ELSE starts[1]
      lead == SubSeq(stream, 1, junk) \o Magic
  IN  \E i \in 0 .. junk - 1 : SubSeq(lead, i + 1, i + Len(Magic)) = Magic
=============================================================================
