----------------------------- MODULE UsbFraming -----------------------------
(***************************************************************************)
(* USB framing (src/src/usb.rs) and the loops that read through it         *)
(* (usb_reader_loop of src/examples/cli.rs, main of usb_monitor.rs).       *)
(*                                                                         *)
(* A message is a length and a body cut into reports of one size.  A cell  *)
(* of a report is a number, and the four bytes of the length are one cell. *)
(* The report id is ignored by the code and left out.  The stream holds    *)
(* every report that was not lost.  It may begin with parts of a message   *)
(* sent before the device was opened.                                      *)
(***************************************************************************)
EXTENDS Integers, SequencesExt

CONSTANTS
  ReportPayload,  (* cells of a report: 255                                *)
  MaxMessageLen,  (* longest body taken for one: 1 MiB                     *)
  Bodies,         (* bodies                                                *)
  Tails,          (* what the stream may begin with                        *)
  MaxSent,        (* bound on the messages sent                            *)
  MaxLost         (* bound on the reports lost                             *)

VARIABLES
  sent, delivered, stream, read, pos, lost,
  starts  (* history: the reports before each message, were none lost      *)

(* How many reports hold so many cells.                                    *)
ReportsFor(n) == (n + ReportPayload - 1) \div ReportPayload

(* Each report holds the same cells of the message.                        *)
Chunk(framed, i) ==
  [j \in 1 .. ReportPayload |->
     LET k == (i - 1) * ReportPayload + j
     IN  IF k <= Len(framed) THEN framed[k] ELSE 0]

ToReports(body) ==
  LET framed == <<Len(body)>> \o body
  IN  [i \in 1 .. ReportsFor(Len(framed)) |-> Chunk(framed, i)]

Buffer == SubSeq(stream, pos + 1, read)

BodyLen(buf) == buf[1][1]

MessageReports(buf) == ReportsFor(1 + BodyLen(buf))

(* Without the sanity cap.                                                 *)
ScanFrameMutant(buf) ==
  IF buf = <<>> THEN "incomplete"
  ELSE IF BodyLen(buf) = 0 THEN "desync"
  ELSE IF Len(buf) < MessageReports(buf) THEN "incomplete" ELSE "complete"

ScanFrame(buf) ==
  IF buf = <<>> THEN "incomplete"
  ELSE IF BodyLen(buf) = 0 \/ BodyLen(buf) > MaxMessageLen THEN "desync"
  ELSE IF Len(buf) < MessageReports(buf) THEN "incomplete" ELSE "complete"

(* The cells of the reports one after the other, after the length.         *)
FromBytes(buf) ==
  [k \in 1 .. BodyLen(buf) |-> buf[(k \div ReportPayload) + 1][(k % ReportPayload) + 1]]

Init ==
  /\ stream \in Tails
  /\ sent = <<>> /\ delivered = <<>>
  /\ read = 0 /\ pos = 0 /\ lost = 0 /\ starts = <<>>

Send ==
  /\ Len(sent) < MaxSent
  /\ \E body \in Bodies :
       /\ sent' = Append(sent, body)
       /\ stream' = stream \o ToReports(body)
       /\ starts' = Append(starts, Len(stream))
  /\ UNCHANGED <<delivered, read, pos, lost>>

(* A report that was not read yet is lost.                                 *)
Lose ==
  /\ lost < MaxLost
  /\ \E i \in read + 1 .. Len(stream) : stream' = RemoveAt(stream, i)
  /\ lost' = lost + 1
  /\ UNCHANGED <<sent, delivered, read, pos, starts>>

(* One report at a time, when no more can be made of the buffer.  That a   *)
(* read of a HID device returns one whole report, and never a part of it,  *)
(* is assumed: the code appends whatever it gets (cli.rs 260-266) and      *)
(* takes the buffer apart by whole reports.                                *)
Read ==
  /\ ScanFrame(Buffer) = "incomplete"
  /\ read < Len(stream)
  /\ read' = read + 1
  /\ UNCHANGED <<sent, delivered, stream, pos, lost, starts>>

(* Drop a report and look again.                                           *)
Skip ==
  /\ ScanFrame(Buffer) = "desync"
  /\ pos' = pos + 1
  /\ UNCHANGED <<sent, delivered, stream, read, lost, starts>>

Deliver ==
  /\ ScanFrame(Buffer) = "complete"
  /\ delivered' = Append(delivered, FromBytes(Buffer))
  /\ pos' = pos + MessageReports(Buffer)
  /\ UNCHANGED <<sent, stream, read, lost, starts>>

Next == Send \/ Lose \/ Read \/ Skip \/ Deliver

-----------------------------------------------------------------------------
(* A leftover report that may be taken for the start of a message.         *)
FalseStart ==
  \E i \in 1 .. (IF starts = <<>> THEN Len(stream) ELSE starts[1]) :
    stream[i][1] \in 1 .. MaxMessageLen
=============================================================================
