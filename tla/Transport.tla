----------------------------- MODULE Transport ------------------------------
(***************************************************************************)
(* The transport of the interactive client, USB or TCP as it was started   *)
(* (run of src/examples/cli.rs), and what both framings promise.           *)
(***************************************************************************)
EXTENDS Integers, SequencesExt

CONSTANTS Magic, Junk, ChunkSize, ReportPayload, MaxMessageLen, Tails,
          Bodies, MaxSent, MaxLost

ASSUME TransportAssumption ==
  /\ Magic \in Seq(Nat) /\ Junk \subseteq Seq(Nat)
  /\ ChunkSize \in Nat \ {0} /\ ReportPayload \in Nat \ {0}
  /\ MaxMessageLen \in Nat
  /\ Tails \subseteq Seq([1 .. ReportPayload -> Nat])
  /\ Bodies \subseteq Seq(Nat)
  /\ MaxSent \in Nat /\ MaxLost \in Nat

VARIABLES via, up, sent, delivered, stream, read, pos, lost, starts

vars == <<via, up, sent, delivered, stream, read, pos, lost, starts>>

(* A body that USB can frame.                                              *)
UsbBodies == {body \in Bodies : Len(body) \in 1 .. MaxMessageLen}

Tcp == INSTANCE TcpFraming
Usb == INSTANCE UsbFraming WITH Bodies <- UsbBodies

Init == /\ up = TRUE
        /\ \/ via = "tcp" /\ lost = 0 /\ Tcp!Init
           \/ via = "usb" /\ Usb!Init

Reader ==
  /\ up
  /\ \/ via = "tcp" /\ (Tcp!Read \/ Tcp!Slide \/ Tcp!Deliver) /\ UNCHANGED lost
     \/ via = "usb" /\ (Usb!Read \/ Usb!Skip \/ Usb!Deliver)
  /\ UNCHANGED <<via, up>>

Writer ==
  /\ \/ via = "tcp" /\ Tcp!Send /\ UNCHANGED lost
     \/ via = "usb" /\ (Usb!Send \/ Usb!Lose)
  /\ UNCHANGED <<via, up>>

(* A read finds the end of the stream or fails: the reader is gone, and    *)
(* with it the connection's use.                                           *)
HangUp ==
  /\ up
  /\ \/ via = "tcp" /\ Tcp!ScanFrame(Tcp!Buffer) = "incomplete"
     \/ via = "usb" /\ Usb!ScanFrame(Usb!Buffer) = "incomplete"
  /\ up' = FALSE
  /\ UNCHANGED <<via, sent, delivered, stream, read, pos, lost, starts>>

Next == Reader \/ Writer \/ HangUp

Spec == Init /\ [][Next]_vars

(* The reader thread runs; nobody has to send anything.                    *)
FairSpec == Spec /\ WF_vars(Reader)

-----------------------------------------------------------------------------
(* The reader drains what it has read and reads what was written; the      *)
(* payloads are made of bytes.                                             *)
TypeOK ==
  /\ pos \in 0 .. read /\ read \in 0 .. Len(stream)
  /\ delivered \in Seq(Seq(Nat))
  /\ up \in BOOLEAN /\ Len(sent) <= MaxSent /\ lost \in 0 .. MaxLost

(* A reader can be led astray by a magic in the junk a TCP stream begins   *)
(* with, and by reports lost or left over on USB, and by nothing else.     *)
Broken == \/ ~up
          \/ via = "tcp" /\ Tcp!FalseMagic
          \/ via = "usb" /\ (lost > 0 \/ Usb!FalseStart)

Pipe == INSTANCE ReliablePipe WITH broken <- Broken

(* However the bytes are cut into reads, and whatever the payloads hold (a *)
(* magic, a length, zeros), every payload arrives whole, once and in order *)
(* as long as the reader lives and is not led astray, harmless junk        *)
(* included.                                                               *)
ImplementsReliablePipe == Pipe!Spec

(* The messages that stand whole at the front of what was not drained.     *)
Framed(body) == IF via = "tcp" THEN Tcp!ToBytes(body) ELSE Usb!ToReports(body)

AtFront ==
  {m \in DOMAIN sent :
     IsPrefix(Framed(sent[m]), SubSeq(stream, pos + 1, Len(stream)))}

(* Even a reader that was led astray, once it stands at the start of a     *)
(* message, drops no part of it and delivers it as it is: it is in step    *)
(* again and stays so.                                                     *)
StaysInStep ==
  [][pos' # pos => \A m \in AtFront :
       /\ delivered' = Append(delivered, sent[m])
       /\ pos' - pos = Len(Framed(sent[m]))]_vars

(* "A corrupt length prefix would otherwise wedge a streaming reader on an *)
(* impossible frame" (usb.rs 63-65): the USB reader never waits for more   *)
(* reports than the longest message has.                                   *)
BufferIsBounded ==
  via = "usb" => read - pos <= Usb!ReportsFor(1 + MaxMessageLen)
=============================================================================
