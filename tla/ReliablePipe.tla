---------------------------- MODULE ReliablePipe ----------------------------
(***************************************************************************)
(* What a client expects of a transport: every message arrives whole, once *)
(* and in order, until the pipe breaks.  Of a broken pipe nothing is said. *)
(***************************************************************************)
EXTENDS Naturals, Sequences

CONSTANT Bodies

VARIABLES sent, delivered, broken

pipe == <<sent, delivered, broken>>

Init == sent = <<>> /\ delivered = <<>> /\ broken \in BOOLEAN

Send ==
  /\ \E body \in Bodies : sent' = Append(sent, body)
  /\ UNCHANGED <<delivered, broken>>

Deliver ==
  /\ ~broken
  /\ Len(delivered) < Len(sent)
  /\ delivered' = Append(delivered, sent[Len(delivered) + 1])
  /\ UNCHANGED <<sent, broken>>

Break == ~broken /\ broken' = TRUE /\ UNCHANGED <<sent, delivered>>

Anything == broken /\ broken' = TRUE

Next == Send \/ Deliver \/ Break \/ Anything

Safety == Init /\ [][Next]_pipe

Spec == Safety /\ WF_pipe(Deliver)
=============================================================================
