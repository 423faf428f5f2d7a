-------------------------------- MODULE Link --------------------------------
(***************************************************************************)
(* A client that follows the session life cycle documented in              *)
(* src/src/session.rs, connected to a console: it asks for a full sync     *)
(* when it connects and whenever the session says NeedsFullSync, sends     *)
(* commands only through the session, survives every SessionError, and     *)
(* resets the session when the connection goes away.                       *)
(***************************************************************************)
EXTENDS Session, Console

CONSTANTS
  Targets,   (* the logical addresses the client writes to                 *)
  MaxOutbox  (* bound on the messages in flight when a command is sent     *)

ASSUME LinkAssumption ==
  /\ Targets \subseteq AllAddresses
  /\ MaxOutbox \in Nat \ {0}

VARIABLE seen     (* history: the topology the client has been told of     *)

vars == <<layout, capabilities, topologies, connected, inbox, outbox, seen>>

Init == SessionInit /\ ConsoleInit /\ seen = 1

(* The first message after a connect is the handshake.                     *)
Connect ==
  /\ ~connected
  /\ connected' = TRUE
  /\ outbox' = <<Handshake>>
  /\ seen' = Present
  /\ UNCHANGED <<topologies, inbox, layout, capabilities>>

Disconnect ==
  /\ connected
  /\ connected' = FALSE
  /\ inbox' = <<>>
  /\ outbox' = <<>>
  /\ Reset
  /\ UNCHANGED <<topologies, seen>>

Receive ==
  LET frame == Head(inbox)
  IN  /\ inbox # <<>>
      /\ Ingest(frame)
      /\ outbox' = IF Update(frame) = "needsFullSync"
                   THEN Append(outbox, Handshake) ELSE outbox
      /\ inbox' = Tail(inbox)
      /\ seen' = frame.at
      /\ UNCHANGED <<topologies, connected>>

SendCommand ==
  /\ connected
  /\ Len(outbox) < MaxOutbox
  /\ \E address \in Targets : \E path \in EncodedPath(address) :
       outbox' = Append(outbox, Write(path, address, seen))
  /\ UNCHANGED <<topologies, connected, inbox, layout, capabilities, seen>>

ConsoleStep == ConsoleNext /\ UNCHANGED <<layout, capabilities, seen>>

Next == Connect \/ Disconnect \/ Receive \/ SendCommand \/ ConsoleStep

Spec == Init /\ [][Next]_vars

(* The client keeps reading, and the console serves what it was sent even  *)
(* when its own reports keep the connection busy.                          *)
Fairness ==
  /\ WF_vars(Receive)
  /\ SF_vars(AnswerHandshake /\ UNCHANGED <<layout, capabilities, seen>>)
  /\ SF_vars(CarryOutWrite /\ UNCHANGED <<layout, capabilities, seen>>)

FairSpec == Spec /\ Fairness
=============================================================================
