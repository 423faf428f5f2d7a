----------------------------- MODULE UsbMonitor -----------------------------
(***************************************************************************)
(* The USB event monitor (src/examples/usb_monitor.rs): a single-threaded  *)
(* client of a session that sends no commands.  It asks for a full sync    *)
(* when it starts and at every NeedsFullSync, and any error ends it.       *)
(***************************************************************************)
EXTENDS Session, Console

VARIABLES
  status,  (* "running", or how the process ended: "ready" before it is    *)
           (* first started, a SessionError, or "io"                       *)
  seen     (* history: the topology the last frame read spoke of           *)

vars == <<layout, capabilities, topologies, connected, inbox, outbox,
          status, seen>>

Init == SessionInit /\ ConsoleInit /\ status = "ready" /\ seen = 1

(* The device stays silent until it has the handshake.                     *)
Launch ==
  /\ status # "running"
  /\ status' = "running"
  /\ layout' = {} /\ capabilities' = {}
  /\ outbox' = <<Handshake>>
  /\ seen' = Present
  /\ UNCHANGED <<topologies, connected, inbox>>

(* With the process, its end of the connection is gone.                    *)
Exit(reason) ==
  /\ status' = reason
  /\ connected' = FALSE
  /\ inbox' = <<>>
  /\ outbox' = <<>>

(* One packet: `session.ingest(&packet.payload)?`.                         *)
Receive ==
  LET frame  == Head(inbox)
      update == Update(frame)
  IN  /\ status = "running"
      /\ inbox # <<>>
      /\ Ingest(frame)
      /\ seen' = frame.at
      /\ \/ /\ update \in {"decode", "layout", "notReady"}
            /\ Exit(update)
         \/ /\ update \in {"ready", "event", "needsFullSync"}
            /\ inbox' = Tail(inbox)
            /\ outbox' = IF update = "needsFullSync"
                         THEN Append(outbox, Handshake) ELSE outbox
            /\ UNCHANGED <<status, connected>>
      /\ UNCHANGED topologies

(* The read or the write fails: the device went away.                      *)
Unplug ==
  /\ status = "running"
  /\ Exit("io")
  /\ UNCHANGED <<layout, capabilities, topologies, seen>>

ConsoleStep ==
  /\ ConsoleNext
  /\ UNCHANGED <<layout, capabilities, status, seen>>

Next == Launch \/ Receive \/ Unplug \/ ConsoleStep

Spec == Init /\ [][Next]_vars

(* The monitor keeps reading; a device serves a handshake in its queue.    *)
FairSpec ==
  /\ Spec
  /\ WF_vars(Receive)
  /\ SF_vars(AnswerHandshake /\ UNCHANGED <<layout, capabilities, status, seen>>)

-----------------------------------------------------------------------------
(* The status is one the process can have; a process that is not running   *)
(* has no connection.                                                      *)
TypeOK ==
  /\ status \in {"ready", "running", "io", "decode", "layout", "notReady"}
  /\ seen \in 1 .. Present
  /\ layout = {} <=> capabilities = {}
  /\ status # "running" => ~connected /\ inbox = <<>> /\ outbox = <<>>

(* The monitor never waits for a full sync that nobody asked for: while it *)
(* has no map, a handshake is on its way out or its answer on its way in.  *)
(* A lost request would leave it deaf for good.                            *)
SyncIsUnderWay ==
  status = "running" /\ layout = {} =>
    \/ \E i \in DOMAIN outbox : outbox[i].kind = "handshake"
    \/ \E i \in DOMAIN inbox : inbox[i].kind = "fullSync"

(* What the monitor prints of an incremental event names the node whose    *)
(* property changed, as the tree was then.                                 *)
PrintedEventsNameTheRightNode ==
  \A frame \in {Head(inbox) : i \in DOMAIN inbox} :
    frame.kind = "property" =>
      EventAddress(frame) \subseteq TrueAddress(topologies[frame.at], frame.path)

(* Only a change of shape can make the monitor stop for want of a map: the *)
(* frame it dies on was sent before the answer to a handshake it owes to a *)
(* structural change.                                                      *)
DiesUnreadyOnlyInAResync ==
  [][status = "running" /\ status' = "notReady" =>
       /\ Present > 1
       /\ \/ outbox # <<>>
          \/ \E i \in 2 .. Len(inbox) : inbox[i].kind = "fullSync"]_vars

(* The monitor that survives asks again, and is answered: it ends, or has  *)
(* the map of the present tree, at the latest when the tree has settled.   *)
EndsOrCatchesUp ==
  [](status = "running" =>
       <>(status # "running" \/ layout = FromFullSync(Tree)))

(* "layout changed, requesting a fresh full sync" (usb_monitor.rs:55): a   *)
(* change of shape is not an error, so the monitor ends only for a payload *)
(* it cannot decode, a tree it cannot use, or a device that went away.     *)
SurvivesALayoutChange == status # "notReady"
=============================================================================
