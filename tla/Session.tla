------------------------------ MODULE Session -------------------------------
(***************************************************************************)
(* ProtocolSession (src/src/session.rs): the transport-independent state   *)
(* machine a client feeds with change frames and asks for encodings.       *)
(*                                                                         *)
(* A frame is what change_frame::decode makes of a payload: a fullSync     *)
(* carrying a tree, a structural change (childAdded, childRemoved and      *)
(* childMoved, whose contents no handler reads), a property of the node at *)
(* a path, or a payload that does not decode.                              *)
(***************************************************************************)
EXTENDS Capabilities

VARIABLES
  layout,       (* Option<Layout>: the address map in use                  *)
  capabilities  (* Option<DeviceCapabilities>                              *)

sessionVars == <<layout, capabilities>>

SessionInit == layout = {} /\ capabilities = {}

IsReady == layout # {}

(* The layout outlives its capabilities.                                   *)
ResetKeepingLayout == capabilities' = {} /\ UNCHANGED layout

(* The capabilities outlive their layout.                                  *)
ResetMutant == layout' = {} /\ UNCHANGED capabilities

Reset == layout' = {} /\ capabilities' = {}

(* A sync that makes no layout leaves the old one in use.                  *)
IngestFullSyncMutant(tree) ==
  IF Supported(tree)
  THEN layout' = FromFullSync(tree)
       /\ capabilities' = {Discover(tree, l) : l \in FromFullSync(tree)}
  ELSE UNCHANGED sessionVars

(* A replacement sync supersedes the old map even when no new one can be   *)
(* built from it.                                                          *)
IngestFullSync(tree) ==
  /\ layout' = FromFullSync(tree)
  /\ capabilities' = {Discover(tree, l) : l \in FromFullSync(tree)}

(* Structural frames taken for events.                                     *)
IngestMutant(frame) ==
  IF frame.kind = "fullSync" THEN IngestFullSync(frame.tree)
                             ELSE UNCHANGED sessionVars

Ingest(frame) ==
  CASE frame.kind = "fullSync"   -> IngestFullSync(frame.tree)
    [] frame.kind = "structural" -> Reset
    [] OTHER                     -> UNCHANGED sessionVars

(* A change of shape that is not reported to the client.                   *)
UpdateSilent(frame) ==
  CASE frame.kind = "undecodable" -> "decode"
    [] frame.kind = "fullSync"    -> IF Supported(frame.tree) THEN "ready"
                                                              ELSE "layout"
    [] frame.kind = "structural"  -> "event"
    [] OTHER                      -> IF IsReady THEN "event" ELSE "notReady"

(* Readiness asked for before the kind of the frame is looked at.          *)
UpdateUnready(frame) ==
  CASE frame.kind = "undecodable" -> "decode"
    [] ~IsReady                   -> "notReady"
    [] frame.kind = "fullSync"    -> IF Supported(frame.tree) THEN "ready"
                                                              ELSE "layout"
    [] frame.kind = "structural"  -> "needsFullSync"
    [] OTHER                      -> "event"

(* What ingest returns: a SessionUpdate or the name of a SessionError.     *)
Update(frame) ==
  CASE frame.kind = "undecodable" -> "decode"
    [] frame.kind = "fullSync"    -> IF Supported(frame.tree) THEN "ready"
                                                              ELSE "layout"
    [] frame.kind = "structural"  -> "needsFullSync"
    [] OTHER                      -> IF IsReady THEN "event" ELSE "notReady"

(* The addresses the map gives the node of an incremental event.           *)
EventAddress(frame) == UNION {Resolve(l, frame.path) : l \in layout}

(* The path a command's address encodes to: nothing while the session is   *)
(* not ready (NotReady) or the console has no such node (EncodeError).     *)
EncodedPath(address) == UNION {PathOf(l, address) : l \in layout}
=============================================================================
