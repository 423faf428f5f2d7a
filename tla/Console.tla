------------------------------ MODULE Console -------------------------------
(***************************************************************************)
(* The console at the far end of a connection, external to src/: it keeps  *)
(* the tree, announces changes, answers the handshake with a fullSync and  *)
(* carries out property writes.                                            *)
(*                                                                         *)
(* Each direction of the connection is a FIFO queue.  Every message has a  *)
(* stamp `at` that no code reads: for a frame, which of the console's      *)
(* topologies it speaks of; for a write, which one the client had in view. *)
(***************************************************************************)
EXTENDS Topology

CONSTANTS
  InitialTree,
  MaxTopologies,  (* bound on the trees the console goes through           *)
  MaxInbox        (* bound on the frames in flight to the client           *)

ASSUME ConsoleAssumption ==
  /\ InitialTree \in Seq(Node)
  /\ MaxTopologies \in Nat \ {0} /\ MaxInbox \in Nat

VARIABLES
  topologies,  (* the trees the console has had, the present one last      *)
  connected,   (* the console reports to the client                        *)
  inbox,       (* console to client                                        *)
  outbox       (* client to console                                        *)

consoleVars == <<topologies, connected, inbox, outbox>>

Present == Len(topologies)
Tree == topologies[Present]

FullSync(tree, at) == [kind |-> "fullSync", tree |-> tree, at |-> at]
Structural(at) == [kind |-> "structural", at |-> at]
Property(path) == [kind |-> "property", path |-> path, at |-> Present]
Undecodable == [kind |-> "undecodable", at |-> Present]

Frame ==
       [kind : {"fullSync"}, tree : Seq(Node), at : Nat]
  \cup [kind : {"structural", "undecodable"}, at : Nat]
  \cup [kind : {"property"}, path : Seq(Nat), at : Nat]

(* After these the client's map, if it has one, is of another topology.    *)
Announces(frame) == frame.kind \in {"structural", "fullSync"}

Handshake == [kind |-> "handshake"]
Write(path, meant, at) ==
  [kind |-> "write", path |-> path, meant |-> meant, at |-> at]

ConsoleInit ==
  /\ topologies = <<InitialTree>>
  /\ connected = FALSE
  /\ inbox = <<>>
  /\ outbox = <<>>

CanPost == connected /\ Len(inbox) < MaxInbox

(* A child is added, removed or moved.  With nobody connected, nobody is   *)
(* told.                                                                   *)
ChangeShape ==
  /\ Present < MaxTopologies
  /\ \E tree \in Edits(Tree) : topologies' = Append(topologies, tree)
  /\ \/ CanPost /\ inbox' = Append(inbox, Structural(Present + 1))
     \/ ~connected /\ UNCHANGED inbox
  /\ UNCHANGED <<connected, outbox>>

(* The tree is replaced by another one, and sent whole and unasked.        *)
ReplaceTree ==
  /\ CanPost
  /\ Present < MaxTopologies
  /\ \E tree \in Edits(Tree) :
       /\ topologies' = Append(topologies, tree)
       /\ inbox' = Append(inbox, FullSync(tree, Present + 1))
  /\ UNCHANGED <<connected, outbox>>

(* A control is moved, a meter ticks.                                      *)
ChangeProperty ==
  /\ CanPost
  /\ \E path \in NodePaths(Tree) : inbox' = Append(inbox, Property(path))
  /\ UNCHANGED <<topologies, connected, outbox>>

(* A frame this crate has no decoder for.                                  *)
SendUndecodable ==
  /\ CanPost
  /\ inbox' = Append(inbox, Undecodable)
  /\ UNCHANGED <<topologies, connected, outbox>>

(* A console that was silent starts to report.                             *)
AnswerHandshake ==
  /\ Len(inbox) < MaxInbox
  /\ outbox # <<>> /\ Head(outbox).kind = "handshake"
  /\ connected' = TRUE
  /\ inbox' = Append(inbox, FullSync(Tree, Present))
  /\ outbox' = Tail(outbox)
  /\ UNCHANGED topologies

(* A write changes the property of the node now at its path, and is echoed.*)
(* There may no longer be such a node.                                     *)
CarryOutWrite ==
  /\ CanPost
  /\ outbox # <<>> /\ Head(outbox).kind = "write"
  /\ outbox' = Tail(outbox)
  /\ inbox' = IF Head(outbox).path \in NodePaths(Tree)
              THEN Append(inbox, Property(Head(outbox).path)) ELSE inbox
  /\ UNCHANGED <<topologies, connected>>

ConsoleNext == \/ ChangeShape \/ ReplaceTree \/ ChangeProperty
               \/ SendUndecodable \/ AnswerHandshake \/ CarryOutWrite
=============================================================================
