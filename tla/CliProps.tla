------------------------------ MODULE CliProps ------------------------------
(***************************************************************************)
(* What the interactive client keeps, and where its map goes stale.        *)
(***************************************************************************)
EXTENDS Cli

(* The histories are in range, the reader has a tree left to store exactly *)
(* while it is storing, frames wait to be written only at the loop, and    *)
(* the two stores are locked only to print a cell.                         *)
TypeOK ==
  /\ seen \in 1 .. Present /\ synced \in 0 .. seen
  /\ root \cup parsed \subseteq Seq(Node)
  /\ synced = 0 <=> layout = {}
  /\ reader \in {"reading", "storing", "announcing"}
  /\ reader = "storing" <=> parsed # {}
  /\ \A i \in DOMAIN pending : pending[i].kind = "write"
  /\ pending # <<>> => prompt = "loop"
  /\ held = [stdin |-> "loop",
             layout |-> IF prompt \in {"locking", "dumping"} THEN "prompt" ELSE "nobody",
             root |-> IF prompt = "dumping" THEN "prompt" ELSE "nobody"]
  /\ ~open => ~connected /\ inbox = <<>> /\ outbox = <<>>

(* Though the layout and the tree are stored under two locks, only between *)
(* the two stores can the prompt see one without the other; the layout is  *)
(* always the one of the last full sync that had one (cli.rs 345-346).     *)
StoresAgree ==
  /\ layout = UNION {FromFullSync(t) : t \in IF parsed = {} THEN root ELSE parsed}
  /\ synced > 0 => layout = FromFullSync(topologies[synced])

(* dump-cell counts all MIX nodes of the tree where the layout counts only *)
(* the first run of them (cli.rs 1272-1310).  Except between the two       *)
(* stores, it prints the cell that it was asked for if the layout has its  *)
(* source.  For a source past those, as the CallMe ones are on some        *)
(* firmware (core.rs 284-286), it does not refuse but prints a MIX node of *)
(* a later run, which is nobody's cell: the layout gives it no address.    *)
DumpShowsTheCell ==
  parsed = {} =>
    \A l \in layout, tree \in root :
      \A s \in Ordinals, m \in 0 .. MixPerSource - 1 :
        /\ s < l.sourceCount =>
             MixCellPath(l, s, m) = {<<p>> : p \in DumpedCell(tree, s, m)}
        /\ s >= l.sourceCount =>
             \A p \in DumpedCell(tree, s, m) : Resolve(l, <<p>>) = {}

(* An event is misattributed only after a change the reader was told of    *)
(* and paid no heed to: as long as the layout is of the topology it last   *)
(* heard of, every event names the node whose property changed.            *)
EventsAreRightUntilAChange ==
  \A frame \in {Head(inbox) : i \in DOMAIN inbox} :
    frame.kind = "property" /\ synced = seen =>
      EventAddress(frame) \subseteq TrueAddress(topologies[frame.at], frame.path)

(* A frame that is about to land on another node than the one it was meant *)
(* for was encoded through the map of an earlier topology, whether the     *)
(* change came before, between or after the frames of its command; of a    *)
(* path as typed, nothing is promised.                                     *)
StrayFramesAreOfAnOldMap ==
  \A i \in DOMAIN outbox :
    outbox[i].kind = "write" /\ outbox[i].meant.family # "as typed" =>
      \/ outbox[i].at < Present
      \/ /\ outbox[i].path \in NodePaths(Tree)
         /\ TrueAddress(Tree, outbox[i].path) = {outbox[i].meant}

(* `refresh` repairs the map: a handshake on its way to a console that has *)
(* changed for the last time leads to the map of its tree, unless it has   *)
(* none or the transport fails ("sent handshake; fresh fullSync incoming", *)
(* cli.rs 467).                                                            *)
RefreshRepairsTheMap ==
  (Present = MaxTopologies /\ \E i \in DOMAIN outbox : outbox[i].kind = "handshake")
    ~> (~open \/ ~Supported(Tree) \/ layout = FromFullSync(Tree))

(* However the two threads interleave, neither waits for ever for a lock   *)
(* the other has: a full sync that is being stored gets stored, unless the *)
(* user quits, and a command that is being carried out comes to its end.   *)
NeitherThreadStaysLockedOut ==
  /\ reader # "reading" ~> (reader = "reading" \/ prompt = "ended")
  /\ (pending # <<>> \/ prompt \in {"locking", "dumping"})
       ~> (pending = <<>> /\ prompt = "loop")

(* "really power off? type 'yes' to confirm: " (cli.rs:501): a user who    *)
(* answers is heard, and the prompt comes back.                            *)
PowerAsksForYes == prompt = "confirmation" ~> prompt = "loop"

(* "subsequent change-frames decode against an up-to-date address map"     *)
(* (cli.rs:332-333): every event the reader decodes names the node whose   *)
(* property changed.                                                       *)
ChangeFramesDecodeAgainstAnUpToDateMap ==
  \A frame \in {Head(inbox) : i \in DOMAIN inbox} :
    frame.kind = "property" =>
      EventAddress(frame) \subseteq TrueAddress(topologies[frame.at], frame.path)
=============================================================================
