------------------------------ MODULE LinkProps -----------------------------
(***************************************************************************)
(* What a well-behaved client gets from its session.                       *)
(***************************************************************************)
EXTENDS Link

Message == {Handshake} \cup [kind : {"write"}, path : Seq(Nat),
                             meant : AllAddresses, at : Nat]

AtMostOne(S) == \A x, y \in S : x = y

(* Every variable has its type; at most one layout and one set of          *)
(* capabilities is held, both or neither (session.rs 81-82).  A handshake  *)
(* is queued for every structural frame, whatever waits to be sent already *)
(* (SessionUpdate::NeedsFullSync, session.rs 39-41): the queue outgrows    *)
(* MaxOutbox by one message for every change heard of, and no more.        *)
TypeOK ==
  /\ topologies \in Seq(Seq(Node))
  /\ Len(topologies) \in 1 .. MaxTopologies
  /\ connected \in BOOLEAN
  /\ inbox \in Seq(Frame)
  /\ Len(inbox) <= MaxInbox
  /\ \A i \in DOMAIN inbox : inbox[i].at \in 1 .. Present
  /\ outbox \in Seq(Message)
  /\ Len(outbox) <= MaxOutbox + seen - 1
  /\ \A i \in DOMAIN outbox :
       outbox[i].kind = "write" => outbox[i].at \in 1 .. Present
  /\ seen \in 1 .. Present
  /\ AtMostOne(layout) /\ AtMostOne(capabilities)
  /\ layout = {} <=> capabilities = {}

(* The map in use, and the capabilities beside it, are those of the        *)
(* topology the client was last told of, however topology changes, full    *)
(* syncs and other frames interleave: session.rs 117-119, "Never keep      *)
(* encoding through a stale layout".                                       *)
MapIsOfToldTopology ==
  /\ layout # {} => layout = FromFullSync(topologies[seen])
  /\ capabilities = {Discover(topologies[seen], l) : l \in layout}

NoneAnnounces(frames) == \A i \in DOMAIN frames : ~Announces(frames[i])

(* The frames on their way tell of the console's topologies one by one: a  *)
(* frame that announces none speaks of the one announced before it, the    *)
(* last of them all of the present one, none of an earlier one than the    *)
(* frame before it, and a full sync carries the tree it speaks of.  With   *)
(* no announcement on its way, the client has heard of everything.         *)
FramesInOrder ==
  /\ \A i \in DOMAIN inbox :
       /\ ~Announces(inbox[i]) =>
            inbox[i].at = IF i = 1 THEN seen ELSE inbox[i - 1].at
       /\ inbox[i].kind = "fullSync" =>
            inbox[i].tree = topologies[inbox[i].at]
       /\ (\A j \in i + 1 .. Len(inbox) : ~Announces(inbox[j])) =>
            inbox[i].at = Present
       /\ \A j \in 1 .. i : seen <= inbox[j].at /\ inbox[j].at <= inbox[i].at
  /\ connected /\ NoneAnnounces(inbox) => seen = Present
  /\ ~connected => inbox = <<>> /\ outbox = <<>> /\ layout = {}

(* A session that is ready with a map the console has moved on from will   *)
(* hear of it: the frame that invalidates the map, or replaces it, is on   *)
(* its way.                                                                *)
StaleMapIsAnnounced ==
  layout # {} /\ layout # FromFullSync(Tree) =>
    \E i \in DOMAIN inbox : Announces(inbox[i])

(* An event is attributed to the node whose property changed, as the tree  *)
(* was when it changed, even if the console has been reshaped since.       *)
EventsNameTheRightNode ==
  \A frame \in {Head(inbox) : i \in DOMAIN inbox} :
    frame.kind = "property" =>
      EventAddress(frame) \subseteq TrueAddress(topologies[frame.at], frame.path)

(* A write that is about to land anywhere but on the node it was meant for *)
(* was encoded before the client heard of some change: with no change in   *)
(* between, no order of messages makes a command go astray.                *)
StrayWritesCrossAChange ==
  \A i \in DOMAIN outbox :
    outbox[i].kind = "write" =>
      \/ outbox[i].at < Present
      \/ /\ outbox[i].path \in NodePaths(Tree)
         /\ TrueAddress(Tree, outbox[i].path) = {outbox[i].meant}

(* Without its messages, the link is an address book.                      *)
Book == INSTANCE AddressBook
          WITH told <- seen, book <- layout,
               Changed <- Edits, MapOf <- FromFullSync
ImplementsAddressBook == Book!Spec

(* On a connection that stays up the client ends up with the map of the    *)
(* console's tree (or with none, if no map of that tree can be built):     *)
(* every NeedsFullSync leads to a full sync that is not overtaken for good.*)
(* The console's changes are bounded by MaxTopologies.                     *)
Resynchronises ==
  <>[]connected => <>[](layout = FromFullSync(Tree))
=============================================================================
