----------------------------- MODULE LinkProofs -----------------------------
(***************************************************************************)
(* Proofs about the link of a session to a console, for every set of       *)
(* nodes, every initial tree and every bound.                              *)
(*                                                                         *)
(* The inductive invariant is that the frames in flight tell of the        *)
(* console's changes in order (FramesInOrder).  Which tree a map was made  *)
(* of is all that these proofs look at; that a map is true to its tree is  *)
(* taken from AddressProofs.                                               *)
(***************************************************************************)
EXTENDS LinkProps, AddressProofs

(* The part of TypeOK that the console's frames are in step with.          *)
HeardOK ==
  /\ topologies \in Seq(Seq(Node))
  /\ Len(topologies) \in 1 .. MaxTopologies
  /\ connected \in BOOLEAN
  /\ inbox \in Seq(Frame)
  /\ Len(inbox) <= MaxInbox
  /\ \A i \in DOMAIN inbox : inbox[i].at \in 1 .. Present
  /\ seen \in 1 .. Present
  /\ layout = {} <=> capabilities = {}

Inv == HeardOK /\ FramesInOrder /\ MapIsOfToldTopology

-----------------------------------------------------------------------------
(* What a step does to the two queues of frames.                           *)

(* A console that adds a topology keeps those it had.                      *)
LEMMA TopologiesGrow ==
  ASSUME HeardOK, NEW tree \in Edits(Tree),
         topologies' = Append(topologies, tree)
  PROVE  /\ topologies' \in Seq(Seq(Node))
         /\ Present' = Present + 1
         /\ \A k \in 1 .. Present : topologies'[k] = topologies[k]
         /\ topologies'[Present'] = tree
<1>1. Present \in Nat /\ Present >= 1
  BY DEF HeardOK, Present
<1>2. Tree \in Seq(Node)
  BY <1>1, ElementOfSeq DEF HeardOK, Tree, Present
<1>3. tree \in Seq(Node)
  BY <1>2, EditsAreTrees
<1>4. QED BY <1>3, AppendProperties DEF HeardOK, Present

(* A frame that joins the queue comes after the others.                    *)
LEMMA InboxGrows ==
  ASSUME HeardOK, NEW frame \in Frame, inbox' = Append(inbox, frame)
  PROVE  /\ inbox' \in Seq(Frame)
         /\ Len(inbox) \in Nat
         /\ Len(inbox') = Len(inbox) + 1
         /\ DOMAIN inbox = 1 .. Len(inbox)
         /\ DOMAIN inbox' = 1 .. Len(inbox) + 1
         /\ \A i \in 1 .. Len(inbox) : inbox'[i] = inbox[i]
         /\ inbox'[Len(inbox) + 1] = frame
BY AppendProperties, LenProperties DEF HeardOK

(* When the first frame is taken, the others move up.                      *)
LEMMA InboxShrinks ==
  ASSUME HeardOK, inbox # <<>>, inbox' = Tail(inbox)
  PROVE  /\ inbox' \in Seq(Frame)
         /\ Len(inbox) \in Nat /\ Len(inbox) >= 1
         /\ Len(inbox') = Len(inbox) - 1
         /\ DOMAIN inbox = 1 .. Len(inbox)
         /\ DOMAIN inbox' = 1 .. Len(inbox) - 1
         /\ \A i \in 1 .. Len(inbox) - 1 : inbox'[i] = inbox[i + 1]
         /\ Head(inbox) = inbox[1]
<1>1. inbox \in Seq(Frame) /\ Len(inbox) \in Nat /\ DOMAIN inbox = 1 .. Len(inbox)
  BY LenProperties DEF HeardOK
<1>2. Len(inbox) >= 1
  BY <1>1, EmptySeq
<1>3. /\ inbox' \in Seq(Frame)
      /\ Len(inbox') = Len(inbox) - 1
      /\ \A i \in 1 .. Len(inbox') : inbox'[i] = inbox[i + 1]
  BY <1>1, HeadTailProperties
<1>4. DOMAIN inbox' = 1 .. Len(inbox')
  BY <1>3, LenProperties
<1>5. QED BY <1>1, <1>2, <1>3, <1>4

(* The frames a console sends are frames, and speak of its present tree.   *)
LEMMA SentFrames ==
  ASSUME HeardOK
  PROVE  /\ Undecodable \in Frame
         /\ \A tree \in Seq(Node), at \in Nat : FullSync(tree, at) \in Frame
         /\ \A at \in Nat : Structural(at) \in Frame
         /\ \A path \in Seq(Nat) : Property(path) \in Frame
<1>1. Present \in Nat /\ Tree \in Seq(Node)
  BY ElementOfSeq DEF HeardOK, Present, Tree
<1>2. QED BY <1>1 DEF Frame, FullSync, Undecodable, Structural, Property

(* Every frame in flight speaks of a topology the console has had.         *)
LEMMA StampsInRange ==
  ASSUME HeardOK
  PROVE  /\ Present \in Nat /\ Present >= 1
         /\ \A i \in 1 .. Len(inbox) :
              inbox[i] \in Frame /\ inbox[i].at \in 1 .. Present
<1>1. Present \in Nat /\ Present >= 1
  BY DEF HeardOK, Present
<1>2. inbox \in Seq(Frame) /\ \A i \in DOMAIN inbox : inbox[i].at \in 1 .. Present
  BY Zenon DEF HeardOK
<1>3. DOMAIN inbox = 1 .. Len(inbox)
  BY <1>2, LenProperties
<1>4. \A i \in 1 .. Len(inbox) : inbox[i] \in Frame
  BY <1>2, ElementOfSeq
<1>5. QED BY <1>1, <1>2, <1>3, <1>4, Zenon

-----------------------------------------------------------------------------
(* The inductive invariant.                                                *)

(* Nothing is in flight, no map is held.                                   *)
LEMMA InitInv == Init => Inv
<1>1. SUFFICES ASSUME Init PROVE Inv
  OBVIOUS
<1>2. topologies = <<InitialTree>> /\ InitialTree \in Seq(Node)
  BY <1>1, ConsoleAssumption DEF Init, ConsoleInit
<1>3. topologies \in Seq(Seq(Node)) /\ Len(topologies) = 1
  BY <1>2
<1>4. inbox = <<>> /\ inbox \in Seq(Frame) /\ Len(inbox) = 0 /\ DOMAIN inbox = {}
  BY <1>1 DEF Init, ConsoleInit
<1>5. 1 <= MaxTopologies /\ 0 <= MaxInbox
  BY ConsoleAssumption
<1>6. HeardOK
  <2>1. seen = 1 /\ connected = FALSE /\ layout = {} /\ capabilities = {}
    BY <1>1 DEF Init, ConsoleInit, SessionInit
  <2>2. 1 \in 1 .. MaxTopologies /\ 1 \in 1 .. 1
    BY <1>5, ConsoleAssumption
  <2>3. QED BY <1>3, <1>4, <1>5, <2>1, <2>2 DEF HeardOK, Present
<1>7. FramesInOrder
  BY <1>1, <1>4 DEF FramesInOrder, Init, ConsoleInit, SessionInit
<1>8. MapIsOfToldTopology
  BY <1>1 DEF MapIsOfToldTopology, Init, SessionInit
<1>9. QED BY <1>6, <1>7, <1>8 DEF Inv

(* A console may report on its present tree at any time.                   *)
LEMMA ReportKeepsInv ==
  ASSUME Inv, connected, connected', Len(inbox) < MaxInbox,
         NEW frame \in Frame,
         frame.at = Present, frame.kind = "fullSync" => frame.tree = Tree,
         inbox' = Append(inbox, frame),
         UNCHANGED <<topologies, layout, capabilities, seen>>
  PROVE  Inv'
<1> DEFINE n == Len(inbox)
<1>1. /\ inbox' \in Seq(Frame)
      /\ n \in Nat
      /\ Len(inbox') = n + 1
      /\ DOMAIN inbox = 1 .. n
      /\ DOMAIN inbox' = 1 .. n + 1
      /\ \A i \in 1 .. n : inbox'[i] = inbox[i]
      /\ inbox'[n + 1] = frame
  BY InboxGrows DEF Inv
<1>2. Present' = Present /\ Tree' = Tree /\ Present \in Nat /\ Present >= 1
  BY DEF Inv, HeardOK, Present, Tree
<1>3. HeardOK'
  <2>1. \A i \in DOMAIN inbox' : inbox'[i].at \in 1 .. Present
    BY <1>1, <1>2 DEF Inv, HeardOK
  <2>2. Len(inbox') <= MaxInbox
    BY <1>1, ConsoleAssumption
  <2>3. QED BY <1>1, <1>2, <2>1, <2>2 DEF Inv, HeardOK, Present
<1>4. FramesInOrder'
  <2>1. Present = IF n = 0 THEN seen ELSE inbox[n].at
    BY <1>1 DEF Inv, FramesInOrder, NoneAnnounces
  <2>2. \A i \in 1 .. n :
          /\ ~Announces(inbox'[i]) =>
               inbox'[i].at = IF i = 1 THEN seen ELSE inbox'[i - 1].at
          /\ inbox'[i].kind = "fullSync" =>
               inbox'[i].tree = topologies[inbox'[i].at]
          /\ (\A j \in i + 1 .. n + 1 : ~Announces(inbox'[j])) =>
               inbox'[i].at = Present
          /\ \A j \in 1 .. i : seen <= inbox'[j].at /\ inbox'[j].at <= inbox'[i].at
    BY <1>1 DEF Inv, FramesInOrder
  <2>3. /\ inbox'[n + 1].kind = "fullSync" =>
             inbox'[n + 1].tree = topologies[inbox'[n + 1].at]
        /\ inbox'[n + 1].at = Present
    BY <1>1 DEF Tree
  <2>4. Present = IF n + 1 = 1 THEN seen ELSE inbox'[(n + 1) - 1].at
    <3>1. CASE n = 0
      BY <2>1, <3>1
    <3>2. CASE n # 0
      <4>1. (n + 1) - 1 = n /\ n \in 1 .. n /\ n + 1 # 1
        BY <1>1, <3>2
      <4>2. QED BY <1>1, <2>1, <3>2, <4>1
    <3>3. QED BY <3>1, <3>2
  <2>5. NoneAnnounces(inbox)' => seen = Present
    BY <1>1 DEF Inv, FramesInOrder, NoneAnnounces
  <2>6. ASSUME NEW i \in DOMAIN inbox'
        PROVE  /\ ~Announces(inbox'[i]) =>
                    inbox'[i].at = IF i = 1 THEN seen ELSE inbox'[i - 1].at
               /\ inbox'[i].kind = "fullSync" =>
                    inbox'[i].tree = topologies[inbox'[i].at]
               /\ (\A j \in i + 1 .. Len(inbox') : ~Announces(inbox'[j])) =>
                    inbox'[i].at = Present
               /\ \A j \in 1 .. i :
                    seen <= inbox'[j].at /\ inbox'[j].at <= inbox'[i].at
    <3>1. CASE i \in 1 .. n
      BY <1>1, <2>2, <3>1
    <3>2. CASE i = n + 1
      <4>1. \A j \in 1 .. n : seen <= inbox[j].at /\ inbox[j].at <= Present
        BY <1>1, StampsInRange DEF Inv, FramesInOrder
      <4>2. seen <= Present /\ Present <= Present
        BY <1>2 DEF Inv, HeardOK
      <4>3. \A j \in 1 .. n + 1 : seen <= inbox'[j].at /\ inbox'[j].at <= Present
        BY <1>1, <2>3, <4>1, <4>2
      <4>4. QED BY <2>3, <2>4, <3>2, <4>3
    <3>3. QED BY <1>1, <2>6, <3>1, <3>2
  <2>7. QED BY <1>2, <2>5, <2>6 DEF FramesInOrder
<1>5. MapIsOfToldTopology'
  BY DEF Inv, MapIsOfToldTopology
<1>6. QED BY <1>3, <1>4, <1>5 DEF Inv

(* A new topology is announced to whoever is connected.                    *)
LEMMA AnnouncementKeepsInv ==
  ASSUME Inv, CanPost, Present < MaxTopologies,
         NEW tree \in Edits(Tree), topologies' = Append(topologies, tree),
         NEW frame \in Frame, Announces(frame), frame.at = Present + 1,
         frame.kind = "fullSync" => frame.tree = tree,
         inbox' = Append(inbox, frame),
         UNCHANGED <<connected, layout, capabilities, seen>>
  PROVE  Inv'
<1> DEFINE n == Len(inbox)
<1> USE DEF Inv
<1>1. /\ topologies' \in Seq(Seq(Node))
      /\ Present' = Present + 1
      /\ \A k \in 1 .. Present : topologies'[k] = topologies[k]
      /\ topologies'[Present'] = tree
  BY TopologiesGrow
<1>2. /\ Present \in Nat /\ Present >= 1 /\ seen \in 1 .. Present
      /\ Present' \in 1 .. MaxTopologies
  BY <1>1, ConsoleAssumption DEF HeardOK, Present
<1>3. MapIsOfToldTopology'
  BY <1>1, <1>2 DEF MapIsOfToldTopology
<1>4. /\ inbox' \in Seq(Frame)
      /\ n \in Nat
      /\ Len(inbox') = n + 1
      /\ DOMAIN inbox = 1 .. n
      /\ DOMAIN inbox' = 1 .. n + 1
      /\ \A i \in 1 .. n : inbox'[i] = inbox[i]
      /\ inbox'[n + 1] = frame
  BY InboxGrows
<1>5. HeardOK'
  <2>1. \A i \in 1 .. n : inbox'[i].at \in 1 .. Present'
    <3>1. 1 .. Present \subseteq 1 .. Present'
      BY <1>1, <1>2
    <3>2. QED BY <1>4, <3>1, StampsInRange, Zenon
  <2>2. inbox'[n + 1].at \in 1 .. Present'
    BY <1>1, <1>2, <1>4
  <2>3. \A i \in DOMAIN inbox' : inbox'[i].at \in 1 .. Present'
    BY <1>4, <2>1, <2>2
  <2>4. Len(inbox') <= MaxInbox
    BY <1>4, ConsoleAssumption DEF CanPost
  <2>5. QED BY <1>1, <1>2, <1>4, <2>3, <2>4 DEF HeardOK, Present
<1>6. FramesInOrder'
  <2>1. ASSUME NEW i \in 1 .. n
        PROVE  /\ ~Announces(inbox'[i]) =>
                    inbox'[i].at = IF i = 1 THEN seen ELSE inbox'[i - 1].at
               /\ inbox'[i].kind = "fullSync" =>
                    inbox'[i].tree = topologies'[inbox'[i].at]
               /\ ~ \A j \in i + 1 .. n + 1 : ~Announces(inbox'[j])
               /\ \A j \in 1 .. i :
                    seen <= inbox'[j].at /\ inbox'[j].at <= inbox'[i].at
    <3>1. inbox[i].at \in 1 .. Present /\ inbox'[i] = inbox[i]
      BY <1>4, StampsInRange, Zenon
    <3>2. ~Announces(inbox[i]) =>
            inbox[i].at = IF i = 1 THEN seen ELSE inbox[i - 1].at
      BY <1>4 DEF FramesInOrder
    <3>3. i # 1 => inbox'[i - 1] = inbox[i - 1]
      BY <1>4
    <3>4. inbox[i].kind = "fullSync" => inbox[i].tree = topologies'[inbox[i].at]
      BY <1>1, <1>4, <3>1 DEF FramesInOrder
    <3>5. n + 1 \in i + 1 .. n + 1
      BY <1>4
    <3>6. \A j \in 1 .. i : seen <= inbox'[j].at /\ inbox'[j].at <= inbox'[i].at
      BY <1>4 DEF FramesInOrder
    <3>7. QED BY <1>4, <3>1, <3>2, <3>3, <3>4, <3>5, <3>6
  <2>2. ~NoneAnnounces(inbox)'
    BY <1>4 DEF NoneAnnounces
  <2>3. \A j \in 1 .. n + 1 : seen <= inbox'[j].at /\ inbox'[j].at <= Present'
    <3>1. \A j \in 1 .. n :
            seen <= inbox[j].at /\ inbox[j].at <= Present /\ inbox[j].at \in Nat
      BY <1>4, StampsInRange DEF FramesInOrder
    <3>2. TAKE j \in 1 .. n + 1
    <3>3. CASE j \in 1 .. n
      <4>1. inbox'[j] = inbox[j]
        BY <1>4, <3>3
      <4>2. QED BY <1>1, <1>2, <3>1, <3>3, <4>1
    <3>4. CASE j = n + 1
      BY <1>1, <1>2, <1>4, <3>4
    <3>5. QED BY <1>4, <3>3, <3>4
  <2>4. ASSUME NEW i \in DOMAIN inbox'
        PROVE  /\ ~Announces(inbox'[i]) =>
                    inbox'[i].at = IF i = 1 THEN seen ELSE inbox'[i - 1].at
               /\ inbox'[i].kind = "fullSync" =>
                    inbox'[i].tree = topologies'[inbox'[i].at]
               /\ (\A j \in i + 1 .. n + 1 : ~Announces(inbox'[j])) =>
                    inbox'[i].at = Present'
               /\ \A j \in 1 .. i :
                    seen <= inbox'[j].at /\ inbox'[j].at <= inbox'[i].at
    <3>1. CASE i \in 1 .. n
      BY <2>1, <3>1
    <3>2. CASE i = n + 1
      BY <1>1, <1>4, <2>3, <3>2
    <3>3. i \in 1 .. n \/ i = n + 1
      BY <1>4
    <3>4. QED BY <3>1, <3>2, <3>3, Zenon
  <2>5. QED BY <1>4, <2>2, <2>4 DEF FramesInOrder, CanPost
<1>7. QED BY <1>3, <1>5, <1>6

(* With nobody connected there is nobody to be told.                       *)
LEMMA UnannouncedChangeKeepsInv ==
  ASSUME Inv, ~connected, Present < MaxTopologies,
         NEW tree \in Edits(Tree), topologies' = Append(topologies, tree),
         UNCHANGED <<connected, inbox, outbox, layout, capabilities, seen>>
  PROVE  Inv'
<1> USE DEF Inv
<1>1. /\ topologies' \in Seq(Seq(Node))
      /\ Present' = Present + 1
      /\ \A k \in 1 .. Present : topologies'[k] = topologies[k]
  BY TopologiesGrow
<1>2. /\ Present \in Nat /\ seen \in 1 .. Present
      /\ Present' \in 1 .. MaxTopologies
  BY <1>1, ConsoleAssumption DEF HeardOK, Present
<1>3. inbox = <<>> /\ DOMAIN inbox = {}
  BY DEF FramesInOrder
<1>4. HeardOK'
  BY <1>1, <1>2, <1>3 DEF HeardOK, Present
<1>5. FramesInOrder'
  BY <1>3 DEF FramesInOrder
<1>6. MapIsOfToldTopology'
  BY <1>1, <1>2 DEF MapIsOfToldTopology
<1>7. QED BY <1>4, <1>5, <1>6

(* Whatever frame is read, the map stays that of the topology told of.     *)
LEMMA ReceiveKeepsInv ==
  ASSUME Inv, Receive
  PROVE  Inv'
<1> DEFINE n == Len(inbox)
           frame == inbox[1]
<1> USE DEF Inv
<1>1. /\ inbox' \in Seq(Frame)
      /\ n \in Nat /\ n >= 1
      /\ Len(inbox') = n - 1
      /\ DOMAIN inbox = 1 .. n
      /\ DOMAIN inbox' = 1 .. n - 1
      /\ \A i \in 1 .. n - 1 : inbox'[i] = inbox[i + 1]
      /\ Head(inbox) = frame
  BY InboxShrinks DEF Receive
<1>2. /\ UNCHANGED <<topologies, connected>>
      /\ seen' = frame.at
      /\ Ingest(frame)
      /\ Present' = Present /\ Present \in Nat
  BY <1>1 DEF Receive, Present, HeardOK
<1>3. frame.at \in 1 .. Present /\ frame \in Frame
  <2>1. 1 \in 1 .. n
    BY <1>1
  <2>2. QED BY <2>1, StampsInRange, Zenon
<1>4. connected
  BY <1>1 DEF FramesInOrder
<1>5. MapIsOfToldTopology'
  <2>1. CASE frame.kind = "fullSync"
    <3>1. frame.tree = topologies[frame.at]
      BY <1>1, <2>1 DEF FramesInOrder
    <3>2. /\ layout' = FromFullSync(frame.tree)
          /\ capabilities' = {Discover(frame.tree, l) : l \in FromFullSync(frame.tree)}
      BY <1>2, <2>1 DEF Ingest, IngestFullSync
    <3>3. QED BY <1>2, <3>1, <3>2 DEF MapIsOfToldTopology
  <2>2. CASE frame.kind = "structural"
    <3>1. layout' = {} /\ capabilities' = {}
      BY <1>2, <2>2 DEF Ingest, Reset
    <3>2. QED BY <3>1 DEF MapIsOfToldTopology
  <2>3. CASE frame.kind \notin {"fullSync", "structural"}
    <3>1. UNCHANGED <<layout, capabilities>>
      BY <1>2, <2>3 DEF Ingest, sessionVars
    <3>2. seen' = seen
      BY <1>1, <1>2, <2>3 DEF FramesInOrder, Announces
    <3>3. QED BY <1>2, <3>1, <3>2 DEF MapIsOfToldTopology
  <2>4. QED BY <2>1, <2>2, <2>3
<1>6. FramesInOrder'
  <2>1. ASSUME NEW i \in 1 .. n - 1
        PROVE  /\ ~Announces(inbox'[i]) =>
                    inbox'[i].at = IF i = 1 THEN seen' ELSE inbox'[i - 1].at
               /\ inbox'[i].kind = "fullSync" =>
                    inbox'[i].tree = topologies[inbox'[i].at]
               /\ (\A j \in i + 1 .. n - 1 : ~Announces(inbox'[j])) =>
                    inbox'[i].at = Present
               /\ \A j \in 1 .. i :
                    seen' <= inbox'[j].at /\ inbox'[j].at <= inbox'[i].at
    <3>1. i + 1 \in 1 .. n /\ inbox'[i] = inbox[i + 1] /\ i + 1 # 1
      BY <1>1
    <3>2. ~Announces(inbox[i + 1]) => inbox[i + 1].at = inbox[i].at
      <4>1. (i + 1) - 1 = i
        OBVIOUS
      <4>2. QED BY <1>1, <3>1, <4>1 DEF FramesInOrder
    <3>3. inbox[i].at = IF i = 1 THEN seen' ELSE inbox'[i - 1].at
      BY <1>1, <1>2
    <3>4. inbox[i + 1].kind = "fullSync" =>
            inbox[i + 1].tree = topologies[inbox[i + 1].at]
      BY <1>1, <3>1 DEF FramesInOrder
    <3>5. ASSUME \A j \in i + 1 .. n - 1 : ~Announces(inbox'[j])
          PROVE  inbox[i + 1].at = Present
      <4>1. ASSUME NEW j \in (i + 1) + 1 .. n PROVE ~Announces(inbox[j])
        <5>1. j - 1 \in i + 1 .. n - 1 /\ inbox'[j - 1] = inbox[j]
          BY <1>1
        <5>2. QED BY <3>5, <5>1
      <4>2. QED BY <1>1, <3>1, <4>1 DEF FramesInOrder
    <3>6. ASSUME NEW j \in 1 .. i
          PROVE  seen' <= inbox'[j].at /\ inbox'[j].at <= inbox'[i].at
      <4>1. /\ j + 1 \in 1 .. i + 1 /\ j + 1 \in 1 .. n /\ 1 \in 1 .. j + 1
            /\ inbox'[j] = inbox[j + 1]
        BY <1>1
      <4>2. QED BY <1>1, <1>2, <3>1, <4>1 DEF FramesInOrder
    <3>7. QED BY <3>1, <3>2, <3>3, <3>4, <3>5, <3>6
  <2>2. NoneAnnounces(inbox)' => seen' = Present
    <3>1. SUFFICES ASSUME NoneAnnounces(inbox)' PROVE frame.at = Present
      BY <1>2
    <3>2. ASSUME NEW j \in 1 + 1 .. n PROVE ~Announces(inbox[j])
      <4>1. j - 1 \in DOMAIN inbox' /\ inbox'[j - 1] = inbox[j]
        BY <1>1
      <4>2. QED BY <3>1, <4>1 DEF NoneAnnounces
    <3>3. QED BY <1>1, <3>2 DEF FramesInOrder
  <2>3. QED BY <1>1, <1>2, <1>4, <2>1, <2>2 DEF FramesInOrder
<1>7. HeardOK'
  <2>1. \A i \in DOMAIN inbox' : inbox'[i].at \in 1 .. Present
    <3>1. \A i \in 1 .. n - 1 : i + 1 \in 1 .. n
      BY <1>1
    <3>2. QED BY <1>1, <3>1, StampsInRange, Zenon
  <2>2. Len(inbox') <= MaxInbox
    BY <1>1, ConsoleAssumption DEF HeardOK
  <2>3. layout' = {} <=> capabilities' = {}
    BY <1>5 DEF MapIsOfToldTopology
  <2>4. QED BY <1>1, <1>2, <1>3, <2>1, <2>2, <2>3 DEF HeardOK, Present
<1>8. QED BY <1>5, <1>6, <1>7

(* A write is echoed as a property of the present tree, or not at all.     *)
LEMMA ConsoleStepKeepsInv ==
  ASSUME Inv, ConsoleStep
  PROVE  Inv'
<1> USE DEF Inv
<1>1. UNCHANGED <<layout, capabilities, seen>>
  BY DEF ConsoleStep
<1>2. Tree \in Seq(Node) /\ Present \in Nat
  BY ElementOfSeq DEF HeardOK, Tree, Present
<1>3. CASE ChangeShape
  <2>1. PICK tree \in Edits(Tree) : topologies' = Append(topologies, tree)
    BY <1>3 DEF ChangeShape
  <2>2. Present < MaxTopologies /\ UNCHANGED <<connected, outbox>>
    BY <1>3 DEF ChangeShape
  <2>3. CASE CanPost /\ inbox' = Append(inbox, Structural(Present + 1))
    <3>1. /\ Structural(Present + 1) \in Frame
          /\ Structural(Present + 1).kind = "structural"
          /\ Structural(Present + 1).at = Present + 1
      BY <1>2, SentFrames DEF Structural
    <3>2. QED BY <1>1, <2>1, <2>2, <2>3, <3>1, AnnouncementKeepsInv DEF Announces
  <2>4. CASE ~connected /\ UNCHANGED inbox
    BY <1>1, <2>1, <2>2, <2>4, UnannouncedChangeKeepsInv
  <2>5. QED BY <1>3, <2>3, <2>4 DEF ChangeShape
<1>4. CASE ReplaceTree
  <2>1. PICK tree \in Edits(Tree) :
          /\ topologies' = Append(topologies, tree)
          /\ inbox' = Append(inbox, FullSync(tree, Present + 1))
    BY <1>4 DEF ReplaceTree
  <2>2. tree \in Seq(Node)
    BY <1>2, EditsAreTrees
  <2>3. /\ FullSync(tree, Present + 1) \in Frame
        /\ FullSync(tree, Present + 1).kind = "fullSync"
        /\ FullSync(tree, Present + 1).tree = tree
        /\ FullSync(tree, Present + 1).at = Present + 1
    BY <1>2, <2>2, SentFrames DEF FullSync
  <2>4. QED BY <1>1, <1>4, <2>1, <2>3, AnnouncementKeepsInv
            DEF ReplaceTree, Announces
<1>5. ASSUME NEW path \in NodePaths(Tree), CanPost,
             inbox' = Append(inbox, Property(path)),
             UNCHANGED <<topologies, connected>>
      PROVE  Inv'
  <2>1. Property(path) \in Frame
    BY <1>2, SentFrames, NodePathsAreSequences
  <2>2. Property(path).kind # "fullSync" /\ Property(path).at = Present
    BY DEF Property
  <2>3. QED BY <1>1, <1>5, <2>1, <2>2, ReportKeepsInv DEF CanPost
<1>6. CASE ChangeProperty
  BY <1>5, <1>6 DEF ChangeProperty
<1>7. CASE SendUndecodable
  <2>1. Undecodable \in Frame /\ Undecodable.kind # "fullSync"
        /\ Undecodable.at = Present
    BY SentFrames DEF Undecodable
  <2>2. QED BY <1>1, <1>7, <2>1, ReportKeepsInv DEF SendUndecodable, CanPost
<1>8. CASE AnswerHandshake
  <2>1. /\ FullSync(Tree, Present) \in Frame
        /\ FullSync(Tree, Present).at = Present
        /\ FullSync(Tree, Present).tree = Tree
    BY <1>2, SentFrames DEF FullSync
  <2>2. connected
    BY <1>8 DEF AnswerHandshake, FramesInOrder
  <2>3. QED BY <1>1, <1>8, <2>1, <2>2, ReportKeepsInv DEF AnswerHandshake
<1>9. CASE CarryOutWrite
  <2>1. CASE Head(outbox).path \in NodePaths(Tree)
    BY <1>5, <1>9, <2>1 DEF CarryOutWrite
  <2>2. CASE Head(outbox).path \notin NodePaths(Tree)
    <3>1. UNCHANGED <<topologies, connected, inbox, layout, capabilities, seen>>
          /\ connected
      BY <1>1, <1>9, <2>2 DEF CarryOutWrite, CanPost
    <3>2. QED BY <3>1 DEF HeardOK, FramesInOrder, MapIsOfToldTopology,
                          NoneAnnounces, Present
  <2>3. QED BY <2>1, <2>2
<1>10. QED BY <1>3, <1>4, <1>6, <1>7, <1>8, <1>9 DEF ConsoleStep, ConsoleNext

(* No step of the link breaks the invariant.                               *)
LEMMA NextKeepsInv == Inv /\ [Next]_vars => Inv'
<1>1. SUFFICES ASSUME Inv, [Next]_vars PROVE Inv'
  OBVIOUS
<1> USE <1>1 DEF Inv
<1>2. CASE Connect
  <2>1. inbox = <<>> /\ DOMAIN inbox = {} /\ layout = {}
    BY <1>2 DEF Connect, FramesInOrder
  <2>2. seen' = Present /\ connected' /\ connected' \in BOOLEAN
        /\ UNCHANGED <<topologies, inbox, layout, capabilities>>
    BY <1>2 DEF Connect
  <2>3. HeardOK'
    BY <2>1, <2>2 DEF HeardOK, Present
  <2>4. FramesInOrder'
    BY <2>1, <2>2 DEF FramesInOrder, Present
  <2>5. MapIsOfToldTopology'
    BY <2>1, <2>2 DEF MapIsOfToldTopology
  <2>6. QED BY <2>3, <2>4, <2>5
<1>3. CASE Disconnect
  <2>1. /\ inbox' = <<>> /\ outbox' = <<>> /\ layout' = {} /\ capabilities' = {}
        /\ connected' = FALSE
        /\ UNCHANGED <<topologies, seen>>
    BY <1>3 DEF Disconnect, Reset
  <2>2. inbox' \in Seq(Frame) /\ Len(inbox') = 0 /\ DOMAIN inbox' = {}
    BY <2>1
  <2>3. HeardOK'
    <3>1. 0 <= MaxInbox
      BY ConsoleAssumption
    <3>2. \A i \in DOMAIN inbox' : inbox'[i].at \in 1 .. Present'
      BY <2>2
    <3>3. connected' \in BOOLEAN /\ (layout' = {} <=> capabilities' = {})
      BY <2>1
    <3>4. QED BY <2>1, <2>2, <3>1, <3>2, <3>3 DEF HeardOK, Present
  <2>4. FramesInOrder'
    BY <2>1, <2>2 DEF FramesInOrder
  <2>5. MapIsOfToldTopology'
    BY <2>1 DEF MapIsOfToldTopology
  <2>6. QED BY <2>3, <2>4, <2>5
<1>4. CASE Receive
  BY <1>4, ReceiveKeepsInv
<1>5. CASE SendCommand
  <2>1. UNCHANGED <<topologies, connected, inbox, layout, capabilities, seen>>
        /\ connected
    BY <1>5 DEF SendCommand
  <2>2. QED BY <2>1 DEF HeardOK, FramesInOrder, MapIsOfToldTopology,
                        NoneAnnounces, Present
<1>6. CASE ConsoleStep
  BY <1>6, ConsoleStepKeepsInv
<1>7. CASE UNCHANGED vars
  BY <1>7 DEF vars, HeardOK, FramesInOrder, MapIsOfToldTopology,
              NoneAnnounces, Present
<1>8. QED BY <1>2, <1>3, <1>4, <1>5, <1>6, <1>7 DEF Next

-----------------------------------------------------------------------------
(* The results.                                                            *)

(* The frames in flight tell of the console's changes in order.            *)
THEOREM LinkOrder == Spec => []FramesInOrder
<1>1. Spec => []Inv
  BY InitInv, NextKeepsInv, PTL DEF Spec
<1>2. Inv => FramesInOrder
  BY DEF Inv
<1>3. QED BY <1>1, <1>2, PTL

(* The map a session encodes and decodes through is always the one of the  *)
(* topology its client was last told of: no interleaving leaves it stale.  *)
THEOREM LinkMap == Spec => []MapIsOfToldTopology
<1>1. Spec => []Inv
  BY InitInv, NextKeepsInv, PTL DEF Spec
<1>2. Inv => MapIsOfToldTopology
  BY DEF Inv
<1>3. QED BY <1>1, <1>2, PTL

(* A ready session whose map is out of date has an announcement coming.    *)
THEOREM LinkAnnounced == Spec => []StaleMapIsAnnounced
<1>1. Spec => []Inv
  BY InitInv, NextKeepsInv, PTL DEF Spec
<1>2. Inv => StaleMapIsAnnounced
  <2>1. SUFFICES ASSUME Inv, layout # {}, layout # FromFullSync(Tree)
                 PROVE  \E i \in DOMAIN inbox : Announces(inbox[i])
    BY DEF StaleMapIsAnnounced
  <2>2. seen # Present
    BY <2>1 DEF Inv, MapIsOfToldTopology, Tree
  <2>3. connected
    BY <2>1 DEF Inv, FramesInOrder
  <2>4. QED BY <2>2, <2>3, <2>1 DEF Inv, FramesInOrder, NoneAnnounces
<1>3. QED BY <1>1, <1>2, PTL

(* An event is attributed to the node whose property changed, as the tree  *)
(* was when it changed: the head of the queue, if it is an event, speaks   *)
(* of the topology the session's map was made of, and a map is true.       *)
THEOREM LinkEvents == Spec => []EventsNameTheRightNode
<1>1. Spec => []Inv
  BY InitInv, NextKeepsInv, PTL DEF Spec
<1>2. Inv => EventsNameTheRightNode
  <2>1. SUFFICES ASSUME Inv, NEW i \in DOMAIN inbox, Head(inbox).kind = "property",
                        NEW a \in EventAddress(Head(inbox))
                 PROVE  a \in TrueAddress(topologies[Head(inbox).at], Head(inbox).path)
    BY DEF EventsNameTheRightNode
  <2> USE <2>1 DEF Inv
  <2>2. inbox \in Seq(Frame) /\ Len(inbox) \in Nat /\ DOMAIN inbox = 1 .. Len(inbox)
    BY LenProperties DEF HeardOK
  <2>3. 1 \in 1 .. Len(inbox) /\ inbox # <<>> /\ Head(inbox) = inbox[1]
    BY <2>2
  <2> DEFINE frame == inbox[1]
  <2>4. frame \in Frame /\ frame.kind = "property"
    BY <2>2, <2>3, ElementOfSeq
  <2>5. frame.path \in Seq(Nat)
    BY <2>4 DEF Frame
  <2>6. frame.at = seen
    BY <2>2, <2>3, <2>4 DEF FramesInOrder, Announces
  <2>7. topologies[seen] \in Seq(Node)
    BY ElementOfSeq DEF HeardOK, Present
  <2>8. PICK l \in layout : a \in Resolve(l, frame.path)
    BY <2>3 DEF EventAddress
  <2>9. l \in FromFullSync(topologies[seen])
    BY <2>8 DEF MapIsOfToldTopology
  <2>10. TrueAddress(topologies[seen], frame.path) = {a}
    <3> HIDE DEF frame
    <3>1. QED BY <2>5, <2>7, <2>8, <2>9, ResolvedAddressIsTrue
  <2>11. QED BY <2>3, <2>6, <2>10
<1>3. QED BY <1>1, <1>2, PTL

(* A write in flight is one, carries the stamp of a topology the console   *)
(* has had, and was encoded for the node that it names there.              *)
Meant(message, trees) ==
  message.kind = "write" =>
    /\ message.at \in 1 .. Len(trees)
    /\ message.path \in NodePaths(trees[message.at])
    /\ TrueAddress(trees[message.at], message.path) = {message.meant}

WritesMean ==
  /\ outbox \in Seq(Message)
  /\ \A i \in DOMAIN outbox : Meant(outbox[i], topologies)

(* A message joins the queue to the console.                               *)
LEMMA SendKeepsWrites ==
  ASSUME WritesMean, NEW message \in Message, Meant(message, topologies),
         outbox' = Append(outbox, message), UNCHANGED topologies
  PROVE  WritesMean'
<1>1. /\ outbox' \in Seq(Message) /\ DOMAIN outbox = 1 .. Len(outbox)
      /\ Len(outbox) \in Nat /\ DOMAIN outbox' = 1 .. Len(outbox) + 1
      /\ \A i \in 1 .. Len(outbox) : outbox'[i] = outbox[i]
      /\ outbox'[Len(outbox) + 1] = message
  BY AppendProperties, LenProperties DEF WritesMean
<1>2. \A i \in 1 .. Len(outbox) + 1 : i \in 1 .. Len(outbox) \/ i = Len(outbox) + 1
  BY <1>1
<1>3. \A i \in DOMAIN outbox' : Meant(outbox'[i], topologies)
  BY <1>1, <1>2, Zenon DEF WritesMean
<1>4. QED BY <1>1, <1>3 DEF WritesMean

(* The console takes the first message.                                    *)
LEMMA TakeKeepsWrites ==
  ASSUME WritesMean, outbox # <<>>, outbox' = Tail(outbox), UNCHANGED topologies
  PROVE  WritesMean'
<1>1. outbox \in Seq(Message) /\ Len(outbox) \in Nat /\ DOMAIN outbox = 1 .. Len(outbox)
  BY LenProperties DEF WritesMean
<1>2. /\ outbox' \in Seq(Message)
      /\ Len(outbox') = Len(outbox) - 1
      /\ \A i \in 1 .. Len(outbox') : outbox'[i] = outbox[i + 1]
  BY <1>1, HeadTailProperties
<1>3. DOMAIN outbox' = 1 .. Len(outbox')
  BY <1>2, LenProperties
<1>4. \A i \in DOMAIN outbox' : i + 1 \in DOMAIN outbox /\ outbox'[i] = outbox[i + 1]
  BY <1>1, <1>2, <1>3
<1>5. \A i \in DOMAIN outbox' : Meant(outbox'[i], topologies)
  BY <1>4, Zenon DEF WritesMean
<1>6. QED BY <1>2, <1>5 DEF WritesMean

(* What a write meant stays so, whatever the console becomes.              *)
LEMMA ChangeKeepsWrites ==
  ASSUME HeardOK, WritesMean, NEW tree \in Edits(Tree),
         topologies' = Append(topologies, tree), UNCHANGED outbox
  PROVE  WritesMean'
<1>1. /\ Present' = Present + 1 /\ Present \in Nat
      /\ \A k \in 1 .. Present : topologies'[k] = topologies[k]
  BY TopologiesGrow DEF HeardOK, Present
<1>2. ASSUME NEW i \in DOMAIN outbox PROVE Meant(outbox[i], topologies')
  <2>1. Meant(outbox[i], topologies)
    BY DEF WritesMean
  <2>2. \A k \in 1 .. Present : k \in 1 .. Present + 1
    BY <1>1
  <2>3. \A k \in 1 .. Present : k \in 1 .. Present' /\ topologies'[k] = topologies[k]
    BY <1>1, <2>2, Zenon
  <2>4. QED BY <2>1, <2>3, Zenon DEF Meant, Present
<1>3. QED BY <1>2 DEF WritesMean

(* No step makes a write mean another node than it was encoded for.        *)
LEMMA NextKeepsWrites == Inv /\ WritesMean /\ [Next]_vars => WritesMean'
<1>1. SUFFICES ASSUME Inv, WritesMean, [Next]_vars PROVE WritesMean'
  OBVIOUS
<1> USE <1>1 DEF Inv
<1>2. Handshake \in Message /\ Handshake.kind # "write"
  BY DEF Message, Handshake
<1>3. Meant(Handshake, topologies)
  BY <1>2 DEF Meant
<1>4. CASE Connect
  <2>1. outbox' = <<Handshake>> /\ UNCHANGED topologies
    BY <1>4 DEF Connect
  <2>2. outbox' \in Seq(Message) /\ DOMAIN outbox' = {1} /\ outbox'[1] = Handshake
    BY <1>2, <2>1
  <2>3. QED BY <1>3, <2>1, <2>2 DEF WritesMean
<1>5. CASE Disconnect
  <2>1. outbox' = <<>> /\ outbox' \in Seq(Message) /\ DOMAIN outbox' = {}
    BY <1>5 DEF Disconnect
  <2>2. QED BY <2>1 DEF WritesMean
<1>6. CASE Receive
  <2>1. UNCHANGED topologies /\ (UNCHANGED outbox \/ outbox' = Append(outbox, Handshake))
    BY <1>6 DEF Receive
  <2>2. CASE UNCHANGED outbox
    BY <2>1, <2>2 DEF WritesMean
  <2>3. QED BY <1>2, <1>3, <2>1, <2>2, SendKeepsWrites
<1>7. CASE SendCommand
  <2> PICK address \in Targets : \E path \in EncodedPath(address) :
          outbox' = Append(outbox, Write(path, address, seen))
    BY <1>7 DEF SendCommand
  <2>1. PICK path \in EncodedPath(address) :
          outbox' = Append(outbox, Write(path, address, seen))
    OBVIOUS
  <2>2. PICK l \in layout : path \in PathOf(l, address)
    BY DEF EncodedPath
  <2>3. topologies[seen] \in Seq(Node) /\ seen \in 1 .. Len(topologies) /\ seen \in Nat
    BY ElementOfSeq DEF HeardOK, Present
  <2>4. l \in FromFullSync(topologies[seen])
    BY <2>2 DEF MapIsOfToldTopology
  <2>5. address \in AllAddresses
    BY LinkAssumption
  <2>6. /\ path \in NodePaths(topologies[seen])
        /\ TrueAddress(topologies[seen], path) = {address}
    BY <2>2, <2>3, <2>4, <2>5, EncodedPathsAreTrue
  <2>7. path \in Seq(Nat)
    BY <2>3, <2>6, NodePathsAreSequences
  <2>8. /\ Write(path, address, seen) \in Message
        /\ Meant(Write(path, address, seen), topologies)
    BY <2>3, <2>5, <2>6, <2>7 DEF Write, Message, Meant
  <2>9. QED BY <1>7, <2>1, <2>8, SendKeepsWrites DEF SendCommand
<1>8. CASE ConsoleStep
  <2>1. CASE ChangeShape \/ ReplaceTree
    <3>1. PICK tree \in Edits(Tree) : topologies' = Append(topologies, tree)
      BY <2>1 DEF ChangeShape, ReplaceTree
    <3>2. QED BY <2>1, <3>1, ChangeKeepsWrites DEF ChangeShape, ReplaceTree
  <2>2. CASE ChangeProperty \/ SendUndecodable
    BY <2>2 DEF ChangeProperty, SendUndecodable, WritesMean
  <2>3. CASE AnswerHandshake \/ CarryOutWrite
    BY <2>3, TakeKeepsWrites DEF AnswerHandshake, CarryOutWrite
  <2>4. QED BY <1>8, <2>1, <2>2, <2>3 DEF ConsoleStep, ConsoleNext
<1>9. CASE UNCHANGED vars
  BY <1>9 DEF vars, WritesMean
<1>10. QED BY <1>4, <1>5, <1>6, <1>7, <1>8, <1>9 DEF Next

(* Nothing is on its way to begin with.                                    *)
LEMMA InitWrites == Init => WritesMean
<1>1. SUFFICES ASSUME Init PROVE WritesMean
  OBVIOUS
<1>2. outbox = <<>> /\ outbox \in Seq(Message) /\ DOMAIN outbox = {}
  BY <1>1 DEF Init, ConsoleInit
<1>3. QED BY <1>2 DEF WritesMean

(* A write lands on the node it was meant for unless the console changed   *)
(* since it was encoded: every write keeps the meaning it had under the    *)
(* topology it was encoded for.                                            *)
THEOREM LinkWrites == Spec => []StrayWritesCrossAChange
<1>2. Spec => [](Inv /\ WritesMean)
  BY InitWrites, InitInv, NextKeepsInv, NextKeepsWrites, PTL DEF Spec
<1>3. Inv /\ WritesMean => StrayWritesCrossAChange
  <2>1. SUFFICES ASSUME Inv, WritesMean, NEW i \in DOMAIN outbox,
                        outbox[i].kind = "write", ~(outbox[i].at < Present)
                 PROVE  /\ outbox[i].path \in NodePaths(Tree)
                        /\ TrueAddress(Tree, outbox[i].path) = {outbox[i].meant}
    BY DEF StrayWritesCrossAChange
  <2>2. Meant(outbox[i], topologies)
    BY <2>1 DEF WritesMean
  <2>3. Present \in Nat
    BY <2>1 DEF Inv, HeardOK, Present
  <2>4. outbox[i].at = Present
    BY <2>1, <2>2, <2>3 DEF Meant, Present
  <2>5. QED BY <2>1, <2>2, <2>4 DEF Meant, Tree
<1>4. QED BY <1>2, <1>3, PTL

(* The link implements an address book: the client is told of topologies   *)
(* in the order the console had them, learns the map of the one it was     *)
(* told of last, and never carries a map over to another topology.         *)
THEOREM LinkRefinesAddressBook == Spec => ImplementsAddressBook
<1>1. Init => Book!Init
  BY DEF Init, SessionInit, ConsoleInit, Book!Init
<1>2. Inv /\ [Next]_vars => [Book!Change \/ Book!Hear \/ Book!Learn]_(Book!bookVars)
  <2>1. SUFFICES ASSUME Inv, [Next]_vars
                 PROVE  \/ Book!Change \/ Book!Hear \/ Book!Learn
                        \/ UNCHANGED Book!bookVars
    OBVIOUS
  <2> USE <2>1 DEF Inv
  <2>2. seen \in 1 .. Len(topologies) /\ Len(topologies) \in Nat
    BY DEF HeardOK, Present
  <2>3. CASE Connect
    <3>1. layout' = {} /\ seen' = Len(topologies) /\ UNCHANGED topologies
      BY <2>3 DEF Connect, FramesInOrder, Present
    <3>2. QED BY <2>2, <3>1 DEF Book!Hear
  <2>4. CASE Disconnect
    <3>1. layout' = {} /\ seen' = seen /\ UNCHANGED topologies
      BY <2>4 DEF Disconnect, Reset
    <3>2. QED BY <2>2, <3>1 DEF Book!Hear
  <2>5. CASE Receive
    <3> DEFINE frame == inbox[1]
    <3>1. /\ Head(inbox) = frame /\ 1 \in DOMAIN inbox /\ 1 \in 1 .. Len(inbox)
      BY <2>5, InboxShrinks DEF Receive
    <3>2. Ingest(frame) /\ seen' = frame.at /\ UNCHANGED topologies
      BY <2>5, <3>1 DEF Receive
    <3>3. frame.at \in 1 .. Len(topologies) /\ seen <= frame.at
      BY <3>1, StampsInRange DEF FramesInOrder, Present
    <3>4. CASE frame.kind = "fullSync"
      <4>1. frame.tree = topologies[seen'] /\ seen' \in seen .. Len(topologies)
        BY <2>2, <3>1, <3>2, <3>3, <3>4 DEF FramesInOrder
      <4>2. layout' = FromFullSync(frame.tree)
        BY <3>2, <3>4 DEF Ingest, IngestFullSync
      <4>3. QED BY <3>2, <4>1, <4>2 DEF Book!Learn
    <3>5. CASE frame.kind = "structural"
      <4>1. layout' = {}
        BY <3>2, <3>5 DEF Ingest, Reset
      <4>2. QED BY <2>2, <3>2, <3>3, <4>1 DEF Book!Hear
    <3>6. CASE frame.kind \notin {"fullSync", "structural"}
      <4>1. seen' = seen /\ layout' = layout
        BY <3>1, <3>2, <3>6 DEF FramesInOrder, Announces, Ingest, sessionVars
      <4>2. QED BY <3>2, <4>1 DEF Book!bookVars
    <3>7. QED BY <3>4, <3>5, <3>6
  <2>6. CASE SendCommand
    BY <2>6 DEF SendCommand, Book!bookVars
  <2>7. CASE ConsoleStep
    <3>1. UNCHANGED <<layout, seen>>
      BY <2>7 DEF ConsoleStep
    <3>2. CASE ChangeShape \/ ReplaceTree
      BY <3>1, <3>2 DEF ChangeShape, ReplaceTree, Tree, Present, Book!Change
    <3>3. CASE UNCHANGED topologies
      BY <3>1, <3>3 DEF Book!bookVars
    <3>4. QED BY <2>7, <3>2, <3>3
          DEF ConsoleStep, ConsoleNext, ChangeProperty, SendUndecodable,
              AnswerHandshake, CarryOutWrite
  <2>8. CASE UNCHANGED vars
    BY <2>8 DEF vars, Book!bookVars
  <2>9. QED BY <2>3, <2>4, <2>5, <2>6, <2>7, <2>8 DEF Next
<1>3. QED BY <1>1, <1>2, InitInv, NextKeepsInv, PTL
      DEF Spec, ImplementsAddressBook, Book!Spec

-----------------------------------------------------------------------------
(* The queue to the console.                                               *)

(* A structural frame is news to whoever reads it, and no more messages    *)
(* are queued than the client may have on its way and one handshake for    *)
(* every change that it has heard of.                                      *)
ShapesAreNews ==
  \A i \in DOMAIN inbox :
    inbox[i].kind = "structural" =>
      inbox[i].at > IF i = 1 THEN seen ELSE inbox[i - 1].at

OutboxInv ==
  /\ ShapesAreNews
  /\ Len(outbox) <= MaxOutbox + seen - 1

(* A frame that joins the queue is news if it says so.                     *)
LEMMA PostKeepsNews ==
  ASSUME HeardOK, ShapesAreNews, NEW frame \in Frame,
         frame.kind = "structural" => frame.at > Present,
         inbox' = Append(inbox, frame), UNCHANGED seen
  PROVE  ShapesAreNews'
<1> DEFINE n == Len(inbox)
<1>1. /\ n \in Nat
      /\ DOMAIN inbox = 1 .. n
      /\ DOMAIN inbox' = 1 .. n + 1
      /\ \A i \in 1 .. n : inbox'[i] = inbox[i]
      /\ inbox'[n + 1] = frame
  BY InboxGrows
<1>2. Present \in Nat /\ \A i \in 1 .. n : inbox[i].at \in 1 .. Present
  BY StampsInRange
<1>3. seen \in 1 .. Present
  BY DEF HeardOK
<1>4. frame.kind = "structural" => frame.at \in Nat
  BY DEF Frame
<1>5. SUFFICES ASSUME NEW i \in 1 .. n + 1, inbox'[i].kind = "structural"
               PROVE  inbox'[i].at > IF i = 1 THEN seen ELSE inbox'[i - 1].at
  BY <1>1 DEF ShapesAreNews
<1>6. CASE i \in 1 .. n
  <2>1. i # 1 => i - 1 \in 1 .. n
    BY <1>1, <1>6
  <2>2. QED BY <1>1, <1>5, <1>6, <2>1 DEF ShapesAreNews
<1>7. CASE i = n + 1
  <2>1. i # 1 => i - 1 \in 1 .. n
    BY <1>1, <1>7
  <2>2. frame.at > Present /\ frame.at \in Nat
    BY <1>1, <1>4, <1>5, <1>7
  <2>3. CASE i = 1
    <3>1. inbox'[i] = frame /\ frame.at > seen
      BY <1>1, <1>2, <1>3, <1>7, <2>2
    <3>2. QED BY <2>3, <3>1
  <2>4. CASE i # 1
    <3>1. inbox'[i - 1] = inbox[i - 1] /\ inbox[i - 1].at \in 1 .. Present
      BY <1>1, <1>2, <2>1, <2>4
    <3>2. inbox'[i] = frame
      BY <1>1, <1>7
    <3> DEFINE before == inbox[i - 1].at
    <3>3. before \in 1 .. Present
      BY <3>1
    <3> HIDE DEF before
    <3>4. frame.at > before
      BY <1>2, <2>2, <3>3
    <3>5. QED BY <2>4, <3>1, <3>2, <3>4 DEF before
  <2>5. QED BY <2>3, <2>4
<1>8. QED BY <1>1, <1>6, <1>7

(* No step of the link queues a message too many.                          *)
LEMMA NextKeepsOutbox ==
  Inv /\ WritesMean /\ OutboxInv /\ [Next]_vars => OutboxInv'
<1>1. SUFFICES ASSUME Inv, WritesMean, OutboxInv, [Next]_vars PROVE OutboxInv'
  OBVIOUS
<1> USE <1>1 DEF Inv
<1>2. /\ Present \in Nat /\ seen \in 1 .. Present /\ seen \in Nat
      /\ MaxOutbox \in Nat /\ MaxOutbox >= 1
      /\ outbox \in Seq(Message) /\ Len(outbox) \in Nat
  BY LinkAssumption, StampsInRange DEF HeardOK, WritesMean
<1>3. Handshake \in Message
  BY DEF Message
<1>4. CASE Connect
  <2>1. DOMAIN inbox = {} /\ UNCHANGED inbox /\ outbox' = <<Handshake>> /\ seen' = Present
    BY <1>4 DEF Connect, FramesInOrder
  <2>2. Len(outbox') = 1 /\ 1 <= MaxOutbox + seen' - 1
    BY <1>2, <2>1
  <2>3. QED BY <2>1, <2>2 DEF OutboxInv, ShapesAreNews
<1>5. CASE Disconnect
  <2>1. inbox' = <<>> /\ outbox' = <<>> /\ UNCHANGED seen
    BY <1>5 DEF Disconnect
  <2>2. DOMAIN inbox' = {} /\ Len(outbox') = 0 /\ 0 <= MaxOutbox + seen' - 1
    BY <1>2, <2>1
  <2>3. QED BY <2>2 DEF OutboxInv, ShapesAreNews
<1>6. CASE Receive
  <2> DEFINE n == Len(inbox)
             frame == inbox[1]
  <2>1. /\ n \in Nat /\ n >= 1 /\ DOMAIN inbox = 1 .. n
        /\ DOMAIN inbox' = 1 .. n - 1
        /\ \A i \in 1 .. n - 1 : inbox'[i] = inbox[i + 1]
        /\ Head(inbox) = frame
    BY <1>6, InboxShrinks DEF Receive
  <2>2. seen' = frame.at
        /\ outbox' = IF Update(frame) = "needsFullSync"
                     THEN Append(outbox, Handshake) ELSE outbox
    BY <1>6, <2>1 DEF Receive
  <2>3. 1 \in 1 .. n /\ frame.at \in 1 .. Present /\ seen <= frame.at
    <3>1. 1 \in 1 .. n
      BY <2>1
    <3>2. frame.at \in 1 .. Present
      BY <3>1, StampsInRange, Zenon
    <3>3. QED BY <2>1, <3>1, <3>2 DEF FramesInOrder
  <2>4. ShapesAreNews'
    <3>1. SUFFICES ASSUME NEW i \in 1 .. n - 1, inbox'[i].kind = "structural"
                   PROVE  inbox'[i].at > IF i = 1 THEN seen' ELSE inbox'[i - 1].at
      BY <2>1 DEF ShapesAreNews
    <3>2. i + 1 \in 1 .. n /\ i + 1 # 1 /\ (i + 1) - 1 = i /\ inbox'[i] = inbox[i + 1]
      BY <2>1
    <3>3. inbox[i + 1].at > inbox[i].at
      BY <2>1, <3>1, <3>2 DEF OutboxInv, ShapesAreNews
    <3>4. inbox[i].at = IF i = 1 THEN seen' ELSE inbox'[i - 1].at
      <4>1. CASE i = 1
        BY <2>2, <4>1
      <4>2. CASE i # 1
        <5>1. i - 1 \in 1 .. n - 1 /\ (i - 1) + 1 = i
          BY <2>1, <4>2
        <5>2. QED BY <2>1, <4>2, <5>1
      <4>3. QED BY <4>1, <4>2
    <3>5. QED BY <3>2, <3>3, <3>4
  <2>5. CASE Update(frame) = "needsFullSync"
    <3>1. frame.kind = "structural"
      BY <2>5 DEF Update
    <3>2. frame.at > seen
      BY <2>1, <2>3, <3>1 DEF OutboxInv, ShapesAreNews
    <3>3. Len(outbox') = Len(outbox) + 1
      BY <1>2, <1>3, <2>2, <2>5, AppendProperties
    <3>4. Len(outbox) + 1 <= MaxOutbox + frame.at - 1
      BY <1>2, <2>3, <3>2 DEF OutboxInv
    <3>5. QED BY <2>2, <2>4, <3>3, <3>4 DEF OutboxInv
  <2>6. CASE Update(frame) # "needsFullSync"
    <3>1. Len(outbox) <= MaxOutbox + frame.at - 1
      BY <1>2, <2>3 DEF OutboxInv
    <3>2. QED BY <2>2, <2>4, <2>6, <3>1 DEF OutboxInv
  <2>7. QED BY <2>5, <2>6
<1>7. CASE SendCommand
  <2>1. /\ Len(outbox) < MaxOutbox /\ UNCHANGED <<inbox, seen>>
        /\ \E message : outbox' = Append(outbox, message)
    BY <1>7 DEF SendCommand
  <2>2. Len(outbox') = Len(outbox) + 1
    BY <1>2, <2>1
  <2>3. QED BY <1>2, <2>1, <2>2 DEF OutboxInv, ShapesAreNews
<1>8. CASE ConsoleStep
  <2>1. seen' = seen
    BY <1>8 DEF ConsoleStep
  <2>2. ASSUME NEW frame \in Frame, inbox' = Append(inbox, frame),
               frame.kind = "structural" => frame.at > Present
        PROVE  ShapesAreNews'
    BY <2>1, <2>2, PostKeepsNews DEF OutboxInv
  <2>3. Tree \in Seq(Node)
    BY ElementOfSeq DEF HeardOK, Tree, Present
  <2>4. UNCHANGED inbox => ShapesAreNews'
    BY <2>1 DEF OutboxInv, ShapesAreNews
  <2>5. CASE ChangeShape
    <3>1. /\ Structural(Present + 1) \in Frame
          /\ Structural(Present + 1).at > Present
      BY <1>2, SentFrames DEF Structural
    <3>2. ShapesAreNews'
      BY <2>2, <2>4, <2>5, <3>1 DEF ChangeShape
    <3>3. UNCHANGED outbox
      BY <2>5 DEF ChangeShape
    <3>4. QED BY <2>1, <3>2, <3>3 DEF OutboxInv
  <2>6. CASE ReplaceTree
    <3>1. PICK tree \in Edits(Tree) :
                 inbox' = Append(inbox, FullSync(tree, Present + 1))
      BY <2>6 DEF ReplaceTree
    <3>2. tree \in Seq(Node)
      BY <2>3, EditsAreTrees
    <3>3. /\ FullSync(tree, Present + 1) \in Frame
          /\ FullSync(tree, Present + 1).kind # "structural"
      BY <1>2, <3>2, SentFrames DEF FullSync
    <3>4. ShapesAreNews'
      BY <2>2, <3>1, <3>3
    <3>5. UNCHANGED outbox
      BY <2>6 DEF ReplaceTree
    <3>6. QED BY <2>1, <3>4, <3>5 DEF OutboxInv
  <2>7. ASSUME NEW path \in NodePaths(Tree), inbox' = Append(inbox, Property(path))
        PROVE  ShapesAreNews'
    <3>1. Property(path) \in Frame /\ Property(path).kind # "structural"
      BY <2>3, SentFrames, NodePathsAreSequences DEF Property
    <3>2. QED BY <2>2, <2>7, <3>1
  <2>8. CASE ChangeProperty
    <3>1. ShapesAreNews'
      BY <2>7, <2>8 DEF ChangeProperty
    <3>2. UNCHANGED outbox
      BY <2>8 DEF ChangeProperty
    <3>3. QED BY <2>1, <3>1, <3>2 DEF OutboxInv
  <2>9. CASE SendUndecodable
    <3>1. Undecodable \in Frame /\ Undecodable.kind # "structural"
      BY SentFrames DEF Undecodable
    <3>2. ShapesAreNews' /\ UNCHANGED outbox
      BY <2>2, <2>9, <3>1 DEF SendUndecodable
    <3>3. QED BY <2>1, <3>2 DEF OutboxInv
  <2>10. ASSUME outbox # <<>>, outbox' = Tail(outbox)
         PROVE  Len(outbox') <= MaxOutbox + seen' - 1
    <3>1. Len(outbox') = Len(outbox) - 1
      BY <1>2, <2>10, HeadTailProperties
    <3>2. QED BY <1>2, <2>1, <3>1 DEF OutboxInv
  <2>11. CASE AnswerHandshake
    <3>1. /\ FullSync(Tree, Present) \in Frame
          /\ FullSync(Tree, Present).kind # "structural"
      BY <1>2, <2>3, SentFrames DEF FullSync
    <3>2. ShapesAreNews'
      BY <2>2, <2>11, <3>1 DEF AnswerHandshake
    <3>3. QED BY <2>10, <2>11, <3>2 DEF OutboxInv, AnswerHandshake
  <2>12. CASE CarryOutWrite
    <3>1. ShapesAreNews'
      BY <2>4, <2>7, <2>12 DEF CarryOutWrite
    <3>2. QED BY <2>10, <2>12, <3>1 DEF OutboxInv, CarryOutWrite
  <2>13. QED BY <1>8, <2>5, <2>6, <2>8, <2>9, <2>11, <2>12 DEF ConsoleStep, ConsoleNext
<1>9. CASE UNCHANGED vars
  BY <1>9 DEF vars, OutboxInv, ShapesAreNews
<1>10. QED BY <1>4, <1>5, <1>6, <1>7, <1>8, <1>9 DEF Next

(* Every variable of the link keeps its type, the queues their bounds, and *)
(* a session never has two layouts or two sets of capabilities, nor one    *)
(* without the other.                                                      *)
THEOREM LinkTypes == Spec => []TypeOK
<1>1. Init => OutboxInv
  <2>1. SUFFICES ASSUME Init PROVE OutboxInv
    OBVIOUS
  <2>2. inbox = <<>> /\ outbox = <<>> /\ seen = 1
    BY <2>1 DEF Init, ConsoleInit
  <2>3. DOMAIN inbox = {} /\ Len(outbox) = 0 /\ 0 <= MaxOutbox + seen - 1
    BY <2>2, LinkAssumption
  <2>4. QED BY <2>3 DEF OutboxInv, ShapesAreNews
<1>2. Spec => [](Inv /\ WritesMean /\ OutboxInv)
  BY <1>1, InitWrites, InitInv, NextKeepsInv, NextKeepsWrites, NextKeepsOutbox, PTL
     DEF Spec
<1>3. Inv /\ WritesMean /\ OutboxInv => TypeOK
  <2>1. SUFFICES ASSUME Inv, WritesMean, OutboxInv PROVE TypeOK
    OBVIOUS
  <2>2. AtMostOne(layout) /\ AtMostOne(capabilities)
    <3>1. layout = {} \/ layout = FromFullSync(topologies[seen])
      BY <2>1 DEF Inv, MapIsOfToldTopology
    <3>2. AtMostOne(layout)
      BY <3>1 DEF AtMostOne, FromFullSync
    <3>3. capabilities = {Discover(topologies[seen], l) : l \in layout}
      BY <2>1 DEF Inv, MapIsOfToldTopology
    <3>4. QED BY <3>2, <3>3 DEF AtMostOne
  <2>3. outbox \in Seq(Message) /\ Len(outbox) <= MaxOutbox + seen - 1
    BY <2>1 DEF WritesMean, OutboxInv
  <2>4. \A i \in DOMAIN outbox :
          outbox[i].kind = "write" => outbox[i].at \in 1 .. Present
    BY <2>1, Zenon DEF WritesMean, Meant, Present
  <2>5. QED BY <2>1, <2>2, <2>3, <2>4 DEF Inv, HeardOK, TypeOK
<1>4. QED BY <1>2, <1>3, PTL
=============================================================================
