--------------------------- MODULE MonitorProofs ----------------------------
(***************************************************************************)
(* Proofs about the USB monitor, for every set of nodes, every initial     *)
(* tree and every bound.                                                   *)
(*                                                                         *)
(* The inductive invariant has the frames in flight in step with the       *)
(* console (ConsoleProofs), the map of the topology last read of, a full   *)
(* sync under way whenever there is no map, and that a console which never *)
(* changed sends the full sync before anything else.                       *)
(***************************************************************************)
EXTENDS UsbMonitor, ConsoleProofs

Holds(messages, kind) == \E i \in DOMAIN messages : messages[i].kind = kind

MapIsOfTopologySeen == layout # {} => layout = FromFullSync(topologies[seen])

(* Before the first change the monitor has its map, or the full sync is    *)
(* the next frame it reads.                                                *)
FullSyncComesFirst ==
  status = "running" /\ connected /\ layout = {} /\ Present = 1 =>
    inbox # <<>> /\ Head(inbox).kind = "fullSync"

Inv ==
  /\ TypeOK
  /\ connected \in BOOLEAN
  /\ outbox \in Seq({Handshake})
  /\ InStep(topologies, connected, inbox, seen)
  /\ MapIsOfTopologySeen
  /\ SyncIsUnderWay
  /\ FullSyncComesFirst
  /\ ~connected => inbox = <<>>
  /\ status = "running" /\ ~connected => layout = {}

-----------------------------------------------------------------------------
(* A message that joins a queue is in it, with those that were.            *)
LEMMA JoinedQueueHolds ==
  ASSUME NEW S, NEW messages \in Seq(S), NEW message
  PROVE  /\ Holds(Append(messages, message), message.kind)
         /\ \A kind : Holds(messages, kind) => Holds(Append(messages, message), kind)
         /\ messages # <<>> => /\ Append(messages, message) # <<>>
                               /\ Head(Append(messages, message)) = Head(messages)
<1>1. Len(messages) \in Nat /\ DOMAIN messages = 1 .. Len(messages)
  BY LenProperties
<1> DEFINE more == Append(messages, message)
<1>2. messages \in Seq(S \cup {message}) /\ message \in S \cup {message}
  BY <1>1, SeqDef
<1>3. /\ more \in Seq(S \cup {message}) /\ Len(more) = Len(messages) + 1
      /\ \A i \in 1 .. Len(messages) : more[i] = messages[i]
      /\ more[Len(messages) + 1] = message
  BY <1>1, <1>2, AppendProperties
<1>4. DOMAIN more = 1 .. Len(messages) + 1
  BY <1>3, LenProperties
<1>5. Len(messages) + 1 \in DOMAIN more
  BY <1>1, <1>4
<1>6. \A i \in DOMAIN messages : i \in DOMAIN more /\ more[i] = messages[i]
  BY <1>1, <1>3, <1>4
<1>7. messages # <<>> => more # <<>> /\ Head(more) = Head(messages)
  <2>1. SUFFICES ASSUME messages # <<>> PROVE more # <<>> /\ Head(more) = Head(messages)
    OBVIOUS
  <2>2. Head(messages) = messages[1] /\ 1 \in DOMAIN messages
    BY <1>1, <2>1, HeadTailProperties, EmptySeq
  <2>3. more # <<>>
    BY <1>5
  <2>4. Head(more) = more[1]
    BY <1>3, <2>3, HeadTailProperties
  <2>5. QED BY <1>6, <2>2, <2>3, <2>4
<1> HIDE DEF more
<1>8. Holds(more, message.kind)
  BY <1>3, <1>5 DEF Holds
<1>9. \A kind : Holds(messages, kind) => Holds(more, kind)
  BY <1>6 DEF Holds
<1>10. QED BY <1>7, <1>8, <1>9 DEF more

(* When the first message leaves, those of any other kind stay.            *)
LEMMA RestHolds ==
  ASSUME NEW S, NEW messages \in Seq(S), messages # <<>>, NEW kind,
         Holds(messages, kind), Head(messages).kind # kind
  PROVE  /\ Holds(Tail(messages), kind)
         /\ \E i \in 2 .. Len(messages) : messages[i].kind = kind
<1>1. Len(messages) \in Nat /\ DOMAIN messages = 1 .. Len(messages)
  BY LenProperties
<1> DEFINE rest == Tail(messages)
<1>2. /\ rest \in Seq(S) /\ Len(rest) = Len(messages) - 1
      /\ \A i \in 1 .. Len(rest) : rest[i] = messages[i + 1]
      /\ Head(messages) = messages[1]
  BY <1>1, HeadTailProperties
<1>3. DOMAIN rest = 1 .. Len(rest)
  BY <1>2, LenProperties
<1>4. PICK i \in 1 .. Len(messages) : messages[i].kind = kind
  BY <1>1 DEF Holds
<1>5. i # 1
  BY <1>2, <1>4
<1>6. i \in 2 .. Len(messages) /\ i - 1 \in 1 .. Len(rest) /\ (i - 1) + 1 = i
  BY <1>1, <1>2, <1>4, <1>5
<1>7. i - 1 \in DOMAIN rest /\ rest[i - 1] = messages[i]
  BY <1>2, <1>3, <1>6
<1>8. QED BY <1>4, <1>6, <1>7 DEF Holds

(* A tree makes one layout if it is supported, and none if it is not.      *)
LEMMA LayoutsOfTrees ==
  ASSUME NEW tree
  PROVE  /\ Supported(tree) <=> FromFullSync(tree) # {}
         /\ FromFullSync(tree) = {} <=>
              {Discover(tree, l) : l \in FromFullSync(tree)} = {}
BY DEF FromFullSync

-----------------------------------------------------------------------------
(* The inductive invariant.                                                *)

(* Before it is started, the monitor has nothing.                          *)
LEMMA InitInv == Init => Inv
<1>1. SUFFICES ASSUME Init PROVE Inv
  OBVIOUS
<1>2. /\ layout = {} /\ capabilities = {} /\ topologies = <<InitialTree>>
      /\ connected = FALSE /\ inbox = <<>> /\ outbox = <<>>
      /\ status = "ready" /\ seen = 1
  BY <1>1 DEF Init, SessionInit, ConsoleInit
<1>3. topologies \in Seq(Seq(Node)) /\ Len(topologies) \in Nat
      /\ 1 \in 1 .. Len(topologies)
  BY <1>2, ConsoleAssumption
<1>4. InStep(topologies, FALSE, <<>>, 1)
  BY <1>3, FramesLost
<1>5. outbox \in Seq({Handshake})
  BY <1>2
<1>6. QED BY <1>2, <1>3, <1>4, <1>5
      DEF Inv, TypeOK, MapIsOfTopologySeen, SyncIsUnderWay, FullSyncComesFirst,
          Present

(* A monitor that is started has no map, but has asked for one.            *)
LEMMA LaunchKeepsInv ==
  ASSUME Inv, Launch
  PROVE  Inv'
<1> USE DEF Inv
<1>1. /\ status' = "running" /\ layout' = {} /\ capabilities' = {}
      /\ outbox' = <<Handshake>> /\ seen' = Present
      /\ UNCHANGED <<topologies, connected, inbox>>
      /\ ~connected /\ inbox = <<>>
  BY DEF Launch, TypeOK
<1>2. topologies \in Seq(Seq(Node)) /\ Len(topologies) \in Nat
      /\ Present \in 1 .. Len(topologies)
  BY DEF InStep, Present
<1>3. InStep(topologies, FALSE, <<>>, Present)
  BY <1>2, FramesLost
<1>4. /\ outbox' \in Seq({Handshake}) /\ 1 \in DOMAIN outbox'
      /\ outbox'[1].kind = "handshake"
  BY <1>1 DEF Handshake
<1>5. SyncIsUnderWay'
  BY <1>4 DEF SyncIsUnderWay
<1>6. connected = FALSE
  BY <1>1
<1>7. InStep(topologies, connected, inbox, seen)'
  BY <1>1, <1>3, <1>6
<1>8. TypeOK'
  BY <1>1, <1>2 DEF TypeOK, Present
<1>9. QED BY <1>1, <1>4, <1>5, <1>7, <1>8
      DEF MapIsOfTopologySeen, FullSyncComesFirst

(* Whatever ends it, it takes the connection along.                        *)
LEMMA ExitKeepsInv ==
  ASSUME Inv, NEW reason \in {"io", "decode", "layout", "notReady"}, Exit(reason),
         UNCHANGED topologies, seen' \in 1 .. Present,
         layout' = {} <=> capabilities' = {}, MapIsOfTopologySeen'
  PROVE  Inv'
<1> USE DEF Inv
<1>1. /\ status' = reason /\ connected' = FALSE /\ inbox' = <<>> /\ outbox' = <<>>
      /\ status' # "running"
  BY DEF Exit
<1>2. topologies \in Seq(Seq(Node)) /\ Len(topologies) \in Nat
  BY DEF InStep
<1>3. InStep(topologies, FALSE, <<>>, seen')
  BY <1>2, FramesLost DEF Present
<1>4. InStep(topologies, connected, inbox, seen)'
  BY <1>1, <1>3
<1>5. outbox' \in Seq({Handshake})
  BY <1>1
<1>6. TypeOK'
  BY <1>1 DEF TypeOK, Present
<1>7. QED BY <1>1, <1>4, <1>5, <1>6 DEF SyncIsUnderWay, FullSyncComesFirst

(* What ingest does to the map, frame by frame.                            *)
LEMMA ReceiveKeepsMap ==
  ASSUME Inv, Receive
  PROVE  /\ MapIsOfTopologySeen'
         /\ layout' = {} <=> capabilities' = {}
         /\ Head(inbox).kind \notin {"fullSync", "structural"} =>
              UNCHANGED <<layout, capabilities>>
         /\ Head(inbox).kind = "structural" => layout' = {}
         /\ Head(inbox).kind = "fullSync" =>
              (layout' = {} <=> Update(Head(inbox)) = "layout")
<1> DEFINE frame == Head(inbox)
<1> USE DEF Inv
<1>1. /\ inbox # <<>> /\ Ingest(frame) /\ seen' = frame.at /\ UNCHANGED topologies
  BY DEF Receive
<1>2. Follows(frame, seen, topologies)
  BY <1>1, FrameTaken
<1> HIDE DEF frame
<1>3. CASE frame.kind = "fullSync"
  <2>1. frame.tree = topologies[frame.at]
    BY <1>2, <1>3 DEF Follows
  <2>2. /\ layout' = FromFullSync(frame.tree)
        /\ capabilities' = {Discover(frame.tree, l) : l \in FromFullSync(frame.tree)}
    BY <1>1, <1>3 DEF Ingest, IngestFullSync
  <2>3. layout' = {} <=> Update(frame) = "layout"
    BY <1>3, <2>2, LayoutsOfTrees DEF Update
  <2>4. layout' = {} <=> capabilities' = {}
    BY <2>2, LayoutsOfTrees
  <2>5. QED BY <1>1, <1>3, <2>1, <2>2, <2>3, <2>4
        DEF MapIsOfTopologySeen, frame
<1>4. CASE frame.kind = "structural"
  <2>1. layout' = {} /\ capabilities' = {}
    BY <1>1, <1>4 DEF Ingest, Reset
  <2>2. QED BY <1>4, <2>1 DEF MapIsOfTopologySeen, frame
<1>5. CASE frame.kind \notin {"fullSync", "structural"}
  <2>1. UNCHANGED <<layout, capabilities>>
    BY <1>1, <1>5 DEF Ingest, sessionVars
  <2>2. seen' = seen
    BY <1>1, <1>2, <1>5 DEF Follows, Announces
  <2>3. QED BY <1>1, <1>5, <2>1, <2>2 DEF MapIsOfTopologySeen, TypeOK, frame
<1>6. QED BY <1>3, <1>4, <1>5

(* A packet is read: it ends the monitor, or leaves it in step.            *)
LEMMA ReceiveKeepsInv ==
  ASSUME Inv, Receive
  PROVE  Inv'
<1> DEFINE frame == Head(inbox)
           update == Update(frame)
<1>1. /\ status = "running" /\ inbox # <<>> /\ seen' = frame.at
      /\ UNCHANGED topologies
  BY DEF Receive
<1>2. /\ connected /\ frame \in Frame
      /\ frame.at \in seen .. Len(topologies) /\ seen \in 1 .. Len(topologies)
      /\ Len(topologies) \in Nat
      /\ Follows(frame, seen, topologies)
      /\ InStep(topologies, connected, Tail(inbox), frame.at)
  BY <1>1, FrameTaken DEF Inv, InStep
<1>3. seen' \in 1 .. Present
  BY <1>1, <1>2 DEF Present
<1>4. CASE update \in {"decode", "layout", "notReady"}
  <2>1. Exit(update)
    BY <1>4 DEF Receive
  <2>2. QED BY <1>1, <1>3, <1>4, <2>1, ExitKeepsInv, ReceiveKeepsMap
<1>5. CASE update \in {"ready", "event", "needsFullSync"}
  <2>1. /\ inbox' = Tail(inbox) /\ UNCHANGED <<status, connected>>
        /\ outbox' = IF update = "needsFullSync" THEN Append(outbox, Handshake)
                                                 ELSE outbox
    BY <1>5 DEF Receive
  <2>2. InStep(topologies, connected, inbox, seen)'
    BY <1>1, <1>2, <2>1
  <2>3. outbox' \in Seq({Handshake})
    BY <2>1, AppendProperties DEF Inv
  <2>4. /\ MapIsOfTopologySeen'
        /\ layout' = {} <=> capabilities' = {}
    BY ReceiveKeepsMap
  <2>5. TypeOK'
    BY <1>1, <1>3, <2>1, <2>4 DEF Inv, TypeOK, Present
  <2>6. frame.kind # "undecodable" /\ (frame.kind = "structural" <=> update = "needsFullSync")
    BY <1>5 DEF Update
  <2>7. layout' = {} =>
          \/ frame.kind = "structural"
          \/ frame.kind \notin {"fullSync", "structural"} /\ layout = {} /\ update = "notReady"
    <3>1. CASE frame.kind = "fullSync"
      BY <1>5, <3>1, ReceiveKeepsMap
    <3>2. CASE frame.kind \notin {"fullSync", "structural"}
      <4>1. layout' = layout
        BY <3>2, ReceiveKeepsMap
      <4>2. layout = {} => update = "notReady"
        BY <2>6, <3>2 DEF Update, IsReady
      <4>3. QED BY <3>2, <4>1, <4>2
    <3>3. QED BY <3>1, <3>2
  <2>8. layout' = {} => frame.kind = "structural" /\ update = "needsFullSync"
    BY <1>5, <2>6, <2>7
  <2>9. SyncIsUnderWay'
    <3>1. layout' = {} => Holds(outbox', "handshake")
      <4>1. SUFFICES ASSUME layout' = {} PROVE Holds(outbox', "handshake")
        OBVIOUS
      <4>2. outbox' = Append(outbox, Handshake)
        BY <2>1, <2>8, <4>1
      <4>3. Handshake.kind = "handshake"
        BY DEF Handshake
      <4>4. QED BY <4>2, <4>3, JoinedQueueHolds DEF Inv
    <3>2. QED BY <3>1 DEF SyncIsUnderWay, Holds
  <2>10. FullSyncComesFirst'
    <3>1. layout' = {} => Present' # 1
      <4>1. SUFFICES ASSUME layout' = {} PROVE Len(topologies) # 1
        BY <1>1 DEF Present
      <4>2. frame.at > seen
        BY <1>2, <2>8, <4>1 DEF Follows
      <4>3. \A n \in Nat : \A k \in 1 .. n : \A a \in k .. n : a > k => n # 1
        OBVIOUS
      <4>4. QED BY <1>2, <4>2, <4>3, Zenon
    <3>2. QED BY <3>1 DEF FullSyncComesFirst
  <2>11. QED BY <1>2, <2>1, <2>2, <2>3, <2>4, <2>5, <2>9, <2>10 DEF Inv
<1>6. QED BY <1>4, <1>5 DEF Receive

(* A console that has a handshake answers it with a full sync; whatever    *)
(* else it does, the handshake stays.                                      *)
LEMMA ConsoleStepKeepsSync ==
  ASSUME Inv, ConsoleStep
  PROVE  SyncIsUnderWay' /\ outbox' \in Seq({Handshake})
<1> USE DEF Inv
<1>1. UNCHANGED <<layout, status>>
  BY DEF ConsoleStep
<1>2. inbox \in Seq(Frame)
  BY DEF InStep
<1>3. Handshake.kind = "handshake"
  BY DEF Handshake
<1>4. outbox # <<>> => Head(outbox) = Handshake
  BY HeadTailProperties
<1>5. SyncIsUnderWay <=> (status = "running" /\ layout = {} =>
                            Holds(outbox, "handshake") \/ Holds(inbox, "fullSync"))
  BY DEF SyncIsUnderWay, Holds
<1>6. SyncIsUnderWay' <=> (status' = "running" /\ layout' = {} =>
                             Holds(outbox', "handshake") \/ Holds(inbox', "fullSync"))
  BY DEF SyncIsUnderWay, Holds
<1>7. ASSUME NEW frame, inbox' = Append(inbox, frame)
      PROVE  /\ Holds(inbox, "fullSync") => Holds(inbox', "fullSync")
             /\ frame.kind = "fullSync" => Holds(inbox', "fullSync")
  <2>1. /\ \A kind : Holds(inbox, kind) => Holds(inbox', kind)
        /\ Holds(inbox', frame.kind)
    BY <1>2, <1>7, JoinedQueueHolds
  <2>2. QED BY <2>1
<1>8. CASE AnswerHandshake
  <2>1. inbox' = Append(inbox, FullSync(Tree, Present)) /\ outbox' = Tail(outbox)
        /\ outbox # <<>>
    BY <1>8 DEF AnswerHandshake
  <2>2. FullSync(Tree, Present).kind = "fullSync"
    BY DEF FullSync
  <2>3. Holds(inbox', "fullSync")
    BY <1>7, <2>1, <2>2
  <2>4. outbox' \in Seq({Handshake})
    BY <2>1, HeadTailProperties
  <2>5. QED BY <1>6, <2>3, <2>4
<1>9. ~CarryOutWrite
  BY <1>3, <1>4 DEF CarryOutWrite
<1>10. CASE ChangeShape \/ ReplaceTree \/ ChangeProperty \/ SendUndecodable
  <2>1. UNCHANGED outbox
    BY <1>10 DEF ChangeShape, ReplaceTree, ChangeProperty, SendUndecodable
  <2>2. UNCHANGED inbox \/ \E frame : inbox' = Append(inbox, frame)
    BY <1>10 DEF ChangeShape, ReplaceTree, ChangeProperty, SendUndecodable
  <2>3. Holds(inbox, "fullSync") => Holds(inbox', "fullSync")
    BY <1>7, <2>2
  <2>4. Holds(outbox, "handshake") => Holds(outbox', "handshake")
    BY <2>1
  <2>5. QED BY <1>1, <1>5, <1>6, <2>1, <2>3, <2>4
<1>11. QED BY <1>8, <1>9, <1>10 DEF ConsoleStep, ConsoleNext

(* Before the first change the full sync that was asked for is the first   *)
(* frame there is.                                                         *)
LEMMA ConsoleStepKeepsFirst ==
  ASSUME Inv, ConsoleStep
  PROVE  FullSyncComesFirst'
<1> USE DEF Inv
<1>1. UNCHANGED <<layout, status>>
  BY DEF ConsoleStep
<1>2. /\ topologies \in Seq(Seq(Node)) /\ Len(topologies) \in Nat
      /\ Len(topologies) >= 1 /\ inbox \in Seq(Frame)
  BY DEF InStep
<1>3. SUFFICES ASSUME status = "running", connected', layout = {},
                      Len(topologies') = 1
               PROVE  inbox' # <<>> /\ Head(inbox').kind = "fullSync"
  BY <1>1 DEF FullSyncComesFirst, Present
<1>4. UNCHANGED topologies
  <2>1. ASSUME NEW tree \in Edits(Tree), topologies' = Append(topologies, tree)
        PROVE  FALSE
    <3>1. tree \in Seq(Node)
      BY <1>2, PresentTreeChanges DEF Present
    <3>2. Len(topologies') = Len(topologies) + 1
      BY <1>2, <2>1, <3>1, TreesGrow
    <3>3. Len(topologies) \in Nat /\ Len(topologies) >= 1
      BY <1>2
    <3> HIDE DEF Inv
    <3>4. QED BY <1>3, <3>2, <3>3
  <2>2. QED BY <2>1 DEF ConsoleStep, ConsoleNext, ChangeShape, ReplaceTree,
                        ChangeProperty, SendUndecodable, AnswerHandshake,
                        CarryOutWrite
<1>5. CASE connected
  <2>1. inbox # <<>> /\ Head(inbox).kind = "fullSync"
    BY <1>3, <1>4, <1>5 DEF FullSyncComesFirst, Present
  <2>2. UNCHANGED inbox \/ \E frame : inbox' = Append(inbox, frame)
    BY DEF ConsoleStep, ConsoleNext, ChangeShape, ReplaceTree, ChangeProperty,
           SendUndecodable, AnswerHandshake, CarryOutWrite
  <2>3. QED BY <1>2, <2>1, <2>2, JoinedQueueHolds
<1>6. CASE ~connected
  <2>1. AnswerHandshake
    BY <1>3, <1>6 DEF ConsoleStep, ConsoleNext, ChangeShape, ReplaceTree,
                      ChangeProperty, SendUndecodable, CarryOutWrite, CanPost
  <2>2. inbox' = <<FullSync(Tree, Present)>>
    BY <1>6, <2>1 DEF AnswerHandshake
  <2>3. QED BY <2>2 DEF FullSync
<1>7. QED BY <1>5, <1>6

(* No step of the console breaks the invariant.                            *)
LEMMA ConsoleStepKeepsInv ==
  ASSUME Inv, ConsoleStep
  PROVE  Inv'
<1> USE DEF Inv
<1>1. ConsoleNext /\ UNCHANGED <<layout, capabilities, status, seen>>
  BY DEF ConsoleStep
<1>2. /\ connected' \in BOOLEAN
      /\ connected => connected'
      /\ InStep(topologies', connected', inbox', seen)
  BY <1>1, ConsoleStaysInStep
<1>3. /\ Len(topologies) \in Nat /\ seen \in 1 .. Len(topologies)
      /\ topologies \in Seq(Seq(Node))
      /\ seen \in 1 .. Len(topologies') /\ (~connected' => inbox' = <<>>)
  BY <1>2 DEF InStep
<1>4. topologies'[seen] = topologies[seen]
  <2>1. ASSUME NEW tree \in Edits(Tree), topologies' = Append(topologies, tree)
        PROVE  topologies'[seen] = topologies[seen]
    <3>1. tree \in Seq(Node)
      BY <1>3, PresentTreeChanges DEF Present
    <3>2. QED BY <1>3, <2>1, <3>1, TreesGrow
  <2>2. CASE UNCHANGED topologies
    BY <2>2
  <2>3. QED BY <1>1, <2>1, <2>2 DEF ConsoleNext, ChangeShape, ReplaceTree,
                        ChangeProperty, SendUndecodable, AnswerHandshake,
                        CarryOutWrite
<1>5. MapIsOfTopologySeen'
  BY <1>1, <1>4 DEF MapIsOfTopologySeen
<1>6. status # "running" => ~connected' /\ inbox' = <<>> /\ outbox' = <<>>
  <2>1. SUFFICES ASSUME status # "running"
                 PROVE  ~connected' /\ inbox' = <<>> /\ outbox' = <<>>
    OBVIOUS
  <2>2. ~connected /\ inbox = <<>> /\ outbox = <<>>
    BY <2>1 DEF TypeOK
  <2>3. QED BY <1>1, <2>2 DEF ConsoleNext, ChangeShape, ReplaceTree, CanPost,
                     ChangeProperty, SendUndecodable, AnswerHandshake, CarryOutWrite
<1>7. TypeOK'
  BY <1>1, <1>3, <1>6 DEF TypeOK, Present
<1>8. QED BY <1>1, <1>2, <1>3, <1>5, <1>7, ConsoleStepKeepsSync, ConsoleStepKeepsFirst

(* Nor does any other step.                                                *)
LEMMA NextKeepsInv == Inv /\ [Next]_vars => Inv'
<1>1. SUFFICES ASSUME Inv, [Next]_vars PROVE Inv'
  OBVIOUS
<1>2. CASE Unplug
  <2>1. Exit("io") /\ UNCHANGED <<layout, capabilities, topologies, seen>>
    BY <1>2 DEF Unplug
  <2>2. /\ seen' \in 1 .. Present /\ (layout' = {} <=> capabilities' = {})
        /\ MapIsOfTopologySeen'
    BY <1>1, <2>1 DEF Inv, TypeOK, MapIsOfTopologySeen
  <2>3. QED BY <1>1, <2>1, <2>2, ExitKeepsInv
<1>3. CASE UNCHANGED vars
  BY <1>1, <1>3 DEF vars, Inv, TypeOK, InStep, Follows, Latest, MapIsOfTopologySeen,
                    SyncIsUnderWay, FullSyncComesFirst, Present
<1>4. QED BY <1>1, <1>2, <1>3, LaunchKeepsInv, ReceiveKeepsInv, ConsoleStepKeepsInv
      DEF Next

(* The invariant holds throughout.                                         *)
LEMMA Invariant == Spec => []Inv
BY InitInv, NextKeepsInv, PTL DEF Spec

-----------------------------------------------------------------------------
(* The results.                                                            *)

(* The status is one the process can have, and without the process there   *)
(* is no connection.                                                       *)
THEOREM MonitorTypes == Spec => []TypeOK
<1>1. Inv => TypeOK
  BY DEF Inv
<1>2. QED BY <1>1, Invariant, PTL

(* While the monitor has no map, a handshake is on its way out or a full   *)
(* sync on its way in: it never waits for what nobody asked for.           *)
THEOREM MonitorIsNeverDeaf == Spec => []SyncIsUnderWay
<1>1. Inv => SyncIsUnderWay
  BY DEF Inv
<1>2. QED BY <1>1, Invariant, PTL

(* What it prints names the node whose property changed, as the tree was   *)
(* when it did.                                                            *)
THEOREM MonitorNamesNodes == Spec => []PrintedEventsNameTheRightNode
<1>1. Inv => PrintedEventsNameTheRightNode
  <2>1. SUFFICES ASSUME Inv, NEW i \in DOMAIN inbox, Head(inbox).kind = "property",
                        NEW a \in EventAddress(Head(inbox))
                 PROVE  a \in TrueAddress(topologies[Head(inbox).at], Head(inbox).path)
    BY DEF PrintedEventsNameTheRightNode
  <2> DEFINE frame == Head(inbox)
  <2>2. inbox # <<>> /\ InStep(topologies, connected, inbox, seen)
    BY <2>1 DEF Inv
  <2>3. frame \in Frame /\ Follows(frame, seen, topologies)
    BY <2>1, <2>2, FrameTaken DEF Inv
  <2>4. frame.path \in Seq(Nat) /\ frame.at = seen
    BY <2>1, <2>3 DEF Frame, Follows, Announces
  <2>5. topologies[seen] \in Seq(Node)
    BY <2>2, ElementOfSeq DEF InStep
  <2>6. PICK l \in layout : a \in Resolve(l, frame.path)
    BY <2>1 DEF EventAddress
  <2>7. l \in FromFullSync(topologies[seen])
    BY <2>1, <2>6 DEF Inv, MapIsOfTopologySeen
  <2> HIDE DEF frame
  <2>8. TrueAddress(topologies[seen], frame.path) = {a}
    BY <2>4, <2>5, <2>6, <2>7, ResolvedAddressIsTrue
  <2>9. QED BY <2>4, <2>8 DEF frame
<1>2. QED BY <1>1, Invariant, PTL

(* The monitor stops for want of a map only inside a resync: the console   *)
(* has changed, and the full sync or the handshake for it is under way.    *)
THEOREM MonitorDiesInAResync == Spec => DiesUnreadyOnlyInAResync
<1>1. Inv /\ [Next]_vars =>
        [status = "running" /\ status' = "notReady" =>
           /\ Present > 1
           /\ \/ outbox # <<>>
              \/ \E i \in 2 .. Len(inbox) : inbox[i].kind = "fullSync"]_vars
  <2>1. SUFFICES ASSUME Inv, [Next]_vars, status = "running", status' = "notReady"
                 PROVE  /\ Present > 1
                        /\ \/ outbox # <<>>
                           \/ \E i \in 2 .. Len(inbox) : inbox[i].kind = "fullSync"
    OBVIOUS
  <2>2. Receive
    BY <2>1 DEF Next, Launch, Unplug, Exit, ConsoleStep, vars
  <2>3. inbox # <<>> /\ Update(Head(inbox)) = "notReady"
    BY <2>1, <2>2 DEF Receive, Exit
  <2>4. Head(inbox).kind \notin {"fullSync", "structural"} /\ layout = {}
    BY <2>3 DEF Update, IsReady
  <2>5. inbox \in Seq(Frame) /\ Present \in Nat /\ Present >= 1
    BY <2>1 DEF Inv, InStep, Present
  <2>6. Present # 1
    BY <2>1, <2>3, <2>4 DEF Inv, FullSyncComesFirst
  <2>7. Holds(outbox, "handshake") \/ Holds(inbox, "fullSync")
    BY <2>1, <2>4 DEF Inv, SyncIsUnderWay, Holds
  <2>8. Holds(outbox, "handshake") => outbox # <<>>
    BY DEF Holds
  <2>9. Holds(inbox, "fullSync") =>
          \E i \in 2 .. Len(inbox) : inbox[i].kind = "fullSync"
    BY <2>3, <2>4, <2>5, RestHolds
  <2>10. QED BY <2>5, <2>6, <2>7, <2>8, <2>9
<1>2. QED BY <1>1, Invariant, PTL DEF Spec, DiesUnreadyOnlyInAResync
=============================================================================
