--------------------------- MODULE ConsoleProofs ----------------------------
(***************************************************************************)
(* The console's side of a connection, for any client: the frames in       *)
(* flight take whoever reads them one by one from the topology they know   *)
(* of to the console's present one.  The proofs about the monitor and the  *)
(* interactive client rest on this.                                        *)
(***************************************************************************)
EXTENDS Console, AddressProofs

(* A frame that announces nothing speaks of the topology that was known    *)
(* before it; a change of shape speaks of a later one, and a full sync     *)
(* carries the tree of the one it speaks of.                               *)
Follows(frame, before, trees) ==
  /\ frame.at \in before .. Len(trees)
  /\ ~Announces(frame) => frame.at = before
  /\ frame.kind = "structural" => frame.at > before
  /\ frame.kind = "fullSync" => frame.tree = trees[frame.at]

(* What is known when all of the frames have been read.                    *)
Latest(frames, told) ==
  IF frames = <<>> THEN told ELSE frames[Len(frames)].at

InStep(trees, up, frames, told) ==
  /\ trees \in Seq(Seq(Node)) /\ Len(trees) \in Nat
  /\ told \in 1 .. Len(trees)
  /\ frames \in Seq(Frame)
  /\ \A i \in DOMAIN frames :
       Follows(frames[i], IF i = 1 THEN told ELSE frames[i - 1].at, trees)
  /\ up => Latest(frames, told) = Len(trees)
  /\ ~up => frames = <<>>

-----------------------------------------------------------------------------
(* The trees a console had, it still has after it has got another.         *)
LEMMA TreesGrow ==
  ASSUME NEW trees \in Seq(Seq(Node)), NEW tree \in Seq(Node)
  PROVE  /\ Append(trees, tree) \in Seq(Seq(Node))
         /\ Len(trees) \in Nat
         /\ Len(Append(trees, tree)) = Len(trees) + 1
         /\ \A k \in 1 .. Len(trees) : Append(trees, tree)[k] = trees[k]
         /\ Append(trees, tree)[Len(trees) + 1] = tree
BY AppendProperties, LenProperties

(* The change is one that makes a tree of a tree.                          *)
LEMMA PresentTreeChanges ==
  ASSUME topologies \in Seq(Seq(Node)), Present \in Nat, Present >= 1
  PROVE  Tree \in Seq(Node) /\ Edits(Tree) \subseteq Seq(Node)
<1>1. Tree \in Seq(Node)
  BY ElementOfSeq DEF Tree, Present
<1>2. QED BY <1>1, EditsAreTrees

(* Every frame in flight speaks of a topology that the console has had,    *)
(* none of an earlier one than its reader knows of.                        *)
LEMMA StampsAreLater ==
  ASSUME NEW trees, NEW up, NEW frames, NEW told,
         InStep(trees, up, frames, told)
  PROVE  /\ Len(frames) \in Nat /\ DOMAIN frames = 1 .. Len(frames)
         /\ \A i \in 1 .. Len(frames) : /\ frames[i] \in Frame
                                        /\ frames[i].at \in told .. Len(trees)
         /\ Latest(frames, told) \in told .. Len(trees)
<1>1. /\ Len(frames) \in Nat /\ DOMAIN frames = 1 .. Len(frames)
      /\ frames \in Seq(Frame)
      /\ told \in 1 .. Len(trees) /\ Len(trees) \in Nat
  BY LenProperties DEF InStep
<1>2. \A i \in 1 .. Len(frames) : frames[i] \in Frame
  BY <1>1, ElementOfSeq
<1>3. \A i \in 1 .. Len(frames) : frames[i].at \in Nat
  BY <1>2 DEF Frame
<1> DEFINE Early == {i \in 1 .. Len(frames) : frames[i].at < told}
<1>4. Early = {}
  <2>1. SUFFICES ASSUME Early # {} PROVE FALSE
    OBVIOUS
  <2>2. Early \in SUBSET Nat
    BY <1>1
  <2>3. PICK i \in Early : \A j \in Early : i <= j
    BY <2>1, <2>2, LeastNatural
  <2>4. frames[i].at \in (IF i = 1 THEN told ELSE frames[i - 1].at) .. Len(trees)
    BY <1>1, <2>3 DEF InStep, Follows
  <2>5. i # 1
    BY <1>1, <1>3, <2>3, <2>4
  <2>6. i - 1 \in 1 .. Len(frames) /\ i - 1 \notin Early
    BY <1>1, <2>2, <2>3, <2>5
  <2>7. QED BY <1>1, <1>3, <2>3, <2>4, <2>5, <2>6
<1>5. \A i \in 1 .. Len(frames) : frames[i].at \in told .. Len(trees)
  <2>1. TAKE i \in 1 .. Len(frames)
  <2>2. frames[i].at <= Len(trees)
    BY <1>1, <1>3 DEF InStep, Follows
  <2>3. ~(frames[i].at < told)
    BY <1>4
  <2>4. QED BY <1>1, <1>3, <2>2, <2>3
<1>6. Latest(frames, told) \in told .. Len(trees)
  <2>1. frames # <<>> => Len(frames) \in 1 .. Len(frames)
    BY <1>1, EmptySeq
  <2>2. QED BY <1>1, <1>5, <2>1 DEF Latest
<1>7. QED BY <1>1, <1>2, <1>5, <1>6

-----------------------------------------------------------------------------
(* A frame about what the console now is joins the others.                 *)
LEMMA FrameJoins ==
  ASSUME NEW trees, NEW up, NEW frames, NEW told,
         InStep(trees, up, frames, told),
         NEW later \in Seq(Seq(Node)), Len(later) \in Nat,
         Len(trees) <= Len(later),
         \A k \in 1 .. Len(trees) : later[k] = trees[k],
         NEW frame \in Frame, frame.at = Len(later),
         Follows(frame, Latest(frames, told), later)
  PROVE  InStep(later, TRUE, Append(frames, frame), told)
<1> DEFINE n == Len(frames)
           joined == Append(frames, frame)
           Before(i, seq) == IF i = 1 THEN told ELSE seq[i - 1].at
<1>1. /\ frames \in Seq(Frame) /\ n \in Nat /\ DOMAIN frames = 1 .. n
      /\ joined \in Seq(Frame) /\ Len(joined) = n + 1
      /\ DOMAIN joined = 1 .. n + 1
      /\ \A i \in 1 .. n : joined[i] = frames[i]
      /\ joined[n + 1] = frame
      /\ told \in 1 .. Len(trees) /\ Len(trees) \in Nat
  BY AppendProperties, LenProperties DEF InStep
<1>2. \A i \in 1 .. n : frames[i].at \in 1 .. Len(trees)
  BY <1>1, StampsAreLater
<1> HIDE DEF joined
<1>3. ASSUME NEW i \in 1 .. n + 1
      PROVE  Follows(joined[i], Before(i, joined), later)
  <2>1. CASE i \in 1 .. n
    <3>1. Follows(frames[i], Before(i, frames), trees)
      BY <1>1, <2>1 DEF InStep
    <3>2. joined[i] = frames[i] /\ Before(i, joined) = Before(i, frames)
      <4>1. i # 1 => i - 1 \in 1 .. n
        BY <1>1, <2>1
      <4>2. QED BY <1>1, <2>1, <4>1
    <3>3. frames[i].at \in 1 .. Len(trees)
      BY <1>2, <2>1
    <3>4. Follows(frames[i], Before(i, frames), later)
      <4>1. Before(i, frames) \in Nat
        <5>1. i # 1 => i - 1 \in 1 .. n
          BY <1>1, <2>1
        <5>2. QED BY <1>1, <1>2, <5>1
      <4> HIDE DEF Before
      <4>2. Len(trees) \in Nat /\ Len(later) \in Nat
        BY <1>1
      <4>3. \A k, m, b \in Nat : \A a \in b .. k : k <= m => a \in b .. m
        OBVIOUS
      <4>4. frames[i].at \in Before(i, frames) .. Len(later)
        BY <3>1, <4>1, <4>2, <4>3, Zenon DEF Follows
      <4>5. later[frames[i].at] = trees[frames[i].at]
        BY <3>3
      <4>6. QED BY <3>1, <4>4, <4>5, Zenon DEF Follows
    <3>5. QED BY <3>2, <3>4
  <2>2. CASE i = n + 1
    <3>1. Before(i, joined) = Latest(frames, told)
      <4>1. CASE frames = <<>>
        BY <1>1, <2>2, <4>1 DEF Latest
      <4>2. CASE frames # <<>>
        <5>1. n # 0 /\ n \in 1 .. n /\ i # 1 /\ i - 1 = n
          BY <1>1, <2>2, <4>2, EmptySeq
        <5>2. joined[i - 1] = frames[n]
          BY <1>1, <5>1
        <5>3. QED BY <4>2, <5>1, <5>2 DEF Latest
      <4>3. QED BY <4>1, <4>2
    <3>2. QED BY <1>1, <2>2, <3>1
  <2>3. QED BY <1>1, <2>1, <2>2
<1>4. Latest(joined, told) = Len(later)
  <2>1. joined # <<>>
    BY <1>1, EmptySeq
  <2>2. QED BY <1>1, <2>1 DEF Latest
<1>5. told \in 1 .. Len(later)
  BY <1>1
<1>6. InStep(later, TRUE, joined, told)
  BY <1>1, <1>3, <1>4, <1>5 DEF InStep
<1>7. QED BY <1>6 DEF joined

(* A frame about a console that did not change.                            *)
LEMMA ReportJoins ==
  ASSUME NEW trees, NEW up, NEW frames, NEW told,
         InStep(trees, up, frames, told),
         NEW frame \in Frame, frame.at = Len(trees),
         Follows(frame, Latest(frames, told), trees)
  PROVE  InStep(trees, TRUE, Append(frames, frame), told)
<1>1. trees \in Seq(Seq(Node)) /\ Len(trees) \in Nat /\ Len(trees) <= Len(trees)
  BY DEF InStep
<1>2. \A k \in 1 .. Len(trees) : trees[k] = trees[k]
  OBVIOUS
<1>3. QED BY <1>1, <1>2, FrameJoins

(* The first frame is read, and what it speaks of is known.                *)
LEMMA FrameTaken ==
  ASSUME NEW trees, NEW up \in BOOLEAN, NEW frames, NEW told,
         InStep(trees, up, frames, told), frames # <<>>
  PROVE  /\ up
         /\ Head(frames) \in Frame
         /\ Head(frames).at \in told .. Len(trees)
         /\ Follows(Head(frames), told, trees)
         /\ InStep(trees, up, Tail(frames), Head(frames).at)
<1> DEFINE n == Len(frames)
           rest == Tail(frames)
           first == frames[1]
<1>1. /\ frames \in Seq(Frame) /\ n \in Nat /\ DOMAIN frames = 1 .. n
      /\ n >= 1 /\ 1 \in 1 .. n
      /\ told \in 1 .. Len(trees) /\ Len(trees) \in Nat
      /\ trees \in Seq(Seq(Node))
  BY LenProperties, EmptySeq DEF InStep
<1>2. /\ rest \in Seq(Frame) /\ Len(rest) = n - 1
      /\ \A i \in 1 .. n - 1 : rest[i] = frames[i + 1]
      /\ Head(frames) = first
  BY <1>1, HeadTailProperties
<1>3. DOMAIN rest = 1 .. n - 1
  BY <1>2, LenProperties
<1>4. up
  BY DEF InStep
<1>5. first \in Frame /\ first.at \in told .. Len(trees)
  BY <1>1, StampsAreLater
<1>6. Follows(first, told, trees)
  BY <1>1 DEF InStep
<1> HIDE DEF rest, first
<1>7. ASSUME NEW i \in 1 .. n - 1
      PROVE  Follows(rest[i], IF i = 1 THEN first.at ELSE rest[i - 1].at, trees)
  <2>1. i + 1 \in 1 .. n /\ i + 1 # 1 /\ (i + 1) - 1 = i /\ rest[i] = frames[i + 1]
    BY <1>1, <1>2
  <2>2. Follows(frames[i + 1], frames[i].at, trees)
    BY <1>1, <2>1 DEF InStep
  <2>3. frames[i].at = IF i = 1 THEN first.at ELSE rest[i - 1].at
    <3>1. i # 1 => i - 1 \in 1 .. n - 1 /\ (i - 1) + 1 = i
      BY <1>1
    <3>2. QED BY <1>2, <3>1 DEF first
  <2>4. QED BY <2>1, <2>2, <2>3
<1>8. Latest(rest, first.at) = Len(trees)
  <2>1. frames[n].at = Len(trees)
    BY <1>4 DEF InStep, Latest
  <2>2. CASE rest = <<>>
    <3>1. n = 1
      <4>1. Len(rest) = 0
        BY <2>2
      <4>2. n \in Nat /\ Len(rest) = n - 1
        BY <1>1, <1>2
      <4>3. QED BY <4>1, <4>2
    <3>2. QED BY <2>1, <2>2, <3>1 DEF Latest, first
  <2>3. CASE rest # <<>>
    <3>1. n - 1 \in 1 .. n - 1 /\ (n - 1) + 1 = n
      BY <1>1, <1>2, <2>3, EmptySeq
    <3>2. rest[n - 1] = frames[n]
      BY <1>2, <3>1
    <3>3. QED BY <1>2, <2>1, <2>3, <3>2 DEF Latest
  <2>4. QED BY <2>2, <2>3
<1>9. first.at \in 1 .. Len(trees)
  BY <1>1, <1>5
<1>10. InStep(trees, up, rest, first.at)
  BY <1>1, <1>2, <1>3, <1>4, <1>7, <1>8, <1>9 DEF InStep
<1>11. QED BY <1>2, <1>4, <1>5, <1>6, <1>10 DEF rest

(* With the connection, all that was in flight is gone.                    *)
LEMMA FramesLost ==
  ASSUME NEW trees \in Seq(Seq(Node)), Len(trees) \in Nat,
         NEW told \in 1 .. Len(trees)
  PROVE  InStep(trees, FALSE, <<>>, told)
<1>1. <<>> \in Seq(Frame) /\ DOMAIN <<>> = {}
  OBVIOUS
<1>2. QED BY <1>1 DEF InStep

-----------------------------------------------------------------------------
(* Whatever the console does, the frames in flight stay in step with it,   *)
(* for a client that knows of what it knew before.                         *)
LEMMA ConsoleStaysInStep ==
  ASSUME connected \in BOOLEAN, NEW told,
         InStep(topologies, connected, inbox, told), ConsoleNext
  PROVE  /\ connected' \in BOOLEAN
         /\ connected => connected'
         /\ InStep(topologies', connected', inbox', told)
<1>1. /\ topologies \in Seq(Seq(Node)) /\ Present \in Nat /\ Present >= 1
      /\ told \in 1 .. Present
  BY DEF InStep, Present
<1>2. Tree \in Seq(Node) /\ Edits(Tree) \subseteq Seq(Node)
  BY <1>1, PresentTreeChanges
<1>3. Latest(inbox, told) \in told .. Present
  BY StampsAreLater DEF Present
<1>4. connected => Latest(inbox, told) = Present
  BY DEF InStep, Present
<1>5. ~connected => inbox = <<>>
  BY DEF InStep
<1>6. ASSUME NEW frame \in Frame, frame.at = Present, connected,
             ~Announces(frame), inbox' = Append(inbox, frame),
             UNCHANGED <<topologies, connected>>
      PROVE  InStep(topologies', connected', inbox', told)
  <2>1. Follows(frame, Latest(inbox, told), topologies)
    BY <1>1, <1>4, <1>6 DEF Follows, Announces, Present
  <2>2. InStep(topologies, TRUE, inbox', told)
    BY <1>6, <2>1, ReportJoins DEF Present
  <2>3. QED BY <1>6, <2>2
<1>7. ASSUME NEW tree \in Edits(Tree), topologies' = Append(topologies, tree),
             connected, NEW frame \in Frame, Announces(frame),
             frame.at = Present + 1, frame.kind = "fullSync" => frame.tree = tree,
             inbox' = Append(inbox, frame), UNCHANGED connected
      PROVE  InStep(topologies', connected', inbox', told)
  <2>1. /\ topologies' \in Seq(Seq(Node)) /\ Len(topologies') = Present + 1
        /\ \A k \in 1 .. Present : topologies'[k] = topologies[k]
        /\ topologies'[Present + 1] = tree
    BY <1>1, <1>2, <1>7, TreesGrow DEF Present
  <2>2. Follows(frame, Latest(inbox, told), topologies')
    BY <1>1, <1>4, <1>7, <2>1 DEF Follows
  <2>3. Len(topologies') \in Nat /\ Len(topologies) <= Len(topologies')
    BY <1>1, <2>1 DEF Present
  <2>4. InStep(topologies', TRUE, inbox', told)
    BY <1>7, <2>1, <2>2, <2>3, FrameJoins DEF Present
  <2>5. QED BY <1>7, <2>4
<1>8. CASE ChangeShape
  <2>1. PICK tree \in Edits(Tree) : topologies' = Append(topologies, tree)
    BY <1>8 DEF ChangeShape
  <2>2. UNCHANGED connected
    BY <1>8 DEF ChangeShape
  <2>3. CASE connected
    <3>1. inbox' = Append(inbox, Structural(Present + 1))
      BY <1>8, <2>3 DEF ChangeShape, CanPost
    <3>2. /\ Structural(Present + 1) \in Frame
          /\ Announces(Structural(Present + 1))
          /\ Structural(Present + 1).at = Present + 1
          /\ Structural(Present + 1).kind # "fullSync"
      BY <1>1 DEF Structural, Frame, Announces
    <3>3. QED BY <1>7, <2>1, <2>2, <2>3, <3>1, <3>2
  <2>4. CASE ~connected
    <3>1. inbox' = <<>>
      BY <1>5, <1>8, <2>4 DEF ChangeShape, CanPost
    <3>2. topologies' \in Seq(Seq(Node)) /\ Len(topologies') = Present + 1
      BY <1>1, <1>2, <2>1, TreesGrow DEF Present
    <3>3. Len(topologies') \in Nat /\ told \in 1 .. Len(topologies')
      BY <1>1, <3>2
    <3>4. InStep(topologies', FALSE, <<>>, told)
      BY <3>2, <3>3, FramesLost
    <3>5. QED BY <2>2, <2>4, <3>1, <3>4
  <2>5. QED BY <2>2, <2>3, <2>4
<1>9. CASE ReplaceTree
  <2>1. PICK tree \in Edits(Tree) :
          /\ topologies' = Append(topologies, tree)
          /\ inbox' = Append(inbox, FullSync(tree, Present + 1))
    BY <1>9 DEF ReplaceTree
  <2>2. /\ FullSync(tree, Present + 1) \in Frame
        /\ Announces(FullSync(tree, Present + 1))
        /\ FullSync(tree, Present + 1).at = Present + 1
        /\ FullSync(tree, Present + 1).tree = tree
    BY <1>1, <1>2 DEF FullSync, Frame, Announces
  <2>3. QED BY <1>7, <1>9, <2>1, <2>2 DEF ReplaceTree, CanPost
<1>10. ASSUME NEW path \in NodePaths(Tree)
       PROVE  /\ Property(path) \in Frame /\ ~Announces(Property(path))
              /\ Property(path).at = Present
  <2>1. path \in Seq(Nat)
    BY <1>2, NodePathsAreSequences
  <2>2. QED BY <1>1, <2>1 DEF Property, Frame, Announces
<1>11. CASE ChangeProperty
  <2>1. PICK path \in NodePaths(Tree) : inbox' = Append(inbox, Property(path))
    BY <1>11 DEF ChangeProperty
  <2>2. QED BY <1>6, <1>10, <1>11, <2>1 DEF ChangeProperty, CanPost
<1>12. CASE SendUndecodable
  <2>1. Undecodable \in Frame /\ ~Announces(Undecodable) /\ Undecodable.at = Present
    BY <1>1 DEF Undecodable, Frame, Announces
  <2>2. QED BY <1>6, <1>12, <2>1 DEF SendUndecodable, CanPost
<1>13. CASE AnswerHandshake
  <2>1. /\ FullSync(Tree, Present) \in Frame
        /\ Announces(FullSync(Tree, Present))
        /\ FullSync(Tree, Present).at = Present
        /\ FullSync(Tree, Present).tree = topologies[Present]
        /\ FullSync(Tree, Present).kind # "structural"
    BY <1>1, <1>2 DEF FullSync, Frame, Announces, Tree
  <2>2. Follows(FullSync(Tree, Present), Latest(inbox, told), topologies)
    <3>1. Present \in Latest(inbox, told) .. Present
      BY <1>1, <1>3
    <3>2. QED BY <2>1, <3>1 DEF Follows, Present
  <2>3. InStep(topologies, TRUE, Append(inbox, FullSync(Tree, Present)), told)
    BY <2>1, <2>2, ReportJoins DEF Present
  <2>4. QED BY <1>13, <2>3 DEF AnswerHandshake
<1>14. CASE CarryOutWrite
  <2>1. CASE Head(outbox).path \in NodePaths(Tree)
    BY <1>6, <1>10, <1>14, <2>1 DEF CarryOutWrite, CanPost
  <2>2. CASE Head(outbox).path \notin NodePaths(Tree)
    BY <1>14, <2>2 DEF CarryOutWrite
  <2>3. QED BY <1>14, <2>1, <2>2 DEF CarryOutWrite
<1>15. connected' \in BOOLEAN /\ (connected => connected')
  BY DEF ConsoleNext, ChangeShape, ReplaceTree, ChangeProperty,
         SendUndecodable, AnswerHandshake, CarryOutWrite
<1>16. QED BY <1>8, <1>9, <1>11, <1>12, <1>13, <1>14, <1>15 DEF ConsoleNext
=============================================================================
