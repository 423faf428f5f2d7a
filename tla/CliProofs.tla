----------------------------- MODULE CliProofs ------------------------------
(***************************************************************************)
(* Proofs about the interactive client, for every set of nodes, every      *)
(* initial tree, every command and every bound.                            *)
(*                                                                         *)
(* The inductive invariant has the frames in flight in step with the       *)
(* console (ConsoleProofs), the two stores in agreement, and that every    *)
(* write, on its way or yet to be made, means what it meant when it was    *)
(* encoded, whatever the reader has stored since.                          *)
(***************************************************************************)
EXTENDS CliProps, ConsoleProofs

AsTyped == {Address("as typed", path) : path \in Seq(Nat)}

Message == {Handshake} \cup [kind : {"write"}, path : Seq(Nat),
                             meant : AllAddresses \cup AsTyped, at : Nat]

(* A command was encoded for the node that it names, in the topology whose *)
(* stamp it carries.                                                       *)
Meant(message, trees) ==
  message.kind = "write" /\ message.meant.family # "as typed" =>
    /\ message.at \in 1 .. Len(trees)
    /\ message.path \in NodePaths(trees[message.at])
    /\ TrueAddress(trees[message.at], message.path) = {message.meant}

Mean(messages, trees) ==
  /\ messages \in Seq(Message)
  /\ \A i \in DOMAIN messages : Meant(messages[i], trees)

Inv ==
  /\ TypeOK
  /\ connected \in BOOLEAN /\ open \in BOOLEAN
  /\ InStep(topologies, connected, inbox, seen)
  /\ StoresAgree
  /\ \A t, u \in root : t = u
  /\ \A t, u \in parsed : t = u
  /\ Mean(outbox, topologies) /\ Mean(pending, topologies)

-----------------------------------------------------------------------------
(* A message joins the others.                                             *)
LEMMA MessageJoins ==
  ASSUME NEW trees, NEW messages, Mean(messages, trees),
         NEW message \in Message, Meant(message, trees)
  PROVE  Mean(Append(messages, message), trees)
<1> DEFINE more == Append(messages, message)
<1>1. /\ messages \in Seq(Message) /\ Len(messages) \in Nat
      /\ DOMAIN messages = 1 .. Len(messages)
      /\ more \in Seq(Message) /\ DOMAIN more = 1 .. Len(messages) + 1
      /\ \A i \in 1 .. Len(messages) : more[i] = messages[i]
      /\ more[Len(messages) + 1] = message
  BY AppendProperties, LenProperties DEF Mean
<1> HIDE DEF more
<1>2. \A i \in 1 .. Len(messages) + 1 :
        i \in 1 .. Len(messages) \/ i = Len(messages) + 1
  BY <1>1
<1>3. \A i \in DOMAIN more : Meant(more[i], trees)
  BY <1>1, <1>2, Zenon DEF Mean
<1>4. QED BY <1>1, <1>3 DEF Mean, more

(* The first message leaves them.                                          *)
LEMMA MessageLeaves ==
  ASSUME NEW trees, NEW messages, Mean(messages, trees), messages # <<>>
  PROVE  /\ Mean(Tail(messages), trees)
         /\ Head(messages) \in Message /\ Meant(Head(messages), trees)
<1> DEFINE rest == Tail(messages)
<1>1. /\ messages \in Seq(Message) /\ Len(messages) \in Nat
      /\ DOMAIN messages = 1 .. Len(messages)
  BY LenProperties DEF Mean
<1>2. /\ rest \in Seq(Message) /\ Len(rest) = Len(messages) - 1
      /\ \A i \in 1 .. Len(rest) : rest[i] = messages[i + 1]
      /\ Head(messages) = messages[1] /\ Head(messages) \in Message
  BY <1>1, HeadTailProperties
<1>3. DOMAIN rest = 1 .. Len(rest) /\ 1 \in DOMAIN messages
  BY <1>1, <1>2, LenProperties, EmptySeq
<1>4. \A i \in DOMAIN rest : i + 1 \in DOMAIN messages /\ rest[i] = messages[i + 1]
  BY <1>1, <1>2, <1>3
<1> HIDE DEF rest
<1>5. \A i \in DOMAIN rest : Meant(rest[i], trees)
  BY <1>4, Zenon DEF Mean
<1>6. Meant(Head(messages), trees)
  BY <1>2, <1>3, Zenon DEF Mean
<1>7. QED BY <1>2, <1>5, <1>6 DEF Mean, rest

(* What a write meant it means whatever the console becomes.               *)
LEMMA MeaningStays ==
  ASSUME NEW trees \in Seq(Seq(Node)), NEW later \in Seq(Seq(Node)),
         Len(trees) <= Len(later),
         \A k \in 1 .. Len(trees) : later[k] = trees[k],
         NEW messages, Mean(messages, trees)
  PROVE  Mean(messages, later)
<1>1. Len(trees) \in Nat /\ Len(later) \in Nat
  BY LenProperties
<1>2. \A k \in 1 .. Len(trees) : k \in 1 .. Len(later)
  BY <1>1
<1>3. ASSUME NEW i \in DOMAIN messages PROVE Meant(messages[i], later)
  <2>1. Meant(messages[i], trees)
    BY DEF Mean
  <2>2. QED BY <1>2, <2>1, Zenon DEF Meant
<1>4. QED BY <1>3 DEF Mean

(* Nothing means nothing wrong.                                            *)
LEMMA NoMessages == \A trees : Mean(<<>>, trees)
BY DEF Mean

(* A handshake names no node.                                              *)
LEMMA HandshakeMeans ==
  Handshake \in Message /\ \A trees : Meant(Handshake, trees)
BY DEF Handshake, Message, Meant

(* A console that changes keeps the trees it had.                          *)
LEMMA TreesKept ==
  ASSUME topologies \in Seq(Seq(Node)), Present \in Nat, Present >= 1, ConsoleNext
  PROVE  /\ topologies' \in Seq(Seq(Node))
         /\ Present' \in Nat /\ Present <= Present'
         /\ \A k \in 1 .. Present : topologies'[k] = topologies[k]
<1>1. CASE UNCHANGED topologies
  BY <1>1 DEF Present
<1>2. CASE ChangeShape \/ ReplaceTree
  <2>1. PICK tree \in Edits(Tree) : topologies' = Append(topologies, tree)
    BY <1>2 DEF ChangeShape, ReplaceTree
  <2>2. tree \in Seq(Node)
    BY PresentTreeChanges
  <2>3. QED BY <2>1, <2>2, TreesGrow DEF Present
<1>3. QED BY <1>1, <1>2 DEF ConsoleNext, ChangeProperty, SendUndecodable,
                            AnswerHandshake, CarryOutWrite

-----------------------------------------------------------------------------
(* The inductive invariant.                                                *)

(* Nothing is stored, and the console streams its tree or is asked for it. *)
LEMMA InitInv == Init => Inv
<1>1. SUFFICES ASSUME Init PROVE Inv
  OBVIOUS
<1>2. /\ topologies = <<InitialTree>> /\ seen = 1 /\ synced = 0
      /\ layout = {} /\ root = {} /\ parsed = {} /\ pending = <<>>
      /\ reader = "reading" /\ prompt = "loop" /\ open = TRUE
      /\ held = [stdin |-> "loop", layout |-> "nobody", root |-> "nobody"]
  BY <1>1 DEF Init
<1>3. topologies \in Seq(Seq(Node)) /\ Len(topologies) = 1
      /\ Len(topologies) \in Nat
      /\ 1 \in 1 .. Len(topologies) /\ topologies[1] = InitialTree
  BY <1>2, ConsoleAssumption
<1>4. InStep(topologies, FALSE, <<>>, 1)
  BY <1>3, FramesLost
<1>5. /\ connected \in BOOLEAN
      /\ InStep(topologies, connected, inbox, seen)
      /\ Mean(outbox, topologies)
  <2>1. CASE connected = TRUE /\ inbox = <<FullSync(InitialTree, 1)>> /\ outbox = <<>>
    <3> DEFINE frame == FullSync(InitialTree, 1)
    <3>1. /\ frame \in Frame /\ frame.at = 1 /\ frame.kind = "fullSync"
          /\ frame.tree = topologies[1]
      BY <1>3, ConsoleAssumption DEF FullSync, Frame
    <3>2. Follows(frame, Latest(<<>>, 1), topologies)
      BY <1>3, <3>1 DEF Follows, Announces, Latest
    <3>3. InStep(topologies, TRUE, Append(<<>>, frame), 1)
      BY <1>3, <1>4, <3>1, <3>2, ReportJoins
    <3>4. Append(<<>>, frame) = <<frame>>
      OBVIOUS
    <3>5. QED BY <1>2, <2>1, <3>3, <3>4, NoMessages
  <2>2. CASE connected = FALSE /\ inbox = <<>> /\ outbox = <<Handshake>>
    <3>1. Mean(Append(<<>>, Handshake), topologies)
      BY NoMessages, HandshakeMeans, MessageJoins
    <3>2. Append(<<>>, Handshake) = <<Handshake>>
      OBVIOUS
    <3>3. QED BY <1>2, <1>4, <2>2, <3>1, <3>2
  <2>3. QED BY <1>1, <2>1, <2>2 DEF Init
<1>6. TypeOK
  BY <1>2, <1>3 DEF TypeOK, Present
<1>7. StoresAgree
  BY <1>2 DEF StoresAgree
<1>8. QED BY <1>2, <1>5, <1>6, <1>7, NoMessages DEF Inv

(* A frame is read: a full sync that makes a layout replaces it, and the   *)
(* stores agree but for the tree that is yet to be stored.                 *)
LEMMA HandleBodyKeepsInv ==
  ASSUME Inv, HandleBody
  PROVE  Inv'
<1> DEFINE frame == Head(inbox)
<1> USE DEF Inv
<1>1. /\ open /\ reader = "reading" /\ inbox # <<>> /\ inbox' = Tail(inbox)
      /\ seen' = frame.at
      /\ UNCHANGED <<topologies, connected, outbox, root, prompt, pending,
                     held, open>>
  BY DEF HandleBody, TakeFrame, promptVars
<1>2. /\ frame \in Frame /\ Follows(frame, seen, topologies)
      /\ frame.at \in seen .. Len(topologies)
      /\ InStep(topologies, connected, Tail(inbox), frame.at)
  BY <1>1, FrameTaken
<1>3. /\ Len(topologies) \in Nat /\ seen \in 1 .. Len(topologies)
      /\ topologies \in Seq(Seq(Node)) /\ synced \in 0 .. seen
  BY DEF InStep, TypeOK
<1> HIDE DEF frame
<1>4. /\ seen' \in 1 .. Present /\ synced \in 0 .. seen'
      /\ connected /\ parsed = {}
  <2>1. frame.at \in 1 .. Len(topologies) /\ synced \in 0 .. frame.at
    BY <1>2, <1>3
  <2>2. connected
    BY <1>1 DEF InStep
  <2>3. QED BY <1>1, <2>1, <2>2 DEF TypeOK, Present
<1>5. InStep(topologies, connected, inbox, seen)'
  BY <1>1, <1>2
<1>6. CASE Store(frame) /\ frame.kind = "fullSync" /\ Supported(frame.tree)
  <2>1. /\ layout' = FromFullSync(frame.tree) /\ parsed' = {frame.tree}
        /\ synced' = frame.at /\ reader' = "storing"
    BY <1>6 DEF Store
  <2>2. frame.tree = topologies[frame.at] /\ frame.tree \in Seq(Node)
    <3>1. frame.at \in 1 .. Len(topologies)
      BY <1>2, <1>3
    <3>2. QED BY <1>2, <1>3, <1>6, <3>1, ElementOfSeq DEF Follows
  <2>3. layout' # {} /\ frame.at \in 1 .. frame.at
    BY <1>2, <1>3, <1>6, <2>1 DEF FromFullSync
  <2>4. StoresAgree'
    <3>1. layout' = UNION {FromFullSync(t) : t \in parsed'}
      BY <2>1
    <3>2. parsed' # {}
      BY <2>1
    <3>3. layout' = FromFullSync(topologies'[synced'])
      BY <1>1, <2>1, <2>2
    <3> HIDE DEF Inv
    <3>4. QED BY <3>1, <3>2, <3>3 DEF StoresAgree
  <2>5. TypeOK'
    <3>1. synced' \in 0 .. seen' /\ (synced' = 0 <=> layout' = {})
      BY <1>1, <1>2, <1>3, <2>1, <2>3
    <3>2. QED BY <1>1, <1>4, <2>1, <2>2, <3>1 DEF TypeOK, Present
  <2>6. \A t, u \in parsed' : t = u
    BY <2>1
  <2>7. QED BY <1>1, <1>5, <2>4, <2>5, <2>6
<1>7. CASE Keep
  <2>1. UNCHANGED <<layout, parsed, synced, reader>>
    BY <1>7 DEF Keep
  <2>2. TypeOK'
    BY <1>1, <1>4, <2>1 DEF TypeOK, Present
  <2>3. StoresAgree'
    BY <1>1, <2>1 DEF StoresAgree
  <2>4. QED BY <1>1, <1>5, <2>1, <2>2, <2>3
<1>8. QED BY <1>6, <1>7 DEF HandleBody, frame

(* The tree is stored too, and the stores agree.                           *)
LEMMA StoreRootKeepsInv ==
  ASSUME Inv, StoreRoot
  PROVE  Inv'
<1> USE DEF Inv
<1>1. /\ reader = "storing" /\ root' = parsed /\ parsed' = {}
      /\ reader' \in {"announcing", "reading"}
      /\ UNCHANGED <<topologies, connected, inbox, outbox, layout, seen, synced,
                     prompt, pending, held, open>>
  BY DEF StoreRoot, consoleVars, promptVars
<1>2. parsed # {}
  BY <1>1 DEF TypeOK
<1>3. TypeOK'
  BY <1>1 DEF TypeOK, Present
<1>4. StoresAgree'
  BY <1>1, <1>2 DEF StoresAgree
<1>5. QED BY <1>1, <1>3, <1>4

(* A command is encoded through the layout of the topology whose stamp it  *)
(* gets.                                                                   *)
LEMMA EncodeKeepsInv ==
  ASSUME Inv, Encode
  PROVE  Inv'
<1> USE DEF Inv
<1>1. prompt' = "loop" /\ UNCHANGED <<consoleVars, readerVars, held, open>>
  BY DEF Encode
<1>2. PICK place \in DOMAIN Offered :
        /\ Reading(place)
        /\ \E command \in Offered[place] : \E l \in layout :
             \E path \in PathOf(l, command.address) :
               pending' = [i \in 1 .. command.frames |->
                             Write(path, command.address, synced)]
  BY DEF Encode
<1>3. PICK command \in Offered[place], l \in layout :
        \E path \in PathOf(l, command.address) :
          pending' = [i \in 1 .. command.frames |->
                        Write(path, command.address, synced)]
  BY <1>2
<1>4. PICK path \in PathOf(l, command.address) :
        pending' = [i \in 1 .. command.frames |->
                      Write(path, command.address, synced)]
  BY <1>3
<1>5. command.address \in AllAddresses /\ command.frames \in Nat
  <2>1. command \in Commands \cup {PowerOff}
    BY <1>3 DEF Offered
  <2>2. Address("SYSTEM", <<>>) \in AllAddresses
    BY DEF AllAddresses, Singletons
  <2>3. QED BY <2>1, <2>2, CommandsAssumption DEF PowerOff
<1>6. /\ synced \in 1 .. Len(topologies) /\ synced \in Nat
      /\ topologies[synced] \in Seq(Node) /\ l \in FromFullSync(topologies[synced])
  <2>1. synced # 0 /\ synced \in 0 .. seen /\ seen \in 1 .. Len(topologies)
        /\ Len(topologies) \in Nat
    BY DEF TypeOK, InStep
  <2>2. synced \in 1 .. Len(topologies) /\ synced > 0 /\ synced \in Nat
    BY <2>1
  <2>3. layout = FromFullSync(topologies[synced])
    BY <2>2 DEF StoresAgree
  <2>4. topologies[synced] \in Seq(Node)
    BY <2>2, ElementOfSeq DEF InStep
  <2>5. QED BY <2>2, <2>3, <2>4
<1>7. /\ path \in NodePaths(topologies[synced])
      /\ TrueAddress(topologies[synced], path) = {command.address}
  BY <1>5, <1>6, EncodedPathsAreTrue
<1>8. path \in Seq(Nat)
  BY <1>6, <1>7, NodePathsAreSequences
<1> DEFINE write == Write(path, command.address, synced)
<1>9. write \in Message /\ Meant(write, topologies) /\ write.kind = "write"
  BY <1>5, <1>6, <1>7, <1>8 DEF Write, Message, Meant
<1> HIDE DEF write
<1>10. /\ pending' \in Seq(Message) /\ DOMAIN pending' = 1 .. command.frames
       /\ \A i \in DOMAIN pending' : pending'[i] = write
  BY <1>4, <1>5, <1>9 DEF write
<1>11. Mean(pending', topologies)
  BY <1>9, <1>10 DEF Mean
<1>12. TypeOK'
  <2>1. prompt \in {"loop", "confirmation"}
    BY <1>2 DEF Reading, Offered
  <2>2. \A i \in DOMAIN pending' : pending'[i].kind = "write"
    BY <1>9, <1>10
  <2>3. QED BY <1>1, <2>1, <2>2
        DEF TypeOK, Present, consoleVars, readerVars, storeVars
<1>13. StoresAgree'
  BY <1>1 DEF StoresAgree, consoleVars, readerVars, storeVars
<1>14. QED BY <1>1, <1>11, <1>12, <1>13 DEF consoleVars, readerVars, storeVars

(* A path as typed promises nothing.                                       *)
LEMMA RawWriteKeepsInv ==
  ASSUME Inv, RawWrite
  PROVE  Inv'
<1> USE DEF Inv
<1>1. PICK path \in RawPaths :
        pending' = <<Write(path, Address("as typed", path), synced)>>
  BY DEF RawWrite
<1>2. prompt = "loop" /\ UNCHANGED <<consoleVars, readerVars, prompt, held, open>>
  BY DEF RawWrite, Reading
<1>3. path \in Seq(Nat) /\ synced \in Nat
  BY CommandsAssumption DEF TypeOK
<1> DEFINE write == Write(path, Address("as typed", path), synced)
<1>4. write \in Message /\ Meant(write, topologies) /\ write.kind = "write"
  BY <1>3 DEF Write, Message, Meant, AsTyped, Address
<1>5. pending' = <<write>>
  BY <1>1
<1> HIDE DEF write
<1>6. Mean(pending', topologies)
  <2>1. Append(<<>>, write) = <<write>>
    OBVIOUS
  <2>2. QED BY <1>4, <1>5, <2>1, NoMessages, MessageJoins
<1>7. TypeOK'
  <2>1. \A i \in DOMAIN pending' : pending'[i].kind = "write"
    BY <1>4, <1>5
  <2>2. QED BY <1>2, <2>1 DEF TypeOK, Present, consoleVars, readerVars, storeVars
<1>8. StoresAgree'
  BY <1>2 DEF StoresAgree, consoleVars, readerVars, storeVars
<1>9. QED BY <1>2, <1>6, <1>7, <1>8 DEF consoleVars, readerVars, storeVars

(* A frame is written, or with those after it dropped.                     *)
LEMMA WriteFrameKeepsInv ==
  ASSUME Inv, WriteFrame
  PROVE  Inv'
<1> USE DEF Inv
<1>1. /\ pending # <<>>
      /\ UNCHANGED <<topologies, connected, inbox, readerVars, prompt, held, open>>
  BY DEF WriteFrame
<1>2. \/ open /\ outbox' = Append(outbox, Head(pending)) /\ pending' = Tail(pending)
      \/ ~open /\ pending' = <<>> /\ UNCHANGED outbox
  BY DEF WriteFrame
<1>3. Mean(outbox', topologies) /\ Mean(pending', topologies)
  BY <1>1, <1>2, MessageLeaves, MessageJoins, NoMessages
<1>4. \A i \in DOMAIN pending' : pending'[i].kind = "write"
  <2>1. CASE pending' = Tail(pending)
    <3>1. pending \in Seq(Message) /\ Len(pending) \in Nat
          /\ DOMAIN pending = 1 .. Len(pending)
      BY LenProperties DEF Mean
    <3>2. /\ pending' \in Seq(Message) /\ Len(pending') = Len(pending) - 1
          /\ \A i \in 1 .. Len(pending') : pending'[i] = pending[i + 1]
      BY <1>1, <2>1, <3>1, HeadTailProperties
    <3>3. DOMAIN pending' = 1 .. Len(pending')
      BY <3>2, LenProperties
    <3>4. \A i \in DOMAIN pending' : i + 1 \in DOMAIN pending
      BY <3>1, <3>2, <3>3
    <3>5. QED BY <3>2, <3>3, <3>4, Zenon DEF TypeOK
  <2>2. CASE pending' = <<>>
    BY <2>2
  <2>3. QED BY <1>2, <2>1, <2>2
<1>5. TypeOK'
  BY <1>1, <1>2, <1>4 DEF TypeOK, Present, readerVars, storeVars
<1>6. StoresAgree'
  BY <1>1 DEF StoresAgree, readerVars, storeVars
<1>7. QED BY <1>1, <1>3, <1>5, <1>6 DEF readerVars, storeVars

(* Lines that make no frame of a command change none of the stores.        *)
LEMMA QuietLinesKeepInv ==
  ASSUME Inv, MakeNothing \/ AskForYes \/ DumpLayout \/ DumpRoot \/ Dumped \/ Announce
  PROVE  Inv'
<1> USE DEF Inv
<1>1. UNCHANGED <<consoleVars, storeVars, pending, open>>
  BY DEF MakeNothing, AskForYes, DumpLayout, DumpRoot, Dumped, Announce,
         readerVars, promptVars
<1>2. TypeOK'
  <2>1. CASE MakeNothing
    <3>1. prompt \in {"loop", "confirmation"} /\ prompt' = "loop"
          /\ UNCHANGED <<reader, held>>
      BY <2>1 DEF MakeNothing, Reading, Offered, readerVars
    <3>2. QED BY <1>1, <3>1 DEF TypeOK, Present, consoleVars, storeVars
  <2>2. CASE AskForYes
    <3>1. prompt = "loop" /\ prompt' = "confirmation" /\ pending = <<>>
          /\ UNCHANGED <<reader, held>>
      BY <2>2 DEF AskForYes, Reading, readerVars
    <3>2. QED BY <1>1, <3>1 DEF TypeOK, Present, consoleVars, storeVars
  <2>3. CASE DumpLayout
    <3>1. prompt = "loop" /\ prompt' = "locking" /\ pending = <<>>
          /\ held' = [held EXCEPT !.layout = "prompt"] /\ UNCHANGED reader
      BY <2>3 DEF DumpLayout, Reading, readerVars
    <3>2. QED BY <1>1, <3>1 DEF TypeOK, Present, consoleVars, storeVars
  <2>4. CASE DumpRoot
    <3>1. prompt = "locking" /\ prompt' = "dumping"
          /\ held' = [held EXCEPT !.root = "prompt"] /\ UNCHANGED reader
      BY <2>4 DEF DumpRoot, readerVars
    <3>2. QED BY <1>1, <3>1 DEF TypeOK, Present, consoleVars, storeVars
  <2>5. CASE Dumped
    <3>1. prompt = "dumping" /\ prompt' = "loop" /\ UNCHANGED reader
          /\ held' = [held EXCEPT !.layout = "nobody", !.root = "nobody"]
      BY <2>5 DEF Dumped, readerVars
    <3>2. QED BY <1>1, <3>1 DEF TypeOK, Present, consoleVars, storeVars
  <2>6. CASE Announce
    <3>1. reader = "announcing" /\ reader' = "reading" /\ UNCHANGED <<prompt, held>>
      BY <2>6 DEF Announce, promptVars
    <3>2. QED BY <1>1, <3>1 DEF TypeOK, Present, consoleVars, storeVars
  <2>7. QED BY <2>1, <2>2, <2>3, <2>4, <2>5, <2>6
<1>3. StoresAgree'
  BY <1>1 DEF StoresAgree, consoleVars, storeVars
<1>4. QED BY <1>1, <1>2, <1>3 DEF consoleVars, storeVars

(* A handshake is sent, if there is anywhere to send it.                   *)
LEMMA RefreshKeepsInv ==
  ASSUME Inv, Refresh
  PROVE  Inv'
<1> USE DEF Inv
<1>1. /\ outbox' = IF open THEN Append(outbox, Handshake) ELSE outbox
      /\ UNCHANGED <<topologies, connected, inbox, clientVars>>
  BY DEF Refresh
<1>2. Mean(outbox', topologies)
  BY <1>1, HandshakeMeans, MessageJoins
<1>3. TypeOK'
  BY <1>1 DEF TypeOK, Present, clientVars, readerVars, storeVars, promptVars
<1>4. StoresAgree'
  BY <1>1 DEF StoresAgree, clientVars, readerVars, storeVars
<1>5. QED BY <1>1, <1>2, <1>3, <1>4 DEF clientVars, readerVars, storeVars, promptVars

(* With the connection go the messages on it.                              *)
LEMMA CutKeepsInv ==
  ASSUME Inv, Hangup \/ Quit
  PROVE  Inv'
<1> USE DEF Inv
<1>1. /\ open' = FALSE /\ connected' = FALSE /\ inbox' = <<>> /\ outbox' = <<>>
      /\ UNCHANGED <<topologies, readerVars, pending, held>>
      /\ \/ UNCHANGED prompt
         \/ prompt = "loop" /\ pending = <<>> /\ prompt' = "ended"
  BY DEF Hangup, Quit, Cut, Reading
<1>2. /\ topologies \in Seq(Seq(Node)) /\ Len(topologies) \in Nat
      /\ seen \in 1 .. Len(topologies)
  BY DEF InStep
<1>3. InStep(topologies, FALSE, <<>>, seen)
  BY <1>2, FramesLost
<1>4. InStep(topologies, connected, inbox, seen)'
  BY <1>1, <1>3 DEF readerVars, storeVars
<1>5. TypeOK'
  BY <1>1 DEF TypeOK, Present, readerVars, storeVars
<1>6. StoresAgree'
  BY <1>1 DEF StoresAgree, readerVars, storeVars
<1>7. QED BY <1>1, <1>4, <1>5, <1>6, NoMessages DEF readerVars, storeVars

(* Whatever the console does, the stores are those of the topology they    *)
(* were made of, and writes mean what they meant.                          *)
LEMMA ConsoleStepKeepsInv ==
  ASSUME Inv, ConsoleStep
  PROVE  Inv'
<1> USE DEF Inv
<1>1. ConsoleNext /\ UNCHANGED clientVars
  BY DEF ConsoleStep
<1>2. connected' \in BOOLEAN /\ InStep(topologies', connected', inbox', seen)
  BY <1>1, ConsoleStaysInStep
<1>3. /\ topologies \in Seq(Seq(Node)) /\ Present \in Nat /\ Present >= 1
      /\ seen \in 1 .. Present
  BY DEF InStep, Present
<1>4. /\ topologies' \in Seq(Seq(Node))
      /\ Present' \in Nat /\ Present <= Present'
      /\ \A k \in 1 .. Present : topologies'[k] = topologies[k]
  BY <1>1, <1>3, TreesKept
<1>5. Mean(outbox, topologies') /\ Mean(pending, topologies')
  BY <1>3, <1>4, MeaningStays DEF Present
<1>6. Mean(outbox', topologies')
  <2>1. \/ UNCHANGED outbox
        \/ outbox # <<>> /\ outbox' = Tail(outbox)
    BY <1>1 DEF ConsoleNext, ChangeShape, ReplaceTree, ChangeProperty,
                SendUndecodable, AnswerHandshake, CarryOutWrite
  <2>2. QED BY <1>5, <2>1, MessageLeaves
<1>7. ~open => ~connected' /\ inbox' = <<>> /\ outbox' = <<>>
  <2>1. SUFFICES ASSUME ~open PROVE ~connected' /\ inbox' = <<>> /\ outbox' = <<>>
    OBVIOUS
  <2>2. ~connected /\ inbox = <<>> /\ outbox = <<>>
    BY <2>1 DEF TypeOK
  <2>3. QED BY <1>1, <2>2 DEF ConsoleNext, ChangeShape, ReplaceTree, CanPost,
                     ChangeProperty, SendUndecodable, AnswerHandshake, CarryOutWrite
<1>8. TypeOK'
  <2>1. seen \in 1 .. Present'
    BY <1>3, <1>4
  <2>2. QED BY <1>1, <1>7, <2>1
        DEF TypeOK, clientVars, readerVars, storeVars, promptVars
<1>9. StoresAgree'
  <2>1. synced > 0 => synced \in 1 .. Present
    BY <1>3 DEF TypeOK
  <2>2. QED BY <1>1, <1>4, <2>1 DEF StoresAgree, clientVars, readerVars, storeVars
<1>10. QED BY <1>1, <1>2, <1>5, <1>6, <1>8, <1>9
       DEF clientVars, readerVars, storeVars, promptVars

(* No step of either thread, or of the console, breaks the invariant.      *)
LEMMA NextKeepsInv == Inv /\ [Next]_vars => Inv'
<1>1. SUFFICES ASSUME Inv, [Next]_vars PROVE Inv'
  OBVIOUS
<1>2. CASE UNCHANGED vars
  <2>1. TypeOK' /\ StoresAgree'
    BY <1>1, <1>2 DEF Inv, TypeOK, StoresAgree, Present, vars, consoleVars,
                      clientVars, readerVars, storeVars, promptVars
  <2>2. QED BY <1>1, <1>2, <2>1
        DEF Inv, vars, consoleVars, clientVars, readerVars, storeVars, promptVars
<1>3. QED BY <1>1, <1>2, HandleBodyKeepsInv, StoreRootKeepsInv, EncodeKeepsInv,
             RawWriteKeepsInv, WriteFrameKeepsInv, QuietLinesKeepInv,
             RefreshKeepsInv, CutKeepsInv, ConsoleStepKeepsInv DEF Next

(* The invariant holds throughout.                                         *)
LEMMA Invariant == Spec => []Inv
BY InitInv, NextKeepsInv, PTL DEF Spec

-----------------------------------------------------------------------------
(* The cell that is printed.                                               *)

(* Of two siblings of a name the later has more namesakes before it.       *)
LEMMA RanksGrow ==
  ASSUME NEW names \in Seq(STRING), NEW p \in Nat, NEW q \in Nat, p < q,
         names[p + 1] = names[q + 1]
  PROVE  Rank(names, p) # Rank(names, q)
<1> DEFINE P == {r \in 0 .. p - 1 : names[r + 1] = names[p + 1]}
           Q == {r \in 0 .. q - 1 : names[r + 1] = names[q + 1]}
<1>1. IsFiniteSet(Q)
  <2>1. IsFiniteSet(0 .. q - 1)
    BY FS_Interval
  <2>2. QED BY <2>1, FS_Subset
<1>2. P \subseteq Q /\ p \in Q /\ p \notin P
  OBVIOUS
<1>3. Cardinality(P) # Cardinality(Q)
  <2> HIDE DEF P, Q
  <2>1. P \in SUBSET Q /\ P # Q
    BY <1>2
  <2>2. QED BY <1>1, <2>1, FS_Subset
<1>4. QED BY <1>3 DEF Rank

(* Counting all the MIX nodes of the tree a layout was made of finds the   *)
(* same node as the layout does, for the cells that it has.                *)
LEMMA DumpedCellIsAddressed ==
  ASSUME NEW tree \in Seq(Node), NEW l \in FromFullSync(tree),
         NEW s \in 0 .. l.sourceCount - 1, NEW m \in 0 .. MixPerSource - 1
  PROVE  MixCellPath(l, s, m) = {<<p>> : p \in DumpedCell(tree, s, m)}
<1> DEFINE names == Names(tree)
           first == l.firstMix
           rows == l.sourceCount
           k == s * MixPerSource + m
<1>1. Supported(tree) /\ l = LayoutOf(tree)
  BY DEF FromFullSync
<1>2. /\ names \in Seq(STRING) /\ Len(names) = Len(tree) /\ Len(tree) \in Nat
      /\ \A p \in 0 .. Len(tree) - 1 : names[p + 1] = tree[p + 1].name
  BY NamesOfTree
<1>3. /\ first \in FirstNamed(names, "MIX") /\ first \in Nat /\ rows \in Nat
      /\ Consecutive(names, first, "MIX") = rows * MixPerSource
  BY <1>1, DiscoveredMix
<1>4. s \in Nat /\ s < rows
  BY <1>3
<1>5. k \in Nat /\ k < rows * MixPerSource
  BY <1>3, <1>4, CellsInRows, RowsFit
<1>6. MixCellPath(l, s, m) = {<<first + k>>}
  <2>1. m < MixPerSource /\ s * MixPerSource \in Int /\ m \in Int /\ first \in Int
    BY <1>3, <1>4, LayoutAssumption
  <2>2. first + s * MixPerSource + m = first + k
    BY <2>1
  <2>3. QED BY <1>4, <2>1, <2>2 DEF MixCellPath
<1> HIDE DEF k, first, rows, names
<1>7. /\ first + k \in 0 .. Len(names) - 1 /\ names[first + k + 1] = "MIX"
      /\ Rank(names, first + k) = k
  BY <1>2, <1>3, <1>5, RunsHoldTheirSiblings
<1>8. ASSUME NEW p \in 0 .. Len(tree) - 1, names[p + 1] = "MIX", Rank(names, p) = k
      PROVE  p = first + k
  <2>1. p \in Nat /\ first + k \in Nat
    BY <1>2, <1>3, <1>5
  <2>2. ~(p < first + k) /\ ~(first + k < p)
    BY <1>2, <1>7, <1>8, <2>1, RanksGrow
  <2>3. QED BY <2>1, <2>2
<1>9. \A p : p \in DumpedCell(tree, s, m) <=>
        p \in 0 .. Len(tree) - 1 /\ names[p + 1] = "MIX" /\ Rank(names, p) = k
  BY <1>2 DEF DumpedCell, names, k
<1>10. \A p : p \in DumpedCell(tree, s, m) <=> p = first + k
  BY <1>2, <1>7, <1>8, <1>9
<1>11. DumpedCell(tree, s, m) = {first + k}
  BY <1>10
<1>12. QED BY <1>6, <1>11

(* For a source that the layout does not have it finds a MIX node of a     *)
(* later run, which has no address, or nothing.                            *)
LEMMA DumpedBeyondIsNobodys ==
  ASSUME NEW tree \in Seq(Node), NEW l \in FromFullSync(tree),
         NEW s \in Nat, s >= l.sourceCount, NEW m \in 0 .. MixPerSource - 1,
         NEW p \in DumpedCell(tree, s, m)
  PROVE  Resolve(l, <<p>>) = {}
<1> DEFINE names == Names(tree)
           first == l.firstMix
           rows == l.sourceCount
           k == s * MixPerSource + m
<1>1. Supported(tree) /\ l = LayoutOf(tree)
  BY DEF FromFullSync
<1>2. /\ names \in Seq(STRING) /\ Len(names) = Len(tree) /\ Len(tree) \in Nat
      /\ \A q \in 0 .. Len(tree) - 1 : names[q + 1] = tree[q + 1].name
  BY NamesOfTree
<1>3. /\ first \in FirstNamed(names, "MIX") /\ first \in Nat /\ rows \in Nat
      /\ Consecutive(names, first, "MIX") = rows * MixPerSource
  BY <1>1, DiscoveredMix
<1>4. /\ p \in Nat /\ p \in 0 .. Len(tree) - 1 /\ tree[p + 1].name = "MIX"
      /\ names[p + 1] = "MIX" /\ Rank(names, p) = k
  BY <1>2 DEF DumpedCell
<1>5. k \in Nat /\ ~(k < rows * MixPerSource)
  <2>1. k \in Nat /\ k \div MixPerSource = s
    BY CellsInRows
  <2>2. k < rows * MixPerSource => k \div MixPerSource < rows
    BY <1>3, <2>1, CellInMatrix
  <2>3. QED BY <1>3, <2>1, <2>2
<1> HIDE DEF names, first, rows, k
<1>6. SUFFICES ASSUME NEW a \in Resolve(l, <<p>>) PROVE FALSE
  OBVIOUS
<1>7. TrueAddress(tree, <<p>>) = {a} /\ <<p>> \in PathOf(l, a) /\ a \in Addresses
  <2>1. <<p>> \in Seq(Nat)
    BY <1>4
  <2>2. TrueAddress(tree, <<p>>) = {a}
    BY <2>1, ResolvedAddressIsTrue
  <2>3. a \in Addresses /\ <<p>> \in PathOf(l, a)
    BY <2>1, ResolvedHasPath
  <2>4. QED BY <2>2, <2>3
<1>8. a \in TrueAtTop(names, p)
  BY <1>7 DEF TrueAddress, names
<1>9. a = Address("MIX", <<k \div MixPerSource, k % MixPerSource>>)
  BY <1>4, <1>8, TablesAgree, FamiliesApart DEF TrueAtTop
<1>10. k \div MixPerSource = s /\ k % MixPerSource = m
  BY CellsInRows DEF k
<1>11. MixCellPath(l, s, m) # {}
  <2>1. m \in Nat
    BY LayoutAssumption
  <2>2. PathOf(l, a) = MixCellPath(l, s, m)
    BY <1>9, <1>10, <2>1, AddressPaths
  <2>3. QED BY <1>7, <2>2
<1>12. QED BY <1>3, <1>11 DEF MixCellPath, rows

-----------------------------------------------------------------------------
(* The results.                                                            *)

(* The locks are held by whom the prompt's state says, the reader has a    *)
(* tree to store exactly while it is storing.                              *)
THEOREM CliTypes == Spec => []TypeOK
<1>1. Inv => TypeOK
  BY DEF Inv
<1>2. QED BY <1>1, Invariant, PTL

(* The layout is always that of the last full sync that had one, and the   *)
(* stored tree, or the one about to be stored, is the tree it was made of. *)
THEOREM CliStores == Spec => []StoresAgree
<1>1. Inv => StoresAgree
  BY DEF Inv
<1>2. QED BY <1>1, Invariant, PTL

(* dump-cell prints the cell that the layout addresses, unless it comes    *)
(* between the two stores, and for a source that the layout does not have  *)
(* a node that has no address, or none.                                    *)
THEOREM CliDumps == Spec => []DumpShowsTheCell
<1>1. Inv => DumpShowsTheCell
  <2>1. SUFFICES ASSUME Inv, parsed = {}, NEW l \in layout, NEW tree \in root,
                        NEW s \in Ordinals, NEW m \in 0 .. MixPerSource - 1
                 PROVE  /\ s < l.sourceCount =>
                             MixCellPath(l, s, m)
                               = {<<p>> : p \in DumpedCell(tree, s, m)}
                        /\ s >= l.sourceCount =>
                             \A p \in DumpedCell(tree, s, m) :
                               Resolve(l, <<p>>) = {}
    BY DEF DumpShowsTheCell
  <2>2. layout = UNION {FromFullSync(t) : t \in root}
    BY <2>1 DEF Inv, StoresAgree
  <2>3. l \in FromFullSync(tree)
    BY <2>1, <2>2 DEF Inv
  <2>4. tree \in Seq(Node)
    BY <2>1 DEF Inv, TypeOK
  <2>5. s \in Nat /\ l.sourceCount \in Nat
    BY <2>3, <2>4, LayoutCounts, LayoutAssumption DEF Ordinals
  <2>6. ASSUME s < l.sourceCount
        PROVE  MixCellPath(l, s, m) = {<<p>> : p \in DumpedCell(tree, s, m)}
    <3>1. s \in 0 .. l.sourceCount - 1
      BY <2>5, <2>6
    <3>2. QED BY <2>3, <2>4, <3>1, DumpedCellIsAddressed
  <2>7. QED BY <2>3, <2>4, <2>5, <2>6, DumpedBeyondIsNobodys
<1>2. QED BY <1>1, Invariant, PTL

(* As long as the layout is of the topology the reader last heard of, it   *)
(* attributes every event to the node whose property changed.              *)
THEOREM CliEvents == Spec => []EventsAreRightUntilAChange
<1>1. Inv => EventsAreRightUntilAChange
  <2>1. SUFFICES ASSUME Inv, NEW i \in DOMAIN inbox, Head(inbox).kind = "property",
                        synced = seen, NEW a \in EventAddress(Head(inbox))
                 PROVE  a \in TrueAddress(topologies[Head(inbox).at], Head(inbox).path)
    BY DEF EventsAreRightUntilAChange
  <2> DEFINE frame == Head(inbox)
  <2>2. inbox # <<>> /\ InStep(topologies, connected, inbox, seen)
    BY <2>1 DEF Inv
  <2>3. frame \in Frame /\ Follows(frame, seen, topologies)
    BY <2>1, <2>2, FrameTaken DEF Inv
  <2>4. frame.path \in Seq(Nat) /\ frame.at = seen
    BY <2>1, <2>3 DEF Frame, Follows, Announces
  <2>5. topologies[seen] \in Seq(Node) /\ seen > 0
    BY <2>2, ElementOfSeq DEF InStep
  <2>6. PICK l \in layout : a \in Resolve(l, frame.path)
    BY <2>1 DEF EventAddress
  <2>7. l \in FromFullSync(topologies[seen])
    BY <2>1, <2>5, <2>6 DEF Inv, StoresAgree
  <2> HIDE DEF frame
  <2>8. TrueAddress(topologies[seen], frame.path) = {a}
    BY <2>4, <2>5, <2>6, <2>7, ResolvedAddressIsTrue
  <2>9. QED BY <2>4, <2>8 DEF frame
<1>2. QED BY <1>1, Invariant, PTL

(* A frame of a command goes astray only if it was encoded through the map *)
(* of an earlier topology.                                                 *)
THEOREM CliFrames == Spec => []StrayFramesAreOfAnOldMap
<1>1. Inv => StrayFramesAreOfAnOldMap
  <2>1. SUFFICES ASSUME Inv, NEW i \in DOMAIN outbox, outbox[i].kind = "write",
                        outbox[i].meant.family # "as typed",
                        ~(outbox[i].at < Present)
                 PROVE  /\ outbox[i].path \in NodePaths(Tree)
                        /\ TrueAddress(Tree, outbox[i].path) = {outbox[i].meant}
    BY DEF StrayFramesAreOfAnOldMap
  <2>2. Meant(outbox[i], topologies)
    BY <2>1 DEF Inv, Mean
  <2>3. Present \in Nat
    BY <2>1 DEF Inv, InStep, Present
  <2>4. outbox[i].at \in 1 .. Present
    BY <2>1, <2>2 DEF Meant, Present
  <2>5. outbox[i].at = Present
    <3>1. \A n \in Nat : \A a \in 1 .. n : ~(a < n) => a = n
      OBVIOUS
    <3>2. QED BY <2>1, <2>3, <2>4, <3>1, Zenon
  <2>6. QED BY <2>1, <2>2, <2>5 DEF Meant, Tree
<1>2. QED BY <1>1, Invariant, PTL
=============================================================================
