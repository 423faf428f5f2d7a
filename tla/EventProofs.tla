----------------------------- MODULE EventProofs ----------------------------
(***************************************************************************)
(* What the address map promises, and events and commands each other, for  *)
(* every initial tree, every tree a console can reach from it, every       *)
(* number of sources and mixes, and every counter.  What depends on the    *)
(* tree is in AddressProofs: a step has only to preserve that it is one.   *)
(* What is left is which of the decoder's rules have anything to say about *)
(* a property, and of whom.                                                *)
(***************************************************************************)
EXTENDS EventProps, LineProps, AddressProofs

-----------------------------------------------------------------------------
(* The promises of the address map.                                        *)

Small == {node \in Node : Len(node.kids) <= MaxKids}

Inv == tree \in Seq(Small) /\ Len(tree) <= MaxNodes

(* A tree of nodes within bounds is a tree of nodes.                       *)
LEMMA SmallTrees ==
  ASSUME NEW t \in Seq(Small)
  PROVE  /\ t \in Seq(Node) /\ Len(t) \in Nat /\ DOMAIN t = 1 .. Len(t)
         /\ \A i \in DOMAIN t : /\ t[i] \in Node /\ t[i].kids \in Seq(STRING)
                                /\ Len(t[i].kids) <= MaxKids
<1>1. Len(t) \in Nat /\ DOMAIN t = 1 .. Len(t) /\ t \in [1 .. Len(t) -> Small]
  BY LenProperties
<1>2. \A i \in DOMAIN t : t[i] \in Small
  BY <1>1
<1>3. \A i \in DOMAIN t : /\ t[i] \in Node /\ t[i].kids \in Seq(STRING)
                          /\ Len(t[i].kids) <= MaxKids
  BY <1>2 DEF Small, Node
<1>4. t \in Seq(Node)
  BY <1>1, <1>2 DEF Small
<1>5. QED BY <1>1, <1>3, <1>4

(* The tree is one to begin with.                                          *)
LEMMA InitInv == Init => Inv
<1>1. SUFFICES ASSUME Init PROVE Inv
  OBVIOUS
<1>2. tree = InitialTree
  BY <1>1 DEF Init
<1>3. Len(InitialTree) \in Nat /\ InitialTree \in [1 .. Len(InitialTree) -> Node]
      /\ DOMAIN InitialTree = 1 .. Len(InitialTree)
  BY InitialTreeAssumption, LenProperties
<1>4. \A i \in 1 .. Len(InitialTree) : InitialTree[i] \in Small
  BY <1>3, InitialTreeAssumption DEF Small
<1>5. InitialTree \in Seq(Small)
  BY <1>3, <1>4
<1>6. QED BY <1>2, <1>5, InitialTreeAssumption DEF Inv

(* And remains one, whatever changes.                                      *)
LEMMA NextKeepsInv == Inv /\ [Next]_tree => Inv'
<1>1. SUFFICES ASSUME Inv, [Next]_tree PROVE Inv'
  OBVIOUS
<1>2. /\ tree \in Seq(Small) /\ Len(tree) <= MaxNodes /\ Len(tree) \in Nat
      /\ DOMAIN tree = 1 .. Len(tree)
      /\ \A i \in DOMAIN tree : /\ tree[i] \in Node /\ tree[i].kids \in Seq(STRING)
                                /\ Len(tree[i].kids) <= MaxKids
  BY <1>1, SmallTrees DEF Inv
<1>3. ASSUME NEW t \in Edited(tree, Nodes, MaxNodes)
      PROVE  t \in Seq(Small) /\ Len(t) <= MaxNodes
  <2>1. Nodes \in SUBSET Small
    BY TopologyAssumption, InitialTreeAssumption DEF Small
  <2>2. /\ t \in Seq(Small)
        /\ Len(t) <= Len(tree) \/ (Len(tree) < MaxNodes /\ Len(t) = Len(tree) + 1)
    BY <1>2, <2>1, EditedType
  <2>3. Len(t) \in Nat
    BY <2>2, LenProperties
  <2>4. QED BY <1>2, <2>2, <2>3, TopologyAssumption
<1>4. ASSUME NEW i \in DOMAIN tree,
             NEW kids \in Edited(tree[i].kids, KidNames, MaxKids)
      PROVE  /\ [tree EXCEPT ![i].kids = kids] \in Seq(Small)
             /\ Len([tree EXCEPT ![i].kids = kids]) <= MaxNodes
  <2>1. /\ kids \in Seq(STRING)
        /\ Len(kids) <= Len(tree[i].kids)
           \/ (Len(tree[i].kids) < MaxKids /\ Len(kids) = Len(tree[i].kids) + 1)
    <3> DEFINE now == tree[i].kids
               Name == STRING
    <3>1. now \in Seq(Name) /\ KidNames \in SUBSET Name
          /\ kids \in Edited(now, KidNames, MaxKids)
      BY <1>2, TopologyAssumption
    <3> HIDE DEF now, Name
    <3>2. /\ kids \in Seq(Name)
          /\ Len(kids) <= Len(now) \/ (Len(now) < MaxKids /\ Len(kids) = Len(now) + 1)
      BY <3>1, EditedType
    <3>3. QED BY <3>2 DEF now, Name
  <2>2. Len(kids) \in Nat /\ Len(tree[i].kids) \in Nat
    BY <1>2, <2>1, LenProperties
  <2>3. Len(kids) <= MaxKids
    BY <1>2, <2>1, <2>2, TopologyAssumption
  <2>4. [tree[i] EXCEPT !.kids = kids] \in Small
    BY <1>2, <2>1, <2>3 DEF Node, Small
  <2>5. /\ [tree EXCEPT ![i] = [tree[i] EXCEPT !.kids = kids]] \in Seq(Small)
        /\ Len([tree EXCEPT ![i] = [tree[i] EXCEPT !.kids = kids]]) = Len(tree)
    BY <1>2, <2>4, ExceptSeq
  <2>6. QED BY <1>2, <2>5
<1>5. CASE tree' \in Edits(tree)
  <2>1. \/ tree' \in Edited(tree, Nodes, MaxNodes)
        \/ \E i \in DOMAIN tree : \E kids \in Edited(tree[i].kids, KidNames, MaxKids) :
             tree' = [tree EXCEPT ![i].kids = kids]
    BY <1>5, ZenonT(40) DEF Edits
  <2>2. QED BY <1>3, <1>4, <2>1 DEF Inv
<1>6. CASE UNCHANGED tree
  BY <1>1, <1>6 DEF Inv
<1>7. QED BY <1>1, <1>5, <1>6 DEF Next

(* So it always is.                                                        *)
LEMMA Invariant == Spec => []Inv
BY InitInv, NextKeepsInv, PTL DEF Spec

-----------------------------------------------------------------------------
(* The tree stays a tree within its bounds, and every layout made of it    *)
(* has counts that fit their u8 (layout.rs 237-245, 296-310).              *)
THEOREM LayoutTypes == Spec => []TypeOK
<1>1. Inv => TypeOK
  <2>1. SUFFICES ASSUME Inv PROVE TypeOK
    OBVIOUS
  <2>2. /\ tree \in Seq(Node) /\ Len(tree) <= MaxNodes
        /\ \A i \in DOMAIN tree : Len(tree[i].kids) <= MaxKids
    BY <2>1, SmallTrees DEF Inv
  <2>3. QED BY <2>2, LayoutCounts DEF TypeOK
<1>2. QED BY <1>1, Invariant, PTL

(* No command is routed to a foreign node: whatever logical address the    *)
(* layout of a tree turns into a path, the node there is the one addressed *)
(* (layout.rs 155-157).                                                    *)
THEOREM CommandsReachTheirNode == Spec => []EncodedPathsReachTheirNode
<1>1. Inv => EncodedPathsReachTheirNode
  BY SmallTrees, EncodedPathsAreTrue DEF Inv, EncodedPathsReachTheirNode
<1>2. QED BY <1>1, Invariant, PTL

(* No event is attributed to a foreign node, and none is lost but past a   *)
(* full counter or in a container that is not searched, whatever path it   *)
(* carries (events.rs 868-869).                                            *)
THEOREM EventsResolveToTheirNode == Spec => []ResolvedPathsAreTrue
<1>1. Inv => ResolvedPathsAreTrue
  <2>1. SUFFICES ASSUME Inv PROVE ResolvedPathsAreTrue
    OBVIOUS
  <2>2. tree \in Seq(Node)
    BY <2>1, SmallTrees DEF Inv
  <2>3. ASSUME NEW layout \in FromFullSync(tree),
               NEW path \in [1 .. 1 -> 0 .. MaxNodes] \cup
                            [1 .. 2 -> 0 .. (MaxNodes + MaxKids)]
        PROVE  LET truth == IF path \in NodePaths(tree) THEN TrueAddress(tree, path)
                            ELSE {}
               IN  /\ Resolve(layout, path) \subseteq truth
                   /\ \A a \in truth \ Resolve(layout, path) :
                        \/ Len(a.index) = 1 /\ a.index[1] >= U8Max
                        \/ OutOfReach(path, a)
    <3>1. path \in Seq(Nat)
      <4>1. path \in [1 .. 1 -> Nat] \/ path \in [1 .. 2 -> Nat]
        BY TopologyAssumption
      <4>2. 1 \in Nat /\ 2 \in Nat
        OBVIOUS
      <4>3. QED BY <4>1, <4>2, SeqDef, ZenonT(40)
    <3>2. \A a \in Resolve(layout, path) :
            path \in NodePaths(tree) /\ TrueAddress(tree, path) = {a}
      BY <2>2, <3>1, ResolvedAddressIsTrue
    <3>3. path \in NodePaths(tree) =>
            \A a \in TrueAddress(tree, path) \ Resolve(layout, path) :
              ~OutOfReach(path, a) => Len(a.index) = 1 /\ a.index[1] >= U8Max
      BY <2>2, TrueAddressIsResolved
    <3>4. QED BY <3>2, <3>3
  <2>4. QED BY <2>3 DEF ResolvedPathsAreTrue
<1>2. QED BY <1>1, Invariant, PTL

(* The order in which the resolver tries the families cannot matter        *)
(* (events.rs 868-869, 955-957).                                           *)
THEOREM NoPathIsOfTwoFamilies == Spec => []FamiliesAreDisjoint
<1>1. Inv => FamiliesAreDisjoint
  <2>1. SUFFICES ASSUME Inv, NEW layout \in FromFullSync(tree),
                        NEW path \in NodePaths(tree)
                 PROVE  Cardinality(Resolve(layout, path)) <= 1
    BY DEF FamiliesAreDisjoint
  <2>2. tree \in Seq(Node)
    BY <2>1, SmallTrees DEF Inv
  <2>3. path \in Seq(Nat)
    <3>1. \A p \in 0 .. Len(tree) - 1 : <<p>> \in Seq(Nat) /\ p \in Nat
      BY <2>2, NamesOfTree
    <3>2. \A p \in 0 .. Len(tree) - 1 : \A k \in 0 .. Len(tree[p + 1].kids) - 1 :
            <<p, k>> \in Seq(Nat)
      <4>1. \A p \in 0 .. Len(tree) - 1 : Len(tree[p + 1].kids) \in Nat
        BY <2>2, NamesOfTree, LenProperties
      <4>2. QED BY <3>1, <4>1
    <3>3. CASE \E p \in 0 .. Len(tree) - 1 : path = <<p>>
      BY <3>1, <3>3
    <3>4. CASE \E p \in 0 .. Len(tree) - 1 :
                 \E k \in 0 .. Len(tree[p + 1].kids) - 1 : path = <<p, k>>
      BY <3>2, <3>4
    <3>5. QED BY <2>1, <2>2, <3>3, <3>4, PathsOfTree
  <2>4. \A a, b \in Resolve(layout, path) : a = b
    <3>1. TAKE a, b \in Resolve(layout, path)
    <3>2. TrueAddress(tree, path) = {a} /\ TrueAddress(tree, path) = {b}
      BY <2>2, <2>3, ResolvedAddressIsTrue
    <3>3. QED BY <3>2
  <2>5. CASE Resolve(layout, path) = {}
    BY <2>5, FS_EmptySet
  <2>6. ASSUME NEW a \in Resolve(layout, path)
        PROVE  Cardinality(Resolve(layout, path)) <= 1
    <3>1. Resolve(layout, path) = {a}
      BY <2>4
    <3>2. Cardinality({a}) = 1
      BY FS_Singleton
    <3>3. QED BY <3>1, <3>2
  <2>7. QED BY <2>5, <2>6
<1>2. QED BY <1>1, Invariant, PTL

-----------------------------------------------------------------------------
(* The vocabulary.                                                         *)

(* The one table each property is in.                                      *)
Owner ==
  [eqOn |-> "CHANNEL", inputColour |-> "INPUTSOURCE",
   masterCompellorOn |-> "MASTERCHANNEL", outputMonLevel |-> "OUTPUT",
   duckerDepth |-> "DUCKER", recordState |-> "RECORDER",
   playerState |-> "PLAYER", headphoneColour |-> "HEADPHONE",
   reverbOn |-> "EFFECTS_PARAMETERS",
   channelInputSource |-> "EFFECTS_PARAMETERS",
   lang |-> "GUI", padIdx |-> "PAD", powerOffRequest |-> "SYSTEM",
   systemDateTimezone |-> "SYSTEM", systemDateTime24h |-> "SYSTEM",
   systemDateTimeOnHome |-> "SYSTEM", systemChannelSelected |-> "SYSTEM",
   disableAllPhysicalButtons |-> "SYSTEM",
   disableAllLineoutOutputs |-> "SYSTEM",
   disableAllHeadphoneOutputs |-> "SYSTEM",
   faderLevel |-> "METER", meterLevelL |-> "METER",
   mixMute |-> "RCSYNCMIX", mixLink |-> "RCSYNCMIX",
   mixDisabled |-> "RCSYNCMIX", mixLevelWithAnchor |-> "RCSYNCMIX",
   mixLinkRequest |-> "RCSYNCMIX", mixUnlinkRequest |-> "RCSYNCMIX",
   mixRcSyncLevelRequest |-> "RCSYNCMIX", outputMixMinus |-> "MIXMINUSES",
   btVisible |-> "NETWORK", audioBufferSize |-> "AUDIO",
   buildGuiVersion |-> "BUILD", appCompression |-> "APP",
   themeId |-> "THEME", toneGeneration |-> "TEST",
   fxPresetIdx |-> "FXPRESET", padRecordIdx |-> "PADRECORDER",
   storageVolumeFree |-> "STORAGEVOLUME",
   wifiScanResultSSID |-> "WIFISCANRESULT",
   showName |-> "SHOW", currentShowName |-> "CURRENTSHOW",
   showControlNewFromDefaultMuted |-> "SHOWCONTROL",
   recordingTotalCount |-> "RECORDINGS", recordingUID |-> "RECORDING",
   sipLicenceMode |-> "SIPCALLING", sipRegistrationIndex |-> "SIPREGISTRATION",
   sipCallSlotId |-> "SIPCALLSLOTS", dtmfMode |-> "SIPADVANCED",
   radioPair |-> "RADIO", txConnected |-> "RADIOTX", rxRadioId |-> "RADIORX",
   streamerXPresetName |-> "STREAMERXMIXPRESET",
   streammixmixLevel |-> "STREAMERXSTREAMMIX"]

(* No property is in two tables.                                           *)
LEMMA TablesAreDisjoint ==
  ASSUME NEW family, NEW name \in Params(family)
  PROVE  name \in DOMAIN Owner /\ family = Owner[name]
<1>1. family \in DOMAIN Tables /\ name \in Tables[family]
  BY DEF Params
<1>2. \/ \/ family = "CHANNEL" /\ name \in ChannelParam
         \/ family = "INPUTSOURCE" /\ name \in InputSourceParam
         \/ family = "MASTERCHANNEL" /\ name \in MasterParam
         \/ family = "OUTPUT" /\ name \in OutputParam
         \/ family = "DUCKER" /\ name \in DuckerParam
         \/ family = "RECORDER" /\ name \in RecorderParam
         \/ family = "PLAYER" /\ name \in PlayerParam
         \/ family = "HEADPHONE" /\ name \in HeadphoneParam
      \/ \/ family = "EFFECTS_PARAMETERS" /\ name \in EffectsParam
         \/ family = "GUI" /\ name \in GuiParam
         \/ family = "PAD" /\ name \in PadParam
         \/ family = "SYSTEM" /\ name \in SystemParam
         \/ family = "METER" /\ name \in MeterParam
         \/ family = "RCSYNCMIX" /\ name \in RcSyncMixParam
         \/ family = "MIXMINUSES" /\ name \in MixMinusesParam
         \/ family = "NETWORK" /\ name \in NetworkParam
      \/ \/ family = "AUDIO" /\ name \in AudioParam
         \/ family = "BUILD" /\ name \in BuildParam
         \/ family = "APP" /\ name \in AppParam
         \/ family = "THEME" /\ name \in ThemeParam
         \/ family = "TEST" /\ name \in TestParam
         \/ family = "FXPRESET" /\ name \in FxPresetParam
         \/ family = "PADRECORDER" /\ name \in PadRecorderParam
         \/ family = "STORAGEVOLUME" /\ name \in StorageVolumeParam
      \/ \/ family = "WIFISCANRESULT" /\ name \in WifiScanResultParam
         \/ family = "SHOW" /\ name \in ShowParams.SHOW
         \/ family = "CURRENTSHOW" /\ name \in ShowParams.CURRENTSHOW
         \/ family = "SHOWCONTROL" /\ name \in ShowParams.SHOWCONTROL
         \/ family = "RECORDINGS" /\ name \in RecordingParams.RECORDINGS
         \/ family = "RECORDING" /\ name \in RecordingParams.RECORDING
         \/ family = "SIPCALLING" /\ name \in SipParams.SIPCALLING
         \/ family = "SIPREGISTRATION" /\ name \in SipParams.SIPREGISTRATION
      \/ \/ family = "SIPCALLSLOTS" /\ name \in SipParams.SIPCALLSLOTS
         \/ family = "SIPADVANCED" /\ name \in SipParams.SIPADVANCED
         \/ family = "RADIO" /\ name \in RadioParams.RADIO
         \/ family = "RADIOTX" /\ name \in RadioParams.RADIOTX
         \/ family = "RADIORX" /\ name \in RadioParams.RADIORX
         \/ family = "STREAMERXMIXPRESET"
              /\ name \in StreamerXParams.STREAMERXMIXPRESET
         \/ family = "STREAMERXSTREAMMIX"
              /\ name \in StreamerXParams.STREAMERXSTREAMMIX
  BY <1>1, SMT DEF Tables
<1>3. CASE \/ family = "CHANNEL" /\ name \in ChannelParam
           \/ family = "INPUTSOURCE" /\ name \in InputSourceParam
           \/ family = "MASTERCHANNEL" /\ name \in MasterParam
           \/ family = "OUTPUT" /\ name \in OutputParam
           \/ family = "DUCKER" /\ name \in DuckerParam
           \/ family = "RECORDER" /\ name \in RecorderParam
           \/ family = "PLAYER" /\ name \in PlayerParam
           \/ family = "HEADPHONE" /\ name \in HeadphoneParam
  BY <1>3, SMT DEF Owner, ChannelParam, InputSourceParam, MasterParam,
     OutputParam, DuckerParam, RecorderParam, PlayerParam, HeadphoneParam
<1>4. CASE \/ family = "EFFECTS_PARAMETERS" /\ name \in EffectsParam
           \/ family = "GUI" /\ name \in GuiParam
           \/ family = "PAD" /\ name \in PadParam
           \/ family = "SYSTEM" /\ name \in SystemParam
           \/ family = "METER" /\ name \in MeterParam
           \/ family = "RCSYNCMIX" /\ name \in RcSyncMixParam
           \/ family = "MIXMINUSES" /\ name \in MixMinusesParam
           \/ family = "NETWORK" /\ name \in NetworkParam
  BY <1>4, SMT DEF Owner, EffectsParam, GuiParam, PadParam, SystemParam,
     MeterParam, RcSyncMixParam, MixProps, MixMinusesParam, NetworkParam
<1>5. CASE \/ family = "AUDIO" /\ name \in AudioParam
           \/ family = "BUILD" /\ name \in BuildParam
           \/ family = "APP" /\ name \in AppParam
           \/ family = "THEME" /\ name \in ThemeParam
           \/ family = "TEST" /\ name \in TestParam
           \/ family = "FXPRESET" /\ name \in FxPresetParam
           \/ family = "PADRECORDER" /\ name \in PadRecorderParam
           \/ family = "STORAGEVOLUME" /\ name \in StorageVolumeParam
  BY <1>5, SMT DEF Owner, AudioParam, BuildParam, AppParam, ThemeParam,
     TestParam, FxPresetParam, PadRecorderParam, StorageVolumeParam
<1>6. CASE \/ family = "WIFISCANRESULT" /\ name \in WifiScanResultParam
           \/ family = "SHOW" /\ name \in ShowParams.SHOW
           \/ family = "CURRENTSHOW" /\ name \in ShowParams.CURRENTSHOW
           \/ family = "SHOWCONTROL" /\ name \in ShowParams.SHOWCONTROL
           \/ family = "RECORDINGS" /\ name \in RecordingParams.RECORDINGS
           \/ family = "RECORDING" /\ name \in RecordingParams.RECORDING
           \/ family = "SIPCALLING" /\ name \in SipParams.SIPCALLING
           \/ family = "SIPREGISTRATION" /\ name \in SipParams.SIPREGISTRATION
  BY <1>6, SMT DEF Owner, WifiScanResultParam, ShowParams, RecordingParams,
     SipParams
<1>7. CASE \/ family = "SIPCALLSLOTS" /\ name \in SipParams.SIPCALLSLOTS
           \/ family = "SIPADVANCED" /\ name \in SipParams.SIPADVANCED
           \/ family = "RADIO" /\ name \in RadioParams.RADIO
           \/ family = "RADIOTX" /\ name \in RadioParams.RADIOTX
           \/ family = "RADIORX" /\ name \in RadioParams.RADIORX
           \/ family = "STREAMERXMIXPRESET"
                /\ name \in StreamerXParams.STREAMERXMIXPRESET
           \/ family = "STREAMERXSTREAMMIX"
                /\ name \in StreamerXParams.STREAMERXSTREAMMIX
  BY <1>7, SMT DEF Owner, SipParams, RadioParams, StreamerXParams
<1>8. QED BY <1>2, <1>3, <1>4, <1>5, <1>6, <1>7, Zenon

Hardware == {"POT", "PADBUTTON", "SOLOMUTEBUTTON", "ENCODER", "RECBUTTON"}

(* The front panel's properties are in no table, and each is of one node.  *)
LEMMA HardwareTable ==
  /\ DOMAIN HardwareParams = Hardware
  /\ \A node \in Hardware : \A name \in HardwareParams[node] :
       /\ name \notin DOMAIN Owner
       /\ name \notin StripProps \cup {"encoderSignal", "encoderColour",
                                       "emergencyMuteActive"}
       /\ \A other \in Hardware : name \in HardwareParams[other] => other = node
<1>1. DOMAIN HardwareParams = Hardware
  BY DEF HardwareParams, Hardware
<1>2. ASSUME NEW node \in Hardware, NEW name \in HardwareParams[node]
      PROVE  \/ node = "POT" /\ name = "potLevel"
             \/ node = "PADBUTTON" /\ name = "padButtonPressed"
             \/ node = "SOLOMUTEBUTTON" /\ name \in {"mutePressed", "soloPressed"}
             \/ node = "ENCODER" /\ name = "encoderPressed"
             \/ node = "RECBUTTON" /\ name = "recButtonPressed"
  BY <1>2 DEF HardwareParams, Hardware
<1>3. ASSUME NEW node \in Hardware, NEW name \in HardwareParams[node]
      PROVE  /\ name \notin DOMAIN Owner
             /\ name \notin StripProps \cup {"encoderSignal", "encoderColour",
                                             "emergencyMuteActive"}
  BY <1>2, <1>3 DEF Owner, StripProps
<1>4. ASSUME NEW node \in Hardware, NEW name \in HardwareParams[node],
             NEW other \in Hardware, name \in HardwareParams[other]
      PROVE  other = node
  <2>1. \/ node = "POT" /\ name = "potLevel"
        \/ node = "PADBUTTON" /\ name = "padButtonPressed"
        \/ node = "SOLOMUTEBUTTON" /\ name \in {"mutePressed", "soloPressed"}
        \/ node = "ENCODER" /\ name = "encoderPressed"
        \/ node = "RECBUTTON" /\ name = "recButtonPressed"
    BY <1>2
  <2>2. \/ other = "POT" /\ name = "potLevel"
        \/ other = "PADBUTTON" /\ name = "padButtonPressed"
        \/ other = "SOLOMUTEBUTTON" /\ name \in {"mutePressed", "soloPressed"}
        \/ other = "ENCODER" /\ name = "encoderPressed"
        \/ other = "RECBUTTON" /\ name = "recButtonPressed"
    BY <1>2, <1>4
  <2>3. QED BY <2>1, <2>2
<1>5. QED BY <1>1, <1>3, <1>4

(* What the nodes of a name carry, case by case.                           *)
LEMMA CarriedCases ==
  ASSUME NEW family, NEW name \in Carried(family)
  PROVE  \/ family = "CHANNEL" /\ name \in StripProps \cup {"eqOn"}
         \/ family = "FADER" /\ name = "faderLevel"
         \/ family = "MIX" /\ name \in MixProps
         \/ family = "EMERGENCYMUTE" /\ name = "emergencyMuteActive"
         \/ family \in Hardware /\ name \in HardwareParams[family]
         \/ /\ name \in Params(family)
            /\ family \notin {"CHANNEL", "FADER", "MIX", "EMERGENCYMUTE"} \cup Hardware
  BY HardwareTable DEF Carried, ChannelParam

(* Who else has a table with a property that the nodes of a name carry.    *)
LEMMA KnownElsewhere ==
  ASSUME NEW family, NEW name \in Carried(family),
         NEW other, name \in Params(other)
  PROVE  \/ other = family
         \/ other = "EFFECTS_PARAMETERS" /\ family = "CHANNEL"
         \/ other = "METER" /\ family = "FADER"
         \/ other = "RCSYNCMIX" /\ family = "MIX"
<1>1. name \in DOMAIN Owner /\ other = Owner[name]
  BY TablesAreDisjoint
<1>2. CASE family \in Hardware /\ name \in HardwareParams[family]
  BY <1>1, <1>2, HardwareTable
<1>3. CASE name \in Params(family)
  BY <1>1, <1>3, TablesAreDisjoint
<1>4. CASE \/ family = "CHANNEL" /\ name \in StripProps \cup {"eqOn"}
           \/ family = "FADER" /\ name = "faderLevel"
           \/ family = "MIX" /\ name \in MixProps
           \/ family = "EMERGENCYMUTE" /\ name = "emergencyMuteActive"
  BY <1>1, <1>4 DEF Owner, StripProps, MixProps
<1>5. QED BY <1>2, <1>3, <1>4, CarriedCases

(* And who carries the properties that rules know by themselves.           *)
LEMMA CarriersOf ==
  ASSUME NEW family, NEW name \in Carried(family)
  PROVE  /\ name \notin {"encoderSignal", "encoderColour"}
         /\ name = "emergencyMuteActive" => family = "EMERGENCYMUTE"
         /\ name = "channelInputSource" => family \in {"CHANNEL", "EFFECTS_PARAMETERS"}
         /\ \A node \in Hardware : name \in HardwareParams[node] => node = family
<1>1. CASE family \in Hardware /\ name \in HardwareParams[family]
  BY <1>1, HardwareTable DEF StripProps
<1>2. CASE name \in Params(family)
  <2>1. name \in DOMAIN Owner /\ family = Owner[name]
    BY <1>2, TablesAreDisjoint
  <2>2. name \notin {"encoderSignal", "encoderColour", "emergencyMuteActive"}
    BY <2>1 DEF Owner
  <2>3. name = "channelInputSource" => family = "EFFECTS_PARAMETERS"
    BY <2>1 DEF Owner
  <2>4. QED BY <2>1, <2>2, <2>3, HardwareTable
<1>3. CASE \/ family = "CHANNEL" /\ name \in StripProps \cup {"eqOn"}
           \/ family = "FADER" /\ name = "faderLevel"
           \/ family = "MIX" /\ name \in MixProps
           \/ family = "EMERGENCYMUTE" /\ name = "emergencyMuteActive"
  <2>1. name \notin {"potLevel", "padButtonPressed", "mutePressed",
                     "soloPressed", "encoderPressed", "recButtonPressed"}
    BY <1>3 DEF StripProps, MixProps
  <2>2. \A node \in Hardware : name \notin HardwareParams[node]
    BY <2>1 DEF Hardware, HardwareParams
  <2>3. QED BY <1>3, <2>2 DEF StripProps, MixProps
<1>4. QED BY <1>1, <1>2, <1>3, CarriedCases

-----------------------------------------------------------------------------
(* What names and addresses have to do with each other.                    *)

(* Of rules tried in turn, what is reported is what one of them says ...   *)
LEMMA FirstOfIsOne ==
  ASSUME NEW rules, NEW event \in FirstOf(rules)
  PROVE  \E i \in DOMAIN rules : event \in rules[i]
BY DEF FirstOf

(* ... and something is reported if any of them has something to say.      *)
LEMMA FirstOfFinds ==
  ASSUME NEW n \in Nat, NEW rules, DOMAIN rules = 1 .. n,
         NEW i \in 1 .. n, rules[i] # {}
  PROVE  FirstOf(rules) # {}
<1> DEFINE T == {j \in 1 .. n : rules[j] # {}}
<1>1. T \subseteq Nat /\ T # {}
  OBVIOUS
<1>2. PICK j \in T : \A k \in T : j <= k
  BY <1>1, LeastNatural
<1>3. \A k \in 1 .. j - 1 : rules[k] = {}
  BY <1>2
<1>4. j \in DOMAIN rules /\ rules[j] # {}
  BY <1>2
<1>5. QED BY <1>3, <1>4 DEF FirstOf

(* No two strips of a model have a number in common.                       *)
LEMMA FaderNumbers ==
  ASSUME NEW model \in {"Pro2", "Duo"}
  PROVE  \A f, g \in DOMAIN FaderIndex[model] :
           /\ FaderIndex[model][f] \in Nat
           /\ FaderIndex[model][f] = FaderIndex[model][g] => f = g
<1>1. CASE model = "Pro2"
  BY <1>1 DEF FaderIndex
<1>2. CASE model = "Duo"
  BY <1>2 DEF FaderIndex
<1>3. QED BY <1>1, <1>2

(* So a number names one strip at most, and a strip has one number.        *)
LEMMA FadersByNumber ==
  ASSUME NEW model \in {"Pro2", "Duo"}, NEW n, NEW f
  PROVE  /\ n \in FaderToIndex(model, f) =>
              /\ n \in Nat /\ FaderToIndex(model, f) = {n}
              /\ FaderFromIndex(model, n) = {f}
         /\ f \in FaderFromIndex(model, n) =>
              /\ FaderToIndex(model, f) = {n}
              /\ FaderFromIndex(model, n) = {f}
<1>1. \A g, h \in DOMAIN FaderIndex[model] :
        /\ FaderIndex[model][g] \in Nat
        /\ FaderIndex[model][g] = FaderIndex[model][h] => g = h
  BY FaderNumbers
<1>2. QED BY <1>1 DEF FaderToIndex, FaderFromIndex

(* A layout is of one of the two models.                                   *)
LEMMA ModelOfLayout ==
  ASSUME NEW layout \in FromFullSync(tree)
  PROVE  layout.model \in {"Pro2", "Duo"}
<1>1. layout.model = DetectModel(tree)
  BY DEF FromFullSync, LayoutOf
<1>2. QED BY <1>1 DEF DetectModel

(* The node at a path has the name of its address, and only one address.   *)
LEMMA AddressNames ==
  ASSUME tree \in Seq(Node), NEW path \in NodePaths(tree),
         NEW a \in TrueAddress(tree, path)
  PROVE  /\ a.family = NameAt(path)
         /\ TrueAddress(tree, path) = {a}
         /\ Len(path) = 1 => a.family \in RootRuns \cup Singletons \cup {"MIX"}
         /\ Len(path) = 2 => a.family \in NestedRuns \/ OutOfReach(path, a)
         /\ Len(path) \in 1 .. 2
<1>1. CASE \E p \in 0 .. Len(tree) - 1 : path = <<p>>
  <2>1. PICK p \in 0 .. Len(tree) - 1 : path = <<p>>
    BY <1>1
  <2> DEFINE names == Names(tree)
             name == names[p + 1]
             rank == Rank(names, p)
  <2>2. Len(path) = 1 /\ path[1] = p /\ name = tree[p + 1].name
    BY <2>1, NamesOfTree
  <2>3. name = NameAt(path)
    BY <2>2 DEF NameAt
  <2>4. TrueAddress(tree, path) = TrueAtTop(names, p)
    BY <2>2 DEF TrueAddress
  <2> HIDE DEF names, rank
  <2>5. TrueAtTop(names, p) \in
          {{}, {Address(name, <<rank>>)}, {Address(name, <<>>)},
           {Address(name, <<rank \div MixPerSource, rank % MixPerSource>>)}}
    BY DEF TrueAtTop, rank
  <2>6. name \in RootRuns \cup Singletons \cup {"MIX"}
    BY <2>4, TablesAgree DEF TrueAtTop
  <2>7. a.family = name /\ TrueAddress(tree, path) = {a}
    BY <2>4, <2>5 DEF Address
  <2>8. QED BY <2>2, <2>3, <2>6, <2>7
<1>2. CASE \E p \in 0 .. Len(tree) - 1 :
             \E k \in 0 .. Len(tree[p + 1].kids) - 1 : path = <<p, k>>
  <2>1. PICK p \in 0 .. Len(tree) - 1 :
               \E k \in 0 .. Len(tree[p + 1].kids) - 1 : path = <<p, k>>
    BY <1>2
  <2>2. PICK k \in 0 .. Len(tree[p + 1].kids) - 1 : path = <<p, k>>
    BY <2>1
  <2> DEFINE kids == tree[p + 1].kids
  <2>3. Len(path) = 2 /\ path[1] = p /\ path[2] = k
    BY <2>2
  <2>4. kids[k + 1] = NameAt(path)
    BY <2>3 DEF NameAt
  <2>5. TrueAddress(tree, path) = TrueBelow(Names(tree), p, kids, k)
    BY <2>2, TrueKid
  <2> HIDE DEF kids
  <2>6. /\ TrueAddress(tree, path) = {Address(kids[k + 1], <<Rank(kids, k)>>)}
        /\ kids[k + 1] \in NestedRuns \cup RootRuns
    BY <2>5, TablesAgree DEF TrueBelow
  <2>7. a.family = kids[k + 1] /\ TrueAddress(tree, path) = {a}
    BY <2>6 DEF Address
  <2>8. QED BY <2>3, <2>4, <2>6, <2>7 DEF OutOfReach
<1>3. QED BY <1>1, <1>2, PathsOfTree

(* The named addresses of a path, and the one address they name.           *)
LEMMA HereIsTrue ==
  ASSUME tree \in Seq(Node), NEW layout \in FromFullSync(tree),
         NEW path \in NodePaths(tree)
  PROVE  /\ \A a \in Resolve(layout, path) : Here(layout, path) = Named(layout, a)
         /\ Here(layout, path) \subseteq NamedTruth(layout, path)
<1>1. path \in Seq(Nat)
  BY NodePathsAreSequences
<1>2. ASSUME NEW a \in Resolve(layout, path)
      PROVE  /\ Here(layout, path) = Named(layout, a)
             /\ NamedTruth(layout, path) = Named(layout, a)
  <2>1. TrueAddress(tree, path) = {a}
    BY <1>1, ResolvedAddressIsTrue
  <2>2. ASSUME NEW b \in Resolve(layout, path) PROVE b = a
    <3>1. TrueAddress(tree, path) = {b}
      BY <1>1, ResolvedAddressIsTrue
    <3>2. QED BY <2>1, <3>1
  <2>3. QED BY <2>1, <2>2 DEF Here, NamedTruth
<1>3. CASE Resolve(layout, path) = {}
  BY <1>3 DEF Here
<1>4. QED BY <1>2, <1>3

(* A node has one name, of its own family.                                 *)
LEMMA NamedIsOne ==
  ASSUME NEW layout, layout.model \in {"Pro2", "Duo"}, NEW a,
         NEW event \in Named(layout, a)
  PROVE  /\ event.family = a.family
         /\ Named(layout, a) = {event}
         /\ a.family \notin {"CHANNEL", "FADER"} => event = a
<1>1. CASE a.family \in {"CHANNEL", "FADER"}
  <2>1. Named(layout, a) = FaderNamed(layout, a.family, a.index[1])
    BY <1>1 DEF Named
  <2>2. PICK f \in FaderFromIndex(layout.model, a.index[1]) :
               event = Address(a.family, <<f>>)
    BY <2>1 DEF FaderNamed
  <2>3. FaderFromIndex(layout.model, a.index[1]) = {f}
    BY <2>2, FadersByNumber
  <2>4. QED BY <1>1, <2>1, <2>2, <2>3 DEF FaderNamed, Address
<1>2. CASE a.family \in {"MIX", "INPUTSOURCE"}
  <2>1. Named(layout, a) = IF a.index[1] < NamedSources THEN {a} ELSE {}
    BY <1>2 DEF Named
  <2>2. QED BY <2>1
<1>3. CASE a.family \notin {"CHANNEL", "FADER", "MIX", "INPUTSOURCE"}
  <2>1. Named(layout, a) = {a}
    BY <1>3 DEF Named
  <2>2. QED BY <2>1
<1>4. QED BY <1>1, <1>2, <1>3

-----------------------------------------------------------------------------
(* What the rules can say of a node: its name in the layout, or its place  *)
(* in its container, or nothing but its family.                            *)
Plain == {"NETWORK", "RECORDINGS", "AUDIO", "BUILD", "APP", "THEME",
          "CURRENTSHOW", "SHOWCONTROL", "TEST", "RADIO", "RECBUTTON",
          "EMERGENCYMUTE"}

Sayable(layout, path) ==
  IF NameAt(path) \in Resolved THEN NamedTruth(layout, path)
  ELSE {Address(NameAt(path), IF NameAt(path) \in Plain THEN <<>> ELSE Raw(path))}

(* The families that the layout resolves, one by one.                      *)
LEMMA ResolvedFamilies ==
  Resolved = {"FADER", "MIX", "SIPCALLING", "SIPADVANCED", "SIPREGISTRATION",
              "SIPCALLSLOTS", "MIXMINUSES", "RCSYNCMIX", "CHANNEL",
              "INPUTSOURCE", "MASTERCHANNEL", "OUTPUT", "DUCKER", "RECORDER",
              "PLAYER", "HEADPHONE", "EFFECTS_PARAMETERS", "GUI", "PAD",
              "SYSTEM"}
BY DEF Resolved, ToSet, ParamFamilies

(* It is one thing at most, and of the node's family.                      *)
LEMMA SayableIsOne ==
  ASSUME tree \in Seq(Node), NEW layout \in FromFullSync(tree),
         NEW path \in NodePaths(tree), NEW event \in Sayable(layout, path)
  PROVE  /\ event.family = NameAt(path)
         /\ Sayable(layout, path) = {event}
<1>1. layout.model \in {"Pro2", "Duo"}
  BY ModelOfLayout
<1>2. CASE NameAt(path) \in Resolved
  <2>1. PICK a \in TrueAddress(tree, path) : event \in Named(layout, a)
    BY <1>2 DEF Sayable, NamedTruth
  <2>2. a.family = NameAt(path) /\ TrueAddress(tree, path) = {a}
    BY AddressNames
  <2>3. event.family = a.family /\ Named(layout, a) = {event}
    BY <1>1, <2>1, NamedIsOne
  <2>4. Sayable(layout, path) = {event}
    BY <1>2, <2>2, <2>3 DEF Sayable, NamedTruth
  <2>5. QED BY <2>2, <2>3, <2>4
<1>3. CASE NameAt(path) \notin Resolved
  BY <1>3 DEF Sayable, Address
<1>4. QED BY <1>2, <1>3

(* What the layout says of a node of these families can be said.           *)
LEMMA HereIsSayable ==
  ASSUME tree \in Seq(Node), NEW layout \in FromFullSync(tree),
         NEW path \in NodePaths(tree),
         NEW event \in Here(layout, path), event.family \in Resolved
  PROVE  event \in Sayable(layout, path)
<1>1. event \in NamedTruth(layout, path)
  BY HereIsTrue
<1>2. PICK a \in TrueAddress(tree, path) : event \in Named(layout, a)
  BY <1>1 DEF NamedTruth
<1>3. a.family = NameAt(path) /\ event.family = a.family
  BY <1>2, ModelOfLayout, AddressNames, NamedIsOne
<1>4. QED BY <1>1, <1>3 DEF Sayable

(* Rules that filter what the layout says.                                 *)
LEMMA AmongIsOne ==
  ASSUME NEW here, NEW families, NEW event \in Among(here, families)
  PROVE  /\ event \in here
         /\ \E i \in DOMAIN families : event.family = families[i]
<1> DEFINE rules == [i \in DOMAIN families |-> {a \in here : a.family = families[i]}]
<1>1. Among(here, families) = FirstOf(rules)
  BY DEF Among
<1>2. DOMAIN rules = DOMAIN families
  OBVIOUS
<1>3. PICK i \in DOMAIN families : event \in rules[i]
  <2> HIDE DEF rules
  <2>1. QED BY <1>1, <1>2, FirstOfIsOne
<1>4. QED BY <1>3

(* They find what is there.                                                *)
LEMMA AmongFinds ==
  ASSUME NEW here, NEW event \in here, NEW n \in Nat,
         NEW families, DOMAIN families = 1 .. n,
         NEW i \in 1 .. n, event.family = families[i]
  PROVE  Among(here, families) # {}
<1> DEFINE rules == [j \in DOMAIN families |-> {a \in here : a.family = families[j]}]
<1>1. DOMAIN rules = 1 .. n /\ event \in rules[i]
  OBVIOUS
<1>2. FirstOf(rules) # {}
  <2> HIDE DEF rules
  <2>1. QED BY <1>1, FirstOfFinds
<1>3. QED BY <1>2 DEF Among

(* The eleven rules.                                                       *)
LEMMA RulesAre ==
  ASSUME NEW layout, NEW path, NEW name, NEW value
  PROVE  LET here == Here(layout, path)
             rules == Rules(layout, path, name, value)
         IN  /\ DOMAIN rules = 1 .. 11
             /\ rules[1] = StripEvents(here, name, value)
             /\ rules[2] = MixEvents(here, name, value)
             /\ rules[3] = EncoderEvents(layout, path, name, value)
             /\ rules[4] = AssignmentEvents(layout, here, path, name)
             /\ rules[5] = HardwareEvents(layout, path, name, value)
             /\ rules[6] = EmergencyEvents(path, name, value)
             /\ rules[7] = NameKeyedEvents(layout, path, name, value)
             /\ rules[8] = SipEvents(here, name, value)
             /\ rules[9] = SmallFamilyEvents(path, name, value)
             /\ rules[10] = RemoteMixEvents(here, name, value)
             /\ rules[11] = IF value = "none" THEN {} ELSE ParamTarget(here, name)
BY DEF Rules

(* A rule that knows a property by name alone knows whose it is, if it     *)
(* cannot be taken for a meter's.                                          *)
LEMMA KnownByName ==
  ASSUME NEW layout, NEW path, NEW name \in Carried(NameAt(path)),
         ~Ambiguous(layout, path, name), NEW family, name \in Params(family),
         family \notin {"EFFECTS_PARAMETERS", "RCSYNCMIX"},
         family = "METER" =>
           Len(path) = 2 /\ path[1] \notin layout.nested["FADER"].parent
  PROVE  NameAt(path) = family
<1>1. \/ family = NameAt(path)
      \/ family = "METER" /\ NameAt(path) = "FADER"
  BY KnownElsewhere
<1>2. CASE family = "METER" /\ NameAt(path) = "FADER"
  <2>1. name = "faderLevel"
    BY <1>2, CarriedCases DEF Hardware
  <2>2. QED BY <1>2, <2>1 DEF Ambiguous, TakenForMeter
<1>3. QED BY <1>1, <1>2

(* Rules 7 and 9: told by the name of the property.                        *)
NameKeyedFamilies ==
  {"NETWORK", "RECORDINGS", "RECORDING", "STORAGEVOLUME", "AUDIO", "BUILD",
   "APP", "THEME", "CURRENTSHOW", "SHOWCONTROL", "SHOW", "METER"}

(* Rule 7 speaks of a family that has the property, by the path alone.     *)
LEMMA NameKeyedEventsAre ==
  ASSUME NEW layout, NEW path, NEW name, NEW value,
         NEW event \in NameKeyedEvents(layout, path, name, value)
  PROVE  \E family \in NameKeyedFamilies :
           /\ name \in Params(family)
           /\ event = Address(family, IF family \in Plain THEN <<>> ELSE Raw(path))
           /\ family = "METER" =>
                Len(path) = 2 /\ path[1] \notin layout.nested["FADER"].parent
           /\ family = "STORAGEVOLUME" => Len(path) = 2
<1> DEFINE known(family) == name \in Params(family) /\ value # "none"
           one(family)   == IF Len(path) = 1 /\ known(family)
                            THEN {Address(family, <<>>)} ELSE {}
           child(family) == IF Len(path) = 2 /\ known(family)
                            THEN {Address(family, Raw(path))} ELSE {}
           network == IF known("NETWORK") THEN {Address("NETWORK", <<>>)} ELSE {}
           meter == IF Len(path) = 2 /\ path[1] \in layout.nested["FADER"].parent
                    THEN {} ELSE child("METER")
           rules == <<network,
                      one("RECORDINGS"), child("RECORDING"), child("STORAGEVOLUME"),
                      one("AUDIO"), one("BUILD"), one("APP"), one("THEME"),
                      one("CURRENTSHOW"), one("SHOWCONTROL"), child("SHOW"),
                      meter>>
           Good(f) == /\ name \in Params(f)
                      /\ event = Address(f, IF f \in Plain THEN <<>> ELSE Raw(path))
<1>1. NameKeyedEvents(layout, path, name, value) = FirstOf(rules)
  BY DEF NameKeyedEvents
<1>2. PICK i \in DOMAIN rules : event \in rules[i]
  <2> HIDE DEF rules
  <2>1. QED BY <1>1, FirstOfIsOne
<1>3. \A f \in Plain : event \in one(f) => Good(f)
  OBVIOUS
<1>4. \A f : f \notin Plain /\ event \in child(f) => Good(f) /\ Len(path) = 2
  OBVIOUS
<1>5. event \in network => Good("NETWORK")
  BY DEF Plain
<1>6. event \in meter => /\ Good("METER")
                         /\ Len(path) = 2
                         /\ path[1] \notin layout.nested["FADER"].parent
  BY DEF Plain
<1> HIDE DEF known, one, child, network, meter, Good
<1>7. \/ event \in network
      \/ \E f \in {"RECORDINGS", "AUDIO", "BUILD", "APP", "THEME", "CURRENTSHOW",
                   "SHOWCONTROL"} : event \in one(f)
      \/ \E f \in {"RECORDING", "STORAGEVOLUME", "SHOW"} : event \in child(f)
      \/ event \in meter
  BY <1>2
<1>8. \E f \in NameKeyedFamilies :
        /\ Good(f)
        /\ f = "METER" => /\ Len(path) = 2
                          /\ path[1] \notin layout.nested["FADER"].parent
        /\ f = "STORAGEVOLUME" => Len(path) = 2
  BY <1>3, <1>4, <1>5, <1>6, <1>7 DEF NameKeyedFamilies, Plain
<1>9. QED BY <1>8 DEF Good

(* So does rule 9.                                                         *)
LEMMA SmallFamilyEventsAre ==
  ASSUME NEW path, NEW name, NEW value,
         NEW event \in SmallFamilyEvents(path, name, value)
  PROVE  \E i \in DOMAIN SmallFamilies :
           /\ name \in Params(SmallFamilies[i])
           /\ event = Address(SmallFamilies[i],
                              IF SmallFamilies[i] \in Plain THEN <<>> ELSE Raw(path))
<1> DEFINE says(f) == IF name \in Params(f) /\ value # "none"
                      THEN {Address(f, IF f \in {"TEST", "RADIO"} THEN <<>>
                                                                  ELSE Raw(path))}
                      ELSE {}
           rules == [i \in DOMAIN SmallFamilies |-> says(SmallFamilies[i])]
<1>1. SmallFamilyEvents(path, name, value) = FirstOf(rules)
  BY DEF SmallFamilyEvents
<1>2. DOMAIN rules = DOMAIN SmallFamilies
      /\ \A i \in DOMAIN rules : rules[i] = says(SmallFamilies[i])
  OBVIOUS
<1>3. PICK i \in DOMAIN SmallFamilies : event \in says(SmallFamilies[i])
  <2> HIDE DEF rules, says
  <2>1. QED BY <1>1, <1>2, FirstOfIsOne
<1>4. SmallFamilies[i] \in Plain <=> SmallFamilies[i] \in {"TEST", "RADIO"}
  BY DEF SmallFamilies, Plain
<1>5. QED BY <1>3, <1>4

(* Of a property that the node at the path carries, no rule says anything  *)
(* but the one thing there is to say of that node.                         *)
LEMMA RulesSayOneThing ==
  ASSUME tree \in Seq(Node), NEW layout \in FromFullSync(tree),
         NEW path \in NodePaths(tree), NEW name \in Carried(NameAt(path)),
         ~Ambiguous(layout, path, name), NEW value,
         NEW i \in DOMAIN Rules(layout, path, name, value),
         NEW event \in Rules(layout, path, name, value)[i]
  PROVE  event \in Sayable(layout, path)
<1> DEFINE here == Here(layout, path)
<1>1. ASSUME event \in here, event.family \in Resolved
      PROVE  event \in Sayable(layout, path)
  BY <1>1, HereIsSayable
<1>2. ASSUME NEW family, NameAt(path) = family, family \notin Resolved,
             event = Address(family, IF family \in Plain THEN <<>> ELSE Raw(path))
      PROVE  event \in Sayable(layout, path)
  BY <1>2 DEF Sayable
<1> HIDE DEF here
<1>3. CASE event \in StripEvents(here, name, value)
  BY <1>1, <1>3, ResolvedFamilies DEF StripEvents
<1>4. CASE event \in MixEvents(here, name, value)
  BY <1>1, <1>4, ResolvedFamilies DEF MixEvents
<1>5. CASE event \in EncoderEvents(layout, path, name, value)
  BY <1>5, CarriersOf DEF EncoderEvents
<1>6. CASE event \in AssignmentEvents(layout, here, path, name)
  <2> DEFINE channels == layout.run["CHANNEL"]
             echoed == UNION {FaderNamed(layout, "CHANNEL",
                                         (path[1] - first) \div EchoStride) :
                                first \in {f \in channels.first :
                                  /\ path # <<>>
                                  /\ path[1] >= f
                                  /\ (path[1] - f) % EchoStride = 0
                                  /\ (path[1] - f) \div EchoStride < channels.count}}
             named == {a \in here : a.family = "CHANNEL"}
  <2>1. name = "channelInputSource" /\ event \in FirstOf(<<named, echoed>>)
    BY <1>6 DEF AssignmentEvents
  <2>2. event \in named \/ (event \in echoed /\ named = {})
    <3> HIDE DEF named, echoed
    <3>1. QED BY <2>1 DEF FirstOf
  <2>3. CASE event \in named
    BY <1>1, <2>3, ResolvedFamilies
  <2>4. CASE event \in echoed /\ named = {}
    <3>1. PICK f \in channels.first : /\ path[1] >= f
                                      /\ (path[1] - f) % EchoStride = 0
                                      /\ (path[1] - f) \div EchoStride < channels.count
      BY <2>4
    <3>2. EchoedElsewhere(layout, path, name)
      <4>1. f \in Nat /\ path[1] \in Nat
        <5>1. Names(tree) \in Seq(STRING) /\ Len(Names(tree)) \in Nat
          BY NamesOfTree, LenProperties
        <5>2. layout.run["CHANNEL"] = DiscoverRun(Names(tree), "CHANNEL")
          BY DEF FromFullSync, LayoutOf, RootRuns
        <5>3. f \in FirstNamed(Names(tree), "CHANNEL")
          BY <5>2 DEF DiscoverRun
        <5>4. f \in Nat
          BY <5>1, <5>3 DEF FirstNamed
        <5>5. path[1] \in Nat
          BY PathsOfTree, NamesOfTree
        <5>6. QED BY <5>4, <5>5
      <4> DEFINE k == path[1] - f
                 n == k \div EchoStride
      <4>2. k \in Nat
        BY <3>1, <4>1
      <4>3. n \in Nat /\ k = EchoStride * n
        <5> HIDE DEF k
        <5>1. k % EchoStride = 0
          BY <3>1 DEF k
        <5>2. QED BY <4>2, <5>1, EchoStrideAssumption, SMTT(60)
      <4>4. channels.count \in Nat
        BY LayoutCounts, LayoutAssumption DEF RootRuns
      <4>5. n \in 0 .. channels.count - 1
        <5>1. n < channels.count
          BY <3>1
        <5> HIDE DEF n, channels
        <5>2. QED BY <4>3, <4>4, <5>1
      <4>6. path[1] = f + EchoStride * n
        <5> HIDE DEF n
        <5>1. EchoStride * n \in Int
          BY <4>3, EchoStrideAssumption
        <5>2. QED BY <4>1, <4>3, <5>1
      <4>7. \A a \in here : a.family # "CHANNEL"
        BY <2>4
      <4> HIDE DEF n
      <4>8. QED BY <2>1, <4>5, <4>6, <4>7 DEF EchoedElsewhere, here
    <3>3. QED BY <3>2 DEF Ambiguous
  <2>5. QED BY <2>2, <2>3, <2>4
<1>7. CASE event \in HardwareEvents(layout, path, name, value)
  <2>1. PICK node \in DOMAIN HardwareParams :
               /\ name \in HardwareParams[node]
               /\ event = Address(node, IF node = "RECBUTTON" THEN <<>> ELSE Raw(path))
    BY <1>7 DEF HardwareEvents
  <2>2. node \in Hardware /\ node = NameAt(path)
    BY <2>1, HardwareTable, CarriersOf
  <2>3. node \notin Resolved /\ (node \in Plain <=> node = "RECBUTTON")
    BY <2>2, ResolvedFamilies DEF Hardware, Plain
  <2>4. QED BY <1>2, <2>1, <2>2, <2>3
<1>8. CASE event \in EmergencyEvents(path, name, value)
  <2>1. name = "emergencyMuteActive" /\ event = Address("EMERGENCYMUTE", <<>>)
    BY <1>8 DEF EmergencyEvents
  <2>2. NameAt(path) = "EMERGENCYMUTE"
    BY <2>1, CarriersOf
  <2>3. QED BY <1>2, <2>1, <2>2, ResolvedFamilies DEF Plain
<1>9. CASE event \in NameKeyedEvents(layout, path, name, value)
  <2>1. PICK family \in NameKeyedFamilies :
          /\ name \in Params(family)
          /\ event = Address(family, IF family \in Plain THEN <<>> ELSE Raw(path))
          /\ family = "METER" =>
               Len(path) = 2 /\ path[1] \notin layout.nested["FADER"].parent
    BY <1>9, NameKeyedEventsAre
  <2>2. family \notin Resolved \cup {"EFFECTS_PARAMETERS", "RCSYNCMIX"}
    BY ResolvedFamilies DEF NameKeyedFamilies
  <2>3. QED BY <1>2, <2>1, <2>2, KnownByName
<1>10. CASE event \in SipEvents(here, name, value)
  <2> DEFINE families == <<"SIPCALLING", "SIPADVANCED", "SIPREGISTRATION",
                           "SIPCALLSLOTS">>
  <2>1. /\ event \in here
        /\ \E j \in DOMAIN families : event.family = families[j]
    BY <1>10, AmongIsOne DEF SipEvents
  <2>2. event.family \in Resolved
    BY <2>1, ResolvedFamilies
  <2>3. QED BY <1>1, <2>1, <2>2
<1>11. CASE event \in SmallFamilyEvents(path, name, value)
  <2>1. PICK j \in DOMAIN SmallFamilies :
           /\ name \in Params(SmallFamilies[j])
           /\ event = Address(SmallFamilies[j],
                              IF SmallFamilies[j] \in Plain THEN <<>> ELSE Raw(path))
    BY <1>11, SmallFamilyEventsAre
  <2>2. SmallFamilies[j] \notin Resolved \cup {"EFFECTS_PARAMETERS", "RCSYNCMIX", "METER"}
    BY ResolvedFamilies DEF SmallFamilies
  <2>3. QED BY <1>2, <2>1, <2>2, KnownByName
<1>12. CASE event \in RemoteMixEvents(here, name, value)
  <2> DEFINE families == <<"MIXMINUSES", "RCSYNCMIX">>
  <2>1. /\ event \in here
        /\ \E j \in DOMAIN families : event.family = families[j]
    BY <1>12, AmongIsOne DEF RemoteMixEvents
  <2>2. event.family \in Resolved
    BY <2>1, ResolvedFamilies
  <2>3. QED BY <1>1, <2>1, <2>2
<1>13. CASE event \in ParamTarget(here, name)
  <2>1. /\ event \in here
        /\ \E j \in DOMAIN ParamFamilies : event.family = ParamFamilies[j]
    BY <1>13, AmongIsOne DEF ParamTarget
  <2>2. event.family \in Resolved
    BY <2>1, ResolvedFamilies DEF ParamFamilies
  <2>3. QED BY <1>1, <2>1, <2>2
<1>14. QED
  BY <1>3, <1>4, <1>5, <1>6, <1>7, <1>8, <1>9, <1>10, <1>11, <1>12, <1>13,
     RulesAre DEF here

(* Nor does the decoder, whichever rule comes first.                       *)
LEMMA DecodedIsSayable ==
  ASSUME tree \in Seq(Node), NEW layout \in FromFullSync(tree),
         NEW path \in NodePaths(tree), NEW name \in Carried(NameAt(path)),
         ~Ambiguous(layout, path, name), NEW value
  PROVE  /\ DecodeProperty(layout, path, name, value) \subseteq Sayable(layout, path)
         /\ LET rules == Rules(layout, path, name, value)
            IN  UNION {rules[i] : i \in DOMAIN rules} \subseteq Sayable(layout, path)
<1> DEFINE rules == Rules(layout, path, name, value)
<1>1. \A i \in DOMAIN rules : rules[i] \subseteq Sayable(layout, path)
  BY RulesSayOneThing
<1> HIDE DEF rules
<1>2. \A event \in FirstOf(rules) : event \in Sayable(layout, path)
  BY <1>1, FirstOfIsOne
<1>3. QED BY <1>1, <1>2 DEF DecodeProperty, rules

(* Every event names the node whose property has changed (events.rs        *)
(* 394-396, 965-968).                                                      *)
THEOREM EventsNameTheirNode == Spec => []EventsNameTheNode
<1>1. Inv => EventsNameTheNode
  <2>1. SUFFICES ASSUME Inv, NEW layout \in FromFullSync(tree),
                        NEW path \in NodePaths(tree),
                        NEW name \in Carried(NameAt(path)), NEW value \in Values,
                        ~Ambiguous(layout, path, name),
                        NEW event \in DecodeProperty(layout, path, name, value)
                 PROVE  /\ event.family = NameAt(path)
                        /\ event.family \in Resolved =>
                             event \in NamedTruth(layout, path)
    BY DEF EventsNameTheNode
  <2>2. tree \in Seq(Node)
    BY <2>1, SmallTrees DEF Inv
  <2>3. event \in Sayable(layout, path)
    BY <2>1, <2>2, DecodedIsSayable
  <2>4. event.family = NameAt(path)
    BY <2>2, <2>3, SayableIsOne
  <2>5. QED BY <2>3, <2>4 DEF Sayable
<1>2. QED BY <1>1, Invariant, PTL

(* The order in which the rules are tried cannot matter (events.rs         *)
(* 868-869).                                                               *)
THEOREM RulesDoNotCompete == Spec => []PrecedenceIsImmaterial
<1>1. Inv => PrecedenceIsImmaterial
  <2>1. SUFFICES ASSUME Inv, NEW layout \in FromFullSync(tree),
                        NEW path \in NodePaths(tree),
                        NEW name \in Carried(NameAt(path)), NEW value \in Values,
                        ~Ambiguous(layout, path, name)
                 PROVE  LET rules == Rules(layout, path, name, value)
                        IN  Cardinality(UNION {rules[i] : i \in DOMAIN rules}) <= 1
    BY DEF PrecedenceIsImmaterial
  <2> DEFINE rules == Rules(layout, path, name, value)
             said == UNION {rules[i] : i \in DOMAIN rules}
  <2>2. tree \in Seq(Node)
    BY <2>1, SmallTrees DEF Inv
  <2>3. said \subseteq Sayable(layout, path)
    BY <2>1, <2>2, DecodedIsSayable
  <2> HIDE DEF said
  <2>4. ASSUME said = {} PROVE Cardinality(said) <= 1
    BY <2>4, FS_EmptySet
  <2>5. ASSUME NEW event \in said PROVE Cardinality(said) <= 1
    <3>1. said = {event}
      BY <2>2, <2>3, SayableIsOne
    <3>2. QED BY <3>1, FS_Singleton
  <2>6. Cardinality(said) <= 1
    BY <2>4, <2>5
  <2>7. QED BY <2>6 DEF said
<1>2. QED BY <1>1, Invariant, PTL

-----------------------------------------------------------------------------
(* Nothing is lost.                                                        *)

(* What there is to say of a node that has a path.                         *)
LEMMA AddressedIsSayable ==
  ASSUME tree \in Seq(Node), NEW layout \in FromFullSync(tree),
         NEW a \in Addresses, NEW path \in PathOf(layout, a)
  PROVE  /\ path \in NodePaths(tree)
         /\ NameAt(path) = a.family
         /\ Here(layout, path) = Named(layout, a)
         /\ a.family \in Resolved => Sayable(layout, path) = Named(layout, a)
<1>1. path \in NodePaths(tree) /\ TrueAddress(tree, path) = {a}
  BY AddressedPaths
<1>2. NameAt(path) = a.family
  BY <1>1, AddressNames
<1>3. Here(layout, path) = Named(layout, a)
  BY <1>1, AddressedIsResolved, HereIsTrue
<1>4. NamedTruth(layout, path) = Named(layout, a)
  BY <1>1 DEF NamedTruth
<1>5. QED BY <1>1, <1>2, <1>3, <1>4 DEF Sayable

(* It cannot be taken for a meter: a fader has a path only below the first *)
(* PHYSICALINTERFACE.                                                      *)
LEMMA AddressedIsNoMeter ==
  ASSUME tree \in Seq(Node), NEW layout \in FromFullSync(tree),
         NEW a \in Addresses, NEW path \in PathOf(layout, a),
         NEW name \in Carried(a.family), ~EchoedElsewhere(layout, path, name)
  PROVE  ~Ambiguous(layout, path, name)
<1>1. NameAt(path) = a.family
  BY AddressedIsSayable
<1>2. SUFFICES ASSUME TakenForMeter(layout, path, name), a.family # "METER"
               PROVE  FALSE
  BY <1>1 DEF Ambiguous
<1>3. name = "faderLevel" /\ path[1] \notin layout.nested["FADER"].parent
  BY <1>2 DEF TakenForMeter
<1>4. a.family = "FADER"
  <2>1. name \in Params("METER") /\ name \in Params("METER")
    BY <1>3 DEF Params, Tables, MeterParam
  <2>2. QED BY <1>2, <2>1, KnownElsewhere
<1>5. PathOf(layout, a) = NestedPath(layout.nested["FADER"], a.index[1])
  BY <1>4, FamiliesApart DEF PathOf, RootRuns, NestedRuns
<1>6. path[1] \in layout.nested["FADER"].parent
  BY <1>5 DEF NestedPath
<1>7. QED BY <1>3, <1>6

(* The rules for a node that the layout resolves: one of them knows each   *)
(* property it carries.                                                    *)
LEMMA SomeRuleKnows ==
  ASSUME NEW layout, NEW path, NEW event \in Here(layout, path),
         event.family \in Resolved, NEW name \in Carried(event.family)
  PROVE  \E i \in 1 .. 11 : Rules(layout, path, name, "expected")[i] # {}
<1> DEFINE here == Here(layout, path)
<1>1. event \in here
  OBVIOUS
<1> HIDE DEF here
<1>2. \/ event.family = "CHANNEL" /\ name \in StripProps
      \/ event.family = "FADER" /\ name = "faderLevel"
      \/ event.family = "MIX" /\ name \in MixProps
      \/ event.family = "CHANNEL" /\ name = "eqOn"
      \/ name \in Params(event.family) /\ event.family \notin {"CHANNEL", "FADER", "MIX"}
  BY CarriedCases, ResolvedFamilies DEF Hardware
<1>3. CASE \/ event.family = "CHANNEL" /\ name \in StripProps
           \/ event.family = "FADER" /\ name = "faderLevel"
  <2>1. event \in StripEvents(here, name, "expected")
    BY <1>1, <1>3 DEF StripEvents, StripProps
  <2>2. QED BY <2>1, RulesAre DEF here
<1>4. CASE event.family = "MIX" /\ name \in MixProps
  <2>1. event \in MixEvents(here, name, "expected")
    BY <1>1, <1>4 DEF MixEvents
  <2>2. QED BY <2>1, RulesAre DEF here
<1>5. CASE event.family \in {"SIPCALLING", "SIPADVANCED", "SIPREGISTRATION",
                             "SIPCALLSLOTS"} /\ name \in Params(event.family)
  <2> DEFINE known == {a \in here : name \in Params(a.family) /\ "expected" # "none"}
             families == <<"SIPCALLING", "SIPADVANCED", "SIPREGISTRATION",
                           "SIPCALLSLOTS">>
  <2>1. event \in known /\ DOMAIN families = 1 .. 4
        /\ \E i \in 1 .. 4 : event.family = families[i]
    BY <1>1, <1>5
  <2> HIDE DEF known, families
  <2>2. Among(known, families) # {}
    BY <2>1, AmongFinds
  <2>3. SipEvents(here, name, "expected") # {}
    BY <2>2 DEF SipEvents, known, families
  <2>4. QED BY <2>3, RulesAre DEF here
<1>6. CASE event.family \in {"MIXMINUSES", "RCSYNCMIX"} /\ name \in Params(event.family)
  <2> DEFINE known == {a \in here : name \in Params(a.family) /\ "expected" # "none"}
             families == <<"MIXMINUSES", "RCSYNCMIX">>
  <2>1. event \in known /\ DOMAIN families = 1 .. 2
        /\ \E i \in 1 .. 2 : event.family = families[i]
    BY <1>1, <1>6
  <2> HIDE DEF known, families
  <2>2. Among(known, families) # {}
    BY <2>1, AmongFinds
  <2>3. RemoteMixEvents(here, name, "expected") # {}
    BY <2>2 DEF RemoteMixEvents, known, families
  <2>4. QED BY <2>3, RulesAre DEF here
<1>7. CASE /\ event.family \in {"CHANNEL", "INPUTSOURCE", "MASTERCHANNEL", "OUTPUT",
                "DUCKER", "RECORDER", "PLAYER", "HEADPHONE", "EFFECTS_PARAMETERS",
                "GUI", "PAD", "SYSTEM"}
           /\ event.family = "CHANNEL" => name \notin StripProps
  <2> DEFINE known == {a \in here : a.family = "CHANNEL" => name \notin StripProps}
  <2>1. event \in known /\ DOMAIN ParamFamilies = 1 .. 12
        /\ \E i \in 1 .. 12 : event.family = ParamFamilies[i]
    BY <1>1, <1>7 DEF ParamFamilies
  <2> HIDE DEF known
  <2>2. Among(known, ParamFamilies) # {}
    BY <2>1, AmongFinds
  <2>3. ParamTarget(here, name) # {}
    BY <2>2 DEF ParamTarget, known
  <2>4. QED BY <2>3, RulesAre DEF here
<1>8. name = "eqOn" => name \notin StripProps
  BY DEF StripProps
<1>9. QED BY <1>2, <1>3, <1>4, <1>5, <1>6, <1>7, <1>8, ResolvedFamilies

(* So a change of a node that has a path is reported as that node's.       *)
LEMMA AddressedIsReported ==
  ASSUME tree \in Seq(Node), NEW layout \in FromFullSync(tree),
         NEW a \in Addresses, NEW path \in PathOf(layout, a),
         a.family \in Resolved, NEW name \in Carried(a.family),
         ~EchoedElsewhere(layout, path, name)
  PROVE  DecodeProperty(layout, path, name, "expected") = Named(layout, a)
<1> DEFINE decoded == DecodeProperty(layout, path, name, "expected")
           rules == Rules(layout, path, name, "expected")
<1>1. /\ path \in NodePaths(tree) /\ NameAt(path) = a.family
      /\ Here(layout, path) = Named(layout, a)
      /\ Sayable(layout, path) = Named(layout, a)
  BY AddressedIsSayable
<1>2. ~Ambiguous(layout, path, name)
  BY AddressedIsNoMeter
<1>3. decoded \subseteq Named(layout, a)
  BY <1>1, <1>2, DecodedIsSayable
<1>4. ASSUME NEW event \in Named(layout, a) PROVE event \in decoded
  <2>1. event.family = a.family /\ Named(layout, a) = {event}
    BY ModelOfLayout, NamedIsOne
  <2>2. \E i \in 1 .. 11 : rules[i] # {}
    BY <1>1, <2>1, SomeRuleKnows
  <2>3. DOMAIN rules = 1 .. 11
    BY RulesAre
  <2>4. FirstOf(rules) # {}
    <3> HIDE DEF rules
    <3>1. QED BY <2>2, <2>3, FirstOfFinds
  <2>5. decoded # {}
    BY <2>4 DEF DecodeProperty
  <2>6. QED BY <1>3, <2>1, <2>5
<1>5. QED BY <1>3, <1>4

(* No change is lost: the decoder reports every property that a node of a  *)
(* resolved family carries, as that node's.                                *)
THEOREM CarriedIsReported == Spec => []CarriedPropertiesAreReported
<1>1. Inv => CarriedPropertiesAreReported
  <2>1. SUFFICES ASSUME Inv, NEW layout \in FromFullSync(tree),
                        NEW path \in NodePaths(tree),
                        NEW a \in TrueAddress(tree, path), a.family \in Resolved,
                        a \in AllAddresses, path \in PathOf(layout, a),
                        NEW name \in Carried(a.family),
                        ~EchoedElsewhere(layout, path, name)
                 PROVE  DecodeProperty(layout, path, name, "expected")
                          = Named(layout, a)
    BY DEF CarriedPropertiesAreReported
  <2>2. tree \in Seq(Node)
    BY <2>1, SmallTrees DEF Inv
  <2>3. QED BY <2>1, <2>2, KnownAddresses, AddressedIsReported
<1>2. QED BY <1>1, Invariant, PTL

-----------------------------------------------------------------------------
(* The full sync.                                                          *)

(* Small numbers survive being cut to a byte.                              *)
LEMMA FitsAByte ==
  ASSUME NEW n \in Nat, n <= U8Max
  PROVE  n % (U8Max + 1) = n
BY LayoutAssumption, SMTT(60)

(* What the walk makes of a node of the first run of its name.             *)
LEMMA InitialAddressNames ==
  ASSUME NEW layout, NEW names, NEW p, InFirstRun(names, p)
  PROVE  LET name == names[p + 1]
             rank == Rank(names, p)
         IN  /\ /\ name \in {"FADER", "CHANNEL", "INPUTSOURCE", "HEADPHONE",
                             "EFFECTS_PARAMETERS", "PAD"}
                /\ rank \in Nat /\ rank < U8Max
                => InitialAddress(layout, names, p) =
                     Named(layout, Address(name, <<rank>>))
             /\ /\ name = "MIX"
                /\ rank \div MixPerSource \in Nat /\ rank \div MixPerSource < U8Max
                => InitialAddress(layout, names, p) =
                     Named(layout, Address(name, <<rank \div MixPerSource,
                                                   rank % MixPerSource>>))
             /\ name \in FirstNodes /\ rank = 0 =>
                  InitialAddress(layout, names, p) = Named(layout, Address(name, <<>>))
<1> DEFINE name == names[p + 1]
           rank == Rank(names, p)
<1>1. Counter(names, p) = rank
  BY DEF Counter, Rank
<1>2. ~BrokenOff(names, p)
  BY DEF BrokenOff, InFirstRun
<1>3. U8Max \in Nat
  BY LayoutAssumption
<1> HIDE DEF name, rank
<1>4. name = names[p + 1] /\ rank = Rank(names, p)
  BY DEF name, rank
<1>5. ASSUME rank \in Nat, rank < U8Max
      PROVE  Saturate(rank) = rank /\ rank <= U8Max
  BY <1>3, <1>5 DEF Saturate
<1>6. ASSUME name \in {"FADER", "CHANNEL", "HEADPHONE"}, rank \in Nat, rank < U8Max
      PROVE  InitialAddress(layout, names, p) = Named(layout, Address(name, <<rank>>))
  <2>1. /\ name # "MIX" /\ name # "INPUTSOURCE"
        /\ name \in CountedRuns \ {"MIX", "INPUTSOURCE"}
        /\ name \notin FirstRuns /\ name \notin FirstNodes
    BY <1>6 DEF CountedRuns, FirstRuns, FirstNodes
  <2>2. InitialAddress(layout, names, p) =
          Named(layout, Address(name, <<Saturate(rank)>>))
    BY <1>1, <1>4, <2>1, Zenon DEF InitialAddress
  <2>3. QED BY <1>5, <1>6, <2>2
<1>7. ASSUME name = "INPUTSOURCE", rank \in Nat, rank < U8Max
      PROVE  InitialAddress(layout, names, p) = Named(layout, Address(name, <<rank>>))
  <2>1. /\ name # "MIX"
        /\ name \notin CountedRuns \ {"MIX", "INPUTSOURCE"}
        /\ name \notin FirstRuns /\ name \notin FirstNodes
    BY <1>7 DEF FirstRuns, FirstNodes
  <2>2. InitialAddress(layout, names, p) =
          IF rank <= U8Max THEN Named(layout, Address(name, <<rank>>)) ELSE {}
    BY <1>1, <1>4, <1>7, <2>1, Zenon DEF InitialAddress
  <2>3. QED BY <1>5, <1>7, <2>2
<1>8. ASSUME name \in {"EFFECTS_PARAMETERS", "PAD"}, rank \in Nat, rank < U8Max
      PROVE  InitialAddress(layout, names, p) = Named(layout, Address(name, <<rank>>))
  <2>1. /\ name # "MIX" /\ name # "INPUTSOURCE"
        /\ name \notin CountedRuns \ {"MIX", "INPUTSOURCE"}
        /\ name \in FirstRuns /\ name \notin FirstNodes
    BY <1>8 DEF CountedRuns, FirstRuns, FirstNodes
  <2>2. InitialAddress(layout, names, p) = {Address(name, <<Saturate(rank)>>)}
    BY <1>1, <1>2, <1>4, <2>1, Zenon DEF InitialAddress
  <2>3. Named(layout, Address(name, <<rank>>)) = {Address(name, <<rank>>)}
    BY <1>8 DEF Named, Address
  <2>4. QED BY <1>5, <1>8, <2>2, <2>3
<1>9. ASSUME name = "MIX",
             rank \div MixPerSource \in Nat, rank \div MixPerSource < U8Max
      PROVE  InitialAddress(layout, names, p) =
               Named(layout, Address(name, <<rank \div MixPerSource,
                                             rank % MixPerSource>>))
  <2> DEFINE row == rank \div MixPerSource
             column == rank % MixPerSource
  <2>1. InitialAddress(layout, names, p) =
          Named(layout, Address(name, <<row % (U8Max + 1), column>>))
    <3>1. /\ name # "INPUTSOURCE"
          /\ name \notin CountedRuns \ {"MIX", "INPUTSOURCE"}
          /\ name \notin FirstRuns /\ name \notin FirstNodes
      BY <1>9 DEF FirstRuns, FirstNodes
    <3>2. QED BY <1>1, <1>4, <1>9, <3>1, Zenon DEF InitialAddress
  <2>2. row \in Nat /\ row <= U8Max
    BY <1>3, <1>9
  <2> HIDE DEF row, column
  <2>3. row % (U8Max + 1) = row
    BY <2>2, FitsAByte
  <2>4. QED BY <2>1, <2>3 DEF row, column
<1>10. ASSUME name \in FirstNodes, rank = 0
       PROVE  InitialAddress(layout, names, p) = Named(layout, Address(name, <<>>))
  <2>1. name \notin {"MIX", "INPUTSOURCE"} \cup CountedRuns \cup FirstRuns
    BY <1>10 DEF FirstNodes, CountedRuns, FirstRuns
  <2>2. InitialAddress(layout, names, p) = {Address(name, <<>>)}
    BY <1>1, <1>4, <1>10, <2>1, Zenon DEF InitialAddress
  <2>3. name \notin {"CHANNEL", "FADER", "MIX", "INPUTSOURCE"}
    BY <1>10 DEF FirstNodes
  <2>4. Named(layout, Address(name, <<>>)) = {Address(name, <<>>)}
    BY <2>3 DEF Named, Address
  <2>5. QED BY <2>2, <2>4
<1>11. QED BY <1>4, <1>6, <1>7, <1>8, <1>9, <1>10

(* The events of the full sync, node by node.                              *)
Entry(path, prop, event) == [path |-> path, name |-> prop, event |-> event]

EntriesOf(layout, path, siblings, p) ==
  {Entry(path, prop, a) : prop \in Reported(siblings[p + 1]),
                          a \in InitialAddress(layout, siblings, p)}

(* What an entry of the walk says.                                         *)
LEMMA EntriesAre ==
  ASSUME NEW layout, NEW path, NEW siblings, NEW p
  PROVE  /\ \A e \in EntriesOf(layout, path, siblings, p) :
              e.path = path /\ e.event \in InitialAddress(layout, siblings, p)
         /\ \A prop \in Reported(siblings[p + 1]),
               a \in InitialAddress(layout, siblings, p) :
              Entry(path, prop, a) \in EntriesOf(layout, path, siblings, p)
         /\ \A prop, a : /\ Entry(path, prop, a).path = path
                         /\ Entry(path, prop, a).name = prop
                         /\ Entry(path, prop, a).event = a
<1>1. \A prop, a : /\ Entry(path, prop, a).path = path
                   /\ Entry(path, prop, a).name = prop
                   /\ Entry(path, prop, a).event = a
  BY DEF Entry
<1>2. QED BY <1>1 DEF EntriesOf

InitialAt(layout, path, prop) ==
  {e.event : e \in {f \in InitialEvents(tree, layout) :
                      f.path = path /\ f.name = prop}}

(* The events of a full sync, node by node.                                *)
LEMMA InitialEventsAre ==
  ASSUME tree \in Seq(Node), NEW layout
  PROVE  LET names == Names(tree)
         IN  /\ \A e \in InitialEvents(tree, layout) :
                  \/ \E p \in 0 .. Len(tree) - 1 :
                       e \in EntriesOf(layout, <<p>>, names, p)
                  \/ \E p \in 0 .. Len(tree) - 1 :
                       \E k \in 0 .. Len(tree[p + 1].kids) - 1 :
                         e \in EntriesOf(layout, <<p, k>>, tree[p + 1].kids, k)
             /\ \A p \in 0 .. Len(tree) - 1 :
                  names[p + 1] \notin {"FADER", "PAD"} =>
                    EntriesOf(layout, <<p>>, names, p)
                      \subseteq InitialEvents(tree, layout)
             /\ \A c \in DOMAIN Walked : \A p \in FirstNamed(names, c) :
                  \A k \in 0 .. Len(tree[p + 1].kids) - 1 :
                    tree[p + 1].kids[k + 1] = Walked[c] =>
                      EntriesOf(layout, <<p, k>>, tree[p + 1].kids, k)
                        \subseteq InitialEvents(tree, layout)
<1> DEFINE names == [i \in DOMAIN tree |-> tree[i].name]
           of(path, siblings, p) ==
             {[path |-> path, name |-> prop, event |-> a] :
                prop \in Reported(siblings[p + 1]),
                a \in InitialAddress(layout, siblings, p)}
           atRoot == {p \in 0 .. Len(tree) - 1 : names[p + 1] \notin {"FADER", "PAD"}}
           inside(c, p) == {k \in 0 .. Len(tree[p + 1].kids) - 1 :
                              tree[p + 1].kids[k + 1] = Walked[c]}
           top(p) == of(<<p>>, names, p)
           below(p, k) == of(<<p, k>>, tree[p + 1].kids, k)
<1>1. InitialEvents(tree, layout) =
        (UNION {top(p) : p \in atRoot}) \cup
        UNION {UNION {UNION {below(p, k) : k \in inside(c, p)} :
                        p \in FirstNamed(names, c)} : c \in DOMAIN Walked}
  BY DEF InitialEvents
<1> HIDE DEF names
<1>2. names = Names(tree)
  BY DEF Names, names
<1>3. \A c : FirstNamed(names, c) \subseteq 0 .. Len(tree) - 1
  BY <1>2, NamesOfTree DEF FirstNamed
<1>4. /\ \A p : top(p) = EntriesOf(layout, <<p>>, Names(tree), p)
      /\ \A p, k : below(p, k) = EntriesOf(layout, <<p, k>>, tree[p + 1].kids, k)
  BY <1>2 DEF EntriesOf, Entry
<1> HIDE DEF of, top, below
<1>5. \A e \in InitialEvents(tree, layout) :
        \/ \E p \in 0 .. Len(tree) - 1 : e \in top(p)
        \/ \E p \in 0 .. Len(tree) - 1 : \E k \in 0 .. Len(tree[p + 1].kids) - 1 :
             e \in below(p, k)
  BY <1>1, <1>3
<1>6. \A p \in 0 .. Len(tree) - 1 :
        names[p + 1] \notin {"FADER", "PAD"} =>
          top(p) \subseteq InitialEvents(tree, layout)
  BY <1>1
<1>7. \A c \in DOMAIN Walked : \A p \in FirstNamed(names, c) :
        \A k \in 0 .. Len(tree[p + 1].kids) - 1 :
          tree[p + 1].kids[k + 1] = Walked[c] =>
            below(p, k) \subseteq InitialEvents(tree, layout)
  BY <1>1
<1>8. QED BY <1>2, <1>4, <1>5, <1>6, <1>7, Zenon

(* Of a node that is walked, they are its name in the walk's own counting. *)
LEMMA InitialAtTop ==
  ASSUME tree \in Seq(Node), NEW layout, NEW p \in 0 .. Len(tree) - 1,
         Names(tree)[p + 1] \notin {"FADER", "PAD"},
         NEW prop \in Reported(Names(tree)[p + 1])
  PROVE  InitialAt(layout, <<p>>, prop) = InitialAddress(layout, Names(tree), p)
<1>1. ASSUME NEW e \in InitialEvents(tree, layout), e.path = <<p>>
      PROVE  e.event \in InitialAddress(layout, Names(tree), p)
  <2>1. ASSUME NEW q \in 0 .. Len(tree) - 1,
               e \in EntriesOf(layout, <<q>>, Names(tree), q)
        PROVE  e.event \in InitialAddress(layout, Names(tree), p)
    <3>1. <<q>> = <<p>>
      BY <1>1, <2>1, EntriesAre
    <3>2. q = p
      BY <3>1
    <3>3. QED BY <2>1, <3>2, EntriesAre
  <2>2. ASSUME NEW q, NEW k, e \in EntriesOf(layout, <<q, k>>, tree[q + 1].kids, k)
        PROVE  FALSE
    <3>1. <<q, k>> = <<p>>
      BY <1>1, <2>2, EntriesAre
    <3>2. QED BY <3>1
  <2>3. QED BY <2>1, <2>2, InitialEventsAre
<1>2. ASSUME NEW a \in InitialAddress(layout, Names(tree), p)
      PROVE  a \in InitialAt(layout, <<p>>, prop)
  <2> DEFINE e == Entry(<<p>>, prop, a)
  <2>1. e \in InitialEvents(tree, layout)
    BY InitialEventsAre, EntriesAre
  <2>2. e.path = <<p>> /\ e.name = prop /\ e.event = a
    BY DEF Entry
  <2> HIDE DEF e
  <2>3. QED BY <2>1, <2>2 DEF InitialAt
<1>3. QED BY <1>1, <1>2 DEF InitialAt

(* The same inside the containers that are walked.                         *)
LEMMA InitialBelow ==
  ASSUME tree \in Seq(Node), NEW layout, NEW c \in DOMAIN Walked,
         NEW p \in FirstNamed(Names(tree), c),
         NEW k \in 0 .. Len(tree[p + 1].kids) - 1,
         tree[p + 1].kids[k + 1] = Walked[c],
         NEW prop \in Reported(Walked[c])
  PROVE  InitialAt(layout, <<p, k>>, prop) =
           InitialAddress(layout, tree[p + 1].kids, k)
<1>1. ASSUME NEW e \in InitialEvents(tree, layout), e.path = <<p, k>>
      PROVE  e.event \in InitialAddress(layout, tree[p + 1].kids, k)
  <2>1. ASSUME NEW q, e \in EntriesOf(layout, <<q>>, Names(tree), q)
        PROVE  FALSE
    <3>1. e.path = <<q>>
      BY <2>1, EntriesAre
    <3>2. <<q>> = <<p, k>>
      BY <1>1, <3>1
    <3>3. QED BY <3>2
  <2>2. ASSUME NEW q, NEW l, e \in EntriesOf(layout, <<q, l>>, tree[q + 1].kids, l)
        PROVE  e.event \in InitialAddress(layout, tree[p + 1].kids, k)
    <3>1. <<q, l>> = <<p, k>>
      BY <1>1, <2>2, EntriesAre
    <3>2. q = p /\ l = k
      BY <3>1
    <3>3. QED BY <2>2, <3>2, EntriesAre
  <2>3. QED BY <2>1, <2>2, InitialEventsAre
<1>2. ASSUME NEW a \in InitialAddress(layout, tree[p + 1].kids, k)
      PROVE  a \in InitialAt(layout, <<p, k>>, prop)
  <2> DEFINE e == Entry(<<p, k>>, prop, a)
  <2>1. e \in EntriesOf(layout, <<p, k>>, tree[p + 1].kids, k)
    BY EntriesAre
  <2>2. e \in InitialEvents(tree, layout)
    <3> HIDE DEF e
    <3>1. QED BY <2>1, InitialEventsAre
  <2>3. e.path = <<p, k>> /\ e.name = prop /\ e.event = a
    BY DEF Entry
  <2> HIDE DEF e
  <2>4. QED BY <2>2, <2>3 DEF InitialAt
<1>3. QED BY <1>1, <1>2 DEF InitialAt

(* Where a node has a path, the walk's own counting comes to the layout's. *)
LEMMA WalkAgreesAtTop ==
  ASSUME tree \in Seq(Node), NEW layout \in FromFullSync(tree),
         NEW p \in 0 .. Len(tree) - 1, NEW a \in Addresses,
         <<p>> \in PathOf(layout, a),
         a.family \in CountedRuns \cup FirstRuns \cup FirstNodes,
         NEW prop \in Reported(a.family)
  PROVE  InitialAt(layout, <<p>>, prop) = Named(layout, a)
<1> DEFINE names == Names(tree)
           name == names[p + 1]
           rank == Rank(names, p)
<1>1. /\ <<p>> \in NodePaths(tree) /\ TrueAddress(tree, <<p>>) = {a}
      /\ a.family \in RootRuns \cup NestedRuns \cup {"MIX"} =>
           a.index[1] \in Nat /\ a.index[1] < U8Max
  BY AddressedPaths
<1>2. a \in TrueAtTop(names, p)
  BY <1>1 DEF TrueAddress
<1>3. /\ InFirstRun(names, p) /\ a.family = name
      /\ \/ name \in RootRuns /\ a = Address(name, <<rank>>)
         \/ /\ name = "MIX"
            /\ a = Address(name, <<rank \div MixPerSource, rank % MixPerSource>>)
         \/ name \in Singletons /\ rank = 0 /\ a = Address(name, <<>>)
  <2> HIDE DEF names, name, rank
  <2>1. QED BY <1>2, TablesAgree DEF TrueAtTop, name, rank, Address
<1> HIDE DEF name, rank
<1>4. name \notin {"FADER", "PAD"}
  BY <1>3 DEF RootRuns, Singletons
<1>5. InitialAt(layout, <<p>>, prop) = InitialAddress(layout, names, p)
  BY <1>3, <1>4, InitialAtTop DEF name
<1>6. CASE name \in RootRuns /\ a = Address(name, <<rank>>)
  <2>1. a.index[1] = rank
    BY <1>6 DEF Address
  <2>2. rank \in Nat /\ rank < U8Max
    BY <1>1, <1>3, <1>6, <2>1
  <2>3. name \in {"CHANNEL", "INPUTSOURCE", "HEADPHONE", "EFFECTS_PARAMETERS"}
    BY <1>3, <1>6 DEF CountedRuns, FirstRuns, FirstNodes, RootRuns
  <2> HIDE DEF names
  <2>4. InitialAddress(layout, names, p) = Named(layout, Address(name, <<rank>>))
    BY <1>3, <2>2, <2>3, InitialAddressNames DEF name, rank
  <2>5. QED BY <1>5, <1>6, <2>4
<1>7. CASE /\ name = "MIX"
           /\ a = Address(name, <<rank \div MixPerSource, rank % MixPerSource>>)
  <2>1. a.index[1] = rank \div MixPerSource
    BY <1>7 DEF Address
  <2>2. rank \div MixPerSource \in Nat /\ rank \div MixPerSource < U8Max
    BY <1>1, <1>3, <1>7, <2>1
  <2> HIDE DEF names
  <2>3. InitialAddress(layout, names, p) =
          Named(layout, Address(name, <<rank \div MixPerSource, rank % MixPerSource>>))
    BY <1>3, <1>7, <2>2, InitialAddressNames DEF name, rank
  <2>4. QED BY <1>5, <1>7, <2>3
<1>8. CASE name \in Singletons /\ rank = 0 /\ a = Address(name, <<>>)
  <2>1. name \in FirstNodes
    BY <1>3, <1>8 DEF CountedRuns, FirstRuns, FirstNodes, Singletons
  <2> HIDE DEF names
  <2>2. InitialAddress(layout, names, p) = Named(layout, Address(name, <<>>))
    BY <1>3, <1>8, <2>1, InitialAddressNames DEF name, rank
  <2>3. QED BY <1>5, <1>8, <2>2
<1>9. QED BY <1>3, <1>6, <1>7, <1>8

(* The same inside the containers that are walked.                         *)
LEMMA WalkAgreesBelow ==
  ASSUME tree \in Seq(Node), NEW layout \in FromFullSync(tree),
         NEW p \in 0 .. Len(tree) - 1, NEW k \in 0 .. Len(tree[p + 1].kids) - 1,
         NEW a \in Addresses, <<p, k>> \in PathOf(layout, a),
         a.family \in CountedRuns \cup FirstRuns \cup FirstNodes,
         NEW prop \in Reported(a.family)
  PROVE  InitialAt(layout, <<p, k>>, prop) = Named(layout, a)
<1> DEFINE names == Names(tree)
           kids == tree[p + 1].kids
           f == kids[k + 1]
           rank == Rank(kids, k)
<1>1. /\ <<p, k>> \in NodePaths(tree) /\ TrueAddress(tree, <<p, k>>) = {a}
      /\ a.family \in RootRuns \cup NestedRuns \cup {"MIX"} =>
           a.index[1] \in Nat /\ a.index[1] < U8Max
  BY AddressedPaths
<1>2. a \in TrueBelow(names, p, kids, k)
  BY <1>1, TrueKid
<1>3. /\ f \in NestedRuns \cup RootRuns
      /\ f \in NestedRuns => names[p + 1] = Container[f]
      /\ Rank(names, p) = 0
      /\ InFirstRun(kids, k) /\ a = Address(f, <<rank>>)
  <2> HIDE DEF names, kids
  <2>1. QED BY <1>2, TablesAgree DEF TrueBelow
<1>4. a.family = f /\ a.index[1] = rank
  BY <1>3 DEF Address
<1>5. f \in {"FADER", "PAD"} /\ f \in NestedRuns
  <2>1. f \notin RootRuns
    <3>1. SUFFICES ASSUME f \in RootRuns PROVE FALSE
      OBVIOUS
    <3>2. PathOf(layout, a) = RunPath(layout.run[f], rank)
      BY <1>4, <3>1, FamiliesApart DEF PathOf
    <3>3. <<p, k>> \in RunPath(layout.run[f], rank)
      BY <3>2
    <3>4. PICK first : <<p, k>> = <<first + rank>>
      BY <3>3 DEF RunPath
    <3>5. Len(<<p, k>>) = 2 /\ Len(<<first + rank>>) = 1
      OBVIOUS
    <3>6. QED BY <3>4, <3>5
  <2>2. f \in NestedRuns
    BY <1>3, <2>1
  <2>3. QED BY <1>4, <2>2 DEF CountedRuns, FirstRuns, FirstNodes, NestedRuns
<1>6. p \in FirstNamed(names, Container[f])
  <2>1. names \in Seq(STRING) /\ p \in 0 .. Len(names) - 1
    BY NamesOfTree
  <2>2. QED BY <1>3, <1>5, <2>1, RankOfFirst
<1>7. Container[f] \in DOMAIN Walked /\ Walked[Container[f]] = f
  <2> HIDE DEF f
  <2>1. QED BY <1>5 DEF Container, Walked
<1>8. rank \in Nat /\ rank < U8Max
  BY <1>1, <1>3, <1>4
<1>9. InitialAt(layout, <<p, k>>, prop) = InitialAddress(layout, kids, k)
  BY <1>4, <1>6, <1>7, InitialBelow
<1>10. InitialAddress(layout, kids, k) = Named(layout, Address(f, <<rank>>))
  <2> HIDE DEF kids
  <2>1. QED BY <1>3, <1>5, <1>8, InitialAddressNames
<1>11. QED BY <1>3, <1>9, <1>10

(* The events of a full sync and the incremental ones name the same nodes. *)
THEOREM InitialStateAgrees == Spec => []InitialStateAgreesWithEvents
<1>1. Inv => InitialStateAgreesWithEvents
  <2>1. SUFFICES ASSUME Inv, NEW layout \in FromFullSync(tree),
                        NEW path \in NodePaths(tree),
                        NEW a \in TrueAddress(tree, path),
                        a.family \in CountedRuns \cup FirstRuns \cup FirstNodes,
                        a \in AllAddresses, path \in PathOf(layout, a),
                        NEW name \in Reported(a.family),
                        ~EchoedElsewhere(layout, path, name)
                 PROVE  InitialAt(layout, path, name)
                          = DecodeProperty(layout, path, name, "expected")
    BY DEF InitialStateAgreesWithEvents, InitialAt
  <2>2. tree \in Seq(Node) /\ a \in Addresses
    BY <2>1, SmallTrees, KnownAddresses DEF Inv
  <2>3. a.family \in Resolved
    BY <2>1, ResolvedFamilies DEF CountedRuns, FirstRuns, FirstNodes
  <2>4. name \in Carried(a.family)
    <3>1. a.family = "MIX" => Carried(a.family) = MixProps
      BY HardwareTable DEF Carried, Hardware
    <3>2. QED BY <2>1, <3>1 DEF Reported
  <2>5. DecodeProperty(layout, path, name, "expected") = Named(layout, a)
    BY <2>1, <2>2, <2>3, <2>4, AddressedIsReported
  <2>6. InitialAt(layout, path, name) = Named(layout, a)
    <3>1. CASE \E p \in 0 .. Len(tree) - 1 : path = <<p>>
      <4>1. PICK p \in 0 .. Len(tree) - 1 : path = <<p>>
        BY <3>1
      <4>2. QED BY <2>1, <2>2, <4>1, WalkAgreesAtTop
    <3>2. CASE \E p \in 0 .. Len(tree) - 1 :
                 \E k \in 0 .. Len(tree[p + 1].kids) - 1 : path = <<p, k>>
      <4>1. PICK p \in 0 .. Len(tree) - 1 :
                   \E k \in 0 .. Len(tree[p + 1].kids) - 1 : path = <<p, k>>
        BY <3>2
      <4>2. PICK k \in 0 .. Len(tree[p + 1].kids) - 1 : path = <<p, k>>
        BY <4>1
      <4>3. QED BY <2>1, <2>2, <4>1, <4>2, WalkAgreesBelow
    <3>3. QED BY <2>2, <3>1, <3>2, PathsOfTree
  <2>7. QED BY <2>5, <2>6
<1>2. QED BY <1>1, Invariant, PTL

-----------------------------------------------------------------------------
(* Commands.                                                               *)

(* What a command or a line can be for.                                    *)
IsTarget(family, index) ==
  \/ family \in {"CHANNEL", "FADER"} /\ \E f \in Faders : index = <<f>>
  \/ family = "MIX" /\ \E s \in Sources, m \in Mixes : index = <<s, m>>
  \/ family = "INPUTSOURCE" /\ \E s \in Sources : index = <<s>>
  \/ family \in IndexedFamilies /\ \E n \in Ordinals : index = <<n>>
  \/ family \in Singletons /\ index = <<>>

(* It is never a CallMe, and what it is for is an address, if the model    *)
(* has the fader.                                                          *)
LEMMA TargetsAreAddresses ==
  ASSUME NEW layout, layout.model \in {"Pro2", "Duo"},
         NEW family, NEW index, IsTarget(family, index)
  PROVE  /\ family # "CALLME"
         /\ \A a \in Target(layout, family, index) :
              /\ a \in Addresses /\ a.family = family
              /\ Target(layout, family, index) = {a}
<1>1. family # "CALLME"
  BY DEF IsTarget, IndexedFamilies, RootRuns, NestedRuns, Singletons
<1>2. ASSUME family \in {"CHANNEL", "FADER"},
             NEW f \in Faders, index = <<f>>,
             NEW a \in Target(layout, family, index)
      PROVE  a \in Addresses /\ a.family = family /\ Target(layout, family, index) = {a}
  <2>1. Target(layout, family, index) =
          {Address(family, <<n>>) : n \in FaderToIndex(layout.model, f)}
    BY <1>2 DEF Target
  <2>2. PICK n \in FaderToIndex(layout.model, f) : a = Address(family, <<n>>)
    BY <1>2, <2>1
  <2>3. n \in Nat /\ FaderToIndex(layout.model, f) = {n}
    BY <2>2, FadersByNumber
  <2>4. family \in RootRuns \cup NestedRuns
    BY <1>2 DEF RootRuns, NestedRuns
  <2>5. a \in Addresses /\ a.family = family
    <3>1. a.family = family
      BY <2>2 DEF Address
    <3>2. QED BY <2>2, <2>3, <2>4, <3>1, AddressPaths
  <2>6. Target(layout, family, index) = {a}
    BY <2>1, <2>2, <2>3
  <2>7. QED BY <2>5, <2>6
<1>3. ASSUME family \notin {"CHANNEL", "FADER"}
      PROVE  /\ Target(layout, family, index) = {Address(family, index)}
             /\ Address(family, index).family = family
             /\ Address(family, index) \in Addresses
  <2>1. Target(layout, family, index) = {Address(family, index)}
    BY <1>3 DEF Target
  <2>2. Address(family, index).family = family
    BY DEF Address
  <2>3. Sources \subseteq Nat /\ Mixes \subseteq Nat /\ Ordinals \subseteq Nat
    BY LayoutAssumption, NamedSourcesAssumption DEF Sources, Mixes, Ordinals
  <2>4. IndexedFamilies \subseteq RootRuns \cup NestedRuns /\ "INPUTSOURCE" \in RootRuns
    BY DEF IndexedFamilies, RootRuns
  <2>5. CASE family = "MIX" /\ \E s \in Sources, m \in Mixes : index = <<s, m>>
    <3>1. PICK s \in Nat, m \in Nat : index = <<s, m>>
      BY <2>3, <2>5
    <3>2. QED BY <2>1, <2>2, <2>5, <3>1, AddressPaths
  <2>6. CASE family \in RootRuns \cup NestedRuns /\ \E n \in Nat : index = <<n>>
    BY <2>1, <2>2, <2>6, AddressPaths
  <2>7. CASE family \in Singletons /\ index = <<>>
    BY <2>1, <2>2, <2>7, AddressPaths
  <2>8. QED BY <1>3, <2>3, <2>4, <2>5, <2>6, <2>7 DEF IsTarget
<1>4. CASE family \in {"CHANNEL", "FADER"}
  <2>1. PICK f \in Faders : index = <<f>>
    BY <1>4, FamiliesApart DEF IsTarget, IndexedFamilies, Singletons
  <2>2. QED BY <1>1, <1>2, <1>4, <2>1
<1>5. CASE family \notin {"CHANNEL", "FADER"}
  BY <1>1, <1>3, <1>5
<1>6. QED BY <1>4, <1>5

(* And the address goes by the name of the target, and no other does.      *)
LEMMA TargetsAreNamed ==
  ASSUME NEW layout, layout.model \in {"Pro2", "Duo"},
         NEW family, NEW index, IsTarget(family, index), NEW a \in Addresses
  PROVE  a \in Target(layout, family, index) <=>
           Address(family, index) \in Named(layout, a)
<1> DEFINE named == Address(family, index)
<1>1. named.family = family /\ named.index = index
  BY DEF Address
<1>2. ASSUME family \in {"CHANNEL", "FADER"}
      PROVE  a \in Target(layout, family, index) <=> named \in Named(layout, a)
  <2>1. PICK f \in Faders : index = <<f>>
    BY <1>2, FamiliesApart DEF IsTarget, IndexedFamilies, Singletons
  <2>2. Target(layout, family, index) =
          {Address(family, <<n>>) : n \in FaderToIndex(layout.model, f)}
    BY <1>2, <2>1 DEF Target
  <2>3. ASSUME NEW n, a = Address(family, <<n>>)
        PROVE  Named(layout, a) =
                 {Address(family, <<g>>) : g \in FaderFromIndex(layout.model, n)}
    BY <1>2, <2>3 DEF Named, FaderNamed, Address
  <2>4. ASSUME a \in Target(layout, family, index) PROVE named \in Named(layout, a)
    <3>1. PICK n \in FaderToIndex(layout.model, f) : a = Address(family, <<n>>)
      BY <2>2, <2>4
    <3>2. f \in FaderFromIndex(layout.model, n)
      BY <3>1, FadersByNumber
    <3>3. QED BY <2>1, <2>3, <3>1, <3>2
  <2>5. ASSUME named \in Named(layout, a) PROVE a \in Target(layout, family, index)
    <3>1. a.family = family
      BY <1>1, <2>5, NamedIsOne
    <3>2. PICK n \in Nat : a = Address(family, <<n>>)
      <4>1. family \notin Singletons \cup {"MIX"}
        BY <1>2 DEF Singletons
      <4>2. \A g, i : Address(g, i).family = g
        BY DEF Address
      <4>3. PICK g \in RootRuns \cup NestedRuns, n \in Nat : a = Address(g, <<n>>)
        <5>1. ~ \E s, m \in Nat : a = Address("MIX", <<s, m>>)
          BY <3>1, <4>1, <4>2
        <5>2. ~ \E g \in Singletons : a = Address(g, <<>>)
          BY <3>1, <4>1, <4>2
        <5>3. \/ \E g \in RootRuns, n \in Nat : a = Address(g, <<n>>)
              \/ \E g \in NestedRuns, n \in Nat : a = Address(g, <<n>>)
          BY <5>1, <5>2, AddressForms, Zenon
        <5>4. QED BY <5>3, Zenon
      <4>4. g = family
        BY <3>1, <4>2, <4>3
      <4>5. QED BY <4>3, <4>4
    <3>3. PICK g \in FaderFromIndex(layout.model, n) : named = Address(family, <<g>>)
      BY <2>3, <2>5, <3>2
    <3>4. g = f
      BY <1>1, <2>1, <3>3 DEF Address
    <3>5. n \in FaderToIndex(layout.model, f)
      BY <3>3, <3>4, FadersByNumber
    <3>6. QED BY <2>2, <3>2, <3>5
  <2>6. QED BY <2>4, <2>5
<1>3. ASSUME family \notin {"CHANNEL", "FADER"}
      PROVE  a \in Target(layout, family, index) <=> named \in Named(layout, a)
  <2>1. Target(layout, family, index) = {named}
    BY <1>3 DEF Target
  <2>2. named \in Named(layout, a) => named = a
    BY <1>1, <1>3, NamedIsOne
  <2>3. a = named => named \in Named(layout, a)
    <3>1. CASE family \in {"MIX", "INPUTSOURCE"}
      <4>1. index[1] < NamedSources
        <5>1. family \notin IndexedFamilies \cup Singletons \cup {"CHANNEL", "FADER"}
          BY <3>1 DEF IndexedFamilies, Singletons, RootRuns, NestedRuns
        <5>2. \E s \in Sources : index[1] = s
          BY <5>1 DEF IsTarget
        <5>3. QED BY <5>2, NamedSourcesAssumption DEF Sources
      <4>2. a = named => a.family = family /\ a.index[1] = index[1]
        BY <1>1
      <4>3. QED BY <3>1, <4>1, <4>2 DEF Named
    <3>2. CASE family \notin {"MIX", "INPUTSOURCE"}
      BY <1>1, <1>3, <3>2 DEF Named
    <3>3. QED BY <3>1, <3>2
  <2>4. QED BY <2>1, <2>2, <2>3
<1>4. QED BY <1>2, <1>3

(* What the nodes of each family carry.                                    *)
LEMMA WhatNodesCarry ==
  /\ Carried("CHANNEL") = StripProps \cup ChannelParam
  /\ Carried("FADER") = {"faderLevel"}
  /\ Carried("MIX") = MixProps
  /\ \A family \in (IndexedFamilies \cup Singletons \cup {"INPUTSOURCE"}) :
       Carried(family) = Params(family)
<1>1. Carried("CHANNEL") = StripProps \cup ChannelParam
  BY HardwareTable DEF Carried, Hardware
<1>2. Carried("FADER") = {"faderLevel"}
  BY HardwareTable DEF Carried, Hardware
<1>3. Carried("MIX") = MixProps
  BY HardwareTable DEF Carried, Hardware
<1>4. ASSUME NEW family \in (IndexedFamilies \cup Singletons \cup {"INPUTSOURCE"})
      PROVE  Carried(family) = Params(family)
  <2>1. /\ family # "CHANNEL" /\ family # "FADER" /\ family # "MIX"
        /\ family # "EMERGENCYMUTE" /\ family \notin DOMAIN HardwareParams
    BY HardwareTable DEF Hardware, IndexedFamilies, RootRuns, NestedRuns, Singletons
  <2>2. QED BY <2>1 DEF Carried
<1>5. QED BY <1>1, <1>2, <1>3, <1>4

(* A command is for a target and writes properties that its node carries.  *)
LEMMA CommandForms ==
  ASSUME NEW cmd \in Commands
  PROVE  /\ IsTarget(cmd.family, cmd.index)
         /\ \A i \in DOMAIN cmd.names : cmd.names[i] \in Carried(cmd.family)
<1> DEFINE W(family, index, names) == Writes(family, index, names)
           these(c) == MixCommands[c]
           kinds == DOMAIN MixCommands
           strip(f, p) == Writes("CHANNEL", <<f>>, <<p>>)
           level(f) == Writes("FADER", <<f>>, <<"faderLevel">>)
           cell(s, m, c) == Writes("MIX", <<s, m>>, these(c))
           input(s, p) == Writes("INPUTSOURCE", <<s>>, <<p>>)
           run(x, n, p) == Writes(x, <<n>>, <<p>>)
           single(x, p) == Writes(x, <<>>, <<p>>)
           strips == {strip(f, p) : f \in Faders, p \in StripProps \cup ChannelParam}
           levels == {level(f) : f \in Faders}
           cells == {cell(s, m, c) : s \in Sources, m \in Mixes, c \in kinds}
           inputs == {input(s, p) : s \in Sources, p \in InputSourceParam}
           runs(x) == {run(x, n, p) : n \in Ordinals, p \in Params(x)}
           singles(x) == {single(x, p) : p \in Params(x)}
           allruns == UNION {runs(x) : x \in IndexedFamilies}
           allsingles == UNION {singles(x) : x \in Singletons}
           Good == /\ IsTarget(cmd.family, cmd.index)
                   /\ \A i \in DOMAIN cmd.names : cmd.names[i] \in Carried(cmd.family)
<1>1. Commands = strips \cup levels \cup cells \cup inputs \cup allruns
                   \cup allsingles
  BY DEF Commands
<1>2. \A family, index, names :
        /\ W(family, index, names).family = family
        /\ W(family, index, names).index = index
        /\ W(family, index, names).names = names
  BY DEF Writes
<1>a. \A x \in kinds : \A i \in DOMAIN these(x) : these(x)[i] \in MixProps
  BY DEF MixCommands, MixProps
<1>b. /\ \A f, p : strip(f, p) = W("CHANNEL", <<f>>, <<p>>)
      /\ \A f : level(f) = W("FADER", <<f>>, <<"faderLevel">>)
      /\ \A s, m, x : cell(s, m, x) = W("MIX", <<s, m>>, these(x))
      /\ \A s, p : input(s, p) = W("INPUTSOURCE", <<s>>, <<p>>)
      /\ \A x, n, p : run(x, n, p) = W(x, <<n>>, <<p>>)
      /\ \A x, p : single(x, p) = W(x, <<>>, <<p>>)
  OBVIOUS
<1> HIDE DEF W, these, kinds, strip, level, cell, input, run, single
<1>3. ASSUME NEW family, NEW index, NEW p, cmd = W(family, index, <<p>>),
             IsTarget(family, index), p \in Carried(family)
      PROVE  Good
  <2>1. cmd.family = family /\ cmd.index = index /\ cmd.names = <<p>>
    BY <1>2, <1>3
  <2>2. QED BY <1>3, <1>b, <2>1
<1>4. ASSUME cmd \in strips PROVE Good
  <2>1. PICK f \in Faders, p \in StripProps \cup ChannelParam :
               cmd = strip(f, p)
    BY <1>4
  <2>2. IsTarget("CHANNEL", <<f>>)
    BY DEF IsTarget
  <2>3. p \in Carried("CHANNEL")
    BY <2>1, WhatNodesCarry
  <2>4. QED BY <1>3, <1>b, <2>1, <2>2, <2>3
<1>5. ASSUME cmd \in levels PROVE Good
  <2>1. PICK f \in Faders : cmd = level(f)
    BY <1>5
  <2>2. IsTarget("FADER", <<f>>)
    BY DEF IsTarget
  <2>3. QED BY <1>3, <1>b, <2>1, <2>2, WhatNodesCarry
<1>6. ASSUME cmd \in cells PROVE Good
  <2>1. PICK s \in Sources, m \in Mixes, x \in kinds : cmd = cell(s, m, x)
    BY <1>6
  <2>2. IsTarget("MIX", <<s, m>>)
    BY DEF IsTarget
  <2>3. cmd.family = "MIX" /\ cmd.index = <<s, m>> /\ cmd.names = these(x)
    BY <2>1 DEF cell, Writes
  <2>4. QED BY <1>a, <2>1, <2>2, <2>3, WhatNodesCarry
<1>7. ASSUME cmd \in inputs PROVE Good
  <2>1. PICK s \in Sources, p \in InputSourceParam : cmd = input(s, p)
    BY <1>7
  <2>2. IsTarget("INPUTSOURCE", <<s>>)
    BY DEF IsTarget
  <2>3. Params("INPUTSOURCE") = InputSourceParam
    BY DEF Params, Tables
  <2>4. QED BY <1>3, <1>b, <2>1, <2>2, <2>3, WhatNodesCarry
<1>8. ASSUME NEW x \in IndexedFamilies, cmd \in runs(x) PROVE Good
  <2>1. PICK n \in Ordinals, p \in Params(x) : cmd = run(x, n, p)
    BY <1>8
  <2>2. IsTarget(x, <<n>>)
    BY DEF IsTarget
  <2>3. QED BY <1>3, <1>b, <2>1, <2>2, WhatNodesCarry
<1>9. ASSUME NEW x \in Singletons, cmd \in singles(x) PROVE Good
  <2>1. PICK p \in Params(x) : cmd = single(x, p)
    BY <1>9
  <2>2. IsTarget(x, <<>>)
    BY DEF IsTarget
  <2>3. QED BY <1>3, <1>b, <2>1, <2>2, WhatNodesCarry
<1>10. cmd \in allruns => \E x \in IndexedFamilies : cmd \in runs(x)
  <2> HIDE DEF runs
  <2> QED OBVIOUS
<1>11. cmd \in allsingles => \E x \in Singletons : cmd \in singles(x)
  <2> HIDE DEF singles
  <2> QED OBVIOUS
<1> HIDE DEF strips, levels, cells, inputs, runs, singles, allruns, allsingles, Good
<1>12. Good
  BY <1>1, <1>4, <1>5, <1>6, <1>7, <1>8, <1>9, <1>10, <1>11
<1>13. QED BY <1>12 DEF Good

(* The frames of a command go to a path of its target.                     *)
LEMMA FramesAre ==
  ASSUME NEW layout, layout.model \in {"Pro2", "Duo"},
         NEW c, IsTarget(c.family, c.index)
  PROVE  /\ Encode(layout, c) = {} <=>
              \A a \in Target(layout, c.family, c.index) : PathOf(layout, a) = {}
         /\ \A frames \in Encode(layout, c) :
              \E a \in Target(layout, c.family, c.index) :
                \E path \in PathOf(layout, a) :
                  frames = [i \in DOMAIN c.names |-> Frame(path, c.names[i])]
<1> DEFINE to(path) == [i \in DOMAIN c.names |-> Frame(path, c.names[i])]
           targets == Target(layout, c.family, c.index)
           paths == UNION {PathOf(layout, a) : a \in targets}
<1>1. TargetPath(layout, c.family, c.index) = paths
  BY TargetsAreAddresses DEF TargetPath
<1>2. Encode(layout, c) = {to(path) : path \in TargetPath(layout, c.family, c.index)}
  BY Zenon DEF Encode
<1> HIDE DEF to, targets
<1>3. Encode(layout, c) = {} <=> \A a \in targets : PathOf(layout, a) = {}
  <2>1. Encode(layout, c) = {} <=> paths = {}
    <3> HIDE DEF paths
    <3> QED BY <1>1, <1>2
  <2>2. QED BY <2>1
<1>4. \A frames \in Encode(layout, c) :
        \E a \in targets : \E path \in PathOf(layout, a) : frames = to(path)
  <2>1. \A frames \in Encode(layout, c) : \E path \in paths : frames = to(path)
    <3> HIDE DEF paths
    <3> QED BY <1>1, <1>2
  <2>2. QED BY <2>1
<1>5. QED BY <1>3, <1>4 DEF to, targets

(* A command is refused exactly when no node within reach has that name    *)
(* (commands.rs 75-91): none below a container  that is not searched, nor  *)
(* past the end of a full counter.                                         *)
THEOREM RefusedOnlyOutOfReach == Spec => []RefusedMeansOutOfReach
<1> DEFINE reached == {path \in NodePaths(tree) :
                         \A a \in TrueAddress(tree, path) :
                           /\ ~OutOfReach(path, a)
                           /\ Len(a.index) = 1 => a.index[1] < U8Max}
<1>1. ASSUME Inv, NEW layout \in FromFullSync(tree), NEW c \in Commands
      PROVE  Encode(layout, c) = {} <=>
               \A path \in reached :
                 Address(c.family, c.index) \notin NamedTruth(layout, path)
  <2> DEFINE named == Address(c.family, c.index)
             target == Target(layout, c.family, c.index)
  <2>1. tree \in Seq(Node) /\ layout.model \in {"Pro2", "Duo"}
    BY <1>1, SmallTrees, ModelOfLayout DEF Inv
  <2>2. IsTarget(c.family, c.index)
    BY CommandForms
  <2>3. Encode(layout, c) = {} <=> \A a \in target : PathOf(layout, a) = {}
    BY <2>1, <2>2, FramesAre
  <2>4. \A a \in target : a \in Addresses
    BY <2>1, <2>2, TargetsAreAddresses
  <2>5. \A a \in Addresses : a \in target <=> named \in Named(layout, a)
    BY <2>1, <2>2, TargetsAreNamed
  <2> HIDE DEF named, target
  <2>6. ASSUME NEW a \in target, NEW path \in PathOf(layout, a)
        PROVE  path \in reached /\ named \in NamedTruth(layout, path)
    <3>1. /\ path \in NodePaths(tree) /\ TrueAddress(tree, path) = {a}
          /\ a.family \in RootRuns \cup NestedRuns \cup {"MIX"} =>
               a.index[1] < U8Max
      BY <2>1, <2>4, <2>6, AddressedPaths
    <3>2. Len(a.index) = 1 => a.family \in RootRuns \cup NestedRuns \cup {"MIX"}
      <4>1. a.family \in RootRuns \cup NestedRuns \cup {"MIX"}
            \/ a.index = <<>>
        BY <2>4, AddressForms DEF Address
      <4>2. QED BY <4>1
    <3>3. named \in Named(layout, a)
      BY <2>4, <2>5
    <3>4. ~OutOfReach(path, a)
      <4>1. SUFFICES ASSUME a.family \in RootRuns PROVE Len(path) = 1
        BY DEF OutOfReach
      <4>2. PathOf(layout, a) = RunPath(layout.run[a.family], a.index[1])
        BY <4>1, FamiliesApart DEF PathOf
      <4>3. QED BY <2>6, <4>2 DEF RunPath
    <3>5. QED BY <3>1, <3>2, <3>3, <3>4 DEF NamedTruth
  <2>7. ASSUME NEW path \in reached, named \in NamedTruth(layout, path)
        PROVE  \E a \in target : PathOf(layout, a) # {}
    <3>1. PICK a \in TrueAddress(tree, path) : named \in Named(layout, a)
      BY <2>7 DEF NamedTruth
    <3>2. a \in Resolve(layout, path)
      <4>1. ~ (Len(a.index) = 1 /\ a.index[1] \in Nat /\ a.index[1] >= U8Max)
        BY LayoutAssumption
      <4>2. path \in NodePaths(tree) /\ ~OutOfReach(path, a)
        OBVIOUS
      <4>3. QED BY <2>1, <4>1, <4>2, TrueAddressIsResolved
    <3>3. path \in Seq(Nat)
      BY <2>1, NodePathsAreSequences
    <3>4. a \in Addresses /\ path \in PathOf(layout, a)
      BY <2>1, <3>2, <3>3, ResolvedHasPath
    <3>5. QED BY <2>5, <3>1, <3>4
  <2>8. QED BY <2>3, <2>6, <2>7 DEF named
<1>2. Inv => RefusedMeansOutOfReach
  BY <1>1 DEF RefusedMeansOutOfReach
<1>3. QED BY <1>2, Invariant, PTL

-----------------------------------------------------------------------------
(* The round trip.                                                         *)

(* A rule that goes by the name of a property knows its own.               *)
LEMMA NameKeyedEventsFind ==
  ASSUME NEW layout, NEW path, NEW family, NEW name \in Params(family),
         \/ /\ Len(path) = 1
            /\ family \in {"NETWORK", "RECORDINGS", "AUDIO", "BUILD", "APP",
                           "THEME", "CURRENTSHOW", "SHOWCONTROL"}
         \/ Len(path) = 2 /\ family \in {"RECORDING", "SHOW"}
  PROVE  NameKeyedEvents(layout, path, name, "expected") # {}
<1> DEFINE known(f) == name \in Params(f) /\ "expected" # "none"
           one(f)   == IF Len(path) = 1 /\ known(f) THEN {Address(f, <<>>)} ELSE {}
           child(f) == IF Len(path) = 2 /\ known(f)
                       THEN {Address(f, Raw(path))} ELSE {}
           network == IF known("NETWORK") THEN {Address("NETWORK", <<>>)} ELSE {}
           meter == IF Len(path) = 2 /\ path[1] \in layout.nested["FADER"].parent
                    THEN {} ELSE child("METER")
           rules == <<network,
                      one("RECORDINGS"), child("RECORDING"), child("STORAGEVOLUME"),
                      one("AUDIO"), one("BUILD"), one("APP"), one("THEME"),
                      one("CURRENTSHOW"), one("SHOWCONTROL"), child("SHOW"),
                      meter>>
<1>1. NameKeyedEvents(layout, path, name, "expected") = FirstOf(rules)
  BY DEF NameKeyedEvents
<1>2. \/ family = "NETWORK" /\ network # {}
      \/ /\ family \in {"RECORDINGS", "AUDIO", "BUILD", "APP", "THEME",
                        "CURRENTSHOW", "SHOWCONTROL"}
         /\ one(family) # {}
      \/ family \in {"RECORDING", "SHOW"} /\ child(family) # {}
  OBVIOUS
<1> HIDE DEF known, one, child, network, meter
<1>3. DOMAIN rules = 1 .. 12 /\ \E i \in 1 .. 12 : rules[i] # {}
  BY <1>2
<1> HIDE DEF rules
<1>4. QED BY <1>1, <1>3, FirstOfFinds

SmallOnes == {"STREAMERXMIXPRESET", "STREAMERXSTREAMMIX", "FXPRESET",
              "PADRECORDER", "TEST", "WIFISCANRESULT", "RADIO", "RADIOTX",
              "RADIORX"}

(* So does one of the small families.                                      *)
LEMMA SmallFamilyEventsFind ==
  ASSUME NEW path, NEW family \in SmallOnes, NEW name \in Params(family)
  PROVE  SmallFamilyEvents(path, name, "expected") # {}
<1> DEFINE says(f) == IF name \in Params(f) /\ "expected" # "none"
                      THEN {Address(f, IF f \in {"TEST", "RADIO"} THEN <<>>
                                                                  ELSE Raw(path))}
                      ELSE {}
           rules == [i \in DOMAIN SmallFamilies |-> says(SmallFamilies[i])]
<1>1. SmallFamilyEvents(path, name, "expected") = FirstOf(rules)
  BY DEF SmallFamilyEvents
<1>2. PICK i \in 1 .. 9 : SmallFamilies[i] = family
  BY DEF SmallFamilies, SmallOnes
<1>3. DOMAIN SmallFamilies = 1 .. 9
  BY DEF SmallFamilies
<1>4. says(family) # {}
  OBVIOUS
<1> HIDE DEF says
<1>5. DOMAIN rules = 1 .. 9 /\ rules[i] # {}
  BY <1>2, <1>3, <1>4
<1> HIDE DEF rules
<1>6. QED BY <1>1, <1>5, FirstOfFinds

(* A number below another is what is left of it and any multiple of that.  *)
LEMMA Remainders ==
  ASSUME NEW m \in Nat \ {0}
  PROVE  /\ \A q \in Nat, r \in 0 .. m - 1 : (q * m + r) % m = r
         /\ \A k \in Nat : k \div m \in Nat /\ k = (k \div m) * m + (k % m)
BY SMTT(60)

(* The ordinal read off a path is right if the run starts at a multiple of *)
(* 256, and only then.                                                     *)
LEMMA OrdinalOffPath ==
  ASSUME NEW first \in Nat, NEW n \in Nat, n < U8Max
  PROVE  (first + n) % (U8Max + 1) = n <=> first % (U8Max + 1) = 0
<1> DEFINE m == U8Max + 1
<1>1. m \in Nat \ {0} /\ n \in 0 .. m - 1 /\ 0 \in 0 .. m - 1
  BY LayoutAssumption
<1> HIDE DEF m
<1>2. ASSUME first % m = 0 PROVE (first + n) % m = n
  <2>1. PICK q \in Nat : first = q * m + 0
    BY <1>1, <1>2, Remainders
  <2>2. q * m \in Nat
    BY <1>1
  <2>3. first + n = q * m + n
    BY <1>1, <2>1, <2>2
  <2>4. QED BY <1>1, <2>3, Remainders
<1>3. ASSUME (first + n) % m = n PROVE first % m = 0
  <2> DEFINE k == first + n
  <2>0. k \in Nat /\ k % m = n
    BY <1>3
  <2> HIDE DEF k
  <2>1. PICK q \in Nat : k = q * m + n
    BY <1>1, <2>0, Remainders
  <2>2. q * m \in Nat
    BY <1>1
  <2>3. first = q * m + 0
    BY <1>1, <2>1, <2>2 DEF k
  <2>4. QED BY <1>1, <2>3, Remainders
<1>4. QED BY <1>2, <1>3 DEF m

(* The family of an address says what the address looks like.              *)
LEMMA FormOfFamily ==
  ASSUME NEW a \in Addresses
  PROVE  /\ a.family \in RootRuns \cup NestedRuns \cup {"MIX"} \cup Singletons
         /\ a.family \in RootRuns \cup NestedRuns =>
              \E n \in Nat : a = Address(a.family, <<n>>)
         /\ a.family \in Singletons => a = Address(a.family, <<>>)
<1>1. \A f, i : Address(f, i).family = f
  BY DEF Address
<1>2. CASE \E f \in RootRuns, n \in Nat : a = Address(f, <<n>>)
  <2>1. PICK f \in RootRuns, n \in Nat : a = Address(f, <<n>>)
    BY <1>2
  <2>2. a.family = f
    BY <1>1, <2>1
  <2>3. QED BY <2>1, <2>2, FamiliesApart
<1>3. CASE \E f \in NestedRuns, n \in Nat : a = Address(f, <<n>>)
  <2>1. PICK f \in NestedRuns, n \in Nat : a = Address(f, <<n>>)
    BY <1>3
  <2>2. a.family = f
    BY <1>1, <2>1
  <2>3. QED BY <2>1, <2>2, FamiliesApart
<1>4. CASE \E s, m \in Nat : a = Address("MIX", <<s, m>>)
  <2>1. a.family = "MIX"
    BY <1>1, <1>4
  <2>2. QED BY <2>1, FamiliesApart
<1>5. CASE \E f \in Singletons : a = Address(f, <<>>)
  <2>1. PICK f \in Singletons : a = Address(f, <<>>)
    BY <1>5
  <2>2. a.family = f
    BY <1>1, <2>1
  <2>3. QED BY <2>1, <2>2, FamiliesApart
<1>6. QED BY <1>2, <1>3, <1>4, <1>5, AddressForms, Zenon

(* So much for a member of a run.                                          *)
LEMMA RunsOffPath ==
  ASSUME tree \in Seq(Node), NEW layout \in FromFullSync(tree),
         NEW a \in Addresses, NEW path \in PathOf(layout, a),
         a.family \in RootRuns \cup NestedRuns
  PROVE  /\ Len(path) = IF a.family \in RootRuns THEN 1 ELSE 2
         /\ a = Address(a.family, Raw(path)) <=> StartsItsParent(layout, a.family)
<1>1. PICK n \in Nat : a = Address(a.family, <<n>>)
  BY FormOfFamily
<1>2. a.index[1] = n /\ a.index = <<n>>
  BY <1>1 DEF Address
<1>3. n < U8Max
  BY <1>2, AddressedPaths
<1>4. layout = LayoutOf(tree) /\ Names(tree) \in Seq(STRING)
  BY NamesOfTree DEF FromFullSync
<1>5. ASSUME NEW first \in Nat, Raw(path) = <<(first + n) % (U8Max + 1)>>,
             StartsItsParent(layout, a.family) <=> first % (U8Max + 1) = 0
      PROVE  a = Address(a.family, Raw(path)) <=> StartsItsParent(layout, a.family)
  <2>1. a = Address(a.family, Raw(path)) <=> Raw(path) = <<n>>
    BY <1>1, <1>2 DEF Address
  <2>2. Raw(path) = <<n>> <=> (first + n) % (U8Max + 1) = n
    BY <1>5
  <2>3. QED BY <1>3, <1>5, <2>1, <2>2, OrdinalOffPath
<1>6. CASE a.family \in RootRuns
  <2>1. PathOf(layout, a) = RunPath(layout.run[a.family], n)
    BY <1>1, <1>6, AddressPaths
  <2>2. PICK first \in layout.run[a.family].first : path = <<first + n>>
    BY <2>1 DEF RunPath
  <2>3. /\ layout.run[a.family].first = FirstNamed(Names(tree), a.family)
        /\ first \in Nat /\ layout.run[a.family].first = {first}
    <3>1. layout.run[a.family].first = FirstNamed(Names(tree), a.family)
      BY <1>4, <1>6, Discovered DEF LayoutOf
    <3>2. QED BY <1>4, <2>2, <3>1, FirstIsUnique
  <2>4. Len(path) = 1 /\ Raw(path) = <<(first + n) % (U8Max + 1)>>
    BY <2>2 DEF Raw, Last
  <2>5. StartsItsParent(layout, a.family) <=> first % (U8Max + 1) = 0
    BY <1>6, <2>3, FamiliesApart DEF StartsItsParent
  <2>6. QED BY <1>5, <1>6, <2>3, <2>4, <2>5
<1>7. CASE a.family \in NestedRuns
  <2> DEFINE first == layout.nested[a.family].first
  <2>1. PathOf(layout, a) = NestedPath(layout.nested[a.family], n)
    BY <1>1, <1>7, AddressPaths
  <2>2. PICK p : path = <<p, first + n>>
    BY <2>1 DEF NestedPath
  <2>3. first \in Nat
    BY <1>4, <1>7, DiscoveredNested DEF LayoutOf
  <2> HIDE DEF first
  <2>4. Len(path) = 2 /\ Raw(path) = <<(first + n) % (U8Max + 1)>>
    BY <2>2 DEF Raw, Last
  <2>5. StartsItsParent(layout, a.family) <=> first % (U8Max + 1) = 0
    BY <1>7 DEF StartsItsParent, first
  <2>6. QED BY <1>5, <1>7, <2>3, <2>4, <2>5, FamiliesApart
<1>8. QED BY <1>6, <1>7

(* No rule speaks of a volume that is a child of the root.                 *)
LEMMA VolumesAreNotHeard ==
  ASSUME tree \in Seq(Node), NEW layout \in FromFullSync(tree),
         NEW path \in NodePaths(tree), NameAt(path) = "STORAGEVOLUME",
         Len(path) = 1, NEW name \in Carried("STORAGEVOLUME"),
         ~Ambiguous(layout, path, name)
  PROVE  DecodeProperty(layout, path, name, "expected") = {}
<1> DEFINE rules == Rules(layout, path, name, "expected")
           here == Here(layout, path)
<1>1. name = "storageVolumeFree"
  <2>1. Carried("STORAGEVOLUME") = Params("STORAGEVOLUME")
    BY WhatNodesCarry DEF IndexedFamilies, RootRuns
  <2>2. QED BY <2>1 DEF Params, Tables, StorageVolumeParam
<1>2. SUFFICES ASSUME NEW event \in DecodeProperty(layout, path, name, "expected")
               PROVE  FALSE
  OBVIOUS
<1>3. event \in Sayable(layout, path)
  BY <1>2, DecodedIsSayable
<1>4. event.family = "STORAGEVOLUME"
  BY <1>3, SayableIsOne
<1>5. PICK i \in DOMAIN rules : event \in rules[i]
  <2>1. event \in FirstOf(rules)
    BY <1>2 DEF DecodeProperty
  <2> HIDE DEF rules
  <2>2. QED BY <2>1, FirstOfIsOne
<1> HIDE DEF here
<1>6. event \notin UNION {StripEvents(here, name, "expected"),
                        MixEvents(here, name, "expected"),
                        SipEvents(here, name, "expected"),
                        RemoteMixEvents(here, name, "expected"),
                        ParamTarget(here, name)}
  <2>1. event \notin StripEvents(here, name, "expected")
        /\ event \notin MixEvents(here, name, "expected")
    BY <1>4 DEF StripEvents, MixEvents
  <2>2. event \notin SipEvents(here, name, "expected")
        /\ event \notin RemoteMixEvents(here, name, "expected")
    <3> DEFINE sip == <<"SIPCALLING", "SIPADVANCED", "SIPREGISTRATION",
                        "SIPCALLSLOTS">>
               remote == <<"MIXMINUSES", "RCSYNCMIX">>
    <3>1. /\ \A j \in DOMAIN sip : sip[j] # "STORAGEVOLUME"
          /\ \A j \in DOMAIN remote : remote[j] # "STORAGEVOLUME"
      OBVIOUS
    <3>2. QED BY <1>4, <3>1, AmongIsOne DEF SipEvents, RemoteMixEvents
  <2>3. event \notin ParamTarget(here, name)
    <3>1. \A j \in DOMAIN ParamFamilies : ParamFamilies[j] # "STORAGEVOLUME"
      BY DEF ParamFamilies
    <3>2. QED BY <1>4, <3>1, AmongIsOne DEF ParamTarget
  <2>4. QED BY <2>1, <2>2, <2>3
<1>7. /\ event \notin EncoderEvents(layout, path, name, "expected")
      /\ event \notin AssignmentEvents(layout, here, path, name)
      /\ event \notin EmergencyEvents(path, name, "expected")
  BY <1>1 DEF EncoderEvents, AssignmentEvents, EmergencyEvents
<1>8. event \notin HardwareEvents(layout, path, name, "expected")
  BY DEF HardwareEvents
<1>9. event \notin NameKeyedEvents(layout, path, name, "expected")
  <2>1. SUFFICES ASSUME event \in NameKeyedEvents(layout, path, name, "expected")
                 PROVE  FALSE
    OBVIOUS
  <2>2. PICK family \in NameKeyedFamilies :
          /\ name \in Params(family)
          /\ event = Address(family, IF family \in Plain THEN <<>> ELSE Raw(path))
          /\ family = "METER" =>
               Len(path) = 2 /\ path[1] \notin layout.nested["FADER"].parent
          /\ family = "STORAGEVOLUME" => Len(path) = 2
    BY <2>1, NameKeyedEventsAre
  <2>3. event.family = family
    BY <2>2 DEF Address
  <2>4. QED BY <1>4, <2>2, <2>3
<1>10. event \notin SmallFamilyEvents(path, name, "expected")
  <2>1. \A family, index : Address(family, index).family = family
    BY DEF Address
  <2>2. \A j \in DOMAIN SmallFamilies : SmallFamilies[j] # "STORAGEVOLUME"
    BY DEF SmallFamilies
  <2>3. QED BY <1>4, <2>1, <2>2, SmallFamilyEventsAre
<1>11. QED
  BY <1>5, <1>6, <1>7, <1>8, <1>9, <1>10, RulesAre DEF here

(* So what the decoder knows by the name of the property it reports as     *)
(* what the command was for if it is the only one of its family or one of  *)
(* a run that starts its parent, and not otherwise.                        *)
LEMMA KeyedIsReported ==
  ASSUME tree \in Seq(Node), NEW layout \in FromFullSync(tree),
         NEW a \in Addresses, NEW path \in PathOf(layout, a),
         a.family \notin Resolved,
         NEW name \in Carried(a.family), ~EchoedElsewhere(layout, path, name)
  PROVE  DecodeProperty(layout, path, name, "expected") = {a}
           <=> \/ a.family \in Singletons
               \/ a.family # "STORAGEVOLUME" /\ StartsItsParent(layout, a.family)
<1> DEFINE decoded == DecodeProperty(layout, path, name, "expected")
           rules == Rules(layout, path, name, "expected")
           said == Address(a.family, IF a.family \in Plain THEN <<>> ELSE Raw(path))
<1>1. path \in NodePaths(tree) /\ NameAt(path) = a.family
  BY AddressedIsSayable
<1>2. ~Ambiguous(layout, path, name)
  BY AddressedIsNoMeter
<1>3. decoded \subseteq {said}
  BY <1>1, <1>2, DecodedIsSayable DEF Sayable
<1>4. CASE a.family = "STORAGEVOLUME"
  <2>1. a.family \in RootRuns /\ a.family \notin Singletons
    BY <1>4 DEF RootRuns, Singletons
  <2>2. Len(path) = 1
    BY <2>1, RunsOffPath
  <2>3. decoded = {}
    BY <1>1, <1>2, <1>4, <2>2, VolumesAreNotHeard
  <2>4. QED BY <1>4, <2>1, <2>3
<1>5. ASSUME a.family # "STORAGEVOLUME" PROVE decoded = {said}
  <2>1. \/ Len(path) = 1 /\ a.family \in {"NETWORK", "RECORDINGS", "AUDIO", "BUILD",
                                         "APP", "THEME", "CURRENTSHOW",
                                         "SHOWCONTROL"}
        \/ Len(path) = 2 /\ a.family \in {"RECORDING", "SHOW"}
        \/ a.family \in SmallOnes
    <3>1. CASE a.family \in Singletons
      <4>1. PathOf(layout, a) = SingletonPath(layout.single[a.family])
        BY <3>1, FamiliesApart DEF PathOf
      <4>2. Len(path) = 1
        BY <4>1 DEF SingletonPath
      <4>3. QED BY <3>1, <4>2, ResolvedFamilies DEF Singletons, SmallOnes
    <3>2. CASE a.family \in RootRuns \cup NestedRuns
      <4>1. Len(path) = IF a.family \in RootRuns THEN 1 ELSE 2
        BY <3>2, RunsOffPath
      <4>2. QED
        BY <1>5, <3>2, <4>1, ResolvedFamilies DEF RootRuns, NestedRuns, SmallOnes
    <3>3. a.family # "MIX"
      BY ResolvedFamilies
    <3>4. a.family \in Singletons \cup RootRuns \cup NestedRuns
      BY <3>3, FormOfFamily
    <3>5. QED BY <3>1, <3>2, <3>4
  <2>2. name \in Params(a.family)
    <3>1. a.family \notin Hardware \cup {"CHANNEL", "FADER", "MIX", "EMERGENCYMUTE"}
      BY <2>1 DEF Hardware, SmallOnes
    <3>2. QED BY <3>1, CarriedCases
  <2>3. \E i \in 1 .. 11 : rules[i] # {}
    <3>1. CASE a.family \in SmallOnes
      BY <2>2, <3>1, SmallFamilyEventsFind, RulesAre
    <3>2. CASE a.family \notin SmallOnes
      BY <2>1, <2>2, <3>2, NameKeyedEventsFind, RulesAre
    <3>3. QED BY <3>1, <3>2
  <2>4. DOMAIN rules = 1 .. 11
    BY RulesAre
  <2> HIDE DEF rules
  <2>5. FirstOf(rules) # {}
    BY <2>3, <2>4, FirstOfFinds
  <2>6. decoded # {}
    BY <2>5 DEF rules, DecodeProperty
  <2>7. QED BY <1>3, <2>6
<1>6. CASE a.family \in Singletons
  <2>1. a = Address(a.family, <<>>)
    BY <1>6, FormOfFamily
  <2>2. a.family \in Plain /\ a.family # "STORAGEVOLUME"
    BY <1>6, ResolvedFamilies DEF Plain, Singletons
  <2>3. QED BY <1>5, <1>6, <2>1, <2>2
<1>7. CASE a.family \in RootRuns \cup NestedRuns /\ a.family # "STORAGEVOLUME"
  <2>1. a.family \notin Singletons /\ a.family \notin Plain
    BY <1>7 DEF Singletons, Plain, RootRuns, NestedRuns
  <2>2. a = Address(a.family, Raw(path)) <=> StartsItsParent(layout, a.family)
    BY <1>7, RunsOffPath
  <2>3. decoded = {a} <=> a = said
    BY <1>5, <1>7
  <2>4. QED BY <1>7, <2>1, <2>2, <2>3
<1>8. a.family \in Singletons \cup RootRuns \cup NestedRuns
  BY FormOfFamily, ResolvedFamilies
<1>9. QED BY <1>4, <1>6, <1>7, <1>8

(* The events of an echoed command name what the command named             *)
(* (tests/round_trip.rs 3-12) where the layout resolves its family or there*)
(* is one of it; elsewhere exactly if the run starts its parent, and for a *)
(* volume never.                                                           *)
THEOREM EchoNamesItsCommand == Spec => []EchoNamesTheCommand
<1>1. Inv => EchoNamesTheCommand
  <2>1. SUFFICES ASSUME Inv, NEW layout \in FromFullSync(tree), NEW c \in Commands,
                        NEW frames \in Encode(layout, c), NEW i \in DOMAIN frames,
                        ~EchoedElsewhere(layout, frames[i].path, frames[i].name)
                 PROVE  DecodeProperty(layout, frames[i].path, frames[i].name,
                                       "expected")
                          = {Address(c.family, c.index)}
                        <=> \/ c.family \in Resolved \cup Singletons
                            \/ /\ c.family # "STORAGEVOLUME"
                               /\ StartsItsParent(layout, c.family)
    BY DEF EchoNamesTheCommand
  <2>2. tree \in Seq(Node) /\ layout.model \in {"Pro2", "Duo"}
    BY <2>1, SmallTrees, ModelOfLayout DEF Inv
  <2>3. /\ IsTarget(c.family, c.index)
        /\ \A j \in DOMAIN c.names : c.names[j] \in Carried(c.family)
    BY CommandForms
  <2>4. PICK a \in Target(layout, c.family, c.index) :
               \E path \in PathOf(layout, a) :
                 frames = [j \in DOMAIN c.names |-> Frame(path, c.names[j])]
    BY <2>2, <2>3, FramesAre
  <2>5. PICK path \in PathOf(layout, a) :
               frames = [j \in DOMAIN c.names |-> Frame(path, c.names[j])]
    BY <2>4
  <2>6. /\ frames[i].path = path /\ frames[i].name = c.names[i]
        /\ c.names[i] \in Carried(c.family)
    BY <2>3, <2>5 DEF Frame
  <2>7. a \in Addresses /\ a.family = c.family
    BY <2>2, <2>3, TargetsAreAddresses
  <2>8. /\ Address(c.family, c.index) \in Named(layout, a)
        /\ Named(layout, a) = {Address(c.family, c.index)}
    BY <2>2, <2>3, <2>7, TargetsAreNamed, NamedIsOne
  <2>9. CASE c.family \in Resolved
    <3>1. DecodeProperty(layout, path, c.names[i], "expected") = Named(layout, a)
      BY <2>1, <2>2, <2>6, <2>7, <2>9, AddressedIsReported
    <3>2. QED BY <2>6, <2>8, <2>9, <3>1
  <2>10. CASE c.family \notin Resolved
    <3>1. DecodeProperty(layout, path, c.names[i], "expected") = {a}
          <=> \/ c.family \in Singletons
              \/ c.family # "STORAGEVOLUME" /\ StartsItsParent(layout, c.family)
      BY <2>1, <2>2, <2>6, <2>7, <2>10, KeyedIsReported
    <3>2. a = Address(c.family, c.index)
      <4>1. a.family \notin {"CHANNEL", "FADER"}
        BY <2>7, <2>10, ResolvedFamilies
      <4>2. \A event \in Named(layout, a) : event = a
        BY <2>2, <4>1, NamedIsOne
      <4>3. QED BY <2>8, <4>2
    <3>3. QED BY <2>6, <2>10, <3>1, <3>2
  <2>11. QED BY <2>9, <2>10
<1>2. QED BY <1>1, Invariant, PTL

-----------------------------------------------------------------------------
(* The lines of the prompt.                                                *)

(* A line is for a target, or it is a request of a CallMe.                 *)
LEMMA LineForms ==
  ASSUME NEW line \in Lines
  PROVE  \/ IsTarget(line.family, line.index)
         \/ \E s \in CallMeSources, m \in Mixes :
              line.family = "CALLME" /\ line.index = <<s, m>>
<1> DEFINE these(c) == MixCommands[c]
           kinds == DOMAIN MixCommands \ {"SetMixLevel"}
           requests == {"mixLinkRequest", "mixUnlinkRequest"}
           strip(f, p) == Writes("CHANNEL", <<f>>, <<p>>)
           level(f) == Writes("FADER", <<f>>, <<"faderLevel">>)
           cell(s, m, c) == Writes("MIX", <<s, m>>, these(c))
           request(s, m, r) == Writes("CALLME", <<s, m>>, <<r>>)
           setting(x, k, w) == Writes(x, k, <<w>>)
           set(x, keys) == {setting(x, k, w) : k \in keys, w \in Words}
           numbers == {<<n>> : n \in Ordinals}
           channels == {<<f>> : f \in Faders}
           inputs == {<<s>> : s \in Sources}
           Good == \/ IsTarget(line.family, line.index)
                   \/ \E s \in CallMeSources, m \in Mixes :
                        line.family = "CALLME" /\ line.index = <<s, m>>
<1>1. FaderLines = {strip(f, p) : f \in Faders, p \in StripProps}
                     \cup {level(f) : f \in Faders}
  BY DEF FaderLines
<1>2. MixLines = {cell(s, m, c) : s \in Sources, m \in Mixes, c \in kinds}
  BY DEF MixLines
<1>3. Requests = {request(s, m, r) : s \in Sources, m \in Mixes, r \in requests}
  BY DEF Requests
<1>4. SetLines = (UNION {set(x, {<<>>}) : x \in SetSingle})
                   \cup (UNION {set(x, numbers) : x \in SetIndexed})
                   \cup set("CHANNEL", channels)
                   \cup set("INPUTSOURCE", inputs)
  BY DEF SetLines
<1>5. \A family, index, names :
        /\ Writes(family, index, names).family = family
        /\ Writes(family, index, names).index = index
  BY DEF Writes
<1>6. /\ \A f, p : strip(f, p).family = "CHANNEL" /\ strip(f, p).index = <<f>>
      /\ \A f : level(f).family = "FADER" /\ level(f).index = <<f>>
      /\ \A s, m, c : cell(s, m, c).family = "MIX" /\ cell(s, m, c).index = <<s, m>>
      /\ \A s, m, r : /\ request(s, m, r).family = "CALLME"
                      /\ request(s, m, r).index = <<s, m>>
      /\ \A x, k, w : setting(x, k, w).family = x /\ setting(x, k, w).index = k
  <2> HIDE DEF these
  <2>1. QED BY DEF Writes
<1> HIDE DEF these, kinds, requests, strip, level, cell, request, setting
<1>7. ASSUME line \in FaderLines PROVE Good
  <2>1. \/ \E f \in Faders, p \in StripProps : line = strip(f, p)
        \/ \E f \in Faders : line = level(f)
    BY <1>1, <1>7
  <2>2. QED BY <1>6, <2>1 DEF IsTarget
<1>8. ASSUME line \in MixLines PROVE Good
  <2>1. PICK s \in Sources, m \in Mixes, c \in kinds : line = cell(s, m, c)
    BY <1>2, <1>8
  <2>2. QED BY <1>6, <2>1 DEF IsTarget
<1>9. ASSUME line \in CallMeLines PROVE Good
  <2>1. line \in Requests /\ line.index[1] \in CallMeSources
    BY <1>9 DEF CallMeLines
  <2>2. PICK s \in Sources, m \in Mixes, r \in requests : line = request(s, m, r)
    BY <1>3, <2>1
  <2>3. line.family = "CALLME" /\ line.index = <<s, m>>
    BY <1>6, <2>2
  <2>4. s \in CallMeSources
    BY <2>1, <2>3
  <2>5. QED BY <2>3, <2>4
<1>10. \A x, keys : line \in set(x, keys) => line.family = x /\ line.index \in keys
  <2>1. ASSUME NEW x, NEW keys, line \in set(x, keys)
        PROVE  line.family = x /\ line.index \in keys
    <3>1. PICK k \in keys, w \in Words : line = setting(x, k, w)
      BY <2>1
    <3>2. QED BY <1>6, <3>1
  <2>2. QED BY <2>1
<1>11. /\ SetSingle \subseteq Singletons
       /\ SetIndexed \subseteq IndexedFamilies
  BY DEF SetSingle, SetIndexed, Singletons, IndexedFamilies, RootRuns, NestedRuns
<1>12. ASSUME line \in SetLines PROVE Good
  <2> HIDE DEF set
  <2>1. \/ \E x \in SetSingle : line \in set(x, {<<>>})
        \/ \E x \in SetIndexed : line \in set(x, numbers)
        \/ line \in set("CHANNEL", channels)
        \/ line \in set("INPUTSOURCE", inputs)
    BY <1>4, <1>12
  <2>2. CASE \E x \in SetSingle : line \in set(x, {<<>>})
    BY <1>10, <1>11, <2>2 DEF IsTarget
  <2>3. CASE \E x \in SetIndexed : line \in set(x, numbers)
    BY <1>10, <1>11, <2>3 DEF IsTarget
  <2>4. CASE line \in set("CHANNEL", channels)
    BY <1>10, <2>4 DEF IsTarget
  <2>5. CASE line \in set("INPUTSOURCE", inputs)
    BY <1>10, <2>5 DEF IsTarget
  <2>6. QED BY <2>1, <2>2, <2>3, <2>4, <2>5
<1>13. ASSUME line = Writes("SYSTEM", <<>>, <<"powerOffRequest">>) PROVE Good
  BY <1>5, <1>13 DEF IsTarget, Singletons
<1>14. \/ line \in FaderLines \/ line \in MixLines \/ line \in CallMeLines
       \/ line \in SetLines
       \/ line = Writes("SYSTEM", <<>>, <<"powerOffRequest">>)
  BY DEF Lines
<1> HIDE DEF Good
<1>15. Good
  BY <1>7, <1>8, <1>9, <1>12, <1>13, <1>14
<1>16. QED BY <1>15 DEF Good

(* A CallMe request is past the end of the tree.                           *)
LEMMA RequestsReachNothing ==
  ASSUME tree \in Seq(Node), Len(tree) <= MaxNodes,
         NEW s \in CallMeSources, NEW m \in Mixes
  PROVE  RequestPath(s, m) \notin NodePaths(tree)
<1>1. s \in Nat /\ m \in Nat /\ U8Max \in Nat /\ CallMeOffset \in Nat
  BY CallMeSourcesAssumption, CallMeOffsetAssumption, LayoutAssumption,
     NamedSourcesAssumption DEF Sources, Mixes
<1> DEFINE x == s * (U8Max + 1)
<1>2. x \in Nat
  BY <1>1
<1>3. RequestPath(s, 0)[1] = x + CallMeOffset + 0
      /\ RequestPath(s, m) = <<x + CallMeOffset + m>>
  BY DEF RequestPath
<1> HIDE DEF x
<1>4. MaxNodes <= x + CallMeOffset + 0
  BY <1>3, CallMeAssumption
<1>5. \A p \in 0 .. Len(tree) - 1 : p < x + CallMeOffset + m
  BY <1>1, <1>2, <1>4, NamesOfTree, TopologyAssumption
<1>6. \A p \in 0 .. Len(tree) - 1 : <<p>> # RequestPath(s, m)
  BY <1>3, <1>5
<1>7. \A p, k : <<p, k>> # RequestPath(s, m)
  BY <1>3
<1>8. QED BY <1>6, <1>7, PathsOfTree

(* No line typed at the prompt reaches a node it does not name             *)
(* (commands.rs 56-62, cli.rs 905-960).                                    *)
THEOREM LinesStayOnTarget == Spec => []LinesReachOnlyWhatTheyName
<1>1. Inv => LinesReachOnlyWhatTheyName
  <2>1. SUFFICES ASSUME Inv, NEW layout \in FromFullSync(tree), NEW line \in Lines,
                        NEW path \in TargetPath(layout, line.family, line.index),
                        path \in NodePaths(tree)
                 PROVE  /\ line.family # "CALLME"
                        /\ TrueAddress(tree, path) =
                             Target(layout, line.family, line.index)
    BY DEF LinesReachOnlyWhatTheyName
  <2>2. /\ tree \in Seq(Node) /\ Len(tree) <= MaxNodes
        /\ layout.model \in {"Pro2", "Duo"}
    BY <2>1, SmallTrees, ModelOfLayout DEF Inv
  <2>3. ASSUME NEW s \in CallMeSources, NEW m \in Mixes,
               line.family = "CALLME", line.index = <<s, m>>
        PROVE  FALSE
    <3>1. path = RequestPath(s, m)
      BY <2>1, <2>3 DEF TargetPath
    <3>2. QED BY <2>1, <2>2, <3>1, RequestsReachNothing
  <2>4. IsTarget(line.family, line.index)
    BY <2>3, LineForms
  <2>5. /\ line.family # "CALLME"
        /\ \A a \in Target(layout, line.family, line.index) :
             a \in Addresses /\ Target(layout, line.family, line.index) = {a}
    BY <2>2, <2>4, TargetsAreAddresses
  <2>6. PICK a \in Target(layout, line.family, line.index) : path \in PathOf(layout, a)
    BY <2>1, <2>5 DEF TargetPath
  <2>7. TrueAddress(tree, path) = {a}
    BY <2>2, <2>5, <2>6, AddressedPaths
  <2>8. QED BY <2>5, <2>6, <2>7
<1>2. QED BY <1>1, Invariant, PTL

-----------------------------------------------------------------------------
(* Leaving the setup.                                                      *)

SetupProps == {"disableAllPhysicalButtons", "disableAllLineoutOutputs",
               "disableAllHeadphoneOutputs"}

(* What SetupSkip writes: of SYSTEM, and a property each of two others.    *)
SkipProps == SystemParam \cup {"lang", "showControlNewFromDefaultMuted"}

(* The flags of the setup are written to the SYSTEM node alone.            *)
SkipFrames(layout) ==
  {f \in [path : Seq(Nat), name : SkipProps] :
     f.name \in SetupProps => \E p \in layout.single["SYSTEM"] : f.path = <<p>>}

(* The frames for a node that there is one of, or none of.                 *)
LEMMA FramesOfSingle ==
  ASSUME tree \in Seq(Node), NEW layout \in FromFullSync(tree),
         NEW family \in Singletons, NEW names \in Seq(SkipProps),
         family = "SYSTEM" \/ \A i \in DOMAIN names : names[i] \notin SetupProps
  PROVE  LET frames == FramesOf(layout, Writes(family, <<>>, names))
         IN  /\ frames \in Seq(SkipFrames(layout))
             /\ \A p \in layout.single[family] :
                  frames = [i \in DOMAIN names |-> Frame(<<p>>, names[i])]
<1> DEFINE c == Writes(family, <<>>, names)
           to(path) == [i \in DOMAIN names |-> Frame(path, names[i])]
<1>1. c.family = family /\ c.index = <<>> /\ c.names = names
  BY DEF Writes
<1>2. /\ DOMAIN names = 1 .. Len(names) /\ Len(names) \in Nat
      /\ \A i \in 1 .. Len(names) : names[i] \in SkipProps
  BY LenProperties, ElementOfSeq
<1>3. IsTarget(family, <<>>) /\ layout.model \in {"Pro2", "Duo"}
  BY ModelOfLayout DEF IsTarget
<1> DEFINE a == Address(family, <<>>)
<1>4. Target(layout, family, <<>>) = {a} /\ family # "CALLME"
  BY FamiliesApart DEF Target, Singletons
<1>5. a \in Addresses /\ PathOf(layout, a) = SingletonPath(layout.single[family])
  BY AddressPaths
<1>6. TargetPath(layout, family, <<>>) = PathOf(layout, a)
  BY <1>4 DEF TargetPath
<1>7. Encode(layout, c) = {to(path) : path \in PathOf(layout, a)}
  BY <1>1, <1>6, Zenon DEF Encode
<1>8. layout.single[family] = FirstNamed(Names(tree), family)
  BY DEF FromFullSync, LayoutOf
<1> HIDE DEF c, a, to
<1>9. \A p \in layout.single[family] : Encode(layout, c) = {to(<<p>>)}
  <2>1. TAKE p \in layout.single[family]
  <2>2. FirstNamed(Names(tree), family) = {p}
    BY <1>8, <2>1, NamesOfTree, FirstIsUnique
  <2>3. PathOf(layout, a) = {<<p>>}
    BY <1>5, <1>8, <2>2 DEF SingletonPath
  <2>4. QED BY <1>7, <2>3
<1>10. \A p \in layout.single[family] : FramesOf(layout, c) = to(<<p>>)
  BY <1>9 DEF FramesOf
<1>11. FramesOf(layout, c) \in Seq(SkipFrames(layout))
  <2>1. CASE Encode(layout, c) = {}
    BY <2>1 DEF FramesOf
  <2>2. CASE Encode(layout, c) # {}
    <3>1. PICK path \in PathOf(layout, a) : FramesOf(layout, c) = to(path)
      BY <1>7, <2>2 DEF FramesOf
    <3>2. path \in Seq(Nat)
      BY <1>5, AddressedPaths, NodePathsAreSequences
    <3>3. PICK p \in layout.single[family] : path = <<p>>
      BY <1>5 DEF SingletonPath
    <3>4. \A i \in 1 .. Len(names) : Frame(path, names[i]) \in SkipFrames(layout)
      BY <1>2, <3>2, <3>3 DEF Frame, SkipFrames
    <3>5. to(path) \in Seq(SkipFrames(layout))
      BY <1>2, <3>4 DEF to
    <3>6. QED BY <3>1, <3>5
  <2>3. QED BY <2>1, <2>2
<1>12. QED BY <1>10, <1>11 DEF c, to

Clears(frames, p, prop) ==
  \E j \in DOMAIN frames : frames[j].path = <<p>> /\ frames[j].name = prop

(* SetupSkip ends with the frames that clear the flags of the setup, and   *)
(* clears them nowhere else.                                               *)
LEMMA SetupSkipClears ==
  ASSUME tree \in Seq(Node), NEW layout \in FromFullSync(tree),
         NEW language, NEW timezone
  PROVE  LET frames == SetupSkip(layout, language, timezone)
         IN  /\ frames \in Seq(SkipFrames(layout))
             /\ \A p \in layout.single["SYSTEM"], prop \in SetupProps :
                  Clears(frames, p, prop)
<1> DEFINE Frames == Seq(SkipFrames(layout))
           part(family, names) == FramesOf(layout, Writes(family, <<>>, names))
           lang == IF language THEN part("GUI", <<"lang">>) ELSE <<>>
           time == IF timezone
                   THEN part("SYSTEM", <<"systemDateTimezone", "systemDateTime24h",
                                         "systemDateTimeOnHome">>) ELSE <<>>
           muted == part("SHOWCONTROL", <<"showControlNewFromDefaultMuted">>)
           flags == <<"disableAllPhysicalButtons", "disableAllLineoutOutputs",
                      "disableAllHeadphoneOutputs", "systemChannelSelected">>
           last == part("SYSTEM", flags)
<1>1. SetupSkip(layout, language, timezone) = lang \o time \o muted \o last
  BY DEF SetupSkip
<1>2. "GUI" \in Singletons /\ "SYSTEM" \in Singletons /\ "SHOWCONTROL" \in Singletons
  BY DEF Singletons
<1>3. flags \in Seq(SkipProps)
  BY DEF SkipProps, SystemParam
<1>4. /\ last \in Frames
      /\ \A p \in layout.single["SYSTEM"] :
           last = [i \in DOMAIN flags |-> Frame(<<p>>, flags[i])]
  <2> HIDE DEF flags
  <2>1. QED BY <1>2, <1>3, FramesOfSingle
<1>5. lang \in Frames
  <2>1. /\ <<"lang">> \in Seq(SkipProps)
        /\ \A i \in DOMAIN <<"lang">> : <<"lang">>[i] \notin SetupProps
    BY DEF SkipProps, SetupProps
  <2>2. part("GUI", <<"lang">>) \in Frames
    BY <1>2, <2>1, FramesOfSingle
  <2>3. <<>> \in Frames
    OBVIOUS
  <2> HIDE DEF part, Frames
  <2>4. QED BY <2>2, <2>3
<1>6. time \in Frames
  <2> DEFINE zone == <<"systemDateTimezone", "systemDateTime24h",
                       "systemDateTimeOnHome">>
  <2>1. zone \in Seq(SkipProps)
    BY DEF SkipProps, SystemParam
  <2> HIDE DEF zone
  <2>2. part("SYSTEM", zone) \in Frames
    BY <1>2, <2>1, FramesOfSingle
  <2>3. <<>> \in Frames
    OBVIOUS
  <2> HIDE DEF part, Frames
  <2>4. QED BY <2>2, <2>3 DEF zone
<1>7. muted \in Frames
  <2> DEFINE names == <<"showControlNewFromDefaultMuted">>
  <2>1. names \in Seq(SkipProps) /\ \A i \in DOMAIN names : names[i] \notin SetupProps
    BY DEF SkipProps, SetupProps
  <2> HIDE DEF names
  <2>2. part("SHOWCONTROL", names) \in Frames
    BY <1>2, <2>1, FramesOfSingle
  <2>3. QED BY <2>2 DEF names
<1>8. ASSUME NEW p \in layout.single["SYSTEM"], NEW prop \in SetupProps
      PROVE  \E i \in DOMAIN last : last[i].path = <<p>> /\ last[i].name = prop
  <2>1. last = [i \in DOMAIN flags |-> Frame(<<p>>, flags[i])]
    BY <1>4
  <2>2. PICK i \in DOMAIN flags : flags[i] = prop
    <3>1. /\ 1 \in DOMAIN flags /\ flags[1] = "disableAllPhysicalButtons"
          /\ 2 \in DOMAIN flags /\ flags[2] = "disableAllLineoutOutputs"
          /\ 3 \in DOMAIN flags /\ flags[3] = "disableAllHeadphoneOutputs"
      OBVIOUS
    <3> HIDE DEF flags
    <3>2. QED BY <3>1 DEF SetupProps
  <2> HIDE DEF last, flags
  <2>3. QED BY <2>1, <2>2 DEF Frame
<1> HIDE DEF part, lang, time, muted, last, flags
<1> DEFINE front == lang \o time \o muted
<1>9. front \in Frames
  BY <1>5, <1>6, <1>7, ConcatProperties
<1>10. SetupSkip(layout, language, timezone) = front \o last
  BY <1>1
<1> HIDE DEF front
<1>11. front \o last \in Frames
  BY <1>4, <1>9, ConcatProperties
<1>12. \A p \in layout.single["SYSTEM"], prop \in SetupProps :
         Clears(front \o last, p, prop)
  <2>1. TAKE p \in layout.single["SYSTEM"], prop \in SetupProps
  <2>2. PICK i \in DOMAIN last : last[i].path = <<p>> /\ last[i].name = prop
    BY <1>8
  <2>3. /\ Len(front) + i \in DOMAIN (front \o last)
        /\ (front \o last)[Len(front) + i] = last[i]
    BY <1>4, <1>9, <2>2, ConcatProperties, LenProperties
  <2>4. QED BY <2>2, <2>3 DEF Clears
<1>13. QED BY <1>10, <1>11, <1>12

(* A search that says no at some place finds what it would have found      *)
(* before it.                                                              *)
LEMMA SearchStops ==
  ASSUME NEW N \in Nat, NEW n \in 0 .. N, NEW options, NEW fewer, NEW answer,
         DOMAIN options = 1 .. N, DOMAIN fewer = 1 .. n,
         \A k \in 1 .. n : fewer[k] = options[k],
         n < N => options[n + 1] # {} /\ answer \notin options[n + 1]
  PROVE  answer \in FirstOf(options) <=> answer \in FirstOf(fewer)
<1> DEFINE Answer(opts, i) == /\ answer \in opts[i]
                             /\ \A k \in 1 .. i - 1 : opts[k] = {}
<1>1. /\ answer \in FirstOf(options) <=> \E i \in 1 .. N : Answer(options, i)
      /\ answer \in FirstOf(fewer) <=> \E i \in 1 .. n : Answer(fewer, i)
  BY DEF FirstOf
<1>2. \A i \in 1 .. n : i \in 1 .. N /\ (Answer(options, i) <=> Answer(fewer, i))
  <2>1. TAKE i \in 1 .. n
  <2>2. i \in 1 .. N /\ \A k \in 1 .. i - 1 : k \in 1 .. n
    OBVIOUS
  <2>3. QED BY <2>2
<1>3. ASSUME NEW i \in 1 .. N, Answer(options, i) PROVE i \in 1 .. n
  <2>1. SUFFICES ASSUME n < i PROVE FALSE
    OBVIOUS
  <2>2. n < N /\ (n + 1 = i \/ n + 1 \in 1 .. i - 1)
    BY <2>1
  <2>3. options[n + 1] # {} /\ answer \notin options[n + 1]
    BY <2>2
  <2>4. QED BY <1>3, <2>2, <2>3, Zenon
<1> HIDE DEF Answer
<1>4. QED BY <1>1, <1>2, <1>3

(* What the console's nodes carry of a flag once it has carried out        *)
(* SetupSkip: its SYSTEM node says no, the others what they said.          *)
LEMMA FlagsAfterwards ==
  ASSUME tree \in Seq(Node), NEW layout \in FromFullSync(tree),
         NEW frames \in Seq(SkipFrames(layout)),
         \A p \in layout.single["SYSTEM"], prop \in SetupProps :
           Clears(frames, p, prop)
  PROVE  LET after == CarriedOut(frames)
         IN  /\ DOMAIN after = 1 .. Len(tree)
             /\ \A k \in 1 .. Len(tree), prop \in SetupProps :
                  FindIn(after[k], prop) =
                    IF k - 1 \in layout.single["SYSTEM"] THEN {FALSE}
                    ELSE FindIn(tree[k], prop)
<1> DEFINE after == CarriedOut(frames)
           written(k, prop) == \E j \in DOMAIN frames :
                                 /\ frames[j].path = <<k - 1>>
                                 /\ frames[j].name = prop
           props(k) == [prop \in DOMAIN NoProps |->
                          IF written(k, prop) THEN {FALSE} ELSE tree[k].props[prop]]
<1>1. /\ DOMAIN tree = 1 .. Len(tree) /\ Len(tree) \in Nat
      /\ \A k \in 1 .. Len(tree) : tree[k] \in Node
  BY LenProperties, ElementOfSeq
<1>2. after = [k \in DOMAIN tree |-> [tree[k] EXCEPT !.props = props(k)]]
  BY DEF CarriedOut
<1> HIDE DEF after, props
<1>3. \A k \in 1 .. Len(tree) :
        after[k].props = props(k) /\ after[k].kids = tree[k].kids
  BY <1>1, <1>2 DEF Node
<1>4. ASSUME NEW k \in 1 .. Len(tree), NEW prop \in SetupProps
      PROVE  /\ prop \in DOMAIN NoProps
             /\ written(k, prop) <=> k - 1 \in layout.single["SYSTEM"]
  <2>1. ASSUME k - 1 \in layout.single["SYSTEM"] PROVE written(k, prop)
    BY <2>1 DEF Clears
  <2>2. ASSUME written(k, prop) PROVE k - 1 \in layout.single["SYSTEM"]
    <3>1. PICK j \in DOMAIN frames : frames[j].path = <<k - 1>> /\ frames[j].name = prop
      BY <2>2
    <3>2. frames[j] \in SkipFrames(layout)
      BY LenProperties, ElementOfSeq
    <3>3. PICK p \in layout.single["SYSTEM"] : frames[j].path = <<p>>
      BY <3>1, <3>2 DEF SkipFrames
    <3>4. p = k - 1
      BY <3>1, <3>3
    <3>5. QED BY <3>4
  <2>3. prop \in DOMAIN NoProps
    BY DEF SetupProps, NoProps
  <2>4. QED BY <2>1, <2>2, <2>3
<1>5. \A k \in 1 .. Len(tree), prop \in SetupProps :
        props(k)[prop] = IF k - 1 \in layout.single["SYSTEM"] THEN {FALSE}
                         ELSE tree[k].props[prop]
  <2> HIDE DEF written
  <2>1. QED BY <1>4 DEF props
<1>6. DOMAIN after = 1 .. Len(tree)
  BY <1>1, <1>2
<1>7. \A k \in 1 .. Len(tree), prop \in SetupProps :
        FindIn(after[k], prop) =
          IF k - 1 \in layout.single["SYSTEM"] THEN {FALSE}
          ELSE FindIn(tree[k], prop)
  <2>1. TAKE k \in 1 .. Len(tree), prop \in SetupProps
  <2> DEFINE below == [i \in DOMAIN tree[k].kids |-> KidPropsOf(tree[k].kids[i])[prop]]
  <2>2. /\ FindIn(after[k], prop) = FindAt(after[k].props[prop], below)
        /\ FindIn(tree[k], prop) = FindAt(tree[k].props[prop], below)
    BY <1>3 DEF FindIn
  <2>3. after[k].props[prop] = IF k - 1 \in layout.single["SYSTEM"] THEN {FALSE}
                               ELSE tree[k].props[prop]
    BY <1>3, <1>5
  <2> HIDE DEF below
  <2>4. QED BY <2>2, <2>3 DEF FindAt
<1>8. QED BY <1>6, <1>7 DEF after

(* A console that carries out SetupSkip is out of setup, unless the search *)
(* for the flags ends before it comes to its SYSTEM node (capabilities.rs  *)
(* 34-36).                                                                 *)
THEOREM SetupSkipWorks == Spec => []SetupSkipLeavesSetup
<1>1. Inv => SetupSkipLeavesSetup
  <2>1. SUFFICES ASSUME Inv, NEW layout \in FromFullSync(tree),
                        NEW language, NEW timezone
                 PROVE  IsInSetup(CarriedOut(SetupSkip(layout, language, timezone)))
                          <=> IsInSetup(BeforeSystem(layout))
    BY DEF SetupSkipLeavesSetup
  <2> DEFINE frames == SetupSkip(layout, language, timezone)
             after == CarriedOut(frames)
             before == BeforeSystem(layout)
             system == layout.single["SYSTEM"]
             n == IF system = {} THEN Len(tree) ELSE CHOOSE p \in system : TRUE
  <2>2. tree \in Seq(Node) /\ DOMAIN tree = 1 .. Len(tree) /\ Len(tree) \in Nat
    BY <2>1, SmallTrees, LenProperties DEF Inv
  <2>3. /\ n \in 0 .. Len(tree)
        /\ n < Len(tree) => n \in system
        /\ \A q \in 0 .. n - 1 : q \notin system
    <3>1. system = FirstNamed(Names(tree), "SYSTEM")
      BY DEF FromFullSync, LayoutOf, Singletons
    <3>2. Names(tree) \in Seq(STRING) /\ Len(Names(tree)) = Len(tree)
      BY <2>2, NamesOfTree
    <3>3. CASE system = {}
      BY <2>2, <3>3
    <3>4. ASSUME NEW p \in system
          PROVE  system = {p} /\ n = p /\ p \in 0 .. Len(tree) - 1
      <4>1. /\ p \in 0 .. Len(Names(tree)) - 1
            /\ FirstNamed(Names(tree), "SYSTEM") = {p}
        BY <3>1, <3>2, FirstIsUnique
      <4>2. QED BY <3>1, <3>2, <4>1
    <3>5. CASE system # {}
      BY <2>2, <3>4, <3>5
    <3>6. QED BY <3>3, <3>5
  <2>4. /\ DOMAIN before = 1 .. n
        /\ \A k \in 1 .. n : before[k] = tree[k]
    <3>1. before = SubSeq(tree, 1, n)
      BY DEF BeforeSystem
    <3> HIDE DEF n, before
    <3>2. QED BY <2>2, <2>3, <3>1, SubSeqProperties
  <2>5. /\ DOMAIN after = 1 .. Len(tree)
        /\ \A k \in 1 .. Len(tree), prop \in SetupProps :
             FindIn(after[k], prop) = IF k - 1 \in system THEN {FALSE}
                                      ELSE FindIn(tree[k], prop)
    BY <2>2, SetupSkipClears, FlagsAfterwards
  <2> HIDE DEF after, before, n, system
  <2>6. ASSUME NEW prop \in SetupProps
        PROVE  TRUE \in FindProperty(after, prop) <=> TRUE \in FindProperty(before, prop)
    <3> DEFINE options == [i \in DOMAIN after |-> FindIn(after[i], prop)]
               fewer == [i \in DOMAIN before |-> FindIn(before[i], prop)]
    <3>1. DOMAIN options = 1 .. Len(tree) /\ DOMAIN fewer = 1 .. n
      BY <2>4, <2>5
    <3>2. \A k \in 1 .. n : fewer[k] = options[k]
      <4>1. TAKE k \in 1 .. n
      <4>2. k \in 1 .. Len(tree) /\ k - 1 \in 0 .. n - 1
        BY <2>2, <2>3
      <4>3. FindIn(after[k], prop) = FindIn(tree[k], prop)
        BY <2>3, <2>5, <4>2
      <4>4. QED BY <2>4, <2>5, <4>2, <4>3
    <3>3. n < Len(tree) => options[n + 1] = {FALSE}
      <4>1. SUFFICES ASSUME n < Len(tree) PROVE options[n + 1] = {FALSE}
        OBVIOUS
      <4>2. n + 1 \in 1 .. Len(tree) /\ (n + 1) - 1 = n /\ n \in system
        BY <2>2, <2>3, <4>1
      <4>3. QED BY <2>5, <4>2
    <3>4. /\ FindProperty(after, prop) = FindAt(RootProps[prop], options)
          /\ FindProperty(before, prop) = FindAt(RootProps[prop], fewer)
      BY DEF FindProperty
    <3> HIDE DEF options, fewer
    <3>5. TRUE \in FirstOf(options) <=> TRUE \in FirstOf(fewer)
      <4>1. Len(tree) \in Nat /\ n \in 0 .. Len(tree)
        BY <2>2, <2>3
      <4>2. \A answer : (n < Len(tree) => /\ options[n + 1] # {}
                                          /\ answer \notin options[n + 1]) =>
              (answer \in FirstOf(options) <=> answer \in FirstOf(fewer))
        BY <3>1, <3>2, <4>1, SearchStops
      <4>3. n < Len(tree) => options[n + 1] # {} /\ TRUE \notin options[n + 1]
        BY <3>3, Zenon
      <4>4. QED BY <4>2, <4>3, Zenon
    <3>6. QED BY <3>4, <3>5 DEF FindAt
  <2>7. QED BY <2>6 DEF IsInSetup, SetupProps, after, before, frames
<1>2. QED BY <1>1, Invariant, PTL
=============================================================================
