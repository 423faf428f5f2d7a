------------------------------- MODULE Layout -------------------------------
(***************************************************************************)
(* The address map of a RODECaster console (src/src/layout.rs).            *)
(*                                                                         *)
(* A console publishes its state as a tree of named nodes.  `Layout` is    *)
(* what a client derives from that tree once and then uses to turn logical *)
(* addresses ("channel 2", "mix cell (4, 1)") into numeric node paths, and *)
(* paths back into addresses.                                              *)
(*                                                                         *)
(* A tree is the sequence of the root's children.  A node is a record      *)
(*    [name, kids, props]                                                  *)
(* where kids is the sequence of the names of its own children (the map    *)
(* has no use for more of them) and props the properties of the node that  *)
(* are read for the map and the capabilities, a record of optional values. *)
(* Positions on the wire count from 0, so the node at position p is        *)
(* tree[p + 1].  An optional value is the set of that value: {} or {v}.    *)
(***************************************************************************)
EXTENDS Integers, Sequences, FiniteSets

CONSTANTS
  MixPerSource,  (* mix destinations of each source: 13 in the code        *)
  U8Max          (* the largest run length a counter can hold: 255 (u8)    *)

ASSUME LayoutAssumption ==
  /\ MixPerSource \in Nat \ {0}
  /\ U8Max \in Nat \ {0}

Props == [boardType : SUBSET Nat, systemName : SUBSET {"duo", "other"},
          disableAllPhysicalButtons : SUBSET BOOLEAN,
          disableAllLineoutOutputs : SUBSET BOOLEAN,
          disableAllHeadphoneOutputs : SUBSET BOOLEAN]

Node == [name : STRING, kids : Seq(STRING), props : Props]

NoProps == [p \in {"boardType", "systemName", "disableAllPhysicalButtons",
                   "disableAllLineoutOutputs", "disableAllHeadphoneOutputs"}
              |-> {}]

-----------------------------------------------------------------------------
(* The addressable node families, by the names that discovery looks for.   *)

RootRuns == {"CHANNEL", "INPUTSOURCE", "HEADPHONE", "EFFECTS_PARAMETERS",
             "SIPCALLSLOTS", "PADRECORDER", "STORAGEVOLUME", "RADIOTX",
             "RADIORX", "WIFISCANRESULT", "STREAMERXMIXPRESET",
             "STREAMERXSTREAMMIX", "RCSYNCMIX", "MIXMINUSES"}

(* Runs inside a container node, with the container each is found in.      *)
Container == [FADER |-> "PHYSICALINTERFACE", PAD |-> "SOUNDPADS",
              SIPREGISTRATION |-> "SIPCALLING", FXPRESET |-> "FXPRESETS",
              SHOW |-> "SHOWS", RECORDING |-> "RECORDINGS"]

NestedRuns == {"FADER", "PAD", "SIPREGISTRATION", "FXPRESET", "SHOW",
               "RECORDING"}

Singletons == {"MASTERCHANNEL", "OUTPUT", "DUCKER", "RECORDER", "PLAYER",
               "GUI", "SYSTEM", "SIPCALLING", "SIPADVANCED", "TEST",
               "NETWORK", "AUDIO", "BUILD", "APP", "THEME", "CURRENTSHOW",
               "SHOWCONTROL", "RECORDINGS", "RADIO"}

-----------------------------------------------------------------------------
(* Discovery.                                                              *)

Names(tree) == [i \in DOMAIN tree |-> tree[i].name]

(* Position of the first sibling called n, if there is one.                *)
FirstNamed(names, n) ==
  {p \in 0 .. Len(names) - 1 :
     names[p + 1] = n /\ \A q \in 0 .. p - 1 : names[q + 1] # n}

(* How many siblings from position p on are called n, without a gap.       *)
Consecutive(names, p, n) ==
  CHOOSE c \in 0 .. Len(names) - p :
    /\ \A q \in p .. p + c - 1 : names[q + 1] = n
    /\ p + c < Len(names) => names[p + c + 1] # n

(* A counter that does not stop at its largest value.                      *)
SaturateMutant(c) == c

Saturate(c) == IF c > U8Max THEN U8Max ELSE c

DiscoverRun(names, n) ==
  LET at == FirstNamed(names, n)
  IN  [first |-> at,
       count |-> IF at = {} THEN 0
                 ELSE Saturate(Consecutive(names, CHOOSE p \in at : TRUE, n))]

DiscoverNested(tree, n) ==
  LET parent == FirstNamed(Names(tree), Container[n])
      kids   == IF parent = {} THEN <<>>
                ELSE tree[(CHOOSE p \in parent : TRUE) + 1].kids
      run    == DiscoverRun(kids, n)
  IN  [parent |-> parent,
       first  |-> IF run.first = {} THEN 0 ELSE CHOOSE p \in run.first : TRUE,
       count  |-> run.count]

(* boardType is authoritative; an unknown board falls back on the name,    *)
(* and a tree that says neither is a Pro II.                               *)
DetectModel(tree) ==
  LET says(prop) == UNION {tree[p + 1].props[prop] :
                             p \in FirstNamed(Names(tree), "SYSTEM")}
      board == says("boardType")
  IN  IF 1 \in board \/ (0 \notin board /\ "duo" \in says("systemName"))
      THEN "Duo" ELSE "Pro2"

MixTotal(tree) ==
  LET at == FirstNamed(Names(tree), "MIX")
  IN  IF at = {} THEN 0
      ELSE Consecutive(Names(tree), CHOOSE p \in at : TRUE, "MIX")

(* The trees a layout can be built from: the three required families are   *)
(* there and the mix run is a whole number of sources, at most U8Max.      *)
Supported(tree) ==
  /\ \E p \in FirstNamed(Names(tree), "PHYSICALINTERFACE") :
       FirstNamed(tree[p + 1].kids, "FADER") # {}
  /\ FirstNamed(Names(tree), "CHANNEL") # {}
  /\ MixTotal(tree) # 0
  /\ MixTotal(tree) % MixPerSource = 0
  /\ MixTotal(tree) \div MixPerSource <= U8Max

LayoutOf(tree) ==
  [model       |-> DetectModel(tree),
   run         |-> [n \in RootRuns |-> DiscoverRun(Names(tree), n)],
   nested      |-> [n \in NestedRuns |-> DiscoverNested(tree, n)],
   single      |-> [n \in Singletons |-> FirstNamed(Names(tree), n)],
   firstMix    |-> CHOOSE p \in FirstNamed(Names(tree), "MIX") : TRUE,
   sourceCount |-> MixTotal(tree) \div MixPerSource]

(* Layout::from_full_sync, a BuildError being the empty option.            *)
FromFullSync(tree) == IF Supported(tree) THEN {LayoutOf(tree)} ELSE {}

-----------------------------------------------------------------------------
(* Addresses to paths, and back.  A path is the sequence of positions from *)
(* the root down.                                                          *)

(* Off by one at the end of a run.                                         *)
RunPathMutant(run, n) ==
  IF n <= run.count THEN {<<first + n>> : first \in run.first} ELSE {}

RunPath(run, n) ==
  IF n < run.count THEN {<<first + n>> : first \in run.first} ELSE {}

(* The end of the run forgotten.                                           *)
RunIndexMutant(run, path) ==
  {path[1] - first : first \in {f \in run.first : Len(path) = 1 /\ path[1] >= f}}

RunIndex(run, path) ==
  {path[1] - first :
     first \in {f \in run.first : /\ Len(path) = 1
                                  /\ path[1] >= f
                                  /\ path[1] - f < run.count}}

NestedPath(run, n) ==
  IF n < run.count THEN {<<p, run.first + n>> : p \in run.parent} ELSE {}

NestedIndex(run, path) ==
  IF /\ Len(path) = 2
     /\ path[1] \in run.parent
     /\ path[2] >= run.first
     /\ path[2] - run.first < run.count
  THEN {path[2] - run.first} ELSE {}

SingletonPath(at) == {<<p>> : p \in at}

(* Mix outputs numbered from 1.                                            *)
MixCellPathMutant(layout, source, mix) ==
  IF source < layout.sourceCount /\ mix < MixPerSource
  THEN {<<layout.firstMix + source * MixPerSource + mix + 1>>} ELSE {}

MixCellPath(layout, source, mix) ==
  IF source < layout.sourceCount /\ mix < MixPerSource
  THEN {<<layout.firstMix + source * MixPerSource + mix>>} ELSE {}

(* The end of the mix matrix forgotten.                                    *)
MixCellFromPathUnbounded(layout, path) ==
  LET offset == path[1] - layout.firstMix
  IN  IF Len(path) = 1 /\ offset >= 0
      THEN {<<offset \div MixPerSource, offset % MixPerSource>>} ELSE {}

MixCellFromPath(layout, path) ==
  LET offset == path[1] - layout.firstMix
  IN  IF /\ Len(path) = 1
         /\ offset >= 0
         /\ offset < layout.sourceCount * MixPerSource
      THEN {<<offset \div MixPerSource, offset % MixPerSource>>} ELSE {}

(* A logical address is a family and an index in it: the ordinal of a run, *)
(* <<source, mix>> for a mix cell, <<>> for a singleton.                   *)
Address(family, index) == [family |-> family, index |-> index]

Ordinals == 0 .. U8Max

AllAddresses ==
       {Address(f, <<n>>) : f \in RootRuns \cup NestedRuns, n \in Ordinals}
  \cup {Address("MIX", <<s, m>>) : s \in Ordinals, m \in Ordinals}
  \cup {Address(f, <<>>) : f \in Singletons}

PathOf(layout, a) ==
  CASE a.family \in RootRuns   -> RunPath(layout.run[a.family], a.index[1])
    [] a.family \in NestedRuns -> NestedPath(layout.nested[a.family], a.index[1])
    [] a.family \in Singletons -> SingletonPath(layout.single[a.family])
    [] OTHER                   -> MixCellPath(layout, a.index[1], a.index[2])

(* Every address the layout's inverse functions give this path.            *)
Resolve(layout, path) ==
       (UNION {{Address(f, <<n>>) : n \in RunIndex(layout.run[f], path)} :
                 f \in RootRuns})
  \cup (UNION {{Address(f, <<n>>) : n \in NestedIndex(layout.nested[f], path)} :
                 f \in NestedRuns})
  \cup {Address(f, <<>>) : f \in {g \in Singletons :
                                    path \in SingletonPath(layout.single[g])}}
  \cup {Address("MIX", cell) : cell \in MixCellFromPath(layout, path)}
=============================================================================
