------------------------------ MODULE Topology ------------------------------
(***************************************************************************)
(* The console's own tree: how it can change shape, and what the node at a *)
(* path really is.                                                         *)
(*                                                                         *)
(* The console is external to src/.  Its tree changes shape one JUCE       *)
(* ValueTree operation at a time, each announced by one childAdded,        *)
(* childRemoved or childMoved frame (src/src/change_frame.rs).             *)
(***************************************************************************)
EXTENDS Layout, SequencesExt

CONSTANTS
  Nodes,     (* the nodes the console may add under its root               *)
  KidNames,  (* the names of the nodes it may add inside a container       *)
  MaxNodes,  (* bound: the root never has more children than this          *)
  MaxKids    (* bound: nor a container                                     *)

ASSUME TopologyAssumption ==
  /\ Nodes \subseteq Node
  /\ KidNames \subseteq STRING
  /\ MaxNodes \in Nat /\ MaxKids \in Nat

Edited(seq, new, max) ==
  LET removed == {RemoveAt(seq, i) : i \in DOMAIN seq}
      added   == {InsertAt(seq, i, x) : i \in 1 .. Len(seq) + 1, x \in new}
      moved   == {InsertAt(RemoveAt(seq, i), j, seq[i]) :
                    i \in DOMAIN seq, j \in DOMAIN seq}
  IN  removed \cup moved \cup (IF Len(seq) < max THEN added ELSE {})

-----------------------------------------------------------------------------
(***************************************************************************)
(* The reference that the address arithmetic is checked against.  It reads *)
(* only the tree and these tables of the console, which owe nothing to the *)
(* families the layout looks for: where a node of each name is kept, as    *)
(* the captured tree, the trees of tests/commands_tests.rs and the decoder *)
(* (events.rs 653, 816) have it.  The node at a path has the logical       *)
(* address given by its name and by how many siblings of that name come    *)
(* before it, provided it belongs to the first unbroken run of them.       *)
(***************************************************************************)

(* Kept under the root, any number of them.                                *)
Many == {"CHANNEL", "EFFECTS_PARAMETERS", "HEADPHONE", "INPUTSOURCE",
         "MIXMINUSES", "PADRECORDER", "RADIORX", "RADIOTX", "RCSYNCMIX",
         "SIPCALLSLOTS", "STORAGEVOLUME", "STREAMERXMIXPRESET",
         "STREAMERXSTREAMMIX", "WIFISCANRESULT"}

(* Kept under the root, one of each.                                       *)
One == {"APP", "AUDIO", "BUILD", "CURRENTSHOW", "DUCKER", "GUI",
        "MASTERCHANNEL", "NETWORK", "OUTPUT", "PLAYER", "RADIO", "RECORDER",
        "RECORDINGS", "SHOWCONTROL", "SIPADVANCED", "SIPCALLING", "SYSTEM",
        "TEST", "THEME"}

(* Kept in another node.  Volumes, transmitters and scan results are found *)
(* under the root as well as there.                                        *)
KeptIn == [FADER |-> "PHYSICALINTERFACE", FXPRESET |-> "FXPRESETS",
           PAD |-> "SOUNDPADS", RADIOTX |-> "RADIO",
           RECORDING |-> "RECORDINGS", SHOW |-> "SHOWS",
           SIPREGISTRATION |-> "SIPCALLING", STORAGEVOLUME |-> "SYSTEM",
           WIFISCANRESULT |-> "NETWORK"]

IsContainer(node) == \E kid \in DOMAIN KeptIn : KeptIn[kid] = node.name

(* The trees one structural change away from this one.                     *)
Edits(tree) ==
  (Edited(tree, Nodes, MaxNodes)
     \cup UNION {{[tree EXCEPT ![i].kids = kids] :
                    kids \in Edited(tree[i].kids, KidNames, MaxKids)} :
                   i \in {j \in DOMAIN tree : IsContainer(tree[j])}})
  \ {tree}

NodePaths(tree) ==
       {<<i - 1>> : i \in DOMAIN tree}
  \cup UNION {{<<i - 1, k - 1>> : k \in DOMAIN tree[i].kids} : i \in DOMAIN tree}

-----------------------------------------------------------------------------
(* What the node at a path really is.                                      *)
InFirstRun(names, p) ==
  \A q, r \in 0 .. p :
    q <= r /\ names[q + 1] = names[p + 1] => names[r + 1] = names[p + 1]

Rank(names, p) == Cardinality({q \in 0 .. p - 1 : names[q + 1] = names[p + 1]})

(* A child of the root.                                                    *)
TrueAtTop(names, p) ==
  LET name == names[p + 1]
      rank == Rank(names, p)
      index == IF name \in Many THEN {<<rank>>}
               ELSE IF name = "MIX"
                 THEN {<<rank \div MixPerSource, rank % MixPerSource>>}
               ELSE IF name \in One /\ rank = 0 THEN {<<>>}
               ELSE {}
  IN  {Address(name, i) : i \in IF InFirstRun(names, p) THEN index ELSE {}}

(* A child of one of these, which must be the first of its name.           *)
TrueBelow(names, p, kids, k) ==
  IF /\ kids[k + 1] \in DOMAIN KeptIn
     /\ names[p + 1] = KeptIn[kids[k + 1]]
     /\ Rank(names, p) = 0
     /\ InFirstRun(kids, k)
  THEN {Address(kids[k + 1], <<Rank(kids, k)>>)} ELSE {}

TrueAddress(tree, path) ==
  IF Len(path) = 1 THEN TrueAtTop(Names(tree), path[1])
  ELSE TrueBelow(Names(tree), path[1], tree[path[1] + 1].kids, path[2])

(* A node kept in another one which the layout seeks under the root alone: *)
(* no command reaches it and no path leads back to it.                     *)
OutOfReach(path, a) == Len(path) = 2 /\ a.family \in RootRuns
=============================================================================
