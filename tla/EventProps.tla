----------------------------- MODULE EventProps -----------------------------
(***************************************************************************)
(* What events and commands promise each other, over every tree a console  *)
(* can reach by structural changes from the one it starts with.            *)
(***************************************************************************)
EXTENDS LayoutProps, InitialState, Commands

NameAt(path) == IF Len(path) = 1 THEN tree[path[1] + 1].name
                                 ELSE tree[path[1] + 1].kids[path[2] + 1]

(* The named address the node at a path really has.                        *)
NamedTruth(layout, path) ==
  UNION {Named(layout, a) : a \in TrueAddress(tree, path)}

(* Families whose events are resolved through the layout.  Those of the    *)
(* others carry an ordinal read off the path.                              *)
Resolved == {"FADER", "MIX", "SIPCALLING", "SIPADVANCED", "SIPREGISTRATION",
             "SIPCALLSLOTS", "MIXMINUSES", "RCSYNCMIX"} \cup ToSet(ParamFamilies)

(* The assignment of a source to channel n is echoed at n strides from the *)
(* first channel, on a node that is not its channel.  There any other node *)
(* that has the property is taken for an echo, and so is a channel without *)
(* a name.                                                                 *)
EchoedElsewhere(layout, path, name) ==
  /\ name = "channelInputSource"
  /\ \A a \in Here(layout, path) : a.family # "CHANNEL"
  /\ \E first \in layout.run["CHANNEL"].first :
       \E n \in 0 .. layout.run["CHANNEL"].count - 1 :
         path[1] = first + EchoStride * n

(* Below any node but the first PHYSICALINTERFACE a fader level is taken   *)
(* for that of a meter, whatever carries it.                               *)
TakenForMeter(layout, path, name) ==
  /\ name = "faderLevel"
  /\ Len(path) = 2 /\ path[1] \notin layout.nested["FADER"].parent

(* What the decoder cannot tell from something else.                       *)
Ambiguous(layout, path, name) ==
  \/ EchoedElsewhere(layout, path, name)
  \/ TakenForMeter(layout, path, name) /\ NameAt(path) # "METER"

-----------------------------------------------------------------------------
(* Whatever a property of a node changes to, the event names that node: it *)
(* is of the node's family and, in the families the layout resolves, has   *)
(* its ordinal or name; a wrong or missing value never turns it into the   *)
(* event of another family (events.rs 394-396, 965-968).                   *)
EventsNameTheNode ==
  \A layout \in FromFullSync(tree), path \in NodePaths(tree) :
    \A name \in Carried(NameAt(path)), value \in Values :
      ~Ambiguous(layout, path, name) =>
        \A event \in DecodeProperty(layout, path, name, value) :
          /\ event.family = NameAt(path)
          /\ event.family \in Resolved => event \in NamedTruth(layout, path)

(* No change is lost: a well-formed change of a property that the nodes of *)
(* a resolved family carry is reported, unless the node stands past a      *)
(* saturated run or has no name.                                           *)
CarriedPropertiesAreReported ==
  \A layout \in FromFullSync(tree), path \in NodePaths(tree) :
    \A a \in {b \in TrueAddress(tree, path) : /\ b.family \in Resolved
                                              /\ b \in AllAddresses
                                              /\ path \in PathOf(layout, b)} :
      \A name \in Carried(a.family) :
        ~EchoedElsewhere(layout, path, name) =>
          DecodeProperty(layout, path, name, "expected") = Named(layout, a)

(* The order of the rules is for clarity, not precedence (events.rs        *)
(* 868-869): at most one of them, or two of one mind, has something to say *)
(* about a property that the node at the path carries.                     *)
PrecedenceIsImmaterial ==
  \A layout \in FromFullSync(tree), path \in NodePaths(tree) :
    \A name \in Carried(NameAt(path)), value \in Values :
      ~Ambiguous(layout, path, name) =>
        LET rules == Rules(layout, path, name, value)
        IN  Cardinality(UNION {rules[i] : i \in DOMAIN rules}) <= 1

(* The events of a full sync and the incremental ones agree: for a node    *)
(* that has an address, both name the same one, and no property is         *)
(* reported by only one of them (of those the walk reports at all).        *)
InitialStateAgreesWithEvents ==
  \A layout \in FromFullSync(tree) :
    LET initial == InitialEvents(tree, layout)
    IN  \A path \in NodePaths(tree) :
          \A a \in {b \in TrueAddress(tree, path) :
                      /\ b.family \in CountedRuns \cup FirstRuns \cup FirstNodes
                      /\ b \in AllAddresses /\ path \in PathOf(layout, b)} :
            \A name \in {n \in Reported(a.family) :
                           ~EchoedElsewhere(layout, path, n)} :
              {e.event : e \in {f \in initial : f.path = path /\ f.name = name}}
                = DecodeProperty(layout, path, name, "expected")

(* The run of a family, wherever the layout seeks it, stands where its     *)
(* parent's children begin; to a u8 so does one 256 positions further on.  *)
StartsItsParent(layout, family) ==
  LET first == IF family \in NestedRuns THEN {layout.nested[family].first}
               ELSE layout.run[family].first
  IN  \E p \in first : p % (U8Max + 1) = 0

(* A command survives the round trip (tests/round_trip.rs 3-12): when the  *)
(* console echoes its frames where it received them, the events name what  *)
(* the command named.  That is so of every family the layout resolves and  *)
(* of every singleton; where the ordinal is read off the path it is so     *)
(* exactly if the run starts its parent, and of a volume, which is read in *)
(* other places than it is written to, it never is.                        *)
EchoNamesTheCommand ==
  \A layout \in FromFullSync(tree), c \in Commands :
    \A frames \in Encode(layout, c) : \A i \in DOMAIN frames :
      ~EchoedElsewhere(layout, frames[i].path, frames[i].name) =>
        (DecodeProperty(layout, frames[i].path, frames[i].name, "expected")
           = {Address(c.family, c.index)}
         <=> \/ c.family \in Resolved \cup Singletons
             \/ c.family # "STORAGEVOLUME" /\ StartsItsParent(layout, c.family))

(* A command is refused exactly when no node within reach has that name.   *)
(* Out of reach, and refused although there, are the nodes past the end of *)
(* a full counter and those kept in another node whose family the layout   *)
(* seeks under the root alone: all volumes, transmitters and scan results  *)
(* of the captured Duo, whose events are reported.                         *)
RefusedMeansOutOfReach ==
  \A layout \in FromFullSync(tree) :
    LET reached == {path \in NodePaths(tree) :
                      \A a \in TrueAddress(tree, path) :
                        /\ ~OutOfReach(path, a)
                        /\ Len(a.index) = 1 => a.index[1] < U8Max}
    IN  \A c \in Commands :
          Encode(layout, c) = {} <=>
            \A path \in reached :
              Address(c.family, c.index) \notin NamedTruth(layout, path)

(* The tree after a console has carried out these frames.                  *)
CarriedOut(frames) ==
  [i \in DOMAIN tree |->
     [tree[i] EXCEPT !.props =
        [prop \in DOMAIN NoProps |->
           IF \E j \in DOMAIN frames : /\ frames[j].path = <<i - 1>>
                                       /\ frames[j].name = prop
           THEN {FALSE} ELSE tree[i].props[prop]]]]

(* The tree as far as the search for a flag goes before it meets the node  *)
(* that SetupSkip writes to: all of it if there is none.                   *)
BeforeSystem(layout) ==
  SubSeq(tree, 1, IF layout.single["SYSTEM"] = {} THEN Len(tree)
                  ELSE CHOOSE p \in layout.single["SYSTEM"] : TRUE)

(* A console that carries out the frames of SetupSkip is out of setup,     *)
(* wherever its SYSTEM node has moved to (capabilities.rs 34-36), unless   *)
(* the search meets the flags elsewhere before it comes to that node, or   *)
(* there is none and nothing was written.                                  *)
SetupSkipLeavesSetup ==
  \A layout \in FromFullSync(tree), language, timezone \in BOOLEAN :
    IsInSetup(CarriedOut(SetupSkip(layout, language, timezone)))
      <=> IsInSetup(BeforeSystem(layout))

-----------------------------------------------------------------------------
(* Claims of the repository that the code does not keep.                   *)

(* "every typed Command survives the full pipeline [...] DeviceEvent with  *)
(* the original logical address" (tests/round_trip.rs:3-12): the command   *)
(* for a node that is there is encoded, and its echo names that node.      *)
EveryCommandSurvives ==
  \A layout \in FromFullSync(tree), path \in NodePaths(tree) :
    \A a \in NamedTruth(layout, path) :
      \A c \in {d \in Commands : Address(d.family, d.index) = a} :
        /\ Encode(layout, c) # {}
        /\ \A frames \in Encode(layout, c) : \A i \in DOMAIN frames :
             DecodeProperty(layout, frames[i].path, frames[i].name, "expected")
               = {a}

(* "decode resolves the echo addressing to the originating fader"          *)
(* (tests/round_trip.rs:713-716): the echo of an assignment, at the stride *)
(* times the channel's number, names the fader that was assigned.          *)
EchoedAssignmentsNameTheFader ==
  \A layout \in FromFullSync(tree) :
    \A n \in 0 .. layout.run["CHANNEL"].count - 1 :
      \A first \in layout.run["CHANNEL"].first :
        DecodeProperty(layout, <<first + EchoStride * n>>,
                       "channelInputSource", "expected")
          = FaderNamed(layout, "CHANNEL", n)
=============================================================================
