---------------------------- MODULE Capabilities ----------------------------
(***************************************************************************)
(* The named vocabulary of a console (src/src/names/core.rs) and what a    *)
(* session tells its application the connected console can do              *)
(* (src/src/capabilities.rs).                                              *)
(*                                                                         *)
(* A mix output or a source is written as its protocol number; only the    *)
(* fader numbering depends on the model.                                   *)
(***************************************************************************)
EXTENDS Layout

CONSTANTS
  NamedSources,  (* how many source numbers have a name: 19                *)
  RootProps,     (* the properties of the root                             *)
  KidProps       (* those first met at or below a kid, by the kid's name   *)

ASSUME NamedSourcesAssumption == NamedSources \in Nat
ASSUME RootAssumption == RootProps \in Props
ASSUME KidAssumption == KidProps \in [DOMAIN KidProps -> Props]

(* Fader::to_index: the strips of each model and their numbers.            *)
FaderIndex ==
  [Pro2 |-> [Physical1 |-> 0, Physical2 |-> 1, Physical3 |-> 2,
             Physical4 |-> 3, Physical5 |-> 4, Physical6 |-> 5,
             Virtual1 |-> 6, Virtual2 |-> 7, Virtual3 |-> 8],
   Duo  |-> [Physical1 |-> 0, Physical2 |-> 1, Physical3 |-> 2,
             Physical4 |-> 3, Virtual1 |-> 4, Virtual2 |-> 5,
             Virtual3 |-> 6, Virtual4 |-> 7, Virtual5 |-> 8]]

Faders == UNION {DOMAIN FaderIndex[model] : model \in {"Pro2", "Duo"}}

FaderToIndex(model, fader) ==
  {FaderIndex[model][f] : f \in {fader} \cap DOMAIN FaderIndex[model]}

FaderFromIndex(model, n) ==
  {f \in DOMAIN FaderIndex[model] : FaderIndex[model][f] = n}

(* The first of these options that there is.                               *)
FirstOf(options) ==
  UNION {options[i] : i \in {j \in DOMAIN options :
                               \A k \in 1 .. j - 1 : options[k] = {}}}

(* find_bool_property, depth first: a node's own property goes before those*)
(* of its children, and one that is no Bool is as good as absent.          *)
FindAt(own, below) == IF own # {} THEN own ELSE FirstOf(below)

(* Kids that have none of the properties.                                  *)
NoKidProps == [name \in {} |-> NoProps]

KidPropsOf(name) == IF name \in DOMAIN KidProps THEN KidProps[name] ELSE NoProps

FindIn(node, prop) ==
  FindAt(node.props[prop],
         [k \in DOMAIN node.kids |-> KidPropsOf(node.kids[k])[prop]])

FindProperty(tree, prop) ==
  FindAt(RootProps[prop], [i \in DOMAIN tree |-> FindIn(tree[i], prop)])

IsInSetup(tree) ==
  LET on(prop) == TRUE \in FindProperty(tree, prop)
  IN  \/ on("disableAllPhysicalButtons")
      \/ on("disableAllLineoutOutputs") /\ on("disableAllHeadphoneOutputs")

Counted == {"CHANNEL", "INPUTSOURCE", "HEADPHONE", "EFFECTS_PARAMETERS",
            "SIPCALLSLOTS"}

(* DeviceCapabilities::discover.                                           *)
Discover(tree, layout) ==
  [model   |-> layout.model,
   faders  |-> UNION {FaderFromIndex(layout.model, n) :
                        n \in 0 .. layout.nested["FADER"].count - 1},
   sources |-> 0 .. (IF layout.sourceCount < NamedSources
                     THEN layout.sourceCount ELSE NamedSources) - 1,
   mixes   |-> 0 .. MixPerSource - 1,
   counts  |-> [n \in Counted |-> layout.run[n].count],
   pads    |-> layout.nested["PAD"].count,
   sipRegistrations |-> layout.nested["SIPREGISTRATION"].count,
   isInSetup |-> IsInSetup(tree)]
=============================================================================
