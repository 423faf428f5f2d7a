---------------------------- MODULE InitialState ----------------------------
(***************************************************************************)
(* The events a full sync stands for (extract_initial_state of             *)
(* src/src/events.rs).  The walk over the tree keeps counters of its own   *)
(* and does not ask the layout where a run ends.                           *)
(***************************************************************************)
EXTENDS Events

(* Nodes numbered by their place among all siblings.                       *)
CounterMutant(names, p) == p

(* The value of the counter when the walk comes to position p.             *)
Counter(names, p) ==
  Cardinality({q \in 0 .. p - 1 : names[q + 1] = names[p + 1]})

BrokenOff(names, p) ==
  \E q, r \in 0 .. p : /\ q < r
                       /\ names[q + 1] = names[p + 1]
                       /\ names[r + 1] # names[p + 1]

(* Every node of these names is counted ...                                *)
CountedRuns == {"FADER", "CHANNEL", "MIX", "INPUTSOURCE", "HEADPHONE"}

(* ... these up to the end of their first run ...                          *)
FirstRuns == {"EFFECTS_PARAMETERS", "PAD"}

(* ... and of these only the first is looked at.                           *)
FirstNodes == {"MASTERCHANNEL", "OUTPUT", "DUCKER", "RECORDER", "PLAYER",
               "GUI", "SYSTEM"}

(* The properties reported of a node.                                      *)
Reported(name) ==
  IF name = "MIX" THEN MixProps \ {"mixLinkRequest", "mixUnlinkRequest"}
                  ELSE Carried(name)

(* The address of the node at position p among its siblings.  A source     *)
(* number is cut to a u8, an ordinal sticks at the largest u8.             *)
InitialAddress(layout, names, p) ==
  LET name == names[p + 1]
      n    == Counter(names, p)
  IN  CASE name = "MIX" ->
             Named(layout, Address(name, <<(n \div MixPerSource) % (U8Max + 1),
                                           n % MixPerSource>>))
        [] name = "INPUTSOURCE" ->
             IF n <= U8Max THEN Named(layout, Address(name, <<n>>)) ELSE {}
        [] name \in CountedRuns \ {"MIX", "INPUTSOURCE"} ->
             Named(layout, Address(name, <<Saturate(n)>>))
        [] name \in FirstRuns ->
             IF BrokenOff(names, p) THEN {} ELSE {Address(name, <<Saturate(n)>>)}
        [] name \in FirstNodes ->
             IF n = 0 THEN {Address(name, <<>>)} ELSE {}
        [] OTHER -> {}

(* Only the children of these containers are walked, FADER and PAD in      *)
(* nothing else.                                                           *)
Walked == [PHYSICALINTERFACE |-> "FADER", SOUNDPADS |-> "PAD"]

(* Each event with the path and the property it is taken from.             *)
InitialEvents(tree, layout) ==
  LET names == [i \in DOMAIN tree |-> tree[i].name]
      of(path, siblings, p) ==
        {[path |-> path, name |-> prop, event |-> a] :
           prop \in Reported(siblings[p + 1]),
           a \in InitialAddress(layout, siblings, p)}
      atRoot == {p \in 0 .. Len(tree) - 1 : names[p + 1] \notin {"FADER", "PAD"}}
      inside(c, p) == {k \in 0 .. Len(tree[p + 1].kids) - 1 :
                         tree[p + 1].kids[k + 1] = Walked[c]}
  IN  (UNION {of(<<p>>, names, p) : p \in atRoot}) \cup
      UNION {UNION {UNION {of(<<p, k>>, tree[p + 1].kids, k) : k \in inside(c, p)} :
                      p \in FirstNamed(names, c)} :
               c \in DOMAIN Walked}
=============================================================================
