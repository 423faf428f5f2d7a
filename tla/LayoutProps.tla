---------------------------- MODULE LayoutProps ----------------------------
(***************************************************************************)
(* What the address map promises, over every tree a console can reach by   *)
(* structural changes from the one it starts with.                         *)
(***************************************************************************)
EXTENDS Topology

CONSTANT InitialTree

ASSUME InitialTreeAssumption ==
  /\ InitialTree \in Seq(Node)
  /\ Len(InitialTree) <= MaxNodes
  /\ \A i \in DOMAIN InitialTree : Len(InitialTree[i].kids) <= MaxKids
  /\ \A node \in Nodes : Len(node.kids) <= MaxKids

VARIABLE tree

Init == tree = InitialTree
Next == tree' \in Edits(tree)
Spec == Init /\ [][Next]_tree

-----------------------------------------------------------------------------
(* The tree stays within its bounds and is made of known nodes; the counts *)
(* of every layout fit their u8, and a run that was not found is empty.    *)
TypeOK ==
  /\ tree \in Seq(Node)
  /\ Len(tree) <= MaxNodes
  /\ \A i \in DOMAIN tree : Len(tree[i].kids) <= MaxKids
  /\ \A layout \in FromFullSync(tree) :
       /\ layout.sourceCount \in 1 .. U8Max
       /\ \A n \in RootRuns :
            /\ layout.run[n].count \in 0 .. U8Max
            /\ layout.run[n].first = {} <=> layout.run[n].count = 0
       /\ \A n \in NestedRuns :
            /\ layout.nested[n].count \in 0 .. U8Max
            /\ layout.nested[n].parent = {} => layout.nested[n].count = 0

(* A command cannot be routed to a foreign node: whatever logical address  *)
(* Layout turns into a path, the node there has that family's name and     *)
(* stands at that ordinal (layout.rs "no panic, no misroute", 155-157).    *)
EncodedPathsReachTheirNode ==
  \A layout \in FromFullSync(tree) : \A a \in AllAddresses :
    \A path \in PathOf(layout, a) :
      path \in NodePaths(tree) /\ TrueAddress(tree, path) = {a}

(* An event cannot be attributed to a foreign node: every path in or near  *)
(* the tree resolves to what the node there is, or to nothing, and to      *)
(* nothing only past a saturated run, or below a container that the layout *)
(* does not search for that family.                                        *)
ResolvedPathsAreTrue ==
  \A layout \in FromFullSync(tree) :
    \A path \in [1 .. 1 -> 0 .. MaxNodes] \cup
                [1 .. 2 -> 0 .. (MaxNodes + MaxKids)] :
      LET truth == IF path \in NodePaths(tree) THEN TrueAddress(tree, path)
                   ELSE {}
      IN  /\ Resolve(layout, path) \subseteq truth
          /\ \A a \in truth \ Resolve(layout, path) :
               \/ Len(a.index) = 1 /\ a.index[1] >= U8Max
               \/ OutOfReach(path, a)

(* The order in which the resolver tries the families cannot matter: no    *)
(* path belongs to two of them (events.rs "node index ranges are disjoint",*)
(* 868-869 and 955-957).                                                   *)
FamiliesAreDisjoint ==
  \A layout \in FromFullSync(tree) : \A path \in NodePaths(tree) :
    Cardinality(Resolve(layout, path)) <= 1
=============================================================================
