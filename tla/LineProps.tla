----------------------------- MODULE LineProps ------------------------------
(***************************************************************************)
(* Where the lines typed at the prompt end up, over every tree a console   *)
(* can reach by structural changes from the one it starts with.            *)
(***************************************************************************)
EXTENDS LayoutProps, CommandLine

(* The number of a CallMe is past any console's tree: 16 * 256 and more.   *)
ASSUME CallMeAssumption ==
  \A source \in CallMeSources : MaxNodes <= RequestPath(source, 0)[1]

(* No line reaches a node it does not name.  A CallMe request, whose path  *)
(* is a number the layout has no part in (commands.rs 56-62), reaches no   *)
(* node at all: only the prompt sees to it that its source is a CallMe,    *)
(* whose number puts the path past the end of the tree.                    *)
LinesReachOnlyWhatTheyName ==
  \A layout \in FromFullSync(tree), line \in Lines :
    \A path \in TargetPath(layout, line.family, line.index) \cap NodePaths(tree) :
      /\ line.family # "CALLME"
      /\ TrueAddress(tree, path) = Target(layout, line.family, line.index)
=============================================================================
