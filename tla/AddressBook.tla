---------------------------- MODULE AddressBook -----------------------------
(***************************************************************************)
(* What a session promises its client, with the messages left out.         *)
(*                                                                         *)
(* The console goes through topologies; the client has been told of some   *)
(* prefix of them; its address book is either empty or the one of the      *)
(* topology it was last told of.  It is never carried over to another one: *)
(* whoever hears of a topology has its book or an empty one.               *)
(***************************************************************************)
EXTENDS Integers, Sequences

CONSTANTS
  InitialTree,
  Changed(_),  (* the trees a tree can change into                         *)
  MapOf(_)     (* the address map of a tree: at most one                   *)

VARIABLES topologies, told, book

bookVars == <<topologies, told, book>>

Init == topologies = <<InitialTree>> /\ told = 1 /\ book = {}

Change ==
  /\ \E tree \in Changed(topologies[Len(topologies)]) :
       topologies' = Append(topologies, tree)
  /\ UNCHANGED <<told, book>>

Hear ==
  /\ told' \in told .. Len(topologies)
  /\ book' = {}
  /\ UNCHANGED topologies

Learn ==
  /\ told' \in told .. Len(topologies)
  /\ book' = MapOf(topologies[told'])
  /\ UNCHANGED topologies

Spec == Init /\ [][Change \/ Hear \/ Learn]_bookVars
=============================================================================
