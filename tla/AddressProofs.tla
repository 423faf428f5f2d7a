---------------------------- MODULE AddressProofs ---------------------------
(***************************************************************************)
(* The address map is true to the tree it was made from, for every tree    *)
(* and every value of the constants: what the layout calls the k-th node   *)
(* of a family is the k-th of the first unbroken run of that name, counted *)
(* in the tree.                                                            *)
(***************************************************************************)
EXTENDS Topology, SequenceTheorems, FiniteSetTheorems, WellFoundedInduction, TLAPS

-----------------------------------------------------------------------------
(* A structural change makes a tree of a tree.                             *)

(* What removing an element of a sequence leaves.                          *)
LEMMA RemoveAtProperties ==
  ASSUME NEW S, NEW seq \in Seq(S), NEW i \in 1 .. Len(seq)
  PROVE  RemoveAt(seq, i) \in Seq(S) /\ Len(RemoveAt(seq, i)) = Len(seq) - 1
<1>1. Len(seq) \in Nat /\ i \in Nat /\ i >= 1 /\ i <= Len(seq)
  BY LenProperties
<1>2. /\ SubSeq(seq, 1, i - 1) \in Seq(S)
      /\ Len(SubSeq(seq, 1, i - 1)) = i - 1
  BY <1>1, SubSeqProperties, ElementOfSeq
<1>3. /\ SubSeq(seq, i + 1, Len(seq)) \in Seq(S)
      /\ Len(SubSeq(seq, i + 1, Len(seq))) = Len(seq) - i
  BY <1>1, SubSeqProperties, ElementOfSeq
<1> DEFINE before == SubSeq(seq, 1, i - 1)
           after == SubSeq(seq, i + 1, Len(seq))
<1>4. /\ RemoveAt(seq, i) = before \o after
      /\ before \in Seq(S) /\ after \in Seq(S)
      /\ Len(before) = i - 1 /\ Len(after) = Len(seq) - i
  BY <1>2, <1>3, Zenon DEF RemoveAt
<1> HIDE DEF before, after
<1>5. before \o after \in Seq(S) /\ Len(before \o after) = Len(before) + Len(after)
  BY <1>4, ConcatProperties
<1>6. Len(before) + Len(after) = Len(seq) - 1
  BY <1>1, <1>4
<1>7. QED BY <1>4, <1>5, <1>6

(* What inserting an element makes of a sequence.                          *)
LEMMA InsertAtProperties ==
  ASSUME NEW S, NEW seq \in Seq(S), NEW x \in S,
         NEW i \in Nat, 1 <= i, i <= Len(seq) + 1
  PROVE  InsertAt(seq, i, x) \in Seq(S) /\ Len(InsertAt(seq, i, x)) = Len(seq) + 1
<1>1. Len(seq) \in Nat /\ \A j \in 1 .. Len(seq) : seq[j] \in S
  BY LenProperties, ElementOfSeq
<1>2. SubSeq(seq, 1, i - 1) \in Seq(S) /\ Len(SubSeq(seq, 1, i - 1)) = i - 1
  BY <1>1, SubSeqProperties
<1>3. /\ SubSeq(seq, i, Len(seq)) \in Seq(S)
      /\ Len(SubSeq(seq, i, Len(seq))) = Len(seq) - i + 1
  BY <1>1, SubSeqProperties
<1> DEFINE before == SubSeq(seq, 1, i - 1)
           after == SubSeq(seq, i, Len(seq))
<1>4. /\ InsertAt(seq, i, x) = before \o <<x>> \o after
      /\ before \in Seq(S) /\ after \in Seq(S)
      /\ Len(before) = i - 1 /\ Len(after) = Len(seq) - i + 1
  BY <1>2, <1>3, Zenon DEF InsertAt
<1> HIDE DEF before, after
<1>5. <<x>> \in Seq(S) /\ Len(<<x>>) = 1
  OBVIOUS
<1> DEFINE front == before \o <<x>>
<1>6. front \in Seq(S) /\ Len(front) = i
  BY <1>4, <1>5, ConcatProperties
<1> HIDE DEF front
<1>7. front \o after \in Seq(S) /\ Len(front \o after) = Len(front) + Len(after)
  BY <1>4, <1>6, ConcatProperties
<1>8. Len(front) + Len(after) = Len(seq) + 1
  BY <1>1, <1>4, <1>6
<1>9. QED BY <1>4, <1>7, <1>8 DEF front

(* Removing, moving or adding one element of a sequence of S gives a       *)
(* sequence of S, longer only if there was room: the children of a node    *)
(* stay nodes, and stay within their bound.                                *)
LEMMA EditedType ==
  ASSUME NEW S, NEW seq \in Seq(S), NEW new \in SUBSET S, NEW max
  PROVE  \A edited \in Edited(seq, new, max) :
           /\ edited \in Seq(S)
           /\ Len(edited) <= Len(seq)
              \/ (Len(seq) < max /\ Len(edited) = Len(seq) + 1)
<1>1. DOMAIN seq = 1 .. Len(seq) /\ Len(seq) \in Nat
      /\ \A i \in 1 .. Len(seq) : seq[i] \in S
  BY LenProperties, ElementOfSeq
<1>2. \A i \in DOMAIN seq :
        RemoveAt(seq, i) \in Seq(S) /\ Len(RemoveAt(seq, i)) = Len(seq) - 1
  BY <1>1, RemoveAtProperties
<1>3. \A i, j \in DOMAIN seq :
        LET moved == InsertAt(RemoveAt(seq, i), j, seq[i])
        IN  moved \in Seq(S) /\ Len(moved) = Len(seq)
  <2>1. TAKE i, j \in DOMAIN seq
  <2> DEFINE rest == RemoveAt(seq, i)
  <2>2. rest \in Seq(S) /\ Len(rest) = Len(seq) - 1 /\ seq[i] \in S
    BY <1>1, <1>2, Zenon
  <2>3. j \in Nat /\ 1 <= j /\ j <= (Len(seq) - 1) + 1 /\ (Len(seq) - 1) + 1 = Len(seq)
    BY <1>1
  <2> HIDE DEF rest
  <2>4. InsertAt(rest, j, seq[i]) \in Seq(S)
        /\ Len(InsertAt(rest, j, seq[i])) = Len(rest) + 1
    BY <2>2, <2>3, InsertAtProperties
  <2>5. QED BY <2>2, <2>3, <2>4 DEF rest
<1>4. \A i \in 1 .. Len(seq) + 1, x \in new :
        InsertAt(seq, i, x) \in Seq(S) /\ Len(InsertAt(seq, i, x)) = Len(seq) + 1
  BY <1>1, InsertAtProperties
<1> DEFINE Moved(i, j) == InsertAt(RemoveAt(seq, i), j, seq[i])
           Good(s) == /\ s \in Seq(S)
                      /\ Len(s) <= Len(seq)
                         \/ (Len(seq) < max /\ Len(s) = Len(seq) + 1)
<1>5. \A s \in {RemoveAt(seq, i) : i \in DOMAIN seq} : Good(s)
  <2>1. Len(seq) - 1 <= Len(seq)
    BY <1>1
  <2>2. \A i \in DOMAIN seq : Len(RemoveAt(seq, i)) <= Len(seq)
    BY <1>2, <2>1, Zenon
  <2>3. QED BY <1>2, <2>2
<1>6. \A s \in {Moved(i, j) : i \in DOMAIN seq, j \in DOMAIN seq} : Good(s)
  <2>1. \A i, j \in DOMAIN seq : Moved(i, j) \in Seq(S) /\ Len(Moved(i, j)) = Len(seq)
    BY <1>3
  <2> HIDE DEF Moved
  <2>2. QED BY <1>1, <2>1
<1>7. Len(seq) < max =>
        \A s \in {InsertAt(seq, i, x) : i \in 1 .. Len(seq) + 1, x \in new} : Good(s)
  BY <1>1, <1>4
<1> HIDE DEF Good
<1>8. \A s \in Edited(seq, new, max) : Good(s)
  BY <1>5, <1>6, <1>7 DEF Edited
<1>9. QED BY <1>8 DEF Good

(* So a tree of nodes of some sort stays one, if only such nodes are added *)
(* and what is inside a node does not matter to it.                        *)
LEMMA EditsKeepNodes ==
  ASSUME NEW S \in SUBSET Node, Nodes \subseteq S,
         \A node \in S, kids \in Seq(STRING) : [node EXCEPT !.kids = kids] \in S,
         NEW tree \in Seq(S)
  PROVE  Edits(tree) \subseteq Seq(S)
<1>1. Edited(tree, Nodes, MaxNodes) \subseteq Seq(S)
  BY EditedType
<1>2. ASSUME NEW i \in DOMAIN tree,
             NEW kids \in Edited(tree[i].kids, KidNames, MaxKids)
      PROVE  [tree EXCEPT ![i].kids = kids] \in Seq(S)
  <2>1. tree[i] \in S /\ tree[i] \in Node /\ i \in 1 .. Len(tree)
    BY LenProperties, ElementOfSeq
  <2>2. tree[i].kids \in Seq(STRING)
    BY <2>1 DEF Node
  <2>3. kids \in Seq(STRING)
    BY <2>2, EditedType, TopologyAssumption
  <2>4. [tree[i] EXCEPT !.kids = kids] \in S
    BY <2>1, <2>3
  <2>5. [tree EXCEPT ![i] = [tree[i] EXCEPT !.kids = kids]] \in Seq(S)
    BY <2>1, <2>4, ExceptSeq
  <2>6. QED BY <2>5
<1>3. QED BY <1>1, <1>2 DEF Edits

(* The console's tree stays a tree of known nodes, whatever it goes        *)
(* through.                                                                *)
THEOREM EditsAreTrees ==
  ASSUME NEW tree \in Seq(Node)
  PROVE  Edits(tree) \subseteq Seq(Node)
<1>1. \A node \in Node, kids \in Seq(STRING) : [node EXCEPT !.kids = kids] \in Node
  BY DEF Node
<1>2. QED BY <1>1, TopologyAssumption, EditsKeepNodes

-----------------------------------------------------------------------------
(* Runs of siblings.                                                       *)

Less == {p \in Nat \X Nat : p[1] < p[2]}

(* Of any naturals, one is the least.                                      *)
LEMMA LeastNatural ==
  ASSUME NEW T \in SUBSET Nat, T # {}
  PROVE  \E x \in T : \A y \in T : x <= y
<1>1. IsWellFoundedOn(Less, Nat)
  BY NatLessThanWellFounded DEF OpToRel, Less
<1>2. PICK x \in T : \A y \in T : <<y, x>> \notin Less
  BY <1>1, WFMin
<1>3. \A y \in T : ~ (y < x)
  BY <1>2 DEF Less
<1>4. QED BY <1>3

(* The first sibling of a name is one of that name and the only first one. *)
LEMMA FirstIsUnique ==
  ASSUME NEW names \in Seq(STRING), NEW n, NEW p \in FirstNamed(names, n)
  PROVE  /\ p \in 0 .. Len(names) - 1
         /\ names[p + 1] = n
         /\ \A q \in 0 .. p - 1 : names[q + 1] # n
         /\ FirstNamed(names, n) = {p}
         /\ (CHOOSE q \in FirstNamed(names, n) : TRUE) = p
<1>1. Len(names) \in Nat
  BY LenProperties
<1>2. /\ p \in 0 .. Len(names) - 1
      /\ names[p + 1] = n
      /\ \A q \in 0 .. p - 1 : names[q + 1] # n
  BY DEF FirstNamed
<1>3. \A r \in FirstNamed(names, n) : r = p
  <2>1. TAKE r \in FirstNamed(names, n)
  <2>2. /\ r \in 0 .. Len(names) - 1
        /\ names[r + 1] = n
        /\ \A q \in 0 .. r - 1 : names[q + 1] # n
    BY DEF FirstNamed
  <2>3. ~(r < p) /\ ~(p < r)
    BY <1>1, <1>2, <2>2
  <2>4. QED BY <1>1, <1>2, <2>2, <2>3
<1>4. QED BY <1>2, <1>3

(* If any sibling has the name, one is the first.                          *)
LEMMA FirstExists ==
  ASSUME NEW names \in Seq(STRING), NEW p \in 0 .. Len(names) - 1
  PROVE  \E q \in FirstNamed(names, names[p + 1]) : q <= p
<1> DEFINE T == {q \in 0 .. p : names[q + 1] = names[p + 1]}
<1>1. Len(names) \in Nat /\ p \in Nat
  BY LenProperties
<1>2. T \subseteq Nat /\ p \in T
  BY <1>1
<1>3. PICK x \in T : \A y \in T : x <= y
  BY <1>2, LeastNatural
<1>4. \A q \in 0 .. x - 1 : names[q + 1] # names[p + 1]
  BY <1>1, <1>3
<1>5. x \in FirstNamed(names, names[p + 1])
  BY <1>1, <1>3, <1>4 DEF FirstNamed
<1>6. QED BY <1>1, <1>3, <1>5

(* The run that is counted has the name throughout and ends where the name *)
(* does.                                                                   *)
LEMMA ConsecutiveCounts ==
  ASSUME NEW names \in Seq(STRING), NEW n, NEW p \in 0 .. Len(names)
  PROVE  LET c == Consecutive(names, p, n)
         IN  /\ c \in 0 .. Len(names) - p
             /\ \A q \in p .. p + c - 1 : names[q + 1] = n
             /\ p + c < Len(names) => names[p + c + 1] # n
<1> DEFINE T == {d \in 0 .. Len(names) - p :
                   p + d = Len(names) \/ names[p + d + 1] # n}
           Runs(c) == /\ \A q \in p .. p + c - 1 : names[q + 1] = n
                      /\ p + c < Len(names) => names[p + c + 1] # n
<1>1. Len(names) \in Nat /\ p \in Nat
  BY LenProperties
<1>2. Len(names) - p \in 0 .. Len(names) - p /\ 0 .. Len(names) - p \subseteq Nat
  BY <1>1
<1>3. T \subseteq Nat /\ T # {}
  <2>1. T \subseteq 0 .. Len(names) - p
    OBVIOUS
  <2>2. p + (Len(names) - p) = Len(names)
    BY <1>1
  <2>3. Len(names) - p \in T
    BY <1>2, <2>2
  <2>4. QED BY <1>2, <2>1, <2>3
<1>4. PICK c \in T : \A d \in T : c <= d
  BY <1>3, LeastNatural
<1>5. \A q \in p .. p + c - 1 : names[q + 1] = n
  <2>1. TAKE q \in p .. p + c - 1
  <2>2. c \in 0 .. Len(names) - p
    BY <1>4
  <2>3. /\ q - p \in 0 .. Len(names) - p
        /\ q - p < c /\ p + (q - p) < Len(names)
        /\ p + (q - p) + 1 = q + 1
    BY <1>1, <2>2
  <2>4. q - p \notin T
    <3> HIDE DEF T
    <3>1. QED BY <1>1, <1>4, <2>2, <2>3
  <2>5. QED BY <2>3, <2>4
<1>6. \E d \in 0 .. Len(names) - p : Runs(d)
  <2>1. c \in 0 .. Len(names) - p /\ (p + c = Len(names) \/ names[p + c + 1] # n)
    BY <1>4
  <2>2. p + c < Len(names) => names[p + c + 1] # n
    BY <1>1, <2>1
  <2>3. QED BY <1>5, <2>1, <2>2
<1>7. QED BY <1>6 DEF Consecutive

(* A sibling belongs to the first unbroken run of its name exactly if it   *)
(* is as far from the first as it has namesakes before it, and that far    *)
(* within the run.                                                         *)
LEMMA RunsHoldTheirSiblings ==
  ASSUME NEW names \in Seq(STRING), NEW n, NEW first \in FirstNamed(names, n),
         NEW k \in Nat, k < Consecutive(names, first, n)
  PROVE  /\ first + k \in 0 .. Len(names) - 1
         /\ names[first + k + 1] = n
         /\ InFirstRun(names, first + k)
         /\ Rank(names, first + k) = k
<1> DEFINE p == first + k
<1>1. Len(names) \in Nat /\ first \in 0 .. Len(names) - 1 /\ names[first + 1] = n
  BY LenProperties, FirstIsUnique
<1>2. \A q \in 0 .. first - 1 : names[q + 1] # n
  BY FirstIsUnique
<1>3. /\ Consecutive(names, first, n) \in 0 .. Len(names) - first
      /\ \A q \in first .. first + Consecutive(names, first, n) - 1 :
           names[q + 1] = n
  BY <1>1, ConsecutiveCounts
<1>4. Consecutive(names, first, n) \in Nat /\ p \in Nat
  BY <1>1, <1>3
<1>5. /\ p \in 0 .. Len(names) - 1
      /\ \A q \in first .. p : names[q + 1] = n
      /\ names[p + 1] = n
  <2>1. p \in 0 .. Len(names) - 1
    BY <1>1, <1>3, <1>4
  <2>2. first .. p \subseteq first .. first + Consecutive(names, first, n) - 1
    BY <1>1, <1>3, <1>4
  <2>3. p \in first .. p
    BY <1>1
  <2>4. QED BY <1>3, <2>1, <2>2, <2>3
<1>6. InFirstRun(names, p)
  BY <1>1, <1>2, <1>5 DEF InFirstRun
<1>7. {q \in 0 .. p - 1 : names[q + 1] = names[p + 1]} = first .. p - 1
  BY <1>1, <1>2, <1>5
<1>8. Cardinality(first .. p - 1) = k
  BY <1>1, FS_Interval
<1>9. Rank(names, p) = k
  BY <1>7, <1>8 DEF Rank
<1>10. QED BY <1>5, <1>6, <1>9

(* And the other way round: a sibling of the first unbroken run is counted *)
(* in it.                                                                  *)
LEMMA SiblingsAreInTheirRun ==
  ASSUME NEW names \in Seq(STRING), NEW p \in 0 .. Len(names) - 1,
         InFirstRun(names, p), NEW first \in FirstNamed(names, names[p + 1])
  PROVE  /\ first \in 0 .. p
         /\ Rank(names, p) = p - first
         /\ p - first < Consecutive(names, first, names[p + 1])
<1> DEFINE n == names[p + 1]
           c == Consecutive(names, first, n)
<1>1. Len(names) \in Nat /\ first \in 0 .. Len(names) - 1 /\ names[first + 1] = n
  BY LenProperties, FirstIsUnique
<1>2. \A q \in 0 .. first - 1 : names[q + 1] # n
  BY FirstIsUnique
<1>3. first \in 0 .. p /\ p \in Nat /\ first \in Nat /\ p - 1 \in Int
  BY <1>1, <1>2
<1>4. \A q \in first .. p : names[q + 1] = n
  BY <1>1, <1>3 DEF InFirstRun
<1>5. {q \in 0 .. p - 1 : names[q + 1] = n} = first .. p - 1
  BY <1>1, <1>2, <1>3, <1>4
<1>6. Cardinality(first .. p - 1) = p - first
  <2>1. Cardinality(first .. p - 1) = IF first > p - 1 THEN 0 ELSE p - 1 - first + 1
    BY <1>3, FS_Interval
  <2>2. QED BY <1>3, <2>1
<1>7. c \in 0 .. Len(names) - first
        /\ (first + c < Len(names) => names[first + c + 1] # n)
  BY <1>1, ConsecutiveCounts
<1>8. p - first < c
  <2> HIDE DEF c
  <2>1. SUFFICES ASSUME c <= p - first PROVE FALSE
    BY <1>1, <1>3, <1>7
  <2>2. first + c \in first .. p /\ first + c < Len(names)
    BY <1>1, <1>3, <1>7, <2>1
  <2>3. QED BY <1>4, <1>7, <2>2
<1>9. Rank(names, p) = p - first
  BY <1>5, <1>6 DEF Rank
<1>10. QED BY <1>3, <1>8, <1>9

-----------------------------------------------------------------------------
(* What the node at a path is.                                             *)

(* The names of a tree are names, one of each node.                        *)
LEMMA NamesOfTree ==
  ASSUME NEW tree \in Seq(Node)
  PROVE  /\ Names(tree) \in Seq(STRING)
         /\ Len(Names(tree)) = Len(tree) /\ Len(tree) \in Nat
         /\ \A p \in 0 .. Len(tree) - 1 :
              /\ Names(tree)[p + 1] = tree[p + 1].name
              /\ tree[p + 1].kids \in Seq(STRING)
<1>1. Len(tree) \in Nat /\ DOMAIN tree = 1 .. Len(tree)
  BY LenProperties
<1>2. \A i \in 1 .. Len(tree) : tree[i] \in Node
  BY ElementOfSeq
<1>3. \A i \in 1 .. Len(tree) : tree[i].name \in STRING /\ tree[i].kids \in Seq(STRING)
  BY <1>2 DEF Node
<1>4. Names(tree) = [i \in 1 .. Len(tree) |-> tree[i].name]
  BY <1>1 DEF Names
<1>5. Names(tree) \in Seq(STRING) /\ Len(Names(tree)) = Len(tree)
  BY <1>1, <1>3, <1>4
<1>6. QED BY <1>1, <1>3, <1>4, <1>5

(* A node's path is a sequence of positions.                               *)
LEMMA NodePathsAreSequences ==
  ASSUME NEW tree \in Seq(Node)
  PROVE  NodePaths(tree) \subseteq Seq(Nat)
<1>1. \A i \in DOMAIN tree : <<i - 1>> \in Seq(Nat)
  BY LenProperties
<1>2. \A i \in DOMAIN tree : \A k \in DOMAIN tree[i].kids :
        <<i - 1, k - 1>> \in Seq(Nat)
  <2>1. TAKE i \in DOMAIN tree
  <2>2. TAKE k \in DOMAIN tree[i].kids
  <2>3. i - 1 \in Nat
    BY LenProperties
  <2>4. tree[i].kids \in Seq(STRING)
    <3>1. i \in 1 .. Len(tree)
      BY LenProperties
    <3>2. tree[i] \in Node
      BY <3>1, ElementOfSeq
    <3>3. QED BY <3>2 DEF Node
  <2>5. k - 1 \in Nat
    BY <2>4, LenProperties
  <2>6. QED BY <2>3, <2>5
<1>3. SUFFICES ASSUME NEW path \in NodePaths(tree) PROVE path \in Seq(Nat)
  OBVIOUS
<1>4. \/ \E i \in DOMAIN tree : path = <<i - 1>>
      \/ \E i \in DOMAIN tree : \E k \in DOMAIN tree[i].kids :
           path = <<i - 1, k - 1>>
  BY Zenon DEF NodePaths
<1>5. QED BY <1>1, <1>2, <1>4

(* The layout knows every family the console has, and where to seek all of *)
(* them but those it knows under the root alone.                           *)
LEMMA TablesAgree ==
  /\ Many = RootRuns /\ One = Singletons
  /\ \A f \in NestedRuns : f \in DOMAIN KeptIn /\ KeptIn[f] = Container[f]
  /\ DOMAIN KeptIn \ NestedRuns \subseteq RootRuns
<1>1. Many = RootRuns /\ One = Singletons
  BY DEF Many, One, RootRuns, Singletons
<1>2. \A f \in NestedRuns : f \in DOMAIN KeptIn /\ KeptIn[f] = Container[f]
  BY DEF NestedRuns, KeptIn, Container
<1>3. DOMAIN KeptIn \ NestedRuns \subseteq RootRuns
  BY DEF NestedRuns, KeptIn, RootRuns
<1>4. QED BY <1>1, <1>2, <1>3

(* What the reference says of a child of the root, family by family.       *)
LEMMA TrueTop ==
  ASSUME NEW tree, NEW p, InFirstRun(Names(tree), p)
  PROVE  LET name == Names(tree)[p + 1]
             rank == Rank(Names(tree), p)
         IN  /\ name \in RootRuns =>
                  TrueAddress(tree, <<p>>) = {Address(name, <<rank>>)}
             /\ name = "MIX" =>
                  TrueAddress(tree, <<p>>) =
                    {Address(name, <<rank \div MixPerSource, rank % MixPerSource>>)}
             /\ name \in Singletons /\ rank = 0 =>
                  TrueAddress(tree, <<p>>) = {Address(name, <<>>)}
<1>1. TrueAddress(tree, <<p>>) = TrueAtTop(Names(tree), p)
  BY DEF TrueAddress
<1>2. "MIX" \notin RootRuns /\ "MIX" \notin Singletons
      /\ RootRuns \cap Singletons = {}
  BY DEF RootRuns, Singletons
<1>3. QED BY <1>1, <1>2, TablesAgree DEF TrueAtTop

(* And of a child of one of these.                                         *)
LEMMA TrueKid ==
  ASSUME NEW tree, NEW p, NEW k
  PROVE  TrueAddress(tree, <<p, k>>) =
           TrueBelow(Names(tree), p, tree[p + 1].kids, k)
BY DEF TrueAddress

-----------------------------------------------------------------------------
(* Cells of the mix matrix are numbered row by row.                        *)
LEMMA CellsInRows ==
  ASSUME NEW s \in Nat, NEW m \in 0 .. MixPerSource - 1
  PROVE  /\ s * MixPerSource + m \in Nat
         /\ (s * MixPerSource + m) \div MixPerSource = s
         /\ (s * MixPerSource + m) % MixPerSource = m
BY LayoutAssumption, SMTT(60)

(* A matrix of whole rows is as long as its rows together.                 *)
LEMMA WholeRows ==
  ASSUME NEW total \in Nat, total % MixPerSource = 0
  PROVE  /\ total \div MixPerSource \in Nat
         /\ total = (total \div MixPerSource) * MixPerSource
BY LayoutAssumption, SMTT(60)

(* The cells of a row below the last are in the matrix.                    *)
LEMMA RowsFit ==
  ASSUME NEW rows \in Nat, NEW s \in Nat, s < rows, NEW m \in 0 .. MixPerSource - 1
  PROVE  s * MixPerSource + m < rows * MixPerSource
BY LayoutAssumption, SMTT(60)

(* Every cell has a row and a place in it.                                 *)
LEMMA RowsOfCell ==
  ASSUME NEW k \in Nat
  PROVE  /\ k \div MixPerSource \in Nat /\ k % MixPerSource \in 0 .. MixPerSource - 1
         /\ k = (k \div MixPerSource) * MixPerSource + (k % MixPerSource)
BY LayoutAssumption, SMTT(60)

-----------------------------------------------------------------------------
(* What discovery finds of a run: its first node and how many there are,   *)
(* cut short only by a full counter.                                       *)
LEMMA Discovered ==
  ASSUME NEW names \in Seq(STRING), NEW n
  PROVE  LET run == DiscoverRun(names, n)
         IN  /\ run.first = FirstNamed(names, n)
             /\ run.count \in 0 .. U8Max
             /\ run.first = {} <=> run.count = 0
             /\ \A first \in run.first :
                  /\ run.count <= Consecutive(names, first, n)
                  /\ run.count < Consecutive(names, first, n) => run.count = U8Max
<1> DEFINE run == DiscoverRun(names, n)
<1>1. U8Max \in Nat \ {0} /\ Len(names) \in Nat
  BY LayoutAssumption, LenProperties
<1>2. CASE FirstNamed(names, n) = {}
  BY <1>1, <1>2 DEF DiscoverRun
<1>3. ASSUME NEW first \in FirstNamed(names, n)
      PROVE  /\ run.first = {first} /\ FirstNamed(names, n) = {first}
             /\ run.count \in 0 .. U8Max /\ run.count # 0
             /\ run.count <= Consecutive(names, first, n)
             /\ run.count < Consecutive(names, first, n) => run.count = U8Max
  <2> DEFINE c == Consecutive(names, first, n)
  <2>1. /\ first \in 0 .. Len(names) - 1 /\ names[first + 1] = n
        /\ FirstNamed(names, n) = {first}
        /\ (CHOOSE q \in FirstNamed(names, n) : TRUE) = first
    BY FirstIsUnique
  <2>2. /\ c \in 0 .. Len(names) - first
        /\ first + c < Len(names) => names[first + c + 1] # n
    BY <1>1, <2>1, ConsecutiveCounts
  <2>3. c # 0
    BY <1>1, <2>1, <2>2
  <2>4. run.first = {first} /\ run.count = Saturate(c)
    BY <2>1 DEF DiscoverRun
  <2>5. c \in Nat
    BY <1>1, <2>1, <2>2
  <2> HIDE DEF c, run
  <2>6. QED BY <1>1, <2>1, <2>3, <2>4, <2>5 DEF Saturate, c
<1>4. run.first = FirstNamed(names, n)
  BY DEF DiscoverRun
<1>5. CASE FirstNamed(names, n) # {}
  BY <1>3, <1>4, <1>5
<1>6. QED BY <1>2, <1>5

(* What discovery finds of the mix matrix.                                 *)
LEMMA DiscoveredMix ==
  ASSUME NEW tree \in Seq(Node), Supported(tree)
  PROVE  LET names == Names(tree)
             first == LayoutOf(tree).firstMix
         IN  /\ first \in FirstNamed(names, "MIX") /\ first \in Nat
             /\ LayoutOf(tree).sourceCount \in Nat
             /\ Consecutive(names, first, "MIX") =
                  LayoutOf(tree).sourceCount * MixPerSource
<1> DEFINE names == Names(tree)
           first == CHOOSE p \in FirstNamed(names, "MIX") : TRUE
           total == MixTotal(tree)
<1>1. names \in Seq(STRING) /\ Len(names) \in Nat
  BY NamesOfTree
<1>2. total # 0 /\ total % MixPerSource = 0
  BY DEF Supported
<1>3. FirstNamed(names, "MIX") # {}
  BY <1>2 DEF MixTotal
<1>4. /\ first \in FirstNamed(names, "MIX") /\ first \in 0 .. Len(names) - 1
      /\ total = Consecutive(names, first, "MIX")
  BY <1>1, <1>3, FirstIsUnique DEF MixTotal
<1>5. total \in Nat
  BY <1>1, <1>4, ConsecutiveCounts
<1>6. total \div MixPerSource \in Nat /\ total = (total \div MixPerSource) * MixPerSource
  BY <1>2, <1>5, WholeRows
<1>7. LayoutOf(tree).firstMix = first
      /\ LayoutOf(tree).sourceCount = total \div MixPerSource
  BY DEF LayoutOf
<1>8. QED BY <1>1, <1>4, <1>6, <1>7

(* The same of a run inside a container, which is the first node of its    *)
(* name.                                                                   *)
LEMMA DiscoveredNested ==
  ASSUME NEW tree \in Seq(Node), NEW f \in NestedRuns
  PROVE  LET nested == DiscoverNested(tree, f)
         IN  /\ nested.parent = FirstNamed(Names(tree), Container[f])
             /\ nested.first \in Nat
             /\ nested.count \in 0 .. U8Max
             /\ nested.parent = {} => nested.count = 0
             /\ \A p \in nested.parent :
                  LET kids == tree[p + 1].kids
                      c == Consecutive(kids, nested.first, f)
                  IN  /\ nested.count = 0 <=> FirstNamed(kids, f) = {}
                      /\ nested.count # 0 =>
                           /\ nested.first \in FirstNamed(kids, f)
                           /\ nested.count <= c
                           /\ nested.count < c => nested.count = U8Max
<1> DEFINE names == Names(tree)
           parents == FirstNamed(names, Container[f])
           nested == DiscoverNested(tree, f)
<1>1. names \in Seq(STRING) /\ Len(names) = Len(tree) /\ Len(tree) \in Nat
  BY NamesOfTree
<1>2. ASSUME NEW kids \in Seq(STRING),
             kids = IF parents = {} THEN <<>>
                    ELSE tree[(CHOOSE q \in parents : TRUE) + 1].kids
      PROVE  /\ nested.first \in Nat /\ nested.count \in 0 .. U8Max
             /\ nested.count = 0 <=> FirstNamed(kids, f) = {}
             /\ nested.count # 0 =>
                  /\ nested.first \in FirstNamed(kids, f)
                  /\ nested.count <= Consecutive(kids, nested.first, f)
                  /\ nested.count < Consecutive(kids, nested.first, f) =>
                       nested.count = U8Max
  <2> DEFINE run == DiscoverRun(kids, f)
  <2>1. nested.first = (IF run.first = {} THEN 0 ELSE CHOOSE q \in run.first : TRUE)
        /\ nested.count = run.count
    <3>1. nested = [parent |-> parents,
                    first  |-> IF run.first = {} THEN 0
                               ELSE CHOOSE q \in run.first : TRUE,
                    count  |-> run.count]
      BY <1>2 DEF DiscoverNested
    <3> HIDE DEF nested, run
    <3>2. QED BY <3>1
  <2>2. /\ run.first = FirstNamed(kids, f)
        /\ run.count \in 0 .. U8Max
        /\ run.first = {} <=> run.count = 0
        /\ \A first \in run.first :
             /\ run.count <= Consecutive(kids, first, f)
             /\ run.count < Consecutive(kids, first, f) => run.count = U8Max
    BY <1>2, Discovered
  <2>3. run.first # {} => /\ nested.first \in run.first
                          /\ nested.first \in 0 .. Len(kids) - 1
    <3>1. \A q \in run.first : q \in 0 .. Len(kids) - 1
      BY <1>2, <2>2, FirstIsUnique
    <3> HIDE DEF nested, run
    <3>2. QED BY <2>1, <3>1
  <2>4. nested.first \in Nat
    <3> HIDE DEF nested, run
    <3>1. QED BY <2>1, <2>3
  <2> HIDE DEF nested, run
  <2>5. QED BY <2>1, <2>2, <2>3, <2>4
<1>3. nested.parent = parents
  BY DEF DiscoverNested
<1>4. CASE parents = {}
  <2>1. <<>> \in Seq(STRING) /\ FirstNamed(<<>>, f) = {}
    BY DEF FirstNamed
  <2>2. QED BY <1>2, <1>3, <1>4, <2>1
<1>5. ASSUME NEW p \in parents
      PROVE  /\ parents = {p} /\ (CHOOSE q \in parents : TRUE) = p
             /\ tree[p + 1].kids \in Seq(STRING)
  <2>1. p \in 0 .. Len(names) - 1 /\ parents = {p} /\ (CHOOSE q \in parents : TRUE) = p
    BY <1>1, FirstIsUnique
  <2>2. QED BY <1>1, <2>1, NamesOfTree
<1>6. CASE parents # {}
  <2>1. PICK p \in parents : TRUE
    BY <1>6
  <2>2. parents = {p} /\ tree[p + 1].kids \in Seq(STRING)
        /\ tree[p + 1].kids = IF parents = {} THEN <<>>
                              ELSE tree[(CHOOSE q \in parents : TRUE) + 1].kids
    BY <1>5
  <2>3. /\ nested.first \in Nat /\ nested.count \in 0 .. U8Max
        /\ nested.count = 0 <=> FirstNamed(tree[p + 1].kids, f) = {}
        /\ nested.count # 0 =>
             /\ nested.first \in FirstNamed(tree[p + 1].kids, f)
             /\ nested.count <= Consecutive(tree[p + 1].kids, nested.first, f)
             /\ nested.count < Consecutive(tree[p + 1].kids, nested.first, f) =>
                  nested.count = U8Max
    <3> HIDE DEF nested, parents
    <3>1. QED BY <1>2, <2>2
  <2>4. \A q \in nested.parent : q = p
    BY <1>3, <2>2
  <2>5. QED BY <1>3, <1>6, <2>3, <2>4
<1>7. QED BY <1>4, <1>6, Zenon

(* The counts of every layout fit their u8, and the tree its bounds.       *)
LEMMA LayoutCounts ==
  ASSUME NEW t \in Seq(Node), NEW layout \in FromFullSync(t)
  PROVE  /\ layout.sourceCount \in 1 .. U8Max
         /\ \A n \in RootRuns :
              /\ layout.run[n].count \in 0 .. U8Max
              /\ layout.run[n].first = {} <=> layout.run[n].count = 0
         /\ \A n \in NestedRuns :
              /\ layout.nested[n].count \in 0 .. U8Max
              /\ layout.nested[n].parent = {} => layout.nested[n].count = 0
<1>1. Supported(t) /\ layout = LayoutOf(t) /\ Names(t) \in Seq(STRING)
  BY NamesOfTree DEF FromFullSync
<1>2. /\ \A n \in RootRuns : layout.run[n] = DiscoverRun(Names(t), n)
      /\ \A n \in NestedRuns : layout.nested[n] = DiscoverNested(t, n)
  BY <1>1 DEF LayoutOf
<1>3. layout.sourceCount \in 1 .. U8Max
  <2>1. /\ layout.sourceCount = MixTotal(t) \div MixPerSource
        /\ layout.sourceCount \in Nat /\ layout.sourceCount <= U8Max
    BY <1>1, DiscoveredMix DEF LayoutOf, Supported
  <2>2. MixTotal(t) # 0 /\ MixTotal(t) = layout.sourceCount * MixPerSource
    <3>1. MixTotal(t) # 0
      BY <1>1 DEF Supported
    <3>2. MixTotal(t) = Consecutive(Names(t), layout.firstMix, "MIX")
      BY <1>1, <3>1 DEF MixTotal, LayoutOf
    <3>3. QED BY <1>1, <3>1, <3>2, DiscoveredMix
  <2>3. layout.sourceCount # 0
    <3>1. 0 * MixPerSource = 0
      BY LayoutAssumption
    <3>2. QED BY <2>2, <3>1
  <2>4. QED BY <2>1, <2>3, LayoutAssumption
<1>4. \A n \in RootRuns :
        /\ layout.run[n].count \in 0 .. U8Max
        /\ layout.run[n].first = {} <=> layout.run[n].count = 0
  BY <1>1, <1>2, Discovered
<1>5. \A n \in NestedRuns :
        /\ layout.nested[n].count \in 0 .. U8Max
        /\ layout.nested[n].parent = {} => layout.nested[n].count = 0
  BY <1>2, DiscoveredNested
<1>6. QED BY <1>3, <1>4, <1>5

-----------------------------------------------------------------------------
(* The paths of a tree.                                                    *)
LEMMA PathsOfTree ==
  ASSUME NEW tree \in Seq(Node)
  PROVE  /\ \A p \in 0 .. Len(tree) - 1 :
              /\ <<p>> \in NodePaths(tree)
              /\ \A k \in 0 .. Len(tree[p + 1].kids) - 1 : <<p, k>> \in NodePaths(tree)
         /\ \A path \in NodePaths(tree) :
              \/ \E p \in 0 .. Len(tree) - 1 : path = <<p>>
              \/ \E p \in 0 .. Len(tree) - 1 :
                   \E k \in 0 .. Len(tree[p + 1].kids) - 1 : path = <<p, k>>
<1>1. Len(tree) \in Nat /\ DOMAIN tree = 1 .. Len(tree)
  BY LenProperties
<1>2. \A i \in DOMAIN tree : /\ i - 1 \in 0 .. Len(tree) - 1 /\ (i - 1) + 1 = i
                             /\ tree[i].kids \in Seq(STRING)
  <2>1. TAKE i \in DOMAIN tree
  <2>2. i \in 1 .. Len(tree) /\ i - 1 \in 0 .. Len(tree) - 1 /\ (i - 1) + 1 = i
    BY <1>1
  <2>3. tree[i] \in Node
    BY <2>2, ElementOfSeq
  <2>4. tree[i].kids \in Seq(STRING)
    BY <2>3 DEF Node
  <2>5. QED BY <2>2, <2>4
<1>3. \A i \in DOMAIN tree : /\ Len(tree[i].kids) \in Nat
                             /\ DOMAIN tree[i].kids = 1 .. Len(tree[i].kids)
  BY <1>2, LenProperties
<1>4. ASSUME NEW p \in 0 .. Len(tree) - 1
      PROVE  p + 1 \in DOMAIN tree /\ (p + 1) - 1 = p
  BY <1>1
<1>5. \A p \in 0 .. Len(tree) - 1 : <<p>> \in NodePaths(tree)
  <2>1. TAKE p \in 0 .. Len(tree) - 1
  <2>2. <<(p + 1) - 1>> \in {<<i - 1>> : i \in DOMAIN tree}
    BY <1>4
  <2>3. QED BY <1>4, <2>2 DEF NodePaths
<1>6. \A p \in 0 .. Len(tree) - 1 : \A k \in 0 .. Len(tree[p + 1].kids) - 1 :
        <<p, k>> \in NodePaths(tree)
  <2>1. TAKE p \in 0 .. Len(tree) - 1
  <2>2. TAKE k \in 0 .. Len(tree[p + 1].kids) - 1
  <2> DEFINE i == p + 1
             j == k + 1
  <2>3. i \in DOMAIN tree /\ i - 1 = p
    BY <1>4
  <2>4. j \in DOMAIN tree[i].kids /\ j - 1 = k
    BY <1>3, <2>3
  <2> HIDE DEF i, j
  <2>5. <<i - 1, j - 1>> \in NodePaths(tree)
    BY <2>3, <2>4 DEF NodePaths
  <2>6. QED BY <2>3, <2>4, <2>5
<1>7. ASSUME NEW path \in NodePaths(tree)
      PROVE  \/ \E p \in 0 .. Len(tree) - 1 : path = <<p>>
             \/ \E p \in 0 .. Len(tree) - 1 :
                  \E k \in 0 .. Len(tree[p + 1].kids) - 1 : path = <<p, k>>
  <2>1. CASE path \in {<<i - 1>> : i \in DOMAIN tree}
    BY <1>2, <2>1
  <2>2. ASSUME NEW i \in DOMAIN tree, NEW j \in DOMAIN tree[i].kids,
               path = <<i - 1, j - 1>>
        PROVE  \E p \in 0 .. Len(tree) - 1 :
                 \E k \in 0 .. Len(tree[p + 1].kids) - 1 : path = <<p, k>>
    <3>1. i - 1 \in 0 .. Len(tree) - 1 /\ (i - 1) + 1 = i
      BY <1>2
    <3>2. j - 1 \in 0 .. Len(tree[i].kids) - 1
      BY <1>3
    <3>3. QED BY <2>2, <3>1, <3>2
  <2>3. QED BY <2>1, <2>2 DEF NodePaths
<1>8. QED BY <1>5, <1>6, <1>7

-----------------------------------------------------------------------------
(* From addresses to paths, family by family.                              *)

(* The path of an element of a run of the root's children is that of the   *)
(* element.                                                                *)
LEMMA RunPathsAreTrue ==
  ASSUME NEW tree \in Seq(Node), NEW f \in RootRuns, NEW n \in Nat,
         NEW path \in RunPath(DiscoverRun(Names(tree), f), n)
  PROVE  path \in NodePaths(tree) /\ TrueAddress(tree, path) = {Address(f, <<n>>)}
<1> DEFINE names == Names(tree)
           run == DiscoverRun(names, f)
<1>1. names \in Seq(STRING) /\ Len(names) = Len(tree) /\ Len(tree) \in Nat
  BY NamesOfTree
<1>2. PICK first \in run.first : path = <<first + n>> /\ n < run.count
  BY DEF RunPath
<1>3. /\ first \in FirstNamed(names, f)
      /\ run.count \in 0 .. U8Max /\ run.count <= Consecutive(names, first, f)
  BY <1>1, <1>2, Discovered
<1>4. first \in 0 .. Len(names) - 1
  BY <1>1, <1>3, FirstIsUnique
<1>5. Consecutive(names, first, f) \in Nat
  BY <1>1, <1>4, ConsecutiveCounts
<1>6. n < Consecutive(names, first, f)
  BY <1>2, <1>3, <1>5, LayoutAssumption
<1>7. /\ first + n \in 0 .. Len(names) - 1
      /\ names[first + n + 1] = f
      /\ InFirstRun(names, first + n)
      /\ Rank(names, first + n) = n
  BY <1>1, <1>3, <1>6, RunsHoldTheirSiblings
<1>8. TrueAddress(tree, <<first + n>>) = {Address(f, <<n>>)}
  <2> DEFINE p == first + n
  <2>1. names[p + 1] = f /\ InFirstRun(names, p) /\ Rank(names, p) = n
    BY <1>7
  <2> HIDE DEF p
  <2>2. TrueAddress(tree, <<p>>) = {Address(f, <<n>>)}
    BY <2>1, TrueTop, Zenon
  <2>3. QED BY <2>2 DEF p
<1>9. <<first + n>> \in NodePaths(tree)
  BY <1>1, <1>7, PathsOfTree
<1>10. QED BY <1>2, <1>8, <1>9

(* The path of a singleton is that of the first node of its name.          *)
LEMMA SingletonPathsAreTrue ==
  ASSUME NEW tree \in Seq(Node), NEW f \in Singletons,
         NEW path \in SingletonPath(FirstNamed(Names(tree), f))
  PROVE  path \in NodePaths(tree) /\ TrueAddress(tree, path) = {Address(f, <<>>)}
<1> DEFINE names == Names(tree)
<1>1. names \in Seq(STRING) /\ Len(names) = Len(tree) /\ Len(tree) \in Nat
  BY NamesOfTree
<1>2. PICK first \in FirstNamed(names, f) : path = <<first>>
  BY DEF SingletonPath
<1>3. /\ first \in 0 .. Len(names) - 1 /\ names[first + 1] = f
      /\ \A q \in 0 .. first - 1 : names[q + 1] # f
  BY <1>1, FirstIsUnique
<1>4. InFirstRun(names, first)
  BY <1>1, <1>3 DEF InFirstRun
<1>5. {q \in 0 .. first - 1 : names[q + 1] = names[first + 1]} = {}
  BY <1>3
<1>6. Rank(names, first) = 0
  BY <1>5, FS_EmptySet DEF Rank
<1>7. TrueAddress(tree, <<first>>) = {Address(f, <<>>)}
  BY <1>3, <1>4, <1>6, TrueTop
<1>8. <<first>> \in NodePaths(tree)
  BY <1>1, <1>3, PathsOfTree
<1>9. QED BY <1>2, <1>7, <1>8

(* The path of an element of a run inside a container is that of the       *)
(* element.                                                                *)
LEMMA NestedPathsAreTrue ==
  ASSUME NEW tree \in Seq(Node), NEW f \in NestedRuns, NEW n \in Nat,
         NEW path \in NestedPath(DiscoverNested(tree, f), n)
  PROVE  path \in NodePaths(tree) /\ TrueAddress(tree, path) = {Address(f, <<n>>)}
<1> DEFINE names == Names(tree)
           nested == DiscoverNested(tree, f)
<1>1. names \in Seq(STRING) /\ Len(names) = Len(tree) /\ Len(tree) \in Nat
  BY NamesOfTree
<1>2. PICK p \in nested.parent : path = <<p, nested.first + n>> /\ n < nested.count
  BY DEF NestedPath
<1>3. /\ nested.parent = {p} /\ p \in FirstNamed(names, Container[f])
      /\ p \in 0 .. Len(names) - 1 /\ names[p + 1] = Container[f]
      /\ \A q \in 0 .. p - 1 : names[q + 1] # Container[f]
  BY <1>1, FirstIsUnique DEF DiscoverNested
<1> DEFINE kids == tree[p + 1].kids
           first == nested.first
<1>4. kids \in Seq(STRING) /\ Len(kids) \in Nat
  BY <1>1, <1>3, NamesOfTree, LenProperties
<1>5. /\ nested.count \in 0 .. U8Max
      /\ nested.count # 0 => /\ first \in FirstNamed(kids, f)
                             /\ nested.count <= Consecutive(kids, first, f)
  BY <1>3, DiscoveredNested
<1>6. nested.count # 0 /\ nested.count \in Nat
  BY <1>2, <1>5, LayoutAssumption
<1>7. first \in FirstNamed(kids, f) /\ first \in 0 .. Len(kids) - 1
  BY <1>4, <1>5, <1>6, FirstIsUnique
<1>8. Consecutive(kids, first, f) \in Nat
  BY <1>4, <1>7, ConsecutiveCounts
<1>9. n < Consecutive(kids, first, f)
  <2> HIDE DEF nested, kids, first
  <2>1. QED BY <1>2, <1>5, <1>6, <1>8
<1>10. /\ first + n \in 0 .. Len(kids) - 1
       /\ kids[first + n + 1] = f
       /\ InFirstRun(kids, first + n)
       /\ Rank(kids, first + n) = n
  BY <1>4, <1>7, <1>9, RunsHoldTheirSiblings
<1>11. {q \in 0 .. p - 1 : names[q + 1] = names[p + 1]} = {}
  BY <1>3
<1>12. Rank(names, p) = 0
  BY <1>11, FS_EmptySet DEF Rank
<1>13. TrueAddress(tree, <<p, first + n>>) = {Address(f, <<n>>)}
  <2>1. f \in DOMAIN KeptIn /\ KeptIn[f] = Container[f]
    BY TablesAgree
  <2> HIDE DEF names, kids, first, nested
  <2>2. QED BY <1>3, <1>10, <1>12, <2>1, TrueKid DEF TrueBelow, names, kids
<1>14. <<p, first + n>> \in NodePaths(tree)
  BY <1>1, <1>3, <1>10, PathsOfTree
<1>15. QED BY <1>2, <1>13, <1>14

(* The path of a mix cell is that of the cell.                             *)
LEMMA MixPathsAreTrue ==
  ASSUME NEW tree \in Seq(Node), Supported(tree), NEW s \in Nat, NEW m \in Nat,
         NEW path \in MixCellPath(LayoutOf(tree), s, m)
  PROVE  path \in NodePaths(tree) /\ TrueAddress(tree, path) = {Address("MIX", <<s, m>>)}
<1> DEFINE names == Names(tree)
           first == LayoutOf(tree).firstMix
           rows == LayoutOf(tree).sourceCount
           k == s * MixPerSource + m
<1>1. names \in Seq(STRING) /\ Len(names) = Len(tree) /\ Len(tree) \in Nat
  BY NamesOfTree
<1>2. /\ first \in FirstNamed(names, "MIX") /\ first \in Nat /\ rows \in Nat
      /\ Consecutive(names, first, "MIX") = rows * MixPerSource
  BY DiscoveredMix
<1>3. s < rows /\ m < MixPerSource /\ path = <<first + s * MixPerSource + m>>
  BY DEF MixCellPath
<1>4. m \in 0 .. MixPerSource - 1
  BY <1>3, LayoutAssumption
<1>5. /\ k \in Nat /\ k \div MixPerSource = s /\ k % MixPerSource = m
      /\ k < rows * MixPerSource
  BY <1>2, <1>3, <1>4, CellsInRows, RowsFit
<1> HIDE DEF k, first, rows, names
<1>6. /\ first + k \in 0 .. Len(names) - 1
      /\ names[first + k + 1] = "MIX"
      /\ InFirstRun(names, first + k)
      /\ Rank(names, first + k) = k
  BY <1>1, <1>2, <1>5, RunsHoldTheirSiblings
<1>7. path = <<first + k>>
  <2>1. s * MixPerSource \in Int /\ m \in Int /\ first \in Int
    BY <1>2, LayoutAssumption
  <2>2. QED BY <1>3, <2>1 DEF k
<1>8. TrueAddress(tree, path) = {Address("MIX", <<s, m>>)}
  BY <1>5, <1>6, <1>7, TrueTop DEF names
<1>9. path \in NodePaths(tree)
  BY <1>1, <1>6, <1>7, PathsOfTree DEF names
<1>10. QED BY <1>8, <1>9

(* Every address there can be, in a tree of any size.                      *)
Addresses ==
       {Address(f, <<n>>) : f \in RootRuns \cup NestedRuns, n \in Nat}
  \cup {Address("MIX", <<s, m>>) : s \in Nat, m \in Nat}
  \cup {Address(f, <<>>) : f \in Singletons}

(* No family is addressed in two ways.                                     *)
LEMMA FamiliesApart ==
  /\ "MIX" \notin RootRuns \cup NestedRuns \cup Singletons
  /\ RootRuns \cap Singletons = {} /\ NestedRuns \cap Singletons = {}
  /\ RootRuns \cap NestedRuns = {}
BY DEF RootRuns, NestedRuns, Singletons

(* The forms an address can have.                                          *)
LEMMA AddressForms ==
  ASSUME NEW a \in Addresses
  PROVE  \/ \E f \in RootRuns, n \in Nat : a = Address(f, <<n>>)
         \/ \E f \in NestedRuns, n \in Nat : a = Address(f, <<n>>)
         \/ \E s, m \in Nat : a = Address("MIX", <<s, m>>)
         \/ \E f \in Singletons : a = Address(f, <<>>)
<1> DEFINE OfRun(f, n) == Address(f, <<n>>)
           Cell(s, m) == Address("MIX", <<s, m>>)
<1>1. Addresses = {OfRun(f, n) : f \in RootRuns \cup NestedRuns, n \in Nat}
                   \cup {Cell(s, m) : s \in Nat, m \in Nat}
                   \cup {Address(f, <<>>) : f \in Singletons}
  BY DEF Addresses
<1>2. /\ \A f, n : OfRun(f, n) = Address(f, <<n>>)
      /\ \A s, m : Cell(s, m) = Address("MIX", <<s, m>>)
  OBVIOUS
<1> HIDE DEF OfRun, Cell
<1>3. \/ \E f \in RootRuns \cup NestedRuns, n \in Nat : a = OfRun(f, n)
      \/ \E s \in Nat, m \in Nat : a = Cell(s, m)
      \/ \E f \in Singletons : a = Address(f, <<>>)
  BY <1>1
<1>4. QED BY <1>2, <1>3, Zenon

(* The addresses that the runs enumerate are some of them.                 *)
LEMMA KnownAddresses == AllAddresses \subseteq Addresses
<1> DEFINE OfRun(f, n) == Address(f, <<n>>)
           Cell(s, m) == Address("MIX", <<s, m>>)
           Runs(S) == {OfRun(f, n) : f \in RootRuns \cup NestedRuns, n \in S}
           Cells(S) == {Cell(s, m) : s \in S, m \in S}
           Single == {Address(f, <<>>) : f \in Singletons}
<1>1. Ordinals \subseteq Nat
  BY LayoutAssumption DEF Ordinals
<1>2. AllAddresses = Runs(Ordinals) \cup Cells(Ordinals) \cup Single
  BY DEF AllAddresses
<1>3. Addresses = Runs(Nat) \cup Cells(Nat) \cup Single
  BY DEF Addresses
<1> HIDE DEF OfRun, Cell, Single
<1>4. Runs(Ordinals) \subseteq Runs(Nat) /\ Cells(Ordinals) \subseteq Cells(Nat)
  BY <1>1
<1> HIDE DEF Runs, Cells
<1>5. QED BY <1>2, <1>3, <1>4

(* Where each kind of address is looked up.                                *)
LEMMA AddressPaths ==
  ASSUME NEW layout
  PROVE  /\ \A f \in RootRuns, n \in Nat :
              /\ Address(f, <<n>>) \in Addresses
              /\ PathOf(layout, Address(f, <<n>>)) = RunPath(layout.run[f], n)
         /\ \A f \in NestedRuns, n \in Nat :
              /\ Address(f, <<n>>) \in Addresses
              /\ PathOf(layout, Address(f, <<n>>)) = NestedPath(layout.nested[f], n)
         /\ \A s, m \in Nat :
              /\ Address("MIX", <<s, m>>) \in Addresses
              /\ PathOf(layout, Address("MIX", <<s, m>>)) = MixCellPath(layout, s, m)
         /\ \A f \in Singletons :
              /\ Address(f, <<>>) \in Addresses
              /\ PathOf(layout, Address(f, <<>>)) = SingletonPath(layout.single[f])
<1> DEFINE OfRun(f, n) == Address(f, <<n>>)
           Cell(s, m) == Address("MIX", <<s, m>>)
           Runs == {OfRun(f, n) : f \in RootRuns \cup NestedRuns, n \in Nat}
           Cells == {Cell(s, m) : s \in Nat, m \in Nat}
           Single == {Address(f, <<>>) : f \in Singletons}
<1>1. Addresses = Runs \cup Cells \cup Single
  BY DEF Addresses
<1>2. /\ \A f, n : OfRun(f, n) = Address(f, <<n>>)
      /\ \A s, m : Cell(s, m) = Address("MIX", <<s, m>>)
  OBVIOUS
<1> HIDE DEF OfRun, Cell
<1>3. /\ \A f \in RootRuns \cup NestedRuns, n \in Nat : OfRun(f, n) \in Addresses
      /\ \A s, m \in Nat : Cell(s, m) \in Addresses
      /\ \A f \in Singletons : Address(f, <<>>) \in Addresses
  BY <1>1
<1>4. ASSUME NEW f \in RootRuns, NEW n \in Nat
      PROVE  PathOf(layout, Address(f, <<n>>)) = RunPath(layout.run[f], n)
  BY FamiliesApart DEF PathOf, Address
<1>5. ASSUME NEW f \in NestedRuns, NEW n \in Nat
      PROVE  PathOf(layout, Address(f, <<n>>)) = NestedPath(layout.nested[f], n)
  BY FamiliesApart DEF PathOf, Address
<1>6. ASSUME NEW s \in Nat, NEW m \in Nat
      PROVE  PathOf(layout, Address("MIX", <<s, m>>)) = MixCellPath(layout, s, m)
  BY FamiliesApart DEF PathOf, Address
<1>7. ASSUME NEW f \in Singletons
      PROVE  PathOf(layout, Address(f, <<>>)) = SingletonPath(layout.single[f])
  BY FamiliesApart DEF PathOf, Address
<1>8. QED BY <1>2, <1>3, <1>4, <1>5, <1>6, <1>7, Zenon

(* Whatever logical address a layout turns into a path, the node there has *)
(* that family's name and stands at that ordinal, which fits a counter.    *)
LEMMA AddressedPaths ==
  ASSUME NEW tree \in Seq(Node), NEW layout \in FromFullSync(tree),
         NEW a \in Addresses, NEW path \in PathOf(layout, a)
  PROVE  /\ path \in NodePaths(tree)
         /\ TrueAddress(tree, path) = {a}
         /\ a.family \in RootRuns \cup NestedRuns \cup {"MIX"} =>
              a.index[1] \in Nat /\ a.index[1] < U8Max
<1>1. Supported(tree) /\ layout = LayoutOf(tree)
  BY DEF FromFullSync
<1>2. U8Max \in Nat
  BY LayoutAssumption
<1>3. ASSUME NEW f \in RootRuns, NEW n \in Nat, a = Address(f, <<n>>)
      PROVE  /\ path \in NodePaths(tree)
             /\ TrueAddress(tree, path) = {a}
             /\ n < U8Max
  <2>1. a.family = f /\ a.index = <<n>> /\ a.index[1] = n
    BY <1>3 DEF Address
  <2>2. PathOf(layout, a) = RunPath(layout.run[f], n)
    BY <2>1, FamiliesApart DEF PathOf
  <2>3. layout.run[f] = DiscoverRun(Names(tree), f)
    BY <1>1 DEF LayoutOf
  <2>4. path \in NodePaths(tree) /\ TrueAddress(tree, path) = {a}
    BY <1>3, <2>2, <2>3, RunPathsAreTrue
  <2>5. n < layout.run[f].count /\ layout.run[f].count \in 0 .. U8Max
    BY <2>2, LayoutCounts DEF RunPath
  <2>6. QED BY <1>2, <2>4, <2>5
<1>4. ASSUME NEW f \in NestedRuns, NEW n \in Nat, a = Address(f, <<n>>)
      PROVE  /\ path \in NodePaths(tree)
             /\ TrueAddress(tree, path) = {a}
             /\ n < U8Max
  <2>1. a.family = f /\ a.index = <<n>> /\ a.index[1] = n
    BY <1>4 DEF Address
  <2>2. PathOf(layout, a) = NestedPath(layout.nested[f], n)
    BY <2>1, FamiliesApart DEF PathOf
  <2>3. layout.nested[f] = DiscoverNested(tree, f)
    BY <1>1 DEF LayoutOf
  <2>4. path \in NodePaths(tree) /\ TrueAddress(tree, path) = {a}
    BY <1>4, <2>2, <2>3, NestedPathsAreTrue
  <2>5. n < layout.nested[f].count /\ layout.nested[f].count \in 0 .. U8Max
    BY <2>2, LayoutCounts DEF NestedPath
  <2>6. QED BY <1>2, <2>4, <2>5
<1>5. ASSUME NEW s \in Nat, NEW m \in Nat, a = Address("MIX", <<s, m>>)
      PROVE  /\ path \in NodePaths(tree)
             /\ TrueAddress(tree, path) = {a}
             /\ s < U8Max
  <2>1. a.family = "MIX" /\ a.index[1] = s /\ a.index[2] = m
    BY <1>5 DEF Address
  <2>2. path \in MixCellPath(LayoutOf(tree), s, m)
    BY <1>1, <2>1, FamiliesApart DEF PathOf
  <2>3. s < layout.sourceCount /\ layout.sourceCount \in 1 .. U8Max
    BY <1>1, <2>2, LayoutCounts DEF MixCellPath
  <2>4. QED BY <1>1, <1>2, <1>5, <2>2, <2>3, MixPathsAreTrue
<1>6. ASSUME NEW f \in Singletons, a = Address(f, <<>>)
      PROVE  path \in NodePaths(tree) /\ TrueAddress(tree, path) = {a}
  <2>1. a.family = f
    BY <1>6 DEF Address
  <2>2. PathOf(layout, a) = SingletonPath(layout.single[f])
    BY <2>1, FamiliesApart DEF PathOf
  <2>3. layout.single[f] = FirstNamed(Names(tree), f)
    BY <1>1 DEF LayoutOf
  <2>4. QED BY <1>6, <2>2, <2>3, SingletonPathsAreTrue
<1>7. path \in NodePaths(tree) /\ TrueAddress(tree, path) = {a}
  BY <1>3, <1>4, <1>5, <1>6, AddressForms, Zenon
<1>8. a.family \in RootRuns \cup NestedRuns \cup {"MIX"} =>
        a.index[1] \in Nat /\ a.index[1] < U8Max
  <2>1. CASE \E f \in RootRuns \cup NestedRuns, n \in Nat : a = Address(f, <<n>>)
    <3>1. PICK f \in RootRuns \cup NestedRuns, n \in Nat : a = Address(f, <<n>>)
      BY <2>1
    <3>2. n < U8Max
      BY <1>3, <1>4, <3>1
    <3>3. a.family = f /\ a.index = <<n>>
      BY <3>1 DEF Address
    <3>4. QED BY <1>2, <3>2, <3>3, FamiliesApart
  <2>2. CASE \E s, m \in Nat : a = Address("MIX", <<s, m>>)
    <3>1. PICK s \in Nat, m \in Nat : a = Address("MIX", <<s, m>>)
      BY <2>2
    <3>2. s < U8Max
      BY <1>5, <3>1
    <3>3. a.family = "MIX" /\ a.index = <<s, m>>
      BY <3>1 DEF Address
    <3>4. QED BY <1>2, <3>2, <3>3, FamiliesApart
  <2>3. CASE \E f \in Singletons : a = Address(f, <<>>)
    <3>1. a.family \in Singletons /\ a.index = <<>>
      BY <2>3 DEF Address
    <3>2. QED BY <3>1, FamiliesApart
  <2>4. QED BY <2>1, <2>2, <2>3, AddressForms
<1>9. QED BY <1>7, <1>8

(* Layout never names a foreign node: that is so of every address whose    *)
(* ordinal fits a u8 (layout.rs "no panic, no misroute", 155-157).         *)
THEOREM EncodedPathsAreTrue ==
  ASSUME NEW tree \in Seq(Node), NEW layout \in FromFullSync(tree),
         NEW a \in AllAddresses, NEW path \in PathOf(layout, a)
  PROVE  path \in NodePaths(tree) /\ TrueAddress(tree, path) = {a}
BY KnownAddresses, AddressedPaths

-----------------------------------------------------------------------------
(* From paths to addresses.                                                *)

(* A path of one or two positions is made of them.                         *)
LEMMA ShortPaths ==
  ASSUME NEW path \in Seq(Nat)
  PROVE  /\ Len(path) = 1 => path[1] \in Nat /\ path = <<path[1]>>
         /\ Len(path) = 2 => /\ path[1] \in Nat /\ path[2] \in Nat
                            /\ path = <<path[1], path[2]>>
<1>1. path \in [1 .. Len(path) -> Nat]
  BY LenProperties
<1>2. ASSUME Len(path) = 1 PROVE path[1] \in Nat /\ path = <<path[1]>>
  BY <1>1, <1>2
<1>3. ASSUME Len(path) = 2
      PROVE  path[1] \in Nat /\ path[2] \in Nat /\ path = <<path[1], path[2]>>
  BY <1>1, <1>3
<1>4. QED BY <1>2, <1>3

(* A cell below the end of the matrix is in one of its rows.               *)
LEMMA CellInMatrix ==
  ASSUME NEW rows \in Nat, NEW k \in Nat, k < rows * MixPerSource
  PROVE  k \div MixPerSource < rows
<1>1. /\ k \div MixPerSource \in Nat /\ k % MixPerSource \in 0 .. MixPerSource - 1
      /\ k = (k \div MixPerSource) * MixPerSource + (k % MixPerSource)
  BY RowsOfCell
<1>2. \A s \in Nat : rows <= s => rows * MixPerSource <= s * MixPerSource
  BY LayoutAssumption, SMTT(60)
<1> DEFINE s == k \div MixPerSource
           m == k % MixPerSource
           end == rows * MixPerSource
           row == s * MixPerSource
<1>3. row \in Nat /\ end \in Nat
  BY <1>1, LayoutAssumption
<1>4. m >= 0 /\ k = row + m /\ k < end /\ (rows <= s => end <= row) /\ s \in Nat /\ m \in Nat
  BY <1>1, <1>2, LayoutAssumption
<1> HIDE DEF s, m, end, row
<1>5. s < rows
  BY <1>3, <1>4
<1>6. QED BY <1>5 DEF s

(* What a path resolves to is an address that has this path.               *)
LEMMA ResolvedHasPath ==
  ASSUME NEW tree \in Seq(Node), NEW layout \in FromFullSync(tree),
         NEW path \in Seq(Nat), NEW a \in Resolve(layout, path)
  PROVE  a \in Addresses /\ path \in PathOf(layout, a)
<1>1. Supported(tree) /\ layout = LayoutOf(tree)
  BY DEF FromFullSync
<1>2. ASSUME NEW f \in RootRuns, NEW n \in RunIndex(layout.run[f], path),
             a = Address(f, <<n>>)
      PROVE  a \in Addresses /\ path \in PathOf(layout, a)
  <2> DEFINE run == DiscoverRun(Names(tree), f)
  <2>1. layout.run[f] = run
    BY <1>1 DEF LayoutOf
  <2>2. PICK first \in run.first : /\ Len(path) = 1 /\ path[1] >= first
                                   /\ path[1] - first < run.count
                                   /\ n = path[1] - first
    <3> HIDE DEF run
    <3>1. QED BY <1>2, <2>1 DEF RunIndex
  <2>3. first \in Nat
    BY NamesOfTree, FirstIsUnique DEF DiscoverRun
  <2>4. path[1] \in Nat /\ path = <<path[1]>>
    BY <2>2, ShortPaths
  <2>5. n \in Nat /\ first + n = path[1] /\ n < run.count
    <3> HIDE DEF run
    <3>1. QED BY <2>2, <2>3, <2>4
  <2>6. path \in RunPath(run, n)
    <3> HIDE DEF run
    <3>1. QED BY <2>2, <2>4, <2>5 DEF RunPath
  <2>7. QED BY <1>2, <2>1, <2>5, <2>6, AddressPaths
<1>3. ASSUME NEW f \in NestedRuns, NEW n \in NestedIndex(layout.nested[f], path),
             a = Address(f, <<n>>)
      PROVE  a \in Addresses /\ path \in PathOf(layout, a)
  <2> DEFINE run == DiscoverNested(tree, f)
  <2>1. layout.nested[f] = run
    BY <1>1 DEF LayoutOf
  <2>2. /\ Len(path) = 2 /\ path[1] \in run.parent /\ path[2] >= run.first
        /\ path[2] - run.first < run.count /\ n = path[2] - run.first
    <3> HIDE DEF run
    <3>1. QED BY <1>3, <2>1 DEF NestedIndex
  <2>3. run.first \in Nat
    BY DiscoveredNested
  <2>4. path[1] \in Nat /\ path[2] \in Nat /\ path = <<path[1], path[2]>>
    BY <2>2, ShortPaths
  <2>5. n \in Nat /\ run.first + n = path[2] /\ n < run.count
    <3> HIDE DEF run
    <3>1. QED BY <2>2, <2>3, <2>4
  <2>6. path \in NestedPath(run, n)
    <3> HIDE DEF run
    <3>1. QED BY <2>2, <2>4, <2>5 DEF NestedPath
  <2>7. QED BY <1>3, <2>1, <2>5, <2>6, AddressPaths
<1>4. ASSUME NEW f \in Singletons, path \in SingletonPath(layout.single[f]),
             a = Address(f, <<>>)
      PROVE  a \in Addresses /\ path \in PathOf(layout, a)
  <2>1. QED BY <1>4, AddressPaths
<1>5. ASSUME NEW cell \in MixCellFromPath(layout, path), a = Address("MIX", cell)
      PROVE  a \in Addresses /\ path \in PathOf(layout, a)
  <2> DEFINE first == layout.firstMix
             rows == layout.sourceCount
             k == path[1] - first
             s == k \div MixPerSource
             m == k % MixPerSource
  <2>1. /\ Len(path) = 1 /\ k >= 0 /\ k < rows * MixPerSource
        /\ cell = <<s, m>>
    BY <1>5 DEF MixCellFromPath
  <2>2. first \in Nat /\ rows \in Nat
    BY <1>1, DiscoveredMix
  <2>3. path[1] \in Nat /\ path = <<path[1]>>
    BY <2>1, ShortPaths
  <2>4. k \in Nat /\ first + k = path[1]
    <3> HIDE DEF first
    <3>1. QED BY <2>1, <2>2, <2>3
  <2>5. s \in Nat /\ m \in 0 .. MixPerSource - 1 /\ k = s * MixPerSource + m
    BY <2>4, RowsOfCell
  <2>6. s < rows
    BY <2>1, <2>2, <2>4, CellInMatrix
  <2>7. path \in MixCellPath(layout, s, m)
    <3> HIDE DEF k, s, m, first, rows
    <3>1. s * MixPerSource \in Int /\ m \in Nat /\ m < MixPerSource
      BY <2>5, LayoutAssumption
    <3>2. first + s * MixPerSource + m = path[1]
      BY <2>2, <2>4, <2>5, <3>1
    <3>3. QED BY <2>3, <2>6, <3>1, <3>2 DEF MixCellPath, first, rows
  <2>8. m \in Nat
    BY <2>5, LayoutAssumption
  <2> HIDE DEF k, s, m, first, rows
  <2>9. QED BY <1>5, <2>1, <2>5, <2>7, <2>8, AddressPaths
<1> DEFINE OfRun(f, n) == Address(f, <<n>>)
           Runs == UNION {{OfRun(f, n) : n \in RunIndex(layout.run[f], path)} :
                            f \in RootRuns}
           Nested == UNION {{OfRun(f, n) : n \in NestedIndex(layout.nested[f], path)} :
                              f \in NestedRuns}
           Single == {Address(f, <<>>) : f \in {g \in Singletons :
                                            path \in SingletonPath(layout.single[g])}}
           Cells == {Address("MIX", cell) : cell \in MixCellFromPath(layout, path)}
<1>6. a \in Runs \/ a \in Nested \/ a \in Single \/ a \in Cells
  <2>1. Resolve(layout, path) = Runs \cup Nested \cup Single \cup Cells
    BY DEF Resolve
  <2> HIDE DEF Runs, Nested, Single, Cells
  <2>2. QED BY <2>1
<1>7. \A f, n : OfRun(f, n) = Address(f, <<n>>)
  OBVIOUS
<1> HIDE DEF OfRun
<1>8. CASE a \in Runs
  <2>1. PICK f \in RootRuns : a \in {OfRun(f, n) : n \in RunIndex(layout.run[f], path)}
    BY <1>8, Zenon
  <2>2. PICK n \in RunIndex(layout.run[f], path) : a = OfRun(f, n)
    BY <2>1
  <2>3. QED BY <1>2, <1>7, <2>2
<1>9. CASE a \in Nested
  <2>1. PICK f \in NestedRuns :
          a \in {OfRun(f, n) : n \in NestedIndex(layout.nested[f], path)}
    BY <1>9, Zenon
  <2>2. PICK n \in NestedIndex(layout.nested[f], path) : a = OfRun(f, n)
    BY <2>1
  <2>3. QED BY <1>3, <1>7, <2>2
<1>10. CASE a \in Single
  BY <1>4, <1>10
<1>11. CASE a \in Cells
  BY <1>5, <1>11
<1>12. QED BY <1>6, <1>8, <1>9, <1>10, <1>11, Zenon

(* No event is attributed to a foreign node: what a path resolves to is    *)
(* what the node there is, and a path that no node has resolves to nothing.*)
THEOREM ResolvedAddressIsTrue ==
  ASSUME NEW tree \in Seq(Node), NEW layout \in FromFullSync(tree),
         NEW path \in Seq(Nat), NEW a \in Resolve(layout, path)
  PROVE  path \in NodePaths(tree) /\ TrueAddress(tree, path) = {a}
BY ResolvedHasPath, AddressedPaths

(* The families the resolver looks through, one by one.                    *)
LEMMA ResolveHas ==
  ASSUME NEW layout, NEW path
  PROVE  /\ \A f \in RootRuns : \A n \in RunIndex(layout.run[f], path) :
              Address(f, <<n>>) \in Resolve(layout, path)
         /\ \A f \in NestedRuns : \A n \in NestedIndex(layout.nested[f], path) :
              Address(f, <<n>>) \in Resolve(layout, path)
         /\ \A f \in Singletons : path \in SingletonPath(layout.single[f]) =>
              Address(f, <<>>) \in Resolve(layout, path)
         /\ \A cell \in MixCellFromPath(layout, path) :
              Address("MIX", cell) \in Resolve(layout, path)
<1> DEFINE OfRun(f, n) == Address(f, <<n>>)
           OfRuns(f) == {OfRun(f, n) : n \in RunIndex(layout.run[f], path)}
           OfNested(f) == {OfRun(f, n) : n \in NestedIndex(layout.nested[f], path)}
           Runs == UNION {OfRuns(f) : f \in RootRuns}
           Nested == UNION {OfNested(f) : f \in NestedRuns}
           Single == {Address(f, <<>>) : f \in {g \in Singletons :
                                            path \in SingletonPath(layout.single[g])}}
           Cells == {Address("MIX", cell) : cell \in MixCellFromPath(layout, path)}
<1>1. Resolve(layout, path) = Runs \cup Nested \cup Single \cup Cells
  BY DEF Resolve
<1>2. \A f, n : OfRun(f, n) = Address(f, <<n>>)
  OBVIOUS
<1> HIDE DEF OfRun
<1>3. /\ \A f : \A n \in RunIndex(layout.run[f], path) : OfRun(f, n) \in OfRuns(f)
      /\ \A f : \A n \in NestedIndex(layout.nested[f], path) : OfRun(f, n) \in OfNested(f)
  OBVIOUS
<1> HIDE DEF OfRuns, OfNested
<1>4. /\ \A f \in RootRuns : OfRuns(f) \subseteq Runs
      /\ \A f \in NestedRuns : OfNested(f) \subseteq Nested
  OBVIOUS
<1>5. \A f \in Singletons : path \in SingletonPath(layout.single[f]) =>
        Address(f, <<>>) \in Single
  BY Zenon
<1>6. \A cell \in MixCellFromPath(layout, path) : Address("MIX", cell) \in Cells
  OBVIOUS
<1> HIDE DEF Runs, Nested, Single, Cells
<1>7. QED BY <1>1, <1>2, <1>3, <1>4, <1>5, <1>6, Zenon

(* The first of its name is the one that no namesake comes before.         *)
LEMMA RankOfFirst ==
  ASSUME NEW names \in Seq(STRING), NEW p \in 0 .. Len(names) - 1,
         Rank(names, p) = 0
  PROVE  p \in FirstNamed(names, names[p + 1])
<1> DEFINE S == {q \in 0 .. p - 1 : names[q + 1] = names[p + 1]}
<1>1. p \in Nat /\ p - 1 \in Int
  BY LenProperties
<1>2. IsFiniteSet(S)
  <2>1. IsFiniteSet(0 .. p - 1)
    BY <1>1, FS_Interval
  <2>2. QED BY <2>1, FS_Subset
<1>3. S = {}
  <2>1. Cardinality(S) = 0
    BY DEF Rank
  <2> HIDE DEF S
  <2>2. QED BY <1>2, <2>1, FS_EmptySet
<1>4. QED BY <1>3 DEF FirstNamed

(* A child of the root that has an address is found by it.                 *)
LEMMA TopAddressIsResolved ==
  ASSUME NEW tree \in Seq(Node), NEW layout \in FromFullSync(tree),
         NEW p \in 0 .. Len(tree) - 1, NEW a \in TrueAddress(tree, <<p>>),
         a \notin Resolve(layout, <<p>>)
  PROVE  Len(a.index) = 1 /\ a.index[1] \in Nat /\ a.index[1] >= U8Max
<1> DEFINE names == Names(tree)
           name == names[p + 1]
           rank == Rank(names, p)
<1>1. Supported(tree) /\ layout = LayoutOf(tree)
  BY DEF FromFullSync
<1>2. /\ names \in Seq(STRING) /\ Len(names) = Len(tree) /\ Len(tree) \in Nat
      /\ p \in 0 .. Len(names) - 1 /\ p \in Nat
  BY NamesOfTree
<1>3. a \in TrueAtTop(names, p)
  BY DEF TrueAddress
<1>4. /\ InFirstRun(names, p)
      /\ \/ name \in RootRuns /\ a = Address(name, <<rank>>)
         \/ name = "MIX" /\ a = Address(name, <<rank \div MixPerSource, rank % MixPerSource>>)
         \/ name \in Singletons /\ rank = 0 /\ a = Address(name, <<>>)
  <2> HIDE DEF names, name, rank
  <2>1. QED BY <1>3, TablesAgree DEF TrueAtTop, name, rank
<1>5. PICK first \in FirstNamed(names, name) : TRUE
  BY <1>2, FirstExists
<1> DEFINE c == Consecutive(names, first, name)
<1>6. first \in 0 .. p /\ rank = p - first /\ p - first < c
  BY <1>2, <1>4, <1>5, SiblingsAreInTheirRun
<1>7. first \in Nat /\ rank \in Nat /\ c \in Nat
  <2>1. first \in 0 .. Len(names) - 1
    BY <1>2, <1>6
  <2>2. c \in 0 .. Len(names) - first
    BY <1>2, <2>1, ConsecutiveCounts
  <2> HIDE DEF c, rank, names
  <2>3. QED BY <1>2, <1>6, <2>1, <2>2
<1>8. FirstNamed(names, name) = {first}
  BY <1>2, <1>5, FirstIsUnique
<1>9. Len(<<p>>) = 1 /\ <<p>>[1] = p
  OBVIOUS
<1>10. ASSUME name \in RootRuns, a = Address(name, <<rank>>)
       PROVE  rank >= U8Max
  <2> DEFINE run == DiscoverRun(names, name)
  <2>1. /\ run.first = {first} /\ run.count \in 0 .. U8Max
        /\ run.count < c => run.count = U8Max
    BY <1>2, <1>8, Discovered
  <2>2. layout.run[name] = run
    <3> HIDE DEF name
    <3>1. QED BY <1>1, <1>10 DEF LayoutOf
  <2>3. ASSUME rank < run.count PROVE FALSE
    <3> HIDE DEF run, c, rank, names, name
    <3>1. p - first \in RunIndex(run, <<p>>)
      BY <1>2, <1>6, <1>7, <1>9, <2>1, <2>3 DEF RunIndex
    <3>2. a \in Resolve(layout, <<p>>)
      BY <1>6, <1>10, <2>2, <3>1, ResolveHas
    <3>3. QED BY <3>2
  <2> HIDE DEF run, c, rank, names, name
  <2>4. run.count \in Nat
    BY <2>1, LayoutAssumption
  <2>5. QED BY <1>6, <1>7, <2>1, <2>3, <2>4, LayoutAssumption
<1>11. ASSUME name = "MIX",
              a = Address(name, <<rank \div MixPerSource, rank % MixPerSource>>)
       PROVE  FALSE
  <2>1. layout.firstMix = first
    BY <1>1, <1>8, <1>11, DiscoveredMix
  <2>2. c = layout.sourceCount * MixPerSource
    BY <1>1, <1>11, <2>1, DiscoveredMix
  <2> HIDE DEF c, rank, names, name
  <2>3. <<rank \div MixPerSource, rank % MixPerSource>> \in MixCellFromPath(layout, <<p>>)
    BY <1>6, <1>7, <1>9, <2>1, <2>2 DEF MixCellFromPath
  <2>4. QED BY <1>11, <2>3, ResolveHas
<1>12. ASSUME name \in Singletons, rank = 0, a = Address(name, <<>>)
       PROVE  FALSE
  <2>1. p = first
    <3> HIDE DEF rank, names, name
    <3>1. QED BY <1>2, <1>6, <1>7, <1>12
  <2>2. <<p>> \in SingletonPath(FirstNamed(names, name))
    BY <1>8, <2>1 DEF SingletonPath
  <2>3. layout.single[name] = FirstNamed(names, name)
    <3> HIDE DEF name
    <3>1. QED BY <1>1, <1>12 DEF LayoutOf
  <2> HIDE DEF rank, names, name
  <2>4. QED BY <1>12, <2>2, <2>3, ResolveHas
<1>13. name \in RootRuns /\ a = Address(name, <<rank>>)
  <2> HIDE DEF rank, names, name
  <2>1. QED BY <1>4, <1>11, <1>12
<1>14. a.index = <<rank>>
  <2> HIDE DEF rank, names, name
  <2>1. QED BY <1>13 DEF Address
<1> HIDE DEF rank, names, name
<1>15. QED BY <1>7, <1>10, <1>13, <1>14

(* And so is a child of one of these, where its family is sought there.    *)
LEMMA KidAddressIsResolved ==
  ASSUME NEW tree \in Seq(Node), NEW layout \in FromFullSync(tree),
         NEW p \in 0 .. Len(tree) - 1, NEW k \in 0 .. Len(tree[p + 1].kids) - 1,
         NEW a \in TrueAddress(tree, <<p, k>>),
         a \notin Resolve(layout, <<p, k>>), ~OutOfReach(<<p, k>>, a)
  PROVE  Len(a.index) = 1 /\ a.index[1] \in Nat /\ a.index[1] >= U8Max
<1> DEFINE names == Names(tree)
           kids == tree[p + 1].kids
           f == kids[k + 1]
           rank == Rank(kids, k)
           nested == DiscoverNested(tree, f)
           first == nested.first
           c == Consecutive(kids, first, f)
<1>1. layout = LayoutOf(tree)
  BY DEF FromFullSync
<1>2. /\ names \in Seq(STRING) /\ Len(names) = Len(tree) /\ Len(tree) \in Nat
      /\ p \in 0 .. Len(names) - 1 /\ p \in Nat
      /\ kids \in Seq(STRING) /\ Len(kids) \in Nat /\ k \in Nat
      /\ k \in 0 .. Len(kids) - 1
  BY NamesOfTree, LenProperties
<1>3. a \in TrueBelow(names, p, kids, k)
  BY TrueKid
<1>4. /\ f \in NestedRuns /\ names[p + 1] = Container[f] /\ Rank(names, p) = 0
      /\ InFirstRun(kids, k) /\ a = Address(f, <<rank>>)
  <2> HIDE DEF names, kids
  <2>1. /\ f \in DOMAIN KeptIn /\ names[p + 1] = KeptIn[f] /\ Rank(names, p) = 0
        /\ InFirstRun(kids, k) /\ a = Address(f, <<rank>>)
    BY <1>3 DEF TrueBelow
  <2>2. a.family = f /\ Len(<<p, k>>) = 2
    BY <2>1 DEF Address
  <2>3. f \in NestedRuns
    BY <2>1, <2>2, TablesAgree DEF OutOfReach
  <2>4. QED BY <2>1, <2>3, TablesAgree
<1>5. p \in FirstNamed(names, Container[f])
  BY <1>2, <1>4, RankOfFirst
<1>6. \E q \in FirstNamed(kids, f) : TRUE
  BY <1>2, FirstExists
<1>7. nested.parent = FirstNamed(names, Container[f]) /\ nested.count \in 0 .. U8Max
  <2> HIDE DEF f
  <2>1. QED BY <1>4, DiscoveredNested
<1>8. /\ nested.count # 0 /\ first \in FirstNamed(kids, f)
      /\ nested.count < c => nested.count = U8Max
  <2> HIDE DEF f
  <2>1. QED BY <1>4, <1>5, <1>6, <1>7, DiscoveredNested, ZenonT(60)
<1>9. first \in 0 .. k /\ rank = k - first /\ k - first < c
  <2> HIDE DEF nested, first, kids
  <2>1. QED BY <1>2, <1>4, <1>8, SiblingsAreInTheirRun
<1>10. first \in Nat /\ rank \in Nat /\ c \in Nat
  <2>1. first \in 0 .. Len(kids) - 1
    BY <1>2, <1>9
  <2>2. c \in 0 .. Len(kids) - first
    BY <1>2, <2>1, ConsecutiveCounts
  <2> HIDE DEF c, rank, kids, first
  <2>3. QED BY <1>2, <1>9, <2>1, <2>2
<1>11. layout.nested[f] = nested
  <2> HIDE DEF f
  <2>1. QED BY <1>1, <1>4 DEF LayoutOf
<1>12. Len(<<p, k>>) = 2 /\ <<p, k>>[1] = p /\ <<p, k>>[2] = k
  OBVIOUS
<1> HIDE DEF nested, c, rank, kids, f
<1>13. ASSUME rank < nested.count PROVE FALSE
  <2>1. k - first \in NestedIndex(nested, <<p, k>>)
    BY <1>2, <1>5, <1>7, <1>9, <1>10, <1>12, <1>13 DEF NestedIndex
  <2>2. a \in Resolve(layout, <<p, k>>)
    BY <1>4, <1>9, <1>11, <2>1, ResolveHas
  <2>3. QED BY <2>2
<1>14. nested.count \in Nat
  BY <1>7, LayoutAssumption
<1>15. rank >= U8Max
  BY <1>8, <1>9, <1>10, <1>13, <1>14, LayoutAssumption
<1>16. a.index = <<rank>>
  BY <1>4 DEF Address
<1>17. QED BY <1>10, <1>15, <1>16

(* A node that has an address is found by it, except past the end of a run *)
(* whose counter is full and below a container that is not searched for it.*)
THEOREM TrueAddressIsResolved ==
  ASSUME NEW tree \in Seq(Node), NEW layout \in FromFullSync(tree),
         NEW path \in NodePaths(tree),
         NEW a \in TrueAddress(tree, path) \ Resolve(layout, path),
         ~OutOfReach(path, a)
  PROVE  Len(a.index) = 1 /\ a.index[1] \in Nat /\ a.index[1] >= U8Max
<1>1. CASE \E p \in 0 .. Len(tree) - 1 : path = <<p>>
  BY <1>1, TopAddressIsResolved
<1>2. CASE \E p \in 0 .. Len(tree) - 1 :
             \E k \in 0 .. Len(tree[p + 1].kids) - 1 : path = <<p, k>>
  BY <1>2, KidAddressIsResolved
<1>3. QED BY <1>1, <1>2, PathsOfTree

(* An address that has a path is found by it.                              *)
LEMMA AddressedIsResolved ==
  ASSUME NEW tree \in Seq(Node), NEW layout \in FromFullSync(tree),
         NEW a \in Addresses, NEW path \in PathOf(layout, a)
  PROVE  a \in Resolve(layout, path)
<1>1. path \in NodePaths(tree) /\ TrueAddress(tree, path) = {a}
  BY AddressedPaths
<1>2. SUFFICES ASSUME a \notin Resolve(layout, path) PROVE FALSE
  OBVIOUS
<1>0. ~OutOfReach(path, a)
  <2>1. SUFFICES ASSUME a.family \in RootRuns PROVE Len(path) # 2
    BY DEF OutOfReach
  <2>2. PathOf(layout, a) = RunPath(layout.run[a.family], a.index[1])
    BY <2>1, FamiliesApart DEF PathOf
  <2>3. PICK first \in layout.run[a.family].first : path = <<first + a.index[1]>>
    BY <2>2 DEF RunPath
  <2>4. QED BY <2>3
<1>3. Len(a.index) = 1 /\ a.index[1] \in Nat /\ a.index[1] >= U8Max
  BY <1>0, <1>1, <1>2, TrueAddressIsResolved
<1>4. a.family \in RootRuns \cup NestedRuns \cup {"MIX"}
  <2>1. CASE \E f \in Singletons : a = Address(f, <<>>)
    <3>1. a.index = <<>>
      BY <2>1 DEF Address
    <3>2. QED BY <1>3, <3>1
  <2>2. CASE \E f \in RootRuns \cup NestedRuns, n \in Nat : a = Address(f, <<n>>)
    BY <2>2 DEF Address
  <2>3. CASE \E s, m \in Nat : a = Address("MIX", <<s, m>>)
    BY <2>3 DEF Address
  <2>4. QED BY <2>1, <2>2, <2>3, AddressForms
<1>5. a.index[1] < U8Max
  BY <1>4, AddressedPaths
<1>6. QED BY <1>3, <1>5, LayoutAssumption
=============================================================================
