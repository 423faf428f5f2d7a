---------------------------- MODULE CodecProofs ----------------------------
(***************************************************************************)
(* Proofs about the codec, for any widths, beginnings and alphabet: what it*)
(* reads, that it heeds nothing but the bytes it reads, and that what is   *)
(* written is read again (the properties of CodecProps).                   *)
(*                                                                         *)
(* What recurses is a function of a number: that it unfolds is shown once, *)
(* for all of them (RecursionUnfolds).  Reads and ReadsTheSame say of      *)
(* whatever reads a thing what it yields, where it ends, and that the same *)
(* bytes elsewhere are read the same; they climb with the depth of nesting *)
(* (ReadingFits, ReadingsAgree).                                           *)
(*                                                                         *)
(* Stands says that bytes stand somewhere in the data, Arrives that a thing*)
(* is read wherever its bytes stand, Rewrites that whatever is read is     *)
(* written as bytes that arrive as it, at most three times as many as were *)
(* read (Short), if they have room (Room); they climb so too               *)
(* (ReadingRewrites).                                                      *)
(***************************************************************************)
EXTENDS CodecProps, SequenceTheorems, FiniteSetTheorems, WellFoundedInduction, TLAPS

-----------------------------------------------------------------------------
(* Recursion.                                                              *)

Less == {p \in Nat \X Nat : p[1] < p[2]}

(* Of any naturals, one is the least.                                      *)
LEMMA LeastNatural ==
  ASSUME NEW T \in SUBSET Nat, T # {}
  PROVE  \E x \in T : \A y \in T : x <= y
<1>1. IsWellFoundedOn(Less, Nat)
  BY NatLessThanWellFounded DEF OpToRel, Less
<1>2. PICK x \in T : \A y \in T : <<y, x>> \notin Less
  BY <1>1, WFMin
<1>3. \A y \in T : ~ (y < x)
  BY <1>2 DEF Less
<1>4. QED BY <1>3

(* Induction: a set that holds 0 and, with a number, the next holds all.   *)
LEMMA Counting ==
  ASSUME NEW S, 0 \in S, \A n \in Nat : n \in S => n + 1 \in S
  PROVE  \A n \in Nat : n \in S
<1> DEFINE Bad == {n \in Nat : n \notin S}
<1>1. SUFFICES ASSUME Bad # {} PROVE FALSE
  OBVIOUS
<1>2. PICK n \in Bad : \A m \in Bad : n <= m
  BY <1>1, LeastNatural
<1>3. n # 0 /\ n - 1 \in Nat
  BY <1>2
<1>4. n - 1 \notin Bad
  BY <1>2, <1>3
<1>5. (n - 1) + 1 \in S
  BY <1>3, <1>4
<1>6. QED BY <1>2, <1>5

(* The recursive functions of the codec all go from one natural to the     *)
(* next.  What each begins with and how it goes on is told by its rule.    *)
Begin(rule) ==
  CASE rule.of = "Power" -> 1
    [] rule.of = "Number" -> 0
    [] rule.of = "Digits" -> NoDigits
    [] rule.of = "ReadList" -> ReadNone
    [] rule.of = "FlattenSeq" -> <<>>
    [] rule.of = "Reading" -> NoReader
    [] rule.of = "Things" -> NoThings
    [] rule.of = "Writing" -> NoWriter

GoOn(rule, before, n) ==
  CASE rule.of = "Power" -> Base * before
    [] rule.of = "Number" ->
         rule.bytes[Len(rule.bytes) + 1 - n] + Base * before
    [] rule.of = "Digits" -> LowestFirst(before)
    [] rule.of = "ReadList" -> ReadFirst(before, rule.readOne)
    [] rule.of = "FlattenSeq" ->
         IF n = 1 THEN rule.seqs[n] ELSE before \o rule.seqs[n]
    [] rule.of = "Reading" -> Reader(before)
    [] rule.of = "Things" -> Thing(before)
    [] rule.of = "Writing" -> Writer(before, Things[n])

Recursive(rule) ==
  CHOOSE f : f = [n \in Nat |->
                    IF n = 0 THEN Begin(rule) ELSE GoOn(rule, f[n - 1], n)]

(* The first values of a recursive function, up to the n-th.               *)
FirstValues(rule, n, g) ==
  g = [k \in 0 .. n |->
         IF k = 0 THEN Begin(rule) ELSE GoOn(rule, g[k - 1], k)]

(* There are such values for every n.                                      *)
LEMMA FirstValuesExist ==
  ASSUME NEW rule
  PROVE  \A n \in Nat : \E g : FirstValues(rule, n, g)
<1> DEFINE Bad == {n \in Nat : ~ \E g : FirstValues(rule, n, g)}
<1>1. SUFFICES ASSUME Bad # {} PROVE FALSE
  OBVIOUS
<1>2. PICK n \in Bad : \A m \in Bad : n <= m
  BY <1>1, LeastNatural
<1>3. n # 0
  <2>1. FirstValues(rule, 0, [k \in 0 .. 0 |-> Begin(rule)])
    BY DEF FirstValues
  <2>2. QED BY <2>1
<1>4. n - 1 \in Nat /\ n - 1 \notin Bad
  BY <1>2, <1>3
<1>5. PICK g : FirstValues(rule, n - 1, g)
  BY <1>4
<1> DEFINE h == [k \in 0 .. n |-> IF k = n THEN GoOn(rule, g[n - 1], n)
                                            ELSE g[k]]
<1>6. FirstValues(rule, n, h)
  <2>1. \A k \in 0 .. n - 1 : h[k] = g[k]
    BY <1>4
  <2>2. \A k \in 0 .. n :
          h[k] = IF k = 0 THEN Begin(rule) ELSE GoOn(rule, h[k - 1], k)
    BY <1>3, <1>4, <1>5, <2>1 DEF FirstValues
  <2>3. h = [k \in 0 .. n |-> h[k]]
    OBVIOUS
  <2> HIDE DEF h
  <2>4. QED BY <2>2, <2>3 DEF FirstValues
<1>7. QED BY <1>6

(* And only one: what they are does not depend on how far they go.         *)
LEMMA FirstValuesAgree ==
  ASSUME NEW rule, NEW m \in Nat, NEW n \in Nat, NEW g, NEW h,
         FirstValues(rule, m, g), FirstValues(rule, n, h)
  PROVE  \A k \in Nat : k <= m /\ k <= n => g[k] = h[k]
<1> DEFINE Bad == {k \in Nat : k <= m /\ k <= n /\ g[k] # h[k]}
<1>1. SUFFICES ASSUME Bad # {} PROVE FALSE
  OBVIOUS
<1>2. PICK k \in Bad : \A j \in Bad : k <= j
  BY <1>1, LeastNatural
<1>3. g[k] = IF k = 0 THEN Begin(rule) ELSE GoOn(rule, g[k - 1], k)
  BY DEF FirstValues
<1>4. h[k] = IF k = 0 THEN Begin(rule) ELSE GoOn(rule, h[k - 1], k)
  BY DEF FirstValues
<1>5. k # 0 => g[k - 1] = h[k - 1]
  BY <1>2
<1>6. QED BY <1>3, <1>4, <1>5

(* So the recursive function is what its definition says.                  *)
LEMMA RecursionUnfolds ==
  ASSUME NEW rule
  PROVE  Recursive(rule) =
           [n \in Nat |-> IF n = 0 THEN Begin(rule)
                          ELSE GoOn(rule, Recursive(rule)[n - 1], n)]
<1> DEFINE Values(n) == CHOOSE g : FirstValues(rule, n, g)
           f == [n \in Nat |-> Values(n)[n]]
<1>1. \A n \in Nat : FirstValues(rule, n, Values(n))
  BY FirstValuesExist
<1> HIDE DEF Values
<1>2. \A n \in Nat : f[n] = IF n = 0 THEN Begin(rule)
                            ELSE GoOn(rule, f[n - 1], n)
  <2>1. TAKE n \in Nat
  <2>2. FirstValues(rule, n, Values(n)) BY <1>1
  <2>3. CASE n = 0
    BY <2>2, <2>3 DEF FirstValues
  <2>4. CASE n # 0
    <3>1. n - 1 \in Nat BY <2>4
    <3>2. f[n - 1] = Values(n)[n - 1]
      BY <1>1, <2>2, <3>1, FirstValuesAgree
    <3>3. f[n] = Values(n)[n] OBVIOUS
    <3> HIDE DEF f
    <3>4. QED BY <3>2, <3>3, <2>2, <2>4 DEF FirstValues
  <2>5. QED BY <2>3, <2>4
<1>3. f = [n \in Nat |-> f[n]] OBVIOUS
<1> HIDE DEF f
<1>4. f = [n \in Nat |-> IF n = 0 THEN Begin(rule)
                         ELSE GoOn(rule, f[n - 1], n)]
  BY <1>2, <1>3
<1>5. QED BY <1>4 DEF Recursive

(* A byte more tells 256 times as many things apart.                       *)
LEMMA PowerIs ==
  /\ Power[0] = 1
  /\ \A k \in Nat : Power[k + 1] = 256 * Power[k]
<1> DEFINE rule == [of |-> "Power"]
<1>1. Begin(rule) = 1
  BY DEF Begin
<1>2. \A b, n : GoOn(rule, b, n) = Base * b
  BY DEF GoOn
<1>3. Power = Recursive(rule)
  BY <1>1, <1>2 DEF Power, Recursive
<1> HIDE DEF rule
<1>4. Power = [n \in Nat |-> IF n = 0 THEN 1 ELSE Base * Power[n - 1]]
  BY <1>1, <1>2, <1>3, RecursionUnfolds
<1>5. QED BY <1>4 DEF Base

(* Reading unfolds: nothing at depth 0, a reader of what is read one less  *)
(* deep.                                                                   *)
LEMMA ReadingIs ==
  /\ \A kind \in Kinds, data \in Seq(Byte), p \in Nat :
        Reading[0][kind][data][p] = Nothing
  /\ \A d \in Nat : Reading[d + 1] = Reader(Reading[d])
<1> DEFINE rule == [of |-> "Reading"]
<1>1. Begin(rule) = NoReader
  BY DEF Begin
<1>2. \A b, n : GoOn(rule, b, n) = Reader(b)
  BY DEF GoOn
<1>3. Reading = Recursive(rule)
  BY <1>1, <1>2 DEF Reading, Recursive
<1> HIDE DEF rule
<1>4. Reading = [n \in Nat |-> IF n = 0 THEN NoReader ELSE Reader(Reading[n - 1])]
  BY <1>1, <1>2, <1>3, RecursionUnfolds
<1>5. Reading[0] = NoReader /\ \A d \in Nat : Reading[d + 1] = Reader(Reading[d])
  BY <1>4
<1>6. \A kind \in Kinds, data \in Seq(Byte), p \in Nat :
        NoReader[kind][data][p] = Nothing
  BY DEF NoReader
<1>7. \A kind \in Kinds, data \in Seq(Byte), p \in Nat :
        Reading[0][kind][data][p] = Nothing
  BY <1>5, <1>6
<1>8. QED BY <1>5, <1>7

(* A list unfolds: one thing, and the others from where it ends.           *)
LEMMA ReadListIs ==
  ASSUME NEW read, NEW kind, NEW data
  PROVE  /\ \A p \in Nat : ReadList(read, kind, 0, data, p) = Got(<<>>, p)
         /\ \A n \in Nat, p \in Nat :
              ReadList(read, kind, n + 1, data, p) =
                IF read[kind][data][p].ok
                THEN IF ReadList(read, kind, n, data, read[kind][data][p].next).ok
                     THEN Got(<<read[kind][data][p].val>> \o
                          ReadList(read, kind, n, data,
                                   read[kind][data][p].next).val,
                          ReadList(read, kind, n, data,
                                   read[kind][data][p].next).next)
                     ELSE Nothing
                ELSE Nothing
<1> DEFINE one == read[kind][data]
           rule == [of |-> "ReadList", readOne |-> one]
           list == ReadMany(one)
<1>1. Begin(rule) = ReadNone
  BY DEF Begin
<1>2. \A b, n : GoOn(rule, b, n) = ReadFirst(b, one)
  BY DEF GoOn
<1>3. list = Recursive(rule)
  BY <1>1, <1>2 DEF ReadMany, Recursive
<1> HIDE DEF rule
<1>4. list = [n \in Nat |-> IF n = 0 THEN ReadNone ELSE ReadFirst(list[n - 1], one)]
  BY <1>1, <1>2, <1>3, RecursionUnfolds
<1>5. \A n, q : ReadList(read, kind, n, data, q) = list[n][q]
  BY DEF ReadList
<1> HIDE DEF list, one
<1>6. list[0] = ReadNone /\ \A n \in Nat : list[n + 1] = ReadFirst(list[n], one)
  BY <1>4
<1>7. \A p \in Nat : ReadList(read, kind, 0, data, p) = Got(<<>>, p)
  BY <1>5, <1>6 DEF ReadNone
<1>8. ASSUME NEW n \in Nat, NEW p \in Nat
      PROVE  ReadList(read, kind, n + 1, data, p) =
                IF one[p].ok
                THEN IF ReadList(read, kind, n, data, one[p].next).ok
                     THEN Got(<<one[p].val>> \o
                                ReadList(read, kind, n, data, one[p].next).val,
                              ReadList(read, kind, n, data, one[p].next).next)
                     ELSE Nothing
                ELSE Nothing
  <2>1. ReadList(read, kind, n + 1, data, p) = ReadFirst(list[n], one)[p]
    BY <1>5, <1>6
  <2>2. ReadList(read, kind, n, data, one[p].next) = list[n][one[p].next]
    BY <1>5
  <2>3. QED BY <2>1, <2>2 DEF ReadFirst, Then
<1>9. QED BY <1>7, <1>8 DEF one

(* The number of the last bytes unfolds: the highest byte counts most.     *)
LEMMA NumberUnfolds ==
  ASSUME NEW bytes
  PROVE  NumberOfLast(bytes) =
           [k \in Nat |-> IF k = 0 THEN 0
              ELSE bytes[Len(bytes) + 1 - k] + 256 * NumberOfLast(bytes)[k - 1]]
<1> DEFINE rule == [of |-> "Number", bytes |-> bytes]
           number == NumberOfLast(bytes)
<1>1. Begin(rule) = 0
  BY DEF Begin
<1>2. \A b, n : GoOn(rule, b, n) = bytes[Len(bytes) + 1 - n] + Base * b
  BY DEF GoOn
<1>3. number = Recursive(rule)
  BY <1>1, <1>2 DEF NumberOfLast, Recursive
<1> HIDE DEF rule
<1>4. number = [k \in Nat |-> IF k = 0 THEN 0 ELSE bytes[Len(bytes) + 1 - k] + Base * number[k - 1]]
  BY <1>1, <1>2, <1>3, RecursionUnfolds
<1>5. QED BY <1>3, <1>4 DEF Base

(* Digits unfold: the lowest byte, and the digits of the rest.             *)
LEMMA DigitsAre ==
  \A n \in Nat :
    /\ Digits[0][n] = <<>>
    /\ \A k \in Nat : Digits[k + 1][n] = <<n % 256>> \o Digits[k][n \div 256]
<1> DEFINE rule == [of |-> "Digits"]
<1>1. Begin(rule) = NoDigits
  BY DEF Begin
<1>2. \A b, n : GoOn(rule, b, n) = LowestFirst(b)
  BY DEF GoOn
<1>3. Digits = Recursive(rule)
  BY <1>1, <1>2 DEF Digits, Recursive
<1> HIDE DEF rule
<1>4. Digits = [k \in Nat |-> IF k = 0 THEN NoDigits ELSE LowestFirst(Digits[k - 1])]
  BY <1>1, <1>2, <1>3, RecursionUnfolds
<1>5. Digits[0] = NoDigits /\ \A k \in Nat : Digits[k + 1] = LowestFirst(Digits[k])
  BY <1>4
<1>6. \A n \in Nat : NoDigits[n] = <<>>
  BY DEF NoDigits
<1>7. \A d, n : n \in Nat => LowestFirst(d)[n] = <<n % 256>> \o d[n \div 256]
  BY DEF LowestFirst, Base
<1>8. \A n \in Nat : Digits[0][n] = <<>>
  BY <1>5, <1>6
<1>9. ASSUME NEW n \in Nat, NEW k \in Nat
      PROVE  Digits[k + 1][n] = <<n % 256>> \o Digits[k][n \div 256]
  <2> DEFINE d == Digits[k]
  <2>1. Digits[k + 1] = LowestFirst(d)
    BY <1>5
  <2>2. \A m \in Nat : LowestFirst(d)[m] = <<m % 256>> \o d[m \div 256]
    BY <1>7, ZenonT(40)
  <2> HIDE DEF d
  <2>3. Digits[k + 1][n] = <<n % 256>> \o d[n \div 256]
    BY <2>1, <2>2
  <2>4. QED BY <2>3 DEF d
<1>10. QED BY <1>8, <1>9

(* Things unfold: none at depth 0, then those that hold such.              *)
LEMMA ThingsAre ==
  /\ \A kind \in Kinds : Things[0][kind] = {}
  /\ \A d \in Nat : Things[d + 1] = Thing(Things[d])
<1> DEFINE rule == [of |-> "Things"]
<1>1. Begin(rule) = NoThings
  BY DEF Begin
<1>2. \A b, n : GoOn(rule, b, n) = Thing(b)
  BY DEF GoOn
<1>3. Things = Recursive(rule)
  BY <1>1, <1>2 DEF Things, Recursive
<1> HIDE DEF rule
<1>4. Things = [n \in Nat |-> IF n = 0 THEN NoThings ELSE Thing(Things[n - 1])]
  BY <1>1, <1>2, <1>3, RecursionUnfolds
<1>5. Things[0] = NoThings /\ \A d \in Nat : Things[d + 1] = Thing(Things[d])
  BY <1>4
<1>6. QED BY <1>5 DEF NoThings

(* Writing unfolds as Reading does.                                        *)
LEMMA WritingIs ==
  \A d \in Nat : Writing[d + 1] = Writer(Writing[d], Things[d + 1])
<1> DEFINE rule == [of |-> "Writing"]
<1>1. Begin(rule) = NoWriter
  BY DEF Begin
<1>2. \A b, n : GoOn(rule, b, n) = Writer(b, Things[n])
  BY DEF GoOn
<1>3. Writing = Recursive(rule)
  BY <1>1, <1>2 DEF Writing, Recursive
<1> HIDE DEF rule
<1>4. Writing = [n \in Nat |-> IF n = 0 THEN NoWriter
                                ELSE Writer(Writing[n - 1], Things[n])]
  BY <1>1, <1>2, <1>3, RecursionUnfolds
<1>5. QED BY <1>4

(* Joining sequences, one after the other.                                 *)
Joined(seqs) ==
  CHOOSE f : f = [i \in 1 .. Len(seqs) |->
                    IF i = 1 THEN seqs[i] ELSE f[i - 1] \o seqs[i]]

(* What FlattenSeq of the community modules joins, one string at a time.   *)
LEMMA JoinedIs ==
  ASSUME NEW T, NEW seqs \in Seq(Seq(T))
  PROVE  /\ Len(seqs) = 0 => FlattenSeq(seqs) = <<>>
         /\ Len(seqs) # 0 => /\ FlattenSeq(seqs) = Joined(seqs)[Len(seqs)]
                             /\ Joined(seqs)[1] = seqs[1]
         /\ \A i \in Nat : i >= 1 /\ i < Len(seqs) =>
              Joined(seqs)[i + 1] = Joined(seqs)[i] \o seqs[i + 1]
         /\ \A i \in 1 .. Len(seqs) : Joined(seqs)[i] \in Seq(T)
<1> DEFINE rule == [of |-> "FlattenSeq", seqs |-> seqs]
           n == Len(seqs)
<1>1. /\ Len(seqs) = 0 => FlattenSeq(seqs) = <<>>
      /\ Len(seqs) # 0 => FlattenSeq(seqs) = Joined(seqs)[Len(seqs)]
  BY DEF FlattenSeq, Joined
<1>2. n \in Nat
  OBVIOUS
<1>3. \A b, k : GoOn(rule, b, k) = IF k = 1 THEN seqs[k] ELSE b \o seqs[k]
  BY DEF GoOn
<1>4. PICK g : FirstValues(rule, n, g)
  BY <1>2, FirstValuesExist
<1> DEFINE f == [i \in 1 .. n |-> g[i]]
<1> HIDE DEF rule, n
<1>5. \A i \in 1 .. n : g[i] = GoOn(rule, g[i - 1], i)
  <2>1. TAKE i \in 1 .. n
  <2>2. i \in 0 .. n /\ i # 0
    BY <1>2
  <2>3. QED BY <1>4, <2>2 DEF FirstValues
<1>6. f = [i \in 1 .. n |-> IF i = 1 THEN seqs[i] ELSE f[i - 1] \o seqs[i]]
  <2>1. \A i \in 1 .. n :
          f[i] = IF i = 1 THEN seqs[i] ELSE f[i - 1] \o seqs[i]
    <3>1. TAKE i \in 1 .. n
    <3>2. f[i] = GoOn(rule, g[i - 1], i)
      BY <1>5
    <3>3. i # 1 => f[i - 1] = g[i - 1]
      BY <1>2
    <3> HIDE DEF f
    <3>4. QED BY <3>2, <3>3, <1>3
  <2>2. f = [i \in 1 .. n |-> f[i]]
    OBVIOUS
  <2> HIDE DEF f
  <2>3. QED BY <2>1, <2>2
<1> HIDE DEF f
<1>7. Joined(seqs) = [i \in 1 .. n |->
          IF i = 1 THEN seqs[i] ELSE Joined(seqs)[i - 1] \o seqs[i]]
  BY <1>6 DEF Joined, n
<1>8. \A i \in Nat : i >= 1 /\ i < n =>
         Joined(seqs)[i + 1] = Joined(seqs)[i] \o seqs[i + 1]
  <2>1. SUFFICES ASSUME NEW i \in Nat, i >= 1, i < n
                 PROVE  Joined(seqs)[i + 1] = Joined(seqs)[i] \o seqs[i + 1]
    OBVIOUS
  <2>2. i + 1 \in 1 .. n /\ i + 1 # 1 /\ (i + 1) - 1 = i
    BY <1>2, <2>1
  <2>3. Joined(seqs)[i + 1] = Joined(seqs)[(i + 1) - 1] \o seqs[i + 1]
    BY <1>7, <2>2
  <2>4. QED BY <2>2, <2>3
<1>9. n # 0 => Joined(seqs)[1] = seqs[1]
  BY <1>2, <1>7
<1> DEFINE S == {i \in Nat : i < n => Joined(seqs)[i + 1] \in Seq(T)}
<1>10. \A i \in 1 .. n : seqs[i] \in Seq(T)
  BY DEF n
<1>11. 0 \in S
  BY <1>9, <1>10, <1>2
<1>12. ASSUME NEW i \in Nat, i \in S PROVE i + 1 \in S
  <2>1. SUFFICES ASSUME i + 1 < n PROVE Joined(seqs)[(i + 1) + 1] \in Seq(T)
    OBVIOUS
  <2>2. i < n /\ (i + 1) + 1 \in 1 .. n /\ i + 1 \in Nat /\ i + 1 >= 1
    BY <2>1, <1>2
  <2>3. Joined(seqs)[(i + 1) + 1] = Joined(seqs)[i + 1] \o seqs[(i + 1) + 1]
    BY <2>1, <2>2, <1>8
  <2>4. Joined(seqs)[i + 1] \in Seq(T) /\ seqs[(i + 1) + 1] \in Seq(T)
    BY <2>2, <1>12, <1>10
  <2> HIDE DEF S
  <2>5. QED BY <2>3, <2>4
<1>13. \A i \in Nat : i \in S
  <2> HIDE DEF S
  <2>1. QED BY <1>11, <1>12, Counting
<1>14. \A i \in 1 .. n : Joined(seqs)[i] \in Seq(T)
  <2>1. TAKE i \in 1 .. n
  <2>2. i - 1 \in Nat /\ i - 1 < n /\ (i - 1) + 1 = i
    BY <1>2
  <2>3. i - 1 \in S
    BY <2>2, <1>13
  <2>4. QED BY <2>2, <2>3
<1>15. QED BY <1>1, <1>8, <1>9, <1>14 DEF n

(* The first, and then the others joined.                                  *)
LEMMA JoiningOthers ==
  ASSUME NEW T, NEW a \in Seq(T), NEW seqs \in Seq(Seq(T))
  PROVE  /\ FlattenSeq(<<>>) = <<>>
         /\ FlattenSeq(seqs) \in Seq(T)
         /\ FlattenSeq(<<a>> \o seqs) = a \o FlattenSeq(seqs)
<1> DEFINE all == <<a>> \o seqs
           n == Len(seqs)
<1>1. /\ n \in Nat /\ all \in Seq(Seq(T)) /\ Len(all) = n + 1
      /\ all[1] = a /\ \A i \in 1 .. n : all[i + 1] = seqs[i]
  OBVIOUS
<1>2. FlattenSeq(<<>>) = <<>>
  BY DEF FlattenSeq
<1> HIDE DEF all, n
<1>3. /\ FlattenSeq(all) = Joined(all)[n + 1]
      /\ Joined(all)[1] = a
      /\ \A i \in Nat : i >= 1 /\ i < n + 1 =>
           Joined(all)[i + 1] = Joined(all)[i] \o all[i + 1]
  <2>1. Len(all) # 0
    BY <1>1
  <2>2. /\ FlattenSeq(all) = Joined(all)[Len(all)]
        /\ Joined(all)[1] = all[1]
        /\ \A i \in Nat : i >= 1 /\ i < Len(all) =>
             Joined(all)[i + 1] = Joined(all)[i] \o all[i + 1]
    BY <2>1, <1>1, JoinedIs
  <2>3. QED BY <2>2, <1>1
<1>4. n # 0 => FlattenSeq(seqs) = Joined(seqs)[n] /\ Joined(seqs)[1] = seqs[1]
  <2>1. SUFFICES ASSUME Len(seqs) # 0
                 PROVE  /\ FlattenSeq(seqs) = Joined(seqs)[Len(seqs)]
                        /\ Joined(seqs)[1] = seqs[1]
    BY DEF n
  <2>2. QED BY <2>1, JoinedIs
<1>5. /\ n = 0 => FlattenSeq(seqs) = <<>>
      /\ \A i \in Nat : i >= 1 /\ i < n =>
           Joined(seqs)[i + 1] = Joined(seqs)[i] \o seqs[i + 1]
      /\ \A i \in 1 .. n : Joined(seqs)[i] \in Seq(T)
  BY JoinedIs DEF n
<1>51. \A i \in 1 .. n : seqs[i] \in Seq(T)
  BY DEF n
<1>52. FlattenSeq(seqs) \in Seq(T)
  <2>1. CASE n = 0
    BY <2>1, <1>5
  <2>2. CASE n # 0
    BY <2>2, <1>1, <1>4, <1>5
  <2>3. QED BY <2>1, <2>2
<1> DEFINE S == {i \in Nat : i < n =>
                   Joined(all)[(i + 1) + 1] = a \o Joined(seqs)[i + 1]}
<1>6. 0 \in S
  <2>1. SUFFICES ASSUME 0 < n
                 PROVE  Joined(all)[(0 + 1) + 1] = a \o Joined(seqs)[0 + 1]
    OBVIOUS
  <2>2. 1 \in Nat /\ 1 >= 1 /\ 1 < n + 1 /\ 1 \in 1 .. n /\ 0 + 1 = 1
    BY <1>1, <2>1
  <2>3. Joined(all)[1 + 1] = Joined(all)[1] \o all[1 + 1]
    BY <1>3, <2>2
  <2>4. all[1 + 1] = seqs[1]
    BY <1>1, <2>2
  <2>5. Joined(seqs)[1] = seqs[1]
    BY <1>4, <2>1, <1>1
  <2>6. QED BY <1>3, <2>2, <2>3, <2>4, <2>5
<1>7. ASSUME NEW i \in Nat, i \in S PROVE i + 1 \in S
  <2> DEFINE j == i + 1
  <2>1. SUFFICES ASSUME j < n
                 PROVE  Joined(all)[(j + 1) + 1] = a \o Joined(seqs)[j + 1]
    OBVIOUS
  <2>2. /\ j \in 1 .. n /\ j + 1 \in 1 .. n /\ j \in Nat /\ j + 1 \in Nat
        /\ j >= 1 /\ j + 1 >= 1 /\ j + 1 < n + 1 /\ i < n
    BY <2>1, <1>1
  <2>3. Joined(all)[j + 1] = a \o Joined(seqs)[j]
    BY <1>7, <2>2
  <2> HIDE DEF j
  <2>4. Joined(all)[(j + 1) + 1] = Joined(all)[j + 1] \o all[(j + 1) + 1]
    BY <2>2, <1>3
  <2>5. all[(j + 1) + 1] = seqs[j + 1]
    BY <2>2, <1>1
  <2>6. Joined(seqs)[j + 1] = Joined(seqs)[j] \o seqs[j + 1]
    BY <2>1, <2>2, <1>5
  <2>7. Joined(seqs)[j] \in Seq(T) /\ seqs[j + 1] \in Seq(T)
    BY <2>2, <1>5, <1>51
  <2> DEFINE b == Joined(seqs)[j]
             c == seqs[j + 1]
  <2> HIDE DEF b, c
  <2>8. (a \o b) \o c = a \o (b \o c)
    <3>1. b \in Seq(T) /\ c \in Seq(T)
      BY <2>7 DEF b, c
    <3>2. QED BY <3>1, ConcatAssociative
  <2>9. QED BY <2>3, <2>4, <2>5, <2>6, <2>8 DEF b, c
<1>8. \A i \in Nat : i \in S
  <2> HIDE DEF S
  <2>1. QED BY <1>6, <1>7, Counting
<1>9. CASE n = 0
  <2>1. FlattenSeq(all) = a
    BY <1>9, <1>3
  <2>2. a \o <<>> = a
    OBVIOUS
  <2>3. QED BY <2>1, <2>2, <1>2, <1>5, <1>52, <1>9 DEF all
<1>10. CASE n # 0
  <2>1. n - 1 \in Nat /\ n - 1 < n /\ (n - 1) + 1 = n
    BY <1>1, <1>10
  <2>2. n - 1 \in S
    BY <2>1, <1>8
  <2>3. Joined(all)[n + 1] = a \o Joined(seqs)[n]
    BY <2>1, <2>2
  <2>4. QED BY <2>3, <1>2, <1>3, <1>4, <1>52, <1>10 DEF all
<1>11. QED BY <1>9, <1>10

-----------------------------------------------------------------------------
(* Numbers.                                                                *)

-----------------------------------------------------------------------------
(* Numbers and their bytes.                                                *)

(* Powers are positive.                                                    *)
LEMMA PowersArePositive ==
  \A k \in Nat : Power[k] \in Nat /\ Power[k] >= 1
<1> DEFINE S == {k \in Nat : Power[k] \in Nat /\ Power[k] >= 1}
<1>1. 0 \in S
  BY PowerIs
<1>2. ASSUME NEW k \in Nat, k \in S PROVE k + 1 \in S
  <2>1. Power[k + 1] = 256 * Power[k] /\ Power[k] \in Nat /\ Power[k] >= 1
    BY <1>2, PowerIs
  <2>2. QED BY <2>1
<1>3. \A k \in Nat : k \in S
  <2> HIDE DEF S
  <2>1. QED BY <1>1, <1>2, Counting
<1>4. QED BY <1>3

(* More bytes tell more apart.                                             *)
LEMMA PowersGrow ==
  \A j \in Nat, k \in Nat : j <= k => Power[j] <= Power[k]
<1>1. SUFFICES ASSUME NEW j \in Nat
               PROVE  \A k \in Nat : j <= k => Power[j] <= Power[k]
  OBVIOUS
<1> DEFINE S == {k \in Nat : j <= k => Power[j] <= Power[k]}
<1>2. 0 \in S
  BY PowersArePositive
<1>3. ASSUME NEW k \in Nat, k \in S PROVE k + 1 \in S
  <2>1. Power[k + 1] = 256 * Power[k] /\ Power[k] \in Nat /\ Power[k] >= 1
    BY <1>3, PowerIs, PowersArePositive
  <2>2. Power[j] \in Nat /\ Power[k + 1] \in Nat
    BY PowersArePositive
  <2>3. j <= k + 1 => j <= k \/ j = k + 1
    OBVIOUS
  <2>4. QED BY <1>3, <2>1, <2>2, <2>3
<1>4. \A k \in Nat : k \in S
  <2> HIDE DEF S
  <2>1. QED BY <1>2, <1>3, Counting
<1>5. QED BY <1>4

(* The widths the code has.                                                *)
LEMMA WireWidths ==
  /\ IntBytes \in {1, 2, 3, 4} /\ LongBytes \in Nat
  /\ Power[0] = 1 /\ Power[1] = 256 /\ Power[2] = 65536
  /\ Power[3] = 16777216 /\ Power[4] = 4294967296
  /\ Power[IntBytes] \in {256, 65536, 16777216, 4294967296}
<1>1. Power[0 + 1] = 256 * Power[0] /\ Power[1 + 1] = 256 * Power[1]
      /\ Power[2 + 1] = 256 * Power[2] /\ Power[3 + 1] = 256 * Power[3]
  BY PowerIs
<1>2. Power[0] = 1 /\ Power[1] = 256 /\ Power[2] = 65536
      /\ Power[3] = 16777216 /\ Power[4] = 4294967296
  BY <1>1, PowerIs
<1>3. IntBytes \in {1, 2, 3, 4} /\ LongBytes \in Nat
  BY WidthsAssumption
<1>4. QED BY <1>2, <1>3

(* Bytes are 0 .. 255, and strings of them have bytes in them.             *)
LEMMA Bytes ==
  /\ Byte = 0 .. 255
  /\ \A bytes \in Seq(Byte) : /\ Len(bytes) \in Nat
                              /\ \A i \in 1 .. Len(bytes) : bytes[i] \in Byte
  /\ <<>> \in Seq(Byte) /\ Len(<<>>) = 0
<1>1. Byte = 0 .. 255
  BY DEF Byte, Base
<1>2. \A bytes \in Seq(Byte) : /\ Len(bytes) \in Nat
                              /\ \A i \in 1 .. Len(bytes) : bytes[i] \in Byte
  OBVIOUS
<1>3. <<>> \in Seq(Byte) /\ Len(<<>>) = 0
  OBVIOUS
<1>4. QED BY <1>1, <1>2, <1>3

(* The number of the last k bytes.                                         *)
LEMMA NumberOfLastIs ==
  ASSUME NEW bytes \in Seq(Byte)
  PROVE  /\ NumberOfLast(bytes)[0] = 0
         /\ \A k \in Nat : NumberOfLast(bytes)[k + 1] =
               bytes[Len(bytes) - k] + 256 * NumberOfLast(bytes)[k]
         /\ \A k \in 0 .. Len(bytes) :
               NumberOfLast(bytes)[k] \in 0 .. Power[k] - 1
<1> DEFINE f == NumberOfLast(bytes)
           n == Len(bytes)
<1>1. n \in Nat /\ \A i \in 1 .. n : bytes[i] \in 0 .. 255
  BY Bytes
<1>2. f = [k \in Nat |-> IF k = 0 THEN 0 ELSE bytes[n + 1 - k] + 256 * f[k - 1]]
  BY NumberUnfolds
<1> HIDE DEF f, n
<1>3. f[0] = 0
  BY <1>2
<1>4. ASSUME NEW k \in Nat PROVE f[k + 1] = bytes[n - k] + 256 * f[k]
  <2>1. k + 1 \in Nat /\ k + 1 # 0 /\ (k + 1) - 1 = k /\ n + 1 - (k + 1) = n - k
    BY <1>1
  <2>2. f[k + 1] = bytes[n + 1 - (k + 1)] + 256 * f[(k + 1) - 1]
    BY <1>2, <2>1
  <2>3. QED BY <2>1, <2>2
<1> DEFINE S == {k \in Nat : k <= n => f[k] \in 0 .. Power[k] - 1}
<1>5. 0 \in S
  <2>1. f[0] \in 0 .. Power[0] - 1
    <3>1. 0 \in 0 .. 1 - 1
      OBVIOUS
    <3>2. QED BY <3>1, <1>3, PowerIs
  <2>2. QED BY <2>1
<1>6. ASSUME NEW k \in Nat, k \in S PROVE k + 1 \in S
  <2>1. SUFFICES ASSUME k + 1 <= n PROVE f[k + 1] \in 0 .. Power[k + 1] - 1
    OBVIOUS
  <2>2. n - k \in 1 .. n /\ k <= n
    BY <1>1, <2>1
  <2>3. f[k] \in 0 .. Power[k] - 1 /\ bytes[n - k] \in 0 .. 255
    BY <1>1, <1>6, <2>2
  <2>4. Power[k + 1] = 256 * Power[k] /\ Power[k] \in Nat
    BY PowerIs, PowersArePositive
  <2>5. f[k + 1] = bytes[n - k] + 256 * f[k]
    BY <1>4
  <2> DEFINE P == Power[k]
             x == f[k]
             b == bytes[n - k]
  <2> HIDE DEF S
  <2>6. P \in Nat /\ x \in 0 .. P - 1 /\ b \in 0 .. 255
    BY <2>3, <2>4
  <2> HIDE DEF P, x, b
  <2>7. b + 256 * x \in 0 .. (256 * P) - 1
    BY <2>6
  <2>8. QED BY <2>4, <2>5, <2>7 DEF P, x, b
<1>7. \A k \in Nat : k \in S
  <2> HIDE DEF S
  <2>1. QED BY <1>5, <1>6, Counting
<1>8. \A k \in 0 .. n : f[k] \in 0 .. Power[k] - 1
  BY <1>1, <1>7
<1>9. QED BY <1>3, <1>4, <1>8 DEF f, n

(* A number is its lowest byte and 256 times that of the others.           *)
LEMMA NumberIs ==
  /\ Number(<<>>) = 0
  /\ \A bytes \in Seq(Byte) : Number(bytes) \in 0 .. Power[Len(bytes)] - 1
  /\ \A b \in Byte, s \in Seq(Byte) :
       /\ <<b>> \o s \in Seq(Byte) /\ Len(<<b>> \o s) = Len(s) + 1
       /\ Number(<<b>> \o s) = b + 256 * Number(s)
<1>1. Number(<<>>) = 0
  <2>1. <<>> \in Seq(Byte) /\ Len(<<>>) = 0
    OBVIOUS
  <2>2. QED BY <2>1, NumberOfLastIs DEF Number
<1>2. ASSUME NEW bytes \in Seq(Byte)
      PROVE  Number(bytes) \in 0 .. Power[Len(bytes)] - 1
  <2>1. Len(bytes) \in 0 .. Len(bytes)
    OBVIOUS
  <2>2. QED BY <2>1, NumberOfLastIs DEF Number
<1>3. ASSUME NEW b \in Byte, NEW s \in Seq(Byte)
      PROVE  /\ <<b>> \o s \in Seq(Byte) /\ Len(<<b>> \o s) = Len(s) + 1
             /\ Number(<<b>> \o s) = b + 256 * Number(s)
  <2> DEFINE t == <<b>> \o s
             n == Len(s)
  <2>1. /\ t \in Seq(Byte) /\ Len(t) = n + 1 /\ n \in Nat
        /\ t[1] = b /\ \A i \in 1 .. n : t[i + 1] = s[i]
    OBVIOUS
  <2> HIDE DEF t, n
  <2> DEFINE f == NumberOfLast(s)
             g == NumberOfLast(t)
  <2>2. f[0] = 0 /\ g[0] = 0
    BY <2>1, NumberOfLastIs
  <2>3. \A k \in Nat : f[k + 1] = s[n - k] + 256 * f[k]
    BY NumberOfLastIs DEF n
  <2>4. \A k \in Nat : g[k + 1] = t[(n + 1) - k] + 256 * g[k]
    <3>1. \A k \in Nat : g[k + 1] = t[Len(t) - k] + 256 * g[k]
      BY <2>1, NumberOfLastIs
    <3>2. QED BY <2>1, <3>1
  <2> HIDE DEF f, g
  <2> DEFINE S == {k \in Nat : k <= n => f[k] = g[k]}
  <2>5. 0 \in S
    BY <2>2
  <2>6. ASSUME NEW k \in Nat, k \in S PROVE k + 1 \in S
    <3>1. SUFFICES ASSUME k + 1 <= n PROVE f[k + 1] = g[k + 1]
      OBVIOUS
    <3>2. n - k \in 1 .. n /\ (n + 1) - k = (n - k) + 1 /\ k <= n
      BY <2>1, <3>1
    <3>3. t[(n + 1) - k] = s[n - k]
      BY <2>1, <3>2
    <3>4. f[k] = g[k]
      BY <2>6, <3>2
    <3>5. f[k + 1] = s[n - k] + 256 * f[k] /\ g[k + 1] = t[(n + 1) - k] + 256 * g[k]
      BY <2>3, <2>4
    <3>6. QED BY <3>3, <3>4, <3>5
  <2>7. \A k \in Nat : k \in S
    <3> HIDE DEF S
    <3>1. QED BY <2>5, <2>6, Counting
  <2>8. f[n] = g[n]
    BY <2>1, <2>7
  <2>9. g[n + 1] = t[(n + 1) - n] + 256 * g[n]
    BY <2>1, <2>4
  <2>10. (n + 1) - n = 1
    BY <2>1
  <2>11. g[n + 1] = b + 256 * f[n]
    BY <2>1, <2>8, <2>9, <2>10
  <2>12. Number(t) = g[n + 1] /\ Number(s) = f[n]
    BY <2>1 DEF Number, f, g, n
  <2>13. Number(t) = b + 256 * Number(s)
    BY <2>11, <2>12
  <2>14. t \in Seq(Byte) /\ Len(t) = Len(s) + 1
    BY <2>1 DEF n
  <2>15. QED BY <2>13, <2>14 DEF t
<1>4. QED BY <1>1, <1>2, <1>3

(* Digits are so many bytes, and if those are enough they tell the number. *)
LEMMA DigitsTell ==
  \A k \in Nat, m \in Nat :
    /\ Digits[k][m] \in Seq(Byte) /\ Len(Digits[k][m]) = k
    /\ m < Power[k] => Number(Digits[k][m]) = m
<1> DEFINE S == {k \in Nat : \A m \in Nat :
                  /\ Digits[k][m] \in Seq(Byte) /\ Len(Digits[k][m]) = k
                  /\ m < Power[k] => Number(Digits[k][m]) = m}
<1>1. 0 \in S
  <2>1. \A m \in Nat : Digits[0][m] = <<>>
    BY DigitsAre
  <2>2. <<>> \in Seq(Byte) /\ Len(<<>>) = 0
    OBVIOUS
  <2>3. \A m \in Nat : m < 1 => m = 0
    OBVIOUS
  <2>4. QED BY <2>1, <2>2, <2>3, NumberIs, PowerIs
<1>2. ASSUME NEW k \in Nat, k \in S PROVE k + 1 \in S
  <2>1. SUFFICES
          ASSUME NEW m \in Nat
          PROVE  /\ Digits[k + 1][m] \in Seq(Byte) /\ Len(Digits[k + 1][m]) = k + 1
                 /\ m < Power[k + 1] => Number(Digits[k + 1][m]) = m
    OBVIOUS
  <2> DEFINE b == m % 256
             h == m \div 256
             s == Digits[k][h]
  <2>2. b \in 0 .. 255 /\ h \in Nat /\ m = b + 256 * h
    OBVIOUS
  <2>3. Digits[k + 1][m] = <<b>> \o s
    BY DigitsAre
  <2> HIDE DEF b, h
  <2>4. s \in Seq(Byte) /\ Len(s) = k /\ (h < Power[k] => Number(s) = h)
    BY <1>2, <2>2
  <2> HIDE DEF s
  <2>5. b \in Byte
    BY <2>2 DEF Byte, Base
  <2>6. /\ <<b>> \o s \in Seq(Byte) /\ Len(<<b>> \o s) = k + 1
        /\ Number(<<b>> \o s) = b + 256 * Number(s)
    BY <2>4, <2>5, NumberIs
  <2>7. m < Power[k + 1] => h < Power[k]
    <3>1. Power[k + 1] = 256 * Power[k] /\ Power[k] \in Nat
      BY PowerIs, PowersArePositive
    <3>2. QED BY <3>1, <2>2
  <2>8. m < Power[k + 1] => Number(<<b>> \o s) = m
    BY <2>2, <2>4, <2>6, <2>7
  <2>9. QED BY <2>3, <2>6, <2>8
<1>3. \A k \in Nat : k \in S
  <2> HIDE DEF S
  <2>1. QED BY <1>1, <1>2, Counting
<1>4. QED BY <1>3

-----------------------------------------------------------------------------
(* Results.                                                                *)

-----------------------------------------------------------------------------
(* What a reader got from a position, and what is the same elsewhere.      *)

(* If it got something, that is a T, and the reader stopped in lo .. hi.   *)
Sound(r, T, lo, hi) == r.ok => r.val \in T /\ r.next \in lo .. hi

(* The bytes of data from p to q stand in data2 from p2.                   *)
Same(data, p, q, data2, p2) ==
  /\ p2 + (q - p) <= Len(data2)
  /\ \A i \in 1 .. q - p : data2[p2 + i] = data[p + i]

(* What a result says, got or not.                                         *)
LEMMA Results ==
  /\ \A v, q : Got(v, q).ok /\ Got(v, q).val = v /\ Got(v, q).next = q
  /\ ~ Nothing.ok
BY DEF Got, Nothing

(* What is the same is the same in part.                                   *)
LEMMA SameInPart ==
  ASSUME NEW data \in Seq(Byte), NEW data2 \in Seq(Byte), NEW p \in Nat,
         NEW q \in Nat, NEW s \in Nat, NEW p2 \in Nat, p <= q, q <= s,
         Same(data, p, s, data2, p2)
  PROVE  /\ Same(data, p, q, data2, p2)
         /\ Same(data, q, s, data2, p2 + (q - p))
<1>1. Len(data2) \in Nat
  OBVIOUS
<1>2. /\ p2 + (s - p) <= Len(data2)
      /\ \A i \in 1 .. s - p : data2[p2 + i] = data[p + i]
  BY DEF Same
<1>3. p2 + (q - p) <= Len(data2)
  BY <1>1, <1>2
<1>4. \A i \in 1 .. q - p : data2[p2 + i] = data[p + i]
  BY <1>2
<1>5. (p2 + (q - p)) + (s - q) <= Len(data2)
  BY <1>2
<1>6. ASSUME NEW i \in 1 .. s - q
      PROVE  data2[(p2 + (q - p)) + i] = data[q + i]
  <2>1. (q - p) + i \in 1 .. s - p
    OBVIOUS
  <2>2. data2[p2 + ((q - p) + i)] = data[p + ((q - p) + i)]
    BY <1>2, <2>1
  <2>3. p2 + ((q - p) + i) = (p2 + (q - p)) + i /\ p + ((q - p) + i) = q + i
    OBVIOUS
  <2>4. QED BY <2>2, <2>3
<1>7. QED BY <1>3, <1>4, <1>5, <1>6 DEF Same

(* The bytes taken, and that they are the same elsewhere.                  *)
LEMMA BytesTaken ==
  ASSUME NEW data \in Seq(Byte), NEW p \in Nat, NEW n \in Nat
  PROVE  /\ TakeBytes(data, p, n).ok <=> p + n <= Len(data)
         /\ TakeBytes(data, p, n).ok =>
              /\ TakeBytes(data, p, n).next = p + n
              /\ TakeBytes(data, p, n).val = SubSeq(data, p + 1, p + n)
              /\ TakeBytes(data, p, n).val \in Seq(Byte)
              /\ Len(TakeBytes(data, p, n).val) = n
              /\ \A i \in 1 .. n : TakeBytes(data, p, n).val[i] = data[p + i]
<1> DEFINE r == TakeBytes(data, p, n)
           b == SubSeq(data, p + 1, p + n)
<1>1. CASE p + n <= Len(data)
  <2>1. r = Got(b, p + n)
    BY <1>1 DEF TakeBytes
  <2>2. r.ok /\ r.val = b /\ r.next = p + n
    <3> HIDE DEF r, b
    <3>1. QED BY <2>1, Results
  <2>3. b \in Seq(Byte) /\ Len(b) = n
    BY <1>1
  <2>4. \A i \in 1 .. n : b[i] = data[p + i]
    BY <1>1
  <2>5. QED BY <1>1, <2>2, <2>3, <2>4
<1>2. CASE ~ (p + n <= Len(data))
  <2>1. r = Nothing
    BY <1>2 DEF TakeBytes
  <2>2. QED BY <1>2, <2>1, Results
<1>3. QED BY <1>1, <1>2

(* The same bytes elsewhere are taken the same.                            *)
LEMMA SameBytesTaken ==
  ASSUME NEW data \in Seq(Byte), NEW data2 \in Seq(Byte), NEW p \in Nat,
         NEW p2 \in Nat, NEW n \in Nat,
         TakeBytes(data, p, n).ok, Same(data, p, p + n, data2, p2)
  PROVE  TakeBytes(data2, p2, n) = Got(TakeBytes(data, p, n).val, p2 + n)
<1> DEFINE a == SubSeq(data, p + 1, p + n)
           b == SubSeq(data2, p2 + 1, p2 + n)
<1>1. p + n <= Len(data) /\ TakeBytes(data, p, n).val = a
  BY BytesTaken
<1>2. (p + n) - p = n
  OBVIOUS
<1>3. p2 + n <= Len(data2) /\ \A i \in 1 .. n : data2[p2 + i] = data[p + i]
  BY <1>2 DEF Same
<1>4. a \in Seq(Byte) /\ Len(a) = n /\ \A i \in 1 .. n : a[i] = data[p + i]
  BY <1>1
<1>5. b \in Seq(Byte) /\ Len(b) = n /\ \A i \in 1 .. n : b[i] = data2[p2 + i]
  BY <1>3
<1>6. TakeBytes(data2, p2, n) = Got(b, p2 + n)
  BY <1>3 DEF TakeBytes
<1> HIDE DEF a, b
<1>7. a = b
  <2>1. \A i \in 1 .. Len(a) : a[i] = b[i]
    BY <1>3, <1>4, <1>5
  <2>2. QED BY <2>1, <1>4, <1>5, SeqEqual
<1>8. QED BY <1>1, <1>6, <1>7

-----------------------------------------------------------------------------
(* Compressed ints.                                                        *)

-----------------------------------------------------------------------------
(* The size byte, then the magnitude.                                      *)
Magnitude(size, bytes) == IF size >= 128 THEN -Number(bytes) ELSE Number(bytes)

(* The one byte that is taken.                                             *)
LEMMA OneByteTaken ==
  ASSUME NEW data \in Seq(Byte), NEW p \in Nat
  PROVE  /\ TakeBytes(data, p, 1).ok <=> p + 1 <= Len(data)
         /\ TakeBytes(data, p, 1).ok =>
              /\ TakeBytes(data, p, 1).next = p + 1
              /\ TakeBytes(data, p, 1).val[1] = data[p + 1]
              /\ data[p + 1] \in 0 .. 255
<1>1. 1 \in Nat /\ 1 \in 1 .. 1
  OBVIOUS
<1>2. TakeBytes(data, p, 1).ok <=> p + 1 <= Len(data)
  BY <1>1, BytesTaken
<1>3. TakeBytes(data, p, 1).ok =>
        /\ TakeBytes(data, p, 1).next = p + 1
        /\ TakeBytes(data, p, 1).val[1] = data[p + 1]
  BY <1>1, BytesTaken
<1>4. p + 1 <= Len(data) => data[p + 1] \in 0 .. 255
  <2>1. p + 1 <= Len(data) => p + 1 \in 1 .. Len(data)
    OBVIOUS
  <2>2. QED BY <2>1, Bytes
<1>5. QED BY <1>2, <1>3, <1>4

(* A size byte without its sign bit.                                       *)
LEMMA Sizes == \A size \in 0 .. 255 : size % 128 \in 0 .. 127 /\ size % 128 \in Nat
OBVIOUS

(* What a compressed int is read from.                                     *)
LEMMA CompressedIntIs ==
  ASSUME NEW data \in Seq(Byte), NEW p \in Nat, ReadCompressedInt(data, p).ok
  PROVE  \E size \in 0 .. 255, n \in Nat : \E rest :
           /\ p + 1 <= Len(data) /\ size = data[p + 1]
           /\ n = size % 128 /\ n <= IntBytes
           /\ rest = TakeBytes(data, p + 1, n) /\ rest.ok
           /\ ReadCompressedInt(data, p) =
                Got(Magnitude(size, rest.val), rest.next)
<1> DEFINE size == data[p + 1]
           n == size % 128
           r == ReadCompressedInt(data, p)
           one == TakeBytes(data, p, 1)
           rest == TakeBytes(data, p + 1, n)
<1>1. one.ok
  <2>1. ~ one.ok => r = Nothing
    BY DEF ReadCompressedInt, Then
  <2> HIDE DEF r, one
  <2>2. ~ one.ok => ~ r.ok
    BY <2>1, Results
  <2>3. QED BY <2>2 DEF r
<1>2. /\ one.next = p + 1 /\ one.val[1] = size
      /\ p + 1 <= Len(data) /\ size \in 0 .. 255
  BY <1>1, OneByteTaken
<1>3. r = IF n > IntBytes THEN Nothing
          ELSE Then(rest, LAMBDA bytes, s : Got(Magnitude(size, bytes), s))
  BY <1>1, <1>2 DEF ReadCompressedInt, Magnitude, Then
<1>4. n \in Nat
  <2> HIDE DEF size
  <2>1. QED BY <1>2, Sizes
<1> HIDE DEF size, n, r, one, rest
<1>5. ~ (n > IntBytes) /\ rest.ok
  <2>1. n > IntBytes \/ ~ rest.ok => r = Nothing
    BY <1>3 DEF Then
  <2>2. n > IntBytes \/ ~ rest.ok => ~ r.ok
    BY <2>1, Results
  <2>3. QED BY <2>2 DEF r
<1>6. r = Got(Magnitude(size, rest.val), rest.next)
  BY <1>3, <1>5 DEF Then
<1>7. n <= IntBytes
  BY <1>4, <1>5, WireWidths
<1>8. n = size % 128 /\ rest = TakeBytes(data, p + 1, n) /\ size = data[p + 1]
  BY DEF n, rest, size
<1>9. QED BY <1>2, <1>4, <1>5, <1>6, <1>7, <1>8 DEF r

(* And when it can be read.                                                *)
LEMMA CompressedIntRead ==
  ASSUME NEW data \in Seq(Byte), NEW p \in Nat, p + 1 <= Len(data),
         NEW n \in Nat, n = data[p + 1] % 128, n <= IntBytes,
         TakeBytes(data, p + 1, n).ok
  PROVE  ReadCompressedInt(data, p) =
           Got(Magnitude(data[p + 1], TakeBytes(data, p + 1, n).val),
               TakeBytes(data, p + 1, n).next)
<1> DEFINE one == TakeBytes(data, p, 1)
           rest == TakeBytes(data, p + 1, n)
           size == data[p + 1]
<1>1. one.ok /\ one.next = p + 1 /\ one.val[1] = size
  BY OneByteTaken
<1>2. ~ (n > IntBytes)
  BY WireWidths
<1>3. ReadCompressedInt(data, p) = Then(rest, LAMBDA bytes, s : Got(Magnitude(size, bytes), s))
  BY <1>1, <1>2 DEF ReadCompressedInt, Magnitude, Then
<1>4. QED BY <1>3 DEF Then

(* A compressed int fits an int, and one that is not 0 takes two bytes or  *)
(* more.                                                                   *)
LEMMA CompressedIntsFit ==
  ASSUME NEW data \in Seq(Byte), NEW p \in Nat, ReadCompressedInt(data, p).ok
  PROVE  /\ ReadCompressedInt(data, p).val \in Int
         /\ ReadCompressedInt(data, p).val < Power[IntBytes]
         /\ ReadCompressedInt(data, p).next \in p + 1 .. Len(data)
         /\ ReadCompressedInt(data, p).val # 0 =>
              ReadCompressedInt(data, p).next >= p + 2
<1> DEFINE r == ReadCompressedInt(data, p)
<1>0. PICK size \in 0 .. 255, n \in Nat : \E rest :
        /\ p + 1 <= Len(data) /\ size = data[p + 1]
        /\ n = size % 128 /\ n <= IntBytes
        /\ rest = TakeBytes(data, p + 1, n) /\ rest.ok
        /\ r = Got(Magnitude(size, rest.val), rest.next)
  BY CompressedIntIs
<1>1. PICK rest :
        /\ p + 1 <= Len(data) /\ size = data[p + 1]
        /\ n = size % 128 /\ n <= IntBytes
        /\ rest = TakeBytes(data, p + 1, n) /\ rest.ok
        /\ r = Got(Magnitude(size, rest.val), rest.next)
  BY <1>0
<1> HIDE DEF r
<1>2. r.val = Magnitude(size, rest.val) /\ r.next = rest.next
  BY <1>1, Results
<1>3. p + 1 \in Nat
  OBVIOUS
<1>4. /\ rest.val \in Seq(Byte) /\ Len(rest.val) = n /\ rest.next = (p + 1) + n
      /\ (p + 1) + n <= Len(data)
  <2>1. TakeBytes(data, p + 1, n).ok
    BY <1>1
  <2>2. /\ TakeBytes(data, p + 1, n).val \in Seq(Byte)
        /\ Len(TakeBytes(data, p + 1, n).val) = n
        /\ TakeBytes(data, p + 1, n).next = (p + 1) + n
        /\ (p + 1) + n <= Len(data)
    BY <1>3, <2>1, BytesTaken
  <2>3. QED BY <1>1, <2>2
<1> DEFINE m == Number(rest.val)
           P == Power[n]
           Q == Power[IntBytes]
<1>5. m \in 0 .. P - 1
  BY <1>4, NumberIs
<1>6. IntBytes \in Nat
  BY WireWidths
<1>7. P <= Q /\ P \in Nat /\ Q \in Nat
  BY <1>1, <1>6, PowersGrow, PowersArePositive
<1>8. n = 0 => P = 1
  BY WireWidths
<1>9. r.val = m \/ r.val = -m
  BY <1>2 DEF Magnitude
<1> HIDE DEF m, P
<1>10. m \in Nat /\ m < Q /\ (n = 0 => m = 0)
  BY <1>5, <1>7, <1>8
<1>11. r.val \in Int /\ r.val < Q /\ (r.val # 0 => n # 0)
  <2> HIDE DEF Q
  <2>1. QED BY <1>7, <1>9, <1>10
<1>12. r.next \in p + 1 .. Len(data) /\ (n # 0 => r.next >= p + 2)
  <2>1. Len(data) \in Nat
    OBVIOUS
  <2>2. QED BY <2>1, <1>2, <1>4
<1>13. QED BY <1>11, <1>12 DEF r

(* The same bytes elsewhere are the same compressed int.                   *)
LEMMA SameCompressedInt ==
  ASSUME NEW data \in Seq(Byte), NEW data2 \in Seq(Byte), NEW p \in Nat,
         NEW p2 \in Nat, ReadCompressedInt(data, p).ok,
         Same(data, p, ReadCompressedInt(data, p).next, data2, p2)
  PROVE  ReadCompressedInt(data2, p2) =
           Got(ReadCompressedInt(data, p).val,
               p2 + (ReadCompressedInt(data, p).next - p))
<1> DEFINE r == ReadCompressedInt(data, p)
<1>0. PICK size \in 0 .. 255, n \in Nat : \E rest :
        /\ p + 1 <= Len(data) /\ size = data[p + 1]
        /\ n = size % 128 /\ n <= IntBytes
        /\ rest = TakeBytes(data, p + 1, n) /\ rest.ok
        /\ r = Got(Magnitude(size, rest.val), rest.next)
  BY CompressedIntIs
<1>1. PICK rest :
        /\ p + 1 <= Len(data) /\ size = data[p + 1]
        /\ n = size % 128 /\ n <= IntBytes
        /\ rest = TakeBytes(data, p + 1, n) /\ rest.ok
        /\ r = Got(Magnitude(size, rest.val), rest.next)
  BY <1>0
<1>2. Same(data, p, r.next, data2, p2)
  OBVIOUS
<1> HIDE DEF r
<1>3. r.val = Magnitude(size, rest.val) /\ r.next = rest.next
  BY <1>1, Results
<1> DEFINE q == p + 1
           s == (p + 1) + n
           q2 == p2 + 1
<1>4. /\ q \in Nat /\ s \in Nat /\ q2 \in Nat /\ p <= q /\ q <= s
      /\ q - p = 1 /\ p2 + (q - p) = q2 /\ q + n = s
      /\ p2 + (s - p) = q2 + n
  OBVIOUS
<1>5. rest = TakeBytes(data, q, n) /\ q2 = p2 + 1
  BY <1>1
<1> HIDE DEF q, s, q2
<1>51. rest.next = s
  <2>1. TakeBytes(data, q, n).ok
    BY <1>1, <1>5
  <2>2. q \in Nat /\ q + n = s
    BY <1>4
  <2>3. TakeBytes(data, q, n).next = q + n
    BY <2>1, <2>2, BytesTaken
  <2>4. QED BY <1>5, <2>2, <2>3
<1>6. Same(data, p, s, data2, p2)
  BY <1>2, <1>3, <1>51
<1>7. Same(data, p, q, data2, p2) /\ Same(data, q, s, data2, q2)
  <2>1. Same(data, p, q, data2, p2) /\ Same(data, q, s, data2, p2 + (q - p))
    BY <1>4, <1>6, SameInPart
  <2>2. QED BY <2>1, <1>4
<1>71. Same(data, q, q + n, data2, q2) /\ TakeBytes(data, q, n).ok
  BY <1>1, <1>4, <1>5, <1>7
<1>8. data2[p2 + 1] = size /\ p2 + 1 <= Len(data2)
  <2>1. 1 \in 1 .. q - p
    BY <1>4
  <2>2. QED BY <1>1, <1>4, <1>5, <1>7, <2>1 DEF Same
<1>9. TakeBytes(data2, q2, n) = Got(rest.val, q2 + n)
  <2>1. TakeBytes(data2, q2, n) = Got(TakeBytes(data, q, n).val, q2 + n)
    BY <1>4, <1>71, SameBytesTaken
  <2>2. QED BY <1>5, <2>1
<1> DEFINE rest2 == TakeBytes(data2, q2, n)
<1>10. rest2.ok /\ rest2.val = rest.val /\ rest2.next = q2 + n
  <2> HIDE DEF rest2
  <2>1. QED BY <1>9, Results DEF rest2
<1>11. rest2 = TakeBytes(data2, p2 + 1, n)
  BY <1>5
<1>12. ReadCompressedInt(data2, p2) = Got(Magnitude(size, rest2.val), rest2.next)
  <2>1. TakeBytes(data2, p2 + 1, n).ok
    BY <1>10, <1>11
  <2> HIDE DEF rest2
  <2>2. ReadCompressedInt(data2, p2) =
          Got(Magnitude(size, TakeBytes(data2, p2 + 1, n).val),
              TakeBytes(data2, p2 + 1, n).next)
    BY <1>1, <1>8, <2>1, CompressedIntRead
  <2>3. QED BY <2>2, <1>11
<1> HIDE DEF rest2
<1>13. p2 + (r.next - p) = q2 + n
  BY <1>3, <1>4, <1>51
<1>14. ReadCompressedInt(data2, p2) = Got(r.val, p2 + (r.next - p))
  BY <1>3, <1>10, <1>12, <1>13
<1>15. QED BY <1>14 DEF r

(* A count is a compressed int that is not negative.                       *)
LEMMA CountsFit ==
  ASSUME NEW data \in Seq(Byte), NEW p \in Nat, ReadCount(data, p).ok
  PROVE  /\ ReadCompressedInt(data, p) = ReadCount(data, p)
         /\ ReadCount(data, p).val \in 0 .. Power[IntBytes] - 1
         /\ ReadCount(data, p).next \in p + 1 .. Len(data)
         /\ ReadCount(data, p).val # 0 => ReadCount(data, p).next >= p + 2
<1> DEFINE r == ReadCount(data, p)
           i == ReadCompressedInt(data, p)
<1>1. r = IF i.ok /\ i.val >= 0 THEN Got(i.val, i.next) ELSE Nothing
  BY DEF ReadCount, Then
<1>2. i.ok => i = Got(i.val, i.next)
  <2>1. SUFFICES ASSUME i.ok PROVE i = Got(i.val, i.next)
    OBVIOUS
  <2>2. PICK v, q : i = Got(v, q)
    <3>0. PICK size \in 0 .. 255, n \in Nat : \E rest :
            /\ p + 1 <= Len(data) /\ size = data[p + 1]
            /\ n = size % 128 /\ n <= IntBytes
            /\ rest = TakeBytes(data, p + 1, n) /\ rest.ok
            /\ i = Got(Magnitude(size, rest.val), rest.next)
      BY <2>1, CompressedIntIs
    <3>1. PICK rest :
            /\ p + 1 <= Len(data) /\ size = data[p + 1]
            /\ n = size % 128 /\ n <= IntBytes
            /\ rest = TakeBytes(data, p + 1, n) /\ rest.ok
            /\ i = Got(Magnitude(size, rest.val), rest.next)
      BY <3>0
    <3>2. QED BY <3>1
  <2> HIDE DEF i
  <2>3. QED BY <2>2, Results
<1> HIDE DEF r, i
<1>3. i.ok /\ i.val >= 0
  <2>1. ~ (i.ok /\ i.val >= 0) => ~ r.ok
    BY <1>1, Results
  <2>2. r.ok
    BY DEF r
  <2>3. QED BY <2>1, <2>2
<1>4. r = i
  BY <1>1, <1>2, <1>3
<1>5. /\ i.val \in Int /\ i.val < Power[IntBytes]
      /\ i.next \in p + 1 .. Len(data)
      /\ i.val # 0 => i.next >= p + 2
  BY <1>3, CompressedIntsFit DEF i
<1>6. Power[IntBytes] \in Nat
  BY WireWidths, PowersArePositive
<1>7. i.val \in 0 .. Power[IntBytes] - 1
  BY <1>3, <1>5, <1>6
<1>8. QED BY <1>4, <1>5, <1>7 DEF r, i

(* And the same count.                                                     *)
LEMMA SameCount ==
  ASSUME NEW data \in Seq(Byte), NEW data2 \in Seq(Byte), NEW p \in Nat,
         NEW p2 \in Nat, ReadCount(data, p).ok,
         Same(data, p, ReadCount(data, p).next, data2, p2)
  PROVE  ReadCount(data2, p2) =
           Got(ReadCount(data, p).val, p2 + (ReadCount(data, p).next - p))
<1> DEFINE r == ReadCount(data, p)
           i2 == ReadCompressedInt(data2, p2)
<1>1. ReadCompressedInt(data, p) = r /\ r.val >= 0
  <2>1. r.val \in 0 .. Power[IntBytes] - 1
    BY CountsFit
  <2>2. QED BY <2>1, CountsFit
<1>2. i2 = Got(r.val, p2 + (r.next - p))
  <2> HIDE DEF r
  <2>1. ReadCompressedInt(data, p).ok
        /\ Same(data, p, ReadCompressedInt(data, p).next, data2, p2)
    BY <1>1 DEF r
  <2>2. QED BY <1>1, <2>1, SameCompressedInt
<1> HIDE DEF r
<1>3. i2.ok /\ i2.val = r.val /\ i2.next = p2 + (r.next - p)
  <2> HIDE DEF i2
  <2>1. QED BY <1>2, Results
<1>4. ReadCount(data2, p2) = Got(i2.val, i2.next)
  BY <1>1, <1>3 DEF ReadCount, Then
<1>5. QED BY <1>3, <1>4 DEF r

-----------------------------------------------------------------------------
(* Strings.                                                                *)

(* The NUL of the string at p is the byte after `end`.                     *)
EndsAt(data, p, end) ==
  /\ p <= end /\ end + 1 <= Len(data) /\ data[end + 1] = 0
  /\ \A i \in 1 .. end - p : data[p + i] # 0

(* A string that was read ends at the first NUL, and is text.              *)
LEMMA CStringIs ==
  ASSUME NEW data \in Seq(Byte), NEW p \in Nat, ReadCString(data, p).ok
  PROVE  \E end \in Nat : /\ EndsAt(data, p, end)
                          /\ IsText(SubSeq(data, p + 1, end))
                          /\ ReadCString(data, p) =
                               Got(SubSeq(data, p + 1, end), end + 1)
<1> DEFINE nuls == {e \in p .. Len(data) - 1 : data[e + 1] = 0}
           end == CHOOSE e \in nuls : \A f \in nuls : e <= f
           text == SubSeq(data, p + 1, end)
           r == ReadCString(data, p)
<1>1. r = IF nuls # {} /\ IsText(text) THEN Got(text, end + 1) ELSE Nothing
  BY DEF ReadCString
<1>2. nuls # {} /\ IsText(text)
  <2> HIDE DEF nuls, text, end, r
  <2>1. ~ (nuls # {} /\ IsText(text)) => ~ r.ok
    BY <1>1, Results
  <2>2. QED BY <2>1 DEF r
<1>3. nuls \in SUBSET Nat /\ Len(data) \in Nat
  OBVIOUS
<1>4. end \in nuls /\ \A f \in nuls : end <= f
  <2>1. \E e \in nuls : \A f \in nuls : e <= f
    BY <1>2, <1>3, LeastNatural
  <2> HIDE DEF nuls
  <2>2. QED BY <2>1
<1> HIDE DEF end, text, r
<1>5. end \in Nat /\ p <= end /\ end + 1 <= Len(data) /\ data[end + 1] = 0
  BY <1>3, <1>4
<1>6. ASSUME NEW i \in 1 .. end - p PROVE data[p + i] # 0
  <2> DEFINE e == p + i - 1
  <2>1. e \in p .. Len(data) - 1 /\ e + 1 = p + i /\ ~ (end <= e)
    BY <1>3, <1>5
  <2>2. e \notin nuls
    <3> HIDE DEF nuls, e
    <3>1. QED BY <1>4, <2>1
  <2> HIDE DEF e
  <2>3. QED BY <2>1, <2>2
<1>7. EndsAt(data, p, end)
  BY <1>5, <1>6 DEF EndsAt
<1>8. r = Got(text, end + 1)
  BY <1>1, <1>2
<1>9. QED BY <1>2, <1>5, <1>7, <1>8 DEF text, r

(* Text that ends at the first NUL is read.                                *)
LEMMA CStringRead ==
  ASSUME NEW data \in Seq(Byte), NEW p \in Nat, NEW end \in Nat,
         EndsAt(data, p, end), IsText(SubSeq(data, p + 1, end))
  PROVE  ReadCString(data, p) = Got(SubSeq(data, p + 1, end), end + 1)
<1> DEFINE nuls == {e \in p .. Len(data) - 1 : data[e + 1] = 0}
           first == CHOOSE e \in nuls : \A f \in nuls : e <= f
<1>1. Len(data) \in Nat
  OBVIOUS
<1>2. end \in nuls
  BY <1>1 DEF EndsAt
<1>3. \A f \in nuls : f \in Nat /\ end <= f
  <2>1. SUFFICES ASSUME NEW f \in nuls, f < end PROVE FALSE
    OBVIOUS
  <2> DEFINE i == f + 1 - p
  <2>2. i \in 1 .. end - p /\ p + i = f + 1 /\ data[f + 1] = 0
    BY <1>1, <2>1
  <2> HIDE DEF i
  <2>3. data[p + i] # 0
    BY <2>2 DEF EndsAt
  <2>4. QED BY <2>2, <2>3
<1> HIDE DEF nuls
<1>4. first \in nuls /\ \A f \in nuls : first <= f
  BY <1>2, <1>3
<1> HIDE DEF first
<1>5. first = end
  <2>1. first <= end /\ end <= first /\ first \in Nat
    BY <1>2, <1>3, <1>4
  <2>2. QED BY <2>1
<1>6. ReadCString(data, p) =
        IF nuls # {} /\ IsText(SubSeq(data, p + 1, first))
        THEN Got(SubSeq(data, p + 1, first), first + 1) ELSE Nothing
  BY DEF ReadCString, nuls, first
<1>7. QED BY <1>2, <1>5, <1>6

(* A C string takes its bytes and a NUL.                                   *)
LEMMA CStringsFit ==
  ASSUME NEW data \in Seq(Byte), NEW p \in Nat, ReadCString(data, p).ok
  PROVE  /\ ReadCString(data, p).val \in Seq(Byte)
         /\ IsText(ReadCString(data, p).val)
         /\ ReadCString(data, p).next \in p + 1 .. Len(data)
         /\ ReadCString(data, p).next = p + 1 + Len(ReadCString(data, p).val)
         /\ \A i \in 1 .. Len(ReadCString(data, p).val) :
               ReadCString(data, p).val[i] # 0
<1> DEFINE r == ReadCString(data, p)
<1>1. PICK end \in Nat : /\ EndsAt(data, p, end)
                         /\ IsText(SubSeq(data, p + 1, end))
                         /\ r = Got(SubSeq(data, p + 1, end), end + 1)
  BY CStringIs
<1> DEFINE text == SubSeq(data, p + 1, end)
<1>2. Len(data) \in Nat /\ p <= end /\ end + 1 <= Len(data)
  BY <1>1 DEF EndsAt
<1>3. text \in Seq(Byte) /\ Len(text) = end - p
  BY <1>2
<1>4. \A i \in 1 .. end - p : text[i] = data[p + i]
  BY <1>2
<1>5. \A i \in 1 .. Len(text) : text[i] # 0
  BY <1>1, <1>3, <1>4 DEF EndsAt
<1> HIDE DEF r
<1>6. r.val = text /\ r.next = end + 1
  BY <1>1, Results
<1> HIDE DEF text
<1>7. r.next \in p + 1 .. Len(data) /\ r.next = p + 1 + Len(r.val)
  BY <1>2, <1>3, <1>6
<1>8. r.val \in Seq(Byte) /\ IsText(r.val) /\ \A i \in 1 .. Len(r.val) : r.val[i] # 0
  BY <1>1, <1>3, <1>5, <1>6 DEF text
<1>9. QED BY <1>7, <1>8 DEF r

(* The same bytes elsewhere are the same string.                           *)
LEMMA SameCString ==
  ASSUME NEW data \in Seq(Byte), NEW data2 \in Seq(Byte), NEW p \in Nat,
         NEW p2 \in Nat, ReadCString(data, p).ok,
         Same(data, p, ReadCString(data, p).next, data2, p2)
  PROVE  ReadCString(data2, p2) =
           Got(ReadCString(data, p).val, p2 + (ReadCString(data, p).next - p))
<1> DEFINE r == ReadCString(data, p)
<1>1. PICK end \in Nat : /\ EndsAt(data, p, end)
                         /\ IsText(SubSeq(data, p + 1, end))
                         /\ r = Got(SubSeq(data, p + 1, end), end + 1)
  BY CStringIs
<1>2. Same(data, p, r.next, data2, p2)
  OBVIOUS
<1> HIDE DEF r
<1>3. r.val = SubSeq(data, p + 1, end) /\ r.next = end + 1
  BY <1>1, Results
<1> DEFINE n == end - p
           end2 == p2 + n
<1>4. /\ Len(data) \in Nat /\ Len(data2) \in Nat /\ p <= end
      /\ end + 1 <= Len(data) /\ data[end + 1] = 0
      /\ \A i \in 1 .. n : data[p + i] # 0
  BY <1>1 DEF EndsAt
<1>5. n \in Nat /\ end2 \in Nat /\ end = p + n
      /\ (end + 1) - p = n + 1 /\ end2 + 1 = p2 + (n + 1) /\ end + 1 = p + (n + 1)
      /\ n + 1 \in 1 .. n + 1 /\ p2 <= end2
  BY <1>4
<1>6. /\ p2 + (n + 1) <= Len(data2)
      /\ \A i \in 1 .. n + 1 : data2[p2 + i] = data[p + i]
  BY <1>2, <1>3, <1>5 DEF Same
<1> HIDE DEF n
<1>7. ASSUME NEW i \in 1 .. n PROVE data2[p2 + i] = data[p + i]
  <2>1. i \in 1 .. n + 1
    BY <1>5
  <2>2. QED BY <2>1, <1>6
<1>8. data2[end2 + 1] = 0 /\ end2 + 1 <= Len(data2)
  BY <1>4, <1>5, <1>6
<1>9. \A i \in 1 .. end2 - p2 : data2[p2 + i] # 0
  <2>1. end2 - p2 = n
    BY <1>5
  <2>2. QED BY <2>1, <1>4, <1>7
<1>10. EndsAt(data2, p2, end2)
  BY <1>5, <1>8, <1>9 DEF EndsAt
<1> DEFINE a == SubSeq(data, p + 1, end)
           b == SubSeq(data2, p2 + 1, end2)
<1>11. a \in Seq(Byte) /\ Len(a) = n /\ \A i \in 1 .. n : a[i] = data[p + i]
  BY <1>4, <1>5
<1>12. b \in Seq(Byte) /\ Len(b) = n /\ \A i \in 1 .. n : b[i] = data2[p2 + i]
  BY <1>5, <1>8
<1>13. a = b
  <2> HIDE DEF a, b
  <2>1. \A i \in 1 .. Len(a) : a[i] = b[i]
    BY <1>7, <1>11, <1>12
  <2>2. QED BY <2>1, <1>11, <1>12, SeqEqual
<1>14. IsText(SubSeq(data2, p2 + 1, end2))
  BY <1>1, <1>13
<1> HIDE DEF end2
<1>15. ReadCString(data2, p2) = Got(b, end2 + 1)
  BY <1>5, <1>10, <1>14, CStringRead
<1>16. p2 + (r.next - p) = end2 + 1
  BY <1>3, <1>5
<1>17. ReadCString(data2, p2) = Got(r.val, p2 + (r.next - p))
  BY <1>3, <1>13, <1>15, <1>16
<1>18. QED BY <1>17 DEF r

-----------------------------------------------------------------------------
(* Lists.                                                                  *)

(* r2 is what was got as r, from p2 instead of p.                          *)
Moved(r, p, r2, p2) == r2 = Got(r.val, p2 + (r.next - p))

(* One shift after the other.                                              *)
LEMMA Shifts ==
  \A p \in Nat, q \in Nat, s \in Nat, p2 \in Nat :
    (p2 + (q - p)) + (s - q) = p2 + (s - p)
OBVIOUS

(* A reader of things in T stops behind where it began.                    *)
Reads(one, T, data) ==
  \A p \in Nat : one[p].ok => one[p].val \in T /\ one[p].next \in p + 1 .. Len(data)

(* What takes at most so many bytes is read the same elsewhere.            *)
ReadsTheSame(one, one2, data, data2, size) ==
  \A p \in Nat, p2 \in Nat :
    /\ one[p].ok /\ one[p].next - p <= size
    /\ Same(data, p, one[p].next, data2, p2)
    => Moved(one[p], p, one2[p2], p2)

(* A list of nothing takes nothing.                                        *)
LEMMA ListBegins ==
  ASSUME NEW read, NEW kind, NEW data, NEW p \in Nat
  PROVE  ReadList(read, kind, 0, data, p) = Got(<<>>, p)
BY ReadListIs

(* A list goes on with one thing and the others behind it.                 *)
LEMMA ListGoesOn ==
  ASSUME NEW read, NEW kind, NEW data, NEW p \in Nat, NEW n \in Nat, NEW m,
         m = n + 1
  PROVE  LET first == read[kind][data][p]
             others == ReadList(read, kind, n, data, first.next)
         IN  /\ ReadList(read, kind, m, data, p).ok => first.ok /\ others.ok
             /\ first.ok /\ others.ok =>
                  ReadList(read, kind, m, data, p) =
                    Got(<<first.val>> \o others.val, others.next)
<1> DEFINE first == read[kind][data][p]
           others == ReadList(read, kind, n, data, first.next)
           r == ReadList(read, kind, m, data, p)
<1>1. r = IF first.ok
          THEN IF others.ok THEN Got(<<first.val>> \o others.val, others.next)
               ELSE Nothing
          ELSE Nothing
  BY ReadListIs
<1> HIDE DEF r, first, others
<1>2. ~ (first.ok /\ others.ok) => r = Nothing
  BY <1>1
<1>3. ~ (first.ok /\ others.ok) => ~ r.ok
  BY <1>2, Results
<1>4. first.ok /\ others.ok => r = Got(<<first.val>> \o others.val, others.next)
  BY <1>1
<1>5. QED BY <1>3, <1>4 DEF r, first, others

(* A list of n things in T takes at least n bytes.                         *)
LEMMA ListsFit ==
  ASSUME NEW read, NEW kind, NEW T, NEW data \in Seq(Byte),
         Reads(read[kind][data], T, data)
  PROVE  \A n \in Nat, p \in 0 .. Len(data) :
           LET r == ReadList(read, kind, n, data, p)
           IN  r.ok => /\ r.val \in Seq(T) /\ Len(r.val) = n
                       /\ r.next \in p + n .. Len(data)
<1> DEFINE List(n, p) == ReadList(read, kind, n, data, p)
           Fits(n, p) == List(n, p).ok =>
                           /\ List(n, p).val \in Seq(T) /\ Len(List(n, p).val) = n
                           /\ List(n, p).next \in p + n .. Len(data)
           S == {n \in Nat : \A p \in 0 .. Len(data) : Fits(n, p)}
<1>1. Len(data) \in Nat
  OBVIOUS
<1>2. 0 \in S
  <2>1. ASSUME NEW p \in 0 .. Len(data) PROVE Fits(0, p)
    <3>1. p \in Nat /\ p \in p + 0 .. Len(data) /\ <<>> \in Seq(T) /\ Len(<<>>) = 0
      BY <1>1
    <3>2. List(0, p) = Got(<<>>, p)
      BY <3>1, ListBegins
    <3> HIDE DEF List
    <3>3. List(0, p).val = <<>> /\ List(0, p).next = p
      BY <3>2, Results
    <3>4. QED BY <3>1, <3>3
  <2>2. QED BY <2>1
<1>3. ASSUME NEW n \in Nat, n \in S PROVE n + 1 \in S
  <2>1. ASSUME NEW p \in 0 .. Len(data), List(n + 1, p).ok
        PROVE  /\ List(n + 1, p).val \in Seq(T) /\ Len(List(n + 1, p).val) = n + 1
               /\ List(n + 1, p).next \in p + (n + 1) .. Len(data)
    <3> DEFINE first == read[kind][data][p]
               others == List(n, first.next)
               r == List(n + 1, p)
    <3>1. p \in Nat
      BY <1>1
    <3>2. first.ok /\ others.ok /\ r = Got(<<first.val>> \o others.val, others.next)
      
      <4>1. /\ r.ok => first.ok /\ others.ok
            /\ first.ok /\ others.ok =>
                 r = Got(<<first.val>> \o others.val, others.next)
        BY <3>1, ListGoesOn
      <4>2. QED BY <2>1, <4>1
    <3>3. first.val \in T /\ first.next \in p + 1 .. Len(data)
      <4>1. first.ok
        BY <3>2
      <4>2. QED BY <3>1, <4>1 DEF Reads
    <3>4. first.next \in 0 .. Len(data)
      BY <3>1, <3>3, <1>1
    <3>5. Fits(n, first.next)
      BY <1>3, <3>4
    <3>6. /\ others.val \in Seq(T) /\ Len(others.val) = n
          /\ others.next \in first.next + n .. Len(data)
      BY <3>2, <3>5
    <3> HIDE DEF first, others, r
    <3>7. r.val = <<first.val>> \o others.val /\ r.next = others.next
      BY <3>2, Results
    <3>8. <<first.val>> \o others.val \in Seq(T)
          /\ Len(<<first.val>> \o others.val) = n + 1
      BY <3>3, <3>6
    <3>9. others.next \in p + (n + 1) .. Len(data)
      BY <3>1, <3>3, <3>6, <1>1
    <3>10. QED BY <3>7, <3>8, <3>9 DEF r
  <2> HIDE DEF List
  <2>2. QED BY <2>1
<1>4. \A n \in Nat : n \in S
  <2> HIDE DEF S
  <2>1. QED BY <1>2, <1>3, Counting
<1>5. QED BY <1>4

(* The same bytes elsewhere are the same list, if they are the same        *)
(* things.                                                                 *)
LEMMA SameList ==
  ASSUME NEW read, NEW read2, NEW kind, NEW T, NEW data \in Seq(Byte),
         NEW data2 \in Seq(Byte), NEW size \in Nat,
         Reads(read[kind][data], T, data),
         ReadsTheSame(read[kind][data], read2[kind][data2], data, data2, size)
  PROVE  \A n \in Nat, p \in 0 .. Len(data), p2 \in Nat :
           LET r == ReadList(read, kind, n, data, p)
           IN  r.ok /\ r.next - p <= size /\ Same(data, p, r.next, data2, p2)
                 => Moved(r, p, ReadList(read2, kind, n, data2, p2), p2)
<1> DEFINE List(n, p) == ReadList(read, kind, n, data, p)
           List2(n, p) == ReadList(read2, kind, n, data2, p)
           Good(n, p, p2) ==
             List(n, p).ok /\ List(n, p).next - p <= size
               /\ Same(data, p, List(n, p).next, data2, p2)
               => Moved(List(n, p), p, List2(n, p2), p2)
           S == {n \in Nat : \A p \in 0 .. Len(data), p2 \in Nat : Good(n, p, p2)}
<1>1. Len(data) \in Nat
  OBVIOUS
<1>2. 0 \in S
  <2>1. ASSUME NEW p \in 0 .. Len(data), NEW p2 \in Nat PROVE Good(0, p, p2)
    <3>1. p \in Nat /\ p2 + (p - p) = p2
      BY <1>1
    <3>2. List(0, p) = Got(<<>>, p) /\ List2(0, p2) = Got(<<>>, p2)
      BY <3>1, ListBegins
    <3> HIDE DEF List, List2
    <3>3. List(0, p).val = <<>> /\ List(0, p).next = p
      BY <3>2, Results
    <3>4. QED BY <3>1, <3>2, <3>3 DEF Moved
  <2>2. QED BY <2>1
<1>3. ASSUME NEW n \in Nat, n \in S PROVE n + 1 \in S
  <2>1. ASSUME NEW p \in 0 .. Len(data), NEW p2 \in Nat, List(n + 1, p).ok,
               List(n + 1, p).next - p <= size,
               Same(data, p, List(n + 1, p).next, data2, p2)
        PROVE  Moved(List(n + 1, p), p, List2(n + 1, p2), p2)
    <3> DEFINE first == read[kind][data][p]
               others == List(n, first.next)
               r == List(n + 1, p)
               first2 == read2[kind][data2][p2]
               q2 == p2 + (first.next - p)
               others2 == List2(n, q2)
    <3>1. p \in Nat
      BY <1>1
    <3>2. first.ok /\ others.ok /\ r = Got(<<first.val>> \o others.val, others.next)
      
      <4>1. /\ r.ok => first.ok /\ others.ok
            /\ first.ok /\ others.ok =>
                 r = Got(<<first.val>> \o others.val, others.next)
        BY <3>1, ListGoesOn
      <4>2. QED BY <2>1, <4>1
    <3>3. first.val \in T /\ first.next \in p + 1 .. Len(data)
      <4>1. first.ok
        BY <3>2
      <4>2. QED BY <3>1, <4>1 DEF Reads
    <3>4. first.next \in 0 .. Len(data)
      BY <3>1, <3>3, <1>1
    <3>5. others.next \in first.next + n .. Len(data)
      BY <3>2, <3>4, ListsFit
    <3>6. r.val = <<first.val>> \o others.val /\ r.next = others.next
      <4> HIDE DEF first, others, r
      <4>1. QED BY <3>2, Results
    <3>7. /\ p <= first.next /\ first.next <= others.next /\ first.next \in Nat
          /\ others.next \in Nat /\ q2 \in Nat
          /\ first.next - p <= size /\ others.next - first.next <= size
      <4>1. r.next - p <= size
        BY <2>1
      <4> HIDE DEF first, others, r
      <4>2. QED BY <3>1, <3>3, <3>5, <3>6, <4>1, <1>1, SMTT(30)
    <3>8. Same(data, p, others.next, data2, p2)
      BY <2>1, <3>6
    <3>9. Same(data, p, first.next, data2, p2)
          /\ Same(data, first.next, others.next, data2, q2)
      <4> HIDE DEF first, others
      <4>1. QED BY <3>1, <3>7, <3>8, SameInPart
    <3>10. first2 = Got(first.val, q2)
      <4>1. Moved(first, p, first2, p2)
        BY <3>1, <3>2, <3>7, <3>9 DEF ReadsTheSame
      <4> HIDE DEF first, first2
      <4>2. QED BY <4>1 DEF Moved
    <3>11. Good(n, first.next, q2)
      <4>1. q2 \in Nat
        BY <3>7
      <4> HIDE DEF q2, first, List, List2
      <4>2. QED BY <1>3, <3>4, <4>1
    <3>12. Moved(others, first.next, others2, q2)
      BY <3>2, <3>7, <3>9, <3>11
    <3>13. others2 = Got(others.val, q2 + (others.next - first.next))
      BY <3>12 DEF Moved
    <3>14. first2.ok /\ first2.val = first.val /\ first2.next = q2
      <4> HIDE DEF first, first2, q2
      <4>1. QED BY <3>10, Results
    <3>15. others2.ok /\ others2.val = others.val
           /\ others2.next = q2 + (others.next - first.next)
      <4> HIDE DEF first, others, others2, q2
      <4>1. QED BY <3>13, Results
    <3>16. List2(n + 1, p2) = Got(<<first.val>> \o others.val, others2.next)
      <4>1. others2 = ReadList(read2, kind, n, data2, first2.next)
        BY <3>14
      <4>2. first2.ok /\ others2.ok
        BY <3>14, <3>15
      <4> HIDE DEF others2
      <4>3. LET f == read2[kind][data2][p2]
                o == ReadList(read2, kind, n, data2, f.next)
            IN  f.ok /\ o.ok => List2(n + 1, p2) = Got(<<f.val>> \o o.val, o.next)
        <5>1. LET f == read2[kind][data2][p2]
                  o == ReadList(read2, kind, n, data2, f.next)
              IN  /\ List2(n + 1, p2).ok => f.ok /\ o.ok
                  /\ f.ok /\ o.ok => List2(n + 1, p2) = Got(<<f.val>> \o o.val, o.next)
          BY ListGoesOn
        <5>2. QED BY <5>1
      <4>4. List2(n + 1, p2) = Got(<<first2.val>> \o others2.val, others2.next)
        BY <4>1, <4>2, <4>3
      <4>5. QED BY <4>4, <3>14, <3>15
    <3>17. p2 + (r.next - p) = others2.next
      <4> HIDE DEF first, others, others2, r, List, List2
      <4>1. (p2 + (first.next - p)) + (others.next - first.next) =
              p2 + (others.next - p)
        <5>1. first.next \in Nat /\ others.next \in Nat /\ p2 \in Nat
          BY <3>7
        <5>2. QED BY <3>1, <5>1, Shifts
      <4>2. QED BY <3>6, <3>15, <4>1
    <3>18. Moved(r, p, List2(n + 1, p2), p2)
      <4> HIDE DEF first, others, others2, r, List, List2
      <4>1. QED BY <3>6, <3>16, <3>17 DEF Moved
    <3>19. QED BY <3>18
  <2> HIDE DEF List, List2
  <2>2. QED BY <2>1
<1>4. \A n \in Nat : n \in S
  <2> HIDE DEF S
  <2>1. QED BY <1>2, <1>3, Counting
<1>5. QED BY <1>4

(* A counted list is as many things as its count says.                     *)
LEMMA CountedIs ==
  ASSUME NEW read, NEW kind, NEW data, NEW p
  PROVE  ReadCounted(read, kind, data, p) =
           IF ReadCount(data, p).ok
           THEN ReadList(read, kind, ReadCount(data, p).val, data,
                         ReadCount(data, p).next)
           ELSE Nothing
BY DEF ReadCounted, Then

(* A counted list holds what its reader yields, and ends within the data.  *)
LEMMA CountedFit ==
  ASSUME NEW read, NEW kind, NEW T, NEW data \in Seq(Byte), NEW p \in Nat,
         Reads(read[kind][data], T, data), ReadCounted(read, kind, data, p).ok
  PROVE  /\ ReadCounted(read, kind, data, p).val \in Seq(T)
         /\ ReadCounted(read, kind, data, p).next \in p + 1 .. Len(data)
<1> DEFINE c == ReadCount(data, p)
           n == c.val
           q == c.next
           r == ReadCounted(read, kind, data, p)
           list == ReadList(read, kind, n, data, q)
<1>1. r = IF c.ok THEN list ELSE Nothing
  BY CountedIs
<1>2. c.ok
  <2> HIDE DEF c, list, r
  <2>1. ~ c.ok => ~ r.ok
    BY <1>1, Results
  <2>2. QED BY <2>1 DEF r
<1>3. n \in 0 .. Power[IntBytes] - 1 /\ q \in p + 1 .. Len(data)
  BY <1>2, CountsFit
<1>4. Power[IntBytes] \in Nat /\ Len(data) \in Nat
  BY WireWidths, PowersArePositive
<1>5. n \in Nat /\ q \in 0 .. Len(data)
  <2> HIDE DEF n, q
  <2>1. QED BY <1>3, <1>4
<1>6. r = list /\ list.ok
  BY <1>1, <1>2
<1>7. list.val \in Seq(T) /\ list.next \in q + n .. Len(data)
  BY <1>5, <1>6, ListsFit
<1> HIDE DEF n, q, list, r
<1>8. list.next \in p + 1 .. Len(data)
  BY <1>3, <1>4, <1>5, <1>7
<1>9. QED BY <1>6, <1>7, <1>8 DEF r

(* The same bytes elsewhere are the same counted list.                     *)
LEMMA SameCounted ==
  ASSUME NEW read, NEW read2, NEW kind, NEW T, NEW data \in Seq(Byte),
         NEW data2 \in Seq(Byte), NEW size \in Nat, NEW p \in Nat, NEW p2 \in Nat,
         Reads(read[kind][data], T, data),
         ReadsTheSame(read[kind][data], read2[kind][data2], data, data2, size),
         ReadCounted(read, kind, data, p).ok,
         ReadCounted(read, kind, data, p).next - p <= size + 1,
         Same(data, p, ReadCounted(read, kind, data, p).next, data2, p2)
  PROVE  Moved(ReadCounted(read, kind, data, p), p,
               ReadCounted(read2, kind, data2, p2), p2)
<1> DEFINE c == ReadCount(data, p)
           c2 == ReadCount(data2, p2)
           n == c.val
           q == c.next
           q2 == p2 + (q - p)
           r == ReadCounted(read, kind, data, p)
           r2 == ReadCounted(read2, kind, data2, p2)
           list == ReadList(read, kind, n, data, q)
           list2 == ReadList(read2, kind, n, data2, q2)
<1>1. r = IF c.ok THEN list ELSE Nothing
  BY CountedIs
<1>2. c.ok
  <2> HIDE DEF c, list, r
  <2>1. ~ c.ok => ~ r.ok
    BY <1>1, Results
  <2>2. QED BY <2>1 DEF r
<1>3. n \in 0 .. Power[IntBytes] - 1 /\ q \in p + 1 .. Len(data)
  BY <1>2, CountsFit
<1>4. Power[IntBytes] \in Nat /\ Len(data) \in Nat
  BY WireWidths, PowersArePositive
<1>5. n \in Nat /\ q \in 0 .. Len(data) /\ q \in Nat /\ p <= q /\ p < q
  <2> HIDE DEF n, q
  <2>1. QED BY <1>3, <1>4
<1>6. r = list /\ list.ok
  BY <1>1, <1>2
<1>7. list.next \in q + n .. Len(data)
  BY <1>5, <1>6, ListsFit
<1>8. r.next - p <= size + 1 /\ Same(data, p, r.next, data2, p2)
  OBVIOUS
<1>81. list.next - p <= size + 1 /\ Same(data, p, list.next, data2, p2)
  BY <1>6, <1>8
<1> HIDE DEF c, n, q, list, r
<1>9. list.next \in Nat /\ q <= list.next /\ list.next - q <= size /\ q2 \in Nat
  BY <1>3, <1>4, <1>5, <1>7, <1>81, SMTT(30)
<1>10. Same(data, p, q, data2, p2) /\ Same(data, q, list.next, data2, q2)
  BY <1>5, <1>9, <1>81, SameInPart
<1>11. c2 = Got(n, q2)
  <2>1. Same(data, p, ReadCount(data, p).next, data2, p2) /\ ReadCount(data, p).ok
    BY <1>2, <1>10 DEF c, q
  <2>2. QED BY <2>1, SameCount DEF c, n, q
<1> HIDE DEF q2, c2
<1>12. c2.ok /\ c2.val = n /\ c2.next = q2
  BY <1>11, Results
<1>13. r2 = list2
  <2>1. r2 = IF c2.ok THEN ReadList(read2, kind, c2.val, data2, c2.next) ELSE Nothing
    BY CountedIs DEF c2
  <2>2. QED BY <2>1, <1>12
<1>14. Moved(list, q, list2, q2)
  <2>1. list.ok /\ list.next - q <= size /\ Same(data, q, list.next, data2, q2)
    BY <1>6, <1>9, <1>10
  <2>2. q2 \in Nat
    BY <1>9
  <2>3. QED BY <1>5, <2>1, <2>2, SameList DEF list
<1>15. q2 + (list.next - q) = p2 + (list.next - p)
  BY <1>5, <1>9, Shifts DEF q2
<1>16. r2 = Got(r.val, p2 + (r.next - p))
  <2> HIDE DEF r2, list2
  <2>1. QED BY <1>6, <1>13, <1>14, <1>15 DEF Moved
<1>17. QED BY <1>16 DEF Moved, r

-----------------------------------------------------------------------------
(* Values.                                                                 *)

(* What is left of a text without the NULs at its end.                     *)
LEMMA TrimmedIs ==
  ASSUME NEW bytes \in Seq(Byte)
  PROVE  \E k \in 0 .. Len(bytes) :
           /\ TrimNuls(bytes) = SubSeq(bytes, 1, k)
           /\ k # 0 => bytes[k] # 0
           /\ \A j \in k + 1 .. Len(bytes) : bytes[j] = 0
<1> DEFINE n == Len(bytes)
           text == {i \in DOMAIN bytes : bytes[i] # 0}
           last == CHOOSE i \in text : \A j \in text : j <= i
<1>1. n \in Nat /\ DOMAIN bytes = 1 .. n
  OBVIOUS
<1>2. \A i : i \in text <=> i \in 1 .. n /\ bytes[i] # 0
  BY <1>1
<1>3. TrimNuls(bytes) = SubSeq(bytes, 1, IF text = {} THEN 0 ELSE last)
  BY DEF TrimNuls
<1> HIDE DEF n, text
<1>4. CASE text = {}
  <2>1. TrimNuls(bytes) = SubSeq(bytes, 1, 0)
    BY <1>3, <1>4
  <2>2. \A j \in 0 + 1 .. n : bytes[j] = 0
    BY <1>1, <1>2, <1>4
  <2>3. 0 \in 0 .. n
    BY <1>1
  <2>4. QED BY <2>1, <2>2, <2>3 DEF n
<1>5. CASE text # {}
  <2> DEFINE away == {n - i : i \in text}
  <2>1. away \in SUBSET Nat /\ away # {}
    <3>1. \A i \in text : n - i \in Nat
      BY <1>1, <1>2
    <3>2. QED BY <3>1, <1>5
  <2>2. PICK d \in away : \A e \in away : d <= e
    BY <2>1, LeastNatural
  <2>3. PICK k \in text : d = n - k
    BY <2>2
  <2>4. \A j \in text : j <= k
    <3>1. TAKE j \in text
    <3>2. n - j \in away
      OBVIOUS
    <3>3. n - k <= n - j
      BY <2>2, <2>3, <3>2
    <3>4. k \in Int /\ j \in Int /\ n \in Int
      BY <1>1, <1>2
    <3>5. QED BY <3>3, <3>4
  <2>5. last \in text /\ \A j \in text : j <= last
    <3> HIDE DEF away
    <3>1. QED BY <2>4
  <2> HIDE DEF last
  <2>6. last \in 1 .. n /\ bytes[last] # 0
    BY <2>5, <1>2
  <2>7. \A j \in last + 1 .. n : bytes[j] = 0
    <3>1. SUFFICES ASSUME NEW j \in last + 1 .. n, bytes[j] # 0 PROVE FALSE
      OBVIOUS
    <3>2. j \in 1 .. n /\ ~ (j <= last)
      BY <1>1, <2>6
    <3>3. j \in text
      BY <1>2, <3>1, <3>2
    <3>4. QED BY <2>5, <3>2, <3>3
  <2>8. TrimNuls(bytes) = SubSeq(bytes, 1, last)
    BY <1>3, <1>5
  <2>9. last \in 0 .. n
    BY <1>1, <2>6
  <2>10. QED BY <2>6, <2>7, <2>8, <2>9 DEF n
<1>6. QED BY <1>4, <1>5

(* A byte is an integer.                                                   *)
LEMMA ByteIsInt == \A b \in Byte : b \in Int
BY DEF Byte, Base

(* Any bytes make a value.                                                 *)
LEMMA ValuesMade ==
  ASSUME NEW T, NEW marker \in Byte, NEW bytes \in Seq(Byte)
  PROVE  Made(marker, bytes) \in
           [type : Types, data : Seq(Int), items : Seq(T)]
<1> DEFINE V == [type : Types, data : Seq(Int), items : Seq(T)]
<1>1. bytes \in Seq(Int) /\ marker \in Int
  <2>1. marker \in Int
    BY Bytes
  <2>2. \A i \in 1 .. Len(bytes) : bytes[i] \in Int
    <3>1. TAKE i \in 1 .. Len(bytes)
    <3>2. bytes[i] \in Byte
      OBVIOUS
    <3>3. QED BY <3>2, ByteIsInt
  <2>3. bytes \in Seq(Int)
    BY <2>2
  <2>4. QED BY <2>1, <2>3
<1>2. \A type \in Types, d \in Seq(Int) : Value(type, d, <<>>) \in V
  <2>1. <<>> \in Seq(T)
    OBVIOUS
  <2>2. QED BY <2>1 DEF Value
<1>3. <<Signed(bytes)>> \in Seq(Int)
  <2>1. Number(bytes) \in 0 .. Power[Len(bytes)] - 1 /\ Power[Len(bytes)] \in Nat
    BY NumberIs, PowersArePositive
  <2>2. Signed(bytes) \in Int
    BY <2>1 DEF Signed
  <2>3. QED BY <2>2
<1>4. TrimNuls(bytes) \in Seq(Int)
  <2>1. PICK k \in 0 .. Len(bytes) : TrimNuls(bytes) = SubSeq(bytes, 1, k)
    BY TrimmedIs
  <2>2. SubSeq(bytes, 1, k) \in Seq(Int)
    BY <1>1
  <2>3. QED BY <2>1, <2>2
<1>5. <<>> \in Seq(Int) /\ <<marker>> \o bytes \in Seq(Int)
  BY <1>1
<1> HIDE DEF V
<1>6. /\ "int" \in Types /\ "double" \in Types /\ "int64" \in Types
      /\ "string" \in Types /\ "binary" \in Types /\ "true" \in Types
      /\ "false" \in Types /\ "undefined" \in Types /\ "unknown" \in Types
  BY DEF Types
<1>7. /\ Value("int", <<Signed(bytes)>>, <<>>) \in V
      /\ Value("double", bytes, <<>>) \in V
      /\ Value("int64", bytes, <<>>) \in V
      /\ Value("string", TrimNuls(bytes), <<>>) \in V
      /\ Value("binary", bytes, <<>>) \in V
      /\ Value("unknown", <<marker>> \o bytes, <<>>) \in V
  BY <1>1, <1>2, <1>3, <1>4, <1>5, <1>6
<1>8. Plain("true") \in V /\ Plain("false") \in V /\ Plain("undefined") \in V
  BY <1>2, <1>5, <1>6 DEF Plain
<1>9. Made(marker, bytes) \in V
  BY <1>7, <1>8 DEF Made
<1>10. QED BY <1>9 DEF V

(* Widths are naturals.                                                    *)
LEMMA WidthsAre ==
  \A marker, left : left \in Nat => Width(marker, left) \in Nat
BY WireWidths DEF Width

(* What a marker and bytes make, wherever they stand.                      *)
LEMMA PlainIs ==
  ASSUME NEW data \in Seq(Byte), NEW p \in Nat, NEW marker \in Byte,
         NEW left \in Nat, NEW w, w = Width(marker, left)
  PROVE  LET bytes == TakeBytes(data, p, w)
             r == ReadPlain(marker, left, data, p)
         IN  /\ r.ok => bytes.ok /\ (marker = Marker.string => IsText(bytes.val))
             /\ bytes.ok /\ (marker = Marker.string => IsText(bytes.val)) =>
                  r = Got(Made(marker, bytes.val), p + w)
<1> DEFINE bytes == TakeBytes(data, p, w)
           r == ReadPlain(marker, left, data, p)
           text == marker = Marker.string => IsText(bytes.val)
<1>1. r = IF bytes.ok
          THEN IF ~ text THEN Nothing ELSE Got(Made(marker, bytes.val), bytes.next)
          ELSE Nothing
  BY DEF ReadPlain, Then
<1>2. w \in Nat
  BY WidthsAre
<1>3. bytes.ok => bytes.next = p + w
  BY <1>2, BytesTaken
<1> HIDE DEF bytes, r, text
<1>4. ~ (bytes.ok /\ text) => r = Nothing
  BY <1>1
<1>5. ~ (bytes.ok /\ text) => ~ r.ok
  BY <1>4, Results
<1>6. bytes.ok /\ text => r = Got(Made(marker, bytes.val), p + w)
  BY <1>1, <1>3
<1>7. QED BY <1>5, <1>6 DEF bytes, r, text

(* The value behind a marker.                                              *)
LEMMA MarkedFit ==
  ASSUME NEW read, NEW T, NEW data \in Seq(Byte), NEW p \in Nat,
         NEW marker \in Byte, NEW left \in Nat, p <= Len(data),
         Reads(read["value"][data], T, data),
         ReadMarked(read, marker, left, data, p).ok
  PROVE  /\ ReadMarked(read, marker, left, data, p).val \in
              [type : Types, data : Seq(Int), items : Seq(T)]
         /\ ReadMarked(read, marker, left, data, p).next \in p .. Len(data)
<1> DEFINE r == ReadMarked(read, marker, left, data, p)
           V == [type : Types, data : Seq(Int), items : Seq(T)]
<1>1. CASE marker = Marker.array
  <2> DEFINE c == ReadCounted(read, "value", data, p)
  <2>1. r = IF c.ok THEN Got(Value("array", <<>>, c.val), c.next) ELSE Nothing
    BY <1>1 DEF ReadMarked, Then
  <2>2. c.ok
    <3> HIDE DEF c, r
    <3>1. ~ c.ok => ~ r.ok
      BY <2>1, Results
    <3>2. QED BY <3>1 DEF r
  <2>3. c.val \in Seq(T) /\ c.next \in p + 1 .. Len(data)
    BY <2>2, CountedFit
  <2>4. Value("array", <<>>, c.val) \in V
    <3>1. <<>> \in Seq(Int)
      OBVIOUS
    <3> HIDE DEF c
    <3>2. QED BY <2>3, <3>1 DEF Value, Types
  <2> HIDE DEF c, r, V
  <2>5. r.val = Value("array", <<>>, c.val) /\ r.next = c.next
    BY <2>1, <2>2, Results
  <2>6. QED BY <2>3, <2>4, <2>5 DEF r, V
<1>2. CASE marker # Marker.array
  <2> DEFINE w == Width(marker, left)
             bytes == TakeBytes(data, p, w)
  <2>1. r = ReadPlain(marker, left, data, p)
    BY <1>2 DEF ReadMarked
  <2>2. w \in Nat
    BY WidthsAre
  <2>3. /\ r.ok => bytes.ok /\ (marker = Marker.string => IsText(bytes.val))
        /\ bytes.ok /\ (marker = Marker.string => IsText(bytes.val)) =>
             r = Got(Made(marker, bytes.val), p + w)
    <3> HIDE DEF r
    <3>1. QED BY <2>1, PlainIs
  <2>4. bytes.ok /\ r = Got(Made(marker, bytes.val), p + w)
    BY <2>3
  <2>5. bytes.val \in Seq(Byte) /\ p + w <= Len(data)
    <3>1. TakeBytes(data, p, w).ok
      BY <2>4
    <3> HIDE DEF w
    <3>2. QED BY <2>2, <3>1, BytesTaken
  <2>6. Made(marker, bytes.val) \in V
    <3> HIDE DEF bytes
    <3>1. QED BY <2>5, ValuesMade
  <2> HIDE DEF bytes, r, V
  <2>7. r.val = Made(marker, bytes.val) /\ r.next = p + w
    BY <2>4, Results
  <2>8. p + w \in p .. Len(data)
    <3> HIDE DEF w
    <3>1. Len(data) \in Nat
      OBVIOUS
    <3>2. QED BY <2>2, <2>5, <3>1
  <2>9. QED BY <2>6, <2>7, <2>8 DEF r, V
<1>3. QED BY <1>1, <1>2

(* The same bytes elsewhere make the same value behind a marker.           *)
LEMMA SameMarked ==
  ASSUME NEW read, NEW read2, NEW T, NEW data \in Seq(Byte),
         NEW data2 \in Seq(Byte), NEW size \in Nat, NEW p \in Nat, NEW p2 \in Nat,
         NEW marker \in Byte, NEW left \in Nat,
         Reads(read["value"][data], T, data),
         ReadsTheSame(read["value"][data], read2["value"][data2], data, data2, size),
         ReadMarked(read, marker, left, data, p).ok,
         ReadMarked(read, marker, left, data, p).next - p <= size + 1,
         Same(data, p, ReadMarked(read, marker, left, data, p).next, data2, p2)
  PROVE  Moved(ReadMarked(read, marker, left, data, p), p,
               ReadMarked(read2, marker, left, data2, p2), p2)
<1> DEFINE r == ReadMarked(read, marker, left, data, p)
           r2 == ReadMarked(read2, marker, left, data2, p2)
<1>1. CASE marker = Marker.array
  <2> DEFINE c == ReadCounted(read, "value", data, p)
             c2 == ReadCounted(read2, "value", data2, p2)
  <2>1. r = IF c.ok THEN Got(Value("array", <<>>, c.val), c.next) ELSE Nothing
    BY <1>1 DEF ReadMarked, Then
  <2>2. r2 = IF c2.ok THEN Got(Value("array", <<>>, c2.val), c2.next) ELSE Nothing
    BY <1>1 DEF ReadMarked, Then
  <2>3. c.ok
    <3> HIDE DEF c, r
    <3>1. ~ c.ok => ~ r.ok
      BY <2>1, Results
    <3>2. QED BY <3>1 DEF r
  <2>4. r.val = Value("array", <<>>, c.val) /\ r.next = c.next
    <3> HIDE DEF c, r
    <3>1. QED BY <2>1, <2>3, Results
  <2>5. c.next - p <= size + 1 /\ Same(data, p, c.next, data2, p2)
    BY <2>4
  <2>6. Moved(c, p, c2, p2)
    <3>1. /\ ReadCounted(read, "value", data, p).ok
          /\ ReadCounted(read, "value", data, p).next - p <= size + 1
          /\ Same(data, p, ReadCounted(read, "value", data, p).next, data2, p2)
      BY <2>3, <2>5
    <3>2. QED BY <3>1, SameCounted
  <2> HIDE DEF c, c2, r, r2
  <2>7. c2.ok /\ c2.val = c.val /\ c2.next = p2 + (c.next - p)
    BY <2>6, Results DEF Moved
  <2>8. r2 = Got(r.val, p2 + (r.next - p))
    BY <2>2, <2>4, <2>7
  <2>9. QED BY <2>8 DEF r, r2, Moved
<1>2. CASE marker # Marker.array
  <2> DEFINE w == Width(marker, left)
             bytes == TakeBytes(data, p, w)
             bytes2 == TakeBytes(data2, p2, w)
  <2>1. r = ReadPlain(marker, left, data, p) /\ r2 = ReadPlain(marker, left, data2, p2)
    BY <1>2 DEF ReadMarked
  <2>2. w \in Nat
    BY WidthsAre
  <2>3. /\ r.ok => bytes.ok /\ (marker = Marker.string => IsText(bytes.val))
        /\ bytes.ok /\ (marker = Marker.string => IsText(bytes.val)) =>
             r = Got(Made(marker, bytes.val), p + w)
    <3> HIDE DEF r
    <3>1. QED BY <2>1, PlainIs
  <2>4. /\ r2.ok => bytes2.ok /\ (marker = Marker.string => IsText(bytes2.val))
        /\ bytes2.ok /\ (marker = Marker.string => IsText(bytes2.val)) =>
             r2 = Got(Made(marker, bytes2.val), p2 + w)
    <3> HIDE DEF r2
    <3>1. QED BY <2>1, PlainIs
  <2>5. /\ bytes.ok /\ r = Got(Made(marker, bytes.val), p + w)
        /\ marker = Marker.string => IsText(bytes.val)
    BY <2>3
  <2>6. r.val = Made(marker, bytes.val) /\ r.next = p + w
    <3> HIDE DEF r, bytes, w
    <3>1. QED BY <2>5, Results
  <2>7. Same(data, p, p + w, data2, p2)
    BY <2>6
  <2>8. bytes2 = Got(bytes.val, p2 + w)
    <3>1. TakeBytes(data, p, w).ok
      BY <2>5
    <3> HIDE DEF w
    <3>2. QED BY <2>2, <2>7, <3>1, SameBytesTaken
  <2> HIDE DEF w, bytes, bytes2, r, r2
  <2>9. bytes2.ok /\ bytes2.val = bytes.val
    BY <2>8, Results
  <2>10. r2 = Got(r.val, p2 + w) /\ p2 + w = p2 + (r.next - p)
    <3>1. r2 = Got(r.val, p2 + w)
      BY <2>4, <2>5, <2>6, <2>9
    <3>2. r.next - p = w
      BY <2>2, <2>6
    <3>3. QED BY <3>1, <3>2
  <2>11. Moved(r, p, r2, p2)
    BY <2>10 DEF Moved
  <2>12. QED BY <2>11 DEF r, r2
<1>3. QED BY <1>1, <1>2

(* A value: its length, and if that is positive a marker and what follows. *)
LEMMA ValueIs ==
  ASSUME NEW read, NEW data \in Seq(Byte), NEW p \in Nat
  PROVE  LET len == ReadCompressedInt(data, p)
             marker == data[len.next + 1]
             one == TakeBytes(data, len.next, 1)
         IN  ReadValue(read, data, p) =
               IF ~ len.ok THEN Nothing
               ELSE IF len.val <= 0 THEN Got(Plain("undefined"), len.next)
               ELSE IF ~ one.ok THEN Nothing
               ELSE ReadMarked(read, marker, len.val - 1, data, len.next + 1)
<1> DEFINE len == ReadCompressedInt(data, p)
           one == TakeBytes(data, len.next, 1)
           r == ReadValue(read, data, p)
<1>1. r = IF len.ok
          THEN IF len.val <= 0 THEN Got(Plain("undefined"), len.next)
               ELSE IF one.ok
               THEN ReadMarked(read, one.val[1], len.val - 1, data, one.next)
               ELSE Nothing
          ELSE Nothing
  BY DEF ReadValue, Then
<1>2. len.ok => len.next \in Nat
  <2>1. len.ok => len.next \in p + 1 .. Len(data)
    BY CompressedIntsFit
  <2> HIDE DEF len
  <2>2. QED BY <2>1
<1>3. len.ok /\ one.ok => one.val[1] = data[len.next + 1] /\ one.next = len.next + 1
  <2> HIDE DEF len
  <2>1. QED BY <1>2, OneByteTaken
<1> HIDE DEF len, one, r
<1>4. QED BY <1>1, <1>3 DEF len, one, r

(* A value that was read is one, and ends within the data.                 *)
LEMMA ValuesFit ==
  ASSUME NEW read, NEW T, NEW data \in Seq(Byte), NEW p \in Nat,
         Reads(read["value"][data], T, data), ReadValue(read, data, p).ok
  PROVE  /\ ReadValue(read, data, p).val \in
              [type : Types, data : Seq(Int), items : Seq(T)]
         /\ ReadValue(read, data, p).next \in p + 1 .. Len(data)
<1> DEFINE len == ReadCompressedInt(data, p)
           q == len.next
           marker == data[q + 1]
           one == TakeBytes(data, q, 1)
           left == len.val - 1
           m == ReadMarked(read, marker, left, data, q + 1)
           r == ReadValue(read, data, p)
           V == [type : Types, data : Seq(Int), items : Seq(T)]
<1>1. r = IF ~ len.ok THEN Nothing
          ELSE IF len.val <= 0 THEN Got(Plain("undefined"), q)
          ELSE IF ~ one.ok THEN Nothing ELSE m
  BY ValueIs
<1>2. len.ok
  <2> HIDE DEF len, r, q, one, m
  <2>1. ~ len.ok => ~ r.ok
    BY <1>1, Results
  <2>2. QED BY <2>1 DEF r
<1>3. len.val \in Int /\ q \in p + 1 .. Len(data)
  BY <1>2, CompressedIntsFit
<1>4. Len(data) \in Nat
  OBVIOUS
<1>5. q \in Nat
  <2> HIDE DEF q
  <2>1. QED BY <1>3, <1>4
<1>6. CASE len.val <= 0
  <2>1. r = Got(Plain("undefined"), q)
    BY <1>1, <1>2, <1>6
  <2> HIDE DEF q, r
  <2>2. r.val = Plain("undefined") /\ r.next = q
    BY <2>1, Results
  <2>3. Plain("undefined") \in V
    <3>1. <<>> \in Seq(Int) /\ <<>> \in Seq(T)
      OBVIOUS
    <3>2. QED BY <3>1 DEF Plain, Value, Types
  <2> HIDE DEF V
  <2>4. QED BY <1>3, <2>2, <2>3 DEF r, V
<1>7. CASE ~ (len.val <= 0)
  <2>1. one.ok /\ r = m
    <3> HIDE DEF len, r, q, one, m
    <3>1. ~ one.ok => ~ r.ok
      BY <1>1, <1>2, <1>7, Results
    <3>2. r.ok
      BY DEF r
    <3>3. QED BY <1>1, <1>2, <1>7, <3>1, <3>2
  <2>2. q + 1 <= Len(data) /\ marker \in 0 .. 255
    <3> HIDE DEF q
    <3>1. TakeBytes(data, q, 1).ok
      BY <2>1
    <3>2. QED BY <1>5, <3>1, OneByteTaken
  <2>3. left \in Nat /\ q + 1 \in Nat /\ marker \in Byte
    <3> HIDE DEF len, q, marker
    <3>1. QED BY <1>3, <1>5, <1>7, <2>2, Bytes
  <2>4. m.ok
    <3>1. r.ok
      OBVIOUS
    <3> HIDE DEF m, r
    <3>2. QED BY <2>1, <3>1
  <2>5. m.val \in V /\ m.next \in q + 1 .. Len(data)
    <3>1. ReadMarked(read, marker, left, data, q + 1).ok
      BY <2>4
    <3> HIDE DEF q, marker, left
    <3>2. QED BY <2>2, <2>3, <3>1, MarkedFit
  <2> HIDE DEF m, r, q, V
  <2>6. m.next \in p + 1 .. Len(data)
    BY <1>3, <1>4, <1>5, <2>5
  <2>7. QED BY <2>1, <2>5, <2>6 DEF r, V
<1>8. QED BY <1>6, <1>7

(* The same bytes elsewhere are the same value.                            *)
LEMMA SameValue ==
  ASSUME NEW read, NEW read2, NEW T, NEW data \in Seq(Byte),
         NEW data2 \in Seq(Byte), NEW size \in Nat, NEW p \in Nat, NEW p2 \in Nat,
         Reads(read["value"][data], T, data),
         ReadsTheSame(read["value"][data], read2["value"][data2], data, data2, size),
         ReadValue(read, data, p).ok,
         ReadValue(read, data, p).next - p <= size + 1,
         Same(data, p, ReadValue(read, data, p).next, data2, p2)
  PROVE  Moved(ReadValue(read, data, p), p, ReadValue(read2, data2, p2), p2)
<1> DEFINE len == ReadCompressedInt(data, p)
           len2 == ReadCompressedInt(data2, p2)
           q == len.next
           q2 == p2 + (q - p)
           marker == data[q + 1]
           marker2 == data2[q2 + 1]
           one == TakeBytes(data, q, 1)
           one2 == TakeBytes(data2, q2, 1)
           left == len.val - 1
           m == ReadMarked(read, marker, left, data, q + 1)
           m2 == ReadMarked(read2, marker, left, data2, q2 + 1)
           r == ReadValue(read, data, p)
           r2 == ReadValue(read2, data2, p2)
<1>1. r = IF ~ len.ok THEN Nothing
          ELSE IF len.val <= 0 THEN Got(Plain("undefined"), q)
          ELSE IF ~ one.ok THEN Nothing ELSE m
  BY ValueIs
<1>2. len.ok
  <2> HIDE DEF len, r, q, one, m
  <2>1. ~ len.ok => ~ r.ok
    BY <1>1, Results
  <2>2. QED BY <2>1 DEF r
<1>3. len.val \in Int /\ q \in p + 1 .. Len(data)
  BY <1>2, CompressedIntsFit
<1>4. Len(data) \in Nat
  OBVIOUS
<1>5. q \in Nat /\ p <= q /\ p < q /\ q2 \in Nat
  <2> HIDE DEF q
  <2>1. QED BY <1>3, <1>4
<1>6. r.next - p <= size + 1 /\ Same(data, p, r.next, data2, p2)
  OBVIOUS
<1>7. ASSUME Same(data, p, q, data2, p2)
      PROVE  /\ len2.ok /\ len2.val = len.val /\ len2.next = q2
  <2>1. ReadCompressedInt(data, p).ok
        /\ Same(data, p, ReadCompressedInt(data, p).next, data2, p2)
    BY <1>2, <1>7
  <2>2. len2 = Got(len.val, q2)
    BY <2>1, SameCompressedInt
  <2> HIDE DEF len2, q2, len
  <2>3. QED BY <2>2, Results
<1>8. len2.ok /\ len2.next = q2 => r2 =
          IF len2.val <= 0 THEN Got(Plain("undefined"), q2)
          ELSE IF ~ one2.ok THEN Nothing
          ELSE ReadMarked(read2, marker2, len2.val - 1, data2, q2 + 1)
  BY ValueIs
<1>9. CASE len.val <= 0
  <2>1. r = Got(Plain("undefined"), q)
    BY <1>1, <1>2, <1>9
  <2> HIDE DEF q, r, r2, len2, q2, one2, marker2, len
  <2>2. r.val = Plain("undefined") /\ r.next = q
    BY <2>1, Results
  <2>3. len2.ok /\ len2.val = len.val /\ len2.next = q2
    BY <1>6, <1>7, <2>2
  <2>4. r2 = Got(Plain("undefined"), q2)
    BY <1>8, <1>9, <2>3
  <2>5. Moved(r, p, r2, p2)
    BY <2>2, <2>4 DEF Moved, q2
  <2>6. QED BY <2>5 DEF r, r2
<1>10. CASE ~ (len.val <= 0)
  <2>1. one.ok /\ r = m
    <3> HIDE DEF len, r, q, one, m
    <3>1. ~ one.ok => ~ r.ok
      BY <1>1, <1>2, <1>10, Results
    <3>2. r.ok
      BY DEF r
    <3>3. QED BY <1>1, <1>2, <1>10, <3>1, <3>2
  <2>2. q + 1 <= Len(data) /\ marker \in 0 .. 255
    <3> HIDE DEF q
    <3>1. TakeBytes(data, q, 1).ok
      BY <2>1
    <3>2. QED BY <1>5, <3>1, OneByteTaken
  <2>3. left \in Nat /\ q + 1 \in Nat /\ q2 + 1 \in Nat /\ marker \in Byte
    <3> HIDE DEF len, q, q2, marker
    <3>1. QED BY <1>3, <1>5, <1>10, <2>2, Bytes
  <2>4. m.ok /\ m.next = r.next
    <3>1. r.ok
      OBVIOUS
    <3> HIDE DEF m, r
    <3>2. QED BY <2>1, <3>1
  <2>5. m.next \in q + 1 .. Len(data)
    <3>1. ReadMarked(read, marker, left, data, q + 1).ok
      BY <2>4
    <3> HIDE DEF q, marker, left
    <3>2. QED BY <2>2, <2>3, <3>1, MarkedFit
  <2>6. m.next - p <= size + 1 /\ Same(data, p, m.next, data2, p2)
    <3> HIDE DEF m, r
    <3>1. QED BY <1>6, <2>4
  <2> DEFINE s == q + 1
             s2 == q2 + 1
             t == m.next
  <2>7. /\ s \in Nat /\ s2 \in Nat /\ t \in Nat /\ p <= s /\ s <= t /\ q <= s /\ q <= t
        /\ s - q = 1 /\ q2 + (s - q) = s2 /\ p2 + (s - p) = s2
        /\ t - s <= size + 1
    <3> HIDE DEF m, q, r
    <3>1. QED BY <1>3, <1>4, <1>5, <2>5, <2>6
  <2> HIDE DEF t, s, s2
  <2>8. Same(data, p, q, data2, p2) /\ Same(data, q, t, data2, q2)
    <3>1. Same(data, p, t, data2, p2)
      BY <2>6 DEF t
    <3> HIDE DEF q
    <3>2. QED BY <3>1, <2>7, <1>5, SameInPart
  <2>9. Same(data, q, s, data2, q2) /\ Same(data, s, t, data2, s2)
    <3> HIDE DEF q, q2
    <3>1. Same(data, q, s, data2, q2) /\ Same(data, s, t, data2, q2 + (s - q))
      BY <2>7, <2>8, <1>5, SameInPart
    <3>2. QED BY <3>1, <2>7
  <2>10. len2.ok /\ len2.val = len.val /\ len2.next = q2
    BY <1>7, <2>8
  <2>11. one2.ok /\ marker2 = marker
    <3> HIDE DEF q, q2
    <3>1. 1 \in 1 .. s - q
      BY <2>7
    <3>2. q2 + 1 <= Len(data2) /\ data2[q2 + 1] = data[q + 1]
      BY <2>7, <2>9, <3>1 DEF Same
    <3>3. QED BY <3>2, <1>5, OneByteTaken
  <2>12. r2 = m2
    <3> HIDE DEF len, len2, q, q2, one2, marker, marker2, r2
    <3>1. len2.val - 1 = left
      BY <2>10
    <3> HIDE DEF left
    <3>2. QED BY <1>8, <1>10, <2>10, <2>11, <3>1
  <2>13. Moved(m, s, m2, s2)
    <3>1. /\ ReadMarked(read, marker, left, data, s).ok
          /\ ReadMarked(read, marker, left, data, s).next - s <= size + 1
          /\ Same(data, s, ReadMarked(read, marker, left, data, s).next, data2, s2)
      BY <2>4, <2>7, <2>9 DEF s, t
    <3> HIDE DEF marker, left
    <3>2. Moved(ReadMarked(read, marker, left, data, s), s,
                ReadMarked(read2, marker, left, data2, s2), s2)
      BY <2>3, <2>7, <3>1, SameMarked
    <3>3. QED BY <3>2 DEF s, s2
  <2>14. s2 + (t - s) = p2 + (t - p)
    BY <2>7, Shifts
  <2> HIDE DEF m, m2, r, r2
  <2>15. r2 = Got(r.val, p2 + (r.next - p))
    BY <2>1, <2>12, <2>13, <2>14 DEF Moved, t
  <2>16. QED BY <2>15 DEF Moved, r, r2
<1>11. QED BY <1>9, <1>10

-----------------------------------------------------------------------------
(* Properties and nodes.                                                   *)

(* A property is a name and a value.                                       *)
LEMMA PropertyIs ==
  ASSUME NEW read, NEW data, NEW p
  PROVE  LET name == ReadCString(data, p)
             value == read["value"][data][name.next]
         IN  ReadProperty(read, data, p) =
               IF ~ name.ok THEN Nothing ELSE IF ~ value.ok THEN Nothing
               ELSE Got([name |-> name.val, value |-> value.val], value.next)
BY DEF ReadProperty, Then

(* A node is a name, properties and children.                              *)
LEMMA NodeIs ==
  ASSUME NEW read, NEW data, NEW p
  PROVE  LET name == ReadCString(data, p)
             properties == ReadCounted(read, "property", data, name.next)
             children == ReadCounted(read, "node", data, properties.next)
         IN  ReadNode(read, data, p) =
               IF ~ name.ok THEN Nothing ELSE IF ~ properties.ok THEN Nothing
               ELSE IF ~ children.ok THEN Nothing
               ELSE Got([name |-> name.val, properties |-> properties.val,
                         children |-> children.val], children.next)
BY DEF ReadNode, Then

(* A property that was read, and where its value begins and ends.          *)
LEMMA PropertiesFit ==
  ASSUME NEW read, NEW T, NEW data \in Seq(Byte), NEW p \in Nat,
         Reads(read["value"][data], T, data), ReadProperty(read, data, p).ok
  PROVE  LET name == ReadCString(data, p)
             value == read["value"][data][name.next]
             r == ReadProperty(read, data, p)
         IN  /\ name.ok /\ name.next \in Nat /\ p < name.next
             /\ value.ok /\ name.next < value.next
             /\ r.val = [name |-> name.val, value |-> value.val]
             /\ r.val \in [name : Seq(Byte), value : T]
             /\ r.next = value.next /\ r.next \in p + 1 .. Len(data)
<1> DEFINE name == ReadCString(data, p)
           value == read["value"][data][name.next]
           r == ReadProperty(read, data, p)
<1>1. r = IF ~ name.ok THEN Nothing ELSE IF ~ value.ok THEN Nothing
          ELSE Got([name |-> name.val, value |-> value.val], value.next)
  BY PropertyIs
<1>2. name.ok /\ value.ok
  <2> HIDE DEF name, value, r
  <2>1. ~ (name.ok /\ value.ok) => r = Nothing
    BY <1>1
  <2>2. ~ (name.ok /\ value.ok) => ~ r.ok
    BY <2>1, Results
  <2>3. QED BY <2>2 DEF r
<1>3. name.val \in Seq(Byte) /\ name.next \in p + 1 .. Len(data)
  BY <1>2, CStringsFit
<1>4. Len(data) \in Nat
  OBVIOUS
<1>5. name.next \in Nat
  <2> HIDE DEF name
  <2>1. QED BY <1>3, <1>4
<1>6. value.val \in T /\ value.next \in name.next + 1 .. Len(data)
  <2> HIDE DEF name
  <2>1. QED BY <1>2, <1>5 DEF Reads
<1> HIDE DEF name, value, r
<1>7. r.val = [name |-> name.val, value |-> value.val] /\ r.next = value.next
  BY <1>1, <1>2, Results
<1>8. r.val \in [name : Seq(Byte), value : T]
  BY <1>3, <1>6, <1>7
<1>9. r.next \in p + 1 .. Len(data) /\ p < name.next /\ name.next < value.next
  BY <1>3, <1>4, <1>5, <1>6, <1>7
<1>10. QED BY <1>2, <1>5, <1>7, <1>8, <1>9 DEF name, value, r

(* A node that was read, and where its parts begin and end.                *)
LEMMA NodesFit ==
  ASSUME NEW read, NEW T, NEW U, NEW data \in Seq(Byte), NEW p \in Nat,
         Reads(read["property"][data], T, data),
         Reads(read["node"][data], U, data), ReadNode(read, data, p).ok
  PROVE  LET name == ReadCString(data, p)
             properties == ReadCounted(read, "property", data, name.next)
             children == ReadCounted(read, "node", data, properties.next)
             r == ReadNode(read, data, p)
         IN  /\ name.ok /\ name.next \in Nat /\ p < name.next
             /\ properties.ok /\ properties.next \in Nat
             /\ name.next < properties.next
             /\ children.ok /\ properties.next < children.next
             /\ r.val = [name |-> name.val, properties |-> properties.val,
                         children |-> children.val]
             /\ r.val \in [name : Seq(Byte), properties : Seq(T),
                           children : Seq(U)]
             /\ r.next = children.next /\ r.next \in p + 1 .. Len(data)
<1> DEFINE name == ReadCString(data, p)
           properties == ReadCounted(read, "property", data, name.next)
           children == ReadCounted(read, "node", data, properties.next)
           r == ReadNode(read, data, p)
<1>1. r = IF ~ name.ok THEN Nothing ELSE IF ~ properties.ok THEN Nothing
          ELSE IF ~ children.ok THEN Nothing
          ELSE Got([name |-> name.val, properties |-> properties.val,
                    children |-> children.val], children.next)
  BY NodeIs
<1>2. name.ok /\ properties.ok /\ children.ok
  <2> HIDE DEF name, properties, children, r
  <2>1. ~ (name.ok /\ properties.ok /\ children.ok) => r = Nothing
    BY <1>1
  <2>2. ~ (name.ok /\ properties.ok /\ children.ok) => ~ r.ok
    BY <2>1, Results
  <2>3. QED BY <2>2 DEF r
<1>3. name.val \in Seq(Byte) /\ name.next \in p + 1 .. Len(data)
  BY <1>2, CStringsFit
<1>4. Len(data) \in Nat
  OBVIOUS
<1>5. name.next \in Nat
  <2> HIDE DEF name
  <2>1. QED BY <1>3, <1>4
<1>6. properties.val \in Seq(T) /\ properties.next \in name.next + 1 .. Len(data)
  <2>1. ReadCounted(read, "property", data, name.next).ok
    BY <1>2
  <2> HIDE DEF name
  <2>2. QED BY <2>1, <1>5, CountedFit
<1>7. properties.next \in Nat
  <2> HIDE DEF name, properties
  <2>1. QED BY <1>4, <1>5, <1>6
<1>8. children.val \in Seq(U) /\ children.next \in properties.next + 1 .. Len(data)
  <2>1. ReadCounted(read, "node", data, properties.next).ok
    BY <1>2
  <2> HIDE DEF properties
  <2>2. QED BY <2>1, <1>7, CountedFit
<1> HIDE DEF name, properties, children, r
<1>9. r.val = [name |-> name.val, properties |-> properties.val,
               children |-> children.val] /\ r.next = children.next
  BY <1>1, <1>2, Results
<1>10. r.val \in [name : Seq(Byte), properties : Seq(T), children : Seq(U)]
  BY <1>3, <1>6, <1>8, <1>9
<1>11. /\ r.next \in p + 1 .. Len(data) /\ p < name.next
       /\ name.next < properties.next /\ properties.next < children.next
  BY <1>3, <1>4, <1>5, <1>6, <1>7, <1>8, <1>9
<1>12. QED BY <1>2, <1>5, <1>7, <1>9, <1>10, <1>11
           DEF name, properties, children, r

(* The same bytes elsewhere are the same property.                         *)
LEMMA SameProperty ==
  ASSUME NEW read, NEW read2, NEW T, NEW data \in Seq(Byte),
         NEW data2 \in Seq(Byte), NEW size \in Nat, NEW p \in Nat, NEW p2 \in Nat,
         Reads(read["value"][data], T, data),
         ReadsTheSame(read["value"][data], read2["value"][data2], data, data2, size),
         ReadProperty(read, data, p).ok,
         ReadProperty(read, data, p).next - p <= size + 1,
         Same(data, p, ReadProperty(read, data, p).next, data2, p2)
  PROVE  Moved(ReadProperty(read, data, p), p, ReadProperty(read2, data2, p2), p2)
<1> DEFINE name == ReadCString(data, p)
           name2 == ReadCString(data2, p2)
           q == name.next
           q2 == p2 + (q - p)
           value == read["value"][data][q]
           value2 == read2["value"][data2][q2]
           t == value.next
           r == ReadProperty(read, data, p)
           r2 == ReadProperty(read2, data2, p2)
<1>1. /\ name.ok /\ q \in Nat /\ p < q /\ value.ok /\ q < t
      /\ r.val = [name |-> name.val, value |-> value.val]
      /\ r.next = t /\ r.next \in p + 1 .. Len(data)
  <2>1. /\ name.ok /\ name.next \in Nat /\ p < name.next
        /\ value.ok /\ name.next < value.next
        /\ r.val = [name |-> name.val, value |-> value.val]
        /\ r.val \in [name : Seq(Byte), value : T]
        /\ r.next = value.next /\ r.next \in p + 1 .. Len(data)
    BY PropertiesFit
  <2> HIDE DEF name, value, r
  <2>2. QED BY <2>1
<1>2. r.next - p <= size + 1 /\ Same(data, p, r.next, data2, p2) /\ Len(data) \in Nat
  OBVIOUS
<1>3. r2 = IF ~ name2.ok THEN Nothing
           ELSE IF ~ read2["value"][data2][name2.next].ok THEN Nothing
           ELSE Got([name |-> name2.val,
                     value |-> read2["value"][data2][name2.next].val],
                    read2["value"][data2][name2.next].next)
  BY PropertyIs
<1> HIDE DEF name, q, value, t, r
<1>4. t \in Nat /\ q2 \in Nat /\ t - q <= size /\ p <= q /\ q <= t
  BY <1>1, <1>2
<1>5. Same(data, p, q, data2, p2) /\ Same(data, q, t, data2, q2)
  BY <1>1, <1>2, <1>4, SameInPart
<1>6. name2 = Got(name.val, q2)
  <2>1. ReadCString(data, p).ok /\ Same(data, p, ReadCString(data, p).next, data2, p2)
    BY <1>1, <1>5 DEF name, q
  <2>2. QED BY <2>1, SameCString DEF name, q
<1>7. Moved(value, q, value2, q2)
  <2>1. /\ read["value"][data][q].ok /\ read["value"][data][q].next - q <= size
        /\ Same(data, q, read["value"][data][q].next, data2, q2)
    BY <1>1, <1>4, <1>5 DEF value, t
  <2> HIDE DEF q2
  <2>2. QED BY <1>1, <1>4, <2>1 DEF ReadsTheSame, value
<1> HIDE DEF name2, value2, r2
<1>8. name2.ok /\ name2.val = name.val /\ name2.next = q2
  <2> HIDE DEF q2
  <2>1. QED BY <1>6, Results
<1>9. value2.ok /\ value2.val = value.val /\ value2.next = q2 + (t - q)
  <2> HIDE DEF q2
  <2>1. QED BY <1>7, Results DEF Moved, t
<1>10. q2 + (t - q) = p2 + (t - p)
  BY <1>1, <1>4, Shifts
<1>11. r2 = Got([name |-> name.val, value |-> value.val], value2.next)
  <2> HIDE DEF q2
  <2>1. value2 = read2["value"][data2][name2.next]
    BY <1>8 DEF value2
  <2>2. QED BY <1>3, <1>8, <1>9, <2>1
<1>12. r2 = Got(r.val, p2 + (r.next - p))
  <2> HIDE DEF q2
  <2>1. QED BY <1>1, <1>9, <1>10, <1>11
<1>13. QED BY <1>12 DEF Moved, r, r2

(* The same bytes elsewhere are the same node.                             *)
LEMMA SameNode ==
  ASSUME NEW read, NEW read2, NEW T, NEW U, NEW data \in Seq(Byte),
         NEW data2 \in Seq(Byte), NEW size \in Nat, NEW p \in Nat, NEW p2 \in Nat,
         Reads(read["property"][data], T, data), Reads(read["node"][data], U, data),
         ReadsTheSame(read["property"][data], read2["property"][data2], data, data2, size),
         ReadsTheSame(read["node"][data], read2["node"][data2], data, data2, size),
         ReadNode(read, data, p).ok, ReadNode(read, data, p).next - p <= size + 1,
         Same(data, p, ReadNode(read, data, p).next, data2, p2)
  PROVE  Moved(ReadNode(read, data, p), p, ReadNode(read2, data2, p2), p2)
<1> DEFINE name == ReadCString(data, p)
           name2 == ReadCString(data2, p2)
           q == name.next
           q2 == p2 + (q - p)
           properties == ReadCounted(read, "property", data, q)
           properties2 == ReadCounted(read2, "property", data2, q2)
           s == properties.next
           s2 == q2 + (s - q)
           children == ReadCounted(read, "node", data, s)
           children2 == ReadCounted(read2, "node", data2, s2)
           t == children.next
           r == ReadNode(read, data, p)
           r2 == ReadNode(read2, data2, p2)
<1>1. /\ name.ok /\ q \in Nat /\ p < q /\ properties.ok /\ s \in Nat /\ q < s
      /\ children.ok /\ s < t
      /\ r.val = [name |-> name.val, properties |-> properties.val,
                  children |-> children.val]
      /\ r.next = t /\ r.next \in p + 1 .. Len(data)
  <2>1. /\ name.ok /\ name.next \in Nat /\ p < name.next
        /\ properties.ok /\ properties.next \in Nat
        /\ name.next < properties.next
        /\ children.ok /\ properties.next < children.next
        /\ r.val = [name |-> name.val, properties |-> properties.val,
                    children |-> children.val]
        /\ r.val \in [name : Seq(Byte), properties : Seq(T),
                      children : Seq(U)]
        /\ r.next = children.next /\ r.next \in p + 1 .. Len(data)
    BY NodesFit
  <2> HIDE DEF name, properties, children, r
  <2>2. QED BY <2>1
<1>2. r.next - p <= size + 1 /\ Same(data, p, r.next, data2, p2) /\ Len(data) \in Nat
  OBVIOUS
<1>3. LET ps == ReadCounted(read2, "property", data2, name2.next)
          cs == ReadCounted(read2, "node", data2, ps.next)
      IN  r2 = IF ~ name2.ok THEN Nothing ELSE IF ~ ps.ok THEN Nothing
               ELSE IF ~ cs.ok THEN Nothing
               ELSE Got([name |-> name2.val, properties |-> ps.val,
                         children |-> cs.val], cs.next)
  BY NodeIs
<1> HIDE DEF name, q, properties, s, children, t, r
<1>4. /\ t \in Nat /\ q2 \in Nat /\ s2 \in Nat /\ s - q <= size + 1 /\ t - s <= size + 1
      /\ p <= q /\ q <= s /\ s <= t /\ q <= t
  BY <1>1, <1>2
<1>5. Same(data, p, q, data2, p2) /\ Same(data, q, t, data2, q2)
  BY <1>1, <1>2, <1>4, SameInPart
<1>6. Same(data, q, s, data2, q2) /\ Same(data, s, t, data2, s2)
  <2> HIDE DEF q2
  <2>1. QED BY <1>1, <1>4, <1>5, SameInPart
<1>7. name2 = Got(name.val, q2)
  <2>1. ReadCString(data, p).ok /\ Same(data, p, ReadCString(data, p).next, data2, p2)
    BY <1>1, <1>5 DEF name, q
  <2>2. QED BY <2>1, SameCString DEF name, q
<1>8. Moved(properties, q, properties2, q2)
  <2>1. /\ ReadCounted(read, "property", data, q).ok
        /\ ReadCounted(read, "property", data, q).next - q <= size + 1
        /\ Same(data, q, ReadCounted(read, "property", data, q).next, data2, q2)
    BY <1>1, <1>4, <1>6 DEF properties, s
  <2> HIDE DEF q2
  <2>2. QED BY <1>1, <1>4, <2>1, SameCounted DEF properties
<1>9. Moved(children, s, children2, s2)
  <2>1. /\ ReadCounted(read, "node", data, s).ok
        /\ ReadCounted(read, "node", data, s).next - s <= size + 1
        /\ Same(data, s, ReadCounted(read, "node", data, s).next, data2, s2)
    BY <1>1, <1>4, <1>6 DEF children, t
  <2> HIDE DEF s2
  <2>2. QED BY <1>1, <1>4, <2>1, SameCounted DEF children
<1>10. s2 + (t - s) = p2 + (t - p)
  BY <1>1, <1>4, SMTT(30)
<1> HIDE DEF name2, properties2, children2, r2, q2, s2
<1>11. name2.ok /\ name2.val = name.val /\ name2.next = q2
  BY <1>7, Results
<1>12. properties2.ok /\ properties2.val = properties.val /\ properties2.next = s2
  BY <1>8, Results DEF Moved, s, s2
<1>13. children2.ok /\ children2.val = children.val
       /\ children2.next = s2 + (t - s)
  BY <1>9, Results DEF Moved, t
<1>14. r2 = Got([name |-> name.val, properties |-> properties.val,
                 children |-> children.val], children2.next)
  <2>1. properties2 = ReadCounted(read2, "property", data2, name2.next)
    BY <1>11 DEF properties2
  <2>2. children2 = ReadCounted(read2, "node", data2, properties2.next)
    BY <1>12 DEF children2
  <2>3. QED BY <1>3, <1>11, <1>12, <1>13, <2>1, <2>2
<1>15. r2 = Got(r.val, p2 + (r.next - p))
  BY <1>1, <1>10, <1>13, <1>14
<1>16. QED BY <1>15 DEF Moved, r, r2

-----------------------------------------------------------------------------
(* Readers, however deep things nest.                                      *)

(* What a reader reads, kind by kind.                                      *)
LEMMA ReaderIs ==
  ASSUME NEW read, NEW data \in Seq(Byte), NEW p \in Nat
  PROVE  /\ Reader(read)["step"][data][p] = ReadCount(data, p)
         /\ Reader(read)["value"][data][p] = ReadValue(read, data, p)
         /\ Reader(read)["property"][data][p] = ReadProperty(read, data, p)
         /\ Reader(read)["node"][data][p] = ReadNode(read, data, p)
<1>1. \A kind \in Kinds : Reader(read)[kind][data][p] = ReadOne(read, kind, data, p)
  BY DEF Reader
<1>2. /\ Reader(read)["step"][data][p] = ReadOne(read, "step", data, p)
      /\ Reader(read)["value"][data][p] = ReadOne(read, "value", data, p)
      /\ Reader(read)["property"][data][p] = ReadOne(read, "property", data, p)
      /\ Reader(read)["node"][data][p] = ReadOne(read, "node", data, p)
  BY <1>1 DEF Kinds
<1>3. QED BY <1>2 DEF ReadOne

(* What things are, kind by kind.                                          *)
LEMMA ThingIs ==
  ASSUME NEW within
  PROVE  /\ Thing(within)["step"] = Nat
         /\ Thing(within)["value"] =
              [type : Types, data : Seq(Int), items : Seq(within["value"])]
         /\ Thing(within)["property"] =
              [name : Seq(Byte), value : within["value"]]
         /\ Thing(within)["node"] =
              [name : Seq(Byte), properties : Seq(within["property"]),
               children : Seq(within["node"])]
BY DEF Thing, Kinds

(* If what is inside is read, what holds it is.                            *)
LEMMA ReaderFits ==
  ASSUME NEW read, NEW within, NEW data \in Seq(Byte),
         \A kind \in Kinds : Reads(read[kind][data], within[kind], data)
  PROVE  \A kind \in Kinds :
           Reads(Reader(read)[kind][data], Thing(within)[kind], data)
<1>1. Reads(Reader(read)["step"][data], Thing(within)["step"], data)
  <2>1. ASSUME NEW p \in Nat, ReadCount(data, p).ok
        PROVE  ReadCount(data, p).val \in Nat
               /\ ReadCount(data, p).next \in p + 1 .. Len(data)
    <3>1. /\ ReadCount(data, p).val \in 0 .. Power[IntBytes] - 1
          /\ ReadCount(data, p).next \in p + 1 .. Len(data)
      BY <2>1, CountsFit
    <3>2. QED BY <3>1
  <2>2. QED BY <2>1, ReaderIs, ThingIs DEF Reads
<1>2. Reads(Reader(read)["value"][data], Thing(within)["value"], data)
  <2>1. Reads(read["value"][data], within["value"], data)
    BY DEF Kinds
  <2>2. ASSUME NEW p \in Nat, ReadValue(read, data, p).ok
        PROVE  /\ ReadValue(read, data, p).val \in
                    [type : Types, data : Seq(Int), items : Seq(within["value"])]
               /\ ReadValue(read, data, p).next \in p + 1 .. Len(data)
    BY <2>1, <2>2, ValuesFit
  <2> DEFINE V == [type : Types, data : Seq(Int), items : Seq(within["value"])]
             one == Reader(read)["value"][data]
  <2>3. \A p \in Nat : one[p] = ReadValue(read, data, p)
    BY ReaderIs
  <2>4. Thing(within)["value"] = V
    BY ThingIs
  <2>5. \A p \in Nat : ReadValue(read, data, p).ok =>
          /\ ReadValue(read, data, p).val \in V
          /\ ReadValue(read, data, p).next \in p + 1 .. Len(data)
    BY <2>2
  <2> HIDE DEF V, one
  <2>6. Reads(one, V, data)
    BY <2>3, <2>5 DEF Reads
  <2>7. QED BY <2>4, <2>6 DEF one
<1>3. Reads(Reader(read)["property"][data], Thing(within)["property"], data)
  <2>1. Reads(read["value"][data], within["value"], data)
    BY DEF Kinds
  <2>2. ASSUME NEW p \in Nat, ReadProperty(read, data, p).ok
        PROVE  /\ ReadProperty(read, data, p).val \in
                    [name : Seq(Byte), value : within["value"]]
               /\ ReadProperty(read, data, p).next \in p + 1 .. Len(data)
    BY <2>1, <2>2, PropertiesFit
  <2> DEFINE V == [name : Seq(Byte), value : within["value"]]
             one == Reader(read)["property"][data]
  <2>3. \A p \in Nat : one[p] = ReadProperty(read, data, p)
    BY ReaderIs
  <2>4. Thing(within)["property"] = V
    BY ThingIs
  <2>5. \A p \in Nat : ReadProperty(read, data, p).ok =>
          /\ ReadProperty(read, data, p).val \in V
          /\ ReadProperty(read, data, p).next \in p + 1 .. Len(data)
    BY <2>2
  <2> HIDE DEF V, one
  <2>6. Reads(one, V, data)
    BY <2>3, <2>5 DEF Reads
  <2>7. QED BY <2>4, <2>6 DEF one
<1>4. Reads(Reader(read)["node"][data], Thing(within)["node"], data)
  <2>1. /\ Reads(read["property"][data], within["property"], data)
        /\ Reads(read["node"][data], within["node"], data)
    BY DEF Kinds
  <2>2. ASSUME NEW p \in Nat, ReadNode(read, data, p).ok
        PROVE  /\ ReadNode(read, data, p).val \in
                    [name : Seq(Byte), properties : Seq(within["property"]),
                     children : Seq(within["node"])]
               /\ ReadNode(read, data, p).next \in p + 1 .. Len(data)
    BY <2>1, <2>2, NodesFit
  <2> DEFINE V == [name : Seq(Byte), properties : Seq(within["property"]),
                        children : Seq(within["node"])]
             one == Reader(read)["node"][data]
  <2>3. \A p \in Nat : one[p] = ReadNode(read, data, p)
    BY ReaderIs
  <2>4. Thing(within)["node"] = V
    BY ThingIs
  <2>5. \A p \in Nat : ReadNode(read, data, p).ok =>
          /\ ReadNode(read, data, p).val \in V
          /\ ReadNode(read, data, p).next \in p + 1 .. Len(data)
    BY <2>2
  <2> HIDE DEF V, one
  <2>6. Reads(one, V, data)
    BY <2>3, <2>5 DEF Reads
  <2>7. QED BY <2>4, <2>6 DEF one
<1>5. QED BY <1>1, <1>2, <1>3, <1>4 DEF Kinds

(* A reader heeds only the bytes it reads if the readers of what is inside *)
(* do.                                                                     *)
LEMMA ReaderReadsTheSame ==
  ASSUME NEW read, NEW read2, NEW within, NEW data \in Seq(Byte),
         NEW data2 \in Seq(Byte), NEW size \in Nat,
         \A kind \in Kinds : Reads(read[kind][data], within[kind], data),
         \A kind \in Kinds :
           ReadsTheSame(read[kind][data], read2[kind][data2], data, data2, size)
  PROVE  \A kind \in Kinds :
           ReadsTheSame(Reader(read)[kind][data], Reader(read2)[kind][data2],
                        data, data2, size + 1)
<1>1. /\ Reads(read["value"][data], within["value"], data)
      /\ Reads(read["property"][data], within["property"], data)
      /\ Reads(read["node"][data], within["node"], data)
  BY DEF Kinds
<1>2. /\ ReadsTheSame(read["value"][data], read2["value"][data2], data, data2, size)
      /\ ReadsTheSame(read["property"][data], read2["property"][data2], data, data2, size)
      /\ ReadsTheSame(read["node"][data], read2["node"][data2], data, data2, size)
  BY DEF Kinds
<1>3. ReadsTheSame(Reader(read)["step"][data], Reader(read2)["step"][data2],
                   data, data2, size + 1)
  <2>1. ASSUME NEW p \in Nat, NEW p2 \in Nat, ReadCount(data, p).ok,
               Same(data, p, ReadCount(data, p).next, data2, p2)
        PROVE  Moved(ReadCount(data, p), p, ReadCount(data2, p2), p2)
    BY <2>1, SameCount DEF Moved
  <2>2. QED BY <2>1, ReaderIs DEF ReadsTheSame
<1>4. ReadsTheSame(Reader(read)["value"][data], Reader(read2)["value"][data2],
                   data, data2, size + 1)
  <2>1. ASSUME NEW p \in Nat, NEW p2 \in Nat, ReadValue(read, data, p).ok,
               ReadValue(read, data, p).next - p <= size + 1,
               Same(data, p, ReadValue(read, data, p).next, data2, p2)
        PROVE  Moved(ReadValue(read, data, p), p, ReadValue(read2, data2, p2), p2)
    BY <1>1, <1>2, <2>1, SameValue
  <2>2. QED BY <2>1, ReaderIs DEF ReadsTheSame
<1>5. ReadsTheSame(Reader(read)["property"][data], Reader(read2)["property"][data2],
                   data, data2, size + 1)
  <2>1. ASSUME NEW p \in Nat, NEW p2 \in Nat, ReadProperty(read, data, p).ok,
               ReadProperty(read, data, p).next - p <= size + 1,
               Same(data, p, ReadProperty(read, data, p).next, data2, p2)
        PROVE  Moved(ReadProperty(read, data, p), p,
                     ReadProperty(read2, data2, p2), p2)
    BY <1>1, <1>2, <2>1, SameProperty
  <2>2. QED BY <2>1, ReaderIs DEF ReadsTheSame
<1>6. ReadsTheSame(Reader(read)["node"][data], Reader(read2)["node"][data2],
                   data, data2, size + 1)
  <2>1. ASSUME NEW p \in Nat, NEW p2 \in Nat, ReadNode(read, data, p).ok,
               ReadNode(read, data, p).next - p <= size + 1,
               Same(data, p, ReadNode(read, data, p).next, data2, p2)
        PROVE  Moved(ReadNode(read, data, p), p, ReadNode(read2, data2, p2), p2)
    BY <1>1, <1>2, <2>1, SameNode
  <2>2. QED BY <2>1, ReaderIs DEF ReadsTheSame
<1>7. QED BY <1>3, <1>4, <1>5, <1>6 DEF Kinds

(* Whatever is read at a depth is a thing of that depth.                   *)
LEMMA ReadingFits ==
  \A d \in Nat, data \in Seq(Byte), kind \in Kinds :
    Reads(Reading[d][kind][data], Things[d][kind], data)
<1> DEFINE S == {d \in Nat : \A data \in Seq(Byte), kind \in Kinds :
                   Reads(Reading[d][kind][data], Things[d][kind], data)}
<1>1. 0 \in S
  <2>1. ASSUME NEW data \in Seq(Byte), NEW kind \in Kinds
        PROVE  Reads(Reading[0][kind][data], Things[0][kind], data)
    <3>1. \A p \in Nat : ~ Reading[0][kind][data][p].ok
      BY ReadingIs, Results
    <3>2. QED BY <3>1 DEF Reads
  <2>2. QED BY <2>1
<1>2. ASSUME NEW d \in Nat, d \in S PROVE d + 1 \in S
  <2>1. ASSUME NEW data \in Seq(Byte), NEW kind \in Kinds
        PROVE  Reads(Reading[d + 1][kind][data], Things[d + 1][kind], data)
    <3>1. \A k \in Kinds : Reads(Reading[d][k][data], Things[d][k], data)
      BY <1>2
    <3>2. Reads(Reader(Reading[d])[kind][data], Thing(Things[d])[kind], data)
      BY <3>1, ReaderFits
    <3>3. Reading[d + 1] = Reader(Reading[d]) /\ Things[d + 1] = Thing(Things[d])
      BY ReadingIs, ThingsAre
    <3>4. QED BY <3>2, <3>3
  <2>2. QED BY <2>1
<1>3. \A d \in Nat : d \in S
  <2> HIDE DEF S
  <2>1. QED BY <1>1, <1>2, Counting
<1>4. QED BY <1>3

(* What takes n bytes is read the same by whatever reads so deep.          *)
LEMMA ReadingsAgree ==
  \A d \in Nat, size \in Nat, d2 \in Nat, data \in Seq(Byte),
     data2 \in Seq(Byte), kind \in Kinds :
    size <= d2 => ReadsTheSame(Reading[d][kind][data], Reading[d2][kind][data2],
                               data, data2, size)
<1> DEFINE Agree(d) ==
             \A size \in Nat, d2 \in Nat, data \in Seq(Byte), data2 \in Seq(Byte),
                kind \in Kinds :
               size <= d2 => ReadsTheSame(Reading[d][kind][data],
                                 Reading[d2][kind][data2], data, data2, size)
           S == {d \in Nat : Agree(d)}
<1>1. 0 \in S
  <2>1. ASSUME NEW size \in Nat, NEW d2 \in Nat, NEW data \in Seq(Byte),
               NEW data2 \in Seq(Byte), NEW kind \in Kinds
        PROVE  ReadsTheSame(Reading[0][kind][data], Reading[d2][kind][data2],
                            data, data2, size)
    <3>1. \A p \in Nat : ~ Reading[0][kind][data][p].ok
      BY ReadingIs, Results
    <3>2. QED BY <3>1 DEF ReadsTheSame
  <2>2. QED BY <2>1
<1>2. ASSUME NEW d \in Nat, d \in S PROVE d + 1 \in S
  <2>1. ASSUME NEW size \in Nat, NEW d2 \in Nat, NEW data \in Seq(Byte),
               NEW data2 \in Seq(Byte), NEW kind \in Kinds, size <= d2
        PROVE  ReadsTheSame(Reading[d + 1][kind][data], Reading[d2][kind][data2],
                            data, data2, size)
    <3>1. CASE size = 0
      <4>1. Reads(Reading[d + 1][kind][data], Things[d + 1][kind], data)
        <5>1. d + 1 \in Nat
          OBVIOUS
        <5>2. QED BY <5>1, ReadingFits
      <4> DEFINE one == Reading[d + 1][kind][data]
      <4> HIDE DEF one
      <4>2. \A p \in Nat : one[p].ok => ~ (one[p].next - p <= size)
        <5>1. ASSUME NEW p \in Nat, one[p].ok PROVE ~ (one[p].next - p <= size)
          <6>1. one[p].next \in p + 1 .. Len(data) /\ Len(data) \in Nat
            BY <4>1, <5>1 DEF Reads, one
          <6>2. QED BY <6>1, <3>1
        <5>2. QED BY <5>1
      <4>3. ReadsTheSame(one, Reading[d2][kind][data2], data, data2, size)
        BY <4>2 DEF ReadsTheSame
      <4>4. QED BY <4>3 DEF one
    <3>2. CASE size # 0
      <4> DEFINE n == size - 1
                 e == d2 - 1
      <4>1. n \in Nat /\ e \in Nat /\ n <= e /\ size = n + 1 /\ d2 = e + 1
        BY <2>1, <3>2
      <4> HIDE DEF n, e
      <4>2. \A k \in Kinds : Reads(Reading[d][k][data], Things[d][k], data)
        BY ReadingFits
      <4>3. \A k \in Kinds :
              ReadsTheSame(Reading[d][k][data], Reading[e][k][data2], data, data2, n)
        BY <1>2, <4>1
      <4>4. ReadsTheSame(Reader(Reading[d])[kind][data],
                         Reader(Reading[e])[kind][data2], data, data2, n + 1)
        BY <4>1, <4>2, <4>3, ReaderReadsTheSame
      <4>5. Reading[d + 1] = Reader(Reading[d]) /\ Reading[e + 1] = Reader(Reading[e])
        BY <4>1, ReadingIs
      <4>6. QED BY <4>1, <4>4, <4>5
    <3>3. QED BY <3>1, <3>2
  <2>2. QED BY <2>1
<1>3. \A d \in Nat : d \in S
  <2> HIDE DEF S
  <2>1. QED BY <1>1, <1>2, Counting
<1>4. QED BY <1>3

-----------------------------------------------------------------------------
(* Frames.                                                                 *)

(* The first bytes of data2 are data.                                      *)
IsCut(data, data2) ==
  Len(data) <= Len(data2) /\ \A i \in 1 .. Len(data) : data2[i] = data[i]

(* r2 got what r got, and stopped at the same position.                    *)
Kept(r, r2) == r2.ok /\ r2.val = r.val /\ r2.next = r.next

(* What is in the part that was kept is where it was.                      *)
LEMMA SameInCut ==
  ASSUME NEW data \in Seq(Byte), NEW data2 \in Seq(Byte), IsCut(data, data2),
         NEW p \in Nat, NEW r, r.next \in p .. Len(data)
  PROVE  /\ Same(data, p, r.next, data2, p) /\ r.next \in Nat
         /\ p + (r.next - p) = r.next /\ r.next - p <= Len(data2)
<1> DEFINE q == r.next
<1>1. Len(data) \in Nat /\ Len(data2) \in Nat /\ Len(data) <= Len(data2)
  BY DEF IsCut
<1>2. q \in p .. Len(data)
  OBVIOUS
<1> HIDE DEF q
<1>3. q \in Nat /\ p + (q - p) = q /\ q <= Len(data2) /\ q - p <= Len(data2)
  BY <1>1, <1>2
<1>4. \A i \in 1 .. q - p : data2[p + i] = data[p + i]
  <2>1. TAKE i \in 1 .. q - p
  <2>2. p + i \in 1 .. Len(data)
    BY <1>1, <1>2, <1>3
  <2>3. QED BY <2>2 DEF IsCut
<1>5. Same(data, p, q, data2, p)
  BY <1>3, <1>4 DEF Same
<1>6. QED BY <1>3, <1>5 DEF q

(* What is read the same at the same position is kept.                     *)
LEMMA MovedIsKept ==
  ASSUME NEW r, NEW r2, NEW p, Moved(r, p, r2, p), p + (r.next - p) = r.next
  PROVE  Kept(r, r2)
BY Results DEF Moved, Kept

(* A count read from a part is read from the whole.                        *)
LEMMA CutCount ==
  ASSUME NEW data \in Seq(Byte), NEW data2 \in Seq(Byte), IsCut(data, data2),
         NEW p \in Nat, ReadCount(data, p).ok
  PROVE  Kept(ReadCount(data, p), ReadCount(data2, p))
         /\ ReadCount(data, p).next \in Nat
<1> DEFINE r == ReadCount(data, p)
<1>1. r.next \in p + 1 .. Len(data)
  BY CountsFit
<1>2. r.next \in p .. Len(data)
  <2> HIDE DEF r
  <2>1. QED BY <1>1
<1>3. /\ Same(data, p, r.next, data2, p) /\ r.next \in Nat
      /\ p + (r.next - p) = r.next /\ r.next - p <= Len(data2)
  <2> HIDE DEF r
  <2>1. QED BY <1>2, SameInCut
<1>4. Moved(r, p, ReadCount(data2, p), p)
  BY <1>3, SameCount DEF Moved
<1> HIDE DEF r
<1>5. QED BY <1>3, <1>4, MovedIsKept DEF r

(* So is a string.                                                         *)
LEMMA CutString ==
  ASSUME NEW data \in Seq(Byte), NEW data2 \in Seq(Byte), IsCut(data, data2),
         NEW p \in Nat, ReadCString(data, p).ok
  PROVE  Kept(ReadCString(data, p), ReadCString(data2, p))
         /\ ReadCString(data, p).next \in Nat
<1> DEFINE r == ReadCString(data, p)
<1>1. r.next \in p + 1 .. Len(data)
  BY CStringsFit
<1>2. r.next \in p .. Len(data)
  <2> HIDE DEF r
  <2>1. QED BY <1>1
<1>3. /\ Same(data, p, r.next, data2, p) /\ r.next \in Nat
      /\ p + (r.next - p) = r.next /\ r.next - p <= Len(data2)
  <2> HIDE DEF r
  <2>1. QED BY <1>2, SameInCut
<1>4. Moved(r, p, ReadCString(data2, p), p)
  BY <1>3, SameCString DEF Moved
<1> HIDE DEF r
<1>5. QED BY <1>3, <1>4, MovedIsKept DEF r

(* The steps of a path.                                                    *)
Steps == 0 .. Power[IntBytes] - 1

(* The steps of a path are counts.                                         *)
LEMMA StepsRead ==
  ASSUME NEW data \in Seq(Byte), NEW data2 \in Seq(Byte), NEW size \in Nat
  PROVE  /\ Reads(Reading[1]["step"][data], Steps, data)
         /\ ReadsTheSame(Reading[1]["step"][data], Reading[1]["step"][data2],
                         data, data2, size)
<1>1. \A bytes \in Seq(Byte), p \in Nat :
        Reading[1]["step"][bytes][p] = ReadCount(bytes, p)
  <2>1. Reading[0 + 1] = Reader(Reading[0])
    BY ReadingIs
  <2>2. Reading[1] = Reader(Reading[0])
    BY <2>1
  <2>3. QED BY <2>2, ReaderIs
<1>2. \A p \in Nat : ReadCount(data, p).ok =>
        /\ ReadCount(data, p).val \in Steps
        /\ ReadCount(data, p).next \in p + 1 .. Len(data)
  <2>1. ASSUME NEW p \in Nat, ReadCount(data, p).ok
        PROVE  /\ ReadCount(data, p).val \in 0 .. Power[IntBytes] - 1
               /\ ReadCount(data, p).next \in p + 1 .. Len(data)
    BY <2>1, CountsFit
  <2>2. QED BY <2>1 DEF Steps
<1>3. ASSUME NEW p \in Nat, NEW p2 \in Nat, ReadCount(data, p).ok,
             Same(data, p, ReadCount(data, p).next, data2, p2)
      PROVE  Moved(ReadCount(data, p), p, ReadCount(data2, p2), p2)
  BY <1>3, SameCount DEF Moved
<1> DEFINE one == Reading[1]["step"][data]
           one2 == Reading[1]["step"][data2]
<1>4. /\ \A p \in Nat : one[p] = ReadCount(data, p)
      /\ \A p \in Nat : one2[p] = ReadCount(data2, p)
  BY <1>1
<1> HIDE DEF one, one2
<1>5. Reads(one, Steps, data)
  BY <1>2, <1>4 DEF Reads
<1>6. ReadsTheSame(one, one2, data, data2, size)
  BY <1>3, <1>4 DEF ReadsTheSame
<1>7. QED BY <1>5, <1>6 DEF one, one2

(* A path read from a part is read from the whole.                         *)
LEMMA CutPath ==
  ASSUME NEW data \in Seq(Byte), NEW data2 \in Seq(Byte), IsCut(data, data2),
         NEW p \in Nat, ReadPath(data, p).ok
  PROVE  /\ Kept(ReadPath(data, p), ReadPath(data2, p))
         /\ ReadPath(data, p).next \in Nat
         /\ ReadPath(data, p).val \in Seq(Steps)
<1> DEFINE r == ReadCounted(Reading[1], "step", data, p)
           r2 == ReadCounted(Reading[1], "step", data2, p)
<1>1. r = ReadPath(data, p) /\ r2 = ReadPath(data2, p) /\ r.ok
  BY DEF ReadPath
<1>2. Len(data2) \in Nat
  OBVIOUS
<1>3. /\ Reads(Reading[1]["step"][data], Steps, data)
      /\ ReadsTheSame(Reading[1]["step"][data], Reading[1]["step"][data2],
                      data, data2, Len(data2))
  BY <1>2, StepsRead
<1>4. r.val \in Seq(Steps) /\ r.next \in p + 1 .. Len(data)
  BY <1>1, <1>3, CountedFit
<1>5. r.next \in p .. Len(data)
  <2> HIDE DEF r
  <2>1. QED BY <1>4
<1>6. /\ Same(data, p, r.next, data2, p) /\ r.next \in Nat
      /\ p + (r.next - p) = r.next /\ r.next - p <= Len(data2)
  <2> HIDE DEF r
  <2>1. QED BY <1>5, SameInCut
<1>7. Moved(r, p, r2, p)
  <2>1. r.next - p <= Len(data2) + 1
    <3> HIDE DEF r
    <3>1. QED BY <1>2, <1>6
  <2>2. QED BY <1>1, <1>2, <1>3, <1>6, <2>1, SameCounted
<1> HIDE DEF r, r2
<1>8. Kept(r, r2)
  BY <1>6, <1>7, MovedIsKept
<1>9. QED BY <1>1, <1>4, <1>6, <1>8

(* So is a property or a node, however deep the whole may nest.            *)
LEMMA CutThing ==
  ASSUME NEW data \in Seq(Byte), NEW data2 \in Seq(Byte), IsCut(data, data2),
         NEW p \in Nat, NEW kind \in Kinds, Reading[Len(data)][kind][data][p].ok
  PROVE  /\ Kept(Reading[Len(data)][kind][data][p],
                 Reading[Len(data2)][kind][data2][p])
         /\ Reading[Len(data)][kind][data][p].next \in Nat
<1> DEFINE d == Len(data)
           d2 == Len(data2)
           one == Reading[d][kind][data]
           one2 == Reading[d2][kind][data2]
           r == one[p]
<1>1. d \in Nat /\ d2 \in Nat /\ r.ok
  OBVIOUS
<1>2. Reads(one, Things[d][kind], data)
  <2> HIDE DEF d
  <2>1. QED BY <1>1, ReadingFits
<1>3. ReadsTheSame(one, one2, data, data2, d2)
  <2> HIDE DEF d, d2
  <2>1. d2 <= d2
    BY <1>1
  <2>2. QED BY <1>1, <2>1, ReadingsAgree
<1> HIDE DEF one, one2
<1>4. r.next \in p + 1 .. Len(data)
  BY <1>1, <1>2 DEF Reads
<1>5. r.next \in p .. Len(data)
  <2> HIDE DEF r
  <2>1. QED BY <1>4
<1>6. /\ Same(data, p, r.next, data2, p) /\ r.next \in Nat
      /\ p + (r.next - p) = r.next /\ r.next - p <= Len(data2)
  <2> HIDE DEF r
  <2>1. QED BY <1>5, SameInCut
<1>7. Moved(r, p, one2[p], p)
  <2> HIDE DEF d, d2
  <2>1. r.next - p <= d2
    BY <1>6 DEF d2
  <2>2. QED BY <1>1, <1>3, <1>6, <2>1 DEF ReadsTheSame
<1>8. Kept(r, one2[p])
  <2> HIDE DEF r
  <2>1. QED BY <1>6, <1>7, MovedIsKept
<1>9. QED BY <1>6, <1>8 DEF one, one2

(* A frame that was read from the first bytes is read from all of them,    *)
(* and the steps of its path are small.                                    *)
Frame(data, data2, kind, p) ==
  ReadFrame(kind, data, p).ok =>
    /\ Kept(ReadFrame(kind, data, p), ReadFrame(kind, data2, p))
    /\ \/ ReadFrame(kind, data, p).val.type = "fullSync"
       \/ ReadFrame(kind, data, p).val.path \in Seq(Steps)
    /\ kind # 1 => ReadFrame(kind, data, p).val.type # "propertyChanged"
    /\ kind # 2 => ReadFrame(kind, data, p).val.type # "fullSync"

(* A property that changed: a path, then the property.                     *)
LEMMA PropertyChanges ==
  ASSUME NEW data \in Seq(Byte), NEW data2 \in Seq(Byte), IsCut(data, data2),
         NEW p \in Nat
  PROVE  Frame(data, data2, 1, p)
<1> DEFINE path == ReadPath(data, p)
           property == Reading[Len(data)]["property"][data][path.next]
           path2 == ReadPath(data2, p)
           property2 == Reading[Len(data2)]["property"][data2][path2.next]
           r == ReadFrame(1, data, p)
           r2 == ReadFrame(1, data2, p)
<1>1. r = IF ~ path.ok THEN Nothing ELSE 
     IF ~ property.ok THEN Nothing ELSE 
     Got([type |-> "propertyChanged", path |-> path.val,
         property |-> property.val],
         property.next)
  BY DEF ReadFrame, Then
<1>2. r2 = IF ~ path2.ok THEN Nothing ELSE 
     IF ~ property2.ok THEN Nothing ELSE 
     Got([type |-> "propertyChanged", path |-> path2.val,
         property |-> property2.val],
         property2.next)
  BY DEF ReadFrame, Then
<1>3. SUFFICES ASSUME r.ok
               PROVE  /\ Kept(r, r2)
                      /\ r.val.type = "fullSync" \/ r.val.path \in Seq(Steps)
                      /\ 1 # 1 => r.val.type # "propertyChanged"
                      /\ 1 # 2 => r.val.type # "fullSync"
  BY DEF Frame
<1>4. path.ok /\ property.ok
  <2>1. r.ok
    BY <1>3
  <2> HIDE DEF r, r2, path, property
  <2>2. ~ (path.ok /\ property.ok) => r = Nothing
    BY <1>1
  <2>3. QED BY <2>1, <2>2, Results
<1>5. Kept(path, path2) /\ path.next \in Nat /\ path.val \in Seq(Steps)
  <2>1. ReadPath(data, p).ok
    BY <1>4
  <2>2. QED BY <2>1, CutPath
<1>6. Kept(property, property2) /\ property.next \in Nat
  <2>1. path2.next = path.next /\ path.next \in Nat
    BY <1>5 DEF Kept
  <2>2. Reading[Len(data)]["property"][data][path.next].ok
    BY <1>4
  <2> HIDE DEF path, path2
  <2>3. "property" \in Kinds
    BY DEF Kinds
  <2>4. Kept(Reading[Len(data)]["property"][data][path.next],
             Reading[Len(data2)]["property"][data2][path.next])
        /\ Reading[Len(data)]["property"][data][path.next].next \in Nat
    BY <2>1, <2>2, <2>3, CutThing
  <2>5. QED BY <2>1, <2>4
<1> HIDE DEF path, property, path2, property2, r, r2
<1>7. r = Got([type |-> "propertyChanged", path |-> path.val,
          property |-> property.val],
            property.next)
  BY <1>1, <1>4
<1>8. r2 = Got([type |-> "propertyChanged", path |-> path.val,
           property |-> property.val],
             property.next)
  BY <1>2, <1>5, <1>6 DEF Kept
<1>9. r.val = [type |-> "propertyChanged", path |-> path.val,
                 property |-> property.val]
  BY <1>7, Results
<1>10. Kept(r, r2)
  BY <1>7, <1>8, Results DEF Kept
<1>11. r.val.type = "fullSync" \/ r.val.path \in Seq(Steps)
  BY <1>5, <1>9
<1>12.
      /\ 1 # 1 => r.val.type # "propertyChanged"
      /\ 1 # 2 => r.val.type # "fullSync"
  BY <1>9
<1>13. QED BY <1>10, <1>11, <1>12

(* A full sync: the root.                                                  *)
LEMMA FullSyncs ==
  ASSUME NEW data \in Seq(Byte), NEW data2 \in Seq(Byte), IsCut(data, data2),
         NEW p \in Nat
  PROVE  Frame(data, data2, 2, p)
<1> DEFINE root == Reading[Len(data)]["node"][data][p]
           root2 == Reading[Len(data2)]["node"][data2][p]
           r == ReadFrame(2, data, p)
           r2 == ReadFrame(2, data2, p)
<1>1. r = IF ~ root.ok THEN Nothing ELSE 
     Got([type |-> "fullSync", root |-> root.val],
         root.next)
  BY DEF ReadFrame, Then
<1>2. r2 = IF ~ root2.ok THEN Nothing ELSE 
     Got([type |-> "fullSync", root |-> root2.val],
         root2.next)
  BY DEF ReadFrame, Then
<1>3. SUFFICES ASSUME r.ok
               PROVE  /\ Kept(r, r2)
                      /\ r.val.type = "fullSync" \/ r.val.path \in Seq(Steps)
                      /\ 2 # 1 => r.val.type # "propertyChanged"
                      /\ 2 # 2 => r.val.type # "fullSync"
  BY DEF Frame
<1>4. root.ok
  <2>1. r.ok
    BY <1>3
  <2> HIDE DEF r, r2, root
  <2>2. ~ (root.ok) => r = Nothing
    BY <1>1
  <2>3. QED BY <2>1, <2>2, Results
<1>5. Kept(root, root2) /\ root.next \in Nat
  <2>1. "node" \in Kinds
    BY DEF Kinds
  <2>2. QED BY <1>4, <2>1, CutThing
<1> HIDE DEF root, root2, r, r2
<1>6. r = Got([type |-> "fullSync", root |-> root.val],
            root.next)
  BY <1>1, <1>4
<1>7. r2 = Got([type |-> "fullSync", root |-> root.val],
             root.next)
  BY <1>2, <1>5 DEF Kept
<1>8. r.val = [type |-> "fullSync", root |-> root.val]
  BY <1>6, Results
<1>9. Kept(r, r2)
  BY <1>6, <1>7, Results DEF Kept
<1>10. r.val.type = "fullSync" \/ r.val.path \in Seq(Steps)
  BY <1>5, <1>8
<1>11.
      /\ 2 # 1 => r.val.type # "propertyChanged"
      /\ 2 # 2 => r.val.type # "fullSync"
  BY <1>8
<1>12. QED BY <1>9, <1>10, <1>11

(* A child that was added: a path, an index, the subtree.                  *)
LEMMA AddedChildren ==
  ASSUME NEW data \in Seq(Byte), NEW data2 \in Seq(Byte), IsCut(data, data2),
         NEW p \in Nat
  PROVE  Frame(data, data2, 3, p)
<1> DEFINE path == ReadPath(data, p)
           index == ReadCount(data, path.next)
           subtree == Reading[Len(data)]["node"][data][index.next]
           path2 == ReadPath(data2, p)
           index2 == ReadCount(data2, path2.next)
           subtree2 == Reading[Len(data2)]["node"][data2][index2.next]
           r == ReadFrame(3, data, p)
           r2 == ReadFrame(3, data2, p)
<1>1. r = IF ~ path.ok THEN Nothing ELSE 
     IF ~ index.ok THEN Nothing ELSE IF ~ subtree.ok THEN Nothing ELSE 
     Got([type |-> "childAdded", path |-> path.val, index |-> index.val,
         subtree |-> subtree.val],
         subtree.next)
  BY DEF ReadFrame, Then
<1>2. r2 = IF ~ path2.ok THEN Nothing ELSE 
     IF ~ index2.ok THEN Nothing ELSE IF ~ subtree2.ok THEN Nothing ELSE 
     Got([type |-> "childAdded", path |-> path2.val, index |-> index2.val,
         subtree |-> subtree2.val],
         subtree2.next)
  BY DEF ReadFrame, Then
<1>3. SUFFICES ASSUME r.ok
               PROVE  /\ Kept(r, r2)
                      /\ r.val.type = "fullSync" \/ r.val.path \in Seq(Steps)
                      /\ 3 # 1 => r.val.type # "propertyChanged"
                      /\ 3 # 2 => r.val.type # "fullSync"
  BY DEF Frame
<1>4. path.ok /\ index.ok /\ subtree.ok
  <2>1. r.ok
    BY <1>3
  <2> HIDE DEF r, r2, path, index, subtree
  <2>2. ~ (path.ok /\ index.ok /\ subtree.ok) => r = Nothing
    BY <1>1
  <2>3. QED BY <2>1, <2>2, Results
<1>5. Kept(path, path2) /\ path.next \in Nat /\ path.val \in Seq(Steps)
  <2>1. ReadPath(data, p).ok
    BY <1>4
  <2>2. QED BY <2>1, CutPath
<1>6. Kept(index, index2) /\ index.next \in Nat
  <2>1. path2.next = path.next /\ path.next \in Nat
    BY <1>5 DEF Kept
  <2>2. ReadCount(data, path.next).ok
    BY <1>4
  <2> HIDE DEF path, path2
  <2>3. Kept(ReadCount(data, path.next), ReadCount(data2, path.next))
        /\ ReadCount(data, path.next).next \in Nat
    BY <2>1, <2>2, CutCount
  <2>4. QED BY <2>1, <2>3
<1>7. Kept(subtree, subtree2) /\ subtree.next \in Nat
  <2>1. index2.next = index.next /\ index.next \in Nat
    BY <1>6 DEF Kept
  <2>2. Reading[Len(data)]["node"][data][index.next].ok
    BY <1>4
  <2> HIDE DEF index, index2
  <2>3. "node" \in Kinds
    BY DEF Kinds
  <2>4. Kept(Reading[Len(data)]["node"][data][index.next],
             Reading[Len(data2)]["node"][data2][index.next])
        /\ Reading[Len(data)]["node"][data][index.next].next \in Nat
    BY <2>1, <2>2, <2>3, CutThing
  <2>5. QED BY <2>1, <2>4
<1> HIDE DEF path, index, subtree, path2, index2, subtree2, r, r2
<1>8. r = Got([type |-> "childAdded", path |-> path.val, index |-> index.val,
          subtree |-> subtree.val],
            subtree.next)
  BY <1>1, <1>4
<1>9. r2 = Got([type |-> "childAdded", path |-> path.val, index |-> index.val,
           subtree |-> subtree.val],
             subtree.next)
  BY <1>2, <1>5, <1>6, <1>7 DEF Kept
<1>10. r.val = [type |-> "childAdded", path |-> path.val, index |-> index.val,
                 subtree |-> subtree.val]
  BY <1>8, Results
<1>11. Kept(r, r2)
  BY <1>8, <1>9, Results DEF Kept
<1>12. r.val.type = "fullSync" \/ r.val.path \in Seq(Steps)
  BY <1>5, <1>10
<1>13.
      /\ 3 # 1 => r.val.type # "propertyChanged"
      /\ 3 # 2 => r.val.type # "fullSync"
  BY <1>10
<1>14. QED BY <1>11, <1>12, <1>13

(* A child that was removed: a path and an index.                          *)
LEMMA RemovedChildren ==
  ASSUME NEW data \in Seq(Byte), NEW data2 \in Seq(Byte), IsCut(data, data2),
         NEW p \in Nat
  PROVE  Frame(data, data2, 4, p)
<1> DEFINE path == ReadPath(data, p)
           old == ReadCount(data, path.next)
           path2 == ReadPath(data2, p)
           old2 == ReadCount(data2, path2.next)
           r == ReadFrame(4, data, p)
           r2 == ReadFrame(4, data2, p)
<1>1. r = IF ~ path.ok THEN Nothing ELSE 
     IF ~ old.ok THEN Nothing ELSE 
     Got([type |-> "childRemoved", path |-> path.val, old |-> old.val],
         old.next)
  BY DEF ReadFrame, Then
<1>2. r2 = IF ~ path2.ok THEN Nothing ELSE 
     IF ~ old2.ok THEN Nothing ELSE 
     Got([type |-> "childRemoved", path |-> path2.val, old |-> old2.val],
         old2.next)
  BY DEF ReadFrame, Then
<1>3. SUFFICES ASSUME r.ok
               PROVE  /\ Kept(r, r2)
                      /\ r.val.type = "fullSync" \/ r.val.path \in Seq(Steps)
                      /\ 4 # 1 => r.val.type # "propertyChanged"
                      /\ 4 # 2 => r.val.type # "fullSync"
  BY DEF Frame
<1>4. path.ok /\ old.ok
  <2>1. r.ok
    BY <1>3
  <2> HIDE DEF r, r2, path, old
  <2>2. ~ (path.ok /\ old.ok) => r = Nothing
    BY <1>1
  <2>3. QED BY <2>1, <2>2, Results
<1>5. Kept(path, path2) /\ path.next \in Nat /\ path.val \in Seq(Steps)
  <2>1. ReadPath(data, p).ok
    BY <1>4
  <2>2. QED BY <2>1, CutPath
<1>6. Kept(old, old2) /\ old.next \in Nat
  <2>1. path2.next = path.next /\ path.next \in Nat
    BY <1>5 DEF Kept
  <2>2. ReadCount(data, path.next).ok
    BY <1>4
  <2> HIDE DEF path, path2
  <2>3. Kept(ReadCount(data, path.next), ReadCount(data2, path.next))
        /\ ReadCount(data, path.next).next \in Nat
    BY <2>1, <2>2, CutCount
  <2>4. QED BY <2>1, <2>3
<1> HIDE DEF path, old, path2, old2, r, r2
<1>7. r = Got([type |-> "childRemoved", path |-> path.val, old |-> old.val],
            old.next)
  BY <1>1, <1>4
<1>8. r2 = Got([type |-> "childRemoved", path |-> path.val, old |-> old.val],
             old.next)
  BY <1>2, <1>5, <1>6 DEF Kept
<1>9. r.val = [type |-> "childRemoved", path |-> path.val, old |-> old.val]
  BY <1>7, Results
<1>10. Kept(r, r2)
  BY <1>7, <1>8, Results DEF Kept
<1>11. r.val.type = "fullSync" \/ r.val.path \in Seq(Steps)
  BY <1>5, <1>9
<1>12.
      /\ 4 # 1 => r.val.type # "propertyChanged"
      /\ 4 # 2 => r.val.type # "fullSync"
  BY <1>9
<1>13. QED BY <1>10, <1>11, <1>12

(* A child that moved: a path and two indices.                             *)
LEMMA MovedChildren ==
  ASSUME NEW data \in Seq(Byte), NEW data2 \in Seq(Byte), IsCut(data, data2),
         NEW p \in Nat
  PROVE  Frame(data, data2, 5, p)
<1> DEFINE path == ReadPath(data, p)
           old == ReadCount(data, path.next)
           new == ReadCount(data, old.next)
           path2 == ReadPath(data2, p)
           old2 == ReadCount(data2, path2.next)
           new2 == ReadCount(data2, old2.next)
           r == ReadFrame(5, data, p)
           r2 == ReadFrame(5, data2, p)
<1>1. r = IF ~ path.ok THEN Nothing ELSE 
     IF ~ old.ok THEN Nothing ELSE IF ~ new.ok THEN Nothing ELSE 
     Got([type |-> "childMoved", path |-> path.val, old |-> old.val,
         new |-> new.val],
         new.next)
  BY DEF ReadFrame, Then
<1>2. r2 = IF ~ path2.ok THEN Nothing ELSE 
     IF ~ old2.ok THEN Nothing ELSE IF ~ new2.ok THEN Nothing ELSE 
     Got([type |-> "childMoved", path |-> path2.val, old |-> old2.val,
         new |-> new2.val],
         new2.next)
  BY DEF ReadFrame, Then
<1>3. SUFFICES ASSUME r.ok
               PROVE  /\ Kept(r, r2)
                      /\ r.val.type = "fullSync" \/ r.val.path \in Seq(Steps)
                      /\ 5 # 1 => r.val.type # "propertyChanged"
                      /\ 5 # 2 => r.val.type # "fullSync"
  BY DEF Frame
<1>4. path.ok /\ old.ok /\ new.ok
  <2>1. r.ok
    BY <1>3
  <2> HIDE DEF r, r2, path, old, new
  <2>2. ~ (path.ok /\ old.ok /\ new.ok) => r = Nothing
    BY <1>1
  <2>3. QED BY <2>1, <2>2, Results
<1>5. Kept(path, path2) /\ path.next \in Nat /\ path.val \in Seq(Steps)
  <2>1. ReadPath(data, p).ok
    BY <1>4
  <2>2. QED BY <2>1, CutPath
<1>6. Kept(old, old2) /\ old.next \in Nat
  <2>1. path2.next = path.next /\ path.next \in Nat
    BY <1>5 DEF Kept
  <2>2. ReadCount(data, path.next).ok
    BY <1>4
  <2> HIDE DEF path, path2
  <2>3. Kept(ReadCount(data, path.next), ReadCount(data2, path.next))
        /\ ReadCount(data, path.next).next \in Nat
    BY <2>1, <2>2, CutCount
  <2>4. QED BY <2>1, <2>3
<1>7. Kept(new, new2) /\ new.next \in Nat
  <2>1. old2.next = old.next /\ old.next \in Nat
    BY <1>6 DEF Kept
  <2>2. ReadCount(data, old.next).ok
    BY <1>4
  <2> HIDE DEF old, old2
  <2>3. Kept(ReadCount(data, old.next), ReadCount(data2, old.next))
        /\ ReadCount(data, old.next).next \in Nat
    BY <2>1, <2>2, CutCount
  <2>4. QED BY <2>1, <2>3
<1> HIDE DEF path, old, new, path2, old2, new2, r, r2
<1>8. r = Got([type |-> "childMoved", path |-> path.val, old |-> old.val,
          new |-> new.val],
            new.next)
  BY <1>1, <1>4
<1>9. r2 = Got([type |-> "childMoved", path |-> path.val, old |-> old.val,
           new |-> new.val],
             new.next)
  BY <1>2, <1>5, <1>6, <1>7 DEF Kept
<1>10. r.val = [type |-> "childMoved", path |-> path.val, old |-> old.val,
                 new |-> new.val]
  BY <1>8, Results
<1>11. Kept(r, r2)
  BY <1>8, <1>9, Results DEF Kept
<1>12. r.val.type = "fullSync" \/ r.val.path \in Seq(Steps)
  BY <1>5, <1>10
<1>13.
      /\ 5 # 1 => r.val.type # "propertyChanged"
      /\ 5 # 2 => r.val.type # "fullSync"
  BY <1>10
<1>14. QED BY <1>11, <1>12, <1>13

(* A property that was removed: a path and a name.                         *)
LEMMA RemovedProperties ==
  ASSUME NEW data \in Seq(Byte), NEW data2 \in Seq(Byte), IsCut(data, data2),
         NEW p \in Nat
  PROVE  Frame(data, data2, 6, p)
<1> DEFINE path == ReadPath(data, p)
           name == ReadCString(data, path.next)
           path2 == ReadPath(data2, p)
           name2 == ReadCString(data2, path2.next)
           r == ReadFrame(6, data, p)
           r2 == ReadFrame(6, data2, p)
<1>1. r = IF ~ path.ok THEN Nothing ELSE 
     IF ~ name.ok THEN Nothing ELSE 
     Got([type |-> "propertyRemoved", path |-> path.val, name |-> name.val],
         name.next)
  BY DEF ReadFrame, Then
<1>2. r2 = IF ~ path2.ok THEN Nothing ELSE 
     IF ~ name2.ok THEN Nothing ELSE 
     Got([type |-> "propertyRemoved", path |-> path2.val, name |-> name2.val],
         name2.next)
  BY DEF ReadFrame, Then
<1>3. SUFFICES ASSUME r.ok
               PROVE  /\ Kept(r, r2)
                      /\ r.val.type = "fullSync" \/ r.val.path \in Seq(Steps)
                      /\ 6 # 1 => r.val.type # "propertyChanged"
                      /\ 6 # 2 => r.val.type # "fullSync"
  BY DEF Frame
<1>4. path.ok /\ name.ok
  <2>1. r.ok
    BY <1>3
  <2> HIDE DEF r, r2, path, name
  <2>2. ~ (path.ok /\ name.ok) => r = Nothing
    BY <1>1
  <2>3. QED BY <2>1, <2>2, Results
<1>5. Kept(path, path2) /\ path.next \in Nat /\ path.val \in Seq(Steps)
  <2>1. ReadPath(data, p).ok
    BY <1>4
  <2>2. QED BY <2>1, CutPath
<1>6. Kept(name, name2) /\ name.next \in Nat
  <2>1. path2.next = path.next /\ path.next \in Nat
    BY <1>5 DEF Kept
  <2>2. ReadCString(data, path.next).ok
    BY <1>4
  <2> HIDE DEF path, path2
  <2>3. Kept(ReadCString(data, path.next), ReadCString(data2, path.next))
        /\ ReadCString(data, path.next).next \in Nat
    BY <2>1, <2>2, CutString
  <2>4. QED BY <2>1, <2>3
<1> HIDE DEF path, name, path2, name2, r, r2
<1>7. r = Got([type |-> "propertyRemoved", path |-> path.val, name |-> name.val],
            name.next)
  BY <1>1, <1>4
<1>8. r2 = Got([type |-> "propertyRemoved", path |-> path.val, name |-> name.val],
             name.next)
  BY <1>2, <1>5, <1>6 DEF Kept
<1>9. r.val = [type |-> "propertyRemoved", path |-> path.val, name |-> name.val]
  BY <1>7, Results
<1>10. Kept(r, r2)
  BY <1>7, <1>8, Results DEF Kept
<1>11. r.val.type = "fullSync" \/ r.val.path \in Seq(Steps)
  BY <1>5, <1>9
<1>12.
      /\ 6 # 1 => r.val.type # "propertyChanged"
      /\ 6 # 2 => r.val.type # "fullSync"
  BY <1>9
<1>13. QED BY <1>10, <1>11, <1>12

(* Whatever kind of change.                                                *)
LEMMA AnyFrame ==
  ASSUME NEW data \in Seq(Byte), NEW data2 \in Seq(Byte), IsCut(data, data2),
         NEW p \in Nat, NEW kind \in 0 .. 255
  PROVE  Frame(data, data2, kind, p)
<1>1. CASE kind \in {1, 2, 3, 4, 5, 6}
  BY <1>1, PropertyChanges, FullSyncs, AddedChildren, RemovedChildren,
     MovedChildren, RemovedProperties
<1>2. CASE kind \notin {1, 2, 3, 4, 5, 6}
  <2>1. ReadFrame(kind, data, p) = Nothing
    BY <1>2 DEF ReadFrame
  <2>2. QED BY <2>1, Results DEF Frame
<1>3. QED BY <1>1, <1>2

(* A change is the frame behind its first byte.                            *)
LEMMA ChangeIs ==
  ASSUME NEW data \in Seq(Byte)
  PROVE  /\ ReadChange(data) = IF 1 <= Len(data) THEN ReadFrame(data[1], data, 1)
                               ELSE Nothing
         /\ 1 <= Len(data) => data[1] \in 0 .. 255
<1> DEFINE one == TakeBytes(data, 0, 1)
<1>1. ReadChange(data) =
        IF one.ok THEN ReadFrame(one.val[1], data, one.next) ELSE Nothing
  BY DEF ReadChange, Then
<1>2. 0 \in Nat /\ 0 + 1 = 1
  OBVIOUS
<1>3. /\ one.ok <=> 0 + 1 <= Len(data)
      /\ one.ok => /\ one.next = 0 + 1 /\ one.val[1] = data[0 + 1]
                   /\ data[0 + 1] \in 0 .. 255
  BY <1>2, OneByteTaken
<1> HIDE DEF one
<1>4. QED BY <1>1, <1>2, <1>3

(* A frame read from a part is read from the whole.                        *)
LEMMA CutChange ==
  ASSUME NEW data \in Seq(Byte), NEW data2 \in Seq(Byte), IsCut(data, data2),
         ReadChange(data).ok
  PROVE  /\ Kept(ReadChange(data), ReadChange(data2))
         /\ \/ ReadChange(data).val.type = "fullSync"
            \/ ReadChange(data).val.path \in Seq(Steps)
<1>1. 1 <= Len(data)
  <2>1. ~ (1 <= Len(data)) => ReadChange(data) = Nothing
    BY ChangeIs
  <2>2. QED BY <2>1, Results
<1>2. 1 <= Len(data2) /\ data2[1] = data[1]
  <2>1. Len(data) \in Nat /\ Len(data2) \in Nat /\ 1 \in 1 .. Len(data)
    BY <1>1
  <2>2. QED BY <1>1, <2>1 DEF IsCut
<1> DEFINE kind == data[1]
<1>3. /\ ReadChange(data) = ReadFrame(kind, data, 1)
      /\ ReadChange(data2) = ReadFrame(kind, data2, 1)
      /\ kind \in 0 .. 255
  BY <1>1, <1>2, ChangeIs
<1> HIDE DEF kind
<1>4. Frame(data, data2, kind, 1)
  <2>1. 1 \in Nat
    OBVIOUS
  <2>2. QED BY <1>3, <2>1, AnyFrame
<1>5. QED BY <1>3, <1>4 DEF Frame

(* A decoded frame is the change that ends with the data.                  *)
LEMMA DecodeIs ==
  ASSUME NEW data
  PROVE  LET change == ReadChange(data)
         IN  /\ Decode(data) # {} => change.ok /\ change.next = Len(data)
             /\ \A frame \in Decode(data) : frame = change.val
             /\ change.ok /\ change.next = Len(data) => Decode(data) = {change.val}
BY DEF Decode

(* The bytes are bytes, whatever they begin with and however many follow.  *)
LEMMA AreBytes == Spec => [](payload \in Seq(Byte) /\ more \in 0 .. MaxMore)
<1> DEFINE Inv == payload \in Seq(Byte) /\ more \in 0 .. MaxMore
<1>1. Init => Inv
  BY BytesAssumption DEF Init
<1>2. Inv /\ [Next]_vars => Inv'
  <2>1. ASSUME Inv, Next PROVE Inv'
    <3>1. PICK byte \in Alphabet : payload' = Append(payload, byte)
      BY <2>1 DEF Next
    <3>2. byte \in Byte
      BY BytesAssumption
    <3>3. payload' \in Seq(Byte)
      BY <2>1, <3>1, <3>2
    <3>4. more' \in 0 .. MaxMore
      BY <2>1, BytesAssumption DEF Next
    <3>5. QED BY <3>3, <3>4
  <2>2. CASE UNCHANGED vars
    BY <2>2 DEF vars
  <2>3. QED BY <2>1, <2>2
<1>3. QED BY <1>1, <1>2, PTL DEF Spec

(* What a decoded frame says of a path are indices the wire can carry.     *)
THEOREM CodecTypes == Spec => []TypeOK
<1>1. payload \in Seq(Byte) /\ more \in 0 .. MaxMore => TypeOK
  <2>1. SUFFICES ASSUME payload \in Seq(Byte), NEW frame \in Decode(payload),
                        frame.type # "fullSync"
                 PROVE  frame.path \in Seq(0 .. Power[IntBytes] - 1)
    BY DEF TypeOK
  <2> DEFINE change == ReadChange(payload)
  <2>2. change.ok /\ frame = change.val
    BY DecodeIs
  <2>3. IsCut(payload, payload)
    <3>1. Len(payload) \in Nat
      BY <2>1
    <3>2. QED BY <3>1 DEF IsCut
  <2>4. change.val.type = "fullSync" \/ change.val.path \in Seq(Steps)
    BY <2>1, <2>2, <2>3, CutChange
  <2> HIDE DEF change
  <2>5. QED BY <2>1, <2>2, <2>4 DEF Steps
<1>2. QED BY <1>1, AreBytes, PTL

(* A cut frame is no frame, nor is one with bytes to spare.                *)
THEOREM FramesDelimitThemselves == Spec => []FramesAreSelfDelimiting
<1>1. payload \in Seq(Byte) => FramesAreSelfDelimiting
  <2>1. SUFFICES ASSUME payload \in Seq(Byte), Decode(payload) # {},
                        NEW n \in 0 .. Len(payload) - 1,
                        Decode(SubSeq(payload, 1, n)) # {}
                 PROVE  FALSE
    BY DEF FramesAreSelfDelimiting
  <2> DEFINE cut == SubSeq(payload, 1, n)
  <2>2. Len(payload) \in Nat
    BY <2>1
  <2>3. cut \in Seq(Byte) /\ Len(cut) = n /\ \A i \in 1 .. n : payload[i] = cut[i]
    BY <2>1, <2>2
  <2> HIDE DEF cut
  <2>4. IsCut(cut, payload)
    BY <2>2, <2>3 DEF IsCut
  <2>5. ReadChange(cut).ok /\ ReadChange(cut).next = Len(cut)
    BY <2>1, DecodeIs DEF cut
  <2>6. ReadChange(payload).next = Len(payload)
    BY <2>1, DecodeIs
  <2>7. Kept(ReadChange(cut), ReadChange(payload))
    BY <2>1, <2>3, <2>4, <2>5, CutChange
  <2>8. Len(payload) = n
    BY <2>3, <2>5, <2>6, <2>7 DEF Kept
  <2>9. QED BY <2>2, <2>8
<1>2. QED BY <1>1, AreBytes, PTL

-----------------------------------------------------------------------------
(* Bytes that stand somewhere.                                             *)

(* These bytes stand in the data, from a position on.                      *)
Stands(bytes, data, p) ==
  /\ p + Len(bytes) <= Len(data)
  /\ \A i \in 1 .. Len(bytes) : data[p + i] = bytes[i]

(* Bytes that stand somewhere are two strings that stand there in a row.   *)
LEMMA PartsStand ==
  ASSUME NEW a \in Seq(Byte), NEW b \in Seq(Byte), NEW data \in Seq(Byte),
         NEW p \in Nat, Stands(a \o b, data, p)
  PROVE  /\ Stands(a, data, p) /\ Stands(b, data, p + Len(a))
         /\ p + Len(a) \in Nat /\ p + Len(a) <= Len(data)
         /\ Len(a \o b) = Len(a) + Len(b) /\ a \o b \in Seq(Byte)
         /\ p + Len(a \o b) = (p + Len(a)) + Len(b)
<1> DEFINE c == a \o b
<1>1. /\ c \in Seq(Byte) /\ Len(c) = Len(a) + Len(b)
      /\ \A i \in 1 .. Len(a) : c[i] = a[i]
      /\ \A i \in 1 .. Len(b) : c[Len(a) + i] = b[i]
  OBVIOUS
<1>2. Len(a) \in Nat /\ Len(b) \in Nat /\ Len(data) \in Nat
  OBVIOUS
<1>3. /\ p + Len(c) <= Len(data)
      /\ \A i \in 1 .. Len(c) : data[p + i] = c[i]
  BY DEF Stands
<1> HIDE DEF c
<1>4. Stands(a, data, p)
  BY <1>1, <1>2, <1>3 DEF Stands
<1>5. ASSUME NEW i \in 1 .. Len(b)
      PROVE  data[(p + Len(a)) + i] = b[i]
  <2>1. Len(a) + i \in 1 .. Len(c) /\ (p + Len(a)) + i = p + (Len(a) + i)
    BY <1>1, <1>2
  <2>2. QED BY <1>1, <1>3, <2>1
<1>6. Stands(b, data, p + Len(a))
  BY <1>1, <1>2, <1>3, <1>5 DEF Stands
<1>7. QED BY <1>1, <1>2, <1>3, <1>4, <1>6 DEF c

(* What is taken where bytes stand are these bytes.                        *)
LEMMA StandingBytesTaken ==
  ASSUME NEW a \in Seq(Byte), NEW data \in Seq(Byte), NEW p \in Nat,
         Stands(a, data, p)
  PROVE  TakeBytes(data, p, Len(a)) = Got(a, p + Len(a))
<1>1. Len(a) \in Nat /\ p + Len(a) <= Len(data)
  BY DEF Stands
<1> DEFINE n == Len(a)
           r == TakeBytes(data, p, n)
<1>2. r = Got(SubSeq(data, p + 1, p + n), p + n)
  BY <1>1 DEF TakeBytes
<1>3. /\ r.val = SubSeq(data, p + 1, p + n) /\ r.val \in Seq(Byte)
      /\ Len(r.val) = n /\ \A i \in 1 .. n : r.val[i] = data[p + i]
  <2>1. r.ok
    BY <1>2, Results
  <2> HIDE DEF n
  <2>2. n \in Nat
    BY <1>1 DEF n
  <2>3. QED BY <2>1, <2>2, BytesTaken
<1>4. r.val = a
  <2> DEFINE v == r.val
  <2>1. v \in Seq(Byte) /\ Len(v) = Len(a)
    BY <1>3
  <2>2. \A i \in 1 .. Len(a) : v[i] = a[i]
    BY <1>3 DEF Stands
  <2> HIDE DEF v
  <2>3. v = a
    BY <2>1, <2>2, SeqEqual
  <2>4. QED BY <2>3 DEF v
<1>5. QED BY <1>2, <1>3, <1>4

-----------------------------------------------------------------------------
(* Compressed ints.                                                        *)

(* The size that is written is the least that the number fits.             *)
LEMMA SizeWritten ==
  ASSUME NEW n \in Nat
  PROVE  \E k \in 0 .. IntBytes :
           /\ WriteCompressedInt(n) = <<k>> \o Digits[k][n]
           /\ k = IntBytes \/ n < Power[k]
           /\ \A j \in 0 .. IntBytes : n < Power[j] => k <= j
<1> DEFINE sizes == {k \in 0 .. IntBytes : k = IntBytes \/ n < Power[k]}
           size == CHOOSE k \in sizes : \A j \in sizes : k <= j
<1>1. IntBytes \in Nat
  BY WidthsAssumption
<1>2. sizes \in SUBSET Nat /\ IntBytes \in sizes
  BY <1>1
<1>3. \E x \in sizes : \A y \in sizes : x <= y
  <2> HIDE DEF sizes
  <2>1. sizes # {}
    BY <1>2
  <2>2. QED BY <1>2, <2>1, LeastNatural
<1>4. size \in sizes /\ \A j \in sizes : size <= j
  <2> HIDE DEF sizes
  <2>1. QED BY <1>3
<1>5. WriteCompressedInt(n) = <<size>> \o Digits[size][n]
  <2>1. ~ (n < 0)
    OBVIOUS
  <2>2. (IF n < 0 THEN -n ELSE n) = n /\ (IF n < 0 THEN 128 ELSE 0) = 0
    BY <2>1
  <2>3. WriteCompressedInt(n) = <<size + 0>> \o Digits[size][n]
    BY <2>2 DEF WriteCompressedInt
  <2>4. size + 0 = size
    <3>1. size \in Nat
      BY <1>2, <1>4
    <3> HIDE DEF size
    <3>2. QED BY <3>1
  <2>5. QED BY <2>3, <2>4
<1> HIDE DEF size
<1>6. size \in 0 .. IntBytes /\ (size = IntBytes \/ n < Power[size])
  BY <1>4
<1>7. \A j \in 0 .. IntBytes : n < Power[j] => size <= j
  BY <1>4
<1>8. QED BY <1>5, <1>6, <1>7

(* A number takes a byte and its digits; nought takes one, and less than   *)
(* 256 two.                                                                *)
LEMMA CompressedIntLength ==
  ASSUME NEW n \in Nat
  PROVE  /\ WriteCompressedInt(n) \in Seq(Byte)
         /\ Len(WriteCompressedInt(n)) \in 1 .. 5
         /\ n = 0 => WriteCompressedInt(n) = <<0>>
         /\ n \in 1 .. 255 => WriteCompressedInt(n) = <<1, n>>
<1>1. PICK k \in 0 .. IntBytes :
        /\ WriteCompressedInt(n) = <<k>> \o Digits[k][n]
        /\ k = IntBytes \/ n < Power[k]
        /\ \A j \in 0 .. IntBytes : n < Power[j] => k <= j
  BY SizeWritten
<1>2. k \in Nat /\ k <= 4 /\ k \in Byte /\ IntBytes \in 1 .. 4
  <2>1. IntBytes \in 1 .. 4 /\ k \in 0 .. IntBytes
    BY WidthsAssumption
  <2>2. k \in 0 .. 4
    BY <2>1
  <2>3. QED BY <2>1, <2>2, Bytes
<1>3. Digits[k][n] \in Seq(Byte) /\ Len(Digits[k][n]) = k
  BY <1>2, DigitsTell
<1>4. WriteCompressedInt(n) \in Seq(Byte) /\ Len(WriteCompressedInt(n)) = k + 1
  <2> DEFINE s == Digits[k][n]
  <2> HIDE DEF s
  <2>1. s \in Seq(Byte) /\ Len(s) = k
    BY <1>3 DEF s
  <2>2. <<k>> \o s \in Seq(Byte) /\ Len(<<k>> \o s) = Len(s) + 1
    BY <1>2, <2>1, NumberIs
  <2>3. QED BY <1>1, <2>1, <2>2 DEF s
<1>5. ASSUME n = 0
      PROVE  WriteCompressedInt(n) = <<0>>
  <2>1. 0 \in 0 .. IntBytes /\ n < Power[0]
    BY <1>2, <1>5, WireWidths
  <2>2. k <= 0
    BY <1>1, <2>1
  <2>3. k = 0
    BY <1>2, <2>2
  <2>4. Digits[k][n] = <<>>
    BY <2>3, DigitsAre
  <2>5. WriteCompressedInt(n) = <<0>> \o <<>>
    BY <1>1, <2>3, <2>4
  <2>6. QED BY <2>5
<1>6. ASSUME n \in 1 .. 255
      PROVE  WriteCompressedInt(n) = <<1, n>>
  <2>1. 1 \in 0 .. IntBytes /\ n < Power[1] /\ 1 <= IntBytes
    BY <1>2, <1>6, WireWidths
  <2>2. k <= 1
    BY <1>1, <2>1
  <2>3. ~ (n < Power[0])
    BY <1>6, WireWidths
  <2>4. k # 0
    BY <1>1, <2>1, <2>3
  <2>5. k = 0 + 1
    BY <1>2, <2>2, <2>4
  <2>6. Digits[0 + 1][n] = <<n % 256>> \o Digits[0][n \div 256]
    BY DigitsAre
  <2>7. n % 256 = n /\ n \div 256 = 0
    BY <1>6
  <2>8. Digits[0][0] = <<>>
    BY DigitsAre
  <2>9. Digits[k][n] = <<n>> \o <<>>
    BY <2>5, <2>6, <2>7, <2>8
  <2>10. <<n>> \o <<>> = <<n>>
    <3>1. <<n>> \in Seq(Nat)
      OBVIOUS
    <3>2. QED BY <3>1, ConcatEmptySeq
  <2>11. <<1>> \o <<n>> = <<1, n>>
    <3> DEFINE a == <<1>>
               b == <<n>>
               c == <<1, n>>
               d == a \o b
    <3>1. /\ a \in Seq(Nat) /\ Len(a) = 1 /\ a[1] = 1
          /\ b \in Seq(Nat) /\ Len(b) = 1 /\ b[1] = n
          /\ c \in Seq(Nat) /\ Len(c) = 2 /\ c[1] = 1 /\ c[2] = n
      OBVIOUS
    <3> HIDE DEF a, b, c
    <3>2. d \in Seq(Nat) /\ Len(d) = 2 /\ d[1] = 1 /\ d[2] = n
      <4>1. /\ d \in Seq(Nat) /\ Len(d) = Len(a) + Len(b)
            /\ \A i \in 1 .. Len(a) + Len(b) :
                 d[i] = IF i <= Len(a) THEN a[i] ELSE b[i - Len(a)]
        BY <3>1, ConcatProperties
      <4>2. 1 \in 1 .. 2 /\ 2 \in 1 .. 2 /\ 2 - 1 = 1
        OBVIOUS
      <4> HIDE DEF d
      <4>3. QED BY <3>1, <4>1, <4>2
    <3> HIDE DEF d
    <3>3. \A i \in 1 .. Len(c) : c[i] = d[i]
      <4>1. ASSUME NEW i \in 1 .. 2 PROVE c[i] = d[i]
        <5>1. i = 1 \/ i = 2
          OBVIOUS
        <5>2. QED BY <3>1, <3>2, <5>1
      <4>2. QED BY <3>1, <4>1
    <3>4. c = d
      BY <3>1, <3>2, <3>3, SeqEqual
    <3>5. QED BY <3>4 DEF a, b, c, d
  <2>12. QED BY <1>1, <2>5, <2>9, <2>10, <2>11
<1>7. QED BY <1>2, <1>4, <1>5, <1>6

(* A written number that stands in the data is read, if the wire has room  *)
(* for it.                                                                 *)
LEMMA CompressedIntArrives ==
  ASSUME NEW n \in Nat, n < Power[IntBytes], NEW data \in Seq(Byte),
         NEW p \in Nat, Stands(WriteCompressedInt(n), data, p)
  PROVE  /\ ReadCompressedInt(data, p) = Got(n, p + Len(WriteCompressedInt(n)))
         /\ ReadCount(data, p) = Got(n, p + Len(WriteCompressedInt(n)))
<1>1. PICK k \in 0 .. IntBytes :
        /\ WriteCompressedInt(n) = <<k>> \o Digits[k][n]
        /\ k = IntBytes \/ n < Power[k]
  BY SizeWritten
<1>2. k \in Nat /\ k <= 4 /\ k <= IntBytes /\ k \in Byte /\ n < Power[k]
  <2>1. IntBytes \in 1 .. 4 /\ k \in 0 .. IntBytes
    BY WidthsAssumption
  <2>2. k \in 0 .. 4
    BY <2>1
  <2>3. QED BY <1>1, <2>1, <2>2, Bytes
<1> DEFINE s == Digits[k][n]
           one == <<k>>
<1>3. s \in Seq(Byte) /\ Len(s) = k /\ Number(s) = n
  BY <1>2, DigitsTell
<1> HIDE DEF s
<1>4. one \in Seq(Byte) /\ Len(one) = 1 /\ one[1] = k
  BY <1>2
<1>5. one \o s = WriteCompressedInt(n)
  BY <1>1 DEF s
<1> HIDE DEF one
<1>6. /\ Stands(one, data, p) /\ Stands(s, data, p + 1)
      /\ p + 1 \in Nat /\ p + 1 <= Len(data)
      /\ p + Len(one \o s) = (p + 1) + Len(s)
  <2>1. Stands(one \o s, data, p)
    BY <1>5
  <2>2. /\ Stands(one, data, p) /\ Stands(s, data, p + Len(one))
        /\ p + Len(one) \in Nat /\ p + Len(one) <= Len(data)
        /\ Len(one \o s) = Len(one) + Len(s) /\ one \o s \in Seq(Byte)
        /\ p + Len(one \o s) = (p + Len(one)) + Len(s)
    <3>1. one \in Seq(Byte) /\ s \in Seq(Byte)
      BY <1>3, <1>4
    <3>2. QED BY <2>1, <3>1, PartsStand
  <2>3. QED BY <1>4, <2>2
<1>7. data[p + 1] = k
  <2>1. 1 \in 1 .. Len(one)
    BY <1>4
  <2>2. QED BY <1>4, <1>6, <2>1 DEF Stands
<1>8. k % 128 = k /\ ~ (k >= 128)
  BY <1>2
<1>9. TakeBytes(data, p + 1, k) = Got(s, (p + 1) + k)
  <2>1. TakeBytes(data, p + 1, Len(s)) = Got(s, (p + 1) + Len(s))
    <3> DEFINE q == p + 1
    <3>1. q \in Nat /\ Stands(s, data, q)
      BY <1>6
    <3> HIDE DEF q
    <3>2. TakeBytes(data, q, Len(s)) = Got(s, q + Len(s))
      BY <1>3, <3>1, StandingBytesTaken
    <3>3. QED BY <3>2 DEF q
  <2>2. QED BY <1>3, <2>1
<1>10. ReadCompressedInt(data, p) = Got(Magnitude(k, s), (p + 1) + k)
  <2> DEFINE rest == TakeBytes(data, p + 1, k)
  <2>1. rest = Got(s, (p + 1) + k)
    BY <1>9
  <2> HIDE DEF rest
  <2>2. rest.ok /\ rest.val = s /\ rest.next = (p + 1) + k
    BY <2>1, Results
  <2>3. k = data[p + 1] % 128
    BY <1>7, <1>8
  <2>4. ReadCompressedInt(data, p) =
           Got(Magnitude(data[p + 1], TakeBytes(data, p + 1, k).val),
               TakeBytes(data, p + 1, k).next)
    BY <1>2, <1>6, <2>2, <2>3, CompressedIntRead DEF rest
  <2>5. QED BY <1>7, <2>2, <2>4 DEF rest
<1>11. Magnitude(k, s) = n
  BY <1>3, <1>8 DEF Magnitude
<1>12. p + Len(WriteCompressedInt(n)) = (p + 1) + k
  BY <1>3, <1>5, <1>6
<1>13. ReadCompressedInt(data, p) = Got(n, p + Len(WriteCompressedInt(n)))
  BY <1>10, <1>11, <1>12
<1> DEFINE r == ReadCompressedInt(data, p)
<1>14. ReadCount(data, p) =
         IF r.ok THEN IF r.val >= 0 THEN Got(r.val, r.next) ELSE Nothing
         ELSE Nothing
  BY DEF ReadCount, Then
<1>15. r.ok /\ r.val = n /\ r.next = p + Len(WriteCompressedInt(n))
  BY <1>13, Results
<1> HIDE DEF r
<1>16. ReadCount(data, p) = Got(n, p + Len(WriteCompressedInt(n)))
  BY <1>14, <1>15
<1>17. QED BY <1>13, <1>16

-----------------------------------------------------------------------------
(* Strings and markers.                                                    *)

(* A text takes a byte more than it has.                                   *)
LEMMA CStringLength ==
  ASSUME NEW text \in Seq(Byte)
  PROVE  /\ WriteCString(text) \in Seq(Byte)
         /\ Len(WriteCString(text)) = Len(text) + 1
         /\ WriteCString(text) = text \o <<0>> /\ <<0>> \in Seq(Byte)
<1>1. 0 \in Byte
  BY Bytes
<1>2. Append(text, 0) = text \o <<0>>
  BY <1>1, AppendIsConcat
<1>3. QED BY <1>1, <1>2 DEF WriteCString

(* A written text without NULs that stands in the data is read.            *)
LEMMA CStringArrives ==
  ASSUME NEW text \in Seq(Byte), IsText(text), \A i \in 1 .. Len(text) : text[i] # 0,
         NEW data \in Seq(Byte), NEW p \in Nat, Stands(WriteCString(text), data, p)
  PROVE  ReadCString(data, p) = Got(text, p + Len(WriteCString(text)))
<1> DEFINE end == p + Len(text)
           nul == <<0>>
<1>1. /\ nul \in Seq(Byte) /\ WriteCString(text) = text \o nul
      /\ Len(nul) = 1 /\ nul[1] = 0 /\ Len(text) \in Nat
  BY CStringLength
<1> HIDE DEF nul
<1>2. /\ Stands(text, data, p) /\ Stands(nul, data, end)
      /\ end \in Nat /\ end <= Len(data)
      /\ Len(text \o nul) = Len(text) + Len(nul) /\ text \o nul \in Seq(Byte)
      /\ p + Len(text \o nul) = end + Len(nul)
  <2>1. Stands(text \o nul, data, p)
    BY <1>1
  <2>2. nul \in Seq(Byte)
    BY <1>1
  <2>3. QED BY <2>1, <2>2, PartsStand
<1>3. SubSeq(data, p + 1, end) = text
  <2> DEFINE n == Len(text)
             r == TakeBytes(data, p, n)
  <2>1. r = Got(text, p + n)
    BY <1>2, StandingBytesTaken
  <2>2. n \in Nat
    BY <1>1
  <2> HIDE DEF n
  <2>3. r.ok => r.val = SubSeq(data, p + 1, p + n)
    BY <2>2, BytesTaken
  <2> HIDE DEF r
  <2>4. QED BY <2>1, <2>3, Results DEF n
<1>4. EndsAt(data, p, end)
  <2>1. 1 \in 1 .. Len(nul)
    BY <1>1
  <2>2. end + 1 <= Len(data) /\ data[end + 1] = 0
    BY <1>1, <1>2, <2>1 DEF Stands
  <2>3. end - p = Len(text) /\ p <= end
    BY <1>1
  <2>4. \A i \in 1 .. end - p : data[p + i] # 0
    BY <1>2, <2>3 DEF Stands
  <2>5. QED BY <2>2, <2>3, <2>4 DEF EndsAt
<1>5. p + Len(WriteCString(text)) = end + 1
  BY <1>1, <1>2
<1> HIDE DEF end
<1>6. IsText(SubSeq(data, p + 1, end))
  BY <1>3
<1>7. ReadCString(data, p) = Got(SubSeq(data, p + 1, end), end + 1)
  BY <1>2, <1>4, <1>6, CStringRead
<1>8. QED BY <1>3, <1>5, <1>7

(* A marker and what follows it.                                           *)
LEMMA WrittenLength ==
  ASSUME NEW marker \in Byte, NEW bytes \in Seq(Byte)
  PROVE  /\ Written(marker, bytes) \in Seq(Byte)
         /\ Len(Written(marker, bytes)) =
              Len(WriteCompressedInt(1 + Len(bytes))) + (1 + Len(bytes))
         /\ Len(WriteCompressedInt(1 + Len(bytes))) \in 1 .. 5
         /\ <<marker>> \o bytes \in Seq(Byte)
         /\ Len(<<marker>> \o bytes) = 1 + Len(bytes)
         /\ Written(marker, bytes) =
              WriteCompressedInt(1 + Len(bytes)) \o (<<marker>> \o bytes)
<1> DEFINE n == 1 + Len(bytes)
           size == WriteCompressedInt(n)
           one == <<marker>>
<1>1. n \in Nat /\ Len(bytes) \in Nat
  OBVIOUS
<1>2. size \in Seq(Byte) /\ Len(size) \in 1 .. 5
  <2> HIDE DEF n
  <2>1. QED BY <1>1, CompressedIntLength
<1>3. one \in Seq(Byte) /\ Len(one) = 1
  OBVIOUS
<1>4. Written(marker, bytes) = (size \o one) \o bytes
  BY DEF Written
<1> HIDE DEF n, size, one
<1>5. (size \o one) \o bytes = size \o (one \o bytes)
  BY <1>2, <1>3, ConcatAssociative
<1>6. one \o bytes \in Seq(Byte) /\ Len(one \o bytes) = Len(one) + Len(bytes)
  BY <1>3, ConcatProperties
<1>7. /\ size \o (one \o bytes) \in Seq(Byte)
      /\ Len(size \o (one \o bytes)) = Len(size) + Len(one \o bytes)
  BY <1>2, <1>6, ConcatProperties
<1>8. Len(one \o bytes) = 1 + Len(bytes)
  BY <1>1, <1>3, <1>6
<1>9. QED BY <1>2, <1>4, <1>5, <1>6, <1>7, <1>8 DEF n, size, one

(* Where a marker and what follows it stand, the value behind the marker   *)
(* is read, with as much left as there is.                                 *)
LEMMA MarkerArrives ==
  ASSUME NEW read, NEW marker \in Byte, NEW bytes \in Seq(Byte),
         1 + Len(bytes) < Power[IntBytes], NEW data \in Seq(Byte), NEW p \in Nat,
         Stands(Written(marker, bytes), data, p)
  PROVE  \E q \in Nat :
           /\ ReadValue(read, data, p) =
                ReadMarked(read, marker, Len(bytes), data, q)
           /\ Stands(bytes, data, q) /\ q <= Len(data)
           /\ p + Len(Written(marker, bytes)) = q + Len(bytes)
<1> DEFINE n == 1 + Len(bytes)
           size == WriteCompressedInt(n)
           one == <<marker>>
           rest == one \o bytes
           r == p + Len(size)
           q == r + 1
<1>1. n \in Nat /\ Len(bytes) \in Nat /\ n < Power[IntBytes] /\ n - 1 = Len(bytes)
  OBVIOUS
<1>2. /\ size \in Seq(Byte) /\ Len(size) \in Nat
      /\ one \in Seq(Byte) /\ Len(one) = 1 /\ one[1] = marker
      /\ rest \in Seq(Byte)
      /\ Written(marker, bytes) = size \o rest
  <2>1. /\ rest \in Seq(Byte)
        /\ Written(marker, bytes) = size \o rest
    BY WrittenLength
  <2>2. size \in Seq(Byte) /\ Len(size) \in Nat
    <3> HIDE DEF n
    <3>1. size \in Seq(Byte)
      BY <1>1, CompressedIntLength
    <3>2. QED BY <3>1
  <2>3. one \in Seq(Byte) /\ Len(one) = 1 /\ one[1] = marker
    OBVIOUS
  <2>4. QED BY <2>1, <2>2, <2>3
<1> HIDE DEF n, size, one
<1>3. /\ Stands(size, data, p) /\ Stands(rest, data, r) /\ r \in Nat
      /\ p + Len(size \o rest) = r + Len(rest)
  <2> HIDE DEF rest
  <2>1. /\ Stands(size, data, p) /\ Stands(rest, data, p + Len(size))
        /\ p + Len(size) \in Nat /\ p + Len(size) <= Len(data)
        /\ Len(size \o rest) = Len(size) + Len(rest) /\ size \o rest \in Seq(Byte)
        /\ p + Len(size \o rest) = (p + Len(size)) + Len(rest)
    BY <1>2, PartsStand
  <2>2. QED BY <2>1
<1>4. ReadCompressedInt(data, p) = Got(n, r)
  BY <1>1, <1>3, CompressedIntArrives DEF size
<1> HIDE DEF r
<1>5. /\ Stands(one, data, r) /\ Stands(bytes, data, q) /\ q \in Nat
      /\ q <= Len(data) /\ r + Len(rest) = q + Len(bytes)
  <2>1. /\ Stands(one, data, r) /\ Stands(bytes, data, r + Len(one))
        /\ r + Len(one) \in Nat /\ r + Len(one) <= Len(data)
        /\ Len(one \o bytes) = Len(one) + Len(bytes) /\ one \o bytes \in Seq(Byte)
        /\ r + Len(one \o bytes) = (r + Len(one)) + Len(bytes)
    <3>1. Stands(one \o bytes, data, r) /\ r \in Nat /\ one \in Seq(Byte)
      BY <1>2, <1>3
    <3>2. QED BY <3>1, PartsStand
  <2>2. QED BY <1>2, <2>1
<1>6. data[r + 1] = marker /\ r + 1 <= Len(data)
  <2>1. 1 \in 1 .. Len(one)
    BY <1>2
  <2>2. QED BY <1>2, <1>5, <2>1 DEF Stands
<1>7. ReadValue(read, data, p) = ReadMarked(read, marker, Len(bytes), data, q)
  <2> DEFINE len == ReadCompressedInt(data, p)
             ahead == TakeBytes(data, len.next, 1)
             m == data[len.next + 1]
  <2>1. ReadValue(read, data, p) =
          IF ~ len.ok THEN Nothing
          ELSE IF len.val <= 0 THEN Got(Plain("undefined"), len.next)
          ELSE IF ~ ahead.ok THEN Nothing
          ELSE ReadMarked(read, m, len.val - 1, data, len.next + 1)
    BY ValueIs
  <2>2. len.ok /\ len.val = n /\ len.next = r
    BY <1>4, Results
  <2> HIDE DEF len
  <2>3. ahead.ok
    <3>1. TakeBytes(data, r, 1).ok
      BY <1>3, <1>6, OneByteTaken
    <3>2. QED BY <2>2, <3>1
  <2>4. m = marker /\ ~ (n <= 0)
    BY <1>1, <1>6, <2>2 DEF n
  <2> HIDE DEF ahead, m
  <2>5. QED BY <1>1, <2>1, <2>2, <2>3, <2>4
<1>8. QED BY <1>2, <1>3, <1>5, <1>7

-----------------------------------------------------------------------------
(* Values made of bytes.                                                   *)

(* Where a value is written as a marker and as many bytes as the marker    *)
(* asks for, what these bytes make is read.                                *)
LEMMA PlainArrives ==
  ASSUME NEW read, NEW marker \in Byte, marker # Marker.array,
         NEW bytes \in Seq(Byte), Len(bytes) = Width(marker, Len(bytes)),
         marker = Marker.string => IsText(bytes),
         1 + Len(bytes) < Power[IntBytes], NEW data \in Seq(Byte), NEW p \in Nat,
         Stands(Written(marker, bytes), data, p)
  PROVE  ReadValue(read, data, p) =
           Got(Made(marker, bytes), p + Len(Written(marker, bytes)))
<1>1. PICK q \in Nat :
        /\ ReadValue(read, data, p) =
             ReadMarked(read, marker, Len(bytes), data, q)
        /\ Stands(bytes, data, q) /\ q <= Len(data)
        /\ p + Len(Written(marker, bytes)) = q + Len(bytes)
  BY MarkerArrives
<1> DEFINE w == Len(bytes)
           taken == TakeBytes(data, q, w)
           r == ReadPlain(marker, w, data, q)
<1>2. ReadMarked(read, marker, w, data, q) = r
  BY DEF ReadMarked
<1>3. taken = Got(bytes, q + w)
  BY <1>1, StandingBytesTaken
<1>4. w \in Nat /\ w = Width(marker, w)
  OBVIOUS
<1> HIDE DEF w
<1>5. /\ r.ok => taken.ok /\ (marker = Marker.string => IsText(taken.val))
      /\ taken.ok /\ (marker = Marker.string => IsText(taken.val)) =>
           r = Got(Made(marker, taken.val), q + w)
  BY <1>4, PlainIs
<1> HIDE DEF taken, r
<1>6. taken.ok /\ taken.val = bytes
  BY <1>3, Results
<1>7. r = Got(Made(marker, bytes), q + w)
  BY <1>5, <1>6
<1>8. QED BY <1>1, <1>2, <1>7 DEF w

(* What is left of bytes without the NULs at their end: there is only one  *)
(* beginning that ends in something else and is followed by NULs only.     *)
LEMMA TrimmedAre ==
  ASSUME NEW bytes \in Seq(Byte), NEW text \in Seq(Byte), Len(text) <= Len(bytes),
         \A i \in 1 .. Len(text) : bytes[i] = text[i],
         \A i \in Nat : Len(text) < i /\ i <= Len(bytes) => bytes[i] = 0,
         Len(text) # 0 => text[Len(text)] # 0
  PROVE  TrimNuls(bytes) = text
<1>1. PICK k \in 0 .. Len(bytes) :
        /\ TrimNuls(bytes) = SubSeq(bytes, 1, k)
        /\ k # 0 => bytes[k] # 0
        /\ \A j \in k + 1 .. Len(bytes) : bytes[j] = 0
  BY TrimmedIs
<1> DEFINE n == Len(text)
<1>2. k \in Nat /\ n \in Nat /\ Len(bytes) \in Nat /\ k <= Len(bytes)
  OBVIOUS
<1>3. n # 0 => bytes[n] # 0
  <2>1. n # 0 => n \in 1 .. n
    BY <1>2
  <2>2. QED BY <2>1
<1>4. ~ (n < k)
  <2>1. SUFFICES ASSUME n < k PROVE FALSE
    OBVIOUS
  <2>2. bytes[k] = 0
    BY <1>2, <2>1
  <2>3. QED BY <1>1, <1>2, <2>1, <2>2
<1>5. ~ (k < n)
  <2>1. SUFFICES ASSUME k < n PROVE FALSE
    OBVIOUS
  <2>2. n \in k + 1 .. Len(bytes)
    BY <1>2, <2>1
  <2>3. QED BY <1>1, <1>2, <1>3, <2>1, <2>2
<1>6. k = n
  <2> HIDE DEF n
  <2>1. QED BY <1>2, <1>4, <1>5
<1>7. SubSeq(bytes, 1, k) = text
  <2> DEFINE s == SubSeq(bytes, 1, k)
  <2>1. s \in Seq(Byte) /\ Len(s) = k /\ \A i \in 1 .. k : s[i] = bytes[i]
    BY <1>2
  <2> HIDE DEF s
  <2>2. Len(s) = Len(text) /\ \A i \in 1 .. Len(s) : s[i] = text[i]
    BY <1>6, <2>1
  <2>3. s = text
    BY <2>1, <2>2, SeqEqual
  <2>4. QED BY <2>3 DEF s
<1>8. QED BY <1>1, <1>7

(* A NUL at the end makes no difference, after trimming either.            *)
LEMMA TrimmedAgain ==
  ASSUME NEW bytes \in Seq(Byte)
  PROVE  /\ TrimNuls(WriteCString(bytes)) = TrimNuls(bytes)
         /\ TrimNuls(WriteCString(TrimNuls(bytes))) = TrimNuls(bytes)
         /\ TrimNuls(bytes) \in Seq(Byte) /\ Len(TrimNuls(bytes)) <= Len(bytes)
         /\ IsText(bytes) => /\ IsText(WriteCString(bytes))
                             /\ IsText(WriteCString(TrimNuls(bytes)))
<1> DEFINE text == TrimNuls(bytes)
<1>1. PICK k \in 0 .. Len(bytes) :
        /\ text = SubSeq(bytes, 1, k)
        /\ k # 0 => bytes[k] # 0
        /\ \A j \in k + 1 .. Len(bytes) : bytes[j] = 0
  BY TrimmedIs
<1> HIDE DEF text
<1>2. k \in Nat /\ Len(bytes) \in Nat /\ k <= Len(bytes)
  OBVIOUS
<1>3. text \in Seq(Byte) /\ Len(text) = k /\ \A i \in 1 .. k : text[i] = bytes[i]
  BY <1>1, <1>2
<1>4. Len(text) # 0 => text[Len(text)] # 0
  <2>1. k # 0 => k \in 1 .. k
    BY <1>2
  <2>2. QED BY <1>1, <1>3, <2>1
<1>5. ASSUME NEW s \in Seq(Byte), Len(text) <= Len(s),
             \A i \in 1 .. Len(text) : s[i] = text[i],
             \A i \in Nat : Len(text) < i /\ i <= Len(s) => s[i] = 0
      PROVE  TrimNuls(WriteCString(s)) = text
  <2> DEFINE t == WriteCString(s)
  <2>1. /\ t \in Seq(Byte) /\ Len(t) = Len(s) + 1 /\ Len(s) \in Nat
        /\ \A i \in 1 .. Len(s) : t[i] = s[i]
        /\ t[Len(s) + 1] = 0
    <3>1. 0 \in Byte
      BY Bytes
    <3>2. QED BY <3>1 DEF WriteCString
  <2> HIDE DEF t
  <2>2. Len(text) <= Len(t)
    BY <1>2, <1>3, <1>5, <2>1
  <2>3. \A i \in 1 .. Len(text) : t[i] = text[i]
    BY <1>2, <1>3, <1>5, <2>1
  <2>4. ASSUME NEW i \in Nat, Len(text) < i, i <= Len(t)
        PROVE  t[i] = 0
    <3>1. CASE i = Len(s) + 1
      BY <2>1, <3>1
    <3>2. CASE i # Len(s) + 1
      <4>1. i <= Len(s) /\ i \in 1 .. Len(s)
        BY <1>2, <1>3, <2>1, <2>4, <3>2
      <4>2. QED BY <1>5, <2>1, <2>4, <4>1
    <3>3. QED BY <3>1, <3>2
  <2>5. TrimNuls(t) = text
    BY <1>3, <1>4, <2>1, <2>2, <2>3, <2>4, TrimmedAre
  <2>6. QED BY <2>5 DEF t
<1>6. TrimNuls(WriteCString(bytes)) = text
  <2>1. \A i \in Nat : Len(text) < i /\ i <= Len(bytes) => bytes[i] = 0
    BY <1>1, <1>2, <1>3
  <2>2. Len(text) <= Len(bytes) /\ \A i \in 1 .. Len(text) : bytes[i] = text[i]
    BY <1>2, <1>3
  <2>3. QED BY <1>5, <2>1, <2>2
<1>7. TrimNuls(WriteCString(text)) = text
  <2>1. \A i \in Nat : Len(text) < i /\ i <= Len(text) => text[i] = 0
    BY <1>2, <1>3
  <2>2. Len(text) <= Len(text)
    BY <1>2, <1>3
  <2>3. QED BY <1>3, <1>5, <2>1, <2>2
<1>8. ASSUME IsText(bytes), NEW s \in Seq(Byte), Len(s) <= Len(bytes),
             \A i \in 1 .. Len(s) : s[i] = bytes[i]
      PROVE  IsText(WriteCString(s))
  <2> DEFINE t == WriteCString(s)
  <2>1. /\ t \in Seq(Byte) /\ Len(t) = Len(s) + 1 /\ Len(s) \in Nat
        /\ \A i \in 1 .. Len(s) : t[i] = s[i]
        /\ t[Len(s) + 1] = 0 /\ DOMAIN t = 1 .. Len(t)
    <3>1. 0 \in Byte
      BY Bytes
    <3>2. QED BY <3>1 DEF WriteCString
  <2>2. \A i \in 1 .. Len(bytes) : bytes[i] < 128
    BY <1>8 DEF IsText
  <2> HIDE DEF t
  <2>3. ASSUME NEW i \in 1 .. Len(t) PROVE t[i] < 128
    <3>1. CASE i = Len(s) + 1
      BY <2>1, <3>1
    <3>2. CASE i # Len(s) + 1
      <4>1. i \in 1 .. Len(s) /\ i \in 1 .. Len(bytes)
        BY <1>2, <1>8, <2>1, <3>2
      <4>2. QED BY <1>8, <2>1, <2>2, <4>1
    <3>3. QED BY <3>1, <3>2
  <2>4. QED BY <2>1, <2>3 DEF IsText, t
<1>9. Len(text) <= Len(bytes) /\ \A i \in 1 .. Len(text) : text[i] = bytes[i]
  BY <1>2, <1>3
<1>10. IsText(bytes) => IsText(WriteCString(bytes)) /\ IsText(WriteCString(text))
  BY <1>2, <1>3, <1>8, <1>9
<1>11. QED BY <1>3, <1>6, <1>7, <1>9, <1>10 DEF text

(* The numbers an int can be.                                              *)
Half == Power[IntBytes] \div 2

(* What a number is made of, modulo what the wire can tell apart.          *)
Splits(power) ==
  /\ \A n \in Int : /\ n % power \in Nat /\ n % power < power
                    /\ \E q \in Int : n = power * q + (n % power)
  /\ \E h \in Nat : power = 2 * h /\ power \div 2 = h /\ h >= 1

(* What a number is modulo what the wire can tell apart.                   *)
LEMMA Modulo == Splits(Power[IntBytes])
<1>1. Splits(256)
  <2>1. ASSUME NEW n \in Int
        PROVE  /\ n % 256 \in Nat /\ n % 256 < 256
               /\ n \div 256 \in Int
               /\ n = 256 * (n \div 256) + (n % 256)
    OBVIOUS
  <2>2. 128 \in Nat /\ 256 = 2 * 128 /\ 256 \div 2 = 128
    OBVIOUS
  <2>3. QED BY <2>1, <2>2 DEF Splits
<1>2. Splits(65536)
  <2>1. ASSUME NEW n \in Int
        PROVE  /\ n % 65536 \in Nat /\ n % 65536 < 65536
               /\ n \div 65536 \in Int
               /\ n = 65536 * (n \div 65536) + (n % 65536)
    OBVIOUS
  <2>2. 32768 \in Nat /\ 65536 = 2 * 32768 /\ 65536 \div 2 = 32768
    OBVIOUS
  <2>3. QED BY <2>1, <2>2 DEF Splits
<1>3. Splits(16777216)
  <2>1. ASSUME NEW n \in Int
        PROVE  /\ n % 16777216 \in Nat /\ n % 16777216 < 16777216
               /\ n \div 16777216 \in Int
               /\ n = 16777216 * (n \div 16777216) + (n % 16777216)
    OBVIOUS
  <2>2. 8388608 \in Nat /\ 16777216 = 2 * 8388608 /\ 16777216 \div 2 = 8388608
    OBVIOUS
  <2>3. QED BY <2>1, <2>2 DEF Splits
<1>4. Splits(4294967296)
  <2>1. ASSUME NEW n \in Int
        PROVE  /\ n % 4294967296 \in Nat /\ n % 4294967296 < 4294967296
               /\ n \div 4294967296 \in Int
               /\ n = 4294967296 * (n \div 4294967296) + (n % 4294967296)
    OBVIOUS
  <2>2. 2147483648 \in Nat /\ 4294967296 = 2 * 2147483648 /\ 4294967296 \div 2 = 2147483648
    OBVIOUS
  <2>3. QED BY <2>1, <2>2 DEF Splits
<1>5. QED BY <1>1, <1>2, <1>3, <1>4, WireWidths

(* Taken modulo what the wire can tell apart and read with a sign, a       *)
(* number is itself exactly if the wire has room for it.                   *)
LEMMA Wrapping ==
  ASSUME NEW n \in Int, NEW h \in Nat, h >= 1, NEW q \in Int, NEW m \in Nat,
         m < 2 * h, n = (2 * h) * q + m, NEW signed,
         signed = IF 2 * m < 2 * h THEN m ELSE m - 2 * h
  PROVE  (signed = n) <=> (n \in -h .. h - 1)
<1>1. signed \in -h .. h - 1 /\ signed \in Int
  OBVIOUS
<1>2. CASE q = 0
  BY <1>2
<1>3. CASE q = -1
  <2>1. n = m - 2 * h
    BY <1>3
  <2>2. QED BY <2>1
<1>4. CASE q >= 1
  <2>1. (2 * h) * q >= 2 * h
    BY <1>4
  <2>2. QED BY <1>1, <2>1
<1>5. CASE q <= -2
  <2>1. (2 * h) * q <= -(4 * h)
    BY <1>5
  <2>2. QED BY <1>1, <2>1
<1>6. QED BY <1>2, <1>3, <1>4, <1>5

(* What is read from the four bytes of a number is that number if and only *)
(* if it fits, and whatever is read from four bytes fits.                  *)
LEMMA IntsWrap ==
  /\ \A n \in Int :
       LET d == Digits[IntBytes][n % Power[IntBytes]]
       IN  /\ d \in Seq(Byte) /\ Len(d) = IntBytes /\ Signed(d) \in Int
           /\ Signed(d) = n <=> n \in -Half .. Half - 1
  /\ \A bytes \in Seq(Byte) : Len(bytes) = IntBytes =>
       Signed(bytes) \in -Half .. Half - 1
<1> DEFINE power == Power[IntBytes]
<1>1. power \in {256, 65536, 16777216, 4294967296} /\ IntBytes \in Nat
  BY WireWidths
<1>2. power \in Nat
  BY <1>1
<1>3. ASSUME NEW n \in Int
      PROVE  LET d == Digits[IntBytes][n % power]
             IN  /\ d \in Seq(Byte) /\ Len(d) = IntBytes /\ Signed(d) \in Int
                 /\ (Signed(d) = n) <=> (n \in -Half .. Half - 1)
  <2> DEFINE m == n % power
             d == Digits[IntBytes][m]
  <2>0. Half = power \div 2
    BY DEF Half
  <2> HIDE DEF power
  <2>1. /\ m \in Nat /\ m < power
        /\ ((IF 2 * m < power THEN m ELSE m - power) = n) <=>
              (n \in -Half .. Half - 1)
    <3>1. /\ m \in Nat /\ m < power
          /\ \E q \in Int : n = power * q + m
          /\ \E h \in Nat : power = 2 * h /\ power \div 2 = h /\ h >= 1
      BY Modulo DEF Splits, power
    <3>2. PICK q \in Int : n = power * q + m
      BY <3>1
    <3>3. PICK h \in Nat : power = 2 * h /\ power \div 2 = h /\ h >= 1
      BY <3>1
    <3> DEFINE signed == IF 2 * m < 2 * h THEN m ELSE m - 2 * h
    <3>4. n = (2 * h) * q + m /\ m < 2 * h
      BY <3>1, <3>2, <3>3
    <3>5. signed = IF 2 * m < 2 * h THEN m ELSE m - 2 * h
      OBVIOUS
    <3> HIDE DEF signed, m
    <3>6. (signed = n) <=> (n \in -h .. h - 1)
      BY <3>1, <3>3, <3>4, <3>5, Wrapping
    <3>7. QED BY <2>0, <3>1, <3>3, <3>5, <3>6
  <2> HIDE DEF m
  <2>2. d \in Seq(Byte) /\ Len(d) = IntBytes /\ Number(d) = m
    BY <1>1, <2>1, DigitsTell DEF power
  <2>3. Signed(d) = IF 2 * m < power THEN m ELSE m - power
    BY <2>2 DEF Signed, power
  <2> HIDE DEF d
  <2>4. Signed(d) \in Int
    BY <1>2, <2>1, <2>3
  <2>5. (Signed(d) = n) <=> (n \in -Half .. Half - 1)
    BY <2>0, <2>1, <2>3
  <2>6. QED BY <2>2, <2>4, <2>5 DEF d, m
<1>4. ASSUME NEW bytes \in Seq(Byte), Len(bytes) = IntBytes
      PROVE  Signed(bytes) \in -Half .. Half - 1
  <2> DEFINE k == Number(bytes)
  <2>1. k \in Nat /\ k < power
    BY <1>2, <1>4, NumberIs
  <2>2. Signed(bytes) = IF 2 * k < power THEN k ELSE k - power
    BY <1>4 DEF Signed
  <2>3. Half = power \div 2
    BY DEF Half
  <2> HIDE DEF k, power
  <2>4. (IF 2 * k < power THEN k ELSE k - power) \in
          -(power \div 2) .. (power \div 2) - 1
    <3>1. PICK h \in Nat : power = 2 * h /\ power \div 2 = h /\ h >= 1
      BY Modulo DEF Splits, power
    <3>2. (IF 2 * k < 2 * h THEN k ELSE k - 2 * h) \in -h .. h - 1
      BY <2>1, <3>1
    <3>3. QED BY <3>1, <3>2
  <2>5. QED BY <2>2, <2>3, <2>4
<1>5. QED BY <1>3, <1>4

(* What a value was read from and what it is written as.                   *)
Goes(v, write, marker, bytes) ==
  /\ WriteValue(write, v) = Written(marker, bytes)
  /\ Made(marker, bytes) = v
  /\ marker # Marker.array /\ Len(bytes) = Width(marker, Len(bytes))
  /\ marker = Marker.string => IsText(bytes)

(* A value that was made of bytes is written as bytes that make it again,  *)
(* one more at most.                                                       *)
LEMMA Rewritten ==
  ASSUME NEW write, NEW marker \in Byte, marker # Marker.array,
         NEW bytes \in Seq(Byte), Len(bytes) = Width(marker, Len(bytes)),
         marker = Marker.string => IsText(bytes)
  PROVE  \E m \in Byte, coded \in Seq(Byte) :
           /\ Goes(Made(marker, bytes), write, m, coded)
           /\ Len(coded) <= Len(bytes) + 1
<1> DEFINE v == Made(marker, bytes)
<1>1. Len(bytes) \in Nat /\ marker # 7
  BY DEF Marker
<1>2. CASE marker = 1
  <2> DEFINE n == Signed(bytes)
             coded == Digits[IntBytes][n % Power[IntBytes]]
  <2>1. v = Value("int", <<n>>, <<>>) /\ Len(bytes) = IntBytes
    BY <1>2 DEF Made, Marker, Width
  <2>2. n \in -Half .. Half - 1
    BY <2>1, IntsWrap
  <2>3. n \in Int
    <3>1. Half \in Int
      BY WireWidths DEF Half
    <3> HIDE DEF n
    <3>2. QED BY <2>2, <3>1
  <2>4. WriteValue(write, v) = Written(1, coded)
    BY <2>1 DEF WriteValue, Value, Marker
  <2>5. coded \in Seq(Byte) /\ Len(coded) = IntBytes /\ Signed(coded) = n
    <3> HIDE DEF n
    <3>1. QED BY <2>2, <2>3, IntsWrap
  <2>6. Made(1, coded) = Value("int", <<Signed(coded)>>, <<>>)
    BY DEF Made, Marker
  <2>7. Width(1, Len(coded)) = IntBytes
    BY DEF Width, Marker
  <2>8. 1 \in Byte /\ 1 # 7 /\ 1 # 5
    BY Bytes
  <2> HIDE DEF v, coded, n
  <2>9. Goes(v, write, 1, coded)
    BY <2>1, <2>4, <2>5, <2>6, <2>7, <2>8 DEF Goes, Marker
  <2>10. Len(coded) <= Len(bytes) + 1
    BY <1>1, <2>1, <2>5
  <2>11. QED BY <2>5, <2>8, <2>9, <2>10 DEF v
<1>3. CASE marker = 5
  <2> DEFINE text == TrimNuls(bytes)
             coded == WriteCString(text)
  <2>1. v = Value("string", text, <<>>) /\ IsText(bytes)
    BY <1>3 DEF Made, Marker
  <2>2. WriteValue(write, v) = Written(5, coded)
    BY <2>1 DEF WriteValue, Value, Marker
  <2>3. /\ TrimNuls(coded) = text /\ IsText(coded)
        /\ text \in Seq(Byte) /\ Len(text) <= Len(bytes)
    BY <2>1, TrimmedAgain
  <2>4. coded \in Seq(Byte) /\ Len(coded) = Len(text) + 1
    <3> HIDE DEF text
    <3>1. QED BY <2>3, CStringLength
  <2>5. Made(5, coded) = Value("string", TrimNuls(coded), <<>>)
    BY DEF Made, Marker
  <2>6. Width(5, Len(coded)) = Len(coded)
    BY DEF Width, Marker
  <2>7. 5 \in Byte /\ 5 # 7
    BY Bytes
  <2> HIDE DEF v, coded
  <2>8. Goes(v, write, 5, coded)
    BY <2>1, <2>2, <2>3, <2>5, <2>6, <2>7 DEF Goes, Marker
  <2> HIDE DEF text
  <2>9. Len(text) \in Nat /\ Len(coded) <= Len(bytes) + 1
    BY <1>1, <2>3, <2>4
  <2>10. QED BY <2>4, <2>7, <2>8, <2>9 DEF v
<1>4. CASE marker \in {4, 6, 8}
  <2> DEFINE type == IF marker = 4 THEN "double"
                     ELSE IF marker = 6 THEN "int64" ELSE "binary"
  <2>1. v = Value(type, bytes, <<>>)
    BY <1>4 DEF Made, Marker
  <2>2. Marker[type] = marker
    BY <1>4 DEF Marker
  <2>3. type \notin {"int", "string", "array", "unknown"}
    OBVIOUS
  <2> HIDE DEF type
  <2>4. WriteValue(write, v) = Written(marker, bytes)
    BY <2>1, <2>2, <2>3 DEF WriteValue, Value
  <2> HIDE DEF v
  <2>5. Goes(v, write, marker, bytes)
    BY <2>4 DEF Goes, v
  <2>6. QED BY <1>1, <2>5 DEF v
<1>5. CASE marker \in {2, 3, 9}
  <2> DEFINE type == IF marker = 2 THEN "true"
                     ELSE IF marker = 3 THEN "false" ELSE "undefined"
  <2>1. v = Value(type, <<>>, <<>>) /\ Len(bytes) = 0
    BY <1>5 DEF Made, Marker, Plain, Width
  <2>2. Marker[type] = marker
    BY <1>5 DEF Marker
  <2>3. type \notin {"int", "string", "array", "unknown"}
    OBVIOUS
  <2>4. bytes = <<>>
    BY <2>1
  <2> HIDE DEF type
  <2>5. WriteValue(write, v) = Written(marker, bytes)
    BY <2>1, <2>2, <2>3, <2>4 DEF WriteValue, Value
  <2> HIDE DEF v
  <2>6. Goes(v, write, marker, bytes)
    BY <2>5 DEF Goes, v
  <2>7. QED BY <1>1, <2>6 DEF v
<1>6. CASE marker \notin 1 .. 9
  <2> DEFINE data == <<marker>> \o bytes
  <2>1. v = Value("unknown", data, <<>>)
    BY <1>6 DEF Made, Marker
  <2>2. data[1] = marker /\ Tail(data) = bytes
    <3>1. <<marker>> \in Seq(Byte) /\ Len(<<marker>>) = 1
      OBVIOUS
    <3>2. data \in Seq(Byte) /\ data # <<>> /\ data[1] = marker
      OBVIOUS
    <3>3. Tail(data) = bytes
      <4>1. data = Append(<<>>, marker) \o bytes
        OBVIOUS
      <4>2. /\ Len(data) = 1 + Len(bytes)
            /\ \A i \in 1 .. Len(bytes) : data[i + 1] = bytes[i]
        BY <1>1
      <4> HIDE DEF data
      <4>3. /\ Tail(data) \in Seq(Byte) /\ Len(Tail(data)) = Len(bytes)
            /\ \A i \in 1 .. Len(bytes) : Tail(data)[i] = data[i + 1]
        BY <1>1, <3>2, <4>2
      <4>4. QED BY <4>2, <4>3, SeqEqual
    <3>4. QED BY <3>2, <3>3
  <2> HIDE DEF data
  <2> HIDE DEF v
  <2>3. WriteValue(write, v) = Written(marker, bytes)
    <3>1. v.type = "unknown" /\ v.data = data
      BY <2>1 DEF Value
    <3>2. WriteValue(write, v) = Written(v.data[1], Tail(v.data))
      BY <3>1 DEF WriteValue
    <3>3. QED BY <2>2, <3>1, <3>2
  <2>4. Goes(v, write, marker, bytes)
    BY <2>3 DEF Goes, v
  <2>5. QED BY <1>1, <2>4 DEF v
<1>7. marker \in {4, 6, 8} \/ marker \in {2, 3, 9} \/ marker = 1 \/ marker = 5
        \/ marker = 7 \/ marker \notin 1 .. 9
  BY Bytes
<1>8. QED BY <1>1, <1>2, <1>3, <1>4, <1>5, <1>6, <1>7

-----------------------------------------------------------------------------
(* Lists.                                                                  *)

(* Bytes not three times as long as what was read from p to q.             *)
Short(w, p, q) == w \in Seq(Byte) /\ Len(w) <= 3 * (q - p)

(* The wire can tell the length of anything so short.                      *)
Room(p, q) == 3 * (q - p) < Power[IntBytes]

(* Wherever these bytes stand, this is read.                               *)
Arrives(one, x, w) ==
  \A data \in Seq(Byte), p \in Nat :
    Stands(w, data, p) => one[data][p] = Got(x, p + Len(w))

(* Whatever is read can be written and read again.                         *)
Rewrites(one, writeOne) ==
  \A data \in Seq(Byte), p \in Nat : one[data][p].ok =>
    /\ Short(writeOne[one[data][p].val], p, one[data][p].next)
    /\ Room(p, one[data][p].next) =>
         Arrives(one, one[data][p].val, writeOne[one[data][p].val])

ListArrives(read, kind, n, list, w) ==
  \A data \in Seq(Byte), p \in Nat :
    Stands(w, data, p) => ReadList(read, kind, n, data, p) = Got(list, p + Len(w))

(* What the things of a list are written as.                               *)
Parts(write, kind, list) == [i \in DOMAIN list |-> write[kind][list[i]]]

(* The parts of a longer list.                                             *)
LEMMA PartsGoOn ==
  ASSUME NEW write, NEW kind, NEW T, NEW first \in T, NEW others \in Seq(T),
         write[kind][first] \in Seq(Byte),
         Parts(write, kind, others) \in Seq(Seq(Byte))
  PROVE  /\ Parts(write, kind, <<first>> \o others) =
              <<write[kind][first]>> \o Parts(write, kind, others)
         /\ Parts(write, kind, <<first>> \o others) \in Seq(Seq(Byte))
<1> DEFINE list == <<first>> \o others
           w == write[kind][first]
           ws == Parts(write, kind, others)
           a == Parts(write, kind, list)
           one == <<w>>
           b == one \o ws
           n == Len(others)
<1>1. n \in Nat /\ DOMAIN others = 1 .. n
  OBVIOUS
<1>2. /\ list \in Seq(T) /\ Len(list) = n + 1 /\ DOMAIN list = 1 .. n + 1
      /\ list[1] = first /\ \A i \in 1 .. n : list[i + 1] = others[i]
  OBVIOUS
<1>3. ws \in Seq(Seq(Byte)) /\ DOMAIN ws = 1 .. n /\ Len(ws) = n
  <2>1. ws \in Seq(Seq(Byte)) /\ DOMAIN ws = DOMAIN others
    BY DEF Parts
  <2>2. DOMAIN ws = 1 .. Len(ws) /\ Len(ws) \in Nat
    BY <2>1
  <2>3. 1 .. n = 1 .. Len(ws)
    BY <1>1, <2>1, <2>2
  <2> HIDE DEF ws, n
  <2>4. n = Len(ws)
    <3> DEFINE m == Len(ws)
    <3>1. m \in Nat /\ n \in Nat /\ 1 .. n = 1 .. m
      BY <1>1, <2>2, <2>3
    <3> HIDE DEF m
    <3>2. ~ (m < n)
      <4>1. SUFFICES ASSUME m < n PROVE FALSE
        OBVIOUS
      <4>2. n \in 1 .. n /\ n \notin 1 .. m
        BY <3>1, <4>1
      <4>3. QED BY <3>1, <4>2
    <3>3. ~ (n < m)
      <4>1. SUFFICES ASSUME n < m PROVE FALSE
        OBVIOUS
      <4>2. m \in 1 .. m /\ m \notin 1 .. n
        BY <3>1, <4>1
      <4>3. QED BY <3>1, <4>2
    <3>4. m = n
      BY <3>1, <3>2, <3>3, SMTT(30)
    <3>5. QED BY <3>4 DEF m
  <2>5. QED BY <1>1, <2>1, <2>4
<1>4. \A i \in 1 .. n : ws[i] = write[kind][others[i]]
  BY <1>1 DEF Parts
<1>5. one \in Seq(Seq(Byte)) /\ Len(one) = 1 /\ one[1] = w
  OBVIOUS
<1>6. /\ DOMAIN a = 1 .. n + 1
      /\ \A i \in 1 .. n + 1 : a[i] = write[kind][list[i]]
      /\ a = [i \in 1 .. n + 1 |-> write[kind][list[i]]]
  <2> HIDE DEF n, list
  <2>1. a = [i \in DOMAIN list |-> write[kind][list[i]]]
    BY DEF Parts
  <2> HIDE DEF a
  <2>2. QED BY <1>2, <2>1
<1> HIDE DEF ws, one
<1>7. /\ b \in Seq(Seq(Byte)) /\ Len(b) = 1 + n
      /\ b[1] = w /\ \A i \in 1 .. n : b[i + 1] = ws[i]
  <2>1. /\ b \in Seq(Seq(Byte)) /\ Len(b) = Len(one) + Len(ws)
        /\ \A i \in 1 .. Len(one) + Len(ws) :
             b[i] = IF i <= Len(one) THEN one[i] ELSE ws[i - Len(one)]
    BY <1>3, <1>5, ConcatProperties
  <2> HIDE DEF b, n, w
  <2>2. 1 \in 1 .. 1 + n
    BY <1>1
  <2>3. ASSUME NEW i \in 1 .. n PROVE b[i + 1] = ws[i]
    <3>1. i + 1 \in 1 .. 1 + n /\ ~ (i + 1 <= 1) /\ (i + 1) - 1 = i
      BY <1>1
    <3>2. QED BY <1>3, <1>5, <2>1, <3>1
  <2>4. QED BY <1>3, <1>5, <2>1, <2>2, <2>3
<1> HIDE DEF n, b, a, list, w
<1>8. \A i \in 1 .. n + 1 : a[i] = b[i]
  <2>1. TAKE i \in 1 .. n + 1
  <2>2. CASE i = 1
    BY <1>2, <1>6, <1>7, <2>2 DEF w
  <2>3. CASE i # 1
    <3> DEFINE j == i - 1
    <3>1. j \in 1 .. n /\ i = j + 1
      BY <1>1, <2>3
    <3> HIDE DEF j
    <3>2. a[i] = write[kind][list[j + 1]] /\ b[i] = ws[j]
      BY <1>6, <1>7, <3>1
    <3>3. QED BY <1>2, <1>4, <3>1, <3>2
  <2>4. QED BY <2>2, <2>3
<1>9. a = b
  <2>1. b = [i \in 1 .. n + 1 |-> b[i]]
    <3>1. DOMAIN b = 1 .. Len(b) /\ b = [i \in DOMAIN b |-> b[i]]
      BY <1>7
    <3>2. Len(b) = n + 1
      BY <1>1, <1>7
    <3>3. QED BY <3>1, <3>2
  <2>2. \A i \in 1 .. n + 1 : write[kind][list[i]] = b[i]
    BY <1>6, <1>8
  <2>3. [i \in 1 .. n + 1 |-> write[kind][list[i]]] = [i \in 1 .. n + 1 |-> b[i]]
    BY <2>2
  <2>4. QED BY <1>6, <2>1, <2>3
<1>10. QED BY <1>7, <1>9 DEF a, b, list, one, w, ws

(* Two things that were read in a row: what they are written as is short,  *)
(* and there is room for either if there is for both.                      *)
LEMMA ShortInARow ==
  ASSUME NEW a, NEW b, NEW p \in Nat, NEW q \in Nat, NEW s \in Nat,
         p <= q, q <= s, Short(a, p, q), Short(b, q, s)
  PROVE  /\ Short(a \o b, p, s) /\ a \in Seq(Byte) /\ b \in Seq(Byte)
         /\ Room(p, s) => Room(p, q) /\ Room(q, s)
<1>1. /\ a \in Seq(Byte) /\ Len(a) <= 3 * (q - p)
      /\ b \in Seq(Byte) /\ Len(b) <= 3 * (s - q)
  BY DEF Short
<1>2. a \o b \in Seq(Byte) /\ Len(a \o b) = Len(a) + Len(b)
  BY <1>1, ConcatProperties
<1>3. Len(a) \in Nat /\ Len(b) \in Nat
  BY <1>1
<1> DEFINE m == Len(a)
           n == Len(b)
<1> HIDE DEF m, n
<1>4. m + n <= 3 * (s - p)
  <2>1. m \in Nat /\ n \in Nat /\ m <= 3 * (q - p) /\ n <= 3 * (s - q)
    BY <1>1, <1>3 DEF m, n
  <2>2. QED BY <2>1
<1>5. Short(a \o b, p, s)
  BY <1>2, <1>4 DEF Short, m, n
<1>6. Room(p, s) => Room(p, q) /\ Room(q, s)
  <2>1. Power[IntBytes] \in Int
    BY WireWidths
  <2>2. QED BY <2>1 DEF Room
<1>7. QED BY <1>1, <1>5, <1>6

(* How a list of m things is read: the first, then the n others.           *)
GoesOn(read, kind, n, m, data, p) ==
  LET first == read[kind][data][p]
      others == ReadList(read, kind, n, data, first.next)
  IN  /\ ReadList(read, kind, m, data, p).ok => first.ok /\ others.ok
      /\ first.ok /\ others.ok =>
           ReadList(read, kind, m, data, p) =
             Got(<<first.val>> \o others.val, others.next)

(* A list goes on so.                                                      *)
LEMMA ListUnfolds ==
  ASSUME NEW read, NEW kind, NEW data, NEW p \in Nat, NEW n \in Nat, NEW m,
         m = n + 1
  PROVE  GoesOn(read, kind, n, m, data, p)
BY ListGoesOn DEF GoesOn

(* One thing, and the others behind it, wherever both stand in a row.      *)
LEMMA ListGoesOnArriving ==
  ASSUME NEW read, NEW kind, NEW n \in Nat, NEW m, m = n + 1, NEW x,
         NEW others, NEW a \in Seq(Byte), NEW b \in Seq(Byte),
         Arrives(read[kind], x, a), ListArrives(read, kind, n, others, b)
  PROVE  ListArrives(read, kind, m, <<x>> \o others, a \o b)
<1>1. SUFFICES ASSUME NEW data \in Seq(Byte), NEW p \in Nat,
                      Stands(a \o b, data, p)
               PROVE  ReadList(read, kind, m, data, p) =
                        Got(<<x>> \o others, p + Len(a \o b))
  BY DEF ListArrives
<1> DEFINE q == p + Len(a)
<1>2. /\ Stands(a, data, p) /\ Stands(b, data, q) /\ q \in Nat
      /\ p + Len(a \o b) = q + Len(b)
  <2>1. /\ Stands(a, data, p) /\ Stands(b, data, p + Len(a))
        /\ p + Len(a) \in Nat /\ p + Len(a) <= Len(data)
        /\ Len(a \o b) = Len(a) + Len(b) /\ a \o b \in Seq(Byte)
        /\ p + Len(a \o b) = (p + Len(a)) + Len(b)
    BY <1>1, PartsStand
  <2>2. QED BY <2>1
<1> DEFINE first == read[kind][data][p]
           rest == ReadList(read, kind, n, data, first.next)
<1>3. first = Got(x, q)
  BY <1>2 DEF Arrives
<1> HIDE DEF q
<1>4. first.ok /\ first.val = x /\ first.next = q
  <2> HIDE DEF first
  <2>1. QED BY <1>3, Results
<1>5. rest = Got(others, q + Len(b))
  <2> HIDE DEF first
  <2>1. QED BY <1>2, <1>4 DEF ListArrives
<1>6. /\ ReadList(read, kind, m, data, p).ok => first.ok /\ rest.ok
      /\ first.ok /\ rest.ok =>
           ReadList(read, kind, m, data, p) =
             Got(<<first.val>> \o rest.val, rest.next)
  <2>1. GoesOn(read, kind, n, m, data, p)
    BY ListUnfolds
  <2>2. QED BY <2>1 DEF GoesOn
<1> HIDE DEF first, rest
<1>7. rest.ok /\ rest.val = others /\ rest.next = q + Len(b)
  BY <1>5, Results
<1>8. QED BY <1>2, <1>4, <1>6, <1>7

(* What is read as a list is written as the things in it, one after        *)
(* another, and can be read again as the list.                             *)
LEMMA ListsRewritten ==
  ASSUME NEW read, NEW write, NEW kind, NEW T, NEW data \in Seq(Byte),
         Reads(read[kind][data], T, data), Rewrites(read[kind], write[kind])
  PROVE  \A n \in Nat, p \in 0 .. Len(data) :
           LET r == ReadList(read, kind, n, data, p)
               ws == Parts(write, kind, r.val)
           IN  r.ok => /\ ws \in Seq(Seq(Byte))
                       /\ Short(FlattenSeq(ws), p, r.next)
                       /\ Room(p, r.next) =>
                            ListArrives(read, kind, n, r.val, FlattenSeq(ws))
<1> DEFINE List(n, p) == ReadList(read, kind, n, data, p)
           Ws(n, p) == Parts(write, kind, List(n, p).val)
           Fine(n, p) ==
             List(n, p).ok =>
               /\ Ws(n, p) \in Seq(Seq(Byte))
               /\ Short(FlattenSeq(Ws(n, p)), p, List(n, p).next)
               /\ Room(p, List(n, p).next) =>
                    ListArrives(read, kind, n, List(n, p).val,
                                FlattenSeq(Ws(n, p)))
           S == {n \in Nat : \A p \in 0 .. Len(data) : Fine(n, p)}
<1>1. Len(data) \in Nat
  OBVIOUS
<1>2. 0 \in S
  <2>1. ASSUME NEW p \in 0 .. Len(data) PROVE Fine(0, p)
    <3>1. p \in Nat
      BY <1>1
    <3>2. List(0, p) = Got(<<>>, p)
      BY <3>1, ListBegins
    <3> HIDE DEF List
    <3>3. List(0, p).val = <<>> /\ List(0, p).next = p
      BY <3>2, Results
    <3>4. Ws(0, p) = <<>>
      BY <3>3 DEF Parts
    <3>5. <<>> \in Seq(Seq(Byte)) /\ <<>> \in Seq(Byte)
      OBVIOUS
    <3>6. FlattenSeq(<<>>) = <<>>
      BY <3>5, JoiningOthers
    <3>7. Short(<<>>, p, p)
      <4>1. Len(<<>>) = 0 /\ p - p = 0
        BY <3>1
      <4>2. QED BY <3>5, <4>1 DEF Short
    <3>8. ListArrives(read, kind, 0, <<>>, <<>>)
      <4>1. SUFFICES ASSUME NEW data2 \in Seq(Byte), NEW p2 \in Nat
                     PROVE  ReadList(read, kind, 0, data2, p2) =
                              Got(<<>>, p2 + Len(<<>>))
        BY DEF ListArrives
      <4>2. p2 + Len(<<>>) = p2
        OBVIOUS
      <4>3. QED BY <4>2, ListBegins
    <3> HIDE DEF Ws
    <3>9. QED BY <3>3, <3>4, <3>5, <3>6, <3>7, <3>8
  <2>2. QED BY <2>1
<1>3. ASSUME NEW n \in Nat, n \in S PROVE n + 1 \in S
  <2> DEFINE m == n + 1
  <2>1. m \in Nat /\ m = n + 1
    OBVIOUS
  <2> HIDE DEF m
  <2>2. ASSUME NEW p \in 0 .. Len(data), List(m, p).ok
        PROVE  /\ Ws(m, p) \in Seq(Seq(Byte))
               /\ Short(FlattenSeq(Ws(m, p)), p, List(m, p).next)
               /\ Room(p, List(m, p).next) =>
                    ListArrives(read, kind, m, List(m, p).val,
                                FlattenSeq(Ws(m, p)))
    <3> DEFINE first == read[kind][data][p]
               q == first.next
               others == List(n, q)
               r == List(m, p)
               a == write[kind][first.val]
               ws == Ws(n, q)
               b == FlattenSeq(ws)
    <3>1. p \in Nat
      BY <1>1
    <3>2. first.ok /\ others.ok /\ r = Got(<<first.val>> \o others.val, others.next)
      <4>1. /\ r.ok => first.ok /\ others.ok
            /\ first.ok /\ others.ok =>
                 r = Got(<<first.val>> \o others.val, others.next)
        <5>1. GoesOn(read, kind, n, m, data, p)
          BY <2>1, <3>1, ListUnfolds
        <5>2. QED BY <5>1 DEF GoesOn
      <4>2. QED BY <2>2, <4>1
    <3>3. first.val \in T /\ q \in p + 1 .. Len(data)
      <4>1. first.ok
        BY <3>2
      <4>2. QED BY <3>1, <4>1 DEF Reads
    <3>4. /\ Short(a, p, q)
          /\ Room(p, q) => Arrives(read[kind], first.val, a)
      BY <3>1, <3>2 DEF Rewrites
    <3>5. q \in 0 .. Len(data)
      <4> HIDE DEF q
      <4>1. QED BY <1>1, <3>1, <3>3
    <3>6. /\ ws \in Seq(Seq(Byte)) /\ Short(b, q, others.next)
          /\ Room(q, others.next) => ListArrives(read, kind, n, others.val, b)
      <4>1. Fine(n, q)
        BY <1>3, <3>5
      <4>2. QED BY <3>2, <4>1
    <3>7. others.val \in Seq(T) /\ others.next \in q + n .. Len(data)
      <4> HIDE DEF q
      <4>1. QED BY <3>2, <3>5, ListsFit
    <3> HIDE DEF first, others, r
    <3>8. r.val = <<first.val>> \o others.val /\ r.next = others.next
      BY <3>2, Results
    <3> DEFINE vs == Parts(write, kind, r.val)
    <3>9. vs = <<a>> \o ws /\ vs \in Seq(Seq(Byte)) /\ a \in Seq(Byte)
      <4>1. a \in Seq(Byte)
        BY <3>4 DEF Short
      <4>2. ws = Parts(write, kind, others.val)
        BY DEF others
      <4> HIDE DEF ws
      <4> DEFINE x == first.val
                 xs == others.val
      <4>3. x \in T /\ xs \in Seq(T) /\ write[kind][x] \in Seq(Byte)
            /\ Parts(write, kind, xs) \in Seq(Seq(Byte))
        BY <3>3, <3>6, <3>7, <4>1, <4>2
      <4> HIDE DEF x, xs
      <4>4. /\ Parts(write, kind, <<x>> \o xs) =
                 <<write[kind][x]>> \o Parts(write, kind, xs)
            /\ Parts(write, kind, <<x>> \o xs) \in Seq(Seq(Byte))
        BY <4>3, PartsGoOn
      <4>5. QED BY <3>8, <4>1, <4>2, <4>4 DEF x, xs
    <3>10. FlattenSeq(vs) = a \o b
      <4> HIDE DEF vs, a, ws
      <4>1. FlattenSeq(<<a>> \o ws) = a \o FlattenSeq(ws)
        BY <3>6, <3>9, JoiningOthers
      <4>2. QED BY <3>9, <4>1
    <3> HIDE DEF q, a, ws, b, vs
    <3>11. /\ Short(a \o b, p, others.next) /\ b \in Seq(Byte)
           /\ Room(p, others.next) => Room(p, q) /\ Room(q, others.next)
      <4> DEFINE s == others.next
      <4>1. /\ q \in Nat /\ s \in Nat /\ p <= q /\ q <= s
        <5> HIDE DEF s
        <5>1. s \in q + n .. Len(data)
          BY <3>7 DEF s
        <5>2. q \in p + 1 .. Len(data)
          BY <3>3 DEF q
        <5>3. QED BY <1>1, <3>1, <5>1, <5>2
      <4>2. Short(a, p, q) /\ Short(b, q, s)
        BY <3>4, <3>6 DEF q
      <4> HIDE DEF s
      <4>3. /\ Short(a \o b, p, s) /\ a \in Seq(Byte) /\ b \in Seq(Byte)
            /\ Room(p, s) => Room(p, q) /\ Room(q, s)
        BY <3>1, <4>1, <4>2, ShortInARow
      <4>4. QED BY <4>3 DEF s
    <3>12. Room(p, others.next) =>
             ListArrives(read, kind, m, <<first.val>> \o others.val, a \o b)
      <4>1. SUFFICES ASSUME Room(p, others.next)
                     PROVE  ListArrives(read, kind, m,
                                        <<first.val>> \o others.val, a \o b)
        OBVIOUS
      <4>2. /\ Arrives(read[kind], first.val, a)
            /\ ListArrives(read, kind, n, others.val, b)
        BY <3>4, <3>6, <3>11, <4>1
      <4>3. QED BY <2>1, <3>9, <3>11, <4>2, ListGoesOnArriving
    <3>13. /\ vs \in Seq(Seq(Byte)) /\ Short(FlattenSeq(vs), p, r.next)
           /\ Room(p, r.next) =>
                ListArrives(read, kind, m, r.val, FlattenSeq(vs))
      BY <3>8, <3>9, <3>10, <3>11, <3>12
    <3>14. QED BY <3>13 DEF vs, r
  <2>3. m \in S
    <3> HIDE DEF List, Ws
    <3>1. QED BY <2>1, <2>2
  <2>4. QED BY <2>3 DEF m
<1>4. \A n \in Nat : n \in S
  <2> HIDE DEF S
  <2>1. QED BY <1>2, <1>3, Counting
<1>5. QED BY <1>4

(* A count that was read is written shortly.                               *)
LEMMA CountWritten ==
  ASSUME NEW data \in Seq(Byte), NEW p \in Nat, ReadCount(data, p).ok
  PROVE  /\ Short(WriteCompressedInt(ReadCount(data, p).val), p,
                  ReadCount(data, p).next)
         /\ ReadCount(data, p).val \in Nat
         /\ ReadCount(data, p).val < Power[IntBytes]
         /\ ReadCount(data, p).next \in Nat /\ p < ReadCount(data, p).next
         /\ ReadCount(data, p).next <= Len(data)
<1> DEFINE r == ReadCount(data, p)
           n == r.val
           q == r.next
           w == WriteCompressedInt(n)
<1>1. n \in 0 .. Power[IntBytes] - 1 /\ q \in p + 1 .. Len(data) /\ (n # 0 => q >= p + 2)
  BY CountsFit
<1> HIDE DEF n, q
<1>2. n \in Nat /\ n < Power[IntBytes] /\ q \in Nat /\ p < q /\ q <= Len(data)
  <2>1. Power[IntBytes] \in Nat /\ Len(data) \in Nat
    BY WireWidths
  <2>2. QED BY <1>1, <2>1
<1>3. /\ w \in Seq(Byte) /\ Len(w) \in 1 .. 5 /\ (n = 0 => w = <<0>>)
  BY <1>2, CompressedIntLength
<1> HIDE DEF w
<1>4. Len(w) <= 3 * (q - p)
  <2>1. CASE n = 0
    <3>1. Len(w) = 1
      <4>1. Len(<<0>>) = 1
        OBVIOUS
      <4>2. QED BY <1>3, <2>1, <4>1
    <3>2. QED BY <1>2, <3>1
  <2>2. CASE n # 0
    <3> DEFINE m == Len(w)
    <3>1. m \in 1 .. 5 /\ q >= p + 2
      BY <1>1, <1>3, <2>2
    <3> HIDE DEF m
    <3>2. m <= 3 * (q - p)
      BY <1>2, <3>1
    <3>3. QED BY <3>2 DEF m
  <2>3. QED BY <2>1, <2>2
<1>5. QED BY <1>2, <1>3, <1>4 DEF Short, n, q, w

CountedArrives(read, kind, list, w) ==
  \A data \in Seq(Byte), p \in Nat :
    Stands(w, data, p) => ReadCounted(read, kind, data, p) = Got(list, p + Len(w))

(* A count and the things it counts, wherever they stand.                  *)
LEMMA CountedArriving ==
  ASSUME NEW read, NEW kind, NEW n \in Nat, n < Power[IntBytes], NEW list,
         NEW w \in Seq(Byte), ListArrives(read, kind, n, list, w)
  PROVE  CountedArrives(read, kind, list, WriteCompressedInt(n) \o w)
<1> DEFINE c == WriteCompressedInt(n)
<1>1. c \in Seq(Byte)
  BY CompressedIntLength
<1>2. SUFFICES ASSUME NEW data \in Seq(Byte), NEW p \in Nat, Stands(c \o w, data, p)
               PROVE  ReadCounted(read, kind, data, p) = Got(list, p + Len(c \o w))
  BY DEF CountedArrives
<1> DEFINE q == p + Len(c)
<1> HIDE DEF c
<1>3. /\ Stands(c, data, p) /\ Stands(w, data, q) /\ q \in Nat
      /\ p + Len(c \o w) = q + Len(w)
  <2>1. /\ Stands(c, data, p) /\ Stands(w, data, p + Len(c))
        /\ p + Len(c) \in Nat /\ p + Len(c) <= Len(data)
        /\ Len(c \o w) = Len(c) + Len(w) /\ c \o w \in Seq(Byte)
        /\ p + Len(c \o w) = (p + Len(c)) + Len(w)
    BY <1>1, <1>2, PartsStand
  <2>2. QED BY <2>1
<1>4. ReadCount(data, p) = Got(n, q)
  BY <1>3, CompressedIntArrives DEF c
<1> HIDE DEF q
<1>5. ReadList(read, kind, n, data, q) = Got(list, q + Len(w))
  BY <1>3 DEF ListArrives
<1> DEFINE count == ReadCount(data, p)
<1>6. ReadCounted(read, kind, data, p) =
        IF count.ok THEN ReadList(read, kind, count.val, data, count.next)
        ELSE Nothing
  BY CountedIs
<1>7. count.ok /\ count.val = n /\ count.next = q
  BY <1>4, Results
<1> HIDE DEF count
<1>8. QED BY <1>3, <1>5, <1>6, <1>7

(* What was read with a count is written shortly, and read again.          *)
LEMMA CountedRewritten ==
  ASSUME NEW read, NEW write, NEW kind, NEW T, NEW data \in Seq(Byte),
         NEW p \in Nat, Reads(read[kind][data], T, data),
         Rewrites(read[kind], write[kind]), ReadCounted(read, kind, data, p).ok
  PROVE  LET r == ReadCounted(read, kind, data, p)
             w == WriteCounted(write, kind, r.val)
         IN  /\ Short(w, p, r.next)
             /\ Room(p, r.next) => CountedArrives(read, kind, r.val, w)
<1> DEFINE r == ReadCounted(read, kind, data, p)
           count == ReadCount(data, p)
           n == count.val
           q == count.next
           list == ReadList(read, kind, n, data, q)
           ws == Parts(write, kind, list.val)
           b == FlattenSeq(ws)
           a == WriteCompressedInt(n)
<1>1. r = IF count.ok THEN list ELSE Nothing
  BY CountedIs
<1>2. count.ok /\ r = list
  <2>1. r.ok
    OBVIOUS
  <2> HIDE DEF r, count, list
  <2>2. QED BY <1>1, <2>1, Results
<1>3. Short(a, p, q) /\ n \in Nat /\ n < Power[IntBytes] /\ q \in Nat /\ p < q
      /\ q <= Len(data)
  BY <1>2, CountWritten
<1> HIDE DEF n, q
<1>4. list.ok
  BY <1>2
<1>5. q \in 0 .. Len(data) /\ Len(data) \in Nat
  BY <1>3
<1>6. /\ Short(b, q, list.next)
      /\ Room(q, list.next) => ListArrives(read, kind, n, list.val, b)
  BY <1>3, <1>4, <1>5, ListsRewritten
<1>7. Len(list.val) = n /\ list.next \in q + n .. Len(data)
  BY <1>3, <1>4, <1>5, ListsFit
<1>8. WriteCounted(write, kind, list.val) = a \o b
  BY <1>7 DEF WriteCounted, Parts
<1> DEFINE s == list.next
<1>9. s \in Nat /\ q <= s /\ p <= q
  <2> HIDE DEF list
  <2>1. s \in q + n .. Len(data)
    BY <1>7
  <2> HIDE DEF s
  <2>2. QED BY <1>3, <1>5, <2>1
<1> HIDE DEF list, b, a, r, ws
<1>10. /\ Short(a \o b, p, s) /\ b \in Seq(Byte)
       /\ Room(p, s) => Room(p, q) /\ Room(q, s)
  <2> HIDE DEF s
  <2>1. Short(a, p, q) /\ Short(b, q, s)
    BY <1>3, <1>6 DEF s
  <2>2. /\ Short(a \o b, p, s) /\ a \in Seq(Byte) /\ b \in Seq(Byte)
        /\ Room(p, s) => Room(p, q) /\ Room(q, s)
    BY <1>3, <1>9, <2>1, ShortInARow
  <2>3. QED BY <2>2
<1>11. Room(p, s) => CountedArrives(read, kind, list.val, a \o b)
  <2>1. SUFFICES ASSUME Room(p, s)
                 PROVE  CountedArrives(read, kind, list.val, a \o b)
    OBVIOUS
  <2>2. ListArrives(read, kind, n, list.val, b) /\ b \in Seq(Byte)
    BY <1>6, <1>10, <2>1
  <2>3. QED BY <1>3, <2>2, CountedArriving DEF a
<1>12. QED BY <1>2, <1>8, <1>10, <1>11 DEF r

-----------------------------------------------------------------------------
(* Values.                                                                 *)

ValueArrives(read, v, w) ==
  \A data \in Seq(Byte), p \in Nat :
    Stands(w, data, p) => ReadValue(read, data, p) = Got(v, p + Len(w))

(* A value made of bytes is read where it is written.                      *)
LEMMA GoesArrives ==
  ASSUME NEW read, NEW write, NEW v, NEW m \in Byte, NEW bytes \in Seq(Byte),
         Goes(v, write, m, bytes), 1 + Len(bytes) < Power[IntBytes]
  PROVE  ValueArrives(read, v, WriteValue(write, v))
<1>1. SUFFICES ASSUME NEW data \in Seq(Byte), NEW p \in Nat,
                      Stands(Written(m, bytes), data, p)
               PROVE  ReadValue(read, data, p) = Got(v, p + Len(Written(m, bytes)))
  BY DEF ValueArrives, Goes
<1>2. /\ Made(m, bytes) = v /\ m # Marker.array
      /\ Len(bytes) = Width(m, Len(bytes)) /\ (m = Marker.string => IsText(bytes))
  BY DEF Goes
<1>3. ReadValue(read, data, p) =
        Got(Made(m, bytes), p + Len(Written(m, bytes)))
  BY <1>1, <1>2, PlainArrives
<1>4. QED BY <1>2, <1>3

(* A value that was made of no more bytes than were read is written        *)
(* shortly and read again.                                                 *)
LEMMA GoesShortly ==
  ASSUME NEW read, NEW write, NEW v, NEW m \in Byte, NEW bytes \in Seq(Byte),
         Goes(v, write, m, bytes), NEW p \in Nat, NEW s \in Nat,
         (Len(bytes) = 0 /\ p + 1 <= s) \/ p + 2 + Len(bytes) <= s
  PROVE  /\ Short(WriteValue(write, v), p, s)
         /\ Room(p, s) => ValueArrives(read, v, WriteValue(write, v))
<1> DEFINE w == Written(m, bytes)
           n == Len(bytes)
           k == Len(WriteCompressedInt(1 + n))
<1>1. w = WriteValue(write, v)
  BY DEF Goes
<1>2. /\ w \in Seq(Byte) /\ Len(w) = k + (1 + n) /\ k \in 1 .. 5
      /\ n = 0 => k = 2
  <2>1. n = 0 => WriteCompressedInt(1 + n) = <<1, 1>>
    <3>1. 1 \in Nat /\ 1 \in 1 .. 255
      OBVIOUS
    <3>2. WriteCompressedInt(1) = <<1, 1>>
      BY <3>1, CompressedIntLength
    <3> HIDE DEF n
    <3>3. QED BY <3>2
  <2>2. Len(<<1, 1>>) = 2
    OBVIOUS
  <2>3. QED BY <2>1, <2>2, WrittenLength
<1>3. n \in Nat /\ ((n = 0 /\ p + 1 <= s) \/ p + 2 + n <= s)
  OBVIOUS
<1> HIDE DEF w, n, k
<1>4. Len(w) <= 3 * (s - p)
  <2>1. k + (1 + n) <= 3 * (s - p)
    BY <1>2, <1>3
  <2>2. QED BY <1>2, <2>1
<1>5. Room(p, s) => 1 + n < Power[IntBytes]
  <2>1. Power[IntBytes] \in Nat /\ Power[IntBytes] >= 256
    BY WireWidths
  <2>2. QED BY <1>3, <2>1 DEF Room
<1>6. QED BY <1>1, <1>2, <1>4, <1>5, GoesArrives DEF Short, n

(* An array is written as its things, and read again.                      *)
LEMMA ArrayArrives ==
  ASSUME NEW read, NEW items, NEW bytes \in Seq(Byte),
         CountedArrives(read, "value", items, bytes),
         1 + Len(bytes) < Power[IntBytes]
  PROVE  ValueArrives(read, Value("array", <<>>, items),
                      Written(Marker.array, bytes))
<1>1. SUFFICES ASSUME NEW data \in Seq(Byte), NEW p \in Nat,
                      Stands(Written(Marker.array, bytes), data, p)
               PROVE  ReadValue(read, data, p) =
                        Got(Value("array", <<>>, items),
                            p + Len(Written(Marker.array, bytes)))
  BY DEF ValueArrives
<1>2. Marker.array \in Byte
  BY Bytes DEF Marker
<1>3. PICK q \in Nat :
        /\ ReadValue(read, data, p) =
             ReadMarked(read, Marker.array, Len(bytes), data, q)
        /\ Stands(bytes, data, q) /\ q <= Len(data)
        /\ p + Len(Written(Marker.array, bytes)) = q + Len(bytes)
  BY <1>1, <1>2, MarkerArrives
<1> DEFINE r == ReadCounted(read, "value", data, q)
<1>4. r = Got(items, q + Len(bytes))
  BY <1>3 DEF CountedArrives
<1>5. ReadMarked(read, Marker.array, Len(bytes), data, q) =
        IF r.ok THEN Got(Value("array", <<>>, r.val), r.next) ELSE Nothing
  BY DEF ReadMarked, Then
<1> HIDE DEF r
<1>6. r.ok /\ r.val = items /\ r.next = q + Len(bytes)
  BY <1>4, Results
<1>7. QED BY <1>3, <1>5, <1>6

(* What was read as a value is written shortly, and read again.            *)
LEMMA ValueRewritten ==
  ASSUME NEW read, NEW write, NEW T, NEW data \in Seq(Byte), NEW p \in Nat,
         Reads(read["value"][data], T, data),
         Rewrites(read["value"], write["value"]), ReadValue(read, data, p).ok
  PROVE  LET r == ReadValue(read, data, p)
             w == WriteValue(write, r.val)
         IN  /\ Short(w, p, r.next)
             /\ Room(p, r.next) => ValueArrives(read, r.val, w)
<1> DEFINE len == ReadCompressedInt(data, p)
           marker == data[len.next + 1]
           one == TakeBytes(data, len.next, 1)
           q == len.next + 1
           left == len.val - 1
           r == ReadValue(read, data, p)
<1>1. r = IF ~ len.ok THEN Nothing
          ELSE IF len.val <= 0 THEN Got(Plain("undefined"), len.next)
          ELSE IF ~ one.ok THEN Nothing
          ELSE ReadMarked(read, marker, left, data, q)
  BY ValueIs
<1>2. r.ok
  OBVIOUS
<1>3. len.ok
  <2> HIDE DEF len, r, one, marker
  <2>1. QED BY <1>1, <1>2, Results
<1>4. /\ len.val \in Int /\ len.next \in p + 1 .. Len(data)
      /\ len.val # 0 => len.next >= p + 2
  BY <1>3, CompressedIntsFit
<1> HIDE DEF len
<1>5. len.next \in Nat /\ Len(data) \in Nat /\ len.next <= Len(data)
      /\ p + 1 <= len.next
  BY <1>4
<1>6. CASE len.val <= 0
  <2> DEFINE v == Plain("undefined")
             s == len.next
  <2>1. r = Got(v, s)
    BY <1>1, <1>3, <1>6
  <2>2. r.val = v /\ r.next = s
    <3> HIDE DEF r
    <3>1. QED BY <2>1, Results
  <2>3. 9 \in Byte /\ <<>> \in Seq(Byte) /\ Len(<<>>) = 0
    BY Bytes
  <2>4. Goes(v, write, 9, <<>>)
    <3>1. WriteValue(write, v) = Written(9, <<>>)
      BY DEF WriteValue, Plain, Value, Marker
    <3>2. Made(9, <<>>) = v
      BY DEF Made, Marker
    <3>3. 9 # Marker.array /\ 9 # Marker.string
      BY DEF Marker
    <3>4. Width(9, 0) = 0
      BY DEF Width, Marker
    <3> HIDE DEF v
    <3>5. QED BY <2>3, <3>1, <3>2, <3>3, <3>4 DEF Goes
  <2> HIDE DEF v, s, r
  <2>5. s \in Nat /\ p + 1 <= s
    BY <1>5 DEF s
  <2>6. /\ Short(WriteValue(write, v), p, s)
        /\ Room(p, s) => ValueArrives(read, v, WriteValue(write, v))
    BY <2>3, <2>4, <2>5, GoesShortly
  <2>7. QED BY <2>2, <2>6 DEF r
<1>7. CASE ~ (len.val <= 0)
  <2>1. one.ok /\ r = ReadMarked(read, marker, left, data, q)
    <3> HIDE DEF one, r, marker, left, q
    <3>1. QED BY <1>1, <1>2, <1>3, <1>7, Results
  <2>2. /\ q \in Nat /\ q <= Len(data) /\ marker \in Byte /\ left \in Nat
        /\ p + 3 <= q
    <3>1. len.next + 1 <= Len(data) /\ marker \in 0 .. 255
      BY <1>5, <2>1, OneByteTaken
    <3>2. marker \in Byte
      BY <3>1, Bytes
    <3>3. left \in Nat
      BY <1>4, <1>7
    <3>4. len.next >= p + 2
      BY <1>4, <1>7
    <3> HIDE DEF marker, left
    <3>5. QED BY <1>5, <3>1, <3>2, <3>3, <3>4
  <2> HIDE DEF one, r, marker, left, q
  <2>3. CASE marker = Marker.array
    <3> DEFINE counted == ReadCounted(read, "value", data, q)
               items == counted.val
               s == counted.next
               v == Value("array", <<>>, items)
               b == WriteCounted(write, "value", items)
    <3>1. r = IF counted.ok THEN Got(v, s) ELSE Nothing
      BY <2>1, <2>3 DEF ReadMarked, Then
    <3>2. counted.ok
      <4> HIDE DEF counted
      <4>1. r.ok
        BY <1>2 DEF r
      <4>2. QED BY <3>1, <4>1, Results
    <3>3. /\ Short(b, q, s)
          /\ Room(q, s) => CountedArrives(read, "value", items, b)
      BY <2>2, <3>2, CountedRewritten
    <3>4. s \in q + 1 .. Len(data)
      BY <2>2, <3>2, CountedFit
    <3> HIDE DEF counted
    <3>5. r.val = v /\ r.next = s
      BY <3>1, <3>2, Results
    <3>6. WriteValue(write, v) = Written(Marker.array, b)
      BY DEF WriteValue, Value
    <3> HIDE DEF items, s, b, v
    <3>7. s \in Nat /\ q <= s
      BY <1>5, <2>2, <3>4
    <3> DEFINE w == Written(Marker.array, b)
               n == Len(b)
               k == Len(WriteCompressedInt(1 + n))
    <3>8. b \in Seq(Byte) /\ n \in Nat /\ n <= 3 * (s - q)
      BY <3>3 DEF Short
    <3>9. w \in Seq(Byte) /\ Len(w) = k + (1 + n) /\ k \in 1 .. 5
      <4>1. Marker.array \in Byte
        BY Bytes DEF Marker
      <4>2. QED BY <3>8, <4>1, WrittenLength
    <3> HIDE DEF w, n, k
    <3>10. Len(w) <= 3 * (s - p)
      <4>1. k + (1 + n) <= 3 * (s - p)
        BY <2>2, <3>7, <3>8, <3>9
      <4>2. QED BY <3>9, <4>1
    <3>11. Room(p, s) => 1 + n < Power[IntBytes] /\ Room(q, s)
      <4>1. Power[IntBytes] \in Nat
        BY WireWidths
      <4>2. QED BY <2>2, <3>7, <3>8, <4>1 DEF Room
    <3>12. Room(p, s) => ValueArrives(read, v, w)
      BY <3>3, <3>8, <3>11, ArrayArrives DEF v, w, n
    <3>13. Short(w, p, s)
      BY <3>9, <3>10 DEF Short
    <3>14. QED BY <3>5, <3>6, <3>12, <3>13 DEF r, w
  <2>4. CASE marker # Marker.array
    <3> DEFINE wide == Width(marker, left)
               taken == TakeBytes(data, q, wide)
               bytes == taken.val
               v == Made(marker, bytes)
               s == q + wide
    <3>1. r = ReadPlain(marker, left, data, q)
      BY <2>1, <2>4 DEF ReadMarked
    <3>2. wide \in Nat
      BY <2>2, WidthsAre
    <3>3. /\ r.ok => taken.ok /\ (marker = Marker.string => IsText(taken.val))
          /\ taken.ok /\ (marker = Marker.string => IsText(taken.val)) =>
               r = Got(Made(marker, taken.val), q + wide)
      <4>1. wide = Width(marker, left)
        OBVIOUS
      <4> HIDE DEF wide
      <4>2. QED BY <2>2, <3>1, <4>1, PlainIs
    <3>4. Width(marker, wide) = wide
      BY DEF Width
    <3> HIDE DEF wide
    <3>5. taken.ok /\ (marker = Marker.string => IsText(bytes)) /\ r = Got(v, s)
      <4>1. r.ok
        BY <1>2 DEF r
      <4>2. QED BY <3>3, <4>1
    <3>6. bytes \in Seq(Byte) /\ Len(bytes) = wide
      BY <2>2, <3>2, <3>5, BytesTaken
    <3> HIDE DEF taken
    <3>7. r.val = v /\ r.next = s
      BY <3>5, Results
    <3> HIDE DEF bytes
    <3>8. PICK m \in Byte, sent \in Seq(Byte) :
            Goes(v, write, m, sent) /\ Len(sent) <= Len(bytes) + 1
      <4>1. Len(bytes) = Width(marker, Len(bytes))
        BY <3>4, <3>6
      <4>2. QED BY <2>2, <2>4, <3>5, <3>6, <4>1, Rewritten
    <3> HIDE DEF v
    <3>9. s \in Nat /\ p + 2 + Len(sent) <= s
      <4> DEFINE n == Len(sent)
      <4>1. n \in Nat /\ n <= wide + 1
        BY <3>6, <3>8
      <4> HIDE DEF n
      <4>2. s \in Nat /\ p + 2 + n <= s
        BY <2>2, <3>2, <4>1
      <4>3. QED BY <4>2 DEF n
    <3> HIDE DEF s
    <3>10. /\ Short(WriteValue(write, v), p, s)
           /\ Room(p, s) => ValueArrives(read, v, WriteValue(write, v))
      BY <3>8, <3>9, GoesShortly
    <3>11. QED BY <3>7, <3>10 DEF r
  <2>5. QED BY <2>3, <2>4
<1>8. QED BY <1>6, <1>7

-----------------------------------------------------------------------------
(* Properties and nodes.                                                   *)

StringArrives(text, w) ==
  \A data \in Seq(Byte), p \in Nat :
    Stands(w, data, p) => ReadCString(data, p) = Got(text, p + Len(w))

(* A name that was read is written shortly, and read again.                *)
LEMMA CStringRewritten ==
  ASSUME NEW data \in Seq(Byte), NEW p \in Nat, ReadCString(data, p).ok
  PROVE  LET r == ReadCString(data, p)
             w == WriteCString(r.val)
         IN  /\ Short(w, p, r.next) /\ StringArrives(r.val, w)
             /\ r.next \in Nat /\ p < r.next /\ r.next <= Len(data)
<1> DEFINE r == ReadCString(data, p)
           text == r.val
           w == WriteCString(text)
           s == r.next
<1>1. /\ text \in Seq(Byte) /\ IsText(text) /\ s \in p + 1 .. Len(data)
      /\ s = p + 1 + Len(text) /\ \A i \in 1 .. Len(text) : text[i] # 0
  BY CStringsFit
<1> HIDE DEF text, s
<1>2. w \in Seq(Byte) /\ Len(w) = Len(text) + 1
  BY <1>1, CStringLength
<1>3. StringArrives(text, w)
  BY <1>1, CStringArrives DEF StringArrives
<1>4. s \in Nat /\ p < s /\ s <= Len(data)
  <2>1. Len(data) \in Nat
    OBVIOUS
  <2>2. QED BY <1>1, <2>1
<1> HIDE DEF w
<1>5. Len(w) <= 3 * (s - p)
  <2>1. Len(text) \in Nat
    BY <1>1
  <2> DEFINE n == Len(text)
  <2>2. n \in Nat /\ s = p + 1 + n
    BY <1>1, <2>1
  <2> HIDE DEF n
  <2>3. n + 1 <= 3 * (s - p)
    BY <2>2
  <2>4. QED BY <1>2, <2>3 DEF n
<1>6. QED BY <1>2, <1>3, <1>4, <1>5 DEF Short, text, s, w

PropertyArrives(read, x, w) ==
  \A data \in Seq(Byte), p \in Nat :
    Stands(w, data, p) => ReadProperty(read, data, p) = Got(x, p + Len(w))

(* A name and a value, wherever both stand in a row.                       *)
LEMMA PropertyArriving ==
  ASSUME NEW read, NEW name, NEW value, NEW a \in Seq(Byte), NEW b \in Seq(Byte),
         StringArrives(name, a), Arrives(read["value"], value, b)
  PROVE  PropertyArrives(read, [name |-> name, value |-> value], a \o b)
<1>1. SUFFICES ASSUME NEW data \in Seq(Byte), NEW p \in Nat, Stands(a \o b, data, p)
               PROVE  ReadProperty(read, data, p) =
                        Got([name |-> name, value |-> value], p + Len(a \o b))
  BY DEF PropertyArrives
<1> DEFINE q == p + Len(a)
<1>2. /\ Stands(a, data, p) /\ Stands(b, data, q) /\ q \in Nat
      /\ p + Len(a \o b) = q + Len(b)
  <2>1. /\ Stands(a, data, p) /\ Stands(b, data, p + Len(a))
        /\ p + Len(a) \in Nat /\ p + Len(a) <= Len(data)
        /\ Len(a \o b) = Len(a) + Len(b) /\ a \o b \in Seq(Byte)
        /\ p + Len(a \o b) = (p + Len(a)) + Len(b)
    BY <1>1, PartsStand
  <2>2. QED BY <2>1
<1> DEFINE first == ReadCString(data, p)
           second == read["value"][data][first.next]
<1>3. first = Got(name, q)
  BY <1>2 DEF StringArrives
<1> HIDE DEF q
<1>4. ReadProperty(read, data, p) =
        IF ~ first.ok THEN Nothing ELSE IF ~ second.ok THEN Nothing
        ELSE Got([name |-> first.val, value |-> second.val], second.next)
  BY PropertyIs
<1> HIDE DEF first
<1>5. first.ok /\ first.val = name /\ first.next = q
  BY <1>3, Results
<1>6. second = Got(value, q + Len(b))
  BY <1>2, <1>5 DEF Arrives
<1> HIDE DEF second
<1>7. second.ok /\ second.val = value /\ second.next = q + Len(b)
  BY <1>6, Results
<1>8. QED BY <1>2, <1>4, <1>5, <1>7

(* What was read as a property is written shortly, and read again.         *)
LEMMA PropertyRewritten ==
  ASSUME NEW read, NEW write, NEW T, NEW data \in Seq(Byte), NEW p \in Nat,
         Reads(read["value"][data], T, data),
         Rewrites(read["value"], write["value"]), ReadProperty(read, data, p).ok
  PROVE  LET r == ReadProperty(read, data, p)
             w == WriteProperty(write, r.val)
         IN  /\ Short(w, p, r.next)
             /\ Room(p, r.next) => PropertyArrives(read, r.val, w)
<1> DEFINE name == ReadCString(data, p)
           q == name.next
           value == read["value"][data][q]
           r == ReadProperty(read, data, p)
           a == WriteCString(name.val)
           b == write["value"][value.val]
           s == value.next
<1>1. /\ name.ok /\ name.next \in Nat /\ p < name.next
      /\ value.ok /\ name.next < value.next
      /\ r.val = [name |-> name.val, value |-> value.val]
      /\ r.val \in [name : Seq(Byte), value : T]
      /\ r.next = value.next /\ r.next \in p + 1 .. Len(data)
  BY PropertiesFit
<1>2. Short(a, p, q) /\ StringArrives(name.val, a)
  BY <1>1, CStringRewritten
<1>3. Short(b, q, s) /\ (Room(q, s) => Arrives(read["value"], value.val, b))
  BY <1>1 DEF Rewrites
<1>4. WriteProperty(write, r.val) = a \o b
  <2> HIDE DEF name, value, r
  <2>1. r.val.name = name.val /\ r.val.value = value.val
    BY <1>1
  <2>2. QED BY <2>1 DEF WriteProperty
<1> HIDE DEF name, value, r, a, b
<1>5. q \in Nat /\ s \in Nat /\ p <= q /\ q <= s
  <2>1. Len(data) \in Nat /\ s \in p + 1 .. Len(data)
    BY <1>1
  <2> HIDE DEF q, s
  <2>2. s \in Nat
    BY <2>1
  <2>3. q \in Nat /\ p < q /\ q < s
    BY <1>1 DEF q, s
  <2>4. QED BY <2>2, <2>3
<1>6. /\ Short(a \o b, p, s) /\ a \in Seq(Byte) /\ b \in Seq(Byte)
      /\ Room(p, s) => Room(p, q) /\ Room(q, s)
  <2> HIDE DEF q, s
  <2>1. QED BY <1>2, <1>3, <1>5, ShortInARow
<1>7. Room(p, s) => PropertyArrives(read, r.val, a \o b)
  <2>1. SUFFICES ASSUME Room(p, s)
                 PROVE  PropertyArrives(read, r.val, a \o b)
    OBVIOUS
  <2>2. Arrives(read["value"], value.val, b)
    BY <1>3, <1>6, <2>1
  <2>3. PropertyArrives(read, [name |-> name.val, value |-> value.val], a \o b)
    BY <1>2, <1>6, <2>2, PropertyArriving
  <2>4. QED BY <1>1, <2>3
<1>8. QED BY <1>1, <1>4, <1>6, <1>7 DEF r

NodeArrives(read, x, w) ==
  \A data \in Seq(Byte), p \in Nat :
    Stands(w, data, p) => ReadNode(read, data, p) = Got(x, p + Len(w))

(* A name, properties and children, wherever they stand in a row.          *)
LEMMA NodeArriving ==
  ASSUME NEW read, NEW name, NEW properties, NEW children, NEW a \in Seq(Byte),
         NEW b \in Seq(Byte), NEW c \in Seq(Byte), StringArrives(name, a),
         CountedArrives(read, "property", properties, b),
         CountedArrives(read, "node", children, c)
  PROVE  NodeArrives(read, [name |-> name, properties |-> properties,
                            children |-> children], (a \o b) \o c)
<1> DEFINE node == [name |-> name, properties |-> properties,
                    children |-> children]
           ab == a \o b
<1>1. SUFFICES ASSUME NEW data \in Seq(Byte), NEW p \in Nat,
                      Stands(ab \o c, data, p)
               PROVE  ReadNode(read, data, p) = Got(node, p + Len(ab \o c))
  BY DEF NodeArrives
<1>2. ab \in Seq(Byte)
  BY ConcatProperties
<1> DEFINE q == p + Len(a)
           s == p + Len(ab)
<1>3. /\ Stands(ab, data, p) /\ Stands(c, data, s) /\ s \in Nat
      /\ p + Len(ab \o c) = s + Len(c)
  <2> HIDE DEF ab
  <2>1. /\ Stands(ab, data, p) /\ Stands(c, data, p + Len(ab))
        /\ p + Len(ab) \in Nat /\ p + Len(ab) <= Len(data)
        /\ Len(ab \o c) = Len(ab) + Len(c) /\ ab \o c \in Seq(Byte)
        /\ p + Len(ab \o c) = (p + Len(ab)) + Len(c)
    BY <1>1, <1>2, PartsStand
  <2>2. QED BY <2>1
<1>4. /\ Stands(a, data, p) /\ Stands(b, data, q) /\ q \in Nat
      /\ s = q + Len(b)
  <2>1. /\ Stands(a, data, p) /\ Stands(b, data, p + Len(a))
        /\ p + Len(a) \in Nat /\ p + Len(a) <= Len(data)
        /\ Len(a \o b) = Len(a) + Len(b) /\ a \o b \in Seq(Byte)
        /\ p + Len(a \o b) = (p + Len(a)) + Len(b)
    BY <1>3, PartsStand
  <2>2. QED BY <2>1
<1> DEFINE first == ReadCString(data, p)
           second == ReadCounted(read, "property", data, first.next)
           third == ReadCounted(read, "node", data, second.next)
<1>5. first = Got(name, q)
  BY <1>4 DEF StringArrives
<1> HIDE DEF q, s, ab
<1>6. ReadNode(read, data, p) =
        IF ~ first.ok THEN Nothing ELSE IF ~ second.ok THEN Nothing
        ELSE IF ~ third.ok THEN Nothing
        ELSE Got([name |-> first.val, properties |-> second.val,
                  children |-> third.val], third.next)
  BY NodeIs
<1> HIDE DEF first
<1>7. first.ok /\ first.val = name /\ first.next = q
  BY <1>5, Results
<1>8. second = Got(properties, s)
  BY <1>4, <1>7 DEF CountedArrives
<1> HIDE DEF second
<1>9. second.ok /\ second.val = properties /\ second.next = s
  BY <1>8, Results
<1>10. third = Got(children, s + Len(c))
  BY <1>3, <1>9 DEF CountedArrives
<1> HIDE DEF third
<1>11. third.ok /\ third.val = children /\ third.next = s + Len(c)
  BY <1>10, Results
<1>12. QED BY <1>3, <1>6, <1>7, <1>9, <1>11

(* What was read as a node is written shortly, and read again.             *)
LEMMA NodeRewritten ==
  ASSUME NEW read, NEW write, NEW T, NEW U, NEW data \in Seq(Byte), NEW p \in Nat,
         Reads(read["property"][data], T, data), Reads(read["node"][data], U, data),
         Rewrites(read["property"], write["property"]),
         Rewrites(read["node"], write["node"]), ReadNode(read, data, p).ok
  PROVE  LET r == ReadNode(read, data, p)
             w == WriteNode(write, r.val)
         IN  /\ Short(w, p, r.next)
             /\ Room(p, r.next) => NodeArrives(read, r.val, w)
<1> DEFINE name == ReadCString(data, p)
           q == name.next
           properties == ReadCounted(read, "property", data, q)
           s == properties.next
           children == ReadCounted(read, "node", data, s)
           t == children.next
           r == ReadNode(read, data, p)
           a == WriteCString(name.val)
           b == WriteCounted(write, "property", properties.val)
           c == WriteCounted(write, "node", children.val)
<1>1. /\ name.ok /\ name.next \in Nat /\ p < name.next
      /\ properties.ok /\ properties.next \in Nat
      /\ name.next < properties.next
      /\ children.ok /\ properties.next < children.next
      /\ r.val = [name |-> name.val, properties |-> properties.val,
                  children |-> children.val]
      /\ r.val \in [name : Seq(Byte), properties : Seq(T), children : Seq(U)]
      /\ r.next = children.next /\ r.next \in p + 1 .. Len(data)
  BY NodesFit
<1>2. Short(a, p, q) /\ StringArrives(name.val, a)
  BY <1>1, CStringRewritten
<1> HIDE DEF name, a
<1>3. /\ Short(b, q, s)
      /\ Room(q, s) => CountedArrives(read, "property", properties.val, b)
  <2>1. q \in Nat
    BY <1>1
  <2> HIDE DEF q
  <2>2. QED BY <1>1, <2>1, CountedRewritten
<1> HIDE DEF properties, b
<1>4. /\ Short(c, s, t)
      /\ Room(s, t) => CountedArrives(read, "node", children.val, c)
  <2>1. s \in Nat
    BY <1>1
  <2> HIDE DEF s
  <2>2. QED BY <1>1, <2>1, CountedRewritten
<1> HIDE DEF children, c, r
<1>5. WriteNode(write, r.val) = (a \o b) \o c
  <2>1. /\ r.val.name = name.val /\ r.val.properties = properties.val
        /\ r.val.children = children.val
    BY <1>1
  <2>2. QED BY <2>1 DEF WriteNode, a, b, c
<1>6. /\ q \in Nat /\ s \in Nat /\ t \in Nat /\ p <= q /\ q <= s /\ s <= t /\ p <= s
  <2>1. Len(data) \in Nat /\ t \in p + 1 .. Len(data)
    BY <1>1
  <2> HIDE DEF q, s, t
  <2>2. t \in Nat
    BY <2>1
  <2>3. q \in Nat /\ p < q /\ s \in Nat /\ q < s /\ s < t
    BY <1>1 DEF q, s, t
  <2>4. QED BY <2>2, <2>3
<1>7. /\ Short(a \o b, p, s) /\ a \in Seq(Byte) /\ b \in Seq(Byte)
      /\ Room(p, s) => Room(p, q) /\ Room(q, s)
  <2> HIDE DEF q, s, t
  <2>1. QED BY <1>2, <1>3, <1>6, ShortInARow
<1>8. /\ Short((a \o b) \o c, p, t) /\ a \o b \in Seq(Byte) /\ c \in Seq(Byte)
      /\ Room(p, t) => Room(p, s) /\ Room(s, t)
  <2> HIDE DEF q, s, t
  <2> DEFINE ab == a \o b
  <2>1. Short(ab, p, s)
    BY <1>7
  <2> HIDE DEF ab
  <2>2. /\ Short(ab \o c, p, t) /\ ab \in Seq(Byte) /\ c \in Seq(Byte)
        /\ Room(p, t) => Room(p, s) /\ Room(s, t)
    BY <1>4, <1>6, <2>1, ShortInARow
  <2>3. QED BY <2>2 DEF ab
<1>9. Room(p, t) => NodeArrives(read, r.val, (a \o b) \o c)
  <2>1. SUFFICES ASSUME Room(p, t)
                 PROVE  NodeArrives(read, r.val, (a \o b) \o c)
    OBVIOUS
  <2>2. /\ CountedArrives(read, "property", properties.val, b)
        /\ CountedArrives(read, "node", children.val, c)
    BY <1>3, <1>4, <1>7, <1>8, <2>1
  <2>3. NodeArrives(read, [name |-> name.val, properties |-> properties.val,
                           children |-> children.val], (a \o b) \o c)
    BY <1>2, <1>7, <1>8, <2>2, NodeArriving
  <2>4. QED BY <1>1, <2>3
<1>10. QED BY <1>1, <1>5, <1>8, <1>9 DEF r

-----------------------------------------------------------------------------
(* Writers, however deep things nest.                                      *)

(* What a writer writes, kind by kind.                                     *)
LEMMA WriterIs ==
  ASSUME NEW write, NEW things
  PROVE  /\ \A x \in things["step"] :
              Writer(write, things)["step"][x] = WriteCompressedInt(x)
         /\ \A x \in things["value"] :
              Writer(write, things)["value"][x] = WriteValue(write, x)
         /\ \A x \in things["property"] :
              Writer(write, things)["property"][x] = WriteProperty(write, x)
         /\ \A x \in things["node"] :
              Writer(write, things)["node"][x] = WriteNode(write, x)
<1>1. \A kind \in Kinds : \A x \in things[kind] :
        Writer(write, things)[kind][x] = WriteOne(write, kind, x)
  BY DEF Writer
<1>2. {"step", "value", "property", "node"} \subseteq Kinds
  BY DEF Kinds
<1>3. /\ \A x : WriteOne(write, "step", x) = WriteCompressedInt(x)
      /\ \A x : WriteOne(write, "value", x) = WriteValue(write, x)
      /\ \A x : WriteOne(write, "property", x) = WriteProperty(write, x)
      /\ \A x : WriteOne(write, "node", x) = WriteNode(write, x)
  BY DEF WriteOne
<1>4. QED BY <1>1, <1>2, <1>3

(* Whatever kind of thing is read can be written and read again, if the    *)
(* things inside it can.                                                   *)
LEMMA ReaderRewrites ==
  ASSUME NEW read, NEW write, NEW within,
         \A data \in Seq(Byte), kind \in Kinds :
           Reads(read[kind][data], within[kind], data),
         \A kind \in Kinds : Rewrites(read[kind], write[kind])
  PROVE  \A kind \in Kinds :
           Rewrites(Reader(read)[kind], Writer(write, Thing(within))[kind])
<1> DEFINE one(kind) == Reader(read)[kind]
           writeOne(kind) == Writer(write, Thing(within))[kind]
<1>1. \A data \in Seq(Byte), kind \in Kinds :
        Reads(one(kind)[data], Thing(within)[kind], data)
  <2>1. ASSUME NEW data \in Seq(Byte)
        PROVE  \A kind \in Kinds : Reads(one(kind)[data], Thing(within)[kind], data)
    <3>1. \A kind \in Kinds : Reads(read[kind][data], within[kind], data)
      OBVIOUS
    <3>2. QED BY <3>1, ReaderFits
  <2>2. QED BY <2>1
<1>2. /\ "step" \in Kinds /\ "value" \in Kinds /\ "property" \in Kinds
      /\ "node" \in Kinds
  BY DEF Kinds
<1>3. \A data \in Seq(Byte), p \in Nat :
        /\ one("step")[data][p] = ReadCount(data, p)
        /\ one("value")[data][p] = ReadValue(read, data, p)
        /\ one("property")[data][p] = ReadProperty(read, data, p)
        /\ one("node")[data][p] = ReadNode(read, data, p)
  BY ReaderIs
<1>4. /\ \A x \in Thing(within)["step"] :
           writeOne("step")[x] = WriteCompressedInt(x)
      /\ \A x \in Thing(within)["value"] :
           writeOne("value")[x] = WriteValue(write, x)
      /\ \A x \in Thing(within)["property"] :
           writeOne("property")[x] = WriteProperty(write, x)
      /\ \A x \in Thing(within)["node"] :
           writeOne("node")[x] = WriteNode(write, x)
  <2> DEFINE things == Thing(within)
  <2> HIDE DEF things
  <2>1. /\ \A x \in things["step"] :
              Writer(write, things)["step"][x] = WriteCompressedInt(x)
        /\ \A x \in things["value"] :
              Writer(write, things)["value"][x] = WriteValue(write, x)
        /\ \A x \in things["property"] :
              Writer(write, things)["property"][x] = WriteProperty(write, x)
        /\ \A x \in things["node"] :
              Writer(write, things)["node"][x] = WriteNode(write, x)
    BY WriterIs
  <2>2. QED BY <2>1 DEF things
<1>5. \A data \in Seq(Byte) : /\ Reads(read["value"][data], within["value"], data)
                              /\ Reads(read["property"][data], within["property"], data)
                              /\ Reads(read["node"][data], within["node"], data)
  BY <1>2
<1>6. /\ Rewrites(read["value"], write["value"])
      /\ Rewrites(read["property"], write["property"])
      /\ Rewrites(read["node"], write["node"])
  BY <1>2
<1> HIDE DEF one, writeOne
<1>7. Rewrites(one("step"), writeOne("step"))
  <2>1. ASSUME NEW data \in Seq(Byte), NEW p \in Nat, ReadCount(data, p).ok
        PROVE  LET r == ReadCount(data, p)
                   w == writeOne("step")[r.val]
               IN  /\ Short(w, p, r.next)
                   /\ Arrives(one("step"), r.val, w)
    <3> DEFINE r == ReadCount(data, p)
               x == r.val
    <3>1. /\ Short(WriteCompressedInt(x), p, r.next)
          /\ x \in Nat /\ x < Power[IntBytes]
      BY <2>1, CountWritten
    <3>2. x \in Thing(within)["step"]
      BY <3>1, ThingIs
    <3>3. writeOne("step")[x] = WriteCompressedInt(x)
      BY <1>4, <3>2
    <3> HIDE DEF x
    <3>4. Arrives(one("step"), x, WriteCompressedInt(x))
      BY <1>3, <3>1, CompressedIntArrives DEF Arrives
    <3>5. QED BY <3>1, <3>3, <3>4 DEF x
  <2>2. QED BY <1>3, <2>1 DEF Rewrites
<1>8. Rewrites(one("value"), writeOne("value"))
  <2>1. ASSUME NEW data \in Seq(Byte), NEW p \in Nat, ReadValue(read, data, p).ok
        PROVE  LET r == ReadValue(read, data, p)
                   w == writeOne("value")[r.val]
               IN  /\ Short(w, p, r.next)
                   /\ Room(p, r.next) => Arrives(one("value"), r.val, w)
    <3> DEFINE r == ReadValue(read, data, p)
               x == r.val
    <3>1. /\ Short(WriteValue(write, x), p, r.next)
          /\ Room(p, r.next) => ValueArrives(read, x, WriteValue(write, x))
      BY <1>5, <1>6, <2>1, ValueRewritten
    <3>2. x \in Thing(within)["value"]
      BY <1>1, <1>2, <1>3, <2>1 DEF Reads
    <3>3. writeOne("value")[x] = WriteValue(write, x)
      BY <1>4, <3>2
    <3> HIDE DEF x
    <3>4. \A w : ValueArrives(read, x, w) => Arrives(one("value"), x, w)
      BY <1>3 DEF ValueArrives, Arrives
    <3>5. QED BY <3>1, <3>3, <3>4 DEF x
  <2>2. QED BY <1>3, <2>1 DEF Rewrites
<1>9. Rewrites(one("property"), writeOne("property"))
  <2>1. ASSUME NEW data \in Seq(Byte), NEW p \in Nat, ReadProperty(read, data, p).ok
        PROVE  LET r == ReadProperty(read, data, p)
                   w == writeOne("property")[r.val]
               IN  /\ Short(w, p, r.next)
                   /\ Room(p, r.next) => Arrives(one("property"), r.val, w)
    <3> DEFINE r == ReadProperty(read, data, p)
               x == r.val
    <3>1. /\ Short(WriteProperty(write, x), p, r.next)
          /\ Room(p, r.next) => PropertyArrives(read, x, WriteProperty(write, x))
      BY <1>5, <1>6, <2>1, PropertyRewritten
    <3>2. x \in Thing(within)["property"]
      BY <1>1, <1>2, <1>3, <2>1 DEF Reads
    <3>3. writeOne("property")[x] = WriteProperty(write, x)
      BY <1>4, <3>2
    <3> HIDE DEF x
    <3>4. \A w : PropertyArrives(read, x, w) => Arrives(one("property"), x, w)
      BY <1>3 DEF PropertyArrives, Arrives
    <3>5. QED BY <3>1, <3>3, <3>4 DEF x
  <2>2. QED BY <1>3, <2>1 DEF Rewrites
<1>10. Rewrites(one("node"), writeOne("node"))
  <2>1. ASSUME NEW data \in Seq(Byte), NEW p \in Nat, ReadNode(read, data, p).ok
        PROVE  LET r == ReadNode(read, data, p)
                   w == writeOne("node")[r.val]
               IN  /\ Short(w, p, r.next)
                   /\ Room(p, r.next) => Arrives(one("node"), r.val, w)
    <3> DEFINE r == ReadNode(read, data, p)
               x == r.val
    <3>1. /\ Short(WriteNode(write, x), p, r.next)
          /\ Room(p, r.next) => NodeArrives(read, x, WriteNode(write, x))
      BY <1>5, <1>6, <2>1, NodeRewritten
    <3>2. x \in Thing(within)["node"]
      BY <1>1, <1>2, <1>3, <2>1 DEF Reads
    <3>3. writeOne("node")[x] = WriteNode(write, x)
      BY <1>4, <3>2
    <3> HIDE DEF x
    <3>4. \A w : NodeArrives(read, x, w) => Arrives(one("node"), x, w)
      BY <1>3 DEF NodeArrives, Arrives
    <3>5. QED BY <3>1, <3>3, <3>4 DEF x
  <2>2. QED BY <1>3, <2>1 DEF Rewrites
<1>11. \A kind \in Kinds : Rewrites(one(kind), writeOne(kind))
  BY <1>7, <1>8, <1>9, <1>10 DEF Kinds
<1>12. QED BY <1>11 DEF one, writeOne

(* Things that nest however deep can be written and read again.            *)
LEMMA ReadingRewrites ==
  \A d \in Nat, kind \in Kinds : Rewrites(Reading[d][kind], Writing[d][kind])
<1> DEFINE Fine(d) == \A kind \in Kinds : Rewrites(Reading[d][kind], Writing[d][kind])
           S == {d \in Nat : Fine(d)}
<1>1. 0 \in S
  <2>1. ASSUME NEW kind \in Kinds
        PROVE  Rewrites(Reading[0][kind], Writing[0][kind])
    <3>1. \A data \in Seq(Byte), p \in Nat : ~ Reading[0][kind][data][p].ok
      BY ReadingIs, Results
    <3>2. QED BY <3>1 DEF Rewrites
  <2>2. QED BY <2>1
<1>2. ASSUME NEW d \in Nat, d \in S PROVE d + 1 \in S
  <2> DEFINE read == Reading[d]
             write == Writing[d]
             within == Things[d]
  <2>1. \A data \in Seq(Byte), kind \in Kinds :
          Reads(read[kind][data], within[kind], data)
    BY ReadingFits
  <2>2. \A kind \in Kinds : Rewrites(read[kind], write[kind])
    BY <1>2
  <2>3. /\ Reading[d + 1] = Reader(read)
        /\ Writing[d + 1] = Writer(write, Things[d + 1])
        /\ Things[d + 1] = Thing(within)
    BY ReadingIs, WritingIs, ThingsAre
  <2> HIDE DEF read, write, within
  <2>4. \A kind \in Kinds :
          Rewrites(Reader(read)[kind], Writer(write, Thing(within))[kind])
    BY <2>1, <2>2, ReaderRewrites
  <2>5. Fine(d + 1)
    BY <2>3, <2>4
  <2>6. QED BY <2>5
<1>3. \A d \in Nat : d \in S
  <2> HIDE DEF S
  <2>1. QED BY <1>1, <1>2, Counting
<1>4. QED BY <1>3

-----------------------------------------------------------------------------
(* Frames.                                                                 *)

(* What arrives where things nest so deep arrives where they may nest as   *)
(* deep as there are bytes.                                                *)
LEMMA ArrivesAtAnyDepth ==
  ASSUME NEW d \in Nat, NEW kind \in Kinds, NEW x, NEW w \in Seq(Byte),
         Arrives(Reading[d][kind], x, w), NEW data \in Seq(Byte), NEW p \in Nat,
         Stands(w, data, p), NEW d2 \in Nat, Len(w) <= d2
  PROVE  Reading[d2][kind][data][p] = Got(x, p + Len(w))
<1> DEFINE one == Reading[d][kind][data]
           one2 == Reading[d2][kind][data]
           n == Len(w)
<1>1. one[p] = Got(x, p + n)
  BY DEF Arrives
<1>2. ReadsTheSame(one, one2, data, data, d2)
  <2>1. d2 <= d2
    OBVIOUS
  <2>2. QED BY <2>1, ReadingsAgree
<1> HIDE DEF one, one2
<1>3. one[p].ok /\ one[p].val = x /\ one[p].next = p + n
  BY <1>1, Results
<1>4. n \in Nat /\ n <= d2 /\ p + n <= Len(data)
  BY DEF Stands
<1> HIDE DEF n
<1>5. (p + n) - p = n
  BY <1>4
<1>6. Same(data, p, p + n, data, p)
  BY <1>4, <1>5 DEF Same
<1>7. Moved(one[p], p, one2[p], p)
  BY <1>2, <1>3, <1>4, <1>5, <1>6 DEF ReadsTheSame
<1>8. one2[p] = Got(x, p + n)
  BY <1>3, <1>5, <1>7 DEF Moved
<1>9. QED BY <1>8 DEF one2, n

(* The byte of the kind, and what stands behind it.                        *)
LEMMA FrameOpens ==
  ASSUME NEW kind \in Byte, NEW w \in Seq(Byte)
  PROVE  /\ <<kind>> \o w \in Seq(Byte) /\ Len(<<kind>> \o w) = 1 + Len(w)
         /\ Stands(w, <<kind>> \o w, 1)
         /\ ReadChange(<<kind>> \o w) = ReadFrame(kind, <<kind>> \o w, 1)
<1> DEFINE one == <<kind>>
           data == one \o w
<1>1. one \in Seq(Byte) /\ Len(one) = 1 /\ one[1] = kind
  OBVIOUS
<1> HIDE DEF one
<1>2. /\ data \in Seq(Byte) /\ Len(data) = Len(one) + Len(w)
      /\ \A i \in 1 .. Len(one) + Len(w) :
           data[i] = IF i <= Len(one) THEN one[i] ELSE w[i - Len(one)]
  BY <1>1, ConcatProperties
<1> HIDE DEF data
<1>3. Len(w) \in Nat /\ Len(data) = 1 + Len(w)
  BY <1>1, <1>2
<1>4. 1 <= Len(data) /\ data[1] = kind
  <2>1. 1 \in 1 .. Len(one) + Len(w) /\ 1 <= Len(data)
    BY <1>1, <1>3
  <2>2. QED BY <1>1, <1>2, <2>1
<1>5. Stands(w, data, 1)
  <2>1. ASSUME NEW i \in 1 .. Len(w) PROVE data[1 + i] = w[i]
    <3>1. 1 + i \in 1 .. Len(one) + Len(w) /\ ~ (1 + i <= 1) /\ (1 + i) - 1 = i
      BY <1>1, <1>3
    <3>2. QED BY <1>1, <1>2, <3>1
  <2>2. 1 + Len(w) <= Len(data)
    BY <1>3
  <2>3. QED BY <2>1, <2>2 DEF Stands
<1>6. ReadChange(data) = ReadFrame(kind, data, 1)
  BY <1>2, <1>4, ChangeIs
<1>7. QED BY <1>2, <1>3, <1>5, <1>6 DEF data, one

(* A full sync that is written is decoded.                                 *)
LEMMA SyncArrives ==
  ASSUME NEW d \in Nat, NEW root, NEW w \in Seq(Byte),
         Arrives(Reading[d]["node"], root, w)
  PROVE  Decode(<<2>> \o w) = {[type |-> "fullSync", root |-> root]}
<1> DEFINE data == <<2>> \o w
           n == Len(data)
           r == Reading[n]["node"][data][1]
<1>1. 2 \in Byte /\ "node" \in Kinds /\ 1 \in Nat
  BY Bytes DEF Kinds
<1>2. /\ data \in Seq(Byte) /\ n = 1 + Len(w) /\ Stands(w, data, 1)
      /\ ReadChange(data) = ReadFrame(2, data, 1)
  BY <1>1, FrameOpens
<1> HIDE DEF data
<1>3. n \in Nat /\ Len(w) <= n
  BY <1>2
<1>4. r = Got(root, 1 + Len(w))
  <2> DEFINE p == 1
  <2>1. p \in Nat /\ Stands(w, data, p)
    BY <1>2
  <2> HIDE DEF n, p
  <2>2. Reading[n]["node"][data][p] = Got(root, p + Len(w))
    <3> DEFINE kind == "node"
    <3>1. kind \in Kinds /\ data \in Seq(Byte) /\ Arrives(Reading[d][kind], root, w)
      BY <1>1, <1>2
    <3> HIDE DEF kind, r
    <3>2. n \in Nat /\ Len(w) <= n /\ p \in Nat /\ Stands(w, data, p)
      BY <1>3, <2>1
    <3>3. \A bytes \in Seq(Byte), q \in Nat, m \in Nat :
            Stands(w, bytes, q) /\ Len(w) <= m =>
              Reading[m][kind][bytes][q] = Got(root, q + Len(w))
      BY <3>1, ArrivesAtAnyDepth
    <3>4. Reading[n][kind][data][p] = Got(root, p + Len(w))
      BY <3>1, <3>2, <3>3
    <3>5. QED BY <3>4 DEF kind
  <2>3. QED BY <2>2 DEF p
<1>5. ReadFrame(2, data, 1) =
        IF r.ok THEN Got([type |-> "fullSync", root |-> r.val], r.next)
        ELSE Nothing
  BY DEF ReadFrame, Then
<1> HIDE DEF r
<1>6. r.ok /\ r.val = root /\ r.next = n
  BY <1>2, <1>4, Results
<1> DEFINE change == ReadChange(data)
<1>7. change = Got([type |-> "fullSync", root |-> root], n)
  BY <1>2, <1>5, <1>6
<1> HIDE DEF change
<1>8. change.ok /\ change.next = Len(data)
      /\ change.val = [type |-> "fullSync", root |-> root]
  BY <1>7, Results
<1>9. Decode(data) = {change.val}
  BY <1>8 DEF Decode, change
<1>10. QED BY <1>8, <1>9 DEF data

(* Its path, the property, and the frame of the change.                    *)
ArrivesAsPath(path, w) == CountedArrives(Reading[1], "step", path, w)

ArrivesAsProperty(d, property, w) == Arrives(Reading[d]["property"], property, w)

ArrivesAsChange(path, property, w) ==
  Decode(w) = {[type |-> "propertyChanged", path |-> path, property |-> property]}

(* A changed property that is written is decoded.                          *)
LEMMA PropertyChangeArrives ==
  ASSUME NEW d \in Nat, NEW path, NEW property, NEW a \in Seq(Byte),
         NEW b \in Seq(Byte), ArrivesAsPath(path, a),
         ArrivesAsProperty(d, property, b)
  PROVE  ArrivesAsChange(path, property, (<<1>> \o a) \o b)
<1> DEFINE w == a \o b
           data == <<1>> \o w
           n == Len(data)
           q == 1 + Len(a)
           r == ReadPath(data, 1)
           s == Reading[n]["property"][data][r.next]
           frame == [type |-> "propertyChanged", path |-> path,
                     property |-> property]
<1>1. 1 \in Byte /\ "property" \in Kinds /\ 1 \in Nat /\ w \in Seq(Byte)
      /\ <<1>> \in Seq(Byte)
  <2>1. 1 \in Byte
    BY Bytes
  <2>2. QED BY <2>1 DEF Kinds
<1>2. (<<1>> \o a) \o b = data
  BY <1>1, ConcatAssociative
<1> HIDE DEF w
<1>3. /\ data \in Seq(Byte) /\ n = 1 + Len(w) /\ Stands(w, data, 1)
      /\ ReadChange(data) = ReadFrame(1, data, 1)
  BY <1>1, FrameOpens
<1> HIDE DEF data
<1>4. /\ Stands(a, data, 1) /\ Stands(b, data, q) /\ q \in Nat
      /\ n = q + Len(b)
  <2>1. Stands(a \o b, data, 1)
    BY <1>3 DEF w
  <2>2. /\ Stands(a, data, 1) /\ Stands(b, data, 1 + Len(a))
        /\ 1 + Len(a) \in Nat /\ 1 + Len(a) <= Len(data)
        /\ Len(a \o b) = Len(a) + Len(b) /\ a \o b \in Seq(Byte)
        /\ 1 + Len(a \o b) = (1 + Len(a)) + Len(b)
    BY <1>1, <1>3, <2>1, PartsStand
  <2>3. QED BY <1>3, <2>2 DEF w
<1>5. n \in Nat /\ Len(b) <= n
  <2> HIDE DEF n, q
  <2>1. Len(b) \in Nat
    OBVIOUS
  <2>2. QED BY <1>4, <2>1
<1>6. ReadFrame(1, data, 1) =
        IF ~ r.ok THEN Nothing ELSE IF ~ s.ok THEN Nothing
        ELSE Got([type |-> "propertyChanged", path |-> r.val,
                  property |-> s.val], s.next)
  BY DEF ReadFrame, Then
<1>7. r = Got(path, q)
  BY <1>1, <1>3, <1>4 DEF ArrivesAsPath, CountedArrives, ReadPath
<1> HIDE DEF r, q
<1>8. r.ok /\ r.val = path /\ r.next = q
  BY <1>7, Results
<1>9. s = Got(property, q + Len(b))
  <2> HIDE DEF n
  <2>1. Reading[n]["property"][data][q] = Got(property, q + Len(b))
    <3>1. Arrives(Reading[d]["property"], property, b)
      BY DEF ArrivesAsProperty
    <3>2. QED BY <1>1, <1>3, <1>4, <1>5, <3>1, ArrivesAtAnyDepth
  <2>2. QED BY <1>8, <2>1
<1> HIDE DEF s
<1>10. s.ok /\ s.val = property /\ s.next = n
  BY <1>4, <1>9, Results
<1> DEFINE change == ReadChange(data)
<1>11. change = Got(frame, n)
  BY <1>3, <1>6, <1>8, <1>10
<1> HIDE DEF change, frame
<1>12. change.ok /\ change.next = Len(data) /\ change.val = frame
  BY <1>11, Results
<1>13. Decode(data) = {change.val}
  BY <1>12 DEF Decode, change
<1>14. Decode((<<1>> \o a) \o b) =
         {[type |-> "propertyChanged", path |-> path, property |-> property]}
  BY <1>2, <1>12, <1>13 DEF frame
<1>15. QED BY <1>14 DEF ArrivesAsChange

(* Steps are written the same at any depth.                                *)
LEMMA StepsWritten ==
  \A d \in Nat, x \in Nat : Writing[d + 1]["step"][x] = WriteCompressedInt(x)
<1>1. TAKE d \in Nat, x \in Nat
<1> DEFINE things == Things[d + 1]
<1>2. x \in things["step"]
  <2>1. things = Thing(Things[d])
    BY ThingsAre
  <2> HIDE DEF things
  <2>2. QED BY <2>1, ThingIs
<1>3. Writing[d + 1] = Writer(Writing[d], things)
  BY WritingIs
<1> HIDE DEF things
<1>4. QED BY <1>2, <1>3, WriterIs

(* The steps of a path are written and read again.                         *)
LEMMA StepsRewritten ==
  ASSUME NEW d \in Nat, d # 0
  PROVE  Rewrites(Reading[1]["step"], Writing[d]["step"])
<1>1. \A data \in Seq(Byte), p \in Nat :
        Reading[1]["step"][data][p] = ReadCount(data, p)
  <2>1. Reading[0 + 1] = Reader(Reading[0])
    BY ReadingIs
  <2>2. Reading[1] = Reader(Reading[0])
    BY <2>1
  <2>3. QED BY <2>2, ReaderIs
<1>2. \A x \in Nat : Writing[d]["step"][x] = WriteCompressedInt(x)
  <2> DEFINE e == d - 1
  <2>1. e \in Nat /\ d = e + 1
    OBVIOUS
  <2> HIDE DEF e
  <2>2. QED BY <2>1, StepsWritten
<1> DEFINE one == Reading[1]["step"]
           writeOne == Writing[d]["step"]
<1>3. /\ \A data \in Seq(Byte), p \in Nat : one[data][p] = ReadCount(data, p)
      /\ \A x \in Nat : writeOne[x] = WriteCompressedInt(x)
  BY <1>1, <1>2
<1> HIDE DEF one, writeOne
<1>4. ASSUME NEW data \in Seq(Byte), NEW p \in Nat, ReadCount(data, p).ok
      PROVE  LET r == ReadCount(data, p)
                 w == writeOne[r.val]
             IN  Short(w, p, r.next) /\ Arrives(one, r.val, w)
  <2> DEFINE r == ReadCount(data, p)
             x == r.val
  <2>1. /\ Short(WriteCompressedInt(x), p, r.next)
        /\ x \in Nat /\ x < Power[IntBytes]
    BY <1>4, CountWritten
  <2>2. writeOne[x] = WriteCompressedInt(x)
    BY <1>3, <2>1
  <2> HIDE DEF x
  <2>3. Arrives(one, x, WriteCompressedInt(x))
    BY <1>3, <2>1, CompressedIntArrives DEF Arrives
  <2>4. QED BY <2>1, <2>2, <2>3 DEF x
<1>5. Rewrites(one, writeOne)
  BY <1>3, <1>4 DEF Rewrites
<1>6. QED BY <1>5 DEF one, writeOne

(* Of so few bytes whatever was read has room.                             *)
LEMMA FewBytes ==
  ASSUME NEW n \in Nat, 3 * n < Power[IntBytes]
  PROVE  \A p \in Nat, q \in Nat : q <= n => Room(p, q)
<1>1. Power[IntBytes] \in Nat
  BY WireWidths
<1>2. QED BY <1>1 DEF Room

(* What was read where things nest so deep is written shortly, and read    *)
(* again.                                                                  *)
LEMMA ThingRewritten ==
  ASSUME NEW data \in Seq(Byte), 3 * Len(data) < Power[IntBytes],
         NEW d \in Nat, NEW kind \in Kinds, NEW p \in Nat,
         Reading[d][kind][data][p].ok
  PROVE  LET r == Reading[d][kind][data][p]
             w == Writing[d][kind][r.val]
         IN  w \in Seq(Byte) /\ Arrives(Reading[d][kind], r.val, w)
<1> DEFINE one == Reading[d][kind]
           writeOne == Writing[d][kind]
           r == one[data][p]
           w == writeOne[r.val]
<1>1. Rewrites(one, writeOne)
  BY ReadingRewrites
<1>2. Reads(one[data], Things[d][kind], data)
  BY ReadingFits
<1>3. r.ok
  OBVIOUS
<1> HIDE DEF one, writeOne
<1>4. /\ Short(w, p, r.next)
      /\ Room(p, r.next) => Arrives(one, r.val, w)
  BY <1>1, <1>3 DEF Rewrites
<1>5. r.next \in p + 1 .. Len(data)
  BY <1>2, <1>3 DEF Reads
<1>6. Room(p, r.next)
  <2> DEFINE n == Len(data)
             q == r.next
  <2>1. n \in Nat /\ 3 * n < Power[IntBytes] /\ q \in p + 1 .. n
    BY <1>5
  <2> HIDE DEF n, q
  <2>2. q \in Nat /\ q <= n
    BY <2>1
  <2>3. Room(p, q)
    BY <2>1, <2>2, FewBytes
  <2>4. QED BY <2>3 DEF q
<1>7. w \in Seq(Byte) /\ Arrives(one, r.val, w)
  BY <1>4, <1>6 DEF Short
<1>8. QED BY <1>7 DEF one, writeOne

(* A full sync that was read is encoded to what is decoded as it again.    *)
LEMMA SyncSurvives ==
  ASSUME NEW data \in Seq(Byte), 3 * Len(data) < Power[IntBytes],
         ReadFrame(2, data, 1).ok
  PROVE  LET frame == ReadFrame(2, data, 1).val
         IN  /\ frame.type = "fullSync"
             /\ Decode(EncodeFullSync(frame.root, Len(data))) = {frame}
<1> DEFINE d == Len(data)
           kind == "node"
           p == 1
           root == Reading[d][kind][data][p]
           r == ReadFrame(2, data, 1)
           w == Writing[d][kind][root.val]
<1>1. r = IF root.ok THEN Got([type |-> "fullSync", root |-> root.val], root.next)
          ELSE Nothing
  BY DEF ReadFrame, Then
<1>2. r.ok
  OBVIOUS
<1>3. d \in Nat /\ kind \in Kinds /\ p \in Nat
  BY DEF Kinds
<1>4. EncodeFullSync(root.val, d) = <<2>> \o w
  BY DEF EncodeFullSync
<1>5. root.ok
  <2> HIDE DEF root, r
  <2>1. QED BY <1>1, <1>2, Results
<1> HIDE DEF kind, p
<1>6. w \in Seq(Byte) /\ Arrives(Reading[d][kind], root.val, w)
  BY <1>3, <1>5, ThingRewritten
<1> HIDE DEF r, w, root, d
<1>7. r.val = [type |-> "fullSync", root |-> root.val]
  BY <1>1, <1>5, Results
<1>8. Decode(<<2>> \o w) = {[type |-> "fullSync", root |-> root.val]}
  <2>1. Arrives(Reading[d]["node"], root.val, w)
    BY <1>6 DEF kind
  <2>2. QED BY <1>3, <1>6, <2>1, SyncArrives
<1>9. r.val.type = "fullSync" /\ r.val.root = root.val
  BY <1>7
<1>10. QED BY <1>4, <1>7, <1>8, <1>9 DEF r, d

(* A change of a property that was read is encoded to what is decoded as   *)
(* it again.                                                               *)
LEMMA PropertyChangeSurvives ==
  ASSUME NEW data \in Seq(Byte), 3 * Len(data) < Power[IntBytes],
         Len(data) # 0, ReadFrame(1, data, 1).ok
  PROVE  LET frame == ReadFrame(1, data, 1).val
         IN  /\ frame.type = "propertyChanged"
             /\ Decode(EncodePropertyChanged(frame.path, frame.property,
                                             Len(data))) = {frame}
<1> DEFINE d == Len(data)
           kind == "property"
           p == 1
           path == ReadPath(data, p)
           q == path.next
           property == Reading[d][kind][data][q]
           r == ReadFrame(1, data, 1)
           a == WriteCounted(Writing[d], "step", path.val)
           b == Writing[d][kind][property.val]
           frame == [type |-> "propertyChanged", path |-> path.val,
                     property |-> property.val]
<1>1. r = IF ~ path.ok THEN Nothing ELSE IF ~ property.ok THEN Nothing
          ELSE Got(frame, property.next)
  BY DEF ReadFrame, Then
<1>2. r.ok
  OBVIOUS
<1>3. d \in Nat /\ d # 0 /\ kind \in Kinds /\ p \in Nat /\ 3 * d < Power[IntBytes]
  BY DEF Kinds
<1>4. EncodePropertyChanged(path.val, property.val, d) = (<<1>> \o a) \o b
  BY DEF EncodePropertyChanged
<1>5. path.ok /\ property.ok
  <2> HIDE DEF path, property, r, frame
  <2>1. QED BY <1>1, <1>2, Results
<1> HIDE DEF kind, p, a, b
<1>6. a \in Seq(Byte) /\ CountedArrives(Reading[1], "step", path.val, a) /\ q \in Nat
  <2> DEFINE read == Reading[1]
             write == Writing[d]
             c == ReadCounted(read, "step", data, p)
  <2>1. c = path /\ c.ok
    BY <1>5 DEF ReadPath
  <2>2. Reads(read["step"][data], Steps, data)
    <3>1. 0 \in Nat
      OBVIOUS
    <3>2. QED BY <3>1, StepsRead
  <2>3. Rewrites(read["step"], write["step"])
    BY <1>3, StepsRewritten
  <2> HIDE DEF read, write
  <2>4. /\ Short(WriteCounted(write, "step", c.val), p, c.next)
        /\ Room(p, c.next) =>
             CountedArrives(read, "step", c.val, WriteCounted(write, "step", c.val))
    BY <1>3, <2>1, <2>2, <2>3, CountedRewritten
  <2>5. c.next \in p + 1 .. Len(data)
    BY <1>3, <2>1, <2>2, CountedFit
  <2>6. c.next \in Nat /\ c.next <= d
    BY <1>3, <2>5
  <2>7. Room(p, c.next)
    <3> HIDE DEF c, d
    <3>1. QED BY <1>3, <2>6, FewBytes
  <2>8. QED BY <2>1, <2>4, <2>6, <2>7 DEF Short, read, write, a
<1>7. b \in Seq(Byte) /\ Arrives(Reading[d][kind], property.val, b)
  <2> HIDE DEF q
  <2>1. QED BY <1>3, <1>5, <1>6, ThingRewritten DEF b
<1> HIDE DEF r, path, q, property, d
<1>8. r.val = frame
  BY <1>1, <1>5, Results
<1>9. Decode((<<1>> \o a) \o b) = {frame}
  <2> DEFINE x == path.val
             y == property.val
             w == (<<1>> \o a) \o b
  <2>1. /\ d \in Nat /\ a \in Seq(Byte) /\ b \in Seq(Byte)
        /\ ArrivesAsPath(x, a) /\ ArrivesAsProperty(d, y, b)
    BY <1>3, <1>6, <1>7 DEF kind, ArrivesAsPath, ArrivesAsProperty
  <2> HIDE DEF x, y
  <2>2. ArrivesAsChange(x, y, w)
    BY <2>1, PropertyChangeArrives
  <2>3. QED BY <2>2 DEF ArrivesAsChange, x, y
<1>10. r.val.type = "propertyChanged" /\ r.val.path = path.val
       /\ r.val.property = property.val
  BY <1>8
<1>11. QED BY <1>4, <1>8, <1>9, <1>10 DEF r, d

(* What was read can be written and read again without a change, though a  *)
(* value without a length takes three bytes when it is written.            *)
THEOREM ReencodingSurvives == Spec => []ReencodedFramesSurvive
<1>1. payload \in Seq(Byte) => ReencodedFramesSurvive
  <2>1. SUFFICES ASSUME payload \in Seq(Byte), 3 * Len(payload) < Power[IntBytes],
                        NEW frame \in Decode(payload),
                        NEW bytes \in Encoded(frame, Len(payload))
                 PROVE  Decode(bytes) = {frame}
    BY DEF ReencodedFramesSurvive
  <2> DEFINE change == ReadChange(payload)
             kind == payload[1]
             r == ReadFrame(kind, payload, 1)
  <2>2. change.ok /\ frame = change.val
    BY DecodeIs
  <2>3. Len(payload) # 0 /\ 1 <= Len(payload) /\ change = r /\ kind \in 0 .. 255
    <3>1. /\ change = IF 1 <= Len(payload) THEN r ELSE Nothing
          /\ 1 <= Len(payload) => kind \in 0 .. 255
      BY <2>1, ChangeIs
    <3> HIDE DEF change, r
    <3>2. 1 <= Len(payload)
      BY <2>2, <3>1, Results
    <3>3. QED BY <2>1, <3>1, <3>2
  <2> HIDE DEF change
  <2>4. r.ok /\ frame = r.val
    BY <2>2, <2>3
  <2>5. CASE kind = 1
    <3>1. ReadFrame(1, payload, 1).ok /\ frame = ReadFrame(1, payload, 1).val
      BY <2>4, <2>5
    <3>2. /\ frame.type = "propertyChanged"
          /\ Decode(EncodePropertyChanged(frame.path, frame.property,
                                          Len(payload))) = {frame}
      BY <2>1, <2>3, <3>1, PropertyChangeSurvives
    <3>3. bytes = EncodePropertyChanged(frame.path, frame.property, Len(payload))
      BY <2>1, <3>2 DEF Encoded
    <3>4. QED BY <3>2, <3>3
  <2>6. CASE kind = 2
    <3>1. ReadFrame(2, payload, 1).ok /\ frame = ReadFrame(2, payload, 1).val
      BY <2>4, <2>6
    <3>2. /\ frame.type = "fullSync"
          /\ Decode(EncodeFullSync(frame.root, Len(payload))) = {frame}
      BY <2>1, <3>1, SyncSurvives
    <3>3. bytes = EncodeFullSync(frame.root, Len(payload))
      BY <2>1, <3>2 DEF Encoded
    <3>4. QED BY <3>2, <3>3
  <2>7. CASE kind # 1 /\ kind # 2
    <3>1. IsCut(payload, payload)
      <4>1. Len(payload) \in Nat
        BY <2>1
      <4>2. QED BY <4>1 DEF IsCut
    <3>2. Frame(payload, payload, kind, 1)
      <4>1. 1 \in Nat
        OBVIOUS
      <4> HIDE DEF kind
      <4>2. QED BY <2>1, <2>3, <3>1, <4>1, AnyFrame
    <3>3. frame.type # "propertyChanged" /\ frame.type # "fullSync"
      BY <2>4, <2>7, <3>2 DEF Frame
    <3>4. QED BY <2>1, <3>3 DEF Encoded
  <2>8. QED BY <2>5, <2>6, <2>7
<1>2. QED BY <1>1, AreBytes, PTL

-----------------------------------------------------------------------------
(* What is received.                                                       *)

(* A list of nothing arrives.                                              *)
LEMMA NoneArrive ==
  ASSUME NEW read, NEW kind
  PROVE  ListArrives(read, kind, 0, <<>>, <<>>)
<1> DEFINE none == <<>>
           zero == 0
<1>1. Len(none) = 0 /\ zero \in Nat
  OBVIOUS
<1>2. SUFFICES ASSUME NEW data \in Seq(Byte), NEW p \in Nat
               PROVE  ReadList(read, kind, zero, data, p) = Got(none, p + 0)
  BY <1>1 DEF ListArrives
<1>3. p + 0 = p
  OBVIOUS
<1>4. QED BY <1>3, ListBegins

(* A path of no steps arrives.                                             *)
LEMMA NoStepsArrive ==
  ASSUME NEW write
  PROVE  /\ WriteCounted(write, "step", <<>>) \in Seq(Byte)
         /\ ArrivesAsPath(<<>>, WriteCounted(write, "step", <<>>))
<1> DEFINE n == Len(<<>>)
           none == <<>>
           read == Reading[1]
           kind == "step"
<1>1. n = 0 /\ n \in Nat /\ n < Power[IntBytes] /\ none \in Seq(Byte)
  <2>1. Power[IntBytes] \in Nat /\ Power[IntBytes] >= 256
    BY WireWidths
  <2>2. QED BY <2>1
<1>2. WriteCounted(write, kind, none) = WriteCompressedInt(n) \o none
  <2>1. Parts(write, kind, none) = none
    BY DEF Parts
  <2>2. FlattenSeq(none) = none
    <3>1. none \in Seq(Nat) /\ none \in Seq(Seq(Nat))
      OBVIOUS
    <3>2. QED BY <3>1, JoiningOthers
  <2>3. QED BY <2>1, <2>2 DEF WriteCounted, Parts
<1>3. ListArrives(read, kind, n, none, none)
  BY <1>1, NoneArrive
<1>4. WriteCompressedInt(n) \in Seq(Byte)
  BY <1>1, CompressedIntLength
<1> HIDE DEF n, none, read, kind
<1>5. CountedArrives(read, kind, none, WriteCompressedInt(n) \o none)
  BY <1>1, <1>3, CountedArriving
<1>6. WriteCompressedInt(n) \o none \in Seq(Byte)
  BY <1>1, <1>4, ConcatProperties
<1>7. QED BY <1>2, <1>5, <1>6 DEF ArrivesAsPath, read, kind, none

(* An empty name arrives.                                                  *)
LEMMA NoNameArrives ==
  WriteCString(<<>>) \in Seq(Byte) /\ StringArrives(<<>>, WriteCString(<<>>))
<1> DEFINE none == <<>>
<1>1. none \in Seq(Byte) /\ IsText(none) /\ \A i \in 1 .. Len(none) : none[i] # 0
  BY DEF IsText
<1> HIDE DEF none
<1>2. WriteCString(none) \in Seq(Byte)
  BY <1>1, CStringLength
<1>3. StringArrives(none, WriteCString(none))
  BY <1>1, CStringArrives DEF StringArrives
<1>4. QED BY <1>2, <1>3 DEF none

(* Values of bytes, and properties that hold one, are written at the depth *)
(* at which they are read.                                                 *)
LEMMA FlatWritten ==
  ASSUME NEW v \in [type : Types, data : Seq(Int), items : Seq({})],
         NEW name \in Seq(Byte)
  PROVE  /\ Writing[1]["value"][v] = WriteValue(Writing[0], v)
         /\ Writing[2]["property"][[name |-> name, value |-> v]] =
              WriteCString(name) \o WriteValue(Writing[0], v)
<1> DEFINE x == [name |-> name, value |-> v]
           none == 0
           one == 1
           two == 2
<1>1. none \in Nat /\ one \in Nat /\ one = none + 1 /\ two = one + 1
  OBVIOUS
<1>2. Things[none]["value"] = {}
  BY ThingsAre DEF Kinds
<1> HIDE DEF none, one, two
<1>3. Things[one] = Thing(Things[none]) /\ Things[two] = Thing(Things[one])
  BY <1>1, ThingsAre
<1>4. v \in Things[one]["value"]
  BY <1>2, <1>3, ThingIs
<1>5. x \in Things[two]["property"]
  BY <1>3, <1>4, ThingIs, ZenonT(40)
<1>6. /\ Writing[one] = Writer(Writing[none], Things[one])
      /\ Writing[two] = Writer(Writing[one], Things[two])
  BY <1>1, WritingIs
<1>7. Writing[one]["value"][v] = WriteValue(Writing[none], v)
  BY <1>4, <1>6, WriterIs
<1>8. Writing[two]["property"][x] = WriteProperty(Writing[one], x)
  BY <1>5, <1>6, WriterIs
<1>9. WriteProperty(Writing[one], x) = WriteCString(name) \o Writing[one]["value"][v]
  BY DEF WriteProperty
<1>10. QED BY <1>7, <1>8, <1>9 DEF none, one, two

(* A change of a property to a value that is read where it is written      *)
(* brings that value, and nothing else.                                    *)
LEMMA Delivered ==
  ASSUME NEW v \in [type : Types, data : Seq(Int), items : Seq({})], NEW x,
         WriteValue(Writing[0], v) \in Seq(Byte),
         ValueArrives(Reading[0], x, WriteValue(Writing[0], v))
  PROVE  {f.property.value : f \in
            Decode(EncodePropertyChanged(<<>>, [name |-> <<>>, value |-> v], 2))}
           = {x}
<1> DEFINE none == <<>>
           a == WriteCounted(Writing[2], "step", none)
           name == WriteCString(none)
           b == WriteValue(Writing[0], v)
           sent == [name |-> none, value |-> v]
           got == [name |-> none, value |-> x]
<1>1. none \in Seq(Byte)
  OBVIOUS
<1>2. a \in Seq(Byte) /\ ArrivesAsPath(none, a)
  BY NoStepsArrive
<1>3. name \in Seq(Byte) /\ StringArrives(none, name)
  BY NoNameArrives
<1>4. Writing[2]["property"][sent] = name \o b
  BY <1>1, FlatWritten
<1>5. EncodePropertyChanged(none, sent, 2) = (<<1>> \o a) \o (name \o b)
  BY <1>4 DEF EncodePropertyChanged
<1> DEFINE c == name \o b
<1>6. ArrivesAsProperty(2, got, c) /\ c \in Seq(Byte)
  <2> DEFINE zero == 0
             one == 1
             two == 2
  <2>1. zero \in Nat /\ one \in Nat /\ one = zero + 1 /\ two = one + 1
    OBVIOUS
  <2>2. ValueArrives(Reading[zero], x, b) /\ b \in Seq(Byte)
    OBVIOUS
  <2> HIDE DEF zero, one, two, b, name, none
  <2>3. Reading[one] = Reader(Reading[zero]) /\ Reading[two] = Reader(Reading[one])
    BY <2>1, ReadingIs
  <2>4. Arrives(Reading[one]["value"], x, b)
    BY <2>2, <2>3, ReaderIs DEF ValueArrives, Arrives
  <2>5. PropertyArrives(Reading[one], [name |-> none, value |-> x], c)
    BY <1>3, <2>2, <2>4, PropertyArriving
  <2>6. Arrives(Reading[two]["property"], got, c)
    BY <2>3, <2>5, ReaderIs DEF PropertyArrives, Arrives
  <2>7. c \in Seq(Byte)
    BY <1>3, <2>2, ConcatProperties
  <2>8. QED BY <2>6, <2>7 DEF ArrivesAsProperty, two
<1>7. got.value = x
  OBVIOUS
<1>8. ArrivesAsChange(none, got, (<<1>> \o a) \o c)
  <2> DEFINE two == 2
  <2>1. two \in Nat
    OBVIOUS
  <2> HIDE DEF none, a, c, got, two
  <2>2. ArrivesAsProperty(two, got, c)
    BY <1>6 DEF two
  <2>3. QED BY <1>2, <1>6, <2>1, <2>2, PropertyChangeArrives
<1> DEFINE frame == [type |-> "propertyChanged", path |-> none, property |-> got]
<1>9. frame.property = got
  OBVIOUS
<1>10. Decode(EncodePropertyChanged(none, sent, 2)) = {frame}
  BY <1>5, <1>8 DEF ArrivesAsChange
<1>11. QED
  <2> DEFINE decoded == Decode(EncodePropertyChanged(none, sent, 2))
  <2>1. decoded = {frame} /\ frame.property.value = x
    BY <1>7, <1>9, <1>10
  <2> HIDE DEF decoded, frame
  <2>2. {f.property.value : f \in decoded} = {x}
    BY <2>1
  <2>3. QED BY <2>2 DEF decoded

(* The values a change of a property brings if this value is written.      *)
Received(v) ==
  {f.property.value : f \in
     Decode(EncodePropertyChanged(<<>>, [name |-> <<>>, value |-> v], 2))}

(* A value of bytes, its type one of these.                                *)
LEMMA Flat ==
  ASSUME NEW type \in Types, NEW data \in Seq(Int)
  PROVE  /\ Value(type, data, <<>>) \in
              [type : Types, data : Seq(Int), items : Seq({})]
         /\ Value(type, data, <<>>).type = type
         /\ Value(type, data, <<>>).data = data
BY DEF Value

(* What is made of the bytes behind a marker is what is received.          *)
LEMMA MadeReceived ==
  ASSUME NEW v \in [type : Types, data : Seq(Int), items : Seq({})],
         NEW m \in Byte, m # Marker.array, NEW bytes \in Seq(Byte),
         Len(bytes) = Width(m, Len(bytes)), m = Marker.string => IsText(bytes),
         1 + Len(bytes) < Power[IntBytes],
         WriteValue(Writing[0], v) = Written(m, bytes)
  PROVE  Received(v) = {Made(m, bytes)}
<1> DEFINE w == WriteValue(Writing[0], v)
           x == Made(m, bytes)
<1>1. w \in Seq(Byte)
  BY WrittenLength
<1>2. ValueArrives(Reading[0], x, w)
  BY PlainArrives DEF ValueArrives
<1> HIDE DEF x
<1>3. QED BY <1>1, <1>2, Delivered DEF Received, x

(* Bytes are integers.                                                     *)
LEMMA BytesAreInts == Seq(Byte) \subseteq Seq(Int)
BY ByteIsInt

(* Any blob is received as it is.                                          *)
LEMMA BlobReceived ==
  ASSUME NEW bytes \in Seq(Byte), Len(bytes) + 1 < Power[IntBytes]
  PROVE  Received(Value("binary", bytes, <<>>)) = {Value("binary", bytes, <<>>)}
<1> DEFINE v == Value("binary", bytes, <<>>)
           m == 8
           write == Writing[0]
<1>1. m \in Byte /\ m # Marker.array /\ m # Marker.string /\ "binary" \in Types
  BY Bytes DEF Marker, Types
<1>2. v \in [type : Types, data : Seq(Int), items : Seq({})]
  BY <1>1, BytesAreInts, Flat
<1>3. WriteValue(write, v) = Written(m, bytes)
  BY DEF WriteValue, Value, Marker
<1>4. Made(m, bytes) = v /\ Len(bytes) = Width(m, Len(bytes))
  BY DEF Made, Width, Marker
<1>5. 1 + Len(bytes) < Power[IntBytes]
  BY WireWidths
<1> HIDE DEF v, m
<1>6. Received(v) = {Made(m, bytes)}
  BY <1>1, <1>2, <1>3, <1>4, <1>5, MadeReceived
<1>7. QED BY <1>4, <1>6 DEF v

(* Any text is received, but for the NULs at its end.                      *)
LEMMA TextReceived ==
  ASSUME NEW bytes \in Seq(Byte), Len(bytes) + 2 < Power[IntBytes], IsText(bytes)
  PROVE  Received(Value("string", bytes, <<>>)) =
           {Value("string", TrimNuls(bytes), <<>>)}
<1> DEFINE v == Value("string", bytes, <<>>)
           m == 5
           write == Writing[0]
           w == WriteCString(bytes)
<1>1. m \in Byte /\ m # Marker.array /\ m = Marker.string /\ "string" \in Types
  BY Bytes DEF Marker, Types
<1>2. v \in [type : Types, data : Seq(Int), items : Seq({})]
  BY <1>1, BytesAreInts, Flat
<1>3. WriteValue(write, v) = Written(m, w)
  BY DEF WriteValue, Value, Marker
<1>4. /\ w \in Seq(Byte) /\ Len(w) = Len(bytes) + 1
      /\ TrimNuls(w) = TrimNuls(bytes) /\ IsText(w)
  BY CStringLength, TrimmedAgain
<1>5. Made(m, w) = Value("string", TrimNuls(w), <<>>) /\ Len(w) = Width(m, Len(w))
  BY DEF Made, Width, Marker
<1>6. 1 + Len(w) < Power[IntBytes]
  <2>1. Len(bytes) \in Nat /\ Power[IntBytes] \in Nat
    BY WireWidths
  <2> HIDE DEF w
  <2>2. QED BY <1>4, <2>1
<1> HIDE DEF v, m, w
<1>7. Received(v) = {Made(m, w)}
  BY <1>1, <1>2, <1>3, <1>4, <1>5, <1>6, MadeReceived
<1>8. QED BY <1>4, <1>5, <1>7 DEF v

(* An integer is received as it is exactly if the wire has room for it.    *)
LEMMA IntReceived ==
  ASSUME NEW n \in Int
  PROVE  Received(Value("int", <<n>>, <<>>)) = {Value("int", <<n>>, <<>>)}
           <=> n \in -Half .. Half - 1
<1> DEFINE v == Value("int", <<n>>, <<>>)
           m == 1
           write == Writing[0]
           w == Digits[IntBytes][n % Power[IntBytes]]
           k == Signed(w)
<1>1. m \in Byte /\ m # Marker.array /\ m # Marker.string /\ "int" \in Types
  BY Bytes DEF Marker, Types
<1>2. v \in [type : Types, data : Seq(Int), items : Seq({})]
  <2>1. <<n>> \in Seq(Int)
    OBVIOUS
  <2>2. QED BY <1>1, <2>1, Flat
<1>3. WriteValue(write, v) = Written(m, w)
  BY DEF WriteValue, Value, Marker
<1>4. /\ w \in Seq(Byte) /\ Len(w) = IntBytes /\ k \in Int
      /\ k = n <=> n \in -Half .. Half - 1
  BY IntsWrap
<1>5. Made(m, w) = Value("int", <<k>>, <<>>) /\ Width(m, Len(w)) = IntBytes
  BY DEF Made, Width, Marker
<1>6. 1 + Len(w) < Power[IntBytes]
  <2>1. 1 + IntBytes < Power[IntBytes]
    BY WireWidths
  <2> HIDE DEF w
  <2>2. QED BY <1>4, <2>1
<1>7. <<k>> = <<n>> => k = n
  <2> HIDE DEF k
  <2>1. QED OBVIOUS
<1>8. Value("int", <<k>>, <<>>) = v <=> k = n
  <2> HIDE DEF k
  <2>1. QED BY <1>7 DEF Value
<1> HIDE DEF v, m, w, k
<1>9. Received(v) = {Made(m, w)}
  BY <1>1, <1>2, <1>3, <1>4, <1>5, <1>6, MadeReceived
<1>10. Received(v) = {v} <=> k = n
  BY <1>5, <1>8, <1>9
<1>11. QED BY <1>4, <1>10 DEF v

-----------------------------------------------------------------------------
(* ScreenTouched.                                                          *)

(* The bytes of two strings in a row.                                      *)
InARow(a, b, c) ==
  /\ c \in Seq(Byte) /\ Len(c) = Len(a) + Len(b)
  /\ \A i \in 1 .. Len(a) : c[i] = a[i]
  /\ \A i \in 1 .. Len(b) : c[Len(a) + i] = b[i]

(* These are the bytes of two strings in a row.                            *)
LEMMA BytesInARow ==
  ASSUME NEW a \in Seq(Byte), NEW b \in Seq(Byte)
  PROVE  InARow(a, b, a \o b)
BY DEF InARow

(* Two of the bytes of ScreenTouched are read as the count of a path, two  *)
(* as its step, the rest as the name of a property: nothing is left for    *)
(* its value.                                                              *)
LEMMA ScreenTouchedIsNoFrame == Decode(ScreenTouchedFrame) = {}
<1> DEFINE name == <<115, 99, 114, 101, 101, 110, 84, 111, 117, 99, 104, 101, 100>>
           text == WriteCString(name)
           head == <<1, 1, 1, 1>>
           data == head \o text
           change == ReadChange(data)
<1>1. /\ name \in Seq(Byte) /\ Len(name) = 13 /\ IsText(name)
      /\ \A i \in 1 .. 13 : name[i] # 0
      /\ name[1] = 115
  <2>1. /\ name \in Seq(0 .. 255) /\ Len(name) = 13
        /\ \A i \in 1 .. 13 : name[i] # 0 /\ name[i] < 128
        /\ name[1] = 115
    OBVIOUS
  <2> HIDE DEF name
  <2>2. QED BY <2>1, Bytes DEF IsText
<1>2. /\ head \in Seq(Byte) /\ Len(head) = 4 /\ \A i \in 1 .. 4 : head[i] = 1
  <2>1. head \in Seq(0 .. 255) /\ Len(head) = 4 /\ \A i \in 1 .. 4 : head[i] = 1
    OBVIOUS
  <2> HIDE DEF head
  <2>2. QED BY <2>1, Bytes
<1>3. ScreenTouchedFrame = data
  BY DEF ScreenTouchedFrame
<1> HIDE DEF name, head
<1>4. /\ text \in Seq(Byte) /\ Len(text) = 14
      /\ \A i \in 1 .. 13 : text[i] = name[i]
      /\ text[14] = 0
  <2> DEFINE nul == <<0>>
  <2>1. text \in Seq(Byte) /\ Len(text) = Len(name) + 1
        /\ text = name \o nul /\ nul \in Seq(Byte)
    BY <1>1, CStringLength
  <2>2. nul[1] = 0 /\ Len(nul) = 1
    OBVIOUS
  <2> DEFINE n == Len(name)
  <2>3. n = 13 /\ n \in Nat /\ name \in Seq(Byte)
    BY <1>1
  <2> HIDE DEF text, nul
  <2>4. /\ text \in Seq(Byte) /\ Len(text) = Len(name) + Len(nul)
        /\ \A i \in 1 .. Len(name) : text[i] = name[i]
        /\ \A i \in 1 .. Len(nul) : text[Len(name) + i] = nul[i]
    <3>1. nul \in Seq(Byte) /\ text = name \o nul
      BY <2>1
    <3>2. InARow(name, nul, name \o nul)
      BY <2>3, <3>1, BytesInARow
    <3>3. QED BY <3>1, <3>2 DEF InARow
  <2> HIDE DEF n
  <2>5. text[n + 1] = 0
    <3>1. 1 \in 1 .. Len(nul)
      BY <2>2
    <3>2. text[Len(name) + 1] = nul[1]
      BY <2>4, <3>1
    <3>3. QED BY <2>2, <3>2 DEF n
  <2>6. Len(text) = n + 1
    BY <2>2, <2>4 DEF n
  <2>7. \A i \in 1 .. n : text[i] = name[i]
    BY <2>4 DEF n
  <2>8. QED BY <2>1, <2>3, <2>5, <2>6, <2>7
<1> HIDE DEF text
<1>5. /\ data \in Seq(Byte) /\ Len(data) = 18
      /\ \A i \in 1 .. 4 : data[i] = head[i]
      /\ \A i \in 1 .. 14 : data[4 + i] = text[i]
  <2>1. head \in Seq(Byte) /\ text \in Seq(Byte)
    BY <1>2, <1>4
  <2>2. /\ data \in Seq(Byte) /\ Len(data) = Len(head) + Len(text)
        /\ \A i \in 1 .. Len(head) : data[i] = head[i]
        /\ \A i \in 1 .. Len(text) : data[Len(head) + i] = text[i]
    BY <2>1, BytesInARow DEF InARow
  <2> HIDE DEF data
  <2>3. Len(head) = 4 /\ Len(text) = 14
    BY <1>2, <1>4
  <2>4. QED BY <2>2, <2>3
<1> HIDE DEF data
<1>6. /\ data[1] = 1 /\ data[2] = 1 /\ data[3] = 1 /\ data[4] = 1
      /\ data[5] = 115 /\ data[18] = 0
  <2>1. data[5] = 115
    <3>1. data[4 + 1] = text[1]
      BY <1>5
    <3>2. text[1] = 115
      BY <1>1, <1>4
    <3>3. QED BY <3>1, <3>2
  <2>2. data[18] = 0
    <3>1. data[4 + 14] = text[14]
      BY <1>5
    <3>2. QED BY <3>1, <1>4
  <2>3. \A i \in 1 .. 4 : data[i] = 1
    BY <1>2, <1>5
  <2>4. QED BY <2>1, <2>2, <2>3
<1>7. \A i \in 1 .. 12 : data[5 + i] # 0
  <2>1. ASSUME NEW i \in 1 .. 12 PROVE data[5 + i] # 0
    <3>1. 5 + i = 4 + (i + 1) /\ i + 1 \in 1 .. 13 /\ i + 1 \in 1 .. 14
      OBVIOUS
    <3>2. data[5 + i] = text[i + 1]
      BY <1>5, <3>1
    <3>3. text[i + 1] # 0
      BY <1>1, <1>4, <3>1
    <3>4. QED BY <3>2, <3>3
  <2>2. QED BY <2>1
<1>8. \A i \in 1 .. 18 : data[i] < 128
  <2>1. ASSUME NEW i \in 1 .. 18 PROVE data[i] < 128
    <3>1. CASE i \in 1 .. 4
      BY <1>2, <1>5, <3>1
    <3>2. CASE i = 18
      BY <1>6, <3>2
    <3>3. CASE i \in 5 .. 17
      <4>1. i = 4 + (i - 4) /\ i - 4 \in 1 .. 13 /\ i - 4 \in 1 .. 14
        BY <3>3
      <4>2. data[i] = name[i - 4]
        BY <1>4, <1>5, <4>1
      <4>3. name[i - 4] < 128
        BY <1>1, <4>1 DEF IsText
      <4>4. QED BY <4>2, <4>3
    <3>4. QED BY <3>1, <3>2, <3>3
  <2>2. QED BY <2>1
<1>9. ReadCount(data, 1) = Got(1, 3) /\ ReadCount(data, 3) = Got(115, 5)
  <2>1. ASSUME NEW n \in 1 .. 255, NEW p \in 1 .. 16,
               data[p + 1] = 1, data[p + 2] = n
        PROVE  ReadCount(data, p) = Got(n, p + 2)
    <3>1. n \in Nat /\ n < Power[IntBytes] /\ p \in Nat
      BY WireWidths
    <3>2. WriteCompressedInt(n) = <<1, n>>
      BY <3>1, CompressedIntLength
    <3>3. Stands(<<1, n>>, data, p) /\ Len(<<1, n>>) = 2
      BY <1>5, <2>1 DEF Stands
    <3>4. ReadCount(data, p) = Got(n, p + Len(WriteCompressedInt(n)))
      BY <1>5, <3>1, <3>2, <3>3, CompressedIntArrives
    <3>5. QED BY <3>2, <3>3, <3>4
  <2>2. ReadCount(data, 1) = Got(1, 1 + 2)
    BY <1>6, <2>1
  <2>3. ReadCount(data, 3) = Got(115, 3 + 2)
    BY <1>6, <2>1
  <2>4. QED BY <2>2, <2>3
<1>10. ReadPath(data, 1) = Got(<<115>> \o <<>>, 5)
  <2> DEFINE read == Reading[1]
             kind == "step"
             zero == 0
             one == 1
             three == 3
             five == 5
             count == ReadCount(data, one)
             first == read[kind][data][three]
             others == ReadList(read, kind, zero, data, first.next)
  <2>1. count.ok /\ count.val = one /\ count.next = three
    BY <1>9, Results
  <2>2. first = Got(115, five)
    <3>1. read = Reader(Reading[0])
      <4>1. 0 \in Nat /\ 0 + 1 = 1
        OBVIOUS
      <4>2. QED BY <4>1, ReadingIs
    <3>2. first = ReadCount(data, three)
      <4>1. three \in Nat
        OBVIOUS
      <4> HIDE DEF three
      <4>2. Reader(Reading[0])["step"][data][three] = ReadCount(data, three)
        BY <1>5, <4>1, ReaderIs
      <4>3. QED BY <3>1, <4>2
    <3>3. QED BY <1>9, <3>2
  <2>3. /\ zero \in Nat /\ one = zero + 1 /\ three \in Nat /\ five \in Nat
        /\ zero = 0 /\ ReadPath(data, 1) = ReadCounted(read, kind, data, one)
    BY DEF ReadPath
  <2> HIDE DEF read, kind, zero, one, three, five
  <2>4. first.ok /\ first.val = 115 /\ first.next = five
    <3> HIDE DEF first
    <3>1. QED BY <2>2, Results
  <2>5. others = Got(<<>>, five)
    BY <2>3, <2>4, ListBegins
  <2> HIDE DEF first, others, count
  <2>6. others.ok /\ others.val = <<>> /\ others.next = five
    BY <2>5, Results
  <2>7. ReadCounted(read, kind, data, one) = ReadList(read, kind, one, data, three)
    BY <2>1, CountedIs DEF count
  <2>8. /\ ReadList(read, kind, one, data, three).ok => first.ok /\ others.ok
        /\ first.ok /\ others.ok =>
             ReadList(read, kind, one, data, three) =
               Got(<<first.val>> \o others.val, others.next)
    BY <2>3, ListGoesOn DEF first, others
  <2>9. ReadList(read, kind, one, data, three) = Got(<<115>> \o <<>>, five)
    BY <2>4, <2>6, <2>8
  <2>10. QED BY <2>3, <2>7, <2>9 DEF five
<1>11. ReadCString(data, 5).next = 18
  <2> DEFINE five == 5
             end == 17
  <2>1. five \in Nat /\ end \in Nat
    OBVIOUS
  <2>2. EndsAt(data, five, end)
    BY <1>5, <1>6, <1>7 DEF EndsAt
  <2>3. IsText(SubSeq(data, five + 1, end))
    BY <1>5, <1>8 DEF IsText
  <2> HIDE DEF five, end
  <2>4. ReadCString(data, five) = Got(SubSeq(data, five + 1, end), end + 1)
    BY <1>5, <2>1, <2>2, <2>3, CStringRead
  <2>5. ReadCString(data, five).next = end + 1
    BY <2>4, Results
  <2>6. QED BY <2>5 DEF five, end
<1>12. ~ Reading[Len(data)]["property"][data][5].ok
  <2> DEFINE five == 5
             d == 17
             e == 18
             read == Reading[d]
  <2>1. five \in Nat /\ d \in Nat /\ e = d + 1 /\ e = Len(data) /\ e \in Nat
        /\ ReadCString(data, five).next = e
    BY <1>5, <1>11
  <2>2. Reads(read["value"][data], Things[d]["value"], data)
    <3>1. "value" \in Kinds
      BY DEF Kinds
    <3> HIDE DEF d
    <3>2. QED BY <1>5, <2>1, <3>1, ReadingFits
  <2> HIDE DEF five, d, e
  <2>3. Reading[e] = Reader(read)
    BY <2>1, ReadingIs
  <2> HIDE DEF read
  <2>4. Reading[e]["property"][data][five] = ReadProperty(read, data, five)
    BY <1>5, <2>1, <2>3, ReaderIs
  <2>5. SUFFICES ASSUME ReadProperty(read, data, five).ok PROVE FALSE
    BY <2>1, <2>4 DEF five
  <2> DEFINE s == ReadCString(data, five)
             value == read["value"][data][s.next]
             r == ReadProperty(read, data, five)
  <2>6. value.ok
    BY <1>5, <2>1, <2>2, <2>5, PropertiesFit
  <2>7. s.next = e
    BY <2>1
  <2> HIDE DEF s
  <2>8. value.next \in e + 1 .. Len(data)
    BY <2>1, <2>2, <2>6, <2>7 DEF Reads
  <2> HIDE DEF value
  <2>9. QED BY <2>1, <2>8
<1>13. change = ReadFrame(1, data, 1)
  BY <1>5, <1>6, ChangeIs
<1>14. ReadFrame(1, data, 1) = Nothing
  <2> DEFINE path == ReadPath(data, 1)
             property == Reading[Len(data)]["property"][data][path.next]
  <2>1. path.ok /\ path.next = 5
    <3> HIDE DEF path
    <3>1. path = Got(<<115>> \o <<>>, 5)
      BY <1>10 DEF path
    <3>2. QED BY <3>1, Results
  <2>2. ~ property.ok
    BY <1>12, <2>1
  <2>3. ReadFrame(1, data, 1) =
          IF ~ path.ok THEN Nothing ELSE IF ~ property.ok THEN Nothing
          ELSE Got([type |-> "propertyChanged", path |-> path.val,
                    property |-> property.val], property.next)
    BY DEF ReadFrame, Then
  <2> HIDE DEF path, property
  <2>4. QED BY <2>1, <2>2, <2>3
<1>15. ~ change.ok
  <2> HIDE DEF change
  <2>1. QED BY <1>13, <1>14, Results
<1>16. QED BY <1>3, <1>15 DEF Decode

-----------------------------------------------------------------------------
(* Pulses.                                                                 *)

(* A boolean, and the bytes it is written as.                              *)
Bool(on) == Plain(IF on THEN "true" ELSE "false")

Bits(on) == <<1, 1, IF on THEN Marker.true ELSE Marker.false>>

(* Three bytes in a row.                                                   *)
LEMMA ThreeBytes ==
  ASSUME NEW m \in Byte
  PROVE  <<1, 1>> \o <<m>> = <<1, 1, m>>
<1> DEFINE a == <<1, 1>>
           b == <<m>>
           c == <<1, 1, m>>
           d == a \o b
<1>1. 1 \in Byte
  BY Bytes
<1>2. a \in Seq(Byte) /\ b \in Seq(Byte) /\ c \in Seq(Byte)
  BY <1>1
<1>3. /\ Len(a) = 2 /\ a[1] = 1 /\ a[2] = 1
      /\ Len(b) = 1 /\ b[1] = m
      /\ Len(c) = 3 /\ c[1] = 1 /\ c[2] = 1 /\ c[3] = m
  OBVIOUS
<1>4. InARow(a, b, d)
  <2> HIDE DEF a, b
  <2>1. QED BY <1>2, BytesInARow
<1> HIDE DEF a, b, c, d
<1>5. /\ d \in Seq(Byte) /\ Len(d) = 3 /\ d[1] = 1 /\ d[2] = 1
      /\ d[2 + 1] = m
  BY <1>3, <1>4 DEF InARow
<1>6. \A i \in 1 .. Len(d) : d[i] = c[i]
  BY <1>3, <1>5
<1>7. d = c
  <2>1. Len(d) = Len(c)
    BY <1>3, <1>5
  <2>2. QED BY <1>2, <1>5, <1>6, <2>1, SeqEqual
<1>8. QED BY <1>7 DEF a, b, c, d

(* A boolean is written as three bytes.                                    *)
LEMMA BoolWritten ==
  ASSUME NEW write, NEW on \in BOOLEAN
  PROVE  /\ WriteValue(write, Bool(on)) = Bits(on)
         /\ Bits(on) \in Seq(Byte)
         /\ ValueArrives(write, Bool(on), Bits(on))
<1> DEFINE m == IF on THEN 2 ELSE 3
           none == <<>>
           v == Bool(on)
           one == 1
<1>1. m \in Byte /\ m # Marker.array /\ m # Marker.string
      /\ none \in Seq(Byte) /\ Len(none) = 0
  BY Bytes DEF Marker
<1>2. v.data = none /\ v.type = (IF on THEN "true" ELSE "false")
  BY DEF Bool, Plain, Value
<1>3. WriteValue(write, v) = Written(m, none)
  <2>1. v.type \notin {"int", "string", "array", "unknown"} /\ Marker[v.type] = m
    BY <1>2 DEF Marker
  <2> HIDE DEF v, m, none
  <2>2. WriteValue(write, v) = Written(Marker[v.type], v.data)
    BY <2>1 DEF WriteValue
  <2>3. QED BY <1>2, <2>1, <2>2
<1>4. Made(m, none) = v
  BY DEF Made, Marker, Bool
<1>5. Width(m, 0) = 0
  BY DEF Width, Marker
<1>6. Goes(v, write, m, none)
  <2> HIDE DEF v, m, none
  <2>1. QED BY <1>1, <1>3, <1>4, <1>5 DEF Goes
<1>7. 1 + Len(none) < Power[IntBytes]
  BY WireWidths
<1> HIDE DEF v, m
<1>8. ValueArrives(write, v, WriteValue(write, v))
  <2> HIDE DEF none
  <2>1. QED BY <1>1, <1>6, <1>7, GoesArrives
<1>9. Written(m, none) = <<1, 1, m>> /\ <<1, 1, m>> \in Seq(Byte)
  <2>1. WriteCompressedInt(1 + Len(none)) = <<1, 1>>
    <3>1. one \in Nat /\ one \in 1 .. 255 /\ 1 + Len(none) = one
      OBVIOUS
    <3> HIDE DEF one, none
    <3>2. WriteCompressedInt(one) = <<1, one>>
      BY <3>1, CompressedIntLength
    <3>3. QED BY <3>1, <3>2 DEF one
  <2>2. Written(m, none) = (<<1, 1>> \o <<m>>) \o none
    BY <2>1 DEF Written
  <2>3. <<1, 1>> \o <<m>> = <<1, 1, m>>
    BY <1>1, ThreeBytes
  <2>4. 1 \in Byte
    BY Bytes
  <2>5. <<1, 1, m>> \in Seq(Byte)
    BY <1>1, <2>4
  <2>6. <<1, 1, m>> \o none = <<1, 1, m>>
    BY <2>5, ConcatEmptySeq
  <2>7. QED BY <2>2, <2>3, <2>5, <2>6
<1>10. Bits(on) = <<1, 1, m>>
  BY DEF Bits, Marker, m
<1>11. QED BY <1>3, <1>8, <1>9, <1>10 DEF v

(* What is read as a boolean is one, and nothing more.                     *)
LEMMA BoolRead ==
  ASSUME NEW read, NEW data \in Seq(Byte), NEW p \in Nat,
         ReadValue(read, data, p).ok,
         ReadValue(read, data, p).val.type \in {"true", "false"}
  PROVE  ReadValue(read, data, p).val = Bool(ReadValue(read, data, p).val.type = "true")
<1> DEFINE r == ReadValue(read, data, p)
           len == ReadCompressedInt(data, p)
           marker == data[len.next + 1]
           one == TakeBytes(data, len.next, 1)
           q == len.next + 1
           left == len.val - 1
           marked == ReadMarked(read, marker, left, data, q)
           IsBool(v) == v.type \in {"true", "false"} => v = Bool(v.type = "true")
<1>1. r = IF ~ len.ok THEN Nothing
          ELSE IF len.val <= 0 THEN Got(Plain("undefined"), len.next)
          ELSE IF ~ one.ok THEN Nothing ELSE marked
  BY ValueIs
<1>2. IsBool(Plain("undefined"))
  BY DEF Plain, Value
<1>3. \A items : IsBool(Value("array", <<>>, items))
  BY DEF Value
<1>4. \A m, bytes : IsBool(Made(m, bytes))
  <2>1. SUFFICES ASSUME NEW m, NEW bytes PROVE IsBool(Made(m, bytes))
    OBVIOUS
  <2>2. CASE m = 2
    BY <2>2 DEF Made, Marker, Bool, Plain, Value
  <2>3. CASE m = 3
    BY <2>3 DEF Made, Marker, Bool, Plain, Value
  <2>4. CASE m # 2 /\ m # 3
    <3>1. Made(m, bytes).type \notin {"true", "false"}
      BY <2>4 DEF Made, Marker, Plain, Value
    <3>2. QED BY <3>1
  <2>5. QED BY <2>2, <2>3, <2>4
<1>5. r.ok
  OBVIOUS
<1>6. CASE ~ len.ok \/ (len.val > 0 /\ ~ one.ok)
  <2>1. r = Nothing
    <3>1. CASE ~ len.ok
      BY <1>1, <3>1
    <3>2. CASE len.ok /\ len.val > 0 /\ ~ one.ok
      <4>1. len.val \in Int
        BY <3>2, CompressedIntsFit
      <4> HIDE DEF len, one, marked, r
      <4>2. ~ (len.val <= 0)
        BY <3>2, <4>1
      <4>3. QED BY <1>1, <3>2, <4>2
    <3>3. QED BY <1>6, <3>1, <3>2
  <2> HIDE DEF r
  <2>2. QED BY <1>5, <2>1, Results
<1>7. CASE len.ok /\ len.val <= 0
  <2> HIDE DEF len, one, marked
  <2>1. r = Got(Plain("undefined"), len.next)
    BY <1>1, <1>7
  <2>2. r.val = Plain("undefined")
    <3> HIDE DEF r
    <3>1. QED BY <2>1, Results
  <2> HIDE DEF r
  <2>3. IsBool(r.val)
    BY <1>2, <2>2
  <2>4. QED BY <2>3 DEF r
<1>8. CASE len.ok /\ ~ (len.val <= 0) /\ one.ok
  <2>1. r = marked
    <3> HIDE DEF len, one, marked, r
    <3>1. QED BY <1>1, <1>8
  <2>2. len.val \in Int /\ len.next \in Nat /\ marker \in Byte
    <3>1. len.val \in Int /\ len.next \in p + 1 .. Len(data)
      BY <1>8, CompressedIntsFit
    <3>2. len.next \in Nat
      <4> HIDE DEF len
      <4>1. QED BY <3>1
    <3>3. marker \in 0 .. 255
      <4> HIDE DEF len
      <4>1. QED BY <1>8, <3>2, OneByteTaken
    <3>4. QED BY <3>1, <3>2, <3>3, Bytes
  <2>3. left \in Nat /\ q \in Nat
    <3> HIDE DEF len
    <3>1. QED BY <1>8, <2>2
  <2> HIDE DEF len, left, q, marker
  <2>4. CASE marker = Marker.array
    <3> DEFINE c == ReadCounted(read, "value", data, q)
    <3>1. marked = IF c.ok THEN Got(Value("array", <<>>, c.val), c.next) ELSE Nothing
      BY <2>4 DEF ReadMarked, Then
    <3>2. marked.ok
      BY <2>1
    <3> HIDE DEF marked, c, r
    <3>3. marked.val = Value("array", <<>>, c.val)
      BY <3>1, <3>2, Results
    <3>4. IsBool(r.val)
      BY <1>3, <2>1, <3>3
    <3>5. QED BY <3>4 DEF r
  <2>5. CASE marker # Marker.array
    <3> DEFINE w == Width(marker, left)
               bytes == TakeBytes(data, q, w)
    <3>1. marked = ReadPlain(marker, left, data, q)
      BY <2>5 DEF ReadMarked
    <3>2. /\ ReadPlain(marker, left, data, q).ok =>
               bytes.ok /\ (marker = Marker.string => IsText(bytes.val))
          /\ bytes.ok /\ (marker = Marker.string => IsText(bytes.val)) =>
               ReadPlain(marker, left, data, q) = Got(Made(marker, bytes.val), q + w)
      BY <2>2, <2>3, PlainIs
    <3>3. ReadPlain(marker, left, data, q).ok
      BY <2>1, <3>1
    <3>4. marked = Got(Made(marker, bytes.val), q + w)
      BY <3>1, <3>2, <3>3
    <3> HIDE DEF marked, bytes, w, r
    <3>5. marked.val = Made(marker, bytes.val)
      BY <3>4, Results
    <3>6. IsBool(r.val)
      BY <1>4, <2>1, <3>5
    <3>7. QED BY <3>6 DEF r
  <2>6. QED BY <2>4, <2>5
<1>9. (len.ok /\ ~ (len.val <= 0)) => len.val > 0
  <2>1. len.ok => len.val \in Int
    BY CompressedIntsFit
  <2> HIDE DEF len
  <2>2. QED BY <2>1
<1>10. QED BY <1>6, <1>7, <1>8, <1>9

(* Values are read one deeper than what is inside them.                    *)
LEMMA ValuesRead ==
  ASSUME NEW data \in Seq(Byte), NEW p \in Nat
  PROVE  Reading[1]["value"][data][p] = ReadValue(Reading[0], data, p)
<1>1. Reading[1] = Reader(Reading[0])
  <2>1. 0 \in Nat /\ 0 + 1 = 1
    OBVIOUS
  <2>2. QED BY <2>1, ReadingIs
<1>2. QED BY <1>1, ReaderIs

(* What the trigger of a button is written as is read as its booleans.     *)
LEMMA PairArrives ==
  ASSUME NEW a \in BOOLEAN, NEW b \in BOOLEAN
  PROVE  LET two == ReadList(Reading[1], "value", 2, BoolPair(a, b), 0)
         IN  two.ok /\ two.val[1] = Bool(a) /\ two.val[2] = Bool(b)
<1> DEFINE read == Reading[1]
           kind == "value"
           x == Bool(a)
           y == Bool(b)
           v == Bits(a)
           w == Bits(b)
           none == <<>>
           data == BoolPair(a, b)
           zero == 0
           one == 1
           two == 2
<1>1. data = v \o w
  BY DEF BoolPair, Bits
<1>2. v \in Seq(Byte) /\ w \in Seq(Byte) /\ none \in Seq(Byte)
      /\ ValueArrives(Reading[0], x, v) /\ ValueArrives(Reading[0], y, w)
  <2>1. /\ WriteValue(Reading[0], Bool(a)) = Bits(a) /\ Bits(a) \in Seq(Byte)
        /\ ValueArrives(Reading[0], Bool(a), Bits(a))
    BY BoolWritten
  <2>2. /\ WriteValue(Reading[0], Bool(b)) = Bits(b) /\ Bits(b) \in Seq(Byte)
        /\ ValueArrives(Reading[0], Bool(b), Bits(b))
    BY BoolWritten
  <2>3. none \in Seq(Byte)
    OBVIOUS
  <2>4. QED BY <2>1, <2>2, <2>3
<1>3. Arrives(read[kind], x, v) /\ Arrives(read[kind], y, w)
  <2>1. ValueArrives(Reading[0], x, v) /\ ValueArrives(Reading[0], y, w)
    BY <1>2
  <2> HIDE DEF x, y, v, w
  <2>2. QED BY <2>1, ValuesRead DEF Arrives, ValueArrives
<1>4. zero \in Nat /\ one = zero + 1 /\ one \in Nat /\ two = one + 1
  OBVIOUS
<1>5. ListArrives(read, kind, zero, none, none)
  BY NoneArrive
<1> HIDE DEF read, kind, x, y, v, w, none, data, zero, one, two
<1> DEFINE others == <<y>> \o none
           bytes == w \o none
           list == <<x>> \o others
           all == v \o bytes
<1>6. ListArrives(read, kind, one, others, bytes)
  BY <1>2, <1>3, <1>4, <1>5, ListGoesOnArriving
<1>7. bytes = w /\ bytes \in Seq(Byte)
  BY <1>2, ConcatEmptySeq DEF none
<1> HIDE DEF others, bytes
<1>8. ListArrives(read, kind, two, list, all)
  BY <1>2, <1>3, <1>4, <1>6, <1>7, ListGoesOnArriving
<1>9. all = data /\ data \in Seq(Byte)
  BY <1>1, <1>2, <1>7, ConcatProperties
<1>10. Stands(data, data, zero)
  BY <1>9 DEF Stands, zero
<1> HIDE DEF list, all
<1>11. ReadList(read, kind, two, data, zero) = Got(list, zero + Len(data))
  BY <1>4, <1>8, <1>9, <1>10 DEF ListArrives
<1>12. list[1] = x /\ list[2] = y
  BY DEF list, others, none
<1> DEFINE r == ReadList(read, kind, two, data, zero)
<1>13. r.ok /\ r.val = list
  <2> HIDE DEF r
  <2>1. QED BY <1>11, Results DEF r
<1>14. r.ok /\ r.val[1] = x /\ r.val[2] = y
  BY <1>12, <1>13
<1>15. QED BY <1>14 DEF read, kind, two, data, zero, x, y

(* Of two values that are read, those that are booleans are just that.     *)
LEMMA PairRead ==
  ASSUME NEW data \in Seq(Byte),
         ReadList(Reading[1], "value", 2, data, 0).ok
  PROVE  \A i \in 1 .. 2 :
           LET v == ReadList(Reading[1], "value", 2, data, 0).val[i]
           IN  v.type \in {"true", "false"} => v = Bool(v.type = "true")
<1> DEFINE read == Reading[1]
           kind == "value"
           none == <<>>
           zero == 0
           one == 1
           two == 2
           List(n, p) == ReadList(read, kind, n, data, p)
           first == read[kind][data][zero]
           others == List(one, first.next)
           second == read[kind][data][first.next]
           rest == List(zero, second.next)
           IsBool(v) == v.type \in {"true", "false"} => v = Bool(v.type = "true")
<1>1. /\ zero \in Nat /\ one = zero + 1 /\ one \in Nat /\ two = one + 1 /\ two \in Nat
      /\ List(two, zero).ok /\ kind \in Kinds /\ one \in Nat
  BY DEF Kinds
<1>2. \A p \in Nat : read[kind][data][p].ok =>
        IsBool(read[kind][data][p].val) /\ read[kind][data][p].next \in Nat
  <2>1. ASSUME NEW p \in Nat, read[kind][data][p].ok
        PROVE  IsBool(read[kind][data][p].val) /\ read[kind][data][p].next \in Nat
    <3>1. read[kind][data][p] = ReadValue(Reading[0], data, p)
      BY ValuesRead
    <3>2. IsBool(ReadValue(Reading[0], data, p).val)
      BY <2>1, <3>1, BoolRead
    <3>3. read[kind][data][p].next \in p + 1 .. Len(data)
      BY <2>1, <1>1, ReadingFits DEF Reads
    <3>4. QED BY <3>1, <3>2, <3>3
  <2>2. QED BY <2>1
<1>3. \A p \in Nat, n \in Nat, m \in Nat : m = n + 1 => GoesOn(read, kind, n, m, data, p)
  BY ListUnfolds
<1> HIDE DEF read, kind, zero, one, two, IsBool
<1>4. /\ List(two, zero).ok => first.ok /\ others.ok
      /\ first.ok /\ others.ok =>
           List(two, zero) = Got(<<first.val>> \o others.val, others.next)
  BY <1>1, <1>3 DEF GoesOn
<1>5. first.ok /\ others.ok /\ first.next \in Nat /\ IsBool(first.val)
  BY <1>1, <1>2, <1>4
<1>6. /\ others.ok => second.ok /\ rest.ok
      /\ second.ok /\ rest.ok =>
           others = Got(<<second.val>> \o rest.val, rest.next)
  BY <1>1, <1>3, <1>5 DEF GoesOn
<1>7. second.ok /\ second.next \in Nat /\ IsBool(second.val)
  BY <1>2, <1>5, <1>6
<1>8. rest = Got(none, second.next)
  BY <1>7, ListBegins DEF zero
<1> DEFINE list == List(two, zero)
<1> HIDE DEF first, others, second, rest, list
<1>9. rest.ok /\ rest.val = none
  BY <1>8, Results
<1>10. others = Got(<<second.val>> \o none, rest.next)
  BY <1>6, <1>7, <1>9
<1>11. others.val = <<second.val>> \o none
  BY <1>10, Results
<1>12. list = Got(<<first.val>> \o (<<second.val>> \o none), others.next)
  BY <1>4, <1>5, <1>11 DEF list
<1>13. list.val = <<first.val>> \o (<<second.val>> \o none)
  BY <1>12, Results
<1>14. list.val[1] = first.val /\ list.val[2] = second.val
  <2> DEFINE v == first.val
             w == second.val
  <2> HIDE DEF v, w
  <2>1. (<<v>> \o (<<w>> \o <<>>))[1] = v /\ (<<v>> \o (<<w>> \o <<>>))[2] = w
    OBVIOUS
  <2>2. QED BY <1>13, <2>1 DEF v, w
<1>15. \A i \in 1 .. 2 : IsBool(list.val[i])
  BY <1>5, <1>7, <1>14
<1>16. QED BY <1>15 DEF IsBool, list, read, kind, zero, two

(* A blob is a pulse exactly if it is two booleans as they are written.    *)
LEMMA PulsesAreTwoBooleans ==
  ASSUME NEW bytes \in Seq(Byte)
  PROVE  LET two == ReadList(Reading[1], "value", 2, bytes, 0)
         IN  DecodePhase(Value("binary", bytes, <<>>)) =
               {IF v[1].type = "true" THEN "press" ELSE "release" :
                  v \in {w \in IF two.ok THEN {two.val} ELSE {} :
                           /\ \A i \in 1 .. 2 : w[i].type \in {"true", "false"}
                           /\ WriteValue(Writing[0], w[1])
                                \o WriteValue(Writing[0], w[2]) = bytes}}
<1> DEFINE two == ReadList(Reading[1], "value", 2, bytes, 0)
           x == two.val
           on(i) == x[i].type = "true"
           write == Writing[0]
           Phase(pressed) == IF pressed THEN "press" ELSE "release"
           Good(w) == /\ \A i \in 1 .. 2 : w[i].type \in {"true", "false"}
                      /\ WriteValue(write, w[1]) \o WriteValue(write, w[2]) = bytes
           lists == IF two.ok THEN {x} ELSE {}
           pulses == {Phase(v[1].type = "true") : v \in {w \in lists : Good(w)}}
           phases == {Phase(pair[1]) : pair \in DecodeBoolPair(bytes)}
<1>1. DecodePhase(Value("binary", bytes, <<>>)) = phases
  BY DEF DecodePhase, Value
<1>2. \A a \in BOOLEAN, b \in BOOLEAN : BoolPair(a, b) = Bits(a) \o Bits(b)
  BY DEF BoolPair, Bits
<1>3. \A a \in BOOLEAN : /\ Bool(a).type \in {"true", "false"}
                         /\ (Bool(a).type = "true") = a
  BY DEF Bool, Plain, Value
<1>4. \A a \in BOOLEAN : WriteValue(write, Bool(a)) = Bits(a)
  BY BoolWritten
<1>5. \A a \in BOOLEAN, b \in BOOLEAN :
        bytes = BoolPair(a, b) => two.ok /\ x[1] = Bool(a) /\ x[2] = Bool(b)
  BY PairArrives
<1>6. two.ok => \A i \in 1 .. 2 :
        x[i].type \in {"true", "false"} => x[i] = Bool(x[i].type = "true")
  BY PairRead
<1> HIDE DEF two, x, write
<1>7. ASSUME NEW s \in phases PROVE s \in pulses
  <2>1. PICK pair \in BOOLEAN \X BOOLEAN : bytes = BoolPair(pair[1], pair[2])
                                           /\ s = Phase(pair[1])
    BY DEF DecodeBoolPair
  <2> DEFINE a == pair[1]
             b == pair[2]
  <2>2. a \in BOOLEAN /\ b \in BOOLEAN
    OBVIOUS
  <2>3. bytes = BoolPair(a, b) /\ s = Phase(a)
    BY <2>1
  <2> HIDE DEF a, b
  <2>4. two.ok /\ x[1] = Bool(a) /\ x[2] = Bool(b)
    BY <1>5, <2>2, <2>3
  <2>5. WriteValue(write, x[1]) \o WriteValue(write, x[2]) = bytes
    BY <1>2, <1>4, <2>2, <2>3, <2>4
  <2>6. \A i \in 1 .. 2 : x[i].type \in {"true", "false"}
    BY <1>3, <2>2, <2>4
  <2>7. Good(x)
    BY <2>5, <2>6
  <2>8. x \in lists
    BY <2>4
  <2>9. s = Phase(x[1].type = "true")
    BY <1>3, <2>2, <2>3, <2>4
  <2> HIDE DEF Good, Phase, lists
  <2>10. QED BY <2>7, <2>8, <2>9
<1>8. ASSUME NEW s \in pulses PROVE s \in phases
  <2>1. PICK v \in lists : Good(v) /\ s = Phase(v[1].type = "true")
    <3> HIDE DEF Good, Phase, lists
    <3>1. QED OBVIOUS
  <2>2. two.ok /\ v = x
    BY <2>1
  <2>3. Good(x) /\ s = Phase(x[1].type = "true")
    BY <2>1, <2>2
  <2> DEFINE a == x[1].type = "true"
             b == x[2].type = "true"
  <2>4. x[1] = Bool(a) /\ x[2] = Bool(b)
    BY <1>6, <2>2, <2>3
  <2>5. a \in BOOLEAN /\ b \in BOOLEAN
    OBVIOUS
  <2>6. WriteValue(write, x[1]) \o WriteValue(write, x[2]) = bytes
    BY <2>3
  <2> DEFINE pair == <<a, b>>
  <2>7. pair \in BOOLEAN \X BOOLEAN /\ pair[1] = a /\ pair[2] = b
    OBVIOUS
  <2>8. s = Phase(a)
    BY <2>3
  <2> HIDE DEF a, b, pair, Phase
  <2>9. bytes = BoolPair(a, b)
    BY <1>2, <1>4, <2>4, <2>5, <2>6
  <2>10. pair \in DecodeBoolPair(bytes)
    BY <2>7, <2>9 DEF DecodeBoolPair
  <2>11. QED BY <2>7, <2>8, <2>10
<1>9. phases = pulses
  <2> HIDE DEF phases, pulses
  <2>1. QED BY <1>7, <1>8
<1>10. QED BY <1>1, <1>9 DEF two, x, write

(* What is written arrives: any blob, any text, any integer the wire has   *)
(* room for; pulses are two booleans; ScreenTouched is no frame.           *)
THEOREM WritingArrives == Spec => []WrittenValuesArrive
<1>1. payload \in Seq(Byte) => WrittenValuesArrive
  <2>1. SUFFICES ASSUME payload \in Seq(Byte) PROVE WrittenValuesArrive
    OBVIOUS
  <2> DEFINE blob == Value("binary", payload, <<>>)
             text == Value("string", payload, <<>>)
             two == ReadList(Reading[1], "value", 2, payload, 0)
  <2>2. Len(payload) + 1 < Power[IntBytes] => Received(blob) = {blob}
    BY <2>1, BlobReceived
  <2>3. Len(payload) + 2 < Power[IntBytes] /\ IsText(payload) =>
          Received(text) = {[text EXCEPT !.data = TrimNuls(payload)]}
    <3>1. [text EXCEPT !.data = TrimNuls(payload)] =
            Value("string", TrimNuls(payload), <<>>)
      BY DEF Value
    <3>2. QED BY <2>1, <3>1, TextReceived
  <2>4. \A n \in {Number(payload), -Number(payload)} :
          Received(Value("int", <<n>>, <<>>)) = {Value("int", <<n>>, <<>>)}
            <=> n \in -Half .. Half - 1
    <3>1. Number(payload) \in Int
      BY <2>1, NumberIs
    <3>2. -Number(payload) \in Int
      <4> DEFINE k == Number(payload)
      <4>1. k \in Int
        BY <3>1
      <4> HIDE DEF k
      <4>2. -k \in Int
        BY <4>1
      <4>3. QED BY <4>2 DEF k
    <3>3. \A n \in {Number(payload), -Number(payload)} : n \in Int
      BY <3>1, <3>2
    <3>4. QED BY <3>3, IntReceived
  <2>5. DecodePhase(blob) =
          {IF v[1].type = "true" THEN "press" ELSE "release" :
             v \in {w \in IF two.ok THEN {two.val} ELSE {} :
                      /\ \A i \in 1 .. 2 : w[i].type \in {"true", "false"}
                      /\ WriteValue(Writing[0], w[1])
                           \o WriteValue(Writing[0], w[2]) = payload}}
    BY <2>1, PulsesAreTwoBooleans
  <2>6. Decode(ScreenTouchedFrame) = {}
    BY ScreenTouchedIsNoFrame
  <2>7. QED
    BY <2>2, <2>3, <2>4, <2>5, <2>6 DEF WrittenValuesArrive, Received, Half
<1>2. QED BY <1>1, AreBytes, PTL
=============================================================================
