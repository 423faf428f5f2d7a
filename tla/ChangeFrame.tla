---------------------------- MODULE ChangeFrame ----------------------------
(***************************************************************************)
(* The change frame codec (src/src/change_frame.rs, juce_var.rs and        *)
(* valuetree.rs): bytes to frames, and frames to bytes; and the pulses of  *)
(* momentary buttons, which are blobs with values inside (trigger.rs).     *)
(*                                                                         *)
(* A reader takes the data and a position.  It got something, and tells    *)
(* the position after it, or it got Nothing, where the code returns None.  *)
(* Then chains readers as the code's `?` does.  A byte of 128 or more is   *)
(* not valid in a string; doubles and 64-bit integers are left as bytes.   *)
(*                                                                         *)
(* Values and nodes nest.  What recurses in the code is a function of how  *)
(* deep they may nest at most: Reading[depth] reads what Writing[depth]    *)
(* writes.                                                                 *)
(***************************************************************************)
EXTENDS Integers, SequencesExt

CONSTANTS
  IntBytes,  (* bytes of an int, and at most of a compressed one: 4        *)
  LongBytes  (* bytes of a double or a 64-bit int: 8                       *)

ASSUME WidthsAssumption == IntBytes \in 1 .. 4 /\ LongBytes \in Nat

Base == 256
Byte == 0 .. Base - 1

(* What k bytes can tell apart.                                            *)
Power[k \in Nat] == IF k = 0 THEN 1 ELSE Base * Power[k - 1]

Got(val, next) == [ok |-> TRUE, val |-> val, next |-> next]
Nothing == [ok |-> FALSE]
Then(result, After(_, _)) ==
  IF result.ok THEN After(result.val, result.next) ELSE Nothing

TakeBytes(data, p, n) ==
  IF p + n <= Len(data) THEN Got(SubSeq(data, p + 1, p + n), p + n)
                        ELSE Nothing

(* Little-endian: the number of the last k bytes, from the highest down.   *)
NumberOfLast(bytes) ==
  LET number[k \in Nat] ==
        IF k = 0 THEN 0
        ELSE bytes[Len(bytes) + 1 - k] + Base * number[k - 1]
  IN  number

Number(bytes) == NumberOfLast(bytes)[Len(bytes)]

NoDigits == [n \in Nat |-> <<>>]
LowestFirst(digits) == [n \in Nat |-> <<n % Base>> \o digits[n \div Base]]

(* The k lowest bytes of a number.                                         *)
Digits[k \in Nat] == IF k = 0 THEN NoDigits ELSE LowestFirst(Digits[k - 1])

(* A size byte with a sign bit, then that many bytes.                      *)
ReadCompressedInt(data, p) ==
  Then(TakeBytes(data, p, 1), LAMBDA size, q :
    IF size[1] % 128 > IntBytes THEN Nothing
    ELSE Then(TakeBytes(data, q, size[1] % 128), LAMBDA bytes, r :
           Got(IF size[1] >= 128 THEN -Number(bytes) ELSE Number(bytes), r)))

ReadCount(data, p) ==
  Then(ReadCompressedInt(data, p), LAMBDA n, q :
    IF n >= 0 THEN Got(n, q) ELSE Nothing)

IsText(bytes) == \A i \in DOMAIN bytes : bytes[i] < 128

ReadCString(data, p) ==
  LET nuls == {e \in p .. Len(data) - 1 : data[e + 1] = 0}
      end  == CHOOSE e \in nuls : \A f \in nuls : e <= f
      text == SubSeq(data, p + 1, end)
  IN  IF nuls # {} /\ IsText(text) THEN Got(text, end + 1) ELSE Nothing

-----------------------------------------------------------------------------
(* Values.                                                                 *)

Marker == [int |-> 1, true |-> 2, false |-> 3, double |-> 4, string |-> 5,
           int64 |-> 6, array |-> 7, binary |-> 8, undefined |-> 9]

Types == {"int", "true", "false", "double", "string", "int64", "array",
          "binary", "undefined", "unknown"}

Value(type, data, items) == [type |-> type, data |-> data, items |-> items]
Plain(type) == Value(type, <<>>, <<>>)

TrimNuls(bytes) ==
  LET text == {i \in DOMAIN bytes : bytes[i] # 0}
  IN  SubSeq(bytes, 1, IF text = {} THEN 0
                       ELSE CHOOSE i \in text : \A j \in text : j <= i)

Signed(bytes) ==
  LET n == Number(bytes)
  IN  IF 2 * n < Power[Len(bytes)] THEN n ELSE n - Power[Len(bytes)]

ReadNone == [q \in Nat |-> Got(<<>>, q)]

(* One thing, and the others behind it.                                    *)
ReadFirst(readOthers, readOne) ==
  [q \in Nat |->
     Then(readOne[q], LAMBDA first, r :
       Then(readOthers[r], LAMBDA others, s :
         Got(<<first>> \o others, s)))]

(* What reads so many things in a row, given what reads one.               *)
ReadMany(readOne) ==
  LET list[m \in Nat] ==
        IF m = 0 THEN ReadNone ELSE ReadFirst(list[m - 1], readOne)
  IN  list

ReadList(read, kind, n, data, p) == ReadMany(read[kind][data])[n][p]

(* A count, then that many, or nothing.                                    *)
ReadCounted(read, kind, data, p) ==
  Then(ReadCount(data, p), LAMBDA n, q : ReadList(read, kind, n, data, q))

(* How many bytes are the value behind a marker, in a frame with `left`    *)
(* bytes to go.  Only a string, a blob and an unknown marker heed that.    *)
Width(marker, left) ==
  CASE marker = Marker.int -> IntBytes
    [] marker \in {Marker.double, Marker.int64} -> LongBytes
    [] marker \in {Marker.true, Marker.false, Marker.undefined} -> 0
    [] OTHER -> left

(* The value those bytes are.                                              *)
Made(marker, bytes) ==
  CASE marker = Marker.int -> Value("int", <<Signed(bytes)>>, <<>>)
    [] marker = Marker.double -> Value("double", bytes, <<>>)
    [] marker = Marker.int64 -> Value("int64", bytes, <<>>)
    [] marker = Marker.string -> Value("string", TrimNuls(bytes), <<>>)
    [] marker = Marker.binary -> Value("binary", bytes, <<>>)
    [] marker = Marker.true -> Plain("true")
    [] marker = Marker.false -> Plain("false")
    [] marker = Marker.undefined -> Plain("undefined")
    [] OTHER -> Value("unknown", <<marker>> \o bytes, <<>>)

ReadPlain(marker, left, data, p) ==
  Then(TakeBytes(data, p, Width(marker, left)), LAMBDA bytes, q :
    IF marker = Marker.string /\ ~ IsText(bytes) THEN Nothing
    ELSE Got(Made(marker, bytes), q))

ReadMarked(read, marker, left, data, p) ==
  IF marker = Marker.array
  THEN Then(ReadCounted(read, "value", data, p), LAMBDA items, q :
         Got(Value("array", <<>>, items), q))
  ELSE ReadPlain(marker, left, data, p)

ReadValue(read, data, p) ==
  Then(ReadCompressedInt(data, p), LAMBDA len, q :
    IF len <= 0 THEN Got(Plain("undefined"), q)
    ELSE Then(TakeBytes(data, q, 1), LAMBDA marker, r :
           ReadMarked(read, marker[1], len - 1, data, r)))

ReadProperty(read, data, p) ==
  Then(ReadCString(data, p), LAMBDA name, q :
    Then(read["value"][data][q], LAMBDA value, r :
      Got([name |-> name, value |-> value], r)))

ReadNode(read, data, p) ==
  Then(ReadCString(data, p), LAMBDA name, q :
    Then(ReadCounted(read, "property", data, q), LAMBDA properties, r :
      Then(ReadCounted(read, "node", data, r), LAMBDA children, s :
        Got([name |-> name, properties |-> properties,
             children |-> children], s))))

(* The steps of a path may be negative.                                    *)
ReadOneMutant(read, kind, data, p) ==
  CASE kind = "step" -> ReadCompressedInt(data, p)
    [] kind = "value" -> ReadValue(read, data, p)
    [] kind = "property" -> ReadProperty(read, data, p)
    [] kind = "node" -> ReadNode(read, data, p)

(* One step of a path, one value, property or node.                        *)
ReadOne(read, kind, data, p) ==
  CASE kind = "step" -> ReadCount(data, p)
    [] kind = "value" -> ReadValue(read, data, p)
    [] kind = "property" -> ReadProperty(read, data, p)
    [] kind = "node" -> ReadNode(read, data, p)

Kinds == {"step", "value", "property", "node"}

(* What reads a thing at a position, given what reads those inside it.      *)
Reader(read) ==
  [kind \in Kinds |-> [data \in Seq(Byte) |-> [p \in Nat |->
     ReadOne(read, kind, data, p)]]]

NoReader == [kind \in Kinds |-> [data \in Seq(Byte) |-> [p \in Nat |-> Nothing]]]

(* Whatever stands at a position of the data, nested at most so deep.      *)
Reading[depth \in Nat] ==
  IF depth = 0 THEN NoReader ELSE Reader(Reading[depth - 1])

-----------------------------------------------------------------------------
(* Frames.                                                                 *)

ReadPath(data, p) == ReadCounted(Reading[1], "step", data, p)

(* What follows the byte that says what kind of change it is.  Nothing     *)
(* nests deeper than there are bytes.                                      *)
ReadFrame(kind, data, p) ==
  LET read == Reading[Len(data)]
  IN
  CASE kind = 1 ->
         Then(ReadPath(data, p), LAMBDA path, q :
           Then(read["property"][data][q], LAMBDA property, r :
             Got([type |-> "propertyChanged", path |-> path,
                  property |-> property], r)))
    [] kind = 2 ->
         Then(read["node"][data][p], LAMBDA root, q :
           Got([type |-> "fullSync", root |-> root], q))
    [] kind = 3 ->
         Then(ReadPath(data, p), LAMBDA path, q :
           Then(ReadCount(data, q), LAMBDA index, r :
             Then(read["node"][data][r], LAMBDA subtree, s :
               Got([type |-> "childAdded", path |-> path, index |-> index,
                    subtree |-> subtree], s))))
    [] kind = 4 ->
         Then(ReadPath(data, p), LAMBDA path, q :
           Then(ReadCount(data, q), LAMBDA old, r :
             Got([type |-> "childRemoved", path |-> path, old |-> old], r)))
    [] kind = 5 ->
         Then(ReadPath(data, p), LAMBDA path, q :
           Then(ReadCount(data, q), LAMBDA old, r :
             Then(ReadCount(data, r), LAMBDA new, s :
               Got([type |-> "childMoved", path |-> path, old |-> old,
                    new |-> new], s))))
    [] kind = 6 ->
         Then(ReadPath(data, p), LAMBDA path, q :
           Then(ReadCString(data, q), LAMBDA name, r :
             Got([type |-> "propertyRemoved", path |-> path,
                  name |-> name], r)))
    [] OTHER -> Nothing

ReadChange(data) ==
  Then(TakeBytes(data, 0, 1), LAMBDA kind, p : ReadFrame(kind[1], data, p))

(* Bytes after the frame are not looked at.                                *)
DecodeMutant(data) ==
  LET change == ReadChange(data)
  IN  IF change.ok THEN {change.val} ELSE {}

(* The frame the data is, all of it.                                       *)
Decode(data) ==
  LET change == ReadChange(data)
  IN  IF change.ok /\ change.next = Len(data) THEN {change.val} ELSE {}

-----------------------------------------------------------------------------
(* Encoding.  Only what the library writes: changed properties and full    *)
(* syncs.                                                                  *)

(* The bytes a magnitude needs; those above IntBytes are cut off.          *)
WriteCompressedInt(n) ==
  LET m     == IF n < 0 THEN -n ELSE n
      sizes == {k \in 0 .. IntBytes : k = IntBytes \/ m < Power[k]}
      size  == CHOOSE k \in sizes : \A j \in sizes : k <= j
  IN  <<size + (IF n < 0 THEN 128 ELSE 0)>> \o Digits[size][m]

WriteCString(text) == Append(text, 0)

Written(marker, payload) ==
  WriteCompressedInt(1 + Len(payload)) \o <<marker>> \o payload

(* How many, then each of them, as write[kind] writes it.                  *)
WriteCounted(write, kind, list) ==
  WriteCompressedInt(Len(list))
    \o FlattenSeq([i \in DOMAIN list |-> write[kind][list[i]]])

(* The NUL of a string is not counted.                                     *)
WriteValueMutant(write, v) ==
  LET n == Len(v.data)
  IN  CASE v.type = "int" ->
             Written(Marker.int,
                     Digits[IntBytes][v.data[1] % Power[IntBytes]])
        [] v.type = "string" ->
             WriteCompressedInt(1 + n) \o <<Marker.string>>
               \o WriteCString(v.data)
        [] v.type = "array" ->
             Written(Marker.array, WriteCounted(write, "value", v.items))
        [] v.type = "unknown" -> Written(v.data[1], SubSeq(v.data, 2, n))
        [] OTHER -> Written(Marker[v.type], v.data)

WriteValue(write, v) ==
  CASE v.type = "int" ->
         Written(Marker.int, Digits[IntBytes][v.data[1] % Power[IntBytes]])
    [] v.type = "string" -> Written(Marker.string, WriteCString(v.data))
    [] v.type = "array" ->
         Written(Marker.array, WriteCounted(write, "value", v.items))
    [] v.type = "unknown" -> Written(v.data[1], Tail(v.data))
    [] OTHER -> Written(Marker[v.type], v.data)

WriteProperty(write, property) ==
  WriteCString(property.name) \o write["value"][property.value]

WriteNode(write, node) ==
  WriteCString(node.name)
    \o WriteCounted(write, "property", node.properties)
    \o WriteCounted(write, "node", node.children)

WriteOne(write, kind, x) ==
  CASE kind = "step" -> WriteCompressedInt(x)
    [] kind = "value" -> WriteValue(write, x)
    [] kind = "property" -> WriteProperty(write, x)
    [] kind = "node" -> WriteNode(write, x)

(* Things, given what may be inside them.                                  *)
Thing(within) ==
  [kind \in Kinds |->
     CASE kind = "step" -> Nat
       [] kind = "value" ->
            [type : Types, data : Seq(Int), items : Seq(within["value"])]
       [] kind = "property" -> [name : Seq(Byte), value : within["value"]]
       [] kind = "node" ->
            [name : Seq(Byte), properties : Seq(within["property"]),
             children : Seq(within["node"])]]

NoThings == [kind \in Kinds |-> {}]

(* Steps, values, properties and nodes that nest at most so deep.          *)
Things[depth \in Nat] ==
  IF depth = 0 THEN NoThings ELSE Thing(Things[depth - 1])

(* What writes these things, given what writes those inside them.          *)
Writer(write, things) ==
  [kind \in Kinds |-> [x \in things[kind] |-> WriteOne(write, kind, x)]]

NoWriter == [kind \in Kinds |-> <<>>]

Writing[depth \in Nat] ==
  IF depth = 0 THEN NoWriter ELSE Writer(Writing[depth - 1], Things[depth])

(* Of a tree that nests at most so deep.                                   *)
EncodeFullSync(root, depth) == <<2>> \o Writing[depth]["node"][root]

EncodePropertyChanged(path, property, depth) ==
  <<1>> \o WriteCounted(Writing[depth], "step", path)
    \o Writing[depth]["property"][property]

(* ScreenTouched is sent as these bytes: 1 1 1 1 and a name.               *)
ScreenTouchedFrame ==
  <<1, 1, 1, 1>>
    \o WriteCString(<<115, 99, 114, 101, 101, 110, 84, 111, 117, 99, 104,
                      101, 100>>)

-----------------------------------------------------------------------------
(* Triggers: two serialized booleans of three bytes each.                  *)

BoolPair(a, b) ==
  LET one(on) == <<1, 1, IF on THEN Marker.true ELSE Marker.false>>
  IN  one(a) \o one(b)

(* Only the markers looked at.                                             *)
DecodeBoolPairMutant(bytes) ==
  {pair \in BOOLEAN \X BOOLEAN :
     /\ Len(bytes) = 6
     /\ \A i \in {3, 6} : bytes[i] = BoolPair(pair[1], pair[2])[i]}

DecodeBoolPair(bytes) ==
  {pair \in BOOLEAN \X BOOLEAN : bytes = BoolPair(pair[1], pair[2])}

(* The second boolean does not matter.                                     *)
DecodePhase(v) ==
  IF v.type = "binary"
  THEN {IF pair[1] THEN "press" ELSE "release" : pair \in DecodeBoolPair(v.data)}
  ELSE {}
=============================================================================
