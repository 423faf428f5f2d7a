----------------------------- MODULE CodecProps -----------------------------
(***************************************************************************)
(* What the codec promises of any bytes: byte strings that grow, and what  *)
(* it makes of each.                                                       *)
(***************************************************************************)
EXTENDS ChangeFrame

CONSTANTS
  Beginnings,  (* what a string may start with                             *)
  Alphabet,    (* the bytes that follow                                    *)
  MaxMore      (* bound on how many follow                                 *)

ASSUME BytesAssumption ==
  Beginnings \subseteq Seq(Byte) /\ Alphabet \subseteq Byte /\ MaxMore \in Nat

VARIABLES payload, more

vars == <<payload, more>>

Init == payload \in Beginnings /\ more = 0

Next ==
  /\ more < MaxMore
  /\ \E byte \in Alphabet : payload' = Append(payload, byte)
  /\ more' = more + 1

Spec == Init /\ [][Next]_vars

-----------------------------------------------------------------------------
(* What a frame says of a path are indices.                                *)
TypeOK ==
  /\ payload \in Seq(Byte) /\ more \in 0 .. MaxMore
  /\ \A frame \in Decode(payload) :
       frame.type # "fullSync" => frame.path \in Seq(0 .. Power[IntBytes] - 1)

(* A cut frame is not a frame, nor is one with bytes to spare: a full sync *)
(* that lost its end never becomes a smaller tree, "a subtly incomplete    *)
(* Layout" (valuetree.rs 91-94), and two frames run together are not one.  *)
FramesAreSelfDelimiting ==
  Decode(payload) # {} =>
    \A n \in 0 .. Len(payload) - 1 : Decode(SubSeq(payload, 1, n)) = {}

(* The frames the library both reads and writes.                           *)
Encoded(frame, depth) ==
  IF frame.type = "fullSync" THEN {EncodeFullSync(frame.root, depth)}
  ELSE IF frame.type = "propertyChanged"
    THEN {EncodePropertyChanged(frame.path, frame.property, depth)}
  ELSE {}

(* What was read can be written and read again without a change, whatever  *)
(* the length frames of its values said.  A value without a length takes   *)
(* three bytes when it is written, so the promise is for less than a third *)
(* of what a length can say.                                               *)
ReencodedFramesSurvive ==
  3 * Len(payload) < Power[IntBytes] =>
    \A frame \in Decode(payload) : \A bytes \in Encoded(frame, Len(payload)) :
      Decode(bytes) = {frame}

(* What is written arrives: any blob, any text but for NULs at its end,    *)
(* and an integer if and only if it fits the int of the wire, though more  *)
(* is accepted (`int <i32>`, cli.rs 1395; parse_value takes an i64).  A    *)
(* blob is a pulse exactly if it is two booleans as they are written       *)
(* ("two serialized booleans", trigger.rs 7); ScreenTouched is no frame.   *)
WrittenValuesArrive ==
  LET arrived(v) == {f.property.value : f \in
        Decode(EncodePropertyChanged(<<>>, [name |-> <<>>, value |-> v], 2))}
      half  == Power[IntBytes] \div 2
      blob  == Value("binary", payload, <<>>)
      text  == Value("string", payload, <<>>)
      two   == ReadList(Reading[1], "value", 2, payload, 0)
  IN  /\ Len(payload) + 1 < Power[IntBytes] => arrived(blob) = {blob}
      /\ Len(payload) + 2 < Power[IntBytes] /\ IsText(payload) =>
           arrived(text) = {[text EXCEPT !.data = TrimNuls(payload)]}
      /\ Len(payload) <= IntBytes + 1 =>
           \A n \in {Number(payload), -Number(payload)} :
             arrived(Value("int", <<n>>, <<>>)) = {Value("int", <<n>>, <<>>)}
               <=> n \in -half .. half - 1
      /\ DecodePhase(blob) =
           {IF v[1].type = "true" THEN "press" ELSE "release" :
              v \in {w \in IF two.ok THEN {two.val} ELSE {} :
                       /\ \A i \in 1 .. 2 : w[i].type \in {"true", "false"}
                       /\ WriteValue(Writing[0], w[1])
                            \o WriteValue(Writing[0], w[2]) = payload}}
      /\ Decode(ScreenTouchedFrame) = {}
=============================================================================
