--------------------------- MODULE MCChangeFrame ----------------------------
(***************************************************************************)
(* The codec's instance: the start of a change of a property, up to every  *)
(* kind of value; of nodes with a property and with a child; of the other  *)
(* changes; of a pulse that is released.                                   *)
(***************************************************************************)
EXTENDS CodecProps

Openings ==
  {<<>>, <<1, 1>>, <<1, 0, 0, 1>>, <<1, 0, 0, 1, 3, Marker.array>>,
   <<1, 0, 0, 1, 3, Marker.string>>, <<1, 0, 0, 1, 3, Marker.binary>>}
    \union {<<1, 0, 0, 1, 1, marker>> :
              marker \in {Marker.false, Marker.double, Marker.int64}}
    \union {<<2, 0>>, <<2, 1, 0>>, <<2, 0, 1, 1, 1, 0>>, <<2, 0, 0, 1, 1>>,
            <<3, 0>>, <<4, 1, 1>>, <<5>>, <<6, 1>>, <<1, 1, 3>>}

Some == {0, 1, 2, 5, 7, 129}
=============================================================================
