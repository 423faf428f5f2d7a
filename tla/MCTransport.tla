---------------------------- MODULE MCTransport -----------------------------
(* Payloads that hold a magic, a length and zeros; streams that begin in   *)
(* the middle of something.                                                *)
EXTENDS Transport

Signature == <<2, 3>>

Payloads == {<<>>, <<1>>, <<0, 2>>, <<2, 3, 1>>, <<2, 3, 0, 9>>}

(* Nothing, harmless bytes, half a magic, and magics with and without a    *)
(* length.                                                                 *)
Leads == {<<>>, <<0>>, <<2>>, <<3, 1>>, <<2, 3>>, <<2, 3, 1, 2>>}

(* Nothing, padding, and two kinds of continuation.                        *)
Leftovers == {<<>>, <<<<0, 0>>>>, <<<<9, 1>>>>, <<<<3, 1>>>>}
=============================================================================
