----------------------------- MODULE MCPLCMemory -----------------------------
(* Small instances of PLCMemory for TLC. *)
EXTENDS PLCMemory

(* A region that is emptied, and one whose bytes could be mistaken for a   *)
(* field of a timer.                                                       *)
MCContents == {<<>>, <<8, 5>>}

(* A varint and some bytes under the number 8. *)
MCForeign == {<<64, 1>>, <<66, 1, 7>>}

(* The beginning of that region, and what may have been behind it.         *)
MCGarbage == {<<8>>, <<8, 7, 7>>}
=============================================================================
