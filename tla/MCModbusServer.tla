--------------------------- MODULE MCModbusServer ---------------------------
(* Small instances of ModbusServer for TLC. *)
EXTENDS ModbusServer, TLC

(* A scan, after which another packet may follow, the largest read that is *)
(* not reported, and one that exceeds the buffer and may be cut where its  *)
(* first segment is reported too.                                          *)
MCPackets == {5, 100, 1025}

(* Safety does not depend on which buffer or which connection is which.    *)
MCSymmetry == Permutations(Conns) \union Permutations(Buffers)
=============================================================================
