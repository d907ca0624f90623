---------------------------- MODULE MCCoAPServer ----------------------------
(* Small instances of CoAPServer for TLC. *)
EXTENDS CoAPServer

CONSTANTS a1, a2, e1, e2, e3

(* Two ports of one address, and one of another. *)
MCAddressOf == [e \in {e1, e2, e3} |-> IF e = e3 THEN a2 ELSE a1]
=============================================================================
