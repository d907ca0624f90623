---------------------------- MODULE MCMQTTServer ----------------------------
(* Small instances of MQTTServer for TLC. *)
EXTENDS MQTTServer

admin == <<97, 100, 109, 105, 110>>

MCNames == {admin, <<35>>}
MCPayloads == {<<>>, <<49>>}

(* A PUBLISH to an administrative topic, a SUBSCRIBE with a wildcard, and  *)
(* the beginning of a SUBSCRIBE: alone it is shorter than its identifier,  *)
(* before another packet its topic is taken from that one.  Cut after six  *)
(* bytes a PUBLISH is malformed, and what is left of it or of a SUBSCRIBE  *)
(* is taken for a packet of its own.                                       *)
MCPackets == {Publish(admin, <<>>), Subscribe(<<35>>), <<130, 0>>}

MCCuts == {6}
=============================================================================
