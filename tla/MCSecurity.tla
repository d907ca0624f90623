----------------------------- MODULE MCSecurity -----------------------------
(* A small instance of security.cpp for TLC, the limiter and the two       *)
(* sanitizers.  The sanitizers keep no state, so nothing is lost when      *)
(* their inputs are enumerated while the limiter has not been asked yet.   *)
EXTENDS RateLimiter, Sanitizers, TLC

SecurityInit == Init /\ NoInput

LimiterStep   == NoInput /\ Next /\ UNCHANGED inputs
SanitizerStep == now = 0 /\ answer.ip = "none" /\ MoreInput /\ UNCHANGED vars

SecuritySpec == SecurityInit /\ [][LimiterStep \/ SanitizerStep]_<<vars, inputs>>

MCSymmetry == Permutations(Clients)
=============================================================================
