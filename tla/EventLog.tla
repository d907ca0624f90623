------------------------------ MODULE EventLog ------------------------------
(***************************************************************************)
(* What the SOC logger promises its callers, independent of how it keeps   *)
(* the promise.                                                            *)
(*                                                                         *)
(* Events are numbered 1, 2, 3, ... in the order in which the protocol     *)
(* handlers report them, across restarts of the process.  An event is      *)
(* first pending and then settled: it is durable (in the log file) or it   *)
(* is lost.  Events are settled oldest first, at most Window of them are   *)
(* pending at any time, and one is lost only when the process is killed    *)
(* or when the log file cannot be written.                                 *)
(***************************************************************************)
EXTENDS Integers

CONSTANT Window     \* the most events that may be pending at once

VARIABLES
    status,     \* of the process: up, exited (in an orderly way) or killed
    healthy,    \* the log file is open and every write to it has succeeded
    accepted,   \* number of the newest event reported so far
    settled,    \* events 1..settled are durable or lost, the rest is pending
    durable     \* the numbers of the events in the log file

vars == <<status, healthy, accepted, settled, durable>>

Init ==
    /\ status = "exited"
    /\ healthy = FALSE
    /\ accepted = 0
    /\ settled = 0
    /\ durable = {}

(* The process starts; the log file may or may not be usable. *)
Start ==
    /\ status # "up"
    /\ status' = "up"
    /\ healthy' \in BOOLEAN
    /\ UNCHANGED <<accepted, settled, durable>>

(* A handler reports an event, which becomes pending. *)
Accept ==
    /\ status = "up"
    /\ accepted - settled < Window
    /\ accepted' = accepted + 1
    /\ UNCHANGED <<status, healthy, settled, durable>>

(* The oldest pending event reaches the log file. *)
Persist ==
    /\ status = "up"
    /\ healthy
    /\ settled < accepted
    /\ settled' = settled + 1
    /\ durable' = durable \union {settled + 1}
    /\ UNCHANGED <<status, healthy, accepted>>

(* A write fails.  The event being written, if there is one, is lost. *)
Fail ==
    /\ status = "up"
    /\ healthy
    /\ healthy' = FALSE
    /\ settled' = IF settled < accepted THEN settled + 1 ELSE settled
    /\ UNCHANGED <<status, accepted, durable>>

(* Without a usable log file the oldest pending event is dropped. *)
Drop ==
    /\ status = "up"
    /\ ~ healthy
    /\ settled < accepted
    /\ settled' = settled + 1
    /\ UNCHANGED <<status, healthy, accepted, durable>>

(* Without a usable log file an event may also be ignored as it arrives. *)
Ignore ==
    /\ status = "up"
    /\ ~ healthy
    /\ settled = accepted
    /\ accepted' = accepted + 1
    /\ settled' = settled + 1
    /\ UNCHANGED <<status, healthy, durable>>

(* The process ends in an orderly way: no event is pending any more. *)
Stop ==
    /\ status = "up"
    /\ settled = accepted
    /\ status' = "exited"
    /\ healthy' = FALSE
    /\ UNCHANGED <<accepted, settled, durable>>

(* The process is killed and every pending event is lost. *)
Kill ==
    /\ status = "up"
    /\ status' = "killed"
    /\ healthy' = FALSE
    /\ settled' = accepted
    /\ UNCHANGED <<accepted, durable>>

Next ==
    \/ Start \/ Accept \/ Persist \/ Fail \/ Drop \/ Ignore \/ Stop \/ Kill

Spec == Init /\ [][Next]_vars
=============================================================================
