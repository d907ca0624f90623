----------------------------- MODULE MCRestAPI -----------------------------
(* Small instances of RestAPI for TLC. *)
EXTENDS RestAPI

CONSTANTS c1, c2, a

(* All connections are of one client. *)
MCClientOf == [c \in Conns |-> a]

(* Statistics, requested at once or in two segments of which the first     *)
(* names the dashboard, and a request that is too long.                    *)
MCRequests == {<<"stats">>, <<"page", "stats">>, <<"oversize">>}

(* One request that comes at once. *)
MCOne == {<<"stats">>}
=============================================================================
