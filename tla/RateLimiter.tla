---------------------------- MODULE RateLimiter ----------------------------
(***************************************************************************)
(* Security::check_rate_limit (server/src/security.cpp), which the REST    *)
(* API asks for every connection: a client's first request opens a window  *)
(* of 60 seconds, in which it may make max_requests_per_minute requests;   *)
(* the first request after the window opens the next one.                  *)
(*                                                                         *)
(* Each path through the function is an action.  The function holds        *)
(* rate_limit_mutex_ from its first look at the maps to its return.        *)
(***************************************************************************)
EXTENDS Integers, Sequences

CONSTANTS
    Clients,                  \* valid IP addresses
    Malformed,                \* what is_valid_ip refuses, the empty string included
    max_requests_per_minute,  \* 60 in the only call
    WINDOW,                   \* seconds in a window, 60
    MaxTime                   \* bound: seconds in a behaviour

ASSUME LimitAssumption == max_requests_per_minute \in Nat \ {0}
ASSUME WindowAssumption == WINDOW \in Nat \ {0}
ASSUME TimeAssumption == MaxTime \in Nat
ASSUME ClientsAssumption == Clients \intersect (Malformed \union {"none"}) = {}

VARIABLES
    now,                \* the clock, in seconds
    rate_limit_map_,    \* start of the current window of each client seen
    request_count_map_, \* requests it made in that window
    answer,             \* the last call: who asked, when, and what was returned
    admits,             \* history: when each client was let in
    opened              \* history: for each of these, which one opened its window

maps == <<rate_limit_map_, request_count_map_>>
vars == <<now, maps, answer, admits, opened>>

(* map[key] = value, which inserts a key that is not there. *)
Put(map, key, value) ==
    [k \in DOMAIN map \union {key} |-> IF k = key THEN value ELSE map[k]]

Init ==
    /\ now = 0
    /\ rate_limit_map_ = [ip \in {} |-> 0]
    /\ request_count_map_ = [ip \in {} |-> 0]
    /\ answer = [ip |-> "none", granted |-> FALSE, at |-> 0]
    /\ admits = [ip \in Clients |-> <<>>]
    /\ opened = [ip \in Clients |-> <<>>]

Answer(ip, granted) == answer' = [ip |-> ip, granted |-> granted, at |-> now]

(* The request is admitted, in the window opened by the first-th one. *)
Admit(ip, first) ==
    /\ admits' = [admits EXCEPT ![ip] = Append(@, now)]
    /\ opened' = [opened EXCEPT ![ip] = Append(@, first)]

Elapsed(ip) == now - rate_limit_map_[ip]

(* The first two tests: nothing is looked up for such an address. *)
RefuseMalformed(ip) ==
    /\ Answer(ip, FALSE)
    /\ UNCHANGED <<now, maps, admits, opened>>

(* mutant: the opening request is not counted *)
MutantOpenWindow(ip) ==
    /\ rate_limit_map_' = Put(rate_limit_map_, ip, now)
    /\ request_count_map_' = Put(request_count_map_, ip, 0)
    /\ Answer(ip, TRUE)
    /\ Admit(ip, Len(admits[ip]) + 1)
    /\ UNCHANGED now

(* A window opens: the client has not been seen, or its window is over. *)
OpenWindow(ip) ==
    /\ rate_limit_map_' = Put(rate_limit_map_, ip, now)
    /\ request_count_map_' = Put(request_count_map_, ip, 1)
    /\ Answer(ip, TRUE)
    /\ Admit(ip, Len(admits[ip]) + 1)
    /\ UNCHANGED now

FirstRequest(ip) ==
    /\ ip \notin DOMAIN rate_limit_map_
    /\ OpenWindow(ip)

(* mutant: the window may be renewed a second early *)
MutantNextWindow(ip) ==
    /\ ip \in DOMAIN rate_limit_map_
    /\ Elapsed(ip) >= WINDOW - 1
    /\ OpenWindow(ip)

NextWindow(ip) ==
    /\ ip \in DOMAIN rate_limit_map_
    /\ Elapsed(ip) >= WINDOW
    /\ OpenWindow(ip)

(* Another request in the same window. *)
CountRequest(ip) ==
    /\ ip \in DOMAIN rate_limit_map_
    /\ Elapsed(ip) < WINDOW
    /\ request_count_map_[ip] < max_requests_per_minute
    /\ request_count_map_' = [request_count_map_ EXCEPT ![ip] = @ + 1]
    /\ Answer(ip, TRUE)
    /\ Admit(ip, opened[ip][Len(opened[ip])])
    /\ UNCHANGED <<now, rate_limit_map_>>

(* mutant: off by one against the client *)
MutantRefuseExcess(ip) ==
    /\ ip \in DOMAIN rate_limit_map_
    /\ Elapsed(ip) < WINDOW
    /\ request_count_map_[ip] >= max_requests_per_minute - 1
    /\ Answer(ip, FALSE)
    /\ UNCHANGED <<now, maps, admits, opened>>

RefuseExcess(ip) ==
    /\ ip \in DOMAIN rate_limit_map_
    /\ Elapsed(ip) < WINDOW
    /\ request_count_map_[ip] >= max_requests_per_minute
    /\ Answer(ip, FALSE)
    /\ UNCHANGED <<now, maps, admits, opened>>

(* A second passes between two calls. *)
Tick ==
    /\ now < MaxTime
    /\ now' = now + 1
    /\ UNCHANGED <<maps, answer, admits, opened>>

Next ==
    \/ Tick
    \/ \E ip \in Malformed : RefuseMalformed(ip)
    \/ \E ip \in Clients :
          \/ FirstRequest(ip)
          \/ NextWindow(ip)
          \/ CountRequest(ip)
          \/ RefuseExcess(ip)

Spec == Init /\ [][Next]_vars

-----------------------------------------------------------------------------
(* The maps know the same clients, namely those ever let in; the windows   *)
(* are not in the future and the counts within the limit.                  *)
TypeOK ==
    /\ now \in Nat
    /\ DOMAIN rate_limit_map_ = DOMAIN request_count_map_
    /\ DOMAIN rate_limit_map_ = {ip \in Clients : admits[ip] # <<>>}
    /\ rate_limit_map_ \in [DOMAIN rate_limit_map_ -> 0 .. now]
    /\ request_count_map_ \in [DOMAIN request_count_map_ -> 1 .. max_requests_per_minute]
    /\ answer.granted \in BOOLEAN
    /\ answer.at \in 0 .. now
    /\ admits \in [Clients -> Seq(Nat)]
    /\ opened \in [Clients -> Seq(Nat)]

(* What the limiter really bounds: twice the limit in any WINDOW seconds,  *)
(* less one.  2 * max requests that a client gets through in a row take at *)
(* least a window, because the maximum of one window can be followed at    *)
(* once by the maximum of the next.                                        *)
TwoWindowBound ==
    \A ip \in Clients :
        \A i, j \in DOMAIN admits[ip] :
            j = i + 2 * max_requests_per_minute - 1
                => admits[ip][j] - admits[ip][i] >= WINDOW

(* The count is the number of requests let in since the window opened, so  *)
(* that neither refused requests nor other clients use up the limit.       *)
CountIsExact ==
    \A ip \in DOMAIN request_count_map_ :
        LET n     == Len(admits[ip])
            count == request_count_map_[ip]
            start == rate_limit_map_[ip]
        IN  /\ count <= n
            /\ \A i \in 1 .. n : admits[ip][i] >= start <=> i > n - count
            /\ admits[ip][n] < start + WINDOW

(* No false refusal: a valid client is turned away only if it was let in   *)
(* max times during the WINDOW seconds before.                             *)
NoFalseRefusal ==
    \A ip \in Clients :
        answer.ip = ip /\ ~ answer.granted =>
            LET n == Len(admits[ip]) IN
            /\ n >= max_requests_per_minute
            /\ answer.at - admits[ip][n - max_requests_per_minute + 1] < WINDOW
=============================================================================
