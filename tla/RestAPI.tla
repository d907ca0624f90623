------------------------------ MODULE RestAPI ------------------------------
(***************************************************************************)
(* The REST API and dashboard (server/src/rest_api.cpp): it accepts TCP    *)
(* connections, asks the rate limiter about each, reads once, answers what *)
(* that read contained, and closes.                                        *)
(*                                                                         *)
(* As in ModbusServer one thread runs the completion handlers in the order *)
(* of their completion, and a request may arrive in several segments.  An  *)
(* answer is written asynchronously: async_write hands the socket what it  *)
(* takes at once and sends the rest later, from a buffer that              *)
(* process_http_request has left by then.                                  *)
(***************************************************************************)
EXTENDS Integers, Sequences, FiniteSets

CONSTANTS
    Conns,                    \* the connections that browsers may make
    Clients,                  \* valid IP addresses
    ClientOf,                 \* the address each connection comes from
    Requests,                 \* what a browser may send, see below
    max_requests_per_minute,  \* 60 in the code
    WINDOW,                   \* seconds in a window of the limiter, 60
    MaxTime                   \* bound: seconds in a behaviour

(***************************************************************************)
(* A request is the sequence of what its first segment, its first two      *)
(* segments, ... name: a truncated path names another resource.  "page" is *)
(* the dashboard, which an empty path names too; "other" is a path that is *)
(* not served; "oversize" is a line with a part that is too long.          *)
(***************************************************************************)
Resources == {"stats", "page", "other", "oversize"}

ASSUME ClientOfAssumption == ClientOf \in [Conns -> Clients]
ASSUME RequestsAssumption == \A r \in Requests : r \in Seq(Resources) /\ r # <<>>
ASSUME LimitAssumption == max_requests_per_minute \in Nat \ {0}
ASSUME WindowAssumption == WINDOW \in Nat \ {0}
ASSUME TimeAssumption == MaxTime \in Nat
ASSUME ClientsAssumption == "none" \notin Clients

VARIABLES
    alive,      \* the process is running
    peer,       \* the browser's end of each connection
    request,    \* what it sends, empty before it decides
    rx,         \* segments of it that have arrived
    backlog,    \* established connections the acceptor has not taken
    acceptor_,  \* armed or queued
    conn,       \* the server's end of each connection
    queue,      \* completion handlers waiting for the io thread
    tx,         \* what has been sent of the answer, see Sent
    answered,   \* history: the resource each connection was answered with
    fate,       \* history: what became of each connection when accepted
    accepted,   \* history: and when that was
    now, rate_limit_map_, request_count_map_, answer, admits, opened

limiter == <<now, rate_limit_map_, request_count_map_, answer, admits, opened>>
browser == <<peer, request>>
history == <<answered, fate, accepted>>
vars == <<alive, browser, rx, backlog, acceptor_, conn, queue, tx, history, limiter>>

Limiter == INSTANCE RateLimiter WITH Malformed <- {}

(* "part" is the beginning of the answer, "garbled" its beginning and then *)
(* whatever memory held where the rest of it had been.                     *)
Sent == {"nothing", "part", "whole", "garbled"}

Init ==
    /\ alive = TRUE
    /\ peer = [c \in Conns |-> "absent"]
    /\ request = [c \in Conns |-> <<>>]
    /\ rx = [c \in Conns |-> 0]
    /\ backlog = <<>>
    /\ acceptor_ = "armed"
    /\ conn = [c \in Conns |-> "none"]
    /\ queue = <<>>
    /\ tx = [c \in Conns |-> "nothing"]
    /\ answered = [c \in Conns |-> "none"]
    /\ fate = [c \in Conns |-> "none"]
    /\ accepted = [c \in Conns |-> 0]
    /\ Limiter!Init

-----------------------------------------------------------------------------
(* Browsers, network and clock. *)

Connect(c) ==
    /\ peer[c] = "absent"
    /\ peer' = [peer EXCEPT ![c] = "open"]
    /\ conn' = [conn EXCEPT ![c] = "backlog"]
    /\ backlog' = Append(backlog, c)
    /\ UNCHANGED <<alive, request, rx, acceptor_, queue, tx, history, limiter>>

(* The browser sends a request and its first segment arrives, *)
Request(c, r) ==
    /\ peer[c] = "open"
    /\ request[c] = <<>>
    /\ request' = [request EXCEPT ![c] = r]
    /\ rx' = [rx EXCEPT ![c] = 1]
    /\ UNCHANGED <<alive, peer, backlog, acceptor_, conn, queue, tx, history, limiter>>

(* or its next one. *)
Arrive(c) ==
    /\ peer[c] = "open"
    /\ rx[c] < Len(request[c])
    /\ rx' = [rx EXCEPT ![c] = @ + 1]
    /\ UNCHANGED <<alive, browser, backlog, acceptor_, conn, queue, tx, history, limiter>>

(* The browser closes its end. *)
Leave(c) ==
    /\ peer[c] = "open"
    /\ peer' = [peer EXCEPT ![c] = "gone"]
    /\ UNCHANGED <<alive, request, rx, backlog, acceptor_, conn, queue, tx, history, limiter>>

(* The connection is reset; a request not yet read may be lost. *)
Reset(c) ==
    /\ peer[c] \in {"open", "gone"}
    /\ peer' = [peer EXCEPT ![c] = "reset"]
    /\ \E left \in {0, rx[c]} : rx' = [rx EXCEPT ![c] = left]
    /\ UNCHANGED <<alive, request, backlog, acceptor_, conn, queue, tx, history, limiter>>

Tick ==
    /\ Limiter!Tick
    /\ UNCHANGED <<alive, browser, rx, backlog, acceptor_, conn, queue, tx, history>>

-----------------------------------------------------------------------------
(* The reactor. *)

Completion(op, c, n) == [op |-> op, conn |-> c, segments |-> n]

Complete(op, c, n) ==
    /\ conn' = [conn EXCEPT ![c] = "queued"]
    /\ queue' = Append(queue, Completion(op, c, n))

AcceptCompletes ==
    /\ acceptor_ = "armed"
    /\ backlog # <<>>
    /\ backlog' = Tail(backlog)
    /\ acceptor_' = "queued"
    /\ Complete("accept", Head(backlog), 0)
    /\ UNCHANGED <<alive, browser, rx, tx, history, limiter>>

AcceptFails ==
    /\ acceptor_ = "armed"
    /\ backlog # <<>>
    /\ acceptor_' = "queued"
    /\ queue' = Append(queue, Completion("no_accept", Head(backlog), 0))
    /\ UNCHANGED <<alive, browser, rx, backlog, conn, tx, history, limiter>>

(* The read takes the segments that have arrived. *)
ReadCompletes(c) ==
    /\ conn[c] = "reading"
    /\ rx[c] > 0
    /\ Complete("read", c, rx[c])
    /\ UNCHANGED <<alive, browser, rx, backlog, acceptor_, tx, history, limiter>>

ReadFails(c) ==
    /\ conn[c] = "reading"
    /\ rx[c] = 0
    /\ peer[c] \in {"gone", "reset"}
    /\ Complete("no_read", c, 0)
    /\ UNCHANGED <<alive, browser, rx, backlog, acceptor_, tx, history, limiter>>

(* The browser has taken enough for the rest of an answer to be sent. *)
WriteCompletes(c) ==
    /\ conn[c] = "writing"
    /\ peer[c] # "reset"
    /\ \E end \in {"whole", "garbled"} : tx' = [tx EXCEPT ![c] = end]
    /\ Complete("write", c, 0)
    /\ UNCHANGED <<alive, browser, rx, backlog, acceptor_, history, limiter>>

WriteFails(c) ==
    /\ conn[c] = "writing"
    /\ peer[c] = "reset"
    /\ Complete("no_write", c, 0)
    /\ UNCHANGED <<alive, browser, rx, backlog, acceptor_, tx, history, limiter>>

-----------------------------------------------------------------------------
(* The handlers, run by the io thread in the order of the queue. *)

Runs(op, c) == alive /\ queue # <<>> /\ Head(queue).op = op /\ Head(queue).conn = c

(* One call of check_rate_limit; answer'.granted is what it returns. *)
CheckRateLimit(ip) ==
    \/ Limiter!FirstRequest(ip)
    \/ Limiter!NextWindow(ip)
    \/ Limiter!CountRequest(ip)
    \/ Limiter!RefuseExcess(ip)

(* The outcome of an accept for the connection, *)
Settle(c, outcome) ==
    /\ fate' = [fate EXCEPT ![c] = outcome]
    /\ accepted' = [accepted EXCEPT ![c] = now]
    /\ conn' = [conn EXCEPT ![c] = IF outcome = "admitted" THEN "reading" ELSE "closed"]

(* mutant: the connection of a refused client is not closed *)
MutantAdmission(c) ==
    /\ peer[c] # "reset"
    /\ CheckRateLimit(ClientOf[c])
    /\ fate' = [fate EXCEPT ![c] = IF answer'.granted THEN "admitted" ELSE "refused"]
    /\ accepted' = [accepted EXCEPT ![c] = now]
    /\ conn' = [conn EXCEPT ![c] = "reading"]

(* mutant: the limiter is asked before the address is known to be there *)
EagerAdmission(c) ==
    /\ CheckRateLimit(ClientOf[c])
    /\ Settle(c, IF peer[c] = "reset" THEN "vanished"
                 ELSE IF answer'.granted THEN "admitted" ELSE "refused")

(* The head of handle_client: remote_endpoint() throws when the browser    *)
(* has vanished, and a client over its limit is refused.                   *)
Admission(c) ==
    \/ /\ peer[c] = "reset"
       /\ Settle(c, "vanished")
       /\ UNCHANGED limiter
    \/ /\ peer[c] # "reset"
       /\ CheckRateLimit(ClientOf[c])
       /\ Settle(c, IF answer'.granted THEN "admitted" ELSE "refused")

HandleAccept(c) ==
    /\ Runs("accept", c)
    /\ queue' = Tail(queue)
    /\ Admission(c)
    /\ acceptor_' = "armed"
    /\ UNCHANGED <<alive, browser, rx, backlog, tx, answered>>

HandleNoAccept(c) ==
    /\ Runs("no_accept", c)
    /\ queue' = Tail(queue)
    /\ acceptor_' = "armed"
    /\ UNCHANGED <<alive, browser, rx, backlog, conn, tx, history, limiter>>

(* What async_write does at once with an answer: all of it is sent, or a   *)
(* beginning, or it fails.                                                 *)
StartWrite(c) ==
    \/ /\ peer[c] # "reset"
       /\ tx' = [tx EXCEPT ![c] = "whole"]
       /\ conn' = [conn EXCEPT ![c] = "queued"]
       /\ queue' = Append(Tail(queue), Completion("write", c, 0))
    \/ /\ peer[c] # "reset"
       /\ tx' = [tx EXCEPT ![c] = "part"]
       /\ conn' = [conn EXCEPT ![c] = "writing"]
       /\ queue' = Tail(queue)
    \/ /\ peer[c] = "reset"
       /\ conn' = [conn EXCEPT ![c] = "queued"]
       /\ queue' = Append(Tail(queue), Completion("no_write", c, 0))
       /\ UNCHANGED tx

(* mutant: an oversize request is dropped but its socket kept *)
MutantHandleRead(c) ==
    LET resource == request[c][Head(queue).segments] IN
    /\ Runs("read", c)
    /\ resource # "oversize" => StartWrite(c)
    /\ resource = "oversize" =>
          queue' = Tail(queue) /\ conn' = [conn EXCEPT ![c] = "idle"] /\ UNCHANGED tx
    /\ answered' = [answered EXCEPT ![c] = resource]
    /\ UNCHANGED <<alive, browser, rx, backlog, acceptor_, fate, accepted, limiter>>

(* process_http_request: what the read contained is answered, unless one   *)
(* of its parts is too long.  is_safe_buffer_size never refuses a read     *)
(* into a buffer of the same size.                                         *)
HandleRead(c) ==
    LET resource == request[c][Head(queue).segments] IN
    /\ Runs("read", c)
    /\ \/ /\ resource = "oversize"
          /\ queue' = Tail(queue)
          /\ conn' = [conn EXCEPT ![c] = "closed"]
          /\ UNCHANGED <<tx, answered>>
       \/ /\ resource # "oversize"
          /\ answered' = [answered EXCEPT ![c] = resource]
          /\ StartWrite(c)
    /\ UNCHANGED <<alive, browser, rx, backlog, acceptor_, fate, accepted, limiter>>

(* After a failed read or write the last reference to the socket goes. *)
HandleFailure(c) ==
    /\ Runs("no_read", c) \/ Runs("no_write", c)
    /\ queue' = Tail(queue)
    /\ conn' = [conn EXCEPT ![c] = "closed"]
    /\ UNCHANGED <<alive, browser, rx, backlog, acceptor_, tx, history, limiter>>

(* mutant: the connection is kept for another request *)
MutantHandleWrite(c) ==
    /\ Runs("write", c)
    /\ queue' = Tail(queue)
    /\ conn' = [conn EXCEPT ![c] = "reading"]
    /\ UNCHANGED <<alive, browser, rx, backlog, acceptor_, tx, history, limiter>>

(* After the answer the connection is shut down.  shutdown() throws when   *)
(* the browser has reset it meanwhile; nothing catches the exception in    *)
(* io_thread, and the process ends.                                        *)
HandleWrite(c) ==
    /\ Runs("write", c)
    /\ queue' = Tail(queue)
    /\ conn' = [conn EXCEPT ![c] = "closed"]
    /\ alive' = (peer[c] # "reset")
    /\ UNCHANGED <<browser, rx, backlog, acceptor_, tx, history, limiter>>

-----------------------------------------------------------------------------
Environment ==
    \/ Tick
    \/ \E c \in Conns :
          \/ Connect(c)
          \/ \E r \in Requests : Request(c, r)
          \/ Arrive(c)
          \/ Leave(c)
          \/ Reset(c)

Reactor(c) == ReadCompletes(c) \/ ReadFails(c) \/ WriteFails(c)

Handlers ==
    \E c \in Conns :
        \/ HandleAccept(c)
        \/ HandleNoAccept(c)
        \/ HandleRead(c)
        \/ HandleFailure(c)
        \/ HandleWrite(c)

(* When the process has ended nothing of it moves. *)
Next ==
    /\ alive
    /\ \/ Environment
       \/ AcceptCompletes
       \/ AcceptFails
       \/ \E c \in Conns : Reactor(c) \/ WriteCompletes(c)
       \/ Handlers

Spec == Init /\ [][Next]_vars

(* As in ModbusServer; a browser need not take the rest of an answer. *)
Fairness ==
    /\ WF_vars(Handlers)
    /\ SF_vars(alive /\ AcceptCompletes)
    /\ \A c \in Conns : WF_vars(alive /\ Reactor(c))

FairSpec == Spec /\ Fairness

-----------------------------------------------------------------------------
ConnsOf(ip) == {c \in Conns : ClientOf[c] = ip}

TypeOK ==
    /\ alive \in BOOLEAN
    /\ peer \in [Conns -> {"absent", "open", "gone", "reset"}]
    /\ request \in [Conns -> Requests \union {<<>>}]
    /\ rx \in [Conns -> Nat] /\ \A c \in Conns : rx[c] <= Len(request[c])
    /\ backlog \in Seq(Conns)
    /\ acceptor_ \in {"armed", "queued"}
    /\ conn \in [Conns -> {"none", "backlog", "queued", "reading", "writing", "closed"}]
    /\ queue \in Seq([op : {"accept", "no_accept", "read", "no_read", "write", "no_write"},
                      conn : Conns, segments : Nat])
    /\ \A i \in DOMAIN queue :
          queue[i].op = "read" => queue[i].segments \in 1 .. Len(request[queue[i].conn])
    /\ tx \in [Conns -> Sent]
    /\ answered \in [Conns -> (Resources \ {"oversize"}) \union {"none"}]
    /\ fate \in [Conns -> {"none", "admitted", "refused", "vanished"}]
    /\ accepted \in [Conns -> 0 .. now]
    /\ Limiter!TypeOK

(* Only a connection that the limiter let in is ever read from, answered   *)
(* or sent a byte; a refused or vanished one is closed for good            *)
(* (handle_client returns before the read).  Types included.               *)
OnlyAdmittedServed ==
    /\ TypeOK
    /\ \A c \in Conns :
        /\ conn[c] \in {"reading", "writing"} \/ answered[c] # "none" \/ tx[c] # "nothing"
              => fate[c] = "admitted"
        /\ fate[c] \in {"refused", "vanished"} => conn[c] = "closed"

(* The limiter and the connections agree: each admission is that of one    *)
(* connection, at the time of its accept; a connection that vanished or    *)
(* was refused uses up none of its client's limit, and one is refused only *)
(* when as many as the limit allows, of its own client, were admitted less *)
(* than WINDOW before.                                                     *)
AdmissionsMatch ==
    /\ \A ip \in Clients :
        \A t \in 0 .. now :
            Cardinality({i \in DOMAIN admits[ip] : admits[ip][i] = t})
                = Cardinality({c \in ConnsOf(ip) : fate[c] = "admitted" /\ accepted[c] = t})
    /\ \A c \in Conns :
        fate[c] = "refused" =>
            Cardinality({d \in ConnsOf(ClientOf[c]) :
                            /\ fate[d] = "admitted"
                            /\ accepted[c] - accepted[d] \in 0 .. WINDOW - 1})
                >= max_requests_per_minute

(* One answer per connection, which names what a prefix of the request     *)
(* names; and when the process lives the connection ends after it.         *)
AnswersAreAsked ==
    \A c \in Conns :
        /\ answered[c] # "none" => \E i \in DOMAIN request[c] : request[c][i] = answered[c]
        /\ answered[c] # "none" => conn[c] \in {"queued", "writing", "closed"}
        /\ tx[c] # "nothing" => answered[c] # "none"

(* Every connection that waits to be accepted is dealt with, and every     *)
(* request that reaches an admitted one gets the beginning of an answer or *)
(* the connection is closed, unless the process ends first.                *)
EveryConnectionServed ==
    \A c \in Conns :
        /\ conn[c] = "backlog" ~> (fate[c] # "none" \/ ~ alive)
        /\ conn[c] = "reading" /\ rx[c] > 0
              ~> (tx[c] # "nothing" \/ conn[c] = "closed" \/ ~ alive)

-----------------------------------------------------------------------------
(* main.cpp:44, "Wait indefinitely (or Ctrl+C)": the program does not end  *)
(* by itself.                                                              *)
RunsForever == alive
=============================================================================
