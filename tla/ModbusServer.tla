---------------------------- MODULE ModbusServer ----------------------------
(***************************************************************************)
(* The Modbus server (server/src/modbus_server.cpp): it accepts TCP        *)
(* connections, simulates an authentication, reads what the client sends   *)
(* into a buffer of a shared pool, judges the length of each read, and     *)
(* reports to the SOC logger and to the counters of the dashboard.         *)
(*                                                                         *)
(* One thread runs the completion handlers of the io_context in the order  *)
(* in which the reactor queued them (main.cpp), so a handler is one step;  *)
(* everything else that moves - clients, network, reactor, clock - comes   *)
(* between two handlers.  A TCP connection is a stream of bytes: what a    *)
(* client sends as one packet may arrive in several segments, and one read *)
(* takes whatever has arrived.                                             *)
(***************************************************************************)
EXTENDS Integers, Sequences, FiniteSets

CONSTANTS
    Conns,          \* the TCP connections that clients may make
    Buffers,        \* storage for read buffers
    NoBuffer,       \* not a buffer
    BUFFER_SIZE,    \* bytes of a buffer (1024 in the code)
    MAX_POOL_SIZE,  \* idle buffers the pool keeps (50 in the code)
    Packets,        \* the lengths of the packets that clients send
    Cuts,           \* the places of a stream at which a segment may end
    MaxBytes        \* bound: a client that has sent as many bytes sends no more

ASSUME BuffersAssumption == NoBuffer \notin Buffers
ASSUME SizesAssumption == BUFFER_SIZE \in Nat \ {0} /\ MAX_POOL_SIZE \in Nat \ {0}
ASSUME PacketsAssumption == Packets \subseteq Nat \ {0} /\ Cuts \subseteq Nat /\ MaxBytes \in Nat

VARIABLES
    peer,         \* the client's end of each connection
    net,          \* bytes on their way to the server
    rx,           \* bytes that have arrived and are unread
    sent,         \* history: the bytes sent on each connection
    backlog,      \* established connections the acceptor has not taken
    acceptor_,    \* armed (async_accept waits) or queued (its handler does)
    conn,         \* the server's end of each connection
    queue,        \* completion handlers waiting for the io thread
    buf,          \* buffer of the pending read of each connection
    buffer_pool_,
    content,      \* whose data each buffer holds
    last_cleanup, \* the static of return_buffer: unset, recent or 5 minutes old
    reads,        \* reads handled on each connection
    tx,           \* bytes written to each client
    log,          \* the entries handed to the SOC logger
    modbus_connections_, attacks_detected_    \* the counters of RestAPI

client == <<peer, net, sent>>
pool   == <<buffer_pool_, content, last_cleanup>>
report == <<reads, tx, log, modbus_connections_, attacks_detected_>>
vars   == <<client, rx, backlog, acceptor_, conn, queue, buf, pool, report>>

Zero == "zero"     \* the content of a cleared buffer

Init ==
    /\ peer = [c \in Conns |-> "absent"]
    /\ net = [c \in Conns |-> 0]
    /\ rx = [c \in Conns |-> 0]
    /\ sent = [c \in Conns |-> 0]
    /\ backlog = <<>>
    /\ acceptor_ = "armed"
    /\ conn = [c \in Conns |-> "none"]
    /\ queue = <<>>
    /\ buf = [c \in Conns |-> NoBuffer]
    /\ buffer_pool_ = <<>>
    /\ content = [b \in Buffers |-> Zero]
    /\ last_cleanup = "unset"
    /\ reads = [c \in Conns |-> 0]
    /\ tx = [c \in Conns |-> 0]
    /\ log = {}
    /\ modbus_connections_ = 0
    /\ attacks_detected_ = 0

-----------------------------------------------------------------------------
(* Clients and network. *)

Connect(c) ==
    /\ peer[c] = "absent"
    /\ peer' = [peer EXCEPT ![c] = "open"]
    /\ conn' = [conn EXCEPT ![c] = "backlog"]
    /\ backlog' = Append(backlog, c)
    /\ UNCHANGED <<net, sent, rx, acceptor_, queue, buf, pool, report>>

Send(c, packet) ==
    /\ peer[c] = "open"
    /\ sent[c] < MaxBytes
    /\ sent' = [sent EXCEPT ![c] = @ + packet]
    /\ net' = [net EXCEPT ![c] = @ + packet]
    /\ UNCHANGED <<peer, rx, backlog, acceptor_, conn, queue, buf, pool, report>>

(* The next segment reaches the server's host: all that is on its way, or  *)
(* what comes before a cut.                                                *)
Deliver(c) ==
    /\ net[c] > 0
    /\ conn[c] # "closed"
    /\ \E end \in Cuts \union {sent[c]} :
          LET n == end - (sent[c] - net[c]) IN
          /\ n \in 1 .. net[c]
          /\ net' = [net EXCEPT ![c] = @ - n]
          /\ rx' = [rx EXCEPT ![c] = @ + n]
    /\ UNCHANGED <<peer, sent, backlog, acceptor_, conn, queue, buf, pool, report>>

(* The client closes its end; what it has sent still arrives. *)
Leave(c) ==
    /\ peer[c] = "open"
    /\ peer' = [peer EXCEPT ![c] = "gone"]
    /\ UNCHANGED <<net, sent, rx, backlog, acceptor_, conn, queue, buf, pool, report>>

(* The connection is reset; bytes not yet read may be lost. *)
Reset(c) ==
    /\ peer[c] \in {"open", "gone"}
    /\ peer' = [peer EXCEPT ![c] = "reset"]
    /\ net' = [net EXCEPT ![c] = 0]
    /\ \E left \in {0, rx[c]} : rx' = [rx EXCEPT ![c] = left]
    /\ UNCHANGED <<sent, backlog, acceptor_, conn, queue, buf, pool, report>>

(* Five minutes pass since the last cleanup of the pool. *)
CleanupDue ==
    /\ last_cleanup = "recent"
    /\ last_cleanup' = "due"
    /\ UNCHANGED <<client, rx, backlog, acceptor_, conn, queue, buf,
                   buffer_pool_, content, report>>

-----------------------------------------------------------------------------
(* The reactor: it performs the pending operations and queues handlers. *)

Completion(op, c, n) == [op |-> op, conn |-> c, length |-> n]

AcceptCompletes ==
    /\ acceptor_ = "armed"
    /\ backlog # <<>>
    /\ backlog' = Tail(backlog)
    /\ acceptor_' = "queued"
    /\ conn' = [conn EXCEPT ![Head(backlog)] = "queued"]
    /\ queue' = Append(queue, Completion("accept", Head(backlog), 0))
    /\ UNCHANGED <<client, rx, buf, pool, report>>

(* async_accept fails, for lack of descriptors for instance. *)
AcceptFails ==
    /\ acceptor_ = "armed"
    /\ backlog # <<>>
    /\ acceptor_' = "queued"
    /\ queue' = Append(queue, Completion("no_accept", Head(backlog), 0))
    /\ UNCHANGED <<client, rx, backlog, conn, buf, pool, report>>

(* async_read_some takes what has arrived, up to the size of the buffer. *)
ReadCompletes(c) ==
    LET n == IF rx[c] < BUFFER_SIZE THEN rx[c] ELSE BUFFER_SIZE IN
    /\ conn[c] = "reading"
    /\ rx[c] > 0
    /\ rx' = [rx EXCEPT ![c] = @ - n]
    /\ conn' = [conn EXCEPT ![c] = "queued"]
    /\ content' = [content EXCEPT ![buf[c]] = c]
    /\ queue' = Append(queue, Completion("read", c, n))
    /\ UNCHANGED <<client, backlog, acceptor_, buf, buffer_pool_, last_cleanup, report>>

(* It fails at the end of the stream or on a reset. *)
ReadFails(c) ==
    /\ conn[c] = "reading"
    /\ rx[c] = 0
    /\ peer[c] = "reset" \/ (peer[c] = "gone" /\ net[c] = 0)
    /\ conn' = [conn EXCEPT ![c] = "queued"]
    /\ queue' = Append(queue, Completion("no_read", c, 0))
    /\ UNCHANGED <<client, rx, backlog, acceptor_, buf, pool, report>>

-----------------------------------------------------------------------------
(* The buffer pool. *)

(* mutant: the buffer is handed out and kept in the pool *)
MutantGetBuffer(c, idle) ==
    \/ /\ idle # <<>>
       /\ buf' = [buf EXCEPT ![c] = Head(idle)]
       /\ UNCHANGED <<buffer_pool_, content>>
    \/ /\ idle = <<>>
       /\ \E b \in Buffers \ {buf[d] : d \in Conns} : buf' = [buf EXCEPT ![c] = b]
       /\ UNCHANGED <<buffer_pool_, content>>

(* get_buffer: the oldest idle buffer, or a new one, which is zeroed. *)
GetBuffer(c, idle) ==
    \/ /\ idle # <<>>
       /\ buf' = [buf EXCEPT ![c] = Head(idle)]
       /\ buffer_pool_' = Tail(idle)
       /\ UNCHANGED content
    \/ /\ idle = <<>>
       /\ \E b \in Buffers \ {buf[d] : d \in Conns} :
             /\ buf' = [buf EXCEPT ![c] = b]
             /\ content' = [content EXCEPT ![b] = Zero]
       /\ buffer_pool_' = idle

(* The pool after the cleanup at the head of return_buffer, *)
Trimmed ==
    LET keep == MAX_POOL_SIZE \div 2 IN
    IF last_cleanup = "due" /\ Len(buffer_pool_) > keep
    THEN SubSeq(buffer_pool_, Len(buffer_pool_) - keep + 1, Len(buffer_pool_))
    ELSE buffer_pool_

(* and after all of return_buffer: there is room for b or it is freed. *)
Returned(b) ==
    IF Len(Trimmed) < MAX_POOL_SIZE THEN Append(Trimmed, b) ELSE Trimmed

(* mutant: the buffer is pooled with the client's data in it *)
MutantCleared(b) == content

(* A buffer that goes back to the pool is cleared and resized. *)
Cleared(b) ==
    IF Len(Trimmed) < MAX_POOL_SIZE THEN [content EXCEPT ![b] = Zero] ELSE content

-----------------------------------------------------------------------------
(* The handlers, run by the io thread in the order of the queue. *)

Runs(op, c) == queue # <<>> /\ Head(queue).op = op /\ Head(queue).conn = c

(* remote_endpoint() throws once the connection has been reset. *)
ClientIp(c) == IF peer[c] = "reset" THEN "UNKNOWN" ELSE "client_ip"

(* An entry of the log: the nth read of a connection, 0 for its accept. *)
Entry(c, n, event) == [conn |-> c, at |-> n, event |-> event, ip |-> ClientIp(c)]

(* mutant: start_accept is forgotten *)
MutantHandleAccept(c) ==
    /\ Runs("accept", c)
    /\ queue' = Tail(queue)
    /\ log' = log \union {Entry(c, 0, "CONNECTION"), Entry(c, 0, "AUTH_ATTEMPT")}
    /\ modbus_connections_' = modbus_connections_ + 1
    /\ GetBuffer(c, buffer_pool_)
    /\ conn' = [conn EXCEPT ![c] = "reading"]
    /\ UNCHANGED <<client, rx, backlog, acceptor_, last_cleanup, reads, tx, attacks_detected_>>

(* The handler of async_accept: the connection and the outcome of a random *)
(* authentication are reported, the first read is started and the acceptor *)
(* is armed again.  A refused authentication is logged as an attack of     *)
(* severity HIGH, but increment_attacks is not called.                     *)
HandleAccept(c) ==
    /\ Runs("accept", c)
    /\ queue' = Tail(queue)
    /\ \E auth_failure \in {{}, {Entry(c, 0, "UNAUTHORIZED_ACCESS")}} :
          log' = log \union {Entry(c, 0, "CONNECTION"), Entry(c, 0, "AUTH_ATTEMPT")}
                     \union auth_failure
    /\ modbus_connections_' = modbus_connections_ + 1
    /\ GetBuffer(c, buffer_pool_)
    /\ conn' = [conn EXCEPT ![c] = "reading"]
    /\ acceptor_' = "armed"
    /\ UNCHANGED <<client, rx, backlog, last_cleanup, reads, tx, attacks_detected_>>

(* mutant: start_accept only after a success *)
MutantHandleNoAccept(c) ==
    /\ Runs("no_accept", c)
    /\ queue' = Tail(queue)
    /\ UNCHANGED <<client, rx, backlog, acceptor_, conn, buf, pool, report>>

(* After a failed accept the handler only arms the acceptor again. *)
HandleNoAccept(c) ==
    /\ Runs("no_accept", c)
    /\ queue' = Tail(queue)
    /\ acceptor_' = "armed"
    /\ UNCHANGED <<client, rx, backlog, conn, buf, pool, report>>

(* What the length of a read is reported as, and all that the log writes   *)
(* with a severity, as an attack: the refused authentication too.          *)
ReadAttacks == {"BUFFER_OVERFLOW_ATTEMPT", "LARGE_PACKET", "PORT_SCAN"}
Severe == ReadAttacks \union {"UNAUTHORIZED_ACCESS"}

(* mutant: >= for > *)
MutantVerdict(length) ==
    CASE length > 512  -> {"BUFFER_OVERFLOW_ATTEMPT"}
      [] length \in 100 .. 512 -> {"LARGE_PACKET"}
      [] length < 6    -> {"PORT_SCAN"}
      [] OTHER         -> {}

Verdict(length) ==
    CASE length > 512  -> {"BUFFER_OVERFLOW_ATTEMPT"}
      [] length \in 101 .. 512 -> {"LARGE_PACKET"}
      [] length < 6    -> {"PORT_SCAN"}
      [] OTHER         -> {}

(* The literal that the answer is initialised from, and the string that    *)
(* the constructor of std::string makes of it: it ends before the first 0. *)
LITERAL == <<0, 1, 0, 0, 0, 6, 1, 3, 0, 0, 0, 1>>

CString(bytes) ==
    SubSeq(bytes, 1, CHOOSE k \in 0 .. Len(bytes) :
                        /\ k < Len(bytes) => bytes[k + 1] = 0
                        /\ \A i \in 1 .. k : bytes[i] # 0)

response == CString(LITERAL)

(* mutant: only a client's first attack is counted *)
MutantHandleRead(c) ==
    LET verdict == Verdict(Head(queue).length) IN
    /\ Runs("read", c)
    /\ queue' = Tail(queue)
    /\ reads' = [reads EXCEPT ![c] = @ + 1]
    /\ log' = log \union {Entry(c, reads'[c], event) : event \in verdict}
    /\ attacks_detected_' =
          IF \E e \in log : e.conn = c /\ e.at > 0 THEN attacks_detected_
          ELSE attacks_detected_ + Cardinality(verdict)
    /\ conn' = [conn EXCEPT ![c] = "reading"]
    /\ UNCHANGED <<client, rx, backlog, acceptor_, buf, pool, tx, modbus_connections_>>

(* The handler of async_read_some after a read: judge the length, answer,  *)
(* return the buffer and read on with the next one.  The length never      *)
(* exceeds the buffer, so is_safe_buffer_size never refuses it, and        *)
(* return_buffer never leaves the pool empty, so get_buffer takes its      *)
(* head.                                                                   *)
HandleRead(c) ==
    LET verdict == Verdict(Head(queue).length)
        idle    == Returned(buf[c])
    IN
    /\ Runs("read", c)
    /\ queue' = Tail(queue)
    /\ reads' = [reads EXCEPT ![c] = @ + 1]
    /\ log' = log \union {Entry(c, reads'[c], event) : event \in verdict}
    /\ attacks_detected_' = attacks_detected_ + Cardinality(verdict)
    /\ tx' = [tx EXCEPT ![c] = @ + Len(response)]
    /\ content' = Cleared(buf[c])
    /\ last_cleanup' = "recent"
    /\ buf' = [buf EXCEPT ![c] = Head(idle)]
    /\ buffer_pool_' = Tail(idle)
    /\ conn' = [conn EXCEPT ![c] = "reading"]
    /\ UNCHANGED <<client, rx, backlog, acceptor_, modbus_connections_>>

(* mutant: the buffer of a failed read is not returned *)
MutantHandleNoRead(c) ==
    /\ Runs("no_read", c)
    /\ queue' = Tail(queue)
    /\ last_cleanup' = "recent"
    /\ conn' = [conn EXCEPT ![c] = "closed"]
    /\ UNCHANGED <<client, rx, backlog, acceptor_, buf, buffer_pool_, content, report>>

(* The same handler after a failed read: the buffer is returned and, with  *)
(* the handler, the last reference to the socket goes.                     *)
HandleNoRead(c) ==
    /\ Runs("no_read", c)
    /\ queue' = Tail(queue)
    /\ buffer_pool_' = Returned(buf[c])
    /\ content' = Cleared(buf[c])
    /\ last_cleanup' = "recent"
    /\ buf' = [buf EXCEPT ![c] = NoBuffer]
    /\ conn' = [conn EXCEPT ![c] = "closed"]
    /\ UNCHANGED <<client, rx, backlog, acceptor_, report>>

-----------------------------------------------------------------------------
Environment ==
    \/ CleanupDue
    \/ \E c \in Conns :
          \/ Connect(c)
          \/ \E packet \in Packets : Send(c, packet)
          \/ Leave(c)
          \/ Reset(c)

Handlers ==
    \E c \in Conns :
        \/ HandleAccept(c)
        \/ HandleNoAccept(c)
        \/ HandleRead(c)
        \/ HandleNoRead(c)

Next ==
    \/ Environment
    \/ AcceptCompletes
    \/ AcceptFails
    \/ \E c \in Conns : Deliver(c) \/ ReadCompletes(c) \/ ReadFails(c)
    \/ Handlers

Spec == Init /\ [][Next]_vars

(* The io thread keeps running handlers and they never block; the network  *)
(* delivers; the reactor completes what is ready; and accept does not fail *)
(* for ever.  Clients owe nothing.                                         *)
Fairness ==
    /\ WF_vars(Handlers)
    /\ SF_vars(AcceptCompletes)
    /\ \A c \in Conns :
          /\ WF_vars(Deliver(c))
          /\ WF_vars(ReadCompletes(c))
          /\ WF_vars(ReadFails(c))

FairSpec == Spec /\ Fairness

-----------------------------------------------------------------------------
Events == Severe \union {"CONNECTION", "AUTH_ATTEMPT"}

Logged(events) == {e \in log : e.event \in events}

(* The variables keep their types; no read is longer than its buffer and   *)
(* the pool keeps no more idle buffers than it should.                     *)
TypeOK ==
    /\ peer \in [Conns -> {"absent", "open", "gone", "reset"}]
    /\ net \in [Conns -> Nat] /\ rx \in [Conns -> Nat] /\ sent \in [Conns -> Nat]
    /\ backlog \in Seq(Conns)
    /\ acceptor_ \in {"armed", "queued"}
    /\ conn \in [Conns -> {"none", "backlog", "queued", "reading", "closed"}]
    /\ queue \in Seq([op : {"accept", "no_accept", "read", "no_read"},
                      conn : Conns, length : 0 .. BUFFER_SIZE])
    /\ buf \in [Conns -> Buffers \union {NoBuffer}]
    /\ buffer_pool_ \in Seq(Buffers)
    /\ Len(buffer_pool_) <= MAX_POOL_SIZE
    /\ content \in [Buffers -> Conns \union {Zero}]
    /\ last_cleanup \in {"unset", "recent", "due"}
    /\ reads \in [Conns -> Nat]
    /\ tx \in [Conns -> Nat]
    /\ log \subseteq [conn : Conns, at : Nat, event : Events, ip : {"client_ip", "UNKNOWN"}]
    /\ modbus_connections_ \in Nat
    /\ attacks_detected_ \in Nat

(* No two pending reads share a buffer, a buffer being read into is not    *)
(* idle in the pool, and the pool does not hold one twice: get_buffer and  *)
(* return_buffer hand every buffer to one owner at a time.  A connection   *)
(* has a buffer from its accept to its end, and only then; no read is      *)
(* longer than its buffer and the pool keeps to its limit (TypeOK).        *)
Exclusive ==
    /\ TypeOK
    /\ \A c, d \in Conns : c # d /\ buf[c] = buf[d] => buf[c] = NoBuffer
    /\ \A i \in DOMAIN buffer_pool_, c \in Conns : buffer_pool_[i] # buf[c]
    /\ \A i, j \in DOMAIN buffer_pool_ : buffer_pool_[i] = buffer_pool_[j] => i = j
    /\ \A c \in Conns : conn[c] = "reading" => buf[c] # NoBuffer
    /\ \A c \in Conns : conn[c] \in {"none", "backlog", "closed"} => buf[c] = NoBuffer

(* One client's data never reaches another's read: an idle buffer and one  *)
(* that waits for data are zeroed, and a completed read finds its own      *)
(* client's data.                                                          *)
NoStaleData ==
    /\ \A i \in DOMAIN buffer_pool_ : content[buffer_pool_[i]] = Zero
    /\ \A c \in Conns : conn[c] = "reading" => content[buf[c]] = Zero
    /\ \A i \in DOMAIN queue :
          queue[i].op = "read" => content[buf[queue[i].conn]] = queue[i].conn

(* Every connection has one asynchronous operation under way and its       *)
(* handler runs once; the acceptor waits or its handler does, never both   *)
(* and never neither.                                                      *)
OneOperation ==
    /\ \A c \in Conns :
          Cardinality({i \in DOMAIN queue : queue[i].conn = c /\ queue[i].op # "no_accept"})
              = IF conn[c] = "queued" THEN 1 ELSE 0
    /\ Cardinality({i \in DOMAIN queue : queue[i].op \in {"accept", "no_accept"}})
              = IF acceptor_ = "queued" THEN 1 ELSE 0
    /\ \A c \in Conns :
          Cardinality({i \in DOMAIN backlog : backlog[i] = c})
              = IF conn[c] = "backlog" THEN 1 ELSE 0

(* How far the dashboard and the log agree: modbus_connections_ is the     *)
(* number of logged connections and of authentications, and                *)
(* attacks_detected_ falls behind the entries logged with a severity by    *)
(* the refused authentications, which nobody counts, and by nothing else:  *)
(* what is reported of a read is always counted, once.                     *)
CountersMatchLog ==
    /\ modbus_connections_ = Cardinality(Logged({"CONNECTION"}))
    /\ modbus_connections_ = Cardinality(Logged({"AUTH_ATTEMPT"}))
    /\ attacks_detected_ + Cardinality(Logged({"UNAUTHORIZED_ACCESS"}))
           = Cardinality(Logged(Severe))

(* Each read has the bytes behind it that its verdict needs: more than 512 *)
(* for an overflow, more than 100 for a large packet, six for one that is  *)
(* not reported, one for a scan - and all reads of a client together need  *)
(* no more than it has sent: handle_client judges no byte twice and none   *)
(* of another connection.                                                  *)
Accusations(c, event) == Cardinality({e \in log : e.conn = c /\ e.event = event})

AccusationsBacked ==
    \A c \in Conns :
        LET large    == Accusations(c, "LARGE_PACKET")
            overflow == Accusations(c, "BUFFER_OVERFLOW_ATTEMPT")
            scan     == Accusations(c, "PORT_SCAN")
            passed   == reads[c] - large - overflow - scan
        IN  513 * overflow + 101 * large + scan + 6 * passed <= sent[c]

(* Every established connection is accepted and reported, however busy the *)
(* others keep the io thread (start_accept re-arms itself), and what has   *)
(* arrived on it is read.                                                  *)
EveryConnectionServed ==
    \A c \in Conns :
        /\ conn[c] = "backlog" ~> \E e \in log : e.conn = c /\ e.event = "CONNECTION"
        /\ rx[c] > 0 ~> rx[c] = 0

(* When the client has left, its connection ends and its buffer is given   *)
(* back.                                                                   *)
EveryBufferReturned ==
    \A c \in Conns :
        peer[c] \in {"gone", "reset"} ~> (conn[c] = "closed" /\ buf[c] = NoBuffer)

-----------------------------------------------------------------------------
(* rest_api.cpp:231, where the dashboard shows attacks_detected_ as        *)
(* "THREAT(S) DETECTED": it has counted every attack that the log reports. *)
EveryAttackCounted == attacks_detected_ = Cardinality(Logged(Severe))

(* README.md:142, "Automatic responses to Modbus requests" (and the        *)
(* comment at modbus_server.cpp:159): whoever had a read handled has been  *)
(* sent something.                                                         *)
RequestsAnswered == \A c \in Conns : reads[c] > 0 => tx[c] > 0
=============================================================================
