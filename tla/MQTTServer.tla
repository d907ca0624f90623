----------------------------- MODULE MQTTServer -----------------------------
(***************************************************************************)
(* The MQTT server (server/src/mqtt_server.cpp): it takes what one read    *)
(* returns for one MQTT packet, reports it, answers some packets with a    *)
(* synchronous write and reads on.                                         *)
(*                                                                         *)
(* The only io thread runs a handler up to its write, and the write waits  *)
(* there until the client has room for the answer: meanwhile nothing else  *)
(* of the process runs.  On a reset connection the write throws, nothing   *)
(* catches the exception and the process ends.                             *)
(*                                                                         *)
(* Packets are sequences of bytes.  One may arrive in two segments and a   *)
(* read takes all that has arrived, up to the size of the buffer: the code *)
(* may see a packet whole, cut, or with the beginning of the next, and the *)
(* length it goes by is that of the read.                                  *)
(***************************************************************************)
EXTENDS Integers, Sequences, FiniteSets, FiniteSetsExt, SequencesExt

CONSTANTS
    Conns,       \* the TCP connections that clients may make
    NoConn,      \* not a connection
    Packets,     \* what a client may send at once, well formed or not
    Cuts,        \* lengths of the first of two segments
    Names,       \* topics and filters of well-formed packets
    Payloads,    \* payloads of well-formed packets
    BUFFER_SIZE, \* 1024 in the code
    MaxPackets,  \* bound: packets sent on all connections together
    WINDOW       \* answers a client may leave unread before a write waits

Byte == 0 .. 255

ASSUME ConnsAssumption == NoConn \notin Conns
ASSUME BoundsAssumption ==
    MaxPackets \in Nat /\ WINDOW \in Nat \ {0} /\ BUFFER_SIZE \in Nat \ {0}
ASSUME PacketsAssumption ==
    /\ Packets \subseteq Seq(Byte) \ {<<>>}
    /\ Cuts \subseteq Nat \ {0}
ASSUME NamesAssumption ==
    /\ Names \subseteq Seq(Byte) /\ Payloads \subseteq Seq(Byte)
    /\ \A name \in Names :
          /\ Len(name) > 0 /\ 5 + Len(name) < 128
          /\ \A load \in Payloads : 2 + Len(name) + Len(load) < 128

-----------------------------------------------------------------------------
(* Security::sanitize_for_log, through which a topic passes before the     *)
(* code looks at it: every byte by its text, and a long text cut.          *)
MAX_LOG_STRING_LENGTH == 1024

Hex(digit) == IF digit < 10 THEN 48 + digit ELSE 87 + digit

Text(b) ==
    CASE b \in {34, 92}             -> <<92, b>>
      [] b = 10                     -> <<92, 110>>
      [] b = 13                     -> <<92, 114>>
      [] b = 9                      -> <<92, 116>>
      [] b \in 32 .. 126 \ {34, 92} -> <<b>>
      [] OTHER                      -> <<92, 120, Hex(b \div 16), Hex(b % 16)>>

sanitize_for_log(s) ==
    LET text == FlattenSeq([i \in 1 .. Len(s) |-> Text(s[i])])
    IN  IF Len(text) > MAX_LOG_STRING_LENGTH
        THEN SubSeq(text, 1, MAX_LOG_STRING_LENGTH - 3) \o <<46, 46, 46>>
        ELSE text

(* std::string::find, for "admin", "credentials", "#" and "+". *)
Find(s, word) == \E i \in 0 .. Len(s) - Len(word) : SubSeq(s, i + 1, i + Len(word)) = word

Restricted(topic) ==
    \/ Find(topic, <<97, 100, 109, 105, 110>>)
    \/ Find(topic, <<99, 114, 101, 100, 101, 110, 116, 105, 97, 108, 115>>)

Wild(topic) == Find(topic, <<35>>) \/ Find(topic, <<43>>)

(* What process_mqtt_packet takes the bytes of a read for: the type is in  *)
(* the first one,                                                          *)
Types == {"CONNECT", "PUBLISH", "SUBSCRIBE", "UNSUBSCRIBE", "PINGREQ",
          "DISCONNECT", "UNKNOWN"}

TypeOf(data) ==
    CASE data[1] \div 16 = 1  -> "CONNECT"
      [] data[1] \div 16 = 3  -> "PUBLISH"
      [] data[1] \div 16 = 8  -> "SUBSCRIBE"
      [] data[1] \div 16 = 10 -> "UNSUBSCRIBE"
      [] data[1] \div 16 = 12 -> "PINGREQ"
      [] data[1] \div 16 = 14 -> "DISCONNECT"
      [] OTHER                -> "UNKNOWN"

(* and the topic is looked for where a packet with a short header has it;  *)
(* it is "malformed" when it is longer than the rest of the data.          *)
Topics == {"unknown", "plain", "admin", "wildcard", "malformed", "short"}

LengthAt(data, i) == 256 * data[i] + data[i + 1]

TopicAt(data, i) == sanitize_for_log(SubSeq(data, i + 2, i + 1 + LengthAt(data, i)))

PublishTopic(data) ==
    CASE Len(data) <= 4                           -> "unknown"
      [] Len(data) \in 5 .. 3 + LengthAt(data, 3) -> "malformed"
      [] OTHER -> IF Restricted(TopicAt(data, 3)) THEN "admin" ELSE "plain"

(* A SUBSCRIBE is answered with its third and fourth byte: "short" is one  *)
(* that does not have them.                                                *)
SubscribeTopic(data) ==
    CASE Len(data) < 4                            -> "short"
      [] Len(data) \in 4 .. 6                     -> "unknown"
      [] Len(data) \in 7 .. 5 + LengthAt(data, 5) -> "malformed"
      [] OTHER -> IF Wild(TopicAt(data, 5)) THEN "wildcard" ELSE "plain"

KindOf(data) ==
    [type  |-> TypeOf(data),
     topic |-> CASE TypeOf(data) = "PUBLISH"   -> PublishTopic(data)
                 [] TypeOf(data) = "SUBSCRIBE" -> SubscribeTopic(data)
                 [] OTHER                      -> "unknown"]

Kinds ==
    {k \in [type : Types, topic : Topics] :
        k.type \in {"PUBLISH", "SUBSCRIBE"} \/ k.topic = "unknown"}

-----------------------------------------------------------------------------
VARIABLES
    peer,        \* the client's end of each connection
    net,         \* bytes of a second segment, while it is on its way
    rx,          \* bytes that have arrived and are unread
    sent,        \* history: the packets sent on each connection
    received,    \* history: what each read of each connection has taken
    backlog,     \* established connections the acceptor has not taken
    acceptor_,   \* armed (async_accept waits) or queued (its handler does)
    conn,        \* the server's end of each connection
    queue,       \* completion handlers waiting for the io thread
    writing,     \* the write the running handler is in
    answers,     \* history: the answers written on each connection
    unread,      \* how many of them the client has not read
    alive,       \* the process runs
    reads,       \* reads handled on each connection
    log,         \* the entries handed to the SOC logger
    mqtt_activities_, attacks_detected_    \* the counters of RestAPI

client == <<peer, net, rx, sent, received>>
server == <<backlog, acceptor_, conn, queue>>
report == <<reads, log, mqtt_activities_, attacks_detected_>>
vars   == <<client, server, writing, answers, unread, alive, report>>

NoWrite == [conn |-> NoConn, answer |-> "none", kind |-> [type |-> "UNKNOWN", topic |-> "unknown"]]

Init ==
    /\ peer = [c \in Conns |-> "absent"]
    /\ net = [c \in Conns |-> <<>>]
    /\ rx = [c \in Conns |-> <<>>]
    /\ sent = [c \in Conns |-> <<>>]
    /\ received = [c \in Conns |-> <<>>]
    /\ backlog = <<>>
    /\ acceptor_ = "armed"
    /\ conn = [c \in Conns |-> "none"]
    /\ queue = <<>>
    /\ writing = NoWrite
    /\ answers = [c \in Conns |-> <<>>]
    /\ unread = [c \in Conns |-> 0]
    /\ alive = TRUE
    /\ reads = [c \in Conns |-> 0]
    /\ log = {}
    /\ mqtt_activities_ = 0
    /\ attacks_detected_ = 0

-----------------------------------------------------------------------------
(* Clients and network. *)

Connect(c) ==
    /\ peer[c] = "absent"
    /\ peer' = [peer EXCEPT ![c] = "open"]
    /\ conn' = [conn EXCEPT ![c] = "backlog"]
    /\ backlog' = Append(backlog, c)
    /\ UNCHANGED <<net, rx, sent, received, acceptor_, queue, writing, answers, unread, alive, report>>

(* The packet arrives at once, or its first segment does. *)
Send(c, p) ==
    /\ peer[c] = "open"
    /\ net[c] = <<>>
    /\ MapThenSumSet(LAMBDA d : Len(sent[d]), Conns) < MaxPackets
    /\ sent' = [sent EXCEPT ![c] = Append(@, p)]
    /\ \E n \in (Cuts \intersect 1 .. Len(p)) \union {Len(p)} :
          /\ rx' = [rx EXCEPT ![c] = @ \o SubSeq(p, 1, n)]
          /\ net' = [net EXCEPT ![c] = SubSeq(p, n + 1, Len(p))]
    /\ UNCHANGED <<peer, received, server, writing, answers, unread, alive, report>>

Deliver(c) ==
    /\ net[c] # <<>>
    /\ rx' = [rx EXCEPT ![c] = @ \o net[c]]
    /\ net' = [net EXCEPT ![c] = <<>>]
    /\ UNCHANGED <<peer, sent, received, server, writing, answers, unread, alive, report>>

ClientReads(c) ==
    /\ unread[c] > 0
    /\ unread' = [unread EXCEPT ![c] = @ - 1]
    /\ UNCHANGED <<client, server, writing, answers, alive, report>>

(* The client sends no more; what it has sent still arrives. *)
Leave(c) ==
    /\ peer[c] = "open"
    /\ peer' = [peer EXCEPT ![c] = "gone"]
    /\ UNCHANGED <<net, rx, sent, received, server, writing, answers, unread, alive, report>>

(* The connection is reset; bytes not yet read may be lost. *)
Reset(c) ==
    /\ peer[c] \in {"open", "gone"}
    /\ peer' = [peer EXCEPT ![c] = "reset"]
    /\ net' = [net EXCEPT ![c] = <<>>]
    /\ \E left \in {<<>>, rx[c]} : rx' = [rx EXCEPT ![c] = left]
    /\ unread' = [unread EXCEPT ![c] = 0]
    /\ UNCHANGED <<sent, received, server, writing, answers, alive, report>>

-----------------------------------------------------------------------------
(* The reactor: it performs the pending operations and queues handlers. It *)
(* belongs to the io thread, but an operation that is performed later than *)
(* it could be is indistinguishable from one that became possible later.   *)

Completion(op, c, data) == [op |-> op, conn |-> c, data |-> data]

AcceptCompletes ==
    /\ alive
    /\ acceptor_ = "armed"
    /\ backlog # <<>>
    /\ acceptor_' = "queued"
    /\ \/ /\ backlog' = Tail(backlog)
          /\ conn' = [conn EXCEPT ![Head(backlog)] = "queued"]
          /\ queue' = Append(queue, Completion("accept", Head(backlog), <<>>))
       \/ /\ queue' = Append(queue, Completion("no_accept", Head(backlog), <<>>))
          /\ UNCHANGED <<backlog, conn>>
    /\ UNCHANGED <<client, writing, answers, unread, alive, report>>

(* A read takes what has arrived, as much as the buffer holds. *)
Taken(c) == SubSeq(rx[c], 1, IF Len(rx[c]) < BUFFER_SIZE THEN Len(rx[c]) ELSE BUFFER_SIZE)

(* mutant: one buffer for all connections *)
MutantReadCompletes(c) ==
    /\ alive
    /\ conn[c] = "reading"
    /\ rx[c] # <<>>
    /\ rx' = [rx EXCEPT ![c] = SubSeq(@, Len(Taken(c)) + 1, Len(@))]
    /\ received' = [received EXCEPT ![c] = Append(@, Taken(c))]
    /\ conn' = [conn EXCEPT ![c] = "queued"]
    /\ queue' = [i \in 1 .. Len(queue) + 1 |->
                    IF i > Len(queue) THEN Completion("read", c, Taken(c))
                    ELSE [queue[i] EXCEPT !.data = Taken(c)]]
    /\ UNCHANGED <<peer, net, sent, backlog, acceptor_, writing, answers, unread, alive, report>>

ReadCompletes(c) ==
    /\ alive
    /\ conn[c] = "reading"
    /\ rx[c] # <<>>
    /\ rx' = [rx EXCEPT ![c] = SubSeq(@, Len(Taken(c)) + 1, Len(@))]
    /\ received' = [received EXCEPT ![c] = Append(@, Taken(c))]
    /\ conn' = [conn EXCEPT ![c] = "queued"]
    /\ queue' = Append(queue, Completion("read", c, Taken(c)))
    /\ UNCHANGED <<peer, net, sent, backlog, acceptor_, writing, answers, unread, alive, report>>

ReadFails(c) ==
    /\ alive
    /\ conn[c] = "reading"
    /\ rx[c] = <<>>
    /\ peer[c] = "reset" \/ (peer[c] = "gone" /\ net[c] = <<>>)
    /\ conn' = [conn EXCEPT ![c] = "queued"]
    /\ queue' = Append(queue, Completion("no_read", c, <<>>))
    /\ UNCHANGED <<client, backlog, acceptor_, writing, answers, unread, alive, report>>

-----------------------------------------------------------------------------
(* The handlers, run by the io thread in the order of the queue. *)

(* mutant: the next handler runs while a write waits *)
MutantRuns(op, c) == alive /\ queue # <<>> /\ Head(queue).op = op /\ Head(queue).conn = c

Runs(op, c) ==
    /\ alive
    /\ writing = NoWrite
    /\ queue # <<>>
    /\ Head(queue).op = op
    /\ Head(queue).conn = c

Entries(c, n, events) == [conn : {c}, at : {n}, event : events]

(* The handler of async_accept reports the connection, but does not count  *)
(* it, starts the first read and arms the acceptor again.                  *)
HandleAccept(c) ==
    /\ Runs("accept", c)
    /\ queue' = Tail(queue)
    /\ log' = log \union Entries(c, 0, {"CONNECT"})
    /\ conn' = [conn EXCEPT ![c] = "reading"]
    /\ acceptor_' = "armed"
    /\ UNCHANGED <<client, backlog, writing, answers, unread, alive, reads,
                   mqtt_activities_, attacks_detected_>>

HandleNoAccept(c) ==
    /\ Runs("no_accept", c)
    /\ queue' = Tail(queue)
    /\ acceptor_' = "armed"
    /\ UNCHANGED <<client, backlog, conn, writing, answers, unread, alive, report>>

HandleNoRead(c) ==
    /\ Runs("no_read", c)
    /\ queue' = Tail(queue)
    /\ conn' = [conn EXCEPT ![c] = "closed"]
    /\ UNCHANGED <<client, backlog, acceptor_, writing, answers, unread, alive, report>>

(* mutant: a wildcard is reported with the other attacks, before the answer *)
MutantAttack(k) ==
    CASE k.type = "UNKNOWN" \/ k.topic = "malformed"  -> {"MQTT_MALFORMED_PACKET"}
      [] k.type = "PUBLISH" /\ k.topic = "admin"      -> {"MQTT_ADMIN_TOPIC_ACCESS"}
      [] k.topic = "wildcard"                         -> {"MQTT_WILDCARD_SUBSCRIPTION"}
      [] OTHER                                        -> {}

(* process_mqtt_packet, case by case: what is reported as activity, *)
Activity(k) ==
    IF k.type \in {"PINGREQ", "UNKNOWN"} \/ k.topic = "malformed" THEN {} ELSE {k.type}

(* as an attack before the answer is written, *)
Attack(k) ==
    CASE k.type = "UNKNOWN" \/ k.topic = "malformed"  -> {"MQTT_MALFORMED_PACKET"}
      [] k.type = "PUBLISH" /\ k.topic = "admin"      -> {"MQTT_ADMIN_TOPIC_ACCESS"}
      [] OTHER                                        -> {}

(* and as an attack after it, *)
LateAttack(k) ==
    IF k.type = "SUBSCRIBE" /\ k.topic = "wildcard"
    THEN {"MQTT_WILDCARD_SUBSCRIPTION"} ELSE {}

(* and the answer.  The identifier of a SUBACK is copied from the third    *)
(* and fourth byte, which a short packet does not have.                    *)
Answer(k) ==
    CASE k.type = "CONNECT" -> {"CONNACK"}
      [] k.type = "PINGREQ" -> {"PINGRESP"}
      [] k.type = "SUBSCRIBE" /\ k.topic = "short" -> {"SUBACK", "SUBACK_of_nothing"}
      [] k.type = "SUBSCRIBE" /\ k.topic \notin {"short", "malformed"} -> {"SUBACK"}
      [] OTHER -> {}

(* mutant: the late accusation is counted with the others *)
MutantHandleRead(c) ==
    /\ Runs("read", c)
    /\ \E k \in {KindOf(Head(queue).data)} :
          /\ queue' = Tail(queue)
          /\ reads' = [reads EXCEPT ![c] = @ + 1]
          /\ log' = log \union Entries(c, reads'[c], Activity(k) \union Attack(k))
          /\ mqtt_activities_' = mqtt_activities_ + Cardinality(Activity(k))
          /\ attacks_detected_' = attacks_detected_ + Cardinality(Attack(k) \union LateAttack(k))
          /\ \/ /\ \E a \in Answer(k) : writing' = [conn |-> c, answer |-> a, kind |-> k]
                /\ conn' = [conn EXCEPT ![c] = "writing"]
             \/ /\ Answer(k) = {}
                /\ conn' = [conn EXCEPT ![c] = "reading"]
                /\ UNCHANGED writing
          /\ UNCHANGED <<client, backlog, acceptor_, answers, unread, alive>>

(* The handler of async_read_some, up to the write if there is one and to  *)
(* the next read otherwise.                                                *)
HandleRead(c) ==
    /\ Runs("read", c)
    /\ \E k \in {KindOf(Head(queue).data)} :
          /\ queue' = Tail(queue)
          /\ reads' = [reads EXCEPT ![c] = @ + 1]
          /\ log' = log \union Entries(c, reads'[c], Activity(k) \union Attack(k))
          /\ mqtt_activities_' = mqtt_activities_ + Cardinality(Activity(k))
          /\ attacks_detected_' = attacks_detected_ + Cardinality(Attack(k))
          /\ \/ /\ \E a \in Answer(k) : writing' = [conn |-> c, answer |-> a, kind |-> k]
                /\ conn' = [conn EXCEPT ![c] = "writing"]
             \/ /\ Answer(k) = {}
                /\ conn' = [conn EXCEPT ![c] = "reading"]
                /\ UNCHANGED writing
          /\ UNCHANGED <<client, backlog, acceptor_, answers, unread, alive>>

(* The write returns once the answer fits the client's window; the handler *)
(* goes on to its end and the next read.                                   *)
WriteDone(c) ==
    /\ alive
    /\ writing.conn = c
    /\ peer[c] # "reset"
    /\ unread[c] < WINDOW
    /\ answers' = [answers EXCEPT ![c] = Append(@, writing.answer)]
    /\ unread' = [unread EXCEPT ![c] = @ + 1]
    /\ log' = log \union Entries(c, reads[c], LateAttack(writing.kind))
    /\ attacks_detected_' = attacks_detected_ + Cardinality(LateAttack(writing.kind))
    /\ conn' = [conn EXCEPT ![c] = "reading"]
    /\ writing' = NoWrite
    /\ UNCHANGED <<client, backlog, acceptor_, queue, alive, reads, mqtt_activities_>>

(* mutant: a client that has only stopped sending makes the write throw *)
MutantWriteThrows(c) ==
    /\ alive
    /\ writing.conn = c
    /\ peer[c] # "open"
    /\ alive' = FALSE
    /\ UNCHANGED <<client, server, writing, answers, unread, report>>

WriteThrows(c) ==
    /\ alive
    /\ writing.conn = c
    /\ peer[c] = "reset"
    /\ alive' = FALSE
    /\ UNCHANGED <<client, server, writing, answers, unread, report>>

-----------------------------------------------------------------------------
(* After the end of the process what its clients do is of no interest. *)
Environment(c) ==
    /\ alive
    /\ \/ Connect(c)
       \/ \E p \in Packets : Send(c, p)
       \/ Deliver(c)
       \/ ClientReads(c)
       \/ Leave(c)
       \/ Reset(c)

Thread ==
    \E c \in Conns :
        \/ HandleAccept(c) \/ HandleNoAccept(c)
        \/ HandleRead(c) \/ HandleNoRead(c)
        \/ WriteDone(c) \/ WriteThrows(c)

Next ==
    \/ AcceptCompletes
    \/ \E c \in Conns : Environment(c) \/ ReadCompletes(c) \/ ReadFails(c)
    \/ Thread

Spec == Init /\ [][Next]_vars

(* The io thread runs, accept does not fail for ever and the network       *)
(* delivers.  Clients owe nothing, not even to read their answers.         *)
FairSpec ==
    /\ Spec
    /\ WF_vars(Thread)
    /\ SF_vars(AcceptCompletes /\ backlog' # backlog)
    /\ \A c \in Conns :
          /\ WF_vars(alive /\ Deliver(c))
          /\ WF_vars(ReadCompletes(c))
          /\ WF_vars(ReadFails(c))

-----------------------------------------------------------------------------
Attacks == {"MQTT_MALFORMED_PACKET", "MQTT_ADMIN_TOPIC_ACCESS", "MQTT_WILDCARD_SUBSCRIPTION"}

TypeOK ==
    /\ peer \in [Conns -> {"absent", "open", "gone", "reset"}]
    /\ net \in [Conns -> Seq(Byte)]
    /\ rx \in [Conns -> Seq(Byte)]
    /\ sent \in [Conns -> Seq(Packets)]
    /\ received \in [Conns -> Seq(Seq(Byte))]
    /\ backlog \in Seq(Conns)
    /\ acceptor_ \in {"armed", "queued"}
    /\ conn \in [Conns -> {"none", "backlog", "queued", "reading", "writing", "closed"}]
    /\ queue \in Seq([op : {"accept", "no_accept", "read", "no_read"}, conn : Conns, data : Seq(Byte)])
    /\ writing.conn \in Conns \union {NoConn} /\ writing.kind \in Kinds
    /\ unread \in [Conns -> 0 .. WINDOW]
    /\ alive \in BOOLEAN
    /\ reads \in [Conns -> Nat]
    /\ log \subseteq [conn : Conns, at : Nat, event : Attacks \union Types]
    /\ mqtt_activities_ \in Nat /\ attacks_detected_ \in Nat

(* The counters of the dashboard never differ from the log, not even while *)
(* a write waits or after it has ended the process: mqtt_activities_ is    *)
(* the number of packets reported (a connection is reported, uncounted),   *)
(* attacks_detected_ the number of accusations.                            *)
CountersMatchLog ==
    /\ mqtt_activities_ = Cardinality({e \in log : e.at > 0 /\ e.event \in Types})
    /\ attacks_detected_ = Cardinality({e \in log : e.event \in Attacks})

(* One handler at a time: of all connections at most one is in a handler,  *)
(* the one whose write waits; every other has its handler in the queue     *)
(* once, or a read pending (and the variables have their types).           *)
OneOperation ==
    /\ TypeOK
    /\ \A c \in Conns : conn[c] = "writing" <=> writing.conn = c
    /\ \A c \in Conns :
          Cardinality({i \in DOMAIN queue : queue[i].conn = c /\ queue[i].op # "no_accept"})
              = IF conn[c] = "queued" THEN 1 ELSE 0

(* Every reported CONNECT and SUBSCRIBE has been answered, except the one  *)
(* whose answer is being written, and an accusation of a wildcard follows  *)
(* the answer it belongs to.                                               *)
Count(c, set) == Cardinality({i \in DOMAIN answers[c] : answers[c][i] \in set})

AnswersMatchLog ==
    \A c \in Conns :
        LET reported == {e \in log : e.conn = c /\ e.at > 0 /\ e.event \in {"CONNECT", "SUBSCRIBE"}}
            given    == Count(c, {"CONNACK", "SUBACK", "SUBACK_of_nothing"})
            owed     == IF writing.conn = c /\ writing.answer # "PINGRESP" THEN 1 ELSE 0
        IN  /\ Cardinality(reported) = given + owed
            /\ \A e \in log :
                  (e.conn = c /\ e.event = "MQTT_WILDCARD_SUBSCRIPTION") =>
                      /\ [e EXCEPT !.event = "SUBSCRIBE"] \in reported
                      /\ ~ (writing.conn = c /\ e.at = reads[c])

(* Well-formed packets, as MQTT has them: a PUBLISH and a SUBSCRIBE with a *)
(* remaining length below 128.                                             *)
Publish(name, load) ==
    <<48, 2 + Len(name) + Len(load), 0, Len(name)>> \o name \o load

Subscribe(name) == <<130, 5 + Len(name), 0, 1, 0, Len(name)>> \o name \o <<0>>

(* What the i-th read of c is reported as an attack for. *)
Charges(c, i) == {e.event : e \in {f \in log : f.conn = c /\ f.at = i}} \intersect Attacks

(* Every client is accused of what its own read deserves, of all of it and *)
(* of nothing else, however its packets are cut, merged and mixed with     *)
(* those of others.  When a read begins with a whole well-formed packet,   *)
(* that is: a restricted topic (as the log has it) or a wildcard, once the *)
(* SUBSCRIBE is answered, and never that it is malformed, whatever follows *)
(* the packet in the read.  (One that the network has cut is malformed to  *)
(* the code: its length is compared with that of the read.)  And nobody is *)
(* sent an identifier from beyond the data whose read was not a SUBSCRIBE  *)
(* of less than four bytes.                                                *)
AccusationsBacked ==
    \A c \in Conns :
        /\ \A i \in 1 .. reads[c] :
              LET data    == received[c][i]
                  waiting == writing.conn = c /\ i = reads[c]
              IN  /\ Charges(c, i) = Attack(KindOf(data))
                                       \union (IF waiting THEN {} ELSE LateAttack(KindOf(data)))
                  /\ \A name \in Names :
                        /\ (\E load \in Payloads : IsPrefix(Publish(name, load), data)) =>
                              Charges(c, i) = IF Restricted(sanitize_for_log(name))
                                              THEN {"MQTT_ADMIN_TOPIC_ACCESS"} ELSE {}
                        /\ IsPrefix(Subscribe(name), data) =>
                              Charges(c, i) = IF Wild(sanitize_for_log(name)) /\ ~ waiting
                                              THEN {"MQTT_WILDCARD_SUBSCRIPTION"} ELSE {}
        /\ Count(c, {"SUBACK_of_nothing"}) > 0 =>
              \E i \in 1 .. reads[c] :
                  Len(received[c][i]) < 4 /\ TypeOf(received[c][i]) = "SUBSCRIBE"

(* Every connection is reported and what has arrived on it is read, unless *)
(* the process has ended, in a write to a connection that had been reset - *)
(* a client that leaves in an orderly way never ends it -, or one client   *)
(* holds up all the others for ever by not reading its answers: nothing    *)
(* else can stop the server.                                               *)
Ended == ~ alive /\ writing # NoWrite /\ peer[writing.conn] = "reset"

HeldUp == <>[](alive /\ writing # NoWrite)

EveryConnectionServed ==
    \A c \in Conns :
        HeldUp \/ /\ conn[c] = "backlog" ~> (Ended \/ \E e \in log : e.conn = c /\ e.at = 0)
                  /\ rx[c] # <<>> ~> (Ended \/ rx[c] = <<>>)
=============================================================================
