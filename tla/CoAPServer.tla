----------------------------- MODULE CoAPServer -----------------------------
(***************************************************************************)
(* The CoAP server (server/src/coap_server.cpp): one UDP socket, one       *)
(* receive buffer and one sender address, both members that every receive  *)
(* overwrites.  The handler of a receive reports the datagram, judges it,  *)
(* counts it against its sender's address, starts to send a reply and      *)
(* only then receives again.                                               *)
(*                                                                         *)
(* A datagram that is lost or overtaken on the network is one that was not *)
(* sent or was sent later, so the model begins where datagrams arrive.     *)
(* The reply is tried at once; when the socket's send buffer is full it    *)
(* waits, and is then sent from a string that has been destroyed.          *)
(***************************************************************************)
EXTENDS Integers, FiniteSets, Sequences

CONSTANTS
    Endpoints,      \* the addresses and ports datagrams come from
    Addresses,      \* the addresses alone
    AddressOf,      \* the address of an endpoint
    Lengths,        \* lengths of the datagrams that are sent
    BUFFER_SIZE,    \* of recv_buffer_ (2048 in the code)
    FLOOD_LIMIT,    \* requests of one address before an alarm (100 in the code)
    MaxDatagrams    \* bound: datagrams that arrive

MAX_SAFE_BUFFER == 10 * 1024 * 1024

ASSUME EndpointsAssumption == Endpoints # {} /\ AddressOf \in [Endpoints -> Addresses]
ASSUME LengthsAssumption == Lengths \subseteq Nat
ASSUME BufferAssumption == BUFFER_SIZE \in 1 .. MAX_SAFE_BUFFER
ASSUME BoundsAssumption == FLOOD_LIMIT \in Nat /\ MaxDatagrams \in Nat

VARIABLES
    arrived,            \* history: the datagrams that arrived, in order
    inbox,              \* those of them in the socket's receive buffer
    receive,            \* the asynchronous receive: armed, done, failed (its
                        \* handler waits) or idle
    recv_buffer_,       \* the length of what was received last
    remote_endpoint_,   \* and who sent it
    request_counter,    \* the static map of the handler
    pending,            \* replies that wait for room in the send buffer
    replies,            \* history: the replies that have been sent
    log,                \* the requests reported, each with its accusations
    coap_requests_, attacks_detected_    \* the counters of RestAPI

vars == <<arrived, inbox, receive, recv_buffer_, remote_endpoint_, request_counter,
          pending, replies, log, coap_requests_, attacks_detected_>>

Init ==
    /\ arrived = <<>>
    /\ inbox = <<>>
    /\ receive = "armed"
    /\ recv_buffer_ = 0
    /\ remote_endpoint_ = CHOOSE e \in Endpoints : TRUE     \* 0.0.0.0:0, which nothing reads
    /\ request_counter = [a \in Addresses |-> 0]
    /\ pending = <<>>
    /\ replies = <<>>
    /\ log = <<>>
    /\ coap_requests_ = 0
    /\ attacks_detected_ = 0

-----------------------------------------------------------------------------
Arrive(e, n) ==
    /\ Len(arrived) < MaxDatagrams
    /\ arrived' = Append(arrived, [from |-> e, length |-> n])
    /\ inbox' = Append(inbox, [from |-> e, length |-> n])
    /\ UNCHANGED <<receive, recv_buffer_, remote_endpoint_, request_counter,
                   pending, replies, log, coap_requests_, attacks_detected_>>

(* What of a datagram fits the buffer; the rest is dropped. *)
Received(d) == IF d.length < BUFFER_SIZE THEN d.length ELSE BUFFER_SIZE

(* mutant: received into the buffer of a datagram not yet handled *)
MutantReceiveCompletes ==
    /\ receive \in {"armed", "done"}
    /\ inbox # <<>>
    /\ inbox' = Tail(inbox)
    /\ recv_buffer_' = Received(Head(inbox))
    /\ remote_endpoint_' = Head(inbox).from
    /\ receive' = "done"
    /\ UNCHANGED <<arrived, request_counter, pending, replies, log,
                   coap_requests_, attacks_detected_>>

(* async_receive_from takes the oldest datagram, cut to the buffer, *)
ReceiveCompletes ==
    /\ receive = "armed"
    /\ inbox # <<>>
    /\ inbox' = Tail(inbox)
    /\ recv_buffer_' = Received(Head(inbox))
    /\ remote_endpoint_' = Head(inbox).from
    /\ receive' = "done"
    /\ UNCHANGED <<arrived, request_counter, pending, replies, log,
                   coap_requests_, attacks_detected_>>

(* or fails without taking one. *)
ReceiveFails ==
    /\ receive = "armed"
    /\ receive' = "failed"
    /\ UNCHANGED <<arrived, inbox, recv_buffer_, remote_endpoint_, request_counter,
                   pending, replies, log, coap_requests_, attacks_detected_>>

-----------------------------------------------------------------------------
is_safe_buffer_size(size, max_size) ==
    /\ max_size # 0
    /\ size <= max_size
    /\ size <= MAX_SAFE_BUFFER
    /\ max_size <= MAX_SAFE_BUFFER

(* The resource a request is taken to ask for is drawn at random. *)
resources_ == {"/sensors/temperature", "/actuators/valve", "/config/network",
               "/admin/credentials", "/device/info"}

ResourceAttack(resource) ==
    CASE resource = "/admin/credentials" -> {"ADMIN_ACCESS_ATTEMPT"}
      [] resource = "/config/network"    -> {"CONFIG_ACCESS_ATTEMPT"}
      [] OTHER                           -> {}

SizeAttack(n) ==
    CASE n > 1024          -> {"COAP_BUFFER_OVERFLOW_ATTEMPT"}
      [] n \in 201 .. 1024 -> {"LARGE_COAP_PAYLOAD"}
      [] OTHER             -> {}

(* The counter of an address after one more request, *)
Counted(a) ==
    [request_counter EXCEPT ![a] = IF @ + 1 > FLOOD_LIMIT THEN 0 ELSE @ + 1]

(* mutant: >= for > *)
MutantFloodAttack(a) == IF request_counter[a] + 1 >= FLOOD_LIMIT THEN {"COAP_DDOS_ATTEMPT"} ELSE {}

(* and the alarm it raises. *)
FloodAttack(a) == IF request_counter[a] + 1 > FLOOD_LIMIT THEN {"COAP_DDOS_ATTEMPT"} ELSE {}

(* The request and every accusation is logged and counted. *)
Report(attacks) ==
    /\ log' = Append(log, [from |-> remote_endpoint_, length |-> recv_buffer_, attacks |-> attacks])
    /\ coap_requests_' = coap_requests_ + 1
    /\ attacks_detected_' = attacks_detected_ + Cardinality(attacks)

(* mutant: the newest reply overtakes those that wait *)
MutantSend(reply) ==
    \/ replies' = Append(replies, reply) /\ UNCHANGED pending
    \/ pending' = Append(pending, reply) /\ UNCHANGED replies

(* async_send_to: at once, unless earlier replies wait or there is no room. *)
Send(reply) ==
    \/ pending = <<>> /\ replies' = Append(replies, reply) /\ UNCHANGED pending
    \/ pending' = Append(pending, reply) /\ UNCHANGED replies

(* start_receive zeroes the buffer and receives. *)
start_receive == recv_buffer_' = 0 /\ receive' = "armed"

(* mutant: no further receive after a datagram that is not handled *)
MutantSkip ==
    /\ \/ receive = "failed"
       \/ receive = "done" /\ (recv_buffer_ = 0 \/ ~ is_safe_buffer_size(recv_buffer_, BUFFER_SIZE))
    /\ receive' = "idle"
    /\ UNCHANGED <<arrived, inbox, recv_buffer_, remote_endpoint_, request_counter, pending,
                   replies, log, coap_requests_, attacks_detected_>>

(* The handler after an error, an empty datagram or an unsafe length only  *)
(* receives again.                                                         *)
Skip ==
    /\ \/ receive = "failed"
       \/ receive = "done" /\ (recv_buffer_ = 0 \/ ~ is_safe_buffer_size(recv_buffer_, BUFFER_SIZE))
    /\ start_receive
    /\ UNCHANGED <<arrived, inbox, remote_endpoint_, request_counter, pending,
                   replies, log, coap_requests_, attacks_detected_>>

(* The handler after a datagram. *)
Handle ==
    LET a == AddressOf[remote_endpoint_] IN
    /\ receive = "done"
    /\ recv_buffer_ > 0
    /\ is_safe_buffer_size(recv_buffer_, BUFFER_SIZE)
    /\ \E resource \in resources_ :
          Report(ResourceAttack(resource) \union SizeAttack(recv_buffer_) \union FloodAttack(a))
    /\ request_counter' = Counted(a)
    /\ Send([to |-> remote_endpoint_, length |-> recv_buffer_, intact |-> TRUE])
    /\ start_receive
    /\ UNCHANGED <<arrived, inbox, remote_endpoint_>>

(* The oldest reply that waited goes out, as whatever its bytes are now. *)
SendCompletes ==
    /\ pending # <<>>
    /\ \E intact \in BOOLEAN :
          replies' = Append(replies, [Head(pending) EXCEPT !.intact = intact])
    /\ pending' = Tail(pending)
    /\ UNCHANGED <<arrived, inbox, receive, recv_buffer_, remote_endpoint_,
                   request_counter, log, coap_requests_, attacks_detected_>>

-----------------------------------------------------------------------------
Next ==
    \/ \E e \in Endpoints, n \in Lengths : Arrive(e, n)
    \/ ReceiveCompletes
    \/ ReceiveFails
    \/ Skip
    \/ Handle
    \/ SendCompletes

Spec == Init /\ [][Next]_vars

(* The io thread runs its handlers, and a receive does not fail for ever.  *)
FairSpec ==
    /\ Spec
    /\ SF_vars(ReceiveCompletes)
    /\ WF_vars(Skip)
    /\ WF_vars(Handle)

-----------------------------------------------------------------------------
Attacks == {"ADMIN_ACCESS_ATTEMPT", "CONFIG_ACCESS_ATTEMPT", "COAP_BUFFER_OVERFLOW_ATTEMPT",
            "LARGE_COAP_PAYLOAD", "COAP_DDOS_ATTEMPT"}

Datagrams == [from : Endpoints, length : Nat]
Replies   == [to : Endpoints, length : 1 .. BUFFER_SIZE, intact : BOOLEAN]
Entries   == [from : Endpoints, length : 1 .. BUFFER_SIZE, attacks : SUBSET Attacks]

(* The variables keep their types, and no counter of requests ever exceeds *)
(* the limit.                                                              *)
TypeOK ==
    /\ arrived \in Seq(Datagrams) /\ inbox \in Seq(Datagrams)
    /\ receive \in {"armed", "done", "failed", "idle"}
    /\ recv_buffer_ \in 0 .. BUFFER_SIZE
    /\ remote_endpoint_ \in Endpoints
    /\ request_counter \in [Addresses -> 0 .. FLOOD_LIMIT]
    /\ pending \in Seq(Replies) /\ replies \in Seq(Replies)
    /\ log \in Seq(Entries)
    /\ coap_requests_ \in Nat /\ attacks_detected_ \in Nat

(* How many of the first n elements of a sequence belong to a set. *)
CountUpTo(s, set, n) == Cardinality({i \in 1 .. n : s[i] \in set})

Reported == [i \in DOMAIN log |-> [from |-> log[i].from, length |-> log[i].length]]

InHand ==
    IF receive = "done" /\ recv_buffer_ > 0
    THEN <<[from |-> remote_endpoint_, length |-> recv_buffer_]>> ELSE <<>>

(* A datagram that is handled: it leaves something in the buffer. *)
Handled == {d \in Datagrams : Received(d) > 0}

(* The members recv_buffer_ and remote_endpoint_ are never overwritten     *)
(* before they are read: the n-th datagram to be handled of those taken    *)
(* from the socket is the n-th that was reported or waits in the members,  *)
(* with its own sender and cut to the buffer, and nothing else was; the    *)
(* socket holds the last that arrived, in their order.  Types included.    *)
NothingOverwritten ==
    LET taken == Len(arrived) - Len(inbox)
        got   == Reported \o InHand
    IN  /\ TypeOK
        /\ taken >= 0
        /\ \A i \in DOMAIN inbox : inbox[i] = arrived[taken + i]
        /\ Len(got) = CountUpTo(arrived, Handled, taken)
        /\ \A i \in 1 .. taken :
              arrived[i] \in Handled =>
                  got[CountUpTo(arrived, Handled, i)]
                      = [from |-> arrived[i].from, length |-> Received(arrived[i])]

(* Every reported request is replied to once, in order, at the endpoint it *)
(* came from and with its own length, whether the reply was sent at once   *)
(* or had to wait while further datagrams went through the same members.   *)
RepliesMatchRequests ==
    LET all == replies \o pending IN
    [i \in DOMAIN all |-> [from |-> all[i].to, length |-> all[i].length]] = Reported

(* The alarm for a flood is raised by every (FLOOD_LIMIT + 1)st request of *)
(* an address, whatever its ports and however its requests mix with those  *)
(* of others; the counter holds the rest.                                  *)
Of(a) == {entry \in Entries : AddressOf[entry.from] = a}

FloodAlarmsExact ==
    /\ \A a \in Addresses :
          request_counter[a] = CountUpTo(log, Of(a), Len(log)) % (FLOOD_LIMIT + 1)
    /\ \A i \in DOMAIN log :
          "COAP_DDOS_ATTEMPT" \in log[i].attacks <=>
              CountUpTo(log, Of(AddressOf[log[i].from]), i) % (FLOOD_LIMIT + 1) = 0

(* Every datagram that arrives is taken, however often a receive fails.    *)
EveryDatagramTaken == inbox # <<>> ~> inbox = <<>>
=============================================================================
