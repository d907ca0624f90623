-------------------------- MODULE CoAPServer_proofs --------------------------
(***************************************************************************)
(* Proofs about CoAPServer for any endpoints, addresses, lengths, limit    *)
(* and bound: type correctness, that no datagram is overwritten in the     *)
(* members before its handler reads it, that the replies are those of the  *)
(* requests, and that the alarms for a flood come when they should.        *)
(***************************************************************************)
EXTENDS CoAPServer, SequenceLemmas

USE EndpointsAssumption, LengthsAssumption, BoundsAssumption

-----------------------------------------------------------------------------
(* Types. *)

(* The buffer has a size, which is not 0. *)
LEMMA BufferSize == BUFFER_SIZE \in Nat /\ BUFFER_SIZE # 0 /\ BUFFER_SIZE <= MAX_SAFE_BUFFER
<1>1. MAX_SAFE_BUFFER \in Nat
  BY SMT DEF MAX_SAFE_BUFFER
<1>2. BUFFER_SIZE \in Nat /\ BUFFER_SIZE # 0
  BY <1>1, BufferAssumption
<1>3. BUFFER_SIZE <= MAX_SAFE_BUFFER
  BY <1>1, BufferAssumption
<1> QED
  BY <1>2, <1>3

USE BufferSize

(* What fits the buffer is a length, and no more than the buffer holds;    *)
(* a buffer of the size it has never makes the handler refuse a datagram.  *)
LEMMA BufferLengths ==
  /\ \A d \in Datagrams : Received(d) \in 0 .. BUFFER_SIZE
  /\ \A n \in 0 .. BUFFER_SIZE : is_safe_buffer_size(n, BUFFER_SIZE)
<1>1. MAX_SAFE_BUFFER \in Nat
  BY SMT DEF MAX_SAFE_BUFFER
<1>2. ASSUME NEW d \in Datagrams
      PROVE  Received(d) \in 0 .. BUFFER_SIZE
  <2>1. d.length \in Nat
    BY DEF Datagrams
  <2> QED
    BY <1>1, <2>1 DEF Received
<1>3. \A n \in 0 .. BUFFER_SIZE : is_safe_buffer_size(n, BUFFER_SIZE)
  BY <1>1 DEF is_safe_buffer_size
<1> QED
  BY <1>2, <1>3

(* A request is accused of attacks only, and of finitely many. *)
LEMMA AttacksOfRequest ==
  ASSUME NEW resource \in resources_, NEW n, NEW a
  PROVE  LET attacks == ResourceAttack(resource) \union SizeAttack(n) \union FloodAttack(a)
         IN  /\ attacks \subseteq Attacks
             /\ Cardinality(attacks) \in Nat
             /\ "COAP_DDOS_ATTEMPT" \in attacks <=> request_counter[a] + 1 > FLOOD_LIMIT
<1> DEFINE attacks == ResourceAttack(resource) \union SizeAttack(n) \union FloodAttack(a)
<1>1. ResourceAttack(resource) \subseteq {"ADMIN_ACCESS_ATTEMPT", "CONFIG_ACCESS_ATTEMPT"}
  BY DEF ResourceAttack
<1>2. SizeAttack(n) \subseteq {"COAP_BUFFER_OVERFLOW_ATTEMPT", "LARGE_COAP_PAYLOAD"}
  BY DEF SizeAttack
<1>3. FloodAttack(a) = IF request_counter[a] + 1 > FLOOD_LIMIT THEN {"COAP_DDOS_ATTEMPT"} ELSE {}
  BY DEF FloodAttack
<1>4. attacks \subseteq Attacks
  BY <1>1, <1>2, <1>3 DEF Attacks
<1>5. "COAP_DDOS_ATTEMPT" \in attacks <=> request_counter[a] + 1 > FLOOD_LIMIT
  BY <1>1, <1>2, <1>3
<1> HIDE DEF attacks
<1>6. IsFiniteSet(ResourceAttack(resource)) /\ IsFiniteSet(SizeAttack(n)) /\ IsFiniteSet(FloodAttack(a))
  <2>1. IsFiniteSet({}) /\ \A x : IsFiniteSet({x})
    BY FS_EmptySet, FS_Singleton
  <2> QED
    BY ZenonT(30), <2>1 DEF ResourceAttack, SizeAttack, FloodAttack
<1>7. Cardinality(attacks) \in Nat
  BY <1>6, FS_Union, FS_CardinalityType DEF attacks
<1> QED
  BY <1>4, <1>5, <1>7 DEF attacks

(* The type invariant, by what the actions leave alone together. *)
Receiver ==
    /\ receive \in {"armed", "done", "failed", "idle"}
    /\ recv_buffer_ \in 0 .. BUFFER_SIZE
    /\ remote_endpoint_ \in Endpoints

Sockets == arrived \in Seq(Datagrams) /\ inbox \in Seq(Datagrams)

Outputs == pending \in Seq(Replies) /\ replies \in Seq(Replies)

Reports ==
    /\ request_counter \in [Addresses -> 0 .. FLOOD_LIMIT]
    /\ log \in Seq(Entries)
    /\ coap_requests_ \in Nat /\ attacks_detected_ \in Nat

(* The parts together are the type invariant. *)
LEMMA TypeParts == TypeOK <=> Receiver /\ Sockets /\ Outputs /\ Reports
BY DEF TypeOK, Receiver, Sockets, Outputs, Reports

(* Initially every variable has its type. *)
LEMMA TypeInit == Init => TypeOK
<1> SUFFICES ASSUME Init PROVE TypeOK
  OBVIOUS
<1>1. remote_endpoint_ \in Endpoints
  BY DEF Init
<1>2. \A S : <<>> \in Seq(S)
  OBVIOUS
<1>3. request_counter \in [Addresses -> 0 .. FLOOD_LIMIT] /\ recv_buffer_ \in 0 .. BUFFER_SIZE
  BY DEF Init
<1> QED
  BY <1>1, <1>2, <1>3 DEF Init, TypeOK

(* What the handler of a datagram does, with the pieces named. *)
LEMMA HandleParts ==
  ASSUME TypeOK, Handle
  PROVE  \E entry \in Entries, reply \in Replies :
            /\ entry.from = remote_endpoint_ /\ entry.length = recv_buffer_
            /\ reply.to = remote_endpoint_ /\ reply.length = recv_buffer_
            /\ log' = Append(log, entry)
            /\ \/ pending = <<>> /\ replies' = Append(replies, reply) /\ pending' = pending
               \/ pending' = Append(pending, reply) /\ replies' = replies
            /\ "COAP_DDOS_ATTEMPT" \in entry.attacks
                  <=> request_counter[AddressOf[remote_endpoint_]] + 1 > FLOOD_LIMIT
            /\ coap_requests_' \in Nat /\ attacks_detected_' \in Nat
<1> DEFINE a == AddressOf[remote_endpoint_]
           attacks(resource) == ResourceAttack(resource) \union SizeAttack(recv_buffer_) \union FloodAttack(a)
<1>1. PICK resource \in resources_ : Report(attacks(resource))
  BY DEF Handle
<1>2. /\ attacks(resource) \subseteq Attacks /\ Cardinality(attacks(resource)) \in Nat
      /\ "COAP_DDOS_ATTEMPT" \in attacks(resource) <=> request_counter[a] + 1 > FLOOD_LIMIT
  BY AttacksOfRequest
<1> DEFINE set == attacks(resource)
           entry == [from |-> remote_endpoint_, length |-> recv_buffer_, attacks |-> set]
           reply == [to |-> remote_endpoint_, length |-> recv_buffer_, intact |-> TRUE]
<1>3. /\ log' = Append(log, entry)
      /\ coap_requests_' = coap_requests_ + 1
      /\ attacks_detected_' = attacks_detected_ + Cardinality(set)
  BY <1>1 DEF Report
<1>4. \/ pending = <<>> /\ replies' = Append(replies, reply) /\ pending' = pending
      \/ pending' = Append(pending, reply) /\ replies' = replies
  BY DEF Handle, Send
<1>5. recv_buffer_ \in 1 .. BUFFER_SIZE /\ remote_endpoint_ \in Endpoints
  BY DEF Handle, TypeOK
<1>6. set \in SUBSET Attacks /\ Cardinality(set) \in Nat
  BY <1>2
<1>7. "COAP_DDOS_ATTEMPT" \in set <=> request_counter[a] + 1 > FLOOD_LIMIT
  BY <1>2
<1> HIDE DEF set
<1>8. entry \in Entries /\ entry.from = remote_endpoint_ /\ entry.length = recv_buffer_ /\ entry.attacks = set
  BY <1>5, <1>6 DEF Entries
<1>9. reply \in Replies /\ reply.to = remote_endpoint_ /\ reply.length = recv_buffer_
  BY <1>5 DEF Replies
<1>10. coap_requests_' \in Nat /\ attacks_detected_' \in Nat
  BY <1>3, <1>6 DEF TypeOK
<1> HIDE DEF entry, reply
<1> QED
  BY <1>3, <1>4, <1>7, <1>8, <1>9, <1>10

(* Every step keeps the types. *)
LEMMA TypeStep ==
  ASSUME TypeOK, [Next]_vars
  PROVE  TypeOK'
<1> USE TypeParts
<1> SUFFICES Receiver' /\ Sockets' /\ Outputs' /\ Reports'
  BY DEF TypeOK, Receiver, Sockets, Outputs, Reports
<1>1. ASSUME NEW e \in Endpoints, NEW n \in Lengths, Arrive(e, n)
      PROVE  Receiver' /\ Sockets' /\ Outputs' /\ Reports'
  <2>1. [from |-> e, length |-> n] \in Datagrams
    BY DEF Datagrams
  <2>2. Sockets'
    BY <1>1, <2>1, AppendProperties DEF Arrive, Sockets
  <2> QED
    BY <1>1, <2>2 DEF Arrive, Receiver, Outputs, Reports
<1>2. ASSUME ReceiveCompletes
      PROVE  Receiver' /\ Sockets' /\ Outputs' /\ Reports'
  <2>1. inbox # <<>> /\ inbox' = Tail(inbox) /\ Head(inbox) \in Datagrams /\ Tail(inbox) \in Seq(Datagrams)
    BY <1>2, HeadTailProperties DEF ReceiveCompletes, Sockets
  <2>2. Sockets'
    BY <1>2, <2>1 DEF ReceiveCompletes, Sockets
  <2>3. Received(Head(inbox)) \in 0 .. BUFFER_SIZE /\ Head(inbox).from \in Endpoints
    BY <2>1, BufferLengths DEF Datagrams
  <2>4. Receiver'
    BY <1>2, <2>3 DEF ReceiveCompletes, Receiver
  <2> QED
    BY <1>2, <2>2, <2>4 DEF ReceiveCompletes, Outputs, Reports
<1>3. ASSUME ReceiveFails
      PROVE  Receiver' /\ Sockets' /\ Outputs' /\ Reports'
  BY <1>3 DEF ReceiveFails, Receiver, Sockets, Outputs, Reports
<1>4. ASSUME Skip
      PROVE  Receiver' /\ Sockets' /\ Outputs' /\ Reports'
  BY <1>4 DEF Skip, start_receive, Receiver, Sockets, Outputs, Reports
<1>5. ASSUME Handle
      PROVE  Receiver' /\ Sockets' /\ Outputs' /\ Reports'
  <2>1. PICK entry \in Entries, reply \in Replies :
            /\ log' = Append(log, entry)
            /\ \/ pending = <<>> /\ replies' = Append(replies, reply) /\ pending' = pending
               \/ pending' = Append(pending, reply) /\ replies' = replies
            /\ coap_requests_' \in Nat /\ attacks_detected_' \in Nat
    BY <1>5, HandleParts
  <2>2. Outputs'
    <3>1. pending \in Seq(Replies) /\ replies \in Seq(Replies)
      BY DEF Outputs
    <3>2. Append(replies, reply) \in Seq(Replies) /\ Append(pending, reply) \in Seq(Replies)
      BY <3>1, AppendProperties
    <3> QED
      BY <2>1, <3>1, <3>2 DEF Outputs
  <2>3. request_counter' \in [Addresses -> 0 .. FLOOD_LIMIT]
    <3>1. request_counter \in [Addresses -> 0 .. FLOOD_LIMIT]
      BY DEF Reports
    <3> DEFINE a == AddressOf[remote_endpoint_]
               next == IF request_counter[a] + 1 > FLOOD_LIMIT THEN 0 ELSE request_counter[a] + 1
    <3>2. request_counter' = [request_counter EXCEPT ![a] = next]
      BY <1>5 DEF Handle, Counted
    <3>3. a \in Addresses => next \in 0 .. FLOOD_LIMIT
      BY <3>1
    <3> HIDE DEF next, a
    <3> QED
      BY <3>1, <3>2, <3>3
  <2>4. Reports'
    <3>1. Append(log, entry) \in Seq(Entries)
      BY AppendProperties DEF Reports
    <3> QED
      BY <2>1, <2>3, <3>1 DEF Reports
  <2>5. Receiver' /\ Sockets'
    BY <1>5 DEF Handle, start_receive, Receiver, Sockets
  <2> QED
    BY <2>2, <2>4, <2>5
<1>6. ASSUME SendCompletes
      PROVE  Receiver' /\ Sockets' /\ Outputs' /\ Reports'
  <2>1. PICK intact \in BOOLEAN : replies' = Append(replies, [Head(pending) EXCEPT !.intact = intact])
    BY <1>6 DEF SendCompletes
  <2>2. Head(pending) \in Replies /\ Tail(pending) \in Seq(Replies)
    BY <1>6, HeadTailProperties DEF SendCompletes, Outputs
  <2>3. [Head(pending) EXCEPT !.intact = intact] \in Replies
    BY <2>2 DEF Replies
  <2>4. Outputs'
    BY <1>6, <2>1, <2>2, <2>3, AppendProperties DEF SendCompletes, Outputs
  <2> QED
    BY <1>6, <2>4 DEF SendCompletes, Receiver, Sockets, Reports
<1>7. CASE UNCHANGED vars
  BY <1>7 DEF vars, Receiver, Sockets, Outputs, Reports
<1> QED
  BY <1>1, <1>2, <1>3, <1>4, <1>5, <1>6, <1>7 DEF Next

(* Every variable keeps its type: a request that is reported has left      *)
(* something in the buffer and no more than it holds.                      *)
THEOREM TypeCorrect == Spec => []TypeOK
<1>1. TypeOK /\ [Next]_vars => TypeOK'
  BY TypeStep
<1> QED
  BY TypeInit, <1>1, PTL DEF Spec

-----------------------------------------------------------------------------
(* Alarms for a flood.  FloodAlarmsExact is inductive: the counter after a *)
(* request is the remainder of one more request.                           *)

(* Two divisions of a number have the same remainder. *)
LEMMA SameRemainder ==
  ASSUME NEW M \in Nat \ {0}, NEW q \in Int, NEW p \in Int, NEW r \in 0 .. M - 1, NEW t \in 0 .. M - 1,
         M * q + r = M * p + t
  PROVE  r = t
OBVIOUS

(* Division by a positive number has a quotient and a remainder. *)
LEMMA Division ==
  ASSUME NEW k \in Nat, NEW M \in Nat \ {0}
  PROVE  (k % M) \in 0 .. M - 1 /\ (k \div M) \in Int /\ k = (M * (k \div M)) + (k % M)
OBVIOUS

(* The remainder of the next number. *)
LEMMA NextRemainder ==
  ASSUME NEW n \in Nat, NEW F \in Nat
  PROVE  /\ (n + 1) % (F + 1) = IF (n % (F + 1)) + 1 > F THEN 0 ELSE (n % (F + 1)) + 1
         /\ n % (F + 1) \in 0 .. F
<1> DEFINE M == F + 1
           q == n \div M
           r == n % M
           p == (n + 1) \div M
           t == (n + 1) % M
<1>1. M \in Nat \ {0} /\ n + 1 \in Nat
  OBVIOUS
<1> HIDE DEF M
<1>2. q \in Int /\ r \in 0 .. M - 1 /\ n = (M * q) + r
  BY <1>1, Division
<1>2a. p \in Int /\ t \in 0 .. M - 1 /\ n + 1 = (M * p) + t
  BY <1>1, Division
<1> HIDE DEF q, r, p, t
<1>2b. M \in Nat \ {0} /\ M * q + r + 1 = M * p + t
  BY <1>1, <1>2, <1>2a
<1>3. CASE r + 1 <= M - 1
  <2>1. r + 1 = t
    <3>1. r + 1 \in 0 .. M - 1 /\ M * q + (r + 1) = M * p + t
      BY <1>2, <1>2a, <1>2b, <1>3
    <3> QED
      BY <1>2, <1>2a, <1>2b, <3>1, SameRemainder
  <2> QED
    BY <1>2, <1>2a, <1>2b, <1>3, <2>1 DEF M, r, t
<1>4. CASE r + 1 > M - 1
  <2>1. t = 0
    <3>1. q + 1 \in Int /\ 0 \in 0 .. M - 1 /\ M * (q + 1) + 0 = M * p + t
      BY <1>2, <1>2a, <1>2b, <1>4
    <3> QED
      BY <1>2, <1>2a, <1>2b, <3>1, SameRemainder
  <2> QED
    BY <1>2, <1>2a, <1>2b, <1>4, <2>1 DEF M, r, t
<1> QED
  BY <1>2, <1>2a, <1>2b, <1>3, <1>4

(* Initially no request has been counted. *)
LEMMA FloodInit == Init => FloodAlarmsExact
<1> SUFFICES ASSUME Init PROVE FloodAlarmsExact
  OBVIOUS
<1>1. log = <<>> /\ Len(log) = 0 /\ DOMAIN log = {}
  BY DEF Init
<1>2. \A T : CountUpTo(log, T, Len(log)) = 0
  <2> SUFFICES ASSUME NEW T PROVE CountUpTo(log, T, 0) = 0
    BY <1>1
  <2>1. Cardinality(UpTo(log, T, 0)) = 0
    BY UpToCount
  <2> QED
    BY <2>1 DEF CountUpTo, UpTo
<1>3. 0 % (FLOOD_LIMIT + 1) = 0
  OBVIOUS
<1> QED
  BY <1>1, <1>2, <1>3 DEF Init, FloodAlarmsExact

(* A handled request is the next of its address. *)
LEMMA FloodHandle ==
  ASSUME TypeOK, FloodAlarmsExact, Handle
  PROVE  FloodAlarmsExact'
<1> DEFINE a == AddressOf[remote_endpoint_]
           total(l, b) == CountUpTo(l, Of(b), Len(l))
<1>1. PICK entry \in Entries :
         /\ entry.from = remote_endpoint_
         /\ log' = Append(log, entry)
         /\ "COAP_DDOS_ATTEMPT" \in entry.attacks <=> request_counter[a] + 1 > FLOOD_LIMIT
  BY HandleParts
<1>2. /\ request_counter \in [Addresses -> 0 .. FLOOD_LIMIT]
      /\ request_counter' = [request_counter EXCEPT ![a] = IF @ + 1 > FLOOD_LIMIT THEN 0 ELSE @ + 1]
      /\ a \in Addresses /\ log \in Seq(Entries)
  BY DEF Handle, Counted, TypeOK
<1>3. \A b \in Addresses : entry \in Of(b) <=> b = a
  BY <1>1 DEF Of
<1>4. ASSUME NEW b \in Addresses
      PROVE  request_counter[b] = total(log, b) % (FLOOD_LIMIT + 1) /\ total(log, b) \in Nat
  <2>1. request_counter[b] = total(log, b) % (FLOOD_LIMIT + 1)
    BY DEF FloodAlarmsExact
  <2>2. Len(log) \in Nat
    BY <1>2, LenProperties
  <2>3. \A T : CountUpTo(log, T, Len(log)) \in Nat
    BY <2>2, UpToCount DEF CountUpTo, UpTo
  <2> QED
    BY <2>1, <2>3
<1>5. Len(log') = Len(log) + 1 /\ Len(log) \in Nat
  BY <1>1, <1>2, AppendProperties, LenProperties
<1>6. ASSUME NEW b \in Addresses
      PROVE  total(log', b) = IF b = a THEN total(log, b) + 1 ELSE total(log, b)
  <2>1. ASSUME NEW T
        PROVE  CountUpTo(log', T, Len(log')) = IF entry \in T THEN CountUpTo(log, T, Len(log)) + 1
                                                             ELSE CountUpTo(log, T, Len(log))
    <3>1. CountsOne(HowMany(Append(log, entry), T), entry \in T, HowMany(log, T))
      BY <1>2, UpToLast
    <3>2. CountsOne(HowMany(log', T), entry \in T, HowMany(log, T))
      BY <1>1, <3>1
    <3> QED
      BY <3>2 DEF CountsOne, HowMany, CountUpTo, UpTo
  <2> QED
    BY <1>3, <2>1
<1> HIDE DEF total, a
<1>7. ASSUME NEW b \in Addresses
      PROVE  request_counter'[b] = total(log', b) % (FLOOD_LIMIT + 1)
  <2>1. CASE b = a
    <3>1. request_counter'[b] = IF request_counter[b] + 1 > FLOOD_LIMIT THEN 0 ELSE request_counter[b] + 1
      BY <1>2, <2>1
    <3>2. total(log', b) = total(log, b) + 1
      BY <1>6, <2>1
    <3>3. total(log, b) \in Nat /\ request_counter[b] = total(log, b) % (FLOOD_LIMIT + 1)
      BY <1>4
    <3>4. (total(log, b) + 1) % (FLOOD_LIMIT + 1)
             = IF request_counter[b] + 1 > FLOOD_LIMIT THEN 0 ELSE request_counter[b] + 1
      BY <3>3, NextRemainder
    <3> QED
      BY <3>1, <3>2, <3>4
  <2>2. CASE b # a
    BY <1>2, <1>4, <1>6, <2>2
  <2> QED
    BY <2>1, <2>2
<1>8. ASSUME NEW i \in 1 .. Len(log')
      PROVE  "COAP_DDOS_ATTEMPT" \in log'[i].attacks <=>
                CountUpTo(log', Of(AddressOf[log'[i].from]), i) % (FLOOD_LIMIT + 1) = 0
  <2>1. CASE i = Len(log) + 1
    <3>1. log'[i] = entry
      BY <1>1, <1>2, <2>1, AppendNew
    <3>2. AddressOf[log'[i].from] = a
      BY <1>1, <3>1 DEF a
    <3>3. CountUpTo(log', Of(AddressOf[log'[i].from]), i) = total(log, a) + 1
      BY <1>2, <1>5, <1>6, <2>1, <3>2 DEF total
    <3>4. request_counter[a] + 1 > FLOOD_LIMIT <=> (total(log, a) + 1) % (FLOOD_LIMIT + 1) = 0
      <4> DEFINE n == total(log, a)
      <4>1. n \in Nat /\ request_counter[a] = n % (FLOOD_LIMIT + 1)
        BY <1>2, <1>4
      <4>3. request_counter[a] \in 0 .. FLOOD_LIMIT
        BY <1>2
      <4> HIDE DEF n
      <4>2. (n + 1) % (FLOOD_LIMIT + 1)
               = IF request_counter[a] + 1 > FLOOD_LIMIT THEN 0 ELSE request_counter[a] + 1
        BY <4>1, NextRemainder
      <4> QED
        BY <4>2, <4>3 DEF n
    <3> QED
      BY <1>1, <3>1, <3>3, <3>4 DEF a
  <2>2. CASE i # Len(log) + 1
    <3>1. i \in 1 .. Len(log) /\ i \in 0 .. Len(log)
      BY <1>5, <2>2
    <3>2. log'[i] = log[i]
      BY <1>1, <1>2, <3>1, AppendOld
    <3>3. \A T : CountUpTo(log', T, i) = CountUpTo(log, T, i)
      <4> SUFFICES ASSUME NEW T PROVE CountUpTo(log', T, i) = CountUpTo(log, T, i)
        OBVIOUS
      <4>1. UpTo(Append(log, entry), T, i) = UpTo(log, T, i)
        BY <1>2, <3>1, UpToAppend
      <4> QED
        BY <1>1, <4>1 DEF CountUpTo, UpTo
    <3>4. DOMAIN log = 1 .. Len(log)
      BY <1>2, LenProperties
    <3> QED
      BY <3>1, <3>2, <3>3, <3>4 DEF FloodAlarmsExact
  <2> QED
    BY <2>1, <2>2
<1>9. DOMAIN log' = 1 .. Len(log')
  BY <1>1, <1>2, AppendProperties, LenProperties
<1> QED
  BY <1>7, <1>8, <1>9 DEF FloodAlarmsExact, total

(* No other step reports or counts a request. *)
LEMMA FloodStep ==
  ASSUME TypeOK, FloodAlarmsExact, [Next]_vars
  PROVE  FloodAlarmsExact'
<1>1. ASSUME UNCHANGED <<log, request_counter>>
      PROVE  FloodAlarmsExact'
  BY <1>1 DEF FloodAlarmsExact, CountUpTo
<1>2. ASSUME \/ \E e \in Endpoints, n \in Lengths : Arrive(e, n)
             \/ ReceiveCompletes \/ ReceiveFails \/ Skip \/ SendCompletes \/ UNCHANGED vars
      PROVE  UNCHANGED <<log, request_counter>>
  BY <1>2 DEF Arrive, ReceiveCompletes, ReceiveFails, Skip, SendCompletes, vars
<1> QED
  BY <1>1, <1>2, FloodHandle DEF Next

(* The alarm is raised by every (FLOOD_LIMIT + 1)st request of an address, *)
(* and by no other.                                                        *)
THEOREM AlarmsAreExact == Spec => []FloodAlarmsExact
<1>1. TypeOK /\ FloodAlarmsExact /\ [Next]_vars => FloodAlarmsExact'
  BY FloodStep
<1> QED
  BY TypeCorrect, FloodInit, <1>1, PTL DEF Spec

-----------------------------------------------------------------------------
(* Replies. *)

(* A reply is that of a request. *)
Match(reply, entry) == reply.to = entry.from /\ reply.length = entry.length

(* The inductive invariant: the replies that were sent are those of the    *)
(* first requests, the replies that wait are those of the others, and each *)
(* stands where its request does.                                          *)
ReplyInv ==
    /\ Len(log) = Len(replies) + Len(pending)
    /\ \A i \in 1 .. Len(replies) : Match(replies[i], log[i])
    /\ \A i \in 1 .. Len(pending) : Match(pending[i], log[Len(replies) + i])

(* Initially there are none. *)
LEMMA ReplyInit == Init => ReplyInv
<1>1. Len(<<>>) = 0
  BY EmptySeq
<1> QED
  BY <1>1 DEF Init, ReplyInv

(* The reply to a new request is the last of those sent or of those that   *)
(* wait.                                                                   *)
LEMMA ReplyHandle ==
  ASSUME TypeOK, ReplyInv, Handle
  PROVE  ReplyInv'
<1>1. PICK entry \in Entries, reply \in Replies :
         /\ Match(reply, entry)
         /\ log' = Append(log, entry)
         /\ \/ pending = <<>> /\ replies' = Append(replies, reply) /\ pending' = pending
            \/ pending' = Append(pending, reply) /\ replies' = replies
  <2>1. PICK entry \in Entries, reply \in Replies :
            /\ entry.from = remote_endpoint_ /\ entry.length = recv_buffer_
            /\ reply.to = remote_endpoint_ /\ reply.length = recv_buffer_
            /\ log' = Append(log, entry)
            /\ \/ pending = <<>> /\ replies' = Append(replies, reply) /\ pending' = pending
               \/ pending' = Append(pending, reply) /\ replies' = replies
    BY HandleParts
  <2> WITNESS entry \in Entries, reply \in Replies
  <2>2. Match(reply, entry)
    BY <2>1 DEF Match
  <2> QED
    BY <2>1, <2>2
<1>2. log \in Seq(Entries) /\ replies \in Seq(Replies) /\ pending \in Seq(Replies)
  BY DEF TypeOK
<1>3. /\ Len(replies) \in Nat /\ Len(pending) \in Nat /\ Len(log) \in Nat
      /\ Len(log') = Len(log) + 1 /\ log'[Len(log) + 1] = entry
      /\ \A i \in 1 .. Len(log) : log'[i] = log[i]
  BY <1>1, <1>2, AppendProperties, LenProperties
<1>4. /\ Len(log) = Len(replies) + Len(pending)
      /\ \A i \in 1 .. Len(replies) : Match(replies[i], log[i])
      /\ \A i \in 1 .. Len(pending) : Match(pending[i], log[Len(replies) + i])
  BY DEF ReplyInv
<1>5. /\ \A i \in 1 .. Len(replies) : Match(replies[i], log'[i])
      /\ \A i \in 1 .. Len(pending) : Match(pending[i], log'[Len(replies) + i])
  BY <1>3, <1>4
<1>6. CASE pending = <<>> /\ replies' = Append(replies, reply) /\ pending' = pending
  <2>1. Len(pending) = 0 /\ Len(pending') = 0
    BY <1>6, EmptySeq
  <2>2. /\ Len(replies') = Len(replies) + 1 /\ replies'[Len(replies) + 1] = reply
        /\ \A i \in 1 .. Len(replies) : replies'[i] = replies[i]
    BY <1>2, <1>6, AppendProperties
  <2>3. \A i \in 1 .. Len(replies') : Match(replies'[i], log'[i])
    BY <1>1, <1>3, <1>4, <1>5, <2>1, <2>2
  <2> QED
    BY <1>3, <1>4, <2>1, <2>2, <2>3 DEF ReplyInv
<1>7. CASE pending' = Append(pending, reply) /\ replies' = replies
  <2>1. /\ Len(pending') = Len(pending) + 1 /\ pending'[Len(pending) + 1] = reply
        /\ \A i \in 1 .. Len(pending) : pending'[i] = pending[i]
    BY <1>2, <1>7, AppendProperties
  <2>2. \A i \in 1 .. Len(pending') : Match(pending'[i], log'[Len(replies) + i])
    <3> SUFFICES ASSUME NEW i \in 1 .. Len(pending')
                 PROVE  Match(pending'[i], log'[Len(replies) + i])
      OBVIOUS
    <3>1. CASE i \in 1 .. Len(pending)
      BY <1>5, <2>1, <3>1
    <3>2. CASE i = Len(pending) + 1
      <4>1. Len(replies) + i = Len(log) + 1
        BY <1>3, <1>4, <3>2
      <4> QED
        BY <1>1, <1>3, <2>1, <3>2, <4>1
    <3> QED
      BY <1>3, <2>1, <3>1, <3>2
  <2> QED
    BY <1>3, <1>4, <1>5, <1>7, <2>1, <2>2 DEF ReplyInv
<1> QED
  BY <1>1, <1>6, <1>7

(* The oldest reply that waited becomes the last of those sent. *)
LEMMA ReplySend ==
  ASSUME TypeOK, ReplyInv, SendCompletes
  PROVE  ReplyInv'
<1> DEFINE n == Len(replies)
<1>1. PICK intact \in BOOLEAN : replies' = Append(replies, [Head(pending) EXCEPT !.intact = intact])
  BY DEF SendCompletes
<1> DEFINE reply == [Head(pending) EXCEPT !.intact = intact]
<1>2. /\ log' = log /\ replies \in Seq(Replies) /\ pending \in Seq(Replies)
      /\ pending # <<>> /\ pending' = Tail(pending)
  BY DEF SendCompletes, TypeOK
<1>3. /\ Head(pending) \in Replies /\ 1 \in 1 .. Len(pending) /\ Head(pending) = pending[1]
      /\ Len(pending') = Len(pending) - 1 /\ Len(pending) \in Nat
      /\ \A i \in 1 .. Len(pending') : i + 1 \in 1 .. Len(pending) /\ pending'[i] = pending[i + 1]
  <2>1. Head(pending) \in Replies /\ 1 \in 1 .. Len(pending) /\ Head(pending) = pending[1]
    BY <1>2, TailHead
  <2>2. Len(pending') = Len(pending) - 1 /\ Len(pending) \in Nat
    BY <1>2, HeadTailProperties, LenProperties
  <2>3. \A i \in 1 .. Len(pending') : i + 1 \in 1 .. Len(pending) /\ pending'[i] = pending[i + 1]
    BY <1>2, TailNew
  <2> QED
    BY <2>1, <2>2, <2>3
<1>4. reply \in Replies /\ reply.to = Head(pending).to /\ reply.length = Head(pending).length
  BY <1>3 DEF Replies
<1>5. replies' = Append(replies, reply)
  BY <1>1
<1> HIDE DEF reply
<1>6. /\ n \in Nat /\ Len(replies') = n + 1 /\ replies'[n + 1] = reply
      /\ \A i \in 1 .. n : replies'[i] = replies[i]
  BY <1>2, <1>4, <1>5, AppendProperties, LenProperties
<1>7. /\ Len(log) = n + Len(pending)
      /\ \A i \in 1 .. n : Match(replies[i], log[i])
      /\ \A i \in 1 .. Len(pending) : Match(pending[i], log[n + i])
  BY DEF ReplyInv
<1> HIDE DEF n
<1>8. Match(reply, log[n + 1])
  <2>1. Match(Head(pending), log[n + 1])
    BY <1>3, <1>7
  <2> QED
    BY <1>4, <2>1 DEF Match
<1>9. \A i \in 1 .. Len(replies') : Match(replies'[i], log'[i])
  BY <1>2, <1>6, <1>7, <1>8
<1>10. \A i \in 1 .. Len(pending') : Match(pending'[i], log'[Len(replies') + i])
  <2> SUFFICES ASSUME NEW i \in 1 .. Len(pending')
               PROVE  Match(pending'[i], log'[Len(replies') + i])
    OBVIOUS
  <2>1. Match(pending[i + 1], log[n + (i + 1)])
    BY <1>3, <1>7
  <2>2. n + (i + 1) = Len(replies') + i
    BY <1>6
  <2> QED
    BY <1>2, <1>3, <2>1, <2>2
<1>11. Len(log') = Len(replies') + Len(pending')
  BY <1>2, <1>3, <1>6, <1>7
<1> QED
  BY <1>9, <1>10, <1>11 DEF ReplyInv

(* No other step reports or replies. *)
LEMMA ReplyStep ==
  ASSUME TypeOK, ReplyInv, [Next]_vars
  PROVE  ReplyInv'
<1>1. ASSUME UNCHANGED <<log, replies, pending>>
      PROVE  ReplyInv'
  BY <1>1 DEF ReplyInv
<1>2. ASSUME \/ \E e \in Endpoints, n \in Lengths : Arrive(e, n)
             \/ ReceiveCompletes \/ ReceiveFails \/ Skip \/ UNCHANGED vars
      PROVE  UNCHANGED <<log, replies, pending>>
  BY <1>2 DEF Arrive, ReceiveCompletes, ReceiveFails, Skip, vars
<1> QED
  BY <1>1, <1>2, ReplyHandle, ReplySend DEF Next

(* The invariant is the property, said of the two queues separately. *)
LEMMA ReplyMeaning ==
  ASSUME TypeOK, ReplyInv
  PROVE  RepliesMatchRequests
<1> DEFINE all == replies \o pending
           sent == [i \in DOMAIN all |-> [from |-> all[i].to, length |-> all[i].length]]
<1>1. log \in Seq(Entries) /\ replies \in Seq(Replies) /\ pending \in Seq(Replies)
  BY DEF TypeOK
<1>2. /\ all \in Seq(Replies) /\ Len(all) = Len(log)
      /\ DOMAIN all = 1 .. Len(log) /\ DOMAIN log = 1 .. Len(log)
  BY <1>1, ConcatProperties, LenProperties DEF ReplyInv
<1>3. ASSUME NEW i \in 1 .. Len(log)
      PROVE  Match(all[i], log[i])
  <2>1. i \in 1 .. Len(all)
    BY <1>2
  <2>2. CASE i \in 1 .. Len(replies) /\ all[i] = replies[i]
    BY <2>2 DEF ReplyInv
  <2>3. CASE i - Len(replies) \in 1 .. Len(pending) /\ all[i] = pending[i - Len(replies)]
    <3>1. Len(replies) + (i - Len(replies)) = i
      BY <1>1, LenProperties
    <3> QED
      BY <2>3, <3>1 DEF ReplyInv
  <2> QED
    BY <1>1, <2>1, <2>2, <2>3, ConcatElements
<1> HIDE DEF all
<1>4. sent = Reported
  BY <1>2, <1>3 DEF Reported, Match
<1> QED
  BY <1>4 DEF RepliesMatchRequests, all

(* Every reported request is replied to once, in order, at the endpoint it *)
(* came from and with its own length.                                      *)
THEOREM RepliesFollowRequests == Spec => []RepliesMatchRequests
<1>1. TypeOK /\ ReplyInv /\ [Next]_vars => ReplyInv'
  BY ReplyStep
<1>2. TypeOK /\ ReplyInv => RepliesMatchRequests
  BY ReplyMeaning
<1> QED
  BY TypeCorrect, ReplyInit, <1>1, <1>2, PTL DEF Spec

-----------------------------------------------------------------------------
(* Nothing is overwritten.  The property is inductive, with what was       *)
(* reported and what waits in the members taken together: only a receive   *)
(* that completes changes that sequence, and then nothing waits.           *)

Item(d) == [from |-> d.from, length |-> Received(d)]

Items == [from : Endpoints, length : 1 .. BUFFER_SIZE]

Got == Reported \o InHand

Rank(arr, i) == CountUpTo(arr, Handled, i)

(* The socket holds the last of the datagrams that arrived, *)
InOrder(arr, in) ==
    /\ Len(arr) - Len(in) >= 0
    /\ \A i \in DOMAIN in : in[i] = arr[(Len(arr) - Len(in)) + i]

(* and the others that are handled are the elements of got. *)
Accounts(arr, n, got) ==
    /\ Len(got) = Rank(arr, n)
    /\ \A i \in 1 .. n : arr[i] \in Handled => got[Rank(arr, i)] = Item(arr[i])

(* Together this is the property. *)
LEMMA OrderParts ==
  NothingOverwritten <=> /\ TypeOK
                         /\ InOrder(arrived, inbox)
                         /\ Accounts(arrived, Len(arrived) - Len(inbox), Got)
BY DEF NothingOverwritten, InOrder, Accounts, Got, Rank, Item

(* So it is after a step. *)
LEMMA OrderPrimed ==
  ASSUME TypeOK', InOrder(arrived', inbox'), Accounts(arrived', Len(arrived') - Len(inbox'), Got')
  PROVE  NothingOverwritten'
BY DEF NothingOverwritten, InOrder, Accounts, Got, Rank, Item, CountUpTo

(* A count grows by one at each element that is counted, *)
LEMMA NextRank ==
  ASSUME NEW arr, NEW n \in Nat, NEW m, m = n + 1
  PROVE  CountsOne(Rank(arr, m), arr[m] \in Handled, Rank(arr, n))
<1>1. CountsOne(Cardinality(UpTo(arr, Handled, m)), arr[m] \in Handled, Cardinality(UpTo(arr, Handled, n)))
  BY UpToNext
<1> QED
  BY <1>1 DEF Rank, CountUpTo, UpTo

(* and is a number, between 1 and the last at an element that is counted.  *)
LEMMA Ranks ==
  ASSUME NEW arr, NEW n \in Nat
  PROVE  /\ Rank(arr, n) \in Nat
         /\ Rank(arr, 0) = 0
         /\ \A i \in 1 .. n : arr[i] \in Handled => Rank(arr, i) \in 1 .. Rank(arr, n)
<1>1. \A i : Rank(arr, i) = Cardinality(UpTo(arr, Handled, i))
  BY DEF Rank, CountUpTo, UpTo
<1>2. Rank(arr, n) \in Nat /\ Rank(arr, 0) = 0
  BY <1>1, UpToCount
<1>3. ASSUME NEW i \in 1 .. n, arr[i] \in Handled
      PROVE  Rank(arr, i) \in 1 .. Rank(arr, n)
  <2> DEFINE k == i - 1
  <2>1. k \in Nat /\ i \in Nat /\ i = k + 1 /\ i <= n
    OBVIOUS
  <2> HIDE DEF k
  <2>2. Rank(arr, i) = Rank(arr, k) + 1
    BY <1>3, <2>1, NextRank DEF CountsOne
  <2>3. Cardinality(UpTo(arr, Handled, k)) \in Nat
    BY <2>1, UpToCount
  <2>4. Cardinality(UpTo(arr, Handled, i)) <= Cardinality(UpTo(arr, Handled, n))
    BY <2>1, UpToGrows
  <2> QED
    BY <1>1, <1>2, <2>2, <2>3, <2>4
<1> QED
  BY <1>2, <1>3

(* What arrives does not change the account of what was taken. *)
LEMMA AccountsArrive ==
  ASSUME NEW arr \in Seq(Datagrams), NEW d \in Datagrams, NEW n \in 0 .. Len(arr), NEW got,
         Accounts(arr, n, got)
  PROVE  Accounts(Append(arr, d), n, got)
<1>1. Len(arr) \in Nat /\ \A i \in 1 .. Len(arr) : Append(arr, d)[i] = arr[i]
  BY AppendProperties, LenProperties
<1>2. ASSUME NEW i \in 0 .. Len(arr)
      PROVE  Rank(Append(arr, d), i) = Rank(arr, i)
  <2>1. UpTo(Append(arr, d), Handled, i) = UpTo(arr, Handled, i)
    BY UpToAppend
  <2> QED
    BY <2>1 DEF Rank, CountUpTo, UpTo
<1>3. \A i \in 1 .. n : i \in 1 .. Len(arr) /\ i \in 0 .. Len(arr)
  BY <1>1
<1> QED
  BY <1>1, <1>2, <1>3 DEF Accounts

(* The next datagram that is handled is the next element, *)
LEMMA AccountsHandled ==
  ASSUME NEW arr, NEW n \in Nat, NEW m, m = n + 1, NEW got \in Seq(Items),
         Accounts(arr, n, got), arr[m] \in Handled, Item(arr[m]) \in Items
  PROVE  Accounts(arr, m, Append(got, Item(arr[m])))
<1> DEFINE more == Append(got, Item(arr[m]))
           size == Len(got)
<1>1. /\ size \in Nat /\ Len(more) = size + 1 /\ more[size + 1] = Item(arr[m])
      /\ \A i \in 1 .. size : more[i] = got[i]
  BY AppendProperties, LenProperties
<1>2. size = Rank(arr, n)
  BY DEF Accounts
<1> HIDE DEF more, size
<1>3. Rank(arr, m) = Rank(arr, n) + 1
  BY NextRank DEF CountsOne
<1>4. ASSUME NEW i \in 1 .. n, arr[i] \in Handled
      PROVE  more[Rank(arr, i)] = Item(arr[i])
  <2>1. Rank(arr, i) \in 1 .. size
    BY <1>2, <1>4, Ranks
  <2>2. got[Rank(arr, i)] = Item(arr[i])
    BY <1>4 DEF Accounts
  <2> QED
    BY <1>1, <2>1, <2>2
<1>5. \A i \in 1 .. m : i \in 1 .. n \/ i = m
  OBVIOUS
<1>6. more[Rank(arr, m)] = Item(arr[m]) /\ Len(more) = Rank(arr, m)
  BY <1>1, <1>2, <1>3
<1> QED
  BY <1>4, <1>5, <1>6 DEF Accounts, more

(* and one that is not handled adds none. *)
LEMMA AccountsSkipped ==
  ASSUME NEW arr, NEW n \in Nat, NEW m, m = n + 1, NEW got,
         Accounts(arr, n, got), arr[m] \notin Handled
  PROVE  Accounts(arr, m, got)
<1>1. Rank(arr, m) = Rank(arr, n)
  BY NextRank DEF CountsOne
<1>2. \A i \in 1 .. m : i \in 1 .. n \/ i = m
  OBVIOUS
<1> QED
  BY <1>1, <1>2 DEF Accounts

(* What was reported and what waits are sequences of items, *)
LEMMA GotType ==
  TypeOK => /\ Reported \in Seq(Items) /\ Len(Reported) = Len(log)
            /\ InHand \in Seq(Items)
            /\ Got \in Seq(Items)
<1> SUFFICES ASSUME TypeOK
             PROVE  /\ Reported \in Seq(Items) /\ Len(Reported) = Len(log)
                    /\ InHand \in Seq(Items)
                    /\ Got \in Seq(Items)
  OBVIOUS
<1>1. log \in Seq(Entries) /\ Len(log) \in Nat /\ DOMAIN log = 1 .. Len(log)
  BY LenProperties DEF TypeOK
<1>2. \A i \in 1 .. Len(log) : [from |-> log[i].from, length |-> log[i].length] \in Items
  <2> SUFFICES ASSUME NEW i \in 1 .. Len(log)
               PROVE  [from |-> log[i].from, length |-> log[i].length] \in Items
    OBVIOUS
  <2>1. log[i] \in Entries
    BY <1>1, ElementOfSeq
  <2> QED
    BY <2>1 DEF Entries, Items
<1>3. Reported \in [1 .. Len(log) -> Items]
  BY <1>1, <1>2 DEF Reported
<1>4. Reported \in Seq(Items) /\ Len(Reported) = Len(log)
  BY <1>1, <1>3, FunctionIsSeq
<1>5. InHand \in Seq(Items)
  <2>1. CASE receive = "done" /\ recv_buffer_ > 0
    <3>1. [from |-> remote_endpoint_, length |-> recv_buffer_] \in Items
      BY <2>1 DEF TypeOK, Items
    <3> QED
      BY <2>1, <3>1 DEF InHand
  <2>2. CASE ~ (receive = "done" /\ recv_buffer_ > 0)
    BY <2>2 DEF InHand
  <2> QED
    BY <2>1, <2>2
<1> QED
  BY <1>4, <1>5, ConcatProperties DEF Got

(* and a report moves what waits to what was reported. *)
LEMMA GotHandle ==
  ASSUME TypeOK, TypeOK', Handle
  PROVE  Got' = Got
<1> DEFINE item == [from |-> remote_endpoint_, length |-> recv_buffer_]
<1>1. PICK entry \in Entries :
         entry.from = remote_endpoint_ /\ entry.length = recv_buffer_ /\ log' = Append(log, entry)
  BY HandleParts
<1>2. InHand = <<item>> /\ InHand' = <<>>
  BY DEF Handle, start_receive, InHand
<1>3. item \in Items
  BY DEF Handle, TypeOK, Items
<1>4. /\ log \in Seq(Entries) /\ Len(log) \in Nat /\ Len(log') = Len(log) + 1
      /\ log'[Len(log) + 1] = entry /\ \A i \in 1 .. Len(log) : log'[i] = log[i]
      /\ DOMAIN log = 1 .. Len(log) /\ DOMAIN log' = 1 .. Len(log')
  BY <1>1, AppendProperties, LenProperties DEF TypeOK
<1>5. Reported \in Seq(Items) /\ Len(Reported) = Len(log)
  BY GotType
<1>6. Reported' \in Seq(Items) /\ Len(Reported') = Len(log')
  <2>1. ASSUME NEW i \in 1 .. Len(log')
        PROVE  [from |-> log'[i].from, length |-> log'[i].length] \in Items
    <3>1. log'[i] \in Entries
      BY ElementOfSeq DEF TypeOK
    <3> QED
      BY <3>1 DEF Entries, Items
  <2>2. Reported' \in [1 .. Len(log') -> Items]
    BY <1>4, <2>1 DEF Reported
  <2>3. Len(log') \in Nat
    BY <1>4
  <2> QED
    BY <2>2, <2>3, FunctionIsSeq
<1>7. Reported' = Reported \o <<item>>
  <2> DEFINE both == Reported \o <<item>>
  <2>1. <<item>> \in Seq(Items) /\ Len(<<item>>) = 1 /\ <<item>>[1] = item
    BY <1>3
  <2> HIDE DEF item
  <2>2. /\ both \in Seq(Items) /\ Len(both) = Len(log) + 1 /\ both[Len(log) + 1] = item
        /\ \A i \in 1 .. Len(log) : both[i] = Reported[i]
    BY <1>4, <1>5, <2>1, ConcatProperties
  <2> HIDE DEF both
  <2>3. \A i \in 1 .. Len(log) : Reported'[i] = Reported[i]
    BY <1>4 DEF Reported
  <2>4. Reported'[Len(log) + 1] = item
    BY <1>1, <1>4 DEF Reported, item
  <2>5. \A i \in 1 .. Len(Reported') : Reported'[i] = both[i]
    BY SMTT(30), <1>4, <1>6, <2>2, <2>3, <2>4
  <2>6. Len(Reported') = Len(both)
    BY <1>4, <1>6, <2>2
  <2> QED
    BY <1>6, <2>2, <2>5, <2>6, SeqEqual DEF both
<1>8. Reported' \o <<>> = Reported'
  BY <1>6, ConcatEmptySeq
<1> QED
  BY <1>2, <1>7, <1>8 DEF Got

(* Without a report what was reported is the same. *)
LEMMA GotSame ==
  ASSUME UNCHANGED log, InHand' = InHand
  PROVE  Got' = Got
BY DEF Got, Reported

(* Where nothing waits, only what was reported counts. *)
LEMMA GotEmptyHand ==
  ASSUME TypeOK, InHand = <<>>
  PROVE  Got = Reported
BY GotType, ConcatEmptySeq DEF Got

(* Initially nothing has arrived. *)
LEMMA OrderInit == Init => NothingOverwritten
<1> SUFFICES ASSUME Init PROVE NothingOverwritten
  OBVIOUS
<1>1. TypeOK
  BY TypeInit
<1>2. arrived = <<>> /\ inbox = <<>> /\ Len(arrived) = 0 /\ Len(inbox) = 0
  BY DEF Init
<1>3. InOrder(arrived, inbox)
  BY <1>2 DEF InOrder
<1>4. Got = Reported /\ Len(Reported) = 0
  <2>1. InHand = <<>> /\ Len(log) = 0
    BY DEF Init, InHand
  <2> QED
    BY <1>1, <2>1, GotType, GotEmptyHand
<1>5. Rank(arrived, 0) = 0
  BY Ranks
<1>6. Accounts(arrived, Len(arrived) - Len(inbox), Got)
  BY <1>2, <1>4, <1>5 DEF Accounts
<1> QED
  BY <1>1, <1>3, <1>6, OrderParts

(* What arrives goes to the end of the socket's buffer. *)
LEMMA OrderArrive ==
  ASSUME NothingOverwritten, TypeOK', NEW e \in Endpoints, NEW n \in Lengths, Arrive(e, n)
  PROVE  NothingOverwritten'
<1> DEFINE d == [from |-> e, length |-> n]
           taken == Len(arrived) - Len(inbox)
<1>1. TypeOK /\ InOrder(arrived, inbox) /\ Accounts(arrived, taken, Got)
  BY OrderParts
<1>2. d \in Datagrams
  BY DEF Datagrams
<1>3. arrived \in Seq(Datagrams) /\ inbox \in Seq(Datagrams)
  BY <1>1 DEF TypeOK
<1>4. arrived' = Append(arrived, d) /\ inbox' = Append(inbox, d) /\ Got' = Got
  <2>1. arrived' = Append(arrived, d) /\ inbox' = Append(inbox, d)
    BY DEF Arrive
  <2>2. UNCHANGED log /\ InHand' = InHand
    BY DEF Arrive, InHand
  <2> QED
    BY <2>1, <2>2, GotSame
<1> HIDE DEF d
<1>5. /\ Len(arrived) \in Nat /\ Len(inbox) \in Nat
      /\ Len(arrived') = Len(arrived) + 1 /\ arrived'[Len(arrived) + 1] = d
      /\ Len(inbox') = Len(inbox) + 1 /\ inbox'[Len(inbox) + 1] = d
      /\ DOMAIN inbox = 1 .. Len(inbox) /\ DOMAIN inbox' = 1 .. Len(inbox')
  <2>1. arrived' \in Seq(Datagrams) /\ inbox' \in Seq(Datagrams)
    BY DEF TypeOK
  <2> QED
    BY <1>2, <1>3, <1>4, <2>1, AppendProperties, LenProperties
<1>6. /\ \A i \in 1 .. Len(arrived) : arrived'[i] = arrived[i]
      /\ \A i \in 1 .. Len(inbox) : inbox'[i] = inbox[i]
  BY <1>2, <1>3, <1>4, AppendProperties
<1>7. taken >= 0 /\ taken \in 0 .. Len(arrived) /\ Len(arrived') - Len(inbox') = taken
  BY <1>1, <1>5 DEF InOrder
<1>8. \A i \in 1 .. Len(inbox) : inbox[i] = arrived[taken + i]
  BY <1>1, <1>5 DEF InOrder
<1>9. ASSUME NEW i \in 1 .. Len(inbox')
      PROVE  inbox'[i] = arrived'[taken + i]
  <2>1. CASE i = Len(inbox) + 1
    <3>1. taken + i = Len(arrived) + 1
      BY <1>5, <2>1
    <3> QED
      BY <1>5, <2>1, <3>1
  <2>2. CASE i \in 1 .. Len(inbox)
    <3>1. taken + i \in 1 .. Len(arrived)
      BY <1>5, <1>7, <2>2
    <3> QED
      BY <1>6, <1>8, <2>2, <3>1
  <2> QED
    BY <1>5, <2>1, <2>2
<1>10. Accounts(arrived', taken, Got')
  <2>1. Accounts(arrived, taken, Got) /\ taken \in 0 .. Len(arrived)
    BY <1>1, <1>7
  <2> HIDE DEF taken
  <2>2. Accounts(Append(arrived, d), taken, Got)
    BY <1>2, <1>3, <2>1, AccountsArrive
  <2> QED
    BY <1>4, <2>2
<1>11. InOrder(arrived', inbox')
  BY <1>5, <1>7, <1>9 DEF InOrder
<1>12. Accounts(arrived', Len(arrived') - Len(inbox'), Got')
  BY <1>7, <1>10
<1> QED
  BY <1>11, <1>12, OrderPrimed

(* What completes a receive is the next datagram, and nothing waited. *)
LEMMA OrderReceive ==
  ASSUME NothingOverwritten, TypeOK', ReceiveCompletes
  PROVE  NothingOverwritten'
<1> DEFINE d == Head(inbox)
           taken == Len(arrived) - Len(inbox)
           next == taken + 1
<1>1. TypeOK /\ InOrder(arrived, inbox) /\ Accounts(arrived, taken, Got)
  BY OrderParts
<1>2. /\ arrived \in Seq(Datagrams) /\ inbox \in Seq(Datagrams) /\ inbox # <<>>
      /\ arrived' = arrived /\ inbox' = Tail(inbox)
  BY <1>1 DEF TypeOK, ReceiveCompletes
<1>3. /\ Len(arrived) \in Nat /\ Len(inbox) \in Nat /\ Len(inbox') = Len(inbox) - 1
      /\ DOMAIN inbox = 1 .. Len(inbox) /\ DOMAIN inbox' = 1 .. Len(inbox')
      /\ 1 \in 1 .. Len(inbox) /\ d = inbox[1] /\ d \in Datagrams
  <2>1. inbox' \in Seq(Datagrams)
    BY DEF TypeOK
  <2>2. 1 \in 1 .. Len(inbox) /\ d = inbox[1] /\ d \in Datagrams
    BY <1>2, TailHead
  <2>3. Len(inbox') = Len(inbox) - 1
    BY <1>2, HeadTailProperties
  <2> QED
    BY <1>2, <2>1, <2>2, <2>3, LenProperties
<1>4. \A i \in 1 .. Len(inbox') : i + 1 \in 1 .. Len(inbox) /\ inbox'[i] = inbox[i + 1]
  BY <1>2, TailNew
<1>5. \A i \in 1 .. Len(inbox) : inbox[i] = arrived[taken + i]
  BY <1>1, <1>3 DEF InOrder
<1>6. /\ taken \in Nat /\ Len(arrived') - Len(inbox') = next /\ next >= 0
      /\ arrived[next] = d
  BY <1>1, <1>2, <1>3, <1>5 DEF InOrder
<1>7. \A i \in 1 .. Len(inbox') : inbox'[i] = arrived'[next + i]
  <2> SUFFICES ASSUME NEW i \in 1 .. Len(inbox')
               PROVE  inbox'[i] = arrived'[next + i]
    OBVIOUS
  <2>1. next + i = taken + (i + 1)
    BY <1>6
  <2> QED
    BY <1>2, <1>4, <1>5, <2>1
<1>8. InOrder(arrived', inbox')
  BY <1>3, <1>6, <1>7 DEF InOrder
<1>9. Got = Reported /\ Reported \in Seq(Items) /\ Reported' = Reported
  <2>1. InHand = <<>>
    BY DEF ReceiveCompletes, InHand
  <2>2. log' = log
    BY DEF ReceiveCompletes
  <2> QED
    BY <1>1, <2>1, <2>2, GotType, GotEmptyHand DEF Reported
<1>10. Received(d) \in 0 .. BUFFER_SIZE /\ d.from \in Endpoints
  BY <1>3, BufferLengths DEF Datagrams
<1>11. recv_buffer_' = Received(d) /\ remote_endpoint_' = d.from /\ receive' = "done"
  BY DEF ReceiveCompletes
<1> HIDE DEF d, taken
<1>12. CASE d \in Handled
  <2>1. Received(d) > 0
    BY <1>12 DEF Handled
  <2>2. Item(d) \in Items
    BY <1>10, <2>1 DEF Item, Items
  <2>3. InHand' = <<Item(d)>>
    BY <1>11, <2>1 DEF InHand, Item
  <2>4. Append(Reported, Item(d)) = Reported \o <<Item(d)>>
    BY <1>9, <2>2, AppendIsConcat
  <2>5. Got' = Append(Reported, Item(d))
    BY <1>9, <2>3, <2>4 DEF Got
  <2>6. Accounts(arrived, next, Append(Reported, Item(d)))
    <3>1. taken \in Nat /\ Accounts(arrived, taken, Reported)
      BY <1>1, <1>6, <1>9
    <3>2. next = taken + 1 /\ arrived[next] = d
      BY <1>6
    <3> HIDE DEF next
    <3>3. Accounts(arrived, next, Append(Reported, Item(arrived[next])))
      BY <1>9, <1>12, <2>2, <3>1, <3>2, AccountsHandled
    <3> QED
      BY <3>2, <3>3
  <2> QED
    BY <1>2, <1>6, <1>8, <2>5, <2>6, OrderPrimed
<1>13. CASE d \notin Handled
  <2>1. ~ (Received(d) > 0)
    BY <1>3, <1>13 DEF Handled
  <2>2. InHand' = <<>>
    BY <1>11, <2>1 DEF InHand
  <2>3. Got' = Reported
    BY <1>9, <2>2, ConcatEmptySeq DEF Got
  <2>4. Accounts(arrived, next, Reported)
    <3>1. taken \in Nat /\ Accounts(arrived, taken, Reported)
      BY <1>1, <1>6, <1>9
    <3>2. next = taken + 1 /\ arrived[next] = d
      BY <1>6
    <3> HIDE DEF next
    <3> QED
      BY <1>13, <3>1, <3>2, AccountsSkipped
  <2> QED
    BY <1>2, <1>6, <1>8, <2>3, <2>4, OrderPrimed
<1> QED
  BY <1>12, <1>13

(* Every step keeps the property. *)
LEMMA OrderStep ==
  ASSUME NothingOverwritten, TypeOK', [Next]_vars
  PROVE  NothingOverwritten'
<1>1. TypeOK /\ InOrder(arrived, inbox) /\ Accounts(arrived, Len(arrived) - Len(inbox), Got)
  BY OrderParts
<1>2. ASSUME UNCHANGED <<arrived, inbox>>, Got' = Got
      PROVE  NothingOverwritten'
  BY <1>1, <1>2, OrderPrimed
<1>3. ASSUME \/ ReceiveFails \/ Skip \/ SendCompletes \/ UNCHANGED vars
      PROVE  UNCHANGED <<arrived, inbox>> /\ Got' = Got
  <2>1. UNCHANGED <<arrived, inbox, log>>
    BY <1>3 DEF ReceiveFails, Skip, SendCompletes, vars
  <2>2. InHand' = InHand
    <3>1. CASE ReceiveFails
      BY <3>1 DEF ReceiveFails, InHand
    <3>2. CASE Skip
      <4>1. recv_buffer_ \in 0 .. BUFFER_SIZE
        BY <1>1 DEF TypeOK
      <4>2. is_safe_buffer_size(recv_buffer_, BUFFER_SIZE)
        BY <4>1, BufferLengths
      <4>3. receive = "failed" \/ recv_buffer_ = 0
        BY <3>2, <4>2 DEF Skip
      <4>4. InHand = <<>>
        BY <4>3 DEF InHand
      <4>5. InHand' = <<>>
        BY <3>2 DEF Skip, start_receive, InHand
      <4> QED
        BY <4>4, <4>5
    <3>3. CASE SendCompletes \/ UNCHANGED vars
      BY <3>3 DEF SendCompletes, vars, InHand
    <3> QED
      BY <1>3, <3>1, <3>2, <3>3
  <2> QED
    BY <2>1, <2>2, GotSame
<1>4. CASE Handle
  <2>1. UNCHANGED <<arrived, inbox>>
    BY <1>4 DEF Handle
  <2> QED
    BY <1>1, <1>2, <1>4, <2>1, GotHandle
<1> QED
  BY <1>2, <1>3, <1>4, OrderArrive, OrderReceive DEF Next

(* recv_buffer_ and remote_endpoint_ are never overwritten before the      *)
(* handler has read them for the last time: start_receive is its last call.*)
THEOREM NothingIsOverwritten == Spec => []NothingOverwritten
<1>1. NothingOverwritten /\ TypeOK' /\ [Next]_vars => NothingOverwritten'
  BY OrderStep
<1> QED
  BY TypeCorrect, OrderInit, <1>1, PTL DEF Spec
=============================================================================
