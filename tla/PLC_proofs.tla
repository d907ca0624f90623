----------------------------- MODULE PLC_proofs -----------------------------
(***************************************************************************)
(* Theorems about the simulated PLC.                                       *)
(*                                                                         *)
(* The first part is about ModbusServer: its invariant says what every     *)
(* connection waits for, that the pool and the connections share no        *)
(* buffer, and that counters, log and accusations agree.                   *)
(*                                                                         *)
(* The second is about PLCMemory.  It needs three things: how a sum over a *)
(* finite set loses a summand, which gives that the size computed first is *)
(* the size written; what a field is read as when it stands at the head of *)
(* other bytes, whole or cut; and what a message is that has been read up  *)
(* to some field.  Two invariants, of the writing and of the reading, then *)
(* give SizeExact, RoundTrip and NeverMisread.                             *)
(***************************************************************************)
EXTENDS ModbusServer, PLCMemory, SequenceLemmas

Completions == [op : {"accept", "no_accept", "read", "no_read"},
                conn : Conns, length : 0 .. BUFFER_SIZE]

(* The length of a completion is a number. *)
LEMMA CompletionParts ==
  ASSUME NEW e \in Completions
  PROVE  e.conn \in Conns /\ e.length \in Nat
<1>1. e.conn \in Conns
  BY DEF Completions
<1>2. e.length \in 0 .. BUFFER_SIZE
  BY Zenon DEF Completions
<1> QED
  BY <1>1, <1>2, SizesAssumption

USE BuffersAssumption, SizesAssumption, PacketsAssumption

ConnStates == {"none", "backlog", "queued", "reading", "closed"}

(* The type invariant in four parts, each of which an action disturbs or   *)
(* leaves alone.                                                           *)
TypeClient ==
    /\ peer \in [Conns -> {"absent", "open", "gone", "reset"}]
    /\ net \in [Conns -> Nat] /\ rx \in [Conns -> Nat] /\ sent \in [Conns -> Nat]

TypeServer ==
    /\ backlog \in Seq(Conns)
    /\ acceptor_ \in {"armed", "queued"}
    /\ conn \in [Conns -> ConnStates]
    /\ queue \in Seq(Completions)

TypePool ==
    /\ buf \in [Conns -> Buffers \union {NoBuffer}]
    /\ buffer_pool_ \in Seq(Buffers)
    /\ Len(buffer_pool_) <= MAX_POOL_SIZE
    /\ content \in [Buffers -> Conns \union {Zero}]
    /\ last_cleanup \in {"unset", "recent", "due"}

Reports == [conn : Conns, at : Nat, event : Events, ip : {"client_ip", "UNKNOWN"}]

TypeReport ==
    /\ reads \in [Conns -> Nat]
    /\ tx \in [Conns -> Nat]
    /\ log \subseteq Reports
    /\ modbus_connections_ \in Nat
    /\ attacks_detected_ \in Nat

(* The parts together are the type invariant. *)
LEMMA TypeParts == TypeOK <=> TypeClient /\ TypeServer /\ TypePool /\ TypeReport
BY DEF TypeOK, TypeClient, TypeServer, TypePool, TypeReport, Completions, ConnStates, Reports

(* Initially every variable has its type. *)
LEMMA TypeInit == Init => TypeOK
<1> SUFFICES ASSUME Init PROVE TypeClient /\ TypeServer /\ TypePool /\ TypeReport
  BY TypeParts
<1>1. TypeClient
  BY DEF Init, TypeClient
<1>2. TypeServer
  BY DEF Init, TypeServer, ConnStates
<1>3. TypePool
  <2>1. <<>> \in Seq(Buffers) /\ Len(<<>>) = 0
    BY EmptySeq
  <2> QED
    BY <2>1 DEF Init, TypePool
<1>4. TypeReport
  BY DEF Init, TypeReport
<1> QED
  BY <1>1, <1>2, <1>3, <1>4

-----------------------------------------------------------------------------
(* The completions of a connection other than a failed accept. *)
Of(c) == {e \in Completions : e.conn = c /\ e.op # "no_accept"}

(* The completions of accepts, whatever their outcome. *)
Accepts == {e \in Completions : e.op \in {"accept", "no_accept"}}

(* The handler at the head of the queue, and what remains behind it. *)
LEMMA HeadRuns ==
  ASSUME TypeServer, NEW c \in Conns, NEW op, Runs(op, c)
  PROVE  /\ queue \in Seq(Completions) /\ queue # <<>>
         /\ Head(queue) \in Completions /\ Head(queue) \in Members(queue)
         /\ Head(queue).op = op /\ Head(queue).conn = c
         /\ Tail(queue) \in Seq(Completions)
         /\ Members(Tail(queue)) \subseteq Members(queue)
<1>1. queue \in Seq(Completions) /\ queue # <<>> /\ Head(queue).op = op /\ Head(queue).conn = c
  BY DEF TypeServer, Runs
<1>2. Head(queue) \in Completions /\ Tail(queue) \in Seq(Completions)
  BY <1>1, HeadTailProperties
<1>3. Head(queue) \in Members(queue) /\ Members(Tail(queue)) \subseteq Members(queue)
  BY <1>1, MembersTail
<1> QED
  BY <1>1, <1>2, <1>3

(* A new completion joins the queue at its end. *)
LEMMA Joins ==
  ASSUME TypeServer, NEW e \in Completions, queue' = Append(queue, e)
  PROVE  queue' \in Seq(Completions) /\ Members(queue') = Members(queue) \union {e}
BY AppendProperties, MembersAppend DEF TypeServer

(* What is in the queue is a completion. *)
LEMMA QueueMembers ==
  ASSUME TypeServer
  PROVE  Members(queue) \subseteq Completions
BY MembersType DEF TypeServer

(* What the cleanup and the return of a buffer leave of the pool. *)
LEMMA TrimmedPool ==
  ASSUME TypePool
  PROVE  /\ Trimmed \in Seq(Buffers)
         /\ Len(Trimmed) \in Nat /\ Len(Trimmed) <= MAX_POOL_SIZE
         /\ Members(Trimmed) \subseteq Members(buffer_pool_)
         /\ Distinct(buffer_pool_) => Distinct(Trimmed)
<1> DEFINE keep == MAX_POOL_SIZE \div 2
           n == Len(buffer_pool_)
<1>1. buffer_pool_ \in Seq(Buffers) /\ n \in Nat /\ n <= MAX_POOL_SIZE
  BY LenProperties DEF TypePool
<1>2. keep \in Nat /\ keep <= MAX_POOL_SIZE
  OBVIOUS
<1> HIDE DEF keep
<1>3. CASE last_cleanup = "due" /\ n > keep
  <2>1. n - keep + 1 \in 1 .. n + 1
    BY <1>1, <1>2, <1>3
  <2>2. Trimmed = SubSeq(buffer_pool_, n - keep + 1, n)
    BY <1>3 DEF Trimmed, keep
  <2>3. \A i \in n - keep + 1 .. n : buffer_pool_[i] \in Buffers
    BY <1>1, <1>2, <1>3, ElementOfSeq
  <2>4. /\ Trimmed \in Seq(Buffers)
        /\ Len(Trimmed) = IF n - keep + 1 <= n THEN n - (n - keep + 1) + 1 ELSE 0
        /\ \A i \in 1 .. n - (n - keep + 1) + 1 : Trimmed[i] = buffer_pool_[n - keep + 1 + i - 1]
    <3>1. n - keep + 1 \in Int /\ n \in Int
      BY <1>1, <1>2
    <3> HIDE DEF n
    <3> QED
      BY <2>2, <2>3, <3>1, SubSeqProperties
  <2>5. Len(Trimmed) = keep
    BY <1>1, <1>2, <1>3, <2>4
  <2>6. Members(Trimmed) \subseteq Members(buffer_pool_)
    <3> SUFFICES ASSUME NEW i \in 1 .. Len(Trimmed)
                 PROVE  Trimmed[i] \in Members(buffer_pool_)
      BY DEF Members
    <3>1. Trimmed[i] = buffer_pool_[n - keep + i] /\ n - keep + i \in 1 .. n
      BY SMTT(30), <1>1, <1>2, <1>3, <2>4, <2>5
    <3> QED
      BY <3>1 DEF Members
  <2>7. Distinct(buffer_pool_) => Distinct(Trimmed)
    BY <1>1, <2>1, <2>2, DistinctSuffix
  <2> QED
    BY <1>1, <1>2, <2>4, <2>5, <2>6, <2>7
<1>4. CASE ~ (last_cleanup = "due" /\ n > keep)
  BY <1>1, <1>4 DEF Trimmed, keep
<1> QED
  BY <1>3, <1>4

(* A buffer that is returned is in the pool and overwritten with zeros. *)
LEMMA ReturnedPool ==
  ASSUME TypePool, NEW b \in Buffers
  PROVE  /\ Returned(b) \in Seq(Buffers) /\ Returned(b) # <<>>
         /\ Len(Returned(b)) \in 1 .. MAX_POOL_SIZE
         /\ Members(Returned(b)) \subseteq Members(buffer_pool_) \union {b}
         /\ b \in Members(Returned(b)) /\ b \notin Members(buffer_pool_) => Cleared(b)[b] = Zero
         /\ \A x \in Buffers \ {b} : Cleared(b)[x] = content[x]
         /\ Cleared(b) \in [Buffers -> Conns \union {Zero}]
         /\ Distinct(buffer_pool_) /\ b \notin Members(buffer_pool_) => Distinct(Returned(b))
<1>1. /\ Trimmed \in Seq(Buffers)
      /\ Len(Trimmed) \in Nat /\ Len(Trimmed) <= MAX_POOL_SIZE
      /\ Members(Trimmed) \subseteq Members(buffer_pool_)
      /\ Distinct(buffer_pool_) => Distinct(Trimmed)
  BY TrimmedPool
<1>2. content \in [Buffers -> Conns \union {Zero}]
  BY DEF TypePool
<1>3. CASE Len(Trimmed) < MAX_POOL_SIZE
  <2>1. Returned(b) = Append(Trimmed, b) /\ Cleared(b) = [content EXCEPT ![b] = Zero]
    BY <1>3 DEF Returned, Cleared
  <2>2. /\ Append(Trimmed, b) \in Seq(Buffers) /\ Append(Trimmed, b) # <<>>
        /\ Len(Append(Trimmed, b)) = Len(Trimmed) + 1
    BY <1>1, AppendProperties
  <2>3. Members(Append(Trimmed, b)) = Members(Trimmed) \union {b}
    BY <1>1, MembersAppend
  <2>4. Distinct(buffer_pool_) /\ b \notin Members(buffer_pool_) => Distinct(Append(Trimmed, b))
    BY <1>1, DistinctAppend
  <2>5. /\ Cleared(b)[b] = Zero
        /\ \A x \in Buffers \ {b} : Cleared(b)[x] = content[x]
        /\ Cleared(b) \in [Buffers -> Conns \union {Zero}]
    BY <1>2, <2>1
  <2>6. Len(Returned(b)) \in 1 .. MAX_POOL_SIZE
    BY <1>1, <1>3, <2>1, <2>2
  <2> QED
    BY <1>1, <2>1, <2>2, <2>3, <2>4, <2>5, <2>6
<1>4. CASE ~ (Len(Trimmed) < MAX_POOL_SIZE)
  <2>1. Returned(b) = Trimmed /\ Cleared(b) = content
    BY <1>4 DEF Returned, Cleared
  <2>2. Len(Trimmed) = MAX_POOL_SIZE /\ MAX_POOL_SIZE > 0
    BY <1>1, <1>4
  <2>3. Trimmed # <<>>
    BY <2>2, EmptySeq
  <2>4. Len(Returned(b)) \in 1 .. MAX_POOL_SIZE
    BY <2>1, <2>2
  <2> QED
    BY <1>1, <1>2, <2>1, <2>3, <2>4
<1> QED
  BY <1>3, <1>4

(* The answer ends before its first byte, which is 0. *)
LEMMA ResponseIsEmpty == Len(response) = 0
<1> DEFINE Ends(k) == /\ k < Len(LITERAL) => LITERAL[k + 1] = 0
                      /\ \A i \in 1 .. k : LITERAL[i] # 0
           k0 == CHOOSE k \in 0 .. Len(LITERAL) : Ends(k)
<1>1. Len(LITERAL) = 12 /\ LITERAL[1] = 0
  BY DEF LITERAL
<1>2. Ends(0) /\ 0 \in 0 .. Len(LITERAL)
  BY <1>1
<1>3. k0 \in 0 .. Len(LITERAL) /\ Ends(k0)
  <2> HIDE DEF Ends
  <2> QED
    BY <1>2
<1>4. k0 = 0
  BY <1>1, <1>3
<1>5. response = SubSeq(LITERAL, 1, k0)
  BY DEF response, CString
<1>6. SubSeq(LITERAL, 1, 0) = <<>>
  BY SubSeqEmpty
<1> HIDE DEF k0
<1>7. response = <<>>
  BY <1>4, <1>5, <1>6
<1> QED
  BY <1>7, EmptySeq

(* A read is reported at most once in each way. *)
LEMMA VerdictOf ==
  ASSUME NEW n \in Nat
  PROVE  /\ Verdict(n) = {} \/ \E x \in ReadAttacks : Verdict(n) = {x}
         /\ IsFiniteSet(Verdict(n)) /\ Cardinality(Verdict(n)) \in Nat
         /\ "LARGE_PACKET" \in Verdict(n) => n >= 101
         /\ "BUFFER_OVERFLOW_ATTEMPT" \in Verdict(n) => n >= 513
         /\ Verdict(n) = {} => n >= 6
<1>1. /\ Verdict(n) \in {{}, {"BUFFER_OVERFLOW_ATTEMPT"}, {"LARGE_PACKET"}, {"PORT_SCAN"}}
      /\ "LARGE_PACKET" \in Verdict(n) => n >= 101
      /\ "BUFFER_OVERFLOW_ATTEMPT" \in Verdict(n) => n >= 513
      /\ Verdict(n) = {} => n >= 6
  BY DEF Verdict
<1>2. Verdict(n) = {} \/ \E x \in ReadAttacks : Verdict(n) = {x}
  BY <1>1 DEF ReadAttacks
<1>3. IsFiniteSet({}) /\ \A x : IsFiniteSet({x})
  BY FS_EmptySet, FS_Singleton
<1>4. IsFiniteSet(Verdict(n))
  BY <1>2, <1>3
<1> QED
  BY <1>1, <1>2, <1>4, FS_CardinalityType

(* get_buffer keeps the types. *)
LEMMA GetBufferTypes ==
  ASSUME TypePool, NEW c \in Conns, GetBuffer(c, buffer_pool_), UNCHANGED last_cleanup
  PROVE  TypePool'
<1>1. CASE buffer_pool_ # <<>> /\ buf' = [buf EXCEPT ![c] = Head(buffer_pool_)]
           /\ buffer_pool_' = Tail(buffer_pool_) /\ UNCHANGED content
  <2>1. /\ Head(buffer_pool_) \in Buffers /\ Tail(buffer_pool_) \in Seq(Buffers)
        /\ Len(Tail(buffer_pool_)) = Len(buffer_pool_) - 1 /\ Len(buffer_pool_) \in Nat
    BY <1>1, HeadTailProperties, LenProperties DEF TypePool
  <2> QED
    BY <1>1, <2>1 DEF TypePool
<1>2. CASE /\ \E b \in Buffers \ {buf[d] : d \in Conns} :
                /\ buf' = [buf EXCEPT ![c] = b]
                /\ content' = [content EXCEPT ![b] = Zero]
           /\ buffer_pool_' = buffer_pool_
  BY <1>2 DEF TypePool
<1> QED
  BY <1>1, <1>2 DEF GetBuffer

(* Whoever waits for the handler of a read has a buffer: without it the    *)
(* types are not inductive, for the handler would return no buffer.        *)
ReadsHaveBuffers ==
    \A e \in Members(queue) : e.op \in {"read", "no_read"} => buf[e.conn] # NoBuffer

(* Every step keeps the types. *)
LEMMA TypeStep ==
  ASSUME TypeOK, ReadsHaveBuffers, [Next]_vars
  PROVE  TypeOK'
<1>0. TypeClient /\ TypeServer /\ TypePool /\ TypeReport
  BY TypeParts
<1>a. ASSUME NEW c \in Conns, Runs("read", c) \/ Runs("no_read", c)
      PROVE  buf[c] \in Buffers
  <2>1. Head(queue) \in Members(queue) /\ Head(queue).conn = c /\ Head(queue).op \in {"read", "no_read"}
    BY <1>0, <1>a, HeadRuns
  <2>2. buf[c] # NoBuffer
    BY <2>1 DEF ReadsHaveBuffers
  <2> QED
    BY <1>0, <2>2 DEF TypePool
<1> SUFFICES TypeClient' /\ TypeServer' /\ TypePool' /\ TypeReport'
  BY DEF TypeOK, TypeClient, TypeServer, TypePool, TypeReport, Completions, ConnStates, Reports
<1>1. ASSUME NEW c \in Conns, \/ Leave(c) \/ Reset(c) \/ Deliver(c)
                              \/ \E packet \in Packets : Send(c, packet)
      PROVE  TypeClient' /\ TypeServer' /\ TypePool' /\ TypeReport'
  <2>1. UNCHANGED <<backlog, acceptor_, conn, queue, buf, pool, report>>
    BY <1>1 DEF Leave, Reset, Deliver, Send
  <2>2. TypeServer' /\ TypePool' /\ TypeReport'
    BY <1>0, <2>1 DEF TypeServer, TypePool, TypeReport, pool, report
  <2>3. CASE Leave(c)
    BY <1>0, <2>2, <2>3 DEF Leave, TypeClient
  <2>4. CASE Reset(c)
    BY <1>0, <2>2, <2>4 DEF Reset, TypeClient
  <2>5. CASE \E packet \in Packets : Send(c, packet)
    BY <1>0, <2>2, <2>5 DEF Send, TypeClient
  <2>6. CASE Deliver(c)
    <3>1. PICK end \in Cuts \union {sent[c]} :
             LET n == end - (sent[c] - net[c]) IN
             /\ n \in 1 .. net[c]
             /\ net' = [net EXCEPT ![c] = @ - n]
             /\ rx' = [rx EXCEPT ![c] = @ + n]
      BY <2>6 DEF Deliver
    <3> DEFINE n == end - (sent[c] - net[c])
    <3>2. n \in Nat /\ net[c] \in Nat /\ net[c] - n \in Nat /\ rx[c] + n \in Nat
      BY <1>0, <3>1 DEF TypeClient
    <3>3. net' = [net EXCEPT ![c] = net[c] - n] /\ rx' = [rx EXCEPT ![c] = rx[c] + n]
      BY <3>1
    <3>4. UNCHANGED <<peer, sent>>
      BY <2>6 DEF Deliver
    <3> HIDE DEF n
    <3> QED
      BY <1>0, <2>2, <3>2, <3>3, <3>4 DEF TypeClient
  <2> QED
    BY <1>1, <2>3, <2>4, <2>5, <2>6
<1>2. ASSUME NEW c \in Conns, Connect(c)
      PROVE  TypeClient' /\ TypeServer' /\ TypePool' /\ TypeReport'
  <2>1. TypeClient' /\ TypePool' /\ TypeReport'
    BY <1>0, <1>2 DEF Connect, TypeClient, TypePool, TypeReport, pool, report
  <2>2. Append(backlog, c) \in Seq(Conns)
    BY <1>0, AppendProperties DEF TypeServer
  <2> QED
    BY <1>0, <1>2, <2>1, <2>2 DEF Connect, TypeServer, ConnStates
<1>3. ASSUME CleanupDue
      PROVE  TypeClient' /\ TypeServer' /\ TypePool' /\ TypeReport'
  BY <1>0, <1>3 DEF CleanupDue, TypeClient, TypeServer, TypePool, TypeReport, client, report
<1>4. ASSUME AcceptCompletes \/ AcceptFails
      PROVE  TypeClient' /\ TypeServer' /\ TypePool' /\ TypeReport'
  <2>1. TypeClient' /\ TypePool' /\ TypeReport'
    BY <1>0, <1>4 DEF AcceptCompletes, AcceptFails, TypeClient, TypePool, TypeReport, client, pool, report
  <2>2. Head(backlog) \in Conns /\ Tail(backlog) \in Seq(Conns)
    BY <1>0, <1>4, HeadTailProperties DEF AcceptCompletes, AcceptFails, TypeServer
  <2>3. /\ Completion("accept", Head(backlog), 0) \in Completions
        /\ Completion("no_accept", Head(backlog), 0) \in Completions
    BY <2>2 DEF Completion, Completions
  <2>4. \A e \in Completions : Append(queue, e) \in Seq(Completions)
    BY <1>0, AppendProperties DEF TypeServer
  <2>5. CASE AcceptCompletes
    BY <1>0, <2>1, <2>2, <2>3, <2>4, <2>5 DEF AcceptCompletes, TypeServer, ConnStates
  <2>6. CASE AcceptFails
    BY <1>0, <2>1, <2>2, <2>3, <2>4, <2>6 DEF AcceptFails, TypeServer
  <2> QED
    BY <1>4, <2>5, <2>6
<1>5. ASSUME NEW c \in Conns, ReadCompletes(c)
      PROVE  TypeClient' /\ TypeServer' /\ TypePool' /\ TypeReport'
  <2> DEFINE n == IF rx[c] < BUFFER_SIZE THEN rx[c] ELSE BUFFER_SIZE
  <2>1. n \in 0 .. BUFFER_SIZE /\ rx[c] - n \in Nat
    BY <1>0 DEF TypeClient
  <2>2. /\ rx' = [rx EXCEPT ![c] = @ - n]
        /\ content' = [content EXCEPT ![buf[c]] = c]
        /\ queue' = Append(queue, Completion("read", c, n))
        /\ conn' = [conn EXCEPT ![c] = "queued"]
        /\ UNCHANGED <<client, backlog, acceptor_, buf, buffer_pool_, last_cleanup, report>>
    BY <1>5 DEF ReadCompletes
  <2> HIDE DEF n
  <2>3. Completion("read", c, n) \in Completions
    BY <2>1 DEF Completion, Completions
  <2>4. queue' \in Seq(Completions)
    BY <1>0, <2>2, <2>3, AppendProperties DEF TypeServer
  <2>5. TypeClient' /\ TypePool' /\ TypeReport'
    BY <1>0, <2>1, <2>2 DEF TypeClient, TypePool, TypeReport, client, report
  <2> QED
    BY <1>0, <2>2, <2>4, <2>5 DEF TypeServer, ConnStates
<1>6. ASSUME NEW c \in Conns, ReadFails(c)
      PROVE  TypeClient' /\ TypeServer' /\ TypePool' /\ TypeReport'
  <2>1. Completion("no_read", c, 0) \in Completions
    BY DEF Completion, Completions
  <2>2. queue' \in Seq(Completions)
    BY <1>0, <1>6, <2>1, AppendProperties DEF ReadFails, TypeServer
  <2>3. TypeClient' /\ TypePool' /\ TypeReport'
    BY <1>0, <1>6 DEF ReadFails, TypeClient, TypePool, TypeReport, client, pool, report
  <2> QED
    BY <1>0, <1>6, <2>2, <2>3 DEF ReadFails, TypeServer, ConnStates
<1>7. ASSUME NEW c \in Conns, NEW n \in Nat, NEW event \in Events
      PROVE  Entry(c, n, event) \in Reports
  BY <1>7 DEF Entry, ClientIp, Reports
<1>8. ASSUME NEW c \in Conns, HandleAccept(c)
      PROVE  TypeClient' /\ TypeServer' /\ TypePool' /\ TypeReport'
  <2>1. queue' \in Seq(Completions)
    BY <1>0, <1>8, HeadRuns DEF HandleAccept
  <2>2. TypeClient' /\ TypeServer'
    BY <1>0, <1>8, <2>1 DEF HandleAccept, TypeClient, TypeServer, client, ConnStates
  <2>3. TypePool'
    BY <1>0, <1>8, GetBufferTypes DEF HandleAccept
  <2>4. \A event \in {"CONNECTION", "AUTH_ATTEMPT", "UNAUTHORIZED_ACCESS"} : Entry(c, 0, event) \in Reports
    BY <1>7 DEF Events, Severe
  <2>5. TypeReport'
    BY <1>0, <1>8, <2>4 DEF HandleAccept, TypeReport
  <2> QED
    BY <2>2, <2>3, <2>5
<1>9. ASSUME NEW c \in Conns, HandleNoAccept(c)
      PROVE  TypeClient' /\ TypeServer' /\ TypePool' /\ TypeReport'
  <2>1. queue' \in Seq(Completions)
    BY <1>0, <1>9, HeadRuns DEF HandleNoAccept
  <2>2. TypeClient' /\ TypePool' /\ TypeReport'
    BY <1>0, <1>9 DEF HandleNoAccept, TypeClient, TypePool, TypeReport, client, pool, report
  <2> QED
    BY <1>0, <1>9, <2>1, <2>2 DEF HandleNoAccept, TypeServer
<1>10. ASSUME NEW c \in Conns, HandleRead(c)
       PROVE  TypeClient' /\ TypeServer' /\ TypePool' /\ TypeReport'
  <2>0. buf[c] \in Buffers
    BY <1>a, <1>10 DEF HandleRead
  <2> DEFINE verdict == Verdict(Head(queue).length)
             idle    == Returned(buf[c])
  <2>1. /\ queue' \in Seq(Completions)
        /\ Head(queue).length \in Nat
    <3>1. Runs("read", c) /\ queue' = Tail(queue)
      BY <1>10 DEF HandleRead
    <3>2. Head(queue) \in Completions /\ Tail(queue) \in Seq(Completions)
      BY <1>0, <3>1, HeadRuns
    <3> QED
      BY <3>1, <3>2, CompletionParts
  <2>2. TypeClient' /\ TypeServer'
    BY <1>0, <1>10, <2>1 DEF HandleRead, TypeClient, TypeServer, client, ConnStates
  <2>3. TypePool'
    <3>1. /\ idle \in Seq(Buffers) /\ idle # <<>> /\ Len(idle) <= MAX_POOL_SIZE
          /\ Cleared(buf[c]) \in [Buffers -> Conns \union {Zero}]
          /\ Len(idle) \in Nat
      BY <1>0, <2>0, ReturnedPool
    <3>2. /\ Head(idle) \in Buffers /\ Tail(idle) \in Seq(Buffers)
          /\ Len(Tail(idle)) = Len(idle) - 1
      BY <3>1, HeadTailProperties
    <3>3. /\ content' = Cleared(buf[c]) /\ last_cleanup' = "recent"
          /\ buf' = [buf EXCEPT ![c] = Head(idle)] /\ buffer_pool_' = Tail(idle)
      BY <1>10 DEF HandleRead
    <3> HIDE DEF idle
    <3> QED
      BY <1>0, <3>1, <3>2, <3>3 DEF TypePool
  <2>4. TypeReport'
    <3>1. verdict \subseteq Events /\ Cardinality(verdict) \in Nat
      BY SMTT(30), <2>1, VerdictOf DEF Events, Severe, ReadAttacks
    <3>2. Len(response) \in Nat
      BY ResponseIsEmpty
    <3>3. /\ reads' = [reads EXCEPT ![c] = @ + 1]
          /\ log' = log \union {Entry(c, reads'[c], event) : event \in verdict}
          /\ attacks_detected_' = attacks_detected_ + Cardinality(verdict)
          /\ tx' = [tx EXCEPT ![c] = @ + Len(response)]
          /\ modbus_connections_' = modbus_connections_
      BY <1>10 DEF HandleRead
    <3>4. reads'[c] \in Nat
      BY SMTT(30), <1>0, <3>3 DEF TypeReport
    <3> HIDE DEF verdict
    <3>5. \A event \in verdict : Entry(c, reads'[c], event) \in Reports
      BY <1>7, <3>1, <3>4
    <3> QED
      BY SMTT(30), <1>0, <3>1, <3>2, <3>3, <3>4, <3>5 DEF TypeReport
  <2> QED
    BY <2>2, <2>3, <2>4
<1>11. ASSUME NEW c \in Conns, HandleNoRead(c)
       PROVE  TypeClient' /\ TypeServer' /\ TypePool' /\ TypeReport'
  <2>0. buf[c] \in Buffers
    BY <1>a, <1>11 DEF HandleNoRead
  <2>1. queue' \in Seq(Completions)
    BY <1>0, <1>11, HeadRuns DEF HandleNoRead
  <2>2. TypeClient' /\ TypeServer' /\ TypeReport'
    BY <1>0, <1>11, <2>1 DEF HandleNoRead, TypeClient, TypeServer, TypeReport, client, report, ConnStates
  <2>3. /\ Returned(buf[c]) \in Seq(Buffers) /\ Len(Returned(buf[c])) <= MAX_POOL_SIZE
        /\ Cleared(buf[c]) \in [Buffers -> Conns \union {Zero}]
    BY <1>0, <2>0, ReturnedPool
  <2> QED
    BY <1>0, <1>11, <2>2, <2>3 DEF HandleNoRead, TypePool
<1>12. ASSUME UNCHANGED vars
       PROVE  TypeClient' /\ TypeServer' /\ TypePool' /\ TypeReport'
  BY <1>0, <1>12 DEF vars, client, pool, report, TypeClient, TypeServer, TypePool, TypeReport
<1> QED
  BY <1>1, <1>2, <1>3, <1>4, <1>5, <1>6, <1>8, <1>9, <1>10, <1>11, <1>12
     DEF Next, Environment, Handlers

-----------------------------------------------------------------------------
(* What waits: the queue of handlers and the backlog. *)

(* The counts of OneOperation over Places, which the lemmas on sequences   *)
(* speak of, and that only a client that has shown up has a connection.    *)
Only(c) == {c}

QueueInv ==
    /\ \A c \in Conns :
          Cardinality(Places(queue, Of(c))) = IF conn[c] = "queued" THEN 1 ELSE 0
    /\ Cardinality(Places(queue, Accepts)) = IF acceptor_ = "queued" THEN 1 ELSE 0
    /\ \A c \in Conns :
          Cardinality(Places(backlog, Only(c))) = IF conn[c] = "backlog" THEN 1 ELSE 0
    /\ \A c \in Conns : peer[c] = "absent" => conn[c] = "none"

(* A completion that joins the queue is counted once, *)
LEMMA JoinsPlaces ==
  ASSUME TypeServer, NEW e \in Completions, queue' = Append(queue, e), NEW T
  PROVE  Cardinality(Places(queue', T))
            = IF e \in T THEN Cardinality(Places(queue, T)) + 1 ELSE Cardinality(Places(queue, T))
BY PlacesAppend DEF TypeServer

(* and so is the one that leaves it. *)
LEMMA LeavesPlaces ==
  ASSUME TypeServer, NEW c \in Conns, NEW op, Runs(op, c), queue' = Tail(queue), NEW T
  PROVE  Cardinality(Places(queue', T))
            = IF Head(queue) \in T THEN Cardinality(Places(queue, T)) - 1
                                   ELSE Cardinality(Places(queue, T))
BY HeadRuns, PlacesTail

(* A connection that does not wait for a handler has none in the queue, *)
LEMMA NotQueued ==
  ASSUME TypeServer, QueueInv, NEW c \in Conns, conn[c] # "queued",
         NEW e \in Members(queue), e.conn = c
  PROVE  e.op = "no_accept"
<1>1. Cardinality(Places(queue, Of(c))) = 0
  BY DEF QueueInv
<1>2. Members(queue) \cap Of(c) = {}
  BY <1>1, PlacesNone DEF TypeServer
<1>3. e \in Completions
  BY QueueMembers
<1> QED
  BY <1>2, <1>3 DEF Of

(* and one whose handler runs waited for it and has no other. *)
LEMMA OnlyHandler ==
  ASSUME TypeServer, QueueInv, NEW c \in Conns, NEW op, op # "no_accept",
         Runs(op, c)
  PROVE  /\ conn[c] = "queued"
         /\ \A e \in Members(Tail(queue)) : e.conn = c => e.op = "no_accept"
<1>1. /\ queue \in Seq(Completions) /\ queue # <<>> /\ Head(queue) \in Of(c)
      /\ Tail(queue) \in Seq(Completions) /\ Head(queue) \in Members(queue)
  BY HeadRuns DEF Of
<1>2. Cardinality(Places(queue, Of(c))) # 0
  BY <1>1, PlacesNone
<1>3. conn[c] = "queued" /\ Cardinality(Places(queue, Of(c))) = 1
  BY <1>2 DEF QueueInv
<1>4. Cardinality(Places(Tail(queue), Of(c))) = 0
  <2>1. Cardinality(Places(Tail(queue), Of(c))) = Cardinality(Places(queue, Of(c))) - 1
    BY <1>1, PlacesTail
  <2> QED
    BY <1>3, <2>1
<1>5. Members(Tail(queue)) \cap Of(c) = {} /\ Members(Tail(queue)) \subseteq Completions
  BY <1>1, <1>4, PlacesNone, MembersType
<1> QED
  BY <1>3, <1>5 DEF Of

(* The queue starts empty. *)
LEMMA QueueInit == Init => QueueInv
BY PlacesEmpty DEF Init, QueueInv

(* Every step keeps the counts. *)
LEMMA QueueStep ==
  ASSUME TypeOK, QueueInv, [Next]_vars
  PROVE  QueueInv'
<1>0. TypeClient /\ TypeServer
  BY TypeParts
<1>1. CASE /\ UNCHANGED <<queue, conn, acceptor_, backlog>>
           /\ \A c \in Conns : peer'[c] = "absent" => peer[c] = "absent"
  BY <1>1 DEF QueueInv
<1>2. ASSUME NEW c \in Conns, Connect(c)
      PROVE  QueueInv'
  <2>1. conn[c] = "none" /\ conn' = [conn EXCEPT ![c] = "backlog"] /\ peer' = [peer EXCEPT ![c] = "open"]
        /\ UNCHANGED <<queue, acceptor_>>
    BY <1>2 DEF Connect, QueueInv
  <2>2. \A d \in Conns : Cardinality(Places(backlog', Only(d)))
            = IF c = d THEN Cardinality(Places(backlog, Only(d))) + 1 ELSE Cardinality(Places(backlog, Only(d)))
    <3>1. backlog \in Seq(Conns) /\ backlog' = Append(backlog, c)
      BY <1>0, <1>2 DEF Connect, TypeServer
    <3>2. \A d \in Conns : c \in Only(d) <=> c = d
      BY DEF Only
    <3> QED
      BY <3>1, <3>2, PlacesAppend
  <2>3. \A d \in Conns :
          Cardinality(Places(backlog', Only(d))) = IF conn'[d] = "backlog" THEN 1 ELSE 0
    BY <1>0, <2>1, <2>2 DEF QueueInv, TypeServer
  <2>4. \A d \in Conns :
          Cardinality(Places(queue', Of(d))) = IF conn'[d] = "queued" THEN 1 ELSE 0
    BY <1>0, <2>1 DEF QueueInv, TypeServer
  <2>5. \A d \in Conns : peer'[d] = "absent" => conn'[d] = "none"
    BY <1>0, <2>1 DEF QueueInv, TypeServer, TypeClient
  <2> QED
    BY <2>1, <2>3, <2>4, <2>5 DEF QueueInv
<1>3. CASE AcceptCompletes
  <2> DEFINE c == Head(backlog)
             e == Completion("accept", c, 0)
  <2>1. backlog \in Seq(Conns) /\ backlog # <<>> /\ c \in Conns /\ c \in Members(backlog)
    BY <1>0, <1>3, HeadTailProperties, MembersTail DEF AcceptCompletes, TypeServer
  <2>2. e \in Completions /\ e \in Accepts /\ \A d \in Conns : e \in Of(d) <=> d = c
    BY <2>1 DEF Completion, Completions, Accepts, Of
  <2>3. /\ queue' = Append(queue, e) /\ conn' = [conn EXCEPT ![c] = "queued"]
        /\ backlog' = Tail(backlog) /\ acceptor_ = "armed" /\ acceptor_' = "queued" /\ peer' = peer
    BY <1>3 DEF AcceptCompletes, client
  <2> HIDE DEF e, c
  <2>4. conn[c] = "backlog" /\ Cardinality(Places(backlog, Only(c))) = 1
    <3>1. Cardinality(Places(backlog, Only(c))) # 0
      BY <2>1, PlacesNone DEF Only
    <3> QED
      BY <2>1, <3>1 DEF QueueInv
  <2>5. \A d \in Conns : Cardinality(Places(backlog', Only(d)))
            = IF c = d THEN Cardinality(Places(backlog, Only(d))) - 1 ELSE Cardinality(Places(backlog, Only(d)))
    <3>1. \A d \in Conns : c \in Only(d) <=> c = d
      BY DEF Only
    <3> QED
      BY <2>1, <2>3, <3>1, PlacesTail DEF c
  <2>6. \A T : Cardinality(Places(queue', T))
            = IF e \in T THEN Cardinality(Places(queue, T)) + 1 ELSE Cardinality(Places(queue, T))
    BY <1>0, <2>2, <2>3, JoinsPlaces
  <2>7. \A d \in Conns :
          Cardinality(Places(backlog', Only(d))) = IF conn'[d] = "backlog" THEN 1 ELSE 0
    BY <1>0, <2>3, <2>4, <2>5 DEF QueueInv, TypeServer
  <2>8. \A d \in Conns :
          Cardinality(Places(queue', Of(d))) = IF conn'[d] = "queued" THEN 1 ELSE 0
    BY <1>0, <2>1, <2>2, <2>3, <2>4, <2>6 DEF QueueInv, TypeServer
  <2>9. Cardinality(Places(queue', Accepts)) = 1
    BY <2>2, <2>3, <2>6 DEF QueueInv
  <2>10. \A d \in Conns : peer'[d] = "absent" => conn'[d] = "none"
    BY <1>0, <2>1, <2>3, <2>4 DEF QueueInv, TypeServer
  <2> QED
    BY <2>3, <2>7, <2>8, <2>9, <2>10 DEF QueueInv
<1>4. CASE AcceptFails
  <2> DEFINE e == Completion("no_accept", Head(backlog), 0)
  <2>1. Head(backlog) \in Conns
    BY <1>0, <1>4, HeadTailProperties DEF AcceptFails, TypeServer
  <2>2. e \in Completions /\ e \in Accepts /\ \A d \in Conns : e \notin Of(d)
    BY <2>1 DEF Completion, Completions, Accepts, Of
  <2>3. /\ queue' = Append(queue, e) /\ acceptor_ = "armed" /\ acceptor_' = "queued"
        /\ UNCHANGED <<peer, conn, backlog>>
    BY <1>4 DEF AcceptFails, client
  <2> HIDE DEF e
  <2>4. \A T : Cardinality(Places(queue', T))
            = IF e \in T THEN Cardinality(Places(queue, T)) + 1 ELSE Cardinality(Places(queue, T))
    BY <1>0, <2>2, <2>3, JoinsPlaces
  <2> QED
    BY <2>2, <2>3, <2>4 DEF QueueInv
<1>5. ASSUME NEW c \in Conns, NEW e \in Completions, e.conn = c, e.op \in {"read", "no_read"},
             conn[c] = "reading", conn' = [conn EXCEPT ![c] = "queued"], queue' = Append(queue, e),
             UNCHANGED <<peer, backlog, acceptor_>>
      PROVE  QueueInv'
  <2>1. e \notin Accepts /\ \A d \in Conns : e \in Of(d) <=> d = c
    BY <1>5 DEF Accepts, Of
  <2>2. \A T : Cardinality(Places(queue', T))
            = IF e \in T THEN Cardinality(Places(queue, T)) + 1 ELSE Cardinality(Places(queue, T))
    BY <1>0, <1>5, JoinsPlaces
  <2>3. \A d \in Conns :
          Cardinality(Places(queue', Of(d))) = IF conn'[d] = "queued" THEN 1 ELSE 0
    BY <1>0, <1>5, <2>1, <2>2 DEF QueueInv, TypeServer
  <2>4. \A d \in Conns : /\ conn'[d] = "backlog" <=> conn[d] = "backlog"
                         /\ conn[d] = "none" => conn'[d] = "none"
    BY <1>0, <1>5 DEF TypeServer
  <2> QED
    BY <1>5, <2>1, <2>2, <2>3, <2>4 DEF QueueInv
<1>6. ASSUME NEW c \in Conns, NEW op, op # "no_accept", Runs(op, c),
             queue' = Tail(queue), NEW next \in {"reading", "closed"},
             conn' = [conn EXCEPT ![c] = next],
             acceptor_' = IF op = "accept" THEN "armed" ELSE acceptor_,
             UNCHANGED <<peer, backlog>>
      PROVE  QueueInv'
  <2>1. /\ Head(queue) \in Accepts <=> op = "accept"
        /\ \A d \in Conns : Head(queue) \in Of(d) <=> d = c
    BY <1>0, <1>6, HeadRuns DEF Accepts, Of
  <2>2. \A T : Cardinality(Places(queue', T))
            = IF Head(queue) \in T THEN Cardinality(Places(queue, T)) - 1
                                   ELSE Cardinality(Places(queue, T))
    BY <1>0, <1>6, LeavesPlaces
  <2>3. conn[c] = "queued"
    BY <1>0, <1>6, OnlyHandler
  <2>4. \A d \in Conns :
          Cardinality(Places(queue', Of(d))) = IF conn'[d] = "queued" THEN 1 ELSE 0
    BY <1>0, <1>6, <2>1, <2>2, <2>3 DEF QueueInv, TypeServer
  <2>5. Cardinality(Places(queue', Accepts)) = IF acceptor_' = "queued" THEN 1 ELSE 0
    <3>1. Cardinality(Places(queue, Accepts)) # 0 \/ op # "accept"
      BY <1>0, <1>6, <2>1, HeadRuns, PlacesNone
    <3> QED
      BY <1>6, <2>1, <2>2, <3>1 DEF QueueInv
  <2>6. \A d \in Conns : /\ conn'[d] = "backlog" <=> conn[d] = "backlog"
                         /\ conn[d] = "none" => conn'[d] = "none"
    BY <1>0, <1>6, <2>3 DEF TypeServer
  <2> QED
    BY <1>6, <2>4, <2>5, <2>6 DEF QueueInv
<1>7. ASSUME NEW c \in Conns, HandleNoAccept(c)
      PROVE  QueueInv'
  <2>1. Head(queue) \in Accepts /\ \A d \in Conns : Head(queue) \notin Of(d)
    BY <1>0, <1>7, HeadRuns DEF HandleNoAccept, Accepts, Of
  <2>2. \A T : Cardinality(Places(queue', T))
            = IF Head(queue) \in T THEN Cardinality(Places(queue, T)) - 1
                                   ELSE Cardinality(Places(queue, T))
    BY <1>0, <1>7, LeavesPlaces DEF HandleNoAccept
  <2>3. Cardinality(Places(queue, Accepts)) # 0
    BY <1>0, <1>7, <2>1, HeadRuns, PlacesNone DEF HandleNoAccept
  <2> QED
    BY <1>7, <2>1, <2>2, <2>3 DEF HandleNoAccept, QueueInv, client
<1>8. CASE CleanupDue \/ \E c \in Conns : Leave(c) \/ Reset(c) \/ Deliver(c)
                                         \/ \E packet \in Packets : Send(c, packet)
  <2>1. UNCHANGED <<queue, conn, acceptor_, backlog>>
    BY <1>8 DEF CleanupDue, Leave, Reset, Deliver, Send
  <2>2. \A c \in Conns : peer'[c] = "absent" => peer[c] = "absent"
    BY <1>0, <1>8 DEF CleanupDue, Leave, Reset, Deliver, Send, TypeClient, client
  <2> QED
    BY <1>1, <2>1, <2>2
<1>9. ASSUME NEW c \in Conns, ReadCompletes(c) \/ ReadFails(c)
      PROVE  QueueInv'
  <2>1. \E e \in Completions : e.conn = c /\ e.op \in {"read", "no_read"} /\ queue' = Append(queue, e)
    <3>1. \A op \in {"read", "no_read"}, n \in 0 .. BUFFER_SIZE :
             LET e == Completion(op, c, n) IN e \in Completions /\ e.conn = c /\ e.op = op
      BY DEF Completion, Completions
    <3>2. (IF rx[c] < BUFFER_SIZE THEN rx[c] ELSE BUFFER_SIZE) \in 0 .. BUFFER_SIZE /\ 0 \in 0 .. BUFFER_SIZE
      BY <1>0 DEF TypeClient
    <3> QED
      BY <1>9, <3>1, <3>2 DEF ReadCompletes, ReadFails
  <2> QED
    BY <1>5, <1>9, <2>1 DEF ReadCompletes, ReadFails, client
<1>10. ASSUME NEW c \in Conns, HandleAccept(c) \/ HandleRead(c) \/ HandleNoRead(c)
       PROVE  QueueInv'
  BY <1>6, <1>10 DEF HandleAccept, HandleRead, HandleNoRead, client
<1>11. CASE UNCHANGED vars
  BY <1>1, <1>11 DEF vars, client
<1> QED
  BY <1>2, <1>3, <1>4, <1>7, <1>8, <1>9, <1>10, <1>11 DEF Next, Environment, Handlers

-----------------------------------------------------------------------------
(* The buffers. *)

(* Every buffer has one owner, the pool or a connection, and the           *)
(* connections that read or wait for the handler of a read are owners.     *)
PoolInv ==
    /\ Distinct(buffer_pool_)
    /\ \A c \in Conns : buf[c] \notin Members(buffer_pool_)
    /\ \A c, d \in Conns : c # d /\ buf[c] = buf[d] => buf[c] = NoBuffer
    /\ \A c \in Conns : conn[c] = "reading" => buf[c] # NoBuffer
    /\ \A c \in Conns : conn[c] \in {"none", "backlog", "closed"} => buf[c] = NoBuffer
    /\ ReadsHaveBuffers

(* What the buffers hold. *)
DataInv ==
    /\ \A b \in Members(buffer_pool_) : content[b] = Zero
    /\ \A c \in Conns : conn[c] = "reading" => content[buf[c]] = Zero
    /\ \A e \in Members(queue) : e.op = "read" => content[buf[e.conn]] = e.conn

(* Initially there are no buffers. *)
LEMMA BuffersInit == Init => PoolInv /\ DataInv
<1>1. Len(<<>>) = 0 /\ Members(<<>>) = {}
  BY EmptySeq, MembersEmpty
<1> QED
  BY <1>1 DEF Init, PoolInv, DataInv, ReadsHaveBuffers, Distinct

(* A handler that takes the first of the idle buffers P for its connection *)
(* keeps both, when no other connection has one of P and they are clear.   *)
LEMMA TakesHead ==
  ASSUME TypeOK, QueueInv, PoolInv, DataInv,
         NEW c \in Conns, NEW op, op # "no_accept", Runs(op, c), queue' = Tail(queue),
         NEW P \in Seq(Buffers), P # <<>>, Distinct(P),
         buf' = [buf EXCEPT ![c] = Head(P)], buffer_pool_' = Tail(P),
         conn' = [conn EXCEPT ![c] = "reading"],
         \A d \in Conns \ {c} : buf[d] \notin Members(P),
         \A b \in Members(P) : content'[b] = Zero,
         \A d \in Conns \ {c} : buf[d] # NoBuffer => content'[buf[d]] = content[buf[d]]
  PROVE  PoolInv' /\ DataInv'
<1>0. TypeServer /\ TypePool
  BY TypeParts
<1>1. /\ Head(P) \in Buffers /\ Head(P) \in Members(P)
      /\ Distinct(buffer_pool_') /\ Members(buffer_pool_') = Members(P) \ {Head(P)}
  BY HeadTailProperties, MembersTail, DistinctTail
<1>2. /\ buf'[c] = Head(P) /\ \A d \in Conns \ {c} : buf'[d] = buf[d]
      /\ conn'[c] = "reading" /\ \A d \in Conns \ {c} : conn'[d] = conn[d]
  BY <1>0 DEF TypePool, TypeServer
<1>3. \A e \in Members(queue') : /\ e \in Members(queue) /\ e.conn \in Conns
                                 /\ e.conn = c => e.op = "no_accept"
  BY <1>0, OnlyHandler, HeadRuns, QueueMembers, CompletionParts
<1>4. PoolInv'
  <2>1. \A d \in Conns : buf'[d] \notin Members(buffer_pool_')
    BY <1>1, <1>2
  <2>2. \A d, e \in Conns : d # e /\ buf'[d] = buf'[e] => buf'[d] = NoBuffer
    BY <1>1, <1>2 DEF PoolInv
  <2>3. Head(P) # NoBuffer
    BY <1>1, BuffersAssumption
  <2>4. \A d \in Conns : conn'[d] = "reading" => buf'[d] # NoBuffer
    BY <1>2, <2>3 DEF PoolInv
  <2>5. \A d \in Conns : conn'[d] \in {"none", "backlog", "closed"} => buf'[d] = NoBuffer
    BY <1>2 DEF PoolInv
  <2>6. ReadsHaveBuffers'
    <3> SUFFICES ASSUME NEW e \in Members(queue'), e.op \in {"read", "no_read"}
                 PROVE  buf'[e.conn] # NoBuffer
      BY DEF ReadsHaveBuffers
    <3>1. e \in Members(queue) /\ e.conn \in Conns \ {c}
      BY <1>3
    <3> QED
      BY <1>2, <3>1 DEF PoolInv, ReadsHaveBuffers
  <2> QED
    BY <1>1, <2>1, <2>2, <2>4, <2>5, <2>6 DEF PoolInv
<1>5. DataInv'
  <2>1. \A b \in Members(buffer_pool_') : content'[b] = Zero
    BY <1>1
  <2>2. \A d \in Conns : conn'[d] = "reading" => content'[buf'[d]] = Zero
    BY <1>1, <1>2 DEF PoolInv, DataInv
  <2>3. ASSUME NEW e \in Members(queue'), e.op = "read"
        PROVE  content'[buf'[e.conn]] = e.conn
    <3>1. e \in Members(queue) /\ e.conn \in Conns \ {c}
      BY <1>3, <2>3
    <3>2. buf[e.conn] # NoBuffer /\ content[buf[e.conn]] = e.conn
      BY <2>3, <3>1 DEF PoolInv, ReadsHaveBuffers, DataInv
    <3> QED
      BY <1>2, <3>1, <3>2
  <2> QED
    BY <2>1, <2>2, <2>3 DEF DataInv
<1> QED
  BY <1>4, <1>5

(* What return_buffer makes of the pool, for an owner that gives up its    *)
(* buffer: it is distinct, clear, and nobody else has a buffer of it.      *)
LEMMA GivesBack ==
  ASSUME TypeOK, PoolInv, DataInv, NEW c \in Conns, buf[c] # NoBuffer
  PROVE  LET P == Returned(buf[c]) IN
         /\ P \in Seq(Buffers) /\ P # <<>> /\ Distinct(P)
         /\ \A d \in Conns \ {c} : buf[d] \notin Members(P)
         /\ \A b \in Members(P) : Cleared(buf[c])[b] = Zero
         /\ \A d \in Conns \ {c} : buf[d] # NoBuffer => Cleared(buf[c])[buf[d]] = content[buf[d]]
<1> DEFINE b == buf[c]
           P == Returned(b)
<1>1. TypePool /\ b \in Buffers
  BY TypeParts DEF TypePool
<1>2. Distinct(buffer_pool_) /\ b \notin Members(buffer_pool_)
  BY DEF PoolInv
<1>3. /\ P \in Seq(Buffers) /\ P # <<>> /\ Distinct(P)
      /\ Members(P) \subseteq Members(buffer_pool_) \union {b}
      /\ b \in Members(P) => Cleared(b)[b] = Zero
      /\ \A x \in Buffers \ {b} : Cleared(b)[x] = content[x]
  BY <1>1, <1>2, ReturnedPool
<1>4. Members(buffer_pool_) \subseteq Buffers
  BY <1>1, MembersType DEF TypePool
<1>5. ASSUME NEW d \in Conns \ {c}
      PROVE  /\ buf[d] \notin Members(P)
             /\ buf[d] # NoBuffer => Cleared(b)[buf[d]] = content[buf[d]]
  <2>1. buf[d] # b /\ buf[d] \notin Members(buffer_pool_)
    BY DEF PoolInv
  <2>2. buf[d] # NoBuffer => buf[d] \in Buffers \ {b}
    BY <1>1, <2>1 DEF TypePool
  <2> QED
    BY <1>3, <2>1, <2>2
<1>6. \A x \in Members(P) : Cleared(b)[x] = Zero
  <2>1. \A x \in Members(buffer_pool_) : x \in Buffers \ {b} /\ content[x] = Zero
    BY <1>2, <1>4 DEF DataInv
  <2> QED
    BY <1>3, <2>1
<1> QED
  BY <1>3, <1>5, <1>6

(* A step that leaves the buffers alone, starts no read and queues no      *)
(* handler of one keeps both.                                              *)
LEMMA LeavesBuffers ==
  ASSUME TypeServer, PoolInv, DataInv, UNCHANGED <<buf, buffer_pool_, content>>,
         \A c \in Conns : conn'[c] = conn[c] \/ (conn[c] = "none" /\ conn'[c] = "backlog")
                                             \/ conn'[c] = "queued",
         \A e \in Members(queue') : e \in Members(queue) \/ e.op \in {"accept", "no_accept"}
  PROVE  PoolInv' /\ DataInv'
<1>1. ReadsHaveBuffers'
  BY DEF PoolInv, ReadsHaveBuffers
<1>2. PoolInv'
  BY <1>1 DEF PoolInv
<1>3. DataInv'
  BY DEF DataInv
<1> QED
  BY <1>2, <1>3

(* Every step keeps both. *)
LEMMA BuffersStep ==
  ASSUME TypeOK, QueueInv, PoolInv, DataInv, [Next]_vars
  PROVE  PoolInv' /\ DataInv'
<1>0. TypeClient /\ TypeServer /\ TypePool
  BY TypeParts
<1>1. CASE \/ CleanupDue \/ UNCHANGED vars
           \/ \E c \in Conns : \/ Connect(c) \/ Leave(c) \/ Reset(c) \/ Deliver(c)
                              \/ \E packet \in Packets : Send(c, packet)
  <2>1. UNCHANGED <<queue, buf, buffer_pool_, content>>
    BY <1>1 DEF CleanupDue, Connect, Leave, Reset, Deliver, Send, vars, pool
  <2>2. \A c \in Conns : conn'[c] = conn[c] \/ (conn[c] = "none" /\ conn'[c] = "backlog")
    <3>1. CASE \E c \in Conns : Connect(c)
      <4>1. PICK c \in Conns : Connect(c)
        BY <3>1
      <4> QED
        BY <1>0, <4>1 DEF Connect, QueueInv, TypeServer
    <3>2. CASE conn' = conn
      BY <3>2
    <3> QED
      BY <1>1, <3>1, <3>2 DEF CleanupDue, Leave, Reset, Deliver, Send, vars
  <2> QED
    BY <1>0, <2>1, <2>2, LeavesBuffers
<1>2. CASE AcceptCompletes \/ AcceptFails
  <2>1. Head(backlog) \in Conns
    BY <1>0, <1>2, HeadTailProperties DEF AcceptCompletes, AcceptFails, TypeServer
  <2>2. \E e \in Completions : e.op \in {"accept", "no_accept"} /\ queue' = Append(queue, e)
    <3>1. \A op \in {"accept", "no_accept"} :
             LET e == Completion(op, Head(backlog), 0) IN e \in Completions /\ e.op = op
      BY <2>1, SizesAssumption DEF Completion, Completions
    <3> QED
      BY <1>2, <3>1 DEF AcceptCompletes, AcceptFails
  <2>3. \A e \in Members(queue') : e \in Members(queue) \/ e.op \in {"accept", "no_accept"}
    BY <1>0, <2>2, Joins
  <2>4. \A c \in Conns : conn'[c] = conn[c] \/ conn'[c] = "queued"
    BY <1>0, <1>2, <2>1 DEF AcceptCompletes, AcceptFails, TypeServer
  <2>5. UNCHANGED <<buf, buffer_pool_, content>>
    BY <1>2 DEF AcceptCompletes, AcceptFails, pool
  <2> QED
    BY <1>0, <2>3, <2>4, <2>5, LeavesBuffers
<1>3. ASSUME NEW c \in Conns, HandleNoAccept(c)
      PROVE  PoolInv' /\ DataInv'
  <2>1. Members(queue') \subseteq Members(queue)
    BY <1>0, <1>3, HeadRuns DEF HandleNoAccept
  <2>2. UNCHANGED <<conn, buf, buffer_pool_, content>>
    BY <1>3 DEF HandleNoAccept, pool
  <2> QED
    BY <1>0, <2>1, <2>2, LeavesBuffers
<1>4. ASSUME NEW c \in Conns, ReadCompletes(c) \/ ReadFails(c)
      PROVE  PoolInv' /\ DataInv'
  <2>1. /\ conn[c] = "reading" /\ conn' = [conn EXCEPT ![c] = "queued"]
        /\ UNCHANGED <<buf, buffer_pool_>>
    BY <1>4 DEF ReadCompletes, ReadFails, pool
  <2>2. buf[c] # NoBuffer /\ buf[c] \in Buffers
    BY <1>0, <2>1 DEF PoolInv, TypePool
  <2>3. \A d \in Conns : conn'[d] # "queued" => conn'[d] = conn[d] /\ d # c
    BY <1>0, <2>1 DEF TypeServer
  <2>4. PICK e \in Completions : /\ e.conn = c
                                /\ \/ e.op = "read" /\ content' = [content EXCEPT ![buf[c]] = c]
                                   \/ e.op = "no_read" /\ content' = content
                                /\ queue' = Append(queue, e)
    <3>1. CASE ReadCompletes(c)
      <4> DEFINE n == IF rx[c] < BUFFER_SIZE THEN rx[c] ELSE BUFFER_SIZE
      <4>1. n \in 0 .. BUFFER_SIZE
        BY <1>0 DEF TypeClient
      <4>2. content' = [content EXCEPT ![buf[c]] = c] /\ queue' = Append(queue, Completion("read", c, n))
        BY <3>1 DEF ReadCompletes
      <4> HIDE DEF n
      <4> QED
        BY <4>1, <4>2 DEF Completion, Completions
    <3>2. CASE ReadFails(c)
      <4>1. content' = content /\ queue' = Append(queue, Completion("no_read", c, 0))
        BY <3>2 DEF ReadFails, pool
      <4> QED
        BY <4>1, SizesAssumption DEF Completion, Completions
    <3> QED
      BY <1>4, <3>1, <3>2
  <2>5. Members(queue') = Members(queue) \union {e}
    BY <1>0, <2>4, Joins
  <2>6. /\ \A b \in Buffers \ {buf[c]} : content'[b] = content[b]
        /\ e.op = "read" => content'[buf[c]] = c
    BY <1>0, <2>2, <2>4 DEF TypePool
  <2>7. ReadsHaveBuffers'
    BY <2>1, <2>2, <2>4, <2>5 DEF PoolInv, ReadsHaveBuffers
  <2>8. PoolInv'
    BY <2>1, <2>3, <2>7 DEF PoolInv
  <2>9. \A b \in Members(buffer_pool_') : content'[b] = Zero
    <3>1. Members(buffer_pool_) \subseteq Buffers
      BY <1>0, MembersType DEF TypePool
    <3> QED
      BY <2>1, <2>6, <3>1 DEF PoolInv, DataInv
  <2>10. \A d \in Conns : conn'[d] = "reading" => content'[buf'[d]] = Zero
    <3> SUFFICES ASSUME NEW d \in Conns, conn'[d] = "reading"
                 PROVE  content'[buf'[d]] = Zero
      OBVIOUS
    <3>1. d # c /\ conn[d] = "reading"
      BY <2>3
    <3>2. buf[d] \in Buffers \ {buf[c]}
      BY <1>0, <2>2, <3>1 DEF PoolInv, TypePool
    <3> QED
      BY <2>1, <2>6, <3>1, <3>2 DEF DataInv
  <2>11. \A d \in Members(queue') : d.op = "read" => content'[buf'[d.conn]] = d.conn
    <3> SUFFICES ASSUME NEW d \in Members(queue'), d.op = "read"
                 PROVE  content'[buf'[d.conn]] = d.conn
      OBVIOUS
    <3>1. CASE d = e
      BY <2>1, <2>4, <2>6, <3>1
    <3>2. CASE d # e
      <4>1. d \in Members(queue) /\ d.conn \in Conns
        BY <1>0, <2>5, <3>2, QueueMembers, CompletionParts
      <4>2. d.conn # c
        BY <1>0, <2>1, <4>1, NotQueued
      <4>3. buf[d.conn] \in Buffers \ {buf[c]}
        BY <1>0, <2>2, <4>1, <4>2 DEF PoolInv, ReadsHaveBuffers, TypePool
      <4> QED
        BY <2>1, <2>6, <4>1, <4>3 DEF DataInv
    <3> QED
      BY <3>1, <3>2
  <2> QED
    BY <2>8, <2>9, <2>10, <2>11 DEF DataInv
<1>5. ASSUME NEW c \in Conns, HandleAccept(c)
      PROVE  PoolInv' /\ DataInv'
  <2>1. /\ Runs("accept", c) /\ queue' = Tail(queue) /\ conn' = [conn EXCEPT ![c] = "reading"]
        /\ GetBuffer(c, buffer_pool_)
    BY <1>5 DEF HandleAccept
  <2>2. CASE buffer_pool_ # <<>> /\ buf' = [buf EXCEPT ![c] = Head(buffer_pool_)]
             /\ buffer_pool_' = Tail(buffer_pool_) /\ UNCHANGED content
    <3>1. /\ buffer_pool_ \in Seq(Buffers) /\ Distinct(buffer_pool_)
          /\ \A d \in Conns \ {c} : buf[d] \notin Members(buffer_pool_)
          /\ \A b \in Members(buffer_pool_) : content'[b] = Zero
          /\ \A d \in Conns \ {c} : buf[d] # NoBuffer => content'[buf[d]] = content[buf[d]]
      BY <1>0, <2>2 DEF TypePool, PoolInv, DataInv
    <3> QED
      BY <2>1, <2>2, <3>1, TakesHead
  <2>3. ASSUME buffer_pool_ = <<>>, buffer_pool_' = buffer_pool_,
               NEW b \in Buffers \ {buf[d] : d \in Conns},
               buf' = [buf EXCEPT ![c] = b], content' = [content EXCEPT ![b] = Zero]
        PROVE  PoolInv' /\ DataInv'
    <3> DEFINE P == <<b>>
    <3>1. /\ P \in Seq(Buffers) /\ P # <<>> /\ Members(P) = {b} /\ Distinct(P)
          /\ Head(P) = b /\ Tail(P) = <<>>
      BY OnlyMember
    <3>2. \A d \in Conns : buf[d] # b
      BY <2>3
    <3>3. \A d \in Conns \ {c} : buf[d] # NoBuffer => content'[buf[d]] = content[buf[d]]
      BY <1>0, <2>3, <3>2 DEF TypePool
    <3>4. content'[b] = Zero
      BY <1>0, <2>3 DEF TypePool
    <3> HIDE DEF P
    <3> QED
      BY <2>1, <2>3, <3>1, <3>2, <3>3, <3>4, TakesHead
  <2> QED
    BY <2>1, <2>2, <2>3 DEF GetBuffer
<1>6. ASSUME NEW c \in Conns, HandleRead(c)
      PROVE  PoolInv' /\ DataInv'
  <2> DEFINE P == Returned(buf[c])
  <2>1. /\ Runs("read", c) /\ queue' = Tail(queue) /\ conn' = [conn EXCEPT ![c] = "reading"]
        /\ content' = Cleared(buf[c]) /\ buf' = [buf EXCEPT ![c] = Head(P)] /\ buffer_pool_' = Tail(P)
    BY <1>6 DEF HandleRead
  <2>2. buf[c] # NoBuffer
    BY <1>0, <2>1, HeadRuns DEF PoolInv, ReadsHaveBuffers
  <2>3. /\ P \in Seq(Buffers) /\ P # <<>> /\ Distinct(P)
        /\ \A d \in Conns \ {c} : buf[d] \notin Members(P)
        /\ \A b \in Members(P) : content'[b] = Zero
        /\ \A d \in Conns \ {c} : buf[d] # NoBuffer => content'[buf[d]] = content[buf[d]]
    BY <2>1, <2>2, GivesBack
  <2> HIDE DEF P
  <2> QED
    BY <2>1, <2>3, TakesHead
<1>7. ASSUME NEW c \in Conns, HandleNoRead(c)
      PROVE  PoolInv' /\ DataInv'
  <2> DEFINE P == Returned(buf[c])
  <2>1. /\ Runs("no_read", c) /\ queue' = Tail(queue) /\ conn' = [conn EXCEPT ![c] = "closed"]
        /\ content' = Cleared(buf[c]) /\ buf' = [buf EXCEPT ![c] = NoBuffer] /\ buffer_pool_' = P
    BY <1>7 DEF HandleNoRead
  <2>2. buf[c] # NoBuffer
    BY <1>0, <2>1, HeadRuns DEF PoolInv, ReadsHaveBuffers
  <2>3. /\ P \in Seq(Buffers) /\ Distinct(P)
        /\ \A d \in Conns \ {c} : buf[d] \notin Members(P)
        /\ \A b \in Members(P) : content'[b] = Zero
        /\ \A d \in Conns \ {c} : buf[d] # NoBuffer => content'[buf[d]] = content[buf[d]]
    BY <2>1, <2>2, GivesBack
  <2>4. NoBuffer \notin Members(P)
    BY <2>3, MembersType, BuffersAssumption
  <2> HIDE DEF P
  <2>5. /\ buf'[c] = NoBuffer /\ \A d \in Conns \ {c} : buf'[d] = buf[d]
        /\ conn'[c] = "closed" /\ \A d \in Conns \ {c} : conn'[d] = conn[d]
    BY <1>0, <2>1 DEF TypePool, TypeServer
  <2>6. \A e \in Members(queue') : /\ e \in Members(queue) /\ e.conn \in Conns
                                   /\ e.conn = c => e.op = "no_accept"
    BY <1>0, <2>1, OnlyHandler, HeadRuns, QueueMembers, CompletionParts
  <2>7. ASSUME NEW e \in Members(queue'), e.op \in {"read", "no_read"}
        PROVE  /\ e \in Members(queue) /\ e.conn \in Conns \ {c}
               /\ buf'[e.conn] = buf[e.conn] /\ buf'[e.conn] # NoBuffer
    BY <2>5, <2>6, <2>7 DEF PoolInv, ReadsHaveBuffers
  <2>8. \A d \in Conns : buf'[d] \notin Members(buffer_pool_')
    BY <2>1, <2>3, <2>4, <2>5
  <2>9. PoolInv'
    BY <2>1, <2>3, <2>5, <2>7, <2>8 DEF PoolInv, ReadsHaveBuffers
  <2>10. ASSUME NEW d \in Conns, conn'[d] = "reading"
         PROVE  content'[buf'[d]] = Zero
    BY <2>3, <2>5, <2>10 DEF PoolInv, DataInv
  <2>11. ASSUME NEW e \in Members(queue'), e.op = "read"
         PROVE  content'[buf'[e.conn]] = e.conn
    BY <2>3, <2>7, <2>11 DEF DataInv
  <2> QED
    BY <2>1, <2>3, <2>9, <2>10, <2>11 DEF DataInv
<1> QED
  BY <1>1, <1>2, <1>3, <1>4, <1>5, <1>6, <1>7 DEF Next, Environment, Handlers

-----------------------------------------------------------------------------
(* The log and the counters. *)

(* What is counted: the connections, the authentications and the attacks   *)
(* that a read is reported as.                                             *)
CountsTell ==
    /\ modbus_connections_ = Cardinality(Logged({"CONNECTION"}))
    /\ modbus_connections_ = Cardinality(Logged({"AUTH_ATTEMPT"}))
    /\ attacks_detected_ = Cardinality(Logged(ReadAttacks))

(* The log is finite, its entries are of reads handled so far, on          *)
(* connections that have been accepted, and not of one whose acceptance    *)
(* still waits to be handled: each entry is new when it is logged.         *)
CounterInv ==
    /\ CountsTell
    /\ IsFiniteSet(log)
    /\ \A e \in log : e.at <= reads[e.conn] /\ conn[e.conn] \notin {"none", "backlog"}
    /\ \A q \in Members(queue) : q.op = "accept" => \A e \in log : e.conn # q.conn

(* The entries that a counter counts. *)
WithEvent(events) == {e \in Reports : e.event \in events}

(* The entries that accuse a client of an event. *)
Accusing(c, event) == {e \in Reports : e.conn = c /\ e.event = event}

(* What a counter counts is a part of the log. *)
LEMMA LoggedEntries ==
  ASSUME TypeReport, NEW events
  PROVE  Logged(events) = log \cap WithEvent(events)
BY DEF TypeReport, Logged, WithEvent

(* Initially nothing has been logged. *)
LEMMA CounterInit == Init => CounterInv
<1>1. Init => \A events : Logged(events) = {}
  BY DEF Init, Logged
<1> QED
  BY <1>1, MembersEmpty, FS_EmptySet DEF Init, CounterInv, CountsTell

(* A step that logs nothing and turns no accepted connection back. *)
LEMMA LogsNothing ==
  ASSUME CounterInv,
         UNCHANGED <<reads, log, modbus_connections_, attacks_detected_>>,
         \A c \in Conns : conn'[c] \in {"none", "backlog"} => conn[c] \in {"none", "backlog"},
         TypeReport,
         \A q \in Members(queue') : q.op = "accept" =>
             q \in Members(queue) \/ conn[q.conn] \in {"none", "backlog"}
  PROVE  CounterInv'
<1>1. CountsTell'
  BY DEF CounterInv, CountsTell, Logged
<1>2. \A e \in log : e.conn \in Conns
  BY DEF TypeReport, Reports
<1> QED
  BY <1>1, <1>2 DEF CounterInv

(* The entries of an acceptance, *)
LEMMA AcceptLogs ==
  ASSUME TypeOK, QueueInv, CounterInv, NEW c \in Conns, HandleAccept(c)
  PROVE  /\ CounterInv'
         /\ \A d \in Conns, event \in ReadAttacks :
                CountIn(log', Accusing(d, event)) = CountIn(log, Accusing(d, event))
<1>0. TypeServer /\ TypeReport
  BY TypeParts
<1>1. /\ Runs("accept", c) /\ queue' = Tail(queue) /\ conn' = [conn EXCEPT ![c] = "reading"]
      /\ reads' = reads /\ modbus_connections_' = modbus_connections_ + 1
      /\ attacks_detected_' = attacks_detected_
  BY DEF HandleAccept
<1> DEFINE E(event) == Entry(c, 0, event)
<1>2. /\ \A e \in log : e.conn # c
      /\ \A e \in Members(queue') : e \in Members(queue) /\ (e.conn = c => e.op = "no_accept")
  <2>1. Head(queue) \in Members(queue) /\ Head(queue).op = "accept" /\ Head(queue).conn = c
    BY <1>0, <1>1, HeadRuns
  <2> QED
    BY <1>0, <1>1, <2>1, HeadRuns, OnlyHandler DEF CounterInv
<1>3. /\ E("CONNECTION") \in Reports /\ E("AUTH_ATTEMPT") \in Reports /\ E("UNAUTHORIZED_ACCESS") \in Reports
      /\ \A event : E(event).conn = c /\ E(event).at = 0 /\ E(event).event = event
  BY DEF Entry, ClientIp, Reports, Events, Severe
<1> HIDE DEF E
<1>4. PICK failure \in {{}, {E("UNAUTHORIZED_ACCESS")}} :
         log' = log \union {E("CONNECTION"), E("AUTH_ATTEMPT")} \union failure
  BY DEF HandleAccept, E
<1> DEFINE log1 == log \union {E("CONNECTION")}
           log2 == log1 \union {E("AUTH_ATTEMPT")}
           C == WithEvent({"CONNECTION"})
           A == WithEvent({"AUTH_ATTEMPT"})
           S == WithEvent(ReadAttacks)
<1>5. /\ E("CONNECTION") \in C /\ E("CONNECTION") \notin A /\ E("CONNECTION") \notin S
      /\ E("AUTH_ATTEMPT") \in A /\ E("AUTH_ATTEMPT") \notin C /\ E("AUTH_ATTEMPT") \notin S
      /\ E("UNAUTHORIZED_ACCESS") \notin C /\ E("UNAUTHORIZED_ACCESS") \notin A
      /\ E("UNAUTHORIZED_ACCESS") \notin S
  BY <1>3 DEF WithEvent, ReadAttacks
<1>6. /\ E("CONNECTION") \notin log /\ E("AUTH_ATTEMPT") \notin log1
      /\ E("UNAUTHORIZED_ACCESS") \notin log2
  BY <1>2, <1>3
<1>7. /\ IsFiniteSet(log)
      /\ log1 = With(log, E("CONNECTION")) /\ log2 = With(log1, E("AUTH_ATTEMPT"))
  BY DEF CounterInv, With
<1> HIDE DEF C, A, S, log1, log2
<1>8. /\ IsFiniteSet(log1)
      /\ CountIn(log1, C) = CountIn(log, C) + 1
      /\ CountIn(log1, A) = CountIn(log, A) /\ CountIn(log1, S) = CountIn(log, S)
      /\ CountIn(log, C) \in Nat /\ CountIn(log, A) \in Nat /\ CountIn(log, S) \in Nat
  BY <1>5, <1>6, <1>7, OneMoreOf
<1>9. /\ IsFiniteSet(log2)
      /\ CountIn(log2, A) = CountIn(log1, A) + 1
      /\ CountIn(log2, C) = CountIn(log1, C) /\ CountIn(log2, S) = CountIn(log1, S)
  BY <1>5, <1>6, <1>7, <1>8, OneMoreOf
<1>10. /\ IsFiniteSet(log')
       /\ CountIn(log', C) = CountIn(log2, C)
       /\ CountIn(log', A) = CountIn(log2, A) /\ CountIn(log', S) = CountIn(log2, S)
  <2>1. CASE failure = {}
    BY <1>4, <1>9, <2>1 DEF log1, log2
  <2>2. CASE failure = {E("UNAUTHORIZED_ACCESS")}
    <3>1. log' = With(log2, E("UNAUTHORIZED_ACCESS"))
      BY <1>4, <2>2 DEF With, log1, log2
    <3> QED
      BY <1>5, <1>6, <1>9, <3>1, OneMoreOf
  <2> QED
    BY <1>4, <2>1, <2>2
<1>11. CountsTell'
  <2>1. /\ modbus_connections_ = CountIn(log, C) /\ modbus_connections_ = CountIn(log, A)
        /\ attacks_detected_ = CountIn(log, S)
    BY <1>0, LoggedEntries DEF CounterInv, CountsTell, CountIn, C, A, S
  <2>2. TypeReport'
    <3>1. log' \subseteq Reports
      BY <1>0, <1>3, <1>4 DEF TypeReport
    <3> QED
      BY <1>0, <1>1, <3>1 DEF TypeReport, HandleAccept
  <2>3. \A events : Logged(events)' = log' \cap WithEvent(events)
    BY <2>2 DEF TypeReport, Logged, WithEvent
  <2>4. /\ modbus_connections_' = CountIn(log', C) /\ modbus_connections_' = CountIn(log', A)
        /\ attacks_detected_' = CountIn(log', S)
    BY <1>1, <1>8, <1>9, <1>10, <2>1
  <2> QED
    BY <2>3, <2>4 DEF CountsTell, CountIn, C, A, S
<1>12. ASSUME NEW e \in log'
       PROVE  e.at <= reads'[e.conn] /\ conn'[e.conn] \notin {"none", "backlog"}
  <2>1. e \in log \/ (e.conn = c /\ e.at = 0)
    BY <1>3, <1>4
  <2>2. \A x \in log : x.conn \in Conns
    BY <1>0 DEF TypeReport, Reports
  <2> QED
    BY <1>0, <1>1, <2>1, <2>2 DEF CounterInv, TypeServer, TypeReport
<1>13. ASSUME NEW q \in Members(queue'), q.op = "accept", NEW e \in log'
       PROVE  e.conn # q.conn
  <2>1. q \in Members(queue) /\ q.conn # c
    BY <1>2, <1>13
  <2>2. e \in log \/ e.conn = c
    BY <1>3, <1>4
  <2> QED
    BY <1>13, <2>1, <2>2 DEF CounterInv
<1>14. ASSUME NEW d \in Conns, NEW event \in ReadAttacks
       PROVE  CountIn(log', Accusing(d, event)) = CountIn(log, Accusing(d, event))
  <2> DEFINE T == Accusing(d, event)
  <2>1. E("CONNECTION") \notin T /\ E("AUTH_ATTEMPT") \notin T /\ E("UNAUTHORIZED_ACCESS") \notin T
    BY <1>3 DEF Accusing, ReadAttacks
  <2> HIDE DEF T
  <2>2. CountIn(log1, T) = CountIn(log, T)
    BY <1>6, <1>7, <2>1, OneMoreOf
  <2>3. CountIn(log2, T) = CountIn(log1, T)
    BY <1>6, <1>7, <1>8, <2>1, OneMoreOf
  <2>4. CASE failure = {}
    <3>1. log' = log2
      BY <1>4, <2>4 DEF log1, log2
    <3> QED
      BY <2>2, <2>3, <3>1 DEF T
  <2>5. CASE failure = {E("UNAUTHORIZED_ACCESS")}
    <3>1. log' = With(log2, E("UNAUTHORIZED_ACCESS"))
      BY <1>4, <2>5 DEF With, log1, log2
    <3>2. CountIn(log', T) = CountIn(log2, T)
      BY <1>6, <1>9, <2>1, <3>1, OneMoreOf
    <3> QED
      BY <2>2, <2>3, <3>2 DEF T
  <2> QED
    BY <1>4, <2>4, <2>5
<1> QED
  BY <1>10, <1>11, <1>12, <1>13, <1>14 DEF CounterInv

(* and what the handler of a read logs: nothing, or one new entry.         *)
LEMMA ReadEntry ==
  ASSUME TypeOK, CounterInv, NEW c \in Conns, HandleRead(c)
  PROVE  /\ reads' = [reads EXCEPT ![c] = reads[c] + 1] /\ reads[c] \in Nat
         /\ \/ /\ log' = log /\ attacks_detected_' = attacks_detected_
               /\ Verdict(Head(queue).length) = {}
            \/ \E x \in ReadAttacks :
                  /\ x \in Verdict(Head(queue).length)
                  /\ Entry(c, reads[c] + 1, x) \notin log
                  /\ Entry(c, reads[c] + 1, x) \in Reports
                  /\ log' = With(log, Entry(c, reads[c] + 1, x))
                  /\ attacks_detected_' = attacks_detected_ + 1
<1>0. TypeServer /\ TypeReport
  BY TypeParts
<1> DEFINE verdict == Verdict(Head(queue).length)
<1>1. /\ Runs("read", c)
      /\ reads' = [reads EXCEPT ![c] = @ + 1]
      /\ log' = log \union {Entry(c, reads'[c], event) : event \in verdict}
      /\ attacks_detected_' = attacks_detected_ + Cardinality(verdict)
  BY DEF HandleRead
<1>2. /\ reads' = [reads EXCEPT ![c] = reads[c] + 1] /\ reads'[c] = reads[c] + 1
      /\ reads[c] \in Nat /\ attacks_detected_ \in Nat
  BY <1>0, <1>1 DEF TypeReport
<1>3. Head(queue).length \in Nat
  BY <1>0, <1>1, HeadRuns, CompletionParts
<1>4. verdict = {} \/ \E x \in ReadAttacks : verdict = {x}
  BY <1>3, VerdictOf
<1> HIDE DEF verdict
<1>5. ASSUME verdict = {}
      PROVE  log' = log /\ attacks_detected_' = attacks_detected_
  <2>1. Cardinality(verdict) = 0
    BY <1>5, FS_EmptySet
  <2>2. log' = log /\ attacks_detected_' = attacks_detected_
    BY <1>1, <1>2, <1>5, <2>1
  <2> QED
    BY <1>2, <1>5, <2>2
<1>6. ASSUME NEW x \in ReadAttacks, verdict = {x}
      PROVE  /\ x \in verdict
             /\ Entry(c, reads[c] + 1, x) \notin log
             /\ Entry(c, reads[c] + 1, x) \in Reports
             /\ log' = With(log, Entry(c, reads[c] + 1, x))
             /\ attacks_detected_' = attacks_detected_ + 1
  <2>1. Cardinality(verdict) = 1
    BY <1>6, FS_Singleton
  <2>2. /\ Entry(c, reads[c] + 1, x) \in Reports
        /\ Entry(c, reads[c] + 1, x).conn = c /\ Entry(c, reads[c] + 1, x).at = reads[c] + 1
    BY <1>2 DEF Entry, ClientIp, Reports, Events, Severe
  <2>3. Entry(c, reads[c] + 1, x) \notin log
    BY <1>2, <2>2 DEF CounterInv
  <2>4. log' = log \union {Entry(c, reads[c] + 1, x)}
    BY <1>1, <1>2, <1>6
  <2> QED
    BY <1>1, <1>6, <2>1, <2>2, <2>3, <2>4 DEF With
<1> QED
  BY <1>2, <1>4, <1>5, <1>6 DEF verdict


(* The entry of a read keeps the agreement. *)
LEMMA ReadLogs ==
  ASSUME TypeOK, TypeOK', QueueInv, CounterInv, NEW c \in Conns, HandleRead(c)
  PROVE  CounterInv'
<1>0. TypeServer /\ TypeReport /\ TypeReport'
  BY TypeParts DEF TypeOK, TypeReport, Reports
<1>1. /\ Runs("read", c) /\ queue' = Tail(queue) /\ conn' = [conn EXCEPT ![c] = "reading"]
      /\ modbus_connections_' = modbus_connections_
  BY DEF HandleRead
<1> DEFINE C == WithEvent({"CONNECTION"})
           A == WithEvent({"AUTH_ATTEMPT"})
           S == WithEvent(ReadAttacks)
<1>2. /\ modbus_connections_ = CountIn(log, C) /\ modbus_connections_ = CountIn(log, A)
      /\ attacks_detected_ = CountIn(log, S) /\ IsFiniteSet(log)
  BY <1>0, LoggedEntries DEF CounterInv, CountsTell, CountIn
<1>3. \A x \in ReadAttacks : /\ Entry(c, reads[c] + 1, x).event = x
                         /\ Entry(c, reads[c] + 1, x).conn = c
                         /\ Entry(c, reads[c] + 1, x).at = reads[c] + 1
  BY DEF Entry
<1>4. /\ reads' = [reads EXCEPT ![c] = reads[c] + 1] /\ reads[c] \in Nat
      /\ \/ log' = log /\ attacks_detected_' = attacks_detected_
         \/ \E x \in ReadAttacks :
               /\ Entry(c, reads[c] + 1, x) \notin log
               /\ Entry(c, reads[c] + 1, x) \in Reports
               /\ log' = With(log, Entry(c, reads[c] + 1, x))
               /\ attacks_detected_' = attacks_detected_ + 1
  BY ReadEntry
<1>5. /\ IsFiniteSet(log') /\ CountIn(log', C) = CountIn(log, C)
      /\ CountIn(log', A) = CountIn(log, A)
      /\ attacks_detected_' = CountIn(log', S)
      /\ \A e \in log' : e \in log \/ (e.conn = c /\ e.at = reads[c] + 1)
  <2>1. CASE log' = log /\ attacks_detected_' = attacks_detected_
    BY <1>2, <2>1
  <2>2. ASSUME NEW x \in ReadAttacks, LET e == Entry(c, reads[c] + 1, x) IN
                  /\ e \notin log /\ e \in Reports /\ log' = With(log, e)
                  /\ attacks_detected_' = attacks_detected_ + 1
        PROVE  /\ IsFiniteSet(log') /\ CountIn(log', C) = CountIn(log, C)
               /\ CountIn(log', A) = CountIn(log, A)
               /\ attacks_detected_' = CountIn(log', S)
               /\ \A e \in log' : e \in log \/ (e.conn = c /\ e.at = reads[c] + 1)
    <3> DEFINE e == Entry(c, reads[c] + 1, x)
    <3>1. e \notin log /\ e \in Reports /\ log' = With(log, e)
      BY <2>2
    <3>2. e.event = x /\ e.conn = c /\ e.at = reads[c] + 1
      BY <1>3
    <3> HIDE DEF e
    <3>3. e \notin C /\ e \notin A /\ e \in S
      BY <3>1, <3>2 DEF WithEvent, ReadAttacks
    <3> HIDE DEF C, A, S
    <3>4. /\ IsFiniteSet(log') /\ CountIn(log', C) = CountIn(log, C)
          /\ CountIn(log', A) = CountIn(log, A) /\ CountIn(log', S) = CountIn(log, S) + 1
      <4>1. /\ IsFiniteSet(log')
            /\ \A T : CountIn(log', T) = IF e \in T THEN CountIn(log, T) + 1 ELSE CountIn(log, T)
        BY <1>2, <3>1, OneMoreOf
      <4> QED
        BY <3>3, <4>1
    <3>5. \A y \in log' : y \in log \/ (y.conn = c /\ y.at = reads[c] + 1)
      BY <3>1, <3>2 DEF With
    <3>6. attacks_detected_' = attacks_detected_ + 1
      BY <2>2
    <3> QED
      BY <1>2, <3>4, <3>5, <3>6
  <2> QED
    BY <1>4, <2>1, <2>2
<1>6. CountsTell'
  <2>1. \A events : Logged(events)' = log' \cap WithEvent(events)
    BY <1>0 DEF TypeReport, Logged, WithEvent
  <2> QED
    BY <1>1, <1>2, <1>5, <2>1 DEF CountsTell, CountIn
<1>7. \A e \in log : e.conn \in Conns
  BY <1>0 DEF TypeReport, Reports
<1>8. conn[c] = "queued" /\ \A q \in Members(queue') : q \in Members(queue) /\ (q.op = "accept" => q.conn # c)
  BY <1>0, <1>1, OnlyHandler, HeadRuns
<1>9. ASSUME NEW e \in log'
      PROVE  e.at <= reads'[e.conn] /\ conn'[e.conn] \notin {"none", "backlog"}
  <2>1. CASE e \in log
    <3>1. reads[e.conn] \in Nat /\ e.at \in Nat
      BY <1>0, <1>7, <2>1 DEF TypeReport, Reports
    <3> QED
      BY <1>0, <1>1, <1>4, <1>7, <2>1, <3>1 DEF CounterInv, TypeServer, TypeReport
  <2>2. CASE e.conn = c /\ e.at = reads[c] + 1
    BY <1>0, <1>1, <1>4, <2>2 DEF TypeServer, TypeReport
  <2> QED
    BY <1>5, <2>1, <2>2
<1>10. ASSUME NEW q \in Members(queue'), q.op = "accept", NEW e \in log'
       PROVE  e.conn # q.conn
  BY <1>5, <1>8, <1>10 DEF CounterInv
<1> QED
  BY <1>5, <1>6, <1>9, <1>10 DEF CounterInv

(* Every step keeps the agreement. *)
LEMMA CounterStep ==
  ASSUME TypeOK, TypeOK', QueueInv, CounterInv, [Next]_vars
  PROVE  CounterInv'
<1>0. TypeClient /\ TypeServer /\ TypeReport
  BY TypeParts
<1> DEFINE Quiet ==
      /\ UNCHANGED <<reads, log, modbus_connections_, attacks_detected_>>
      /\ \A c \in Conns : conn'[c] \in {"none", "backlog"} => conn[c] \in {"none", "backlog"}
      /\ \A q \in Members(queue') : q.op = "accept" =>
             q \in Members(queue) \/ conn[q.conn] \in {"none", "backlog"}
<1>1. CASE \/ CleanupDue \/ UNCHANGED vars
           \/ \E c \in Conns : \/ Connect(c) \/ Leave(c) \/ Reset(c) \/ Deliver(c)
                              \/ \E packet \in Packets : Send(c, packet)
  <2>1. UNCHANGED queue /\ UNCHANGED <<reads, log, modbus_connections_, attacks_detected_>>
    BY <1>1 DEF CleanupDue, Connect, Leave, Reset, Deliver, Send, vars, report
  <2>2. \A c \in Conns : conn'[c] = conn[c] \/ conn[c] = "none"
    <3>1. CASE \E c \in Conns : Connect(c)
      <4>1. PICK c \in Conns : Connect(c)
        BY <3>1
      <4> QED
        BY <1>0, <4>1 DEF Connect, QueueInv, TypeServer
    <3>2. CASE conn' = conn
      BY <3>2
    <3> QED
      BY <1>1, <3>1, <3>2 DEF CleanupDue, Leave, Reset, Deliver, Send, vars
  <2>3. Quiet
    BY <2>1, <2>2
  <2> QED
    BY <1>0, <2>3, LogsNothing
<1>2. CASE AcceptCompletes
  <2> DEFINE d == Head(backlog)
  <2>1. d \in Conns /\ conn[d] = "backlog"
    <3>1. backlog \in Seq(Conns) /\ backlog # <<>>
      BY <1>0, <1>2 DEF AcceptCompletes, TypeServer
    <3>2. d \in Conns /\ d \in Members(backlog)
      BY <3>1, HeadTailProperties, MembersTail
    <3>3. Cardinality(Places(backlog, Only(d))) # 0
      BY <3>1, <3>2, PlacesNone DEF Only
    <3> QED
      BY <3>2, <3>3 DEF QueueInv
  <2>2. Members(queue') = Members(queue) \union {Completion("accept", d, 0)}
    <3>1. Completion("accept", d, 0) \in Completions
      BY <2>1, SizesAssumption DEF Completion, Completions
    <3> QED
      BY <1>0, <1>2, <3>1, Joins DEF AcceptCompletes
  <2>3. Completion("accept", d, 0).conn = d
    BY DEF Completion
  <2>4. UNCHANGED <<reads, log, modbus_connections_, attacks_detected_>>
        /\ conn' = [conn EXCEPT ![d] = "queued"]
    BY <1>2 DEF AcceptCompletes, report
  <2> HIDE DEF d
  <2>5. Quiet
    BY <1>0, <2>1, <2>2, <2>3, <2>4 DEF TypeServer
  <2> QED
    BY <1>0, <2>5, LogsNothing
<1>3. CASE AcceptFails
  <2>1. Members(queue') = Members(queue) \union {Completion("no_accept", Head(backlog), 0)}
    <3>1. Head(backlog) \in Conns
      BY <1>0, <1>3, HeadTailProperties DEF AcceptFails, TypeServer
    <3>2. Completion("no_accept", Head(backlog), 0) \in Completions
      BY <3>1, SizesAssumption DEF Completion, Completions
    <3> QED
      BY <1>0, <1>3, <3>2, Joins DEF AcceptFails
  <2>2. Completion("no_accept", Head(backlog), 0).op = "no_accept"
    BY DEF Completion
  <2>3. UNCHANGED <<reads, log, modbus_connections_, attacks_detected_, conn>>
    BY <1>3 DEF AcceptFails, report
  <2>4. Quiet
    BY <2>1, <2>2, <2>3
  <2> QED
    BY <1>0, <2>4, LogsNothing
<1>4. ASSUME NEW c \in Conns, ReadCompletes(c) \/ ReadFails(c)
      PROVE  CounterInv'
  <2>1. \E e \in Completions : e.op \in {"read", "no_read"} /\ queue' = Append(queue, e)
    <3> DEFINE n == IF rx[c] < BUFFER_SIZE THEN rx[c] ELSE BUFFER_SIZE
    <3>1. n \in 0 .. BUFFER_SIZE /\ 0 \in 0 .. BUFFER_SIZE
      BY <1>0, SizesAssumption DEF TypeClient
    <3>2. queue' = Append(queue, Completion("read", c, n)) \/ queue' = Append(queue, Completion("no_read", c, 0))
      BY <1>4 DEF ReadCompletes, ReadFails
    <3> HIDE DEF n
    <3> QED
      BY <3>1, <3>2 DEF Completion, Completions
  <2>2. \A q \in Members(queue') : q \in Members(queue) \/ q.op # "accept"
    BY <1>0, <2>1, Joins
  <2>3. UNCHANGED <<reads, log, modbus_connections_, attacks_detected_>>
        /\ conn' = [conn EXCEPT ![c] = "queued"]
    BY <1>4 DEF ReadCompletes, ReadFails, report
  <2>4. Quiet
    BY <1>0, <2>2, <2>3 DEF TypeServer
  <2> QED
    BY <1>0, <2>4, LogsNothing
<1>5. ASSUME NEW c \in Conns, HandleNoAccept(c) \/ HandleNoRead(c)
      PROVE  CounterInv'
  <2>1. Members(queue') \subseteq Members(queue)
    BY <1>0, <1>5, HeadRuns DEF HandleNoAccept, HandleNoRead
  <2>2. UNCHANGED <<reads, log, modbus_connections_, attacks_detected_>>
        /\ (conn' = conn \/ conn' = [conn EXCEPT ![c] = "closed"])
    BY <1>5 DEF HandleNoAccept, HandleNoRead, report
  <2>3. Quiet
    BY <1>0, <2>1, <2>2 DEF TypeServer
  <2> QED
    BY <1>0, <2>3, LogsNothing
<1> QED
  BY <1>1, <1>2, <1>3, <1>4, <1>5, AcceptLogs, ReadLogs DEF Next, Environment, Handlers

-----------------------------------------------------------------------------
(* The bytes behind the accusations. *)

(* The bytes that the reads of a client need, *)
Large(c) == CountIn(log, Accusing(c, "LARGE_PACKET"))
Overflow(c) == CountIn(log, Accusing(c, "BUFFER_OVERFLOW_ATTEMPT"))
Scan(c) == CountIn(log, Accusing(c, "PORT_SCAN"))

Owed(c) ==
    513 * Overflow(c) + 101 * Large(c) + Scan(c)
        + 6 * (reads[c] - Large(c) - Overflow(c) - Scan(c))

(* and that each byte sent serves once: it is on its way, unread, in a     *)
(* read whose handler waits, or behind a verdict.                          *)
BytesInv ==
    /\ \A c \in Conns : Owed(c) + net[c] + rx[c] <= sent[c]
    /\ \A e \in Members(queue) : e.op = "read" =>
          /\ e.length > 0
          /\ Owed(e.conn) + e.length + net[e.conn] + rx[e.conn] <= sent[e.conn]

(* The bytes owed are a number. *)
LEMMA OwedType ==
  ASSUME IsFiniteSet(log), TypeReport, NEW c \in Conns
  PROVE  /\ Owed(c) \in Int
         /\ \A event : CountIn(log, Accusing(c, event)) \in Nat
<1>1. \A event : CountIn(log, Accusing(c, event)) \in Nat
  BY FS_Subset, FS_CardinalityType DEF CountIn
<1>2. Large(c) \in Nat /\ Overflow(c) \in Nat /\ Scan(c) \in Nat /\ reads[c] \in Nat
  BY <1>1 DEF Large, Overflow, Scan, TypeReport
<1> QED
  BY <1>1, <1>2 DEF Owed

(* Initially nothing was sent. *)
LEMMA BytesInit == Init => BytesInv
<1> SUFFICES ASSUME Init PROVE BytesInv
  OBVIOUS
<1>1. \A c, event : CountIn(log, Accusing(c, event)) = 0
  BY FS_EmptySet DEF Init, CountIn
<1>2. \A c \in Conns : Owed(c) = 0
  BY <1>1 DEF Init, Owed, Large, Overflow, Scan
<1> QED
  BY <1>2, MembersEmpty DEF Init, BytesInv

(* Every step keeps the account. *)
LEMMA BytesStep ==
  ASSUME TypeOK, TypeOK', QueueInv, CounterInv, CounterInv', BytesInv, [Next]_vars
  PROVE  BytesInv'
<1>0. TypeClient /\ TypeServer /\ TypeReport /\ TypeClient' /\ TypeServer' /\ TypeReport'
  BY TypeParts DEF TypeOK, TypeClient, TypeServer, TypeReport, Reports, Completions, ConnStates
<1>a. \A c \in Conns : /\ Owed(c) \in Int /\ Owed(c)' \in Int
                       /\ net[c] \in Nat /\ rx[c] \in Nat /\ sent[c] \in Nat
                       /\ net'[c] \in Nat /\ rx'[c] \in Nat /\ sent'[c] \in Nat
  <2>1. IsFiniteSet(log) /\ IsFiniteSet(log)'
    BY DEF CounterInv
  <2>2. \A c \in Conns : Owed(c) \in Int
    BY <1>0, <2>1, OwedType
  <2>3. \A c \in Conns : Owed(c)' \in Int
    <3>1. \A c, event : CountIn(log', Accusing(c, event)) \in Nat
      BY <2>1, FS_Subset, FS_CardinalityType DEF CountIn
    <3>2. \A c \in Conns : /\ Large(c)' \in Nat /\ Overflow(c)' \in Nat
                           /\ Scan(c)' \in Nat /\ reads'[c] \in Nat
      BY <1>0, <3>1 DEF Large, Overflow, Scan, TypeReport
    <3> QED
      BY <3>2 DEF Owed
  <2> QED
    BY <1>0, <2>2, <2>3 DEF TypeClient
<1>b. /\ \A e \in Members(queue) : e.conn \in Conns /\ e.length \in Nat
      /\ \A e \in Members(queue') : e.conn \in Conns /\ e.length \in Nat
  <2>1. Members(queue) \subseteq Completions /\ Members(queue') \subseteq Completions
    BY <1>0, MembersType DEF TypeServer
  <2> QED
    BY <2>1, CompletionParts
<1>c. log' = log /\ reads' = reads => \A c : Owed(c)' = Owed(c)
  BY DEF Owed, Large, Overflow, Scan
(* Steps that keep the log: the client's account may grow, not shrink. *)
<1>d. ASSUME log' = log, reads' = reads,
             \A c \in Conns : sent[c] - net[c] - rx[c] <= sent'[c] - net'[c] - rx'[c],
             \A e \in Members(queue') : e.op = "read" => e \in Members(queue)
      PROVE  BytesInv'
  <2>1. \A c \in Conns : Owed(c)' + net'[c] + rx'[c] <= sent'[c]
    <3> SUFFICES ASSUME NEW c \in Conns
                 PROVE  Owed(c)' + net'[c] + rx'[c] <= sent'[c]
      OBVIOUS
    <3>1. Owed(c) + net[c] + rx[c] <= sent[c] /\ Owed(c)' = Owed(c)
      BY <1>c, <1>d DEF BytesInv
    <3> QED
      BY <1>a, <1>d, <3>1
  <2>2. ASSUME NEW e \in Members(queue'), e.op = "read"
        PROVE  /\ e.length > 0
               /\ Owed(e.conn)' + e.length + net'[e.conn] + rx'[e.conn] <= sent'[e.conn]
    <3>1. /\ e.length > 0
          /\ Owed(e.conn) + e.length + net[e.conn] + rx[e.conn] <= sent[e.conn]
          /\ Owed(e.conn)' = Owed(e.conn)
      BY <1>c, <1>d, <2>2 DEF BytesInv
    <3>2. e.conn \in Conns /\ e.length \in Nat
      BY <1>b
    <3> QED
      BY <1>a, <1>d, <3>1, <3>2
  <2> QED
    BY <2>1, <2>2 DEF BytesInv
<1>1. CASE \/ CleanupDue \/ UNCHANGED vars
           \/ \E c \in Conns : Connect(c) \/ Leave(c)
  <2>1. UNCHANGED <<queue, log, reads, net, rx, sent>>
    BY <1>1 DEF CleanupDue, Connect, Leave, vars, client, report
  <2> QED
    BY <1>a, <1>d, <2>1
<1>2. ASSUME NEW c \in Conns, NEW packet \in Packets, Send(c, packet)
      PROVE  BytesInv'
  <2>1. /\ sent' = [sent EXCEPT ![c] = @ + packet] /\ net' = [net EXCEPT ![c] = @ + packet]
        /\ UNCHANGED <<rx, queue, log, reads>> /\ packet \in Nat
    BY <1>2, PacketsAssumption DEF Send, report
  <2>2. \A d \in Conns : sent[d] - net[d] - rx[d] <= sent'[d] - net'[d] - rx'[d]
    BY <1>0, <1>a, <2>1 DEF TypeClient
  <2> QED
    BY <1>d, <2>1, <2>2
<1>3. ASSUME NEW c \in Conns, Deliver(c)
      PROVE  BytesInv'
  <2>1. PICK end \in Cuts \union {sent[c]} :
           LET n == end - (sent[c] - net[c]) IN
           /\ n \in 1 .. net[c]
           /\ net' = [net EXCEPT ![c] = @ - n]
           /\ rx' = [rx EXCEPT ![c] = @ + n]
    BY <1>3 DEF Deliver
  <2> DEFINE n == end - (sent[c] - net[c])
  <2>2. n \in Nat /\ net' = [net EXCEPT ![c] = net[c] - n] /\ rx' = [rx EXCEPT ![c] = rx[c] + n]
    BY <1>a, <2>1
  <2>3. UNCHANGED <<sent, queue, log, reads>>
    BY <1>3 DEF Deliver, report
  <2> HIDE DEF n
  <2>4. \A d \in Conns : sent[d] - net[d] - rx[d] <= sent'[d] - net'[d] - rx'[d]
    BY <1>0, <1>a, <2>2, <2>3 DEF TypeClient
  <2> QED
    BY <1>d, <2>3, <2>4
<1>4. ASSUME NEW c \in Conns, Reset(c)
      PROVE  BytesInv'
  <2>1. /\ net' = [net EXCEPT ![c] = 0] /\ \E n \in {0, rx[c]} : rx' = [rx EXCEPT ![c] = n]
        /\ UNCHANGED <<sent, queue, log, reads>>
    BY <1>4 DEF Reset, report
  <2>2. \A d \in Conns : sent[d] - net[d] - rx[d] <= sent'[d] - net'[d] - rx'[d]
    BY <1>0, <1>a, <2>1 DEF TypeClient
  <2> QED
    BY <1>d, <2>1, <2>2
<1>5. CASE AcceptCompletes \/ AcceptFails \/ \E c \in Conns : ReadFails(c)
  <2>1. \E e \in Completions : e.op # "read" /\ queue' = Append(queue, e)
    <3>1. \A op \in {"accept", "no_accept", "no_read"}, c \in Conns :
             Completion(op, c, 0) \in Completions /\ Completion(op, c, 0).op = op
      BY SizesAssumption DEF Completion, Completions
    <3>2. backlog # <<>> => Head(backlog) \in Conns
      BY <1>0, HeadTailProperties DEF TypeServer
    <3> QED
      BY <1>5, <3>1, <3>2 DEF AcceptCompletes, AcceptFails, ReadFails
  <2>2. \A e \in Members(queue') : e.op = "read" => e \in Members(queue)
    BY <1>0, <2>1, Joins
  <2>3. UNCHANGED <<log, reads, net, rx, sent>>
    BY <1>5 DEF AcceptCompletes, AcceptFails, ReadFails, client, report
  <2> QED
    BY <1>a, <1>d, <2>2, <2>3
<1>6. ASSUME NEW c \in Conns, HandleNoAccept(c) \/ HandleNoRead(c)
      PROVE  BytesInv'
  <2>1. Members(queue') \subseteq Members(queue)
    BY <1>0, <1>6, HeadRuns DEF HandleNoAccept, HandleNoRead
  <2>2. UNCHANGED <<log, reads, net, rx, sent>>
    BY <1>6 DEF HandleNoAccept, HandleNoRead, client, report
  <2> QED
    BY <1>a, <1>d, <2>1, <2>2
<1>7. ASSUME NEW c \in Conns, ReadCompletes(c)
      PROVE  BytesInv'
  <2> DEFINE n == IF rx[c] < BUFFER_SIZE THEN rx[c] ELSE BUFFER_SIZE
             e == Completion("read", c, n)
  <2>1. /\ rx' = [rx EXCEPT ![c] = rx[c] - n] /\ queue' = Append(queue, e) /\ conn[c] = "reading"
        /\ UNCHANGED <<net, sent, log, reads>>
    BY <1>7 DEF ReadCompletes, client, report
  <2>2. n \in 0 .. BUFFER_SIZE /\ n \in Nat /\ n > 0
    BY <1>7, <1>a, SizesAssumption DEF ReadCompletes
  <2>3. e \in Completions /\ e.conn = c /\ e.length = n
    BY <2>2 DEF Completion, Completions
  <2> HIDE DEF n, e
  <2>4. Members(queue') = Members(queue) \union {e}
    BY <1>0, <2>1, <2>3, Joins
  <2>5. \A d \in Conns : Owed(d)' + net'[d] + rx'[d] <= sent'[d]
    <3> SUFFICES ASSUME NEW d \in Conns
                 PROVE  Owed(d)' + net'[d] + rx'[d] <= sent'[d]
      OBVIOUS
    <3>1. Owed(d) + net[d] + rx[d] <= sent[d] /\ Owed(d)' = Owed(d)
      BY <1>c, <2>1 DEF BytesInv
    <3>2. rx'[d] = rx[d] \/ rx'[d] = rx[d] - n
      BY <1>0, <2>1 DEF TypeClient
    <3> QED
      BY SMTT(30), <1>a, <2>1, <2>2, <3>1, <3>2
  <2>6. ASSUME NEW q \in Members(queue'), q.op = "read"
        PROVE  /\ q.length > 0
               /\ Owed(q.conn)' + q.length + net'[q.conn] + rx'[q.conn] <= sent'[q.conn]
    <3>1. CASE q = e
      <4>1. q.conn = c /\ q.length = n /\ rx'[c] = rx[c] - n
        BY <1>0, <2>1, <2>3, <3>1 DEF TypeClient
      <4>2. Owed(c) + net[c] + rx[c] <= sent[c] /\ Owed(c)' = Owed(c)
        BY <1>c, <2>1 DEF BytesInv
      <4> QED
        BY <1>a, <2>1, <2>2, <4>1, <4>2
    <3>2. CASE q # e
      <4>1. q \in Members(queue) /\ q.conn \in Conns /\ q.length \in Nat
        BY <1>b, <2>4, <3>2
      <4>2. q.conn # c
        BY <1>0, <2>1, <2>6, <4>1, NotQueued
      <4>3. /\ q.length > 0
            /\ Owed(q.conn) + q.length + net[q.conn] + rx[q.conn] <= sent[q.conn]
            /\ Owed(q.conn)' = Owed(q.conn) /\ rx'[q.conn] = rx[q.conn]
        BY <1>0, <1>c, <2>1, <2>6, <4>1, <4>2 DEF BytesInv, TypeClient
      <4> QED
        BY <2>1, <4>3
    <3> QED
      BY <3>1, <3>2
  <2> QED
    BY <2>5, <2>6 DEF BytesInv
<1>8. ASSUME NEW c \in Conns, HandleAccept(c)
      PROVE  BytesInv'
  <2>1. \A d \in Conns : Owed(d)' = Owed(d)
    <3>1. \A d \in Conns, event \in ReadAttacks :
             CountIn(log', Accusing(d, event)) = CountIn(log, Accusing(d, event))
      BY <1>8, AcceptLogs
    <3>2. reads' = reads
      BY <1>8 DEF HandleAccept
    <3> QED
      BY <3>1, <3>2 DEF Owed, Large, Overflow, Scan, ReadAttacks
  <2>2. UNCHANGED <<net, rx, sent>>
    BY <1>8 DEF HandleAccept, client
  <2>3. Members(queue') \subseteq Members(queue)
    BY <1>0, <1>8, HeadRuns DEF HandleAccept
  <2> QED
    BY <1>b, <2>1, <2>2, <2>3 DEF BytesInv
<1>9. ASSUME NEW c \in Conns, HandleRead(c)
      PROVE  BytesInv'
  <2> DEFINE n == Head(queue).length
  <2>1. /\ Runs("read", c) /\ queue' = Tail(queue) /\ UNCHANGED <<net, rx, sent>>
    BY <1>9 DEF HandleRead, client
  <2>2. /\ Owed(c) + n + net[c] + rx[c] <= sent[c] /\ n \in Nat /\ n > 0
    <3>1. Head(queue) \in Members(queue) /\ Head(queue).op = "read" /\ Head(queue).conn = c
      BY <1>0, <2>1, HeadRuns
    <3> QED
      BY <1>b, <3>1 DEF BytesInv
  <2>r. /\ reads[c] \in Nat /\ reads'[c] = reads[c] + 1
        /\ \A d \in Conns \ {c} : reads'[d] = reads[d]
    <3>1. reads' = [reads EXCEPT ![c] = reads[c] + 1] /\ reads[c] \in Nat
      BY <1>9, ReadEntry
    <3> QED
      BY <1>0, <3>1 DEF TypeReport
  <2>t. Large(c) \in Nat /\ Overflow(c) \in Nat /\ Scan(c) \in Nat
    <3>1. \A event : CountIn(log, Accusing(c, event)) \in Nat
      BY <1>0, OwedType DEF CounterInv
    <3> QED
      BY <3>1 DEF Large, Overflow, Scan
  <2> HIDE DEF n
  <2>3. /\ \A d \in Conns \ {c} : Owed(d)' = Owed(d)
        /\ Owed(c)' <= Owed(c) + n
    <3>1. ASSUME log' = log, Verdict(n) = {}
          PROVE  /\ \A d \in Conns \ {c} : Owed(d)' = Owed(d)
                 /\ Owed(c)' <= Owed(c) + n
      <4>1. n >= 6
        BY <2>2, <3>1, VerdictOf
      <4>2. \A d : Large(d)' = Large(d) /\ Overflow(d)' = Overflow(d) /\ Scan(d)' = Scan(d)
        BY <3>1 DEF Large, Overflow, Scan
      <4>3. Owed(c)' = Owed(c) + 6
        BY <2>r, <2>t, <4>2 DEF Owed
      <4>4. \A d \in Conns \ {c} : Owed(d)' = Owed(d)
        BY <2>r, <4>2 DEF Owed
      <4> QED
        BY <1>a, <2>2, <4>1, <4>3, <4>4
    <3>2. ASSUME NEW x \in ReadAttacks, x \in Verdict(n),
                 Entry(c, reads[c] + 1, x) \notin log,
                 Entry(c, reads[c] + 1, x) \in Reports,
                 log' = With(log, Entry(c, reads[c] + 1, x))
          PROVE  /\ \A d \in Conns \ {c} : Owed(d)' = Owed(d)
                 /\ Owed(c)' <= Owed(c) + n
      <4> DEFINE e == Entry(c, reads[c] + 1, x)
      <4>1. e.conn = c /\ e.event = x
        BY DEF Entry
      <4>2. /\ \A d \in Conns \ {c} : \A event : e \notin Accusing(d, event)
            /\ \A event : e \in Accusing(c, event) <=> x = event
        BY <3>2, <4>1 DEF Accusing
      <4>3. e \notin log /\ log' = With(log, e) /\ IsFiniteSet(log)
        BY <3>2 DEF CounterInv
      <4> HIDE DEF e
      <4>4. \A T : CountIn(log', T) = IF e \in T THEN CountIn(log, T) + 1 ELSE CountIn(log, T)
        BY <4>3, OneMoreOf
      <4>5. \A d \in Conns \ {c} : Owed(d)' = Owed(d)
        BY <2>r, <4>2, <4>4 DEF Owed, Large, Overflow, Scan
      <4>6. /\ x = "LARGE_PACKET" => n >= 101
            /\ x = "BUFFER_OVERFLOW_ATTEMPT" => n >= 513
        BY <2>2, <3>2, VerdictOf
      <4>7. /\ Large(c)' = IF x = "LARGE_PACKET" THEN Large(c) + 1 ELSE Large(c)
            /\ Overflow(c)' = IF x = "BUFFER_OVERFLOW_ATTEMPT" THEN Overflow(c) + 1 ELSE Overflow(c)
            /\ Scan(c)' = IF x = "PORT_SCAN" THEN Scan(c) + 1 ELSE Scan(c)
        BY <4>2, <4>4 DEF Large, Overflow, Scan
      <4>8. Owed(c)' <= Owed(c) + n
        <5>1. CASE x = "LARGE_PACKET"
          <6>1. Owed(c)' = Owed(c) + 101
            BY <2>r, <2>t, <4>7, <5>1 DEF Owed
          <6> QED
            BY <1>a, <2>2, <4>6, <5>1, <6>1
        <5>2. CASE x = "BUFFER_OVERFLOW_ATTEMPT"
          <6>1. Owed(c)' = Owed(c) + 513
            BY <2>r, <2>t, <4>7, <5>2 DEF Owed
          <6> QED
            BY <1>a, <2>2, <4>6, <5>2, <6>1
        <5>3. CASE x = "PORT_SCAN"
          <6>1. Owed(c)' = Owed(c) + 1
            BY <2>r, <2>t, <4>7, <5>3 DEF Owed
          <6> QED
            BY <1>a, <2>2, <6>1
        <5> QED
          BY <5>1, <5>2, <5>3 DEF ReadAttacks
      <4> QED
        BY <4>5, <4>8
    <3>3. \/ log' = log /\ Verdict(n) = {}
          \/ \E x \in ReadAttacks :
                /\ x \in Verdict(n)
                /\ Entry(c, reads[c] + 1, x) \notin log
                /\ Entry(c, reads[c] + 1, x) \in Reports
                /\ log' = With(log, Entry(c, reads[c] + 1, x))
      BY <1>9, ReadEntry DEF n
    <3> QED
      BY <3>1, <3>2, <3>3
  <2>4. \A d \in Conns : Owed(d)' + net'[d] + rx'[d] <= sent'[d]
    <3> SUFFICES ASSUME NEW d \in Conns
                 PROVE  Owed(d)' + net'[d] + rx'[d] <= sent'[d]
      OBVIOUS
    <3>1. CASE d = c
      BY SMTT(30), <1>a, <2>1, <2>2, <2>3, <3>1
    <3>2. CASE d # c
      BY <2>1, <2>3, <3>2 DEF BytesInv
    <3> QED
      BY <3>1, <3>2
  <2>5. ASSUME NEW q \in Members(queue'), q.op = "read"
        PROVE  /\ q.length > 0
               /\ Owed(q.conn)' + q.length + net'[q.conn] + rx'[q.conn] <= sent'[q.conn]
    <3>1. q \in Members(queue) /\ q.conn \in Conns \ {c}
      BY <1>0, <1>b, <2>1, <2>5, HeadRuns, OnlyHandler
    <3> QED
      BY <2>1, <2>3, <2>5, <3>1 DEF BytesInv
  <2> QED
    BY <2>4, <2>5 DEF BytesInv
<1> QED
  BY <1>1, <1>2, <1>3, <1>4, <1>5, <1>6, <1>7, <1>8, <1>9 DEF Next, Environment, Handlers

-----------------------------------------------------------------------------
(* The theorems. *)

(* The inductive invariant.  The types need the buffers of those that wait *)
(* for the handler of a read, the buffers need that a connection waits for *)
(* one handler, and so do the counters and the bytes.                      *)
IInv == TypeOK /\ QueueInv /\ PoolInv /\ DataInv /\ CounterInv /\ BytesInv

(* The specification keeps the inductive invariant. *)
LEMMA Inductive == Spec => []IInv
<1>1. Init => IInv
  BY TypeInit, QueueInit, BuffersInit, CounterInit, BytesInit DEF IInv
<1>2. IInv /\ [Next]_vars => IInv'
  <2> SUFFICES ASSUME IInv, [Next]_vars PROVE IInv'
    OBVIOUS
  <2>1. TypeOK'
    BY TypeStep DEF IInv, PoolInv
  <2>2. QueueInv'
    BY QueueStep DEF IInv
  <2>3. PoolInv' /\ DataInv'
    BY BuffersStep DEF IInv
  <2>4. CounterInv'
    BY <2>1, CounterStep DEF IInv
  <2>5. BytesInv'
    BY <2>1, <2>4, BytesStep DEF IInv
  <2> QED
    BY <2>1, <2>2, <2>3, <2>4, <2>5 DEF IInv
<1> QED
  BY <1>1, <1>2, PTL DEF Spec

(* The places of a queue and of its members are what the properties speak  *)
(* of.                                                                     *)
LEMMA DomainOfSeq ==
  ASSUME NEW S, NEW s \in Seq(S)
  PROVE  DOMAIN s = 1 .. Len(s)
OBVIOUS

(* Every connection has one asynchronous operation under way, and the      *)
(* acceptor waits or its handler does (start_accept, handle_client).       *)
THEOREM SpecOneOperation == Spec => []OneOperation
<1>1. ASSUME IInv PROVE OneOperation
  <2>0. TypeServer
    BY <1>1, TypeParts DEF IInv
  <2>1. DOMAIN queue = 1 .. Len(queue) /\ DOMAIN backlog = 1 .. Len(backlog)
    BY <2>0, DomainOfSeq DEF TypeServer
  <2>2. \A i \in DOMAIN queue : queue[i] \in Completions
    BY <2>0, <2>1, ElementOfSeq DEF TypeServer
  <2>3. ASSUME NEW c \in Conns
        PROVE  Cardinality({i \in DOMAIN queue : queue[i].conn = c /\ queue[i].op # "no_accept"})
                   = IF conn[c] = "queued" THEN 1 ELSE 0
    <3>1. {i \in DOMAIN queue : queue[i].conn = c /\ queue[i].op # "no_accept"} = Places(queue, Of(c))
      BY <2>1, <2>2 DEF Places, Of
    <3> QED
      BY <1>1, <3>1 DEF IInv, QueueInv
  <2>4. Cardinality({i \in DOMAIN queue : queue[i].op \in {"accept", "no_accept"}})
            = IF acceptor_ = "queued" THEN 1 ELSE 0
    <3>1. {i \in DOMAIN queue : queue[i].op \in {"accept", "no_accept"}} = Places(queue, Accepts)
      BY <2>1, <2>2 DEF Places, Accepts
    <3> QED
      BY <1>1, <3>1 DEF IInv, QueueInv
  <2>5. ASSUME NEW c \in Conns
        PROVE  Cardinality({i \in DOMAIN backlog : backlog[i] = c})
                   = IF conn[c] = "backlog" THEN 1 ELSE 0
    <3>1. {i \in DOMAIN backlog : backlog[i] = c} = Places(backlog, Only(c))
      BY <2>1 DEF Places, Only
    <3> QED
      BY <1>1, <3>1 DEF IInv, QueueInv
  <2> QED
    BY <2>3, <2>4, <2>5, Zenon DEF OneOperation
<1> QED
  BY <1>1, Inductive, PTL

(* The variables keep their types: no read is longer than its buffer and   *)
(* the pool keeps to its limit.                                            *)
THEOREM TypeCorrect == Spec => []TypeOK
<1>1. IInv => TypeOK
  BY DEF IInv
<1> QED
  BY <1>1, Inductive, PTL

(* Every buffer has one owner: the pool or one connection (get_buffer and  *)
(* return_buffer, which may drop what it is given and clean the pool up).  *)
THEOREM SpecExclusive == Spec => []Exclusive
<1>1. ASSUME IInv PROVE Exclusive
  <2>1. TypeOK /\ PoolInv /\ DOMAIN buffer_pool_ = 1 .. Len(buffer_pool_)
    BY <1>1, TypeParts, DomainOfSeq DEF IInv, TypePool
  <2> QED
    BY <2>1 DEF Exclusive, PoolInv, Distinct, Members
<1> QED
  BY <1>1, Inductive, PTL

(* One client's data never reaches another's read: return_buffer clears    *)
(* what it keeps.                                                          *)
THEOREM SpecNoStaleData == Spec => []NoStaleData
<1>1. ASSUME IInv PROVE NoStaleData
  <2>1. /\ DataInv
        /\ DOMAIN buffer_pool_ = 1 .. Len(buffer_pool_) /\ DOMAIN queue = 1 .. Len(queue)
    BY <1>1, TypeParts, DomainOfSeq DEF IInv, TypePool, TypeServer
  <2> QED
    BY <2>1 DEF NoStaleData, DataInv, Members
<1> QED
  BY <1>1, Inductive, PTL

(* The entries of a severity are those of reads and those of refused       *)
(* authentications.                                                        *)
LEMMA SevereEntries ==
  ASSUME IsFiniteSet(log)
  PROVE  Cardinality(Logged(Severe))
             = Cardinality(Logged(ReadAttacks)) + Cardinality(Logged({"UNAUTHORIZED_ACCESS"}))
<1> DEFINE A == Logged(ReadAttacks)
           B == Logged({"UNAUTHORIZED_ACCESS"})
<1>1. Logged(Severe) = A \union B /\ A \cap B = {}
  BY DEF Logged, Severe, ReadAttacks
<1>2. IsFiniteSet(A) /\ IsFiniteSet(B)
  <2>1. A \subseteq log /\ B \subseteq log
    BY DEF Logged
  <2> QED
    BY <2>1, FS_Subset
<1> HIDE DEF A, B
<1>3. Cardinality(A \union B) = Cardinality(A) + Cardinality(B) - Cardinality(A \cap B)
  BY <1>2, FS_Union
<1>4. /\ Cardinality(A \cap B) = 0
      /\ Cardinality(A) \in Nat /\ Cardinality(B) \in Nat
  BY <1>1, <1>2, FS_EmptySet, FS_CardinalityType
<1>5. Cardinality(Logged(Severe)) = Cardinality(A) + Cardinality(B)
  BY <1>1, <1>3, <1>4
<1> QED
  BY <1>5 DEF A, B

(* The counters of the dashboard fall behind the log by the refused        *)
(* authentications, and by nothing else (start_accept, handle_client).     *)
THEOREM SpecCountersMatchLog == Spec => []CountersMatchLog
<1>1. ASSUME IInv PROVE CountersMatchLog
  <2>1. CountsTell /\ IsFiniteSet(log)
    BY <1>1 DEF IInv, CounterInv
  <2>2. Cardinality(Logged(Severe))
            = attacks_detected_ + Cardinality(Logged({"UNAUTHORIZED_ACCESS"}))
    BY <2>1, SevereEntries DEF CountsTell
  <2> QED
    BY <2>1, <2>2 DEF CountersMatchLog, CountsTell
<1> QED
  BY <1>1, Inductive, PTL

(* The verdicts on a client's reads need no more bytes than it has sent,   *)
(* so handle_client judges no byte twice and none of another connection.   *)
THEOREM SpecAccusationsBacked == Spec => []AccusationsBacked
<1>1. ASSUME IInv, NEW c \in Conns
      PROVE  513 * Overflow(c) + 101 * Large(c) + Scan(c)
                 + 6 * (reads[c] - Large(c) - Overflow(c) - Scan(c)) <= sent[c]
  <2>1. TypeClient /\ TypeReport /\ IsFiniteSet(log)
    BY <1>1, TypeParts DEF IInv, CounterInv
  <2>2. Owed(c) + net[c] + rx[c] <= sent[c]
    BY <1>1 DEF IInv, BytesInv
  <2>3. Owed(c) \in Int /\ net[c] \in Nat /\ rx[c] \in Nat /\ sent[c] \in Nat
    BY <2>1, OwedType DEF TypeClient
  <2>4. Owed(c) <= sent[c]
    BY <2>2, <2>3
  <2> QED
    BY <2>4 DEF Owed
<1>2. ASSUME IInv PROVE AccusationsBacked
  <2>1. TypeReport
    BY <1>2, TypeParts DEF IInv
  <2>2. \A c \in Conns : \A event : Accusations(c, event) = CountIn(log, Accusing(c, event))
    <3>1. \A c, event : {e \in log : e.conn = c /\ e.event = event} = log \cap Accusing(c, event)
      BY <2>1 DEF TypeReport, Accusing
    <3> QED
      BY <3>1 DEF Accusations, CountIn
  <2>3. \A c \in Conns : /\ Accusations(c, "LARGE_PACKET") = Large(c)
                         /\ Accusations(c, "BUFFER_OVERFLOW_ATTEMPT") = Overflow(c)
                         /\ Accusations(c, "PORT_SCAN") = Scan(c)
    BY <2>2 DEF Large, Overflow, Scan
  <2> QED
    BY <1>1, <1>2, <2>3 DEF AccusationsBacked
<1> QED
  BY <1>2, Inductive, PTL

-----------------------------------------------------------------------------
(* The configuration.                                                      *)
HIDE BuffersAssumption
HIDE SizesAssumption
HIDE PacketsAssumption

(* The sum over a set is over a chosen element and the rest. *)
Chosen(T) == CHOOSE x \in T : TRUE

SumTurn(w, D, g) == [T \in SUBSET D |-> IF T = {} THEN 0 ELSE w[Chosen(T)] + g[T \ {Chosen(T)}]]

IsSum(g, w, D) == g = SumTurn(w, D, g)

(* What a step of the sum does to the size of a set. *)
LEMMA ChosenLess ==
  ASSUME NEW D, IsFiniteSet(D), NEW T \in SUBSET D, T # {}
  PROVE  /\ Chosen(T) \in T /\ T \ {Chosen(T)} \in SUBSET D
         /\ \A n \in Nat : Cardinality(T) <= n + 1 => Cardinality(T \ {Chosen(T)}) <= n
<1>1. Chosen(T) \in T
  BY DEF Chosen
<1>2. IsFiniteSet(T)
  BY FS_Subset
<1>3. Cardinality(T \ {Chosen(T)}) = Cardinality(T) - 1 /\ Cardinality(T) \in Nat
  BY <1>1, <1>2, FS_RemoveElement, FS_CardinalityType
<1> QED
  BY <1>1, <1>3

(* There is a function that is the sum over every subset. *)
LEMMA SumExists ==
  ASSUME NEW D, IsFiniteSet(D), NEW w \in [D -> Nat]
  PROVE  \E g \in [SUBSET D -> Nat] : IsSum(g, w, D)
<1> DEFINE S == [SUBSET D -> Nat]
           n == Cardinality(D)
           last == n + 1
           step == [i \in 1 .. last |-> [g \in S |-> SumTurn(w, D, g)]]
           zero == [T \in SUBSET D |-> 0]
<1>1. n \in Nat /\ last \in Nat
  BY FS_CardinalityType
<1>2. zero \in S
  OBVIOUS
<1>3. \A g \in S : SumTurn(w, D, g) \in S
  <2> SUFFICES ASSUME NEW g \in S, NEW T \in SUBSET D, T # {}
               PROVE  w[Chosen(T)] + g[T \ {Chosen(T)}] \in Nat
    BY DEF SumTurn
  <2>1. Chosen(T) \in D /\ T \ {Chosen(T)} \in SUBSET D
    BY ChosenLess
  <2> QED
    BY <2>1
<1>4. step \in [1 .. last -> [S -> S]]
  BY <1>3
<1>5. PICK f \in [0 .. last -> S] :
          f[0] = zero /\ \A i \in 1 .. last : f[i] = step[i][f[i - 1]]
  <2> HIDE DEF S, n, last, step, zero
  <2> QED
    BY <1>1, <1>2, <1>4, Recursion
<1>6. \A i \in 1 .. last : f[i] = SumTurn(w, D, f[i - 1])
  <2> SUFFICES ASSUME NEW i \in 1 .. last
               PROVE  f[i] = SumTurn(w, D, f[i - 1])
    OBVIOUS
  <2>1. i - 1 \in 0 .. last
    BY <1>1
  <2>2. f[i - 1] \in S
    BY <1>5, <2>1
  <2> QED
    BY <1>5, <2>2
<1> DEFINE Stable == {i \in Nat : i <= n => \A T \in SUBSET D :
                                      Cardinality(T) <= i => f[i + 1][T] = f[i][T]}
<1>7. 0 \in Stable
  <2> SUFFICES ASSUME NEW T \in SUBSET D, Cardinality(T) <= 0
               PROVE  f[1][T] = f[0][T]
    OBVIOUS
  <2>1. T = {}
    BY FS_Subset, FS_CardinalityType, FS_EmptySet
  <2>2. f[1] = SumTurn(w, D, f[0])
    <3>1. 1 \in 1 .. last /\ 1 - 1 = 0
      BY <1>1
    <3> HIDE DEF n
    <3> QED
      BY <1>6, <3>1
  <2>3. f[0][T] = 0
    BY <1>5
  <2> QED
    BY <2>1, <2>2, <2>3 DEF SumTurn
<1>8. ASSUME NEW i \in Nat, i \in Stable
      PROVE  i + 1 \in Stable
  <2> SUFFICES ASSUME i + 1 <= n, NEW T \in SUBSET D, Cardinality(T) <= i + 1
               PROVE  f[i + 2][T] = f[i + 1][T]
    OBVIOUS
  <2>1. f[i + 2] = SumTurn(w, D, f[i + 1]) /\ f[i + 1] = SumTurn(w, D, f[i])
    <3>1. i + 2 \in 1 .. last /\ i + 1 \in 1 .. last /\ (i + 2) - 1 = i + 1 /\ (i + 1) - 1 = i
      BY <1>1
    <3> HIDE DEF n
    <3> QED
      BY <1>6, <3>1
  <2>2. CASE T = {}
    BY <2>1, <2>2 DEF SumTurn
  <2>3. CASE T # {}
    <3> DEFINE U == T \ {Chosen(T)}
    <3>1. U \in SUBSET D /\ Cardinality(U) <= i
      BY <2>3, ChosenLess
    <3>2. f[i + 1][U] = f[i][U]
      BY <1>1, <1>8, <3>1
    <3> QED
      BY <2>1, <2>3, <3>2 DEF SumTurn
  <2> QED
    BY <2>2, <2>3
<1>9. n \in Stable
  <2> HIDE DEF Stable, n
  <2> QED
    BY <1>1, <1>7, <1>8, Induction
<1>10. \A T \in SUBSET D : f[n + 1][T] = f[n][T]
  <2> SUFFICES ASSUME NEW T \in SUBSET D
               PROVE  f[n + 1][T] = f[n][T]
    OBVIOUS
  <2>1. Cardinality(T) <= n
    BY FS_Subset
  <2> QED
    BY <1>1, <1>9, <2>1
<1>11. f[n] \in S /\ f[n + 1] \in S /\ f[n + 1] = SumTurn(w, D, f[n])
  <2>1. n \in Nat
    BY <1>1
  <2> HIDE DEF n
  <2>2. n \in 0 .. last /\ n + 1 \in 1 .. last /\ n + 1 \in 0 .. last /\ (n + 1) - 1 = n
    BY <2>1
  <2> QED
    BY <1>5, <1>6, <2>2
<1>12. f[n + 1] = f[n]
  BY <1>10, <1>11
<1> QED
  BY <1>11, <1>12 DEF IsSum

(* Its values are numbers.                                                 *)
SumsUp(g, w, D) ==
    /\ g \in [SUBSET D -> Nat]
    /\ g[{}] = 0
    /\ \A T \in SUBSET D : T # {} => g[T] = w[Chosen(T)] + g[T \ {Chosen(T)}]

(* The sums of numbers are numbers.                                        *)
LEMMA SumNat ==
  ASSUME NEW D, IsFiniteSet(D), NEW w \in [D -> Nat], NEW g, IsSum(g, w, D)
  PROVE  SumsUp(g, w, D)
<1> DEFINE Sums == {i \in Nat : \A T \in SUBSET D : Cardinality(T) <= i => g[T] \in Nat}
<1>1. g[{}] = 0 /\ \A T \in SUBSET D : T # {} => g[T] = w[Chosen(T)] + g[T \ {Chosen(T)}]
  <2>1. \A T \in SUBSET D :
            SumTurn(w, D, g)[T] = IF T = {} THEN 0 ELSE w[Chosen(T)] + g[T \ {Chosen(T)}]
    BY DEF SumTurn
  <2>2. \A T \in SUBSET D : g[T] = SumTurn(w, D, g)[T]
    BY DEF IsSum
  <2>3. {} \in SUBSET D
    OBVIOUS
  <2> QED
    BY <2>1, <2>2, <2>3
<1>2. 0 \in Sums
  <2> SUFFICES ASSUME NEW T \in SUBSET D, Cardinality(T) <= 0
               PROVE  g[T] \in Nat
    OBVIOUS
  <2>1. T = {}
    BY FS_Subset, FS_CardinalityType, FS_EmptySet
  <2> QED
    BY <1>1, <2>1
<1>3. ASSUME NEW i \in Nat, i \in Sums
      PROVE  i + 1 \in Sums
  <2> SUFFICES ASSUME NEW T \in SUBSET D, Cardinality(T) <= i + 1
               PROVE  g[T] \in Nat
    OBVIOUS
  <2>1. CASE T = {}
    BY <1>1, <2>1
  <2>2. CASE T # {}
    <3>1. Chosen(T) \in D /\ T \ {Chosen(T)} \in SUBSET D /\ Cardinality(T \ {Chosen(T)}) <= i
      BY <2>2, ChosenLess
    <3>2. g[T \ {Chosen(T)}] \in Nat
      BY <1>3, <3>1
    <3>3. g[T] = w[Chosen(T)] + g[T \ {Chosen(T)}]
      BY <1>1, <2>2
    <3>4. w[Chosen(T)] \in Nat
      BY <3>1
    <3> QED
      BY <3>2, <3>3, <3>4
  <2> QED
    BY <2>1, <2>2
<1>4. Cardinality(D) \in Nat /\ Nat \subseteq Sums
  <2> HIDE DEF Sums
  <2> QED
    BY <1>2, <1>3, Induction, FS_CardinalityType
<1>5. \A T \in SUBSET D : g[T] \in Nat
  <2> SUFFICES ASSUME NEW T \in SUBSET D
               PROVE  g[T] \in Nat
    OBVIOUS
  <2>1. Cardinality(T) <= Cardinality(D)
    BY FS_Subset
  <2> QED
    BY <1>4, <2>1
<1>6. g = [T \in SUBSET D |-> g[T]]
  BY DEF IsSum, SumTurn
<1> QED
  BY <1>1, <1>5, <1>6 DEF SumsUp

(* Total takes such a function at the whole set.                           *)
LEMMA TotalDef ==
  ASSUME NEW D, IsFiniteSet(D), NEW w \in [D -> Nat]
  PROVE  \E g : SumsUp(g, w, D) /\ Total(w) = g[D]
<1> DEFINE Is(g) == g = SumTurn(w, D, g)
           sum == CHOOSE g : Is(g)
<1>1. \E g : Is(g)
  BY SumExists DEF IsSum
<1>2. Is(sum)
  <2> HIDE DEF Is
  <2> QED
    BY <1>1
<1>3. Total(w) = sum[D]
  <2>1. DOMAIN w = D
    OBVIOUS
  <2> QED
    BY <2>1 DEF Total, MapThenSumSet, MapThenFoldSet, SumTurn, Chosen
<1>4. SumsUp(sum, w, D)
  <2> HIDE DEF sum
  <2>1. IsSum(sum, w, D)
    BY <1>2 DEF IsSum
  <2> QED
    BY <2>1, SumNat
<1> QED
  BY <1>3, <1>4

(* Any element can be taken first.                                         *)
LEMMA SumLess ==
  ASSUME NEW D, IsFiniteSet(D), NEW w \in [D -> Nat], NEW g, SumsUp(g, w, D)
  PROVE  \A T \in SUBSET D : \A k \in T : g[T] = w[k] + g[T \ {k}]
<1> DEFINE Free == {i \in Nat : \A T \in SUBSET D :
                        Cardinality(T) <= i => \A k \in T : g[T] = w[k] + g[T \ {k}]}
<1>1. /\ g \in [SUBSET D -> Nat]
      /\ \A T \in SUBSET D : T # {} => g[T] = w[Chosen(T)] + g[T \ {Chosen(T)}]
  BY DEF SumsUp
<1>2. 0 \in Free
  <2> SUFFICES ASSUME NEW T \in SUBSET D, Cardinality(T) <= 0, NEW k \in T
               PROVE  FALSE
    OBVIOUS
  <2> QED
    BY FS_Subset, FS_CardinalityType, FS_EmptySet
<1>3. ASSUME NEW i \in Nat, i \in Free
      PROVE  i + 1 \in Free
  <2> SUFFICES ASSUME NEW T \in SUBSET D, Cardinality(T) <= i + 1, NEW k \in T
               PROVE  g[T] = w[k] + g[T \ {k}]
    OBVIOUS
  <2> DEFINE x == Chosen(T)
  <2>1. x \in T /\ T \ {x} \in SUBSET D /\ Cardinality(T \ {x}) <= i
    BY ChosenLess
  <2>2. g[T] = w[x] + g[T \ {x}]
    BY <1>1
  <2>3. CASE x = k
    BY <2>2, <2>3
  <2>4. CASE x # k
    <3>1. k \in T \ {x} /\ x \in T \ {k} /\ T \ {k} \in SUBSET D
      BY <2>1, <2>4
    <3>2. g[T \ {x}] = w[k] + g[(T \ {x}) \ {k}]
      BY <1>3, <2>1, <3>1
    <3>3. Cardinality(T \ {k}) <= i
      <4>1. IsFiniteSet(T)
        BY FS_Subset
      <4>2. Cardinality(T \ {k}) = Cardinality(T) - 1 /\ Cardinality(T) \in Nat
        BY <4>1, FS_RemoveElement, FS_CardinalityType
      <4> QED
        BY <4>2
    <3>4. g[T \ {k}] = w[x] + g[(T \ {k}) \ {x}]
      BY <1>3, <3>1, <3>3
    <3>5. (T \ {k}) \ {x} = (T \ {x}) \ {k} /\ (T \ {x}) \ {k} \in SUBSET D
      OBVIOUS
    <3>6. w[x] \in Nat /\ w[k] \in Nat /\ g[(T \ {x}) \ {k}] \in Nat
      BY <1>1, <2>1, <3>5
    <3> HIDE DEF x
    <3> QED
      BY <2>2, <3>2, <3>4, <3>5, <3>6
  <2> QED
    BY <2>3, <2>4
<1>4. Nat \subseteq Free
  <2> HIDE DEF Free
  <2> QED
    BY <1>2, <1>3, Induction
<1> QED
  <2> SUFFICES ASSUME NEW T \in SUBSET D, NEW k \in T
               PROVE  g[T] = w[k] + g[T \ {k}]
    OBVIOUS
  <2>1. Cardinality(T) \in Nat
    BY FS_Subset, FS_CardinalityType
  <2> QED
    BY <1>4, <2>1

(* Two such functions agree where their summands do.                       *)
LEMMA SumSame ==
  ASSUME NEW D, IsFiniteSet(D), NEW w \in [D -> Nat], NEW g, SumsUp(g, w, D),
         NEW E \in SUBSET D, NEW v \in [E -> Nat], NEW h, SumsUp(h, v, E),
         \A k \in E : v[k] = w[k]
  PROVE  h[E] = g[E]
<1> DEFINE Same == {i \in Nat : \A T \in SUBSET E : Cardinality(T) <= i => h[T] = g[T]}
<1>1. IsFiniteSet(E)
  BY FS_Subset
<1>2. /\ g[{}] = 0
      /\ \A T \in SUBSET E : T # {} => g[T] = w[Chosen(T)] + g[T \ {Chosen(T)}]
  BY DEF SumsUp
<1>3. /\ h[{}] = 0
      /\ \A T \in SUBSET E : T # {} => h[T] = v[Chosen(T)] + h[T \ {Chosen(T)}]
  BY <1>1 DEF SumsUp
<1>4. 0 \in Same
  <2> SUFFICES ASSUME NEW T \in SUBSET E, Cardinality(T) <= 0
               PROVE  h[T] = g[T]
    OBVIOUS
  <2>1. T = {}
    BY <1>1, FS_Subset, FS_CardinalityType, FS_EmptySet
  <2> QED
    BY <1>2, <1>3, <2>1
<1>5. ASSUME NEW i \in Nat, i \in Same
      PROVE  i + 1 \in Same
  <2> SUFFICES ASSUME NEW T \in SUBSET E, Cardinality(T) <= i + 1
               PROVE  h[T] = g[T]
    OBVIOUS
  <2>1. CASE T = {}
    BY <1>2, <1>3, <2>1
  <2>2. CASE T # {}
    <3>1. Chosen(T) \in E /\ T \ {Chosen(T)} \in SUBSET E /\ Cardinality(T \ {Chosen(T)}) <= i
      BY <1>1, <2>2, ChosenLess
    <3>2. h[T \ {Chosen(T)}] = g[T \ {Chosen(T)}]
      BY <1>5, <3>1
    <3> QED
      BY <1>2, <1>3, <2>2, <3>1, <3>2
  <2> QED
    BY <2>1, <2>2
<1>6. Nat \subseteq Same
  <2> HIDE DEF Same
  <2> QED
    BY <1>4, <1>5, Induction
<1>7. Cardinality(E) \in Nat
  BY <1>1, FS_CardinalityType
<1> QED
  BY <1>6, <1>7

(* So a total is any one of its summands and the total of the others.      *)
LEMMA TotalLess ==
  ASSUME NEW D, IsFiniteSet(D), NEW w \in [D -> Nat], NEW k \in D
  PROVE  /\ Total([j \in D \ {k} |-> w[j]]) \in Nat
         /\ Total(w) = w[k] + Total([j \in D \ {k} |-> w[j]])
<1> DEFINE E == D \ {k}
           v == [j \in E |-> w[j]]
<1>1. IsFiniteSet(E) /\ v \in [E -> Nat] /\ \A j \in E : v[j] = w[j]
  BY FS_Subset
<1>2. PICK g : SumsUp(g, w, D) /\ Total(w) = g[D]
  BY TotalDef
<1>3. PICK h : SumsUp(h, v, E) /\ Total(v) = h[E]
  <2> HIDE DEF E, v
  <2> QED
    BY <1>1, TotalDef
<1>4. h[E] = g[E] /\ h[E] \in Nat
  <2>1. E \in SUBSET D
    OBVIOUS
  <2> HIDE DEF E, v
  <2>2. h \in [SUBSET E -> Nat]
    BY <1>1, <1>3 DEF SumsUp
  <2> QED
    BY <1>1, <1>2, <1>3, <2>1, <2>2, SumSame
<1>5. g[D] = w[k] + g[E]
  BY <1>2, SumLess
<1> QED
  BY <1>2, <1>3, <1>4, <1>5

(* The total of nothing is zero, which is what a field adds to the size    *)
(* when nothing of it is written.                                          *)
LEMMA TotalNone == \A w : DOMAIN w = {} /\ w \in [{} -> Nat] => Total(w) = 0
<1> SUFFICES ASSUME NEW w \in [{} -> Nat]
             PROVE  Total(w) = 0
  OBVIOUS
<1>1. IsFiniteSet({})
  BY FS_EmptySet
<1>2. PICK g : SumsUp(g, w, {}) /\ Total(w) = g[{}]
  BY <1>1, TotalDef
<1> QED
  BY <1>1, <1>2 DEF SumsUp

(* A total of numbers is a number.                                         *)
LEMMA TotalNat ==
  ASSUME NEW D, IsFiniteSet(D), NEW w \in [D -> Nat]
  PROVE  Total(w) \in Nat
<1>1. PICK g : SumsUp(g, w, D) /\ Total(w) = g[D]
  BY TotalDef
<1> QED
  BY <1>1 DEF SumsUp

-----------------------------------------------------------------------------
(* Numbers and lengths that a varint of two bytes can hold.                *)
Short == 0 .. 16383

(* A number below the limit is short.                                      *)
LEMMA BelowLimit == \A n \in Nat : n < 16384 => n \in Short
<1> SUFFICES ASSUME NEW n \in Nat, n < 16384
             PROVE  n \in Short
  OBVIOUS
<1> DEFINE b == 16383
<1>1. n <= b /\ b \in Nat
  OBVIOUS
<1>2. Short = 0 .. b
  BY DEF Short
<1> HIDE DEF b
<1> QED
  BY <1>1, <1>2

(* The two bytes of a longer varint: the first has the mark that one more  *)
(* follows, the second has not, and together they make the number.         *)
LEMMA HighAndLow ==
  ASSUME NEW n \in Short
  PROVE  /\ 128 + (n % 128) \in Byte /\ 128 + (n % 128) >= 128
         /\ n \div 128 \in Byte /\ n \div 128 < 128
         /\ (128 + (n % 128)) - 128 + 128 * (n \div 128) = n
<1>1. n \in Nat /\ n < 16384
  BY DEF Short
<1>2. n % 128 \in 0 .. 127
  BY <1>1
<1>3. n = 128 * (n \div 128) + (n % 128) /\ n \div 128 \in Int
  BY <1>1
<1>4. n \div 128 \in 0 .. 127
  BY <1>1, <1>2, <1>3
<1> QED
  BY <1>2, <1>3, <1>4 DEF Byte

(* A varint is one or two bytes, as many as VarintSize says.               *)
LEMMA VarintType ==
  ASSUME NEW n \in Short
  PROVE  /\ Varint(n) \in Seq(Byte) /\ Len(Varint(n)) = VarintSize(n)
         /\ VarintSize(n) \in 1 .. 2
<1>1. CASE n < 128
  <2>1. Varint(n) = <<n>>
    BY <1>1 DEF Varint
  <2>2. VarintSize(n) = 1
    BY <1>1 DEF VarintSize
  <2>3. n \in Nat
    BY DEF Short
  <2>4. n \in Byte
    BY <1>1, <2>3 DEF Byte
  <2> QED
    BY <2>1, <2>2, <2>4
<1>2. CASE n >= 128
  <2> DEFINE a == 128 + (n % 128)
             b == n \div 128
  <2>1. Varint(n) = <<a, b>> /\ VarintSize(n) = 2
    BY <1>2 DEF Varint, VarintSize, Short
  <2>2. a \in Byte /\ b \in Byte
    BY <1>2, HighAndLow
  <2> HIDE DEF a, b
  <2> QED
    BY <2>1, <2>2
<1> QED
  BY <1>1, <1>2 DEF Short

(* Joining sequences of bytes.                                             *)
LEMMA JoinBytes ==
  ASSUME NEW a \in Seq(Byte), NEW b \in Seq(Byte)
  PROVE  /\ a \o b \in Seq(Byte) /\ Len(a \o b) = Len(a) + Len(b)
         /\ Len(a) \in Nat /\ Len(b) \in Nat
  OBVIOUS

(* A field of bytes has the size computed for it,                          *)
LEMMA BytesFieldType ==
  ASSUME NEW f \in 1 .. 7, NEW bytes \in Seq(Byte), Len(bytes) \in Short
  PROVE  /\ BytesField(f, bytes) \in Seq(Byte)
         /\ Len(BytesField(f, bytes)) = 1 + BytesSize(Len(bytes))
         /\ BytesSize(Len(bytes)) \in Nat /\ BytesSize(Len(bytes)) <= Len(bytes) + 2
<1> DEFINE t == <<8 * f + 2>>
           v == Varint(Len(bytes))
<1>1. t \in Seq(Byte) /\ Len(t) = 1
  BY DEF Byte
<1>2. v \in Seq(Byte) /\ Len(v) = VarintSize(Len(bytes)) /\ VarintSize(Len(bytes)) \in 1 .. 2
  BY VarintType
<1>3. BytesField(f, bytes) = t \o v \o bytes
  BY DEF BytesField
<1>4. BytesSize(Len(bytes)) = VarintSize(Len(bytes)) + Len(bytes)
  BY DEF BytesSize
<1> HIDE DEF t, v
<1>5. t \o v \in Seq(Byte) /\ Len(t \o v) = 1 + VarintSize(Len(bytes))
  BY <1>1, <1>2, JoinBytes
<1> QED
  BY <1>2, <1>3, <1>4, <1>5, JoinBytes

(* a field with a number as well,                                          *)
LEMMA VarintFieldType ==
  ASSUME NEW f \in 1 .. 7, NEW n \in Short
  PROVE  /\ VarintField(f, n) \in Seq(Byte) /\ Len(VarintField(f, n)) = 1 + VarintSize(n)
         /\ VarintSize(n) \in 1 .. 2
<1> DEFINE t == <<8 * f>>
<1>1. t \in Seq(Byte) /\ Len(t) = 1
  BY DEF Byte
<1>2. VarintField(f, n) = t \o Varint(n)
  BY DEF VarintField
<1> HIDE DEF t
<1> QED
  BY <1>1, <1>2, VarintType, JoinBytes

(* and one that is left out when it is zero.                               *)
LEMMA UnlessZeroType ==
  ASSUME NEW f \in 1 .. 7, NEW n \in Short
  PROVE  UnlessZero(f, n) \in Seq(Byte) /\ Len(UnlessZero(f, n)) = FieldSize(n) /\ FieldSize(n) \in 0 .. 3
<1>1. CASE n = 0
  BY <1>1 DEF UnlessZero, FieldSize
<1>2. CASE n # 0
  <2>1. UnlessZero(f, n) = VarintField(f, n) /\ FieldSize(n) = 1 + VarintSize(n)
    BY <1>2 DEF UnlessZero, FieldSize
  <2> QED
    BY <2>1, VarintFieldType
<1> QED
  BY <1>1, <1>2

(* A timer with its numbers.                                               *)
LEMMA TimerFields3 ==
  ASSUME NEW t \in TimerCounter
  PROVE  /\ t.preset_value \in Numbers /\ t.current_value \in Numbers /\ t.enabled \in BOOLEAN
         /\ t.preset_value \in Short /\ t.current_value \in Short
         /\ (IF t.enabled THEN 1 ELSE 0) \in Short
<1>1. t.preset_value \in Numbers /\ t.current_value \in Numbers /\ t.enabled \in BOOLEAN
  BY DEF TimerCounter
<1>2. t.preset_value \in Short /\ t.current_value \in Short
  <2>1. Numbers \subseteq Short
    BY SMTT(30), NumbersAssumption DEF Short
  <2> QED
    BY <1>1, <2>1
<1>3. (IF t.enabled THEN 1 ELSE 0) \in Short
  BY DEF Short
<1> QED
  BY <1>1, <1>2, <1>3

(* A timer has the size computed for it, whichever of its fields are left  *)
(* out.                                                                    *)
LEMMA TimerBytesType ==
  ASSUME NEW t \in TimerCounter
  PROVE  /\ TimerBytes(t) \in Seq(Byte) /\ Len(TimerBytes(t)) = TimerByteSize(t)
         /\ TimerByteSize(t) \in 0 .. 9
<1> DEFINE a == UnlessZero(1, t.preset_value)
           b == UnlessZero(2, t.current_value)
           e == IF t.enabled THEN 1 ELSE 0
           c == UnlessZero(3, e)
<1>1. t.preset_value \in Short /\ t.current_value \in Short /\ e \in Short
  BY TimerFields3
<1>2. FieldSize(e) = IF t.enabled THEN 2 ELSE 0
  BY DEF FieldSize, VarintSize
<1>3. TimerBytes(t) = a \o b \o c
  BY DEF TimerBytes
<1>4. TimerByteSize(t) = FieldSize(t.preset_value) + FieldSize(t.current_value) + FieldSize(e)
  BY <1>2 DEF TimerByteSize
<1>5. /\ a \in Seq(Byte) /\ Len(a) = FieldSize(t.preset_value) /\ FieldSize(t.preset_value) \in 0 .. 3
      /\ b \in Seq(Byte) /\ Len(b) = FieldSize(t.current_value) /\ FieldSize(t.current_value) \in 0 .. 3
      /\ c \in Seq(Byte) /\ Len(c) = FieldSize(e) /\ FieldSize(e) \in 0 .. 3
  <2> HIDE DEF e
  <2> QED
    BY <1>1, UnlessZeroType
<1> HIDE DEF a, b, c, e
<1>6. a \o b \in Seq(Byte) /\ Len(a \o b) = Len(a) + Len(b)
  BY <1>5, JoinBytes
<1>7. (a \o b) \o c \in Seq(Byte) /\ Len((a \o b) \o c) = Len(a \o b) + Len(c)
  BY <1>5, <1>6, JoinBytes
<1>8. TimerByteSize(t) = Len(a) + Len(b) + Len(c)
  BY <1>4, <1>5
<1>9. TimerByteSize(t) \in 0 .. 9
  <2>1. ASSUME NEW i \in 0 .. 3, NEW j \in 0 .. 3, NEW k \in 0 .. 3
        PROVE  i + j + k \in 0 .. 9
    OBVIOUS
  <2>2. Len(a) \in 0 .. 3 /\ Len(b) \in 0 .. 3 /\ Len(c) \in 0 .. 3
    BY <1>5
  <2> QED
    BY <1>8, <2>1, <2>2
<1> QED
  BY <1>3, <1>5, <1>6, <1>7, <1>8, <1>9

-----------------------------------------------------------------------------
(* A map has keys and values.                                              *)
LEMMA MapParts ==
  ASSUME NEW D, NEW R, NEW map \in Maps(D, R)
  PROVE  /\ DOMAIN map \in SUBSET D /\ map \in [DOMAIN map -> R]
         /\ \A k \in DOMAIN map : map[k] \in R
<1>1. PICK T \in SUBSET D : map \in [T -> R]
  BY DEF Maps
<1> QED
  BY <1>1

(* and a function from some of the keys to values is a map.                *)
LEMMA MapWhole ==
  ASSUME NEW D, NEW R, NEW T \in SUBSET D, NEW map \in [T -> R]
  PROVE  map \in Maps(D, R)
BY DEF Maps

(* The fields of a message.                                                *)
LEMMA MessageFields ==
  ASSUME NEW m \in Messages
  PROVE  /\ m.region \in [RegionFields -> Regions]
         /\ m.number \in [NumberFields -> Maps(Keys, Numbers)]
         /\ m.timer \in [TimerFields -> Maps(Keys, TimerCounter)]
         /\ m.unknown \in Seq(Byte)
BY DEF Messages

(* A region of a message is a short sequence of bytes,                     *)
LEMMA RegionType ==
  ASSUME NEW m \in Messages, NEW f \in RegionFields
  PROVE  m.region[f] \in Seq(Byte) /\ Len(m.region[f]) \in Short
<1>1. m.region[f] \in Contents \union Garbage \union {<<>>}
  BY MessageFields DEF Regions
<1>2. CASE m.region[f] = <<>>
  <2>1. Len(<<>>) \in Short /\ <<>> \in Seq(Byte)
    BY DEF Short
  <2> QED
    BY <1>2, <2>1
<1>3. CASE m.region[f] \in Contents \union Garbage
  <2>1. m.region[f] \in Seq(Byte) /\ Len(m.region[f]) < 16384
    BY <1>3, ContentsAssumption, GarbageAssumption
  <2>2. Len(m.region[f]) \in Nat
    BY <2>1
  <2> QED
    BY <2>1, <2>2, BelowLimit
<1> QED
  BY <1>1, <1>2, <1>3

(* a map of numbers has short numbers,                                     *)
LEMMA NumberType ==
  ASSUME NEW m \in Messages, NEW f \in NumberFields
  PROVE  /\ m.number[f] \in Maps(Keys, Numbers) /\ DOMAIN m.number[f] \in SUBSET Keys
         /\ \A k \in DOMAIN m.number[f] : m.number[f][k] \in Numbers /\ m.number[f][k] \in Short
<1>1. m.number[f] \in Maps(Keys, Numbers)
  BY MessageFields
<1>2. Numbers \subseteq Short
  BY SMTT(30), NumbersAssumption DEF Short
<1> QED
  BY <1>1, <1>2, MapParts

(* and a map of timers has timers.                                         *)
LEMMA TimerType ==
  ASSUME NEW m \in Messages, NEW f \in TimerFields
  PROVE  /\ m.timer[f] \in Maps(Keys, TimerCounter) /\ DOMAIN m.timer[f] \in SUBSET Keys
         /\ \A k \in DOMAIN m.timer[f] : m.timer[f][k] \in TimerCounter
<1>1. m.timer[f] \in Maps(Keys, TimerCounter)
  BY MessageFields
<1> QED
  BY <1>1, MapParts

(* Every field number is of one kind.                                      *)
LEMMA Kinds ==
  /\ 1 .. 7 = RegionFields \union NumberFields \union TimerFields
  /\ RegionFields \intersect NumberFields = {} /\ RegionFields \intersect TimerFields = {}
  /\ NumberFields \intersect TimerFields = {}
BY DEF RegionFields, NumberFields, TimerFields

(* The pieces of a field have keys.                                        *)
LEMMA PieceKeys ==
  ASSUME NEW m \in Messages, NEW f \in 1 .. 7
  PROVE  Pieces(m, f) \in SUBSET (Keys \union {0}) /\ IsFiniteSet(Pieces(m, f))
<1>1. Pieces(m, f) \in SUBSET (Keys \union {0})
  <2>1. CASE f \in RegionFields
    <3>1. Pieces(m, f) = IF m.region[f] = <<>> THEN {} ELSE {0}
      BY <2>1, Kinds DEF Pieces
    <3> QED
      BY <3>1
  <2>2. CASE f \in NumberFields
    <3>1. Pieces(m, f) = DOMAIN m.number[f]
      BY <2>2, Kinds DEF Pieces
    <3> QED
      BY <2>2, <3>1, NumberType
  <2>3. CASE f \in TimerFields
    <3>1. Pieces(m, f) = DOMAIN m.timer[f]
      BY <2>3, Kinds DEF Pieces
    <3> QED
      BY <2>3, <3>1, TimerType
  <2> QED
    BY <2>1, <2>2, <2>3, Kinds
<1>2. IsFiniteSet(0 .. 127)
  <2>1. \A a, b \in Int : IsFiniteSet(a .. b)
    BY FS_Interval
  <2>2. 0 \in Int /\ 127 \in Int
    OBVIOUS
  <2> QED
    BY <2>1, <2>2, Zenon
<1>3. Keys \union {0} \subseteq 0 .. 127
  <2>1. 1 .. 127 \subseteq 0 .. 127 /\ 0 \in 0 .. 127
    OBVIOUS
  <2> QED
    BY <2>1, KeysAssumption
<1> QED
  BY <1>1, <1>2, <1>3, FS_Subset

(* The bytes of the key of an entry.                                       *)
LEMMA KeyField ==
  ASSUME NEW k \in Keys
  PROVE  /\ <<k>> \in Seq(Byte) /\ Len(<<k>>) = 1 /\ k \in Byte
         /\ BytesField(1, <<k>>) \in Seq(Byte) /\ Len(BytesField(1, <<k>>)) = 3
<1>1. k \in Byte
  BY KeysAssumption DEF Byte
<1>2. <<k>> \in Seq(Byte) /\ Len(<<k>>) = 1 /\ 1 \in 1 .. 7 /\ 1 \in Short
  BY <1>1 DEF Short
<1>3. BytesSize(1) = 2
  BY DEF BytesSize, VarintSize
<1>4. BytesField(1, <<k>>) \in Seq(Byte) /\ Len(BytesField(1, <<k>>)) = 1 + BytesSize(Len(<<k>>))
  <2> DEFINE bytes == <<k>>
  <2>1. bytes \in Seq(Byte) /\ Len(bytes) \in Short
    BY <1>2
  <2> HIDE DEF bytes
  <2> QED
    BY <1>2, <2>1, BytesFieldType
<1>5. Len(BytesField(1, <<k>>)) = 3
  <2>1. 1 + BytesSize(Len(<<k>>)) = 3
    <3>1. Len(<<k>>) = 1
      OBVIOUS
    <3> QED
      BY <1>3, <3>1
  <2> QED
    BY <1>4, <2>1
<1> QED
  BY <1>1, <1>2, <1>4, <1>5

(* An entry of a map of numbers, without the field that it is,             *)
NumberBody(k, n) == BytesField(1, <<k>>) \o VarintField(2, n)

(* It has the length computed in NumberEntrySize, a zero included: the     *)
(* value of an entry is always written.                                    *)
LEMMA NumberBodyType ==
  ASSUME NEW k \in Keys, NEW n \in Short
  PROVE  /\ NumberBody(k, n) \in Seq(Byte) /\ Len(NumberBody(k, n)) = 3 + 1 + VarintSize(n)
         /\ Len(NumberBody(k, n)) \in Short
<1>1. BytesField(1, <<k>>) \in Seq(Byte) /\ Len(BytesField(1, <<k>>)) = 3
  BY KeyField
<1>2. /\ VarintField(2, n) \in Seq(Byte) /\ Len(VarintField(2, n)) = 1 + VarintSize(n)
      /\ VarintSize(n) \in 1 .. 2
  BY VarintFieldType
<1>3. Len(NumberBody(k, n)) = 3 + (1 + VarintSize(n)) /\ NumberBody(k, n) \in Seq(Byte)
  BY <1>1, <1>2, JoinBytes DEF NumberBody
<1>4. ASSUME NEW v \in 1 .. 2
      PROVE  3 + (1 + v) = 3 + 1 + v /\ 3 + (1 + v) \in Short
  <2>1. v \in Nat /\ v <= 2
    OBVIOUS
  <2>2. 3 + (1 + v) = 3 + 1 + v /\ 3 + (1 + v) \in Nat /\ 3 + (1 + v) < 16384
    BY <2>1
  <2> QED
    BY <2>2, BelowLimit
<1> QED
  BY <1>2, <1>3, <1>4

(* and one of a map of timers.                                             *)
TimerBody(k, t) == BytesField(1, <<k>>) \o BytesField(2, TimerBytes(t))

(* It has the length computed in TimerEntrySize.                           *)
LEMMA TimerBodyType ==
  ASSUME NEW k \in Keys, NEW t \in TimerCounter
  PROVE  /\ TimerBody(k, t) \in Seq(Byte)
         /\ Len(TimerBody(k, t)) = 3 + 1 + BytesSize(TimerByteSize(t))
         /\ Len(TimerBody(k, t)) \in Short
<1>1. BytesField(1, <<k>>) \in Seq(Byte) /\ Len(BytesField(1, <<k>>)) = 3
  BY KeyField
<1>2. /\ TimerBytes(t) \in Seq(Byte) /\ Len(TimerBytes(t)) = TimerByteSize(t)
      /\ TimerByteSize(t) \in 0 .. 9
  BY TimerBytesType
<1>3. Len(TimerBytes(t)) \in Short
  BY SMTT(30), <1>2 DEF Short
<1>4. /\ BytesField(2, TimerBytes(t)) \in Seq(Byte)
      /\ Len(BytesField(2, TimerBytes(t))) = 1 + BytesSize(TimerByteSize(t))
      /\ BytesSize(TimerByteSize(t)) \in Nat /\ BytesSize(TimerByteSize(t)) <= TimerByteSize(t) + 2
  BY <1>2, <1>3, BytesFieldType
<1>5. Len(TimerBody(k, t)) = 3 + (1 + BytesSize(TimerByteSize(t))) /\ TimerBody(k, t) \in Seq(Byte)
  BY <1>1, <1>4, JoinBytes DEF TimerBody
<1>6. ASSUME NEW i \in 0 .. 9, NEW v \in Nat, v <= i + 2
      PROVE  3 + (1 + v) = 3 + 1 + v /\ 3 + (1 + v) \in Short
  <2>1. 3 + (1 + v) = 3 + 1 + v /\ 3 + (1 + v) \in Nat /\ 3 + (1 + v) < 16384
    BY <1>6
  <2> QED
    BY <2>1, BelowLimit
<1> QED
  BY <1>2, <1>4, <1>5, <1>6

(* A piece is a field of bytes,                                            *)
Body(m, f, k) ==
    CASE f \in RegionFields -> m.region[f]
      [] f \in NumberFields -> NumberBody(k, m.number[f][k])
      [] f \in TimerFields  -> TimerBody(k, m.timer[f][k])

(* with the region or the entry inside it.                                 *)
LEMMA PieceBody ==
  ASSUME NEW m \in Messages, NEW f \in 1 .. 7, NEW k \in Pieces(m, f)
  PROVE  /\ Piece(m, f, k) = BytesField(f, Body(m, f, k))
         /\ Body(m, f, k) \in Seq(Byte) /\ Len(Body(m, f, k)) \in Short
         /\ PieceSize(m, f, k) = 1 + BytesSize(Len(Body(m, f, k)))
<1>1. CASE f \in RegionFields
  <2>1. /\ Piece(m, f, k) = BytesField(f, m.region[f]) /\ Body(m, f, k) = m.region[f]
        /\ PieceSize(m, f, k) = 1 + BytesSize(Len(m.region[f]))
    BY <1>1, Kinds DEF Piece, Body, PieceSize
  <2> QED
    BY <1>1, <2>1, RegionType
<1>2. CASE f \in NumberFields
  <2> DEFINE n == m.number[f][k]
  <2>1. /\ Piece(m, f, k) = NumberEntry(f, k, n) /\ Body(m, f, k) = NumberBody(k, n)
        /\ PieceSize(m, f, k) = 1 + NumberEntrySize(n) /\ k \in DOMAIN m.number[f]
    BY <1>2, Kinds DEF Piece, Body, PieceSize, Pieces
  <2>2. n \in Short /\ k \in Keys
    BY <1>2, <2>1, NumberType
  <2> HIDE DEF n
  <2>3. NumberBody(k, n) \in Seq(Byte) /\ Len(NumberBody(k, n)) \in Short
        /\ Len(NumberBody(k, n)) = 3 + 1 + VarintSize(n)
    BY <2>2, NumberBodyType
  <2>4. NumberEntry(f, k, n) = BytesField(f, NumberBody(k, n))
    BY DEF NumberEntry, NumberBody
  <2>5. NumberEntrySize(n) = BytesSize(Len(NumberBody(k, n)))
    BY <2>3 DEF NumberEntrySize
  <2> QED
    BY <2>1, <2>3, <2>4, <2>5
<1>3. CASE f \in TimerFields
  <2> DEFINE t == m.timer[f][k]
  <2>1. /\ Piece(m, f, k) = TimerEntry(f, k, t) /\ Body(m, f, k) = TimerBody(k, t)
        /\ PieceSize(m, f, k) = 1 + TimerEntrySize(t) /\ k \in DOMAIN m.timer[f]
    BY <1>3, Kinds DEF Piece, Body, PieceSize, Pieces
  <2>2. t \in TimerCounter /\ k \in Keys
    BY <1>3, <2>1, TimerType
  <2> HIDE DEF t
  <2>3. TimerBody(k, t) \in Seq(Byte) /\ Len(TimerBody(k, t)) \in Short
        /\ Len(TimerBody(k, t)) = 3 + 1 + BytesSize(TimerByteSize(t))
    BY <2>2, TimerBodyType
  <2>4. TimerEntry(f, k, t) = BytesField(f, TimerBody(k, t))
    BY DEF TimerEntry, TimerBody
  <2>5. TimerEntrySize(t) = BytesSize(Len(TimerBody(k, t)))
    BY <2>3 DEF TimerEntrySize
  <2> QED
    BY <2>1, <2>3, <2>4, <2>5
<1> QED
  BY <1>1, <1>2, <1>3, Kinds

(* and has the size that was computed.                                     *)
LEMMA PieceType ==
  ASSUME NEW m \in Messages, NEW f \in 1 .. 7, NEW k \in Pieces(m, f)
  PROVE  /\ Piece(m, f, k) \in Seq(Byte) /\ Len(Piece(m, f, k)) = PieceSize(m, f, k)
         /\ PieceSize(m, f, k) \in Nat
BY PieceBody, BytesFieldType

-----------------------------------------------------------------------------
(* What of field f remains to be written, and of the fields after it.      *)
LeftSize(m, f, T) == Total([k \in T |-> PieceSize(m, f, k)])

LaterSize(m, f) == Total([g \in f + 1 .. 7 |-> FieldByteSize(m, g)])

(* When no piece is left nothing remains of the field,                     *)
LEMMA LeftNone ==
  ASSUME NEW m, NEW f
  PROVE  LeftSize(m, f, {}) = 0
<1> DEFINE w == [k \in {} |-> PieceSize(m, f, k)]
<1>1. DOMAIN w = {} /\ w \in [{} -> Nat]
  OBVIOUS
<1>2. LeftSize(m, f, {}) = Total(w)
  BY DEF LeftSize
<1> HIDE DEF w
<1> QED
  BY <1>1, <1>2, TotalNone

(* writing a piece leaves less by its size,                                *)
LEMMA LeftLess ==
  ASSUME NEW m \in Messages, NEW f \in 1 .. 7, NEW T \in SUBSET Pieces(m, f), NEW k \in T
  PROVE  LeftSize(m, f, T) = PieceSize(m, f, k) + LeftSize(m, f, T \ {k})
<1> DEFINE w == [j \in T |-> PieceSize(m, f, j)]
<1>1. w \in [T -> Nat]
  BY PieceType
<1>2. IsFiniteSet(T)
  BY PieceKeys, FS_Subset
<1>3. LeftSize(m, f, T) = Total(w)
  BY DEF LeftSize
<1>4. [j \in T \ {k} |-> w[j]] = [j \in T \ {k} |-> PieceSize(m, f, j)]
  OBVIOUS
<1>5. LeftSize(m, f, T \ {k}) = Total([j \in T \ {k} |-> w[j]])
  BY <1>4 DEF LeftSize
<1>6. w[k] = PieceSize(m, f, k)
  OBVIOUS
<1> HIDE DEF w
<1> QED
  BY <1>1, <1>2, <1>3, <1>5, <1>6, TotalLess

(* and what is left is a number.                                           *)
LEMMA LeftNat ==
  ASSUME NEW m \in Messages, NEW f \in 1 .. 7, NEW T \in SUBSET Pieces(m, f)
  PROVE  LeftSize(m, f, T) \in Nat
<1> DEFINE w == [j \in T |-> PieceSize(m, f, j)]
<1>1. w \in [T -> Nat]
  BY PieceType
<1>2. IsFiniteSet(T)
  BY PieceKeys, FS_Subset
<1>3. LeftSize(m, f, T) = Total(w)
  BY DEF LeftSize
<1> HIDE DEF w
<1> QED
  BY <1>1, <1>2, <1>3, TotalNat

(* Before its first piece is written, all of a field is left.              *)
LEMMA FieldIsLeft ==
  ASSUME NEW m \in Messages, NEW f \in 1 .. 7
  PROVE  FieldByteSize(m, f) = LeftSize(m, f, Pieces(m, f)) /\ FieldByteSize(m, f) \in Nat
<1> DEFINE w == [j \in Pieces(m, f) |-> PieceSize(m, f, j)]
<1>1. w \in [Pieces(m, f) -> Nat]
  BY PieceType
<1>2. FieldByteSize(m, f) = Total(w) /\ LeftSize(m, f, Pieces(m, f)) = Total(w)
  BY DEF FieldByteSize, LeftSize
<1>3. IsFiniteSet(Pieces(m, f))
  BY PieceKeys
<1> HIDE DEF w
<1> QED
  BY <1>1, <1>2, <1>3, TotalNat

(* No field comes after the last,                                          *)
LEMMA LaterNone ==
  ASSUME NEW m
  PROVE  LaterSize(m, 7) = 0
<1> DEFINE w == [g \in 7 + 1 .. 7 |-> FieldByteSize(m, g)]
<1>1. 7 + 1 .. 7 = {}
  OBVIOUS
<1>2. DOMAIN w = {} /\ w \in [{} -> Nat]
  BY <1>1
<1>3. LaterSize(m, 7) = Total(w)
  BY DEF LaterSize
<1> HIDE DEF w
<1> QED
  BY <1>2, <1>3, TotalNone

(* a set of fields loses the size of one that is taken out,                *)
LEMMA FieldsLess ==
  ASSUME NEW m, NEW D, IsFiniteSet(D), \A j \in D : FieldByteSize(m, j) \in Nat, NEW g \in D
  PROVE  /\ Total([j \in D \ {g} |-> FieldByteSize(m, j)]) \in Nat
         /\ Total([j \in D |-> FieldByteSize(m, j)])
               = FieldByteSize(m, g) + Total([j \in D \ {g} |-> FieldByteSize(m, j)])
<1> DEFINE w == [j \in D |-> FieldByteSize(m, j)]
<1>1. w \in [D -> Nat] /\ w[g] = FieldByteSize(m, g)
  OBVIOUS
<1>2. [j \in D \ {g} |-> w[j]] = [j \in D \ {g} |-> FieldByteSize(m, j)]
  OBVIOUS
<1> HIDE DEF w
<1>3. /\ Total([j \in D \ {g} |-> w[j]]) \in Nat
      /\ Total(w) = w[g] + Total([j \in D \ {g} |-> w[j]])
  BY <1>1, TotalLess
<1> QED
  BY <1>1, <1>2, <1>3 DEF w

(* and going to the next field takes its size from what comes later.       *)
LEMMA LaterLess ==
  ASSUME NEW m \in Messages, NEW f \in 0 .. 6, NEW g, g = f + 1
  PROVE  /\ LaterSize(m, g) \in Nat
         /\ LaterSize(m, f) = FieldByteSize(m, g) + LaterSize(m, g)
<1> DEFINE D == f + 1 .. 7
<1>1. D \subseteq 1 .. 7 /\ g \in D /\ D \ {g} = g + 1 .. 7
  OBVIOUS
<1>2. IsFiniteSet(D)
  <2>1. f + 1 \in Int /\ 7 \in Int
    OBVIOUS
  <2> QED
    BY <2>1, FS_Interval
<1>3. LaterSize(m, f) = Total([j \in D |-> FieldByteSize(m, j)])
  BY DEF LaterSize
<1>4. LaterSize(m, g) = Total([j \in D \ {g} |-> FieldByteSize(m, j)])
  BY <1>1 DEF LaterSize
<1>5. \A j \in D : FieldByteSize(m, j) \in Nat
  BY <1>1, FieldIsLeft
<1> HIDE DEF D
<1>6. ASSUME NEW x \in D
      PROVE  /\ Total([j \in D \ {x} |-> FieldByteSize(m, j)]) \in Nat
             /\ Total([j \in D |-> FieldByteSize(m, j)])
                   = FieldByteSize(m, x) + Total([j \in D \ {x} |-> FieldByteSize(m, j)])
  BY <1>2, <1>5, FieldsLess
<1> QED
  BY <1>1, <1>3, <1>4, <1>6

(* The size of a message is what remains when nothing has been written.    *)
LEMMA SizeIsLater ==
  ASSUME NEW m \in Messages
  PROVE  /\ ByteSizeLong(m) = LaterSize(m, 0) + Len(m.unknown)
         /\ ByteSizeLong(m) \in Nat /\ LaterSize(m, 0) \in Nat /\ Len(m.unknown) \in Nat
<1>1. [f \in 1 .. 7 |-> FieldByteSize(m, f)] = [g \in 0 + 1 .. 7 |-> FieldByteSize(m, g)]
  OBVIOUS
<1>2. ByteSizeLong(m) = LaterSize(m, 0) + Len(m.unknown)
  BY <1>1 DEF ByteSizeLong, LaterSize
<1>3. LaterSize(m, 0) \in Nat
  <2>1. /\ LaterSize(m, 1) \in Nat
        /\ LaterSize(m, 0) = FieldByteSize(m, 1) + LaterSize(m, 1)
    <3> DEFINE z == 0
               g == 1
    <3>1. z \in 0 .. 6 /\ g = z + 1
      OBVIOUS
    <3> HIDE DEF z, g
    <3>2. LaterSize(m, g) \in Nat /\ LaterSize(m, z) = FieldByteSize(m, g) + LaterSize(m, g)
      BY <3>1, LaterLess
    <3> QED
      BY <3>2 DEF z, g
  <2>2. FieldByteSize(m, 1) \in Nat
    BY FieldIsLeft
  <2> QED
    BY <2>1, <2>2
<1>4. Len(m.unknown) \in Nat
  BY MessageFields
<1> QED
  BY <1>2, <1>3, <1>4

-----------------------------------------------------------------------------
(* The operations make messages of messages:                               *)
LEMMA EmptyType == Empty \in Messages
<1>1. <<>> \in Maps(Keys, Numbers) /\ <<>> \in Maps(Keys, TimerCounter)
  <2>1. {} \in SUBSET Keys /\ <<>> \in [{} -> Numbers] /\ <<>> \in [{} -> TimerCounter]
    OBVIOUS
  <2> QED
    BY <2>1, MapWhole
<1>2. <<>> \in Seq(Byte) /\ <<>> \in Regions
  BY DEF Regions
<1> QED
  BY <1>1, <1>2 DEF Empty, Messages

(* an entry put into a map, whether the key is new or not,                 *)
LEMMA PutType ==
  ASSUME NEW D, NEW R, NEW map \in Maps(D, R), NEW k \in D, NEW v \in R
  PROVE  Put(map, k, v) \in Maps(D, R)
<1> DEFINE T == DOMAIN map \union {k}
<1>1. DOMAIN map \in SUBSET D /\ \A j \in DOMAIN map : map[j] \in R
  BY MapParts
<1>2. T \in SUBSET D
  BY <1>1
<1>3. Put(map, k, v) \in [T -> R]
  BY <1>1 DEF Put
<1> QED
  BY <1>2, <1>3, MapWhole

(* two maps merged,                                                        *)
LEMMA MergeMapType ==
  ASSUME NEW D, NEW R, NEW to \in Maps(D, R), NEW from \in Maps(D, R)
  PROVE  MergeMap(to, from) \in Maps(D, R)
<1> DEFINE T == DOMAIN to \union DOMAIN from
<1>1. /\ DOMAIN to \in SUBSET D /\ \A j \in DOMAIN to : to[j] \in R
      /\ DOMAIN from \in SUBSET D /\ \A j \in DOMAIN from : from[j] \in R
  BY MapParts
<1>2. T \in SUBSET D
  BY <1>1
<1>3. MergeMap(to, from) \in [T -> R]
  BY <1>1 DEF MergeMap
<1> QED
  BY <1>2, <1>3, MapWhole

(* two messages merged,                                                    *)
LEMMA MergeType ==
  ASSUME NEW to \in Messages, NEW from \in Messages
  PROVE  Merge(to, from) \in Messages
<1>1. /\ to.region \in [RegionFields -> Regions]
      /\ to.number \in [NumberFields -> Maps(Keys, Numbers)]
      /\ to.timer \in [TimerFields -> Maps(Keys, TimerCounter)]
      /\ to.unknown \in Seq(Byte)
      /\ from.region \in [RegionFields -> Regions]
      /\ from.number \in [NumberFields -> Maps(Keys, Numbers)]
      /\ from.timer \in [TimerFields -> Maps(Keys, TimerCounter)]
      /\ from.unknown \in Seq(Byte)
  BY MessageFields
<1>2. \A f \in NumberFields : MergeMap(to.number[f], from.number[f]) \in Maps(Keys, Numbers)
  BY <1>1, MergeMapType
<1>3. \A f \in TimerFields : MergeMap(to.timer[f], from.timer[f]) \in Maps(Keys, TimerCounter)
  BY <1>1, MergeMapType
<1>4. to.unknown \o from.unknown \in Seq(Byte)
  BY <1>1, JoinBytes
<1> QED
  BY <1>1, <1>2, <1>3, <1>4 DEF Merge, Messages

(* a region set,                                                           *)
LEMMA ExceptRegion ==
  ASSUME NEW m \in Messages, NEW f \in RegionFields, NEW v \in Regions
  PROVE  [m EXCEPT !.region[f] = v] \in Messages
BY DEF Messages

(* a map of numbers replaced,                                              *)
LEMMA ExceptNumber ==
  ASSUME NEW m \in Messages, NEW f \in NumberFields, NEW v \in Maps(Keys, Numbers)
  PROVE  [m EXCEPT !.number[f] = v] \in Messages
BY DEF Messages

(* a map of timers replaced,                                               *)
LEMMA ExceptTimer ==
  ASSUME NEW m \in Messages, NEW f \in TimerFields, NEW v \in Maps(Keys, TimerCounter)
  PROVE  [m EXCEPT !.timer[f] = v] \in Messages
BY DEF Messages

(* the unknown fields replaced;                                            *)
LEMMA ExceptUnknown ==
  ASSUME NEW m \in Messages, NEW v \in Seq(Byte)
  PROVE  [m EXCEPT !.unknown = v] \in Messages
BY DEF Messages

(* so an operation on a message gives a message.                           *)
LEMMA OperationUpdates ==
  ASSUME NEW o \in {"a", "b"}, Operation(o), msg["a"] \in Messages, msg["b"] \in Messages
  PROVE  \E m \in Messages : Update(o, m)
<1>1. CASE \E f \in Used \intersect RegionFields, bytes \in Contents : SetRegion(o, f, bytes)
  <2>1. PICK f \in Used \intersect RegionFields, bytes \in Contents : SetRegion(o, f, bytes)
    BY <1>1
  <2>2. msg[o] \in Messages /\ bytes \in Regions
    BY DEF Regions
  <2> QED
    BY <2>1, <2>2, ExceptRegion DEF SetRegion
<1>2. CASE \E f \in Used \intersect NumberFields, k \in Keys, n \in Numbers : PutNumber(o, f, k, n)
  <2>1. PICK f \in Used \intersect NumberFields, k \in Keys, n \in Numbers : PutNumber(o, f, k, n)
    BY <1>2
  <2>2. msg[o] \in Messages
    OBVIOUS
  <2>3. msg[o].number[f] \in Maps(Keys, Numbers)
    BY <2>2, NumberType
  <2>4. Put(msg[o].number[f], k, n) \in Maps(Keys, Numbers)
    BY <2>3, PutType
  <2>5. Update(o, [msg[o] EXCEPT !.number[f] = Put(msg[o].number[f], k, n)])
    BY <2>1 DEF PutNumber
  <2> QED
    BY <2>2, <2>4, <2>5, ExceptNumber
<1>3. CASE \E f \in Used \intersect TimerFields, k \in Keys, t \in TimerCounter : PutTimer(o, f, k, t)
  <2>1. PICK f \in Used \intersect TimerFields, k \in Keys, t \in TimerCounter : PutTimer(o, f, k, t)
    BY <1>3
  <2>2. msg[o] \in Messages
    OBVIOUS
  <2>3. msg[o].timer[f] \in Maps(Keys, TimerCounter)
    BY <2>2, TimerType
  <2>4. Put(msg[o].timer[f], k, t) \in Maps(Keys, TimerCounter)
    BY <2>3, PutType
  <2>5. Update(o, [msg[o] EXCEPT !.timer[f] = Put(msg[o].timer[f], k, t)])
    BY <2>1 DEF PutTimer
  <2> QED
    BY <2>2, <2>4, <2>5, ExceptTimer
<1>4. CASE \E f \in Used : ClearField(o, f)
  <2>1. PICK f \in Used : ClearField(o, f)
    BY <1>4
  <2>2. msg[o] \in Messages
    OBVIOUS
  <2>3. <<>> \in Maps(Keys, Numbers) /\ <<>> \in Maps(Keys, TimerCounter)
    <3>1. {} \in SUBSET Keys /\ <<>> \in [{} -> Numbers] /\ <<>> \in [{} -> TimerCounter]
      OBVIOUS
    <3> QED
      BY <3>1, MapWhole
  <2>4. CASE f \in NumberFields /\ Update(o, [msg[o] EXCEPT !.number[f] = <<>>])
    BY <2>2, <2>3, <2>4, ExceptNumber
  <2>5. CASE f \in TimerFields /\ Update(o, [msg[o] EXCEPT !.timer[f] = <<>>])
    BY <2>2, <2>3, <2>5, ExceptTimer
  <2> QED
    BY <2>1, <2>4, <2>5 DEF ClearField
<1>5. CASE \E raw \in Foreign : AddUnknown(o, raw)
  <2>1. PICK raw \in Foreign : AddUnknown(o, raw)
    BY <1>5
  <2>2. raw \in Seq(Byte)
    BY ForeignAssumption
  <2>3. msg[o] \in Messages
    OBVIOUS
  <2> QED
    BY <2>1, <2>2, <2>3, ExceptUnknown DEF AddUnknown
<1>6. CASE Clear(o)
  BY <1>6, EmptyType DEF Clear
<1>7. CASE \E p \in {"a", "b"} : MergeFrom(o, p) \/ CopyFrom(o, p)
  <2>1. PICK p \in {"a", "b"} : MergeFrom(o, p) \/ CopyFrom(o, p)
    BY <1>7
  <2>2. msg[o] \in Messages /\ msg[p] \in Messages
    OBVIOUS
  <2> QED
    BY <2>1, <2>2, MergeType, EmptyType DEF MergeFrom, CopyFrom
<1> QED
  BY <1>1, <1>2, <1>3, <1>4, <1>5, <1>6, <1>7 DEF Operation

-----------------------------------------------------------------------------
(* The invariant of the writing: the message being written does not        *)
(* change, the pieces that remain are pieces of its field, and what is     *)
(* written has, with what remains, the size that was computed.             *)
Before == {"building", "writing", "stored"}
Phases == Before \union {"reading", "read", "failed"}

WritingTypes ==
    /\ msg = [o \in {"a", "b"} |-> msg[o]]
    /\ msg["a"] \in Messages
    /\ phase \in Before => msg["b"] \in Messages
    /\ ops \in 0 .. MaxOps
    /\ phase \in Phases
    /\ field \in 0 .. 7
    /\ left \subseteq Keys \union {0}
    /\ wire \in Seq(Byte)
    /\ size \in Nat
    /\ cut \in BOOLEAN
    /\ base \in Messages

NothingWritten == phase = "building" => field = 0 /\ left = {} /\ wire = <<>> /\ ~ cut

PiecesLeft ==
    phase = "writing" =>
        /\ ~ cut
        /\ field = 0 => left = {}
        /\ field # 0 => left \subseteq Pieces(msg["a"], field)

SizeLeft ==
    phase = "writing" =>
        /\ LeftSize(msg["a"], field, left) \in Nat
        /\ LaterSize(msg["a"], field) \in Nat
        /\ size = Len(wire) + LeftSize(msg["a"], field, left) + LaterSize(msg["a"], field)
                     + Len(msg["a"].unknown)

WritingInv == WritingTypes /\ NothingWritten /\ PiecesLeft /\ SizeLeft /\ SizeExact

(* It holds at first,                                                      *)
LEMMA NewMessagesWriting == NewMessages => WritingInv
<1> SUFFICES ASSUME NewMessages
             PROVE  WritingInv
  OBVIOUS
<1> USE DEF NewMessages
<1>1. WritingTypes
  <2>1. msg["a"] = Empty /\ msg["b"] = Empty /\ msg = [o \in {"a", "b"} |-> msg[o]]
    OBVIOUS
  <2>2. ops \in 0 .. MaxOps /\ field \in 0 .. 7 /\ size \in Nat
    BY UsedAssumption
  <2>3. wire \in Seq(Byte) /\ left \subseteq Keys \union {0} /\ cut \in BOOLEAN
    <3>1. <<>> \in Seq(Byte)
      OBVIOUS
    <3> QED
      BY <3>1
  <2>4. msg["a"] \in Messages /\ msg["b"] \in Messages /\ base \in Messages
    BY <2>1, EmptyType
  <2>5. phase \in Phases
    BY DEF Phases, Before
  <2> HIDE DEF NewMessages
  <2> QED
    BY <2>1, <2>2, <2>3, <2>4, <2>5 DEF WritingTypes
<1>2. NothingWritten /\ PiecesLeft /\ SizeLeft /\ SizeExact
  BY DEF NothingWritten, PiecesLeft, SizeLeft, SizeExact
<1> QED
  BY <1>1, <1>2 DEF WritingInv

(* and every step keeps it: an operation of the class,                     *)
LEMMA UpdateWriting ==
  ASSUME WritingInv, NEW o \in {"a", "b"}, NEW m \in Messages, Update(o, m)
  PROVE  WritingInv'
<1> USE DEF Update, file
<1>1. /\ phase = "building" /\ phase' = "building"
      /\ msg["a"] \in Messages /\ msg["b"] \in Messages
      /\ msg = [p \in {"a", "b"} |-> msg[p]]
  BY DEF WritingInv, WritingTypes, Before
<1>2. /\ msg' = [p \in {"a", "b"} |-> msg'[p]]
      /\ msg'["a"] \in Messages /\ msg'["b"] \in Messages
  BY <1>1
<1>3. ops' \in 0 .. MaxOps
  BY UsedAssumption DEF WritingInv, WritingTypes
<1>4. WritingTypes'
  BY <1>2, <1>3 DEF WritingInv, WritingTypes, Before, Phases
<1>5. NothingWritten'
  BY <1>1 DEF WritingInv, NothingWritten
<1>6. PiecesLeft' /\ SizeLeft' /\ SizeExact'
  BY <1>1 DEF PiecesLeft, SizeLeft, SizeExact
<1> QED
  BY <1>4, <1>5, <1>6 DEF WritingInv

(* Swap,                                                                   *)
LEMMA SwapWriting ==
  ASSUME WritingInv, Swap
  PROVE  WritingInv'
<1> USE DEF Swap, file
<1>1. /\ phase = "building" /\ phase' = "building"
      /\ msg["a"] \in Messages /\ msg["b"] \in Messages
  BY DEF WritingInv, WritingTypes, Before
<1>2. /\ msg' = [p \in {"a", "b"} |-> msg'[p]]
      /\ msg'["a"] \in Messages /\ msg'["b"] \in Messages
  BY <1>1
<1>3. ops' \in 0 .. MaxOps
  BY UsedAssumption DEF WritingInv, WritingTypes
<1>4. WritingTypes'
  BY <1>2, <1>3 DEF WritingInv, WritingTypes, Before, Phases
<1>5. NothingWritten'
  BY <1>1 DEF WritingInv, NothingWritten
<1>6. PiecesLeft' /\ SizeLeft' /\ SizeExact'
  BY <1>1 DEF PiecesLeft, SizeLeft, SizeExact
<1> QED
  BY <1>4, <1>5, <1>6 DEF WritingInv

(* Serialize, which computes the size: all of it is what remains,          *)
LEMMA SerializeWriting ==
  ASSUME WritingInv, Serialize
  PROVE  WritingInv'
<1> USE DEF Serialize
<1>1. /\ phase = "building" /\ phase' = "writing" /\ msg["a"] \in Messages
      /\ field = 0 /\ left = {} /\ wire = <<>> /\ ~ cut
  BY DEF WritingInv, WritingTypes, NothingWritten
<1>2. /\ ByteSizeLong(msg["a"]) = LaterSize(msg["a"], 0) + Len(msg["a"].unknown)
      /\ ByteSizeLong(msg["a"]) \in Nat /\ Len(msg["a"].unknown) \in Nat
      /\ LaterSize(msg["a"], 0) \in Nat
  BY <1>1, SizeIsLater
<1>3. WritingTypes'
  BY <1>1, <1>2 DEF WritingInv, WritingTypes, Before, Phases
<1>4. NothingWritten' /\ PiecesLeft' /\ SizeExact'
  BY <1>1 DEF NothingWritten, PiecesLeft, SizeExact
<1>5. SizeLeft'
  <2>1. LeftSize(msg["a"], 0, {}) = 0 /\ Len(<<>>) = 0
    BY LeftNone
  <2> DEFINE i == LaterSize(msg["a"], 0)
             j == Len(msg["a"].unknown)
  <2>2. i \in Nat /\ j \in Nat /\ size' = i + j
    BY <1>2
  <2> HIDE DEF i, j
  <2>3. size' = 0 + 0 + i + j
    BY <2>2
  <2>4. size' = Len(<<>>) + LeftSize(msg["a"], 0, {}) + LaterSize(msg["a"], 0) + Len(msg["a"].unknown)
    BY <2>1, <2>3, Zenon DEF i, j
  <2>5. msg' = msg /\ field' = 0 /\ left' = {} /\ wire' = <<>>
    BY <1>1
  <2>6. 0 \in Nat
    OBVIOUS
  <2> QED
    BY <1>2, <2>1, <2>4, <2>5, <2>6, Zenon DEF SizeLeft
<1> QED
  BY <1>3, <1>4, <1>5 DEF WritingInv

(* NextPieces, where the next field moves from what comes later to what is *)
(* left,                                                                   *)
LEMMA NextPiecesWriting ==
  ASSUME WritingInv, NextPieces
  PROVE  WritingInv'
<1> USE DEF NextPieces
<1> DEFINE a == msg["a"]
           g == field + 1
<1>1. /\ phase = "writing" /\ phase' = "writing" /\ a \in Messages /\ field \in 0 .. 6
      /\ left = {} /\ ~ cut /\ wire \in Seq(Byte) /\ g \in 1 .. 7
  BY DEF WritingInv, WritingTypes, PiecesLeft
<1>2. Pieces(a, g) \in SUBSET (Keys \union {0})
  BY <1>1, PieceKeys
<1>3. /\ LaterSize(a, g) \in Nat
      /\ LaterSize(a, field) = FieldByteSize(a, g) + LaterSize(a, g)
  <2> HIDE DEF a
  <2> QED
    BY <1>1, LaterLess
<1>4. FieldByteSize(a, g) = LeftSize(a, g, Pieces(a, g)) /\ FieldByteSize(a, g) \in Nat
  BY <1>1, FieldIsLeft
<1>5. WritingTypes'
  BY <1>1, <1>2 DEF WritingInv, WritingTypes, Before, Phases
<1>6. NothingWritten' /\ PiecesLeft' /\ SizeExact'
  BY <1>1 DEF NothingWritten, PiecesLeft, SizeExact
<1>7. SizeLeft'
  <2> DEFINE i == Len(wire)
             j == Len(a.unknown)
             k == LaterSize(a, g)
             l == LeftSize(a, g, Pieces(a, g))
  <2>1. i \in Nat /\ j \in Nat /\ k \in Nat /\ l \in Nat
    BY <1>1, <1>3, <1>4, MessageFields
  <2>2. size = i + 0 + (l + k) + j
    <3>1. LeftSize(a, field, left) = 0
      BY <1>1, LeftNone
    <3> QED
      BY <1>1, <1>3, <1>4, <3>1 DEF WritingInv, SizeLeft
  <2>3. msg'["a"] = a /\ field' = g /\ left' = Pieces(a, g) /\ wire' = wire /\ size' = size
    OBVIOUS
  <2>4. size = i + l + k + j
    <3> HIDE DEF i, j, k, l
    <3> QED
      BY <2>1, <2>2
  <2> HIDE DEF a, g
  <2> QED
    BY <2>1, <2>3, <2>4 DEF SizeLeft
<1> QED
  BY <1>5, <1>6, <1>7 DEF WritingInv

(* WritePiece, where the file grows by what the piece was counted for,     *)
LEMMA WritePieceWriting ==
  ASSUME WritingInv, WritePiece
  PROVE  WritingInv'
<1> DEFINE a == msg["a"]
<1>1. PICK k \in left : wire' = wire \o Piece(a, field, k) /\ left' = left \ {k}
  BY DEF WritePiece
<1>2. /\ phase = "writing" /\ phase' = "writing" /\ msg' = msg /\ field' = field
      /\ size' = size /\ cut' = cut /\ UNCHANGED <<ops, base>>
  BY DEF WritePiece
<1>3. /\ a \in Messages /\ field \in 0 .. 7 /\ field # 0 /\ ~ cut
      /\ left \in SUBSET Pieces(a, field) /\ wire \in Seq(Byte)
  BY <1>1, <1>2 DEF WritingInv, WritingTypes, PiecesLeft
<1>4. field \in 1 .. 7
  BY <1>3
<1>5. /\ Piece(a, field, k) \in Seq(Byte)
      /\ Len(Piece(a, field, k)) = PieceSize(a, field, k)
      /\ PieceSize(a, field, k) \in Nat
  BY <1>1, <1>3, <1>4, PieceType
<1>6. wire' \in Seq(Byte) /\ Len(wire') = Len(wire) + PieceSize(a, field, k) /\ Len(wire) \in Nat
  BY <1>1, <1>3, <1>5, JoinBytes
<1>7. /\ LeftSize(a, field, left \ {k}) \in Nat
      /\ LeftSize(a, field, left) = PieceSize(a, field, k) + LeftSize(a, field, left \ {k})
  <2>1. left \ {k} \in SUBSET Pieces(a, field)
    BY <1>3
  <2>2. LeftSize(a, field, left \ {k}) \in Nat
    BY <1>3, <1>4, <2>1, LeftNat
  <2>3. LeftSize(a, field, left) = PieceSize(a, field, k) + LeftSize(a, field, left \ {k})
    BY <1>3, <1>4, LeftLess
  <2> QED
    BY <2>2, <2>3
<1>8. WritingTypes'
  BY <1>1, <1>2, <1>6 DEF WritingInv, WritingTypes, Before, Phases
<1>9. NothingWritten' /\ PiecesLeft' /\ SizeExact'
  BY <1>1, <1>2, <1>3 DEF NothingWritten, PiecesLeft, SizeExact
<1>10. SizeLeft'
  <2> DEFINE i == Len(wire)
             j == Len(a.unknown)
             l == LaterSize(a, field)
             p == PieceSize(a, field, k)
             r == LeftSize(a, field, left \ {k})
  <2>1. i \in Nat /\ j \in Nat /\ l \in Nat /\ p \in Nat /\ r \in Nat
    BY SMTT(30), <1>2, <1>3, <1>5, <1>6, <1>7, MessageFields DEF WritingInv, SizeLeft
  <2>2. size = i + (p + r) + l + j
    BY <1>2, <1>7 DEF WritingInv, SizeLeft
  <2>3. Len(wire') = i + p
    BY <1>6
  <2> HIDE DEF i, j, l, p
  <2>4. size = Len(wire') + r + l + j
    <3> HIDE DEF r
    <3> QED
      BY <2>1, <2>2, <2>3
  <2> QED
    BY <1>1, <1>2, <2>1, <2>4 DEF SizeLeft, j, l
<1> QED
  BY <1>8, <1>9, <1>10 DEF WritingInv

(* and Written: only the unknown fields remained, and the size is exact.   *)
LEMMA WrittenWriting ==
  ASSUME WritingInv, Written
  PROVE  WritingInv'
<1> USE DEF Written
<1> DEFINE a == msg["a"]
<1>1. /\ phase = "writing" /\ phase' = "stored" /\ a \in Messages
      /\ left = {} /\ field = 7 /\ wire \in Seq(Byte)
  BY DEF WritingInv, WritingTypes
<1>2. a.unknown \in Seq(Byte) /\ Len(a.unknown) \in Nat /\ Len(wire) \in Nat
  BY <1>1, MessageFields
<1>3. wire' \in Seq(Byte) /\ Len(wire') = Len(wire) + Len(a.unknown)
  BY <1>1, <1>2, JoinBytes
<1>4. WritingTypes'
  BY <1>1, <1>3 DEF WritingInv, WritingTypes, Before, Phases
<1>5. NothingWritten' /\ PiecesLeft' /\ SizeLeft'
  BY <1>1 DEF NothingWritten, PiecesLeft, SizeLeft
<1>6. SizeExact'
  <2>1. LeftSize(a, 7, {}) = 0 /\ LaterSize(a, 7) = 0
    BY LeftNone, LaterNone
  <2>2. size = Len(wire) + 0 + 0 + Len(a.unknown)
    BY <1>1, <2>1 DEF WritingInv, SizeLeft
  <2> DEFINE i == Len(wire)
             j == Len(a.unknown)
  <2>3. i + 0 + 0 + j = i + j
    <3>1. i \in Nat /\ j \in Nat
      BY <1>2
    <3> HIDE DEF i, j
    <3> QED
      BY <3>1
  <2>4. size' = Len(wire')
    BY <1>3, <2>2, <2>3
  <2> QED
    BY <2>4 DEF SizeExact
<1> QED
  BY <1>4, <1>5, <1>6 DEF WritingInv

(* The table of generate_simple has the size it is stored with.            *)
LEMMA TestDataType == test_data \in Seq(Byte) /\ Len(test_data) = 22 /\ test_data # <<>>
BY DEF test_data, Byte

(* generate_simple stores it,                                              *)
LEMMA SimpleWriting ==
  ASSUME WritingInv, generate_simple
  PROVE  WritingInv'
<1> USE DEF generate_simple
<1>1. phase = "building" /\ phase' = "stored" /\ wire' = test_data /\ size' = Len(test_data)
  OBVIOUS
<1>2. wire' \in Seq(Byte) /\ size' \in Nat /\ size' = Len(wire')
  <2>1. 22 \in Nat
    OBVIOUS
  <2> QED
    BY <1>1, <2>1, TestDataType
<1>3. WritingTypes'
  BY <1>1, <1>2 DEF WritingInv, WritingTypes, Before, Phases
<1>4. NothingWritten' /\ PiecesLeft' /\ SizeLeft'
  BY <1>1 DEF NothingWritten, PiecesLeft, SizeLeft
<1>5. SizeExact'
  BY <1>2 DEF SizeExact
<1> QED
  BY <1>3, <1>4, <1>5 DEF WritingInv

(* The first bytes of a sequence, and the rest.                            *)
LEMMA FirstBytes ==
  ASSUME NEW s \in Seq(Byte), NEW n \in 0 .. Len(s)
  PROVE  /\ SubSeq(s, 1, n) \in Seq(Byte) /\ Len(SubSeq(s, 1, n)) = n
         /\ \A i \in 1 .. n : SubSeq(s, 1, n)[i] = s[i]
<1>1. Len(s) \in Nat /\ n \in Nat
  OBVIOUS
<1>2. \A i \in 1 .. n : s[i] \in Byte /\ 1 + i - 1 = i
  BY <1>1
<1> QED
  BY <1>1, <1>2, SubSeqProperties

(* a file that is cut is not held to its size,                             *)
LEMMA CutWriting ==
  ASSUME WritingInv, Cut
  PROVE  WritingInv'
<1>1. PICK n \in 0 .. Len(wire) - 1 : wire' = SubSeq(wire, 1, n)
  BY DEF Cut
<1>2. /\ phase = "stored" /\ phase' = "stored" /\ cut'
      /\ UNCHANGED <<msg, ops, field, left, size, base>> /\ cut' \in BOOLEAN
  BY DEF Cut
<1>3. wire \in Seq(Byte) /\ Len(wire) \in Nat
  BY DEF WritingInv, WritingTypes
<1>4. wire' \in Seq(Byte)
  <2>1. n \in 0 .. Len(wire)
    BY <1>3
  <2> QED
    BY <1>1, <1>3, <2>1, FirstBytes
<1>5. WritingTypes'
  BY <1>2, <1>4 DEF WritingInv, WritingTypes, Before, Phases
<1>6. NothingWritten' /\ PiecesLeft' /\ SizeLeft' /\ SizeExact'
  BY <1>2 DEF NothingWritten, PiecesLeft, SizeLeft, SizeExact
<1> QED
  BY <1>5, <1>6 DEF WritingInv

(* and reading starts with a message, which is what b was, or nothing.     *)
LEMMA ReadWriting ==
  ASSUME WritingInv, Read
  PROVE  WritingInv'
<1>1. /\ phase = "stored" /\ phase' = "reading"
      /\ UNCHANGED <<ops, field, left, wire, size, cut>>
      /\ msg' = [msg EXCEPT !["b"] = base'] /\ base' \in {msg["b"], Empty}
  BY DEF Read
<1>2. base' \in Messages
  BY <1>1, EmptyType DEF WritingInv, WritingTypes, Before
<1>3. msg' = [o \in {"a", "b"} |-> msg'[o]] /\ msg'["a"] = msg["a"]
  BY <1>1 DEF WritingInv, WritingTypes
<1>4. WritingTypes'
  BY <1>1, <1>2, <1>3 DEF WritingInv, WritingTypes, Before, Phases
<1>5. NothingWritten' /\ PiecesLeft' /\ SizeLeft' /\ SizeExact'
  BY <1>1 DEF NothingWritten, PiecesLeft, SizeLeft, SizeExact
<1> QED
  BY <1>4, <1>5 DEF WritingInv

(* What is left of a sequence after its first bytes.                       *)
LEMMA FromType ==
  ASSUME NEW s \in Seq(Byte), NEW n \in Nat
  PROVE  /\ From(s, n + 1) \in Seq(Byte)
         /\ Len(From(s, n + 1)) = IF n <= Len(s) THEN Len(s) - n ELSE 0
         /\ \A i \in 1 .. Len(s) - n : From(s, n + 1)[i] = s[n + i]
<1>1. Len(s) \in Nat
  OBVIOUS
<1>2. \A i \in n + 1 .. Len(s) : s[i] \in Byte
  BY <1>1
<1>3. /\ From(s, n + 1) \in Seq(Byte)
      /\ Len(From(s, n + 1)) = IF n + 1 <= Len(s) THEN Len(s) - (n + 1) + 1 ELSE 0
      /\ \A i \in 1 .. Len(s) - (n + 1) + 1 : From(s, n + 1)[i] = s[n + 1 + i - 1]
  BY <1>1, <1>2, SubSeqProperties DEF From
<1>4. /\ Len(s) - (n + 1) + 1 = Len(s) - n /\ (n + 1 <= Len(s) => n <= Len(s))
      /\ n <= Len(s) => (n + 1 <= Len(s) \/ Len(s) - n = 0)
  BY <1>1
<1>5. \A i \in 1 .. Len(s) - n : n + 1 + i - 1 = n + i
  BY <1>1
<1> QED
  BY <1>1, <1>3, <1>4, <1>5

(* Bytes are numbers.                                                      *)
LEMMA BytesAreNumbers ==
  ASSUME NEW s \in Seq(Byte)
  PROVE  Len(s) \in Nat /\ \A i \in 1 .. Len(s) : s[i] \in Nat
<1>1. Byte \subseteq Nat
  BY DEF Byte
<1>2. \A i \in 1 .. Len(s) : s[i] \in Byte
  BY ElementOfSeq
<1>3. Len(s) \in Nat
  OBVIOUS
<1> QED
  BY <1>1, <1>2, <1>3, Zenon

(* A varint that is read is not longer than the bytes, and neither is a    *)
(* field.                                                                  *)
LEMMA ReadVarintType ==
  ASSUME NEW s \in Seq(Byte)
  PROVE  /\ ReadVarint(s).value \in Nat /\ ReadVarint(s).size \in 1 .. 2
         /\ ReadVarint(s).ok \in BOOLEAN
         /\ ReadVarint(s).ok => ReadVarint(s).size <= Len(s)
<1>1. Len(s) \in Nat /\ \A i \in 1 .. Len(s) : s[i] \in Nat
  BY BytesAreNumbers
<1>2. CASE Len(s) >= 1 /\ s[1] < 128
  BY <1>1, <1>2 DEF ReadVarint
<1>3. CASE Len(s) >= 2 /\ s[1] >= 128 /\ s[2] < 128
  BY <1>1, <1>3 DEF ReadVarint
<1>4. CASE ~ (Len(s) >= 1 /\ s[1] < 128) /\ ~ (Len(s) >= 2 /\ s[1] >= 128 /\ s[2] < 128)
  BY <1>4 DEF ReadVarint
<1> QED
  BY <1>2, <1>3, <1>4

(* A field that is read has a size, also when reading fails.               *)
LEMMA ReadFieldSize ==
  ASSUME NEW s \in Seq(Byte)
  PROVE  ReadField(s).size \in Nat /\ ReadField(s).ok \in BOOLEAN
<1> DEFINE tag == ReadVarint(s)
           v == ReadVarint(From(s, 1 + tag.size))
<1>1. tag.size \in 1 .. 2 /\ tag.size \in Nat
  BY ReadVarintType
<1>2. From(s, 1 + tag.size) \in Seq(Byte)
  <2>1. 1 + tag.size = tag.size + 1
    BY <1>1
  <2> QED
    BY <1>1, <2>1, FromType
<1>3. v.size \in 1 .. 2 /\ v.value \in Nat
  BY <1>2, ReadVarintType
<1>4. CASE ReadField(s) = NoField
  BY <1>4 DEF NoField
<1>5. CASE ReadField(s) # NoField
  <2>1. /\ ReadField(s).ok = TRUE
        /\ ReadField(s).size = tag.size + v.size + (IF tag.value % 8 = 2 THEN v.value ELSE 0)
    BY <1>5 DEF ReadField
  <2> DEFINE x == IF tag.value % 8 = 2 THEN v.value ELSE 0
  <2>2. x \in Nat /\ tag.size \in Nat /\ v.size \in Nat
    BY <1>1, <1>3
  <2> HIDE DEF x
  <2>3. tag.size + v.size + x \in Nat
    BY <2>2
  <2> QED
    BY <2>1, <2>3 DEF x
<1> QED
  BY <1>4, <1>5

(* Reading leaves alone what is written, and the size.                     *)
LEMMA ParseWriting ==
  ASSUME WritingInv, ParseField \/ ParseFails \/ ParseEnds
  PROVE  WritingInv'
<1>1. /\ phase = "reading" /\ phase' \in {"reading", "failed", "read"}
      /\ UNCHANGED <<ops, field, left, size, cut, base>>
  BY DEF ParseField, ParseFails, ParseEnds
<1>2. msg' = msg \/ \E m : msg' = [msg EXCEPT !["b"] = m]
  <2>1. CASE ParseField
    BY <2>1 DEF ParseField
  <2>2. CASE ParseFails
    BY <2>2 DEF ParseFails
  <2>3. CASE ParseEnds
    BY <2>3 DEF ParseEnds
  <2> QED
    BY <2>1, <2>2, <2>3
<1>3. msg' = [o \in {"a", "b"} |-> msg'[o]] /\ msg'["a"] = msg["a"]
  BY <1>2 DEF WritingInv, WritingTypes
<1>4. wire' \in Seq(Byte)
  <2>1. wire \in Seq(Byte)
    BY DEF WritingInv, WritingTypes
  <2>2. wire' = wire \/ wire' = From(wire, ReadField(wire).size + 1)
    BY DEF ParseField, ParseFails, ParseEnds
  <2>3. ReadField(wire).size \in Nat
    BY <2>1, ReadFieldSize
  <2> QED
    BY <2>1, <2>2, <2>3, FromType
<1>5. WritingTypes'
  BY <1>1, <1>3, <1>4 DEF WritingInv, WritingTypes, Before, Phases
<1>6. NothingWritten' /\ PiecesLeft' /\ SizeLeft' /\ SizeExact'
  BY <1>1 DEF NothingWritten, PiecesLeft, SizeLeft, SizeExact
<1> QED
  BY <1>5, <1>6 DEF WritingInv

(* So every step keeps the invariant of the writing.                       *)
LEMMA StepWriting == WritingInv /\ [MessageStep]_messages => WritingInv'
<1> SUFFICES ASSUME WritingInv, [MessageStep]_messages
             PROVE  WritingInv'
  OBVIOUS
<1>1. CASE \E o \in {"a", "b"} : Operation(o)
  <2>1. PICK o \in {"a", "b"} : Operation(o)
    BY <1>1
  <2>2. phase = "building"
    BY <2>1 DEF Operation, SetRegion, PutNumber, PutTimer, ClearField, AddUnknown, Clear,
                MergeFrom, CopyFrom, Update
  <2>3. msg["a"] \in Messages /\ msg["b"] \in Messages
    BY <2>2 DEF WritingInv, WritingTypes, Before
  <2>4. PICK m \in Messages : Update(o, m)
    BY <2>1, <2>3, OperationUpdates
  <2> QED
    BY <2>4, UpdateWriting
<1>2. CASE Swap
  BY <1>2, SwapWriting
<1>3. CASE Serialize
  BY <1>3, SerializeWriting
<1>4. CASE NextPieces
  BY <1>4, NextPiecesWriting
<1>5. CASE WritePiece
  BY <1>5, WritePieceWriting
<1>6. CASE Written
  BY <1>6, WrittenWriting
<1>7. CASE generate_simple
  BY <1>7, SimpleWriting
<1>8. CASE Cut
  BY <1>8, CutWriting
<1>9. CASE Read
  BY <1>9, ReadWriting
<1>10. CASE ParseField \/ ParseFails \/ ParseEnds
  BY <1>10, ParseWriting
<1>11. CASE UNCHANGED messages
  BY <1>11 DEF messages, WritingInv, WritingTypes, NothingWritten, PiecesLeft, SizeLeft, SizeExact
<1> QED
  BY <1>1, <1>2, <1>3, <1>4, <1>5, <1>6, <1>7, <1>8, <1>9, <1>10, <1>11 DEF MessageStep

(* SizeExact: ByteSizeLong, computed before anything is written, is the    *)
(* number of bytes _InternalSerialize then writes, whatever operations     *)
(* made the message, in whatever order the entries of its maps are         *)
(* written, for any keys, numbers, contents and unknown fields.            *)
THEOREM SizeExactCorrect == MessageSpec => []SizeExact
<1>1. NewMessages => WritingInv
  BY NewMessagesWriting
<1>2. WritingInv /\ [MessageStep]_messages => WritingInv'
  BY StepWriting
<1>3. WritingInv => SizeExact
  BY DEF WritingInv
<1> QED
  BY <1>1, <1>2, <1>3, PTL DEF MessageSpec

-----------------------------------------------------------------------------
(* Two sequences of which one begins the other.                            *)
Agree(p, w) == \A i \in 1 .. Len(p) : i <= Len(w) => w[i] = p[i]

(* They agree also when the same number of bytes is taken off both.        *)
LEMMA AgreeFrom ==
  ASSUME NEW p \in Seq(Byte), NEW w \in Seq(Byte), Agree(p, w), NEW n \in 0 .. Len(p)
  PROVE  Agree(From(p, n + 1), From(w, n + 1))
<1> DEFINE q == From(p, n + 1)
           u == From(w, n + 1)
<1>1. n \in Nat /\ Len(p) \in Nat /\ Len(w) \in Nat /\ n <= Len(p)
  OBVIOUS
<1>2. Len(q) = Len(p) - n /\ \A i \in 1 .. Len(p) - n : q[i] = p[n + i]
  BY <1>1, FromType
<1>3. /\ Len(u) = IF n <= Len(w) THEN Len(w) - n ELSE 0
      /\ \A i \in 1 .. Len(w) - n : u[i] = w[n + i]
  BY <1>1, FromType
<1> HIDE DEF q, u
<1>4. ASSUME NEW i \in 1 .. Len(q), i <= Len(u)
      PROVE  u[i] = q[i]
  <2>1. i \in 1 .. Len(p) - n /\ i \in 1 .. Len(w) - n
    BY <1>1, <1>2, <1>3, <1>4
  <2>2. n + i \in 1 .. Len(p) /\ n + i <= Len(w)
    BY <1>1, <2>1
  <2> QED
    BY <1>2, <1>3, <2>1, <2>2 DEF Agree
<1> QED
  BY <1>4 DEF Agree, q, u

(* A varint at the head of some bytes does not depend on what follows it,  *)
(* and none is read when some of its bytes are missing.                    *)
LEMMA VarintLocal ==
  ASSUME NEW p \in Seq(Byte), NEW w \in Seq(Byte), Agree(p, w), ReadVarint(p).ok
  PROVE  IF Len(w) >= ReadVarint(p).size THEN ReadVarint(w) = ReadVarint(p)
                                         ELSE ~ ReadVarint(w).ok
<1>1. /\ Len(p) \in Nat /\ Len(w) \in Nat
      /\ \A i \in 1 .. Len(p) : i <= Len(w) => w[i] = p[i]
  BY DEF Agree
<1>2. CASE Len(p) >= 1 /\ p[1] < 128
  <2>0. p[1] \in Nat /\ ~ (p[1] >= 128)
    <3>1. 1 \in 1 .. Len(p)
      BY <1>1, <1>2
    <3>2. p[1] \in Nat
      BY <3>1, BytesAreNumbers
    <3> QED
      BY <1>2, <3>2
  <2>1. ReadVarint(p).size = 1 /\ ReadVarint(p) = [ok |-> TRUE, value |-> p[1], size |-> 1]
    BY <1>2, <2>0 DEF ReadVarint
  <2>2. CASE Len(w) >= 1
    <3>1. w[1] = p[1]
      BY <1>1, <1>2, <2>2
    <3>2. ReadVarint(w) = [ok |-> TRUE, value |-> p[1], size |-> 1]
      BY <1>2, <2>0, <2>2, <3>1 DEF ReadVarint
    <3> QED
      BY <2>1, <2>2, <3>2
  <2>3. CASE ~ (Len(w) >= 1)
    <3>1. ~ (Len(w) >= 2)
      BY <1>1, <2>3
    <3>2. ~ ReadVarint(w).ok
      BY <2>3, <3>1 DEF ReadVarint
    <3> QED
      BY <2>1, <2>3, <3>2
  <2> QED
    BY <2>2, <2>3
<1>3. CASE Len(p) >= 2 /\ p[1] >= 128 /\ p[2] < 128
  <2>1. p[1] \in Nat /\ p[2] \in Nat
    <3>1. 1 \in 1 .. Len(p) /\ 2 \in 1 .. Len(p)
      BY <1>1, <1>3
    <3> QED
      BY <3>1, BytesAreNumbers
  <2>2. ~ (p[1] < 128)
    BY <1>3, <2>1
  <2>3. /\ ReadVarint(p) = [ok |-> TRUE, value |-> p[1] - 128 + 128 * p[2], size |-> 2]
        /\ ReadVarint(p).size = 2
    BY <1>3, <2>2 DEF ReadVarint
  <2>4. CASE Len(w) >= 2
    <3>1. w[1] = p[1] /\ w[2] = p[2] /\ Len(w) >= 1
      BY <1>1, <1>3, <2>4
    <3>2. ReadVarint(w) = [ok |-> TRUE, value |-> p[1] - 128 + 128 * p[2], size |-> 2]
      BY <1>3, <2>2, <2>4, <3>1 DEF ReadVarint
    <3> QED
      BY <2>3, <2>4, <3>2
  <2>5. CASE ~ (Len(w) >= 2)
    <3>1. ~ (Len(w) >= 1 /\ w[1] < 128)
      <4>1. Len(w) >= 1 => w[1] = p[1]
        BY <1>1, <1>3
      <4> QED
        BY <2>2, <4>1
    <3>2. ~ ReadVarint(w).ok
      BY <2>5, <3>1 DEF ReadVarint
    <3> QED
      BY <2>3, <2>5, <3>2
  <2> QED
    BY <2>4, <2>5
<1>4. CASE ~ (Len(p) >= 1 /\ p[1] < 128) /\ ~ (Len(p) >= 2 /\ p[1] >= 128 /\ p[2] < 128)
  <2>1. ReadVarint(p).ok = FALSE
    BY <1>4 DEF ReadVarint
  <2> QED
    BY <2>1
<1> QED
  BY <1>2, <1>3, <1>4

(* The parts of a field that is read.                                      *)
TagOf(s)  == ReadVarint(s)
NextOf(s) == ReadVarint(From(s, 1 + TagOf(s).size))
RestOf(s) == From(s, 1 + TagOf(s).size + NextOf(s).size)
TypeOf(s) == TagOf(s).value % 8

Readable(s) == /\ TagOf(s).ok /\ NextOf(s).ok /\ TagOf(s).value # 0 /\ TypeOf(s) \in {0, 2}
               /\ TypeOf(s) = 2 => ~ (NextOf(s).value > Len(RestOf(s)))

FieldAt(s) ==
    [ok |-> TRUE, field |-> TagOf(s).value \div 8, type |-> TypeOf(s), number |-> NextOf(s).value,
     bytes |-> IF TypeOf(s) = 2 THEN SubSeq(RestOf(s), 1, NextOf(s).value) ELSE <<>>,
     size |-> TagOf(s).size + NextOf(s).size + (IF TypeOf(s) = 2 THEN NextOf(s).value ELSE 0)]

(* A field is read when the parts can be, and fails to be otherwise.       *)
LEMMA ReadFieldParts ==
  ASSUME NEW s
  PROVE  /\ Readable(s) => ReadField(s) = FieldAt(s) /\ ReadField(s).ok
         /\ ~ Readable(s) => ReadField(s) = NoField /\ ~ ReadField(s).ok
<1>1. ReadField(s) = IF Readable(s) THEN FieldAt(s) ELSE NoField
  BY DEF ReadField, Readable, FieldAt, TagOf, NextOf, RestOf, TypeOf
<1>2. FieldAt(s).ok = TRUE /\ NoField.ok = FALSE
  BY DEF FieldAt, NoField
<1> QED
  BY <1>1, <1>2

(* Where the parts are.                                                    *)
LEMMA PartsOf ==
  ASSUME NEW s \in Seq(Byte), TagOf(s).ok, NextOf(s).ok
  PROVE  /\ TagOf(s).size \in 1 .. 2 /\ NextOf(s).size \in 1 .. 2
         /\ TagOf(s).value \in Nat /\ NextOf(s).value \in Nat
         /\ From(s, 1 + TagOf(s).size) \in Seq(Byte)
         /\ Len(From(s, 1 + TagOf(s).size)) = Len(s) - TagOf(s).size
         /\ RestOf(s) \in Seq(Byte)
         /\ Len(RestOf(s)) = Len(s) - TagOf(s).size - NextOf(s).size
         /\ TagOf(s).size + NextOf(s).size <= Len(s)
<1> DEFINE i == TagOf(s).size
           j == NextOf(s).size
           n == From(s, i + 1)
<1>1. i \in 1 .. 2 /\ i <= Len(s) /\ TagOf(s).value \in Nat
  BY ReadVarintType DEF TagOf
<1>2. Len(s) \in Nat
  OBVIOUS
<1>3. n \in Seq(Byte) /\ Len(n) = Len(s) - i
  <2>1. i \in Nat
    BY <1>1
  <2> HIDE DEF i
  <2> QED
    BY <1>1, <2>1, FromType
<1>4. 1 + i = i + 1
  BY <1>1
<1>5. From(s, 1 + i) = n
  BY <1>4
<1>6. j \in 1 .. 2 /\ j <= Len(n) /\ NextOf(s).value \in Nat
  <2>1. NextOf(s) = ReadVarint(n)
    BY <1>5 DEF NextOf
  <2> HIDE DEF n
  <2> QED
    BY <1>3, <2>1, ReadVarintType
<1>7. RestOf(s) = From(s, (i + j) + 1) /\ i + j \in Nat /\ i + j <= Len(s)
  <2>1. 1 + i + j = (i + j) + 1 /\ i + j \in Nat /\ i + j <= Len(s)
    <3> HIDE DEF i, j, n
    <3> QED
      BY <1>1, <1>2, <1>3, <1>6
  <2> QED
    BY <2>1 DEF RestOf
<1>8. RestOf(s) \in Seq(Byte) /\ Len(RestOf(s)) = Len(s) - (i + j)
  <2> DEFINE k == i + j
  <2>1. RestOf(s) = From(s, k + 1) /\ k \in Nat /\ k <= Len(s)
    BY <1>7
  <2> HIDE DEF k
  <2>2. RestOf(s) \in Seq(Byte) /\ Len(RestOf(s)) = Len(s) - k
    BY <2>1, FromType
  <2> QED
    BY <2>2 DEF k
<1>9. Len(s) - (i + j) = Len(s) - i - j
  <2> HIDE DEF i, j
  <2> QED
    BY <1>1, <1>2, <1>6
<1> QED
  BY <1>1, <1>3, <1>5, <1>6, <1>7, <1>8, <1>9

(* So a field that is read does not depend on what follows it, and none is *)
(* read when some of its bytes are missing.                                *)
LEMMA ReadLocal ==
  ASSUME NEW p \in Seq(Byte), NEW w \in Seq(Byte), Agree(p, w),
         ReadField(p).ok, ReadField(p).size = Len(p)
  PROVE  IF Len(w) >= Len(p) THEN ReadField(w) = ReadField(p) ELSE ~ ReadField(w).ok
<1> DEFINE i == TagOf(p).size
           j == NextOf(p).size
           v == NextOf(p).value
<1>1. Readable(p) /\ ReadField(p) = FieldAt(p)
  BY ReadFieldParts
<1>2. Len(p) \in Nat /\ Len(w) \in Nat
  OBVIOUS
<1>3. /\ i \in 1 .. 2 /\ j \in 1 .. 2 /\ v \in Nat /\ i + j <= Len(p)
      /\ From(p, 1 + i) \in Seq(Byte) /\ RestOf(p) \in Seq(Byte)
      /\ Len(RestOf(p)) = Len(p) - i - j
  BY <1>1, PartsOf DEF Readable
<1>4. Len(p) = i + j + (IF TypeOf(p) = 2 THEN v ELSE 0)
  BY <1>1 DEF FieldAt
<1>5. CASE Len(w) < i
  <2>1. ~ TagOf(w).ok
    <3>1. ~ (Len(w) >= i)
      BY <1>2, <1>3, <1>5
    <3> QED
      BY <1>1, <3>1, VarintLocal DEF TagOf, Readable
  <2>2. ~ (Len(w) >= Len(p))
    <3> HIDE DEF i, j, v
    <3> QED
      BY <1>2, <1>3, <1>5
  <2> QED
    BY <2>1, <2>2, ReadFieldParts DEF Readable
<1>6. CASE Len(w) >= i
  <2>1. TagOf(w) = TagOf(p)
    BY <1>1, <1>6, VarintLocal DEF TagOf, Readable
  <2> DEFINE q == From(p, i + 1)
             u == From(w, i + 1)
  <2>2. q \in Seq(Byte) /\ u \in Seq(Byte) /\ Len(u) = Len(w) - i /\ Agree(q, u)
    <3>1. i \in Nat /\ i \in 0 .. Len(p)
      <4> HIDE DEF i, j, v
      <4> QED
        BY <1>2, <1>3
    <3> HIDE DEF i
    <3> QED
      BY <1>6, <3>1, FromType, AgreeFrom
  <2>3. From(p, 1 + i) = q /\ From(w, 1 + i) = u
    <3>1. 1 + i = i + 1
      BY <1>3
    <3> QED
      BY <3>1
  <2>4. NextOf(p) = ReadVarint(q) /\ NextOf(w) = ReadVarint(u)
    BY <2>1, <2>3 DEF NextOf
  <2> HIDE DEF q, u
  <2>5. CASE Len(u) < j
    <3>1. ~ NextOf(w).ok
      <4>1. ~ (Len(u) >= j)
        BY <1>3, <2>2, <2>5
      <4> QED
        BY <1>1, <2>2, <2>4, <4>1, VarintLocal DEF Readable
    <3>2. ~ (Len(w) >= Len(p))
      <4> HIDE DEF i, j, v
      <4> QED
        BY <1>2, <1>3, <2>2, <2>5
    <3> QED
      BY <3>1, <3>2, ReadFieldParts DEF Readable
  <2>6. CASE Len(u) >= j
    <3>1. NextOf(w) = NextOf(p)
      BY <1>1, <2>2, <2>4, <2>6, VarintLocal DEF Readable
    <3>2. RestOf(w) \in Seq(Byte) /\ Len(RestOf(w)) = Len(w) - i - j
      BY <1>1, <2>1, <3>1, PartsOf DEF Readable
    <3>3. Agree(RestOf(p), RestOf(w))
      <4> DEFINE k == i + j
      <4>1. k \in 0 .. Len(p) /\ 1 + i + j = k + 1
        <5> HIDE DEF i, j, v
        <5> QED
          BY <1>2, <1>3
      <4>2. RestOf(p) = From(p, k + 1) /\ RestOf(w) = From(w, k + 1)
        BY <2>1, <3>1, <4>1 DEF RestOf
      <4> HIDE DEF k
      <4> QED
        BY <4>1, <4>2, AgreeFrom
    <3>4. TypeOf(w) = TypeOf(p)
      BY <2>1 DEF TypeOf
    <3>5. CASE TypeOf(p) # 2
      <4>1. Len(w) >= Len(p)
        <5>1. Len(p) = i + j
          <6>1. Len(p) = i + j + 0
            BY <1>4, <3>5
          <6> HIDE DEF i, j, v
          <6> QED
            BY <1>3, <6>1
        <5> HIDE DEF i, j, v
        <5> QED
          BY <1>2, <1>3, <2>2, <2>6, <5>1
      <4>2. Readable(w)
        BY <1>1, <2>1, <3>1, <3>4, <3>5 DEF Readable
      <4>3. FieldAt(w) = FieldAt(p)
        BY <2>1, <3>1, <3>4, <3>5 DEF FieldAt
      <4> QED
        BY <1>1, <4>1, <4>2, <4>3, ReadFieldParts
    <3>6. CASE TypeOf(p) = 2
      <4>1. Len(p) = i + j + v
        BY <1>4, <3>6
      <4>2. CASE Len(w) < Len(p)
        <5>1. v > Len(RestOf(w))
          <6> HIDE DEF i, j, v
          <6> QED
            BY <1>2, <1>3, <3>2, <4>1, <4>2
        <5>2. ~ Readable(w)
          BY <3>1, <3>4, <3>6, <5>1 DEF Readable
        <5>3. ~ (Len(w) >= Len(p))
          BY <1>2, <4>2
        <5> QED
          BY <5>2, <5>3, ReadFieldParts
      <4>3. CASE Len(w) >= Len(p)
        <5>1. ~ (v > Len(RestOf(w))) /\ v = Len(RestOf(p)) /\ v <= Len(RestOf(w))
          <6> HIDE DEF i, j, v
          <6> QED
            BY <1>2, <1>3, <3>2, <4>1, <4>3
        <5>2. Readable(w)
          BY <1>1, <2>1, <3>1, <3>4, <5>1 DEF Readable
        <5>3. SubSeq(RestOf(w), 1, v) = SubSeq(RestOf(p), 1, v)
          <6> DEFINE x == SubSeq(RestOf(w), 1, v)
                     y == SubSeq(RestOf(p), 1, v)
          <6>1. v \in 0 .. Len(RestOf(w)) /\ v \in 0 .. Len(RestOf(p))
            <7> HIDE DEF v
            <7> QED
              BY <1>3, <5>1
          <6>2. /\ x \in Seq(Byte) /\ Len(x) = v /\ \A n \in 1 .. v : x[n] = RestOf(w)[n]
                /\ y \in Seq(Byte) /\ Len(y) = v /\ \A n \in 1 .. v : y[n] = RestOf(p)[n]
            BY <1>3, <3>2, <6>1, FirstBytes
          <6>3. ASSUME NEW n \in 1 .. v
                PROVE  x[n] = y[n]
            <7>1. n \in 1 .. Len(RestOf(p)) /\ n <= Len(RestOf(w))
              <8> HIDE DEF v
              <8> QED
                BY <1>3, <3>2, <5>1, <6>3
            <7> QED
              BY <3>3, <6>2, <7>1 DEF Agree
          <6> HIDE DEF x, y, v
          <6>4. x = y
            BY <6>2, <6>3, SeqEqual
          <6> QED
            BY <6>4 DEF x, y
        <5>4. FieldAt(w) = FieldAt(p)
          BY <2>1, <3>1, <3>4, <3>6, <5>3 DEF FieldAt
        <5> QED
          BY <1>1, <4>3, <5>2, <5>4, ReadFieldParts
      <4> QED
        BY <1>2, <4>2, <4>3
    <3> QED
      BY <3>5, <3>6
  <2> QED
    BY <1>3, <2>2, <2>5, <2>6
<1> QED
  BY <1>2, <1>3, <1>5, <1>6

-----------------------------------------------------------------------------
(* What stands before a sequence and what stands after one.                *)
LEMMA JoinedParts ==
  ASSUME NEW a \in Seq(Byte), NEW b \in Seq(Byte)
  PROVE  /\ From(a \o b, Len(a) + 1) = b
         /\ SubSeq(a \o b, 1, Len(a)) = a
         /\ Agree(a, a \o b)
<1> DEFINE s == a \o b
           n == Len(a)
<1>1. s \in Seq(Byte) /\ Len(s) = n + Len(b) /\ n \in Nat /\ Len(b) \in Nat
  BY JoinBytes
<1>2. /\ \A i \in 1 .. n : s[i] = a[i]
      /\ \A i \in 1 .. Len(b) : s[n + i] = b[i]
  <2>1. \A i \in 1 .. n + Len(b) : s[i] = IF i <= n THEN a[i] ELSE b[i - n]
    BY ConcatProperties
  <2>2. \A i \in 1 .. n : i \in 1 .. n + Len(b) /\ i <= n
    BY <1>1
  <2>3. \A i \in 1 .. Len(b) : n + i \in 1 .. n + Len(b) /\ ~ (n + i <= n) /\ (n + i) - n = i
    BY <1>1
  <2> HIDE DEF s, n
  <2> QED
    BY <2>1, <2>2, <2>3
<1> HIDE DEF s, n
<1>3. From(s, n + 1) = b
  <2> DEFINE u == From(s, n + 1)
  <2>1. /\ u \in Seq(Byte) /\ Len(u) = IF n <= Len(s) THEN Len(s) - n ELSE 0
        /\ \A i \in 1 .. Len(s) - n : u[i] = s[n + i]
    BY <1>1, FromType
  <2>2. Len(u) = Len(b) /\ Len(s) - n = Len(b)
    BY <1>1, <2>1
  <2> HIDE DEF u
  <2>3. \A i \in 1 .. Len(u) : u[i] = b[i]
    BY <1>2, <2>1, <2>2
  <2>4. u = b
    BY <2>1, <2>2, <2>3, SeqEqual
  <2> QED
    BY <2>4 DEF u
<1>4. SubSeq(s, 1, n) = a
  <2> DEFINE u == SubSeq(s, 1, n)
  <2>1. n \in 0 .. Len(s)
    BY <1>1
  <2>2. u \in Seq(Byte) /\ Len(u) = n /\ \A i \in 1 .. n : u[i] = s[i]
    BY <1>1, <2>1, FirstBytes
  <2> HIDE DEF u
  <2>3. Len(u) = Len(a) /\ \A i \in 1 .. Len(u) : u[i] = a[i]
    BY <1>2, <2>2 DEF n
  <2>4. u = a
    BY <2>2, <2>3, SeqEqual
  <2> QED
    BY <2>4 DEF u
<1>5. Agree(a, s)
  BY <1>2 DEF Agree, n
<1> QED
  BY <1>3, <1>4, <1>5 DEF s, n

(* Nothing joined to bytes changes them,                                   *)
LEMMA EmptyJoin ==
  ASSUME NEW a \in Seq(Byte)
  PROVE  a \o <<>> = a /\ <<>> \o a = a /\ <<>> \in Seq(Byte) /\ Len(<<>>) = 0
BY ConcatEmptySeq, EmptySeq

(* and three sequences are joined in either order.                         *)
LEMMA JoinAssociates ==
  ASSUME NEW a \in Seq(Byte), NEW b \in Seq(Byte), NEW c \in Seq(Byte)
  PROVE  (a \o b) \o c = a \o (b \o c)
BY ConcatAssociative

(* The two forms of a varint.                                              *)
LEMMA ReadOne ==
  ASSUME NEW s, NEW n \in Nat, n < 128, Len(s) = 1, s[1] = n
  PROVE  ReadVarint(s) = [ok |-> TRUE, value |-> n, size |-> 1]
<1>1. Len(s) >= 1 /\ s[1] < 128 /\ ~ (s[1] >= 128)
  OBVIOUS
<1> QED
  BY <1>1 DEF ReadVarint

(* or two bytes, of which the first is marked.                             *)
LEMMA ReadTwo ==
  ASSUME NEW s, NEW x \in Nat, NEW y \in Nat, x >= 128, y < 128, Len(s) = 2, s[1] = x, s[2] = y
  PROVE  ReadVarint(s) = [ok |-> TRUE, value |-> x - 128 + 128 * y, size |-> 2]
<1>1. Len(s) >= 2 /\ s[1] >= 128 /\ s[2] < 128 /\ ~ (s[1] < 128)
  OBVIOUS
<1> QED
  BY <1>1 DEF ReadVarint

(* A number is read as it was written,                                     *)
LEMMA VarintRead ==
  ASSUME NEW n \in Short, NEW u \in Seq(Byte)
  PROVE  ReadVarint(Varint(n) \o u) = [ok |-> TRUE, value |-> n, size |-> VarintSize(n)]
<1>1. /\ Varint(n) \in Seq(Byte) /\ Len(Varint(n)) = VarintSize(n) /\ VarintSize(n) \in 1 .. 2
      /\ n \in Nat
  <2>1. n \in Nat
    BY DEF Short
  <2> QED
    BY <2>1, VarintType
<1>2. ReadVarint(Varint(n)) = [ok |-> TRUE, value |-> n, size |-> VarintSize(n)]
  <2>1. CASE n < 128
    <3>1. Varint(n) = <<n>> /\ VarintSize(n) = 1
      BY <2>1 DEF Varint, VarintSize
    <3> DEFINE s == <<n>>
    <3>2. Len(s) = 1 /\ s[1] = n
      OBVIOUS
    <3> HIDE DEF s
    <3>3. ReadVarint(s) = [ok |-> TRUE, value |-> n, size |-> 1]
      BY <1>1, <2>1, <3>2, ReadOne
    <3> QED
      BY <3>1, <3>3 DEF s
  <2>2. CASE n >= 128
    <3> DEFINE x == 128 + (n % 128)
               y == n \div 128
               s == <<x, y>>
    <3>1. Varint(n) = s /\ VarintSize(n) = 2
      BY <1>1, <2>2 DEF Varint, VarintSize
    <3>2. x \in Byte /\ y \in Byte /\ x >= 128 /\ y < 128 /\ x - 128 + 128 * y = n
      BY HighAndLow
    <3>3. Len(s) = 2 /\ s[1] = x /\ s[2] = y
      OBVIOUS
    <3> HIDE DEF s, x, y
    <3>4. x \in Nat /\ y \in Nat
      BY <3>2 DEF Byte
    <3>5. ReadVarint(s) = [ok |-> TRUE, value |-> n, size |-> 2]
      BY <3>2, <3>3, <3>4, ReadTwo
    <3> QED
      BY <3>1, <3>5
  <2> QED
    BY <1>1, <2>1, <2>2
<1>3. /\ Varint(n) \o u \in Seq(Byte) /\ Len(Varint(n) \o u) = Len(Varint(n)) + Len(u)
      /\ Agree(Varint(n), Varint(n) \o u) /\ Len(Varint(n)) \in Nat /\ Len(u) \in Nat
  BY <1>1, JoinBytes, JoinedParts
<1>4. Len(Varint(n) \o u) >= ReadVarint(Varint(n)).size
  <2> DEFINE i == Len(Varint(n))
             j == Len(u)
  <2>1. i \in Nat /\ j \in Nat /\ ReadVarint(Varint(n)).size = i /\ Len(Varint(n) \o u) = i + j
    BY <1>1, <1>2, <1>3
  <2> HIDE DEF i, j
  <2> QED
    BY <2>1
<1> DEFINE v == Varint(n)
           w == v \o u
<1>5. v \in Seq(Byte) /\ w \in Seq(Byte) /\ Agree(v, w) /\ ReadVarint(v).ok
  BY <1>1, <1>2, <1>3
<1>6. Len(w) >= ReadVarint(v).size /\ ReadVarint(v) = [ok |-> TRUE, value |-> n, size |-> VarintSize(n)]
  BY <1>2, <1>4
<1>7. ReadVarint(w) = ReadVarint(v)
  <2> HIDE DEF v, w
  <2> QED
    BY <1>5, <1>6, VarintLocal
<1> QED
  BY <1>6, <1>7

(* and so are fields.                                                      *)
Tagged(tag, n, rest) == <<tag>> \o (Varint(n) \o rest)

IsField(s, tag, n, rest) ==
    /\ s \in Seq(Byte) /\ Len(s) = 1 + (VarintSize(n) + Len(rest))
    /\ TagOf(s) = [ok |-> TRUE, value |-> tag, size |-> 1]
    /\ NextOf(s) = [ok |-> TRUE, value |-> n, size |-> VarintSize(n)]
    /\ RestOf(s) = rest

(* The tag of a field is a varint of one byte.                             *)
LEMMA SmallTag ==
  ASSUME NEW tag \in 1 .. 127
  PROVE  /\ <<tag>> \in Seq(Byte) /\ Len(<<tag>>) = 1 /\ <<tag>> = Varint(tag)
         /\ tag \in Short /\ VarintSize(tag) = 1
<1>1. tag < 128 /\ tag \in Byte /\ tag \in Nat /\ tag < 16384
  BY DEF Byte
<1>2. tag \in Short
  BY <1>1, BelowLimit
<1> QED
  BY <1>1, <1>2 DEF Varint, VarintSize

(* A tag and a varint are read back, and the rest is what follows them.    *)
LEMMA FieldRead ==
  ASSUME NEW tag \in 1 .. 127, NEW n \in Short, NEW rest \in Seq(Byte),
         NEW s, s = Tagged(tag, n, rest)
  PROVE  IsField(s, tag, n, rest)
<1> DEFINE h == <<tag>>
           v == Varint(n)
<1>1. h \in Seq(Byte) /\ Len(h) = 1 /\ h = Varint(tag) /\ tag \in Short /\ VarintSize(tag) = 1
  BY SmallTag
<1>2. v \in Seq(Byte) /\ Len(v) = VarintSize(n) /\ VarintSize(n) \in 1 .. 2 /\ VarintSize(n) \in Nat
  BY VarintType
<1>3. v \o rest \in Seq(Byte) /\ Len(v \o rest) = VarintSize(n) + Len(rest) /\ Len(rest) \in Nat
  BY <1>2, JoinBytes
<1>4. s = h \o (v \o rest)
  BY DEF Tagged
<1> HIDE DEF h, v
<1>5. s \in Seq(Byte) /\ Len(s) = 1 + (VarintSize(n) + Len(rest))
  <2>1. h \o (v \o rest) \in Seq(Byte) /\ Len(h \o (v \o rest)) = Len(h) + Len(v \o rest)
    BY <1>1, <1>3, JoinBytes
  <2> QED
    BY <1>1, <1>3, <1>4, <2>1
<1>6. TagOf(s) = [ok |-> TRUE, value |-> tag, size |-> 1]
  BY <1>1, <1>3, <1>4, VarintRead DEF TagOf
<1>7. From(s, 1 + TagOf(s).size) = v \o rest
  <2>1. From(s, Len(h) + 1) = v \o rest
    BY <1>1, <1>3, <1>4, JoinedParts
  <2>2. TagOf(s).size = 1
    BY <1>6
  <2> QED
    BY <1>1, <2>1, <2>2
<1>8. NextOf(s) = [ok |-> TRUE, value |-> n, size |-> VarintSize(n)]
  BY <1>7, VarintRead DEF NextOf, v
<1>9. RestOf(s) = rest
  <2> DEFINE a == h \o v
  <2>1. a \in Seq(Byte) /\ Len(a) = 1 + VarintSize(n)
    <3>1. h \in Seq(Byte) /\ v \in Seq(Byte) /\ Len(h) = 1 /\ Len(v) = VarintSize(n)
      BY <1>1, <1>2
    <3>2. h \o v \in Seq(Byte) /\ Len(h \o v) = Len(h) + Len(v)
      BY <3>1, JoinBytes
    <3> QED
      BY <3>1, <3>2
  <2>2. s = a \o rest
    BY <1>1, <1>2, <1>4, JoinAssociates
  <2> HIDE DEF a
  <2>3. From(s, Len(a) + 1) = rest
    BY <2>1, <2>2, JoinedParts
  <2>4. 1 + TagOf(s).size + NextOf(s).size = Len(a) + 1
    <3>1. TagOf(s).size = 1 /\ NextOf(s).size = VarintSize(n)
      BY <1>6, <1>8
    <3>2. ASSUME NEW i \in Nat
          PROVE  1 + 1 + i = (1 + i) + 1
      OBVIOUS
    <3> QED
      BY <1>2, <2>1, <3>1, <3>2
  <2> QED
    BY <2>3, <2>4 DEF RestOf
<1> QED
  BY <1>5, <1>6, <1>8, <1>9 DEF IsField

(* So a field of bytes is read as it was written: its number, its bytes,   *)
(* and its size, with nothing before the end and nothing after it,         *)
LEMMA ReadBytesField ==
  ASSUME NEW f \in 1 .. 7, NEW bytes \in Seq(Byte), Len(bytes) \in Short
  PROVE  ReadField(BytesField(f, bytes)) =
             [ok |-> TRUE, field |-> f, type |-> 2, number |-> Len(bytes), bytes |-> bytes,
              size |-> Len(BytesField(f, bytes))]
<1> DEFINE tag == 8 * f + 2
           n == Len(bytes)
           s == BytesField(f, bytes)
<1>1. tag \in 1 .. 127 /\ tag # 0 /\ tag % 8 = 2 /\ tag \div 8 = f
  OBVIOUS
<1>2. Varint(n) \in Seq(Byte) /\ VarintSize(n) \in Nat /\ n \in Nat
  BY VarintType
<1>3. s = Tagged(tag, n, bytes)
  <2>1. <<tag>> \in Seq(Byte)
    BY DEF Byte
  <2> QED
    BY <1>2, <2>1, JoinAssociates DEF BytesField, Tagged
<1> HIDE DEF s, tag
<1>4. /\ s \in Seq(Byte) /\ Len(s) = 1 + (VarintSize(n) + n)
      /\ TagOf(s) = [ok |-> TRUE, value |-> tag, size |-> 1]
      /\ NextOf(s) = [ok |-> TRUE, value |-> n, size |-> VarintSize(n)]
      /\ RestOf(s) = bytes
  <2>1. n \in Short
    OBVIOUS
  <2> HIDE DEF n
  <2>2. IsField(s, tag, n, bytes)
    BY <1>1, <1>3, <2>1, FieldRead
  <2> QED
    BY <2>2 DEF IsField, n
<1>5. TypeOf(s) = 2
  BY <1>1, <1>4 DEF TypeOf
<1>6. Readable(s)
  <2>1. ~ (n > n)
    BY <1>2
  <2> QED
    BY <1>1, <1>4, <1>5, <2>1 DEF Readable
<1>7. SubSeq(bytes, 1, n) = bytes
  BY SubSeqFull
<1>8. 1 + VarintSize(n) + n = 1 + (VarintSize(n) + n)
  <2> HIDE DEF n
  <2> QED
    BY <1>2
<1>9. FieldAt(s) = [ok |-> TRUE, field |-> f, type |-> 2, number |-> n, bytes |-> bytes,
                    size |-> Len(s)]
  <2>1. /\ TagOf(s).value \div 8 = f /\ NextOf(s).value = n /\ TagOf(s).size = 1
        /\ NextOf(s).size = VarintSize(n)
    BY <1>1, <1>4
  <2>2. TagOf(s).size + NextOf(s).size + (IF TypeOf(s) = 2 THEN NextOf(s).value ELSE 0) = Len(s)
    BY <1>4, <1>5, <1>8, <2>1
  <2>3. (IF TypeOf(s) = 2 THEN SubSeq(RestOf(s), 1, NextOf(s).value) ELSE <<>>) = bytes
    BY <1>4, <1>5, <1>7, <2>1
  <2> QED
    BY <1>5, <2>1, <2>2, <2>3, Zenon DEF FieldAt
<1> QED
  BY <1>6, <1>9, ReadFieldParts DEF s

(* and a field with a number.                                              *)
LEMMA ReadVarintField ==
  ASSUME NEW f \in 1 .. 7, NEW n \in Short
  PROVE  ReadField(VarintField(f, n)) =
             [ok |-> TRUE, field |-> f, type |-> 0, number |-> n, bytes |-> <<>>,
              size |-> Len(VarintField(f, n))]
<1> DEFINE tag == 8 * f
           s == VarintField(f, n)
<1>1. tag \in 1 .. 127 /\ tag # 0 /\ tag % 8 = 0 /\ tag \div 8 = f
  OBVIOUS
<1>2. Varint(n) \in Seq(Byte) /\ VarintSize(n) \in Nat
  BY VarintType
<1>3. s = Tagged(tag, n, <<>>)
  BY <1>2, EmptyJoin DEF VarintField, Tagged
<1> HIDE DEF s, tag
<1>4. /\ s \in Seq(Byte) /\ Len(s) = 1 + (VarintSize(n) + Len(<<>>))
      /\ TagOf(s) = [ok |-> TRUE, value |-> tag, size |-> 1]
      /\ NextOf(s) = [ok |-> TRUE, value |-> n, size |-> VarintSize(n)]
  <2> DEFINE e == <<>>
  <2>1. e \in Seq(Byte) /\ s = Tagged(tag, n, e)
    BY <1>3
  <2> HIDE DEF e
  <2>2. IsField(s, tag, n, e)
    BY <1>1, <2>1, FieldRead
  <2> QED
    BY <2>2 DEF IsField, e
<1>5. TypeOf(s) = 0
  BY <1>1, <1>4 DEF TypeOf
<1>6. Readable(s)
  BY <1>1, <1>4, <1>5 DEF Readable
<1>7. 1 + VarintSize(n) + 0 = 1 + (VarintSize(n) + Len(<<>>))
  BY <1>2, EmptySeq
<1>8. FieldAt(s) = [ok |-> TRUE, field |-> f, type |-> 0, number |-> n, bytes |-> <<>>,
                    size |-> Len(s)]
  <2>1. /\ TagOf(s).value \div 8 = f /\ NextOf(s).value = n /\ TagOf(s).size = 1
        /\ NextOf(s).size = VarintSize(n)
    BY <1>1, <1>4
  <2>2. TagOf(s).size + NextOf(s).size + (IF TypeOf(s) = 2 THEN NextOf(s).value ELSE 0) = Len(s)
    BY <1>4, <1>5, <1>7, <2>1
  <2>3. (IF TypeOf(s) = 2 THEN SubSeq(RestOf(s), 1, NextOf(s).value) ELSE <<>>) = <<>>
    BY <1>5
  <2> QED
    BY <1>5, <2>1, <2>2, <2>3, Zenon DEF FieldAt
<1> QED
  BY <1>6, <1>8, ReadFieldParts DEF s

-----------------------------------------------------------------------------
(* What can be read of some bytes.                                         *)
FieldValues == [ok : BOOLEAN, field : Nat, type : Nat, number : Nat, bytes : Seq(Byte), size : Nat]

(* It is that for any bytes, of a file that is broken too.                 *)
LEMMA ReadFieldType ==
  ASSUME NEW s \in Seq(Byte)
  PROVE  ReadField(s) \in FieldValues
<1>1. CASE ~ Readable(s)
  <2>1. ReadField(s) = NoField
    BY <1>1, ReadFieldParts
  <2>2. <<>> \in Seq(Byte)
    OBVIOUS
  <2> QED
    BY <2>1, <2>2 DEF NoField, FieldValues
<1>2. CASE Readable(s)
  <2> DEFINE v == NextOf(s).value
             b == IF TypeOf(s) = 2 THEN SubSeq(RestOf(s), 1, v) ELSE <<>>
             z == TagOf(s).size + NextOf(s).size + (IF TypeOf(s) = 2 THEN v ELSE 0)
  <2>1. ReadField(s) = FieldAt(s) /\ ReadField(s).size \in Nat
    BY <1>2, ReadFieldParts, ReadFieldSize
  <2>2. /\ TagOf(s).value \in Nat /\ v \in Nat /\ RestOf(s) \in Seq(Byte)
        /\ TagOf(s).ok /\ NextOf(s).ok
    BY <1>2, PartsOf DEF Readable
  <2>3. TagOf(s).value \div 8 \in Nat /\ TypeOf(s) \in Nat
    BY <2>2 DEF TypeOf
  <2>4. b \in Seq(Byte)
    <3>1. CASE TypeOf(s) = 2
      <4>1. v \in 0 .. Len(RestOf(s))
        <5>1. ~ (v > Len(RestOf(s))) /\ Len(RestOf(s)) \in Nat
          BY <1>2, <2>2, <3>1 DEF Readable
        <5> HIDE DEF v
        <5> QED
          BY <2>2, <5>1
      <4>2. SubSeq(RestOf(s), 1, v) \in Seq(Byte)
        <5> HIDE DEF v
        <5> QED
          BY <2>2, <4>1, FirstBytes
      <4> QED
        BY <3>1, <4>2
    <3>2. CASE TypeOf(s) # 2
      BY <3>2, EmptySeq
    <3> QED
      BY <3>1, <3>2
  <2>5. FieldAt(s) = [ok |-> TRUE, field |-> TagOf(s).value \div 8, type |-> TypeOf(s),
                      number |-> v, bytes |-> b, size |-> z]
    BY DEF FieldAt
  <2>6. z \in Nat
    BY <2>1, <2>5
  <2> HIDE DEF v, b, z
  <2> QED
    BY <2>1, <2>2, <2>3, <2>4, <2>5, <2>6 DEF FieldValues
<1> QED
  BY <1>1, <1>2

(* A field at the head of a sequence of which the rest is known.           *)
LEMMA ReadHead ==
  ASSUME NEW p \in Seq(Byte), NEW u \in Seq(Byte), ReadField(p).ok, ReadField(p).size = Len(p)
  PROVE  ReadField(p \o u) = ReadField(p) /\ From(p \o u, ReadField(p).size + 1) = u
<1> DEFINE w == p \o u
<1>1. w \in Seq(Byte) /\ Len(w) = Len(p) + Len(u) /\ Len(p) \in Nat /\ Len(u) \in Nat
  BY JoinBytes
<1>2. Agree(p, w) /\ From(w, Len(p) + 1) = u
  BY JoinedParts
<1> HIDE DEF w
<1>3. Len(w) >= Len(p)
  <2> DEFINE i == Len(p)
             j == Len(u)
  <2>1. i \in Nat /\ j \in Nat /\ Len(w) = i + j
    BY <1>1
  <2> HIDE DEF i, j
  <2>2. Len(w) >= i
    BY <2>1
  <2> QED
    BY <2>2 DEF i
<1>4. ReadField(w) = ReadField(p)
  BY <1>1, <1>2, <1>3, ReadLocal
<1> QED
  BY <1>2, <1>4 DEF w

-----------------------------------------------------------------------------
(* The states a loop of n turns comes through.                             *)
Computes(f, S, start, n, step) ==
    f \in [0 .. n -> S] /\ f[0] = start /\ \A i \in 1 .. n : f[i] = step[i][f[i - 1]]

(* There is one, as long as every turn stays among the states.             *)
LEMMA SomeRun ==
  ASSUME NEW S, NEW start \in S, NEW n \in Nat, NEW step \in [1 .. n -> [S -> S]]
  PROVE  \E f : Computes(f, S, start, n, step)
BY Recursion DEF Computes

(* The states of the loop that reads a timer.                              *)
TimerValues == [preset_value : Nat, current_value : Nat, enabled : BOOLEAN]
TimerStates == [timer : TimerValues, rest : Seq(Byte), ok : BOOLEAN]

(* A turn leads from such a state to such a state,                         *)
LEMMA TimerTurnType ==
  ASSUME NEW r \in TimerStates
  PROVE  TimerTurn(r) \in TimerStates
<1>1. r.timer \in TimerValues /\ r.rest \in Seq(Byte) /\ r.ok \in BOOLEAN
  BY DEF TimerStates
<1> DEFINE f == ReadField(r.rest)
<1>2. f \in FieldValues
  BY <1>1, ReadFieldType
<1>3. f.ok \in BOOLEAN /\ f.number \in Nat /\ f.size \in Nat
  BY <1>2 DEF FieldValues
<1>4. From(r.rest, f.size + 1) \in Seq(Byte)
  <2> HIDE DEF f
  <2> QED
    BY <1>1, <1>3, FromType
<1>5. SetTimer(r.timer, f) \in TimerValues
  <2>1. \/ SetTimer(r.timer, f) = [r.timer EXCEPT !.preset_value = f.number]
        \/ SetTimer(r.timer, f) = [r.timer EXCEPT !.current_value = f.number]
        \/ SetTimer(r.timer, f) = [r.timer EXCEPT !.enabled = f.number # 0]
        \/ SetTimer(r.timer, f) = r.timer
    <3> HIDE DEF f
    <3>1. CASE f.field = 1 /\ f.type = 0
      BY <3>1 DEF SetTimer
    <3>2. CASE f.field = 2 /\ f.type = 0
      BY <3>2 DEF SetTimer
    <3>3. CASE f.field = 3 /\ f.type = 0
      BY <3>3 DEF SetTimer
    <3>4. CASE ~ (f.field = 1 /\ f.type = 0) /\ ~ (f.field = 2 /\ f.type = 0) /\ ~ (f.field = 3 /\ f.type = 0)
      BY <3>4 DEF SetTimer
    <3> QED
      BY <3>1, <3>2, <3>3, <3>4
  <2> HIDE DEF f
  <2> QED
    BY <1>1, <1>3, <2>1 DEF TimerValues
<1>6. TimerTurn(r) = r \/ TimerTurn(r) = [timer |-> SetTimer(r.timer, f),
                                          rest |-> From(r.rest, f.size + 1), ok |-> f.ok]
  BY DEF TimerTurn
<1> HIDE DEF f
<1> QED
  BY <1>3, <1>4, <1>5, <1>6 DEF TimerStates

(* so the loop is what its definition says.                                *)
LEMMA TimerTurnsDef ==
  ASSUME NEW bytes \in Seq(Byte)
  PROVE  /\ TimerTurns(bytes)[0] = [timer |-> ZeroTimer, rest |-> bytes, ok |-> TRUE]
         /\ \A i \in 1 .. Len(bytes) : TimerTurns(bytes)[i] = TimerTurn(TimerTurns(bytes)[i - 1])
<1> DEFINE S == TimerStates
           n == Len(bytes)
           start == [timer |-> ZeroTimer, rest |-> bytes, ok |-> TRUE]
           step == [i \in 1 .. n |-> [r \in S |-> TimerTurn(r)]]
           Is(f) == f = [i \in 0 .. n |-> IF i = 0 THEN start ELSE TimerTurn(f[i - 1])]
           at == TimerTurns(bytes)
<1>1. n \in Nat /\ start \in S
  BY DEF TimerStates, TimerValues, ZeroTimer
<1>2. at = CHOOSE f : Is(f)
  BY DEF TimerTurns
<1>3. step \in [1 .. n -> [S -> S]]
  BY TimerTurnType
<1> HIDE DEF n, S, start, at
<1>4. PICK f \in [0 .. n -> S] : f[0] = start /\ \A i \in 1 .. n : f[i] = step[i][f[i - 1]]
  <2> HIDE DEF step
  <2>1. \E f : Computes(f, S, start, n, step)
    BY <1>1, <1>3, SomeRun
  <2> QED
    BY <2>1 DEF Computes
<1>5. \A i \in 1 .. n : f[i] = TimerTurn(f[i - 1])
  BY <1>1, <1>4
<1>6. \E g : Is(g)
  BY <1>1, <1>4, <1>5
<1> HIDE DEF Is
<1>7. Is(at)
  BY <1>2, <1>6, Zenon
<1>8. at[0] = start /\ \A i \in 1 .. n : at[i] = TimerTurn(at[i - 1])
  BY <1>1, <1>7 DEF Is
<1> QED
  BY <1>8 DEF n, start, at

(* The loop comes to a state, with turns enough for the bytes that remain. *)
TimerAt(bytes, t, rest) ==
    \E i \in 0 .. Len(bytes) :
        /\ TimerTurns(bytes)[i] = [timer |-> t, rest |-> rest, ok |-> TRUE]
        /\ i + Len(rest) <= Len(bytes)

(* At first it has read nothing,                                           *)
LEMMA TimerStart ==
  ASSUME NEW bytes \in Seq(Byte)
  PROVE  TimerAt(bytes, ZeroTimer, bytes)
<1>1. Len(bytes) \in Nat
  OBVIOUS
<1>2. 0 \in 0 .. Len(bytes) /\ 0 + Len(bytes) <= Len(bytes)
  BY <1>1
<1> QED
  BY <1>2, TimerTurnsDef DEF TimerAt

(* a whole field at the head of the rest is taken into the timer,          *)
LEMMA TimerGoesOn ==
  ASSUME NEW bytes \in Seq(Byte), NEW t, NEW p \in Seq(Byte), NEW u \in Seq(Byte),
         ReadField(p).ok = TRUE, ReadField(p).size = Len(p), p # <<>>, TimerAt(bytes, t, p \o u)
  PROVE  TimerAt(bytes, SetTimer(t, ReadField(p)), u)
<1> DEFINE r == [timer |-> t, rest |-> p \o u, ok |-> TRUE]
           q == [timer |-> SetTimer(t, ReadField(p)), rest |-> u, ok |-> TRUE]
<1>1. PICK i \in 0 .. Len(bytes) : TimerTurns(bytes)[i] = r /\ i + Len(p \o u) <= Len(bytes)
  BY DEF TimerAt
<1>2. /\ Len(p \o u) = Len(p) + Len(u) /\ Len(p) \in Nat /\ Len(u) \in Nat /\ Len(bytes) \in Nat
      /\ Len(p) > 0
  BY JoinBytes, EmptySeq
<1>3. /\ i + 1 \in 1 .. Len(bytes) /\ (i + 1) - 1 = i /\ i + 1 \in 0 .. Len(bytes)
      /\ (i + 1) + Len(u) <= Len(bytes) /\ Len(p \o u) # 0
  BY <1>1, <1>2
<1>4. ReadField(p \o u) = ReadField(p) /\ From(p \o u, ReadField(p).size + 1) = u
  BY ReadHead
<1>5. p \o u # <<>>
  BY <1>3, EmptySeq
<1>6. TimerTurn(r) = q
  BY <1>4, <1>5 DEF TimerTurn
<1> DEFINE at == TimerTurns(bytes)
<1>7. at[i + 1] = q
  <2>1. \A j \in 1 .. Len(bytes) : at[j] = TimerTurn(at[j - 1])
    BY TimerTurnsDef
  <2>2. at[i] = r
    BY <1>1
  <2> HIDE DEF at, r, q
  <2>3. at[i + 1] = TimerTurn(at[i])
    BY <1>3, <2>1
  <2> QED
    BY <1>6, <2>2, <2>3
<1> QED
  BY <1>3, <1>7 DEF TimerAt

(* and when nothing remains, the turns that are left change nothing.       *)
LEMMA TimerEnds ==
  ASSUME NEW bytes \in Seq(Byte), NEW t, TimerAt(bytes, t, <<>>)
  PROVE  ParseTimer(bytes).timer = t /\ ParseTimer(bytes).ok
<1> DEFINE r == [timer |-> t, rest |-> <<>>, ok |-> TRUE]
           n == Len(bytes)
           at == TimerTurns(bytes)
<1>1. PICK i \in 0 .. n : at[i] = r
  BY DEF TimerAt
<1> DEFINE Stays == {j \in 0 .. n : j >= i => at[j] = r}
<1>2. n \in Nat
  OBVIOUS
<1>3. TimerTurn(r) = r
  BY DEF TimerTurn
<1>4. \A j \in 1 .. n : at[j] = TimerTurn(at[j - 1])
  BY TimerTurnsDef
<1> HIDE DEF r, n, at
<1>5. 0 \in Stays
  BY <1>1, <1>2
<1>6. \A j \in 1 .. n : j - 1 \in Stays => j \in Stays
  <2> SUFFICES ASSUME NEW j \in 1 .. n, j - 1 \in Stays, j >= i
               PROVE  at[j] = r
    BY <1>2
  <2>1. CASE j = i
    BY <1>1, <2>1
  <2>2. CASE j # i
    <3>1. j - 1 >= i
      BY <1>2, <2>2
    <3> QED
      BY <1>3, <1>4, <3>1
  <2> QED
    BY <2>1, <2>2
<1>7. n \in Stays
  <2>1. n \in 0 .. n
    BY <1>2
  <2> HIDE DEF Stays
  <2> QED
    BY <1>2, <1>5, <1>6, <2>1, Upwards
<1>8. at[n] = r
  BY <1>2, <1>7
<1>9. ParseTimer(bytes) = r
  BY <1>8 DEF ParseTimer, at, n
<1> QED
  BY <1>9 DEF r

(* A field that is left out is one that is zero, and stays it.             *)
AfterNumber(t, f, n) == IF n = 0 THEN t ELSE SetTimer(t, [field |-> f, type |-> 0, number |-> n])

(* A field that may have been left out is read either way.                 *)
LEMMA TimerOptional ==
  ASSUME NEW bytes \in Seq(Byte), NEW t, NEW f \in 1 .. 7, NEW n \in Short, NEW u \in Seq(Byte),
         TimerAt(bytes, t, UnlessZero(f, n) \o u)
  PROVE  TimerAt(bytes, AfterNumber(t, f, n), u)
<1>1. CASE n = 0
  <2>1. UnlessZero(f, n) \o u = u
    BY <1>1, EmptyJoin DEF UnlessZero
  <2> QED
    BY <1>1, <2>1 DEF AfterNumber
<1>2. CASE n # 0
  <2> DEFINE p == VarintField(f, n)
             x == ReadField(p)
             y == [field |-> f, type |-> 0, number |-> n]
  <2>1. UnlessZero(f, n) = p
    BY <1>2 DEF UnlessZero
  <2>2. p \in Seq(Byte) /\ Len(p) = 1 + VarintSize(n) /\ VarintSize(n) \in 1 .. 2
    BY VarintFieldType
  <2>3. p # <<>>
    <3>1. Len(p) # 0
      BY <2>2
    <3> HIDE DEF p
    <3> QED
      BY <3>1, EmptySeq
  <2>4. x = [ok |-> TRUE, field |-> f, type |-> 0, number |-> n, bytes |-> <<>>, size |-> Len(p)]
    BY ReadVarintField
  <2>5. /\ x.ok = TRUE /\ x.field = f /\ x.type = 0 /\ x.number = n /\ x.size = Len(p)
        /\ y.field = f /\ y.type = 0 /\ y.number = n
    BY <2>4
  <2>6. TimerAt(bytes, SetTimer(t, x), u)
    <3>1. TimerAt(bytes, t, p \o u)
      BY <2>1
    <3> HIDE DEF p
    <3> QED
      BY <2>2, <2>3, <2>5, <3>1, TimerGoesOn
  <2> HIDE DEF x, y
  <2>7. SetTimer(t, x) = SetTimer(t, y)
    BY <2>5 DEF SetTimer
  <2> QED
    BY <1>2, <2>6, <2>7 DEF AfterNumber, y
<1> QED
  BY <1>1, <1>2

(* The three fields of a timer, by their numbers.                          *)
LEMMA SetTimerParts ==
  ASSUME NEW t, NEW f, f.type = 0
  PROVE  /\ f.field = 1 => SetTimer(t, f) = [t EXCEPT !.preset_value = f.number]
         /\ f.field = 2 => SetTimer(t, f) = [t EXCEPT !.current_value = f.number]
         /\ f.field = 3 => SetTimer(t, f) = [t EXCEPT !.enabled = f.number # 0]
<1>1. CASE f.field = 1
  BY <1>1 DEF SetTimer
<1>2. CASE f.field = 2
  BY <1>2 DEF SetTimer
<1>3. CASE f.field = 3
  BY <1>3 DEF SetTimer
<1> QED
  BY <1>1, <1>2, <1>3

(* Read in their order, they give the preset value,                        *)
LEMMA AfterPreset ==
  ASSUME NEW p
  PROVE  AfterNumber(ZeroTimer, 1, p) = [preset_value |-> p, current_value |-> 0, enabled |-> FALSE]
<1> DEFINE f == [field |-> 1, type |-> 0, number |-> p]
<1>1. f.type = 0 /\ f.field = 1 /\ f.number = p
  OBVIOUS
<1>2. AfterNumber(ZeroTimer, 1, p) = IF p = 0 THEN ZeroTimer ELSE SetTimer(ZeroTimer, f)
  BY DEF AfterNumber
<1> HIDE DEF f
<1>3. SetTimer(ZeroTimer, f) = [ZeroTimer EXCEPT !.preset_value = p]
  BY <1>1, SetTimerParts
<1> QED
  BY <1>2, <1>3 DEF ZeroTimer

(* the current value,                                                      *)
LEMMA AfterCurrent ==
  ASSUME NEW p, NEW c
  PROVE  AfterNumber([preset_value |-> p, current_value |-> 0, enabled |-> FALSE], 2, c)
            = [preset_value |-> p, current_value |-> c, enabled |-> FALSE]
<1> DEFINE t == [preset_value |-> p, current_value |-> 0, enabled |-> FALSE]
           f == [field |-> 2, type |-> 0, number |-> c]
<1>1. f.type = 0 /\ f.field = 2 /\ f.number = c
  OBVIOUS
<1>2. AfterNumber(t, 2, c) = IF c = 0 THEN t ELSE SetTimer(t, f)
  BY DEF AfterNumber
<1> HIDE DEF f
<1>3. SetTimer(t, f) = [t EXCEPT !.current_value = c]
  <2> HIDE DEF t
  <2> QED
    BY <1>1, SetTimerParts
<1>4. [t EXCEPT !.current_value = c] = [preset_value |-> p, current_value |-> c, enabled |-> FALSE]
  <2>1. ASSUME NEW z, NEW e
        PROVE  [[preset_value |-> p, current_value |-> z, enabled |-> e] EXCEPT !.current_value = c]
                  = [preset_value |-> p, current_value |-> c, enabled |-> e]
    OBVIOUS
  <2> QED
    BY <2>1
<1> QED
  BY <1>2, <1>3, <1>4

(* and the flag, of which only that it is not zero counts.                 *)
LEMMA AfterEnabled ==
  ASSUME NEW p, NEW c, NEW b \in BOOLEAN
  PROVE  AfterNumber([preset_value |-> p, current_value |-> c, enabled |-> FALSE], 3,
                     IF b THEN 1 ELSE 0)
            = [preset_value |-> p, current_value |-> c, enabled |-> b]
<1> DEFINE t == [preset_value |-> p, current_value |-> c, enabled |-> FALSE]
           n == IF b THEN 1 ELSE 0
           f == [field |-> 3, type |-> 0, number |-> n]
<1>1. f.type = 0 /\ f.field = 3 /\ f.number = n
  OBVIOUS
<1>2. AfterNumber(t, 3, n) = IF n = 0 THEN t ELSE SetTimer(t, f)
  BY DEF AfterNumber
<1>3. (n = 0) = ~ b /\ (n # 0) = b
  OBVIOUS
<1> HIDE DEF f, n
<1>4. SetTimer(t, f) = [t EXCEPT !.enabled = b]
  <2> HIDE DEF t
  <2>1. SetTimer(t, f) = [t EXCEPT !.enabled = f.number # 0]
    BY <1>1, SetTimerParts
  <2> QED
    BY <1>1, <1>3, <2>1
<1>5. [t EXCEPT !.enabled = b] = [preset_value |-> p, current_value |-> c, enabled |-> b]
  OBVIOUS
<1>6. CASE b = TRUE
  BY <1>2, <1>3, <1>4, <1>5, <1>6 DEF n
<1>7. CASE b = FALSE
  BY <1>2, <1>3, <1>7 DEF n
<1> QED
  BY <1>6, <1>7

(* So a timer is read as it was written, zeros included.                   *)
LEMMA TimerRead ==
  ASSUME NEW t \in TimerCounter
  PROVE  ParseTimer(TimerBytes(t)).timer = t /\ ParseTimer(TimerBytes(t)).ok
<1> DEFINE p == t.preset_value
           c == t.current_value
           e == IF t.enabled THEN 1 ELSE 0
           bytes == TimerBytes(t)
           x == UnlessZero(1, p)
           y == UnlessZero(2, c)
           z == UnlessZero(3, e)
           t1 == [preset_value |-> p, current_value |-> 0, enabled |-> FALSE]
           t2 == [preset_value |-> p, current_value |-> c, enabled |-> FALSE]
<1>1. p \in Short /\ c \in Short /\ e \in Short /\ t.enabled \in BOOLEAN
  BY TimerFields3
<1>2. bytes \in Seq(Byte)
  BY TimerBytesType
<1>3. x \in Seq(Byte) /\ y \in Seq(Byte) /\ z \in Seq(Byte)
  <2> HIDE DEF p, c, e
  <2> QED
    BY <1>1, UnlessZeroType
<1>4. bytes = x \o (y \o (z \o <<>>)) /\ y \o (z \o <<>>) \in Seq(Byte) /\ z \o <<>> \in Seq(Byte)
  <2>1. bytes = (x \o y) \o z
    BY DEF TimerBytes
  <2> HIDE DEF x, y, z
  <2>2. z \o <<>> = z /\ y \o z \in Seq(Byte)
    BY <1>3, EmptyJoin, JoinBytes
  <2>3. (x \o y) \o z = x \o (y \o z)
    BY <1>3, JoinAssociates
  <2> QED
    BY <1>3, <2>1, <2>2, <2>3
<1>5. t = [preset_value |-> p, current_value |-> c, enabled |-> t.enabled]
  BY DEF TimerCounter
<1>6. <<>> \in Seq(Byte)
  OBVIOUS
<1> HIDE DEF bytes
<1>7. TimerAt(bytes, ZeroTimer, x \o (y \o (z \o <<>>)))
  <2> HIDE DEF x, y, z
  <2>1. TimerAt(bytes, ZeroTimer, bytes)
    BY <1>2, TimerStart
  <2> QED
    BY <1>4, <2>1
<1>8. ASSUME NEW f \in 1 .. 7, NEW n \in Short, NEW u \in Seq(Byte), NEW v,
             TimerAt(bytes, v, UnlessZero(f, n) \o u)
      PROVE  TimerAt(bytes, AfterNumber(v, f, n), u)
  BY <1>2, <1>8, TimerOptional
<1>9. 1 \in 1 .. 7 /\ 2 \in 1 .. 7 /\ 3 \in 1 .. 7
  OBVIOUS
<1> HIDE DEF p, c, e
<1>10. TimerAt(bytes, AfterNumber(ZeroTimer, 1, p), y \o (z \o <<>>))
  BY <1>1, <1>4, <1>7, <1>8, <1>9
<1>11. TimerAt(bytes, t1, y \o (z \o <<>>))
  BY <1>10, AfterPreset
<1>12. TimerAt(bytes, AfterNumber(t1, 2, c), z \o <<>>)
  <2> HIDE DEF t1
  <2> QED
    BY <1>1, <1>4, <1>8, <1>9, <1>11
<1>13. TimerAt(bytes, t2, z \o <<>>)
  BY <1>12, AfterCurrent
<1>14. TimerAt(bytes, AfterNumber(t2, 3, e), <<>>)
  <2> HIDE DEF t2
  <2> QED
    BY <1>1, <1>6, <1>8, <1>9, <1>13
<1>15. TimerAt(bytes, t, <<>>)
  <2>1. AfterNumber(t2, 3, e) = [preset_value |-> p, current_value |-> c, enabled |-> t.enabled]
    BY <1>1, AfterEnabled DEF e
  <2> QED
    BY <1>5, <1>14, <2>1
<1>16. ParseTimer(bytes).timer = t /\ ParseTimer(bytes).ok
  BY <1>2, <1>15, TimerEnds
<1> QED
  BY <1>16 DEF bytes

-----------------------------------------------------------------------------
(* The states of the loop that reads an entry of a map.                    *)
KeyValues == Byte \union {<<>>[1]}
EntryValues == [key : KeyValues, value : FieldValues]
EntryStates == [entry : EntryValues, rest : Seq(Byte), ok : BOOLEAN]

(* A turn leads from such a state to such a state, for the fields of any   *)
(* bytes: an empty key has no first byte.                                  *)
LEMMA EntryTurnType ==
  ASSUME NEW r \in EntryStates, NEW timed \in BOOLEAN
  PROVE  EntryTurn(r, timed) \in EntryStates
<1>1. r.entry \in EntryValues /\ r.rest \in Seq(Byte) /\ r.ok \in BOOLEAN
  BY DEF EntryStates
<1> DEFINE f == ReadField(r.rest)
           good == f.ok /\ (timed /\ f.field = 2 => ParseTimer(f.bytes).ok)
<1>2. f \in FieldValues
  BY <1>1, ReadFieldType
<1>3. f.ok \in BOOLEAN /\ f.bytes \in Seq(Byte) /\ f.size \in Nat
  BY <1>2 DEF FieldValues
<1>4. From(r.rest, f.size + 1) \in Seq(Byte)
  <2> HIDE DEF f
  <2> QED
    BY <1>1, <1>3, FromType
<1>5. f.bytes[1] \in KeyValues
  <2> HIDE DEF f
  <2>1. CASE f.bytes = <<>>
    BY <2>1 DEF KeyValues
  <2>2. CASE f.bytes # <<>>
    <3>1. 1 \in 1 .. Len(f.bytes) /\ f.bytes[1] \in Byte
      BY <1>3, <2>2, TailHead
    <3> QED
      BY <3>1 DEF KeyValues
  <2> QED
    BY <2>1, <2>2
<1>6. SetEntry(r.entry, f) \in EntryValues
  <2> HIDE DEF f
  <2>1. CASE f.field = 1 /\ f.type = 2
    <3>1. SetEntry(r.entry, f) = [r.entry EXCEPT !.key = f.bytes[1]]
      BY <2>1 DEF SetEntry
    <3> QED
      BY <1>1, <1>5, <3>1 DEF EntryValues
  <2>2. CASE f.field = 2
    <3>1. SetEntry(r.entry, f) = [r.entry EXCEPT !.value = f]
      BY <2>2 DEF SetEntry
    <3> QED
      BY <1>1, <1>2, <3>1 DEF EntryValues
  <2>3. CASE ~ (f.field = 1 /\ f.type = 2) /\ f.field # 2
    <3>1. SetEntry(r.entry, f) = r.entry
      BY <2>3 DEF SetEntry
    <3> QED
      BY <1>1, <3>1
  <2> QED
    BY <2>1, <2>2, <2>3
<1>7. good \in BOOLEAN
  <2> HIDE DEF f
  <2> QED
    BY <1>3
<1>8. EntryTurn(r, timed) = r \/ EntryTurn(r, timed) = [entry |-> SetEntry(r.entry, f),
                                 rest |-> From(r.rest, f.size + 1), ok |-> good]
  BY DEF EntryTurn
<1> HIDE DEF f, good
<1> QED
  BY <1>4, <1>6, <1>7, <1>8 DEF EntryStates

NoEntry == [key |-> 0, value |-> NoField]

(* The loop of an entry is what its definition says.                       *)
LEMMA EntryTurnsDef ==
  ASSUME NEW bytes \in Seq(Byte), NEW timed \in BOOLEAN
  PROVE  /\ EntryTurns(bytes, timed)[0] = [entry |-> NoEntry, rest |-> bytes, ok |-> TRUE]
         /\ \A i \in 1 .. Len(bytes) :
               EntryTurns(bytes, timed)[i] = EntryTurn(EntryTurns(bytes, timed)[i - 1], timed)
<1> DEFINE S == EntryStates
           n == Len(bytes)
           start == [entry |-> NoEntry, rest |-> bytes, ok |-> TRUE]
           step == [i \in 1 .. n |-> [r \in S |-> EntryTurn(r, timed)]]
           Is(f) == f = [i \in 0 .. n |-> IF i = 0 THEN start ELSE EntryTurn(f[i - 1], timed)]
           at == EntryTurns(bytes, timed)
<1>1. n \in Nat /\ start \in S
  <2>1. NoField \in FieldValues
    <3>1. <<>> \in Seq(Byte)
      OBVIOUS
    <3> QED
      BY <3>1 DEF NoField, FieldValues
  <2>2. 0 \in KeyValues
    BY DEF KeyValues, Byte
  <2> QED
    BY <2>1, <2>2 DEF EntryStates, EntryValues, NoEntry
<1>2. at = CHOOSE f : Is(f)
  BY DEF EntryTurns, NoEntry
<1>3. step \in [1 .. n -> [S -> S]]
  BY EntryTurnType
<1> HIDE DEF n, S, start, at
<1>4. PICK f \in [0 .. n -> S] : f[0] = start /\ \A i \in 1 .. n : f[i] = step[i][f[i - 1]]
  <2> HIDE DEF step
  <2>1. \E f : Computes(f, S, start, n, step)
    BY <1>1, <1>3, SomeRun
  <2> QED
    BY <2>1 DEF Computes
<1>5. \A i \in 1 .. n : f[i] = EntryTurn(f[i - 1], timed)
  BY <1>1, <1>4
<1>6. \E g : Is(g)
  BY <1>1, <1>4, <1>5
<1> HIDE DEF Is
<1>7. Is(at)
  BY <1>2, <1>6, Zenon
<1>8. at[0] = start /\ \A i \in 1 .. n : at[i] = EntryTurn(at[i - 1], timed)
  BY <1>1, <1>7 DEF Is
<1> QED
  BY <1>8 DEF n, start, at

EntryAt(bytes, timed, e, rest) ==
    \E i \in 0 .. Len(bytes) :
        /\ EntryTurns(bytes, timed)[i] = [entry |-> e, rest |-> rest, ok |-> TRUE]
        /\ i + Len(rest) <= Len(bytes)

(* At first it has read nothing,                                           *)
LEMMA EntryStart ==
  ASSUME NEW bytes \in Seq(Byte), NEW timed \in BOOLEAN
  PROVE  EntryAt(bytes, timed, NoEntry, bytes)
<1>1. Len(bytes) \in Nat
  OBVIOUS
<1>2. 0 \in 0 .. Len(bytes) /\ 0 + Len(bytes) <= Len(bytes)
  BY <1>1
<1> QED
  BY <1>2, EntryTurnsDef DEF EntryAt

(* A field whose bytes are those of a timer, where it has to be one.       *)
Sound(f, timed) == timed /\ f.field = 2 => ParseTimer(f.bytes).ok

(* a whole field at the head of the rest is taken into the entry,          *)
LEMMA EntryGoesOn ==
  ASSUME NEW bytes \in Seq(Byte), NEW timed \in BOOLEAN, NEW e, NEW p \in Seq(Byte),
         NEW u \in Seq(Byte), ReadField(p).ok = TRUE, ReadField(p).size = Len(p), p # <<>>,
         Sound(ReadField(p), timed), EntryAt(bytes, timed, e, p \o u)
  PROVE  EntryAt(bytes, timed, SetEntry(e, ReadField(p)), u)
<1> DEFINE r == [entry |-> e, rest |-> p \o u, ok |-> TRUE]
           q == [entry |-> SetEntry(e, ReadField(p)), rest |-> u, ok |-> TRUE]
<1>1. PICK i \in 0 .. Len(bytes) : EntryTurns(bytes, timed)[i] = r /\ i + Len(p \o u) <= Len(bytes)
  BY DEF EntryAt
<1>2. /\ Len(p \o u) = Len(p) + Len(u) /\ Len(p) \in Nat /\ Len(u) \in Nat /\ Len(bytes) \in Nat
      /\ Len(p) > 0
  BY JoinBytes, EmptySeq
<1>3. /\ i + 1 \in 1 .. Len(bytes) /\ (i + 1) - 1 = i /\ i + 1 \in 0 .. Len(bytes)
      /\ (i + 1) + Len(u) <= Len(bytes) /\ Len(p \o u) # 0
  BY <1>1, <1>2
<1>4. ReadField(p \o u) = ReadField(p) /\ From(p \o u, ReadField(p).size + 1) = u
  BY ReadHead
<1>5. p \o u # <<>>
  BY <1>3, EmptySeq
<1>6. EntryTurn(r, timed) = q
  BY <1>4, <1>5 DEF EntryTurn, Sound
<1> DEFINE at == EntryTurns(bytes, timed)
<1>7. at[i + 1] = q
  <2>1. \A j \in 1 .. Len(bytes) : at[j] = EntryTurn(at[j - 1], timed)
    BY EntryTurnsDef
  <2>2. at[i] = r
    BY <1>1
  <2> HIDE DEF at, r, q
  <2>3. at[i + 1] = EntryTurn(at[i], timed)
    BY <1>3, <2>1
  <2> QED
    BY <1>6, <2>2, <2>3
<1> QED
  BY <1>3, <1>7 DEF EntryAt

(* and when nothing remains, the entry is what has been read.              *)
LEMMA EntryEnds ==
  ASSUME NEW bytes \in Seq(Byte), NEW timed \in BOOLEAN, NEW e, EntryAt(bytes, timed, e, <<>>)
  PROVE  /\ EntryTurns(bytes, timed)[Len(bytes)].entry = e
         /\ EntryTurns(bytes, timed)[Len(bytes)].ok = TRUE
<1> DEFINE r == [entry |-> e, rest |-> <<>>, ok |-> TRUE]
           n == Len(bytes)
           at == EntryTurns(bytes, timed)
<1>1. PICK i \in 0 .. n : at[i] = r
  BY DEF EntryAt
<1> DEFINE Stays == {j \in 0 .. n : j >= i => at[j] = r}
<1>2. n \in Nat
  OBVIOUS
<1>3. EntryTurn(r, timed) = r
  BY DEF EntryTurn
<1>4. \A j \in 1 .. n : at[j] = EntryTurn(at[j - 1], timed)
  BY EntryTurnsDef
<1> HIDE DEF r, n, at
<1>5. 0 \in Stays
  BY <1>1, <1>2
<1>6. \A j \in 1 .. n : j - 1 \in Stays => j \in Stays
  <2> SUFFICES ASSUME NEW j \in 1 .. n, j - 1 \in Stays, j >= i
               PROVE  at[j] = r
    BY <1>2
  <2>1. CASE j = i
    BY <1>1, <2>1
  <2>2. CASE j # i
    <3>1. j - 1 >= i
      BY <1>2, <2>2
    <3> QED
      BY <1>3, <1>4, <3>1
  <2> QED
    BY <2>1, <2>2
<1>7. n \in Stays
  <2>1. n \in 0 .. n
    BY <1>2
  <2> HIDE DEF Stays
  <2> QED
    BY <1>2, <1>5, <1>6, <2>1, Upwards
<1>8. at[n] = r
  BY <1>2, <1>7
<1> QED
  BY <1>8 DEF r, at, n

IsEntry(bytes, k, p) == bytes = BytesField(1, <<k>>) \o p
EntryTaken(r, k, v) == r.entry = [key |-> k, value |-> v] /\ r.ok = TRUE

(* A key and a value are read as they were written.                        *)
LEMMA EntryRead ==
  ASSUME NEW k \in Keys, NEW p \in Seq(Byte), NEW timed \in BOOLEAN, p # <<>>,
         ReadField(p).ok = TRUE, ReadField(p).size = Len(p), ReadField(p).field = 2,
         Sound(ReadField(p), timed), NEW bytes, IsEntry(bytes, k, p)
  PROVE  EntryTaken(EntryTurns(bytes, timed)[Len(bytes)], k, ReadField(p))
<1> DEFINE h == BytesField(1, <<k>>)
           e == [key |-> k, value |-> NoField]
           d == [key |-> k, value |-> ReadField(p)]
<1>1. h \in Seq(Byte) /\ Len(h) = 3 /\ <<k>> \in Seq(Byte) /\ Len(<<k>>) = 1
  BY KeyField
<1>2. ReadField(h) = [ok |-> TRUE, field |-> 1, type |-> 2, number |-> 1, bytes |-> <<k>>,
                      size |-> Len(h)]
  <2> DEFINE b == <<k>>
             f == 1
  <2>1. b \in Seq(Byte) /\ Len(b) = 1 /\ Len(b) \in Short /\ f \in 1 .. 7
    BY <1>1 DEF Short
  <2> HIDE DEF b, f
  <2>2. ReadField(BytesField(f, b)) =
             [ok |-> TRUE, field |-> f, type |-> 2, number |-> Len(b), bytes |-> b,
              size |-> Len(BytesField(f, b))]
    BY <2>1, ReadBytesField
  <2> QED
    BY <2>1, <2>2 DEF b, f
<1>3. ReadField(h).ok = TRUE /\ ReadField(h).size = Len(h) /\ ReadField(h).field = 1
      /\ ReadField(h).type = 2 /\ ReadField(h).bytes = <<k>>
  BY <1>2
<1>4. h # <<>>
  <2> HIDE DEF h
  <2>1. Len(h) # 0
    BY <1>1
  <2> QED
    BY <2>1, EmptySeq
<1>5. Sound(ReadField(h), timed)
  BY <1>3 DEF Sound
<1>6. SetEntry(NoEntry, ReadField(h)) = e
  <2>1. SetEntry(NoEntry, ReadField(h)) = [NoEntry EXCEPT !.key = ReadField(h).bytes[1]]
    BY <1>3 DEF SetEntry
  <2>2. <<k>>[1] = k
    OBVIOUS
  <2> QED
    BY SMTT(30), <1>3, <2>1, <2>2 DEF NoEntry
<1>7. SetEntry(e, ReadField(p)) = d
  <2>1. SetEntry(e, ReadField(p)) = [e EXCEPT !.value = ReadField(p)]
    <3> HIDE DEF e
    <3> QED
      BY DEF SetEntry
  <2> QED
    BY <2>1
<1>8. bytes = h \o p /\ bytes \in Seq(Byte) /\ p \o <<>> = p /\ <<>> \in Seq(Byte)
  <2>1. bytes = h \o p
    BY DEF IsEntry
  <2> HIDE DEF h
  <2> QED
    BY <1>1, <2>1, JoinBytes, EmptyJoin
<1> HIDE DEF h
<1>9. EntryAt(bytes, timed, NoEntry, h \o p)
  BY <1>8, EntryStart
<1>10. EntryAt(bytes, timed, e, p \o <<>>)
  <2>1. EntryAt(bytes, timed, SetEntry(NoEntry, ReadField(h)), p)
    BY <1>1, <1>3, <1>4, <1>5, <1>8, <1>9, EntryGoesOn
  <2> QED
    BY <1>6, <1>8, <2>1
<1>11. EntryAt(bytes, timed, d, <<>>)
  <2> HIDE DEF e, d
  <2>1. EntryAt(bytes, timed, SetEntry(e, ReadField(p)), <<>>)
    BY <1>8, <1>10, EntryGoesOn
  <2> QED
    BY <1>7, <2>1
<1>12. /\ EntryTurns(bytes, timed)[Len(bytes)].entry = d
       /\ EntryTurns(bytes, timed)[Len(bytes)].ok = TRUE
  <2> HIDE DEF d, e
  <2>1. bytes \in Seq(Byte)
    BY <1>8
  <2> QED
    BY <1>11, <2>1, EntryEnds
<1> QED
  BY <1>12 DEF d, EntryTaken

(* An entry of a map of numbers, or of timers, gives back its key and its  *)
(* value.                                                                  *)
HoldsNumber(f, k, n) == f.field \notin TimerFields /\ f.bytes = NumberBody(k, n)
GivesNumber(r, k, n) == r.ok = TRUE /\ r.entry.key = k /\ r.entry.value.number = n
HoldsTimer(f, k, t) == f.field \in TimerFields /\ f.bytes = TimerBody(k, t)
GivesTimer(r, k, t) ==
    r.ok = TRUE /\ r.entry.key = k /\ ParseTimer(r.entry.value.bytes).timer = t

(* The entry of a number,                                                  *)
LEMMA NumberEntryRead ==
  ASSUME NEW k \in Keys, NEW n \in Short, NEW f, HoldsNumber(f, k, n)
  PROVE  GivesNumber(ParseEntry(f), k, n)
<1>0. f.field \notin TimerFields /\ f.bytes = NumberBody(k, n)
  BY DEF HoldsNumber
<1> DEFINE p == VarintField(2, n)
<1>1. p \in Seq(Byte) /\ Len(p) = 1 + VarintSize(n) /\ VarintSize(n) \in 1 .. 2
  BY VarintFieldType
<1>2. p # <<>>
  <2>1. Len(p) # 0
    BY <1>1
  <2> HIDE DEF p
  <2> QED
    BY <2>1, EmptySeq
<1>3. ReadField(p) = [ok |-> TRUE, field |-> 2, type |-> 0, number |-> n, bytes |-> <<>>,
                      size |-> Len(p)]
  BY ReadVarintField
<1>4. /\ ReadField(p).ok = TRUE /\ ReadField(p).size = Len(p) /\ ReadField(p).field = 2
      /\ ReadField(p).number = n
  BY <1>3
<1>5. Sound(ReadField(p), FALSE) /\ FALSE \in BOOLEAN
  BY DEF Sound
<1>6. IsEntry(f.bytes, k, p)
  BY <1>0 DEF NumberBody, IsEntry
<1>7. ParseEntry(f) = EntryTurns(f.bytes, FALSE)[Len(f.bytes)]
  <2>1. (f.field \in TimerFields) = FALSE
    BY <1>0
  <2> QED
    BY <2>1 DEF ParseEntry
<1> HIDE DEF p
<1>8. EntryTaken(ParseEntry(f), k, ReadField(p))
  BY <1>1, <1>2, <1>4, <1>5, <1>6, <1>7, EntryRead
<1> QED
  BY <1>4, <1>8 DEF EntryTaken, GivesNumber

(* and the entry of a timer, which is read by a loop of its own.           *)
LEMMA TimerEntryRead ==
  ASSUME NEW k \in Keys, NEW t \in TimerCounter, NEW f, HoldsTimer(f, k, t)
  PROVE  GivesTimer(ParseEntry(f), k, t)
<1>1. f.field \in TimerFields /\ f.bytes = TimerBody(k, t)
  BY DEF HoldsTimer
<1> DEFINE b == TimerBytes(t)
           p == BytesField(2, b)
<1>2. b \in Seq(Byte) /\ Len(b) \in Short
  <2>1. b \in Seq(Byte) /\ Len(b) \in 0 .. 9
    BY TimerBytesType
  <2>2. 0 .. 9 \subseteq Short
    BY DEF Short
  <2> QED
    BY <2>1, <2>2
<1>3. p \in Seq(Byte) /\ Len(p) = 1 + BytesSize(Len(b)) /\ BytesSize(Len(b)) \in Nat
  <2> HIDE DEF b
  <2> QED
    BY <1>2, BytesFieldType
<1>4. p # <<>>
  <2>1. Len(p) # 0
    BY <1>3
  <2> HIDE DEF p
  <2> QED
    BY <2>1, EmptySeq
<1>5. ReadField(p) = [ok |-> TRUE, field |-> 2, type |-> 2, number |-> Len(b), bytes |-> b,
                      size |-> Len(p)]
  <2> HIDE DEF b
  <2> QED
    BY <1>2, ReadBytesField
<1>6. /\ ReadField(p).ok = TRUE /\ ReadField(p).size = Len(p) /\ ReadField(p).field = 2
      /\ ReadField(p).bytes = b
  BY <1>5
<1>7. Sound(ReadField(p), TRUE) /\ TRUE \in BOOLEAN
  BY <1>6, TimerRead DEF Sound
<1>8. IsEntry(f.bytes, k, p)
  BY <1>1 DEF TimerBody, IsEntry
<1>9. ParseEntry(f) = EntryTurns(f.bytes, TRUE)[Len(f.bytes)]
  <2>1. (f.field \in TimerFields) = TRUE
    BY <1>1
  <2> QED
    BY <2>1 DEF ParseEntry
<1> HIDE DEF p
<1>10. EntryTaken(ParseEntry(f), k, ReadField(p))
  BY <1>3, <1>4, <1>6, <1>7, <1>8, <1>9, EntryRead
<1>11. ParseTimer(b).timer = t
  BY TimerRead
<1> QED
  BY <1>6, <1>10, <1>11 DEF EntryTaken, GivesTimer

-----------------------------------------------------------------------------
(* What a piece is read as.                                                *)
IsPiece(r, f, bytes, n) ==
    r.ok = TRUE /\ r.field = f /\ r.type = 2 /\ r.bytes = bytes /\ r.size = n

(* A piece is read as a field with its body, and up to its end.            *)
LEMMA PieceRead ==
  ASSUME NEW m \in Messages, NEW f \in 1 .. 7, NEW k \in Pieces(m, f)
  PROVE  /\ IsPiece(ReadField(Piece(m, f, k)), f, Body(m, f, k), Len(Piece(m, f, k)))
         /\ Piece(m, f, k) \in Seq(Byte) /\ Piece(m, f, k) # <<>>
<1> DEFINE b == Body(m, f, k)
           p == Piece(m, f, k)
<1>1. p = BytesField(f, b) /\ b \in Seq(Byte) /\ Len(b) \in Short
  BY PieceBody
<1> HIDE DEF b, p
<1>2. ReadField(BytesField(f, b)) =
             [ok |-> TRUE, field |-> f, type |-> 2, number |-> Len(b), bytes |-> b,
              size |-> Len(BytesField(f, b))]
  BY <1>1, ReadBytesField
<1>3. IsPiece(ReadField(p), f, b, Len(p))
  BY <1>1, <1>2 DEF IsPiece
<1>4. p \in Seq(Byte) /\ Len(p) = 1 + BytesSize(Len(b)) /\ BytesSize(Len(b)) \in Nat
  BY <1>1, BytesFieldType
<1>5. p # <<>>
  <2>1. Len(p) # 0
    BY <1>4
  <2> QED
    BY <2>1, EmptySeq
<1> QED
  BY <1>3, <1>4, <1>5 DEF b, p

-----------------------------------------------------------------------------
(* A message into which the pieces got have been read of another.          *)
HalfMap(to, from, K) == [k \in DOMAIN to \union K |-> IF k \in K THEN from[k] ELSE to[k]]

Half(to, from, got, unknown) ==
    [region  |-> [f \in RegionFields |-> IF 0 \in got[f] THEN from.region[f] ELSE to.region[f]],
     number  |-> [f \in NumberFields |-> HalfMap(to.number[f], from.number[f], got[f])],
     timer   |-> [f \in TimerFields |-> HalfMap(to.timer[f], from.timer[f], got[f])],
     unknown |-> unknown]

SomeOf(got, m) ==
    /\ got \in [1 .. 7 -> SUBSET (Keys \union {0})]
    /\ \A f \in 1 .. 7 : got[f] \subseteq Pieces(m, f)

(* A map that has some of the entries of another is a map,                 *)
LEMMA HalfMapType ==
  ASSUME NEW D, NEW R, NEW to \in Maps(D, R), NEW from \in Maps(D, R), NEW K \in SUBSET DOMAIN from
  PROVE  HalfMap(to, from, K) \in Maps(D, R)
<1>1. /\ DOMAIN to \in SUBSET D /\ \A k \in DOMAIN to : to[k] \in R
      /\ DOMAIN from \in SUBSET D /\ \A k \in DOMAIN from : from[k] \in R
  BY MapParts
<1> DEFINE T == DOMAIN to \union K
<1>2. T \in SUBSET D
  BY <1>1
<1>3. HalfMap(to, from, K) \in [T -> R]
  BY <1>1 DEF HalfMap
<1> QED
  BY <1>2, <1>3, MapWhole

(* with none of them it is the map it was,                                 *)
LEMMA HalfMapNone ==
  ASSUME NEW D, NEW R, NEW to \in Maps(D, R), NEW from
  PROVE  HalfMap(to, from, {}) = to
<1>1. to \in [DOMAIN to -> R]
  BY MapParts
<1>2. to = [k \in DOMAIN to |-> to[k]]
  BY <1>1
<1>3. HalfMap(to, from, {}) = [k \in DOMAIN to |-> to[k]]
  BY DEF HalfMap
<1> QED
  BY <1>2, <1>3

(* and putting one more entry of the other adds its key to those read.     *)
LEMMA HalfMapPut ==
  ASSUME NEW to, NEW from, NEW K, NEW k
  PROVE  Put(HalfMap(to, from, K), k, from[k]) = HalfMap(to, from, K \union {k})
<1> DEFINE h == HalfMap(to, from, K)
           E == DOMAIN to \union (K \union {k})
<1>1. DOMAIN h = DOMAIN to \union K /\ \A j \in DOMAIN to \union K : h[j] = IF j \in K THEN from[j] ELSE to[j]
  BY DEF HalfMap
<1> HIDE DEF h
<1>2. DOMAIN h \union {k} = E
  BY <1>1
<1>3. Put(h, k, from[k]) = [j \in E |-> IF j = k THEN from[k] ELSE h[j]]
  BY <1>2 DEF Put
<1>4. HalfMap(to, from, K \union {k}) = [j \in E |-> IF j \in K \union {k} THEN from[j] ELSE to[j]]
  BY DEF HalfMap
<1>5. \A j \in E : (IF j = k THEN from[k] ELSE h[j]) = (IF j \in K \union {k} THEN from[j] ELSE to[j])
  BY <1>1
<1> HIDE DEF E
<1>6. Put(h, k, from[k]) = HalfMap(to, from, K \union {k})
  BY <1>3, <1>4, <1>5
<1> QED
  BY <1>6 DEF h

(* A message read up to some field is a message.                           *)
LEMMA HalfType ==
  ASSUME NEW to \in Messages, NEW from \in Messages, NEW got, SomeOf(got, from),
         NEW u \in Seq(Byte)
  PROVE  Half(to, from, got, u) \in Messages
<1>1. /\ to.region \in [RegionFields -> Regions]
      /\ to.number \in [NumberFields -> Maps(Keys, Numbers)]
      /\ to.timer \in [TimerFields -> Maps(Keys, TimerCounter)]
      /\ from.region \in [RegionFields -> Regions]
      /\ from.number \in [NumberFields -> Maps(Keys, Numbers)]
      /\ from.timer \in [TimerFields -> Maps(Keys, TimerCounter)]
  BY MessageFields
<1> DEFINE r == [f \in RegionFields |-> IF 0 \in got[f] THEN from.region[f] ELSE to.region[f]]
           n == [f \in NumberFields |-> HalfMap(to.number[f], from.number[f], got[f])]
           t == [f \in TimerFields |-> HalfMap(to.timer[f], from.timer[f], got[f])]
<1>2. r \in [RegionFields -> Regions]
  BY <1>1
<1>3. n \in [NumberFields -> Maps(Keys, Numbers)]
  <2> SUFFICES ASSUME NEW f \in NumberFields
               PROVE  HalfMap(to.number[f], from.number[f], got[f]) \in Maps(Keys, Numbers)
    OBVIOUS
  <2>1. f \in 1 .. 7 /\ Pieces(from, f) = DOMAIN from.number[f]
    BY Kinds DEF Pieces
  <2>2. got[f] \in SUBSET DOMAIN from.number[f]
    BY <2>1 DEF SomeOf
  <2>3. to.number[f] \in Maps(Keys, Numbers) /\ from.number[f] \in Maps(Keys, Numbers)
    BY <1>1
  <2> QED
    BY <2>2, <2>3, HalfMapType
<1>4. t \in [TimerFields -> Maps(Keys, TimerCounter)]
  <2> SUFFICES ASSUME NEW f \in TimerFields
               PROVE  HalfMap(to.timer[f], from.timer[f], got[f]) \in Maps(Keys, TimerCounter)
    OBVIOUS
  <2>1. f \in 1 .. 7 /\ Pieces(from, f) = DOMAIN from.timer[f]
    BY Kinds DEF Pieces
  <2>2. got[f] \in SUBSET DOMAIN from.timer[f]
    BY <2>1 DEF SomeOf
  <2>3. to.timer[f] \in Maps(Keys, TimerCounter) /\ from.timer[f] \in Maps(Keys, TimerCounter)
    BY <1>1
  <2> QED
    BY <2>2, <2>3, HalfMapType
<1>5. Half(to, from, got, u) = [region |-> r, number |-> n, timer |-> t, unknown |-> u]
  BY DEF Half
<1> HIDE DEF r, n, t
<1> QED
  BY <1>2, <1>3, <1>4, <1>5 DEF Messages

(* Nothing read leaves the message as it was; everything read is a merge.  *)
LEMMA HalfNone ==
  ASSUME NEW to \in Messages, NEW from \in Messages, NEW got, \A f \in 1 .. 7 : got[f] = {}
  PROVE  Half(to, from, got, to.unknown) = to
<1>1. /\ to.region \in [RegionFields -> Regions]
      /\ to.number \in [NumberFields -> Maps(Keys, Numbers)]
      /\ to.timer \in [TimerFields -> Maps(Keys, TimerCounter)]
  BY MessageFields
<1>2. to = [region |-> to.region, number |-> to.number, timer |-> to.timer, unknown |-> to.unknown]
  BY DEF Messages
<1>3. [f \in RegionFields |-> IF 0 \in got[f] THEN from.region[f] ELSE to.region[f]] = to.region
  <2>1. \A f \in RegionFields : ~ (0 \in got[f])
    BY Kinds
  <2> QED
    BY <1>1, <2>1
<1>4. [f \in NumberFields |-> HalfMap(to.number[f], from.number[f], got[f])] = to.number
  <2>1. ASSUME NEW f \in NumberFields
        PROVE  HalfMap(to.number[f], from.number[f], got[f]) = to.number[f]
    <3>1. got[f] = {} /\ to.number[f] \in Maps(Keys, Numbers)
      BY <1>1, Kinds
    <3>2. HalfMap(to.number[f], from.number[f], {}) = to.number[f]
      BY <3>1, HalfMapNone
    <3> QED
      BY <3>1, <3>2
  <2> QED
    BY <1>1, <2>1
<1>5. [f \in TimerFields |-> HalfMap(to.timer[f], from.timer[f], got[f])] = to.timer
  <2>1. ASSUME NEW f \in TimerFields
        PROVE  HalfMap(to.timer[f], from.timer[f], got[f]) = to.timer[f]
    <3>1. got[f] = {} /\ to.timer[f] \in Maps(Keys, TimerCounter)
      BY <1>1, Kinds
    <3>2. HalfMap(to.timer[f], from.timer[f], {}) = to.timer[f]
      BY <3>1, HalfMapNone
    <3> QED
      BY <3>1, <3>2
  <2> QED
    BY <1>1, <2>1
<1> QED
  BY <1>2, <1>3, <1>4, <1>5 DEF Half

(* The regions that are empty have no piece, which is why merging keeps    *)
(* those of the target.                                                    *)
LEMMA HalfAll ==
  ASSUME NEW to \in Messages, NEW from \in Messages, NEW got, NEW u,
         \A f \in 1 .. 7 : got[f] = Pieces(from, f), u = to.unknown \o from.unknown
  PROVE  Half(to, from, got, u) = Merge(to, from)
<1>1. [f \in RegionFields |-> IF 0 \in got[f] THEN from.region[f] ELSE to.region[f]]
        = [f \in RegionFields |->
              IF from.region[f] = <<>> THEN to.region[f] ELSE from.region[f]]
  <2>1. ASSUME NEW f \in RegionFields
        PROVE  0 \in got[f] <=> from.region[f] # <<>>
    BY Kinds DEF Pieces
  <2> QED
    BY <2>1
<1>2. [f \in NumberFields |-> HalfMap(to.number[f], from.number[f], got[f])]
        = [f \in NumberFields |-> MergeMap(to.number[f], from.number[f])]
  <2>1. ASSUME NEW f \in NumberFields
        PROVE  got[f] = DOMAIN from.number[f]
    BY Kinds DEF Pieces
  <2> QED
    BY <2>1 DEF HalfMap, MergeMap
<1>3. [f \in TimerFields |-> HalfMap(to.timer[f], from.timer[f], got[f])]
        = [f \in TimerFields |-> MergeMap(to.timer[f], from.timer[f])]
  <2>1. ASSUME NEW f \in TimerFields
        PROVE  got[f] = DOMAIN from.timer[f]
    BY Kinds DEF Pieces
  <2> QED
    BY <2>1 DEF HalfMap, MergeMap
<1> QED
  BY <1>1, <1>2, <1>3 DEF Half, Merge

(* Storing an unknown field.                                               *)
LEMMA HalfKeeps ==
  ASSUME NEW to, NEW from, NEW got, NEW u, NEW r, r.field > 7, r.field \in Nat, NEW raw
  PROVE  Store(Half(to, from, got, u), r, raw) = Half(to, from, got, u \o raw)
<1> DEFINE h == Half(to, from, got, u)
<1>1. Store(h, r, raw) = [h EXCEPT !.unknown = @ \o raw]
  <2>1. r.field \notin RegionFields /\ r.field \notin NumberFields /\ r.field \notin TimerFields
    BY DEF RegionFields, NumberFields, TimerFields
  <2> HIDE DEF h
  <2> QED
    BY <2>1 DEF Store
<1> DEFINE v == u \o raw
<1>2. h.unknown = u
  BY DEF Half
<1>3. Store(h, r, raw) = [h EXCEPT !.unknown = v]
  <2> HIDE DEF h
  <2> QED
    BY <1>1, <1>2
<1> HIDE DEF v
<1>4. ASSUME NEW a, NEW b, NEW c
      PROVE  [[region |-> a, number |-> b, timer |-> c, unknown |-> u] EXCEPT !.unknown = v]
                = [region |-> a, number |-> b, timer |-> c, unknown |-> v]
  OBVIOUS
<1>5. [h EXCEPT !.unknown = v] = Half(to, from, got, v)
  BY <1>4 DEF Half
<1> QED
  BY <1>3, <1>5 DEF v

(* Storing a piece that was written from a message adds it to what has     *)
(* been read of that message.                                              *)
Adds(got, f, k) == [got EXCEPT ![f] = @ \union {k}]

(* The pieces of one field grow by one, those of the others stay,          *)
LEMMA AddsParts ==
  ASSUME NEW got \in [1 .. 7 -> SUBSET (Keys \union {0})], NEW f \in 1 .. 7, NEW k
  PROVE  /\ Adds(got, f, k)[f] = got[f] \union {k}
         /\ \A g \in 1 .. 7 : g # f => Adds(got, f, k)[g] = got[g]
BY DEF Adds

(* and they are still pieces of the message.                               *)
LEMMA AddsSome ==
  ASSUME NEW m \in Messages, NEW got, SomeOf(got, m), NEW f \in 1 .. 7, NEW k \in Pieces(m, f)
  PROVE  SomeOf(Adds(got, f, k), m)
<1>1. k \in Keys \union {0}
  BY PieceKeys
<1>2. got \in [1 .. 7 -> SUBSET (Keys \union {0})] /\ \A g \in 1 .. 7 : got[g] \subseteq Pieces(m, g)
  BY DEF SomeOf
<1>3. Adds(got, f, k) \in [1 .. 7 -> SUBSET (Keys \union {0})]
  BY <1>1, <1>2 DEF Adds
<1>4. \A g \in 1 .. 7 : Adds(got, f, k)[g] \subseteq Pieces(m, g)
  BY <1>2, AddsParts
<1> QED
  BY <1>3, <1>4 DEF SomeOf

(* A region that is read replaces the one there was,                       *)
LEMMA StoreRegion ==
  ASSUME NEW to, NEW from, NEW got \in [1 .. 7 -> SUBSET (Keys \union {0})], NEW u,
         NEW f \in RegionFields, NEW r, NEW raw, r.field = f, r.type = 2, r.bytes = from.region[f]
  PROVE  Store(Half(to, from, got, u), r, raw) = Half(to, from, Adds(got, f, 0), u)
<1> DEFINE h == Half(to, from, got, u)
           old == [g \in RegionFields |-> IF 0 \in got[g] THEN from.region[g] ELSE to.region[g]]
           new == [g \in RegionFields |-> IF 0 \in Adds(got, f, 0)[g] THEN from.region[g] ELSE to.region[g]]
           n == [g \in NumberFields |-> HalfMap(to.number[g], from.number[g], got[g])]
           t == [g \in TimerFields |-> HalfMap(to.timer[g], from.timer[g], got[g])]
<1>1. Store(h, r, raw) = [h EXCEPT !.region[f] = r.bytes]
  <2> HIDE DEF h
  <2>1. r.type = 2 /\ r.field \in RegionFields
    OBVIOUS
  <2>2. Store(h, r, raw) = [h EXCEPT !.region[r.field] = r.bytes]
    <3>1. r.field \notin NumberFields /\ r.field \notin TimerFields
      BY <2>1, Kinds
    <3> QED
      BY <2>1, <3>1 DEF Store
  <2> QED
    BY <2>2
<1>2. f \in 1 .. 7 /\ f \notin NumberFields /\ f \notin TimerFields
  BY Kinds
<1>3. /\ Adds(got, f, 0)[f] = got[f] \union {0}
      /\ \A g \in 1 .. 7 : g # f => Adds(got, f, 0)[g] = got[g]
  BY <1>2, AddsParts
<1>4. new = [old EXCEPT ![f] = from.region[f]]
  BY <1>2, <1>3, Kinds
<1>5. /\ n = [g \in NumberFields |-> HalfMap(to.number[g], from.number[g], Adds(got, f, 0)[g])]
      /\ t = [g \in TimerFields |-> HalfMap(to.timer[g], from.timer[g], Adds(got, f, 0)[g])]
  <2>1. \A g \in NumberFields \union TimerFields : Adds(got, f, 0)[g] = got[g]
    BY <1>2, <1>3, Kinds
  <2> QED
    BY <2>1
<1>6. h = [region |-> old, number |-> n, timer |-> t, unknown |-> u]
  BY DEF Half
<1>7. Half(to, from, Adds(got, f, 0), u) = [region |-> new, number |-> n, timer |-> t, unknown |-> u]
  BY <1>5 DEF Half
<1> HIDE DEF old, new, n, t, h
<1>8. [h EXCEPT !.region[f] = r.bytes]
         = [region |-> [old EXCEPT ![f] = r.bytes], number |-> n, timer |-> t, unknown |-> u]
  BY <1>6
<1>9. Store(h, r, raw) = Half(to, from, Adds(got, f, 0), u)
  BY <1>1, <1>4, <1>7, <1>8
<1> QED
  BY <1>9 DEF h

(* a number is put at its key,                                             *)
LEMMA StoreNumber ==
  ASSUME NEW to, NEW from, NEW got \in [1 .. 7 -> SUBSET (Keys \union {0})], NEW u,
         NEW f \in NumberFields, NEW k, NEW r, NEW raw, r.field = f, r.type = 2,
         ParseEntry(r).entry.key = k, ParseEntry(r).entry.value.number = from.number[f][k]
  PROVE  Store(Half(to, from, got, u), r, raw) = Half(to, from, Adds(got, f, k), u)
<1> DEFINE h == Half(to, from, got, u)
           s == [g \in RegionFields |-> IF 0 \in got[g] THEN from.region[g] ELSE to.region[g]]
           old == [g \in NumberFields |-> HalfMap(to.number[g], from.number[g], got[g])]
           new == [g \in NumberFields |-> HalfMap(to.number[g], from.number[g], Adds(got, f, k)[g])]
           t == [g \in TimerFields |-> HalfMap(to.timer[g], from.timer[g], got[g])]
           v == Put(HalfMap(to.number[f], from.number[f], got[f]), k, from.number[f][k])
<1>1. f \in 1 .. 7 /\ f \notin RegionFields /\ f \notin TimerFields
  BY Kinds
<1>2. Store(h, r, raw) = [h EXCEPT !.number[f] = Put(@, k, from.number[f][k])]
  <2> HIDE DEF h
  <2> QED
    BY <1>1 DEF Store
<1>3. /\ Adds(got, f, k)[f] = got[f] \union {k}
      /\ \A g \in 1 .. 7 : g # f => Adds(got, f, k)[g] = got[g]
  BY <1>1, AddsParts
<1>4. v = HalfMap(to.number[f], from.number[f], Adds(got, f, k)[f])
  <2>1. ASSUME NEW x, NEW y, NEW K
        PROVE  Put(HalfMap(x, y, K), k, y[k]) = HalfMap(x, y, K \union {k})
    BY HalfMapPut
  <2> QED
    BY <1>3, <2>1
<1>5. \A g \in NumberFields : g # f => Adds(got, f, k)[g] = got[g]
  BY <1>3, Kinds
<1>6. new = [old EXCEPT ![f] = v]
  <2> HIDE DEF v
  <2> QED
    BY <1>4, <1>5
<1>7. /\ s = [g \in RegionFields |-> IF 0 \in Adds(got, f, k)[g] THEN from.region[g] ELSE to.region[g]]
      /\ t = [g \in TimerFields |-> HalfMap(to.timer[g], from.timer[g], Adds(got, f, k)[g])]
  <2>1. \A g \in RegionFields \union TimerFields : Adds(got, f, k)[g] = got[g]
    BY <1>1, <1>3, Kinds
  <2> QED
    BY <2>1
<1>8. /\ h = [region |-> s, number |-> old, timer |-> t, unknown |-> u]
      /\ old[f] = HalfMap(to.number[f], from.number[f], got[f])
  BY DEF Half
<1>9. Half(to, from, Adds(got, f, k), u) = [region |-> s, number |-> new, timer |-> t, unknown |-> u]
  BY <1>7 DEF Half
<1>10. v = Put(old[f], k, from.number[f][k])
  BY <1>8
<1> HIDE DEF s, old, new, t, h, v
<1>11. h.number[f] = old[f]
  BY <1>8
<1>12. Store(h, r, raw) = [h EXCEPT !.number[f] = v]
  BY <1>2, <1>10, <1>11
<1>13. [h EXCEPT !.number[f] = v]
          = [region |-> s, number |-> [old EXCEPT ![f] = v], timer |-> t, unknown |-> u]
  BY <1>8
<1>14. Store(h, r, raw) = Half(to, from, Adds(got, f, k), u)
  BY <1>6, <1>9, <1>12, <1>13
<1> QED
  BY <1>14 DEF h

(* and so is a timer;                                                      *)
LEMMA StoreTimer ==
  ASSUME NEW to, NEW from, NEW got \in [1 .. 7 -> SUBSET (Keys \union {0})], NEW u,
         NEW f \in TimerFields, NEW k, NEW r, NEW raw, r.field = f, r.type = 2,
         ParseEntry(r).entry.key = k, ParseTimer(ParseEntry(r).entry.value.bytes).timer = from.timer[f][k]
  PROVE  Store(Half(to, from, got, u), r, raw) = Half(to, from, Adds(got, f, k), u)
<1> DEFINE h == Half(to, from, got, u)
           s == [g \in RegionFields |-> IF 0 \in got[g] THEN from.region[g] ELSE to.region[g]]
           old == [g \in TimerFields |-> HalfMap(to.timer[g], from.timer[g], got[g])]
           new == [g \in TimerFields |-> HalfMap(to.timer[g], from.timer[g], Adds(got, f, k)[g])]
           t == [g \in NumberFields |-> HalfMap(to.number[g], from.number[g], got[g])]
           v == Put(HalfMap(to.timer[f], from.timer[f], got[f]), k, from.timer[f][k])
<1>1. f \in 1 .. 7 /\ f \notin RegionFields /\ f \notin NumberFields
  BY Kinds
<1>2. Store(h, r, raw) = [h EXCEPT !.timer[f] = Put(@, k, from.timer[f][k])]
  <2> HIDE DEF h
  <2> QED
    BY <1>1 DEF Store
<1>3. /\ Adds(got, f, k)[f] = got[f] \union {k}
      /\ \A g \in 1 .. 7 : g # f => Adds(got, f, k)[g] = got[g]
  BY <1>1, AddsParts
<1>4. v = HalfMap(to.timer[f], from.timer[f], Adds(got, f, k)[f])
  <2>1. ASSUME NEW x, NEW y, NEW K
        PROVE  Put(HalfMap(x, y, K), k, y[k]) = HalfMap(x, y, K \union {k})
    BY HalfMapPut
  <2> QED
    BY <1>3, <2>1
<1>5. \A g \in TimerFields : g # f => Adds(got, f, k)[g] = got[g]
  BY <1>3, Kinds
<1>6. new = [old EXCEPT ![f] = v]
  <2> HIDE DEF v
  <2> QED
    BY <1>4, <1>5
<1>7. /\ s = [g \in RegionFields |-> IF 0 \in Adds(got, f, k)[g] THEN from.region[g] ELSE to.region[g]]
      /\ t = [g \in NumberFields |-> HalfMap(to.number[g], from.number[g], Adds(got, f, k)[g])]
  <2>1. \A g \in RegionFields \union NumberFields : Adds(got, f, k)[g] = got[g]
    BY <1>1, <1>3, Kinds
  <2> QED
    BY <2>1
<1>8. /\ h = [region |-> s, number |-> t, timer |-> old, unknown |-> u]
      /\ old[f] = HalfMap(to.timer[f], from.timer[f], got[f])
  BY DEF Half
<1>9. Half(to, from, Adds(got, f, k), u) = [region |-> s, number |-> t, timer |-> new, unknown |-> u]
  BY <1>7 DEF Half
<1>10. v = Put(old[f], k, from.timer[f][k])
  BY <1>8
<1> HIDE DEF s, old, new, t, h, v
<1>11. h.timer[f] = old[f]
  BY <1>8
<1>12. Store(h, r, raw) = [h EXCEPT !.timer[f] = v]
  BY <1>2, <1>10, <1>11
<1>13. [h EXCEPT !.timer[f] = v]
          = [region |-> s, number |-> t, timer |-> [old EXCEPT ![f] = v], unknown |-> u]
  BY <1>8
<1>14. Store(h, r, raw) = Half(to, from, Adds(got, f, k), u)
  BY <1>6, <1>9, <1>12, <1>13
<1> QED
  BY <1>14 DEF h

(* so a piece goes where it came from, and its entry is no failure.        *)
LEMMA StorePiece ==
  ASSUME NEW to \in Messages, NEW from \in Messages, NEW got, SomeOf(got, from), NEW u,
         NEW f \in 1 .. 7, NEW k \in Pieces(from, f), NEW r, NEW raw, NEW n,
         IsPiece(r, f, Body(from, f, k), n)
  PROVE  /\ Store(Half(to, from, got, u), r, raw) = Half(to, from, Adds(got, f, k), u)
         /\ f \in NumberFields \union TimerFields => ParseEntry(r).ok
<1>1. got \in [1 .. 7 -> SUBSET (Keys \union {0})]
  BY DEF SomeOf
<1>2. r.field = f /\ r.type = 2 /\ r.bytes = Body(from, f, k)
  BY DEF IsPiece
<1>3. CASE f \in RegionFields
  <2>1. f \notin NumberFields /\ f \notin TimerFields
    BY <1>3, Kinds
  <2>2. k = 0
    <3>1. Pieces(from, f) = IF from.region[f] = <<>> THEN {} ELSE {0}
      BY <1>3, <2>1 DEF Pieces
    <3> QED
      BY <3>1
  <2>3. r.bytes = from.region[f]
    BY <1>2, <1>3, <2>1 DEF Body
  <2>4. Store(Half(to, from, got, u), r, raw) = Half(to, from, Adds(got, f, 0), u)
    BY <1>1, <1>2, <1>3, <2>3, StoreRegion
  <2> QED
    BY <2>2, <2>1, <2>4
<1>4. CASE f \in NumberFields
  <2>1. f \notin RegionFields /\ f \notin TimerFields
    BY <1>4, Kinds
  <2>2. k \in DOMAIN from.number[f]
    BY <1>4, <2>1 DEF Pieces
  <2>3. k \in Keys /\ from.number[f][k] \in Short
    BY <1>4, <2>2, NumberType
  <2>4. r.bytes = NumberBody(k, from.number[f][k])
    BY <1>2, <1>4, <2>1 DEF Body
  <2>5. /\ ParseEntry(r).ok = TRUE /\ ParseEntry(r).entry.key = k
        /\ ParseEntry(r).entry.value.number = from.number[f][k]
    <3> DEFINE v == from.number[f][k]
    <3>1. v \in Short /\ HoldsNumber(r, k, v)
      BY <1>2, <2>1, <2>3, <2>4 DEF HoldsNumber
    <3> HIDE DEF v
    <3>2. GivesNumber(ParseEntry(r), k, v)
      BY <2>3, <3>1, NumberEntryRead
    <3> QED
      BY <3>2 DEF v, GivesNumber
  <2>6. Store(Half(to, from, got, u), r, raw) = Half(to, from, Adds(got, f, k), u)
    BY <1>1, <1>2, <1>4, <2>5, StoreNumber
  <2> QED
    BY <2>5, <2>6
<1>5. CASE f \in TimerFields
  <2>1. f \notin RegionFields /\ f \notin NumberFields
    BY <1>5, Kinds
  <2>2. k \in DOMAIN from.timer[f]
    BY <1>5, <2>1 DEF Pieces
  <2>3. k \in Keys /\ from.timer[f][k] \in TimerCounter
    BY <1>5, <2>2, TimerType
  <2>4. r.bytes = TimerBody(k, from.timer[f][k])
    BY <1>2, <1>5, <2>1 DEF Body
  <2>5. /\ ParseEntry(r).ok = TRUE /\ ParseEntry(r).entry.key = k
        /\ ParseTimer(ParseEntry(r).entry.value.bytes).timer = from.timer[f][k]
    <3> DEFINE v == from.timer[f][k]
    <3>1. v \in TimerCounter /\ HoldsTimer(r, k, v)
      BY <1>2, <1>5, <2>3, <2>4 DEF HoldsTimer
    <3> HIDE DEF v
    <3>2. GivesTimer(ParseEntry(r), k, v)
      BY <2>3, <3>1, TimerEntryRead
    <3> QED
      BY <3>2 DEF v, GivesTimer
  <2>6. Store(Half(to, from, got, u), r, raw) = Half(to, from, Adds(got, f, k), u)
    BY <1>1, <1>2, <1>5, <2>5, StoreTimer
  <2> QED
    BY <2>5, <2>6
<1> QED
  BY <1>3, <1>4, <1>5, Kinds

-----------------------------------------------------------------------------
(* S is the bytes p of the things in q, one after the other.               *)
Joining(g, S, q, p) ==
    /\ g \in [0 .. Len(q) -> Seq(Byte)]
    /\ g[0] = S
    /\ g[Len(q)] = <<>>
    /\ \A i \in 1 .. Len(q) : g[i - 1] = p[q[i]] \o g[i]

Joined(S, q, p) == \E g : Joining(g, S, q, p)

(* Nothing is the bytes of no things,                                      *)
LEMMA JoinedNone ==
  ASSUME NEW p
  PROVE  Joined(<<>>, <<>>, p)
<1> DEFINE g == [i \in 0 .. 0 |-> <<>>]
           e == <<>>
<1>1. e \in Seq(Byte) /\ Len(e) = 0
  OBVIOUS
<1>2. g \in [0 .. 0 -> Seq(Byte)] /\ g[0] = e
  BY <1>1
<1> HIDE DEF g
<1>3. Joining(g, e, e, p)
  BY <1>1, <1>2 DEF Joining
<1> QED
  BY <1>3 DEF Joined

(* and only nothing is.                                                    *)
LEMMA JoinedEmpty ==
  ASSUME NEW S, NEW q, q = <<>>, NEW p, Joined(S, q, p)
  PROVE  S = <<>>
<1>1. PICK g : Joining(g, S, q, p)
  BY DEF Joined
<1>2. Len(q) = 0
  OBVIOUS
<1> QED
  BY <1>1, <1>2 DEF Joining

(* Things joined are bytes.                                                *)
LEMMA JoinedType ==
  ASSUME NEW S, NEW D, NEW q \in Seq(D), NEW p, Joined(S, q, p)
  PROVE  S \in Seq(Byte)
<1>1. PICK g : Joining(g, S, q, p)
  BY DEF Joined
<1>2. Len(q) \in Nat
  OBVIOUS
<1> HIDE DEF Joined
<1> QED
  BY <1>1, <1>2 DEF Joining

(* The bytes of one thing are those of the things in a sequence of one.    *)
LEMMA JoinedOne ==
  ASSUME NEW D, NEW p \in [D -> Seq(Byte)], NEW x \in D
  PROVE  Joined(p[x], <<x>>, p)
<1> DEFINE g == [i \in 0 .. 1 |-> IF i = 0 THEN p[x] ELSE <<>>]
           q == <<x>>
<1>1. p[x] \in Seq(Byte)
  OBVIOUS
<1>2. p[x] \o <<>> = p[x] /\ <<>> \in Seq(Byte)
  <2> DEFINE a == p[x]
  <2> HIDE DEF a
  <2>1. a \in Seq(Byte)
    BY <1>1 DEF a
  <2>2. a \o <<>> = a /\ <<>> \in Seq(Byte)
    BY <2>1, EmptyJoin
  <2> QED
    BY <2>2 DEF a
<1>3. Len(q) = 1 /\ q[1] = x
  OBVIOUS
<1>4. g \in [0 .. 1 -> Seq(Byte)] /\ g[0] = p[x] /\ g[1] = <<>>
  BY <1>1, <1>2
<1> HIDE DEF g, q
<1>5. \A i \in 1 .. 1 : g[i - 1] = p[q[i]] \o g[i]
  <2>1. g[1 - 1] = p[q[1]] \o g[1]
    BY <1>2, <1>3, <1>4
  <2>2. \A i \in 1 .. 1 : i = 1
    OBVIOUS
  <2> QED
    BY <2>1, <2>2
<1>6. Joining(g, p[x], q, p)
  BY <1>3, <1>4, <1>5 DEF Joining
<1> QED
  BY <1>6 DEF Joined, q

(* Two sequences of things, one after the other.                           *)
LEMMA SeqJoin ==
  ASSUME NEW D, NEW q \in Seq(D), NEW r \in Seq(D)
  PROVE  /\ q \o r \in Seq(D) /\ Len(q \o r) = Len(q) + Len(r) /\ Len(q) \in Nat /\ Len(r) \in Nat
         /\ \A i \in 1 .. Len(q) : (q \o r)[i] = q[i]
         /\ \A i \in 1 .. Len(r) : (q \o r)[Len(q) + i] = r[i]
         /\ \A i \in 1 .. Len(q) : q[i] \in D
         /\ \A i \in 1 .. Len(r) : r[i] \in D
OBVIOUS

(* Their bytes stand one after the other as well.                          *)
LEMMA JoinedBoth ==
  ASSUME NEW D, NEW p \in [D -> Seq(Byte)], NEW q \in Seq(D), NEW r \in Seq(D),
         NEW S, NEW T, Joined(S, q, p), Joined(T, r, p)
  PROVE  Joined(S \o T, q \o r, p)
<1>1. PICK g : Joining(g, S, q, p)
  BY DEF Joined
<1>2. PICK h : Joining(h, T, r, p)
  BY DEF Joined
<1> DEFINE m == Len(q)
           n == Len(r)
           c == q \o r
           j == [i \in 0 .. m + n |-> IF i <= m THEN g[i] \o T ELSE h[i - m]]
<1>3. /\ c \in Seq(D) /\ Len(c) = m + n /\ m \in Nat /\ n \in Nat
      /\ \A i \in 1 .. m : c[i] = q[i]
      /\ \A i \in 1 .. n : c[m + i] = r[i]
      /\ \A i \in 1 .. m : q[i] \in D
  BY SeqJoin
<1>4. /\ g \in [0 .. m -> Seq(Byte)] /\ g[0] = S /\ g[m] = <<>>
      /\ \A i \in 1 .. m : g[i - 1] = p[q[i]] \o g[i]
  BY <1>1 DEF Joining
<1>5. /\ h \in [0 .. n -> Seq(Byte)] /\ h[0] = T /\ h[n] = <<>>
      /\ \A i \in 1 .. n : h[i - 1] = p[r[i]] \o h[i]
  BY <1>2 DEF Joining
<1> HIDE DEF m, n, c, j
<1>6. T \in Seq(Byte) /\ <<>> \o T = T
  <2>1. T \in Seq(Byte)
    BY JoinedType
  <2> QED
    BY <2>1, EmptyJoin
<1> USE DEF j
<1>7. /\ \A i \in 0 .. m : j[i] = g[i] \o T
      /\ \A i \in 0 .. n : j[m + i] = h[i]
  <2>1. ASSUME NEW i \in 0 .. m
        PROVE  j[i] = g[i] \o T
    <3>1. i \in 0 .. m + n /\ i <= m
      BY <1>3
    <3> QED
      BY <3>1
  <2>2. ASSUME NEW i \in 0 .. n
        PROVE  j[m + i] = h[i]
    <3>1. CASE i = 0
      <4>1. m + i = m /\ m \in 0 .. m
        BY <1>3, <3>1
      <4>2. j[m] = g[m] \o T
        BY <2>1, <4>1
      <4> HIDE DEF j
      <4> QED
        BY <1>4, <1>5, <1>6, <3>1, <4>1, <4>2
    <3>2. CASE i # 0
      <4>1. m + i \in 0 .. m + n /\ ~ (m + i <= m) /\ (m + i) - m = i
        BY <1>3, <3>2
      <4> QED
        BY <4>1
    <3> QED
      BY <3>1, <3>2
  <2> QED
    BY <2>1, <2>2
<1>8. j \in [0 .. m + n -> Seq(Byte)]
  <2>1. ASSUME NEW i \in 0 .. m + n
        PROVE  (IF i <= m THEN g[i] \o T ELSE h[i - m]) \in Seq(Byte)
    <3>1. CASE i <= m
      <4>1. g[i] \in Seq(Byte)
        BY <1>3, <1>4, <3>1
      <4> QED
        BY <1>6, <3>1, <4>1, JoinBytes
    <3>2. CASE ~ (i <= m)
      <4>1. i - m \in 0 .. n
        BY <1>3, <3>2
      <4> QED
        BY <1>5, <3>2, <4>1
    <3> QED
      BY <3>1, <3>2
  <2> QED
    BY <2>1
<1> HIDE DEF j
<1>9. ASSUME NEW i \in 1 .. m + n
      PROVE  j[i - 1] = p[c[i]] \o j[i]
  <2>1. CASE i <= m
    <3>1. i \in 1 .. m /\ i - 1 \in 0 .. m /\ i \in 0 .. m
      BY <1>3, <2>1
    <3>2. g[i - 1] = p[c[i]] \o g[i] /\ p[c[i]] \in Seq(Byte) /\ g[i] \in Seq(Byte)
      BY <1>3, <1>4, <3>1
    <3>3. (p[c[i]] \o g[i]) \o T = p[c[i]] \o (g[i] \o T)
      BY <1>6, <3>2, JoinAssociates
    <3> QED
      BY <1>7, <3>1, <3>2, <3>3
  <2>2. CASE ~ (i <= m)
    <3> DEFINE k == i - m
    <3>1. k \in 1 .. n /\ k - 1 \in 0 .. n /\ k \in 0 .. n /\ m + k = i /\ m + (k - 1) = i - 1
      BY <1>3, <2>2
    <3> HIDE DEF k
    <3>2. h[k - 1] = p[r[k]] \o h[k] /\ c[m + k] = r[k]
      BY <1>3, <1>5, <3>1
    <3> QED
      BY <1>7, <3>1, <3>2
  <2> QED
    BY <2>1, <2>2
<1>10. j[0] = S \o T /\ j[m + n] = <<>>
  <2>1. 0 \in 0 .. m /\ n \in 0 .. n
    BY <1>3
  <2>2. j[0] = g[0] \o T
    BY <1>7, <2>1
  <2>3. j[m + n] = h[n]
    BY <1>7, <2>1
  <2> QED
    BY <1>4, <1>5, <2>2, <2>3
<1>11. Joining(j, S \o T, c, p)
  BY <1>3, <1>8, <1>9, <1>10 DEF Joining
<1> QED
  BY <1>11 DEF Joined, c

(* A sequence without its first thing.                                     *)
LEMMA SeqTail ==
  ASSUME NEW D, NEW q \in Seq(D), q # <<>>
  PROVE  /\ Len(q) \in Nat \ {0} /\ q[1] \in D
         /\ Tail(q) \in Seq(D) /\ Len(Tail(q)) = Len(q) - 1
         /\ \A i \in 1 .. Len(q) - 1 : Tail(q)[i] = q[i + 1]
OBVIOUS

(* The bytes of the first thing come first, and then those of the others.  *)
LEMMA JoinedHead ==
  ASSUME NEW D, NEW p \in [D -> Seq(Byte)], NEW q \in Seq(D), NEW S, Joined(S, q, p), q # <<>>
  PROVE  \E T \in Seq(Byte) : S = p[q[1]] \o T /\ Joined(T, Tail(q), p)
<1>1. PICK g : Joining(g, S, q, p)
  BY DEF Joined
<1> DEFINE n == Len(q) - 1
           t == Tail(q)
           h == [i \in 0 .. n |-> g[i + 1]]
<1>2. /\ n \in Nat /\ Len(q) = n + 1 /\ q[1] \in D /\ Len(t) = n
      /\ \A i \in 1 .. n : t[i] = q[i + 1]
  BY SeqTail
<1>3. /\ g \in [0 .. n + 1 -> Seq(Byte)] /\ g[0] = S /\ g[n + 1] = <<>>
      /\ \A i \in 1 .. n + 1 : g[i - 1] = p[q[i]] \o g[i]
  BY <1>1, <1>2 DEF Joining
<1> HIDE DEF n, t
<1>4. S = p[q[1]] \o g[1] /\ g[1] \in Seq(Byte)
  <2>1. 1 \in 1 .. n + 1 /\ 1 - 1 = 0 /\ 1 \in 0 .. n + 1
    BY <1>2
  <2> QED
    BY <1>3, <2>1
<1>5. h \in [0 .. n -> Seq(Byte)] /\ h[0] = g[1] /\ h[n] = <<>>
  BY <1>2, <1>3
<1>6. ASSUME NEW i \in 1 .. n
      PROVE  h[i - 1] = p[t[i]] \o h[i]
  <2>1. h[i - 1] = g[i] /\ h[i] = g[i + 1] /\ t[i] = q[i + 1]
    BY <1>2
  <2>2. i + 1 \in 1 .. n + 1 /\ (i + 1) - 1 = i
    BY <1>2
  <2> QED
    BY <1>3, <2>1, <2>2
<1> HIDE DEF h
<1>7. Joining(h, g[1], t, p)
  BY <1>2, <1>5, <1>6 DEF Joining
<1>8. Joined(g[1], t, p)
  BY <1>7 DEF Joined
<1> QED
  BY <1>4, <1>8 DEF t

-----------------------------------------------------------------------------
(* The pieces of a message, and the unknown fields it can hold.            *)
Items(m) == {x \in (1 .. 7) \X (Keys \union {0}) : x[2] \in Pieces(m, x[1])}
PieceOf(m) == [x \in Items(m) |-> Piece(m, x[1], x[2])]
Raw == [raw \in Foreign |-> raw]
Kept(u) == \E us \in Seq(Foreign) : Joined(u, us, Raw)

(* w is the front of F, or all of it.                                      *)
FrontOf(w, F, whole) ==
    /\ Len(w) <= Len(F)
    /\ \A i \in 1 .. Len(w) : w[i] = F[i]
    /\ whole => Len(w) = Len(F)

(* An item is a piece of a field,                                          *)
LEMMA ItemParts ==
  ASSUME NEW m \in Messages, NEW x \in Items(m)
  PROVE  /\ x[1] \in 1 .. 7 /\ x[2] \in Pieces(m, x[1]) /\ x = <<x[1], x[2]>>
         /\ PieceOf(m)[x] = Piece(m, x[1], x[2])
BY DEF Items, PieceOf

(* every piece is an item,                                                 *)
LEMMA ItemWhole ==
  ASSUME NEW m \in Messages, NEW f \in 1 .. 7, NEW k \in Pieces(m, f)
  PROVE  \E x \in Items(m) : x[1] = f /\ x[2] = k /\ PieceOf(m)[x] = Piece(m, f, k)
<1> DEFINE x == <<f, k>>
<1>1. k \in Keys \union {0}
  BY PieceKeys
<1>2. x[1] = f /\ x[2] = k /\ x \in (1 .. 7) \X (Keys \union {0})
  BY <1>1
<1> HIDE DEF x
<1>3. x \in Items(m)
  BY <1>2 DEF Items
<1>4. PieceOf(m)[x] = Piece(m, f, k)
  BY <1>2, <1>3 DEF PieceOf
<1> QED
  BY <1>2, <1>3, <1>4

(* and items have bytes.                                                   *)
LEMMA PieceOfType ==
  ASSUME NEW m \in Messages
  PROVE  PieceOf(m) \in [Items(m) -> Seq(Byte)]
<1>1. ASSUME NEW x \in Items(m)
      PROVE  Piece(m, x[1], x[2]) \in Seq(Byte)
  <2> DEFINE f == x[1]
             k == x[2]
  <2>1. f \in 1 .. 7 /\ k \in Pieces(m, f)
    BY ItemParts
  <2> HIDE DEF f, k
  <2>2. Piece(m, f, k) \in Seq(Byte)
    BY <2>1, PieceType
  <2> QED
    BY <2>2 DEF f, k
<1> QED
  BY <1>1 DEF PieceOf

(* Unknown fields are bytes, read as one field that this message lacks.    *)
LEMMA RawType ==
  /\ Raw \in [Foreign -> Seq(Byte)]
  /\ \A raw \in Foreign : /\ Raw[raw] = raw /\ raw \in Seq(Byte)
                          /\ ReadField(raw).ok /\ ReadField(raw).field > 7
                          /\ ReadField(raw).size = Len(raw)
BY ForeignAssumption DEF Raw

(* Unknown fields are kept as bytes:                                       *)
LEMMA KeptType ==
  ASSUME NEW u, Kept(u)
  PROVE  u \in Seq(Byte)
BY JoinedType DEF Kept

(* none,                                                                   *)
LEMMA KeptNone == Kept(<<>>)
<1> DEFINE e == <<>>
<1>1. e \in Seq(Foreign)
  OBVIOUS
<1>2. Joined(e, e, Raw)
  BY JoinedNone
<1> HIDE DEF e
<1>3. Kept(e)
  BY <1>1, <1>2 DEF Kept
<1> QED
  BY <1>3 DEF e

(* one of them,                                                            *)
LEMMA KeptOne ==
  ASSUME NEW raw \in Foreign
  PROVE  Kept(raw)
<1> DEFINE q == <<raw>>
<1>1. q \in Seq(Foreign)
  OBVIOUS
<1>2. Raw \in [Foreign -> Seq(Byte)] /\ Raw[raw] = raw
  BY RawType
<1>3. Joined(Raw[raw], q, Raw)
  BY <1>2, JoinedOne
<1> HIDE DEF q
<1> QED
  BY <1>1, <1>2, <1>3 DEF Kept

(* and those of one message after those of another.                        *)
LEMMA KeptBoth ==
  ASSUME NEW u, NEW v, Kept(u), Kept(v)
  PROVE  Kept(u \o v)
<1>1. PICK q \in Seq(Foreign) : Joined(u, q, Raw)
  BY DEF Kept
<1>2. PICK r \in Seq(Foreign) : Joined(v, r, Raw)
  BY DEF Kept
<1>3. q \o r \in Seq(Foreign)
  BY SeqJoin
<1>4. Raw \in [Foreign -> Seq(Byte)]
  BY RawType
<1>5. Joined(u \o v, q \o r, Raw)
  BY <1>1, <1>2, <1>4, JoinedBoth
<1> QED
  BY <1>3, <1>5 DEF Kept

(* When there are some, one comes first.                                   *)
LEMMA KeptHead ==
  ASSUME NEW u, Kept(u), u # <<>>
  PROVE  \E raw \in Foreign, v \in Seq(Byte) : u = raw \o v /\ Kept(v)
<1>1. PICK q \in Seq(Foreign) : Joined(u, q, Raw)
  BY DEF Kept
<1>2. q # <<>>
  BY <1>1, JoinedEmpty
<1>3. Raw \in [Foreign -> Seq(Byte)]
  BY RawType
<1>4. PICK v \in Seq(Byte) : u = Raw[q[1]] \o v /\ Joined(v, Tail(q), Raw)
  BY <1>1, <1>2, <1>3, JoinedHead
<1>5. q[1] \in Foreign /\ Tail(q) \in Seq(Foreign)
  BY <1>2, SeqTail
<1>6. Raw[q[1]] = q[1]
  BY <1>5, RawType
<1>7. Kept(v)
  BY <1>4, <1>5 DEF Kept
<1> QED
  BY <1>4, <1>5, <1>6, <1>7

(* A chunk at the head of the file is read, or the file is cut in it.      *)
LEMMA ChunkRead ==
  ASSUME NEW w \in Seq(Byte), NEW c \in Seq(Byte), NEW R \in Seq(Byte), NEW whole,
         FrontOf(w, c \o R, whole), ReadField(c).ok, ReadField(c).size = Len(c)
  PROVE  /\ ReadField(w).ok => /\ ReadField(w) = ReadField(c)
                               /\ SubSeq(w, 1, Len(c)) = c
                               /\ From(w, Len(c) + 1) \in Seq(Byte)
                               /\ FrontOf(From(w, Len(c) + 1), R, whole)
         /\ ~ ReadField(w).ok => ~ whole
<1> DEFINE F == c \o R
           n == Len(c)
           t == From(w, n + 1)
<1>1. /\ F \in Seq(Byte) /\ Len(F) = n + Len(R) /\ n \in Nat /\ Len(R) \in Nat /\ Len(w) \in Nat
      /\ \A i \in 1 .. n : F[i] = c[i]
      /\ \A i \in 1 .. Len(R) : F[n + i] = R[i]
  BY SeqJoin
<1>2. /\ Len(w) <= Len(F) /\ \A i \in 1 .. Len(w) : w[i] = F[i]
      /\ whole => Len(w) = Len(F)
  BY DEF FrontOf
<1> HIDE DEF F, n
<1>3. Agree(c, w)
  <2> SUFFICES ASSUME NEW i \in 1 .. n, i <= Len(w)
               PROVE  w[i] = c[i]
    BY DEF Agree, n
  <2>1. i \in 1 .. Len(w)
    BY <1>1
  <2> QED
    BY <1>1, <1>2, <2>1
<1>4. IF Len(w) >= n THEN ReadField(w) = ReadField(c) ELSE ~ ReadField(w).ok
  BY <1>3, ReadLocal DEF n
<1>5. CASE Len(w) >= n
  <2>1. ReadField(w) = ReadField(c) /\ ReadField(w).ok
    BY <1>4, <1>5
  <2>2. /\ t \in Seq(Byte) /\ Len(t) = Len(w) - n
        /\ \A i \in 1 .. Len(w) - n : t[i] = w[n + i]
    <3>1. /\ From(w, n + 1) \in Seq(Byte)
          /\ Len(From(w, n + 1)) = IF n <= Len(w) THEN Len(w) - n ELSE 0
          /\ \A i \in 1 .. Len(w) - n : From(w, n + 1)[i] = w[n + i]
      BY <1>1, FromType
    <3> QED
      BY <1>1, <1>5, <3>1
  <2>3. SubSeq(w, 1, n) = c
    <3> DEFINE s == SubSeq(w, 1, n)
    <3>1. n \in 0 .. Len(w)
      BY <1>1, <1>5
    <3>2. s \in Seq(Byte) /\ Len(s) = n /\ \A i \in 1 .. n : s[i] = w[i]
      BY <3>1, FirstBytes
    <3> HIDE DEF s
    <3>3. \A i \in 1 .. n : s[i] = c[i]
      <4> SUFFICES ASSUME NEW i \in 1 .. n
                   PROVE  s[i] = c[i]
        OBVIOUS
      <4>1. i \in 1 .. Len(w)
        BY <1>1, <1>5
      <4> QED
        BY <1>1, <1>2, <3>2, <4>1
    <3>4. Len(s) = Len(c)
      BY <3>2 DEF n
    <3>5. s = c
      BY <3>2, <3>3, <3>4, SeqEqual DEF n
    <3> QED
      BY <3>5 DEF s
  <2> HIDE DEF t
  <2>4. FrontOf(t, R, whole)
    <3>1. Len(t) <= Len(R) /\ (whole => Len(t) = Len(R))
      BY <1>1, <1>2, <2>2
    <3>2. ASSUME NEW i \in 1 .. Len(t)
          PROVE  t[i] = R[i]
      <4>1. i \in 1 .. Len(w) - n /\ n + i \in 1 .. Len(w) /\ i \in 1 .. Len(R)
        BY <1>1, <1>2, <2>2
      <4> QED
        BY <1>1, <1>2, <2>2, <4>1
    <3> QED
      BY <3>1, <3>2 DEF FrontOf
  <2> QED
    BY <2>1, <2>2, <2>3, <2>4 DEF t, n
<1>6. CASE ~ (Len(w) >= n)
  <2>1. ~ ReadField(w).ok
    BY <1>4, <1>6
  <2>2. ~ whole
    BY <1>1, <1>2, <1>6
  <2> QED
    BY <2>1, <2>2
<1> QED
  BY <1>5, <1>6

-----------------------------------------------------------------------------
(* What is still to be read of the message a, when the pieces got have     *)
(* been: pieces, among them all the others, and then the unknown fields U. *)
Wanted(a, got, q) ==
    \A x \in Items(a) : x[2] \in got[x[1]] \/ \E i \in 1 .. Len(q) : q[i] = x

Ahead(w, whole, a, got, U) ==
    \E q \in Seq(Items(a)), S \in Seq(Byte) :
        /\ Joined(S, q, PieceOf(a))
        /\ Wanted(a, got, q)
        /\ FrontOf(w, S \o U, whole)

(* The bytes w are the rest of a file written from a, and b is what the    *)
(* part before makes of the message to.                                    *)
Midway(b, to, a, w, whole) ==
    \E got, u, U :
        /\ SomeOf(got, a) /\ u \in Seq(Byte) /\ Kept(U)
        /\ Ahead(w, whole, a, got, U)
        /\ b = Half(to, a, got, u)
        /\ u \o U = to.unknown \o a.unknown

(* A turn of the loop that takes the field f off w.                        *)
Turn(b, to, a, w, whole, f) ==
    /\ f.type = 2 /\ f.field \in NumberFields \union TimerFields => ParseEntry(f).ok
    /\ From(w, f.size + 1) \in Seq(Byte)
    /\ Midway(Store(b, f, SubSeq(w, 1, f.size)), to, a, From(w, f.size + 1), whole)

(* While pieces remain, a turn takes the next one, and fails only when the *)
(* file is cut in it.                                                      *)
LEMMA TurnPiece ==
  ASSUME NEW to \in Messages, NEW a \in Messages, NEW w \in Seq(Byte), NEW whole,
         NEW got, NEW u \in Seq(Byte), NEW U, SomeOf(got, a), Kept(U),
         u \o U = to.unknown \o a.unknown,
         NEW q \in Seq(Items(a)), q # <<>>, NEW S \in Seq(Byte),
         Joined(S, q, PieceOf(a)), Wanted(a, got, q), FrontOf(w, S \o U, whole)
  PROVE  /\ ReadField(w).ok => Turn(Half(to, a, got, u), to, a, w, whole, ReadField(w))
         /\ ~ ReadField(w).ok => ~ whole
<1> DEFINE x == q[1]
           f == x[1]
           k == x[2]
           c == Piece(a, f, k)
           r == ReadField(w)
           t == From(w, Len(c) + 1)
           b == Half(to, a, got, u)
           got2 == Adds(got, f, k)
<1>1. x \in Items(a) /\ Tail(q) \in Seq(Items(a))
  BY SeqTail
<1>2. f \in 1 .. 7 /\ k \in Pieces(a, f) /\ x = <<f, k>> /\ PieceOf(a)[x] = c
  BY <1>1, ItemParts
<1>3. /\ IsPiece(ReadField(c), f, Body(a, f, k), Len(c)) /\ c \in Seq(Byte)
  <2> HIDE DEF f, k, c
  <2> QED
    BY <1>2, PieceRead DEF c
<1>4. PICK T \in Seq(Byte) : S = PieceOf(a)[x] \o T /\ Joined(T, Tail(q), PieceOf(a))
  BY PieceOfType, JoinedHead
<1>5. U \in Seq(Byte) /\ T \o U \in Seq(Byte) /\ S \o U = c \o (T \o U)
  <2>1. U \in Seq(Byte)
    BY KeptType
  <2> HIDE DEF c, x
  <2>2. (c \o T) \o U = c \o (T \o U)
    <3>1. c \in Seq(Byte)
      BY <1>3
    <3> QED
      BY <2>1, <3>1, JoinAssociates
  <2>3. T \o U \in Seq(Byte)
    BY <1>4, <2>1, JoinBytes
  <2> QED
    BY <1>2, <1>4, <2>1, <2>2, <2>3
<1>6. /\ ReadField(c).ok /\ ReadField(c).size = Len(c)
  BY <1>3 DEF IsPiece
<1> HIDE DEF c, r, b, f, k, x
<1>7. /\ r.ok => /\ r = ReadField(c)
                 /\ SubSeq(w, 1, Len(c)) = c
                 /\ t \in Seq(Byte)
                 /\ FrontOf(t, T \o U, whole)
      /\ ~ r.ok => ~ whole
  <2> DEFINE R == T \o U
  <2>1. FrontOf(w, c \o R, whole) /\ R \in Seq(Byte)
    BY <1>5
  <2> HIDE DEF R
  <2>2. /\ ReadField(w).ok => /\ ReadField(w) = ReadField(c)
                               /\ SubSeq(w, 1, Len(c)) = c
                               /\ From(w, Len(c) + 1) \in Seq(Byte)
                               /\ FrontOf(From(w, Len(c) + 1), R, whole)
        /\ ~ ReadField(w).ok => ~ whole
    BY <1>3, <1>6, <2>1, ChunkRead
  <2> QED
    BY <2>2 DEF r, R
<1>8. SomeOf(got2, a)
  BY <1>2, AddsSome
<1>9. Wanted(a, got2, Tail(q))
  <2> SUFFICES ASSUME NEW y \in Items(a)
               PROVE  y[2] \in got2[y[1]] \/ \E i \in 1 .. Len(Tail(q)) : Tail(q)[i] = y
    BY DEF Wanted
  <2>1. y[1] \in 1 .. 7 /\ y = <<y[1], y[2]>>
    BY ItemParts
  <2>2. got \in [1 .. 7 -> SUBSET (Keys \union {0})]
    BY DEF SomeOf
  <2>3. /\ got2[f] = got[f] \union {k} /\ \A g \in 1 .. 7 : g # f => got2[g] = got[g]
    <3>1. f \in 1 .. 7
      BY <1>2
    <3>2. /\ Adds(got, f, k)[f] = got[f] \union {k}
          /\ \A g \in 1 .. 7 : g # f => Adds(got, f, k)[g] = got[g]
      BY <2>2, <3>1 DEF Adds
    <3> QED
      BY <3>2
  <2> HIDE DEF got2
  <2>4. CASE y[2] \in got[y[1]]
    <3>1. CASE y[1] = f
      BY <2>3, <2>4, <3>1
    <3>2. CASE y[1] # f
      BY <2>1, <2>3, <2>4, <3>2
    <3> QED
      BY <3>1, <3>2
  <2>5. CASE \E i \in 1 .. Len(q) : q[i] = y
    <3>1. PICK i \in 1 .. Len(q) : q[i] = y
      BY <2>5
    <3>2. CASE i = 1
      <4>1. y = x
        BY <3>1, <3>2 DEF x
      <4>2. y[1] = f /\ y[2] = k
        BY <4>1 DEF f, k
      <4> QED
        BY <2>3, <4>2
    <3>3. CASE i # 1
      <4>1. /\ Len(q) \in Nat \ {0} /\ Len(Tail(q)) = Len(q) - 1
            /\ \A j \in 1 .. Len(q) - 1 : Tail(q)[j] = q[j + 1]
        BY SeqTail
      <4>2. i - 1 \in 1 .. Len(q) - 1 /\ (i - 1) + 1 = i
        BY <3>3, <4>1
      <4> QED
        BY <3>1, <4>1, <4>2
    <3> QED
      BY <3>2, <3>3
  <2> QED
    BY <2>4, <2>5 DEF Wanted
<1>10. ASSUME r.ok
       PROVE  Turn(b, to, a, w, whole, r)
  <2>1. r = ReadField(c) /\ SubSeq(w, 1, Len(c)) = c /\ t \in Seq(Byte) /\ FrontOf(t, T \o U, whole)
    BY <1>7, <1>10
  <2>2. IsPiece(r, f, Body(a, f, k), Len(c))
    BY <1>3, <2>1
  <2>3. r.size = Len(c) /\ r.field = f /\ r.type = 2
    BY <2>2 DEF IsPiece
  <2>4. /\ Store(b, r, c) = Half(to, a, got2, u)
        /\ f \in NumberFields \union TimerFields => ParseEntry(r).ok
    <3> DEFINE n == Len(c)
    <3>1. IsPiece(r, f, Body(a, f, k), n) /\ f \in 1 .. 7 /\ k \in Pieces(a, f)
      BY <1>2, <2>2
    <3> HIDE DEF n
    <3>2. /\ Store(Half(to, a, got, u), r, c) = Half(to, a, Adds(got, f, k), u)
          /\ f \in NumberFields \union TimerFields => ParseEntry(r).ok
      BY <3>1, StorePiece
    <3> QED
      BY <3>2 DEF b
  <2> HIDE DEF got2
  <2>5. Ahead(t, whole, a, got2, U)
    BY <1>1, <1>4, <1>9, <2>1 DEF Ahead
  <2>6. Midway(Half(to, a, got2, u), to, a, t, whole)
    BY <1>8, <2>5 DEF Midway
  <2>7. From(w, r.size + 1) = t /\ SubSeq(w, 1, r.size) = c
    BY <2>1, <2>3
  <2> HIDE DEF t
  <2> QED
    BY <2>1, <2>3, <2>4, <2>6, <2>7 DEF Turn
<1> QED
  BY <1>7, <1>10 DEF r, b

(* When only unknown fields remain, a turn keeps the next one as it is,    *)
(* and fails only when the file is cut in it.                              *)
LEMMA TurnUnknown ==
  ASSUME NEW to \in Messages, NEW a \in Messages, NEW w \in Seq(Byte), NEW whole, w # <<>>,
         NEW got, NEW u \in Seq(Byte), NEW U, SomeOf(got, a), Kept(U),
         u \o U = to.unknown \o a.unknown,
         Wanted(a, got, <<>>), FrontOf(w, U, whole)
  PROVE  /\ ReadField(w).ok => Turn(Half(to, a, got, u), to, a, w, whole, ReadField(w))
         /\ ~ ReadField(w).ok => ~ whole
<1> DEFINE r == ReadField(w)
           b == Half(to, a, got, u)
<1>1. U \in Seq(Byte) /\ U # <<>>
  <2>1. U \in Seq(Byte)
    BY KeptType
  <2>2. Len(w) \in Nat /\ Len(w) # 0 /\ Len(w) <= Len(U)
    BY EmptySeq DEF FrontOf
  <2>3. Len(U) # 0
    BY <2>1, <2>2
  <2> QED
    BY <2>1, <2>3, EmptySeq
<1>2. PICK c \in Foreign, V \in Seq(Byte) : U = c \o V /\ Kept(V)
  BY <1>1, KeptHead
<1>3. /\ c \in Seq(Byte) /\ ReadField(c).ok /\ ReadField(c).field > 7 /\ ReadField(c).size = Len(c)
  BY RawType
<1> DEFINE t == From(w, Len(c) + 1)
<1> HIDE DEF r, b
<1>4. /\ r.ok => /\ r = ReadField(c)
                 /\ SubSeq(w, 1, Len(c)) = c
                 /\ t \in Seq(Byte)
                 /\ FrontOf(t, V, whole)
      /\ ~ r.ok => ~ whole
  <2>1. FrontOf(w, c \o V, whole)
    BY <1>2
  <2>2. /\ ReadField(w).ok => /\ ReadField(w) = ReadField(c)
                               /\ SubSeq(w, 1, Len(c)) = c
                               /\ From(w, Len(c) + 1) \in Seq(Byte)
                               /\ FrontOf(From(w, Len(c) + 1), V, whole)
        /\ ~ ReadField(w).ok => ~ whole
    BY <1>3, <2>1, ChunkRead
  <2> QED
    BY <2>2 DEF r
<1>5. ASSUME r.ok
      PROVE  Turn(b, to, a, w, whole, r)
  <2>1. r = ReadField(c) /\ SubSeq(w, 1, Len(c)) = c /\ t \in Seq(Byte) /\ FrontOf(t, V, whole)
    BY <1>4, <1>5
  <2>2. r.size = Len(c) /\ r.field > 7 /\ r.field \in Nat
    <3>1. ReadField(c) \in FieldValues
      BY <1>3, ReadFieldType
    <3> QED
      BY <1>3, <2>1, <3>1 DEF FieldValues
  <2>3. Store(b, r, c) = Half(to, a, got, u \o c)
    <3>1. Store(Half(to, a, got, u), r, c) = Half(to, a, got, u \o c)
      BY <2>2, HalfKeeps
    <3> QED
      BY <3>1 DEF b
  <2>4. r.field \notin NumberFields \union TimerFields
    BY <2>2 DEF NumberFields, TimerFields
  <2>5. u \o c \in Seq(Byte) /\ (u \o c) \o V = to.unknown \o a.unknown
    <3>1. (u \o c) \o V = u \o (c \o V)
      BY <1>3, JoinAssociates
    <3>2. u \o c \in Seq(Byte)
      BY <1>3, JoinBytes
    <3> QED
      BY <1>2, <3>1, <3>2
  <2> DEFINE v == u \o c
             e == <<>>
  <2>6. e \o V = V /\ e \in Seq(Items(a)) /\ e \in Seq(Byte) /\ Joined(e, e, PieceOf(a)) /\ Wanted(a, got, e)
    BY EmptyJoin, JoinedNone
  <2> HIDE DEF t, e, v
  <2>7. Ahead(t, whole, a, got, V)
    BY <2>1, <2>6 DEF Ahead
  <2>8. Midway(Half(to, a, got, v), to, a, t, whole)
    BY <1>2, <2>5, <2>7 DEF Midway, v
  <2>9. From(w, r.size + 1) = t /\ SubSeq(w, 1, r.size) = c
    BY <2>1, <2>2 DEF t
  <2> QED
    BY <2>1, <2>3, <2>4, <2>8, <2>9 DEF Turn, v
<1> QED
  BY <1>4, <1>5 DEF r, b

(* A turn of the loop, in any state of the reading.                        *)
LEMMA AnyTurn ==
  ASSUME NEW to \in Messages, NEW a \in Messages, NEW b, NEW w \in Seq(Byte), NEW whole,
         w # <<>>, Midway(b, to, a, w, whole)
  PROVE  /\ ReadField(w).ok => Turn(b, to, a, w, whole, ReadField(w))
         /\ ~ ReadField(w).ok => ~ whole
<1>1. PICK got, u, U :
        /\ SomeOf(got, a) /\ u \in Seq(Byte) /\ Kept(U)
        /\ Ahead(w, whole, a, got, U)
        /\ b = Half(to, a, got, u)
        /\ u \o U = to.unknown \o a.unknown
  BY DEF Midway
<1>2. PICK q \in Seq(Items(a)), S \in Seq(Byte) :
        /\ Joined(S, q, PieceOf(a))
        /\ Wanted(a, got, q)
        /\ FrontOf(w, S \o U, whole)
  BY <1>1 DEF Ahead
<1>3. CASE q # <<>>
  <2>1. u \in Seq(Byte) /\ SomeOf(got, a) /\ Kept(U) /\ u \o U = to.unknown \o a.unknown
    BY <1>1
  <2>2. Joined(S, q, PieceOf(a)) /\ Wanted(a, got, q) /\ FrontOf(w, S \o U, whole)
    BY <1>2
  <2>3. /\ ReadField(w).ok => Turn(Half(to, a, got, u), to, a, w, whole, ReadField(w))
        /\ ~ ReadField(w).ok => ~ whole
    BY <1>3, <2>1, <2>2, TurnPiece
  <2> QED
    BY <1>1, <2>3
<1>4. CASE q = <<>>
  <2>1. u \in Seq(Byte) /\ SomeOf(got, a) /\ Kept(U) /\ u \o U = to.unknown \o a.unknown
    BY <1>1
  <2>2. Wanted(a, got, <<>>)
    BY <1>2, <1>4
  <2>3. FrontOf(w, U, whole)
    <3>1. S = <<>>
      BY <1>2, <1>4, JoinedEmpty
    <3>2. U \in Seq(Byte)
      BY <2>1, KeptType
    <3>3. <<>> \o U = U
      BY <3>2, EmptyJoin
    <3> QED
      BY <1>2, <3>1, <3>3
  <2>4. /\ ReadField(w).ok => Turn(Half(to, a, got, u), to, a, w, whole, ReadField(w))
        /\ ~ ReadField(w).ok => ~ whole
    BY <2>1, <2>2, <2>3, TurnUnknown
  <2> QED
    BY <1>1, <2>4
<1> QED
  BY <1>3, <1>4

(* Before the first turn, and when nothing is left.                        *)
LEMMA MidwayStart ==
  ASSUME NEW to \in Messages, NEW a \in Messages, NEW w, NEW whole, Kept(a.unknown),
         NEW q \in Seq(Items(a)), NEW S \in Seq(Byte), Joined(S, q, PieceOf(a)),
         \A x \in Items(a) : \E i \in 1 .. Len(q) : q[i] = x,
         FrontOf(w, S \o a.unknown, whole)
  PROVE  Midway(to, to, a, w, whole)
<1> DEFINE got == [f \in 1 .. 7 |-> {}]
<1>1. \A f \in 1 .. 7 : got[f] = {}
  OBVIOUS
<1>2. SomeOf(got, a)
  BY DEF SomeOf
<1> HIDE DEF got
<1>3. Wanted(a, got, q)
  BY DEF Wanted
<1>4. Ahead(w, whole, a, got, a.unknown)
  BY <1>3 DEF Ahead
<1>5. Half(to, a, got, to.unknown) = to
  BY <1>1, HalfNone
<1>6. to.unknown \in Seq(Byte)
  BY MessageFields
<1> QED
  BY <1>2, <1>4, <1>5, <1>6 DEF Midway

(* At the end of a whole file, everything has been read.                   *)
LEMMA MidwayEnd ==
  ASSUME NEW to \in Messages, NEW a \in Messages, NEW b, NEW w, w = <<>>, NEW whole, whole,
         Midway(b, to, a, w, whole)
  PROVE  b = Merge(to, a)
<1>1. PICK got, u, U :
        /\ SomeOf(got, a) /\ u \in Seq(Byte) /\ Kept(U)
        /\ Ahead(w, whole, a, got, U)
        /\ b = Half(to, a, got, u)
        /\ u \o U = to.unknown \o a.unknown
  BY DEF Midway
<1>2. PICK q \in Seq(Items(a)), S \in Seq(Byte) :
        /\ Joined(S, q, PieceOf(a))
        /\ Wanted(a, got, q)
        /\ FrontOf(w, S \o U, whole)
  BY <1>1 DEF Ahead
<1>3. U \in Seq(Byte)
  BY <1>1, KeptType
<1>4. Len(S) = 0 /\ Len(U) = 0
  <2>1. Len(S \o U) = 0
    <3>1. Len(w) = 0
      OBVIOUS
    <3> QED
      BY <1>2, <3>1 DEF FrontOf
  <2>2. Len(S \o U) = Len(S) + Len(U) /\ Len(S) \in Nat /\ Len(U) \in Nat
    BY <1>3, JoinBytes
  <2> QED
    BY <2>1, <2>2
<1>5. q = <<>>
  <2> SUFFICES ASSUME q # <<>>
               PROVE  FALSE
    OBVIOUS
  <2> DEFINE c == PieceOf(a)[q[1]]
  <2>1. PICK T \in Seq(Byte) : S = c \o T
    <3>1. PieceOf(a) \in [Items(a) -> Seq(Byte)]
      BY PieceOfType
    <3>2. Joined(S, q, PieceOf(a))
      BY <1>2
    <3>3. \E T \in Seq(Byte) : S = PieceOf(a)[q[1]] \o T /\ Joined(T, Tail(q), PieceOf(a))
      BY <3>1, <3>2, JoinedHead
    <3> QED
      BY <3>3
  <2>2. c \in Seq(Byte) /\ c # <<>>
    <3> DEFINE x == q[1]
               f == x[1]
               k == x[2]
    <3>1. x \in Items(a)
      BY SeqTail
    <3> HIDE DEF x
    <3>2. f \in 1 .. 7 /\ k \in Pieces(a, f) /\ PieceOf(a)[x] = Piece(a, f, k)
      BY <3>1, ItemParts
    <3> HIDE DEF f, k
    <3>3. Piece(a, f, k) \in Seq(Byte) /\ Piece(a, f, k) # <<>>
      BY <3>2, PieceRead
    <3> QED
      BY <3>2, <3>3 DEF x
  <2> HIDE DEF c
  <2>3. Len(S) = Len(c) + Len(T) /\ Len(c) \in Nat /\ Len(T) \in Nat
    BY <2>1, <2>2, JoinBytes
  <2>4. Len(c) # 0
    BY <2>2, EmptySeq
  <2>5. \A i, j \in Nat : i + j = 0 => i = 0
    OBVIOUS
  <2>6. Len(c) = 0
    BY <1>4, <2>3, <2>5
  <2> QED
    BY <2>4, <2>6
<1>6. \A f \in 1 .. 7 : got[f] = Pieces(a, f)
  <2> SUFFICES ASSUME NEW f \in 1 .. 7
               PROVE  got[f] = Pieces(a, f)
    OBVIOUS
  <2>1. got[f] \subseteq Pieces(a, f)
    BY <1>1 DEF SomeOf
  <2>2. ASSUME NEW k \in Pieces(a, f)
        PROVE  k \in got[f]
    <3>1. PICK x \in Items(a) : x[1] = f /\ x[2] = k
      BY ItemWhole
    <3>2. Len(q) = 0
      BY <1>5
    <3>3. x[2] \in got[x[1]]
      BY <1>2, <3>2 DEF Wanted
    <3> QED
      BY <3>1, <3>3
  <2> QED
    BY <2>1, <2>2
<1>7. u = to.unknown \o a.unknown
  <2>1. U = <<>>
    BY <1>3, <1>4, EmptySeq
  <2>2. u \o <<>> = u
    BY <1>1, EmptyJoin
  <2> QED
    BY <1>1, <2>1, <2>2
<1>8. Half(to, a, got, u) = Merge(to, a)
  BY <1>6, <1>7, HalfAll
<1> QED
  BY <1>1, <1>8

(* What has been read at any moment is a message,                          *)
LEMMA MidwayType ==
  ASSUME NEW to \in Messages, NEW a \in Messages, NEW b, NEW w, NEW whole,
         Midway(b, to, a, w, whole)
  PROVE  b \in Messages
BY HalfType DEF Midway

(* a sequence begins with the first of its two parts,                      *)
LEMMA PrefixJoin ==
  ASSUME NEW u \in Seq(Byte), NEW U \in Seq(Byte)
  PROVE  IsPrefix(u, u \o U)
<1> DEFINE s == u \o U
<1>1. Len(s) = Len(u) + Len(U) /\ Len(u) \in Nat /\ Len(U) \in Nat
  BY JoinBytes
<1>2. SubSeq(s, 1, Len(u)) = u
  BY JoinedParts
<1>3. SubSeq(u, 1, Len(u)) = u
  OBVIOUS
<1> HIDE DEF s
<1>4. IsPrefix(u, s)
  BY <1>1, <1>2, <1>3 DEF IsPrefix
<1> QED
  BY <1>4 DEF s

(* and what has been read into an empty message was in the message that    *)
(* was written.                                                            *)
LEMMA MidwayPart ==
  ASSUME NEW a \in Messages, NEW b, NEW w, NEW whole, Midway(b, Empty, a, w, whole)
  PROVE  \A n \in 1 .. 8 : FieldFrom(b, a, n)
<1>1. PICK got, u, U :
        /\ SomeOf(got, a) /\ u \in Seq(Byte) /\ Kept(U)
        /\ b = Half(Empty, a, got, u)
        /\ u \o U = Empty.unknown \o a.unknown
  BY DEF Midway
<1>2. IsPrefix(b.unknown, a.unknown)
  <2>1. b.unknown = u
    BY <1>1 DEF Half
  <2>2. a.unknown \in Seq(Byte) /\ U \in Seq(Byte)
    BY <1>1, MessageFields, KeptType
  <2>3. u \o U = a.unknown
    <3>1. <<>> \o a.unknown = a.unknown
      BY <2>2, EmptyJoin
    <3> QED
      BY <1>1, <3>1 DEF Empty
  <2>4. IsPrefix(u, u \o U)
    BY <1>1, <2>2, PrefixJoin
  <2> QED
    BY <2>1, <2>3, <2>4
<1>3. ASSUME NEW f \in RegionFields
      PROVE  b.region[f] \in {<<>>, a.region[f]}
  <2>1. b.region[f] = IF 0 \in got[f] THEN a.region[f] ELSE Empty.region[f]
    BY <1>1 DEF Half
  <2>2. Empty.region[f] = <<>>
    BY DEF Empty
  <2> QED
    BY <2>1, <2>2
<1>4. ASSUME NEW map, NEW K \in SUBSET DOMAIN map, NEW k \in DOMAIN HalfMap(<<>>, map, K)
      PROVE  k \in DOMAIN map /\ HalfMap(<<>>, map, K)[k] = map[k]
  <2>1. DOMAIN <<>> = {}
    OBVIOUS
  <2> QED
    BY <2>1 DEF HalfMap
<1>5. ASSUME NEW f \in NumberFields, NEW k \in DOMAIN b.number[f]
      PROVE  k \in DOMAIN a.number[f] /\ b.number[f][k] = a.number[f][k]
  <2> DEFINE map == a.number[f]
             K == got[f]
  <2>1. b.number[f] = HalfMap(<<>>, map, K)
    BY <1>1 DEF Half, Empty
  <2>2. K \in SUBSET DOMAIN map
    <3>1. f \in 1 .. 7 /\ Pieces(a, f) = DOMAIN map
      BY Kinds DEF Pieces
    <3> QED
      BY <1>1, <3>1 DEF SomeOf
  <2> HIDE DEF map, K
  <2>3. k \in DOMAIN map /\ HalfMap(<<>>, map, K)[k] = map[k]
    BY <1>4, <2>1, <2>2
  <2> QED
    BY <2>1, <2>3 DEF map
<1>6. ASSUME NEW f \in TimerFields, NEW k \in DOMAIN b.timer[f]
      PROVE  k \in DOMAIN a.timer[f] /\ b.timer[f][k] = a.timer[f][k]
  <2> DEFINE map == a.timer[f]
             K == got[f]
  <2>1. b.timer[f] = HalfMap(<<>>, map, K)
    BY <1>1 DEF Half, Empty
  <2>2. K \in SUBSET DOMAIN map
    <3>1. f \in 1 .. 7 /\ Pieces(a, f) = DOMAIN map
      BY Kinds DEF Pieces
    <3> QED
      BY <1>1, <3>1 DEF SomeOf
  <2> HIDE DEF map, K
  <2>3. k \in DOMAIN map /\ HalfMap(<<>>, map, K)[k] = map[k]
    BY <1>4, <2>1, <2>2
  <2> QED
    BY <2>1, <2>3 DEF map
<1> QED
  BY <1>2, <1>3, <1>5, <1>6 DEF FieldFrom

(* What a failure leaves in one field,                                     *)
LEMMA SpoiltCases ==
  ASSUME NEW m, NEW n, NEW x \in Spoilt(m, n)
  PROVE  /\ n \in RegionFields =>
              x = m \/ \E bytes \in Garbage : x = [m EXCEPT !.region[n] = bytes]
         /\ n \notin RegionFields /\ n \in NumberFields =>
              x = m \/ \E k \in Keys, v \in Numbers :
                           x = [m EXCEPT !.number[n] = Put(m.number[n], k, v)]
         /\ n \notin RegionFields /\ n \notin NumberFields /\ n \in TimerFields =>
              x = m \/ \E k \in Keys, t \in TimerCounter :
                           x = [m EXCEPT !.timer[n] = Put(m.timer[n], k, t)]
         /\ n \notin RegionFields /\ n \notin NumberFields /\ n \notin TimerFields =>
              x = m \/ \E bytes \in Garbage : x = [m EXCEPT !.unknown = m.unknown \o bytes]
<1> DEFINE R == {[m EXCEPT !.region[n] = bytes] : bytes \in Garbage}
           N == {[m EXCEPT !.number[n] = Put(m.number[n], k, v)] : k \in Keys, v \in Numbers}
           T == {[m EXCEPT !.timer[n] = Put(m.timer[n], k, t)] : k \in Keys, t \in TimerCounter}
           U == {[m EXCEPT !.unknown = m.unknown \o bytes] : bytes \in Garbage}
           inR == n \in RegionFields
           inN == n \in NumberFields
           inT == n \in TimerFields
<1>1. x \in {m} \union CASE inR -> R [] inN -> N [] inT -> T [] OTHER -> U
  BY DEF Spoilt
<1>2. x \in R => \E bytes \in Garbage : x = [m EXCEPT !.region[n] = bytes]
  OBVIOUS
<1>3. x \in N => \E k \in Keys, v \in Numbers : x = [m EXCEPT !.number[n] = Put(m.number[n], k, v)]
  OBVIOUS
<1>4. x \in T => \E k \in Keys, t \in TimerCounter : x = [m EXCEPT !.timer[n] = Put(m.timer[n], k, t)]
  OBVIOUS
<1>5. x \in U => \E bytes \in Garbage : x = [m EXCEPT !.unknown = m.unknown \o bytes]
  OBVIOUS
<1>6. RegionFields \cap NumberFields = {} /\ RegionFields \cap TimerFields = {}
      /\ NumberFields \cap TimerFields = {}
  BY DEF RegionFields, NumberFields, TimerFields
<1>7. ~ (inR /\ inN) /\ ~ (inR /\ inT) /\ ~ (inN /\ inT)
  BY <1>6
<1> HIDE DEF R, N, T, U, inR, inN, inT
<1>8. /\ inR => x = m \/ x \in R
      /\ ~ inR /\ inN => x = m \/ x \in N
      /\ ~ inR /\ ~ inN /\ inT => x = m \/ x \in T
      /\ ~ inR /\ ~ inN /\ ~ inT => x = m \/ x \in U
  BY <1>1, <1>7
<1> QED
  BY <1>2, <1>3, <1>4, <1>5, <1>8 DEF inR, inN, inT

(* is of its type,                                                         *)
LEMMA SpoiltType ==
  ASSUME NEW m \in Messages, NEW n \in 1 .. 8, NEW x \in Spoilt(m, n)
  PROVE  x \in Messages
<1>1. CASE n \in RegionFields
  <2>1. x = m \/ \E bytes \in Garbage : x = [m EXCEPT !.region[n] = bytes]
    BY <1>1, SpoiltCases
  <2>2. \A bytes \in Garbage : bytes \in Regions
    BY DEF Regions
  <2> QED
    BY <1>1, <2>1, <2>2, ExceptRegion
<1>2. CASE n \in NumberFields
  <2>1. n \notin RegionFields
    BY <1>2 DEF RegionFields, NumberFields
  <2>2. x = m \/ \E k \in Keys, v \in Numbers :
                    x = [m EXCEPT !.number[n] = Put(m.number[n], k, v)]
    BY <1>2, <2>1, SpoiltCases
  <2>3. m.number[n] \in Maps(Keys, Numbers)
    BY <1>2, NumberType
  <2>4. \A k \in Keys, v \in Numbers : Put(m.number[n], k, v) \in Maps(Keys, Numbers)
    BY <2>3, PutType
  <2> QED
    BY <1>2, <2>2, <2>4, ExceptNumber
<1>3. CASE n \in TimerFields
  <2>1. n \notin RegionFields /\ n \notin NumberFields
    BY <1>3 DEF RegionFields, NumberFields, TimerFields
  <2>2. x = m \/ \E k \in Keys, t \in TimerCounter :
                    x = [m EXCEPT !.timer[n] = Put(m.timer[n], k, t)]
    BY <1>3, <2>1, SpoiltCases
  <2>3. m.timer[n] \in Maps(Keys, TimerCounter)
    BY <1>3, TimerType
  <2>4. \A k \in Keys, t \in TimerCounter : Put(m.timer[n], k, t) \in Maps(Keys, TimerCounter)
    BY <2>3, PutType
  <2> QED
    BY <1>3, <2>2, <2>4, ExceptTimer
<1>4. CASE n = 8
  <2>1. n \notin RegionFields /\ n \notin NumberFields /\ n \notin TimerFields
    BY <1>4 DEF RegionFields, NumberFields, TimerFields
  <2>2. x = m \/ \E bytes \in Garbage : x = [m EXCEPT !.unknown = m.unknown \o bytes]
    BY <2>1, SpoiltCases
  <2>3. \A bytes \in Garbage : m.unknown \o bytes \in Seq(Byte)
    BY MessageFields, GarbageAssumption, JoinBytes
  <2> QED
    BY <2>2, <2>3, ExceptUnknown
<1> QED
  BY <1>1, <1>2, <1>3, <1>4 DEF RegionFields, NumberFields, TimerFields

(* and the other fields are as they were.                                  *)
LEMMA SpoiltFrom ==
  ASSUME NEW m \in Messages, NEW n \in 1 .. 8, NEW x \in Spoilt(m, n),
         NEW y, NEW i \in 1 .. 8, i # n, FieldFrom(m, y, i)
  PROVE  FieldFrom(x, y, i)
<1>1. \/ x = m
      \/ n \in RegionFields /\ \E bytes : x = [m EXCEPT !.region[n] = bytes]
      \/ n \in NumberFields /\ \E map : x = [m EXCEPT !.number[n] = map]
      \/ n \in TimerFields /\ \E map : x = [m EXCEPT !.timer[n] = map]
      \/ n = 8 /\ \E bytes : x = [m EXCEPT !.unknown = bytes]
  <2>1. n \in RegionFields \union NumberFields \union TimerFields \union {8}
    BY DEF RegionFields, NumberFields, TimerFields
  <2>2. /\ n \in NumberFields => n \notin RegionFields
        /\ n \in TimerFields => n \notin RegionFields /\ n \notin NumberFields
        /\ n = 8 => n \notin RegionFields /\ n \notin NumberFields /\ n \notin TimerFields
    BY DEF RegionFields, NumberFields, TimerFields
  <2>3. CASE n \in RegionFields
    BY <2>3, SpoiltCases
  <2>4. CASE n \in NumberFields
    BY <2>2, <2>4, SpoiltCases
  <2>5. CASE n \in TimerFields
    BY <2>2, <2>5, SpoiltCases
  <2>6. CASE n = 8
    BY <2>2, <2>6, SpoiltCases
  <2> QED
    BY <2>1, <2>3, <2>4, <2>5, <2>6
<1>2. i \in RegionFields => x.region[i] = m.region[i]
  BY <1>1 DEF Messages, RegionFields, NumberFields, TimerFields
<1>3. i \in NumberFields => x.number[i] = m.number[i]
  BY <1>1 DEF Messages, RegionFields, NumberFields, TimerFields
<1>4. i \in TimerFields => x.timer[i] = m.timer[i]
  BY <1>1 DEF Messages, RegionFields, NumberFields, TimerFields
<1>5. i = 8 => x.unknown = m.unknown
  BY <1>1 DEF Messages, RegionFields, NumberFields, TimerFields
<1>6. i \in RegionFields \union NumberFields \union TimerFields \union {8}
  BY DEF RegionFields, NumberFields, TimerFields
<1> QED
  BY <1>2, <1>3, <1>4, <1>5, <1>6 DEF FieldFrom

(* A failure is in one of the fields.                                      *)
LEMMA FailsInType ==
  ASSUME NEW s
  PROVE  FailsIn(s) \subseteq 1 .. 8
BY DEF FailsIn

-----------------------------------------------------------------------------
(* The unknown fields of a message that is built are whole ones.           *)
LEMMA SameUnknown ==
  ASSUME NEW m \in Messages, NEW f, NEW v
  PROVE  /\ [m EXCEPT !.region[f] = v].unknown = m.unknown
         /\ [m EXCEPT !.number[f] = v].unknown = m.unknown
         /\ [m EXCEPT !.timer[f] = v].unknown = m.unknown
         /\ [m EXCEPT !.unknown = v].unknown = v
BY DEF Messages

(* An empty message has none,                                              *)
LEMMA EmptyKept == Kept(Empty.unknown)
<1>1. Empty.unknown = <<>>
  BY DEF Empty
<1> QED
  BY <1>1, KeptNone

(* and merging puts those of one message after those of the other.         *)
LEMMA MergeKept ==
  ASSUME NEW to, NEW from, Kept(to.unknown), Kept(from.unknown)
  PROVE  Kept(Merge(to, from).unknown)
<1>1. Merge(to, from).unknown = to.unknown \o from.unknown
  BY DEF Merge
<1>2. Kept(to.unknown \o from.unknown)
  BY KeptBoth
<1> QED
  BY <1>1, <1>2

Keeping(o) == \E m : Update(o, m) /\ Kept(m.unknown)

(* So every operation of the class keeps them whole.                       *)
LEMMA OperationKeeps ==
  ASSUME NEW o \in {"a", "b"}, Operation(o), msg["a"] \in Messages, msg["b"] \in Messages,
         Kept(msg["a"].unknown), Kept(msg["b"].unknown)
  PROVE  Keeping(o)
<1>0. msg[o] \in Messages /\ Kept(msg[o].unknown)
  OBVIOUS
<1>1. CASE \E f \in Used \intersect RegionFields, bytes \in Contents : SetRegion(o, f, bytes)
  <2>1. PICK f \in Used \intersect RegionFields, bytes \in Contents : SetRegion(o, f, bytes)
    BY <1>1
  <2>2. Kept([msg[o] EXCEPT !.region[f] = bytes].unknown)
    BY <1>0, SameUnknown
  <2> QED
    BY <2>1, <2>2 DEF SetRegion, Keeping
<1>2. CASE \E f \in Used \intersect NumberFields, k \in Keys, n \in Numbers : PutNumber(o, f, k, n)
  <2>1. PICK f \in Used \intersect NumberFields, k \in Keys, n \in Numbers : PutNumber(o, f, k, n)
    BY <1>2
  <2>2. Kept([msg[o] EXCEPT !.number[f] = Put(msg[o].number[f], k, n)].unknown)
    BY <1>0, SameUnknown
  <2> QED
    BY <2>1, <2>2 DEF PutNumber, Keeping
<1>3. CASE \E f \in Used \intersect TimerFields, k \in Keys, t \in TimerCounter : PutTimer(o, f, k, t)
  <2>1. PICK f \in Used \intersect TimerFields, k \in Keys, t \in TimerCounter : PutTimer(o, f, k, t)
    BY <1>3
  <2>2. Kept([msg[o] EXCEPT !.timer[f] = Put(msg[o].timer[f], k, t)].unknown)
    BY <1>0, SameUnknown
  <2> QED
    BY <2>1, <2>2 DEF PutTimer, Keeping
<1>4. CASE \E f \in Used : ClearField(o, f)
  <2>1. PICK f \in Used : ClearField(o, f)
    BY <1>4
  <2>2. Kept([msg[o] EXCEPT !.number[f] = <<>>].unknown) /\ Kept([msg[o] EXCEPT !.timer[f] = <<>>].unknown)
    BY <1>0, SameUnknown
  <2> QED
    BY <2>1, <2>2 DEF ClearField, Keeping
<1>5. CASE \E raw \in Foreign : AddUnknown(o, raw)
  <2>1. PICK raw \in Foreign : AddUnknown(o, raw)
    BY <1>5
  <2>2. Kept(raw) /\ [msg[o] EXCEPT !.unknown = raw].unknown = raw
    BY <1>0, SameUnknown, KeptOne
  <2> QED
    BY <2>1, <2>2 DEF AddUnknown, Keeping
<1>6. CASE Clear(o)
  BY <1>6, EmptyKept DEF Clear, Keeping
<1>7. CASE \E p \in {"a", "b"} : MergeFrom(o, p) \/ CopyFrom(o, p)
  <2>1. PICK p \in {"a", "b"} : MergeFrom(o, p) \/ CopyFrom(o, p)
    BY <1>7
  <2>2. Kept(msg[p].unknown)
    OBVIOUS
  <2>3. Kept(Merge(msg[o], msg[p]).unknown)
    BY <1>0, <2>2, MergeKept
  <2>4. Kept(Merge(Empty, msg[p]).unknown)
    BY <2>2, EmptyKept, MergeKept
  <2> QED
    BY <2>1, <2>3, <2>4 DEF MergeFrom, CopyFrom, Keeping
<1> QED
  BY <1>1, <1>2, <1>3, <1>4, <1>5, <1>6, <1>7 DEF Operation

(* All of a file is its front,                                             *)
LEMMA FrontSelf ==
  ASSUME NEW F \in Seq(Byte), NEW whole
  PROVE  FrontOf(F, F, whole)
BY DEF FrontOf

(* and so is what remains of its front when that is cut.                   *)
LEMMA FrontCut ==
  ASSUME NEW w \in Seq(Byte), NEW F, NEW whole, FrontOf(w, F, whole), NEW n \in 0 .. Len(w),
         NEW all, ~ all, Len(F) \in Nat
  PROVE  FrontOf(SubSeq(w, 1, n), F, all)
<1> DEFINE s == SubSeq(w, 1, n)
<1>1. s \in Seq(Byte) /\ Len(s) = n /\ \A i \in 1 .. n : s[i] = w[i]
  BY FirstBytes
<1>2. Len(w) \in Nat /\ Len(w) <= Len(F) /\ \A i \in 1 .. Len(w) : w[i] = F[i]
  BY DEF FrontOf
<1> HIDE DEF s
<1>3. Len(s) <= Len(F) /\ \A i \in 1 .. Len(s) : s[i] = F[i]
  BY <1>1, <1>2
<1>4. FrontOf(s, F, all)
  BY <1>3 DEF FrontOf
<1> QED
  BY <1>4 DEF s

(* No part of the table of generate_simple is read as a field: the second  *)
(* byte is taken for a length of 52.                                       *)
LEMMA SimpleUnreadable ==
  ASSUME NEW w \in Seq(Byte), w # <<>>, NEW whole, FrontOf(w, test_data, whole)
  PROVE  ~ ReadField(w).ok
<1>1. Len(w) \in 1 .. 22 /\ w[1] = 18 /\ (Len(w) >= 2 => w[2] = 52)
  <2>1. Len(w) \in Nat /\ Len(w) # 0
    BY EmptySeq
  <2>2. Len(w) <= 22 /\ \A i \in 1 .. Len(w) : w[i] = test_data[i]
    BY TestDataType DEF FrontOf
  <2>3. test_data[1] = 18 /\ test_data[2] = 52
    BY DEF test_data
  <2> DEFINE n == Len(w)
  <2>4. n \in Nat /\ n # 0 /\ n <= 22 /\ \A i \in 1 .. n : w[i] = test_data[i]
    BY <2>1, <2>2
  <2> HIDE DEF n
  <2>5. n \in 1 .. 22 /\ 1 \in 1 .. n /\ (n >= 2 => 2 \in 1 .. n)
    BY <2>4
  <2>6. w[1] = 18 /\ (n >= 2 => w[2] = 52)
    BY <2>3, <2>4, <2>5
  <2> QED
    BY <2>5, <2>6 DEF n
<1>2. TagOf(w) = [ok |-> TRUE, value |-> 18, size |-> 1]
  BY <1>1 DEF TagOf, ReadVarint
<1>3. TagOf(w).ok /\ TagOf(w).value = 18 /\ TagOf(w).size = 1 /\ TypeOf(w) = 2
  BY <1>2 DEF TypeOf
<1> DEFINE t == From(w, 1 + 1)
<1>4. t \in Seq(Byte) /\ Len(t) = Len(w) - 1 /\ \A i \in 1 .. Len(w) - 1 : t[i] = w[1 + i]
  <2> DEFINE n == 1
  <2>1. n \in Nat /\ n = 1
    OBVIOUS
  <2> HIDE DEF n
  <2>2. /\ From(w, n + 1) \in Seq(Byte)
        /\ Len(From(w, n + 1)) = IF n <= Len(w) THEN Len(w) - n ELSE 0
        /\ \A i \in 1 .. Len(w) - n : From(w, n + 1)[i] = w[n + i]
    BY <2>1, FromType
  <2> QED
    BY <1>1, <2>1, <2>2
<1>5. NextOf(w) = ReadVarint(t)
  BY <1>3 DEF NextOf
<1> HIDE DEF t
<1>6. CASE Len(w) = 1
  <2>1. Len(t) = 0
    BY <1>4, <1>6
  <2>2. ~ ReadVarint(t).ok
    BY <2>1 DEF ReadVarint
  <2> QED
    BY <1>5, <2>2, ReadFieldParts DEF Readable
<1>7. CASE Len(w) # 1
  <2>1. Len(t) \in 1 .. 21 /\ t[1] = 52
    <3> DEFINE n == Len(w)
    <3>1. n \in 1 .. 22 /\ (n >= 2 => w[2] = 52) /\ n # 1
      BY <1>1, <1>7
    <3>2. Len(t) = n - 1 /\ \A i \in 1 .. n - 1 : t[i] = w[1 + i]
      BY <1>4
    <3> HIDE DEF n
    <3>3. n - 1 \in 1 .. 21 /\ n >= 2 /\ 1 \in 1 .. n - 1 /\ 1 + 1 = 2
      BY <3>1
    <3>4. t[1] = w[2]
      BY <3>2, <3>3
    <3> QED
      BY <3>1, <3>2, <3>3, <3>4
  <2>2. ReadVarint(t) = [ok |-> TRUE, value |-> 52, size |-> 1]
    BY <2>1 DEF ReadVarint
  <2>3. NextOf(w).ok /\ NextOf(w).value = 52 /\ NextOf(w).size = 1
    BY <1>5, <2>2
  <2>4. Len(RestOf(w)) = Len(w) - 1 - 1
    BY <1>3, <2>3, PartsOf
  <2>5. ~ Readable(w)
    <3> DEFINE n == Len(w)
               m == Len(RestOf(w))
    <3>1. n \in 1 .. 22 /\ m = n - 1 - 1
      BY <1>1, <2>4
    <3> HIDE DEF n, m
    <3>2. 52 > m
      BY <3>1
    <3>3. NextOf(w).value > Len(RestOf(w))
      BY <2>3, <3>2 DEF m
    <3> QED
      BY <1>3, <3>3 DEF Readable
  <2> QED
    BY <2>5, ReadFieldParts
<1> QED
  BY <1>6, <1>7

-----------------------------------------------------------------------------
(* The invariant of the reading.                                           *)
Well  == {"reading", "read"}
After == Well \union {"failed"}

UnknownKept ==
    /\ Kept(msg["a"].unknown)
    /\ phase \in Before => Kept(msg["b"].unknown)

(* All the pieces of a are among q.                                        *)
AllOf(a, q) == \A x \in Items(a) : \E i \in 1 .. Len(q) : q[i] = x

(* The pieces written so far: all of the fields before, and of this field  *)
(* those that are not left.                                                *)
DoneSoFar(a, q, f, T) ==
    \A x \in Items(a) : x[1] <= f => (\E i \in 1 .. Len(q) : q[i] = x) \/ (x[1] = f /\ x[2] \in T)

SoFar(a, w, f, T) ==
    \E q \in Seq(Items(a)) : Joined(w, q, PieceOf(a)) /\ DoneSoFar(a, q, f, T)

WholeOf(a, w, whole) ==
    \E q \in Seq(Items(a)), S \in Seq(Byte) :
        Joined(S, q, PieceOf(a)) /\ AllOf(a, q) /\ FrontOf(w, S \o a.unknown, whole)

Done == phase \notin {"building", "writing"}

WrittenSoFar == phase = "writing" => SoFar(msg["a"], wire, field, left)
AllWritten   == Done => field \in {0, 7}
FileWhole    == phase = "stored" /\ field = 7 => WholeOf(msg["a"], wire, ~ cut)
FileSimple   ==
    Done /\ field = 0 =>
        /\ msg["a"] = Empty
        /\ FrontOf(wire, test_data, ~ cut)
        /\ phase \in Well => msg["b"] = base
ReadSoFar    == phase \in Well /\ field = 7 => Midway(msg["b"], base, msg["a"], wire, ~ cut)
ReadSpoilt   ==
    phase = "failed" =>
        \E m :
            /\ field = 0 => m = base
            /\ field = 7 => Midway(m, base, msg["a"], wire, ~ cut)
            /\ \E n \in FailsIn(wire) : msg["b"] \in Spoilt(m, n)
ReadResult   ==
    /\ phase = "failed" /\ field = 7 => cut
    /\ phase = "read" => wire = <<>>

ReadingInv ==
    /\ UnknownKept /\ WrittenSoFar /\ AllWritten /\ FileWhole /\ FileSimple
    /\ ReadSoFar /\ ReadSpoilt /\ ReadResult

(* It holds at first.                                                      *)
LEMMA NewMessagesReading == NewMessages => ReadingInv
<1> SUFFICES ASSUME NewMessages
             PROVE  ReadingInv
  OBVIOUS
<1>1. phase = "building" /\ msg["a"] = Empty /\ msg["b"] = Empty
  BY DEF NewMessages
<1>2. UnknownKept
  BY <1>1, EmptyKept DEF UnknownKept
<1>3. WrittenSoFar /\ AllWritten /\ FileWhole /\ FileSimple /\ ReadSoFar /\ ReadSpoilt /\ ReadResult
  BY <1>1 DEF WrittenSoFar, AllWritten, FileWhole, FileSimple, ReadSoFar, ReadSpoilt, ReadResult, Done, Well
<1> QED
  BY <1>2, <1>3 DEF ReadingInv

(* While the messages are built, nothing else is claimed.                  *)
LEMMA BuildingReading ==
  ASSUME phase' = "building", UnknownKept'
  PROVE  ReadingInv'
<1>1. /\ WrittenSoFar' /\ AllWritten' /\ FileWhole' /\ FileSimple'
      /\ ReadSoFar' /\ ReadSpoilt' /\ ReadResult'
  BY DEF WrittenSoFar, AllWritten, FileWhole, FileSimple, ReadSoFar, ReadSpoilt, ReadResult, Done, Well
<1> QED
  BY <1>1 DEF ReadingInv

(* The operations of the class keep the unknown fields whole,              *)
LEMMA OperationReading ==
  ASSUME WritingInv, ReadingInv, NEW o \in {"a", "b"}, Operation(o)
  PROVE  ReadingInv'
<1>1. phase = "building"
  BY DEF Operation, SetRegion, PutNumber, PutTimer, ClearField, AddUnknown, Clear,
         MergeFrom, CopyFrom, Update
<1>2. msg["a"] \in Messages /\ msg["b"] \in Messages /\ msg = [p \in {"a", "b"} |-> msg[p]]
  BY <1>1 DEF WritingInv, WritingTypes, Before
<1>3. Kept(msg["a"].unknown) /\ Kept(msg["b"].unknown)
  BY <1>1 DEF ReadingInv, UnknownKept, Before
<1>4. PICK m : Update(o, m) /\ Kept(m.unknown)
  <2>1. Keeping(o)
    BY <1>2, <1>3, OperationKeeps
  <2> QED
    BY <2>1 DEF Keeping
<1>5. phase' = "building" /\ msg' = [msg EXCEPT ![o] = m]
  BY <1>1, <1>4 DEF Update, file
<1>6. Kept(msg'["a"].unknown) /\ Kept(msg'["b"].unknown)
  <2>1. \A p \in {"a", "b"} : msg'[p] = IF p = o THEN m ELSE msg[p]
    BY <1>2, <1>5
  <2> QED
    BY <1>3, <1>4, <2>1
<1>7. UnknownKept'
  BY <1>6 DEF UnknownKept
<1> QED
  BY <1>5, <1>7, BuildingReading

(* and so does Swap.                                                       *)
LEMMA SwapReading ==
  ASSUME ReadingInv, Swap
  PROVE  ReadingInv'
<1>1. phase = "building" /\ phase' = "building" /\ msg'["a"] = msg["b"] /\ msg'["b"] = msg["a"]
  BY DEF Swap, file
<1>2. Kept(msg["a"].unknown) /\ Kept(msg["b"].unknown)
  BY <1>1 DEF ReadingInv, UnknownKept, Before
<1>3. UnknownKept'
  BY <1>1, <1>2 DEF UnknownKept
<1> QED
  BY <1>1, <1>3, BuildingReading

(* While a file is written, the pieces in it are known.                    *)
LEMMA WritingReading ==
  ASSUME phase' = "writing", UnknownKept', WrittenSoFar'
  PROVE  ReadingInv'
<1>1. AllWritten' /\ FileWhole' /\ FileSimple' /\ ReadSoFar' /\ ReadSpoilt' /\ ReadResult'
  BY DEF AllWritten, FileWhole, FileSimple, ReadSoFar, ReadSpoilt, ReadResult, Done, Well
<1> QED
  BY <1>1 DEF ReadingInv

(* When it is stored, it is one of the two files there are.                *)
LEMMA StoredReading ==
  ASSUME phase' = "stored", UnknownKept', AllWritten', FileWhole', FileSimple'
  PROVE  ReadingInv'
<1>1. WrittenSoFar' /\ ReadSoFar' /\ ReadSpoilt' /\ ReadResult'
  BY DEF WrittenSoFar, ReadSoFar, ReadSpoilt, ReadResult, Well
<1> QED
  BY <1>1 DEF ReadingInv

(* When the first field is due, nothing has been written;                  *)
LEMMA SerializeReading ==
  ASSUME WritingInv, ReadingInv, Serialize
  PROVE  ReadingInv'
<1>1. phase = "building" /\ phase' = "writing" /\ UNCHANGED <<msg, field, left, wire>>
  BY DEF Serialize
<1>2. field = 0 /\ wire = <<>> /\ msg["a"] \in Messages
  BY <1>1 DEF WritingInv, NothingWritten, WritingTypes
<1>3. UnknownKept'
  BY <1>1 DEF ReadingInv, UnknownKept, Before
<1> DEFINE a == msg["a"]
           e == <<>>
<1>4. SoFar(a, wire, field, left)
  <2>1. e \in Seq(Items(a)) /\ Joined(e, e, PieceOf(a))
    BY JoinedNone
  <2> HIDE DEF e
  <2>2. DoneSoFar(a, e, field, left)
    <3> SUFFICES ASSUME NEW x \in Items(a), x[1] <= field
                 PROVE  FALSE
      BY DEF DoneSoFar
    <3>1. x[1] \in 1 .. 7
      BY <1>2, ItemParts
    <3> QED
      BY <1>2, <3>1
  <2>3. wire = e
    BY <1>2 DEF e
  <2> HIDE DEF a
  <2> QED
    BY <2>1, <2>2, <2>3 DEF SoFar
<1>5. WrittenSoFar'
  BY <1>1, <1>4 DEF WrittenSoFar
<1> QED
  BY <1>1, <1>3, <1>5, WritingReading

(* when a field has no piece left, all of it is in the file;               *)
LEMMA NextPiecesReading ==
  ASSUME WritingInv, ReadingInv, NextPieces
  PROVE  ReadingInv'
<1> DEFINE a == msg["a"]
<1>1. /\ phase = "writing" /\ phase' = "writing" /\ left = {} /\ field' = field + 1
      /\ left' = Pieces(a, field + 1) /\ UNCHANGED <<msg, wire>>
  BY DEF NextPieces
<1>2. field \in 0 .. 7 /\ a \in Messages
  BY DEF WritingInv, WritingTypes
<1>3. UnknownKept'
  BY <1>1 DEF ReadingInv, UnknownKept, Before
<1>4. PICK q \in Seq(Items(a)) : Joined(wire, q, PieceOf(a)) /\ DoneSoFar(a, q, field, left)
  BY <1>1 DEF ReadingInv, WrittenSoFar, SoFar
<1>5. DoneSoFar(a, q, field', left')
  <2> SUFFICES ASSUME NEW x \in Items(a), x[1] <= field'
               PROVE  (\E i \in 1 .. Len(q) : q[i] = x) \/ (x[1] = field' /\ x[2] \in left')
    BY DEF DoneSoFar
  <2>1. x[1] \in 1 .. 7 /\ x[2] \in Pieces(a, x[1])
    BY <1>2, ItemParts
  <2>2. CASE x[1] <= field
    BY <1>1, <1>4, <2>2 DEF DoneSoFar
  <2>3. CASE ~ (x[1] <= field)
    <3>1. x[1] = field + 1
      BY <1>1, <1>2, <2>1, <2>3
    <3> QED
      BY <1>1, <2>1, <3>1
  <2> QED
    BY <2>2, <2>3
<1>6. SoFar(a, wire, field', left')
  BY <1>4, <1>5 DEF SoFar
<1>7. WrittenSoFar'
  BY <1>1, <1>6 DEF WrittenSoFar
<1> QED
  BY <1>1, <1>3, <1>7, WritingReading

(* a piece that is written is one more of those in the file;               *)
LEMMA WritePieceReading ==
  ASSUME WritingInv, ReadingInv, WritePiece
  PROVE  ReadingInv'
<1> DEFINE a == msg["a"]
<1>1. /\ phase = "writing" /\ phase' = "writing" /\ UNCHANGED <<msg, field>>
  BY DEF WritePiece
<1>2. PICK k \in left : wire' = wire \o Piece(a, field, k) /\ left' = left \ {k}
  BY DEF WritePiece
<1>3. a \in Messages /\ field \in 1 .. 7 /\ k \in Pieces(a, field)
  <2>1. a \in Messages /\ field \in 0 .. 7
    BY DEF WritingInv, WritingTypes
  <2>2. field # 0
    BY <1>1, <1>2 DEF WritingInv, PiecesLeft
  <2>3. k \in Pieces(a, field)
    BY <1>1, <1>2, <2>2 DEF WritingInv, PiecesLeft
  <2> QED
    BY <2>1, <2>2, <2>3
<1>4. UnknownKept'
  BY <1>1 DEF ReadingInv, UnknownKept, Before
<1>5. PICK q \in Seq(Items(a)) : Joined(wire, q, PieceOf(a)) /\ DoneSoFar(a, q, field, left)
  BY <1>1 DEF ReadingInv, WrittenSoFar, SoFar
<1> HIDE DEF a
<1>6. PICK x \in Items(a) : x[1] = field /\ x[2] = k /\ PieceOf(a)[x] = Piece(a, field, k)
  BY <1>3, ItemWhole
<1> DEFINE last == <<x>>
           r == q \o last
<1>7. last \in Seq(Items(a)) /\ Len(last) = 1 /\ last[1] = x
  OBVIOUS
<1>8. Joined(PieceOf(a)[x], last, PieceOf(a))
  <2>1. PieceOf(a) \in [Items(a) -> Seq(Byte)]
    BY <1>3, PieceOfType
  <2> QED
    BY <2>1, JoinedOne
<1> HIDE DEF last
<1>9. Joined(wire \o PieceOf(a)[x], r, PieceOf(a))
  <2>1. PieceOf(a) \in [Items(a) -> Seq(Byte)]
    BY <1>3, PieceOfType
  <2>2. Joined(wire, q, PieceOf(a))
    BY <1>5
  <2> QED
    BY <1>7, <1>8, <2>1, <2>2, JoinedBoth
<1>10. /\ r \in Seq(Items(a)) /\ Len(r) = Len(q) + 1 /\ Len(q) \in Nat
       /\ \A i \in 1 .. Len(q) : r[i] = q[i]
       /\ r[Len(q) + 1] = x
  <2>1. /\ r \in Seq(Items(a)) /\ Len(r) = Len(q) + Len(last) /\ Len(q) \in Nat
        /\ \A i \in 1 .. Len(q) : r[i] = q[i]
        /\ \A i \in 1 .. Len(last) : r[Len(q) + i] = last[i]
    <3> DEFINE D == Items(a)
    <3>1. q \in Seq(D) /\ last \in Seq(D)
      BY <1>7
    <3> HIDE DEF D
    <3>2. /\ r \in Seq(D) /\ Len(r) = Len(q) + Len(last) /\ Len(q) \in Nat
          /\ \A i \in 1 .. Len(q) : r[i] = q[i]
          /\ \A i \in 1 .. Len(last) : r[Len(q) + i] = last[i]
      BY <3>1
    <3> QED
      BY <3>2 DEF D
  <2> HIDE DEF r
  <2>2. 1 \in 1 .. Len(last)
    BY <1>7
  <2> QED
    BY <1>7, <2>1, <2>2
<1> HIDE DEF r
<1>11. DoneSoFar(a, r, field, left \ {k})
  <2> SUFFICES ASSUME NEW y \in Items(a), y[1] <= field
               PROVE  (\E i \in 1 .. Len(r) : r[i] = y) \/ (y[1] = field /\ y[2] \in left \ {k})
    BY DEF DoneSoFar
  <2>1. (\E i \in 1 .. Len(q) : q[i] = y) \/ (y[1] = field /\ y[2] \in left)
    BY <1>5 DEF DoneSoFar
  <2>2. CASE \E i \in 1 .. Len(q) : q[i] = y
    <3>1. PICK i \in 1 .. Len(q) : q[i] = y
      BY <2>2
    <3>2. i \in 1 .. Len(r) /\ r[i] = y
      BY <1>10, <3>1
    <3> QED
      BY <3>2
  <2>3. CASE y[1] = field /\ y[2] = k
    <3>1. y = <<field, k>> /\ x = <<field, k>>
      BY <1>3, <1>6, <2>3, ItemParts
    <3>2. Len(q) + 1 \in 1 .. Len(r) /\ r[Len(q) + 1] = y
      BY <1>10, <3>1
    <3> QED
      BY <3>2
  <2>4. CASE y[1] = field /\ y[2] \in left /\ y[2] # k
    BY <2>4
  <2> QED
    BY <2>1, <2>2, <2>3, <2>4
<1>12. wire' = wire \o PieceOf(a)[x]
  BY <1>2, <1>6 DEF a
<1>13. SoFar(a, wire', field, left')
  BY <1>2, <1>9, <1>10, <1>11, <1>12 DEF SoFar
<1>14. WrittenSoFar'
  BY <1>1, <1>13 DEF WrittenSoFar, a
<1> QED
  BY <1>1, <1>4, <1>14, WritingReading

(* and in the end all the pieces are, and the unknown fields after them.   *)
LEMMA WrittenReading ==
  ASSUME WritingInv, ReadingInv, Written
  PROVE  ReadingInv'
<1> DEFINE a == msg["a"]
           F == wire \o a.unknown
<1>1. /\ phase = "writing" /\ phase' = "stored" /\ left = {} /\ field = 7
      /\ wire' = F /\ UNCHANGED <<msg, field, cut>>
  BY DEF Written
<1>2. a \in Messages /\ wire \in Seq(Byte) /\ a.unknown \in Seq(Byte)
  <2>1. a \in Messages /\ wire \in Seq(Byte)
    BY DEF WritingInv, WritingTypes
  <2> HIDE DEF a
  <2> QED
    BY <2>1, MessageFields
<1>3. UnknownKept'
  BY <1>1 DEF ReadingInv, UnknownKept, Before
<1>4. PICK q \in Seq(Items(a)) : Joined(wire, q, PieceOf(a)) /\ DoneSoFar(a, q, field, left)
  BY <1>1 DEF ReadingInv, WrittenSoFar, SoFar
<1> HIDE DEF a
<1>5. AllOf(a, q)
  <2> SUFFICES ASSUME NEW x \in Items(a)
               PROVE  \E i \in 1 .. Len(q) : q[i] = x
    BY DEF AllOf
  <2>1. x[1] \in 1 .. 7
    BY <1>2, ItemParts
  <2>2. x[1] <= field
    BY <1>1, <2>1
  <2> QED
    BY <1>1, <1>4, <2>2 DEF DoneSoFar
<1>6. FrontOf(F, F, ~ cut)
  <2> DEFINE G == wire \o a.unknown
             whole == ~ cut
  <2>1. G \in Seq(Byte)
    BY <1>2, JoinBytes
  <2> HIDE DEF G, whole
  <2>2. FrontOf(G, G, whole)
    BY <2>1, FrontSelf
  <2> QED
    BY <2>2 DEF G, whole
<1>7. WholeOf(a, F, ~ cut)
  BY <1>2, <1>4, <1>5, <1>6 DEF WholeOf
<1>8. FileWhole'
  BY <1>1, <1>7 DEF FileWhole, a
<1>9. AllWritten' /\ FileSimple'
  BY <1>1 DEF AllWritten, FileSimple
<1> QED
  BY <1>1, <1>3, <1>8, <1>9, StoredReading

(* generate_simple stores its table, which no field of a message begins,   *)
LEMMA SimpleReading ==
  ASSUME WritingInv, ReadingInv, generate_simple
  PROVE  ReadingInv'
<1>1. /\ phase = "building" /\ phase' = "stored" /\ msg["a"] = Empty /\ wire' = test_data
      /\ UNCHANGED <<msg, field, cut>>
  BY DEF generate_simple
<1>2. field = 0
  BY <1>1 DEF WritingInv, NothingWritten
<1>3. UnknownKept'
  BY <1>1 DEF ReadingInv, UnknownKept, Before
<1>4. FrontOf(test_data, test_data, ~ cut')
  <2> DEFINE whole == ~ cut'
             G == test_data
  <2>1. G \in Seq(Byte)
    BY TestDataType
  <2> HIDE DEF whole, G
  <2>2. FrontOf(G, G, whole)
    BY <2>1, FrontSelf
  <2> QED
    BY <2>2 DEF whole, G
<1>5. FileSimple'
  BY <1>1, <1>4 DEF FileSimple, Well
<1>6. AllWritten' /\ FileWhole'
  BY <1>1, <1>2 DEF AllWritten, FileWhole
<1> QED
  BY <1>1, <1>3, <1>5, <1>6, StoredReading

(* cutting a file leaves its front,                                        *)
LEMMA CutReading ==
  ASSUME WritingInv, ReadingInv, Cut
  PROVE  ReadingInv'
<1> DEFINE a == msg["a"]
<1>1. /\ phase = "stored" /\ phase' = "stored" /\ cut' = TRUE /\ UNCHANGED <<msg, field>>
      /\ wire \in Seq(Byte) /\ a \in Messages
  BY DEF Cut, WritingInv, WritingTypes
<1>2. PICK n \in 0 .. Len(wire) - 1 : wire' = SubSeq(wire, 1, n)
  BY DEF Cut
<1>3. n \in 0 .. Len(wire)
  BY <1>1, <1>2
<1>4. UnknownKept'
  BY <1>1 DEF ReadingInv, UnknownKept, Before
<1>5. AllWritten'
  BY <1>1 DEF ReadingInv, AllWritten, Done
<1>6. ASSUME NEW F \in Seq(Byte), FrontOf(wire, F, ~ cut)
      PROVE  FrontOf(wire', F, ~ cut')
  <2> DEFINE whole == ~ cut
             all == ~ cut'
             w == wire
  <2>1. w \in Seq(Byte) /\ n \in 0 .. Len(w) /\ ~ all /\ Len(F) \in Nat /\ FrontOf(w, F, whole)
    BY <1>1, <1>3, <1>6
  <2> HIDE DEF whole, all, w
  <2>2. FrontOf(SubSeq(w, 1, n), F, all)
    BY <2>1, FrontCut
  <2> QED
    BY <1>2, <2>2 DEF w, all
<1>7. FileSimple'
  <2>1. field = 0 => msg["a"] = Empty /\ FrontOf(wire, test_data, ~ cut)
    BY <1>1 DEF ReadingInv, FileSimple, Done
  <2>2. test_data \in Seq(Byte)
    BY TestDataType
  <2>3. field = 0 => FrontOf(wire', test_data, ~ cut')
    BY <1>6, <2>1, <2>2
  <2> QED
    BY <1>1, <2>1, <2>3 DEF FileSimple, Well
<1>8. FileWhole'
  <2> SUFFICES ASSUME field = 7
               PROVE  WholeOf(a, wire', ~ cut')
    BY <1>1 DEF FileWhole
  <2>1. PICK q \in Seq(Items(a)), S \in Seq(Byte) :
           Joined(S, q, PieceOf(a)) /\ AllOf(a, q) /\ FrontOf(wire, S \o a.unknown, ~ cut)
    BY <1>1 DEF ReadingInv, FileWhole, WholeOf
  <2> HIDE DEF a
  <2>2. S \o a.unknown \in Seq(Byte)
    <3>1. a.unknown \in Seq(Byte)
      BY <1>1, MessageFields
    <3> QED
      BY <3>1, JoinBytes
  <2>3. FrontOf(wire', S \o a.unknown, ~ cut')
    BY <1>6, <2>1, <2>2
  <2> QED
    BY <2>1, <2>3 DEF WholeOf
<1> QED
  BY <1>1, <1>4, <1>5, <1>7, <1>8, StoredReading

(* and reading starts midway, with nothing read.                           *)
LEMMA ReadReading ==
  ASSUME WritingInv, ReadingInv, Read
  PROVE  ReadingInv'
<1> DEFINE a == msg["a"]
           b == base'
<1>1. /\ phase = "stored" /\ phase' = "reading" /\ UNCHANGED <<field, wire, cut>>
      /\ msg = [o \in {"a", "b"} |-> msg[o]] /\ a \in Messages /\ msg["b"] \in Messages
  BY DEF Read, WritingInv, WritingTypes, Before
<1>2. base' \in Messages /\ msg'["b"] = base' /\ msg'["a"] = msg["a"]
  <2>1. base' \in {msg["b"], Empty} /\ msg' = [msg EXCEPT !["b"] = base']
    BY DEF Read
  <2> QED
    BY <1>1, <2>1, EmptyType
<1>3. Kept(a.unknown)
  BY DEF ReadingInv, UnknownKept
<1>4. UnknownKept'
  BY <1>1, <1>2, <1>3 DEF UnknownKept, Before
<1>5. AllWritten'
  BY <1>1 DEF ReadingInv, AllWritten, Done
<1>6. FileSimple'
  BY <1>1, <1>2 DEF ReadingInv, FileSimple, Done
<1>7. ReadSoFar'
  <2> SUFFICES ASSUME field = 7
               PROVE  Midway(base', base', a, wire, ~ cut)
    BY <1>1, <1>2 DEF ReadSoFar
  <2>1. PICK q \in Seq(Items(a)), S \in Seq(Byte) :
           Joined(S, q, PieceOf(a)) /\ AllOf(a, q) /\ FrontOf(wire, S \o a.unknown, ~ cut)
    BY <1>1 DEF ReadingInv, FileWhole, WholeOf
  <2>2. \A x \in Items(a) : \E i \in 1 .. Len(q) : q[i] = x
    BY <2>1 DEF AllOf
  <2> DEFINE whole == ~ cut
             w == wire
  <2>3. a \in Messages /\ b \in Messages /\ Joined(S, q, PieceOf(a)) /\ FrontOf(w, S \o a.unknown, whole)
    BY <1>1, <1>2, <2>1
  <2> HIDE DEF a, b, whole, w
  <2>4. Midway(b, b, a, w, whole)
    BY <1>3, <2>2, <2>3, MidwayStart
  <2> QED
    BY <2>4 DEF b, w, whole
<1>8. WrittenSoFar' /\ FileWhole' /\ ReadSpoilt' /\ ReadResult'
  BY <1>1 DEF WrittenSoFar, FileWhole, ReadSpoilt, ReadResult
<1> QED
  BY <1>4, <1>5, <1>6, <1>7, <1>8 DEF ReadingInv

(* While a file is read.                                                   *)
LEMMA SimpleNotRead ==
  ASSUME WritingInv, ReadingInv, phase = "reading", wire # <<>>, ReadField(wire).ok
  PROVE  field = 7
<1>1. field \in {0, 7} /\ wire \in Seq(Byte)
  BY DEF ReadingInv, AllWritten, Done, WritingInv, WritingTypes
<1>2. field = 0 => FrontOf(wire, test_data, ~ cut)
  BY DEF ReadingInv, FileSimple, Done
<1>3. ASSUME field = 0
      PROVE  FALSE
  <2> DEFINE w == wire
             whole == ~ cut
  <2>1. w \in Seq(Byte) /\ w # <<>> /\ FrontOf(w, test_data, whole)
    BY <1>1, <1>2, <1>3
  <2> HIDE DEF w, whole
  <2>2. ~ ReadField(w).ok
    BY <2>1, SimpleUnreadable
  <2> QED
    BY <2>2 DEF w
<1> QED
  BY <1>1, <1>3

(* A turn of the loop of _InternalParse on the file there is.              *)
LEMMA WireTurn ==
  ASSUME WritingInv, ReadingInv, phase = "reading", wire # <<>>, field = 7
  PROVE  /\ ReadField(wire).ok => Turn(msg["b"], base, msg["a"], wire, ~ cut, ReadField(wire))
         /\ ~ ReadField(wire).ok => cut
<1> DEFINE to == base
           a == msg["a"]
           b == msg["b"]
           w == wire
           whole == ~ cut
<1>1. to \in Messages /\ a \in Messages /\ w \in Seq(Byte) /\ w # <<>>
  BY DEF WritingInv, WritingTypes
<1>2. Midway(b, to, a, w, whole)
  BY DEF ReadingInv, ReadSoFar, Well
<1> HIDE DEF to, a, b, w, whole
<1>3. /\ ReadField(w).ok => Turn(b, to, a, w, whole, ReadField(w))
      /\ ~ ReadField(w).ok => ~ whole
  BY <1>1, <1>2, AnyTurn
<1>4. ~ whole => cut
  BY DEF whole
<1> QED
  BY <1>3, <1>4 DEF to, a, b, w, whole

(* A field that is read leaves the rest of the file midway;                *)
LEMMA ParseFieldReading ==
  ASSUME WritingInv, ReadingInv, ParseField
  PROVE  ReadingInv'
<1> DEFINE f == ReadField(wire)
           a == msg["a"]
           s == Store(msg["b"], f, SubSeq(wire, 1, f.size))
           t == From(wire, f.size + 1)
<1>1. /\ phase = "reading" /\ phase' = "reading" /\ wire # <<>> /\ f.ok
      /\ msg' = [msg EXCEPT !["b"] = s] /\ wire' = t /\ UNCHANGED <<field, cut, base>>
      /\ msg = [o \in {"a", "b"} |-> msg[o]]
  BY DEF ParseField, WritingInv, WritingTypes
<1>2. field = 7
  BY <1>1, SimpleNotRead
<1>3. Turn(msg["b"], base, a, wire, ~ cut, f)
  BY <1>1, <1>2, WireTurn
<1>4. Midway(s, base, a, t, ~ cut)
  BY <1>3 DEF Turn
<1> HIDE DEF f, s, t
<1>5. msg'["b"] = s /\ msg'["a"] = msg["a"]
  BY <1>1
<1>6. ReadSoFar'
  BY <1>1, <1>4, <1>5 DEF ReadSoFar
<1>7. UnknownKept'
  BY <1>1, <1>5 DEF ReadingInv, UnknownKept, Before
<1>8. WrittenSoFar' /\ AllWritten' /\ FileWhole' /\ FileSimple' /\ ReadSpoilt' /\ ReadResult'
  BY <1>1, <1>2 DEF WrittenSoFar, AllWritten, FileWhole, FileSimple, ReadSpoilt, ReadResult
<1> QED
  BY <1>6, <1>7, <1>8 DEF ReadingInv

(* reading fails only when the file is cut, or is the table;               *)
LEMMA ParseFailsReading ==
  ASSUME WritingInv, ReadingInv, ParseFails
  PROVE  ReadingInv'
<1> DEFINE f == ReadField(wire)
           bad == f.type = 2 /\ f.field \in NumberFields \union TimerFields /\ ~ ParseEntry(f).ok
<1>1. /\ phase = "reading" /\ phase' = "failed" /\ wire # <<>> /\ (~ f.ok \/ bad)
      /\ UNCHANGED <<wire, field, cut, base>>
      /\ \E n \in FailsIn(wire) : \E m \in Spoilt(msg["b"], n) : msg' = [msg EXCEPT !["b"] = m]
      /\ msg = [o \in {"a", "b"} |-> msg[o]]
  BY DEF ParseFails, WritingInv, WritingTypes
<1>2. ASSUME field = 7
      PROVE  cut
  <2>1. f.ok => ~ bad
    <3>1. f.ok => Turn(msg["b"], base, msg["a"], wire, ~ cut, f)
      BY <1>1, <1>2, WireTurn
    <3> QED
      BY <3>1 DEF Turn
  <2>2. ~ f.ok => cut
    BY <1>1, <1>2, WireTurn
  <2> QED
    BY <1>1, <2>1, <2>2
<1>3. ReadResult'
  BY <1>1, <1>2 DEF ReadResult
<1>4. msg'["a"] = msg["a"] /\ \E n \in FailsIn(wire) : msg'["b"] \in Spoilt(msg["b"], n)
  <2>0. PICK n \in FailsIn(wire) : \E m \in Spoilt(msg["b"], n) : msg' = [msg EXCEPT !["b"] = m]
    BY <1>1
  <2>1. PICK m \in Spoilt(msg["b"], n) : msg' = [msg EXCEPT !["b"] = m]
    BY <2>0
  <2>2. msg'["a"] = msg["a"] /\ msg'["b"] = m
    BY <1>1, <2>1
  <2> QED
    BY <2>1, <2>2
<1> HIDE DEF f, bad
<1>5. ReadSpoilt'
  <2>1. /\ field = 0 => msg["b"] = base
        /\ field = 7 => Midway(msg["b"], base, msg["a"], wire, ~ cut)
    BY <1>1 DEF ReadingInv, ReadSoFar, FileSimple, Done, Well
  <2> QED
    BY <1>1, <1>4, <2>1 DEF ReadSpoilt
<1>6. ReadSoFar' /\ FileSimple' /\ AllWritten'
  BY <1>1, <1>4 DEF ReadingInv, ReadSoFar, FileSimple, AllWritten, Done, Well
<1>7. UnknownKept' /\ WrittenSoFar' /\ FileWhole'
  BY <1>1, <1>4 DEF ReadingInv, UnknownKept, WrittenSoFar, FileWhole, Before
<1> QED
  BY <1>3, <1>5, <1>6, <1>7 DEF ReadingInv

(* and it ends where nothing of the file remains.                          *)
LEMMA ParseEndsReading ==
  ASSUME WritingInv, ReadingInv, ParseEnds
  PROVE  ReadingInv'
<1>1. /\ phase = "reading" /\ phase' = "read" /\ wire = <<>>
      /\ UNCHANGED <<msg, wire, field, cut, base>>
  BY DEF ParseEnds
<1>2. ReadResult'
  BY <1>1 DEF ReadResult
<1>3. ReadSoFar' /\ ReadSpoilt' /\ FileSimple' /\ AllWritten'
  BY <1>1 DEF ReadingInv, ReadSoFar, ReadSpoilt, FileSimple, AllWritten, Done, Well
<1>4. UnknownKept' /\ WrittenSoFar' /\ FileWhole'
  BY <1>1 DEF ReadingInv, UnknownKept, WrittenSoFar, FileWhole, Before
<1> QED
  BY <1>2, <1>3, <1>4 DEF ReadingInv

(* So every step keeps the invariant of the reading.                       *)
LEMMA StepReading == WritingInv /\ ReadingInv /\ [MessageStep]_messages => ReadingInv'
<1> SUFFICES ASSUME WritingInv, ReadingInv, [MessageStep]_messages
             PROVE  ReadingInv'
  OBVIOUS
<1>1. CASE \E o \in {"a", "b"} : Operation(o)
  BY <1>1, OperationReading
<1>2. CASE Swap
  BY <1>2, SwapReading
<1>3. CASE Serialize
  BY <1>3, SerializeReading
<1>4. CASE NextPieces
  BY <1>4, NextPiecesReading
<1>5. CASE WritePiece
  BY <1>5, WritePieceReading
<1>6. CASE Written
  BY <1>6, WrittenReading
<1>7. CASE generate_simple
  BY <1>7, SimpleReading
<1>8. CASE Cut
  BY <1>8, CutReading
<1>9. CASE Read
  BY <1>9, ReadReading
<1>10. CASE ParseField
  BY <1>10, ParseFieldReading
<1>11. CASE ParseFails
  BY <1>11, ParseFailsReading
<1>12. CASE ParseEnds
  BY <1>12, ParseEndsReading
<1>13. CASE UNCHANGED messages
  BY <1>13 DEF messages, ReadingInv, UnknownKept, WrittenSoFar, AllWritten, FileWhole, FileSimple,
               ReadSoFar, ReadSpoilt, ReadResult, Done
<1> QED
  BY <1>1, <1>2, <1>3, <1>4, <1>5, <1>6, <1>7, <1>8, <1>9, <1>10, <1>11, <1>12, <1>13 DEF MessageStep

(* What follows of the two invariants.                                     *)
LEMMA MessagesTyped ==
  ASSUME WritingInv, ReadingInv
  PROVE  MessageTypes
<1>1. msg["b"] \in Messages
  <2>1. CASE phase \in Before
    BY <2>1 DEF WritingInv, WritingTypes
  <2>2. ASSUME NEW m, field \in {0, 7}, field = 0 => m = base,
               field = 7 => Midway(m, base, msg["a"], wire, ~ cut)
        PROVE  m \in Messages
    <3> DEFINE a == msg["a"]
               w == wire
               whole == ~ cut
               to == base
    <3>1. to \in Messages /\ a \in Messages
      BY DEF WritingInv, WritingTypes
    <3>2. m = to \/ Midway(m, to, a, w, whole)
      BY <2>2
    <3> HIDE DEF a, w, whole, to
    <3> QED
      BY <3>1, <3>2, MidwayType
  <2>3. phase \in Before \/ (phase \in After /\ field \in {0, 7})
    BY DEF ReadingInv, AllWritten, Done, WritingInv, WritingTypes, Phases, Before, After, Well
  <2>4. CASE phase \in Well
    <3>1. /\ field = 0 => msg["b"] = base
          /\ field = 7 => Midway(msg["b"], base, msg["a"], wire, ~ cut)
      BY <2>4 DEF ReadingInv, ReadSoFar, FileSimple, Done, Well
    <3>2. field \in {0, 7}
      BY <2>3, <2>4 DEF Before, Well
    <3> QED
      BY <2>2, <3>1, <3>2
  <2>5. CASE phase = "failed"
    <3>1. PICK m : /\ field = 0 => m = base
                   /\ field = 7 => Midway(m, base, msg["a"], wire, ~ cut)
                   /\ \E n \in FailsIn(wire) : msg["b"] \in Spoilt(m, n)
      BY <2>5 DEF ReadingInv, ReadSpoilt
    <3>2. field \in {0, 7}
      BY <2>3, <2>5 DEF Before
    <3>3. m \in Messages
      BY <2>2, <3>1, <3>2
    <3>4. \E n \in 1 .. 8 : msg["b"] \in Spoilt(m, n)
      BY <3>1, FailsInType
    <3> QED
      BY <3>3, <3>4, SpoiltType
  <2> QED
    BY <2>1, <2>3, <2>4, <2>5 DEF After
<1>2. msg \in [{"a", "b"} -> Messages]
  BY <1>1 DEF WritingInv, WritingTypes
<1> QED
  BY <1>2 DEF MessageTypes, WritingInv, WritingTypes, Phases, Before

(* A file that is whole cannot fail, and when it has been read nothing of  *)
(* the message is missing.                                                 *)
LEMMA RoundTripHolds ==
  ASSUME WritingInv, ReadingInv
  PROVE  RoundTrip
<1>1. MessageTypes
  BY MessagesTyped
<1>2. phase \in After => field \in {0, 7}
  BY DEF ReadingInv, AllWritten, Done, After, Well
<1>3. ~ cut /\ ~ Simple => phase # "failed"
  BY <1>2 DEF ReadingInv, ReadResult, Simple, After, Well
<1>4. ASSUME phase = "read", ~ cut
      PROVE  msg["b"] = Merge(base, msg["a"])
  <2>1. wire = <<>>
    BY <1>4 DEF ReadingInv, ReadResult
  <2>2. field = 7
    <3> SUFFICES ASSUME field = 0
                 PROVE  FALSE
      BY <1>2, <1>4 DEF After, Well
    <3>1. FrontOf(wire, test_data, ~ cut)
      BY <1>4 DEF ReadingInv, FileSimple, Done
    <3>2. Len(wire) = Len(test_data)
      BY <1>4, <3>1 DEF FrontOf
    <3>3. Len(wire) = 0
      BY <2>1
    <3>4. Len(test_data) = 22
      BY TestDataType
    <3> DEFINE n == Len(wire)
    <3>5. n = 22 /\ n = 0
      BY <3>2, <3>3, <3>4
    <3> HIDE DEF n
    <3> QED
      BY <3>5
  <2> DEFINE a == msg["a"]
             b == msg["b"]
             w == wire
             whole == ~ cut
             to == base
  <2>3. Midway(b, to, a, w, whole) /\ to \in Messages /\ a \in Messages /\ w = <<>> /\ whole
    BY <1>4, <2>1, <2>2 DEF ReadingInv, ReadSoFar, Well, WritingInv, WritingTypes
  <2> HIDE DEF a, b, w, whole, to
  <2>4. b = Merge(to, a)
    BY <2>3, MidwayEnd
  <2> QED
    BY <2>4 DEF a, b, to
<1> QED
  BY <1>1, <1>3, <1>4 DEF RoundTrip

(* A file that is cut, or the table, adds nothing that was not written,    *)
(* but in a field that reading fails in.                                   *)
LEMMA MidwayFrom ==
  ASSUME WritingInv, ReadingInv, base = Empty, phase \in After, NEW m,
         field = 0 => m = base, field = 7 => Midway(m, base, msg["a"], wire, ~ cut)
  PROVE  m \in Messages /\ \A n \in 1 .. 8 : FieldFrom(m, msg["a"], n)
<1>1. field \in {0, 7}
  BY DEF ReadingInv, AllWritten, Done, After, Well
<1>2. CASE field = 0
  <2>1. msg["a"] = Empty /\ m = Empty
    BY <1>2 DEF ReadingInv, FileSimple, Done, After, Well
  <2>2. \A n \in 1 .. 8 : FieldFrom(Empty, Empty, n)
    <3>1. IsPrefix(Empty.unknown, Empty.unknown)
      BY DEF Empty, IsPrefix
    <3>2. \A n \in RegionFields : Empty.region[n] = <<>>
      BY DEF Empty
    <3> QED
      BY <3>1, <3>2 DEF FieldFrom
  <2> QED
    BY <2>1, <2>2, EmptyType
<1>3. CASE field = 7
  <2> DEFINE a == msg["a"]
             w == wire
             whole == ~ cut
  <2>1. Midway(m, Empty, a, w, whole) /\ a \in Messages
    BY <1>3 DEF WritingInv, WritingTypes
  <2> HIDE DEF a, w, whole
  <2>2. (\A n \in 1 .. 8 : FieldFrom(m, a, n)) /\ m \in Messages
    BY <2>1, MidwayPart, MidwayType, EmptyType
  <2> QED
    BY <2>2 DEF a
<1> QED
  BY <1>1, <1>2, <1>3

(* The two invariants together say that no field is misread. *)
LEMMA NeverMisreadHolds ==
  ASSUME WritingInv, ReadingInv
  PROVE  NeverMisread
<1> SUFFICES ASSUME base = Empty
             PROVE  /\ phase \in Well => \A n \in 1 .. 8 : FieldFrom(msg["b"], msg["a"], n)
                    /\ phase = "failed" =>
                          \E bad \in FailsIn(wire) :
                              \A n \in 1 .. 8 \ {bad} : FieldFrom(msg["b"], msg["a"], n)
  BY DEF NeverMisread, Well
<1>1. ASSUME phase \in Well
      PROVE  \A n \in 1 .. 8 : FieldFrom(msg["b"], msg["a"], n)
  <2>1. /\ field = 0 => msg["b"] = base
        /\ field = 7 => Midway(msg["b"], base, msg["a"], wire, ~ cut)
    BY <1>1 DEF ReadingInv, ReadSoFar, FileSimple, Done, Well
  <2>2. phase \in After
    BY <1>1 DEF After
  <2> QED
    BY <2>1, <2>2, MidwayFrom
<1>2. ASSUME phase = "failed"
      PROVE  \E bad \in FailsIn(wire) :
                 \A n \in 1 .. 8 \ {bad} : FieldFrom(msg["b"], msg["a"], n)
  <2>1. PICK m : /\ field = 0 => m = base
                 /\ field = 7 => Midway(m, base, msg["a"], wire, ~ cut)
                 /\ \E n \in FailsIn(wire) : msg["b"] \in Spoilt(m, n)
    BY <1>2 DEF ReadingInv, ReadSpoilt
  <2>2. phase \in After
    BY <1>2 DEF After
  <2>3. m \in Messages /\ \A n \in 1 .. 8 : FieldFrom(m, msg["a"], n)
    BY <2>1, <2>2, MidwayFrom
  <2>4. PICK bad \in FailsIn(wire) : msg["b"] \in Spoilt(m, bad)
    BY <2>1
  <2>5. bad \in 1 .. 8
    BY <2>4, FailsInType
  <2>6. \A n \in 1 .. 8 \ {bad} : FieldFrom(msg["b"], msg["a"], n)
    BY <2>3, <2>4, <2>5, SpoiltFrom
  <2> QED
    BY <2>4, <2>6
<1> QED
  BY <1>1, <1>2

(* RoundTrip: _InternalParse of a whole file that _InternalSerialize wrote *)
(* succeeds, and makes of the message it reads into what MergeImpl makes   *)
(* of it and the message written, in whatever order the entries of the     *)
(* maps were written, for any keys, numbers, contents and unknown fields.  *)
THEOREM RoundTripCorrect == MessageSpec => []RoundTrip
<1>1. NewMessages => WritingInv /\ ReadingInv
  BY NewMessagesWriting, NewMessagesReading
<1>2. WritingInv /\ ReadingInv /\ [MessageStep]_messages => WritingInv' /\ ReadingInv'
  BY StepWriting, StepReading
<1>3. WritingInv /\ ReadingInv => RoundTrip
  BY RoundTripHolds
<1> QED
  BY <1>1, <1>2, <1>3, PTL DEF MessageSpec

(* NeverMisread: whatever _InternalParse has read into an empty message    *)
(* was in the message written, wherever the file is cut; where it fails,   *)
(* that is so of all fields but the one it failed in, which it parses in   *)
(* place; and of the table of generate_simple it reads no other field.     *)
THEOREM NeverMisreadCorrect == MessageSpec => []NeverMisread
<1>1. NewMessages => WritingInv /\ ReadingInv
  BY NewMessagesWriting, NewMessagesReading
<1>2. WritingInv /\ ReadingInv /\ [MessageStep]_messages => WritingInv' /\ ReadingInv'
  BY StepWriting, StepReading
<1>3. WritingInv /\ ReadingInv => NeverMisread
  BY NeverMisreadHolds
<1> QED
  BY <1>1, <1>2, <1>3, PTL DEF MessageSpec
=============================================================================
