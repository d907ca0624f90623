------------------------- MODULE MQTTServer_proofs --------------------------
(***************************************************************************)
(* Proofs about MQTTServer for any connections, packets, window and bound: *)
(* type correctness, the counters (CountersMatchLog), the order of the     *)
(* handlers (OneOperation), the answers (AnswersMatchLog) and the          *)
(* accusations (AccusationsBacked).  Each has an inductive invariant of    *)
(* its own, the later ones relative to those before; the accusations need  *)
(* them all, for a read is judged by bytes that must not have changed      *)
(* between its completion and its handler.                                 *)
(***************************************************************************)
EXTENDS MQTTServer, SequenceLemmas

USE ConnsAssumption, BoundsAssumption, PacketsAssumption

(* What stands for no write is well formed. *)
LEMMA NoWriteKind == NoWrite.kind \in Kinds
BY DEF NoWrite, Kinds, Types, Topics

(* Whatever the bytes are, they are taken for a kind of packet, *)
LEMMA KindType ==
  ASSUME NEW data
  PROVE  KindOf(data) \in Kinds
<1>1. TypeOf(data) \in Types
  BY DEF TypeOf, Types
<1>2. PublishTopic(data) \in Topics /\ SubscribeTopic(data) \in Topics
  BY DEF PublishTopic, SubscribeTopic, Topics
<1>3. KindOf(data).type = TypeOf(data)
  BY DEF KindOf
<1>4. KindOf(data) \in [type : Types, topic : Topics]
  BY <1>1, <1>2 DEF KindOf, Topics
<1>5. TypeOf(data) \notin {"PUBLISH", "SUBSCRIBE"} => KindOf(data).topic = "unknown"
  BY DEF KindOf
<1> QED
  BY <1>3, <1>4, <1>5 DEF Kinds

(* and a part of bytes is bytes, *)
LEMMA PartType ==
  ASSUME NEW s \in Seq(Byte), NEW m \in Nat \ {0}, NEW n \in Nat, n <= Len(s)
  PROVE  SubSeq(s, m, n) \in Seq(Byte)
<1>1. \A i \in m .. n : s[i] \in Byte
  <2>1. Len(s) \in Nat
    BY LenProperties
  <2> QED
    BY <2>1, ElementOfSeq
<1> QED
  BY <1>1, SubSeqProperties

(* such as what a read takes, and what it leaves. *)
LEMMA TakenType ==
  ASSUME NEW c \in Conns, rx[c] \in Seq(Byte)
  PROVE  /\ Taken(c) \in Seq(Byte)
         /\ SubSeq(rx[c], Len(Taken(c)) + 1, Len(rx[c])) \in Seq(Byte)
<1> DEFINE n == IF Len(rx[c]) < BUFFER_SIZE THEN Len(rx[c]) ELSE BUFFER_SIZE
<1>1. Len(rx[c]) \in Nat
  BY LenProperties
<1>2. n \in Nat /\ n <= Len(rx[c]) /\ Taken(c) = SubSeq(rx[c], 1, n)
  BY <1>1, BoundsAssumption DEF Taken
<1> HIDE DEF n
<1>3. Taken(c) \in Seq(Byte)
  BY <1>2, PartType
<1>4. Len(Taken(c)) + 1 \in Nat \ {0}
  BY <1>3, LenProperties
<1> QED
  BY <1>1, <1>3, <1>4, PartType

(* The type invariant in four parts, each of which an action disturbs or   *)
(* leaves alone.                                                           *)
TypeClient ==
    /\ peer \in [Conns -> {"absent", "open", "gone", "reset"}]
    /\ net \in [Conns -> Seq(Byte)]
    /\ rx \in [Conns -> Seq(Byte)]
    /\ sent \in [Conns -> Seq(Packets)]
    /\ received \in [Conns -> Seq(Seq(Byte))]

Completions == [op : {"accept", "no_accept", "read", "no_read"}, conn : Conns, data : Seq(Byte)]

TypeServer ==
    /\ backlog \in Seq(Conns)
    /\ acceptor_ \in {"armed", "queued"}
    /\ conn \in [Conns -> {"none", "backlog", "queued", "reading", "writing", "closed"}]
    /\ queue \in Seq(Completions)

TypeWrite ==
    /\ writing.conn \in Conns \union {NoConn}
    /\ writing.kind \in Kinds
    /\ unread \in [Conns -> 0 .. WINDOW]
    /\ alive \in BOOLEAN

TypeReport ==
    /\ reads \in [Conns -> Nat]
    /\ log \subseteq [conn : Conns, at : Nat, event : Attacks \union Types]
    /\ mqtt_activities_ \in Nat
    /\ attacks_detected_ \in Nat

(* The parts together are the type invariant. *)
LEMMA TypeParts == TypeOK <=> TypeClient /\ TypeServer /\ TypeWrite /\ TypeReport
BY DEF TypeOK, TypeClient, TypeServer, TypeWrite, TypeReport, Completions

(* Initially every variable has its type. *)
LEMMA TypeInit == Init => TypeOK
<1> SUFFICES ASSUME Init PROVE TypeClient /\ TypeServer /\ TypeWrite /\ TypeReport
  BY TypeParts
<1>1. TypeClient
  BY DEF Init, TypeClient
<1>2. TypeServer
  BY DEF Init, TypeServer
<1>3. TypeWrite
  BY NoWriteKind DEF Init, TypeWrite, NoWrite
<1>4. TypeReport
  BY DEF Init, TypeReport
<1> QED
  BY <1>1, <1>2, <1>3, <1>4

(* A packet is reported at most once in each way. *)
LEMMA EventsOfKind ==
  ASSUME NEW k \in Kinds
  PROVE  /\ Activity(k) \subseteq Types
         /\ Attack(k) \subseteq Attacks
         /\ LateAttack(k) \subseteq Attacks
         /\ \A S \in {Activity(k), Attack(k), LateAttack(k)} :
               /\ S = {} \/ \E x : S = {x}
               /\ IsFiniteSet(S) /\ Cardinality(S) \in Nat
<1>1. /\ Activity(k) = {} \/ Activity(k) = {k.type}
      /\ k.type \in Types
  BY DEF Activity, Kinds
<1>2. Attack(k) \in {{}, {"MQTT_MALFORMED_PACKET"}, {"MQTT_ADMIN_TOPIC_ACCESS"}}
  BY DEF Attack
<1>3. LateAttack(k) \in {{}, {"MQTT_WILDCARD_SUBSCRIPTION"}}
  BY DEF LateAttack
<1>4. Activity(k) \subseteq Types /\ Attack(k) \subseteq Attacks /\ LateAttack(k) \subseteq Attacks
  BY <1>1, <1>2, <1>3 DEF Attacks
<1>5. \A S \in {Activity(k), Attack(k), LateAttack(k)} : S = {} \/ \E x : S = {x}
  BY <1>1, <1>2, <1>3
<1>6. ASSUME NEW S, S = {} \/ \E x : S = {x}
      PROVE  IsFiniteSet(S) /\ Cardinality(S) \in Nat
  <2>1. CASE S = {}
    BY <2>1, FS_EmptySet
  <2>2. CASE \E x : S = {x}
    <3>1. PICK x : S = {x}
      BY <2>2
    <3>2. IsFiniteSet({x}) /\ Cardinality({x}) = 1
      BY FS_Singleton, Zenon
    <3> QED
      BY <3>1, <3>2
  <2> QED
    BY <1>6, <2>1, <2>2
<1> QED
  BY <1>4, <1>5, <1>6

(* Every step keeps the types. *)
LEMMA TypeStep ==
  ASSUME TypeOK, [Next]_vars
  PROVE  TypeOK'
<1> USE TypeParts
<1> SUFFICES TypeClient' /\ TypeServer' /\ TypeWrite' /\ TypeReport'
  BY DEF TypeOK, TypeClient, TypeServer, TypeWrite, TypeReport, Completions
<1>1. ASSUME NEW c \in Conns, Connect(c)
      PROVE  TypeClient' /\ TypeServer' /\ TypeWrite' /\ TypeReport'
  <2>1. TypeClient'
    BY <1>1 DEF Connect, TypeClient
  <2>2. TypeServer'
    <3>1. backlog' = Append(backlog, c) /\ backlog \in Seq(Conns)
      BY <1>1 DEF Connect, TypeServer
    <3>1a. backlog' \in Seq(Conns)
      BY <3>1, AppendProperties
    <3>2. conn' \in [Conns -> {"none", "backlog", "queued", "reading", "writing", "closed"}]
      BY <1>1 DEF Connect, TypeServer
    <3> QED
      BY <1>1, <3>1a, <3>2 DEF Connect, TypeServer
  <2>3. TypeWrite'
    BY <1>1 DEF Connect, TypeWrite
  <2>4. TypeReport'
    BY <1>1 DEF Connect, TypeReport, report
  <2> QED
    BY <2>1, <2>2, <2>3, <2>4
<1>2. ASSUME NEW c \in Conns, NEW p \in Packets, Send(c, p)
      PROVE  TypeClient' /\ TypeServer' /\ TypeWrite' /\ TypeReport'
  <2>1. TypeClient'
    <3>1. p \in Seq(Byte) /\ Len(p) \in Nat \ {0}
      BY PacketsAssumption, LenProperties, EmptySeq
    <3>2. PICK n \in (Cuts \intersect 1 .. Len(p)) \union {Len(p)} :
             /\ rx' = [rx EXCEPT ![c] = @ \o SubSeq(p, 1, n)]
             /\ net' = [net EXCEPT ![c] = SubSeq(p, n + 1, Len(p))]
      BY <1>2 DEF Send
    <3>3. n \in Nat /\ n + 1 \in Nat \ {0} /\ n <= Len(p)
      BY <3>1, <3>2
    <3>4. SubSeq(p, 1, n) \in Seq(Byte) /\ SubSeq(p, n + 1, Len(p)) \in Seq(Byte)
      BY <3>1, <3>3, PartType
    <3>5. rx[c] \o SubSeq(p, 1, n) \in Seq(Byte)
      BY <3>4, ConcatProperties DEF TypeClient
    <3>6. rx' \in [Conns -> Seq(Byte)] /\ net' \in [Conns -> Seq(Byte)]
      BY <3>2, <3>4, <3>5 DEF TypeClient
    <3>7. Append(sent[c], p) \in Seq(Packets)
      BY AppendProperties DEF TypeClient
    <3>8. sent' \in [Conns -> Seq(Packets)] /\ peer' = peer /\ received' = received
      BY <1>2, <3>7 DEF Send, TypeClient
    <3> QED
      BY <3>6, <3>8 DEF TypeClient
  <2>2. TypeServer'
    BY <1>2 DEF Send, TypeServer, server
  <2>3. TypeWrite'
    BY <1>2 DEF Send, TypeWrite
  <2>4. TypeReport'
    BY <1>2 DEF Send, TypeReport, report
  <2> QED
    BY <2>1, <2>2, <2>3, <2>4
<1>3. ASSUME NEW c \in Conns, Deliver(c)
      PROVE  TypeClient' /\ TypeServer' /\ TypeWrite' /\ TypeReport'
  <2>1. TypeClient'
    <3>1. rx[c] \o net[c] \in Seq(Byte)
      BY ConcatProperties DEF TypeClient
    <3> QED
      BY <1>3, <3>1 DEF Deliver, TypeClient
  <2>2. TypeServer'
    BY <1>3 DEF Deliver, TypeServer, server
  <2>3. TypeWrite'
    BY <1>3 DEF Deliver, TypeWrite
  <2>4. TypeReport'
    BY <1>3 DEF Deliver, TypeReport, report
  <2> QED
    BY <2>1, <2>2, <2>3, <2>4
<1>4. ASSUME NEW c \in Conns, ClientReads(c)
      PROVE  TypeClient' /\ TypeServer' /\ TypeWrite' /\ TypeReport'
  <2>1. TypeClient'
    BY <1>4 DEF ClientReads, TypeClient, client
  <2>2. TypeServer'
    BY <1>4 DEF ClientReads, TypeServer, server
  <2>3. TypeWrite'
    BY <1>4 DEF ClientReads, TypeWrite
  <2>4. TypeReport'
    BY <1>4 DEF ClientReads, TypeReport, report
  <2> QED
    BY <2>1, <2>2, <2>3, <2>4
<1>5. ASSUME NEW c \in Conns, Leave(c)
      PROVE  TypeClient' /\ TypeServer' /\ TypeWrite' /\ TypeReport'
  <2>1. TypeClient'
    BY <1>5 DEF Leave, TypeClient
  <2>2. TypeServer'
    BY <1>5 DEF Leave, TypeServer, server
  <2>3. TypeWrite'
    BY <1>5 DEF Leave, TypeWrite
  <2>4. TypeReport'
    BY <1>5 DEF Leave, TypeReport, report
  <2> QED
    BY <2>1, <2>2, <2>3, <2>4
<1>6. ASSUME NEW c \in Conns, Reset(c)
      PROVE  TypeClient' /\ TypeServer' /\ TypeWrite' /\ TypeReport'
  <2>1. TypeClient'
    <3>1. PICK left \in {<<>>, rx[c]} : rx' = [rx EXCEPT ![c] = left]
      BY <1>6 DEF Reset
    <3>1a. <<>> \in Seq(Byte) /\ rx[c] \in Seq(Byte)
      BY DEF TypeClient
    <3>1b. left \in Seq(Byte)
      BY <3>1a
    <3>2. rx' \in [Conns -> Seq(Byte)]
      BY <3>1, <3>1b DEF TypeClient
    <3> QED
      BY <1>6, <3>2 DEF Reset, TypeClient
  <2>2. TypeServer'
    BY <1>6 DEF Reset, TypeServer, server
  <2>3. TypeWrite'
    BY <1>6 DEF Reset, TypeWrite
  <2>4. TypeReport'
    BY <1>6 DEF Reset, TypeReport, report
  <2> QED
    BY <2>1, <2>2, <2>3, <2>4
<1>7. ASSUME AcceptCompletes
      PROVE  TypeClient' /\ TypeServer' /\ TypeWrite' /\ TypeReport'
  <2>1. TypeClient'
    BY <1>7 DEF AcceptCompletes, TypeClient, client
  <2>2. TypeServer'
    <3>1. Head(backlog) \in Conns /\ Tail(backlog) \in Seq(Conns)
      BY <1>7, HeadTailProperties DEF AcceptCompletes, TypeServer
    <3>2. backlog' \in Seq(Conns)
      BY <1>7, <3>1 DEF AcceptCompletes, TypeServer
    <3>3. conn' \in [Conns -> {"none", "backlog", "queued", "reading", "writing", "closed"}]
      BY <1>7, <3>1 DEF AcceptCompletes, TypeServer
    <3>4. queue' \in Seq(Completions)
      <4>1. \A op \in {"accept", "no_accept"} :
               Completion(op, Head(backlog), <<>>) \in Completions
        BY <3>1 DEF Completion, Completions
      <4>2. \E op \in {"accept", "no_accept"} :
               queue' = Append(queue, Completion(op, Head(backlog), <<>>))
        BY <1>7 DEF AcceptCompletes
      <4>3. PICK op \in {"accept", "no_accept"} :
               queue' = Append(queue, Completion(op, Head(backlog), <<>>))
        BY <4>2
      <4>4. Completion(op, Head(backlog), <<>>) \in Completions
        BY <4>1
      <4> QED
        BY <4>3, <4>4, AppendProperties DEF TypeServer
    <3> QED
      BY <1>7, <3>2, <3>3, <3>4 DEF AcceptCompletes, TypeServer
  <2>3. TypeWrite'
    BY <1>7 DEF AcceptCompletes, TypeWrite
  <2>4. TypeReport'
    BY <1>7 DEF AcceptCompletes, TypeReport, report
  <2> QED
    BY <2>1, <2>2, <2>3, <2>4
<1>8. ASSUME NEW c \in Conns, ReadCompletes(c)
      PROVE  TypeClient' /\ TypeServer' /\ TypeWrite' /\ TypeReport'
  <2>1. TypeClient'
    <3>1. /\ Taken(c) \in Seq(Byte)
          /\ SubSeq(rx[c], Len(Taken(c)) + 1, Len(rx[c])) \in Seq(Byte)
      BY TakenType DEF TypeClient
    <3>2. Append(received[c], Taken(c)) \in Seq(Seq(Byte))
      BY <3>1, AppendProperties DEF TypeClient
    <3>3. /\ rx' = [rx EXCEPT ![c] = SubSeq(rx[c], Len(Taken(c)) + 1, Len(rx[c]))]
          /\ received' = [received EXCEPT ![c] = Append(received[c], Taken(c))]
          /\ UNCHANGED <<peer, net, sent>>
      BY <1>8 DEF ReadCompletes, TypeClient
    <3> QED
      BY <3>1, <3>2, <3>3 DEF TypeClient
  <2>2. TypeServer'
    <3>0. Taken(c) \in Seq(Byte)
      BY TakenType DEF TypeClient
    <3>1. conn' \in [Conns -> {"none", "backlog", "queued", "reading", "writing", "closed"}]
      BY <1>8 DEF ReadCompletes, TypeServer
    <3>2. queue' \in Seq(Completions)
      <4>1. Completion("read", c, Taken(c)) \in Completions
        BY <3>0 DEF Completion, Completions
      <4> QED
        BY <1>8, <4>1, AppendProperties DEF ReadCompletes, TypeServer
    <3> QED
      BY <1>8, <3>1, <3>2 DEF ReadCompletes, TypeServer
  <2>3. TypeWrite'
    BY <1>8 DEF ReadCompletes, TypeWrite
  <2>4. TypeReport'
    BY <1>8 DEF ReadCompletes, TypeReport, report
  <2> QED
    BY <2>1, <2>2, <2>3, <2>4
<1>9. ASSUME NEW c \in Conns, ReadFails(c)
      PROVE  TypeClient' /\ TypeServer' /\ TypeWrite' /\ TypeReport'
  <2>1. TypeClient'
    BY <1>9 DEF ReadFails, TypeClient, client
  <2>2. TypeServer'
    <3>1. conn' \in [Conns -> {"none", "backlog", "queued", "reading", "writing", "closed"}]
      BY <1>9 DEF ReadFails, TypeServer
    <3>2. queue' \in Seq(Completions)
      <4>1. Completion("no_read", c, <<>>) \in Completions
        BY DEF Completion, Completions
      <4> QED
        BY <1>9, <4>1, AppendProperties DEF ReadFails, TypeServer
    <3> QED
      BY <1>9, <3>1, <3>2 DEF ReadFails, TypeServer
  <2>3. TypeWrite'
    BY <1>9 DEF ReadFails, TypeWrite
  <2>4. TypeReport'
    BY <1>9 DEF ReadFails, TypeReport, report
  <2> QED
    BY <2>1, <2>2, <2>3, <2>4
<1>10. ASSUME NEW c \in Conns, HandleAccept(c)
      PROVE  TypeClient' /\ TypeServer' /\ TypeWrite' /\ TypeReport'
  <2>1. TypeClient'
    BY <1>10 DEF HandleAccept, TypeClient, client
  <2>2. TypeServer'
    BY <1>10, HeadTailProperties DEF HandleAccept, TypeServer, Runs
  <2>3. TypeWrite'
    BY <1>10 DEF HandleAccept, TypeWrite
  <2>4. TypeReport'
    BY <1>10 DEF HandleAccept, TypeReport, Entries, Types
  <2> QED
    BY <2>1, <2>2, <2>3, <2>4
<1>11. ASSUME NEW c \in Conns, HandleNoAccept(c)
      PROVE  TypeClient' /\ TypeServer' /\ TypeWrite' /\ TypeReport'
  <2>1. TypeClient'
    BY <1>11 DEF HandleNoAccept, TypeClient, client
  <2>2. TypeServer'
    BY <1>11, HeadTailProperties DEF HandleNoAccept, TypeServer, Runs
  <2>3. TypeWrite'
    BY <1>11 DEF HandleNoAccept, TypeWrite
  <2>4. TypeReport'
    BY <1>11 DEF HandleNoAccept, TypeReport, report
  <2> QED
    BY <2>1, <2>2, <2>3, <2>4
<1>12. ASSUME NEW c \in Conns, HandleNoRead(c)
      PROVE  TypeClient' /\ TypeServer' /\ TypeWrite' /\ TypeReport'
  <2>1. TypeClient'
    BY <1>12 DEF HandleNoRead, TypeClient, client
  <2>2. TypeServer'
    BY <1>12, HeadTailProperties DEF HandleNoRead, TypeServer, Runs
  <2>3. TypeWrite'
    BY <1>12 DEF HandleNoRead, TypeWrite
  <2>4. TypeReport'
    BY <1>12 DEF HandleNoRead, TypeReport, report
  <2> QED
    BY <2>1, <2>2, <2>3, <2>4
<1>13. ASSUME NEW c \in Conns, HandleRead(c)
      PROVE  TypeClient' /\ TypeServer' /\ TypeWrite' /\ TypeReport'
  <2>1. TypeClient'
    BY <1>13 DEF HandleRead, TypeClient, client
  <2>2. TypeServer'
    BY <1>13, HeadTailProperties DEF HandleRead, TypeServer, Runs
  <2>3. TypeWrite'
    <3>1. KindOf(Head(queue).data) \in Kinds
      BY KindType
    <3>2. CASE writing' = writing
      BY <1>13, <3>2 DEF HandleRead, TypeWrite
    <3>3. CASE \E a \in Answer(KindOf(Head(queue).data)) :
                 writing' = [conn |-> c, answer |-> a, kind |-> KindOf(Head(queue).data)]
      <4>1. writing'.conn = c /\ writing'.kind = KindOf(Head(queue).data)
        BY <3>3
      <4> QED
        BY <1>13, <3>1, <4>1 DEF HandleRead, TypeWrite
    <3> QED
      BY <1>13, <3>2, <3>3 DEF HandleRead
  <2>4. TypeReport'
    <3> DEFINE k == KindOf(Head(queue).data)
    <3>1. k \in Kinds
      BY KindType
    <3>2. /\ Activity(k) \subseteq Types /\ Attack(k) \subseteq Attacks
          /\ Cardinality(Activity(k)) \in Nat /\ Cardinality(Attack(k)) \in Nat
      BY <3>1, EventsOfKind
    <3> HIDE DEF k
    <3>3. reads' \in [Conns -> Nat]
      BY <1>13 DEF HandleRead, TypeReport
    <3>4. log' = log \union Entries(c, reads'[c], Activity(k) \union Attack(k))
      BY <1>13 DEF HandleRead, k
    <3>5. log' \subseteq [conn : Conns, at : Nat, event : Attacks \union Types]
      BY <3>2, <3>3, <3>4 DEF TypeReport, Entries
    <3>6. /\ mqtt_activities_' = mqtt_activities_ + Cardinality(Activity(k))
          /\ attacks_detected_' = attacks_detected_ + Cardinality(Attack(k))
      BY <1>13 DEF HandleRead, k
    <3> QED
      BY <3>2, <3>3, <3>5, <3>6 DEF TypeReport
  <2> QED
    BY <2>1, <2>2, <2>3, <2>4
<1>14. ASSUME NEW c \in Conns, WriteDone(c)
      PROVE  TypeClient' /\ TypeServer' /\ TypeWrite' /\ TypeReport'
  <2>1. TypeClient'
    BY <1>14 DEF WriteDone, TypeClient, client
  <2>2. TypeServer'
    BY <1>14 DEF WriteDone, TypeServer
  <2>3. TypeWrite'
    BY <1>14, NoWriteKind DEF WriteDone, TypeWrite, NoWrite
  <2>4. TypeReport'
    <3> DEFINE late == LateAttack(writing.kind)
    <3>1. late \subseteq Attacks /\ Cardinality(late) \in Nat
      BY EventsOfKind DEF TypeWrite
    <3>2. /\ log' = log \union Entries(c, reads[c], late)
          /\ attacks_detected_' = attacks_detected_ + Cardinality(late)
          /\ UNCHANGED <<reads, mqtt_activities_>>
      BY <1>14 DEF WriteDone
    <3> HIDE DEF late
    <3>3. log' \subseteq [conn : Conns, at : Nat, event : Attacks \union Types]
      BY <3>1, <3>2 DEF TypeReport, Entries
    <3> QED
      BY <3>1, <3>2, <3>3 DEF TypeReport
  <2> QED
    BY <2>1, <2>2, <2>3, <2>4
<1>15. ASSUME NEW c \in Conns, WriteThrows(c)
      PROVE  TypeClient' /\ TypeServer' /\ TypeWrite' /\ TypeReport'
  <2>1. TypeClient'
    BY <1>15 DEF WriteThrows, TypeClient, client
  <2>2. TypeServer'
    BY <1>15 DEF WriteThrows, TypeServer, server
  <2>3. TypeWrite'
    BY <1>15 DEF WriteThrows, TypeWrite
  <2>4. TypeReport'
    BY <1>15 DEF WriteThrows, TypeReport, report
  <2> QED
    BY <2>1, <2>2, <2>3, <2>4
<1>16. CASE UNCHANGED vars
  <2>1. TypeClient'
    BY <1>16 DEF vars, TypeClient, client
  <2>2. TypeServer'
    BY <1>16 DEF vars, TypeServer, server
  <2>3. TypeWrite'
    BY <1>16 DEF vars, TypeWrite
  <2>4. TypeReport'
    BY <1>16 DEF vars, TypeReport, report
  <2> QED
    BY <2>1, <2>2, <2>3, <2>4
<1> QED
  BY <1>1, <1>2, <1>3, <1>4, <1>5, <1>6, <1>7, <1>8, <1>9, <1>10, <1>11, <1>12, <1>13, <1>14, <1>15, <1>16 DEF Next, Environment, Thread

(* Every variable keeps its type. *)
THEOREM TypeCorrect == Spec => []TypeOK
<1>1. TypeOK /\ [Next]_vars => TypeOK'
  BY TypeStep
<1> QED
  BY TypeInit, <1>1, PTL DEF Spec

-----------------------------------------------------------------------------
(* The counters.  What makes them agree with the log is that an entry is   *)
(* never made twice: a read reports under a number no entry has yet, and   *)
(* the accusation that follows a write is not in the log while it waits.   *)
LogInv ==
    /\ IsFiniteSet(log)
    /\ \A e \in log : e.at <= reads[e.conn]
    /\ \A e \in log :
          (e.conn = writing.conn /\ e.at = reads[e.conn]) => e.event # "MQTT_WILDCARD_SUBSCRIPTION"

Counted(entries) == {e \in entries : e.at > 0 /\ e.event \in Types}

Accused(entries) == {e \in entries : e.event \in Attacks}

CounterInv == LogInv /\ CountersMatchLog

(* The entries of a read: as many as there are events. *)
LEMMA EntriesCount ==
  ASSUME NEW c, NEW n, NEW events, events = {} \/ \E x : events = {x}
  PROVE  /\ IsFiniteSet(Entries(c, n, events))
         /\ Cardinality(Entries(c, n, events)) = Cardinality(events)
<1>1. CASE events = {}
  <2>1. Entries(c, n, events) = {}
    BY <1>1 DEF Entries
  <2> QED
    BY <1>1, <2>1, FS_EmptySet
<1>2. CASE \E x : events = {x}
  <2>1. PICK x : events = {x}
    BY <1>2
  <2>2. \A e : e \in Entries(c, n, events) <=> e = [conn |-> c, at |-> n, event |-> x]
    BY <2>1 DEF Entries
  <2> DEFINE entry == [conn |-> c, at |-> n, event |-> x]
  <2> HIDE DEF entry
  <2>3. Entries(c, n, events) = {entry}
    BY <2>2 DEF entry
  <2>4. \A y : IsFiniteSet({y}) /\ Cardinality({y}) = 1
    BY FS_Singleton
  <2> QED
    BY <2>1, <2>3, <2>4
<1> QED
  BY <1>1, <1>2

(* An action that leaves reports and the write alone keeps the invariant. *)
LEMMA CounterQuiet ==
  ASSUME TypeOK, CounterInv, UNCHANGED <<report, writing>>
  PROVE  CounterInv'
BY DEF CounterInv, LogInv, CountersMatchLog, report

(* Initially nothing is reported and nothing counted. *)
LEMMA CounterInit == Init => CounterInv
<1> SUFFICES ASSUME Init PROVE CounterInv
  OBVIOUS
<1>1. Counted(log) = {} /\ Accused(log) = {} /\ log = {}
  BY DEF Init, Counted, Accused
<1> QED
  BY <1>1, FS_EmptySet DEF Init, CounterInv, LogInv, CountersMatchLog, Counted, Accused

(* Every step keeps the counters at the log. *)
LEMMA CounterStep ==
  ASSUME TypeOK, CounterInv, [Next]_vars
  PROVE  CounterInv'
<1>0. /\ log \subseteq [conn : Conns, at : Nat, event : Attacks \union Types]
      /\ reads \in [Conns -> Nat]
      /\ IsFiniteSet(log)
      /\ Attacks \cap Types = {}
      /\ NoConn \notin Conns
  BY ConnsAssumption DEF TypeOK, CounterInv, LogInv, Attacks, Types
<1>00. /\ mqtt_activities_ = Cardinality(Counted(log))
       /\ attacks_detected_ = Cardinality(Accused(log))
       /\ IsFiniteSet(Counted(log)) /\ IsFiniteSet(Accused(log))
  BY <1>0, FS_Subset DEF CounterInv, CountersMatchLog, Counted, Accused
<1>1. ASSUME NEW c \in Conns, HandleAccept(c)
      PROVE  CounterInv'
  <2>1. log' = log \union Entries(c, 0, {"CONNECT"}) /\ UNCHANGED <<reads, writing, mqtt_activities_, attacks_detected_>>
    BY <1>1 DEF HandleAccept
  <2>2. \A e \in Entries(c, 0, {"CONNECT"}) : e.conn = c /\ e.at = 0 /\ e.event = "CONNECT"
    BY DEF Entries
  <2>3. IsFiniteSet(log')
    <3>1. IsFiniteSet(Entries(c, 0, {"CONNECT"}))
      BY EntriesCount
    <3> QED
      BY <1>0, <2>1, <3>1, FS_Union
  <2>4. LogInv'
    BY <1>0, <2>1, <2>2, <2>3 DEF CounterInv, LogInv
  <2>5. Counted(log') = Counted(log) /\ Accused(log') = Accused(log)
    BY <2>1, <2>2 DEF Counted, Accused, Attacks
  <2> QED
    BY <1>00, <2>1, <2>4, <2>5 DEF CounterInv, CountersMatchLog, Counted, Accused
<1>2. ASSUME NEW c \in Conns, HandleRead(c)
      PROVE  CounterInv'
  <2> DEFINE k == KindOf(Head(queue).data)
             n == reads[c] + 1
  <2>1. k \in Kinds
    BY KindType
  <2>2. /\ log' = log \union Entries(c, n, Activity(k) \union Attack(k))
        /\ reads' = [reads EXCEPT ![c] = n]
        /\ mqtt_activities_' = mqtt_activities_ + Cardinality(Activity(k))
        /\ attacks_detected_' = attacks_detected_ + Cardinality(Attack(k))
        /\ writing'.conn \in {c, NoConn}
    BY <1>0, <1>2 DEF HandleRead, Runs, NoWrite
  <2>3. /\ Activity(k) \subseteq Types /\ Attack(k) \subseteq Attacks
        /\ Activity(k) = {} \/ \E x : Activity(k) = {x}
        /\ Attack(k) = {} \/ \E x : Attack(k) = {x}
        /\ "MQTT_WILDCARD_SUBSCRIPTION" \notin Activity(k) \union Attack(k)
    <3>1. /\ Activity(k) \subseteq Types /\ Attack(k) \subseteq Attacks
          /\ Activity(k) = {} \/ \E x : Activity(k) = {x}
          /\ Attack(k) = {} \/ \E x : Attack(k) = {x}
      BY <2>1, EventsOfKind, Zenon
    <3>2. "MQTT_WILDCARD_SUBSCRIPTION" \notin Types
      BY DEF Types
    <3>3. "MQTT_WILDCARD_SUBSCRIPTION" \notin Attack(k)
      BY DEF Attack
    <3> QED
      BY <3>1, <3>2, <3>3
  <2> HIDE DEF k
  <2>4. n \in Nat /\ n > 0 /\ \A e \in log : ~ (e.conn = c /\ e.at = n)
    BY <1>0 DEF CounterInv, LogInv
  <2>5. /\ Entries(c, n, Activity(k)) \union Entries(c, n, Attack(k))
              = Entries(c, n, Activity(k) \union Attack(k))
        /\ \A e \in Entries(c, n, Activity(k)) : e.conn = c /\ e.at = n /\ e.event \in Activity(k)
        /\ \A e \in Entries(c, n, Attack(k)) : e.conn = c /\ e.at = n /\ e.event \in Attack(k)
    BY DEF Entries
  <2> HIDE DEF n
  <2>6. /\ Counted(log') = Counted(log) \union Entries(c, n, Activity(k))
        /\ Accused(log') = Accused(log) \union Entries(c, n, Attack(k))
    <3> DEFINE first == Entries(c, n, Activity(k))
               second == Entries(c, n, Attack(k))
    <3>1. log' = log \union first \union second
      BY <2>2, <2>5
    <3>2. /\ \A e \in first : e.at > 0 /\ e.event \in Types /\ e.event \notin Attacks
          /\ \A e \in second : e.event \notin Types /\ e.event \in Attacks
      BY <1>0, <2>3, <2>4, <2>5
    <3> HIDE DEF first, second
    <3>3. Counted(log') = Counted(log) \union first
      BY <3>1, <3>2 DEF Counted
    <3>4. Accused(log') = Accused(log) \union second
      BY <3>1, <3>2 DEF Accused
    <3> QED
      BY <3>3, <3>4 DEF first, second
  <2>7. /\ Counted(log) \cap Entries(c, n, Activity(k)) = {}
        /\ Accused(log) \cap Entries(c, n, Attack(k)) = {}
    BY <2>4, <2>5 DEF Counted, Accused
  <2>8. /\ IsFiniteSet(Entries(c, n, Activity(k))) /\ IsFiniteSet(Entries(c, n, Attack(k)))
        /\ Cardinality(Entries(c, n, Activity(k))) = Cardinality(Activity(k))
        /\ Cardinality(Entries(c, n, Attack(k))) = Cardinality(Attack(k))
    <3>1. /\ IsFiniteSet(Entries(c, n, Activity(k)))
          /\ Cardinality(Entries(c, n, Activity(k))) = Cardinality(Activity(k))
      <4>1. Activity(k) = {} \/ \E x : Activity(k) = {x}
        BY <2>3
      <4> QED
        BY <4>1, EntriesCount
    <3>2. /\ IsFiniteSet(Entries(c, n, Attack(k)))
          /\ Cardinality(Entries(c, n, Attack(k))) = Cardinality(Attack(k))
      <4>1. Attack(k) = {} \/ \E x : Attack(k) = {x}
        BY <2>3
      <4> QED
        BY <4>1, EntriesCount
    <3> QED
      BY <3>1, <3>2
  <2>9. /\ IsFiniteSet(log')
        /\ mqtt_activities_' = Cardinality(Counted(log'))
        /\ attacks_detected_' = Cardinality(Accused(log'))
    <3> DEFINE first == Entries(c, n, Activity(k))
               second == Entries(c, n, Attack(k))
    <3>1. log' = log \union first \union second
      BY <2>2, <2>5
    <3> HIDE DEF first, second
    <3>2. IsFiniteSet(log \union first)
      BY <1>0, <2>8, FS_Union DEF first
    <3>3. IsFiniteSet(log')
      BY <2>8, <3>1, <3>2, FS_Union DEF second
    <3>4. Cardinality(Counted(log) \union first) = Cardinality(Counted(log)) + Cardinality(first)
      BY <1>00, <2>7, <2>8, DisjointUnion DEF first
    <3>5. Cardinality(Accused(log) \union second) = Cardinality(Accused(log)) + Cardinality(second)
      BY <1>00, <2>7, <2>8, DisjointUnion DEF second
    <3>6. Counted(log') = Counted(log) \union first /\ Accused(log') = Accused(log) \union second
      BY <2>6 DEF first, second
    <3>7. Cardinality(first) = Cardinality(Activity(k)) /\ Cardinality(second) = Cardinality(Attack(k))
      BY <2>8 DEF first, second
    <3> QED
      BY <1>00, <2>2, <3>3, <3>4, <3>5, <3>6, <3>7
  <2>10. \A e \in log' : e.at <= reads'[e.conn]
    <3>1. \A d \in Conns : reads[d] \in Nat /\ reads'[d] \in Nat /\ reads[d] <= reads'[d]
      BY <1>0, <2>2 DEF n
    <3>2. reads'[c] = n
      BY <1>0, <2>2
    <3>3. \A e \in log : e.conn \in Conns /\ e.at \in Nat /\ e.at <= reads[e.conn]
      BY <1>0 DEF CounterInv, LogInv
    <3>4. ASSUME NEW e \in log'
          PROVE  e.at <= reads'[e.conn]
      <4>1. CASE e \in log
        BY <3>1, <3>3, <4>1
      <4>2. CASE e \notin log
        <5>1. e.conn = c /\ e.at = n
          BY <2>2, <2>5, <4>2
        <5> QED
          BY <2>4, <3>2, <5>1
      <4> QED
        BY <4>1, <4>2
    <3> QED
      BY <3>4
  <2>11. \A e \in log' : (e.conn = writing'.conn /\ e.at = reads'[e.conn])
                              => e.event # "MQTT_WILDCARD_SUBSCRIPTION"
    <3>1. ASSUME NEW e \in log', e.conn = writing'.conn, e.at = reads'[e.conn]
          PROVE  e.event # "MQTT_WILDCARD_SUBSCRIPTION"
      <4>1. CASE e \in log
        <5>1. e.conn = c /\ e.at = n
          BY <1>0, <2>2, <3>1, <4>1
        <5> QED
          BY <2>4, <4>1, <5>1
      <4>2. CASE e \notin log
        BY <2>2, <2>3, <2>5, <3>1, <4>2
      <4> QED
        BY <4>1, <4>2
    <3> QED
      BY <3>1
  <2> QED
    BY <2>9, <2>10, <2>11
    DEF CounterInv, LogInv, CountersMatchLog, Counted, Accused
<1>3. ASSUME NEW c \in Conns, WriteDone(c)
      PROVE  CounterInv'
  <2> DEFINE late == LateAttack(writing.kind)
             n == reads[c]
  <2>1. /\ log' = log \union Entries(c, n, late)
        /\ attacks_detected_' = attacks_detected_ + Cardinality(late)
        /\ writing.conn = c
        /\ writing'.conn = NoConn
        /\ UNCHANGED <<reads, mqtt_activities_>>
    BY <1>3 DEF WriteDone, NoWrite
  <2>2. /\ late \subseteq Attacks /\ late \subseteq {"MQTT_WILDCARD_SUBSCRIPTION"}
        /\ late = {} \/ \E x : late = {x}
    BY EventsOfKind DEF TypeOK, LateAttack
  <2> HIDE DEF late
  <2>3. \A e \in log : ~ (e.conn = c /\ e.at = n /\ e.event \in late)
    BY <2>1, <2>2 DEF CounterInv, LogInv
  <2>4. \A e \in Entries(c, n, late) : e.conn = c /\ e.at = n /\ e.event \in late
    BY DEF Entries
  <2>5. /\ Counted(log') = Counted(log)
        /\ Accused(log') = Accused(log) \union Entries(c, n, late)
    BY <1>0, <2>1, <2>2, <2>4 DEF Counted, Accused
  <2>6. Accused(log) \cap Entries(c, n, late) = {}
    BY <2>3, <2>4 DEF Accused
  <2>7. /\ IsFiniteSet(Entries(c, n, late))
        /\ Cardinality(Entries(c, n, late)) = Cardinality(late)
    BY <2>2, EntriesCount
  <2>8. /\ IsFiniteSet(log')
        /\ attacks_detected_' = Cardinality(Accused(log'))
        /\ mqtt_activities_' = Cardinality(Counted(log'))
    <3> DEFINE new == Entries(c, n, late)
    <3> HIDE DEF new
    <3>1. IsFiniteSet(log')
      BY <1>0, <2>1, <2>7, FS_Union
    <3>2. Cardinality(Accused(log) \union new) = Cardinality(Accused(log)) + Cardinality(new)
      BY <1>00, <2>6, <2>7, DisjointUnion DEF new
    <3>3. Accused(log') = Accused(log) \union new /\ Cardinality(new) = Cardinality(late)
      BY <2>5, <2>7 DEF new
    <3> QED
      BY <1>00, <2>1, <2>5, <3>1, <3>2, <3>3
  <2>9. \A e \in log' : e.conn \in Conns /\ e.at <= reads'[e.conn]
    BY <1>0, <2>1, <2>4 DEF CounterInv, LogInv
  <2> QED
    BY <1>0, <2>1, <2>8, <2>9
    DEF CounterInv, LogInv, CountersMatchLog, Counted, Accused
<1>4. ASSUME UNCHANGED <<report, writing>>
      PROVE  CounterInv'
  BY <1>4, CounterQuiet
<1>5. ASSUME NEW c \in Conns, Environment(c) \/ ReadCompletes(c) \/ ReadFails(c)
      PROVE  UNCHANGED <<report, writing>>
  BY <1>5 DEF Environment, Connect, Send, Deliver, ClientReads, Leave, Reset, ReadCompletes,
              ReadFails, report
<1>6. ASSUME NEW c \in Conns, HandleNoAccept(c) \/ HandleNoRead(c) \/ WriteThrows(c)
      PROVE  UNCHANGED <<report, writing>>
  BY <1>6 DEF HandleNoAccept, HandleNoRead, WriteThrows, report
<1>7. AcceptCompletes \/ UNCHANGED vars => UNCHANGED <<report, writing>>
  BY DEF AcceptCompletes, vars, report
<1> QED
  BY <1>1, <1>2, <1>3, <1>4, <1>5, <1>6, <1>7 DEF Next, Thread

(* The counters of the dashboard are those of the log, at every moment. *)
THEOREM CountersAreRight == Spec => []CountersMatchLog
<1>1. TypeOK /\ CounterInv /\ [Next]_vars => CounterInv'
  BY CounterStep
<1>2. CounterInv => CountersMatchLog
  BY DEF CounterInv
<1> QED
  BY TypeCorrect, CounterInit, <1>1, <1>2, PTL DEF Spec

-----------------------------------------------------------------------------
(* One handler at a time.  Counting the handlers of a connection is left   *)
(* to the end: the connections that have a handler in the queue are those  *)
(* that are queued, and no two handlers are of the same one.               *)
Queued == {c \in Conns : conn[c] = "queued"}

OnceIn(q, queued) ==
    /\ \A i \in 1 .. Len(q) : q[i].op # "no_accept" => q[i].conn \in queued
    /\ \A i, j \in 1 .. Len(q) :
          (q[i].op # "no_accept" /\ q[j].op # "no_accept" /\ q[i].conn = q[j].conn) => i = j
    /\ \A c \in queued : \E i \in 1 .. Len(q) : q[i].op # "no_accept" /\ q[i].conn = c

QueueOnce == OnceIn(queue, Queued)

(* A connection that waits in the backlog is there once and nowhere else.  *)
Waiting == {c \in Conns : conn[c] = "backlog"}

WaitsIn(b, waiting) ==
    /\ \A i \in 1 .. Len(b) : b[i] \in waiting
    /\ \A i, j \in 1 .. Len(b) : b[i] = b[j] => i = j

BacklogOnce ==
    /\ WaitsIn(backlog, Waiting)
    /\ \A c \in Conns : peer[c] = "absent" => conn[c] = "none"

OneWrite == \A c \in Conns : conn[c] = "writing" <=> writing.conn = c

HandlerInv == QueueOnce /\ BacklogOnce /\ OneWrite

(* The reactor queues the handler of a connection that has none, *)
LEMMA QueuedOnce ==
  ASSUME NEW q \in Seq(Completions), NEW done \in Completions, NEW r, r = Append(q, done),
         NEW old, OnceIn(q, old), NEW new,
         done.op = "no_accept" => new = old,
         done.op # "no_accept" => done.conn \notin old /\ new = old \union {done.conn}
  PROVE  OnceIn(r, new)
<1> DEFINE n == Len(q) + 1
           Q == 1 .. Len(q)
           R == 1 .. Len(r)
<1>1. n \in R /\ r[n] = done
  BY AppendNew
<1>2. \A i \in Q : i \in R /\ r[i] = q[i] /\ i # n
  <2>1. ASSUME NEW i \in 1 .. Len(q)
        PROVE  i \in 1 .. Len(r) /\ r[i] = q[i] /\ i # Len(q) + 1
    BY AppendOld
  <2> QED
    BY <2>1
<1>3. \A i \in R : i \in Q \/ i = n
  BY AppendNew
<1>4. \A i \in Q : q[i].op # "no_accept" => q[i].conn \in old
  BY DEF OnceIn
<1>5. \A i, j \in Q : (q[i].op # "no_accept" /\ q[j].op # "no_accept" /\ q[i].conn = q[j].conn) => i = j
  BY DEF OnceIn
<1>6. \A c \in old : \E i \in Q : q[i].op # "no_accept" /\ q[i].conn = c
  BY DEF OnceIn
<1> HIDE DEF n, Q, R
<1>7. \A i \in R : r[i].op # "no_accept" => r[i].conn \in new
  BY <1>1, <1>2, <1>3, <1>4
<1>8. ASSUME NEW i \in R, NEW j \in R, r[i].op # "no_accept", r[j].op # "no_accept", r[i].conn = r[j].conn
      PROVE  i = j
  <2>1. CASE i = n /\ j = n
    BY <2>1
  <2>2. CASE i # n /\ j # n
    <3>1. i \in Q /\ j \in Q /\ r[i] = q[i] /\ r[j] = q[j]
      BY <1>2, <1>3, <1>8, <2>2
    <3> QED
      BY <1>5, <1>8, <3>1
  <2>3. CASE i = n /\ j # n
    BY <1>1, <1>2, <1>3, <1>4, <1>8, <2>3
  <2>4. CASE i # n /\ j = n
    BY <1>1, <1>2, <1>3, <1>4, <1>8, <2>4
  <2> QED
    BY <2>1, <2>2, <2>3, <2>4
<1>9. ASSUME NEW c \in new
      PROVE  \E i \in R : r[i].op # "no_accept" /\ r[i].conn = c
  <2>1. CASE c \in old
    BY <1>2, <1>6, <2>1
  <2>2. CASE c \notin old
    BY <1>1, <1>9, <2>2
  <2> QED
    BY <2>1, <2>2
<1> QED
  <2>1. \A i, j \in R : (r[i].op # "no_accept" /\ r[j].op # "no_accept" /\ r[i].conn = r[j].conn) => i = j
    BY <1>8
  <2>2. \A c \in new : \E i \in R : r[i].op # "no_accept" /\ r[i].conn = c
    BY <1>9
  <2> QED
    BY <1>7, <2>1, <2>2 DEF OnceIn, R

(* and the thread takes the handler of one that leaves the queue. *)
LEMMA TakenOnce ==
  ASSUME NEW q \in Seq(Completions), q # <<>>, NEW r, r = Tail(q),
         NEW old, OnceIn(q, old), NEW new,
         new = IF Head(q).op = "no_accept" THEN old ELSE old \ {Head(q).conn}
  PROVE  OnceIn(r, new)
<1> DEFINE Q == 1 .. Len(q)
           R == 1 .. Len(r)
<1>1. 1 \in Q /\ Head(q) = q[1]
  BY TailHead
<1>2. \A i \in R : i \in Nat /\ i + 1 \in Q /\ i + 1 # 1 /\ r[i] = q[i + 1]
  <2>1. ASSUME NEW i \in 1 .. Len(r)
        PROVE  i \in Nat /\ i + 1 \in 1 .. Len(q) /\ i + 1 # 1 /\ r[i] = q[i + 1]
    BY TailNew
  <2> QED
    BY <2>1
<1>3. \A i \in Q : i = 1 \/ (i - 1 \in R /\ r[i - 1] = q[i])
  BY TailOld
<1>4. \A i \in Q : q[i].op # "no_accept" => q[i].conn \in old
  BY DEF OnceIn
<1>5. \A i, j \in Q : (q[i].op # "no_accept" /\ q[j].op # "no_accept" /\ q[i].conn = q[j].conn) => i = j
  BY DEF OnceIn
<1>6. \A c \in old : \E i \in Q : q[i].op # "no_accept" /\ q[i].conn = c
  BY DEF OnceIn
<1>7. new = IF q[1].op = "no_accept" THEN old ELSE old \ {q[1].conn}
  BY <1>1
<1> HIDE DEF Q, R
<1>8. ASSUME NEW i \in R, r[i].op # "no_accept"
      PROVE  r[i].conn \in new
  <2>1. i + 1 \in Q /\ q[i + 1].op # "no_accept" /\ r[i].conn = q[i + 1].conn /\ i + 1 # 1
    BY <1>2, <1>8
  <2>2. q[i + 1].conn \in old
    BY <1>4, <2>1
  <2>3. q[1].op # "no_accept" => q[1].conn # q[i + 1].conn
    BY <1>1, <1>5, <2>1
  <2> QED
    BY <1>7, <2>1, <2>2, <2>3
<1>9. ASSUME NEW i \in R, NEW j \in R, r[i].op # "no_accept", r[j].op # "no_accept", r[i].conn = r[j].conn
      PROVE  i = j
  <2>0. /\ i + 1 \in Q /\ q[i + 1].op # "no_accept"
        /\ j + 1 \in Q /\ q[j + 1].op # "no_accept"
        /\ q[i + 1].conn = q[j + 1].conn
    BY <1>2, <1>9
  <2>1. i + 1 = j + 1
    BY <1>5, <2>0
  <2>2. i \in Nat /\ j \in Nat
    BY <1>2, <1>9
  <2> QED
    BY <2>1, <2>2, SameSuccessor
<1>10. ASSUME NEW c \in new
       PROVE  \E i \in R : r[i].op # "no_accept" /\ r[i].conn = c
  <2>1. c \in old
    BY <1>7, <1>10
  <2>2. PICK i \in Q : q[i].op # "no_accept" /\ q[i].conn = c
    BY <1>6, <2>1
  <2>3. i # 1
    BY <1>7, <1>10, <2>2
  <2>4. i - 1 \in R /\ r[i - 1] = q[i]
    BY <1>3, <2>3
  <2> QED
    BY <2>2, <2>4
<1> QED
  <2>1. \A i \in R : r[i].op # "no_accept" => r[i].conn \in new
    BY <1>8
  <2>2. \A i, j \in R : (r[i].op # "no_accept" /\ r[j].op # "no_accept" /\ r[i].conn = r[j].conn) => i = j
    BY <1>9
  <2>3. \A c \in new : \E i \in R : r[i].op # "no_accept" /\ r[i].conn = c
    BY <1>10
  <2> QED
    BY <2>1, <2>2, <2>3 DEF OnceIn, R

(* The same for the backlog, which a connection enters and leaves. *)
LEMMA EntersOnce ==
  ASSUME NEW b \in Seq(Conns), NEW c \in Conns, NEW r, r = Append(b, c),
         NEW old, WaitsIn(b, old), c \notin old, NEW new, new = old \union {c}
  PROVE  WaitsIn(r, new)
<1> DEFINE n == Len(b) + 1
           B == 1 .. Len(b)
           R == 1 .. Len(r)
<1>1. n \in R /\ r[n] = c
  BY AppendNew
<1>2. \A i \in B : i \in R /\ r[i] = b[i] /\ i # n
  BY AppendOld
<1>3. \A i \in R : i \in B \/ i = n
  BY AppendNew
<1>4. \A i \in B : b[i] \in old
  BY DEF WaitsIn
<1>5. \A i, j \in B : b[i] = b[j] => i = j
  BY DEF WaitsIn
<1> HIDE DEF n, B, R
<1>6. \A i \in R : r[i] \in new
  BY <1>1, <1>2, <1>3, <1>4
<1>7. ASSUME NEW i \in R, NEW j \in R, r[i] = r[j]
      PROVE  i = j
  <2>1. CASE i = n /\ j = n
    BY <2>1
  <2>2. CASE i # n /\ j # n
    BY <1>2, <1>3, <1>5, <1>7, <2>2
  <2>3. CASE i = n /\ j # n
    BY <1>1, <1>2, <1>3, <1>4, <1>7, <2>3
  <2>4. CASE i # n /\ j = n
    BY <1>1, <1>2, <1>3, <1>4, <1>7, <2>4
  <2> QED
    BY <2>1, <2>2, <2>3, <2>4
<1> QED
  BY <1>6, <1>7 DEF WaitsIn, R

(* It leaves as the head of the backlog. *)
LEMMA LeavesOnce ==
  ASSUME NEW b \in Seq(Conns), b # <<>>, NEW r, r = Tail(b),
         NEW old, WaitsIn(b, old), NEW new, new = old \ {Head(b)}
  PROVE  WaitsIn(r, new)
<1> DEFINE B == 1 .. Len(b)
           R == 1 .. Len(r)
<1>1. 1 \in B /\ Head(b) = b[1]
  BY TailHead
<1>2. \A i \in R : i \in Nat /\ i + 1 \in B /\ i + 1 # 1 /\ r[i] = b[i + 1]
  BY TailNew
<1>3. \A i \in B : b[i] \in old
  BY DEF WaitsIn
<1>4. \A i, j \in B : b[i] = b[j] => i = j
  BY DEF WaitsIn
<1>5. new = old \ {b[1]}
  BY <1>1
<1> HIDE DEF B, R
<1>6. ASSUME NEW i \in R
      PROVE  r[i] \in new
  <2>1. i + 1 \in B /\ r[i] = b[i + 1] /\ i + 1 # 1
    BY <1>2, <1>6
  <2>2. b[i + 1] \in old /\ b[i + 1] # b[1]
    BY <1>1, <1>3, <1>4, <2>1
  <2> QED
    BY <1>5, <2>1, <2>2
<1>7. ASSUME NEW i \in R, NEW j \in R, r[i] = r[j]
      PROVE  i = j
  <2>0. i + 1 \in B /\ j + 1 \in B /\ b[i + 1] = b[j + 1]
    BY <1>2, <1>7
  <2>1. i + 1 = j + 1
    BY <1>4, <2>0
  <2>2. i \in Nat /\ j \in Nat
    BY <1>2, <1>7
  <2> QED
    BY <2>1, <2>2, SameSuccessor
<1> QED
  BY <1>6, <1>7 DEF WaitsIn, R

(* A change of the state of one connection leaves the others alone. *)
LEMMA ConnMoves ==
  ASSUME TypeOK, NEW c \in Conns, NEW to, conn' = [conn EXCEPT ![c] = to]
  PROVE  /\ Queued' = IF to = "queued" THEN Queued \union {c} ELSE Queued \ {c}
         /\ Waiting' = IF to = "backlog" THEN Waiting \union {c} ELSE Waiting \ {c}
         /\ \A d \in Conns : d # c => conn'[d] = conn[d]
         /\ conn'[c] = to
<1>1. conn \in [Conns -> {"none", "backlog", "queued", "reading", "writing", "closed"}]
  BY DEF TypeOK
<1>2. \A d \in Conns : conn'[d] = IF d = c THEN to ELSE conn[d]
  BY <1>1
<1>3. Queued' = IF to = "queued" THEN Queued \union {c} ELSE Queued \ {c}
  BY <1>2 DEF Queued
<1>4. Waiting' = IF to = "backlog" THEN Waiting \union {c} ELSE Waiting \ {c}
  BY <1>2 DEF Waiting
<1> QED
  BY <1>2, <1>3, <1>4

(* The handler at the head of the queue. *)
LEMMA HeadIsQueued ==
  ASSUME TypeOK, QueueOnce, queue # <<>>, Head(queue).op # "no_accept"
  PROVE  Head(queue).conn \in Queued
<1>1. queue \in Seq(Completions)
  BY TypeParts DEF TypeServer
<1>2. 1 \in 1 .. Len(queue) /\ Head(queue) = queue[1]
  BY <1>1, TailHead
<1> QED
  BY <1>2 DEF QueueOnce, OnceIn

(* The connection at the head of the backlog. *)
LEMMA HeadIsWaiting ==
  ASSUME TypeOK, BacklogOnce, backlog # <<>>
  PROVE  Head(backlog) \in Waiting /\ Head(backlog) \in Conns
<1>1. backlog \in Seq(Conns)
  BY DEF TypeOK
<1>2. 1 \in 1 .. Len(backlog) /\ Head(backlog) = backlog[1] /\ backlog[1] \in Conns
  BY <1>1, TailHead
<1> QED
  BY <1>2 DEF BacklogOnce, WaitsIn

(* Initially there is no connection. *)
LEMMA HandlerInit == Init => HandlerInv
<1> SUFFICES ASSUME Init PROVE HandlerInv
  OBVIOUS
<1>1. QueueOnce
  BY DEF Init, QueueOnce, OnceIn, Queued
<1>2. BacklogOnce
  BY DEF Init, BacklogOnce, WaitsIn
<1>3. OneWrite
  BY ConnsAssumption DEF Init, OneWrite, NoWrite
<1> QED
  BY <1>1, <1>2, <1>3 DEF HandlerInv

(* Every step keeps at most one handler of each connection in the queue, *)
LEMMA QueueStep ==
  ASSUME TypeOK, HandlerInv, [Next]_vars
  PROVE  QueueOnce'
<1>0. QueueOnce /\ BacklogOnce /\ OneWrite /\ queue \in Seq(Completions)
  BY TypeParts DEF HandlerInv, TypeServer
<1>1. ASSUME UNCHANGED queue, Queued' = Queued
      PROVE  QueueOnce'
  BY <1>0, <1>1 DEF QueueOnce
<1>2. ASSUME NEW c \in Conns, Connect(c)
      PROVE  QueueOnce'
  <2>1. conn[c] = "none" /\ UNCHANGED queue /\ conn' = [conn EXCEPT ![c] = "backlog"]
    BY <1>0, <1>2 DEF Connect, BacklogOnce
  <2>2. c \notin Queued
    BY <2>1 DEF Queued
  <2>3. Queued' = Queued \ {c}
    BY <2>1, ConnMoves
  <2> QED
    BY <1>1, <2>1, <2>2, <2>3
<1>3. ASSUME AcceptCompletes
      PROVE  QueueOnce'
  <2> DEFINE c == Head(backlog)
  <2>1. c \in Conns /\ c \in Waiting
    BY <1>0, <1>3, HeadIsWaiting DEF AcceptCompletes
  <2>2. c \notin Queued
    BY <2>1 DEF Waiting, Queued
  <2>3. \A op \in {"accept", "no_accept"} :
           /\ Completion(op, c, <<>>) \in Completions
           /\ Completion(op, c, <<>>).op = op
           /\ Completion(op, c, <<>>).conn = c
    BY <2>1 DEF Completion, Completions
  <2>4. CASE /\ queue' = Append(queue, Completion("accept", c, <<>>))
             /\ conn' = [conn EXCEPT ![c] = "queued"]
    <3>1. PICK done \in Completions :
             queue' = Append(queue, done) /\ done.op = "accept" /\ done.conn = c
      BY <2>3, <2>4
    <3>2. Queued' = Queued \union {c}
      BY <2>1, <2>4, ConnMoves
    <3> HIDE DEF c
    <3>3. /\ done.op = "no_accept" => Queued' = Queued
          /\ done.op # "no_accept" => done.conn \notin Queued /\ Queued' = Queued \union {done.conn}
      BY <2>2, <3>1, <3>2
    <3>4. OnceIn(queue, Queued)
      BY <1>0 DEF QueueOnce
    <3>5. OnceIn(queue', Queued')
      BY <1>0, <3>1, <3>3, <3>4, QueuedOnce
    <3> QED
      BY <3>5 DEF QueueOnce
  <2>5. CASE /\ queue' = Append(queue, Completion("no_accept", c, <<>>))
             /\ UNCHANGED conn
    <3>1. PICK done \in Completions : queue' = Append(queue, done) /\ done.op = "no_accept"
      BY <2>3, <2>5
    <3>2. Queued' = Queued
      BY <2>5 DEF Queued
    <3> QED
      BY <1>0, <3>1, <3>2, QueuedOnce DEF QueueOnce
  <2> QED
    BY <1>3, <2>4, <2>5 DEF AcceptCompletes
<1>4. ASSUME NEW c \in Conns, ReadCompletes(c) \/ ReadFails(c)
      PROVE  QueueOnce'
  <2>1. PICK done : /\ queue' = Append(queue, done)
                    /\ \/ done = Completion("read", c, Taken(c)) /\ ReadCompletes(c)
                       \/ done = Completion("no_read", c, <<>>)
    BY <1>4 DEF ReadCompletes, ReadFails
  <2>2. done \in Completions /\ done.op # "no_accept" /\ done.conn = c
    <3>1. CASE done = Completion("read", c, Taken(c)) /\ ReadCompletes(c)
      <4>1. Taken(c) \in Seq(Byte)
        BY TakenType DEF TypeOK
      <4> QED
        BY <3>1, <4>1 DEF Completion, Completions
    <3>2. CASE done = Completion("no_read", c, <<>>)
      BY <3>2 DEF Completion, Completions
    <3> QED
      BY <2>1, <3>1, <3>2
  <2>3. conn[c] = "reading" /\ conn' = [conn EXCEPT ![c] = "queued"]
    BY <1>4 DEF ReadCompletes, ReadFails
  <2>4. c \notin Queued /\ Queued' = Queued \union {c}
    BY <2>3, ConnMoves DEF Queued
  <2>5. /\ done.op = "no_accept" => Queued' = Queued
        /\ done.op # "no_accept" => done.conn \notin Queued /\ Queued' = Queued \union {done.conn}
    BY <2>2, <2>4
  <2>6. OnceIn(queue, Queued) /\ queue' = Append(queue, done) /\ done \in Completions
    BY <1>0, <2>1, <2>2 DEF QueueOnce
  <2>7. OnceIn(queue', Queued')
    BY <1>0, <2>5, <2>6, QueuedOnce
  <2> QED
    BY <2>7 DEF QueueOnce
<1>5. ASSUME NEW c \in Conns, HandleAccept(c) \/ HandleRead(c) \/ HandleNoRead(c)
      PROVE  QueueOnce'
  <2>1. /\ queue # <<>> /\ queue' = Tail(queue)
        /\ Head(queue).op # "no_accept" /\ Head(queue).conn = c
    BY <1>5 DEF HandleAccept, HandleRead, HandleNoRead, Runs
  <2>2. PICK to \in {"reading", "writing", "closed"} : conn' = [conn EXCEPT ![c] = to]
    BY <1>5 DEF HandleAccept, HandleRead, HandleNoRead
  <2>3. Queued' = Queued \ {c}
    BY <2>2, ConnMoves
  <2>4. Queued' = IF Head(queue).op = "no_accept" THEN Queued ELSE Queued \ {Head(queue).conn}
    BY <2>1, <2>3
  <2> QED
    BY <1>0, <2>1, <2>4, TakenOnce DEF QueueOnce
<1>6. ASSUME NEW c \in Conns, HandleNoAccept(c)
      PROVE  QueueOnce'
  <2>1. /\ queue # <<>> /\ queue' = Tail(queue) /\ UNCHANGED conn
        /\ Head(queue).op = "no_accept"
    BY <1>6 DEF HandleNoAccept, Runs
  <2>2. Queued' = Queued
    BY <2>1 DEF Queued
  <2>3. Queued' = IF Head(queue).op = "no_accept" THEN Queued ELSE Queued \ {Head(queue).conn}
    BY <2>1, <2>2
  <2> QED
    BY <1>0, <2>1, <2>3, TakenOnce DEF QueueOnce
<1>7. ASSUME NEW c \in Conns, WriteDone(c)
      PROVE  QueueOnce'
  <2>1. conn[c] = "writing" /\ UNCHANGED queue /\ conn' = [conn EXCEPT ![c] = "reading"]
    BY <1>0, <1>7 DEF WriteDone, OneWrite
  <2>2. c \notin Queued
    BY <2>1 DEF Queued
  <2>3. Queued' = Queued \ {c}
    BY <2>1, ConnMoves
  <2> QED
    BY <1>1, <2>1, <2>2, <2>3
<1>8. ASSUME UNCHANGED <<queue, conn>>
      PROVE  QueueOnce'
  BY <1>1, <1>8 DEF Queued
<1>9. ASSUME NEW c \in Conns, \/ Deliver(c) \/ ClientReads(c) \/ Leave(c) \/ Reset(c)
                              \/ WriteThrows(c) \/ \E p \in Packets : Send(c, p)
      PROVE  UNCHANGED <<queue, conn>>
  BY <1>9 DEF Send, Deliver, ClientReads, Leave, Reset, WriteThrows, server
<1>10. UNCHANGED vars => UNCHANGED <<queue, conn>>
  BY DEF vars, server
<1> QED
  BY <1>2, <1>3, <1>4, <1>5, <1>6, <1>7, <1>8, <1>9, <1>10 DEF Next, Environment, Thread

(* each waiting connection once in the backlog, *)
LEMMA BacklogStep ==
  ASSUME TypeOK, HandlerInv, [Next]_vars
  PROVE  BacklogOnce'
<1>0. /\ QueueOnce /\ BacklogOnce /\ OneWrite
      /\ backlog \in Seq(Conns) /\ WaitsIn(backlog, Waiting)
      /\ \A c \in Conns : peer[c] = "absent" => conn[c] = "none"
      /\ peer \in [Conns -> {"absent", "open", "gone", "reset"}]
  BY DEF HandlerInv, BacklogOnce, TypeOK
<1>1. ASSUME UNCHANGED backlog, \A d \in Conns : peer'[d] = "absent" => peer[d] = "absent",
             NEW c \in Conns, conn[c] \notin {"none", "backlog"}, NEW to, to # "backlog",
             conn' = [conn EXCEPT ![c] = to]
      PROVE  BacklogOnce'
  <2>1. Waiting' = Waiting \ {c} /\ \A d \in Conns : d # c => conn'[d] = conn[d]
    BY <1>1, ConnMoves
  <2>2. c \notin Waiting
    BY <1>1 DEF Waiting
  <2>3. Waiting' = Waiting
    BY <2>1, <2>2
  <2>4. \A d \in Conns : peer'[d] = "absent" => conn'[d] = "none"
    BY <1>0, <1>1, <2>1
  <2> QED
    BY <1>0, <1>1, <2>3, <2>4 DEF BacklogOnce
<1>2. ASSUME UNCHANGED <<backlog, conn>>, \A d \in Conns : peer'[d] = "absent" => peer[d] = "absent"
      PROVE  BacklogOnce'
  <2>1. Waiting' = Waiting
    BY <1>2 DEF Waiting
  <2> QED
    BY <1>0, <1>2, <2>1 DEF BacklogOnce
<1>3. ASSUME NEW c \in Conns, Connect(c)
      PROVE  BacklogOnce'
  <2>1. /\ conn[c] = "none" /\ backlog' = Append(backlog, c)
        /\ conn' = [conn EXCEPT ![c] = "backlog"] /\ peer' = [peer EXCEPT ![c] = "open"]
    BY <1>0, <1>3 DEF Connect
  <2>2. c \notin Waiting
    BY <2>1 DEF Waiting
  <2>3. Waiting' = Waiting \union {c} /\ \A d \in Conns : d # c => conn'[d] = conn[d]
    BY <2>1, ConnMoves
  <2>4. WaitsIn(backlog', Waiting')
    BY <1>0, <2>1, <2>2, <2>3, EntersOnce
  <2>5. \A d \in Conns : peer'[d] = "absent" => conn'[d] = "none"
    BY <1>0, <2>1, <2>3
  <2> QED
    BY <2>4, <2>5 DEF BacklogOnce
<1>4. ASSUME AcceptCompletes
      PROVE  BacklogOnce'
  <2>0. UNCHANGED peer /\ backlog # <<>>
    BY <1>4 DEF AcceptCompletes, client
  <2>1. CASE UNCHANGED <<backlog, conn>>
    BY <1>2, <2>0, <2>1
  <2>2. CASE /\ backlog' = Tail(backlog)
             /\ conn' = [conn EXCEPT ![Head(backlog)] = "queued"]
    <3>1. Head(backlog) \in Conns /\ conn[Head(backlog)] = "backlog"
      BY <1>0, <2>0, HeadIsWaiting DEF Waiting
    <3>2. Waiting' = Waiting \ {Head(backlog)} /\ \A d \in Conns : d # Head(backlog) => conn'[d] = conn[d]
      BY <2>2, <3>1, ConnMoves
    <3>3. WaitsIn(backlog', Waiting')
      BY <1>0, <2>0, <2>2, <3>2, LeavesOnce
    <3>4. \A d \in Conns : peer'[d] = "absent" => conn'[d] = "none"
      BY <1>0, <2>0, <3>1, <3>2
    <3> QED
      BY <3>3, <3>4 DEF BacklogOnce
  <2> QED
    BY <1>4, <2>1, <2>2 DEF AcceptCompletes
<1>5. ASSUME NEW c \in Conns, ReadCompletes(c) \/ ReadFails(c)
      PROVE  BacklogOnce'
  <2>1. /\ UNCHANGED <<backlog, peer>> /\ conn[c] = "reading"
        /\ conn' = [conn EXCEPT ![c] = "queued"]
    BY <1>5 DEF ReadCompletes, ReadFails, client
  <2> QED
    BY <1>1, <2>1
<1>6. ASSUME NEW c \in Conns, HandleAccept(c) \/ HandleRead(c) \/ HandleNoRead(c)
      PROVE  BacklogOnce'
  <2>1. /\ queue # <<>> /\ Head(queue).op # "no_accept" /\ Head(queue).conn = c
        /\ UNCHANGED <<backlog, peer>>
    BY <1>6 DEF HandleAccept, HandleRead, HandleNoRead, Runs, client
  <2>2. PICK to \in {"reading", "writing", "closed"} : conn' = [conn EXCEPT ![c] = to]
    BY <1>6 DEF HandleAccept, HandleRead, HandleNoRead
  <2>3. conn[c] = "queued"
    BY <1>0, <2>1, HeadIsQueued DEF Queued
  <2> QED
    BY <1>1, <2>1, <2>2, <2>3
<1>7. ASSUME NEW c \in Conns, WriteDone(c)
      PROVE  BacklogOnce'
  <2>1. /\ conn[c] = "writing" /\ UNCHANGED <<backlog, peer>>
        /\ conn' = [conn EXCEPT ![c] = "reading"]
    BY <1>0, <1>7 DEF WriteDone, OneWrite, client
  <2> QED
    BY <1>1, <2>1
<1>8. ASSUME NEW c \in Conns, \/ Deliver(c) \/ ClientReads(c) \/ Leave(c) \/ Reset(c)
                              \/ WriteThrows(c) \/ HandleNoAccept(c)
                              \/ \E p \in Packets : Send(c, p)
      PROVE  BacklogOnce'
  <2>1. UNCHANGED <<backlog, conn>>
    BY <1>8 DEF Send, Deliver, ClientReads, Leave, Reset, WriteThrows, HandleNoAccept, server
  <2>2. \/ UNCHANGED peer
        \/ \E to \in {"gone", "reset"} : peer' = [peer EXCEPT ![c] = to]
    BY <1>8 DEF Send, Deliver, ClientReads, Leave, Reset, WriteThrows, HandleNoAccept, client
  <2>3. \A d \in Conns : peer'[d] = "absent" => peer[d] = "absent"
    BY <1>0, <2>2
  <2> QED
    BY <1>2, <2>1, <2>3
<1>9. UNCHANGED vars => UNCHANGED <<backlog, conn, peer>>
  BY DEF vars, server, client
<1> QED
  BY <1>2, <1>3, <1>4, <1>5, <1>6, <1>7, <1>8, <1>9 DEF Next, Environment, Thread

(* and no connection in a handler but the one whose write waits. *)
LEMMA OneWriteStep ==
  ASSUME TypeOK, HandlerInv, [Next]_vars
  PROVE  OneWrite'
<1>0. /\ BacklogOnce /\ QueueOnce /\ OneWrite
      /\ conn \in [Conns -> {"none", "backlog", "queued", "reading", "writing", "closed"}]
      /\ NoWrite.conn \notin Conns
  BY ConnsAssumption DEF HandlerInv, TypeOK, NoWrite
<1>1. ASSUME UNCHANGED writing, NEW c \in Conns, conn[c] # "writing", NEW state, state # "writing",
             conn' = conn \/ conn' = [conn EXCEPT ![c] = state]
      PROVE  OneWrite'
  BY <1>0, <1>1 DEF OneWrite
<1>2. ASSUME UNCHANGED <<writing, conn>>
      PROVE  OneWrite'
  BY <1>0, <1>2 DEF OneWrite
<1>3. ASSUME NEW c \in Conns, Connect(c)
      PROVE  OneWrite'
  <2>1. conn[c] = "none" /\ UNCHANGED writing /\ conn' = [conn EXCEPT ![c] = "backlog"]
    BY <1>0, <1>3 DEF Connect, BacklogOnce
  <2> QED
    BY <1>1, <2>1
<1>4. ASSUME AcceptCompletes
      PROVE  OneWrite'
  <2>1. backlog # <<>> /\ UNCHANGED writing
    BY <1>4 DEF AcceptCompletes
  <2>3. Head(backlog) \in Conns /\ conn[Head(backlog)] = "backlog"
    BY <1>0, <2>1, HeadIsWaiting DEF Waiting
  <2>4. conn' = conn \/ conn' = [conn EXCEPT ![Head(backlog)] = "queued"]
    BY <1>4 DEF AcceptCompletes
  <2> QED
    BY <1>1, <2>1, <2>3, <2>4
<1>5. ASSUME NEW c \in Conns, ReadCompletes(c) \/ ReadFails(c)
      PROVE  OneWrite'
  <2>1. UNCHANGED writing /\ conn[c] = "reading" /\ conn' = [conn EXCEPT ![c] = "queued"]
    BY <1>5 DEF ReadCompletes, ReadFails
  <2> QED
    BY <1>1, <2>1
<1>6. ASSUME NEW c \in Conns, HandleAccept(c) \/ HandleRead(c) \/ HandleNoRead(c)
      PROVE  OneWrite'
  <2>1. writing = NoWrite
    BY <1>6 DEF HandleAccept, HandleRead, HandleNoRead, Runs
  <2>2. \A d \in Conns : conn[d] # "writing" /\ writing.conn # d
    BY <1>0, <2>1 DEF OneWrite
  <2>3. \/ /\ UNCHANGED writing
           /\ \E state \in {"reading", "closed"} : conn' = [conn EXCEPT ![c] = state]
        \/ writing'.conn = c /\ conn' = [conn EXCEPT ![c] = "writing"]
    <3>1. CASE HandleAccept(c) \/ HandleNoRead(c)
      BY <3>1 DEF HandleAccept, HandleNoRead
    <3>2. CASE HandleRead(c)
      BY <3>2 DEF HandleRead
    <3> QED
      BY <1>6, <3>1, <3>2
  <2> QED
    BY <1>0, <2>2, <2>3 DEF OneWrite
<1>7. ASSUME NEW c \in Conns, WriteDone(c)
      PROVE  OneWrite'
  <2>1. writing.conn = c /\ writing' = NoWrite /\ conn' = [conn EXCEPT ![c] = "reading"]
    BY <1>7 DEF WriteDone
  <2> QED
    BY <1>0, <2>1 DEF OneWrite
<1>8. ASSUME NEW c \in Conns, \/ Deliver(c) \/ ClientReads(c) \/ Leave(c) \/ Reset(c)
                              \/ WriteThrows(c) \/ HandleNoAccept(c)
                              \/ \E p \in Packets : Send(c, p)
      PROVE  UNCHANGED <<writing, conn>>
  BY <1>8 DEF Send, Deliver, ClientReads, Leave, Reset, WriteThrows, HandleNoAccept, server
<1>9. UNCHANGED vars => UNCHANGED <<writing, conn>>
  BY DEF vars, server
<1> QED
  BY <1>2, <1>3, <1>4, <1>5, <1>6, <1>7, <1>8, <1>9 DEF Next, Environment, Thread

(* Counted, this is OneOperation. *)
LEMMA HandlerIsEnough == TypeOK /\ HandlerInv => OneOperation
<1> SUFFICES ASSUME TypeOK, HandlerInv, NEW c \in Conns
             PROVE  Cardinality({i \in DOMAIN queue : queue[i].conn = c /\ queue[i].op # "no_accept"})
                       = IF conn[c] = "queued" THEN 1 ELSE 0
  BY DEF OneOperation, HandlerInv, OneWrite
<1> DEFINE mine == {i \in DOMAIN queue : queue[i].conn = c /\ queue[i].op # "no_accept"}
<1>0. \A i : i \in mine <=> (i \in 1 .. Len(queue) /\ queue[i].conn = c /\ queue[i].op # "no_accept")
  <2>1. DOMAIN queue = 1 .. Len(queue)
    BY LenProperties DEF TypeOK
  <2> QED
    BY <2>1
<1>1. OnceIn(queue, Queued)
  BY DEF HandlerInv, QueueOnce
<1> HIDE DEF mine
<1>2. CASE conn[c] = "queued"
  <2>1. c \in Queued
    BY <1>2 DEF Queued
  <2>2. PICK i \in 1 .. Len(queue) : queue[i].op # "no_accept" /\ queue[i].conn = c
    BY <1>1, <2>1 DEF OnceIn
  <2>3. \A j \in mine : j = i
    BY <1>0, <1>1, <2>2 DEF OnceIn
  <2>4. mine = {i}
    BY <1>0, <2>2, <2>3
  <2>5. Cardinality({i}) = 1
    BY FS_Singleton
  <2> QED
    BY <1>2, <2>4, <2>5 DEF mine
<1>3. CASE conn[c] # "queued"
  <2>1. c \notin Queued
    BY <1>3 DEF Queued
  <2>2. ASSUME NEW i \in mine
        PROVE  FALSE
    <3>1. i \in 1 .. Len(queue) /\ queue[i].conn = c /\ queue[i].op # "no_accept"
      BY <1>0, <2>2
    <3>2. queue[i].conn \in Queued
      BY <1>1, <3>1 DEF OnceIn
    <3> QED
      BY <2>1, <3>1, <3>2
  <2>3. mine = {}
    BY <2>2
  <2> QED
    BY <1>3, <2>3, FS_EmptySet DEF mine
<1> QED
  BY <1>2, <1>3

(* At most one connection is in a handler, and no other has two pending. *)
THEOREM OneHandlerAtATime == Spec => []OneOperation
<1>1. TypeOK /\ HandlerInv /\ [Next]_vars => HandlerInv'
  BY QueueStep, BacklogStep, OneWriteStep DEF HandlerInv
<1> QED
  BY TypeCorrect, HandlerInit, HandlerIsEnough, <1>1, PTL DEF Spec

-----------------------------------------------------------------------------
(* Answers.  A reported CONNECT or SUBSCRIBE is answered, or its answer is *)
(* being written; for this the write must be of an answer to the packet it *)
(* carries, and that packet must have been reported.                       *)
AnswerKinds == {"none", "CONNACK", "PINGRESP", "SUBACK", "SUBACK_of_nothing"}

AnswerTypes == answers \in [Conns -> Seq(AnswerKinds)] /\ writing.answer \in AnswerKinds

Asks == {"CONNECT", "SUBSCRIBE"}

Replies == {"CONNACK", "SUBACK", "SUBACK_of_nothing"}

Reported(entries, c) == {e \in entries : e.conn = c /\ e.at > 0 /\ e.event \in Asks}

Given(c) == Cardinality(Places(answers[c], Replies))

Owed(c) == IF writing.conn = c /\ writing.answer # "PINGRESP" THEN 1 ELSE 0

Wildcard == "MQTT_WILDCARD_SUBSCRIPTION"

ReportedIsAnswered == \A c \in Conns : Cardinality(Reported(log, c)) = Given(c) + Owed(c)

WriteAnswers ==
    writing.conn \in Conns =>
        /\ writing.answer \in Answer(writing.kind)
        /\ LateAttack(writing.kind) # {} =>
              \E e \in log : /\ e.conn = writing.conn /\ e.at = reads[writing.conn] /\ e.at > 0
                             /\ e.event = "SUBSCRIBE"

WildcardFollows ==
    \A e \in log : e.event = Wildcard =>
        \E f \in log : f.conn = e.conn /\ f.at = e.at /\ f.at > 0 /\ f.event = "SUBSCRIBE"

AnswerInv == ReportedIsAnswered /\ WriteAnswers /\ WildcardFollows

(* A packet is reported as a CONNECT or a SUBSCRIBE exactly when it gets   *)
(* an answer of that kind; the only other answer is a PINGRESP.            *)
LEMMA AskedIsAnswered ==
  ASSUME NEW k \in Kinds
  PROVE  \/ Activity(k) \cap Asks = {} /\ Answer(k) \subseteq {"PINGRESP"}
         \/ /\ Activity(k) = {k.type} /\ k.type \in Asks
            /\ Answer(k) # {} /\ Answer(k) \subseteq Replies
<1>1. k.type \in {"PUBLISH", "SUBSCRIBE"} \/ k.topic = "unknown"
  BY DEF Kinds
<1>2. CASE k.type = "CONNECT"
  <2>1. k.topic # "malformed"
    BY <1>1, <1>2
  <2> QED
    BY <1>2, <2>1 DEF Activity, Answer, Asks, Replies
<1>3. CASE k.type = "SUBSCRIBE" /\ k.topic # "malformed"
  BY <1>3 DEF Activity, Answer, Asks, Replies
<1>4. CASE k.type = "SUBSCRIBE" /\ k.topic = "malformed"
  BY <1>4 DEF Activity, Answer
<1>5. CASE k.type \notin Asks
  BY <1>5 DEF Activity, Answer, Asks
<1> QED
  BY <1>2, <1>3, <1>4, <1>5 DEF Asks

(* Every answer is one of five, or none. *)
LEMMA AnswerTypesInit == Init => AnswerTypes
BY DEF Init, AnswerTypes, NoWrite, AnswerKinds

(* and stays so: only a write gives one. *)
LEMMA AnswerTypesStep ==
  ASSUME AnswerTypes, [Next]_vars
  PROVE  AnswerTypes'
<1>1. ASSUME UNCHANGED <<answers, writing>>
      PROVE  AnswerTypes'
  BY <1>1 DEF AnswerTypes
<1>2. ASSUME NEW c \in Conns, WriteDone(c)
      PROVE  AnswerTypes'
  <2>1. /\ answers' = [answers EXCEPT ![c] = Append(@, writing.answer)]
        /\ writing'.answer = "none"
    BY <1>2 DEF WriteDone, NoWrite
  <2>2. Append(answers[c], writing.answer) \in Seq(AnswerKinds)
    BY AppendProperties DEF AnswerTypes
  <2> QED
    BY <2>1, <2>2 DEF AnswerTypes, AnswerKinds
<1>3. ASSUME NEW c \in Conns, HandleRead(c)
      PROVE  AnswerTypes'
  <2> DEFINE k == KindOf(Head(queue).data)
  <2>1. /\ UNCHANGED answers
        /\ \/ \E a \in Answer(k) : writing' = [conn |-> c, answer |-> a, kind |-> k]
           \/ UNCHANGED writing
    BY <1>3 DEF HandleRead
  <2> HIDE DEF k
  <2>2. Answer(k) \subseteq AnswerKinds
    BY DEF Answer, AnswerKinds
  <2>3. writing'.answer \in AnswerKinds
    BY <2>1, <2>2 DEF AnswerTypes
  <2> QED
    BY <2>1, <2>3 DEF AnswerTypes
<1>4. ASSUME NEW c \in Conns, \/ Environment(c) \/ ReadCompletes(c) \/ ReadFails(c)
                              \/ HandleAccept(c) \/ HandleNoAccept(c) \/ HandleNoRead(c)
                              \/ WriteThrows(c)
      PROVE  UNCHANGED <<answers, writing>>
  BY <1>4 DEF Environment, Connect, Send, Deliver, ClientReads, Leave, Reset, ReadCompletes,
              ReadFails, HandleAccept, HandleNoAccept, HandleNoRead, WriteThrows
<1>5. AcceptCompletes \/ UNCHANGED vars => UNCHANGED <<answers, writing>>
  BY DEF AcceptCompletes, vars
<1> QED
  BY <1>1, <1>2, <1>3, <1>4, <1>5 DEF Next, Thread

(* Initially nothing is reported and nothing answered. *)
LEMMA AnswerInit == Init => AnswerInv
<1> SUFFICES ASSUME Init PROVE AnswerInv
  OBVIOUS
<1>1. /\ \A c \in Conns : Reported(log, c) = {} /\ answers[c] = <<>> /\ writing.conn # c
      /\ writing.conn \notin Conns /\ log = {}
  BY ConnsAssumption DEF Init, Reported, NoWrite
<1>2. \A c \in Conns : Given(c) = 0 /\ Owed(c) = 0
  BY <1>1, PlacesEmpty DEF Given, Owed
<1>3. \A c \in Conns : Cardinality(Reported(log, c)) = 0
  BY <1>1, FS_EmptySet
<1> QED
  BY <1>1, <1>2, <1>3 DEF AnswerInv, ReportedIsAnswered, WriteAnswers, WildcardFollows

(* Accepting reports nothing that is answered. *)
LEMMA AnswerAccept ==
  ASSUME TypeOK, AnswerInv, NEW c \in Conns, HandleAccept(c)
  PROVE  AnswerInv'
<1>1. /\ log' = log \union Entries(c, 0, {"CONNECT"})
      /\ UNCHANGED <<answers, writing, reads>>
  BY DEF HandleAccept
<1>2. \A e \in Entries(c, 0, {"CONNECT"}) : e.at = 0 /\ e.event # Wildcard
  BY DEF Entries, Wildcard
<1>3. \A d \in Conns : Reported(log', d) = Reported(log, d)
  BY <1>1, <1>2 DEF Reported
<1>4. ReportedIsAnswered'
  BY <1>1, <1>3 DEF AnswerInv, ReportedIsAnswered, Given, Owed
<1>5. WriteAnswers'
  BY <1>1 DEF AnswerInv, WriteAnswers
<1>6. WildcardFollows'
  BY <1>1, <1>2 DEF AnswerInv, WildcardFollows
<1> QED
  BY <1>4, <1>5, <1>6 DEF AnswerInv

(* A read reports a packet under a new number; the answer is written next. *)
LEMMA AnswerRead ==
  ASSUME TypeOK, AnswerTypes, LogInv, AnswerInv, NEW c \in Conns, HandleRead(c)
  PROVE  AnswerInv'
<1> DEFINE k == KindOf(Head(queue).data)
           n == reads[c] + 1
           new == Entries(c, n, Activity(k) \union Attack(k))
<1>1. k \in Kinds
  BY KindType
<1>2. /\ log' = log \union new
      /\ reads' = [reads EXCEPT ![c] = n]
      /\ writing = NoWrite /\ UNCHANGED answers
      /\ \/ \E a \in Answer(k) : writing' = [conn |-> c, answer |-> a, kind |-> k]
         \/ Answer(k) = {} /\ UNCHANGED writing
  BY DEF HandleRead, Runs, TypeOK
<1>3. /\ reads \in [Conns -> Nat] /\ NoWrite.conn \notin Conns
      /\ log \subseteq [conn : Conns, at : Nat, event : Attacks \union Types]
  BY ConnsAssumption DEF TypeOK, NoWrite
<1> HIDE DEF k
<1>4. /\ \/ Activity(k) \cap Asks = {} /\ Answer(k) \subseteq {"PINGRESP"}
         \/ Activity(k) = {k.type} /\ k.type \in Asks /\ Answer(k) # {} /\ Answer(k) \subseteq Replies
      /\ Activity(k) \subseteq Types /\ Attack(k) \subseteq Attacks
  BY <1>1, AskedIsAnswered, EventsOfKind, Zenon
<1>5. /\ Attacks \cap Asks = {} /\ Wildcard \notin Types /\ Wildcard \notin Attack(k)
      /\ "PINGRESP" \notin Replies
  BY DEF Attacks, Asks, Types, Wildcard, Attack, Replies
<1>6. n \in Nat /\ n > 0 /\ \A e \in log : ~ (e.conn = c /\ e.at = n)
  BY <1>3 DEF LogInv
<1>7. reads'[c] = n /\ \A d \in Conns : writing.conn # d
  BY <1>2, <1>3
<1> HIDE DEF n
<1>8. \A e \in new : e.conn = c /\ e.at = n /\ e.event \in Activity(k) \union Attack(k)
  BY DEF Entries
<1>9. \A x \in Activity(k) : [conn |-> c, at |-> n, event |-> x] \in new
  BY DEF Entries
<1>10. \A e \in new : e = [conn |-> c, at |-> n, event |-> e.event]
  BY DEF Entries
<1> HIDE DEF new
<1>11. \A d \in Conns : d # c => Reported(log', d) = Reported(log, d) /\ Owed(d)' = Owed(d)
  <2>1. \A d \in Conns : d # c => Reported(log', d) = Reported(log, d)
    BY <1>2, <1>8 DEF Reported
  <2>2. \A d \in Conns : d # c => writing'.conn # d
    BY <1>2, <1>7
  <2> QED
    BY <1>7, <2>1, <2>2 DEF Owed
<1>12. Cardinality(Reported(log', c)) = Given(c) + Owed(c)'
  <2>0. Cardinality(Reported(log, c)) = Given(c) /\ Given(c) \in Nat
    <3>1. Cardinality(Reported(log, c)) = Given(c) + Owed(c) /\ Owed(c) = 0
      BY <1>7 DEF AnswerInv, ReportedIsAnswered, Owed
    <3>2. Cardinality(Reported(log, c)) \in Nat
      BY FS_Subset, FS_CardinalityType DEF LogInv, Reported
    <3>3. Given(c) \in Nat
      BY PlacesFinite DEF Given, AnswerTypes
    <3> QED
      BY <3>1, <3>2, <3>3
  <2>1. CASE Activity(k) \cap Asks = {} /\ Answer(k) \subseteq {"PINGRESP"}
    <3>1. Reported(log', c) = Reported(log, c)
      BY <1>2, <1>4, <1>5, <1>8, <2>1 DEF Reported
    <3>2. Owed(c)' = 0
      BY <1>2, <1>7, <2>1 DEF Owed
    <3> QED
      BY <2>0, <3>1, <3>2
  <2>2. CASE Activity(k) = {k.type} /\ k.type \in Asks /\ Answer(k) # {} /\ Answer(k) \subseteq Replies
    <3> DEFINE entry == [conn |-> c, at |-> n, event |-> k.type]
    <3>1. /\ entry \in new /\ entry.conn = c /\ entry.at = n /\ entry.event = k.type
          /\ \A e \in new : e.event \in Asks => e = entry
      <4>1. \A e \in new : e.event \in Asks => e.event = k.type
        BY <1>4, <1>5, <1>8, <2>2
      <4> QED
        BY <1>9, <1>10, <2>2, <4>1
    <3> HIDE DEF entry
    <3>2. entry \notin Reported(log, c)
      BY <1>6, <3>1 DEF Reported
    <3>3. Reported(log', c) = Reported(log, c) \union {entry}
      BY <1>2, <1>6, <1>8, <2>2, <3>1 DEF Reported
    <3>4. IsFiniteSet(Reported(log, c))
      BY FS_Subset DEF LogInv, Reported
    <3>5. Cardinality(Reported(log', c)) = Cardinality(Reported(log, c)) + 1
      BY <3>2, <3>3, <3>4, OneMore
    <3>6. Owed(c)' = 1
      BY <1>2, <1>5, <2>2 DEF Owed
    <3> QED
      BY <2>0, <3>5, <3>6
  <2> QED
    BY <1>4, <2>1, <2>2
<1>13. ReportedIsAnswered'
  <2>1. \A d \in Conns : Given(d)' = Given(d)
    BY <1>2 DEF Given
  <2> QED
    BY <1>11, <1>12, <2>1 DEF AnswerInv, ReportedIsAnswered
<1>14. WriteAnswers'
  <2>1. CASE UNCHANGED writing
    BY <1>7, <2>1 DEF WriteAnswers
  <2>2. CASE \E a \in Answer(k) : writing' = [conn |-> c, answer |-> a, kind |-> k]
    <3>1. writing'.conn = c /\ writing'.answer \in Answer(k) /\ writing'.kind = k
      BY <2>2
    <3>2. ASSUME LateAttack(k) # {}
          PROVE  \E e \in log' : e.conn = c /\ e.at = n /\ e.at > 0 /\ e.event = "SUBSCRIBE"
      <4>1. k.type = "SUBSCRIBE" /\ k.topic = "wildcard"
        BY <3>2 DEF LateAttack
      <4>2. Activity(k) = {"SUBSCRIBE"}
        BY <4>1 DEF Activity
      <4>3. [conn |-> c, at |-> n, event |-> "SUBSCRIBE"] \in log'
        BY <1>2, <1>9, <4>2
      <4> QED
        BY <1>6, <4>3
    <3> QED
      BY <1>7, <3>1, <3>2 DEF WriteAnswers
  <2> QED
    BY <1>2, <2>1, <2>2
<1>15. WildcardFollows'
  <2>1. \A e \in new : e.event # Wildcard
    BY <1>4, <1>5, <1>8
  <2> QED
    BY <1>2, <2>1 DEF AnswerInv, WildcardFollows
<1> QED
  BY <1>13, <1>14, <1>15 DEF AnswerInv

(* When the write returns its answer is given, and a wildcard reported.    *)
LEMMA AnswerWritten ==
  ASSUME TypeOK, AnswerTypes, LogInv, AnswerInv, NEW c \in Conns, WriteDone(c)
  PROVE  AnswerInv'
<1> DEFINE late == Entries(c, reads[c], LateAttack(writing.kind))
<1>1. /\ log' = log \union late
      /\ writing.conn = c /\ writing'.conn \notin Conns
      /\ answers' = [answers EXCEPT ![c] = Append(@, writing.answer)]
      /\ UNCHANGED reads
  BY ConnsAssumption DEF WriteDone, NoWrite
<1>2. /\ answers \in [Conns -> Seq(AnswerKinds)] /\ writing.answer \in AnswerKinds
      /\ writing.kind \in Kinds
  BY DEF AnswerTypes, TypeOK
<1>3. \A e \in late : e.conn = c /\ e.at = reads[c] /\ e.event = Wildcard /\ LateAttack(writing.kind) # {}
  BY DEF Entries, LateAttack, Wildcard
<1> HIDE DEF late
<1>4. \A d \in Conns : Reported(log', d) = Reported(log, d)
  BY <1>1, <1>3 DEF Reported, Asks, Wildcard
<1>5. Given(c)' = Given(c) + Owed(c) /\ Owed(c)' = 0
  <2>1. writing.answer \in Replies \/ writing.answer = "PINGRESP"
    <3>1. writing.answer \in Answer(writing.kind)
      BY <1>1 DEF AnswerInv, WriteAnswers
    <3> QED
      BY <1>2, <3>1, AskedIsAnswered
  <2>2. "PINGRESP" \notin Replies
    BY DEF Replies
  <2>3. Cardinality(Places(Append(answers[c], writing.answer), Replies))
           = IF writing.answer \in Replies THEN Given(c) + 1 ELSE Given(c)
    BY <1>2, PlacesAppend DEF Given
  <2>4. answers'[c] = Append(answers[c], writing.answer)
    BY <1>1, <1>2
  <2>5. Given(c) \in Nat
    BY <1>2, PlacesFinite DEF Given
  <2>6. Owed(c)' = 0
    BY <1>1 DEF Owed
  <2>7. Owed(c) = IF writing.answer \in Replies THEN 1 ELSE 0
    BY <1>1, <2>1, <2>2 DEF Owed
  <2>8. Given(c)' = IF writing.answer \in Replies THEN Given(c) + 1 ELSE Given(c)
    BY <2>3, <2>4 DEF Given
  <2> QED
    BY <2>5, <2>6, <2>7, <2>8
<1>6. ASSUME NEW d \in Conns, d # c
      PROVE  Given(d)' = Given(d) /\ Owed(d)' = Owed(d)
  <2>1. answers'[d] = answers[d] /\ writing.conn # d /\ writing'.conn # d
    BY <1>1, <1>2, <1>6
  <2> QED
    BY <2>1 DEF Given, Owed
<1>7. ReportedIsAnswered'
  <2>1. Given(c) + Owed(c) = Given(c)' + Owed(c)'
    <3>1. Given(c) \in Nat /\ Owed(c) \in Nat
      BY <1>2, PlacesFinite DEF Given, Owed
    <3> QED
      BY <1>5, <3>1
  <2> QED
    BY <1>4, <1>6, <2>1 DEF AnswerInv, ReportedIsAnswered
<1>8. WriteAnswers'
  BY <1>1 DEF WriteAnswers
<1>9. WildcardFollows'
  <2>1. ASSUME NEW e \in late
        PROVE  \E f \in log : f.conn = e.conn /\ f.at = e.at /\ f.at > 0 /\ f.event = "SUBSCRIBE"
    BY <1>1, <1>3 DEF AnswerInv, WriteAnswers
  <2> QED
    BY <1>1, <2>1 DEF AnswerInv, WildcardFollows
<1> QED
  BY <1>7, <1>8, <1>9 DEF AnswerInv

(* Every step keeps answers and reports together. *)
LEMMA AnswerStep ==
  ASSUME TypeOK, AnswerTypes, LogInv, AnswerInv, [Next]_vars
  PROVE  AnswerInv'
<1>1. ASSUME UNCHANGED <<log, reads, writing, answers>>
      PROVE  AnswerInv'
  BY <1>1 DEF AnswerInv, ReportedIsAnswered, WriteAnswers, WildcardFollows, Given, Owed
<1>2. ASSUME NEW c \in Conns, Environment(c) \/ ReadCompletes(c) \/ ReadFails(c)
      PROVE  UNCHANGED <<log, reads, writing, answers>>
  BY <1>2 DEF Environment, Connect, Send, Deliver, ClientReads, Leave, Reset, ReadCompletes,
              ReadFails, report
<1>3. ASSUME NEW c \in Conns, HandleNoAccept(c) \/ HandleNoRead(c) \/ WriteThrows(c)
      PROVE  UNCHANGED <<log, reads, writing, answers>>
  BY <1>3 DEF HandleNoAccept, HandleNoRead, WriteThrows, report
<1>4. AcceptCompletes \/ UNCHANGED vars => UNCHANGED <<log, reads, writing, answers>>
  BY DEF AcceptCompletes, vars, report
<1> QED
  BY <1>1, <1>2, <1>3, <1>4, AnswerAccept, AnswerRead, AnswerWritten DEF Next, Thread

(* With the kinds of the answers this is AnswersMatchLog. *)
LEMMA AnswerIsEnough == TypeOK /\ AnswerTypes /\ LogInv /\ AnswerInv => AnswersMatchLog
<1> SUFFICES ASSUME TypeOK, AnswerTypes, LogInv, AnswerInv, NEW c \in Conns
             PROVE  /\ Cardinality({e \in log : e.conn = c /\ e.at > 0 /\ e.event \in {"CONNECT", "SUBSCRIBE"}})
                          = Count(c, {"CONNACK", "SUBACK", "SUBACK_of_nothing"})
                            + IF writing.conn = c /\ writing.answer # "PINGRESP" THEN 1 ELSE 0
                    /\ \A e \in log :
                          (e.conn = c /\ e.event = "MQTT_WILDCARD_SUBSCRIPTION") =>
                              /\ [e EXCEPT !.event = "SUBSCRIBE"]
                                    \in {f \in log : f.conn = c /\ f.at > 0 /\ f.event \in {"CONNECT", "SUBSCRIBE"}}
                              /\ ~ (writing.conn = c /\ e.at = reads[c])
  BY DEF AnswersMatchLog
<1>1. Count(c, Replies) = Given(c)
  <2>1. answers[c] \in Seq(AnswerKinds)
    BY DEF AnswerTypes
  <2>2. DOMAIN answers[c] = 1 .. Len(answers[c])
    BY <2>1, LenProperties
  <2> QED
    BY <2>2 DEF Count, Given, Places
<1>2. Cardinality(Reported(log, c)) = Given(c) + Owed(c)
  BY DEF AnswerInv, ReportedIsAnswered
<1>3. ASSUME NEW e \in log, e.conn = c, e.event = Wildcard
      PROVE  /\ [e EXCEPT !.event = "SUBSCRIBE"] \in Reported(log, c)
             /\ ~ (writing.conn = c /\ e.at = reads[c])
  <2>1. PICK f \in log : f.conn = e.conn /\ f.at = e.at /\ f.at > 0 /\ f.event = "SUBSCRIBE"
    BY <1>3 DEF AnswerInv, WildcardFollows
  <2>2. log \subseteq [conn : Conns, at : Nat, event : Attacks \union Types]
    BY DEF TypeOK
  <2>3. [e EXCEPT !.event = "SUBSCRIBE"] = f
    BY <2>1, <2>2
  <2>4. f \in Reported(log, c)
    BY <1>3, <2>1 DEF Reported, Asks
  <2>5. ~ (writing.conn = c /\ e.at = reads[c])
    BY <1>3 DEF LogInv, Wildcard
  <2> QED
    BY <2>3, <2>4, <2>5
<1> QED
  BY <1>1, <1>2, <1>3 DEF Reported, Asks, Replies, Owed, Wildcard

(* Every reported CONNECT and SUBSCRIBE has been answered, except the one  *)
(* whose answer is being written, and a wildcard is reported after the     *)
(* answer (process_mqtt_packet).                                           *)
THEOREM AnswersFollowReports == Spec => []AnswersMatchLog
<1>1. TypeOK /\ CounterInv /\ [Next]_vars => CounterInv'
  BY CounterStep
<1>2. TypeOK /\ AnswerTypes /\ [Next]_vars => AnswerTypes'
  BY AnswerTypesStep
<1>3. TypeOK /\ AnswerTypes /\ CounterInv /\ AnswerInv /\ [Next]_vars => AnswerInv'
  BY AnswerStep DEF CounterInv
<1>4. TypeOK /\ AnswerTypes /\ CounterInv /\ AnswerInv => AnswersMatchLog
  BY AnswerIsEnough DEF CounterInv
<1> QED
  BY TypeCorrect, CounterInit, AnswerTypesInit, AnswerInit, <1>1, <1>2, <1>3, <1>4, PTL DEF Spec

-----------------------------------------------------------------------------
(* Accusations.  The bytes of a read are followed on their way: into the   *)
(* queue, where no other read of the connection stands, to the write and   *)
(* to the log.                                                             *)
IsRead(d, c) == d.op = "read" /\ d.conn = c

QueueTaken ==
    /\ \A d \in Members(queue) : d.op = "read" =>
          /\ Len(received[d.conn]) = reads[d.conn] + 1
          /\ received[d.conn][reads[d.conn] + 1] = d.data
    /\ \A c \in Conns :
          (\A d \in Members(queue) : ~ IsRead(d, c)) => Len(received[c]) = reads[c]

WriteTaken ==
    writing.conn \in Conns =>
        /\ reads[writing.conn] > 0
        /\ writing.kind = KindOf(received[writing.conn][reads[writing.conn]])

Late(c, i, k) == IF writing.conn = c /\ i = reads[c] THEN {} ELSE LateAttack(k)

Deserved(c, i) ==
    Attack(KindOf(received[c][i])) \union Late(c, i, KindOf(received[c][i]))

Charged == \A c \in Conns : \A i \in 1 .. reads[c] : Charges(c, i) = Deserved(c, i)

ShortRead(c) ==
    \E i \in 1 .. reads[c] : Len(received[c][i]) < 4 /\ TypeOf(received[c][i]) = "SUBSCRIBE"

NothingBacked == \A c \in Conns : "SUBACK_of_nothing" \in Members(answers[c]) => ShortRead(c)

AccusedInv == QueueTaken /\ WriteTaken /\ Charged /\ NothingBacked

(* What the other sections have shown, and what is used of it here. *)
KnownInv == TypeOK /\ CounterInv /\ HandlerInv /\ AnswerTypes /\ AnswerInv

(* Every read of the past is among those received. *)
LEMMA ReadsAreReceived ==
  ASSUME KnownInv, QueueTaken, NEW c \in Conns
  PROVE  /\ reads[c] \in Nat /\ received[c] \in Seq(Seq(Byte))
         /\ Len(received[c]) \in Nat /\ reads[c] <= Len(received[c])
<1>1. reads[c] \in Nat /\ received[c] \in Seq(Seq(Byte))
  BY DEF KnownInv, TypeOK
<1>2. Len(received[c]) \in Nat
  BY <1>1, LenProperties
<1>3. CASE \E d \in Members(queue) : IsRead(d, c)
  BY <1>1, <1>2, <1>3 DEF QueueTaken, IsRead
<1>4. CASE \A d \in Members(queue) : ~ IsRead(d, c)
  BY <1>1, <1>2, <1>4 DEF QueueTaken
<1> QED
  BY <1>1, <1>2, <1>3, <1>4

(* A connection that is not queued has no read in the queue. *)
LEMMA NoReadQueued ==
  ASSUME QueueOnce, NEW c \in Conns, conn[c] # "queued", NEW d \in Members(queue)
  PROVE  ~ IsRead(d, c)
<1>1. PICK i \in 1 .. Len(queue) : d = queue[i]
  BY DEF Members
<1>2. d.op # "no_accept" => d.conn \in Queued
  BY <1>1 DEF QueueOnce, OnceIn
<1>3. c \notin Queued
  BY DEF Queued
<1> QED
  BY <1>2, <1>3 DEF IsRead

(* Initially nothing has been read. *)
LEMMA AccusedInit == Init => AccusedInv
<1> SUFFICES ASSUME Init PROVE AccusedInv
  OBVIOUS
<1>1. Members(queue) = {} /\ \A c \in Conns : Members(answers[c]) = {}
  BY MembersEmpty DEF Init
<1>2. Len(<<>>) = 0
  BY EmptySeq
<1>3. QueueTaken
  BY <1>1, <1>2 DEF Init, QueueTaken
<1>4. WriteTaken
  BY ConnsAssumption DEF Init, WriteTaken, NoWrite
<1>5. Charged
  BY DEF Init, Charged
<1>6. NothingBacked
  BY <1>1 DEF NothingBacked
<1> QED
  BY <1>3, <1>4, <1>5, <1>6 DEF AccusedInv

(* A read enters the queue with what it has taken, and leaves it when it   *)
(* is handled; no other handler touches it.                                *)
LEMMA QueueTakenStep ==
  ASSUME KnownInv, HandlerInv', QueueTaken, [Next]_vars
  PROVE  QueueTaken'
<1>0. /\ queue \in Seq(Completions) /\ received \in [Conns -> Seq(Seq(Byte))]
      /\ reads \in [Conns -> Nat] /\ QueueOnce /\ QueueOnce'
      /\ conn \in [Conns -> {"none", "backlog", "queued", "reading", "writing", "closed"}]
  BY TypeParts DEF KnownInv, HandlerInv, TypeServer, TypeOK
<1>1. ASSUME UNCHANGED <<queue, received, reads>>
      PROVE  QueueTaken'
  BY <1>1 DEF QueueTaken
<1>2. ASSUME UNCHANGED <<received, reads>>, NEW done \in Completions, queue' = Append(queue, done),
             done.op # "read"
      PROVE  QueueTaken'
  <2>1. Members(queue') = Members(queue) \union {done}
    BY <1>0, <1>2, MembersAppend
  <2> QED
    BY <1>2, <2>1 DEF QueueTaken, IsRead
<1>3. ASSUME UNCHANGED <<received, reads>>, queue # <<>>, queue' = Tail(queue), Head(queue).op # "read"
      PROVE  QueueTaken'
  <2>1. /\ Members(queue') \subseteq Members(queue)
        /\ \A d \in Members(queue) : d = Head(queue) \/ d \in Members(queue')
    BY <1>0, <1>3, MembersTail
  <2> QED
    BY <1>3, <2>1 DEF QueueTaken, IsRead
<1>4. ASSUME NEW c \in Conns, ReadCompletes(c)
      PROVE  QueueTaken'
  <2> DEFINE done == Completion("read", c, Taken(c))
             old == received[c]
             new == received'[c]
  <2>1. Taken(c) \in Seq(Byte)
    BY TakenType DEF KnownInv, TypeOK
  <2>2. done \in Completions /\ done.op = "read" /\ done.conn = c /\ done.data = Taken(c)
    BY <2>1 DEF Completion, Completions
  <2>3. /\ queue' = Append(queue, done) /\ conn[c] # "queued" /\ UNCHANGED reads
        /\ received' = [received EXCEPT ![c] = Append(@, Taken(c))]
    BY <1>4 DEF ReadCompletes, report
  <2>4. \A d \in Members(queue) : ~ IsRead(d, c)
    BY <1>0, <2>3, NoReadQueued
  <2>5. Len(old) = reads[c] /\ old \in Seq(Seq(Byte)) /\ reads[c] \in Nat
    BY <1>0, <2>4 DEF QueueTaken
  <2>6. new = Append(old, Taken(c)) /\ \A b \in Conns : b # c => received'[b] = received[b]
    BY <1>0, <2>3
  <2> HIDE DEF old, new, done
  <2>7. Len(new) = Len(old) + 1 /\ new[Len(old) + 1] = Taken(c)
    BY <2>1, <2>5, <2>6, AppendProperties
  <2>8. Members(queue') = Members(queue) \union {done}
    BY <1>0, <2>2, <2>3, MembersAppend
  <2>9. \A d \in Members(queue) : d.op = "read" => d.conn # c /\ d.conn \in Conns
    <3>1. Members(queue) \subseteq Completions
      BY <1>0, MembersType
    <3> QED
      BY <2>4, <3>1 DEF IsRead, Completions
  <2>10. ASSUME NEW d \in Members(queue'), d.op = "read"
         PROVE  /\ Len(received'[d.conn]) = reads'[d.conn] + 1
                /\ received'[d.conn][reads'[d.conn] + 1] = d.data
    <3>1. CASE d = done
      BY <2>2, <2>3, <2>5, <2>7, <3>1 DEF new
    <3>2. CASE d \in Members(queue)
      BY <2>3, <2>6, <2>9, <2>10, <3>2 DEF QueueTaken
    <3> QED
      BY <2>8, <3>1, <3>2
  <2>11. ASSUME NEW b \in Conns, \A d \in Members(queue') : ~ IsRead(d, b)
         PROVE  Len(received'[b]) = reads'[b]
    <3>1. b # c
      BY <2>2, <2>8, <2>11 DEF IsRead
    <3> QED
      BY <2>3, <2>6, <2>8, <2>11, <3>1 DEF QueueTaken
  <2> QED
    BY <2>10, <2>11 DEF QueueTaken
<1>5. ASSUME NEW c \in Conns, HandleRead(c)
      PROVE  QueueTaken'
  <2>1. /\ queue # <<>> /\ queue' = Tail(queue) /\ Head(queue).op = "read" /\ Head(queue).conn = c
        /\ reads' = [reads EXCEPT ![c] = @ + 1] /\ UNCHANGED received
        /\ conn' \in {[conn EXCEPT ![c] = to] : to \in {"reading", "writing"}}
    BY <1>5 DEF HandleRead, Runs, client
  <2>2. /\ Head(queue) \in Members(queue) /\ Members(queue') \subseteq Members(queue)
        /\ \A d \in Members(queue) : d = Head(queue) \/ d \in Members(queue')
    BY <1>0, <2>1, MembersTail
  <2>3. conn'[c] # "queued"
    BY <1>0, <2>1
  <2>4. \A d \in Members(queue') : ~ IsRead(d, c)
    <3>1. \A d \in Members(queue') : d.op = "read" => d.conn \in Queued'
      <4>1. ASSUME NEW d \in Members(queue'), d.op = "read"
            PROVE  d.conn \in Queued'
        <5>1. PICK i \in 1 .. Len(queue') : d = queue'[i]
          BY <4>1 DEF Members
        <5> QED
          BY <1>0, <4>1, <5>1 DEF QueueOnce, OnceIn
      <4> QED
        BY <4>1
    <3>2. c \notin Queued'
      BY <2>3 DEF Queued
    <3> QED
      BY <3>1, <3>2 DEF IsRead
  <2>5. Len(received[c]) = reads[c] + 1 /\ reads'[c] = reads[c] + 1
    BY <1>0, <2>1, <2>2 DEF QueueTaken
  <2>6. \A b \in Conns : b # c => reads'[b] = reads[b]
    BY <1>0, <2>1
  <2>7. ASSUME NEW d \in Members(queue'), d.op = "read"
        PROVE  /\ Len(received'[d.conn]) = reads'[d.conn] + 1
               /\ received'[d.conn][reads'[d.conn] + 1] = d.data
    <3>1. d \in Members(queue) /\ d.conn # c
      BY <2>2, <2>4, <2>7 DEF IsRead
    <3>2. d.conn \in Conns
      <4>1. Members(queue) \subseteq Completions
        BY <1>0, MembersType
      <4> QED
        BY <3>1, <4>1 DEF Completions
    <3> QED
      BY <2>1, <2>6, <2>7, <3>1, <3>2 DEF QueueTaken
  <2>8. ASSUME NEW b \in Conns, \A d \in Members(queue') : ~ IsRead(d, b)
        PROVE  Len(received'[b]) = reads'[b]
    <3>1. CASE b = c
      BY <2>1, <2>5, <3>1
    <3>2. CASE b # c
      <4>1. \A d \in Members(queue) : ~ IsRead(d, b)
        BY <2>1, <2>2, <2>8, <3>2 DEF IsRead
      <4> QED
        BY <2>1, <2>6, <3>2, <4>1 DEF QueueTaken
    <3> QED
      BY <3>1, <3>2
  <2> QED
    BY <2>7, <2>8 DEF QueueTaken
<1>6. ASSUME AcceptCompletes
      PROVE  QueueTaken'
  <2>1. Head(backlog) \in Conns /\ UNCHANGED <<received, reads>>
    BY <1>6, HeadTailProperties DEF AcceptCompletes, KnownInv, TypeOK, client, report
  <2>2. PICK op \in {"accept", "no_accept"} : queue' = Append(queue, Completion(op, Head(backlog), <<>>))
    BY <1>6 DEF AcceptCompletes
  <2>3. /\ Completion(op, Head(backlog), <<>>) \in Completions
        /\ Completion(op, Head(backlog), <<>>).op # "read"
    BY <2>1 DEF Completion, Completions
  <2> QED
    BY <1>2, <2>1, <2>2, <2>3
<1>7. ASSUME NEW c \in Conns, ReadFails(c)
      PROVE  QueueTaken'
  <2>1. queue' = Append(queue, Completion("no_read", c, <<>>)) /\ UNCHANGED <<received, reads>>
    BY <1>7 DEF ReadFails, client, report
  <2>2. Completion("no_read", c, <<>>) \in Completions /\ Completion("no_read", c, <<>>).op # "read"
    BY DEF Completion, Completions
  <2> QED
    BY <1>2, <2>1, <2>2
<1>8. ASSUME NEW c \in Conns, HandleAccept(c) \/ HandleNoAccept(c) \/ HandleNoRead(c)
      PROVE  QueueTaken'
  <2>1. /\ queue # <<>> /\ queue' = Tail(queue) /\ Head(queue).op # "read"
        /\ UNCHANGED <<received, reads>>
    BY <1>8 DEF HandleAccept, HandleNoAccept, HandleNoRead, Runs, client, report
  <2> QED
    BY <1>3, <2>1
<1>9. ASSUME NEW c \in Conns, Environment(c) \/ WriteDone(c) \/ WriteThrows(c)
      PROVE  UNCHANGED <<queue, received, reads>>
  BY <1>9 DEF Environment, Connect, Send, Deliver, ClientReads, Leave, Reset, WriteDone, WriteThrows,
              server, client, report
<1>10. UNCHANGED vars => UNCHANGED <<queue, received, reads>>
  BY DEF vars, server, client, report
<1> QED
  BY <1>1, <1>4, <1>5, <1>6, <1>7, <1>8, <1>9, <1>10 DEF Next, Thread

(* What has been received stays received. *)
LEMMA ReceivedStays ==
  ASSUME KnownInv, QueueTaken, [Next]_vars, NEW c \in Conns, NEW i \in 1 .. Len(received[c])
  PROVE  received'[c][i] = received[c][i]
<1>1. ASSUME NEW d \in Conns, ReadCompletes(d)
      PROVE  received'[c][i] = received[c][i]
  <2>1. /\ received' = [received EXCEPT ![d] = Append(@, Taken(d))]
        /\ received \in [Conns -> Seq(Seq(Byte))]
    BY <1>1 DEF ReadCompletes, KnownInv, TypeOK
  <2>2. CASE c = d
    <3>1. Taken(c) \in Seq(Byte)
      BY TakenType DEF KnownInv, TypeOK
    <3>2. received'[c] = Append(received[c], Taken(c)) /\ received[c] \in Seq(Seq(Byte))
      BY <2>1, <2>2
    <3> QED
      BY <3>1, <3>2, AppendProperties
  <2>3. CASE c # d
    BY <2>1, <2>3
  <2> QED
    BY <2>2, <2>3
<1>2. ASSUME NEW d \in Conns, Environment(d) \/ ReadFails(d)
      PROVE  UNCHANGED received
  BY <1>2 DEF Environment, Connect, Send, Deliver, ClientReads, Leave, Reset, ReadFails, client
<1>3. Thread \/ AcceptCompletes \/ UNCHANGED vars => UNCHANGED received
  BY DEF Thread, HandleAccept, HandleNoAccept, HandleRead, HandleNoRead, WriteDone, WriteThrows,
         AcceptCompletes, client, vars
<1> QED
  BY <1>1, <1>2, <1>3 DEF Next

(* The read that is handled. *)
LEMMA HandledRead ==
  ASSUME KnownInv, QueueTaken, NEW c \in Conns, HandleRead(c), NEW k, k = KindOf(Head(queue).data),
         NEW n, n = reads[c] + 1
  PROVE  /\ n \in 1 .. Len(received[c]) /\ n > 0 /\ k = KindOf(received[c][n])
         /\ reads' = [reads EXCEPT ![c] = n] /\ UNCHANGED <<received, answers>>
         /\ log' = log \union Entries(c, n, Activity(k) \union Attack(k))
         /\ writing = NoWrite
         /\ \/ \E a \in Answer(k) : writing' = [conn |-> c, answer |-> a, kind |-> k]
            \/ Answer(k) = {} /\ writing' = NoWrite
<1>1. /\ queue \in Seq(Completions) /\ reads \in [Conns -> Nat] /\ reads[c] \in Nat
  BY TypeParts DEF KnownInv, TypeServer, TypeOK
<1>2. /\ queue # <<>> /\ Head(queue).op = "read" /\ Head(queue).conn = c
      /\ reads' = [reads EXCEPT ![c] = n] /\ UNCHANGED <<received, answers>>
      /\ log' = log \union Entries(c, n, Activity(k) \union Attack(k))
      /\ writing = NoWrite
      /\ \/ \E a \in Answer(k) : writing' = [conn |-> c, answer |-> a, kind |-> k]
         \/ Answer(k) = {} /\ writing' = NoWrite
  BY <1>1 DEF HandleRead, Runs, client
<1>3. Head(queue) \in Members(queue)
  BY <1>1, <1>2, MembersTail
<1>4. Len(received[c]) = n /\ received[c][n] = Head(queue).data
  BY <1>2, <1>3 DEF QueueTaken
<1> QED
  BY <1>1, <1>2, <1>4

(* The write is of an answer to the last read of its connection. *)
LEMMA WriteTakenStep ==
  ASSUME KnownInv, QueueTaken, WriteTaken, [Next]_vars
  PROVE  WriteTaken'
<1>0. reads \in [Conns -> Nat] /\ NoWrite.conn \notin Conns
  BY ConnsAssumption DEF KnownInv, TypeOK, NoWrite
<1>1. ASSUME UNCHANGED <<writing, reads>>
      PROVE  WriteTaken'
  <2>1. ASSUME writing.conn \in Conns
        PROVE  received'[writing.conn][reads[writing.conn]] = received[writing.conn][reads[writing.conn]]
    <3> DEFINE c == writing.conn
    <3>1. reads[c] \in 1 .. Len(received[c])
      <4>1. reads[c] > 0
        BY <2>1 DEF WriteTaken
      <4> QED
        BY <2>1, <4>1, ReadsAreReceived
    <3> QED
      BY <2>1, <3>1, ReceivedStays
  <2> QED
    BY <1>1, <2>1 DEF WriteTaken
<1>2. ASSUME writing' = NoWrite
      PROVE  WriteTaken'
  BY <1>0, <1>2 DEF WriteTaken
<1>3. ASSUME NEW c \in Conns, HandleRead(c)
      PROVE  WriteTaken'
  <2> DEFINE k == KindOf(Head(queue).data)
             n == reads[c] + 1
  <2>1. /\ n > 0 /\ k = KindOf(received[c][n])
        /\ reads' = [reads EXCEPT ![c] = n] /\ UNCHANGED received
        /\ \/ \E a \in Answer(k) : writing' = [conn |-> c, answer |-> a, kind |-> k]
           \/ Answer(k) = {} /\ writing' = NoWrite
    BY <1>3, HandledRead
  <2> HIDE DEF k, n
  <2>2. ASSUME NEW a \in Answer(k), writing' = [conn |-> c, answer |-> a, kind |-> k]
        PROVE  WriteTaken'
    <3>1. writing'.conn = c /\ writing'.kind = k /\ reads'[c] = n
      BY <1>0, <2>1, <2>2
    <3> QED
      BY <2>1, <3>1 DEF WriteTaken
  <2> QED
    BY <1>2, <2>1, <2>2
<1>4. ASSUME NEW c \in Conns, \/ Environment(c) \/ ReadCompletes(c) \/ ReadFails(c)
                              \/ HandleAccept(c) \/ HandleNoAccept(c) \/ HandleNoRead(c)
                              \/ WriteThrows(c)
      PROVE  UNCHANGED <<writing, reads>>
  BY <1>4 DEF Environment, Connect, Send, Deliver, ClientReads, Leave, Reset, ReadCompletes,
              ReadFails, HandleAccept, HandleNoAccept, HandleNoRead, WriteThrows, report
<1>5. \A c \in Conns : WriteDone(c) => writing' = NoWrite
  BY DEF WriteDone
<1>6. AcceptCompletes \/ UNCHANGED vars => UNCHANGED <<writing, reads>>
  BY DEF AcceptCompletes, vars, report
<1> QED
  BY <1>1, <1>2, <1>3, <1>4, <1>5, <1>6 DEF Next, Thread

(* New entries are charges against the connection and read they are for.   *)
LEMMA ChargesMore ==
  ASSUME NEW c, NEW n, NEW events, log' = log \union Entries(c, n, events), NEW d, NEW i
  PROVE  Charges(d, i)' = IF d = c /\ i = n THEN Charges(d, i) \union (events \intersect Attacks)
                          ELSE Charges(d, i)
<1> DEFINE new == Entries(c, n, events)
           before(x) == \E e \in log : e.conn = d /\ e.at = i /\ e.event = x
           added(x) == \E e \in new : e.conn = d /\ e.at = i /\ e.event = x
<1>1. \A x : x \in Charges(d, i) <=> x \in Attacks /\ before(x)
  BY DEF Charges
<1>2. \A x : x \in Charges(d, i)' <=> x \in Attacks /\ (before(x) \/ added(x))
  BY DEF Charges
<1>3. \A x : added(x) <=> (d = c /\ i = n /\ x \in events)
  <2>1. \A x \in events : [conn |-> c, at |-> n, event |-> x] \in new
    BY DEF Entries
  <2>2. \A e \in new : e.conn = c /\ e.at = n /\ e.event \in events
    BY DEF Entries
  <2> HIDE DEF new
  <2> QED
    BY <2>1, <2>2
<1> HIDE DEF before, added
<1>4. CASE d = c /\ i = n
  <2>1. \A x : x \in Charges(d, i)' <=> x \in Charges(d, i) \union (events \intersect Attacks)
    BY <1>1, <1>2, <1>3, <1>4
  <2> QED
    BY <1>4, <2>1, Zenon
<1>5. CASE ~ (d = c /\ i = n)
  <2>1. \A x : x \in Charges(d, i)' <=> x \in Charges(d, i)
    BY <1>1, <1>2, <1>3, <1>5
  <2>2. Charges(d, i)' = Charges(d, i)
    BY <2>1, Zenon DEF Charges
  <2> QED
    BY <1>5, <2>2
<1> QED
  BY <1>4, <1>5

(* The charges of a connection, when its reads and its write are as before. *)
LEMMA ChargedStays ==
  ASSUME KnownInv, QueueTaken, Charged, [Next]_vars, NEW c \in Conns,
         reads'[c] = reads[c], writing'.conn = c <=> writing.conn = c,
         \A i \in 1 .. reads[c] : Charges(c, i)' = Charges(c, i),
         NEW i \in 1 .. reads'[c]
  PROVE  Charges(c, i)' = Deserved(c, i)'
<1>1. i \in 1 .. reads[c] /\ i \in 1 .. Len(received[c])
  BY ReadsAreReceived
<1>2. received'[c][i] = received[c][i]
  BY <1>1, ReceivedStays
<1>3. Charges(c, i) = Deserved(c, i)
  BY <1>1 DEF Charged
<1>4. Deserved(c, i)' = Deserved(c, i)
  BY <1>2 DEF Deserved, Late
<1> QED
  BY <1>1, <1>3, <1>4

(* Every read is charged with what it deserves when it is handled, or,     *)
(* with a wildcard, when its answer has been written.                      *)
LEMMA ChargedStep ==
  ASSUME KnownInv, QueueTaken, WriteTaken, Charged, [Next]_vars
  PROVE  Charged'
<1>0. /\ reads \in [Conns -> Nat] /\ NoWrite.conn \notin Conns
      /\ \A e \in log : e.at <= reads[e.conn]
      /\ log \subseteq [conn : Conns, at : Nat, event : Attacks \union Types]
  BY ConnsAssumption DEF KnownInv, CounterInv, LogInv, TypeOK, NoWrite
<1>1. ASSUME UNCHANGED <<log, reads, writing>>
      PROVE  Charged'
  <2>1. ASSUME NEW c \in Conns, NEW i \in 1 .. reads'[c]
        PROVE  Charges(c, i)' = Deserved(c, i)'
    <3>1. \A j \in 1 .. reads[c] : Charges(c, j)' = Charges(c, j)
      BY <1>1 DEF Charges
    <3> QED
      BY <1>1, <2>1, <3>1, ChargedStays
  <2> QED
    BY <2>1 DEF Charged
<1>2. ASSUME NEW c \in Conns, HandleAccept(c)
      PROVE  Charged'
  <2>1. log' = log \union Entries(c, 0, {"CONNECT"}) /\ UNCHANGED <<reads, writing>>
    BY <1>2 DEF HandleAccept
  <2>2. ASSUME NEW d \in Conns, NEW i \in 1 .. reads'[d]
        PROVE  Charges(d, i)' = Deserved(d, i)'
    <3>1. \A j \in 1 .. reads[d] : Charges(d, j)' = Charges(d, j)
      <4>1. ASSUME NEW j \in 1 .. reads[d]
            PROVE  Charges(d, j)' = Charges(d, j)
        <5>1. j # 0
          BY <4>1
        <5> QED
          BY <2>1, <5>1, ChargesMore
      <4> QED
        BY <4>1
    <3> QED
      BY <2>1, <2>2, <3>1, ChargedStays
  <2> QED
    BY <2>2 DEF Charged
<1>3. ASSUME NEW c \in Conns, HandleRead(c)
      PROVE  Charged'
  <2>0. PICK k, n, events : /\ k = KindOf(Head(queue).data) /\ n = reads[c] + 1
                            /\ events = Activity(k) \union Attack(k)
    OBVIOUS
  <2>1. /\ n \in 1 .. Len(received[c]) /\ n > 0 /\ k = KindOf(received[c][n])
        /\ reads' = [reads EXCEPT ![c] = n] /\ UNCHANGED received
        /\ log' = log \union Entries(c, n, events)
        /\ writing = NoWrite
        /\ \/ \E a \in Answer(k) : writing' = [conn |-> c, answer |-> a, kind |-> k]
           \/ Answer(k) = {} /\ writing' = NoWrite
    BY <1>3, <2>0, HandledRead
  <2>1a. log' = log \union Entries(c, n, events)
    BY <2>1
  <2>2. k \in Kinds
    BY <2>0, KindType
  <2>3. events \intersect Attacks = Attack(k)
    <3>1. Activity(k) \subseteq Types /\ Attack(k) \subseteq Attacks
      BY <2>2, EventsOfKind
    <3>2. Types \intersect Attacks = {}
      BY DEF Types, Attacks
    <3> QED
      BY <2>0, <3>1, <3>2
  <2>4. Charges(c, n) = {}
    <3>1. \A e \in log : ~ (e.conn = c /\ e.at = n)
      BY <1>0, <2>0
    <3> QED
      BY <3>1 DEF Charges
  <2>5. reads'[c] = n /\ reads[c] \in Nat /\ n = reads[c] + 1
    BY <1>0, <2>0, <2>1
  <2>6. \A d \in Conns : d # c => reads'[d] = reads[d] /\ writing'.conn # d /\ writing.conn # d
    BY <1>0, <2>1
  <2>7. writing'.conn = c \/ LateAttack(k) = {}
    <3>1. CASE k.type = "SUBSCRIBE" /\ k.topic = "wildcard"
      <4>1. Answer(k) # {}
        BY <3>1 DEF Answer
      <4>2. PICK a \in Answer(k) : writing' = [conn |-> c, answer |-> a, kind |-> k]
        BY <2>1, <4>1
      <4> QED
        BY <4>2
    <3>2. CASE ~ (k.type = "SUBSCRIBE" /\ k.topic = "wildcard")
      BY <3>2 DEF LateAttack
    <3> QED
      BY <3>1, <3>2
  <2>8. writing.conn # c
    BY <1>0, <2>1
  <2>9. ASSUME NEW i \in 1 .. reads'[c]
        PROVE  Charges(c, i)' = Deserved(c, i)'
    <3>1. CASE i = n
      <4>1. Charges(c, n)' = Attack(k)
        <5>1. Charges(c, n)' = Charges(c, n) \union (events \intersect Attacks)
          BY <2>1a, ChargesMore
        <5> QED
          BY <2>3, <2>4, <5>1
      <4>2. Late(c, n, k)' = {}
        BY <2>5, <2>7 DEF Late
      <4>3. Deserved(c, n)' = Attack(k) \union Late(c, n, k)'
        BY <2>1 DEF Deserved, Late
      <4> QED
        BY <3>1, <4>1, <4>2, <4>3
    <3>2. CASE i # n
      <4>1. i \in 1 .. reads[c]
        BY <2>5, <2>9, <3>2
      <4>2. Charges(c, i)' = Charges(c, i)
        BY <2>1a, <3>2, ChargesMore
      <4>3. Charges(c, i) = Deserved(c, i)
        BY <4>1 DEF Charged
      <4>4. Deserved(c, i)' = Deserved(c, i)
        BY <2>1, <2>5, <2>8, <3>2 DEF Deserved, Late
      <4> QED
        BY <4>2, <4>3, <4>4
    <3> QED
      BY <3>1, <3>2
  <2>10. ASSUME NEW d \in Conns, d # c, NEW i \in 1 .. reads'[d]
         PROVE  Charges(d, i)' = Deserved(d, i)'
    <3>1. \A j \in 1 .. reads[d] : Charges(d, j)' = Charges(d, j)
      <4>1. ASSUME NEW j \in 1 .. reads[d]
            PROVE  Charges(d, j)' = Charges(d, j)
        BY <2>1a, <2>10, ChargesMore
      <4> QED
        BY <4>1
    <3> QED
      BY <2>6, <2>10, <3>1, ChargedStays
  <2>11. ASSUME NEW d \in Conns, NEW i \in 1 .. reads'[d]
         PROVE  Charges(d, i)' = Deserved(d, i)'
    <3>1. CASE d = c
      BY <2>9, <2>11, <3>1
    <3>2. CASE d # c
      BY <2>10, <2>11, <3>2
    <3> QED
      BY <3>1, <3>2
  <2> QED
    BY <2>11 DEF Charged
<1>4. ASSUME NEW c \in Conns, WriteDone(c)
      PROVE  Charged'
  <2>0. PICK k, n, late : k = writing.kind /\ n = reads[c] /\ late = LateAttack(k)
    OBVIOUS
  <2>1. /\ log' = log \union Entries(c, n, late) /\ UNCHANGED <<reads, received>>
        /\ writing.conn = c /\ writing' = NoWrite
    BY <1>4, <2>0 DEF WriteDone, client
  <2>2. n > 0 /\ n \in Nat /\ k = KindOf(received[c][n])
    BY <1>0, <2>0, <2>1 DEF WriteTaken
  <2>3. late \intersect Attacks = late
    BY <2>0 DEF LateAttack, Attacks
  <2>4. \A d \in Conns : writing'.conn # d
    BY <1>0, <2>1
  <2>5. n = reads[c] /\ reads' = reads /\ late = LateAttack(k)
    BY <2>0, <2>1
  <2>6. ASSUME NEW i \in 1 .. reads'[c]
        PROVE  Charges(c, i)' = Deserved(c, i)'
    <3>0. i \in 1 .. reads[c] /\ Charges(c, i) = Deserved(c, i)
      BY <2>5, <2>6 DEF Charged
    <3>1. CASE i = n
      <4>1. Charges(c, n)' = Charges(c, n) \union late
        <5>1. Charges(c, n)' = Charges(c, n) \union (late \intersect Attacks)
          BY <2>1, ChargesMore
        <5> QED
          BY <2>3, <5>1
      <4>2. Charges(c, n) = Attack(k)
        BY <2>1, <2>2, <2>5, <3>0, <3>1 DEF Deserved, Late
      <4>3. Late(c, n, k)' = late
        BY <2>4, <2>5 DEF Late
      <4>4. Deserved(c, n)' = Attack(k) \union Late(c, n, k)'
        BY <2>1, <2>2 DEF Deserved, Late
      <4> QED
        BY <3>1, <4>1, <4>2, <4>3, <4>4
    <3>2. CASE i # n
      <4>1. Charges(c, i)' = Charges(c, i)
        BY <2>1, <3>2, ChargesMore
      <4>2. Deserved(c, i)' = Deserved(c, i)
        BY <2>1, <2>4, <2>5, <3>2 DEF Deserved, Late
      <4> QED
        BY <3>0, <4>1, <4>2
    <3> QED
      BY <3>1, <3>2
  <2>7. ASSUME NEW d \in Conns, d # c, NEW i \in 1 .. reads'[d]
        PROVE  Charges(d, i)' = Deserved(d, i)'
    <3>1. \A j \in 1 .. reads[d] : Charges(d, j)' = Charges(d, j)
      BY <2>1, <2>7, ChargesMore
    <3>2. reads'[d] = reads[d] /\ (writing'.conn = d <=> writing.conn = d)
      BY <2>1, <2>4, <2>7
    <3> QED
      BY <2>7, <3>1, <3>2, ChargedStays
  <2>8. ASSUME NEW d \in Conns, NEW i \in 1 .. reads'[d]
        PROVE  Charges(d, i)' = Deserved(d, i)'
    <3>1. CASE d = c
      BY <2>6, <2>8, <3>1
    <3>2. CASE d # c
      BY <2>7, <2>8, <3>2
    <3> QED
      BY <3>1, <3>2
  <2> QED
    BY <2>8 DEF Charged
<1>5. ASSUME NEW c \in Conns, \/ Environment(c) \/ ReadCompletes(c) \/ ReadFails(c)
                              \/ HandleNoAccept(c) \/ HandleNoRead(c) \/ WriteThrows(c)
      PROVE  UNCHANGED <<log, reads, writing>>
  BY <1>5 DEF Environment, Connect, Send, Deliver, ClientReads, Leave, Reset, ReadCompletes,
              ReadFails, HandleNoAccept, HandleNoRead, WriteThrows, report
<1>6. AcceptCompletes \/ UNCHANGED vars => UNCHANGED <<log, reads, writing>>
  BY DEF AcceptCompletes, vars, report
<1> QED
  BY <1>1, <1>2, <1>3, <1>4, <1>5, <1>6 DEF Next, Thread

(* An identifier from beyond the data answers a short SUBSCRIBE. *)
LEMMA ShortAnswer ==
  ASSUME NEW data, NEW k, k = KindOf(data), "SUBACK_of_nothing" \in Answer(k)
  PROVE  Len(data) < 4 /\ TypeOf(data) = "SUBSCRIBE"
<1>1. k.type = "SUBSCRIBE" /\ k.topic = "short"
  BY DEF Answer
<1>2. k.type = TypeOf(data)
  BY DEF KindOf
<1>3. k.topic = SubscribeTopic(data)
  BY <1>1, <1>2 DEF KindOf
<1> QED
  BY <1>1, <1>2, <1>3 DEF SubscribeTopic

(* Every step keeps such an answer behind a short SUBSCRIBE. *)
LEMMA NothingStep ==
  ASSUME KnownInv, QueueTaken, WriteTaken, NothingBacked, [Next]_vars
  PROVE  NothingBacked'
<1>0. /\ answers \in [Conns -> Seq(AnswerKinds)] /\ writing.answer \in AnswerKinds
      /\ reads \in [Conns -> Nat]
  BY DEF KnownInv, AnswerTypes, TypeOK
<1>1. ASSUME NEW c \in Conns, ShortRead(c)
      PROVE  ShortRead(c)'
  <2>1. PICK i \in 1 .. reads[c] : Len(received[c][i]) < 4 /\ TypeOf(received[c][i]) = "SUBSCRIBE"
    BY <1>1 DEF ShortRead
  <2>2. i \in 1 .. Len(received[c])
    BY ReadsAreReceived
  <2>3. received'[c][i] = received[c][i]
    BY <2>2, ReceivedStays
  <2>4. reads'[c] \in Nat /\ reads[c] \in Nat /\ reads[c] <= reads'[c]
    <3>1. UNCHANGED reads \/ \E d \in Conns : reads' = [reads EXCEPT ![d] = @ + 1]
      <4>1. ASSUME NEW d \in Conns, HandleRead(d)
            PROVE  reads' = [reads EXCEPT ![d] = @ + 1]
        BY <4>1 DEF HandleRead
      <4>2. ASSUME NEW d \in Conns, \/ Environment(d) \/ ReadCompletes(d) \/ ReadFails(d)
                                    \/ HandleAccept(d) \/ HandleNoAccept(d) \/ HandleNoRead(d)
                                    \/ WriteDone(d) \/ WriteThrows(d)
            PROVE  UNCHANGED reads
        BY <4>2 DEF Environment, Connect, Send, Deliver, ClientReads, Leave, Reset, ReadCompletes,
                    ReadFails, HandleAccept, HandleNoAccept, HandleNoRead, WriteDone, WriteThrows,
                    report
      <4>3. AcceptCompletes \/ UNCHANGED vars => UNCHANGED reads
        BY DEF AcceptCompletes, vars, report
      <4> QED
        BY <4>1, <4>2, <4>3 DEF Next, Thread
    <3> QED
      BY <1>0, <3>1
  <2>5. i \in 1 .. reads'[c]
    BY <2>4
  <2> QED
    BY <2>1, <2>3, <2>5 DEF ShortRead
<1>2. ASSUME UNCHANGED answers
      PROVE  NothingBacked'
  BY <1>1, <1>2 DEF NothingBacked
<1>3. ASSUME NEW c \in Conns, WriteDone(c)
      PROVE  NothingBacked'
  <2>1. /\ answers' = [answers EXCEPT ![c] = Append(@, writing.answer)]
        /\ writing.conn = c
    BY <1>3 DEF WriteDone
  <2>2. Members(answers'[c]) = Members(answers[c]) \union {writing.answer}
    <3>1. answers'[c] = Append(answers[c], writing.answer) /\ answers[c] \in Seq(AnswerKinds)
      BY <1>0, <2>1
    <3> QED
      BY <1>0, <3>1, MembersAppend
  <2>3. writing.answer = "SUBACK_of_nothing" => ShortRead(c)
    <3>1. writing.kind = KindOf(received[c][reads[c]]) /\ reads[c] \in 1 .. reads[c]
      BY <1>0, <2>1 DEF WriteTaken
    <3>2. writing.answer \in Answer(writing.kind)
      BY <2>1 DEF KnownInv, AnswerInv, WriteAnswers
    <3>3. writing.answer = "SUBACK_of_nothing" =>
             Len(received[c][reads[c]]) < 4 /\ TypeOf(received[c][reads[c]]) = "SUBSCRIBE"
      BY <3>1, <3>2, ShortAnswer
    <3> QED
      BY <3>1, <3>3 DEF ShortRead
  <2>4. \A d \in Conns : d # c => answers'[d] = answers[d]
    BY <1>0, <2>1
  <2>5. ASSUME NEW d \in Conns, "SUBACK_of_nothing" \in Members(answers'[d])
        PROVE  ShortRead(d)
    <3>1. CASE d = c
      BY <2>2, <2>3, <2>5, <3>1 DEF NothingBacked
    <3>2. CASE d # c
      BY <2>4, <2>5, <3>2 DEF NothingBacked
    <3> QED
      BY <3>1, <3>2
  <2> QED
    BY <1>1, <2>5 DEF NothingBacked
<1>4. ASSUME NEW c \in Conns, \/ Environment(c) \/ ReadCompletes(c) \/ ReadFails(c)
                              \/ HandleAccept(c) \/ HandleNoAccept(c) \/ HandleNoRead(c)
                              \/ HandleRead(c) \/ WriteThrows(c)
      PROVE  UNCHANGED answers
  BY <1>4 DEF Environment, Connect, Send, Deliver, ClientReads, Leave, Reset, ReadCompletes,
              ReadFails, HandleAccept, HandleNoAccept, HandleNoRead, HandleRead, WriteThrows
<1>5. AcceptCompletes \/ UNCHANGED vars => UNCHANGED answers
  BY DEF AcceptCompletes, vars
<1> QED
  BY <1>2, <1>3, <1>4, <1>5 DEF Next, Thread

(* A read that begins with a whole packet has the bytes of the packet. *)
LEMMA PrefixBytes ==
  ASSUME NEW s \in Seq(Byte), NEW data \in Seq(Byte), IsPrefix(s, data)
  PROVE  /\ Len(s) \in Nat /\ Len(data) \in Nat /\ Len(s) <= Len(data)
         /\ \A i \in 1 .. Len(s) : data[i] = s[i]
<1>1. Len(s) \in Nat /\ Len(data) \in Nat /\ Len(s) <= Len(data)
  BY LenProperties DEF IsPrefix
<1>2. SubSeq(s, 1, Len(s)) = s
  BY SubSeqFull
<1>3. \A i \in 1 .. Len(s) : data[i] \in Byte
  BY <1>1, ElementOfSeq
<1>4. \A i \in 1 .. Len(s) : SubSeq(data, 1, Len(s))[i] = data[i]
  <2>1. \A i \in 1 .. Len(s) - 1 + 1 : SubSeq(data, 1, Len(s))[i] = data[1 + i - 1]
    BY <1>1, <1>3, SubSeqProperties
  <2>2. ASSUME NEW i \in 1 .. Len(s)
        PROVE  SubSeq(data, 1, Len(s))[i] = data[i]
    <3>1. 1 + i - 1 = i /\ Len(s) - 1 + 1 = Len(s)
      BY <1>1
    <3> QED
      BY <2>1, <3>1
  <2> QED
    BY <2>2
<1>5. SubSeq(data, 1, Len(s)) = s
  BY <1>2 DEF IsPrefix
<1> QED
  BY <1>1, <1>4, <1>5

(* The bytes of data from place m + 1 on, if they are those of name.       *)
LEMMA NameWithin ==
  ASSUME NEW name \in Seq(Byte), NEW data \in Seq(Byte), NEW m \in Nat,
         m + Len(name) <= Len(data), \A i \in 1 .. Len(name) : data[m + i] = name[i]
  PROVE  SubSeq(data, m + 1, m + Len(name)) = name
<1>1. Len(name) \in Nat /\ Len(data) \in Nat
  BY LenProperties
<1>2. PICK first \in Int, last \in Int, n \in Nat :
          first = m + 1 /\ last = m + Len(name) /\ n = Len(name)
  BY <1>1
<1>3. \A i \in first .. last : data[i] \in Byte
  <2>1. \A i \in first .. last : i \in 1 .. Len(data)
    BY <1>1, <1>2
  <2> QED
    BY <2>1, ElementOfSeq
<1>4. PICK part : part = SubSeq(data, first, last)
  OBVIOUS
<1>5. /\ part \in Seq(Byte)
      /\ Len(part) = IF first <= last THEN last - first + 1 ELSE 0
      /\ \A i \in 1 .. last - first + 1 : part[i] = data[first + i - 1]
  BY <1>3, <1>4, SubSeqProperties
<1>6. last - first + 1 = n /\ (first <= last <=> 1 <= n)
  BY <1>2
<1>7. Len(part) = n
  BY <1>5, <1>6
<1>8. ASSUME NEW i \in 1 .. n
      PROVE  part[i] = name[i]
  <2>1. first + i - 1 = m + i
    BY <1>2
  <2>2. part[i] = data[m + i]
    BY <1>5, <1>6, <2>1
  <2> QED
    BY <1>2, <2>2
<1>9. part = name
  BY <1>2, <1>5, <1>7, <1>8, SeqEqual
<1> QED
  BY <1>2, <1>4, <1>9

(* So a read that begins with a packet has its header, and its name after  *)
(* the header.                                                             *)
LEMMA PacketWithin ==
  ASSUME NEW head \in Seq(Byte), NEW name \in Seq(Byte), NEW rest \in Seq(Byte),
         NEW data \in Seq(Byte), NEW p, p = head \o name \o rest, IsPrefix(p, data)
  PROVE  /\ Len(head) + Len(name) + Len(rest) <= Len(data)
         /\ \A i \in 1 .. Len(head) : data[i] = head[i]
         /\ SubSeq(data, Len(head) + 1, Len(head) + Len(name)) = name
<1>1. Len(head) \in Nat /\ Len(name) \in Nat /\ Len(rest) \in Nat /\ Len(data) \in Nat
  BY LenProperties
<1>2. PICK m \in Nat, n \in Nat, l \in Nat : m = Len(head) /\ n = Len(name) /\ l = Len(rest)
  BY <1>1
<1>3. PICK begun : begun = head \o name
  OBVIOUS
<1>4. /\ begun \in Seq(Byte) /\ Len(begun) = m + n
      /\ \A i \in 1 .. m + n : begun[i] = IF i <= m THEN head[i] ELSE name[i - m]
  BY <1>2, <1>3, ConcatProperties
<1>5. /\ p \in Seq(Byte) /\ Len(p) = m + n + l
      /\ \A i \in 1 .. m + n + l : p[i] = IF i <= m + n THEN begun[i] ELSE rest[i - (m + n)]
  <2>1. p = begun \o rest
    BY <1>3
  <2>2. begun \in Seq(Byte) /\ Len(begun) = m + n /\ Len(rest) = l
    BY <1>2, <1>4
  <2>3. /\ p \in Seq(Byte) /\ Len(p) = Len(begun) + Len(rest)
        /\ \A i \in 1 .. Len(begun) + Len(rest) :
              p[i] = IF i <= Len(begun) THEN begun[i] ELSE rest[i - Len(begun)]
    BY <2>1, <2>2, ConcatProperties
  <2> QED
    BY <2>2, <2>3
<1>6. m + n + l <= Len(data) /\ \A i \in 1 .. Len(p) : data[i] = p[i]
  BY <1>5, PrefixBytes
<1>7. \A i \in 1 .. m + n : data[i] = IF i <= m THEN head[i] ELSE name[i - m]
  <2>1. \A i \in 1 .. m + n : i \in 1 .. m + n + l /\ i <= m + n
    BY <1>2
  <2> QED
    BY <1>4, <1>5, <1>6, <2>1
<1>8. \A i \in 1 .. m : data[i] = head[i]
  <2>1. \A i \in 1 .. m : i \in 1 .. m + n /\ i <= m
    BY <1>2
  <2> QED
    BY <1>7, <2>1
<1>9. \A i \in 1 .. n : data[m + i] = name[i]
  <2>1. ASSUME NEW i \in 1 .. n
        PROVE  data[m + i] = name[i]
    <3>1. PICK j \in Int : j = m + i
      BY <1>2
    <3>2. j \in 1 .. m + n /\ ~ (j <= m) /\ j - m = i
      BY <1>2, <3>1
    <3>3. data[j] = name[i]
      BY <1>7, <3>2
    <3> QED
      BY <3>1, <3>3
  <2> QED
    BY <2>1
<1>10. m + n <= Len(data)
  BY <1>1, <1>2, <1>6
<1>11. SubSeq(data, m + 1, m + n) = name
  BY <1>2, <1>9, <1>10, NameWithin
<1> QED
  BY <1>2, <1>6, <1>8, <1>11

(* The header of a packet is bytes: that of a PUBLISH *)
LEMMA SmallIsByte ==
  ASSUME NEW x \in Nat, x < 256
  PROVE  x \in Byte
BY DEF Byte

(* has four *)
LEMMA FourBytes ==
  ASSUME NEW S, NEW a \in S, NEW b \in S, NEW c \in S, NEW d \in S, NEW s, s = <<a, b, c, d>>
  PROVE  s \in Seq(S) /\ Len(s) = 4 /\ s[1] = a /\ s[3] = c /\ s[4] = d
OBVIOUS

(* and that of a SUBSCRIBE six; *)
LEMMA SixBytes ==
  ASSUME NEW S, NEW a \in S, NEW b \in S, NEW c \in S, NEW d \in S, NEW e \in S, NEW f \in S,
         NEW s, s = <<a, b, c, d, e, f>>
  PROVE  s \in Seq(S) /\ Len(s) = 6 /\ s[1] = a /\ s[5] = e /\ s[6] = f
OBVIOUS

(* the read is longer than the packet of a name of n bytes. *)
LEMMA LongEnough ==
  ASSUME NEW x \in Nat, NEW n \in Nat, 7 + n <= x
  PROVE  ~ (x < 4) /\ x \notin 4 .. 6 /\ x \notin 7 .. 5 + n
OBVIOUS

(* A well-formed PUBLISH is taken for what it is, whatever follows it, *)
LEMMA PublishTaken ==
  ASSUME NEW name \in Seq(Byte), NEW load \in Seq(Byte), Len(name) > 0,
         2 + Len(name) + Len(load) < 128,
         NEW data \in Seq(Byte), IsPrefix(Publish(name, load), data),
         NEW k, k = KindOf(data)
  PROVE  /\ k.type = "PUBLISH"
         /\ k.topic = IF Restricted(sanitize_for_log(name)) THEN "admin" ELSE "plain"
<1>1. Len(name) \in Nat /\ Len(load) \in Nat /\ Len(data) \in Nat
  BY LenProperties
<1>2. PICK n : n = Len(name)
  OBVIOUS
<1>3. PICK a, b, c : a = 48 /\ b = 2 + Len(name) + Len(load) /\ c = 0
  OBVIOUS
<1>4. a \in Byte /\ b \in Byte /\ c \in Byte /\ n \in Byte
  <2>1. /\ a \in Nat /\ a < 256 /\ b \in Nat /\ b < 256
        /\ c \in Nat /\ c < 256 /\ n \in Nat /\ n < 256
    BY <1>1, <1>2, <1>3
  <2> QED
    BY <2>1, SmallIsByte
<1>5. PICK head : head = <<a, b, c, n>>
  OBVIOUS
<1>6. head \in Seq(Byte) /\ Len(head) = 4 /\ head[1] = a /\ head[3] = c /\ head[4] = n
  BY <1>4, <1>5, FourBytes
<1>7. Publish(name, load) = head \o name \o load
  BY <1>2, <1>3, <1>5 DEF Publish
<1>8. /\ Len(head) + Len(name) + Len(load) <= Len(data)
      /\ \A i \in 1 .. Len(head) : data[i] = head[i]
      /\ SubSeq(data, Len(head) + 1, Len(head) + Len(name)) = name
  BY <1>6, <1>7, PacketWithin
<1>9. data[1] = 48 /\ data[3] = 0 /\ data[4] = n
  BY <1>3, <1>6, <1>8
<1>10. LengthAt(data, 3) = n
  BY <1>1, <1>2, <1>9 DEF LengthAt
<1>11. TopicAt(data, 3) = sanitize_for_log(name)
  <2>1. 3 + 2 = 4 + 1 /\ 3 + 1 + LengthAt(data, 3) = 4 + n
    BY <1>1, <1>2, <1>10
  <2>2. SubSeq(data, 4 + 1, 4 + n) = name
    BY <1>2, <1>6, <1>8
  <2>3. SubSeq(data, 3 + 2, 3 + 1 + LengthAt(data, 3)) = name
    BY <2>1, <2>2
  <2> QED
    BY <2>3 DEF TopicAt
<1>12. TypeOf(data) = "PUBLISH"
  <2>1. data[1] \div 16 = 3
    BY <1>9
  <2> QED
    BY <2>1 DEF TypeOf
<1>13. PublishTopic(data) = IF Restricted(sanitize_for_log(name)) THEN "admin" ELSE "plain"
  <2>1. ~ (Len(data) <= 4) /\ Len(data) \notin 5 .. 3 + LengthAt(data, 3)
    BY <1>1, <1>2, <1>6, <1>8, <1>10
  <2> QED
    BY <1>11, <2>1 DEF PublishTopic
<1> QED
  BY <1>12, <1>13 DEF KindOf

(* and so is a well-formed SUBSCRIBE. *)
LEMMA SubscribeTaken ==
  ASSUME NEW name \in Seq(Byte), 5 + Len(name) < 128,
         NEW data \in Seq(Byte), IsPrefix(Subscribe(name), data),
         NEW k, k = KindOf(data)
  PROVE  /\ k.type = "SUBSCRIBE"
         /\ k.topic = IF Wild(sanitize_for_log(name)) THEN "wildcard" ELSE "plain"
<1>1. Len(name) \in Nat /\ Len(data) \in Nat
  BY LenProperties
<1>2. PICK n : n = Len(name)
  OBVIOUS
<1>3. PICK a, b, z, id : a = 130 /\ b = 5 + Len(name) /\ z = 0 /\ id = 1
  OBVIOUS
<1>4. a \in Byte /\ b \in Byte /\ z \in Byte /\ id \in Byte /\ n \in Byte
  <2>1. /\ a \in Nat /\ a < 256 /\ b \in Nat /\ b < 256 /\ z \in Nat /\ z < 256
        /\ id \in Nat /\ id < 256 /\ n \in Nat /\ n < 256
    BY <1>1, <1>2, <1>3
  <2> QED
    BY <2>1, SmallIsByte
<1>5. PICK head, tail : head = <<a, b, z, id, z, n>> /\ tail = <<z>>
  OBVIOUS
<1>6. head \in Seq(Byte) /\ Len(head) = 6 /\ head[1] = a /\ head[5] = z /\ head[6] = n
  BY <1>4, <1>5, SixBytes
<1>7. tail \in Seq(Byte) /\ Len(tail) = 1
  BY <1>4, <1>5
<1>8. Subscribe(name) = head \o name \o tail
  BY <1>2, <1>3, <1>5 DEF Subscribe
<1>9. /\ Len(head) + Len(name) + Len(tail) <= Len(data)
      /\ \A i \in 1 .. Len(head) : data[i] = head[i]
      /\ SubSeq(data, Len(head) + 1, Len(head) + Len(name)) = name
  <2>1. PICK p : p = Subscribe(name)
    OBVIOUS
  <2>2. p = head \o name \o tail /\ IsPrefix(p, data) /\ head \in Seq(Byte) /\ tail \in Seq(Byte)
    BY <1>6, <1>7, <1>8, <2>1
  <2> QED
    BY <2>2, PacketWithin
<1>10. data[1] = 130 /\ data[5] = 0 /\ data[6] = n
  BY <1>3, <1>6, <1>9
<1>11. LengthAt(data, 5) = n
  BY <1>1, <1>2, <1>10 DEF LengthAt
<1>12. TopicAt(data, 5) = sanitize_for_log(name)
  <2>1. 5 + 2 = 6 + 1 /\ 5 + 1 + LengthAt(data, 5) = 6 + n
    BY <1>1, <1>2, <1>11
  <2>2. SubSeq(data, 6 + 1, 6 + n) = name
    BY <1>2, <1>6, <1>9
  <2>3. SubSeq(data, 5 + 2, 5 + 1 + LengthAt(data, 5)) = name
    BY <2>1, <2>2
  <2> QED
    BY <2>3 DEF TopicAt
<1>13. TypeOf(data) = "SUBSCRIBE"
  <2>1. data[1] \div 16 = 8
    BY <1>10
  <2> QED
    BY <2>1 DEF TypeOf
<1>14. SubscribeTopic(data) = IF Wild(sanitize_for_log(name)) THEN "wildcard" ELSE "plain"
  <2>1. n \in Nat /\ 7 + n <= Len(data)
    BY <1>1, <1>2, <1>6, <1>7, <1>9
  <2>2. ~ (Len(data) < 4) /\ Len(data) \notin 4 .. 6 /\ Len(data) \notin 7 .. 5 + n
    BY <1>1, <2>1, LongEnough
  <2> QED
    BY <1>11, <1>12, <2>2 DEF SubscribeTopic
<1> QED
  BY <1>13, <1>14 DEF KindOf

(* AccusationsBacked is what AccusedInv says of reads, log and answers. *)
LEMMA AccusedIsEnough == KnownInv /\ AccusedInv => AccusationsBacked
<1> SUFFICES ASSUME KnownInv, AccusedInv PROVE AccusationsBacked
  OBVIOUS
<1>0. QueueTaken /\ Charged /\ NothingBacked
  BY DEF AccusedInv
<1>1. ASSUME NEW c \in Conns, NEW i \in 1 .. reads[c]
      PROVE  received[c][i] \in Seq(Byte)
  <2>1. received[c] \in Seq(Seq(Byte)) /\ i \in 1 .. Len(received[c])
    BY <1>0, ReadsAreReceived
  <2> QED
    BY <2>1, ElementOfSeq
<1>2. ASSUME NEW c \in Conns, NEW i \in 1 .. reads[c], NEW name \in Names, NEW load \in Payloads,
             IsPrefix(Publish(name, load), received[c][i])
      PROVE  Charges(c, i) = IF Restricted(sanitize_for_log(name))
                             THEN {"MQTT_ADMIN_TOPIC_ACCESS"} ELSE {}
  <2>0. PICK k : k = KindOf(received[c][i])
    OBVIOUS
  <2>1. /\ k.type = "PUBLISH"
        /\ k.topic = IF Restricted(sanitize_for_log(name)) THEN "admin" ELSE "plain"
    <3>1. name \in Seq(Byte) /\ load \in Seq(Byte) /\ Len(name) > 0 /\ 2 + Len(name) + Len(load) < 128
      BY NamesAssumption
    <3> QED
      BY <1>1, <1>2, <2>0, <3>1, PublishTaken
  <2>2. Charges(c, i) = Attack(k) \union Late(c, i, k)
    BY <1>0, <2>0 DEF Charged, Deserved
  <2>3. Late(c, i, k) = {}
    BY <2>1 DEF Late, LateAttack
  <2>4. Attack(k) = IF Restricted(sanitize_for_log(name)) THEN {"MQTT_ADMIN_TOPIC_ACCESS"} ELSE {}
    BY <2>1 DEF Attack
  <2> QED
    BY <2>2, <2>3, <2>4
<1>3. ASSUME NEW c \in Conns, NEW i \in 1 .. reads[c], NEW name \in Names,
             IsPrefix(Subscribe(name), received[c][i])
      PROVE  Charges(c, i) = IF Wild(sanitize_for_log(name)) /\ ~ (writing.conn = c /\ i = reads[c])
                             THEN {"MQTT_WILDCARD_SUBSCRIPTION"} ELSE {}
  <2>0. PICK k : k = KindOf(received[c][i])
    OBVIOUS
  <2>1. /\ k.type = "SUBSCRIBE"
        /\ k.topic = IF Wild(sanitize_for_log(name)) THEN "wildcard" ELSE "plain"
    <3>1. name \in Seq(Byte) /\ 5 + Len(name) < 128
      BY NamesAssumption
    <3> QED
      BY <1>1, <1>3, <2>0, <3>1, SubscribeTaken
  <2>2. Charges(c, i) = Attack(k) \union Late(c, i, k)
    BY <1>0, <2>0 DEF Charged, Deserved
  <2>3. Late(c, i, k) = IF Wild(sanitize_for_log(name)) /\ ~ (writing.conn = c /\ i = reads[c])
                        THEN {"MQTT_WILDCARD_SUBSCRIPTION"} ELSE {}
    BY <2>1 DEF Late, LateAttack
  <2>4. Attack(k) = {}
    BY <2>1 DEF Attack
  <2> QED
    BY <2>2, <2>3, <2>4
<1>4. ASSUME NEW c \in Conns, Count(c, {"SUBACK_of_nothing"}) > 0
      PROVE  ShortRead(c)
  <2> DEFINE given == {i \in DOMAIN answers[c] : answers[c][i] \in {"SUBACK_of_nothing"}}
  <2>1. Cardinality(given) > 0
    BY <1>4 DEF Count
  <2>2. Cardinality({}) = 0
    BY FS_EmptySet
  <2> HIDE DEF given
  <2>3. given # {}
    <3>1. CASE given = {}
      <4>1. Cardinality(given) = 0
        BY <2>2, <3>1
      <4> QED
        BY <2>1, <4>1
    <3> QED
      BY <3>1
  <2>4. PICK i \in DOMAIN answers[c] : answers[c][i] = "SUBACK_of_nothing"
    BY <2>3 DEF given
  <2>5. DOMAIN answers[c] = 1 .. Len(answers[c])
    BY LenProperties DEF KnownInv, AnswerTypes
  <2>6. "SUBACK_of_nothing" \in Members(answers[c])
    BY <2>4, <2>5 DEF Members
  <2> QED
    BY <1>0, <2>6 DEF NothingBacked
<1>5. ASSUME NEW c \in Conns, NEW i \in 1 .. reads[c]
      PROVE  Charges(c, i) = Attack(KindOf(received[c][i]))
                \union (IF writing.conn = c /\ i = reads[c] THEN {} ELSE LateAttack(KindOf(received[c][i])))
  BY <1>0 DEF Charged, Deserved, Late
<1> QED
  BY <1>2, <1>3, <1>4, <1>5 DEF AccusationsBacked, ShortRead

(* Every read of every client is charged with what its own bytes deserve   *)
(* and with nothing else; when it begins with a whole well-formed packet,  *)
(* of any name and payload, with what that packet deserves                 *)
(* (process_mqtt_packet).                                                  *)
THEOREM AccusationsAreRight == Spec => []AccusationsBacked
<1>1. TypeOK /\ CounterInv /\ [Next]_vars => CounterInv'
  BY CounterStep
<1>2. TypeOK /\ HandlerInv /\ [Next]_vars => HandlerInv'
  BY QueueStep, BacklogStep, OneWriteStep DEF HandlerInv
<1>3. AnswerTypes /\ [Next]_vars => AnswerTypes'
  BY AnswerTypesStep
<1>4. TypeOK /\ AnswerTypes /\ CounterInv /\ AnswerInv /\ [Next]_vars => AnswerInv'
  BY AnswerStep DEF CounterInv
<1>5. KnownInv /\ AccusedInv /\ HandlerInv' /\ [Next]_vars => AccusedInv'
  BY QueueTakenStep, WriteTakenStep, ChargedStep, NothingStep DEF AccusedInv
<1>6. KnownInv <=> TypeOK /\ CounterInv /\ HandlerInv /\ AnswerTypes /\ AnswerInv
  BY DEF KnownInv
<1> QED
  BY TypeCorrect, CounterInit, HandlerInit, AnswerTypesInit, AnswerInit, AccusedInit,
     AccusedIsEnough, <1>1, <1>2, <1>3, <1>4, <1>5, <1>6, PTL DEF Spec
=============================================================================
