---------------------------- MODULE RestAPI_proofs ----------------------------
(***************************************************************************)
(* Proofs about RestAPI for any browsers, requests, limit and window: type *)
(* correctness, that only admitted connections are served, that an answer  *)
(* is what was asked for, and that the limiter and the connections agree   *)
(* on who was admitted and why the others were refused.                    *)
(***************************************************************************)
EXTENDS RestAPI, SequenceLemmas

(* The proofs about the limiter hold of the instance in this module; those *)
(* about the sanitizers, which this model leaves out, are not used here.   *)
LP == INSTANCE Security_proofs
      WITH Malformed <- {}, MAX_LOG_STRING_LENGTH <- 1024, MAX_PATH_LENGTH <- 256,
           MaxText <- 0, MaxPath <- 0, text <- <<>>, path <- <<>>

Ops == {"accept", "no_accept", "read", "no_read", "write", "no_write"}

Completions == [op : Ops, conn : Conns, segments : Nat]

ConnStates == {"none", "backlog", "queued", "reading", "writing", "closed"}

Named == (Resources \ {"oversize"}) \union {"none"}

Fates == {"none", "admitted", "refused", "vanished"}

USE ClientOfAssumption, RequestsAssumption, LimitAssumption, WindowAssumption,
    TimeAssumption, ClientsAssumption

-----------------------------------------------------------------------------
(* The type invariant, by what the actions leave alone together. *)
TypeBrowser ==
    /\ alive \in BOOLEAN
    /\ peer \in [Conns -> {"absent", "open", "gone", "reset"}]

TypeRequest ==
    /\ request \in [Conns -> Requests \union {<<>>}]
    /\ rx \in [Conns -> Nat] /\ \A c \in Conns : rx[c] <= Len(request[c])

TypeServer ==
    /\ backlog \in Seq(Conns)
    /\ acceptor_ \in {"armed", "queued"}
    /\ conn \in [Conns -> ConnStates]
    /\ queue \in Seq(Completions)

(* A read that waits for its handler took some segments of a request. *)
TypeReads ==
    \A e \in Members(queue) : e.op = "read" => e.segments \in 1 .. Len(request[e.conn])

TypeAnswer == tx \in [Conns -> Sent] /\ answered \in [Conns -> Named]

TypeFate == fate \in [Conns -> Fates] /\ accepted \in [Conns -> 0 .. now]

Types == TypeBrowser /\ TypeRequest /\ TypeServer /\ TypeReads /\ TypeAnswer /\ TypeFate

(* The parts, with the limiter's, are the type invariant. *)
LEMMA TypeParts == TypeOK <=> Types /\ Limiter!TypeOK
<1> DEFINE Reads == \A i \in DOMAIN queue :
                       queue[i].op = "read" => queue[i].segments \in 1 .. Len(request[queue[i].conn])
<1>1. ASSUME TypeServer
      PROVE  TypeReads <=> Reads
  <2>1. DOMAIN queue = 1 .. Len(queue)
    BY <1>1, LenProperties DEF TypeServer
  <2> QED
    BY <2>1 DEF TypeReads, Members
<1>2. ASSUME TypeOK
      PROVE  TypeBrowser /\ TypeRequest /\ TypeServer /\ Reads /\ TypeAnswer /\ TypeFate /\ Limiter!TypeOK
  <2>1. TypeBrowser /\ TypeRequest /\ Reads /\ TypeFate /\ Limiter!TypeOK
    BY <1>2, Zenon DEF TypeOK, TypeBrowser, TypeRequest, TypeFate, Fates
  <2>2. TypeServer
    BY <1>2, Zenon DEF TypeOK, TypeServer, Completions, Ops, ConnStates
  <2>3. TypeAnswer
    BY <1>2, Zenon DEF TypeOK, TypeAnswer, Named
  <2> QED
    BY <2>1, <2>2, <2>3
<1>3. ASSUME TypeBrowser, TypeRequest, TypeServer, Reads, TypeAnswer, TypeFate, Limiter!TypeOK
      PROVE  TypeOK
  BY <1>3, Zenon DEF TypeOK, TypeBrowser, TypeRequest, TypeServer, TypeAnswer, TypeFate,
              Completions, Ops, ConnStates, Named, Fates
<1> HIDE DEF Reads
<1> QED
  BY <1>1, <1>2, <1>3 DEF Types

(* A request has a length. *)
LEMMA RequestLength ==
  ASSUME TypeRequest, NEW c \in Conns
  PROVE  /\ request[c] \in Seq(Resources) /\ Len(request[c]) \in Nat /\ rx[c] \in Nat
         /\ DOMAIN request[c] = 1 .. Len(request[c])
<1>1. request[c] \in Requests \/ request[c] = <<>>
  BY DEF TypeRequest
<1>2. request[c] \in Seq(Resources)
  <2>1. CASE request[c] \in Requests
    BY <2>1
  <2>2. CASE request[c] = <<>>
    BY <2>2, EmptySeq
  <2> QED
    BY <1>1, <2>1, <2>2
<1>3. Len(request[c]) \in Nat /\ DOMAIN request[c] = 1 .. Len(request[c])
  BY <1>2, LenProperties
<1>4. rx[c] \in Nat
  BY DEF TypeRequest
<1> QED
  BY <1>2, <1>3, <1>4

-----------------------------------------------------------------------------
(* The limiter begins as its own specification says, *)
LEMMA LimiterInit == Init => LP!Init
BY DEF Init, Limiter!Init, LP!Init

(* and its part of a step of the server is a step of the limiter. *)
LEMMA LimiterStep ==
  ASSUME [Next]_vars
  PROVE  [LP!Next]_(LP!vars)
<1>1. CASE UNCHANGED limiter
  BY <1>1 DEF limiter, LP!vars, LP!maps
<1>2. CASE Limiter!Tick
  BY <1>2 DEF Limiter!Tick, LP!Tick, LP!Next, Limiter!maps, LP!maps
<1>3. ASSUME NEW ip \in Clients, CheckRateLimit(ip)
      PROVE  LP!Next
  <2>1. \/ LP!FirstRequest(ip) \/ LP!NextWindow(ip) \/ LP!CountRequest(ip) \/ LP!RefuseExcess(ip)
    BY <1>3 DEF CheckRateLimit, Limiter!FirstRequest, Limiter!NextWindow, Limiter!CountRequest,
        Limiter!RefuseExcess, LP!FirstRequest, LP!NextWindow, LP!CountRequest, LP!RefuseExcess,
        Limiter!OpenWindow, LP!OpenWindow, Limiter!Put, LP!Put, Limiter!Answer, LP!Answer,
        Limiter!Admit, LP!Admit, Limiter!Elapsed, LP!Elapsed, Limiter!maps, LP!maps
  <2> QED
    BY <2>1 DEF LP!Next
<1>4. ASSUME NEW c \in Conns, HandleAccept(c)
      PROVE  UNCHANGED limiter \/ LP!Next
  <2>1. ClientOf[c] \in Clients
    OBVIOUS
  <2> QED
    BY <1>3, <1>4, <2>1 DEF HandleAccept, Admission
<1>5. ASSUME NEW c \in Conns, \/ Connect(c) \/ Arrive(c) \/ Leave(c) \/ Reset(c)
                              \/ \E r \in Requests : Request(c, r)
      PROVE  UNCHANGED limiter
  BY <1>5 DEF Connect, Arrive, Leave, Reset, Request
<1>6. ASSUME NEW c \in Conns, \/ AcceptCompletes \/ AcceptFails \/ Reactor(c) \/ WriteCompletes(c)
                              \/ HandleNoAccept(c) \/ HandleRead(c) \/ HandleFailure(c) \/ HandleWrite(c)
      PROVE  UNCHANGED limiter
  BY <1>6 DEF AcceptCompletes, AcceptFails, Reactor, ReadCompletes, ReadFails, WriteFails,
              WriteCompletes, HandleNoAccept, HandleRead, HandleFailure, HandleWrite
<1>7. CASE AcceptCompletes \/ AcceptFails
  BY <1>1, <1>7 DEF AcceptCompletes, AcceptFails
<1>8. CASE UNCHANGED vars
  BY <1>1, <1>8 DEF vars
<1> QED
  BY <1>1, <1>2, <1>4, <1>5, <1>6, <1>7, <1>8 DEF Next, Environment, Tick, Handlers

(* So the limiter's invariant holds. *)
LEMMA LimiterInductive == Spec => []LP!IInv
<1>1. Init => LP!IInv
  BY LimiterInit, LP!InvInit
<1>2. LP!IInv /\ [Next]_vars => LP!IInv'
  BY LimiterStep, LP!InvNext
<1> QED
  BY <1>1, <1>2, PTL DEF Spec

-----------------------------------------------------------------------------
(* The queue. *)

(* The handlers of a connection; a failed accept is none of its own. *)
Of(c) == {e \in Completions : e.conn = c /\ e.op # "no_accept"}

Only(c) == {c}

(* A connection waits for one handler or for none, and stands in the       *)
(* backlog once or not at all.                                             *)
QueueInv ==
    /\ \A c \in Conns :
          Cardinality(Places(queue, Of(c))) = IF conn[c] = "queued" THEN 1 ELSE 0
    /\ \A c \in Conns :
          Cardinality(Places(backlog, Only(c))) = IF conn[c] = "backlog" THEN 1 ELSE 0
    /\ \A c \in Conns : peer[c] = "absent" => conn[c] = "none"

(* The handler at the head of the queue, and what remains behind it. *)
LEMMA HeadRuns ==
  ASSUME TypeServer, NEW c \in Conns, NEW op, Runs(op, c)
  PROVE  /\ queue \in Seq(Completions) /\ queue # <<>>
         /\ Head(queue) \in Completions /\ Head(queue) \in Members(queue)
         /\ Head(queue).op = op /\ Head(queue).conn = c
         /\ Tail(queue) \in Seq(Completions)
         /\ Members(Tail(queue)) \subseteq Members(queue)
<1>1. queue \in Seq(Completions) /\ queue # <<>> /\ Head(queue).op = op /\ Head(queue).conn = c
  BY DEF TypeServer, Runs
<1>2. Head(queue) \in Completions /\ Tail(queue) \in Seq(Completions)
  BY <1>1, HeadTailProperties
<1>3. Head(queue) \in Members(queue) /\ Members(Tail(queue)) \subseteq Members(queue)
  BY <1>1, MembersTail
<1> QED
  BY <1>1, <1>2, <1>3

(* What the reactor and the handlers put into the queue. *)
LEMMA NewCompletion ==
  ASSUME NEW op \in Ops, NEW c \in Conns, NEW n \in Nat
  PROVE  LET e == Completion(op, c, n) IN
         /\ e \in Completions /\ e.op = op /\ e.conn = c /\ e.segments = n
         /\ op # "no_accept" => \A d \in Conns : e \in Of(d) <=> d = c
         /\ op = "no_accept" => \A d \in Conns : e \notin Of(d)
<1>1. Completion(op, c, n) \in Completions
  BY DEF Completion, Completions
<1> QED
  BY <1>1 DEF Completion, Of

(* A connection that does not wait for a handler has none in the queue, *)
LEMMA NotQueued ==
  ASSUME TypeServer, QueueInv, NEW c \in Conns, conn[c] # "queued",
         NEW e \in Members(queue), e.conn = c
  PROVE  e.op = "no_accept"
<1>1. Cardinality(Places(queue, Of(c))) = 0
  BY DEF QueueInv
<1>2. queue \in Seq(Completions) /\ e \in Completions
  BY MembersType DEF TypeServer
<1>3. Members(queue) \cap Of(c) = {}
  BY <1>1, <1>2, PlacesNone
<1> QED
  BY <1>2, <1>3 DEF Of

(* and one whose handler runs waited for it and has no other. *)
LEMMA OnlyHandler ==
  ASSUME TypeServer, QueueInv, NEW c \in Conns, NEW op, op # "no_accept",
         Runs(op, c)
  PROVE  /\ conn[c] = "queued"
         /\ \A e \in Members(Tail(queue)) : e.conn = c => e.op = "no_accept"
         /\ \A d \in Conns : Cardinality(Places(Tail(queue), Of(d)))
                                = IF d # c /\ conn[d] = "queued" THEN 1 ELSE 0
<1>1. /\ queue \in Seq(Completions) /\ queue # <<>> /\ Head(queue) \in Of(c)
      /\ Tail(queue) \in Seq(Completions) /\ Head(queue) \in Members(queue)
      /\ \A d \in Conns : Head(queue) \in Of(d) <=> d = c
  BY HeadRuns DEF Of
<1>2. Cardinality(Places(queue, Of(c))) # 0
  BY <1>1, PlacesNone
<1>3. conn[c] = "queued" /\ Cardinality(Places(queue, Of(c))) = 1
  BY <1>2 DEF QueueInv
<1>4. \A d \in Conns : Cardinality(Places(Tail(queue), Of(d)))
                          = IF d # c /\ conn[d] = "queued" THEN 1 ELSE 0
  <2> SUFFICES ASSUME NEW d \in Conns
               PROVE  Cardinality(Places(Tail(queue), Of(d)))
                         = IF d # c /\ conn[d] = "queued" THEN 1 ELSE 0
    OBVIOUS
  <2>1. Cardinality(Places(Tail(queue), Of(d)))
           = IF d = c THEN Cardinality(Places(queue, Of(d))) - 1 ELSE Cardinality(Places(queue, Of(d)))
    BY <1>1, PlacesTail
  <2>2. Cardinality(Places(queue, Of(d))) = IF conn[d] = "queued" THEN 1 ELSE 0
    BY DEF QueueInv
  <2> QED
    BY <1>3, <2>1, <2>2
<1>5. Members(Tail(queue)) \cap Of(c) = {} /\ Members(Tail(queue)) \subseteq Completions
  <2>1. Cardinality(Places(Tail(queue), Of(c))) = 0
    BY <1>4
  <2> QED
    BY <1>1, <2>1, PlacesNone, MembersType
<1> QED
  BY <1>3, <1>4, <1>5 DEF Of

(* A completion that joins a queue is a member of it, *)
LEMMA JoinsQueue ==
  ASSUME NEW q \in Seq(Completions), NEW e \in Completions, NEW t, t = Append(q, e)
  PROVE  t \in Seq(Completions) /\ Members(t) = Members(q) \union {e}
BY AppendProperties, MembersAppend

(* and is counted once. *)
LEMMA JoinsPlaces ==
  ASSUME TypeServer, NEW e \in Completions, queue' = Append(queue, e), NEW T
  PROVE  Cardinality(Places(queue', T))
            = IF e \in T THEN Cardinality(Places(queue, T)) + 1 ELSE Cardinality(Places(queue, T))
BY PlacesAppend DEF TypeServer

(* Initially nothing waits. *)
LEMMA QueueInit == Init => QueueInv
BY PlacesEmpty DEF Init, QueueInv

(* A connection that leaves the queue, or none, changes no other.          *)
LEMMA QueueFrame ==
  ASSUME QueueInv, TypeServer, NEW c \in Conns, NEW next \in {"reading", "writing", "closed", "queued"},
         conn[c] \notin {"none", "backlog"},
         conn' = [conn EXCEPT ![c] = next], UNCHANGED <<backlog, peer>>,
         Cardinality(Places(queue', Of(c))) = IF next = "queued" THEN 1 ELSE 0,
         \A d \in Conns \ {c} : Cardinality(Places(queue', Of(d))) = Cardinality(Places(queue, Of(d)))
  PROVE  QueueInv'
<1>1. conn \in [Conns -> ConnStates]
  BY DEF TypeServer
<1>2. conn'[c] = next /\ \A d \in Conns \ {c} : conn'[d] = conn[d]
  BY <1>1
<1>3. \A d \in Conns : Cardinality(Places(queue', Of(d))) = IF conn'[d] = "queued" THEN 1 ELSE 0
  BY <1>2 DEF QueueInv
<1>4. \A d \in Conns : Cardinality(Places(backlog', Only(d))) = IF conn'[d] = "backlog" THEN 1 ELSE 0
  BY <1>2 DEF QueueInv
<1>5. \A d \in Conns : peer'[d] = "absent" => conn'[d] = "none"
  BY <1>2 DEF QueueInv
<1> QED
  BY <1>3, <1>4, <1>5 DEF QueueInv

(* Every step keeps the queue. *)
LEMMA QueueStep ==
  ASSUME Types, QueueInv, [Next]_vars
  PROVE  QueueInv'
<1>0. TypeBrowser /\ TypeRequest /\ TypeServer
  BY DEF Types
<1>t. /\ conn \in [Conns -> ConnStates] /\ queue \in Seq(Completions) /\ backlog \in Seq(Conns)
      /\ peer \in [Conns -> {"absent", "open", "gone", "reset"}]
  BY <1>0 DEF TypeBrowser, TypeServer
<1>1. ASSUME UNCHANGED <<queue, conn, backlog>>,
             \A c \in Conns : peer'[c] = "absent" => peer[c] = "absent"
      PROVE  QueueInv'
  BY <1>1 DEF QueueInv
<1>2. ASSUME NEW c \in Conns, \/ Arrive(c) \/ Leave(c) \/ Reset(c)
                              \/ \E r \in Requests : Request(c, r)
      PROVE  QueueInv'
  <2>1. UNCHANGED <<queue, conn, backlog>>
    BY <1>2 DEF Arrive, Leave, Reset, Request
  <2>2. \A d \in Conns : peer'[d] = "absent" => peer[d] = "absent"
    BY <1>t, <1>2 DEF Arrive, Leave, Reset, Request, browser
  <2> QED
    BY <1>1, <2>1, <2>2
<1>3. ASSUME NEW c \in Conns, Connect(c)
      PROVE  QueueInv'
  <2>1. /\ conn[c] = "none" /\ conn' = [conn EXCEPT ![c] = "backlog"] /\ peer' = [peer EXCEPT ![c] = "open"]
        /\ backlog' = Append(backlog, c) /\ queue' = queue
    BY <1>3 DEF Connect, QueueInv
  <2>2. \A d \in Conns : Cardinality(Places(backlog', Only(d)))
            = IF c = d THEN Cardinality(Places(backlog, Only(d))) + 1 ELSE Cardinality(Places(backlog, Only(d)))
    <3>1. \A d \in Conns : c \in Only(d) <=> c = d
      BY DEF Only
    <3> QED
      BY <1>t, <2>1, <3>1, PlacesAppend
  <2>3. \A d \in Conns : Cardinality(Places(backlog', Only(d))) = IF conn'[d] = "backlog" THEN 1 ELSE 0
    BY <1>t, <2>1, <2>2 DEF QueueInv
  <2>4. \A d \in Conns : Cardinality(Places(queue', Of(d))) = IF conn'[d] = "queued" THEN 1 ELSE 0
    BY <1>t, <2>1 DEF QueueInv
  <2>5. \A d \in Conns : peer'[d] = "absent" => conn'[d] = "none"
    BY <1>t, <2>1 DEF QueueInv
  <2> QED
    BY <2>3, <2>4, <2>5 DEF QueueInv
<1>4. CASE AcceptCompletes
  <2> DEFINE c == Head(backlog)
             e == Completion("accept", c, 0)
  <2>1. backlog # <<>> /\ c \in Conns /\ c \in Members(backlog)
    BY <1>t, <1>4, HeadTailProperties, MembersTail DEF AcceptCompletes
  <2>2. e \in Completions /\ \A d \in Conns : e \in Of(d) <=> d = c
    BY <2>1, NewCompletion DEF Ops
  <2>3. /\ queue' = Append(queue, e) /\ conn' = [conn EXCEPT ![c] = "queued"]
        /\ backlog' = Tail(backlog) /\ peer' = peer
    BY <1>4 DEF AcceptCompletes, Complete, browser
  <2> HIDE DEF e, c
  <2>4. conn[c] = "backlog" /\ Cardinality(Places(backlog, Only(c))) = 1
    <3>1. Cardinality(Places(backlog, Only(c))) # 0
      BY <1>t, <2>1, PlacesNone DEF Only
    <3> QED
      BY <2>1, <3>1 DEF QueueInv
  <2>5. \A d \in Conns : Cardinality(Places(backlog', Only(d)))
            = IF c = d THEN Cardinality(Places(backlog, Only(d))) - 1 ELSE Cardinality(Places(backlog, Only(d)))
    <3>1. \A d \in Conns : c \in Only(d) <=> c = d
      BY DEF Only
    <3> QED
      BY <1>t, <2>1, <2>3, <3>1, PlacesTail DEF c
  <2>6. \A T : Cardinality(Places(queue', T))
            = IF e \in T THEN Cardinality(Places(queue, T)) + 1 ELSE Cardinality(Places(queue, T))
    BY <1>0, <2>2, <2>3, JoinsPlaces
  <2>7. \A d \in Conns : Cardinality(Places(backlog', Only(d))) = IF conn'[d] = "backlog" THEN 1 ELSE 0
    BY <1>t, <2>3, <2>4, <2>5 DEF QueueInv
  <2>8. \A d \in Conns : Cardinality(Places(queue', Of(d))) = IF conn'[d] = "queued" THEN 1 ELSE 0
    BY <1>t, <2>1, <2>2, <2>3, <2>4, <2>6 DEF QueueInv
  <2>9. \A d \in Conns : peer'[d] = "absent" => conn'[d] = "none"
    BY <1>t, <2>1, <2>3, <2>4 DEF QueueInv
  <2> QED
    BY <2>7, <2>8, <2>9 DEF QueueInv
<1>5. CASE AcceptFails
  <2> DEFINE e == Completion("no_accept", Head(backlog), 0)
  <2>1. Head(backlog) \in Conns
    BY <1>t, <1>5, HeadTailProperties DEF AcceptFails
  <2>2. e \in Completions /\ \A d \in Conns : e \notin Of(d)
    BY <2>1, NewCompletion DEF Ops
  <2>3. queue' = Append(queue, e) /\ UNCHANGED <<peer, conn, backlog>>
    BY <1>5 DEF AcceptFails, browser
  <2> HIDE DEF e
  <2>4. \A d \in Conns : Cardinality(Places(queue', Of(d))) = Cardinality(Places(queue, Of(d)))
    BY <1>0, <2>2, <2>3, JoinsPlaces
  <2> QED
    BY <2>3, <2>4 DEF QueueInv
<1>6. ASSUME NEW c \in Conns, NEW op \in {"read", "no_read", "write", "no_write"}, NEW n \in Nat,
             conn[c] \in {"reading", "writing"}, Complete(op, c, n), UNCHANGED <<peer, backlog>>
      PROVE  QueueInv'
  <2> DEFINE e == Completion(op, c, n)
  <2>1. e \in Completions /\ \A d \in Conns : e \in Of(d) <=> d = c
    BY NewCompletion DEF Ops
  <2>2. queue' = Append(queue, e) /\ conn' = [conn EXCEPT ![c] = "queued"]
    BY <1>6 DEF Complete
  <2> HIDE DEF e
  <2>3. \A d \in Conns : Cardinality(Places(queue', Of(d)))
            = IF d = c THEN Cardinality(Places(queue, Of(d))) + 1 ELSE Cardinality(Places(queue, Of(d)))
    BY <1>0, <2>1, <2>2, JoinsPlaces
  <2>4. Cardinality(Places(queue, Of(c))) = 0
    BY <1>6 DEF QueueInv
  <2>5. Cardinality(Places(queue', Of(c))) = 1
    BY <2>3, <2>4
  <2>6. \A d \in Conns \ {c} : Cardinality(Places(queue', Of(d))) = Cardinality(Places(queue, Of(d)))
    BY <2>3
  <2>7. conn[c] \notin {"none", "backlog"}
    BY <1>6
  <2> QED
    BY <1>0, <1>6, <2>2, <2>5, <2>6, <2>7, QueueFrame
<1>7. ASSUME NEW c \in Conns, ReadCompletes(c) \/ ReadFails(c) \/ WriteFails(c) \/ WriteCompletes(c)
      PROVE  QueueInv'
  <2>1. rx[c] \in Nat /\ 0 \in Nat
    BY <1>0, RequestLength
  <2>2. conn[c] \in {"reading", "writing"} /\ UNCHANGED <<peer, backlog>>
    BY <1>7 DEF ReadCompletes, ReadFails, WriteFails, WriteCompletes, browser
  <2>3. Complete("read", c, rx[c]) \/ \E op \in {"no_read", "write", "no_write"} : Complete(op, c, 0)
    BY <1>7 DEF ReadCompletes, ReadFails, WriteFails, WriteCompletes
  <2> QED
    BY <1>6, <2>1, <2>2, <2>3
<1>8. ASSUME NEW c \in Conns, NEW op, op # "no_accept", Runs(op, c),
             queue' = Tail(queue), NEW next \in {"reading", "writing", "closed"},
             conn' = [conn EXCEPT ![c] = next], UNCHANGED <<peer, backlog>>
      PROVE  QueueInv'
  <2>1. /\ conn[c] = "queued"
        /\ \A d \in Conns : Cardinality(Places(Tail(queue), Of(d)))
                               = IF d # c /\ conn[d] = "queued" THEN 1 ELSE 0
    BY <1>0, <1>8, OnlyHandler
  <2>2. \A d \in Conns \ {c} : Cardinality(Places(queue', Of(d))) = Cardinality(Places(queue, Of(d)))
    BY <1>8, <2>1 DEF QueueInv
  <2>3. Cardinality(Places(queue', Of(c))) = 0
    BY <1>8, <2>1
  <2> QED
    BY <1>0, <1>8, <2>1, <2>2, <2>3, QueueFrame
<1>9. ASSUME NEW c \in Conns, NEW op, op # "no_accept", Runs(op, c), NEW after \in {"write", "no_write"},
             queue' = Append(Tail(queue), Completion(after, c, 0)),
             conn' = [conn EXCEPT ![c] = "queued"], UNCHANGED <<peer, backlog>>
      PROVE  QueueInv'
  <2> DEFINE e == Completion(after, c, 0)
  <2>1. e \in Completions /\ \A d \in Conns : e \in Of(d) <=> d = c
    BY NewCompletion DEF Ops
  <2>2. /\ conn[c] = "queued"
        /\ \A d \in Conns : Cardinality(Places(Tail(queue), Of(d)))
                               = IF d # c /\ conn[d] = "queued" THEN 1 ELSE 0
    BY <1>0, <1>9, OnlyHandler
  <2>3. Tail(queue) \in Seq(Completions)
    BY <1>0, <1>9, HeadRuns
  <2>4. queue' = Append(Tail(queue), e)
    BY <1>9
  <2> HIDE DEF e
  <2>5. \A d \in Conns : Cardinality(Places(queue', Of(d)))
            = IF d = c THEN Cardinality(Places(Tail(queue), Of(d))) + 1 ELSE Cardinality(Places(Tail(queue), Of(d)))
    <3> DEFINE rest == Tail(queue)
    <3> HIDE DEF rest
    <3>1. ASSUME NEW T
          PROVE  Cardinality(Places(Append(rest, e), T))
                    = IF e \in T THEN Cardinality(Places(rest, T)) + 1 ELSE Cardinality(Places(rest, T))
      BY <2>1, <2>3, PlacesAppend DEF rest
    <3> QED
      BY <2>1, <2>4, <3>1 DEF rest
  <2>6. \A d \in Conns \ {c} : Cardinality(Places(queue', Of(d))) = Cardinality(Places(queue, Of(d)))
    BY <2>2, <2>5 DEF QueueInv
  <2>7. Cardinality(Places(queue', Of(c))) = 1
    BY <2>2, <2>5
  <2> QED
    BY <1>0, <1>9, <2>2, <2>6, <2>7, QueueFrame
<1>10. ASSUME NEW c \in Conns, HandleAccept(c)
       PROVE  QueueInv'
  <2>1. Runs("accept", c) /\ queue' = Tail(queue) /\ UNCHANGED <<peer, backlog>>
    BY <1>10 DEF HandleAccept, browser
  <2>2. \E next \in {"reading", "closed"} : conn' = [conn EXCEPT ![c] = next]
    BY <1>10 DEF HandleAccept, Admission, Settle
  <2> QED
    BY <1>8, <2>1, <2>2
<1>11. ASSUME NEW c \in Conns, HandleNoAccept(c)
       PROVE  QueueInv'
  <2>1. /\ queue # <<>> /\ \A d \in Conns : Head(queue) \notin Of(d)
        /\ queue' = Tail(queue) /\ UNCHANGED <<peer, conn, backlog>>
    BY <1>0, <1>11, HeadRuns DEF HandleNoAccept, Of, browser
  <2>2. \A d \in Conns : Cardinality(Places(queue', Of(d))) = Cardinality(Places(queue, Of(d)))
    BY <1>t, <2>1, PlacesTail
  <2> QED
    BY <2>1, <2>2 DEF QueueInv
<1>12. ASSUME NEW c \in Conns, HandleRead(c)
       PROVE  QueueInv'
  <2>1. Runs("read", c) /\ UNCHANGED <<peer, backlog>>
    BY <1>12 DEF HandleRead, browser
  <2>2. \/ queue' = Tail(queue) /\ \E next \in {"writing", "closed"} : conn' = [conn EXCEPT ![c] = next]
        \/ /\ \E after \in {"write", "no_write"} : queue' = Append(Tail(queue), Completion(after, c, 0))
           /\ conn' = [conn EXCEPT ![c] = "queued"]
    BY <1>12 DEF HandleRead, StartWrite
  <2>3. CASE queue' = Tail(queue) /\ \E next \in {"writing", "closed"} : conn' = [conn EXCEPT ![c] = next]
    BY <1>8, <2>1, <2>3
  <2>4. CASE /\ \E after \in {"write", "no_write"} : queue' = Append(Tail(queue), Completion(after, c, 0))
             /\ conn' = [conn EXCEPT ![c] = "queued"]
    BY <1>9, <2>1, <2>4
  <2> QED
    BY <2>2, <2>3, <2>4
<1>13. ASSUME NEW c \in Conns, HandleFailure(c) \/ HandleWrite(c)
       PROVE  QueueInv'
  <2>1. /\ \E op \in {"no_read", "no_write", "write"} : Runs(op, c)
        /\ queue' = Tail(queue) /\ conn' = [conn EXCEPT ![c] = "closed"] /\ UNCHANGED <<peer, backlog>>
    BY <1>13 DEF HandleFailure, HandleWrite, browser
  <2> QED
    BY <1>8, <2>1
<1>14. CASE Tick \/ UNCHANGED vars
  BY <1>1, <1>14 DEF Tick, vars, browser
<1> QED
  BY <1>2, <1>3, <1>4, <1>5, <1>7, <1>10, <1>11, <1>12, <1>13, <1>14
     DEF Next, Environment, Reactor, Handlers

-----------------------------------------------------------------------------
(* Types. *)

(* What a read that is handled names is a resource of its request. *)
LEMMA ReadNames ==
  ASSUME Types, NEW c \in Conns, Runs("read", c)
  PROVE  LET resource == request[c][Head(queue).segments] IN
         /\ resource \in Resources /\ resource # "none"
         /\ \E i \in DOMAIN request[c] : request[c][i] = resource
<1> DEFINE n == Head(queue).segments
<1>1. Head(queue) \in Members(queue) /\ Head(queue).op = "read" /\ Head(queue).conn = c
  BY HeadRuns DEF Types
<1>2. n \in 1 .. Len(request[c])
  BY <1>1 DEF Types, TypeReads
<1>3. request[c] \in Seq(Resources) /\ DOMAIN request[c] = 1 .. Len(request[c])
  BY RequestLength DEF Types
<1> HIDE DEF n
<1>4. request[c][n] \in Resources
  BY <1>2, <1>3, ElementOfSeq
<1>5. "none" \notin Resources
  BY DEF Resources
<1> QED
  BY <1>2, <1>3, <1>4, <1>5 DEF n

(* Initially every variable has its type. *)
LEMMA TypeInit == Init => Types
<1> SUFFICES ASSUME Init PROVE Types
  OBVIOUS
<1>1. TypeBrowser
  BY DEF Init, TypeBrowser
<1>2. TypeRequest
  <2>1. request = [c \in Conns |-> <<>>] /\ rx = [c \in Conns |-> 0] /\ Len(<<>>) = 0
    BY EmptySeq DEF Init
  <2> QED
    BY <2>1 DEF TypeRequest
<1>3. TypeServer
  BY DEF Init, TypeServer, ConnStates
<1>4. TypeReads
  BY MembersEmpty DEF Init, TypeReads
<1>5. TypeAnswer
  BY DEF Init, TypeAnswer, Sent, Named
<1>6. TypeFate
  BY DEF Init, Limiter!Init, TypeFate, Fates
<1> QED
  BY <1>1, <1>2, <1>3, <1>4, <1>5, <1>6 DEF Types

(* The clock does not go back, which keeps the times of accepts. *)
LEMMA LaterFate ==
  ASSUME TypeFate, UNCHANGED <<fate, accepted>>, now \in Nat, now' \in Nat, now <= now'
  PROVE  TypeFate'
<1>1. \A t \in 0 .. now : t \in 0 .. now'
  OBVIOUS
<1> QED
  BY <1>1 DEF TypeFate

(* The reads that wait keep their type when no other joins them. *)
LEMMA ReadsStay ==
  ASSUME TypeReads, UNCHANGED request,
         \A e \in Members(queue') : e \in Members(queue) \/ e.op # "read"
  PROVE  TypeReads'
BY DEF TypeReads

(* The reactor's steps keep the types. *)
LEMMA TypeReactor ==
  ASSUME Types,
         \/ AcceptCompletes \/ AcceptFails \/ \E c \in Conns : Reactor(c) \/ WriteCompletes(c)
  PROVE  TypeServer' /\ TypeReads'
<1>t. /\ conn \in [Conns -> ConnStates] /\ queue \in Seq(Completions) /\ backlog \in Seq(Conns)
      /\ TypeServer /\ TypeRequest /\ TypeReads
  BY DEF Types, TypeServer
<1>1. ASSUME NEW op \in Ops, NEW c \in Conns, NEW n \in Nat, Complete(op, c, n),
             UNCHANGED <<backlog, acceptor_, request>>, op = "read" => n \in 1 .. Len(request[c])
      PROVE  TypeServer' /\ TypeReads'
  <2> DEFINE e == Completion(op, c, n)
  <2>1. e \in Completions /\ e.op = op /\ e.conn = c /\ e.segments = n
    BY NewCompletion
  <2>2. queue' = Append(queue, e) /\ conn' = [conn EXCEPT ![c] = "queued"]
    BY <1>1 DEF Complete
  <2> HIDE DEF e
  <2>3. queue' \in Seq(Completions) /\ Members(queue') = Members(queue) \union {e}
    BY <1>t, <2>1, <2>2, JoinsQueue
  <2>4. TypeReads'
    BY <1>t, <1>1, <2>1, <2>3 DEF TypeReads
  <2> QED
    BY <1>t, <1>1, <2>2, <2>3, <2>4 DEF TypeServer, ConnStates
<1>2. CASE AcceptCompletes \/ AcceptFails
  <2> DEFINE c == Head(backlog)
             yes == Completion("accept", c, 0)
             no  == Completion("no_accept", c, 0)
  <2>1. c \in Conns /\ Tail(backlog) \in Seq(Conns)
    BY <1>t, <1>2, HeadTailProperties DEF AcceptCompletes, AcceptFails
  <2>2. yes \in Completions /\ yes.op # "read" /\ no \in Completions /\ no.op # "read"
    BY <2>1, NewCompletion DEF Ops
  <2>3. /\ \/ queue' = Append(queue, yes) /\ conn' = [conn EXCEPT ![c] = "queued"] /\ backlog' = Tail(backlog)
           \/ queue' = Append(queue, no) /\ UNCHANGED <<conn, backlog>>
        /\ acceptor_' = "queued" /\ request' = request
    BY <1>2 DEF AcceptCompletes, AcceptFails, Complete, browser
  <2> HIDE DEF c, yes, no
  <2>4. CASE queue' = Append(queue, yes) /\ conn' = [conn EXCEPT ![c] = "queued"] /\ backlog' = Tail(backlog)
    <3>1. queue' \in Seq(Completions) /\ Members(queue') = Members(queue) \union {yes}
      BY <1>t, <2>2, <2>4, JoinsQueue
    <3>2. TypeReads'
      BY <1>t, <2>2, <2>3, <3>1, ReadsStay
    <3> QED
      BY <1>t, <2>1, <2>3, <2>4, <3>1, <3>2 DEF TypeServer, ConnStates
  <2>5. CASE queue' = Append(queue, no) /\ UNCHANGED <<conn, backlog>>
    <3>1. queue' \in Seq(Completions) /\ Members(queue') = Members(queue) \union {no}
      BY <1>t, <2>2, <2>5, JoinsQueue
    <3>2. TypeReads'
      BY <1>t, <2>2, <2>3, <3>1, ReadsStay
    <3> QED
      BY <1>t, <2>3, <2>5, <3>1, <3>2 DEF TypeServer
  <2> QED
    BY <2>3, <2>4, <2>5
<1>3. ASSUME NEW c \in Conns, ReadCompletes(c) \/ ReadFails(c) \/ WriteFails(c) \/ WriteCompletes(c)
      PROVE  TypeServer' /\ TypeReads'
  <2>1. rx[c] \in Nat /\ rx[c] <= Len(request[c]) /\ Len(request[c]) \in Nat
    BY <1>t, RequestLength DEF TypeRequest
  <2>2. UNCHANGED <<backlog, acceptor_, request>>
    BY <1>3 DEF ReadCompletes, ReadFails, WriteFails, WriteCompletes, browser
  <2>3. \/ Complete("read", c, rx[c]) /\ rx[c] > 0
        \/ \E op \in {"no_read", "write", "no_write"} : Complete(op, c, 0)
    BY <1>3 DEF ReadCompletes, ReadFails, WriteFails, WriteCompletes
  <2>4. CASE Complete("read", c, rx[c]) /\ rx[c] > 0
    <3>1. "read" \in Ops /\ rx[c] \in 1 .. Len(request[c])
      BY <2>1, <2>4 DEF Ops
    <3> QED
      BY <1>1, <2>1, <2>2, <2>4, <3>1
  <2>5. CASE \E op \in {"no_read", "write", "no_write"} : Complete(op, c, 0)
    <3>1. \A op \in {"no_read", "write", "no_write"} : op \in Ops /\ op # "read"
      BY DEF Ops
    <3> QED
      BY <1>1, <2>2, <2>5, <3>1
  <2> QED
    BY <2>3, <2>4, <2>5
<1> QED
  BY <1>2, <1>3 DEF Reactor

(* A handler leaves the queue, and may start a write. *)
LEMMA TypeHandler ==
  ASSUME Types, NEW c \in Conns, NEW op \in Ops, Runs(op, c),
         NEW next \in {"queued", "reading", "writing", "closed"},
         conn' \in {conn, [conn EXCEPT ![c] = next]},
         queue' = Tail(queue) \/ \E after \in {"write", "no_write"} :
                                    queue' = Append(Tail(queue), Completion(after, c, 0)),
         acceptor_' \in {"armed", acceptor_}, UNCHANGED <<backlog, request>>
  PROVE  TypeServer' /\ TypeReads'
<1>1. /\ conn \in [Conns -> ConnStates] /\ queue \in Seq(Completions) /\ backlog \in Seq(Conns)
      /\ acceptor_ \in {"armed", "queued"} /\ TypeReads
  BY DEF Types, TypeServer
<1>2. Tail(queue) \in Seq(Completions) /\ Members(Tail(queue)) \subseteq Members(queue)
  BY HeadRuns DEF Types
<1>3. ASSUME NEW after \in {"write", "no_write"}, queue' = Append(Tail(queue), Completion(after, c, 0))
      PROVE  queue' \in Seq(Completions) /\ \A e \in Members(queue') : e \in Members(queue) \/ e.op # "read"
  <2> DEFINE e == Completion(after, c, 0)
  <2>1. e \in Completions /\ e.op # "read"
    BY NewCompletion DEF Ops
  <2> HIDE DEF e
  <2>2. queue' = Append(Tail(queue), e)
    BY <1>3 DEF e
  <2>3. queue' \in Seq(Completions) /\ Members(queue') = Members(Tail(queue)) \union {e}
    BY <1>2, <2>1, <2>2, JoinsQueue
  <2> QED
    BY <1>2, <2>1, <2>3
<1>4. queue' \in Seq(Completions) /\ \A e \in Members(queue') : e \in Members(queue) \/ e.op # "read"
  BY <1>2, <1>3
<1>5. conn' \in [Conns -> ConnStates]
  BY <1>1 DEF ConnStates
<1>6. TypeReads'
  BY <1>1, <1>4, ReadsStay
<1> QED
  BY <1>1, <1>4, <1>5, <1>6 DEF TypeServer

(* Every step keeps the types. *)
LEMMA TypeStep ==
  ASSUME Types, LP!IInv, LP!IInv', [Next]_vars
  PROVE  Types'
<1>0. TypeBrowser /\ TypeRequest /\ TypeServer /\ TypeReads /\ TypeAnswer /\ TypeFate
  BY DEF Types
<1>n. now \in Nat /\ now' \in Nat
  BY DEF LP!IInv, LP!TypeOK
<1>1. ASSUME TypeBrowser', TypeRequest', TypeServer', TypeReads', TypeAnswer', TypeFate'
      PROVE  Types'
  BY <1>1 DEF Types
<1>2. ASSUME UNCHANGED <<fate, accepted, now>>
      PROVE  TypeFate'
  BY <1>0, <1>2 DEF TypeFate
<1>3. ASSUME UNCHANGED <<tx, answered>>
      PROVE  TypeAnswer'
  BY <1>0, <1>3 DEF TypeAnswer
<1>4. ASSUME UNCHANGED <<request, rx>>
      PROVE  TypeRequest'
  BY <1>0, <1>4 DEF TypeRequest
<1>5. ASSUME UNCHANGED <<alive, peer>>
      PROVE  TypeBrowser'
  BY <1>0, <1>5 DEF TypeBrowser
<1>6. ASSUME UNCHANGED <<backlog, acceptor_, conn, queue>>
      PROVE  TypeServer'
  BY <1>0, <1>6 DEF TypeServer
<1>7. ASSUME UNCHANGED <<queue, request>>
      PROVE  TypeReads'
  BY <1>0, <1>7 DEF TypeReads
<1>8. CASE Tick
  <2>1. UNCHANGED <<alive, peer, request, rx, backlog, acceptor_, conn, queue, tx, answered, fate, accepted>>
    BY <1>8 DEF Tick, browser, history
  <2>2. now <= now'
    BY <1>8, <1>n DEF Tick, Limiter!Tick
  <2>3. TypeFate'
    BY <1>0, <1>n, <2>1, <2>2, LaterFate
  <2> QED
    BY <1>1, <1>3, <1>4, <1>5, <1>6, <1>7, <2>1, <2>3
<1>9. ASSUME NEW c \in Conns, Leave(c) \/ Connect(c)
      PROVE  Types'
  <2>1. UNCHANGED <<alive, request, rx, acceptor_, queue, tx, answered, fate, accepted, now>>
    BY <1>9 DEF Leave, Connect, browser, history, limiter
  <2>2. TypeBrowser'
    BY <1>0, <1>9 DEF Leave, Connect, TypeBrowser
  <2>3. TypeServer'
    <3>1. CASE Leave(c)
      BY <1>6, <3>1 DEF Leave
    <3>2. CASE Connect(c)
      <4>1. Append(backlog, c) \in Seq(Conns)
        BY <1>0, AppendProperties DEF TypeServer
      <4> QED
        BY <1>0, <3>2, <4>1 DEF Connect, TypeServer, ConnStates
    <3> QED
      BY <1>9, <3>1, <3>2
  <2> QED
    BY <1>1, <1>2, <1>3, <1>4, <1>7, <2>1, <2>2, <2>3
<1>10. ASSUME NEW c \in Conns, Arrive(c) \/ Reset(c)
       PROVE  Types'
  <2>1. UNCHANGED <<alive, request, backlog, acceptor_, conn, queue, tx, answered, fate, accepted, now>>
    BY <1>10 DEF Arrive, Reset, browser, history, limiter
  <2>2. TypeBrowser'
    BY <1>0, <1>10 DEF Arrive, Reset, browser, TypeBrowser
  <2>3. rx[c] \in Nat /\ rx[c] <= Len(request[c]) /\ Len(request[c]) \in Nat
    BY <1>0, RequestLength DEF TypeRequest
  <2>4. PICK n \in Nat : n <= Len(request[c]) /\ rx' = [rx EXCEPT ![c] = n]
    <3>1. CASE Arrive(c)
      <4>1. rx' = [rx EXCEPT ![c] = rx[c] + 1] /\ rx[c] < Len(request[c])
        BY <3>1 DEF Arrive
      <4>2. rx[c] + 1 \in Nat /\ rx[c] + 1 <= Len(request[c])
        BY <2>3, <4>1
      <4> QED
        BY <4>1, <4>2, Zenon
    <3>2. CASE Reset(c)
      <4>1. PICK left \in {0, rx[c]} : rx' = [rx EXCEPT ![c] = left]
        BY <3>2 DEF Reset
      <4>2. left \in Nat /\ left <= Len(request[c])
        BY <2>3, <4>1
      <4> QED
        BY <4>1, <4>2, Zenon
    <3> QED
      BY <1>10, <3>1, <3>2
  <2>5. TypeRequest'
    BY <1>0, <2>1, <2>4 DEF TypeRequest
  <2> QED
    BY <1>1, <1>2, <1>3, <1>6, <1>7, <2>1, <2>2, <2>5
<1>11. ASSUME NEW c \in Conns, NEW r \in Requests, Request(c, r)
       PROVE  Types'
  <2>1. /\ UNCHANGED <<alive, peer, backlog, acceptor_, conn, queue, tx, answered, fate, accepted, now>>
        /\ request[c] = <<>> /\ request' = [request EXCEPT ![c] = r] /\ rx' = [rx EXCEPT ![c] = 1]
    BY <1>11 DEF Request, history, limiter
  <2>2. Len(r) \in Nat /\ 1 <= Len(r)
    BY EmptySeq, LenProperties
  <2>3. TypeRequest'
    BY <1>0, <2>1, <2>2 DEF TypeRequest
  <2>4. TypeReads'
    <3> SUFFICES ASSUME NEW e \in Members(queue), e.op = "read"
                 PROVE  e.segments \in 1 .. Len(request'[e.conn])
      BY <2>1 DEF TypeReads
    <3>1. e.segments \in 1 .. Len(request[e.conn]) /\ e.conn \in Conns
      <4>1. e \in Completions
        BY <1>0, MembersType DEF TypeServer
      <4> QED
        BY <1>0, <4>1 DEF TypeReads, Completions
    <3>2. e.conn # c
      BY <2>1, <3>1, EmptySeq
    <3> QED
      BY <1>0, <2>1, <3>1, <3>2 DEF TypeRequest
  <2> QED
    BY <1>1, <1>2, <1>3, <1>5, <1>6, <2>1, <2>3, <2>4
<1>12. CASE AcceptCompletes \/ AcceptFails \/ \E c \in Conns : Reactor(c) \/ WriteCompletes(c)
  <2>1. UNCHANGED <<alive, peer, request, rx, answered, fate, accepted, now>>
    BY <1>12 DEF AcceptCompletes, AcceptFails, Reactor, ReadCompletes, ReadFails, WriteFails,
                 WriteCompletes, browser, history, limiter
  <2>2. TypeServer' /\ TypeReads'
    BY <1>12, TypeReactor
  <2>3. TypeAnswer'
    <3>1. tx' = tx \/ \E c \in Conns, end \in {"whole", "garbled"} : tx' = [tx EXCEPT ![c] = end]
      BY <1>12 DEF AcceptCompletes, AcceptFails, Reactor, ReadCompletes, ReadFails, WriteFails, WriteCompletes
    <3> QED
      BY <1>0, <2>1, <3>1 DEF TypeAnswer, Sent
  <2> QED
    BY <1>1, <1>2, <1>4, <1>5, <2>1, <2>2, <2>3
<1>13. ASSUME NEW c \in Conns, HandleAccept(c)
       PROVE  Types'
  <2>1. UNCHANGED <<alive, peer, request, rx, backlog, tx, answered>>
    BY <1>13 DEF HandleAccept, browser
  <2>2. PICK outcome \in {"admitted", "refused", "vanished"} : Settle(c, outcome)
    BY <1>13 DEF HandleAccept, Admission
  <2>3. now' = now
    <3>1. UNCHANGED limiter \/ CheckRateLimit(ClientOf[c])
      BY <1>13 DEF HandleAccept, Admission
    <3> QED
      BY <3>1 DEF limiter, CheckRateLimit, Limiter!FirstRequest, Limiter!NextWindow,
                  Limiter!CountRequest, Limiter!RefuseExcess, Limiter!OpenWindow
  <2>4. TypeFate'
    <3>1. now \in 0 .. now
      BY <1>n
    <3> QED
      BY <1>0, <2>2, <2>3, <3>1 DEF Settle, TypeFate, Fates
  <2>5. TypeServer' /\ TypeReads'
    <3>1. PICK next \in {"queued", "reading", "writing", "closed"} : conn' = [conn EXCEPT ![c] = next]
      BY <2>2 DEF Settle
    <3>2. /\ Runs("accept", c) /\ queue' = Tail(queue) /\ "accept" \in Ops
          /\ acceptor_' = "armed" /\ UNCHANGED <<backlog, request>>
      BY <1>13 DEF HandleAccept, browser, Ops
    <3> QED
      BY <3>1, <3>2, TypeHandler
  <2> QED
    BY <1>1, <1>3, <1>4, <1>5, <2>1, <2>4, <2>5
<1>14. ASSUME NEW c \in Conns, HandleNoAccept(c) \/ HandleFailure(c) \/ HandleWrite(c)
       PROVE  Types'
  <2>1. UNCHANGED <<peer, request, rx, backlog, tx, answered, fate, accepted, now>>
    BY <1>14 DEF HandleNoAccept, HandleFailure, HandleWrite, browser, history, limiter
  <2>2. TypeBrowser'
    <3>1. alive' \in BOOLEAN
      BY <1>0, <1>14, Zenon DEF HandleNoAccept, HandleFailure, HandleWrite, TypeBrowser
    <3> QED
      BY <1>0, <2>1, <3>1 DEF TypeBrowser
  <2>3. TypeServer' /\ TypeReads'
    <3>1. PICK op \in {"no_accept", "no_read", "write", "no_write"} : Runs(op, c)
      BY <1>14 DEF HandleNoAccept, HandleFailure, HandleWrite
    <3>2. /\ queue' = Tail(queue) /\ op \in Ops
          /\ conn' \in {conn, [conn EXCEPT ![c] = "closed"]}
          /\ acceptor_' \in {"armed", acceptor_} /\ UNCHANGED <<backlog, request>>
      BY <1>14 DEF HandleNoAccept, HandleFailure, HandleWrite, browser, Ops
    <3> QED
      BY <3>1, <3>2, TypeHandler
  <2> QED
    BY <1>1, <1>2, <1>3, <1>4, <2>1, <2>2, <2>3
<1>15. ASSUME NEW c \in Conns, HandleRead(c)
       PROVE  Types'
  <2>1. UNCHANGED <<alive, peer, request, rx, backlog, acceptor_, fate, accepted, now>>
    BY <1>15 DEF HandleRead, browser, limiter
  <2> DEFINE resource == request[c][Head(queue).segments]
  <2>2. resource \in Resources
    BY <1>15, ReadNames DEF HandleRead
  <2>3. /\ answered' = answered \/ (resource # "oversize" /\ answered' = [answered EXCEPT ![c] = resource])
        /\ tx' = tx \/ \E end \in {"whole", "part"} : tx' = [tx EXCEPT ![c] = end]
    BY <1>15 DEF HandleRead, StartWrite
  <2> HIDE DEF resource
  <2>4. TypeAnswer'
    <3>1. resource # "oversize" => resource \in Named
      BY <2>2 DEF Named
    <3> QED
      BY <1>0, <2>3, <3>1 DEF TypeAnswer, Sent
  <2>5. TypeServer' /\ TypeReads'
    <3>1. PICK next \in {"queued", "reading", "writing", "closed"} : conn' = [conn EXCEPT ![c] = next]
      BY <1>15 DEF HandleRead, StartWrite
    <3>2. /\ Runs("read", c) /\ "read" \in Ops
          /\ queue' = Tail(queue) \/ \E after \in {"write", "no_write"} :
                                         queue' = Append(Tail(queue), Completion(after, c, 0))
      BY <1>15 DEF HandleRead, StartWrite, Ops
    <3> QED
      BY <2>1, <3>1, <3>2, TypeHandler
  <2> QED
    BY <1>1, <1>2, <1>4, <1>5, <2>1, <2>4, <2>5
<1>16. CASE UNCHANGED vars
  <2>1. UNCHANGED <<alive, peer, request, rx, backlog, acceptor_, conn, queue, tx, answered, fate, accepted, now>>
    BY <1>16 DEF vars, browser, history, limiter
  <2> QED
    BY <1>1, <1>2, <1>3, <1>4, <1>5, <1>6, <1>7, <2>1
<1> QED
  BY <1>8, <1>9, <1>10, <1>11, <1>12, <1>13, <1>14, <1>15, <1>16 DEF Next, Environment, Handlers

-----------------------------------------------------------------------------
(* Who is served, and with what. *)

(* What became of a connection follows from the limiter's decision, and    *)
(* its answer from its request.                                            *)
Outcome(c) ==
    /\ tx[c] # "nothing" => answered[c] # "none"
    /\ answered[c] # "none" =>
          /\ fate[c] = "admitted"
          /\ conn[c] \in {"queued", "writing", "closed"}
          /\ \E i \in DOMAIN request[c] : request[c][i] = answered[c]
    /\ fate[c] \in {"refused", "vanished"} => conn[c] = "closed"
    /\ conn[c] \in {"none", "backlog"} => fate[c] = "none"
    /\ conn[c] = "reading" => fate[c] = "admitted"
    /\ conn[c] = "writing" => answered[c] # "none"

(* A handler waits only for what its connection has come to. *)
Waits(e) ==
    /\ e.op = "accept" => fate[e.conn] = "none"
    /\ e.op \in {"read", "no_read"} => fate[e.conn] = "admitted" /\ answered[e.conn] = "none"

ServeInv == (\A c \in Conns : Outcome(c)) /\ (\A e \in Members(queue) : Waits(e))

(* Before the first connection there is nothing to show. *)
LEMMA ServeInit == Init => ServeInv
<1> SUFFICES ASSUME Init PROVE ServeInv
  OBVIOUS
<1>1. \A c \in Conns : tx[c] = "nothing" /\ answered[c] = "none" /\ fate[c] = "none" /\ conn[c] = "none"
  BY DEF Init
<1>2. Members(queue) = {}
  BY MembersEmpty DEF Init
<1> QED
  BY <1>1, <1>2 DEF ServeInv, Outcome

(* A step that concerns one connection leaves the others as they are; of   *)
(* the handlers that wait then, the new ones are those to look at.         *)
LEMMA ServeFrame ==
  ASSUME Types, ServeInv, NEW c,
         \A d \in Conns \ {c} : /\ tx'[d] = tx[d] /\ answered'[d] = answered[d] /\ fate'[d] = fate[d]
                                /\ conn'[d] = conn[d] /\ request'[d] = request[d],
         c \in Conns => Outcome(c)',
         \A e \in Members(queue') :
            (e \in Members(queue) /\ (e.conn = c => e.op = "no_accept")) \/ Waits(e)'
  PROVE  ServeInv'
<1>1. ASSUME NEW d \in Conns
      PROVE  Outcome(d)'
  <2>1. CASE d = c
    BY <2>1
  <2>2. CASE d # c
    <3>1. Outcome(d)
      BY DEF ServeInv
    <3>2. /\ tx'[d] = tx[d] /\ answered'[d] = answered[d] /\ fate'[d] = fate[d]
          /\ conn'[d] = conn[d] /\ request'[d] = request[d]
      BY <2>2
    <3> QED
      BY <3>1, <3>2 DEF Outcome
  <2> QED
    BY <2>1, <2>2
<1>2. ASSUME NEW e \in Members(queue')
      PROVE  Waits(e)'
  <2>1. CASE e \in Members(queue) /\ (e.conn = c => e.op = "no_accept")
    <3>1. Waits(e)
      BY <2>1 DEF ServeInv
    <3>2. e.conn \in Conns
      <4>1. queue \in Seq(Completions)
        BY DEF Types, TypeServer
      <4>2. e \in Completions
        BY <2>1, <4>1, MembersType
      <4> QED
        BY <4>2 DEF Completions
    <3>3. CASE e.conn = c
      BY <2>1, <3>3 DEF Waits
    <3>4. CASE e.conn # c
      BY <3>1, <3>2, <3>4 DEF Waits
    <3> QED
      BY <3>3, <3>4
  <2> QED
    BY <2>1
<1> QED
  BY <1>1, <1>2 DEF ServeInv

(* A step that touches none of this. *)
LEMMA ServeStay ==
  ASSUME ServeInv, UNCHANGED <<tx, answered, fate, conn, request, queue>>
  PROVE  ServeInv'
BY DEF ServeInv, Outcome, Waits

(* Every step keeps the outcomes. *)
LEMMA ServeStep ==
  ASSUME Types, QueueInv, ServeInv, [Next]_vars
  PROVE  ServeInv'
<1>t. /\ TypeServer /\ TypeRequest /\ conn \in [Conns -> ConnStates] /\ queue \in Seq(Completions)
      /\ backlog \in Seq(Conns) /\ tx \in [Conns -> Sent] /\ answered \in [Conns -> Named]
      /\ fate \in [Conns -> Fates] /\ request \in [Conns -> Requests \union {<<>>}]
  BY DEF Types, TypeServer, TypeRequest, TypeAnswer, TypeFate
<1>o. \A c \in Conns : Outcome(c)
  BY DEF ServeInv
<1>1. CASE Tick \/ UNCHANGED vars
  BY <1>1, ServeStay DEF Tick, vars, browser, history
<1>2. ASSUME NEW c \in Conns, Arrive(c) \/ Leave(c) \/ Reset(c)
      PROVE  ServeInv'
  BY <1>2, ServeStay DEF Arrive, Leave, Reset, browser, history
<1>3. ASSUME NEW c \in Conns, Connect(c)
      PROVE  ServeInv'
  <2>1. conn[c] = "none" /\ conn' = [conn EXCEPT ![c] = "backlog"] /\ UNCHANGED <<tx, answered, fate, request, queue>>
    BY <1>3 DEF Connect, QueueInv, history
  <2>2. conn'[c] = "backlog" /\ \A d \in Conns \ {c} : conn'[d] = conn[d]
    BY <1>t, <2>1
  <2>3. Outcome(c)'
    BY <1>o, <2>1, <2>2 DEF Outcome
  <2>4. \A e \in Members(queue) : e.conn = c => e.op = "no_accept"
    BY <1>t, <2>1, NotQueued
  <2> QED
    BY <2>1, <2>2, <2>3, <2>4, ServeFrame
<1>4. ASSUME NEW c \in Conns, NEW r \in Requests, Request(c, r)
      PROVE  ServeInv'
  <2>1. request[c] = <<>> /\ request' = [request EXCEPT ![c] = r] /\ UNCHANGED <<tx, answered, fate, conn, queue>>
    BY <1>4 DEF Request, history
  <2>2. \A d \in Conns \ {c} : request'[d] = request[d]
    BY <1>t, <2>1
  <2>3. answered[c] = "none"
    <3>1. DOMAIN request[c] = 1 .. 0
      <4>1. DOMAIN request[c] = 1 .. Len(request[c])
        BY <1>t, RequestLength
      <4>2. Len(request[c]) = 0
        BY <2>1, EmptySeq
      <4> QED
        BY <4>1, <4>2
    <3> QED
      BY <1>o, <3>1 DEF Outcome
  <2>4. Outcome(c)'
    BY <1>o, <2>1, <2>3 DEF Outcome
  <2>5. \A e \in Members(queue) : Waits(e)'
    BY <2>1 DEF ServeInv, Waits
  <2> QED
    BY <2>1, <2>2, <2>4, <2>5, ServeFrame
<1>5. ASSUME NEW c \in Conns, NEW op \in Ops, NEW n \in Nat, Complete(op, c, n), op # "no_accept",
             conn[c] # "queued", UNCHANGED <<answered, fate, request>>,
             \A d \in Conns \ {c} : tx'[d] = tx[d], tx'[c] # "nothing" => answered[c] # "none",
             fate[c] \notin {"refused", "vanished"},
             op = "accept" => fate[c] = "none",
             op \in {"read", "no_read"} => fate[c] = "admitted" /\ answered[c] = "none"
      PROVE  ServeInv'
  <2> DEFINE e == Completion(op, c, n)
  <2>1. e \in Completions /\ e.op = op /\ e.conn = c
    BY NewCompletion
  <2>2. queue' = Append(queue, e) /\ conn' = [conn EXCEPT ![c] = "queued"]
    BY <1>5 DEF Complete
  <2> HIDE DEF e
  <2>3. Members(queue') = Members(queue) \union {e}
    BY <1>t, <2>1, <2>2, JoinsQueue
  <2>4. conn'[c] = "queued" /\ \A d \in Conns \ {c} : conn'[d] = conn[d]
    BY <1>t, <2>2
  <2>5. Outcome(c)'
    BY <1>o, <1>5, <2>4 DEF Outcome
  <2>6. Waits(e)'
    BY <1>5, <2>1 DEF Waits
  <2>7. \A w \in Members(queue) : w.conn = c => w.op = "no_accept"
    BY <1>t, <1>5, NotQueued
  <2> QED
    BY <1>5, <2>3, <2>4, <2>5, <2>6, <2>7, ServeFrame
<1>6. CASE AcceptCompletes
  <2> DEFINE c == Head(backlog)
  <2>1. c \in Conns /\ c \in Members(backlog)
    BY <1>t, <1>6, HeadTailProperties, MembersTail DEF AcceptCompletes
  <2>2. Complete("accept", c, 0) /\ UNCHANGED <<tx, answered, fate, request>>
    BY <1>6 DEF AcceptCompletes, browser, history
  <2> HIDE DEF c
  <2>3. conn[c] = "backlog"
    <3>1. Cardinality(Places(backlog, Only(c))) # 0
      BY <1>t, <2>1, PlacesNone DEF Only
    <3> QED
      BY <2>1, <3>1 DEF QueueInv
  <2>4. fate[c] = "none" /\ (tx[c] # "nothing" => answered[c] # "none")
    BY <1>o, <2>1, <2>3 DEF Outcome
  <2>5. "accept" \in Ops /\ 0 \in Nat
    BY DEF Ops
  <2> QED
    BY <1>5, <2>1, <2>2, <2>3, <2>4, <2>5
<1>7. CASE AcceptFails
  <2> DEFINE e == Completion("no_accept", Head(backlog), 0)
  <2>1. Head(backlog) \in Conns
    BY <1>t, <1>7, HeadTailProperties DEF AcceptFails
  <2>2. e \in Completions /\ e.op = "no_accept"
    BY <2>1, NewCompletion DEF Ops
  <2>3. queue' = Append(queue, e) /\ UNCHANGED <<tx, answered, fate, conn, request>>
    BY <1>7 DEF AcceptFails, browser, history
  <2> HIDE DEF e
  <2>4. Members(queue') = Members(queue) \union {e}
    BY <1>t, <2>2, <2>3, JoinsQueue
  <2> QED
    BY <2>2, <2>3, <2>4 DEF ServeInv, Outcome, Waits
<1>8. ASSUME NEW c \in Conns, ReadCompletes(c) \/ ReadFails(c) \/ WriteFails(c) \/ WriteCompletes(c)
      PROVE  ServeInv'
  <2>1. UNCHANGED <<answered, fate, request>>
    BY <1>8 DEF ReadCompletes, ReadFails, WriteFails, WriteCompletes, browser, history
  <2>2. CASE ReadCompletes(c) \/ ReadFails(c)
    <3>1. conn[c] = "reading" /\ tx' = tx /\ (Complete("read", c, rx[c]) \/ Complete("no_read", c, 0))
      BY <2>2 DEF ReadCompletes, ReadFails
    <3>2. fate[c] = "admitted" /\ answered[c] = "none" /\ (tx[c] # "nothing" => answered[c] # "none")
      BY <1>o, <3>1 DEF Outcome
    <3>3. "read" \in Ops /\ "no_read" \in Ops /\ rx[c] \in Nat /\ 0 \in Nat
      BY <1>t, RequestLength DEF Ops
    <3> QED
      BY <1>5, <2>1, <3>1, <3>2, <3>3
  <2>3. CASE WriteCompletes(c) \/ WriteFails(c)
    <3>1. /\ conn[c] = "writing" /\ (Complete("write", c, 0) \/ Complete("no_write", c, 0))
          /\ \A d \in Conns \ {c} : tx'[d] = tx[d]
      BY <1>t, <2>3 DEF WriteCompletes, WriteFails
    <3>2. answered[c] # "none" /\ fate[c] = "admitted"
      BY <1>o, <3>1 DEF Outcome
    <3>3. "write" \in Ops /\ "no_write" \in Ops /\ 0 \in Nat
      BY DEF Ops
    <3> QED
      BY <1>5, <2>1, <3>1, <3>2, <3>3
  <2> QED
    BY <1>8, <2>2, <2>3
<1>9. ASSUME NEW c \in Conns, NEW op, op # "no_accept", Runs(op, c),
             queue' = Tail(queue) \/ \E after \in {"write", "no_write"} :
                                        queue' = Append(Tail(queue), Completion(after, c, 0)),
             \A d \in Conns \ {c} : /\ tx'[d] = tx[d] /\ answered'[d] = answered[d]
                                    /\ fate'[d] = fate[d] /\ conn'[d] = conn[d],
             UNCHANGED request, Outcome(c)'
      PROVE  ServeInv'
  <2>1. \A e \in Members(Tail(queue)) : e \in Members(queue) /\ (e.conn = c => e.op = "no_accept")
    BY <1>t, <1>9, OnlyHandler, HeadRuns
  <2>2. CASE queue' = Tail(queue)
    BY <1>9, <2>1, <2>2, ServeFrame
  <2>3. ASSUME NEW after \in {"write", "no_write"}, queue' = Append(Tail(queue), Completion(after, c, 0))
        PROVE  ServeInv'
    <3> DEFINE e == Completion(after, c, 0)
    <3>1. e \in Completions /\ e.op = after
      BY NewCompletion DEF Ops
    <3>2. queue' = Append(Tail(queue), e)
      BY <2>3
    <3> HIDE DEF e
    <3>3. Members(queue') = Members(Tail(queue)) \union {e}
      BY <1>t, <1>9, <3>1, <3>2, HeadRuns, JoinsQueue
    <3>4. Waits(e)'
      BY <3>1 DEF Waits
    <3> QED
      BY <1>9, <2>1, <3>3, <3>4, ServeFrame
  <2> QED
    BY <1>9, <2>2, <2>3
<1>10. ASSUME NEW c \in Conns, NEW op, Runs(op, c)
       PROVE  Head(queue).op = op /\ Head(queue).conn = c /\ Waits(Head(queue))
  BY <1>t, <1>10, HeadRuns DEF ServeInv
<1>11. ASSUME NEW c \in Conns, HandleAccept(c)
       PROVE  ServeInv'
  <2>1. /\ Runs("accept", c) /\ queue' = Tail(queue) /\ UNCHANGED <<tx, answered, request>>
    BY <1>11 DEF HandleAccept, browser
  <2>2. fate[c] = "none"
    BY <1>10, <2>1 DEF Waits
  <2>3. answered[c] = "none" /\ tx[c] = "nothing"
    BY <1>o, <2>2 DEF Outcome
  <2>4. PICK outcome \in {"admitted", "refused", "vanished"} : Settle(c, outcome)
    BY <1>11 DEF HandleAccept, Admission
  <2>5. /\ fate'[c] = outcome /\ conn'[c] = IF outcome = "admitted" THEN "reading" ELSE "closed"
        /\ \A d \in Conns \ {c} : fate'[d] = fate[d] /\ conn'[d] = conn[d]
    BY <1>t, <2>4 DEF Settle
  <2>6. Outcome(c)'
    BY <2>1, <2>3, <2>5 DEF Outcome
  <2> QED
    BY <1>9, <2>1, <2>5, <2>6
<1>12. ASSUME NEW c \in Conns, HandleNoAccept(c)
       PROVE  ServeInv'
  <2>1. Members(queue') \subseteq Members(queue) /\ UNCHANGED <<tx, answered, fate, conn, request>>
    BY <1>t, <1>12, HeadRuns DEF HandleNoAccept, browser, history
  <2> QED
    BY <2>1 DEF ServeInv, Outcome, Waits
<1>13. ASSUME NEW c \in Conns, HandleFailure(c) \/ HandleWrite(c)
       PROVE  ServeInv'
  <2>1. PICK op \in {"no_read", "no_write", "write"} : Runs(op, c)
    BY <1>13 DEF HandleFailure, HandleWrite
  <2>2. /\ queue' = Tail(queue) /\ conn' = [conn EXCEPT ![c] = "closed"]
        /\ UNCHANGED <<tx, answered, fate, request>>
    BY <1>13 DEF HandleFailure, HandleWrite, browser, history
  <2>3. conn'[c] = "closed" /\ \A d \in Conns \ {c} : conn'[d] = conn[d]
    BY <1>t, <2>2
  <2>4. Outcome(c)'
    BY <1>o, <2>2, <2>3 DEF Outcome
  <2> QED
    BY <1>9, <2>1, <2>2, <2>3, <2>4
<1>14. ASSUME NEW c \in Conns, HandleRead(c)
       PROVE  ServeInv'
  <2> DEFINE resource == request[c][Head(queue).segments]
  <2>1. Runs("read", c) /\ UNCHANGED <<fate, request>>
    BY <1>14 DEF HandleRead, browser
  <2>2. fate[c] = "admitted" /\ answered[c] = "none"
    BY <1>10, <2>1 DEF Waits
  <2>3. resource # "none" /\ \E i \in DOMAIN request[c] : request[c][i] = resource
    BY <2>1, ReadNames
  <2>4. \/ /\ conn' = [conn EXCEPT ![c] = "closed"] /\ queue' = Tail(queue) /\ UNCHANGED <<tx, answered>>
        \/ /\ answered' = [answered EXCEPT ![c] = resource]
           /\ StartWrite(c)
    BY <1>14 DEF HandleRead
  <2> HIDE DEF resource
  <2>5. CASE conn' = [conn EXCEPT ![c] = "closed"] /\ queue' = Tail(queue) /\ UNCHANGED <<tx, answered>>
    <3>1. conn'[c] = "closed" /\ \A d \in Conns \ {c} : conn'[d] = conn[d]
      BY <1>t, <2>5
    <3>2. Outcome(c)'
      BY <1>o, <2>1, <2>2, <2>5, <3>1 DEF Outcome
    <3> QED
      BY <1>9, <2>1, <2>5, <3>1, <3>2
  <2>6. CASE answered' = [answered EXCEPT ![c] = resource] /\ StartWrite(c)
    <3>1. /\ \E next \in {"queued", "writing"} : conn' = [conn EXCEPT ![c] = next]
          /\ queue' = Tail(queue) \/ \E after \in {"write", "no_write"} :
                                        queue' = Append(Tail(queue), Completion(after, c, 0))
          /\ tx' = tx \/ \E end \in {"whole", "part"} : tx' = [tx EXCEPT ![c] = end]
      BY <2>6 DEF StartWrite
    <3>2. /\ answered'[c] = resource /\ conn'[c] \in {"queued", "writing"}
          /\ \A d \in Conns \ {c} : answered'[d] = answered[d] /\ conn'[d] = conn[d] /\ tx'[d] = tx[d]
      BY <1>t, <2>6, <3>1
    <3>3. Outcome(c)'
      BY <2>1, <2>2, <2>3, <3>2 DEF Outcome
    <3> QED
      BY <1>9, <2>1, <3>1, <3>2, <3>3
  <2> QED
    BY <2>4, <2>5, <2>6
<1> QED
  BY <1>1, <1>2, <1>3, <1>4, <1>6, <1>7, <1>8, <1>11, <1>12, <1>13, <1>14
     DEF Next, Environment, Reactor, Handlers

-----------------------------------------------------------------------------
(* Who was admitted, and when. *)

(* The connections of a client that were admitted at a time in T. *)
Who(became, at, ip, T) == {d \in ConnsOf(ip) : became[d] = "admitted" /\ at[d] \in T}

(* The times less than WINDOW before another. *)
Recent(t) == {s \in Nat : t - s \in 0 .. WINDOW - 1}

(* At whatever times one looks, the limiter let in as many requests of a   *)
(* client as connections of it were admitted;                              *)
AdmitInv ==
    \A ip \in Clients : \A T :
        /\ IsFiniteSet(Who(fate, accepted, ip, T))
        /\ Cardinality(Who(fate, accepted, ip, T)) = Cardinality(Places(admits[ip], T))

(* and none was refused before as many as the limit were admitted. *)
RefusedInv ==
    \A c \in Conns : fate[c] = "refused" =>
        Cardinality(Who(fate, accepted, ClientOf[c], Recent(accepted[c]))) >= max_requests_per_minute

(* What one question to the limiter does. *)
LEMMA CheckEffect ==
  ASSUME NEW ip \in Clients, CheckRateLimit(ip)
  PROVE  /\ now' = now
         /\ \/ answer'.granted /\ admits' = [admits EXCEPT ![ip] = Append(admits[ip], now)]
            \/ ~ answer'.granted /\ answer'.ip = ip /\ answer'.at = now /\ admits' = admits
BY DEF CheckRateLimit, Limiter!FirstRequest, Limiter!NextWindow, Limiter!CountRequest,
       Limiter!RefuseExcess, Limiter!OpenWindow, Limiter!Answer, Limiter!Admit

(* What comes after a recent time is recent. *)
LEMMA LaterIsRecent ==
  ASSUME NEW t \in Nat, NEW a \in Nat, NEW b \in Nat, b <= a, a <= t, t - b < WINDOW
  PROVE  a \in Recent(t)
<1>1. t - a \in 0 .. WINDOW - 1
  OBVIOUS
<1> QED
  BY <1>1 DEF Recent

(* When the last m of a history of times are recent, at least m are. *)
LEMMA RecentPlaces ==
  ASSUME NEW A \in Seq(Nat), NEW m \in Nat \ {0}, m <= Len(A), NEW t \in Nat,
         \A i, j \in 1 .. Len(A) : i <= j => A[i] <= A[j],
         \A i \in 1 .. Len(A) : A[i] <= t,
         NEW k, k = Len(A) - m + 1, t - A[k] < WINDOW
  PROVE  Cardinality(Places(A, Recent(t))) >= m
<1> DEFINE n == Len(A)
<1>1. n \in Nat /\ k \in 1 .. n /\ n - k + 1 = m
  BY LenProperties
<1>2. \A i \in 1 .. n : A[i] \in Nat
  BY ElementOfSeq
<1>3. \A i \in k .. n : i \in 1 .. n /\ k <= i
  BY <1>1
<1>4. \A i, j \in 1 .. n : i <= j => A[i] <= A[j]
  OBVIOUS
<1>5. \A i \in 1 .. n : A[i] <= t
  OBVIOUS
<1> HIDE DEF n
<1>6. ASSUME NEW i \in k .. n
      PROVE  i \in 1 .. n /\ A[i] \in Recent(t)
  <2>1. i \in 1 .. n /\ A[k] <= A[i] /\ A[i] <= t
    BY <1>1, <1>3, <1>4, <1>5
  <2>2. A[k] \in Nat /\ A[i] \in Nat /\ t - A[k] < WINDOW
    BY <1>1, <1>2, <2>1
  <2> QED
    BY <2>1, <2>2, LaterIsRecent
<1>7. k .. n \subseteq Places(A, Recent(t))
  BY <1>6 DEF Places, n
<1>8. Cardinality(k .. n) = m
  <2>1. k \in Int /\ n \in Int /\ k <= n
    BY <1>1
  <2>2. Cardinality(k .. n) = n - k + 1
    BY <2>1, FS_Interval
  <2> QED
    BY <1>1, <2>2
<1>9. IsFiniteSet(Places(A, Recent(t)))
  BY PlacesFinite
<1>10. Cardinality(k .. n) <= Cardinality(Places(A, Recent(t)))
  BY <1>7, <1>9, FS_Subset
<1> QED
  BY <1>8, <1>10

(* A client that is refused now has had as many as the limit admitted. *)
LEMMA RefusedNow ==
  ASSUME LP!IInv, LP!IInv', NEW ip \in Clients, ~ answer'.granted,
         answer'.ip = ip, answer'.at = now, admits' = admits
  PROVE  Cardinality(Places(admits[ip], Recent(now))) >= max_requests_per_minute
<1> DEFINE A == admits[ip]
           m == max_requests_per_minute
           k == Len(A) - m + 1
<1>1. Len(A) >= m /\ now - A[k] < WINDOW
  BY DEF LP!IInv, LP!NoFalseRefusal
<1>2. LP!History(A, opened[ip]) /\ \A i \in 1 .. Len(A) : A[i] <= now
  BY DEF LP!IInv
<1>3. A \in Seq(Nat) /\ \A i, j \in 1 .. Len(A) : i <= j => A[i] <= A[j]
  BY <1>2 DEF LP!History
<1>4. now \in Nat /\ m \in Nat \ {0} /\ Len(A) \in Nat
  BY <1>3, LenProperties DEF LP!IInv, LP!TypeOK
<1>5. m <= Len(A)
  BY <1>1, <1>4
<1>6. k = Len(A) - m + 1
  OBVIOUS
<1> HIDE DEF k, A, m
<1>7. Cardinality(Places(A, Recent(now))) >= m
  BY <1>1, <1>2, <1>3, <1>4, <1>5, <1>6, RecentPlaces
<1> QED
  BY <1>7 DEF A, m

(* Only the handler of an accept admits or refuses. *)
LEMMA OnlyAccepts ==
  ASSUME [Next]_vars
  PROVE  UNCHANGED <<fate, accepted, admits>> \/ \E c \in Conns : HandleAccept(c)
<1>1. CASE UNCHANGED vars
  BY <1>1 DEF vars, history, limiter
<1>2. CASE Environment
  BY <1>2 DEF Environment, Tick, Limiter!Tick, Connect, Request, Arrive, Leave, Reset, history, limiter
<1>3. CASE AcceptCompletes \/ AcceptFails \/ \E c \in Conns : Reactor(c) \/ WriteCompletes(c)
  BY <1>3 DEF AcceptCompletes, AcceptFails, Reactor, ReadCompletes, ReadFails, WriteFails,
              WriteCompletes, history, limiter
<1>4. CASE Handlers
  BY <1>4 DEF Handlers, HandleNoAccept, HandleRead, HandleFailure, HandleWrite, history, limiter
<1> QED
  BY <1>1, <1>2, <1>3, <1>4 DEF Next

(* Initially nobody was admitted. *)
LEMMA AdmitInit == Init => AdmitInv /\ RefusedInv
<1> SUFFICES ASSUME Init PROVE AdmitInv /\ RefusedInv
  OBVIOUS
<1>1. \A d \in Conns : fate[d] = "none"
  BY DEF Init
<1>2. ASSUME NEW ip \in Clients, NEW T
      PROVE  IsFiniteSet(Who(fate, accepted, ip, T)) /\ Cardinality(Who(fate, accepted, ip, T)) = Cardinality(Places(admits[ip], T))
  <2>1. Who(fate, accepted, ip, T) = {}
    BY <1>1 DEF Who, ConnsOf
  <2>2. admits[ip] = <<>>
    BY DEF Init, Limiter!Init
  <2> QED
    BY <2>1, <2>2, FS_EmptySet, PlacesEmpty
<1> QED
  BY <1>1, <1>2 DEF AdmitInv, RefusedInv

(* When one connection is settled, the others are as they were. *)
LEMMA WhoOthers ==
  ASSUME NEW c \in Conns, fate[c] = "none",
         \A d \in Conns \ {c} : fate'[d] = fate[d] /\ accepted'[d] = accepted[d],
         NEW ip, NEW T
  PROVE  /\ c \notin Who(fate, accepted, ip, T)
         /\ IF fate'[c] = "admitted" /\ ClientOf[c] = ip /\ accepted'[c] \in T
            THEN Who(fate', accepted', ip, T) = Who(fate, accepted, ip, T) \union {c}
            ELSE Who(fate', accepted', ip, T) = Who(fate, accepted, ip, T)
BY DEF Who, ConnsOf

(* Every step keeps the limiter and the connections in agreement. *)
LEMMA AdmitStep ==
  ASSUME Types, ServeInv, LP!IInv, LP!IInv', AdmitInv, RefusedInv, [Next]_vars
  PROVE  AdmitInv' /\ RefusedInv'
<1>1. CASE UNCHANGED <<fate, accepted, admits>>
  BY <1>1 DEF AdmitInv, RefusedInv, Who
<1>2. ASSUME NEW c \in Conns, HandleAccept(c)
      PROVE  AdmitInv' /\ RefusedInv'
  <2> DEFINE mine == ClientOf[c]
  <2>1. mine \in Clients
    OBVIOUS
  <2>2. fate \in [Conns -> Fates] /\ accepted \in [Conns -> 0 .. now] /\ now \in Nat
    BY DEF Types, TypeFate, LP!IInv, LP!TypeOK
  <2>3. admits \in [Clients -> Seq(Nat)]
    BY DEF LP!IInv, LP!TypeOK
  <2>4. fate[c] = "none"
    <3>1. Runs("accept", c)
      BY <1>2 DEF HandleAccept
    <3>2. Head(queue) \in Members(queue) /\ Head(queue).op = "accept" /\ Head(queue).conn = c
      BY <3>1, HeadRuns DEF Types
    <3> QED
      BY <3>2 DEF ServeInv, Waits
  <2>5. PICK outcome \in {"admitted", "refused", "vanished"} :
           /\ Settle(c, outcome)
           /\ \/ outcome = "vanished" /\ UNCHANGED limiter
              \/ /\ CheckRateLimit(mine)
                 /\ outcome = IF answer'.granted THEN "admitted" ELSE "refused"
    BY <1>2 DEF HandleAccept, Admission
  <2>6. /\ fate'[c] = outcome /\ accepted'[c] = now
        /\ \A d \in Conns \ {c} : fate'[d] = fate[d] /\ accepted'[d] = accepted[d]
    BY <2>2, <2>5 DEF Settle
  <2>7. \/ outcome = "admitted" /\ admits' = [admits EXCEPT ![mine] = Append(admits[mine], now)]
        \/ outcome = "vanished" /\ admits' = admits
        \/ outcome = "refused" /\ ~ answer'.granted /\ answer'.ip = mine /\ answer'.at = now /\ admits' = admits
    BY <2>1, <2>5, CheckEffect DEF limiter
  <2> HIDE DEF mine
  <2>8. ASSUME NEW ip \in Clients, NEW T
        PROVE  /\ c \notin Who(fate, accepted, ip, T)
               /\ IF outcome = "admitted" /\ ip = mine /\ now \in T
                  THEN Who(fate', accepted', ip, T) = Who(fate, accepted, ip, T) \union {c}
                  ELSE Who(fate', accepted', ip, T) = Who(fate, accepted, ip, T)
    BY <2>4, <2>6, WhoOthers DEF mine
  <2>9. ASSUME NEW ip \in Clients, NEW T
        PROVE  Cardinality(Places(admits'[ip], T))
                  = IF outcome = "admitted" /\ ip = mine /\ now \in T
                    THEN Cardinality(Places(admits[ip], T)) + 1
                    ELSE Cardinality(Places(admits[ip], T))
    <3>1. CASE outcome = "admitted" /\ ip = mine
      <4>1. admits[ip] \in Seq(Nat) /\ admits'[ip] = Append(admits[ip], now)
        BY <2>1, <2>3, <2>7, <3>1
      <4>2. Cardinality(Places(Append(admits[ip], now), T))
               = IF now \in T THEN Cardinality(Places(admits[ip], T)) + 1 ELSE Cardinality(Places(admits[ip], T))
        BY <2>2, <4>1, PlacesAppend
      <4> QED
        BY <3>1, <4>1, <4>2
    <3>2. CASE ~ (outcome = "admitted" /\ ip = mine)
      <4>1. admits'[ip] = admits[ip]
        BY <2>3, <2>7, <3>2
      <4> QED
        BY <3>2, <4>1
    <3> QED
      BY <3>1, <3>2
  <2>10. ASSUME NEW ip \in Clients, NEW T
         PROVE  /\ IsFiniteSet(Who(fate', accepted', ip, T))
                /\ Cardinality(Who(fate', accepted', ip, T)) = Cardinality(Places(admits'[ip], T))
                /\ Cardinality(Who(fate', accepted', ip, T)) >= Cardinality(Who(fate, accepted, ip, T))
    <3>1. IsFiniteSet(Who(fate, accepted, ip, T)) /\ Cardinality(Who(fate, accepted, ip, T)) = Cardinality(Places(admits[ip], T))
      BY DEF AdmitInv
    <3>2. Cardinality(Who(fate, accepted, ip, T)) \in Nat
      BY <3>1, FS_CardinalityType
    <3>3. CASE outcome = "admitted" /\ ip = mine /\ now \in T
      <4>1. Who(fate', accepted', ip, T) = Who(fate, accepted, ip, T) \union {c} /\ c \notin Who(fate, accepted, ip, T)
        BY <2>8, <3>3
      <4>2. IsFiniteSet(Who(fate', accepted', ip, T)) /\ Cardinality(Who(fate', accepted', ip, T)) = Cardinality(Who(fate, accepted, ip, T)) + 1
        BY <3>1, <4>1, OneMore
      <4>3. Cardinality(Places(admits'[ip], T)) = Cardinality(Places(admits[ip], T)) + 1
        BY <2>9, <3>3
      <4> QED
        BY <3>1, <3>2, <4>2, <4>3
    <3>4. CASE ~ (outcome = "admitted" /\ ip = mine /\ now \in T)
      <4>1. Who(fate', accepted', ip, T) = Who(fate, accepted, ip, T)
        BY <2>8, <3>4
      <4>2. Cardinality(Places(admits'[ip], T)) = Cardinality(Places(admits[ip], T))
        BY <2>9, <3>4
      <4> QED
        BY <3>1, <3>2, <4>1, <4>2
    <3> QED
      BY <3>3, <3>4
  <2>11. AdmitInv'
    BY <2>10 DEF AdmitInv
  <2>12. ASSUME NEW d \in Conns, fate'[d] = "refused"
         PROVE  Cardinality(Who(fate', accepted', ClientOf[d], Recent(accepted'[d]))) >= max_requests_per_minute
    <3>0. ClientOf[d] \in Clients /\ max_requests_per_minute \in Nat
      OBVIOUS
    <3>1. CASE d = c
      <4>1. Cardinality(Places(admits[mine], Recent(now))) >= max_requests_per_minute /\ admits' = admits
        <5>1. ~ answer'.granted /\ answer'.ip = mine /\ answer'.at = now /\ admits' = admits
          BY <2>6, <2>7, <3>1, <2>12
        <5> QED
          BY <2>1, <5>1, RefusedNow DEF mine
      <4>2. ClientOf[d] = mine /\ accepted'[d] = now
        BY <2>6, <3>1 DEF mine
      <4>3. Cardinality(Who(fate', accepted', mine, Recent(now))) = Cardinality(Places(admits'[mine], Recent(now)))
        BY <2>10, <3>0, <4>2
      <4> QED
        BY <4>1, <4>2, <4>3
    <3>2. CASE d # c
      <4>1. fate[d] = "refused" /\ accepted'[d] = accepted[d]
        BY <2>6, <2>12, <3>2
      <4> DEFINE ip == ClientOf[d]
                 T == Recent(accepted[d])
      <4>2. Cardinality(Who(fate, accepted, ip, T)) >= max_requests_per_minute
        BY <4>1 DEF RefusedInv
      <4> HIDE DEF ip, T
      <4>3. ip \in Clients
        BY <3>0 DEF ip
      <4>4. Cardinality(Who(fate', accepted', ip, T)) >= Cardinality(Who(fate, accepted, ip, T))
        BY <2>10, <4>3
      <4>5. Cardinality(Who(fate', accepted', ip, T)) \in Nat /\ Cardinality(Who(fate, accepted, ip, T)) \in Nat
        <5>1. IsFiniteSet(Who(fate', accepted', ip, T)) /\ IsFiniteSet(Who(fate, accepted, ip, T))
          BY <2>10, <4>3 DEF AdmitInv
        <5> QED
          BY <5>1, FS_CardinalityType
      <4>6. Cardinality(Who(fate', accepted', ip, T)) >= max_requests_per_minute
        BY <3>0, <4>2, <4>4, <4>5
      <4> QED
        BY <4>1, <4>6 DEF ip, T
    <3> QED
      BY <3>1, <3>2
  <2>13. RefusedInv'
    BY <2>12 DEF RefusedInv
  <2> QED
    BY <2>11, <2>13
<1> QED
  BY <1>1, <1>2, OnlyAccepts

-----------------------------------------------------------------------------
(* The theorems. *)

IInv ==
    /\ Types
    /\ QueueInv
    /\ ServeInv
    /\ AdmitInv
    /\ RefusedInv
    /\ LP!IInv

(* The invariant holds at the start, *)
LEMMA InvInit == Init => IInv
BY TypeInit, QueueInit, ServeInit, AdmitInit, LimiterInit, LP!InvInit DEF IInv

(* and every step keeps it. *)
LEMMA InvNext == IInv /\ [Next]_vars => IInv'
<1> SUFFICES ASSUME IInv, [Next]_vars
             PROVE  IInv'
  OBVIOUS
<1>1. Types /\ QueueInv /\ ServeInv /\ AdmitInv /\ RefusedInv /\ LP!IInv
  BY DEF IInv
<1>2. LP!IInv'
  BY <1>1, LimiterStep, LP!InvNext
<1>3. Types'
  BY <1>1, <1>2, TypeStep
<1>4. QueueInv'
  BY <1>1, QueueStep
<1>5. ServeInv'
  BY <1>1, ServeStep
<1>6. AdmitInv' /\ RefusedInv'
  BY <1>1, <1>2, AdmitStep
<1> QED
  BY <1>2, <1>3, <1>4, <1>5, <1>6 DEF IInv

(* So every behaviour of the program has it in every state. *)
LEMMA Inductive == Spec => []IInv
BY InvInit, InvNext, PTL DEF Spec

(* The types follow. *)
LEMMA InvTypes == IInv => TypeOK
<1>1. LP!IInv => Limiter!TypeOK
  BY DEF LP!IInv, LP!TypeOK, Limiter!TypeOK
<1> QED
  BY <1>1, TypeParts DEF IInv

(* Every variable has its type, whatever browsers do: a read that waits    *)
(* for its handler took no more segments than its request has              *)
(* (handle_read, process_http_request).                                    *)
THEOREM TypeCorrect == Spec => []TypeOK
BY Inductive, InvTypes, PTL

(* Only a connection that the limiter let in is read from, answered or     *)
(* sent a byte; one it refused, or whose browser had vanished, is closed   *)
(* and stays closed (handle_client).                                       *)
THEOREM OnlyAdmitted == Spec => []OnlyAdmittedServed
<1>1. IInv => OnlyAdmittedServed
  <2> SUFFICES ASSUME IInv
               PROVE  OnlyAdmittedServed
    OBVIOUS
  <2>1. TypeOK
    BY InvTypes
  <2>2. \A c \in Conns : Outcome(c)
    BY DEF IInv, ServeInv
  <2> QED
    BY <2>1, <2>2 DEF OnlyAdmittedServed, Outcome
<1> QED
  BY <1>1, Inductive, PTL

(* A connection is answered at most once, with what a beginning of its own *)
(* request names, and nothing is sent before (process_http_request).       *)
THEOREM AnswersFollowRequests == Spec => []AnswersAreAsked
<1>1. IInv => AnswersAreAsked
  BY DEF IInv, ServeInv, Outcome, AnswersAreAsked
<1> QED
  BY <1>1, Inductive, PTL

(* The limiter and the connections agree on who was admitted and when, and *)
(* a connection is refused only when as many of its own client as the      *)
(* limit allows were admitted in the WINDOW seconds before; vanished and   *)
(* refused connections use up nothing (handle_client, check_rate_limit).   *)
THEOREM AdmissionsAgree == Spec => []AdmissionsMatch
<1>1. IInv => AdmissionsMatch
  <2> SUFFICES ASSUME IInv
               PROVE  AdmissionsMatch
    OBVIOUS
  <2>1. AdmitInv /\ RefusedInv /\ Types
    BY DEF IInv
  <2>2. now \in Nat /\ admits \in [Clients -> Seq(Nat)]
    BY DEF IInv, LP!IInv, LP!TypeOK
  <2>3. ASSUME NEW ip \in Clients, NEW t \in 0 .. now
        PROVE  Cardinality({i \in DOMAIN admits[ip] : admits[ip][i] = t})
                 = Cardinality({c \in ConnsOf(ip) : fate[c] = "admitted" /\ accepted[c] = t})
    <3>1. {i \in DOMAIN admits[ip] : admits[ip][i] = t} = Places(admits[ip], {t})
      <4>1. DOMAIN admits[ip] = 1 .. Len(admits[ip])
        BY <2>2, LenProperties
      <4> QED
        BY <4>1 DEF Places
    <3>2. {c \in ConnsOf(ip) : fate[c] = "admitted" /\ accepted[c] = t} = Who(fate, accepted, ip, {t})
      BY DEF Who
    <3> QED
      BY <2>1, <3>1, <3>2 DEF AdmitInv
  <2>4. ASSUME NEW c \in Conns, fate[c] = "refused"
        PROVE  Cardinality({d \in ConnsOf(ClientOf[c]) :
                               /\ fate[d] = "admitted"
                               /\ accepted[c] - accepted[d] \in 0 .. WINDOW - 1})
                  >= max_requests_per_minute
    <3>1. \A d \in Conns : accepted[d] \in Nat
      BY <2>1, <2>2 DEF Types, TypeFate
    <3>2. {d \in ConnsOf(ClientOf[c]) : /\ fate[d] = "admitted"
                                        /\ accepted[c] - accepted[d] \in 0 .. WINDOW - 1}
             = Who(fate, accepted, ClientOf[c], Recent(accepted[c]))
      BY <3>1 DEF Who, Recent, ConnsOf
    <3> QED
      BY <2>1, <2>4, <3>2 DEF RefusedInv
  <2> QED
    BY <2>3, <2>4 DEF AdmissionsMatch
<1> QED
  BY <1>1, Inductive, PTL
=============================================================================
