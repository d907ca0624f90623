--------------------------- MODULE Honeypot_proofs ---------------------------
(***************************************************************************)
(* Proofs about Honeypot for every number of visits, buffer size, flush    *)
(* interval and failure: the reports of a handler stand together, and what *)
(* the dashboard shows agrees with what was reported and with the log.     *)
(***************************************************************************)
EXTENDS Honeypot, SequenceLemmas

(* The proofs about the logger hold of the instance in this module. *)
LogP == INSTANCE SOCLogger_proofs

USE BufferAssumption, IntervalAssumption, DiskAssumption, BoundsAssumption, VisitsAssumption

-----------------------------------------------------------------------------
(* The logger's part of a step is a step of the logger. *)
LEMMA LoggerInit == Init => LogP!Init
BY DEF Init, Logger!Init, LogP!Init

(* What was proved of one instance of the logger holds of the other. *)
LEMMA SameLogger ==
    /\ Logger!Initialize => LogP!Initialize
    /\ Logger!LogEvent => LogP!LogEvent
    /\ Logger!WriteEntry => LogP!WriteEntry
    /\ Logger!FinishFlush => LogP!FinishFlush
    /\ Logger!Shutdown => LogP!Shutdown
    /\ Logger!CloseLog => LogP!CloseLog
    /\ Logger!Kill => LogP!Kill
    /\ Logger!Tick => LogP!Tick
<1>1. Logger!Initialize => LogP!Initialize
  BY DEF Logger!Initialize, LogP!Initialize, Logger!Put, LogP!Put, Logger!Over, LogP!Over,
         Logger!Open, LogP!Open, Logger!Piece, LogP!Piece
<1>2. Logger!LogEvent => LogP!LogEvent
  BY DEF Logger!LogEvent, LogP!LogEvent, Logger!FlushDue, LogP!FlushDue
<1>3. Logger!WriteEntry => LogP!WriteEntry
  BY DEF Logger!WriteEntry, LogP!WriteEntry, Logger!Put, LogP!Put, Logger!InFlush, LogP!InFlush,
         Logger!Entry, LogP!Entry, Logger!Piece, LogP!Piece
<1>4. Logger!FinishFlush => LogP!FinishFlush
  BY DEF Logger!FinishFlush, LogP!FinishFlush
<1>5. Logger!Shutdown => LogP!Shutdown
  BY DEF Logger!Shutdown, LogP!Shutdown
<1>6. Logger!CloseLog => LogP!CloseLog
  BY DEF Logger!CloseLog, LogP!CloseLog, Logger!Close, LogP!Close, Logger!Piece, LogP!Piece
<1>7. Logger!Kill => LogP!Kill
  BY DEF Logger!Kill, LogP!Kill, Logger!Over, LogP!Over, Logger!InFlush, LogP!InFlush,
         Logger!Piece, LogP!Piece
<1>8. Logger!Tick => LogP!Tick
  BY DEF Logger!Tick, LogP!Tick
<1> QED
  BY <1>1, <1>2, <1>3, <1>4, <1>5, <1>6, <1>7, <1>8

(* The steps of the program, by what they do to the logger. *)
LEMMA LoggerStep ==
  ASSUME [Next]_vars
  PROVE  LogP!Next \/ UNCHANGED logger
<1>1. CASE Start \/ ConstructorThrows \/ Return \/ Interrupt \/ Throw
  BY <1>1, SameLogger DEF Start, ConstructorThrows, Return, Interrupt, Throw, Gone, LogP!Next
<1>2. CASE Reports \/ Flush \/ Tick
  BY <1>2, SameLogger DEF Reports, Flush, Tick, LogP!Next
<1>3. CASE \/ Serve \/ Run \/ Counts \/ Shows \/ ShutDownSocket \/ Written
           \/ \E completion \in Completions : Complete(completion)
  BY <1>3 DEF Serve, Run, Counts, Shows, ShutDownSocket, Written, Complete
<1>4. CASE UNCHANGED vars
  BY <1>4 DEF vars
<1> QED
  BY <1>1, <1>2, <1>3, <1>4 DEF Next, Thread

(* So the logger's invariant stays. *)
LEMMA LoggerStays ==
  ASSUME LogP!IInv, [Next]_vars
  PROVE  LogP!IInv'
<1>1. [LogP!Next]_(LogP!vars)
  BY LoggerStep DEF logger, LogP!vars
<1> QED
  BY <1>1, LogP!TypeStep, LogP!PendingStep, LogP!OrderedStep, LogP!FramedStep DEF LogP!IInv

-----------------------------------------------------------------------------
(* The calls of a handler. *)

Does     == {"log", "count", "write", "show", "shutdown"}
AnyKind  == Kinds \union Uncounted \union {"none"}
RawCalls == [do : Does, kind : AnyKind, visit : {0}]
Calls    == [do : Does, kind : AnyKind, visit : 1 .. MaxVisits]

(* A call whose report the dashboard counts. *)
Countable(call) == call.do = "log" /\ call.kind \in Kinds

(* A report that is counted is followed by its count, and nothing else is *)
(* counted, at least from the second call on.                             *)
Paired(h) ==
    /\ \A i \in 1 .. Len(h) : Countable(h[i]) => i # Len(h)
    /\ \A i \in 1 .. Len(h) : h[i].do = "count" => h[i].kind \in Kinds
    /\ \A i, j \in 1 .. Len(h) : j = i + 1 =>
          /\ h[j].do = "count" <=> Countable(h[i])
          /\ Countable(h[i]) => h[j].kind = h[i].kind

(* No handler begins with a count. *)
Whole(h) == Paired(h) /\ (h # <<>> => h[1].do # "count")

(* The calls of a handler before they are numbered. *)
Good(h) == h \in Seq(RawCalls) /\ Whole(h)

(* A call is a call. *)
LEMMA CallType ==
  ASSUME NEW do \in Does, NEW kind \in AnyKind
  PROVE  LET call == Call(do, kind) IN
         call \in RawCalls /\ call.do = do /\ call.kind = kind
BY DEF Call, RawCalls

(* No call at all, *)
LEMMA GoodEmpty == Good(<<>>)
<1>1. <<>> \in Seq(RawCalls) /\ Len(<<>>) = 0
  BY EmptySeq
<1> QED
  BY <1>1 DEF Good, Whole, Paired

(* one call that is not about a count, *)
LEMMA GoodOne ==
  ASSUME NEW call \in RawCalls, ~ Countable(call), call.do # "count"
  PROVE  Good(<<call>>)
<1> DEFINE h == <<call>>
<1>1. h \in Seq(RawCalls) /\ Len(h) = 1 /\ h[1] = call
  OBVIOUS
<1> HIDE DEF h
<1>2. Whole(h)
  BY <1>1 DEF Whole, Paired
<1> QED
  BY <1>1, <1>2 DEF h, Good

(* a report and its count, *)
LEMMA GoodReport ==
  ASSUME NEW kind \in Kinds
  PROVE  Good(Report(kind))
<1> DEFINE h == Report(kind)
           a == Log(kind)
           b == Count(kind)
<1>1. a \in RawCalls /\ a.do = "log" /\ a.kind = kind /\ b \in RawCalls /\ b.do = "count" /\ b.kind = kind
  BY CallType DEF Log, Count, Does, AnyKind
<1>2. h = <<a, b>>
  BY DEF Report
<1> HIDE DEF h, a, b
<1>3. h \in Seq(RawCalls) /\ Len(h) = 2 /\ h[1] = a /\ h[2] = b
  BY <1>1, <1>2
<1>4. Whole(h)
  BY <1>1, <1>3 DEF Whole, Paired, Countable
<1> QED
  BY <1>3, <1>4 DEF h, Good

(* and one after the other. *)
LEMMA GoodConcat ==
  ASSUME NEW a, NEW b, Good(a), Good(b)
  PROVE  Good(a \o b)
<1> DEFINE h == a \o b
           m == Len(a)
           n == Len(b)
<1>1. /\ a \in Seq(RawCalls) /\ b \in Seq(RawCalls) /\ Whole(a) /\ Whole(b)
      /\ m \in Nat /\ n \in Nat
  BY LenProperties DEF Good
<1>2. /\ h \in Seq(RawCalls) /\ Len(h) = m + n
      /\ \A i \in 1 .. m : h[i] = a[i]
      /\ \A i \in 1 .. m + n : i \notin 1 .. m => i - m \in 1 .. n /\ h[i] = b[i - m]
  BY <1>1, ConcatProperties
<1>3. a = <<>> <=> m = 0
  BY <1>1, EmptySeq
<1>4. b = <<>> <=> n = 0
  BY <1>1, EmptySeq
<1>5. /\ \A i \in 1 .. m : Countable(a[i]) => i # m
      /\ \A i \in 1 .. m : a[i].do = "count" => a[i].kind \in Kinds
      /\ \A i, j \in 1 .. m : j = i + 1 =>
            /\ a[j].do = "count" <=> Countable(a[i])
            /\ Countable(a[i]) => a[j].kind = a[i].kind
      /\ m # 0 => a[1].do # "count"
  BY <1>1, <1>3 DEF Whole, Paired
<1>6. /\ \A i \in 1 .. n : Countable(b[i]) => i # n
      /\ \A i \in 1 .. n : b[i].do = "count" => b[i].kind \in Kinds
      /\ \A i, j \in 1 .. n : j = i + 1 =>
            /\ b[j].do = "count" <=> Countable(b[i])
            /\ Countable(b[i]) => b[j].kind = b[i].kind
      /\ n # 0 => b[1].do # "count"
  BY <1>1, <1>4 DEF Whole, Paired
<1>7. h # <<>> <=> m + n # 0
  BY <1>2, EmptySeq
<1> HIDE DEF h, m, n
<1>8. \A i \in 1 .. Len(h) : Countable(h[i]) => i # Len(h)
  <2> SUFFICES ASSUME NEW i \in 1 .. m + n, Countable(h[i])
               PROVE  i # m + n
    BY <1>2
  <2>1. CASE i \in 1 .. m
    <3>1. i # m
      BY <1>2, <1>5, <2>1
    <3> QED
      BY <1>1, <2>1, <3>1
  <2>2. CASE i \notin 1 .. m
    <3>1. i - m # n
      BY <1>2, <1>6, <2>2
    <3> QED
      BY <1>1, <3>1
  <2> QED
    BY <2>1, <2>2
<1>9. \A i \in 1 .. Len(h) : h[i].do = "count" => h[i].kind \in Kinds
  <2> SUFFICES ASSUME NEW i \in 1 .. m + n
               PROVE  h[i].do = "count" => h[i].kind \in Kinds
    BY <1>2
  <2>1. CASE i \in 1 .. m
    BY <1>2, <1>5, <2>1
  <2>2. CASE i \notin 1 .. m
    BY <1>2, <1>6, <2>2
  <2> QED
    BY <2>1, <2>2
<1>10. ASSUME NEW i \in 1 .. m + n, NEW j \in 1 .. m + n, j = i + 1
       PROVE  /\ h[j].do = "count" <=> Countable(h[i])
              /\ Countable(h[i]) => h[j].kind = h[i].kind
  <2>1. CASE j \in 1 .. m
    <3>1. i \in 1 .. m
      BY <1>1, <1>10, <2>1
    <3> QED
      BY <1>2, <1>5, <1>10, <2>1, <3>1
  <2>2. CASE j \notin 1 .. m /\ i \in 1 .. m
    <3>1. i = m /\ j - m = 1 /\ n # 0 /\ j - m \in 1 .. n
      BY <1>1, <1>2, <1>10, <2>2
    <3>2. ~ Countable(h[i])
      BY <1>2, <1>5, <2>2, <3>1
    <3>3. h[j].do # "count"
      BY <1>2, <1>6, <2>2, <3>1
    <3> QED
      BY <3>2, <3>3
  <2>3. CASE i \notin 1 .. m
    <3>1. j \notin 1 .. m /\ j - m = (i - m) + 1
      BY <1>1, <1>10, <2>3
    <3>2. i - m \in 1 .. n /\ h[i] = b[i - m] /\ j - m \in 1 .. n /\ h[j] = b[j - m]
      BY <1>2, <2>3, <3>1
    <3> QED
      BY <1>6, <3>1, <3>2
  <2> QED
    BY <2>1, <2>2, <2>3
<1>11. h # <<>> => h[1].do # "count"
  <2>1. CASE m # 0
    <3>1. 1 \in 1 .. m
      BY <1>1, <2>1
    <3> QED
      BY <1>2, <1>5, <2>1, <3>1
  <2>2. CASE m = 0 /\ n # 0
    <3>1. 1 \in 1 .. m + n /\ 1 \notin 1 .. m /\ 1 - m = 1
      BY <1>1, <2>2
    <3> QED
      BY <1>2, <1>6, <2>2, <3>1
  <2> QED
    BY <1>7, <2>1, <2>2
<1>12. Whole(h)
  BY <1>2, <1>8, <1>9, <1>10, <1>11 DEF Whole, Paired
<1> QED
  BY <1>2, <1>12 DEF Good, h

(* What a set of sequences of calls is when all of them are good. *)
AllGood(sets) == \A h \in sets : Good(h)

(* A beginning in front of each of them is good. *)
LEMMA GoodThen ==
  ASSUME NEW first, NEW sets, Good(first), AllGood(sets)
  PROVE  AllGood(Then(first, sets))
BY GoodConcat DEF Then, AllGood

(* What the servers' handlers are made of. *)
LEMMA GoodParts ==
  /\ Good(Attack) /\ Good(<<Mention>>) /\ Good(<<Write>>) /\ Good(<<Show>>)
  /\ Good(<<Call("shutdown", "none")>>) /\ AllGood(MayAttack)
  /\ \A kind \in Uncounted : Good(<<Log(kind)>>)
<1>1. Good(Attack)
  BY GoodReport DEF Attack, Kinds
<1>2. "log" \in Does /\ "write" \in Does /\ "show" \in Does /\ "shutdown" \in Does
      /\ \A kind \in Uncounted \union {"none"} : kind \in AnyKind /\ kind \notin Kinds
  BY DEF Does, AnyKind, Kinds, Uncounted
<1>3. ASSUME NEW do \in {"log", "write", "show", "shutdown"}, NEW kind \in Uncounted \union {"none"}
      PROVE  Good(<<Call(do, kind)>>)
  <2> DEFINE call == Call(do, kind)
  <2>1. call \in RawCalls /\ call.do = do /\ call.kind = kind
    BY <1>2, CallType
  <2> HIDE DEF call
  <2>2. ~ Countable(call) /\ call.do # "count"
    BY <1>2, <2>1 DEF Countable
  <2>3. Good(<<call>>)
    BY <2>1, <2>2, GoodOne
  <2> QED
    BY <2>3 DEF call
<1>4. Good(<<Mention>>) /\ Good(<<Write>>) /\ Good(<<Show>>) /\ Good(<<Call("shutdown", "none")>>)
  <2>1. Good(<<Call("log", "none")>>) /\ Good(<<Call("write", "none")>>)
        /\ Good(<<Call("show", "none")>>) /\ Good(<<Call("shutdown", "none")>>)
    BY <1>3
  <2> QED
    BY <2>1, Zenon DEF Mention, Write, Show
<1>5. AllGood(MayAttack)
  BY <1>1, GoodEmpty, Zenon DEF MayAttack, AllGood
<1>6. \A kind \in Uncounted : Good(<<Log(kind)>>)
  BY <1>3 DEF Log
<1> QED
  BY <1>1, <1>4, <1>5, <1>6

(* Every handler of every server is good. *)
LEMMA GoodCalls ==
  ASSUME NEW completion \in Completions, NEW calls \in CallsOf(completion)
  PROVE  Good(calls)
<1>1. "modbus_connections" \in Kinds /\ "coap_requests" \in Kinds /\ "mqtt_activities" \in Kinds
  BY DEF Kinds
<1>2. AllGood(ModbusAccept)
  <2>1. Good(<<Mention>>) /\ Good(<<Log("UNAUTHORIZED_ACCESS")>>)
    BY GoodParts DEF Uncounted
  <2>2. <<Mention, Log("UNAUTHORIZED_ACCESS")>> = <<Mention>> \o <<Log("UNAUTHORIZED_ACCESS")>>
    OBVIOUS
  <2>3. Good(<<Mention, Log("UNAUTHORIZED_ACCESS")>>)
    BY <2>1, <2>2, GoodConcat, Zenon
  <2>4. AllGood({<<Mention>>, <<Mention, Log("UNAUTHORIZED_ACCESS")>>})
    BY <2>1, <2>3, Zenon DEF AllGood
  <2>5. Good(Report("modbus_connections"))
    BY <1>1, GoodReport
  <2>6. AllGood(Then(Report("modbus_connections"),
                     {<<Mention>>, <<Mention, Log("UNAUTHORIZED_ACCESS")>>}))
    BY <2>4, <2>5, GoodThen, Zenon
  <2> QED
    BY <2>6, Zenon DEF ModbusAccept
<1>3. AllGood(ModbusRead)
  BY GoodParts, Zenon DEF ModbusRead
<1>4. AllGood(CoAPReceive)
  <2>1. Good(Attack \o Attack) /\ Good(Attack)
    BY GoodParts, GoodConcat
  <2>2. Good(Attack \o Attack \o Attack)
    BY <2>1, GoodConcat
  <2>3. AllGood({<<>>, Attack, Attack \o Attack, Attack \o Attack \o Attack})
    BY <2>1, <2>2, GoodEmpty, Zenon DEF AllGood
  <2>4. Good(Report("coap_requests"))
    BY <1>1, GoodReport
  <2>5. AllGood(Then(Report("coap_requests"), {<<>>, Attack, Attack \o Attack, Attack \o Attack \o Attack}))
    BY <2>3, <2>4, GoodThen, Zenon
  <2> QED
    BY <2>5, Zenon DEF CoAPReceive
<1>5. AllGood(MQTTAccept)
  <2>1. Good(<<Log("MQTT_CONNECTION")>>)
    BY GoodParts DEF Uncounted
  <2> QED
    BY <2>1, Zenon DEF MQTTAccept, AllGood
<1>6. AllGood(MQTTRead)
  <2>1. Good(Report("mqtt_activities"))
    BY <1>1, GoodReport
  <2>2. Good(Report("mqtt_activities") \o <<Write>>)
    BY <2>1, GoodParts, GoodConcat
  <2>3. AllGood({Attack, <<Write>>, Report("mqtt_activities") \o <<Write>>})
    BY <2>2, GoodParts, Zenon DEF AllGood
  <2>4. AllGood(Then(Report("mqtt_activities"), MayAttack))
    BY <2>1, GoodParts, GoodThen, Zenon
  <2>5. AllGood(Then(Report("mqtt_activities") \o <<Write>>, MayAttack))
    BY <2>2, GoodParts, GoodThen, Zenon
  <2> QED
    BY <2>3, <2>4, <2>5, Zenon DEF MQTTRead, AllGood
<1>7. AllGood(RESTAccept)
  BY GoodEmpty, Zenon DEF RESTAccept, AllGood
<1>8. AllGood(RESTRead)
  BY GoodParts, Zenon DEF RESTRead, AllGood
<1>9. AllGood(RESTWritten)
  BY GoodEmpty, GoodParts, Zenon DEF RESTWritten, AllGood
<1>10. CallsOf(completion) \in {ModbusAccept, ModbusRead, CoAPReceive, MQTTAccept, MQTTRead,
                                RESTAccept, RESTRead, RESTWritten}
  BY DEF CallsOf, Completions
<1>11. AllGood(CallsOf(completion))
  BY <1>2, <1>3, <1>4, <1>5, <1>6, <1>7, <1>8, <1>9, <1>10, Zenon
<1> QED
  BY <1>11 DEF AllGood

(* A numbered call is a call of its visit. *)
LEMMA NumberedCall ==
  ASSUME NEW call \in RawCalls, NEW n \in 1 .. MaxVisits
  PROVE  LET numbered == [call EXCEPT !.visit = n] IN
         /\ numbered \in Calls /\ numbered.visit = n
         /\ numbered.do = call.do /\ numbered.kind = call.kind
BY DEF RawCalls, Calls

(* The calls of a handler all bear the number of its visit. *)
LEMMA NumberedCalls ==
  ASSUME NEW calls, Good(calls), NEW n \in 1 .. MaxVisits, n = visits - Len(ready) + 1,
         NEW h, h = Numbered(calls)
  PROVE  /\ h \in Seq(Calls) /\ Whole(h)
         /\ \A i \in 1 .. Len(h) : h[i].visit = n
<1> DEFINE m == Len(calls)
<1>1. calls \in Seq(RawCalls) /\ m \in Nat /\ DOMAIN calls = 1 .. m
  BY LenProperties DEF Good
<1>2. h = [i \in 1 .. m |-> [calls[i] EXCEPT !.visit = n]]
  BY <1>1, Zenon DEF Numbered
<1>3. \A i \in 1 .. m : calls[i] \in RawCalls
  BY <1>1, ElementOfSeq
<1>4. ASSUME NEW i \in 1 .. m
      PROVE  h[i] \in Calls /\ h[i].visit = n /\ h[i].do = calls[i].do /\ h[i].kind = calls[i].kind
  <2>1. h[i] = [calls[i] EXCEPT !.visit = n]
    BY <1>2
  <2> QED
    BY <1>3, <2>1, NumberedCall
<1> HIDE DEF m
<1>5. h \in [1 .. m -> Calls]
  BY <1>2, <1>4
<1>6. h \in Seq(Calls) /\ Len(h) = m
  BY <1>1, <1>5, FunctionIsSeq
<1>7. (h = <<>> <=> m = 0) /\ (calls = <<>> <=> m = 0)
  BY <1>1, <1>6, EmptySeq DEF m
<1>8. \A i \in 1 .. m : Countable(h[i]) <=> Countable(calls[i])
  BY <1>4 DEF Countable
<1>9. Whole(calls)
  BY DEF Good
<1>10. /\ \A i \in 1 .. m : Countable(calls[i]) => i # m
       /\ \A i \in 1 .. m : calls[i].do = "count" => calls[i].kind \in Kinds
       /\ \A i, j \in 1 .. m : j = i + 1 =>
             /\ calls[j].do = "count" <=> Countable(calls[i])
             /\ Countable(calls[i]) => calls[j].kind = calls[i].kind
       /\ m # 0 => calls[1].do # "count"
  BY <1>7, <1>9 DEF Whole, Paired, m
<1>11. Paired(h)
  BY SMTT(30), <1>4, <1>6, <1>8, <1>10 DEF Paired
<1>12. h # <<>> => h[1].do # "count"
  <2>1. m # 0 => 1 \in 1 .. m
    BY <1>1
  <2> QED
    BY <1>4, <1>7, <1>10, <2>1
<1> QED
  BY <1>4, <1>6, <1>11, <1>12 DEF Whole

(* What is left of a handler when its first call has been made. *)
Remains(h, t) ==
    /\ Head(h) \in Calls /\ t \in Seq(Calls) /\ Paired(t)
    /\ Head(h).do = "count" => Head(h).kind \in Kinds
    /\ t # <<>> => (Head(t).do = "count" <=> Countable(Head(h)))
    /\ Countable(Head(h)) => t # <<>> /\ Head(t).kind = Head(h).kind

(* Its calls are of one visit. *)
OfVisit(h, v) == \A i \in 1 .. Len(h) : h[i].visit = v

(* The next call of a handler is a count just after a report that counts. *)
LEMMA NextCall ==
  ASSUME NEW h \in Seq(Calls), h # <<>>, Paired(h), NEW t, t = Tail(h)
  PROVE  /\ Remains(h, t)
         /\ \A v : OfVisit(h, v) => Head(h).visit = v /\ OfVisit(t, v)
<1> DEFINE n == Len(h)
           k == Len(t)
<1>1. /\ n \in Nat /\ n # 0 /\ k \in Nat /\ n = k + 1 /\ t \in Seq(Calls)
      /\ Head(h) = h[1] /\ Head(h) \in Calls
      /\ \A i \in 1 .. k : t[i] = h[i + 1]
  BY HeadTailProperties, LenProperties, EmptySeq
<1>2. t = <<>> <=> k = 0
  BY <1>1, EmptySeq
<1>3. t # <<>> => Head(t) = t[1]
  BY <1>1, HeadTailProperties
<1>4. /\ \A i \in 1 .. n : Countable(h[i]) => i # n
      /\ \A i \in 1 .. n : h[i].do = "count" => h[i].kind \in Kinds
      /\ \A i, j \in 1 .. n : j = i + 1 =>
            /\ h[j].do = "count" <=> Countable(h[i])
            /\ Countable(h[i]) => h[j].kind = h[i].kind
  BY DEF Paired
<1> HIDE DEF n, k
<1>5. \A i \in 1 .. k : i + 1 \in 1 .. n
  BY <1>1
<1>6. Paired(t)
  <2>1. ASSUME NEW i \in 1 .. k, Countable(t[i])
        PROVE  i # k
    <3>1. Countable(h[i + 1]) /\ i + 1 \in 1 .. n
      BY <1>1, <1>5, <2>1
    <3>2. i + 1 # n
      BY <1>4, <3>1
    <3> QED
      BY <1>1, <3>2
  <2>2. ASSUME NEW i \in 1 .. k, t[i].do = "count"
        PROVE  t[i].kind \in Kinds
    BY ZenonT(30), <1>1, <1>4, <1>5, <2>2
  <2>3. ASSUME NEW i \in 1 .. k, NEW j \in 1 .. k, j = i + 1
        PROVE  /\ t[j].do = "count" <=> Countable(t[i])
               /\ Countable(t[i]) => t[j].kind = t[i].kind
    <3> DEFINE a == i + 1
               b == j + 1
    <3>1. a \in 1 .. n /\ b \in 1 .. n /\ b = a + 1 /\ t[i] = h[a] /\ t[j] = h[b]
      BY <1>1, <1>5, <2>3
    <3> HIDE DEF a, b
    <3> QED
      BY ZenonT(30), <1>4, <3>1
  <2> QED
    BY <2>1, <2>2, <2>3 DEF Paired, k
<1>7. 1 \in 1 .. n
  BY <1>1
<1>8. Head(h).do = "count" => Head(h).kind \in Kinds
  BY <1>1, <1>4, <1>7
<1>9. ASSUME t # <<>>
      PROVE  /\ Head(t).do = "count" <=> Countable(Head(h))
             /\ Countable(Head(h)) => Head(t).kind = Head(h).kind
  <2>1. 1 \in 1 .. k /\ 2 \in 1 .. n
    BY <1>1, <1>2, <1>9
  <2>2. Head(t) = h[2]
    <3>1. t[1] = h[1 + 1] /\ Head(t) = t[1]
      BY <1>1, <1>3, <1>9, <2>1
    <3>2. 1 + 1 = 2
      OBVIOUS
    <3> QED
      BY <3>1, <3>2, Zenon
  <2>3. \A j \in 1 .. n : j = 1 + 1 =>
           /\ h[j].do = "count" <=> Countable(h[1])
           /\ Countable(h[1]) => h[j].kind = h[1].kind
    BY <1>4, <1>7, Zenon
  <2>4. 2 = 1 + 1
    OBVIOUS
  <2>5. /\ h[2].do = "count" <=> Countable(h[1])
        /\ Countable(h[1]) => h[2].kind = h[1].kind
    BY <2>1, <2>3, <2>4, Zenon
  <2> QED
    BY <1>1, <2>2, <2>5, Zenon
<1>10. Countable(Head(h)) => t # <<>>
  BY <1>1, <1>2, <1>4, <1>7
<1>11. ASSUME NEW v, \A i \in 1 .. n : h[i].visit = v
       PROVE  Head(h).visit = v /\ \A i \in 1 .. k : t[i].visit = v
  BY <1>1, <1>5, <1>7, <1>11
<1>12. \A v : OfVisit(h, v) => Head(h).visit = v /\ OfVisit(t, v)
  BY <1>11 DEF OfVisit, n, k
<1> QED
  BY <1>1, <1>6, <1>8, <1>9, <1>10, <1>12, Zenon DEF Remains

-----------------------------------------------------------------------------
(* main and the life of the process. *)

(* Only a serving process handles anything. *)
MainInv ==
    /\ main \in {"down", "starting", "serving", "ending"}
    /\ main = "down" => proc \in {"exited", "killed"}
    /\ main = "starting" => proc = "running"
    /\ main = "serving" => proc \in {"running", "flushing"}
    /\ main = "ending" => proc = "draining"
    /\ main # "serving" =>
          /\ ready = <<>> /\ handler = <<>> /\ seen = {}
          /\ counters = Zero /\ shown = Unshown

(* A call is made only while the program serves. *)
LEMMA CallsServe ==
  ASSUME MainInv, handler # <<>>
  PROVE  main = "serving"
BY DEF MainInv

(* Initially the program is down, *)
LEMMA MainInit == Init => MainInv
BY DEF Init, Logger!Init, MainInv

(* and every step keeps this. *)
LEMMA MainStep ==
  ASSUME MainInv, [Next]_vars
  PROVE  MainInv'
<1>1. CASE Start
  BY <1>1 DEF Start, Logger!Initialize, MainInv
<1>2. CASE Serve
  BY <1>2 DEF Serve, logger, MainInv
<1>3. CASE ConstructorThrows
  BY <1>3 DEF ConstructorThrows, Logger!Shutdown, MainInv
<1>4. CASE Return
  BY <1>4 DEF Return, Logger!CloseLog, MainInv
<1>5. CASE Interrupt \/ Throw
  BY <1>5 DEF Interrupt, Throw, Gone, Logger!Kill, MainInv
<1>6. ASSUME NEW completion \in Completions, Complete(completion)
      PROVE  MainInv'
  BY <1>6 DEF Complete, logger, MainInv
<1>7. CASE Run
  BY <1>7 DEF Run, logger, MainInv
<1>8. ASSUME NEW do, Makes(do), proc' \in {"running", "flushing"}
      PROVE  MainInv'
  BY <1>8, CallsServe DEF Makes, MainInv
<1>9. CASE Reports
  BY <1>8, <1>9 DEF Reports, Logger!LogEvent
<1>10. CASE Counts \/ Shows \/ Written \/ ShutDownSocket
  <2>1. \E do : Makes(do) /\ proc' = proc
    BY <1>10 DEF Counts, Shows, Written, ShutDownSocket, logger
  <2> QED
    BY <1>8, <2>1 DEF Makes
<1>11. CASE Flush
  BY <1>11 DEF Flush, Logger!WriteEntry, Logger!FinishFlush, servers, MainInv
<1>12. CASE Tick \/ UNCHANGED vars
  BY <1>12 DEF Tick, Logger!Tick, vars, logger, servers, MainInv
<1> QED
  BY <1>1, <1>2, <1>3, <1>4, <1>5, <1>6, <1>7, <1>9, <1>10, <1>11, <1>12 DEF Next, Thread

-----------------------------------------------------------------------------
(* The io thread and its handlers. *)

(* How many completions the thread has taken, or lost with the process. *)
Taken == visits - Len(ready)

ThreadInv ==
    /\ ready \in Seq(Completions) /\ Len(ready) <= visits
    /\ visits \in 0 .. MaxVisits /\ seen \subseteq Completions
    /\ counters \in [Kinds -> Nat]
    /\ handler \in Seq(Calls) /\ Paired(handler)
    /\ \A i \in 1 .. Len(handler) : handler[i].visit = Taken

(* Initially no handler runs, *)
LEMMA ThreadInit == Init => ThreadInv
<1> SUFFICES ASSUME Init PROVE ThreadInv
  OBVIOUS
<1>1. ready = <<>> /\ handler = <<>> /\ visits = 0 /\ seen = {} /\ counters = Zero
  BY DEF Init
<1>2. Len(<<>>) = 0 /\ <<>> \in Seq(Calls) /\ <<>> \in Seq(Completions)
  BY EmptySeq
<1>3. counters \in [Kinds -> Nat]
  BY <1>1 DEF Zero
<1>4. Paired(handler) /\ \A i \in 1 .. Len(handler) : handler[i].visit = Taken
  BY <1>1, <1>2 DEF Paired
<1>5. Len(ready) <= visits /\ visits \in 0 .. MaxVisits
  BY <1>1, <1>2
<1> QED
  BY <1>1, <1>2, <1>3, <1>4, <1>5 DEF ThreadInv

(* the number of the completions taken is a number, *)
LEMMA TakenType ==
  ASSUME ThreadInv
  PROVE  Taken \in 0 .. MaxVisits /\ Len(ready) \in Nat
<1>1. Len(ready) \in Nat /\ Len(ready) <= visits /\ visits \in 0 .. MaxVisits
  BY LenProperties DEF ThreadInv
<1> QED
  BY <1>1 DEF Taken

(* what the thread takes next is the next visit, with all its calls, *)
LEMMA RunEffect ==
  ASSUME ThreadInv, Run
  PROVE  /\ Taken' = Taken + 1 /\ Taken + 1 \in 1 .. MaxVisits
         /\ ready' \in Seq(Completions) /\ Len(ready') <= visits /\ Head(ready) \in Completions
         /\ handler' \in Seq(Calls) /\ Whole(handler')
         /\ \A i \in 1 .. Len(handler') : handler'[i].visit = Taken + 1
<1>1. /\ ready \in Seq(Completions) /\ ready # <<>> /\ ready' = Tail(ready) /\ visits' = visits
      /\ Len(ready) <= visits /\ visits \in 0 .. MaxVisits
  BY DEF ThreadInv, Run
<1>2. Head(ready) \in Completions /\ Tail(ready) \in Seq(Completions)
      /\ Len(Tail(ready)) = Len(ready) - 1 /\ Len(ready) \in Nat /\ Len(ready) # 0
  BY <1>1, HeadTailProperties, LenProperties, EmptySeq
<1>3. PICK calls \in CallsOf(Head(ready)) : handler' = Numbered(calls)
  BY DEF Run
<1>4. Good(calls)
  BY <1>2, <1>3, GoodCalls
<1> DEFINE n == visits - Len(ready) + 1
<1>5. n \in 1 .. MaxVisits /\ visits - Len(Tail(ready)) = n
  BY <1>1, <1>2
<1>6. Taken' = n /\ Taken + 1 = n
  BY <1>1, <1>5 DEF Taken
<1>7. n = visits - Len(ready) + 1
  OBVIOUS
<1> HIDE DEF n
<1>8. /\ handler' \in Seq(Calls) /\ Whole(handler')
      /\ \A i \in 1 .. Len(handler') : handler'[i].visit = n
  BY <1>3, <1>4, <1>5, <1>7, NumberedCalls
<1>9. Len(ready') <= visits
  BY <1>1, <1>2
<1> QED
  BY <1>1, <1>2, <1>5, <1>6, <1>8, <1>9

(* a call leaves the others as they are, *)
LEMMA MakesEffect ==
  ASSUME ThreadInv, NEW do, Makes(do)
  PROVE  /\ handler # <<>> /\ Head(handler) \in Calls /\ Head(handler).do = do
         /\ Head(handler).visit = Taken /\ Taken' = Taken
         /\ handler' \in Seq(Calls) /\ Paired(handler')
         /\ \A i \in 1 .. Len(handler') : handler'[i].visit = Taken
         /\ do = "count" => Head(handler).kind \in Kinds
         /\ handler' # <<>> => (Head(handler').do = "count" <=> Countable(Head(handler)))
         /\ Countable(Head(handler)) => handler' # <<>> /\ Head(handler').kind = Head(handler).kind
<1>1. /\ handler \in Seq(Calls) /\ handler # <<>> /\ Paired(handler) /\ handler' = Tail(handler)
      /\ Head(handler).do = do /\ UNCHANGED <<ready, visits>>
  BY DEF ThreadInv, Makes
<1>2. \A i \in 1 .. Len(handler) : handler[i].visit = Taken
  BY DEF ThreadInv
<1>3. Taken' = Taken
  BY <1>1 DEF Taken
<1> DEFINE h == handler
           t == handler'
<1>4. h \in Seq(Calls) /\ h # <<>> /\ Paired(h) /\ t = Tail(h)
  BY <1>1
<1> HIDE DEF h, t
<1>5. Remains(h, t) /\ \A v : OfVisit(h, v) => Head(h).visit = v /\ OfVisit(t, v)
  BY <1>4, NextCall
<1>6. Head(h).visit = Taken /\ OfVisit(t, Taken)
  BY <1>2, <1>5, Zenon DEF h, OfVisit
<1> QED
  BY <1>1, <1>3, <1>5, <1>6, Zenon DEF h, t, Remains, OfVisit

(* and every step keeps the invariant. *)
LEMMA ThreadStep ==
  ASSUME ThreadInv, [Next]_vars
  PROVE  ThreadInv'
<1>1. ASSUME UNCHANGED <<ready, visits, seen, counters, handler>>
      PROVE  ThreadInv'
  BY <1>1 DEF ThreadInv, Taken
<1>2. CASE Start \/ Serve \/ ConstructorThrows \/ Return \/ Flush \/ Tick \/ UNCHANGED vars
  BY <1>1, <1>2 DEF Start, Serve, ConstructorThrows, Return, Flush, Tick, servers, vars
<1>3. CASE Interrupt \/ Throw
  <2>1. ready' = <<>> /\ handler' = <<>> /\ visits' = visits /\ seen' = {} /\ counters' = Zero
    BY <1>3 DEF Interrupt, Throw, Gone
  <2>2. Len(<<>>) = 0 /\ visits \in 0 .. MaxVisits
    BY EmptySeq DEF ThreadInv
  <2>3. counters' \in [Kinds -> Nat]
    BY <2>1 DEF Zero
  <2> QED
    BY <2>1, <2>2, <2>3 DEF ThreadInv, Paired
<1>4. ASSUME NEW completion \in Completions, Complete(completion)
      PROVE  ThreadInv'
  <2>1. /\ visits < MaxVisits /\ visits' = visits + 1 /\ ready' = Append(ready, completion)
        /\ UNCHANGED <<seen, counters, handler>>
    BY <1>4 DEF Complete
  <2>2. ready \in Seq(Completions) /\ Len(ready) <= visits /\ visits \in 0 .. MaxVisits
    BY DEF ThreadInv
  <2>3. ready' \in Seq(Completions) /\ Len(ready') = Len(ready) + 1 /\ Len(ready) \in Nat
    BY <2>1, <2>2, AppendProperties, LenProperties
  <2>4. Taken' = Taken /\ Len(ready') <= visits' /\ visits' \in 0 .. MaxVisits
    BY <2>1, <2>2, <2>3 DEF Taken
  <2> QED
    BY <2>1, <2>3, <2>4 DEF ThreadInv
<1>5. CASE Run
  <2>1. /\ seen' = seen \union {Head(ready)} /\ UNCHANGED <<visits, counters>>
    BY <1>5 DEF Run
  <2>2. /\ Taken' = Taken + 1 /\ ready' \in Seq(Completions) /\ Len(ready') <= visits
        /\ Head(ready) \in Completions /\ handler' \in Seq(Calls) /\ Whole(handler')
        /\ \A i \in 1 .. Len(handler') : handler'[i].visit = Taken + 1
    BY <1>5, RunEffect
  <2> QED
    BY <2>1, <2>2 DEF ThreadInv, Whole
<1>6. ASSUME NEW do, Makes(do), counters' \in [Kinds -> Nat]
      PROVE  ThreadInv'
  <2>1. UNCHANGED <<ready, visits, seen>>
    BY <1>6 DEF Makes
  <2>2. /\ Taken' = Taken /\ handler' \in Seq(Calls) /\ Paired(handler')
        /\ \A i \in 1 .. Len(handler') : handler'[i].visit = Taken
    BY <1>6, MakesEffect
  <2> QED
    BY <1>6, <2>1, <2>2 DEF ThreadInv
<1>7. CASE Reports \/ Shows \/ Written \/ ShutDownSocket
  <2>1. \E do : Makes(do) /\ counters' = counters
    BY <1>7 DEF Reports, Shows, Written, ShutDownSocket
  <2> QED
    BY <1>6, <2>1 DEF ThreadInv
<1>8. CASE Counts
  <2>1. Makes("count") /\ counters' = [counters EXCEPT ![Head(handler).kind] = counters[Head(handler).kind] + 1]
    BY <1>8 DEF Counts
  <2>2. counters \in [Kinds -> Nat]
    BY DEF ThreadInv
  <2>3. Head(handler).kind \in Kinds
    BY <2>1, MakesEffect
  <2>4. counters[Head(handler).kind] + 1 \in Nat
    BY <2>2, <2>3
  <2>5. counters' \in [Kinds -> Nat]
    BY <2>1, <2>2, <2>4
  <2> QED
    BY <1>6, <2>1, <2>5
<1> QED
  BY <1>2, <1>3, <1>4, <1>5, <1>7, <1>8 DEF Next, Thread

-----------------------------------------------------------------------------
(* What was reported. *)

Entries == [kind : AnyKind, life : Nat, visit : 1 .. MaxVisits]

(* Reports are in the order of the visits, none is of a later one. *)
EntriesInv ==
    /\ entries \in Seq(Entries) /\ Len(entries) = logged
    /\ \A i \in 1 .. Len(entries) : entries[i].life <= starts /\ entries[i].visit <= Taken
    /\ \A i, j \in 1 .. Len(entries) : i <= j => entries[i].visit <= entries[j].visit

(* Initially there is no report, *)
LEMMA EntriesInit == Init => EntriesInv
<1> SUFFICES ASSUME Init PROVE EntriesInv
  OBVIOUS
<1>1. entries = <<>> /\ logged = 0 /\ Len(<<>>) = 0
  BY EmptySeq DEF Init, Logger!Init
<1> QED
  BY <1>1 DEF EntriesInv

(* a handler that reports adds one, *)
LEMMA ReportsEffect ==
  ASSUME ThreadInv, EntriesInv, LogP!TypeOK, Reports
  PROVE  \E e \in Entries :
            /\ entries' = Append(entries, e) /\ logged' = logged + 1 /\ starts' = starts
            /\ e.kind = Head(handler).kind /\ e.life = starts /\ e.visit = Taken
<1> DEFINE e == [kind |-> Head(handler).kind, life |-> starts, visit |-> Head(handler).visit]
<1>1. /\ Makes("log") /\ entries' = Append(entries, e) /\ logged' = logged + 1 /\ starts' = starts
  BY DEF Reports, Logger!LogEvent
<1>2. Head(handler) \in Calls /\ Head(handler).visit = Taken
  BY <1>1, MakesEffect
<1>3. starts \in Nat
  BY DEF LogP!TypeOK
<1>4. e \in Entries /\ e.kind = Head(handler).kind /\ e.life = starts /\ e.visit = Taken
  BY <1>2, <1>3 DEF Entries, Calls
<1> QED
  BY <1>1, <1>4, Zenon

(* the logger counts the reports and the starts, *)
LEMMA OnlyReports ==
  ASSUME LogP!TypeOK, [Next]_vars
  PROVE  \/ Reports
         \/ /\ UNCHANGED <<entries, logged>>
            /\ starts' = starts \/ (Start /\ starts' = starts + 1)
<1>1. CASE Start
  BY <1>1 DEF Start, Logger!Initialize
<1>2. CASE Serve \/ ConstructorThrows \/ Return \/ Interrupt \/ Throw
  BY <1>2 DEF Serve, ConstructorThrows, Return, Interrupt, Throw, Gone, Logger!Shutdown,
              Logger!CloseLog, Logger!Kill, logger
<1>3. CASE \/ Run \/ Counts \/ Shows \/ ShutDownSocket \/ Written
           \/ \E completion \in Completions : Complete(completion)
  BY <1>3 DEF Run, Counts, Shows, ShutDownSocket, Written, Complete, logger
<1>4. CASE Flush \/ Tick \/ UNCHANGED vars
  BY <1>4 DEF Flush, Tick, Logger!WriteEntry, Logger!FinishFlush, Logger!Tick, servers, vars, logger
<1> QED
  BY <1>1, <1>2, <1>3, <1>4 DEF Next, Thread

(* the thread never takes back a visit, *)
LEMMA TakenGrows ==
  ASSUME ThreadInv, [Next]_vars
  PROVE  Taken \in Nat /\ Taken' \in Nat /\ Taken <= Taken'
<1>1. Taken \in Nat
  BY TakenType
<1>2. ASSUME UNCHANGED <<ready, visits>>
      PROVE  Taken' = Taken
  BY <1>2 DEF Taken
<1>3. CASE \/ Start \/ Serve \/ ConstructorThrows \/ Return \/ Flush \/ Tick \/ UNCHANGED vars
  <2>1. UNCHANGED <<ready, visits>>
    BY <1>3 DEF Start, Serve, ConstructorThrows, Return, Flush, Tick, servers, vars
  <2> QED
    BY <1>1, <1>2, <2>1
<1>4. CASE Reports \/ Counts \/ Shows \/ Written \/ ShutDownSocket
  <2>1. UNCHANGED <<ready, visits>>
    BY <1>4 DEF Reports, Counts, Shows, Written, ShutDownSocket, Makes
  <2> QED
    BY <1>1, <1>2, <2>1
<1>5. CASE Run
  <2>1. Taken' = Taken + 1
    BY <1>5, RunEffect
  <2> QED
    BY <1>1, <2>1
<1>6. CASE Interrupt \/ Throw
  <2>1. ready' = <<>> /\ visits' = visits
    BY <1>6 DEF Interrupt, Throw, Gone
  <2>2. Len(ready) \in Nat /\ visits \in Nat /\ Len(ready) <= visits /\ Len(<<>>) = 0
    BY LenProperties, EmptySeq DEF ThreadInv
  <2>3. Taken' = visits - Len(<<>>)
    BY <2>1 DEF Taken
  <2> QED
    BY <2>2, <2>3 DEF Taken
<1>7. ASSUME NEW completion \in Completions, Complete(completion)
      PROVE  Taken' = Taken
  <2>1. visits' = visits + 1 /\ ready' = Append(ready, completion)
    BY <1>7 DEF Complete
  <2>2. Len(ready') = Len(ready) + 1 /\ Len(ready) \in Nat /\ visits \in Nat
    BY <2>1, AppendProperties, LenProperties DEF ThreadInv
  <2> QED
    BY <2>1, <2>2 DEF Taken
<1> QED
  BY <1>1, <1>3, <1>4, <1>5, <1>6, <1>7 DEF Next, Thread

(* and every step keeps the order. *)
LEMMA EntriesStep ==
  ASSUME ThreadInv, EntriesInv, LogP!TypeOK, [Next]_vars
  PROVE  EntriesInv'
<1>1. Taken \in Nat /\ Taken' \in Nat /\ Taken <= Taken'
  BY TakenGrows
<1>2. starts \in Nat /\ logged \in Nat
  BY DEF LogP!TypeOK
<1>3. entries \in Seq(Entries) /\ Len(entries) = logged
  BY DEF EntriesInv
<1>4. \A i \in 1 .. Len(entries) : entries[i].life \in Nat /\ entries[i].visit \in Nat
  <2>1. \A i \in 1 .. Len(entries) : entries[i] \in Entries
    BY <1>3, ElementOfSeq
  <2>2. \A e \in Entries : e.life \in Nat /\ e.visit \in Nat
    BY DEF Entries
  <2> QED
    BY <2>1, <2>2
<1>5. \A i \in 1 .. Len(entries) : entries[i].life <= starts /\ entries[i].visit <= Taken
  BY DEF EntriesInv
<1>6. ASSUME UNCHANGED <<entries, logged>>, starts' = starts \/ starts' = starts + 1
      PROVE  EntriesInv'
  <2>1. \A i \in 1 .. Len(entries) : entries[i].life <= starts' /\ entries[i].visit <= Taken'
    BY <1>1, <1>2, <1>4, <1>5, <1>6
  <2> QED
    BY <1>3, <1>6, <2>1 DEF EntriesInv
<1>7. CASE Reports
  <2>1. PICK e \in Entries :
           /\ entries' = Append(entries, e) /\ logged' = logged + 1 /\ starts' = starts
           /\ e.life = starts /\ e.visit = Taken
    BY <1>7, ReportsEffect
  <2> DEFINE n == Len(entries)
             m == Len(entries')
  <2>2. n \in Nat /\ m = n + 1 /\ entries' \in Seq(Entries)
    BY <1>3, <2>1, AppendProperties, LenProperties
  <2>3. \A i \in 1 .. n : entries'[i] = entries[i]
    BY <1>3, <2>1, AppendProperties
  <2>4. entries'[m] = e
    BY <1>3, <2>1, <2>2, AppendProperties
  <2>5. m = logged'
    BY <1>3, <2>1, <2>2
  <2>6. \A i \in 1 .. n : entries[i].life <= starts /\ entries[i].visit <= Taken
    BY <1>5
  <2>7. \A i, j \in 1 .. n : i <= j => entries[i].visit <= entries[j].visit
    BY DEF EntriesInv
  <2>8. \A i \in 1 .. n : entries[i].visit \in Nat
    BY <1>4
  <2> HIDE DEF n, m
  <2>9. ASSUME NEW i \in 1 .. m
        PROVE  i \in 1 .. n \/ i = m
    BY <2>2
  <2>10. ASSUME NEW i \in 1 .. m
         PROVE  entries'[i].life <= starts' /\ entries'[i].visit <= Taken'
    <3>1. CASE i \in 1 .. n
      <4>1. entries'[i] = entries[i] /\ starts' = starts
        BY <2>1, <2>3, <3>1
      <4>2. entries[i].life <= starts /\ entries[i].visit <= Taken /\ entries[i].visit \in Nat
        BY <2>6, <2>8, <3>1
      <4>3. entries[i].visit <= Taken'
        BY <1>1, <4>2
      <4> QED
        BY <4>1, <4>2, <4>3
    <3>2. CASE i = m
      <4>1. entries'[i].life = starts /\ entries'[i].visit = Taken /\ starts' = starts
        BY <2>1, <2>4, <3>2
      <4> QED
        BY <1>1, <1>2, <4>1
    <3> QED
      BY <2>9, <3>1, <3>2
  <2>11. ASSUME NEW i \in 1 .. m, NEW j \in 1 .. m, i <= j
         PROVE  entries'[i].visit <= entries'[j].visit
    <3>1. CASE j \in 1 .. n
      <4>1. i \in 1 .. n
        BY <2>2, <2>11, <3>1
      <4> QED
        BY <2>3, <2>7, <2>11, <3>1, <4>1
    <3>2. CASE j = m
      <4>1. entries'[j].visit = Taken
        BY <2>1, <2>4, <3>2
      <4>2. CASE i \in 1 .. n
        BY <2>3, <2>6, <4>1, <4>2
      <4>3. CASE i = m
        BY <1>1, <3>2, <4>1, <4>3
      <4> QED
        BY <2>9, <4>2, <4>3
    <3> QED
      BY <2>9, <3>1, <3>2
  <2> QED
    BY <2>2, <2>5, <2>10, <2>11 DEF EntriesInv, m
<1> QED
  BY <1>6, <1>7, OnlyReports

-----------------------------------------------------------------------------
(* What was counted. *)

(* The reports of a kind in one life of the program. *)
Mine(life, k) == {e \in Entries : e.life = life /\ e.kind = k}

(* The next call of a handler counts a report of kind k. *)
Due(h, k) == h # <<>> /\ Head(h).do = "count" /\ Head(h).kind = k

(* While the program lives its counters are exact, but for the report that *)
(* the running handler is about to count.                                  *)
CountInv ==
    main # "down" =>
        \A k \in Kinds : CountsOne(HowMany(entries, Mine(starts, k)), Due(handler, k), counters[k])

(* Initially the program is down, *)
LEMMA CountInit == Init => CountInv
BY DEF Init, CountInv

(* a program that starts has reported nothing in its new life, *)
LEMMA NothingYet ==
  ASSUME EntriesInv, starts \in Nat, NEW k
  PROVE  HowMany(entries, Mine(starts + 1, k)) = 0
<1> DEFINE T == Mine(starts + 1, k)
           n == Len(entries)
<1>1. n \in Nat
  BY LenProperties DEF EntriesInv
<1>2. \A e \in T : e.life = starts + 1 /\ e.life \in Nat
  BY DEF Mine, Entries
<1>3. \A i \in 1 .. n : entries[i].life <= starts
  BY DEF EntriesInv
<1> HIDE DEF T, n
<1>4. \A i \in 1 .. n : entries[i] \notin T
  BY <1>2, <1>3
<1>5. UpTo(entries, T, n) = {}
  BY <1>4 DEF UpTo
<1>6. Cardinality(UpTo(entries, T, n)) = 0
  BY <1>5, FS_EmptySet
<1> QED
  BY <1>6 DEF HowMany, T, n

(* a handler that begins does not begin with a count, *)
LEMMA RunNotDue ==
  ASSUME ThreadInv, Run, NEW k
  PROVE  ~ Due(handler, k) /\ ~ Due(handler', k)
<1>1. handler = <<>>
  BY DEF Run
<1>2. handler' \in Seq(Calls) /\ Whole(handler')
  BY RunEffect
<1> DEFINE h == handler'
<1>3. h \in Seq(Calls) /\ (h # <<>> => h[1].do # "count")
  BY <1>2 DEF Whole
<1> HIDE DEF h
<1>4. h # <<>> => Head(h) = h[1]
  BY <1>3, HeadTailProperties
<1>5. ~ Due(h, k)
  BY <1>3, <1>4, Zenon DEF Due
<1> QED
  BY <1>1, <1>5, Zenon DEF Due, h

(* a call is followed by a count just when it is a report that counts, *)
LEMMA DueNext ==
  ASSUME ThreadInv, NEW do, Makes(do), NEW k \in Kinds
  PROVE  /\ Due(handler, k) <=> do = "count" /\ Head(handler).kind = k
         /\ Due(handler', k) <=> do = "log" /\ Head(handler).kind = k
<1> DEFINE h == handler
           t == handler'
<1>1. /\ h # <<>> /\ Head(h).do = do
      /\ t # <<>> => (Head(t).do = "count" <=> Countable(Head(h)))
      /\ Countable(Head(h)) => t # <<>> /\ Head(t).kind = Head(h).kind
  BY MakesEffect, Zenon DEF h, t
<1> HIDE DEF h, t
<1>2. Due(h, k) <=> do = "count" /\ Head(h).kind = k
  BY <1>1, Zenon DEF Due
<1>3. Due(t, k) <=> do = "log" /\ Head(h).kind = k
  BY <1>1, Zenon DEF Due, Countable
<1> QED
  BY <1>2, <1>3, Zenon DEF h, t

(* and every step keeps the counters exact. *)
LEMMA CountStep ==
  ASSUME MainInv, ThreadInv, EntriesInv, CountInv, LogP!TypeOK, [Next]_vars
  PROVE  CountInv'
<1>1. ASSUME main' # "down" => main # "down", UNCHANGED <<entries, starts, handler, counters>>
      PROVE  CountInv'
  BY <1>1 DEF CountInv
<1>2. CASE Serve \/ ConstructorThrows \/ Flush \/ Tick \/ UNCHANGED vars
  <2>1. (main' # "down" => main # "down") /\ UNCHANGED <<entries, starts, handler, counters>>
    BY <1>2 DEF Serve, ConstructorThrows, Logger!Shutdown, Flush, Logger!WriteEntry,
                Logger!FinishFlush, Tick, Logger!Tick, logger, servers, vars
  <2> QED
    BY <1>1, <2>1
<1>3. CASE \E completion \in Completions : Complete(completion)
  <2>1. (main' # "down" => main # "down") /\ UNCHANGED <<entries, starts, handler, counters>>
    BY <1>3 DEF Complete, logger
  <2> QED
    BY <1>1, <2>1
<1>4. CASE Return \/ Interrupt \/ Throw
  <2>1. main' = "down"
    BY <1>4 DEF Return, Interrupt, Throw, Gone
  <2> QED
    BY <2>1 DEF CountInv
<1>5. CASE Start
  <2>1. /\ handler' = <<>> /\ counters' = Zero /\ entries' = entries /\ starts' = starts + 1
        /\ starts \in Nat
    BY <1>5 DEF Start, Logger!Initialize, MainInv, LogP!TypeOK
  <2>2. ASSUME NEW k \in Kinds
        PROVE  CountsOne(HowMany(entries', Mine(starts', k)), Due(handler', k), counters'[k])
    <3>1. HowMany(entries', Mine(starts', k)) = 0
      BY <2>1, NothingYet
    <3>2. ~ Due(handler', k)
      BY <2>1, Zenon DEF Due
    <3>3. counters'[k] = 0
      BY <2>1, <2>2 DEF Zero
    <3> QED
      BY <3>1, <3>2, <3>3, Zenon DEF CountsOne
  <2> QED
    BY <2>2, Zenon DEF CountInv
<1>6. ASSUME main # "down", NEW k \in Kinds
      PROVE  CountsOne(HowMany(entries, Mine(starts, k)), Due(handler, k), counters[k])
  BY <1>6 DEF CountInv
<1>7. CASE Run
  <2>1. main # "down" /\ UNCHANGED <<entries, starts, counters>>
    BY <1>7 DEF Run, logger
  <2>2. ASSUME NEW k \in Kinds
        PROVE  CountsOne(HowMany(entries', Mine(starts', k)), Due(handler', k), counters'[k])
    <3>1. ~ Due(handler, k) /\ ~ Due(handler', k)
      BY <1>7, RunNotDue
    <3>2. CountsOne(HowMany(entries, Mine(starts, k)), Due(handler, k), counters[k])
      BY <1>6, <2>1, <2>2
    <3> QED
      BY <2>1, <3>1, <3>2, Zenon DEF CountsOne
  <2> QED
    BY <2>2, Zenon DEF CountInv
<1>8. CASE Reports
  <2>1. PICK e \in Entries :
           /\ entries' = Append(entries, e) /\ logged' = logged + 1 /\ starts' = starts
           /\ e.kind = Head(handler).kind /\ e.life = starts /\ e.visit = Taken
    BY <1>8, ReportsEffect
  <2>2. Makes("log") /\ counters' = counters
    BY <1>8 DEF Reports
  <2>3. main # "down"
    BY <2>2, CallsServe DEF Makes
  <2>4. ASSUME NEW k \in Kinds
        PROVE  CountsOne(HowMany(entries', Mine(starts', k)), Due(handler', k), counters'[k])
    <3>1. entries \in Seq(Entries)
      BY DEF EntriesInv
    <3>2. CountsOne(HowMany(Append(entries, e), Mine(starts, k)), e \in Mine(starts, k),
                    HowMany(entries, Mine(starts, k)))
      BY <3>1, UpToLast
    <3>3. e \in Mine(starts, k) <=> Head(handler).kind = k
      BY <2>1 DEF Mine
    <3>4. ~ Due(handler, k) /\ (Due(handler', k) <=> Head(handler).kind = k)
      BY <2>2, <2>4, DueNext
    <3>5. CountsOne(HowMany(entries, Mine(starts, k)), Due(handler, k), counters[k])
      BY <1>6, <2>3, <2>4
    <3>6. HowMany(entries, Mine(starts, k)) = counters[k]
      BY <3>4, <3>5, Zenon DEF CountsOne
    <3>7. CountsOne(HowMany(Append(entries, e), Mine(starts, k)), Due(handler', k), counters[k])
      BY <3>2, <3>3, <3>4, <3>6, Zenon DEF CountsOne
    <3> QED
      BY <2>1, <2>2, <3>7, Zenon
  <2> QED
    BY <2>4, Zenon DEF CountInv
<1>9. CASE Counts
  <2> DEFINE q == Head(handler).kind
  <2>1. Makes("count") /\ counters' = [counters EXCEPT ![q] = counters[q] + 1]
        /\ UNCHANGED <<entries, starts>>
    BY <1>9 DEF Counts, logger
  <2>2. main # "down"
    BY <2>1, CallsServe DEF Makes
  <2>3. counters \in [Kinds -> Nat]
    BY DEF ThreadInv
  <2>4. ASSUME NEW k \in Kinds
        PROVE  CountsOne(HowMany(entries', Mine(starts', k)), Due(handler', k), counters'[k])
    <3>1. (Due(handler, k) <=> q = k) /\ ~ Due(handler', k)
      BY <2>1, <2>4, DueNext
    <3>2. CountsOne(HowMany(entries, Mine(starts, k)), Due(handler, k), counters[k])
      BY <1>6, <2>2, <2>4
    <3> HIDE DEF q
    <3>3. counters'[k] = IF q = k THEN counters[k] + 1 ELSE counters[k]
      <4>1. counters' = [counters EXCEPT ![q] = counters[q] + 1]
        BY <2>1
      <4>2. \A x : [counters EXCEPT ![q] = x][k] = IF q = k THEN x ELSE counters[k]
        BY <2>3, <2>4
      <4>3. counters'[k] = IF q = k THEN counters[q] + 1 ELSE counters[k]
        BY <4>1, <4>2, Zenon
      <4> QED
        BY <4>3, Zenon
    <3>4. HowMany(entries, Mine(starts, k)) = counters'[k]
      <4>1. CASE q = k
        BY <3>1, <3>2, <3>3, <4>1, Zenon DEF CountsOne
      <4>2. CASE q # k
        BY <3>1, <3>2, <3>3, <4>2, Zenon DEF CountsOne
      <4> QED
        BY <4>1, <4>2
    <3> QED
      BY <2>1, <3>1, <3>4, Zenon DEF CountsOne
  <2> QED
    BY <2>4, Zenon DEF CountInv
<1>10. CASE Shows \/ Written \/ ShutDownSocket
  <2>1. PICK do \in {"show", "write", "shutdown"} : Makes(do)
    BY <1>10, Zenon DEF Shows, Written, ShutDownSocket
  <2>2. UNCHANGED <<entries, starts, counters>>
    BY <1>10 DEF Shows, Written, ShutDownSocket, logger
  <2>3. main # "down"
    BY <2>1, CallsServe DEF Makes
  <2>4. ASSUME NEW k \in Kinds
        PROVE  CountsOne(HowMany(entries', Mine(starts', k)), Due(handler', k), counters'[k])
    <3>1. do # "count" /\ do # "log"
      BY <2>1
    <3>2. ~ Due(handler, k) /\ ~ Due(handler', k)
      BY <2>1, <2>4, <3>1, DueNext
    <3>3. CountsOne(HowMany(entries, Mine(starts, k)), Due(handler, k), counters[k])
      BY <1>6, <2>3, <2>4
    <3> QED
      BY <2>2, <3>2, <3>3, Zenon DEF CountsOne
  <2> QED
    BY <2>4, Zenon DEF CountInv
<1> QED
  BY <1>2, <1>3, <1>4, <1>5, <1>7, <1>8, <1>9, <1>10 DEF Next, Thread

-----------------------------------------------------------------------------
(* What the dashboard showed. *)

ShowRecords == [counters : [Kinds -> Nat], of : Nat]

(* The counters that were shown are the reports up to that moment. *)
ShownInv ==
    /\ shown \in ShowRecords /\ shown.of <= logged
    /\ \A k \in Kinds : shown.counters[k] = Cardinality(UpTo(entries, Mine(starts, k), shown.of))

(* A dashboard that nobody has looked at yet shows the truth, *)
LEMMA UnshownTrue ==
  /\ Unshown \in ShowRecords /\ Unshown.of = 0
  /\ \A T : \A s : \A k \in Kinds : Unshown.counters[k] = Cardinality(UpTo(s, T, 0))
<1>1. Zero \in [Kinds -> Nat] /\ \A k \in Kinds : Zero[k] = 0
  BY DEF Zero
<1>2. Unshown \in ShowRecords /\ Unshown.of = 0 /\ Unshown.counters = Zero
  BY <1>1 DEF Unshown, ShowRecords
<1>3. \A T : \A s : Cardinality(UpTo(s, T, 0)) = 0
  BY UpToCount
<1> QED
  BY <1>1, <1>2, <1>3, Zenon

(* so it is the truth initially *)
LEMMA ShownInit == Init => ShownInv
<1> SUFFICES ASSUME Init PROVE ShownInv
  OBVIOUS
<1>1. shown = Unshown /\ logged = 0
  BY DEF Init, Logger!Init
<1>2. shown.of = 0 /\ shown \in ShowRecords
  BY <1>1, UnshownTrue, Zenon
<1>3. \A k \in Kinds : shown.counters[k] = Cardinality(UpTo(entries, Mine(starts, k), 0))
  BY <1>1, UnshownTrue, Zenon
<1>4. shown.of <= logged
  BY <1>1, <1>2
<1> QED
  BY <1>2, <1>3, <1>4, Zenon DEF ShownInv

(* and when the program starts or ends; *)
LEMMA ShownReset ==
  ASSUME shown' = Unshown, logged' \in Nat
  PROVE  ShownInv'
<1>1. shown'.of = 0 /\ shown' \in ShowRecords
  BY UnshownTrue, Zenon
<1>2. \A k \in Kinds : shown'.counters[k] = Cardinality(UpTo(entries', Mine(starts', k), 0))
  BY UnshownTrue, Zenon
<1>3. shown'.of <= logged'
  BY <1>1
<1> QED
  BY <1>1, <1>2, <1>3, Zenon DEF ShownInv

(* it stays so when more is reported, *)
LEMMA ShownKept ==
  ASSUME EntriesInv, ShownInv, shown' = shown, starts' = starts,
         UNCHANGED <<entries, logged>> \/ \E e \in Entries : entries' = Append(entries, e) /\ logged' = logged + 1,
         logged \in Nat
  PROVE  ShownInv'
<1>1. CASE UNCHANGED <<entries, logged>>
  BY <1>1 DEF ShownInv
<1>2. ASSUME NEW e \in Entries, entries' = Append(entries, e), logged' = logged + 1
      PROVE  ShownInv'
  <2> DEFINE n == shown.of
  <2>1. n \in Nat /\ n <= logged
    BY DEF ShownInv, ShowRecords
  <2>2. entries \in Seq(Entries) /\ Len(entries) = logged
    BY DEF EntriesInv
  <2> HIDE DEF n
  <2>3. n \in 0 .. Len(entries) /\ n <= logged'
    BY <1>2, <2>1, <2>2
  <2>4. \A T : UpTo(entries', T, n) = UpTo(entries, T, n)
    BY <1>2, <2>2, <2>3, UpToAppend
  <2>5. \A k \in Kinds : shown.counters[k] = Cardinality(UpTo(entries, Mine(starts, k), n))
    BY DEF ShownInv, n
  <2>6. \A k \in Kinds : shown.counters[k] = Cardinality(UpTo(entries', Mine(starts, k), n))
    BY <2>4, <2>5, Zenon
  <2>7. shown \in ShowRecords
    BY DEF ShownInv
  <2> QED
    BY <2>3, <2>6, <2>7, Zenon DEF ShownInv, n
<1> QED
  BY <1>1, <1>2

(* and when it is shown again. *)
LEMMA ShownStep ==
  ASSUME MainInv, ThreadInv, EntriesInv, CountInv, ShownInv, LogP!TypeOK, LogP!TypeOK',
         MainInv', [Next]_vars
  PROVE  ShownInv'
<1>1. logged \in Nat /\ logged' \in Nat
  BY DEF LogP!TypeOK
<1>2. CASE Start \/ Interrupt \/ Throw
  <2>1. shown' = Unshown
    BY <1>2 DEF Start, Interrupt, Throw, Gone, MainInv
  <2> QED
    BY <1>1, <2>1, ShownReset
<1>3. CASE Shows
  <2>1. Makes("show") /\ shown' = [counters |-> counters, of |-> Len(entries)]
        /\ UNCHANGED <<entries, starts, logged>>
    BY <1>3 DEF Shows, logger
  <2>2. main # "down"
    BY <2>1, CallsServe DEF Makes
  <2>3. counters \in [Kinds -> Nat] /\ Len(entries) = logged
    BY DEF ThreadInv, EntriesInv
  <2>4. shown' \in ShowRecords /\ shown'.of = Len(entries) /\ shown'.counters = counters
    BY <1>1, <2>1, <2>3 DEF ShowRecords
  <2>5. ASSUME NEW k \in Kinds
        PROVE  counters[k] = Cardinality(UpTo(entries, Mine(starts, k), Len(entries)))
    <3>1. CountsOne(HowMany(entries, Mine(starts, k)), Due(handler, k), counters[k])
      BY <2>2, <2>5 DEF CountInv
    <3>2. ~ Due(handler, k)
      <4>1. "show" # "count"
        OBVIOUS
      <4> QED
        BY <2>1, <2>5, <4>1, DueNext
    <3> QED
      BY <3>1, <3>2, Zenon DEF CountsOne, HowMany
  <2>6. shown'.of <= logged'
    BY <1>1, <2>1, <2>3, <2>4
  <2>7. \A k \in Kinds : shown'.counters[k] = Cardinality(UpTo(entries', Mine(starts', k), shown'.of))
    BY <2>1, <2>4, <2>5, Zenon
  <2> QED
    BY <2>4, <2>6, <2>7, Zenon DEF ShownInv
<1>4. CASE Reports
  <2>1. shown' = shown
    BY <1>4 DEF Reports
  <2>2. starts' = starts /\ \E e \in Entries : entries' = Append(entries, e) /\ logged' = logged + 1
    BY <1>4, ReportsEffect
  <2> QED
    BY <1>1, <2>1, <2>2, ShownKept
<1>5. CASE \/ Serve \/ ConstructorThrows \/ Return \/ Run \/ Counts \/ Written \/ ShutDownSocket
           \/ Flush \/ Tick \/ UNCHANGED vars
  <2>1. UNCHANGED <<shown, starts, entries, logged>>
    BY <1>5 DEF Serve, ConstructorThrows, Return, Run, Counts, Written, ShutDownSocket, Flush, Tick,
                Logger!Shutdown, Logger!CloseLog, Logger!WriteEntry, Logger!FinishFlush, Logger!Tick,
                logger, servers, vars
  <2> QED
    BY <1>1, <2>1, ShownKept
<1>6. CASE \E completion \in Completions : Complete(completion)
  <2>1. UNCHANGED <<shown, starts, entries, logged>>
    BY <1>6 DEF Complete, logger
  <2> QED
    BY <1>1, <2>1, ShownKept
<1> QED
  BY <1>2, <1>3, <1>4, <1>5, <1>6 DEF Next, Thread

(* What was shown is the number of reports of its own kind, *)
LEMMA ShownOwn ==
  ASSUME EntriesInv, ShownInv, logged \in Nat, NEW k \in Kinds
  PROVE  shown.counters[k] = Cardinality(ShownReports({k}))
<1> DEFINE n == shown.of
<1>1. n \in Nat /\ n <= logged
  BY DEF ShownInv, ShowRecords
<1>2. entries \in Seq(Entries) /\ Len(entries) = logged
  BY DEF EntriesInv
<1>3. \A i \in 1 .. logged : entries[i] \in Entries
  BY <1>2, ElementOfSeq
<1>4. shown.counters[k] = Cardinality(UpTo(entries, Mine(starts, k), n))
  BY DEF ShownInv
<1>5. ShownReports({k}) = {i \in 1 .. n : entries[i].life = starts /\ entries[i].kind = k}
  BY DEF ShownReports
<1> HIDE DEF n
<1>6. \A i \in 1 .. n : entries[i] \in Entries
  BY <1>1, <1>3
<1>7. UpTo(entries, Mine(starts, k), n) =
          {i \in 1 .. n : entries[i].life = starts /\ entries[i].kind = k}
  BY <1>6, Zenon DEF UpTo, Mine
<1> QED
  BY <1>4, <1>5, <1>7, Zenon

(* so it is behind the log by the reports that are not counted. *)
LEMMA ShownTrue ==
  ASSUME EntriesInv, ShownInv, logged \in Nat
  PROVE  ShownIsTrue
<1> SUFFICES ASSUME NEW k \in Kinds
             PROVE  shown.counters[k] + Cardinality(ShownReports(LoggedAs(k) \intersect Uncounted))
                        = Cardinality(ShownReports(LoggedAs(k)))
  BY DEF ShownIsTrue
<1>1. LoggedAs(k) = {k} \union (LoggedAs(k) \intersect Uncounted) /\ k \notin Uncounted
  BY DEF LoggedAs, Kinds, Uncounted
<1> DEFINE U == LoggedAs(k) \intersect Uncounted
           A == ShownReports({k})
           B == ShownReports(U)
<1> HIDE DEF U
<1>2. ShownReports(LoggedAs(k)) = A \union B /\ A \cap B = {}
  <2>1. ShownReports({k} \union U) = A \union B
    BY DEF ShownReports
  <2>2. A \cap B = {}
    BY <1>1 DEF ShownReports, U
  <2> QED
    BY <1>1, <2>1, <2>2 DEF U
<1>3. IsFiniteSet(A) /\ IsFiniteSet(B)
  <2>1. shown.of \in Nat
    BY DEF ShownInv, ShowRecords
  <2>2. IsFiniteSet(1 .. shown.of)
    BY <2>1, FS_Interval
  <2>3. A \subseteq 1 .. shown.of /\ B \subseteq 1 .. shown.of
    BY DEF ShownReports
  <2> QED
    BY <2>2, <2>3, FS_Subset
<1>4. shown.counters[k] = Cardinality(A)
  BY ShownOwn
<1> HIDE DEF A, B
<1>5. Cardinality(A \union B) = Cardinality(A) + Cardinality(B) - Cardinality(A \cap B)
  BY <1>3, FS_Union
<1>6. Cardinality(A \cap B) = 0 /\ Cardinality(A) \in Nat /\ Cardinality(B) \in Nat
  BY <1>2, <1>3, FS_EmptySet, FS_CardinalityType
<1>7. Cardinality(A) + Cardinality(B) = Cardinality(A \union B)
  BY <1>5, <1>6
<1> QED
  BY <1>2, <1>4, <1>7 DEF B, U

-----------------------------------------------------------------------------
(* What reaches the log file. *)

(* How many of the reports the logger has written, or dropped. *)
Settled == logged - (Len(buffer_) - written)

(* While the stream is good, all settled reports of this life are in the   *)
(* log file,                                                               *)
SettledInv ==
    stream = "good" => \A i \in 1 .. Settled : entries[i].life = starts => i \in LogP!Durable

(* and all but a few of those that were shown are settled. *)
ShownSettled == shown.of - Settled < BUFFER_SIZE

(* The settled reports are a prefix of the reports. *)
LEMMA SettledType ==
  ASSUME LogP!IInv
  PROVE  /\ Settled \in Nat /\ Settled <= logged /\ logged \in Nat
         /\ Len(buffer_) \in Nat /\ written \in Nat /\ written <= Len(buffer_) /\ Len(buffer_) <= logged
<1>1. /\ Len(buffer_) \in Nat /\ logged \in Nat /\ written \in 0 .. Len(buffer_)
      /\ Len(buffer_) <= logged
  BY LenProperties DEF LogP!IInv, LogP!TypeOK, LogP!TailFits
<1> QED
  BY <1>1 DEF Settled

(* Initially nothing was reported. *)
LEMMA LoggedInit == Init => SettledInv /\ ShownSettled
<1> SUFFICES ASSUME Init PROVE SettledInv /\ ShownSettled
  OBVIOUS
<1>1. stream = "closed" /\ logged = 0 /\ buffer_ = <<>> /\ written = 0 /\ shown = Unshown
  BY DEF Init, Logger!Init
<1>2. Len(buffer_) = 0
  BY <1>1, EmptySeq, Zenon
<1>3. Settled = 0
  <2> DEFINE n == Len(buffer_)
  <2>1. n = 0
    BY <1>2
  <2>2. Settled = logged - (n - written)
    BY DEF Settled
  <2> HIDE DEF n
  <2> QED
    BY <1>1, <2>1, <2>2
<1>4. shown.of = 0
  BY <1>1, UnshownTrue, Zenon
<1> QED
  BY <1>1, <1>3, <1>4 DEF SettledInv, ShownSettled

(* The tokens of the log are what they are called. *)
LEMMA TokenTags ==
  /\ LogP!Open.tag = "open" /\ LogP!Close.tag = "close" /\ LogP!Piece.tag = "piece"
  /\ \A e : LogP!Entry(e).tag = "entry" /\ LogP!Entry(e).n = e
  /\ \A e : LogP!IsEntry(LogP!Entry(e))
BY DEF LogP!Open, LogP!Close, LogP!Piece, LogP!Entry, LogP!IsEntry

(* A write of a token to a stream appends it, or spoils the stream. *)
LEMMA PutAppends ==
  ASSUME NEW st, NEW token \in LogP!Tokens, log_file_ \in Seq(LogP!Tokens), LogP!Put(st, token)
  PROVE  /\ \/ log_file_' = log_file_
            \/ log_file_' = Append(log_file_, LogP!Piece)
            \/ log_file_' = Append(log_file_, token)
         /\ stream' = "good" => st = "good" /\ log_file_' = Append(log_file_, token)
BY DEF LogP!Put

(* A report that is written is the oldest that was not settled. *)
LEMMA WriteSettles ==
  ASSUME LogP!IInv, LogP!WriteEntry
  PROVE  /\ Settled' = Settled + 1
         /\ stream' = "good" => stream = "good" /\ LogP!Durable' = LogP!Durable \union {Settled + 1}
<1> DEFINE e == buffer_[written + 1]
<1>1. /\ written < Len(buffer_) /\ LogP!Put(stream, LogP!Entry(e)) /\ written' = written + 1
      /\ UNCHANGED <<buffer_, logged>>
  BY DEF LogP!WriteEntry
<1>2. /\ Settled \in Nat /\ logged \in Nat /\ Len(buffer_) \in Nat /\ written \in Nat
  BY SettledType
<1>3. Settled' = Settled + 1
  BY <1>1, <1>2 DEF Settled
<1>4. e = Settled + 1
  <2>1. \A i \in 1 .. Len(buffer_) : buffer_[i] = logged - Len(buffer_) + i
    BY DEF LogP!IInv, LogP!PendingIsTail
  <2>2. written + 1 \in 1 .. Len(buffer_)
    BY <1>1, <1>2
  <2>3. e = logged - Len(buffer_) + (written + 1)
    BY <2>1, <2>2
  <2> HIDE DEF e
  <2> QED
    BY <1>2, <2>3 DEF Settled
<1> HIDE DEF e
<1>5. log_file_ \in Seq(LogP!Tokens)
  BY DEF LogP!IInv, LogP!TypeOK
<1> DEFINE t == LogP!Entry(e)
<1>6. t \in LogP!Tokens /\ LogP!IsEntry(t) /\ t.n = e
  <2>1. e \in Nat
    BY <1>2, <1>4
  <2> QED
    BY <2>1, LogP!TokensType, TokenTags
<1>7. LogP!Put(stream, t)
  BY <1>1
<1> HIDE DEF t
<1>8. stream' = "good" => stream = "good" /\ log_file_' = Append(log_file_, t)
  BY <1>5, <1>6, <1>7, PutAppends
<1>9. LogP!Numbers(Append(log_file_, t)) = LogP!Numbers(log_file_) \union {Settled + 1}
  <2>1. LogP!Numbers(Append(log_file_, t)) = LogP!Numbers(log_file_) \union {t.n}
    BY <1>5, <1>6, LogP!NumbersAppend
  <2> QED
    BY <1>4, <1>6, <2>1, Zenon
<1> QED
  BY <1>3, <1>8, <1>9, Zenon DEF LogP!Durable

(* A report is pending at first, or dropped when there is no log. *)
LEMMA ReportSettles ==
  ASSUME LogP!IInv, LogP!LogEvent
  PROVE  /\ stream' = stream /\ log_file_' = log_file_ /\ logged' = logged + 1
         /\ Settled' = Settled \/ Settled' = logged'
         /\ stream = "good" => Settled' = Settled
<1>1. /\ Settled \in Nat /\ logged \in Nat /\ Len(buffer_) \in Nat /\ written \in Nat
  BY SettledType
<1>2. /\ stream' = stream /\ log_file_' = log_file_ /\ logged' = logged + 1 /\ written' = written
  BY DEF LogP!LogEvent
<1>3. buffer_ \in Seq(Nat) /\ (stream = "good" => initialized_)
  BY DEF LogP!IInv, LogP!TypeOK
<1>4. CASE initialized_ /\ buffer_' = Append(buffer_, logged + 1)
  <2>1. Len(buffer_') = Len(buffer_) + 1
    BY <1>1, <1>3, <1>4, AppendProperties
  <2>2. Settled' = Settled
    BY <1>1, <1>2, <2>1 DEF Settled
  <2> QED
    BY <1>2, <2>2
<1>5. CASE ~ initialized_ /\ buffer_' = buffer_
  <2>1. buffer_ = <<>> /\ Len(<<>>) = 0
    BY <1>5, EmptySeq DEF LogP!IInv, LogP!TypeOK
  <2>2. written = 0
    <3>1. written \in 0 .. Len(buffer_)
      BY DEF LogP!IInv, LogP!TypeOK
    <3> QED
      BY <2>1, <3>1
  <2>3. Settled' = logged'
    BY <1>1, <1>2, <1>5, <2>1, <2>2 DEF Settled
  <2> QED
    BY <1>2, <1>3, <1>5, <2>3
<1> QED
  BY <1>4, <1>5 DEF LogP!LogEvent

(* The end of a flush or of a life changes nothing or settles the rest. *)
LEMMA RestSettles ==
  ASSUME LogP!IInv,
         \/ LogP!Initialize \/ LogP!FinishFlush \/ LogP!Shutdown \/ LogP!CloseLog \/ LogP!Kill
         \/ LogP!Tick \/ UNCHANGED logger
  PROVE  /\ logged' = logged /\ Settled' \in Nat /\ Settled <= Settled'
         /\ \/ LogP!Initialize
            \/ stream' = "closed"
            \/ stream' = stream /\ log_file_' = log_file_ /\ Settled' = Settled
<1>1. /\ Settled \in Nat /\ Settled <= logged /\ logged \in Nat /\ Len(buffer_) \in Nat
      /\ written \in Nat /\ written <= Len(buffer_)
  BY SettledType
<1>2. Len(<<>>) = 0
  BY EmptySeq
<1>3. ASSUME UNCHANGED <<logged, buffer_, written>>
      PROVE  Settled' = Settled /\ logged' = logged
  BY <1>3 DEF Settled
<1>4. ASSUME logged' = logged, buffer_' = <<>>, written' = 0
      PROVE  Settled' = logged
  BY <1>1, <1>2, <1>4 DEF Settled
<1>5. CASE LogP!Initialize
  <2>1. UNCHANGED <<logged, buffer_, written>>
    BY <1>5 DEF LogP!Initialize
  <2> QED
    BY <1>1, <1>3, <1>5, <2>1
<1>6. CASE LogP!Shutdown \/ LogP!Tick \/ UNCHANGED logger
  <2>1. UNCHANGED <<logged, buffer_, written, stream, log_file_>>
    BY <1>6 DEF LogP!Shutdown, LogP!Tick, logger
  <2> QED
    BY <1>1, <1>3, <2>1
<1>7. CASE LogP!FinishFlush
  <2>1. /\ logged' = logged /\ buffer_' = <<>> /\ written' = 0 /\ written = Len(buffer_)
        /\ UNCHANGED <<stream, log_file_>>
    BY <1>7 DEF LogP!FinishFlush
  <2>2. Settled = logged
    BY <1>1, <2>1 DEF Settled
  <2> QED
    BY <1>1, <1>4, <2>1, <2>2
<1>8. CASE LogP!CloseLog \/ LogP!Kill
  <2>1. /\ logged' = logged /\ buffer_' = <<>> /\ written' = 0 /\ stream' = "closed"
    BY <1>8 DEF LogP!CloseLog, LogP!Kill
  <2> QED
    BY <1>1, <1>4, <2>1
<1> QED
  BY <1>5, <1>6, <1>7, <1>8

(* The steps of the program, by what they settle. *)
LEMMA SettledSteps ==
  ASSUME LogP!IInv, [Next]_vars
  PROVE  \/ Reports /\ LogP!LogEvent
         \/ LogP!WriteEntry /\ UNCHANGED <<entries, starts, shown>>
         \/ /\ logged' = logged /\ Settled' \in Nat /\ Settled <= Settled'
            /\ \/ Start
               \/ stream' = "closed"
               \/ UNCHANGED <<stream, log_file_, starts>> /\ Settled' = Settled
<1>1. CASE Reports
  BY <1>1, SameLogger DEF Reports
<1>2. CASE Flush
  <2>1. LogP!WriteEntry \/ (LogP!FinishFlush /\ starts' = starts)
    BY <1>2, SameLogger DEF Flush, Logger!FinishFlush
  <2>2. UNCHANGED <<entries, shown>>
    BY <1>2 DEF Flush, servers
  <2>3. LogP!WriteEntry => starts' = starts
    BY DEF LogP!WriteEntry
  <2>4. LogP!FinishFlush => ~ LogP!Initialize
    BY DEF LogP!FinishFlush, LogP!Initialize, LogP!Over
  <2>5. CASE LogP!WriteEntry
    BY <2>2, <2>3, <2>5
  <2>6. CASE LogP!FinishFlush /\ starts' = starts
    <3>1. /\ logged' = logged /\ Settled' \in Nat /\ Settled <= Settled'
          /\ \/ stream' = "closed"
             \/ stream' = stream /\ log_file_' = log_file_ /\ Settled' = Settled
      BY <2>4, <2>6, RestSettles
    <3> QED
      BY <2>6, <3>1
  <2> QED
    BY <2>1, <2>5, <2>6
<1>3. CASE Start \/ Return \/ Interrupt \/ Throw
  <2>1. (Start /\ LogP!Initialize) \/ LogP!CloseLog \/ LogP!Kill
    BY <1>3, SameLogger DEF Start, Return, Interrupt, Throw, Gone
  <2>2. (LogP!CloseLog \/ LogP!Kill) => stream' = "closed"
    BY DEF LogP!CloseLog, LogP!Kill
  <2> QED
    BY <2>1, <2>2, RestSettles
<1>4. CASE ConstructorThrows \/ Tick
  <2>1. (LogP!Shutdown \/ LogP!Tick) /\ UNCHANGED <<logged, buffer_, written, stream, log_file_, starts>>
    BY <1>4, SameLogger DEF ConstructorThrows, Tick, Logger!Shutdown, Logger!Tick
  <2>2. Settled' = Settled
    BY <2>1 DEF Settled
  <2> QED
    BY <2>1, <2>2, SettledType
<1>5. CASE \/ Serve \/ Run \/ Counts \/ Shows \/ Written \/ ShutDownSocket \/ UNCHANGED vars
           \/ \E completion \in Completions : Complete(completion)
  <2>1. UNCHANGED logger
    BY <1>5 DEF Serve, Run, Counts, Shows, Written, ShutDownSocket, Complete, vars
  <2>2. UNCHANGED <<logged, buffer_, written, stream, log_file_, starts>>
    BY <2>1 DEF logger
  <2>3. Settled' = Settled
    BY <2>2 DEF Settled
  <2> QED
    BY <2>2, <2>3, SettledType
<1> QED
  BY <1>1, <1>2, <1>3, <1>4, <1>5 DEF Next, Thread

(* The reports of this life that are settled stay settled and in the log. *)
LEMMA SettledStep ==
  ASSUME LogP!IInv, EntriesInv, ThreadInv, SettledInv, [Next]_vars
  PROVE  SettledInv'
<1>1. Settled \in Nat /\ Settled <= logged /\ logged \in Nat
  BY SettledType
<1>2. entries \in Seq(Entries) /\ Len(entries) = logged
  BY DEF EntriesInv
<1>3. ASSUME NEW n, stream = "good", n = Settled
      PROVE  \A i \in 1 .. n : entries[i].life = starts => i \in LogP!Durable
  BY <1>3 DEF SettledInv
<1>4. CASE Reports /\ LogP!LogEvent
  <2>1. PICK e \in Entries :
           entries' = Append(entries, e) /\ logged' = logged + 1 /\ starts' = starts
    BY <1>4, ReportsEffect DEF LogP!IInv
  <2>2. stream' = stream /\ log_file_' = log_file_ /\ (stream = "good" => Settled' = Settled)
    BY <1>4, ReportSettles
  <2>3. LogP!Durable' = LogP!Durable
    BY <2>2, Zenon DEF LogP!Durable
  <2>4. SUFFICES ASSUME stream = "good", NEW i \in 1 .. Settled, entries'[i].life = starts
                 PROVE  i \in LogP!Durable
    BY <2>1, <2>2, <2>3 DEF SettledInv
  <2>5. i \in 1 .. Len(entries)
    BY <1>1, <1>2, <2>4
  <2>6. entries'[i] = entries[i]
    BY <1>2, <2>1, <2>5, AppendProperties
  <2> QED
    BY <1>3, <2>4, <2>6, Zenon
<1>5. CASE LogP!WriteEntry /\ UNCHANGED <<entries, starts, shown>>
  <2> DEFINE n == Settled
             m == n + 1
  <2>1. /\ Settled' = m
        /\ stream' = "good" => stream = "good" /\ LogP!Durable' = LogP!Durable \union {m}
    BY <1>5, WriteSettles
  <2>2. n \in Nat /\ \A i \in 1 .. m : i \in 1 .. n \/ i = m
    BY <1>1
  <2>3. entries' = entries /\ starts' = starts
    BY <1>5
  <2>4. stream = "good" => \A i \in 1 .. n : entries[i].life = starts => i \in LogP!Durable
    BY <1>3
  <2> HIDE DEF n, m
  <2>5. ASSUME stream' = "good", NEW i \in 1 .. m, entries[i].life = starts
        PROVE  i \in LogP!Durable'
    BY <2>1, <2>2, <2>4, <2>5, Zenon
  <2> QED
    BY <2>1, <2>3, <2>5, Zenon DEF SettledInv
<1>6. CASE Start
  <2>1. starts' = starts + 1 /\ entries' = entries /\ logged' = logged /\ starts \in Nat
    BY <1>6 DEF Start, Logger!Initialize, LogP!IInv, LogP!TypeOK
  <2>2. \A i \in 1 .. logged : entries[i].life <= starts /\ entries[i].life \in Nat
    <3>1. \A i \in 1 .. logged : entries[i] \in Entries
      BY <1>2, ElementOfSeq
    <3>2. \A e \in Entries : e.life \in Nat
      BY DEF Entries
    <3>3. \A i \in 1 .. logged : entries[i].life <= starts
      BY <1>2, Zenon DEF EntriesInv
    <3> QED
      BY <3>1, <3>2, <3>3, Zenon
  <2>3. \A i \in 1 .. logged : entries[i].life # starts'
    BY <2>1, <2>2
  <2>4. Settled' = Settled
    BY <1>6, <2>1 DEF Start, Logger!Initialize, Settled
  <2>5. 1 .. Settled \subseteq 1 .. logged
    BY <1>1
  <2>6. \A i \in 1 .. Settled' : entries'[i].life # starts'
    BY <2>1, <2>3, <2>4, <2>5, Zenon
  <2> QED
    BY <2>6, Zenon DEF SettledInv
<1>7. CASE stream' = "closed"
  BY <1>7 DEF SettledInv
<1>8. CASE UNCHANGED <<stream, log_file_, starts>> /\ Settled' = Settled /\ logged' = logged
  <2>1. entries' = entries
    BY <1>1, <1>8, OnlyReports, ReportsEffect DEF LogP!IInv
  <2>2. LogP!Durable' = LogP!Durable
    BY <1>8, Zenon DEF LogP!Durable
  <2> QED
    BY <1>8, <2>1, <2>2, Zenon DEF SettledInv
<1> QED
  BY <1>4, <1>5, <1>6, <1>7, <1>8, SettledSteps

(* What was shown is settled but for a few reports, because it was shown *)
(* while no flush ran.                                                   *)
LEMMA ShownSettledStep ==
  ASSUME LogP!IInv, MainInv, MainInv', EntriesInv, ThreadInv, ShownInv, ShownSettled, [Next]_vars
  PROVE  ShownSettled'
<1>1. Settled \in Nat /\ Settled <= logged /\ logged \in Nat
  BY SettledType
<1>2. shown.of \in Nat /\ shown.of <= logged /\ BUFFER_SIZE \in Nat /\ BUFFER_SIZE # 0
  BY DEF ShownInv, ShowRecords
<1>3. Settled' \in Nat /\ Settled <= Settled'
  <2>1. CASE Reports /\ LogP!LogEvent
    BY <1>1, <2>1, ReportSettles
  <2>2. CASE LogP!WriteEntry
    BY <1>1, <2>2, WriteSettles
  <2> QED
    BY <2>1, <2>2, SettledSteps
<1>4. CASE shown' = shown
  <2>1. shown'.of = shown.of
    BY <1>4
  <2>2. shown.of - Settled < BUFFER_SIZE
    BY DEF ShownSettled
  <2>3. shown.of - Settled' < BUFFER_SIZE
    BY <1>1, <1>2, <1>3, <2>2
  <2> QED
    BY <2>1, <2>3, Zenon DEF ShownSettled
<1>5. CASE shown' = Unshown
  <2>1. shown'.of = 0
    BY <1>5, UnshownTrue, Zenon
  <2>2. 0 - Settled' < BUFFER_SIZE
    <3>1. \A m, n \in Nat : n # 0 => 0 - m < n
      OBVIOUS
    <3> QED
      BY <1>2, <1>3, <3>1, Zenon
  <2> QED
    BY <2>1, <2>2, Zenon DEF ShownSettled
<1>6. CASE Shows
  <2>1. /\ proc = "running" /\ shown' = [counters |-> counters, of |-> Len(entries)]
        /\ UNCHANGED <<logged, buffer_, written>>
    BY <1>6 DEF Shows, Makes, logger
  <2>2. shown'.of = logged
    BY <2>1 DEF EntriesInv
  <2>3. Len(buffer_) < BUFFER_SIZE /\ written = 0 /\ Len(buffer_) \in Nat
    BY <2>1, SettledType DEF LogP!IInv, LogP!PendingIsTail, LogP!TypeOK, LogP!InFlush
  <2>4. Settled' = logged - Len(buffer_)
    BY <1>1, <2>1, <2>3 DEF Settled
  <2>5. logged - Settled' < BUFFER_SIZE
    BY <1>1, <1>2, <2>3, <2>4
  <2> QED
    BY <2>2, <2>5, Zenon DEF ShownSettled
<1>7. Shows \/ shown' = shown \/ shown' = Unshown
  <2>1. CASE Start \/ Interrupt \/ Throw
    BY <2>1 DEF Start, Interrupt, Throw, Gone, MainInv
  <2>2. CASE \/ Serve \/ ConstructorThrows \/ Return \/ Run \/ Reports \/ Counts \/ Written
             \/ ShutDownSocket \/ Flush \/ Tick \/ UNCHANGED vars
             \/ \E completion \in Completions : Complete(completion)
    BY <2>2 DEF Serve, ConstructorThrows, Return, Run, Reports, Counts, Written, ShutDownSocket,
                Flush, Tick, Complete, servers, vars
  <2> QED
    BY <2>1, <2>2 DEF Next, Thread
<1> QED
  BY <1>4, <1>5, <1>6, <1>7

(* A set within three finite sets is at most as large as they are. *)
LEMMA Within ==
  ASSUME NEW A, NEW B, NEW C, NEW D, IsFiniteSet(B), IsFiniteSet(C), IsFiniteSet(D),
         A \subseteq (B \union C) \union D
  PROVE  /\ Cardinality(A) \in Nat /\ Cardinality(B) \in Nat /\ Cardinality(C) \in Nat
         /\ Cardinality(D) \in Nat
         /\ Cardinality(A) <= Cardinality(B) + Cardinality(C) + Cardinality(D)
<1>1. ASSUME NEW S, NEW T, IsFiniteSet(S), IsFiniteSet(T)
      PROVE  /\ IsFiniteSet(S \union T) /\ Cardinality(S) \in Nat /\ Cardinality(T) \in Nat
             /\ Cardinality(S \union T) \in Nat
             /\ Cardinality(S \union T) <= Cardinality(S) + Cardinality(T)
  <2>1. IsFiniteSet(S \cap T)
    <3>1. S \cap T \subseteq S
      OBVIOUS
    <3> QED
      BY <1>1, <3>1, FS_Subset
  <2>2. /\ IsFiniteSet(S \union T)
        /\ Cardinality(S \union T) = Cardinality(S) + Cardinality(T) - Cardinality(S \cap T)
    BY <1>1, FS_Union
  <2>3. Cardinality(S) \in Nat /\ Cardinality(T) \in Nat /\ Cardinality(S \cap T) \in Nat
        /\ Cardinality(S \union T) \in Nat
    BY <1>1, <2>1, <2>2, FS_CardinalityType
  <2> QED
    BY <2>2, <2>3
<1> DEFINE U == B \union C
           V == U \union D
<1>2. /\ IsFiniteSet(U) /\ Cardinality(B) \in Nat /\ Cardinality(C) \in Nat /\ Cardinality(U) \in Nat
      /\ Cardinality(U) <= Cardinality(B) + Cardinality(C)
  BY <1>1
<1> HIDE DEF U
<1>3. /\ IsFiniteSet(V) /\ Cardinality(D) \in Nat /\ Cardinality(V) \in Nat
      /\ Cardinality(V) <= Cardinality(U) + Cardinality(D)
  BY <1>1, <1>2
<1>4. A \subseteq V
  BY DEF U
<1> HIDE DEF V
<1>5. Cardinality(A) \in Nat /\ Cardinality(A) <= Cardinality(V)
  BY <1>3, <1>4, FS_Subset, FS_CardinalityType
<1> QED
  BY <1>2, <1>3, <1>5

(* So all but a few of the reports that were shown are in the log. *)
LEMMA ShownLogged ==
  ASSUME LogP!IInv, EntriesInv, ShownInv, SettledInv, ShownSettled
  PROVE  ShownIsLogged
<1> DEFINE n == shown.of
           D == LogP!Durable
           L == {i \in 1 .. n : entries[i].life = starts}
           O == {i \in 1 .. n : entries[i].life < starts}
           m == Settled
           R == m + 1 .. n
<1>1. /\ m \in Nat /\ n \in Nat /\ n <= logged /\ logged \in Nat /\ n - m < BUFFER_SIZE
      /\ BUFFER_SIZE \in Nat /\ BUFFER_SIZE # 0 /\ starts \in Nat
  BY SettledType DEF ShownInv, ShowRecords, ShownSettled, LogP!IInv, LogP!TypeOK
<1>2. \A i \in 1 .. logged : entries[i].life <= starts /\ entries[i].life \in Nat
  <2>1. entries \in Seq(Entries) /\ Len(entries) = logged
    BY DEF EntriesInv
  <2>2. \A i \in 1 .. logged : entries[i] \in Entries
    BY <2>1, ElementOfSeq
  <2>3. \A e \in Entries : e.life \in Nat
    BY DEF Entries
  <2>4. \A i \in 1 .. logged : entries[i].life <= starts
    BY <2>1, Zenon DEF EntriesInv
  <2> QED
    BY <2>2, <2>3, <2>4, Zenon
<1> SUFFICES ASSUME stream = "good"
             PROVE  n - Cardinality(D \cap L) - Cardinality(O) < BUFFER_SIZE
  BY DEF ShownIsLogged, Logger!Durable, LogP!Durable, Logger!Numbers, LogP!Numbers,
         Logger!IsEntry, LogP!IsEntry
<1>3. \A i \in 1 .. m : entries[i].life = starts => i \in D
  BY DEF SettledInv
<1> HIDE DEF m, n, D
<1>4. 1 .. n \subseteq ((D \cap L) \union O) \union R
  <2> SUFFICES ASSUME NEW i \in 1 .. n
               PROVE  i \in D \cap L \/ i \in O \/ i \in R
    OBVIOUS
  <2>1. i \in 1 .. m \/ i \in R
    BY <1>1
  <2>2. entries[i].life = starts \/ entries[i].life < starts
    <3> DEFINE life == entries[i].life
    <3>1. i \in 1 .. logged
      BY <1>1
    <3>2. life <= starts /\ life \in Nat
      BY <1>2, <3>1, Zenon
    <3> HIDE DEF life
    <3>3. life = starts \/ life < starts
      BY <1>1, <3>2
    <3> QED
      BY <3>3, Zenon DEF life
  <2> HIDE DEF R
  <2> QED
    BY <1>3, <2>1, <2>2, Zenon
<1>5. IsFiniteSet(1 .. n) /\ Cardinality(1 .. n) = n /\ IsFiniteSet(R)
      /\ Cardinality(R) = IF m + 1 > n THEN 0 ELSE n - (m + 1) + 1
  BY <1>1, FS_Interval
<1>6. IsFiniteSet(D \cap L) /\ IsFiniteSet(O)
  <2>1. D \cap L \subseteq 1 .. n /\ O \subseteq 1 .. n
    OBVIOUS
  <2> QED
    BY <1>5, <2>1, FS_Subset
<1> DEFINE P == D \cap L
<1> HIDE DEF P, O, R
<1>7. /\ Cardinality(P) \in Nat /\ Cardinality(O) \in Nat
      /\ Cardinality(1 .. n) <= Cardinality(P) + Cardinality(O) + Cardinality(R)
  BY <1>4, <1>5, <1>6, Within DEF P
<1>8. Cardinality(R) \in Nat /\ Cardinality(R) < BUFFER_SIZE
  BY <1>1, <1>5
<1>9. n - Cardinality(P) - Cardinality(O) < BUFFER_SIZE
  BY <1>1, <1>5, <1>7, <1>8
<1> QED
  BY <1>9 DEF P

-----------------------------------------------------------------------------
(* The reports of one visit are next to each other. *)
LEMMA OneVisit ==
  ASSUME EntriesInv
  PROVE  \A i, j \in 1 .. Len(entries) : i < j /\ entries[i].visit = entries[j].visit =>
            \A n \in i .. j : entries[n].visit = entries[i].visit
<1> SUFFICES ASSUME NEW i \in 1 .. Len(entries), NEW j \in 1 .. Len(entries),
                    i < j, entries[i].visit = entries[j].visit, NEW n \in i .. j
             PROVE  entries[n].visit = entries[i].visit
  OBVIOUS
<1>1. entries \in Seq(Entries) /\ Len(entries) \in Nat
  BY LenProperties DEF EntriesInv
<1>2. \A k \in 1 .. Len(entries) : entries[k].visit \in Nat
  <2>1. \A k \in 1 .. Len(entries) : entries[k] \in Entries
    BY <1>1, ElementOfSeq
  <2>2. \A e \in Entries : e.visit \in Nat
    BY DEF Entries
  <2> QED
    BY <2>1, <2>2, Zenon
<1> DEFINE m == Len(entries)
           a == entries[i].visit
           b == entries[n].visit
           c == entries[j].visit
<1>3. \A k, l \in 1 .. m : k <= l => entries[k].visit <= entries[l].visit
  BY DEF EntriesInv
<1>4. i \in 1 .. m /\ j \in 1 .. m
  OBVIOUS
<1>5. m \in Nat /\ a = c
  BY <1>1
<1> HIDE DEF m
<1>6. n \in 1 .. m /\ i <= n /\ n <= j
  BY <1>4, <1>5
<1>7. a <= b /\ b <= c
  BY <1>3, <1>4, <1>6, Zenon
<1>8. a \in Nat /\ b \in Nat
  BY <1>2, <1>4, <1>6, Zenon DEF m
<1> HIDE DEF a, b, c
<1>9. b = a
  BY <1>5, <1>7, <1>8
<1> QED
  BY <1>9 DEF a, b

(* The types are those of the invariants of the parts. *)
LEMMA Typed ==
  ASSUME LogP!IInv, MainInv, ThreadInv, EntriesInv, ShownInv
  PROVE  TypeOK
<1>1. Logger!TypeOK
  BY DEF LogP!IInv, LogP!TypeOK, Logger!TypeOK, LogP!Phases, Logger!Phases, LogP!Over, Logger!Over,
         LogP!Streams, Logger!Streams, LogP!Tokens, Logger!Tokens, LogP!InFlush, Logger!InFlush
<1>2. main \in {"down", "starting", "serving", "ending"} /\ (main = "down" <=> proc \in Logger!Over)
  BY DEF MainInv, Logger!Over
<1>3. /\ ready \in Seq(Completions) /\ visits \in 0 .. MaxVisits /\ seen \subseteq Completions
      /\ counters \in [Kinds -> Nat]
  BY DEF ThreadInv
<1>4. handler \in Seq([do : {"log", "count", "write", "show", "shutdown"},
                       kind : Kinds \union Uncounted \union {"none"}, visit : 1 .. MaxVisits])
  BY Zenon DEF ThreadInv, Calls, Does, AnyKind
<1>5. Len(entries) = logged
  BY DEF EntriesInv
<1>6. shown \in [counters : [Kinds -> Nat], of : 0 .. logged]
  <2>1. logged \in Nat
    BY DEF LogP!IInv, LogP!TypeOK
  <2>2. shown \in [counters : [Kinds -> Nat], of : Nat] /\ shown.of <= logged
    BY DEF ShownInv, ShowRecords
  <2>3. shown.of \in 0 .. logged
    BY <2>1, <2>2
  <2> QED
    BY <2>2, <2>3
<1> QED
  BY <1>1, <1>2, <1>3, <1>4, <1>5, <1>6, Zenon DEF TypeOK

(* The inductive invariant: the logger's, and how main, the io thread, the *)
(* reports, the counters, the dashboard and the log file agree.            *)
IInv ==
    /\ LogP!IInv
    /\ MainInv /\ ThreadInv /\ EntriesInv
    /\ CountInv /\ ShownInv
    /\ SettledInv /\ ShownSettled

(* Every step of the program keeps it. *)
LEMMA InvStep ==
  ASSUME IInv, [Next]_vars
  PROVE  IInv'
<1>1. /\ LogP!IInv /\ MainInv /\ ThreadInv /\ EntriesInv /\ CountInv /\ ShownInv
      /\ SettledInv /\ ShownSettled
  BY DEF IInv
<1>2. LogP!TypeOK
  BY <1>1 DEF LogP!IInv
<1>3. LogP!IInv'
  BY <1>1, LoggerStays
<1>4. LogP!TypeOK'
  BY <1>3 DEF LogP!IInv
<1>5. MainInv' /\ ThreadInv'
  BY <1>1, MainStep, ThreadStep
<1>6. EntriesInv'
  BY <1>1, <1>2, EntriesStep
<1>7. CountInv'
  BY <1>1, <1>2, CountStep
<1>8. ShownInv'
  BY <1>1, <1>2, <1>4, <1>5, ShownStep
<1>9. SettledInv' /\ ShownSettled'
  BY <1>1, <1>5, SettledStep, ShownSettledStep
<1> QED
  BY <1>3, <1>5, <1>6, <1>7, <1>8, <1>9 DEF IInv

(* So it always holds. *)
LEMMA Inductive == Spec => []IInv
<1>1. Init => IInv
  BY LoggerInit, LogP!InvInit, MainInit, ThreadInit, EntriesInit, CountInit, ShownInit, LoggedInit
  DEF IInv
<1>2. IInv /\ [Next]_vars => IInv'
  BY InvStep
<1> QED
  BY <1>1, <1>2, PTL DEF Spec

(* The reports of one handler stand together in the log, whatever waits,   *)
(* flushes, throws or is interrupted in between (and the variables have    *)
(* their types): handlers of all servers run on one io thread, to the end. *)
THEOREM HandlersKeepTogether == Spec => []HandlersDoNotMix
<1>1. IInv => HandlersDoNotMix
  <2> SUFFICES ASSUME IInv PROVE HandlersDoNotMix
    OBVIOUS
  <2>1. TypeOK
    BY Typed DEF IInv
  <2>2. EntriesInv
    BY DEF IInv
  <2>3. DOMAIN entries = 1 .. Len(entries)
    BY <2>2, LenProperties DEF EntriesInv
  <2>4. \A i, j \in DOMAIN entries : i < j /\ entries[i].visit = entries[j].visit =>
            \A n \in i .. j : entries[n].visit = entries[i].visit
    BY <2>2, <2>3, OneVisit, Zenon
  <2> QED
    BY <2>1, <2>4, Zenon DEF HandlersDoNotMix
<1> QED
  BY <1>1, Inductive, PTL

(* Each counter the dashboard showed was behind what the log says of this  *)
(* life by the reports nobody counts - refused authentications of Modbus   *)
(* and connections to MQTT - and by nothing else (RestAPI's counters,      *)
(* incremented by the servers after they reported).                        *)
THEOREM DashboardIsTrue == Spec => []ShownIsTrue
<1>1. IInv => ShownIsTrue
  BY ShownTrue DEF IInv, LogP!IInv, LogP!TypeOK
<1> QED
  BY <1>1, Inductive, PTL

(* While writes succeed, the log file lags behind what the dashboard       *)
(* showed by fewer than BUFFER_SIZE reports, whatever the disk did to      *)
(* earlier lives.                                                          *)
THEOREM DashboardIsLogged == Spec => []ShownIsLogged
<1>1. IInv => ShownIsLogged
  BY ShownLogged DEF IInv
<1> QED
  BY <1>1, Inductive, PTL

(* The program, with all its servers, uses the logger as SOCLogger says:   *)
(* each step of main or of a handler does to the logger what one of its    *)
(* own operations does, or nothing,                                        *)
THEOREM LoggerIsUsed == Spec => LogP!Spec
<1>1. [Next]_vars => [LogP!Next]_(LogP!vars)
  BY LoggerStep DEF logger, LogP!vars
<1> QED
  BY LoggerInit, <1>1, PTL DEF Spec, LogP!Spec

(* so the logger keeps the promise of EventLog to the handlers of all      *)
(* servers, through restarts, Ctrl+C and exceptions.                       *)
THEOREM PromiseKeptToServers == Spec => LogP!KeepsPromise
BY LoggerIsUsed, LogP!PromiseKept, PTL
=============================================================================
