------------------------------ MODULE Honeypot ------------------------------
(***************************************************************************)
(* The program (server/src/main.cpp): the logger, the four servers, and    *)
(* the one thread that runs the handlers of all of them.                   *)
(*                                                                         *)
(* What a server does with its own connections is the matter of its own    *)
(* module.  Here a handler is the sequence of the calls by which servers   *)
(* touch what they share: it reports to the logger, counts on the          *)
(* dashboard, shows the dashboard, or stands in a call that may wait       *)
(* or throw.  The logger is an instance of SOCLogger: a report may start a *)
(* flush, and the handler goes on when the flush has ended.                *)
(***************************************************************************)
EXTENDS Integers, Sequences, FiniteSets

CONSTANTS
    BUFFER_SIZE, FLUSH_INTERVAL_SECONDS, DiskMayFail, MaxEvents, MaxStarts,
    MaxVisits        \* bound: completions that clients cause

ASSUME BufferAssumption == BUFFER_SIZE \in Nat \ {0}
ASSUME IntervalAssumption == FLUSH_INTERVAL_SECONDS \in Nat \ {0}
ASSUME DiskAssumption == DiskMayFail \in BOOLEAN
ASSUME BoundsAssumption == MaxEvents \in Nat /\ MaxStarts \in Nat
ASSUME VisitsAssumption == MaxVisits \in Nat

VARIABLES
    proc, initialized_, stream, buffer_, written, elapsed, log_file_,
    logged, starts,  \* the logger's, see SOCLogger
    main,            \* down, starting, serving or ending
    ready,           \* completions waiting for the io thread
    handler,         \* the calls the running handler has still to make
    visits,          \* completions so far
    seen,            \* the completions handled since the program started
    counters,        \* the counters of RestAPI
    entries,         \* history: what was reported, by which handler and when
    shown            \* history: what the dashboard showed the last time, and
                     \* how much had been reported by then

Logger == INSTANCE SOCLogger

logger  == <<proc, initialized_, stream, buffer_, written, elapsed, log_file_, logged, starts>>
servers == <<main, ready, handler, visits, seen, counters, entries, shown>>
vars    == <<logger, servers>>

Kinds   == {"modbus_connections", "coap_requests", "mqtt_activities", "attacks_detected"}

(* Reports without a counter: a failed authentication, though it is logged *)
(* as an attack, and a connection to MQTT, though it is logged as an       *)
(* activity of MQTT.                                                       *)
Uncounted == {"UNAUTHORIZED_ACCESS", "MQTT_CONNECTION"}

Zero    == [k \in Kinds |-> 0]
Unshown == [counters |-> Zero, of |-> 0]

Init ==
    /\ Logger!Init
    /\ main = "down"
    /\ ready = <<>> /\ handler = <<>> /\ visits = 0 /\ seen = {}
    /\ counters = Zero /\ entries = <<>> /\ shown = Unshown

-----------------------------------------------------------------------------
(* The handlers of the servers, as the calls they may make. *)

Call(do, kind) == [do |-> do, kind |-> kind, visit |-> 0]

Log(kind)   == Call("log", kind)
Mention     == Call("log", "none")           \* of no kind the dashboard shows
Count(kind) == Call("count", kind)
Write       == Call("write", "none")         \* synchronous, to a client
Show        == Call("show", "none")

Report(kind) == <<Log(kind), Count(kind)>>
Attack       == Report("attacks_detected")
MayAttack    == {<<>>, Attack}

Then(first, sets) == {first \o rest : rest \in sets}

(* An accept by Modbus is reported and counted; then its authentication is *)
(* reported, and when that fails an attack that is not counted.            *)
ModbusAccept ==
    Then(Report("modbus_connections"),
         {<<Mention>>, <<Mention, Log("UNAUTHORIZED_ACCESS")>>})
ModbusRead   == MayAttack

(* mutant: the frequency is reported as an attack and not counted *)
MutantCoAPReceive ==
    Then(Report("coap_requests"),
         {<<>>, Attack, Attack \o Attack, Attack \o Attack \o <<Log("attacks_detected")>>})

(* A request may be an attack by its resource, its size and its frequency. *)
CoAPReceive ==
    Then(Report("coap_requests"), {<<>>, Attack, Attack \o Attack, Attack \o Attack \o Attack})

(* A connection is reported as an activity and not counted as one.         *)
MQTTAccept == {<<Log("MQTT_CONNECTION")>>}

(* A packet is malformed, or only answered, or reported and then answered  *)
(* or not; an attack is reported at the end.                               *)
MQTTRead ==
    {Attack, <<Write>>, Report("mqtt_activities") \o <<Write>>}
        \union Then(Report("mqtt_activities"), MayAttack)
        \union Then(Report("mqtt_activities") \o <<Write>>, MayAttack)

RESTAccept == {<<>>}
RESTRead   == {<<Show>>}

(* The completion of an answer: the socket is shut down, which may throw. *)
RESTWritten == {<<>>, <<Call("shutdown", "none")>>}

Completions ==
    {"ModbusAccept", "ModbusRead", "CoAPReceive", "MQTTAccept", "MQTTRead",
     "RESTAccept", "RESTRead", "RESTWritten"}

CallsOf(completion) ==
    CASE completion = "ModbusAccept" -> ModbusAccept
      [] completion = "ModbusRead"   -> ModbusRead
      [] completion = "CoAPReceive"  -> CoAPReceive
      [] completion = "MQTTAccept"   -> MQTTAccept
      [] completion = "MQTTRead"     -> MQTTRead
      [] completion = "RESTAccept"   -> RESTAccept
      [] completion = "RESTRead"     -> RESTRead
      [] completion = "RESTWritten"  -> RESTWritten

(* What must have been handled before the reactor can complete it. *)
Precondition(completion) ==
    CASE completion = "ModbusRead"  -> {"ModbusAccept"}
      [] completion = "MQTTRead"    -> {"MQTTAccept"}
      [] completion = "RESTRead"    -> {"RESTAccept"}
      [] completion = "RESTWritten" -> {"RESTRead"}
      [] OTHER                      -> {}

-----------------------------------------------------------------------------
(* main. *)

(* The process starts - docker starts it again whenever it has ended - and *)
(* initializes the logger; its counters are zero.                          *)
Start ==
    /\ main = "down"
    /\ Logger!Initialize
    /\ main' = "starting"
    /\ UNCHANGED <<ready, handler, visits, seen, counters, entries, shown>>

(* All servers could be constructed and the thread runs. *)
Serve ==
    /\ main = "starting"
    /\ main' = "serving"
    /\ UNCHANGED <<logger, ready, handler, visits, seen, counters, entries, shown>>

(* A constructor throws, for a port that is taken.  The exception reaches  *)
(* the handler in main, which shuts the logger down.                       *)
ConstructorThrows ==
    /\ main = "starting"
    /\ Logger!Shutdown
    /\ main' = "ending"
    /\ UNCHANGED <<ready, handler, visits, seen, counters, entries, shown>>

Return ==
    /\ main = "ending"
    /\ Logger!CloseLog
    /\ main' = "down"
    /\ UNCHANGED <<ready, handler, visits, seen, counters, entries, shown>>

(* What the process kept in memory is gone. *)
Gone ==
    /\ Logger!Kill
    /\ main' = "down"
    /\ ready' = <<>> /\ handler' = <<>> /\ seen' = {}
    /\ counters' = Zero /\ shown' = Unshown
    /\ UNCHANGED <<visits, entries>>

(* Ctrl+C ends the process at any time. *)
Interrupt == main # "down" /\ Gone

(* So does an exception that leaves a handler: it is thrown in the io      *)
(* thread, out of reach of the handler in main.                            *)
Throw ==
    /\ handler # <<>>
    /\ Head(handler).do \in {"write", "shutdown"}
    /\ Gone

-----------------------------------------------------------------------------
(* The reactor and the io thread. *)

Complete(completion) ==
    /\ main = "serving"
    /\ visits < MaxVisits
    /\ Precondition(completion) \subseteq seen
    /\ visits' = visits + 1
    /\ ready' = Append(ready, completion)
    /\ UNCHANGED <<logger, main, handler, seen, counters, entries, shown>>

(* Calls that bear the number of the completion at the head of ready. *)
Numbered(calls) ==
    [i \in DOMAIN calls |-> [calls[i] EXCEPT !.visit = visits - Len(ready) + 1]]

(* mutant: the next handler is run while another waits in a write *)
MutantRun ==
    /\ main = "serving" /\ proc = "running"
    /\ handler # <<>> => Head(handler).do = "write"
    /\ ready # <<>>
    /\ ready' = Tail(ready) /\ seen' = seen \union {Head(ready)}
    /\ \E calls \in CallsOf(Head(ready)) : handler' = Numbered(calls) \o handler
    /\ UNCHANGED <<logger, main, visits, counters, entries, shown>>

(* The thread takes the next completion. *)
Run ==
    /\ main = "serving"
    /\ handler = <<>>
    /\ proc = "running"
    /\ ready # <<>>
    /\ ready' = Tail(ready)
    /\ seen' = seen \union {Head(ready)}
    /\ \E calls \in CallsOf(Head(ready)) : handler' = Numbered(calls)
    /\ UNCHANGED <<logger, main, visits, counters, entries, shown>>

(* The running handler makes its next call, once a flush has ended. *)
Makes(do) ==
    /\ handler # <<>>
    /\ Head(handler).do = do
    /\ proc = "running"
    /\ handler' = Tail(handler)
    /\ UNCHANGED <<main, ready, visits, seen>>

Reports ==
    /\ Makes("log")
    /\ Logger!LogEvent
    /\ entries' = Append(entries, [kind |-> Head(handler).kind, life |-> starts,
                                   visit |-> Head(handler).visit])
    /\ UNCHANGED <<counters, shown>>

Counts ==
    /\ Makes("count")
    /\ counters' = [counters EXCEPT ![Head(handler).kind] = @ + 1]
    /\ UNCHANGED <<logger, entries, shown>>

Shows ==
    /\ Makes("show")
    /\ shown' = [counters |-> counters, of |-> Len(entries)]
    /\ UNCHANGED <<logger, counters, entries>>

(* The client has room for the answer; a client that has none holds up     *)
(* everything.                                                             *)
Written ==
    /\ Makes("write")
    /\ UNCHANGED <<logger, counters, entries, shown>>

ShutDownSocket ==
    /\ Makes("shutdown")
    /\ UNCHANGED <<logger, counters, entries, shown>>

(* mutant: a flush forgets the rest of its batch *)
MutantFlush ==
    /\ proc = "flushing" /\ proc' = "running"
    /\ buffer_' = <<>> /\ elapsed' = 0
    /\ UNCHANGED <<initialized_, stream, written, log_file_, logged, starts, servers>>

(* mutant: add_to_buffer holds the lock that flush_buffer waits for *)
LockedFlush ==
    /\ proc = "draining"
    /\ Logger!WriteEntry \/ Logger!FinishFlush
    /\ UNCHANGED servers

(* The logger's own steps: a flush, and the passing of time. *)
Flush ==
    /\ Logger!WriteEntry \/ Logger!FinishFlush
    /\ UNCHANGED servers

Tick == Logger!Tick /\ UNCHANGED servers

-----------------------------------------------------------------------------
Thread == Run \/ Reports \/ Counts \/ Shows \/ ShutDownSocket \/ Flush

Next ==
    \/ Start \/ Serve \/ ConstructorThrows \/ Return
    \/ Interrupt \/ Throw
    \/ \E completion \in Completions : Complete(completion)
    \/ Thread
    \/ Written
    \/ Tick

Spec == Init /\ [][Next]_vars

(* The thread runs; no client owes it to read. *)
FairSpec == Spec /\ WF_vars(Thread)

-----------------------------------------------------------------------------
TypeOK ==
    /\ Logger!TypeOK
    /\ main \in {"down", "starting", "serving", "ending"}
    /\ main = "down" <=> proc \in Logger!Over
    /\ ready \in Seq(Completions)
    /\ handler \in Seq([do : {"log", "count", "write", "show", "shutdown"},
                        kind : Kinds \union Uncounted \union {"none"}, visit : 1 .. MaxVisits])
    /\ visits \in 0 .. MaxVisits /\ seen \subseteq Completions
    /\ counters \in [Kinds -> Nat]
    /\ Len(entries) = logged
    /\ shown \in [counters : [Kinds -> Nat], of : 0 .. logged]

(* The reports of one handler stand together in the log, whatever waits,   *)
(* flushes or fails in between: no two handlers mix.  (And the variables   *)
(* have their types; main is down just when the logger's life is over.)    *)
HandlersDoNotMix ==
    /\ TypeOK
    /\ \A i, j \in DOMAIN entries :
        (i < j /\ entries[i].visit = entries[j].visit) =>
            \A n \in i .. j : entries[n].visit = entries[i].visit

(* The reports that the log classes under what a counter is the total of.  *)
LoggedAs(k) ==
    CASE k = "attacks_detected" -> {k, "UNAUTHORIZED_ACCESS"}
      [] k = "mqtt_activities"  -> {k, "MQTT_CONNECTION"}
      [] OTHER                  -> {k}

(* The reports of some kinds that this life had made when it was shown.    *)
ShownReports(kinds) ==
    {i \in 1 .. shown.of : entries[i].life = starts /\ entries[i].kind \in kinds}

(* How far the dashboard could be trusted: each of its counters was behind *)
(* what the log says of this life by the refused authentications of Modbus *)
(* (for the attacks) and by the connections to MQTT (for its activities),  *)
(* and by nothing else; no report was half counted.                        *)
ShownIsTrue ==
    \A k \in Kinds :
        shown.counters[k] + Cardinality(ShownReports(LoggedAs(k) \intersect Uncounted))
            = Cardinality(ShownReports(LoggedAs(k)))

(* And the log file follows: while writes succeed, all but BUFFER_SIZE - 1 *)
(* of the reports behind what was shown are in it.                         *)
ShownIsLogged ==
    stream = "good" =>
        shown.of - Cardinality(Logger!Durable \intersect {i \in 1 .. shown.of : entries[i].life = starts})
                 - Cardinality({i \in 1 .. shown.of : entries[i].life < starts})
            < BUFFER_SIZE

(* Every completion is handled, unless the process ends or a client holds  *)
(* everything up by not reading.                                           *)
HeldUp == handler # <<>> /\ Head(handler).do = "write"

EveryCompletionHandled ==
    <>[]HeldUp \/ (ready # <<>> ~> (ready = <<>> \/ main = "down"))
=============================================================================
