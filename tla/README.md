# Verification of the industrial IoT honeypot

TLA+ specifications of the honeypot server in `src/server` (C++17, Boost.Asio), the TLC
configurations that model-check them on small instances, and TLAPS proofs of what matters most
for every value of the constants. Each definition that stands for code says so in `PROJECT.json`
("map"), with the file and the lines.

## 1. The system

One process, two threads. `main` initialises the logger, constructs the four servers on one
`io_context` and then waits in `join`; the thread `io_thread` runs the `io_context`, and with it
every completion handler, one at a time and in the order in which the reactor queued them. There
is no `try` around `io_context.run()` and no signal handler: an exception that leaves a handler,
and Ctrl+C, end the process without any clean-up. `docker-compose.yml` restarts it.

| component | state it keeps | operations | used by |
|---|---|---|---|
| SOC logger (`soc_logger.cpp`) | output stream, `initialized_`, `buffer_`, `last_flush_` | `initialize`, six `log_*`, `force_flush`, `shutdown` | main, all servers |
| Modbus server (`modbus_server.cpp`) | acceptor, a socket and pending read per connection, `buffer_pool_`, `last_cleanup` | accept handler, read handler, `get_buffer`, `return_buffer` | clients; calls logger and counters |
| CoAP server (`coap_server.cpp`) | one UDP socket with one receive buffer, `request_counter` per address | receive handler, send handler | clients; calls logger and counters |
| MQTT server (`mqtt_server.cpp`) | acceptor, a socket and read buffer per connection | accept handler, read handler, `process_mqtt_packet` | clients; calls logger and counters |
| REST API and dashboard (`rest_api.cpp`) | four counters, acceptor, a socket per connection | accept handler, read and write handlers, `increment_*`, `get_statistics` | browsers, the three servers |
| Rate limiter (`security.cpp`) | `rate_limit_map_`, `request_count_map_` | `check_rate_limit` | REST API |
| Sanitizers and validators (`security.cpp`) | none | `sanitize_for_log`, `sanitize_path`, `is_valid_ip`, `is_safe_buffer_size` | logger, all servers |
| Main program (`main.cpp`) | the two threads | start, wait, shut down, die | - |
| Debug server (`debug_server.cpp`) | - | - | not built |
| Configuration generators, protobuf code | - | - | not part of the server |

The servers interact only through the logger and the counters of the REST API, both called
synchronously from their handlers, and through the one thread they share: a handler that blocks
or throws blocks or ends all of them.

### What is hard here

* **Connections over time.** Every socket has exactly one asynchronous operation under way; it
  ends when some handler forgets to start the next. Handlers run long after the event they
  report: the client may have left, been reset or sent more in between.
* **TCP is a stream.** The servers treat one `async_read_some` as one packet of their protocol. A
  packet may come in pieces, and several may come in one read.
* **Buffers with two owners.** A pooled buffer is written by the kernel while its handler is
  pending; it must be in no other hands, and must not carry one client's data to the next.
* **Crash at any point.** The log is a write-behind buffer. A kill between two writes of a flush,
  a disk that fails in the middle of a batch and a restart that appends to what is left decide
  what the file holds.
* **Time.** The flush interval and the limiter's window are only looked at when something calls.
* **Blocking and throwing.** MQTT answers with a synchronous write; REST shuts a socket down with
  the throwing overload.

Nothing in the program runs handlers on two threads, so the data races its mutexes guard against
cannot occur; they are not listed as hazards.

### What makes each component correct

* *Logger*: the buffer is the newest reported events without a gap, and bounded; the file holds
  events in order and once, whatever died or failed in between; only a kill or a failing disk
  loses one.
* *Modbus*: one owner per buffer and no foreign data in it; one operation per socket; the log and
  the dashboard tell the same story; nobody is accused of bytes they did not send; every
  connection is reported, read and released.
* *Rate limiter*: the count is exact, nobody is refused wrongly, and the bound that fixed windows
  really give.
* *CoAP*: the one buffer and the one sender address are read before the next receive overwrites
  them; every request is replied to at its own sender; the flood alarm is exact; no receive is lost.
* *MQTT*: log, counters and answers agree at every moment of a write that waits or throws; nobody is
  accused of what the bytes of a read deserve, all of it and nothing else; only a reset or a client that does not read stops it.
* *REST*: a refused client is not served, and refused only for its own connections; the limiter's
  books and the connections agree; every connection gets one answer, to what it sent, or is closed.
* *Sanitizers*: a text cannot leave the JSON string it is put in and loses nothing; equal paths come
  out equal and in the shape the dashboard compares.
* *Main program*: handlers of different servers never mix, the dashboard never shows half of one and is
  behind the log only by what no server counts, and the file keeps up with what the dashboard shows; nothing stands still but for a client.
* *PLC configuration*: what is written has the size computed for it and is read back as it was, and a
  file that was cut is not taken for other data before the parse fails.

## 2. Modules

| module | models | state and actions |
|---|---|---|
| `EventLog` | what a buffered log promises (abstract) | `up`, `healthy`, `accepted`, `settled`, `durable` |
| `SOCLogger` | the logger over any number of lives of the process | below; implements `EventLog` |
| `SOCLogger_proofs` | theorems about `SOCLogger` | |
| `ModbusServer` | the Modbus server with clients, network and reactor | below |
| `MCModbusServer` | packets and symmetry for TLC | |
| `PLC_proofs` | theorems about the simulated PLC: `ModbusServer` and `PLCMemory` | |
| `RateLimiter` | `check_rate_limit` and the clock | below |
| `MCSecurity` | `RateLimiter` and `Sanitizers` one beside the other for TLC | |
| `RestAPI` | the REST server with browsers, network and reactor, over `RateLimiter` (INSTANCE) | below |
| `MCRestAPI` | requests and addresses for TLC | |
| `RestAPI_proofs` | theorems about `RestAPI`, over those of `Security_proofs` (INSTANCE) | |
| `MQTTServer` | the MQTT server with clients, network and reactor, and its blocking writes | below |
| `MCMQTTServer` | packets for TLC | |
| `MQTTServer_proofs` | theorems about `MQTTServer` | |
| `CoAPServer` | the CoAP server: datagrams, the shared members, replies | below |
| `MCCoAPServer` | addresses for TLC | |
| `CoAPServer_proofs` | theorems about `CoAPServer` | |
| `Honeypot` | `main`: all servers on one thread, over `SOCLogger` (INSTANCE) | below |
| `Honeypot_proofs` | theorems about `Honeypot`, over those of `SOCLogger_proofs` (INSTANCE) | |
| `Sanitizers` | `sanitize_for_log`, `sanitize_path` as operators | below |
| `Security_proofs` | theorems about `RateLimiter` and `Sanitizers`, the two parts of `security.cpp` | |
| `PLCMemory` | the generated message class, the generators and a reader of their file | below |
| `MCPLCMemory` | contents for TLC | |
| `SequenceLemmas` | for the proofs: members and places of queues, what Append and Tail change; recursion and induction on `0 .. n` | |

**SOCLogger.** `buffer_`, `initialized_` and `log_file_` are the members of the class; `stream` is
the state of the `ofstream`, `elapsed` the age of `last_flush_`, `written` the position of the
loop in `flush_buffer`, and `proc` the phase of the process: running, in a flush (`flushing`), in
the flush of `shutdown` (`draining`), or over, either `exited` or `killed`. `Initialize`, `LogEvent` (any `log_*` with
`add_to_buffer`), `WriteEntry` (one iteration of the loop), `FinishFlush`, `ForceFlush`,
`Shutdown`, `CloseLog`, `Kill` and `Tick` are its actions. An event is a number, the position in
which it was reported; an entry of the file is a token that carries this number. The disk may
refuse any write (`DiskMayFail`), leaving nothing or a piece of the entry; the stream then stays
bad, as an `ofstream` does, and drops what follows. `ofstream` has a buffer of its own between `<<`
and the disk: a kill that finds entries there leaves the same file as a kill a few iterations
earlier, so it needs no variable.

**ModbusServer.** Each connection has the client's end (`peer`), bytes in the network (`net`),
bytes that have arrived (`rx`) and the server's end (`conn`). TCP has no packets, so a packet is a
number of bytes that a client adds to its stream; `Deliver` brings everything on its way, or what
comes before a cut (`Cuts`), and a read takes what has arrived, up to the buffer. `MaxBytes` bounds
a client: it sends no further packet once it has sent that many bytes. The reactor's steps
(`AcceptCompletes`, `AcceptFails`, `ReadCompletes`, `ReadFails`) put a completion in `queue`; the
handlers (`HandleAccept`, `HandleNoAccept`, `HandleRead`, `HandleNoRead`) take the head of it. A
handler is one step, because there is one thread and nothing in the Modbus handlers blocks: the
only synchronous write is of an empty string, see the findings. `buffer_pool_`, `last_cleanup` and
`buf` (which buffer a pending read owns) are the pool, `content` says whose data is in a buffer.
The random outcome of the simulated authentication is a choice of `HandleAccept`; a refused one is in the
log with a severity (`Severe`) and in no counter. Left out: the
socket options, the text of entries, the address of a client beyond "known or not" (on a reset
connection `remote_endpoint` throws and the code writes UNKNOWN).

**RateLimiter.** One action per path through `check_rate_limit`: `RefuseMalformed`,
`FirstRequest`, `NextWindow`, `CountRequest`, `RefuseExcess`; `Tick` is the clock, whose unit is
the second in which the code measures. The two maps are functions whose domain grows. `admits` and
`opened` are history variables that no action reads for a decision: when each client was let in,
and which request opened its window.

**RestAPI.** Built like `ModbusServer`: the browser's end (`peer`, `request`), the segments that
have arrived (`rx`), the server's end (`conn`), the reactor's steps and the handlers that take the
head of `queue`. A request is the sequence of what its first segment, its first two segments, and
so on name, because the server answers what one read contained. `HandleAccept` contains the call of
`check_rate_limit`: its paths are the actions of the instance `Limiter`, whose variables are this
module's. `StartWrite` is what `async_write` does inside the call, when the answer still exists:
send all of it, or a beginning, or fail; the rest is sent by `WriteCompletes`, when
`process_http_request` has returned and its local string is gone, so what is sent then may be
garbled. `HandleWrite` calls the throwing `shutdown()`: on a connection that was reset the process
ends (`alive`), and with it every step. `answered`, `fate` and `accepted` are history
variables. Left out: the text of the answers, so the counters in them (`Honeypot` has those);
`get_statistics`, which has no caller.

**MQTTServer.** Clients, network and reactor as in `ModbusServer`, but a handler is not one step:
`HandleRead` runs up to the synchronous `boost::asio::write`, whose end is `WriteDone` or
`WriteThrows`, and while `writing` names a connection nothing else of the process runs (`Runs`). A
write waits as long as the client has `WINDOW` answers unread. Packets are sequences of bytes, which the
network may cut in two segments (`Cuts`) and a read merges with whatever has arrived (`Taken`). `KindOf` is
what the code makes of the bytes of one read: a type from the first one (`TypeOf`), and for a PUBLISH or a
SUBSCRIBE a topic, or that it is malformed, from two bytes of length compared with the length of the read
(`PublishTopic`, `SubscribeTopic`); so a short packet is parsed across its end into the next one. A topic is
judged as the log has it, after `sanitize_for_log`. `Activity`, `Attack`, `LateAttack` and `Answer`
are the cases of `process_mqtt_packet`. A SUBSCRIBE of less than four bytes is answered with an
identifier read beyond the data (`SUBACK_of_nothing`). The test for a payload over 10240 bytes is
left out: no read returns more than the 1024 of its buffer. `Publish` and `Subscribe` are the well-formed packets with
which the property compares; their remaining length is below 128, so it takes one byte, the only form that
the code knows.

**CoAPServer.** `recv_buffer_` (as the length of what is in it) and `remote_endpoint_` are the members
of the class that each receive overwrites; `receive` is the asynchronous receive. `Handle` is the
whole handler with its call of `start_receive`, `Skip` the handler on its other paths. The resource
is drawn at random by the code, and by `\E` here. `Send` is what `async_send_to` does inside the
call: send, or keep the reply in `pending`; `SendCompletes` sends one that waited, intact or not,
since its string is gone. The properties count places (`CountUpTo`): the n-th datagram that is
handled is the n-th that is reported. Loss and reordering in the network need no action: such a datagram is one
that was not sent, or sent later.

**Honeypot.** The composition is by what servers share. A handler is the sequence of the calls it
makes - report to the logger, count, show the dashboard, stand in a write, shut a socket down -
and `handler` holds those still to come; the sets `ModbusAccept` to `RESTWritten` are read off the
handlers that the servers' own modules detail. A report that is counted has the counter's name as its kind;
two kinds are reported and never counted (`Uncounted`): the refused authentication of Modbus and the
connection to MQTT. `Logger` is an instance of `SOCLogger`, so a report may
start a flush and the handler goes on when it has ended. `Start`, `Serve`, `ConstructorThrows`,
`Return`, `Interrupt` (Ctrl+C) and `Throw` are the life of `main`; after its end docker starts it
again. `entries` remembers which handler of which life made each report, and `shown` what the dashboard
showed last: the counter of each kind, and how many reports (`of`) had been made by then.

**Sanitizers.** Characters are the classes that the code tells apart. The functions are operators, and
a loop over a string is a function on `0 .. Len(s)`: what it has computed after each character
(`Escapes` for the loop of `sanitize_for_log`, `Scans` for that of `sanitize_path`, whose turn is `Step`;
`Pairs` for the search for `..`). The behaviours of the module only enumerate the inputs, one character
per step (`InputSpec`), and the invariants compare the functions with independent definitions: a reader
of JSON strings (`Readers`), undoing of escapes (`Undone`), a path taken apart at its slashes (`Canonical`).

**PLCMemory.** Two messages are changed by the operations of the generated class (`SetRegion` to
`Swap`), one is written piece by piece in any order of its maps (`Serialize` to `Written`), its file
may lose its end (`Cut`) or be the one that `generate_simple` writes, and is read, one field per step,
into the other message (`Read` to `ParseEnds`). The wire is bytes, so that tags, lengths and contents
can be mistaken for each other; numbers stay below 2^14 and keys have one character. A loop that
parses bytes is a function on `0 .. Len(bytes)` whose values are its states (`TimerTurns`, `EntryTurns`).
The generated code parses in place: a turn that fails may leave a piece of its field in the message
(`FailsIn`, `Spoilt`), because a region is read straight into its string and the end of the file is noticed
afterwards. No program of the repository reads the file; the reader is the generated parser by itself.
The specification is `MessageSpec`, the types are `MessageTypes`. What the protobuf library does is
modelled as far as the generated code relies on it, and marked external.

Dead code is stated where it is left out: `is_safe_buffer_size` cannot refuse what
`async_read_some` delivers into a buffer of the same size, and `max_requests_per_minute <= 0`
never holds with the constant 60 of the only caller (assumption `LimitAssumption`).

## 3. Runs

| run | checks | instance | result |
|---|---|---|---|
| `logger` | `PendingIsTail`, `OrderedLog`, `FramedEntries`, `KeepsPromise` | 7 events, buffer of 3, interval 2, 3 starts, failing disk | pass |
| `modbus` | `Exclusive`, `NoStaleData`, `OneOperation`, `CountersMatchLog`, `AccusationsBacked` | 2 connections, 2 buffers, pool of 1; packets of 5, 100 and 1025 bytes, cut at 120 or not | pass |
| `modbus_live` | `EveryConnectionServed`, `EveryBufferReturned` | 2 connections, one packet of 120 bytes, cut at 60 or not | pass |
| `security` | `TwoWindowBound`, `CountIsExact`, `NoFalseRefusal`, `Contained`, `Faithful`, `PathShape`, `PathIsCanonical`, `NoticedDotsGo` | 2 clients, limit 2, window of 3 s, 7 s; all texts up to 5 and paths up to 6 characters, limits of 6 | pass |
| `rest` | `OnlyAdmittedServed`, `AdmissionsMatch`, `AnswersAreAsked`, `EveryConnectionServed` | 2 connections of one client, 3 kinds of request, limit 1, window of 2 s | pass |
| `mqtt` | `CountersMatchLog`, `OneOperation`, `AnswersMatchLog`, `AccusationsBacked`, `EveryConnectionServed` | 2 connections, 2 packets in all of three kinds, whole or cut after 6 bytes, reads of up to 10, window of 1 answer | pass |
| `coap` | `NothingOverwritten`, `RepliesMatchRequests`, `FloodAlarmsExact`, `EveryDatagramTaken` | 3 endpoints on 2 addresses, 3 datagrams of length 0, 300 or 2049, alarm after 1 | pass |
| `plc` | `SizeExact`, `RoundTrip`, `NeverMisread` | 3 operations on 3 fields, 2 keys, numbers of one and two bytes | pass |
| `honeypot` | `HandlersDoNotMix`, `ShownIsTrue`, `ShownIsLogged`, `EveryCompletionHandled` | 2 starts, 3 completions, buffer of 2, interval of 1 | pass |
| `modbus_attacks` | `EveryAttackCounted` | 1 connection | violated |
| `modbus_answers` | `RequestsAnswered` | 1 connection, one packet of 120 bytes, cut at 60 or not | violated |
| `rest_forever` | `RunsForever` | 1 connection, one request | violated |

Each module has a `TypeOK` (`Sanitizers`: `InputType`, `PLCMemory`: `MessageTypes`); the runs check it as the first conjunct of an
invariant (`Exclusive`, `OneOperation` of MQTT, `OnlyAdmittedServed`, `NothingOverwritten`, `RoundTrip`,
`HandlersDoNotMix`), except for `SOCLogger`, `RateLimiter` and `Sanitizers`, where it is only proved. It is
proved of all of them.

**Why the bounds are enough.** Seven events over a buffer of three give two full flushes by size
and a remainder; three starts give a restart after a restart, so a file with three arrays; the
interval is shorter than the buffer is long, so flushes by time and by size both happen. Two Modbus
connections interleave their handlers in all orders. A packet of 5 bytes is reported as a scan, and
another may follow it, alone or in the same read; 100 bytes are the largest read that is not reported;
1025 exceed the buffer by one, so they take two reads, and cut at 120 their first segment alone is
reported as large, but not as an overflow. `AccusationsBacked` adds up all verdicts on a client, 101 bytes for each `LARGE_PACKET`, 513 for each
`BUFFER_OVERFLOW_ATTEMPT`, six for a read that passes and one for a `PORT_SCAN`, so a byte that served two of
them would show. Two connections over a pool of one exceed it, so a buffer is dropped while the
other is in use, and the cleanup empties the pool. Seven seconds cover two windows of three and the second in
which a window may first be renewed. Symmetry is used in safety runs only. Two
connections of one browser address over a limit of one are the smallest instance in which the
second is refused inside the window and admitted at its end, and in which one handler runs between
accept and read of the other; a third connection multiplies the states more than tenfold and adds only
the independence of two clients, which is a matter of the limiter's maps and checked by `security`.
MQTT packets: a PUBLISH to an administrative topic, a SUBSCRIBE with a wildcard, and the beginning of a
SUBSCRIBE, alone shorter than its identifier and, in one read with the next packet, parsed across the
boundary; cut after six bytes the PUBLISH is malformed by its length, and the rest of a packet is taken for
one of its own; a read of ten bytes takes a packet and the beginning of the next. So every case of the parser
that reports, answers or accuses differently is reached, and a window of one makes the second answer wait. CoAP: two
endpoints share an address; the lengths lie below, between and above the thresholds and the buffer;
with the alarm after one request, three requests raise it and begin again. Sanitizers: the limit of
six is shorter than two escapes of four, so cuts fall inside an escape and inside the escape of an
escape; paths of six hold a %XX with a neighbour on both sides and reach the limit. PLC: three
operations fill two messages and copy or merge one into the other; a region whose bytes look like a
timer, zeros, numbers of two bytes and unknown fields are among the data. Honeypot: a buffer of two
is full in the middle of every handler that reports twice or more, and three completions are what an
accept, a read and the answer's completion of one server take.

`CHECK_DEADLOCK FALSE` everywhere: each instance ends when its bound (events, starts, packets,
time) is used up, and the servers themselves may wait for clients for ever.

**Fairness** (`modbus_live`, `rest`, `mqtt`, `coap`, `honeypot`). `WF` on the handlers: one thread runs them, none of them blocks, and
the queue is first-in first-out, so one condition on all of them together is enough. `WF` on
`Deliver`, `ReadCompletes`, `ReadFails`: the network delivers and the reactor reports what is
ready. `SF` on `AcceptCompletes`: a failing accept makes it momentarily impossible, but accepting
does not fail for ever. Clients owe nothing: they need not connect, send or leave.
`WriteCompletes` has no fairness either: a browser need not take the rest of an answer, and then
the connection stays; that is why `EveryConnectionServed` asks for the beginning of an answer. An MQTT
client need not read its answers either, and then the write, the thread and all servers wait: the
liveness of `MQTTServer` and `Honeypot` is therefore stated with the exception `HeldUp`, which is all
that the code guarantees. `SF` on `ReceiveCompletes` of CoAP: receiving does not fail for ever.

**What the violated runs show.**

* `modbus_attacks` - rest_api.cpp:231 shows `attacks_detected_` as "THREAT(S) DETECTED", and README.md:175
  promises "Connection and attack statistics": a refused authentication is logged as an attack of severity
  HIGH (modbus_server.cpp:113, soc_logger.cpp:187) and never counted. `CountersMatchLog` says that nothing
  else is missing.
* `modbus_answers` - "Automatic responses to Modbus requests" (README.md:142): the answer is a
  `std::string` made from a literal that starts with a NUL byte, so it is empty.
* `rest_forever` - "Wait indefinitely" (main.cpp:44): `shutdown()` throws in the completion handler
  when the browser has reset the connection; nothing catches it and all servers end.

**Seen while modelling, without a run of their own**, since a passing property already says what does
hold, or because the model has the fact built in:

* README.md:66 and soc_logger.h:21 promise an "automatic flush every 5 seconds"; the age of the last
  flush is looked at only when the next event arrives (`LogEvent`).
  Ctrl+C, which main.cpp:36 tells the user to press, never reaches `shutdown`, although README.md:80 says the
  buffer is "emptied on shutdown()" (`Interrupt`): what is in the buffer is lost and the array stays open.
* README.md:160 promises "Standardized JSON format", but a comma follows the last entry, a
  restart appends a second array (`FramedEntries`), and `\xHH`, the escape for other characters, is not
  one of JSON's.
* README.md:141 promises "Identification of large packets", but one that comes in two segments is
  judged as two reads (`AccusationsBacked`).
* A connection to MQTT is logged as an activity and not counted with the "ACTIVITIES LOGGED" of
  rest_api.cpp:158 (`ShownIsTrue`).
* A well-formed MQTT packet that arrives in two segments is reported as `MQTT_MALFORMED_PACKET`, for its
  length is compared with that of the read (mqtt_server.cpp:116 and 138), and so is the rest of it, whose first
  byte is taken for a type. `AccusationsBacked` says what protects a client: only its own bytes are judged,
  and a read that begins with a whole packet is not called malformed. A topic of a raw byte 0xAD and `min` is
  judged as the log has it, `\xadmin`, which contains "admin" (mqtt_server.cpp:122 and 127).
* README.md:110 promises "60 requests per minute per IP", but windows are fixed, so the end of one
  and the start of the next together let twice the limit through (`TwoWindowBound`), and it is
  connections that are counted when accepted, whenever their requests come (`AdmissionsMatch`).
* REST and CoAP hand `async_write` and `async_send_to` a local string that is gone when the rest is
  sent (rest_api.cpp:255, coap_server.cpp:133; `StartWrite`, `SendCompletes`).
* README.md:113 says the path is sanitized against traversal; a '..' that is followed by a slash, letter
  or digit is kept, because found_dot_dot is reset (security.cpp:126): `/../a` stays `/../a`.
  `NoticedDotsGo` says which are not kept. README.md:114 and the code differ in the limit
  of a path, 2048 and 256.
* The resource of a CoAP request is drawn at random, so `ADMIN_ACCESS_ATTEMPT` says nothing of the client.
* One MQTT client that does not read its answers stops all protocols (`HeldUp`), one that resets at
  the wrong moment ends the process (`WriteThrows`).
* `generate_plc_config` passes `set_input_region` a C string with embedded NULs, which is cut there;
  `generate_simple` writes bytes that are no message, which a parser rejects (`NeverMisread`).
* A message in which a parse has failed may hold a part of the field that was cut, and a caller that ignores
  the result of `ParseFromIstream` sees it (`Spoilt`).

## 4. Proofs

`tlapm` checks `SequenceLemmas`, `SOCLogger_proofs`, `Security_proofs`, `PLC_proofs`,
`MQTTServer_proofs`, `CoAPServer_proofs`, `RestAPI_proofs` and `Honeypot_proofs` to the last leaf. Between
them they prove every safety invariant that a passing run checks, and that the logger implements
`EventLog`.

The constants are arbitrary up to the assumptions named in the modules: sizes, limits, windows and
packets are positive, names and payloads of well-formed MQTT packets are short enough for a length of one byte, bounds are natural numbers, the sets of valid and malformed addresses are
disjoint, `NoConn` and `NoBuffer` are not a connection or a buffer, a browser is not called "none" (the
limiter's answer before the first question), there is an endpoint, and the buffer of the CoAP server
is no larger than `is_safe_buffer_size` allows, as its 2048 bytes are. Of the message: a key is a character,
numbers and lengths of regions are below 2^14 (so a varint has at most two bytes), and an unknown
field is one whole field with a number that this version does not have. The run's values satisfy them,
and TLC evaluates them. The bounds (`MaxBytes`, `MaxDatagrams`, `MaxEvents` ...) are arbitrary too, so
the theorems speak of behaviours of any length.

**SOCLogger_proofs.** Proved: `TypeCorrect`, `PendingCorrect`, `OrderCorrect`, `FramingCorrect`, and
`PromiseKept`, that the logger implements `EventLog`. The inductive invariant is the conjunction
of the checked invariants and two facts they do not imply: `TailFits`, that the buffer holds no
more than was reported (otherwise "the newest events" has no meaning), and `LifeOpened`, that
while writes succeed the end of the file is inside an open array (`FramedEntries` speaks only of
entries already there; the next one needs the bracket to be open). One lemma per action shows it is
preserved. The refinement then maps each action to a step of `EventLog` or to a stutter:
`LogEvent` accepts, `WriteEntry` settles one event, durably while the stream is good; `Kill` and
`CloseLog` end the life, the latter only once everything is settled; everything else stutters.

**Security_proofs, the limiter.** Proved: `TypeCorrect`, `TwoWindowCorrect`, `CountCorrect` and
`RefusalCorrect`. The maps alone do not carry the argument, since they forget all but the last
window. The invariant therefore describes the history (`History`): times do not decrease, each
admission is less than `max` positions and less than `WINDOW` seconds after the one that opened its
window, and a window opens at least `WINDOW` seconds after the one before it. `LastWindow` ties the
maps to the end of it. From that, of 2 * max consecutive admissions the last is in a window whose
predecessor opened no earlier than the first, which is the bound (`TwoWindows`).

**Security_proofs, the sanitizers.** Proved, for texts and paths of any length and any limits:
`ContainedCorrect`, `FaithfulCorrect`, `PathShapeCorrect`, `NoticedDotsGoCorrect` and
`PathIsCanonicalCorrect`. These are inductions over a string, and the library's induction theorem takes
an operator as parameter, which no installed prover instantiates. `SequenceLemmas` therefore states
induction with a set in the operator's place (`Induction`, `Upwards`; from `WFMin`, a set of numbers has
a least one) and derives `Recursion`: there is a function on `0 .. n` with a given value at 0 and a given
step. A loop, defined by recursion as `CHOOSE f : f = [i \in 0 .. n |-> ...]`, is then shown once to be what
its definition says (`EscapesDef`, `ReadersDef`, `UndosDef`, `ScansDef`, `PairsDef`, `MeaningsDef`,
`SegmentsDef`), and the invariants of the loops are shown character by character:

* `Readable`: what was appended has no raw line end, leaves a reader in the string, and at no place in
  it has the string been closed - so it may be cut anywhere, and the dots of the cut end an escape
  that it splits. It holds of any characters, the sanitizer's own output among them, so also when a
  text is sanitized twice.
* `Unescapes`: undoing what was appended gives all that was read, and undoing a beginning of it gives a
  beginning of that.
* `SlashesKnown`: no two slashes in a row have been kept, and the scan knows when one was kept last.
  Each later stage (`WithoutPairs`, `Rooted`, `Limited`, `Trimmed`) is shown to keep the shape.
* `Fits`: of a path shorter than the limit the scan never keeps more than it has read or used up, so
  the limit never stops it.
* `DotsKnown`: the counter of dots and `found_dot_dot` tell of the end of what has been read so far.
* `Agrees`: of a path without dots, what has been kept under its root is the segments of what has been
  read, taken apart at the slashes, while an escape that the scan has taken ahead is accounted for
  where it ends (`Reached`).

**MQTTServer_proofs.** Proved: `TypeCorrect`, `CountersAreRight` (`CountersMatchLog`),
`OneHandlerAtATime` (`OneOperation`), `AnswersFollowReports` (`AnswersMatchLog`) and `AccusationsAreRight`
(`AccusationsBacked`), for any set of connections and packets. Each has an inductive invariant of its own.
`LogInv`: the counters agree with a log that is a set only if no report is made twice, so no entry may carry
a number above its connection's reads, and while a write waits the accusation that follows it must not be
there yet. `HandlerInv` replaces counting by a correspondence: the connections with a handler in the queue
are exactly the queued ones (`OnceIn`), and it needs the same of the backlog (`WaitsIn`), since a connection
that stood there twice would be accepted twice.

`AnswerInv`: the reports of a client's requests are as many as its answers and the one that a write owes it
(`ReportedIsAnswered`); the write under way answers the packet just reported (`WriteAnswers`); an accusation
that comes after the answer stands beside the SUBSCRIBE of the same read (`WildcardFollows`).

`AccusedInv` follows the bytes of a read: they are those in the queue until the handler runs, and no other read
of the connection has been received since (`QueueTaken`); the write under way is for the last one
(`WriteTaken`); every handled read is charged with what its bytes deserve, but for a wildcard whose answer is
being written (`Charged`); an identifier from beyond the data went to a read that was short
(`NothingBacked`). It needs the invariants before it (`KnownInv`): that a connection has one handler in the
queue, and that the log has nothing of a read not handled. What the bytes of a well-formed packet deserve is
then computed from them: a read that begins with the packet has its header and its name (`PacketWithin`), and
so the code takes it for what it is (`PublishTaken`, `SubscribeTaken`), whatever stands behind it.

**PLC_proofs, the Modbus server.** Proved: `TypeCorrect`, `SpecOneOperation`, `SpecExclusive`, `SpecNoStaleData`,
`SpecCountersMatchLog` and `SpecAccusationsBacked`. None of the last four is inductive.
`QueueInv` says where a connection stands: in the queue once when it is queued, in the backlog once when
it waits, nowhere else, and a client that never showed up has no connection. `PoolInv` adds that a
connection which reads, or waits for the handler of a read, has a buffer, which is neither in the pool
nor another's; without it the type of `content` would not survive a read. `DataInv` says what buffers
hold: zeros in the pool and under a pending read, the owner's data before its handler. `CounterInv`
makes each report new, since the log is a set: nothing in it is of a read not handled, or of a
connection not accepted. `CountsTell` has the counter of attacks equal to what the log says of
reads (`ReadAttacks`), which the refused authentications are no part of. `BytesInv` lets each byte serve once: what
the verdicts on a client need (`Owed`), what waits in a read whose handler has not run, what has arrived and what is on its way are together
no more than it sent.

**PLC_proofs, the configuration.** Proved: `SizeExactCorrect`, `RoundTripCorrect` and
`NeverMisreadCorrect`, for messages with any maps, regions and unknown fields.

The size is a sum over a finite set, which the model takes with a fold. `TotalLess` says that it is any
one of its summands and the sum of the others. The fold is a function chosen among those that satisfy its
recursion, so it has to be shown that there is one (`SumExists`, from `Recursion`). `WritingInv` then carries `SizeLeft` from step to
step: the bytes in the file, the pieces of this field that are left, the later fields and the unknown
ones are together what `ByteSizeLong` said. A piece takes its own size from one side to the other
(`PieceType`), in whatever order pieces are written.

For the reading, `ReadLocal` says that a field at the head of a sequence is read from its own bytes
alone: what follows does not matter, and when one of its bytes is missing nothing is read. Every
piece is such a field (`ReadBytesField`, `PieceRead`), as is an unknown field, by assumption. The two inner
loops are followed with `TimerAt` and `EntryAt`: the loop comes to a state with turns enough for the bytes
that remain; so a timer is read as written, though fields that are zero have been left out
(`TimerRead`), and so is an entry (`EntryRead`). `Half` is the message into which some pieces of another
have been read, and storing a piece makes it one piece more (`StorePiece`); with no piece it is the
message before (`HalfNone`), with all of them it is what `MergeImpl` makes of the two (`HalfAll`).

`ReadingInv` ties the file to the message. While it is written, what is in it are the pieces done, in
some order (`SoFar`); when it is stored, it is those of the whole message and the unknown fields, or a
front of that when it has been cut (`FrontOf`), or the table of `generate_simple`, no part of which is
a field (`SimpleUnreadable`). While it is read, `Midway` says that b is `Half` read and that the rest of the file
is a front of the pieces wanted and the unknown fields that remain. Each turn keeps it (`AnyTurn`), and fails
only in a file that was cut. At the end of a whole file nothing is wanted, which is `RoundTrip`; and a
message that is half read holds only what was written, which is `NeverMisread` as long as the parse goes on;
after a failure the message is one that was half read, spoilt in the field of the failing turn (`ReadSpoilt`),
and its other fields are as they were (`SpoiltFrom`). `RoundTrip` alone is not
inductive: it speaks of the last state, and nothing of what has been read before.

**CoAPServer_proofs.** Proved: `TypeCorrect`, `AlarmsAreExact`, `RepliesFollowRequests` and
`NothingIsOverwritten`. The last is inductive when what was reported and what waits in the members are
taken as one sequence (`Got`): only a receive that completes changes it, and then nothing waits. The
flood alarm is inductive as the run states it, by the remainder of one more request
(`NextRemainder`). The replies need `ReplyInv`: those that were sent are to the first requests, those that
wait to the others, each where its request stands.

**RestAPI_proofs.** Proved: `TypeCorrect`, `OnlyAdmitted`, `AnswersFollowRequests` and `AdmissionsAgree`.
The limiter's part of a step is a step of `RateLimiter`, so its invariant, with the bound on the entries
of a window, is cited from `Security_proofs`. `ServeInv` follows a connection: its fate decides in
which states it can be, a read waits only for one that was admitted and not answered, and an answer
names a part of its request. `AdmitInv` says of any set of times, not only of a window, that the
connections admitted then are as many as the limiter let in then; the property is about windows, but a
set that a step can extend by one moment is what is inductive. `RefusedInv` keeps what a refusal saw,
although the limiter forgets it with its window.

**Honeypot_proofs.** Proved: `HandlersKeepTogether`, `DashboardIsTrue`, `DashboardIsLogged`,
`LoggerIsUsed` and `PromiseKeptToServers`, with and without a failing disk. The
logger's part of a step is a step of `SOCLogger` (`LoggerIsUsed`), so its invariant is cited from
`SOCLogger_proofs`, and so is its promise: the composed program implements `EventLog`. Every handler is a sequence of calls in
which a counted report is directly followed by its count and nothing else is counted (`Good`); this is
shown once for each handler of each server. `ThreadInv` keeps it for the rest of the running handler,
and says that its calls are of the completion taken last. `EntriesInv`, that reports are in the order
of their visits, then gives that they stand together. `CountInv`: each counter is the number of reports
of its kind in this life, but for the report that the running handler is about to count; the dashboard
is shown when there is no such report, so what it shows is the reports of that kind (`ShownInv`), also
later, and what the log says beyond that is of an uncounted kind.
`SettledInv` says that a report of this life which left the buffer while the stream is good is in the
file, and `ShownSettled` that all but fewer than `BUFFER_SIZE` of the reports shown have left it.

**Model-checked only.**

* Liveness (`EveryConnectionServed`, `EveryBufferReturned`, `EveryDatagramTaken`,
  `EveryCompletionHandled`): under fairness it is out of the prover's reach.

## 5. Plan

Built: all modules of section 2, with the proofs of section 4. Left, in this order:

1. Action properties: no step takes a report back, and within a life the
   counters, `answered` and `fate` are written once or grow.
2. Varints of more than two bytes and keys of more than one character in `PLCMemory`.

## 6. Not modelled

* `debug_server.cpp` is not in `CMakeLists.txt` and does not compile: it calls
  `SOCLogger::logEvent`, which does not exist.
* Reflection, descriptors, arenas and the file-level tables of `plc_memory.pb.*`: they keep no state of
  the message. `src/plc_memory.pb.*` are copies of `src/proto/plc_memory.pb.*`, and are covered with
  them. No server reads the configuration.
* The HTML of the dashboard, console output, wording of log entries: text without state.
* `is_valid_ip`: two regular expressions; it appears as the set of addresses it refuses.
* Growth of the maps (limiter, CoAP counter) and silent connections that never end: the code sets no
  bound that could be checked; they are listed as hazards.
