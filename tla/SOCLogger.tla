----------------------------- MODULE SOCLogger -----------------------------
(***************************************************************************)
(* The SOC logger (server/src/soc_logger.cpp): the protocol handlers       *)
(* report events, add_to_buffer collects them in buffer_, and flush_buffer *)
(* writes the batch to the log file when it is full or when the last flush *)
(* is old enough.                                                          *)
(*                                                                         *)
(* One thread runs every handler (main.cpp), so the operations are         *)
(* sequential; what interrupts them is the death of the process, between   *)
(* any two writes of a flush, and a disk that stops accepting data and     *)
(* does not recover while that process lives.                              *)
(* An event is represented by its number in the order of the log_* calls;  *)
(* the file is a sequence of what was written, survives the process and is *)
(* opened for appending by the next one.                                   *)
(***************************************************************************)
EXTENDS Integers, Sequences

CONSTANTS
    BUFFER_SIZE,             \* entries that trigger a flush (10 in the code)
    FLUSH_INTERVAL_SECONDS,  \* age of the last flush that triggers one (5)
    DiskMayFail,             \* whether opening and writing the file can fail
    MaxEvents,               \* bound: log_* calls in a behaviour
    MaxStarts                \* bound: starts of the process in a behaviour

ASSUME BufferAssumption == BUFFER_SIZE \in Nat \ {0}
ASSUME IntervalAssumption == FLUSH_INTERVAL_SECONDS \in Nat \ {0}
ASSUME DiskAssumption == DiskMayFail \in BOOLEAN
ASSUME BoundsAssumption == MaxEvents \in Nat /\ MaxStarts \in Nat

VARIABLES
    proc,          \* where the process is, see Phases
    initialized_,  \* SOCLogger::initialized_
    stream,        \* log_file_ as a stream: closed, good, or bad after a failure
    buffer_,       \* SOCLogger::buffer_, the entries not yet handed over
    written,       \* entries of buffer_ the flush in progress has written
    elapsed,       \* seconds since last_flush_, up to one over the interval
    log_file_,     \* content of the log file
    logged,        \* number of log_* calls so far, in all processes
    starts         \* number of processes so far

vars == <<proc, initialized_, stream, buffer_, written, elapsed, log_file_,
          logged, starts>>

(* "flushing" is flush_buffer called by add_to_buffer or force_flush,      *)
(* "draining" is flush_buffer called by shutdown.                          *)
(* "exited" and "killed" are how the last process ended.                   *)
Over == {"exited", "killed"}
Phases == Over \union {"running", "flushing", "draining"}
Streams == {"closed", "good", "bad"}

(* What the file consists of.  An entry is written with the text that ends *)
(* it, a comma and a newline; a piece is what a failed or cut write leaves. *)
Open     == [tag |-> "open",  n |-> 0]
Close    == [tag |-> "close", n |-> 0]
Piece    == [tag |-> "piece", n |-> 0]
Entry(e) == [tag |-> "entry", n |-> e]

Tokens == [tag : {"open", "close", "piece", "entry"}, n : Nat]
IsEntry(t) == t.tag = "entry"

Init ==
    /\ proc = "exited"
    /\ initialized_ = FALSE
    /\ stream = "closed"
    /\ buffer_ = <<>>
    /\ written = 0
    /\ elapsed = 0
    /\ log_file_ = <<>>
    /\ logged = 0
    /\ starts = 0

(***************************************************************************)
(* log_file_ << token, in stream state st.  Nothing in the logger looks at *)
(* the outcome: after a failure the stream stays bad and drops every later *)
(* write silently.                                                         *)
(***************************************************************************)
Put(st, token) ==
    \/ /\ st = "good"
       /\ stream' = "good"
       /\ log_file_' = Append(log_file_, token)
    \/ /\ st = "good"
       /\ DiskMayFail
       /\ stream' = "bad"
       /\ log_file_' \in {log_file_, Append(log_file_, Piece)}
    \/ /\ st = "bad"
       /\ stream' = "bad"
       /\ UNCHANGED log_file_

-----------------------------------------------------------------------------
(* mutant: the opening bracket is forgotten *)
MutantInitialize ==
    /\ proc \in Over /\ starts < MaxStarts
    /\ proc' = "running" /\ starts' = starts + 1
    /\ initialized_' = TRUE /\ stream' = "good" /\ elapsed' = 0
    /\ UNCHANGED <<buffer_, written, log_file_, logged>>

(* The process starts and main calls SOCLogger::initialize.  When the file *)
(* cannot be opened initialize returns early and the servers run without a *)
(* log.                                                                    *)
Initialize ==
    /\ proc \in Over
    /\ starts < MaxStarts
    /\ proc' = "running"
    /\ starts' = starts + 1
    /\ elapsed' = 0
    /\ \/ /\ Put("good", Open)
          /\ initialized_' = TRUE
       \/ /\ DiskMayFail
          /\ UNCHANGED <<initialized_, stream, log_file_>>
    /\ UNCHANGED <<buffer_, written, logged>>

FlushDue(n) == n >= BUFFER_SIZE \/ elapsed >= FLUSH_INTERVAL_SECONDS

(* mutant: the size test is off by one *)
MutantLogEvent ==
    /\ proc = "running" /\ logged < MaxEvents /\ initialized_
    /\ logged' = logged + 1
    /\ buffer_' = Append(buffer_, logged + 1)
    /\ proc' = IF Len(buffer_') > BUFFER_SIZE THEN "flushing" ELSE "running"
    /\ UNCHANGED <<initialized_, stream, written, elapsed, log_file_, starts>>

(* A handler calls one of the log_* functions: nothing happens before a    *)
(* successful initialize; afterwards add_to_buffer appends the entry and   *)
(* decides whether to flush.                                               *)
LogEvent ==
    /\ proc = "running"
    /\ logged < MaxEvents
    /\ logged' = logged + 1
    /\ \/ /\ ~ initialized_
          /\ UNCHANGED <<buffer_, proc>>
       \/ /\ initialized_
          /\ buffer_' = Append(buffer_, logged + 1)
          /\ proc' = IF FlushDue(Len(buffer_) + 1) THEN "flushing" ELSE "running"
    /\ UNCHANGED <<initialized_, stream, written, elapsed, log_file_, starts>>

InFlush == proc \in {"flushing", "draining"}

(* mutant: the batch is written newest entry first *)
MutantWriteEntry ==
    /\ InFlush /\ written < Len(buffer_)
    /\ Put(stream, Entry(buffer_[Len(buffer_) - written]))
    /\ written' = written + 1
    /\ UNCHANGED <<proc, initialized_, buffer_, elapsed, logged, starts>>

(* One iteration of the loop in flush_buffer. *)
WriteEntry ==
    /\ InFlush
    /\ written < Len(buffer_)
    /\ Put(stream, Entry(buffer_[written + 1]))
    /\ written' = written + 1
    /\ UNCHANGED <<proc, initialized_, buffer_, elapsed, logged, starts>>

(* The end of a flush made by add_to_buffer or force_flush. *)
FinishFlush ==
    /\ proc = "flushing"
    /\ written = Len(buffer_)
    /\ buffer_' = <<>>
    /\ written' = 0
    /\ elapsed' = 0
    /\ proc' = "running"
    /\ UNCHANGED <<initialized_, stream, log_file_, logged, starts>>

(* force_flush: flush_buffer under the lock. *)
ForceFlush ==
    /\ proc = "running"
    /\ initialized_
    /\ buffer_ # <<>>
    /\ proc' = "flushing"
    /\ UNCHANGED <<initialized_, stream, buffer_, written, elapsed, log_file_,
                   logged, starts>>

(* shutdown begins by flushing what is left. *)
Shutdown ==
    /\ proc = "running"
    /\ proc' = "draining"
    /\ UNCHANGED <<initialized_, stream, buffer_, written, elapsed, log_file_,
                   logged, starts>>

(* mutant: the file is closed first, what the buffer still holds is gone *)
MutantCloseLog ==
    /\ proc = "draining" /\ proc' = "exited"
    /\ log_file_' = IF stream = "good" THEN Append(log_file_, Close) ELSE log_file_
    /\ stream' = "closed" /\ initialized_' = FALSE
    /\ buffer_' = <<>> /\ written' = 0 /\ elapsed' = 0
    /\ UNCHANGED <<logged, starts>>

(* The rest of shutdown, after which main returns: the buffer has been     *)
(* cleared, an open file gets its closing bracket and is closed.           *)
CloseLog ==
    /\ proc = "draining"
    /\ written = Len(buffer_)
    /\ \/ /\ stream = "closed"
          /\ UNCHANGED log_file_
       \/ /\ stream = "good"
          /\ log_file_' = Append(log_file_, Close)
       \/ /\ stream = "good"
          /\ DiskMayFail
          /\ log_file_' \in {log_file_, Append(log_file_, Piece)}
       \/ /\ stream = "bad"
          /\ UNCHANGED log_file_
    /\ stream' = "closed"
    /\ initialized_' = FALSE
    /\ buffer_' = <<>>
    /\ written' = 0
    /\ elapsed' = 0
    /\ proc' = "exited"
    /\ UNCHANGED <<logged, starts>>

(* The process dies: main installs no signal handler, so Ctrl+C is one way *)
(* and an exception that leaves a handler (std::terminate in io_thread) is *)
(* another.  The static members are gone; a flush may have handed over a   *)
(* part of the entry it was writing.                                       *)
Kill ==
    /\ proc \notin Over
    /\ proc' = "killed"
    /\ initialized_' = FALSE
    /\ stream' = "closed"
    /\ buffer_' = <<>>
    /\ written' = 0
    /\ elapsed' = 0
    /\ \/ UNCHANGED log_file_
       \/ /\ InFlush
          /\ stream = "good"
          /\ written < Len(buffer_)
          /\ log_file_' = Append(log_file_, Piece)
    /\ UNCHANGED <<logged, starts>>

(* A second passes between two handlers. *)
Tick ==
    /\ proc = "running"
    /\ elapsed <= FLUSH_INTERVAL_SECONDS
    /\ elapsed' = elapsed + 1
    /\ UNCHANGED <<proc, initialized_, stream, buffer_, written, log_file_,
                   logged, starts>>

Next ==
    \/ Initialize
    \/ LogEvent
    \/ WriteEntry
    \/ FinishFlush
    \/ ForceFlush
    \/ Shutdown
    \/ CloseLog
    \/ Kill
    \/ Tick

Spec == Init /\ [][Next]_vars

-----------------------------------------------------------------------------
Pending == Len(buffer_) - written

(* The numbers of the events a file holds. *)
Numbers(f) == {f[i].n : i \in {j \in DOMAIN f : IsEntry(f[j])}}

Durable == Numbers(log_file_)

(* The variables keep their types, a flush never runs past its batch, a    *)
(* process that is not running holds nothing, and the stream is usable     *)
(* exactly between initialize and shutdown.                                *)
TypeOK ==
    /\ proc \in Phases
    /\ initialized_ \in BOOLEAN
    /\ stream \in Streams
    /\ buffer_ \in Seq(Nat)
    /\ written \in 0 .. Len(buffer_)
    /\ elapsed \in 0 .. FLUSH_INTERVAL_SECONDS + 1
    /\ log_file_ \in Seq(Tokens)
    /\ logged \in Nat
    /\ starts \in Nat
    /\ initialized_ <=> stream # "closed"
    /\ proc \in Over => ~ initialized_
    /\ ~ initialized_ => buffer_ = <<>>
    /\ ~ InFlush => written = 0

(* The buffer holds exactly the newest events, without a gap and in order: *)
(* at most BUFFER_SIZE of them while a flush runs and fewer in between, so *)
(* the death of the process between two handlers costs at most             *)
(* BUFFER_SIZE - 1 events (add_to_buffer and flush_buffer).                *)
PendingIsTail ==
    /\ \A i \in 1 .. Len(buffer_) : buffer_[i] = logged - Len(buffer_) + i
    /\ Len(buffer_) <= BUFFER_SIZE
    /\ proc = "running" => Len(buffer_) < BUFFER_SIZE

(* Over all restarts, failures and partial flushes the file holds events   *)
(* in the order in which they were reported and none of them twice, and    *)
(* all of them are older than those still pending.                         *)
OrderedUpTo(f, last) ==
    \A i \in 1 .. Len(f) : IsEntry(f[i]) =>
        /\ f[i].n \in 1 .. last
        /\ \A j \in 1 .. i - 1 : IsEntry(f[j]) => f[j].n < f[i].n

OrderedLog == OrderedUpTo(log_file_, logged - Pending)

(* Every entry of the file belongs to an array that some process opened    *)
(* and that no process closed before the entry was written: initialize     *)
(* writes the bracket first and shutdown drains the buffer before it       *)
(* closes the array.                                                       *)
Inside(f, i) ==
    \E j \in 1 .. i : /\ f[j] = Open
                      /\ \A k \in j .. i : f[k].tag # "close"

Framed(f) == \A i \in 1 .. Len(f) : IsEntry(f[i]) => Inside(f, i)

FramedEntries == Framed(log_file_)

(* The process as its callers see it. *)
Status == IF proc \in Over THEN proc ELSE "up"

(* The logger keeps the promise of EventLog: nothing is lost while the     *)
(* process lives and the disk works, an orderly end loses nothing, and a   *)
(* kill loses only what was pending.                                       *)
Promise ==
    INSTANCE EventLog WITH
        Window   <- BUFFER_SIZE,
        status   <- Status,
        healthy  <- stream = "good",
        accepted <- logged,
        settled  <- logged - Pending,
        durable  <- Durable

KeepsPromise == Promise!Spec
=============================================================================
