------------------------- MODULE SOCLogger_proofs -------------------------
(***************************************************************************)
(* Proofs about SOCLogger for every buffer size, flush interval and bound. *)
(* The inductive invariant IInv is the conjunction of the properties TLC   *)
(* checks with two facts they need: an event is in the buffer only once it *)
(* has been reported, and a usable stream is inside an open array.         *)
(***************************************************************************)
EXTENDS SOCLogger, SequenceTheorems, TLAPS

(* The buffer never holds more events than were reported. *)
TailFits == Len(buffer_) <= logged

(* While writes succeed, the end of the file lies inside an array that was *)
(* opened and not closed.                                                  *)
LifeOpened == stream = "good" => log_file_ # <<>> /\ Inside(log_file_, Len(log_file_))

IInv ==
    /\ TypeOK
    /\ PendingIsTail
    /\ TailFits
    /\ OrderedLog
    /\ FramedEntries
    /\ LifeOpened

USE BufferAssumption, IntervalAssumption, DiskAssumption, BoundsAssumption DEF Over

-----------------------------------------------------------------------------
(* The tokens are tokens. *)
LEMMA TokensType ==
    /\ Open \in Tokens /\ Close \in Tokens /\ Piece \in Tokens
    /\ \A e \in Nat : Entry(e) \in Tokens
BY DEF Open, Close, Piece, Entry, Tokens

(* The file may end with a bracket or a piece. *)
LEMMA TailType ==
  ASSUME log_file_ \in Seq(Tokens)
  PROVE  /\ Append(log_file_, Close) \in Seq(Tokens)
         /\ Append(log_file_, Piece) \in Seq(Tokens)
BY TokensType

(* What a write to the log file does to the file and the stream. *)
LEMMA PutEffect ==
  ASSUME NEW st, NEW token \in Tokens, log_file_ \in Seq(Tokens), Put(st, token)
  PROVE  /\ stream' \in {"good", "bad"}
         /\ log_file_' \in Seq(Tokens)
         /\ \/ log_file_' = log_file_
            \/ log_file_' = Append(log_file_, Piece)
            \/ st = "good" /\ stream' = "good" /\ log_file_' = Append(log_file_, token)
<1>1. /\ Append(log_file_, token) \in Seq(Tokens)
      /\ Append(log_file_, Piece) \in Seq(Tokens)
  BY TokensType
<1> QED
  BY <1>1 DEF Put

(* A process that is not running is well typed. *)
LEMMA OffType ==
  ASSUME proc' \in Over, initialized_' = FALSE, stream' = "closed",
         buffer_' = <<>>, written' = 0, elapsed' = 0,
         log_file_' \in Seq(Tokens), logged' \in Nat, starts' \in Nat
  PROVE  TypeOK'
<1>1. buffer_' \in Seq(Nat) /\ Len(buffer_') = 0
  OBVIOUS
<1>2. written' \in 0 .. Len(buffer_') /\ elapsed' \in 0 .. FLUSH_INTERVAL_SECONDS + 1
  BY <1>1
<1>3. initialized_' \in BOOLEAN /\ (initialized_' <=> stream' # "closed")
  OBVIOUS
<1> QED
  BY <1>1, <1>2, <1>3 DEF TypeOK, Phases, Streams, InFlush

(* The first state is well typed. *)
LEMMA TypeInit ==
  ASSUME Init
  PROVE  TypeOK
<1>1. /\ buffer_ \in Seq(Nat)
      /\ log_file_ \in Seq(Tokens)
      /\ written \in 0 .. Len(buffer_)
  BY DEF Init
<1>2. elapsed \in 0 .. FLUSH_INTERVAL_SECONDS + 1
  BY DEF Init
<1>3. initialized_ <=> stream # "closed"
  BY DEF Init
<1> QED
  BY <1>1, <1>2, <1>3 DEF Init, TypeOK, Phases, Streams, InFlush

(* Every step keeps the types. *)
LEMMA TypeStep ==
  ASSUME TypeOK, [Next]_vars
  PROVE  TypeOK'
<1> USE DEF TypeOK, Phases, Streams, InFlush
<1>1. CASE Initialize
  <2> USE <1>1 DEF Initialize
  <2>1. CASE Put("good", Open) /\ initialized_' = TRUE
    <3>1. stream' \in {"good", "bad"} /\ log_file_' \in Seq(Tokens)
      BY <2>1, PutEffect, TokensType
    <3>2. initialized_' <=> stream' # "closed"
      BY <2>1, <3>1
    <3>3. proc' = "running" /\ initialized_'
      BY <2>1
    <3>4. initialized_' \in BOOLEAN
      BY <2>1
    <3>5. buffer_' \in Seq(Nat) /\ written' = 0 /\ written' \in 0 .. Len(buffer_')
      OBVIOUS
    <3> QED
      BY <3>1, <3>2, <3>3, <3>4, <3>5
  <2>2. CASE UNCHANGED <<initialized_, stream, log_file_>>
    BY <2>2
  <2> QED
    BY <2>1, <2>2
<1>2. CASE LogEvent
  <2> USE <1>2 DEF LogEvent
  <2>1. logged + 1 \in Nat /\ Append(buffer_, logged + 1) \in Seq(Nat)
    OBVIOUS
  <2>2. CASE ~ initialized_
    BY <2>1, <2>2
  <2>3. CASE initialized_
    <3>1. buffer_' = Append(buffer_, logged + 1) /\ proc' \in {"running", "flushing"}
      BY <2>3
    <3>2. buffer_' \in Seq(Nat) /\ Len(buffer_') = Len(buffer_) + 1
      BY <2>1, <3>1
    <3>3. written' \in 0 .. Len(buffer_')
      BY <3>2
    <3>4. initialized_' = initialized_ /\ stream' = stream
      OBVIOUS
    <3>5. initialized_' /\ stream' # "closed" /\ written' = 0
      BY <2>3, <3>4
    <3> QED
      BY <2>1, <2>3, <3>1, <3>2, <3>3, <3>4, <3>5
  <2> QED
    BY <2>2, <2>3
<1>3. CASE WriteEntry
  <2> USE <1>3 DEF WriteEntry
  <2>1. Entry(buffer_[written + 1]) \in Tokens
    BY TokensType
  <2>2. stream' \in {"good", "bad"} /\ log_file_' \in Seq(Tokens)
    BY <2>1, PutEffect
  <2>3. stream # "closed"
    BY DEF Put
  <2> QED
    BY <2>2, <2>3
<1>4. CASE FinishFlush
  BY <1>4 DEF FinishFlush
<1>5. CASE ForceFlush
  BY <1>5 DEF ForceFlush
<1>6. CASE Shutdown
  BY <1>6 DEF Shutdown
<1>7. CASE CloseLog
  <2>1. log_file_' \in Seq(Tokens)
    BY <1>7, TailType DEF CloseLog
  <2>2. initialized_' = FALSE /\ stream' = "closed" /\ buffer_' = <<>> /\ proc' \in Over
    BY <1>7 DEF CloseLog
  <2>3. written' = 0 /\ elapsed' = 0 /\ logged' = logged /\ starts' = starts
    BY <1>7 DEF CloseLog
  <2> QED
    BY <2>1, <2>2, <2>3, OffType
<1>8. CASE Kill
  <2>1. log_file_' \in Seq(Tokens)
    BY <1>8, TailType DEF Kill
  <2>2. initialized_' = FALSE /\ stream' = "closed" /\ buffer_' = <<>> /\ proc' \in Over
    BY <1>8 DEF Kill
  <2>3. written' = 0 /\ elapsed' = 0 /\ logged' = logged /\ starts' = starts
    BY <1>8 DEF Kill
  <2> QED
    BY <2>1, <2>2, <2>3, OffType
<1>9. CASE Tick
  BY <1>9 DEF Tick
<1>10. CASE UNCHANGED vars
  BY <1>10 DEF vars
<1> QED
  BY <1>1, <1>2, <1>3, <1>4, <1>5, <1>6, <1>7, <1>8, <1>9, <1>10 DEF Next

(* Type correctness of SOCLogger: every variable keeps its type, a flush   *)
(* never runs past its batch and a dead process holds nothing.             *)
THEOREM TypeCorrect == Spec => []TypeOK
<1>1. Init => TypeOK
  BY TypeInit
<1>2. TypeOK /\ [Next]_vars => TypeOK'
  BY TypeStep
<1> QED
  BY <1>1, <1>2, PTL DEF Spec

-----------------------------------------------------------------------------
(* Appending to an ordered file keeps it ordered when what is appended is  *)
(* not an entry, or is an entry newer than all others.                     *)
LEMMA OrderedAppend ==
  ASSUME NEW f \in Seq(Tokens), NEW t \in Tokens,
         NEW last \in Nat, NEW next \in Nat, last <= next,
         OrderedUpTo(f, last),
         IsEntry(t) => t.n = last + 1 /\ last < next
  PROVE  OrderedUpTo(Append(f, t), next)
<1> DEFINE g == Append(f, t)
<1>1. /\ Len(g) = Len(f) + 1
      /\ \A i \in 1 .. Len(f) : g[i] = f[i]
      /\ g[Len(f) + 1] = t
  OBVIOUS
<1> HIDE DEF g
<1>2. ASSUME NEW i \in 1 .. Len(g), IsEntry(g[i])
      PROVE  /\ g[i].n \in 1 .. next
             /\ \A j \in 1 .. i - 1 : IsEntry(g[j]) => g[j].n < g[i].n
  <2>1. CASE i \in 1 .. Len(f)
    <3>1. /\ f[i].n \in 1 .. last
          /\ \A j \in 1 .. i - 1 : IsEntry(f[j]) => f[j].n < f[i].n
      BY <1>1, <1>2, <2>1 DEF OrderedUpTo
    <3>2. g[i] = f[i] /\ \A j \in 1 .. i - 1 : j \in 1 .. Len(f) /\ g[j] = f[j]
      BY <1>1, <2>1
    <3>3. f[i].n \in 1 .. next
      BY <3>1
    <3>4. \A j \in 1 .. i - 1 : IsEntry(g[j]) => g[j].n < g[i].n
      BY <3>1, <3>2
    <3>5. g[i].n \in 1 .. next
      BY <3>2, <3>3, Zenon
    <3> QED
      BY <3>4, <3>5
  <2>2. CASE i = Len(f) + 1
    <3>1. g[i] = t /\ t.n = last + 1 /\ last + 1 \in 1 .. next
      BY <1>1, <1>2, <2>2
    <3>2. ASSUME NEW j \in 1 .. i - 1, IsEntry(g[j])
          PROVE  g[j].n < last + 1
      <4>1. j \in 1 .. Len(f) /\ g[j] = f[j]
        BY <1>1, <2>2
      <4>2. f[j].n \in 1 .. last
        BY <3>2, <4>1 DEF OrderedUpTo
      <4> QED
        BY <4>1, <4>2
    <3> QED
      BY <3>1, <3>2
  <2> QED
    <3>1. i \in 1 .. Len(f) \/ i = Len(f) + 1
      BY <1>1
    <3> QED
      BY <2>1, <2>2, <3>1, Zenon
<1>3. OrderedUpTo(g, next)
  BY <1>2 DEF OrderedUpTo
<1> QED
  BY <1>3 DEF g

(* An ordered file stays ordered when more events are settled. *)
LEMMA OrderedMore ==
  ASSUME NEW f \in Seq(Tokens), NEW last \in Nat, NEW next \in Nat, last <= next,
         OrderedUpTo(f, last)
  PROVE  OrderedUpTo(f, next)
BY DEF OrderedUpTo

(* A position inside an array stays inside when the file grows, and so is  *)
(* the position after it unless it holds a closing bracket.                *)
LEMMA InsideAppend ==
  ASSUME NEW f \in Seq(Tokens), NEW t \in Tokens,
         NEW i \in 1 .. Len(f), Inside(f, i)
  PROVE  /\ Inside(Append(f, t), i)
         /\ i = Len(f) /\ t.tag # "close" => Inside(Append(f, t), Len(f) + 1)
<1> DEFINE g == Append(f, t)
<1>1. /\ \A k \in 1 .. Len(f) : g[k] = f[k]
      /\ g[Len(f) + 1] = t
  OBVIOUS
<1> HIDE DEF g
<1>2. PICK j \in 1 .. i : /\ f[j] = Open
                          /\ \A k \in j .. i : f[k].tag # "close"
  BY DEF Inside
<1>3. g[j] = Open /\ \A k \in j .. i : g[k].tag # "close"
  BY <1>1, <1>2
<1>4. Inside(g, i)
  BY <1>3 DEF Inside
<1>5. ASSUME i = Len(f), t.tag # "close"
      PROVE  Inside(g, Len(f) + 1)
  <2>1. \A k \in j .. Len(f) + 1 : g[k].tag # "close"
    BY <1>1, <1>3, <1>5
  <2>2. j \in 1 .. Len(f) + 1
    BY <1>5
  <2> QED
    BY <1>3, <2>1, <2>2 DEF Inside
<1> QED
  BY <1>4, <1>5 DEF g

(* Appending to a framed file keeps it framed, provided an entry is only   *)
(* appended inside an array.                                               *)
LEMMA FramedAppend ==
  ASSUME NEW f \in Seq(Tokens), NEW t \in Tokens, Framed(f),
         IsEntry(t) => f # <<>> /\ Inside(f, Len(f))
  PROVE  Framed(Append(f, t))
<1> DEFINE g == Append(f, t)
<1>1. /\ Len(g) = Len(f) + 1
      /\ \A k \in 1 .. Len(f) : g[k] = f[k]
      /\ g[Len(f) + 1] = t
  OBVIOUS
<1>2. ASSUME NEW i \in 1 .. Len(g), IsEntry(g[i])
      PROVE  Inside(g, i)
  <2>1. CASE i \in 1 .. Len(f)
    <3>1. Inside(f, i)
      BY <1>1, <1>2, <2>1 DEF Framed
    <3> QED
      BY <2>1, <3>1, InsideAppend
  <2>2. CASE i = Len(f) + 1
    <3>1. IsEntry(t)
      BY <1>1, <1>2, <2>2
    <3>2. Len(f) \in 1 .. Len(f) /\ Inside(f, Len(f))
      BY <3>1
    <3>3. t.tag # "close"
      BY <3>1 DEF IsEntry
    <3> QED
      BY <2>2, <3>2, <3>3, InsideAppend
  <2> HIDE DEF g
  <2> QED
    BY <1>1, <2>1, <2>2
<1> HIDE DEF g
<1>3. Framed(g)
  BY <1>2 DEF Framed
<1> QED
  BY <1>3 DEF g

(* The last position of a file is inside an array right after the array    *)
(* has been opened.                                                        *)
LEMMA InsideOpened ==
  ASSUME NEW f \in Seq(Tokens)
  PROVE  /\ Append(f, Open) # <<>>
         /\ Inside(Append(f, Open), Len(Append(f, Open)))
<1> DEFINE g == Append(f, Open)
<1>1. Len(g) = Len(f) + 1 /\ g[Len(g)] = Open /\ Len(g) \in 1 .. Len(g)
  OBVIOUS
<1>2. g # <<>>
  BY <1>1
<1> HIDE DEF g
<1>3. Open.tag # "close"
  BY DEF Open
<1>4. Inside(g, Len(g))
  BY <1>1, <1>3 DEF Inside
<1> QED
  BY <1>2, <1>4 DEF g

-----------------------------------------------------------------------------
(* The inductive invariant holds in the first state. *)
LEMMA InvInit ==
  ASSUME Init
  PROVE  IInv
<1>1. TypeOK
  BY TypeInit
<1>2. Len(buffer_) = 0 /\ Len(log_file_) = 0
  BY DEF Init
<1>3. PendingIsTail /\ TailFits
  BY <1>2 DEF Init, PendingIsTail, TailFits
<1>4. OrderedLog /\ FramedEntries /\ LifeOpened
  BY <1>2 DEF Init, OrderedLog, OrderedUpTo, FramedEntries, Framed, LifeOpened
<1> QED
  BY <1>1, <1>3, <1>4 DEF IInv

(* Every step keeps the buffer the tail of the reported events. *)
LEMMA PendingStep ==
  ASSUME TypeOK, PendingIsTail, TailFits, [Next]_vars
  PROVE  PendingIsTail' /\ TailFits'
<1> USE DEF TypeOK, PendingIsTail, TailFits, InFlush, Phases
<1>1. CASE LogEvent
  <2> USE <1>1 DEF LogEvent
  <2>1. CASE ~ initialized_
    <3>1. buffer_ = <<>> /\ buffer_' = <<>>
      BY <2>1
    <3> QED
      BY <3>1
  <2>2. CASE initialized_
    <3>1. buffer_' = Append(buffer_, logged + 1)
      BY <2>2
    <3>2. /\ Len(buffer_') = Len(buffer_) + 1
          /\ \A i \in 1 .. Len(buffer_) : buffer_'[i] = buffer_[i]
          /\ buffer_'[Len(buffer_) + 1] = logged + 1
      BY <3>1
    <3>3. Len(buffer_') <= BUFFER_SIZE
      BY <3>2
    <3>4. proc' = "running" => Len(buffer_') < BUFFER_SIZE
      BY <2>2, <3>2 DEF FlushDue
    <3>5. logged' = logged + 1 /\ logged \in Nat /\ Len(buffer_) \in Nat
      OBVIOUS
    <3>6. ASSUME NEW i \in 1 .. Len(buffer_')
          PROVE  buffer_'[i] = logged' - Len(buffer_') + i
      <4>1. CASE i \in 1 .. Len(buffer_)
        <5>1. buffer_'[i] = logged - Len(buffer_) + i
          BY <3>2, <4>1
        <5> QED
          BY <3>2, <3>5, <4>1, <5>1
      <4>2. CASE i = Len(buffer_) + 1
        <5>1. buffer_'[i] = logged + 1
          BY <3>2, <4>2
        <5> QED
          BY <3>2, <3>5, <4>2, <5>1
      <4> QED
        BY <3>2, <3>5, <4>1, <4>2
    <3> QED
      BY <3>2, <3>3, <3>4, <3>5, <3>6
  <2> QED
    BY <2>1, <2>2
<1>2. ASSUME buffer_' = <<>>, logged' = logged
      PROVE  PendingIsTail' /\ TailFits'
  <2>1. Len(buffer_') = 0
    BY <1>2
  <2> QED
    BY <1>2, <2>1
<1>3. CASE FinishFlush \/ CloseLog \/ Kill
  BY <1>2, <1>3 DEF FinishFlush, CloseLog, Kill
<1>4. CASE Initialize
  <2>1. buffer_ = <<>> /\ buffer_' = <<>> /\ logged' = logged
    BY <1>4 DEF Initialize
  <2> QED
    BY <1>2, <2>1
<1>5. CASE WriteEntry
  <2>1. proc' = proc /\ buffer_' = buffer_ /\ logged' = logged
    BY <1>5 DEF WriteEntry
  <2> QED
    BY <2>1
<1>6. CASE ForceFlush \/ Shutdown \/ Tick
  <2>1. proc' \in {proc, "flushing", "draining"} /\ buffer_' = buffer_ /\ logged' = logged
    BY <1>6 DEF ForceFlush, Shutdown, Tick
  <2> QED
    BY <2>1
<1>7. CASE UNCHANGED vars
  BY <1>7 DEF vars
<1> QED
  BY <1>1, <1>3, <1>4, <1>5, <1>6, <1>7 DEF Next

(* The number of settled events, where the steps leave it. *)
LEMMA SettledType ==
  ASSUME TypeOK, TailFits
  PROVE  Pending \in Nat /\ logged - Pending \in Nat
BY DEF TypeOK, TailFits, Pending

(* Every step keeps the file ordered. *)
LEMMA OrderedStep ==
  ASSUME TypeOK, PendingIsTail, TailFits, OrderedLog, [Next]_vars
  PROVE  OrderedLog'
<1>1. TypeOK' /\ TailFits'
  BY TypeStep, PendingStep
<1>2. /\ logged - Pending \in Nat
      /\ logged' - Pending' \in Nat
      /\ log_file_ \in Seq(Tokens)
  <2>1. logged - Pending \in Nat
    BY SettledType
  <2>2. logged' - Pending' \in Nat
    <3>1. Len(buffer_') \in Nat /\ written' \in 0 .. Len(buffer_') /\ logged' \in Nat
      BY <1>1 DEF TypeOK
    <3>2. Len(buffer_') <= logged'
      BY <1>1 DEF TailFits
    <3>3. Pending' = Len(buffer_') - written'
      BY DEF Pending
    <3> HIDE DEF Pending
    <3> QED
      BY <3>1, <3>2, <3>3
  <2> QED
    BY <2>1, <2>2 DEF TypeOK
<1>3. ASSUME logged - Pending <= logged' - Pending',
             \/ log_file_' = log_file_
             \/ log_file_' = Append(log_file_, Piece)
             \/ log_file_' = Append(log_file_, Open)
             \/ log_file_' = Append(log_file_, Close)
      PROVE  OrderedLog'
  <2>1. \A t \in {Piece, Open, Close} : t \in Tokens /\ ~ IsEntry(t)
    <3>1. Piece.tag = "piece" /\ Open.tag = "open" /\ Close.tag = "close"
      BY DEF Piece, Open, Close
    <3> QED
      BY <3>1, TokensType DEF IsEntry
  <2>2. CASE log_file_' = log_file_
    BY <1>2, <1>3, <2>2, OrderedMore DEF OrderedLog
  <2>3. ASSUME NEW t \in {Piece, Open, Close}, log_file_' = Append(log_file_, t)
        PROVE  OrderedLog'
    <3>1. OrderedUpTo(Append(log_file_, t), logged' - Pending')
      BY <1>2, <1>3, <2>1, OrderedAppend DEF OrderedLog
    <3> QED
      BY <2>3, <3>1 DEF OrderedLog
  <2> QED
    BY <1>3, <2>2, <2>3
<1>4. CASE Initialize
  <2>1. logged' - Pending' = logged - Pending
    BY <1>4 DEF Initialize, Pending
  <2> QED
    BY <1>2, <1>3, <1>4, <2>1 DEF Initialize, Put
<1>5. CASE LogEvent
  <2>1. log_file_' = log_file_ /\ logged - Pending <= logged' - Pending'
    <3>1. CASE ~ initialized_
      BY <1>5, <3>1 DEF LogEvent, Pending, TypeOK
    <3>2. CASE initialized_
      <4>1. Len(buffer_') = Len(buffer_) + 1
        BY <1>5, <3>2 DEF LogEvent, TypeOK
      <4> QED
        BY <1>5, <4>1 DEF LogEvent, Pending, TypeOK
    <3> QED
      BY <3>1, <3>2
  <2> QED
    BY <1>3, <2>1
<1>6. CASE WriteEntry
  <2> DEFINE t == Entry(buffer_[written + 1])
  <2>1. logged' - Pending' = logged - Pending + 1
    BY <1>6 DEF WriteEntry, Pending, TypeOK
  <2>2. t \in Tokens /\ t.n = logged - Pending + 1
    <3>1. written + 1 \in 1 .. Len(buffer_)
      BY <1>6 DEF WriteEntry, TypeOK
    <3>2. buffer_[written + 1] = logged - Pending + 1
      BY <3>1 DEF PendingIsTail, Pending, TypeOK
    <3>3. buffer_[written + 1] \in Nat
      BY <3>1 DEF TypeOK
    <3> QED
      BY <3>2, <3>3, TokensType DEF Entry
  <2>3. \/ log_file_' = log_file_
        \/ log_file_' = Append(log_file_, Piece)
        \/ log_file_' = Append(log_file_, t)
    BY <1>6 DEF WriteEntry, Put
  <2>4. CASE log_file_' = Append(log_file_, t)
    <3>1. OrderedUpTo(Append(log_file_, t), logged' - Pending')
      BY <1>2, <2>1, <2>2, OrderedAppend DEF OrderedLog
    <3> QED
      BY <2>4, <3>1 DEF OrderedLog
  <2> HIDE DEF t
  <2> QED
    BY <1>2, <1>3, <2>1, <2>3, <2>4
<1>7. CASE FinishFlush \/ CloseLog
  <2>1. logged' = logged /\ Pending' = 0 /\ Pending = 0
    <3>1. Len(buffer_') = 0 /\ written' = 0 /\ written = Len(buffer_) /\ logged' = logged
      BY <1>7 DEF FinishFlush, CloseLog
    <3> QED
      BY <3>1 DEF Pending, TypeOK
  <2>2. \/ log_file_' = log_file_
        \/ log_file_' = Append(log_file_, Piece)
        \/ log_file_' = Append(log_file_, Close)
    BY <1>7 DEF FinishFlush, CloseLog
  <2> QED
    BY <1>2, <1>3, <2>1, <2>2
<1>8. CASE Kill
  <2>1. logged' = logged /\ Pending' = 0 /\ Pending \in Nat
    <3>1. Len(buffer_') = 0 /\ written' = 0 /\ logged' = logged
      BY <1>8 DEF Kill
    <3> QED
      BY <3>1, SettledType DEF Pending
  <2>2. logged \in Nat
    BY DEF TypeOK
  <2>3. log_file_' = log_file_ \/ log_file_' = Append(log_file_, Piece)
    BY <1>8 DEF Kill
  <2> QED
    BY <1>2, <1>3, <2>1, <2>2, <2>3
<1>9. CASE ForceFlush \/ Shutdown \/ Tick \/ UNCHANGED vars
  <2>1. logged' = logged /\ Pending' = Pending /\ log_file_' = log_file_
    BY <1>9 DEF ForceFlush, Shutdown, Tick, vars, Pending
  <2> QED
    BY <1>2, <1>3, <2>1
<1> QED
  BY <1>4, <1>5, <1>6, <1>7, <1>8, <1>9 DEF Next

(* Every step keeps the entries inside arrays. *)
LEMMA FramedStep ==
  ASSUME TypeOK, FramedEntries, LifeOpened, [Next]_vars
  PROVE  FramedEntries' /\ LifeOpened'
<1>1. log_file_ \in Seq(Tokens)
  BY DEF TypeOK
<1>2. /\ ~ IsEntry(Piece) /\ ~ IsEntry(Open) /\ ~ IsEntry(Close)
      /\ Piece \in Tokens /\ Open \in Tokens /\ Close \in Tokens
  <2>1. Piece.tag = "piece" /\ Open.tag = "open" /\ Close.tag = "close"
    BY DEF Piece, Open, Close
  <2> QED
    BY <2>1, TokensType DEF IsEntry
<1>3. ASSUME stream' # "good",
             \/ log_file_' = log_file_
             \/ log_file_' = Append(log_file_, Piece)
             \/ log_file_' = Append(log_file_, Close)
      PROVE  FramedEntries' /\ LifeOpened'
  <2>1. /\ Framed(Append(log_file_, Piece))
        /\ Framed(Append(log_file_, Close))
    BY <1>1, <1>2, FramedAppend DEF FramedEntries
  <2> QED
    BY <1>3, <2>1 DEF FramedEntries, LifeOpened
<1>4. CASE Initialize
  <2>1. CASE stream' = "good" /\ log_file_' = Append(log_file_, Open)
    <3>1. Framed(Append(log_file_, Open))
      BY <1>1, <1>2, FramedAppend DEF FramedEntries
    <3>2. FramedEntries'
      BY <2>1, <3>1 DEF FramedEntries
    <3>3. LifeOpened'
      BY <1>1, <2>1, InsideOpened DEF LifeOpened
    <3> QED
      BY <3>2, <3>3
  <2>2. CASE stream' = "bad" /\ log_file_' \in {log_file_, Append(log_file_, Piece)}
    BY <1>3, <2>2
  <2>3. CASE stream' = stream /\ log_file_' = log_file_
    BY <2>3 DEF FramedEntries, LifeOpened
  <2> QED
    BY <1>4, <2>1, <2>2, <2>3 DEF Initialize, Put
<1>5. CASE WriteEntry
  <2> DEFINE t == Entry(buffer_[written + 1])
  <2>1. t \in Tokens /\ t.tag # "close"
    <3>1. buffer_[written + 1] \in Nat
      BY <1>5 DEF WriteEntry, TypeOK
    <3> QED
      BY <3>1, TokensType DEF Entry
  <2>2. CASE stream = "good" /\ stream' = "good" /\ log_file_' = Append(log_file_, t)
    <3>1. log_file_ # <<>> /\ Inside(log_file_, Len(log_file_))
      BY <2>2 DEF LifeOpened
    <3>2. Len(log_file_) \in 1 .. Len(log_file_)
      BY <1>1, <3>1
    <3> HIDE DEF t
    <3>3. Framed(Append(log_file_, t))
      BY <1>1, <2>1, <3>1, FramedAppend DEF FramedEntries
    <3>4. Inside(Append(log_file_, t), Len(log_file_) + 1)
      BY <1>1, <2>1, <3>1, <3>2, InsideAppend
    <3>5. Len(Append(log_file_, t)) = Len(log_file_) + 1 /\ Append(log_file_, t) # <<>>
      BY <1>1, <2>1
    <3> QED
      BY <2>2, <3>3, <3>4, <3>5 DEF FramedEntries, LifeOpened
  <2>3. CASE stream' = "bad" /\ log_file_' \in {log_file_, Append(log_file_, Piece)}
    BY <1>3, <2>3
  <2> QED
    BY <1>5, <2>2, <2>3 DEF WriteEntry, Put
<1>6. CASE CloseLog \/ Kill
  BY <1>3, <1>6 DEF CloseLog, Kill
<1>7. CASE LogEvent \/ FinishFlush \/ ForceFlush \/ Shutdown \/ Tick \/ UNCHANGED vars
  <2>1. stream' = stream /\ log_file_' = log_file_
    BY <1>7 DEF LogEvent, FinishFlush, ForceFlush, Shutdown, Tick, vars
  <2> QED
    BY <2>1 DEF FramedEntries, LifeOpened
<1> QED
  BY <1>4, <1>5, <1>6, <1>7 DEF Next

(* IInv is an inductive invariant. *)
LEMMA Inductive == Spec => []IInv
<1>1. Init => IInv
  BY InvInit
<1>2. IInv /\ [Next]_vars => IInv'
  BY TypeStep, PendingStep, OrderedStep, FramedStep DEF IInv
<1> QED
  BY <1>1, <1>2, PTL DEF Spec

(* A kill between two handlers never costs more than BUFFER_SIZE - 1       *)
(* events, whatever the buffer size: the buffer is the gapless tail of the *)
(* reported events (add_to_buffer, flush_buffer).                          *)
THEOREM PendingCorrect == Spec => []PendingIsTail
BY Inductive, PTL DEF IInv

(* The file never holds an event twice or out of order, over any number of *)
(* restarts, kills in the middle of a flush and failing writes.            *)
THEOREM OrderCorrect == Spec => []OrderedLog
BY Inductive, PTL DEF IInv

(* No entry is ever written outside an array opened by initialize.         *)
THEOREM FramingCorrect == Spec => []FramedEntries
BY Inductive, PTL DEF IInv

-----------------------------------------------------------------------------
(* What appending does to the numbers of the events in a file. *)
LEMMA NumbersAppend ==
  ASSUME NEW f \in Seq(Tokens), NEW t \in Tokens
  PROVE  /\ IsEntry(t) => Numbers(Append(f, t)) = Numbers(f) \union {t.n}
         /\ ~ IsEntry(t) => Numbers(Append(f, t)) = Numbers(f)
<1> DEFINE g == Append(f, t)
<1>1. /\ DOMAIN g = 1 .. Len(f) + 1
      /\ DOMAIN f = 1 .. Len(f)
      /\ Len(f) \in Nat
      /\ \A i \in 1 .. Len(f) : g[i] = f[i]
      /\ g[Len(f) + 1] = t
  OBVIOUS
<1> HIDE DEF g
<1>2. ASSUME NEW x
      PROVE  x \in Numbers(g) <=> x \in Numbers(f) \/ (IsEntry(t) /\ x = t.n)
  <2>1. ASSUME x \in Numbers(g)
        PROVE  x \in Numbers(f) \/ (IsEntry(t) /\ x = t.n)
    <3>1. PICK i \in DOMAIN g : IsEntry(g[i]) /\ x = g[i].n
      BY <2>1 DEF Numbers
    <3>2. CASE i \in 1 .. Len(f)
      BY <1>1, <3>1, <3>2 DEF Numbers
    <3>3. CASE i = Len(f) + 1
      BY <1>1, <3>1, <3>3
    <3> QED
      BY <1>1, <3>2, <3>3
  <2>2. ASSUME x \in Numbers(f)
        PROVE  x \in Numbers(g)
    <3>1. PICK i \in DOMAIN f : IsEntry(f[i]) /\ x = f[i].n
      BY <2>2 DEF Numbers
    <3>2. i \in DOMAIN g /\ g[i] = f[i]
      BY <1>1
    <3> QED
      BY <3>1, <3>2 DEF Numbers
  <2>3. ASSUME IsEntry(t)
        PROVE  t.n \in Numbers(g)
    <3>1. Len(f) + 1 \in DOMAIN g
      BY <1>1
    <3> QED
      BY <1>1, <2>3, <3>1 DEF Numbers
  <2> QED
    BY <2>1, <2>2, <2>3
<1>3. IsEntry(t) => Numbers(g) = Numbers(f) \union {t.n}
  BY <1>2
<1>4. ~ IsEntry(t) => Numbers(g) = Numbers(f)
  BY <1>2
<1> QED
  BY <1>3, <1>4 DEF g

(* A step that leaves what the promise speaks of alone is a stutter. *)
LEMMA StutterStep ==
  ASSUME Status' = Status, stream' = stream,
         logged' = logged, Pending' = Pending, log_file_' = log_file_
  PROVE  UNCHANGED Promise!vars
<1>1. Status' = Status /\ (stream' = "good") = (stream = "good")
  OBVIOUS
<1>2. Durable' = Durable
  BY DEF Durable
<1> QED
  BY <1>1, <1>2 DEF Promise!vars

(* Writing one entry persists it, or loses it because the write fails or   *)
(* has failed before.                                                      *)
LEMMA WriteEntryImplements ==
  ASSUME IInv, WriteEntry
  PROVE  Promise!Next
<1> USE DEF IInv
<1> DEFINE t == Entry(buffer_[written + 1])
<1>1. /\ Status = "up" /\ Status' = "up"
      /\ logged' = logged /\ logged \in Nat
      /\ Pending \in Nat /\ Pending > 0 /\ Pending' = Pending - 1
      /\ log_file_ \in Seq(Tokens)
  BY DEF WriteEntry, InFlush, Pending, TypeOK, Status
<1>2. /\ logged - Pending < logged
      /\ logged' - Pending' = (logged - Pending) + 1
      /\ logged' - Pending' <= logged'
  BY <1>1
<1>3. t \in Tokens /\ IsEntry(t) /\ t.n = (logged - Pending) + 1
  <2>1. written + 1 \in 1 .. Len(buffer_)
    BY DEF WriteEntry, TypeOK
  <2>2. buffer_[written + 1] = (logged - Pending) + 1
    BY <2>1 DEF PendingIsTail, Pending, TypeOK
  <2>3. buffer_[written + 1] \in Nat
    BY <2>1 DEF TypeOK
  <2> QED
    BY <2>2, <2>3, TokensType DEF Entry, IsEntry
<1>4. Numbers(Append(log_file_, t)) = Durable \union {(logged - Pending) + 1}
  BY <1>1, <1>3, NumbersAppend DEF Durable
<1>5. Numbers(Append(log_file_, Piece)) = Durable
  <2>1. ~ IsEntry(Piece)
    BY DEF Piece, IsEntry
  <2> QED
    BY <1>1, <2>1, TokensType, NumbersAppend DEF Durable
<1>6. CASE stream = "good" /\ stream' = "good" /\ log_file_' = Append(log_file_, t)
  <2>1. Durable' = Durable \union {(logged - Pending) + 1}
    BY <1>4, <1>6 DEF Durable
  <2>2. Promise!Persist
    BY <1>1, <1>2, <1>6, <2>1 DEF Promise!Persist
  <2> QED
    BY <2>2 DEF Promise!Next
<1>7. CASE stream = "good" /\ stream' = "bad"
           /\ log_file_' \in {log_file_, Append(log_file_, Piece)}
  <2>1. Durable' = Durable
    BY <1>5, <1>7 DEF Durable
  <2>2. Promise!Fail
    BY <1>1, <1>2, <1>7, <2>1 DEF Promise!Fail
  <2> QED
    BY <2>2 DEF Promise!Next
<1>8. CASE stream = "bad" /\ stream' = "bad" /\ log_file_' = log_file_
  <2>1. Durable' = Durable
    BY <1>8 DEF Durable
  <2>2. Promise!Drop
    BY <1>1, <1>2, <1>8, <2>1 DEF Promise!Drop
  <2> QED
    BY <2>2 DEF Promise!Next
<1> QED
  BY <1>6, <1>7, <1>8 DEF WriteEntry, Put

(* Reporting an event makes it pending, or ignores it when the log file    *)
(* could not be opened.                                                    *)
LEMMA LogEventImplements ==
  ASSUME IInv, LogEvent
  PROVE  Promise!Next
<1> USE DEF IInv
<1>1. /\ Status = "up" /\ Status' = "up" /\ stream' = stream
      /\ logged' = logged + 1 /\ logged \in Nat
      /\ written = 0 /\ written' = 0
      /\ Pending = Len(buffer_) /\ Len(buffer_) \in Nat
  BY DEF LogEvent, TypeOK, InFlush, Pending, Status
<1>2. Durable' = Durable
  BY DEF LogEvent, Durable
<1>3. Status' = Status /\ (stream' = "good") = (stream = "good")
  BY <1>1
<1>4. CASE ~ initialized_
  <2>1. stream # "good" /\ buffer_ = <<>> /\ buffer_' = <<>>
    BY <1>4 DEF LogEvent, TypeOK
  <2>2. Pending = 0 /\ Pending' = 0
    BY <1>1, <2>1 DEF Pending
  <2>3. Promise!Ignore
    BY <1>1, <1>2, <1>3, <2>1, <2>2 DEF Promise!Ignore
  <2> QED
    BY <2>3 DEF Promise!Next
<1>5. CASE initialized_
  <2>1. Len(buffer_') = Len(buffer_) + 1
    BY <1>5 DEF LogEvent, TypeOK
  <2>2. Pending' = Pending + 1 /\ Pending < BUFFER_SIZE
    BY <1>1, <2>1 DEF Pending, PendingIsTail, LogEvent
  <2>3. Promise!Accept
    BY <1>1, <1>2, <1>3, <2>2 DEF Promise!Accept
  <2> QED
    BY <2>3 DEF Promise!Next
<1> QED
  BY <1>4, <1>5

(* The end of a process, orderly or not, settles every event. *)
LEMMA EndImplements ==
  ASSUME IInv, CloseLog \/ Kill
  PROVE  Promise!Next
<1> USE DEF IInv
<1>1. /\ Status = "up" /\ proc' \in Over /\ stream' = "closed"
      /\ logged' = logged /\ logged \in Nat
      /\ Pending' = 0
  BY DEF CloseLog, Kill, TypeOK, Pending, Status
<1>2. Durable' = Durable
  <2>1. log_file_' \in {log_file_, Append(log_file_, Close), Append(log_file_, Piece)}
    BY DEF CloseLog, Kill
  <2>2. Piece.tag = "piece" /\ Close.tag = "close"
    BY DEF Piece, Close
  <2>3. ~ IsEntry(Piece) /\ ~ IsEntry(Close)
    BY <2>2 DEF IsEntry
  <2> QED
    BY <2>1, <2>3, TokensType, NumbersAppend DEF Durable, TypeOK
<1>3. CASE CloseLog
  <2>1. Pending = 0
    BY <1>3 DEF CloseLog, Pending, TypeOK
  <2>2. Status' = "exited"
    BY <1>3 DEF CloseLog, Status
  <2>3. Promise!Stop
    BY <2>2, <1>1, <1>2, <2>1 DEF Promise!Stop
  <2> QED
    BY <2>3 DEF Promise!Next
<1>4. CASE Kill
  <2>1. Status' = "killed"
    BY <1>4 DEF Kill, Status
  <2>2. Promise!Kill
    BY <1>1, <1>2, <2>1 DEF Promise!Kill
  <2> QED
    BY <2>2 DEF Promise!Next
<1> QED
  BY <1>3, <1>4

(* A start of the process, with or without a usable log file. *)
LEMMA StartImplements ==
  ASSUME IInv, Initialize
  PROVE  Promise!Next
<1> USE DEF IInv
<1>1. /\ Status # "up" /\ Status' = "up"
      /\ logged' = logged /\ buffer_' = buffer_ /\ written' = written
  BY DEF Initialize, Status
<1>2. Pending' = Pending
  BY <1>1 DEF Pending
<1>3. Durable' = Durable
  <2>1. log_file_' \in {log_file_, Append(log_file_, Open), Append(log_file_, Piece)}
    BY DEF Initialize, Put
  <2>2. Piece.tag = "piece" /\ Open.tag = "open"
    BY DEF Piece, Open
  <2>3. ~ IsEntry(Piece) /\ ~ IsEntry(Open)
    BY <2>2 DEF IsEntry
  <2> QED
    BY <2>1, <2>3, TokensType, NumbersAppend DEF Durable, TypeOK
<1>4. Promise!Start
  BY <1>1, <1>2, <1>3 DEF Promise!Start
<1> QED
  BY <1>4 DEF Promise!Next

(* The logger keeps the promise of EventLog for every buffer size, flush   *)
(* interval and failure: what soc_logger.cpp does to buffer and file is,   *)
(* seen from its callers, one of the steps EventLog allows.                *)
THEOREM PromiseKept == Spec => KeepsPromise
<1>1. Init => Promise!Init
  <2> SUFFICES ASSUME Init PROVE Promise!Init
    OBVIOUS
  <2>1. Len(buffer_) = 0 /\ written = 0 /\ logged = 0
    BY DEF Init
  <2>2. logged - Pending = 0
    BY <2>1 DEF Pending
  <2>3. DOMAIN log_file_ = {}
    BY DEF Init
  <2>4. Durable = {}
    BY <2>3 DEF Durable, Numbers
  <2>5. Status = "exited" /\ (stream = "good") = FALSE
    BY DEF Init, Status
  <2> QED
    BY <2>1, <2>2, <2>4, <2>5 DEF Promise!Init
<1>2. IInv /\ [Next]_vars => [Promise!Next]_(Promise!vars)
  <2> SUFFICES ASSUME IInv, [Next]_vars
               PROVE  Promise!Next \/ UNCHANGED Promise!vars
    OBVIOUS
  <2>1. CASE FinishFlush
    <3>1. Pending = 0 /\ Pending' = 0
      BY <2>1 DEF FinishFlush, Pending, IInv, TypeOK
    <3> QED
      BY <2>1, <3>1, StutterStep DEF FinishFlush, Status
  <2>2. CASE ForceFlush \/ Shutdown \/ Tick \/ UNCHANGED vars
    <3>1. Pending' = Pending
      BY <2>2 DEF ForceFlush, Shutdown, Tick, vars, Pending
    <3> QED
      BY <2>2, <3>1, StutterStep DEF ForceFlush, Shutdown, Tick, vars, Status
  <2> QED
    BY <2>1, <2>2, WriteEntryImplements, LogEventImplements, EndImplements,
       StartImplements DEF Next
<1> QED
  BY <1>1, <1>2, Inductive, PTL DEF Spec, KeepsPromise, Promise!Spec
=============================================================================
