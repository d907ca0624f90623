------------------------------ MODULE PLCMemory ------------------------------
(***************************************************************************)
(* The PLC configuration: the message iot.honeypot.PLCMemory as the        *)
(* generated class implements it (proto/plc_memory.pb.h and .pb.cc), the   *)
(* programs that write it to configs/simulated_plcs.pb                     *)
(* (utils/generate_plc_config.cpp and utils/generate_simple.cpp), and a    *)
(* reader of that file.                                                    *)
(*                                                                         *)
(* Two messages are built with the operations of the class.  One is        *)
(* serialized, field by field and the entries of a map in any order; what  *)
(* is on the disk in the end may be cut, because SerializeToOstream        *)
(* succeeds before the stream is flushed; and the file is parsed, one      *)
(* field per step, into the other message.                                 *)
(*                                                                         *)
(* The wire is a sequence of bytes.  Numbers and lengths stay below 2^14,  *)
(* so that a varint has at most two bytes, and keys have one character.    *)
(* A loop over bytes is a function of its turns.                           *)
(***************************************************************************)
EXTENDS Integers, FiniteSets, FiniteSetsExt, Sequences, SequencesExt

CONSTANTS
    Keys,       \* keys of the maps: characters
    Numbers,    \* values of registers and timers
    Contents,   \* contents of a region
    Used,       \* the fields that are set
    Foreign,    \* fields of a newer version of the message, as bytes
    Garbage,    \* bytes that reading may leave of a field it failed in
    MaxOps      \* bound: operations on the messages before one is written

Byte == 0 .. 255

ASSUME KeysAssumption == Keys \subseteq 1 .. 127
ASSUME NumbersAssumption == Numbers \subseteq 0 .. 16383
ASSUME ContentsAssumption ==
    Contents \subseteq Seq(Byte) /\ \A bytes \in Contents : Len(bytes) < 16384
ASSUME GarbageAssumption ==
    Garbage \subseteq Seq(Byte) /\ \A bytes \in Garbage : Len(bytes) < 16384
ASSUME UsedAssumption == Used \subseteq 1 .. 7 /\ MaxOps \in Nat

-----------------------------------------------------------------------------
(* The message.  Fields go by their numbers: 1 input_region, 2             *)
(* output_region; 3 work_memory, 4 retentive_memory, 5 data_registers;     *)
(* 6 timers, 7 counters.                                                   *)
RegionFields == 1 .. 2
NumberFields == 3 .. 5
TimerFields  == 6 .. 7

TimerCounter == [preset_value : Numbers, current_value : Numbers, enabled : BOOLEAN]

ZeroTimer == [preset_value |-> 0, current_value |-> 0, enabled |-> FALSE]

(* A message just constructed, or cleared. *)
Empty == [region  |-> [f \in RegionFields |-> <<>>],
          number  |-> [f \in NumberFields |-> <<>>],
          timer   |-> [f \in TimerFields |-> <<>>],
          unknown |-> <<>>]

(* map[key] = value and Map::MergeFrom: the later value replaces. *)
Put(map, k, v) == [j \in DOMAIN map \union {k} |-> IF j = k THEN v ELSE map[j]]

MergeMap(to, from) ==
    [k \in DOMAIN to \union DOMAIN from |-> IF k \in DOMAIN from THEN from[k] ELSE to[k]]

(* mutant: an empty region of the source empties the target's *)
MutantMerge(to, from) ==
    [region  |-> from.region,
     number  |-> [f \in NumberFields |-> MergeMap(to.number[f], from.number[f])],
     timer   |-> [f \in TimerFields |-> MergeMap(to.timer[f], from.timer[f])],
     unknown |-> to.unknown \o from.unknown]

(* MergeImpl: maps are united and regions replaced, unless the new one is  *)
(* empty.                                                                  *)
Merge(to, from) ==
    [region  |-> [f \in RegionFields |->
                    IF from.region[f] = <<>> THEN to.region[f] ELSE from.region[f]],
     number  |-> [f \in NumberFields |-> MergeMap(to.number[f], from.number[f])],
     timer   |-> [f \in TimerFields |-> MergeMap(to.timer[f], from.timer[f])],
     unknown |-> to.unknown \o from.unknown]

-----------------------------------------------------------------------------
(* Writing. *)

Varint(n) == IF n < 128 THEN <<n>> ELSE <<128 + (n % 128), n \div 128>>
VarintField(f, n) == <<8 * f>> \o Varint(n)
BytesField(f, bytes) == <<8 * f + 2>> \o Varint(Len(bytes)) \o bytes

(* A field with the default value is not written, *)
UnlessZero(f, n) == IF n = 0 THEN <<>> ELSE VarintField(f, n)

TimerBytes(t) ==
    UnlessZero(1, t.preset_value) \o UnlessZero(2, t.current_value)
        \o UnlessZero(3, IF t.enabled THEN 1 ELSE 0)

(* but an entry of a map has always its key and its value. *)
NumberEntry(f, k, n) == BytesField(f, BytesField(1, <<k>>) \o VarintField(2, n))
TimerEntry(f, k, t)  == BytesField(f, BytesField(1, <<k>>) \o BytesField(2, TimerBytes(t)))

(* What _InternalSerialize writes of field f: a region as one piece, if it *)
(* is not empty, and a piece for each key of a map, in the order of its    *)
(* hash table.                                                             *)
Pieces(m, f) ==
    CASE f \in RegionFields -> IF m.region[f] = <<>> THEN {} ELSE {0}
      [] f \in NumberFields -> DOMAIN m.number[f]
      [] f \in TimerFields  -> DOMAIN m.timer[f]

Piece(m, f, k) ==
    CASE f \in RegionFields -> BytesField(f, m.region[f])
      [] f \in NumberFields -> NumberEntry(f, k, m.number[f][k])
      [] f \in TimerFields  -> TimerEntry(f, k, m.timer[f][k])

(* The size, computed without writing, which comes first in the file API   *)
(* and must agree with what is then written.                               *)
VarintSize(n) == IF n < 128 THEN 1 ELSE 2
FieldSize(n)  == IF n = 0 THEN 0 ELSE 1 + VarintSize(n)
BytesSize(n)  == VarintSize(n) + n

TimerByteSize(t) ==
    FieldSize(t.preset_value) + FieldSize(t.current_value) + (IF t.enabled THEN 2 ELSE 0)

(* mutant: the value of an entry is left out when it is zero, as in a field *)
MutantNumberEntrySize(n) == BytesSize(3 + FieldSize(n))

NumberEntrySize(n) == BytesSize(3 + 1 + VarintSize(n))
TimerEntrySize(t)  == BytesSize(3 + 1 + BytesSize(TimerByteSize(t)))

PieceSize(m, f, k) ==
    CASE f \in RegionFields -> 1 + BytesSize(Len(m.region[f]))
      [] f \in NumberFields -> 1 + NumberEntrySize(m.number[f][k])
      [] f \in TimerFields  -> 1 + TimerEntrySize(m.timer[f][k])

Total(sizes) == MapThenSumSet(LAMBDA k : sizes[k], DOMAIN sizes)

FieldByteSize(m, f) == Total([k \in Pieces(m, f) |-> PieceSize(m, f, k)])

ByteSizeLong(m) == Total([f \in 1 .. 7 |-> FieldByteSize(m, f)]) + Len(m.unknown)

-----------------------------------------------------------------------------
(* Reading.  A field as it stands at the head of some bytes; wire types    *)
(* other than varint (0) and bytes (2) do not occur in the files modelled. *)

NoField == [ok |-> FALSE, field |-> 0, type |-> 0, number |-> 0, bytes |-> <<>>, size |-> 1]

ReadVarint(s) ==
    CASE Len(s) >= 1 /\ s[1] < 128               -> [ok |-> TRUE, value |-> s[1], size |-> 1]
      [] Len(s) >= 2 /\ s[1] >= 128 /\ s[2] < 128 -> [ok |-> TRUE, value |-> s[1] - 128 + 128 * s[2], size |-> 2]
      [] OTHER                                   -> [ok |-> FALSE, value |-> 0, size |-> 1]

From(s, n) == SubSeq(s, n, Len(s))

(* mutant: bytes that end too early are taken as they are *)
MutantReadField(s) ==
    LET tag  == ReadVarint(s)
        v    == ReadVarint(From(s, 1 + tag.size))
        rest == From(s, 1 + tag.size + v.size)
        type == tag.value % 8
        end  == IF v.value < Len(rest) THEN v.value ELSE Len(rest)
    IN  IF ~ tag.ok \/ ~ v.ok \/ tag.value = 0 THEN NoField
        ELSE [ok |-> TRUE, field |-> tag.value \div 8, type |-> type, number |-> v.value,
              bytes |-> IF type = 2 THEN SubSeq(rest, 1, end) ELSE <<>>,
              size |-> tag.size + v.size + (IF type = 2 THEN end ELSE 0)]

ReadField(s) ==
    LET tag  == ReadVarint(s)
        v    == ReadVarint(From(s, 1 + tag.size))
        rest == From(s, 1 + tag.size + v.size)
        type == tag.value % 8
    IN  IF ~ tag.ok \/ ~ v.ok \/ tag.value = 0 \/ type \notin {0, 2}
           \/ (type = 2 /\ v.value > Len(rest))
        THEN NoField
        ELSE [ok |-> TRUE, field |-> tag.value \div 8, type |-> type, number |-> v.value,
              bytes |-> IF type = 2 THEN SubSeq(rest, 1, v.value) ELSE <<>>,
              size |-> tag.size + v.size + (IF type = 2 THEN v.value ELSE 0)]

ASSUME ForeignAssumption ==
    \A raw \in Foreign : /\ raw \in Seq(Byte)
                         /\ ReadField(raw).ok /\ ReadField(raw).field > 7
                         /\ ReadField(raw).size = Len(raw)

(* TimerCounter::_InternalParse: a turn of its loop takes a field off the  *)
(* front of the rest.                                                      *)
SetTimer(t, f) ==
    CASE f.field = 1 /\ f.type = 0 -> [t EXCEPT !.preset_value = f.number]
      [] f.field = 2 /\ f.type = 0 -> [t EXCEPT !.current_value = f.number]
      [] f.field = 3 /\ f.type = 0 -> [t EXCEPT !.enabled = f.number # 0]
      [] OTHER                     -> t

TimerTurn(r) ==
    LET f == ReadField(r.rest) IN
    IF r.rest = <<>> \/ ~ r.ok THEN r
    ELSE [timer |-> SetTimer(r.timer, f), rest |-> From(r.rest, f.size + 1), ok |-> f.ok]

TimerTurns(bytes) ==
    LET turn[i \in 0 .. Len(bytes)] ==
            IF i = 0 THEN [timer |-> ZeroTimer, rest |-> bytes, ok |-> TRUE]
            ELSE TimerTurn(turn[i - 1])
    IN  turn

ParseTimer(bytes) == TimerTurns(bytes)[Len(bytes)]

(* An entry of a map: the key, and the field that holds the value, which   *)
(* is a message in the maps of timers.                                     *)
SetEntry(e, f) ==
    CASE f.field = 1 /\ f.type = 2 -> [e EXCEPT !.key = f.bytes[1]]
      [] f.field = 2               -> [e EXCEPT !.value = f]
      [] OTHER                     -> e

EntryTurn(r, timed) ==
    LET f == ReadField(r.rest) IN
    IF r.rest = <<>> \/ ~ r.ok THEN r
    ELSE [entry |-> SetEntry(r.entry, f), rest |-> From(r.rest, f.size + 1),
          ok |-> f.ok /\ (timed /\ f.field = 2 => ParseTimer(f.bytes).ok)]

EntryTurns(bytes, timed) ==
    LET turn[i \in 0 .. Len(bytes)] ==
            IF i = 0 THEN [entry |-> [key |-> 0, value |-> NoField], rest |-> bytes, ok |-> TRUE]
            ELSE EntryTurn(turn[i - 1], timed)
    IN  turn

ParseEntry(f) == EntryTurns(f.bytes, f.field \in TimerFields)[Len(f.bytes)]

(* One turn of the loop of _InternalParse: a field of an unknown number or *)
(* an unusual type is kept as it is.                                       *)
Store(m, f, raw) ==
    LET e == ParseEntry(f).entry IN
    CASE f.type = 2 /\ f.field \in RegionFields -> [m EXCEPT !.region[f.field] = f.bytes]
      [] f.type = 2 /\ f.field \in NumberFields ->
             [m EXCEPT !.number[f.field] = Put(@, e.key, e.value.number)]
      [] f.type = 2 /\ f.field \in TimerFields  ->
             [m EXCEPT !.timer[f.field] = Put(@, e.key, ParseTimer(e.value.bytes).timer)]
      [] OTHER                                  -> [m EXCEPT !.unknown = @ \o raw]

(* A turn that fails has parsed into the message itself.  Which field it   *)
(* was in the tag tells, if it can be read: 8 stands for an unknown one.   *)
FailsIn(s) ==
    LET tag == ReadVarint(s)
        n   == tag.value \div 8
    IN  CASE ~ tag.ok                                      -> 1 .. 8
          [] tag.ok /\ tag.value % 8 = 2 /\ n \in 1 .. 7 -> {n}
          [] OTHER                                         -> {8}

(* It leaves there what it had got: nothing, the beginning of a region, or *)
(* bytes that stood behind the end of the file, which the library notices  *)
(* afterwards only; one entry of a map with any key and value.             *)
Spoilt(m, n) ==
    {m} \union
    CASE n \in RegionFields -> {[m EXCEPT !.region[n] = bytes] : bytes \in Garbage}
      [] n \in NumberFields -> {[m EXCEPT !.number[n] = Put(@, k, v)] : k \in Keys, v \in Numbers}
      [] n \in TimerFields  -> {[m EXCEPT !.timer[n] = Put(@, k, t)] : k \in Keys, t \in TimerCounter}
      [] OTHER              -> {[m EXCEPT !.unknown = @ \o bytes] : bytes \in Garbage}

-----------------------------------------------------------------------------
VARIABLES
    msg,     \* the messages a (which is written) and b (which is read into)
    ops,     \* operations done on them
    phase,   \* building, writing, stored, reading, read or failed
    field,   \* the field being written
    left,    \* its pieces that remain, by their keys
    wire,    \* what has been written, and what remains to be read
    size,    \* the size computed before writing
    cut,     \* not all that was written has reached the disk
    base     \* history: b before the file is read

messages == <<msg, ops, phase, field, left, wire, size, cut, base>>
file == <<phase, field, left, wire, size, cut, base>>

NewMessages ==
    /\ msg = [o \in {"a", "b"} |-> Empty]
    /\ ops = 0
    /\ phase = "building"
    /\ field = 0
    /\ left = {}
    /\ wire = <<>>
    /\ size = 0
    /\ cut = FALSE
    /\ base = Empty

(* An operation of the class on message o. *)
Update(o, m) ==
    /\ phase = "building"
    /\ ops < MaxOps
    /\ ops' = ops + 1
    /\ msg' = [msg EXCEPT ![o] = m]
    /\ UNCHANGED file

SetRegion(o, f, bytes) == Update(o, [msg[o] EXCEPT !.region[f] = bytes])
PutNumber(o, f, k, n)  == Update(o, [msg[o] EXCEPT !.number[f] = Put(@, k, n)])
PutTimer(o, f, k, t)   == Update(o, [msg[o] EXCEPT !.timer[f] = Put(@, k, t)])
ClearField(o, f) ==
    \/ f \in NumberFields /\ Update(o, [msg[o] EXCEPT !.number[f] = <<>>])
    \/ f \in TimerFields /\ Update(o, [msg[o] EXCEPT !.timer[f] = <<>>])
AddUnknown(o, raw) == Update(o, [msg[o] EXCEPT !.unknown = raw])
Clear(o)           == Update(o, Empty)
MergeFrom(o, p)    == o # p /\ Update(o, Merge(msg[o], msg[p]))
CopyFrom(o, p)     == o # p /\ Update(o, Merge(Empty, msg[p]))
Swap ==
    /\ phase = "building"
    /\ ops < MaxOps
    /\ ops' = ops + 1
    /\ msg' = [a |-> msg["b"], b |-> msg["a"]]
    /\ UNCHANGED file

(* SerializeToOstream computes the size and writes the fields in order. *)
Serialize ==
    /\ phase = "building"
    /\ phase' = "writing"
    /\ size' = ByteSizeLong(msg["a"])
    /\ UNCHANGED <<msg, ops, field, left, wire, cut, base>>

WritePiece ==
    /\ phase = "writing"
    /\ \E k \in left :
          /\ wire' = wire \o Piece(msg["a"], field, k)
          /\ left' = left \ {k}
    /\ UNCHANGED <<msg, ops, phase, field, size, cut, base>>

NextPieces ==
    /\ phase = "writing"
    /\ left = {}
    /\ field < 7
    /\ field' = field + 1
    /\ left' = Pieces(msg["a"], field + 1)
    /\ UNCHANGED <<msg, ops, phase, wire, size, cut, base>>

Written ==
    /\ phase = "writing"
    /\ left = {}
    /\ field = 7
    /\ wire' = wire \o msg["a"].unknown
    /\ phase' = "stored"
    /\ UNCHANGED <<msg, ops, field, left, size, cut, base>>

(* generate_simple writes its table of bytes to the same file. *)
test_data == <<18, 52, 1, 1, 0, 25, 0, 100, 1, 244, 0, 220, 0, 50, 1, 0, 1, 1, 0, 0, 0, 0>>

generate_simple ==
    /\ phase = "building"
    /\ msg["a"] = Empty
    /\ wire' = test_data
    /\ size' = Len(test_data)
    /\ phase' = "stored"
    /\ UNCHANGED <<msg, ops, field, left, cut, base>>

(* The end of the file is lost: the disk is full when the stream is        *)
(* flushed, which nothing checks, or the program is stopped before.        *)
Cut ==
    /\ phase = "stored"
    /\ ~ cut
    /\ \E n \in 0 .. Len(wire) - 1 : wire' = SubSeq(wire, 1, n)
    /\ cut' = TRUE
    /\ UNCHANGED <<msg, ops, phase, field, left, size, base>>

(* Parsing clears b first, merging does not. *)
Read ==
    /\ phase = "stored"
    /\ phase' = "reading"
    /\ \E merging \in BOOLEAN : base' = IF merging THEN msg["b"] ELSE Empty
    /\ msg' = [msg EXCEPT !["b"] = base']
    /\ UNCHANGED <<ops, field, left, wire, size, cut>>

ParseField ==
    LET f == ReadField(wire) IN
    /\ phase = "reading"
    /\ wire # <<>>
    /\ f.ok
    /\ (f.type = 2 /\ f.field \in NumberFields \union TimerFields) => ParseEntry(f).ok
    /\ msg' = [msg EXCEPT !["b"] = Store(@, f, SubSeq(wire, 1, f.size))]
    /\ wire' = From(wire, f.size + 1)
    /\ UNCHANGED <<ops, phase, field, left, size, cut, base>>

ParseFails ==
    LET f == ReadField(wire) IN
    /\ phase = "reading"
    /\ wire # <<>>
    /\ ~ f.ok \/ (f.type = 2 /\ f.field \in NumberFields \union TimerFields /\ ~ ParseEntry(f).ok)
    /\ phase' = "failed"
    /\ \E n \in FailsIn(wire) : \E m \in Spoilt(msg["b"], n) : msg' = [msg EXCEPT !["b"] = m]
    /\ UNCHANGED <<ops, field, left, wire, size, cut, base>>

ParseEnds ==
    /\ phase = "reading"
    /\ wire = <<>>
    /\ phase' = "read"
    /\ UNCHANGED <<msg, ops, field, left, wire, size, cut, base>>

Operation(o) ==
    \/ \E f \in Used \intersect RegionFields, bytes \in Contents : SetRegion(o, f, bytes)
    \/ \E f \in Used \intersect NumberFields, k \in Keys, n \in Numbers : PutNumber(o, f, k, n)
    \/ \E f \in Used \intersect TimerFields, k \in Keys, t \in TimerCounter : PutTimer(o, f, k, t)
    \/ \E f \in Used : ClearField(o, f)
    \/ \E raw \in Foreign : AddUnknown(o, raw)
    \/ Clear(o)
    \/ \E p \in {"a", "b"} : MergeFrom(o, p) \/ CopyFrom(o, p)

MessageStep ==
    \/ \E o \in {"a", "b"} : Operation(o)
    \/ Swap
    \/ Serialize \/ NextPieces \/ WritePiece \/ Written
    \/ generate_simple
    \/ Cut
    \/ Read \/ ParseField \/ ParseFails \/ ParseEnds

MessageSpec == NewMessages /\ [][MessageStep]_messages

-----------------------------------------------------------------------------
Maps(D, R) == UNION {[S -> R] : S \in SUBSET D}

Regions == Contents \union Garbage \union {<<>>}

Messages ==
    [region  : [RegionFields -> Regions],
     number  : [NumberFields -> Maps(Keys, Numbers)],
     timer   : [TimerFields -> Maps(Keys, TimerCounter)],
     unknown : Seq(Byte)]

MessageTypes ==
    /\ msg \in [{"a", "b"} -> Messages]
    /\ ops \in 0 .. MaxOps
    /\ phase \in {"building", "writing", "stored", "reading", "read", "failed"}
    /\ field \in 0 .. 7
    /\ left \subseteq Keys \union {0}
    /\ wire \in Seq(Byte)
    /\ size \in Nat
    /\ cut \in BOOLEAN
    /\ base \in Messages

Simple == phase \notin {"building", "writing"} /\ field = 0

(* ByteSizeLong computes what _InternalSerialize writes, whatever the      *)
(* message and the order of its maps (the library aborts the program when  *)
(* they differ, and nested lengths are written from it).                   *)
SizeExact == phase = "stored" /\ ~ cut => Len(wire) = size

(* A file that is whole is read, and reading it is merging the message it  *)
(* was written from, in whatever order the entries were written: nothing   *)
(* is lost, invented or moved to another field, zeros in maps, unknown     *)
(* fields and later values of a key included; types as well.               *)
RoundTrip ==
    /\ MessageTypes
    /\ ~ cut /\ ~ Simple => phase # "failed"
    /\ phase = "read" /\ ~ cut => msg["b"] = Merge(base, msg["a"])

(* What stands in field n of message x is from message y. *)
FieldFrom(x, y, n) ==
    /\ n \in RegionFields => x.region[n] \in {<<>>, y.region[n]}
    /\ n \in NumberFields => \A k \in DOMAIN x.number[n] :
                                k \in DOMAIN y.number[n] /\ x.number[n][k] = y.number[n][k]
    /\ n \in TimerFields => \A k \in DOMAIN x.timer[n] :
                                k \in DOMAIN y.timer[n] /\ x.timer[n][k] = y.timer[n][k]
    /\ n = 8 => IsPrefix(x.unknown, y.unknown)

(* A file that is cut, or that generate_simple wrote, is not misread as    *)
(* long as reading goes well: what has been parsed so far was in the       *)
(* message written.  Where it fails, this is still so of all fields but    *)
(* the one it failed in.                                                   *)
NeverMisread ==
    base = Empty =>
        /\ phase \in {"reading", "read"} => \A n \in 1 .. 8 : FieldFrom(msg["b"], msg["a"], n)
        /\ phase = "failed" =>
              \E bad \in FailsIn(wire) :
                  \A n \in 1 .. 8 \ {bad} : FieldFrom(msg["b"], msg["a"], n)
=============================================================================
