----------------------------- MODULE Sanitizers -----------------------------
(***************************************************************************)
(* The two functions of server/src/security.cpp that make what a client    *)
(* sent fit to be used: sanitize_for_log, applied to everything that goes  *)
(* into the JSON log, and sanitize_path, applied to the path of every HTTP *)
(* request.  Characters are abstracted to the classes the code tells       *)
(* apart.  The behaviours enumerate the inputs, one character at a time.   *)
(*                                                                         *)
(* A loop over a string is a function on 0 .. Len(s): what it has computed *)
(* after each of its characters.                                           *)
(***************************************************************************)
EXTENDS Integers, Sequences

CONSTANTS
    MAX_LOG_STRING_LENGTH,    \* 1024 in the code
    MAX_PATH_LENGTH,          \* 256 in the code
    MaxText, MaxPath          \* bounds: lengths of the inputs

ASSUME LengthsAssumption == MAX_LOG_STRING_LENGTH \in Nat /\ MAX_LOG_STRING_LENGTH > 3
                           /\ MAX_PATH_LENGTH \in Nat \ {0}
ASSUME BoundsAssumption == MaxText \in Nat /\ MaxPath \in Nat

-----------------------------------------------------------------------------
(* sanitize_for_log.  Characters: a printable one, the two that JSON       *)
(* escapes, a line end or tab, and any other; the output also has the dots *)
(* of a cut and the letters that follow a backslash.                       *)
TextChars == {"printable", "quote", "backslash", "newline", "control"}

(* mutant: only quotes are escaped *)
MutantEscaped(c) ==
    CASE c = "quote"   -> <<"backslash", c>>
      [] c = "newline" -> <<"backslash", "n">>
      [] c = "control" -> <<"backslash", "x", "hex", "hex">>
      [] OTHER         -> <<c>>

(* mutant: backslashes are dropped *)
LossyEscaped(c) ==
    CASE c = "quote"     -> <<"backslash", c>>
      [] c = "backslash" -> <<>>
      [] c = "newline"   -> <<"backslash", "n">>
      [] c = "control"   -> <<"backslash", "x", "hex", "hex">>
      [] OTHER           -> <<c>>

Escaped(c) ==
    CASE c \in {"quote", "backslash"} -> <<"backslash", c>>
      [] c = "newline"                -> <<"backslash", "n">>
      [] c = "control"                -> <<"backslash", "x", "hex", "hex">>
      [] OTHER                        -> <<c>>

Cut(s) ==
    IF Len(s) > MAX_LOG_STRING_LENGTH
    THEN SubSeq(s, 1, MAX_LOG_STRING_LENGTH - 3) \o <<"dot", "dot", "dot">>
    ELSE s

(* What the loop has appended after each character. *)
Escapes(s) ==
    LET out[i \in 0 .. Len(s)] == IF i = 0 THEN <<>> ELSE out[i - 1] \o Escaped(s[i])
    IN  out

sanitize_for_log(s) == Cut(Escapes(s)[Len(s)])

-----------------------------------------------------------------------------
(* sanitize_path.  Characters: slash, dot, a hexadecimal digit, any other  *)
(* letter, digit or sign that is allowed, percent, and the rest.           *)
PathChars == {"slash", "dot", "hex", "word", "percent", "other"}

Underscore == "word"

(* The scan: what has been kept, the three locals, and how many characters *)
(* the last %XX has used up.                                               *)
Start == [kept |-> <<>>, last_was_slash |-> FALSE, found_dot_dot |-> FALSE,
          dot_count |-> 0, used |-> 0]

(* mutant: a second slash is kept *)
MutantSlash(scan) ==
    [scan EXCEPT !.kept = Append(@, "slash"), !.last_was_slash = TRUE,
                 !.dot_count = 0, !.found_dot_dot = FALSE]

Slash(scan) ==
    IF scan.last_was_slash THEN scan
    ELSE [scan EXCEPT !.kept = Append(@, "slash"), !.last_was_slash = TRUE,
                      !.dot_count = 0, !.found_dot_dot = FALSE]

Dot(scan) ==
    [scan EXCEPT !.kept = Append(@, "dot"), !.last_was_slash = FALSE, !.dot_count = @ + 1,
                 !.found_dot_dot = @ \/ scan.dot_count + 1 >= 2]

Allowed(scan, chars) ==
    [scan EXCEPT !.kept = @ \o chars, !.last_was_slash = FALSE,
                 !.dot_count = 0, !.found_dot_dot = FALSE]

(* %XX is kept, a percent sign alone is dropped. *)
Percent(scan, path, i) ==
    IF i + 2 <= Len(path) /\ path[i + 1] = "hex" /\ path[i + 2] = "hex"
    THEN [Allowed(scan, SubSeq(path, i, i + 2)) EXCEPT !.used = 2]
    ELSE scan

(* mutant: what has been replaced counts as a slash still *)
MutantReplaced(scan) == [scan EXCEPT !.kept = Append(@, Underscore), !.dot_count = 0]

Replaced(scan) ==
    [scan EXCEPT !.kept = Append(@, Underscore), !.last_was_slash = FALSE, !.dot_count = 0]

(* One turn of the loop, at the i-th character. *)
Step(scan, s, i) ==
    IF Len(scan.kept) >= MAX_PATH_LENGTH THEN scan
    ELSE IF scan.used > 0 THEN [scan EXCEPT !.used = @ - 1]
    ELSE CASE s[i] = "slash"           -> Slash(scan)
           [] s[i] = "dot"             -> Dot(scan)
           [] s[i] \in {"hex", "word"} -> Allowed(scan, <<s[i]>>)
           [] s[i] = "percent"         -> Percent(scan, s, i)
           [] OTHER                    -> Replaced(scan)

Scans(s) ==
    LET scan[i \in 0 .. Len(s)] == IF i = 0 THEN Start ELSE Step(scan[i - 1], s, i)
    IN  scan

(* mutant: only the first pair is replaced *)
MutantWithoutPairs(s) ==
    IF \E i \in 1 .. Len(s) - 1 : s[i] = "dot" /\ s[i + 1] = "dot"
    THEN LET i == CHOOSE i \in 1 .. Len(s) - 1 :
                    /\ s[i] = "dot" /\ s[i + 1] = "dot"
                    /\ \A j \in 1 .. i - 1 : s[j] # "dot" \/ s[j + 1] # "dot"
         IN  [s EXCEPT ![i] = Underscore, ![i + 1] = Underscore]
    ELSE s

(* Where a pair of dots begins that is found from the left: *)
Pairs(s) ==
    LET begins[i \in 0 .. Len(s)] ==
            /\ i \in 1 .. Len(s) - 1 /\ s[i] = "dot" /\ s[i + 1] = "dot"
            /\ ~ begins[i - 1]
    IN  begins

(* each of them becomes two underscores. *)
WithoutPairs(s) ==
    [i \in 1 .. Len(s) |-> IF Pairs(s)[i] \/ Pairs(s)[i - 1] THEN Underscore ELSE s[i]]

Rooted(s) == IF s = <<>> \/ s[1] # "slash" THEN <<"slash">> \o s ELSE s

Limited(s) == IF Len(s) > MAX_PATH_LENGTH THEN SubSeq(s, 1, MAX_PATH_LENGTH) ELSE s

(* All slashes at the end but the first character. *)
Trimmed(s) ==
    SubSeq(s, 1, CHOOSE n \in 1 .. Len(s) :
                    /\ n = 1 \/ s[n] # "slash"
                    /\ \A i \in n + 1 .. Len(s) : s[i] = "slash")

sanitize_path(s) ==
    LET scan == Scans(s)[Len(s)]
        kept == IF scan.found_dot_dot THEN WithoutPairs(scan.kept) ELSE scan.kept
    IN  IF s = <<>> THEN <<"slash">> ELSE Trimmed(Limited(Rooted(kept)))

-----------------------------------------------------------------------------
VARIABLES text, path    \* what a client sends
inputs == <<text, path>>

NoInput == text = <<>> /\ path = <<>>

ExtendText ==
    /\ path = <<>> /\ Len(text) < MaxText
    /\ \E c \in TextChars : text' = Append(text, c)
    /\ UNCHANGED path

ExtendPath ==
    /\ text = <<>> /\ Len(path) < MaxPath
    /\ \E c \in PathChars : path' = Append(path, c)
    /\ UNCHANGED text

MoreInput == ExtendText \/ ExtendPath

InputSpec == NoInput /\ [][MoreInput]_inputs

InputType == text \in Seq(TextChars) /\ path \in Seq(PathChars)

-----------------------------------------------------------------------------
(* A reader of JSON inside a string: in the string, after a backslash, or  *)
(* past its closing quote.                                                 *)
Reading(at, c) ==
    CASE at = "escape"                     -> "string"
      [] at = "string" /\ c = "backslash" -> "escape"
      [] at = "string" /\ c = "quote"     -> "closed"
      [] OTHER                            -> at

Readers(s) ==
    LET at[i \in 0 .. Len(s)] == IF i = 0 THEN "string" ELSE Reading(at[i - 1], s[i])
    IN  at

InString(s) == Readers(s)[Len(s)] = "string"

(* What the logger puts between two quotes neither ends the string before  *)
(* its closing quote nor swallows that quote, whatever the client sent and *)
(* wherever the cut falls - also when it is sanitized twice, as the topic  *)
(* of MQTT is.  It has no line end or other control character, and is      *)
(* never longer than the limit.                                            *)
Contained ==
    LET once  == sanitize_for_log(text)
        again == sanitize_for_log(once)
    IN  /\ \A i \in 1 .. Len(once) : once[i] \notin {"newline", "control"}
        /\ InString(once) /\ Len(once) <= MAX_LOG_STRING_LENGTH
        /\ InString(again) /\ Len(again) <= MAX_LOG_STRING_LENGTH

(* Undoing the escapes: what has been read, whether a backslash came last, *)
(* and how many digits are still to come.                                  *)
HasRead(out, hex) == [out |-> out, escape |-> FALSE, hex |-> hex]

Escaping(out) == [out |-> out, escape |-> TRUE, hex |-> 0]

Undo(r, c) ==
    IF r.hex > 0 THEN HasRead(r.out, r.hex - 1)
    ELSE CASE r.escape /\ c = "n"           -> HasRead(Append(r.out, "newline"), 0)
           [] r.escape /\ c = "x"           -> HasRead(Append(r.out, "control"), 2)
           [] ~ r.escape /\ c = "backslash" -> Escaping(r.out)
           [] OTHER                         -> HasRead(Append(r.out, c), 0)

Undos(s) ==
    LET r[i \in 0 .. Len(s)] == IF i = 0 THEN HasRead(<<>>, 0) ELSE Undo(r[i - 1], s[i])
    IN  r

Undone(s) == Undos(s)[Len(s)].out

(* Nothing is lost or forged: undoing the escapes gives back the text, or  *)
(* the beginning of it when it has been cut.                               *)
Faithful ==
    LET s     == sanitize_for_log(text)
        whole == Len(Escapes(text)[Len(text)]) <= MAX_LOG_STRING_LENGTH
    IN  IF whole THEN Undone(s) = text
        ELSE \E n \in 0 .. Len(text) :
                 Undone(SubSeq(s, 1, Len(s) - 3)) = SubSeq(text, 1, n)

(* A sanitized path is one that the dashboard can compare: it begins with  *)
(* a slash, has no two in a row and none at the end, has no character that *)
(* is not allowed, and is not too long.                                    *)
PathShape ==
    LET s == sanitize_path(path) IN
    /\ \A i \in 1 .. Len(s) : s[i] # "other"
    /\ s[1] = "slash"
    /\ \A i \in 1 .. Len(s) - 1 : s[i] # "slash" \/ s[i + 1] # "slash"
    /\ Len(s) = 1 \/ s[Len(s)] # "slash"
    /\ Len(s) <= MAX_PATH_LENGTH

(* What a path means to the dashboard: its characters without the stray    *)
(* percent signs and with the others replaced,                             *)
Meaning(s, i) ==
    LET escape == i + 2 <= Len(s) /\ s[i + 1] = "hex" /\ s[i + 2] = "hex"
    IN  CASE s[i] = "other"                -> <<Underscore>>
          [] s[i] = "percent" /\ ~ escape -> <<>>
          [] OTHER                         -> <<s[i]>>

Meanings(s) ==
    LET out[i \in 0 .. Len(s)] == IF i = 0 THEN <<>> ELSE out[i - 1] \o Meaning(s, i)
    IN  out

(* and of these, under the root, no slash but the one before each segment. *)
Segment(s, i) ==
    IF s[i] = "slash" /\ (i = Len(s) \/ s[i + 1] = "slash") THEN <<>> ELSE <<s[i]>>

Segments(s) ==
    LET out[i \in 0 .. Len(s)] == IF i = 0 THEN <<>> ELSE out[i - 1] \o Segment(s, i)
    IN  out

Canonical(s) ==
    LET rooted == <<"slash">> \o Meanings(s)[Len(s)]
        named  == Segments(rooted)[Len(rooted)]
    IN  IF named = <<>> THEN <<"slash">> ELSE named

(* Paths that mean the same come out the same: as long as a path has no    *)
(* dots and fits, the result is the canonical form of what it means.       *)
PathIsCanonical ==
    (Len(path) < MAX_PATH_LENGTH /\ \A i \in 1 .. Len(path) : path[i] # "dot") =>
        sanitize_path(path) = Canonical(path)

(* A pair of dots that nothing follows but what leaves it in the scan's    *)
(* memory: dots, stray percent signs and characters that are replaced.  A  *)
(* slash, an allowed character or an escape (which ends in two digits)     *)
(* makes the scan forget.  A stray percent sign between two dots is        *)
(* dropped, so they are a pair.                                            *)
RememberedPair(s) ==
    \E i, j \in 1 .. Len(s) :
        /\ i < j /\ s[i] = "dot" /\ s[j] = "dot"
        /\ \A n \in i + 1 .. j - 1 : s[n] = "percent"
        /\ \A n \in j + 1 .. Len(s) : s[n] \in {"dot", "percent", "other"}

HasPair(s) == \E i \in 1 .. Len(s) - 1 : s[i] = "dot" /\ s[i + 1] = "dot"

(* When the last dots of a path are remembered, no two dots in a row are   *)
(* left anywhere in it, and not only where they were remembered.  After a  *)
(* slash, a letter or a digit they are forgotten, and "prevention of       *)
(* directory traversal" (README.md:113) is more than the code does.        *)
NoticedDotsGo ==
    (Len(path) < MAX_PATH_LENGTH /\ RememberedPair(path)) => ~ HasPair(sanitize_path(path))
=============================================================================
