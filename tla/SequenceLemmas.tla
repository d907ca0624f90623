--------------------------- MODULE SequenceLemmas ---------------------------
(***************************************************************************)
(* What the proofs about the servers need to know of queues: where the     *)
(* elements of a sequence are, how many of them belong to a set, whether   *)
(* one stands in two places, and what Append and Tail change of that; and  *)
(* of functions on 0 .. n: that one can be defined by recursion, and what  *)
(* holds of all its values by induction.                                   *)
(***************************************************************************)
EXTENDS Integers, Sequences, FiniteSets, FiniteSetTheorems, SequenceTheorems,
        WellFoundedInduction, TLAPS

(* The places of s at which an element of T stands, *)
Places(s, T) == {i \in 1 .. Len(s) : s[i] \in T}

(* the elements themselves, *)
Members(s) == {s[i] : i \in 1 .. Len(s)}

(* and that none of them stands in two places. *)
Distinct(s) == \A i, j \in 1 .. Len(s) : s[i] = s[j] => i = j

-----------------------------------------------------------------------------
(* Appending adds a last place, *)
LEMMA AppendNew ==
  ASSUME NEW S, NEW s \in Seq(S), NEW x \in S, NEW t, t = Append(s, x)
  PROVE  /\ Len(s) + 1 \in 1 .. Len(t) /\ t[Len(s) + 1] = x
         /\ \A i \in 1 .. Len(t) : i \in 1 .. Len(s) \/ i = Len(s) + 1
<1>1. Len(s) \in Nat /\ Len(Append(s, x)) = Len(s) + 1 /\ Append(s, x)[Len(s) + 1] = x
  BY AppendProperties, LenProperties
<1> QED
  BY <1>1

(* the elements that were there keep their places, *)
LEMMA AppendOld ==
  ASSUME NEW S, NEW s \in Seq(S), NEW x \in S, NEW t, t = Append(s, x), NEW i \in 1 .. Len(s)
  PROVE  i \in 1 .. Len(t) /\ t[i] = s[i] /\ i # Len(s) + 1
<1>1. Len(s) \in Nat /\ Len(Append(s, x)) = Len(s) + 1 /\ Append(s, x)[i] = s[i]
  BY AppendProperties, LenProperties
<1> QED
  BY <1>1

(* the first element is the head, *)
LEMMA TailHead ==
  ASSUME NEW S, NEW s \in Seq(S), s # <<>>
  PROVE  1 \in 1 .. Len(s) /\ Head(s) = s[1] /\ s[1] \in S
<1>1. Len(s) \in Nat /\ Len(s) > 0
  BY EmptySeq, LenProperties
<1> QED
  BY <1>1, HeadTailProperties

(* each of the others moves up by one, *)
LEMMA TailNew ==
  ASSUME NEW S, NEW s \in Seq(S), s # <<>>, NEW t, t = Tail(s), NEW i \in 1 .. Len(t)
  PROVE  i \in Nat /\ i + 1 \in 1 .. Len(s) /\ i + 1 # 1 /\ t[i] = s[i + 1]
<1>1. Len(s) \in Nat /\ Len(Tail(s)) = Len(s) - 1
  BY HeadTailProperties, LenProperties
<1>2. Tail(s)[i] = s[i + 1]
  BY HeadTailProperties
<1> QED
  BY <1>1, <1>2

(* and none but the first is lost. *)
LEMMA TailOld ==
  ASSUME NEW S, NEW s \in Seq(S), s # <<>>, NEW t, t = Tail(s), NEW i \in 1 .. Len(s), i # 1
  PROVE  i - 1 \in 1 .. Len(t) /\ t[i - 1] = s[i]
<1>1. Len(s) \in Nat /\ Len(Tail(s)) = Len(s) - 1
  BY HeadTailProperties, LenProperties
<1>2. i - 1 \in 1 .. Len(Tail(s)) /\ (i - 1) + 1 = i
  BY <1>1
<1>3. Tail(s)[i - 1] = s[i]
  BY <1>2, HeadTailProperties
<1> QED
  BY <1>2, <1>3

(* Places with the same successor are the same. *)
LEMMA SameSuccessor ==
  ASSUME NEW i \in Nat, NEW j \in Nat, i + 1 = j + 1
  PROVE  i = j
OBVIOUS

(* An element of an appended sequence is old or the new one. *)
LEMMA AppendElements ==
  ASSUME NEW S, NEW s \in Seq(S), NEW x \in S, NEW t, t = Append(s, x),
         NEW i \in 1 .. Len(t)
  PROVE  (i \in 1 .. Len(s) /\ t[i] = s[i]) \/ t[i] = x
<1>1. Len(s) \in Nat /\ i \in 1 .. Len(s) + 1
  BY AppendProperties, LenProperties
<1> QED
  BY <1>1, AppendProperties

(* An element of a concatenation is one of either sequence. *)
LEMMA ConcatElements ==
  ASSUME NEW S, NEW s \in Seq(S), NEW u \in Seq(S), NEW t, t = s \o u,
         NEW i \in 1 .. Len(t)
  PROVE  \/ i \in 1 .. Len(s) /\ t[i] = s[i]
         \/ i - Len(s) \in 1 .. Len(u) /\ t[i] = u[i - Len(s)]
<1>1. Len(s) \in Nat /\ Len(u) \in Nat /\ i \in 1 .. Len(s) + Len(u)
  BY ConcatProperties, LenProperties
<1>2. CASE i <= Len(s)
  BY <1>1, <1>2, ConcatProperties
<1>3. CASE i > Len(s)
  BY <1>1, <1>3, ConcatProperties
<1> QED
  BY <1>1, <1>2, <1>3

(* A function on 1 .. n is a sequence of length n. *)
LEMMA FunctionIsSeq ==
  ASSUME NEW S, NEW n \in Nat, NEW f \in [1 .. n -> S]
  PROVE  f \in Seq(S) /\ Len(f) = n
<1>1. f \in Seq(S)
  BY SeqDef
<1>2. DOMAIN f = 1 .. Len(f) /\ Len(f) \in Nat
  BY <1>1, LenProperties
<1>3. 1 .. Len(f) = 1 .. n
  BY <1>2
<1> QED
  BY <1>1, <1>2, <1>3

-----------------------------------------------------------------------------
(* Every number is less than the next one, in an order with no endless     *)
(* descent,                                                                *)
LEMMA LessIsWellFounded ==
  \E R : IsWellFoundedOn(R, Nat) /\ \A n \in Nat : <<n, n + 1>> \in R
<1> DEFINE R == OpToRel(<, Nat)
<1>1. IsWellFoundedOn(R, Nat)
  BY NatLessThanWellFounded
<1>2. \A n \in Nat : <<n, n + 1>> \in R
  BY DEF OpToRel
<1> HIDE DEF R
<1> QED
  BY <1>1, <1>2

(* so a set that has 0 and with each number the next one has them all:     *)
(* induction, with a set where the library's theorem has an operator.      *)
LEMMA Induction ==
  ASSUME NEW S, 0 \in S, \A n \in Nat : n \in S => n + 1 \in S
  PROVE  Nat \subseteq S
<1> DEFINE T == {n \in Nat : n \notin S}
<1> SUFFICES ASSUME T # {}
             PROVE  FALSE
  OBVIOUS
<1>1. PICK R : IsWellFoundedOn(R, Nat) /\ \A n \in Nat : <<n, n + 1>> \in R
  BY LessIsWellFounded
<1>2. T \subseteq Nat
  OBVIOUS
<1>3. PICK x \in T : \A y \in T : ~ (<<y, x>> \in R)
  BY <1>1, <1>2, WFMin, Zenon
<1>4. x \in Nat \ {0}
  OBVIOUS
<1>5. x - 1 \in Nat /\ (x - 1) + 1 = x
  BY <1>4
<1>6. <<x - 1, x>> \in R
  BY <1>1, <1>5
<1> QED
  BY <1>3, <1>5, <1>6

(* The same for the numbers up to n. *)
LEMMA Upwards ==
  ASSUME NEW n \in Nat, NEW S, 0 \in S, \A i \in 1 .. n : i - 1 \in S => i \in S
  PROVE  0 .. n \subseteq S
<1> DEFINE T == {k \in Nat : k <= n => k \in S}
<1>1. 0 \in T
  OBVIOUS
<1>2. \A k \in Nat : k \in T => k + 1 \in T
  <2> SUFFICES ASSUME NEW k \in Nat, k \in T, k + 1 <= n
               PROVE  k + 1 \in S
    OBVIOUS
  <2>1. k + 1 \in 1 .. n /\ (k + 1) - 1 = k /\ k \in S
    OBVIOUS
  <2> QED
    BY <2>1
<1>3. Nat \subseteq T
  <2> HIDE DEF T
  <2> QED
    BY <1>1, <1>2, Induction
<1> QED
  BY <1>3

(* What holds at 0 and from each value to the next holds of all values of  *)
(* a function on 0 .. n.                                                   *)
LEMMA Values ==
  ASSUME NEW n \in Nat, NEW S, NEW f, f = [i \in 0 .. n |-> f[i]],
         f[0] \in S, \A i \in 1 .. n : f[i - 1] \in S => f[i] \in S
  PROVE  f \in [0 .. n -> S]
<1> DEFINE T == {i \in 0 .. n : f[i] \in S}
<1>1. 0 \in T
  OBVIOUS
<1>2. \A i \in 1 .. n : i - 1 \in T => i \in T
  OBVIOUS
<1> HIDE DEF T
<1>3. 0 .. n \subseteq T
  BY <1>1, <1>2, Upwards
<1>4. \A i \in 0 .. n : f[i] \in S
  BY <1>3 DEF T
<1> QED
  BY <1>4

(* A function on 0 .. n can be defined by what it is at 0 and how each     *)
(* value follows from the one before.                                      *)
LEMMA Recursion ==
  ASSUME NEW S, NEW base \in S, NEW n \in Nat, NEW step \in [1 .. n -> [S -> S]]
  PROVE  \E f \in [0 .. n -> S] : f[0] = base /\ \A i \in 1 .. n : f[i] = step[i][f[i - 1]]
<1> DEFINE Upto(g, k) == /\ g \in [0 .. k -> S] /\ g[0] = base
                         /\ \A i \in 1 .. k : g[i] = step[i][g[i - 1]]
           Has == {k \in Nat : \E g : Upto(g, k)}
<1>1. 0 \in Has
  <2>1. Upto([i \in 0 .. 0 |-> base], 0)
    OBVIOUS
  <2> QED
    BY <2>1
<1>2. ASSUME NEW k \in 1 .. n, k - 1 \in Has
      PROVE  k \in Has
  <2>1. PICK h : Upto(h, k - 1)
    BY <1>2
  <2> DEFINE g == [i \in 0 .. k |-> IF i = k THEN step[k][h[k - 1]] ELSE h[i]]
  <2>2. h[k - 1] \in S /\ step[k][h[k - 1]] \in S
    BY <2>1
  <2>3. g \in [0 .. k -> S] /\ g[0] = base
    BY <2>1, <2>2
  <2>4. ASSUME NEW i \in 1 .. k
        PROVE  g[i] = step[i][g[i - 1]]
    <3>1. CASE i = k
      <4>1. g[i] = step[k][h[k - 1]] /\ g[i - 1] = h[k - 1]
        BY <3>1
      <4> QED
        BY <3>1, <4>1
    <3>2. CASE i \in 1 .. k - 1
      <4>1. g[i] = h[i] /\ g[i - 1] = h[i - 1]
        BY <3>2
      <4> QED
        BY <2>1, <3>2, <4>1
    <3> QED
      BY <3>1, <3>2
  <2>5. k \in Nat
    OBVIOUS
  <2> HIDE DEF g
  <2> QED
    BY <2>3, <2>4, <2>5
<1>3. 0 .. n \subseteq Has
  <2> HIDE DEF Has
  <2> QED
    BY <1>1, <1>2, Upwards
<1>4. n \in Has
  BY <1>3
<1> HIDE DEF Upto
<1>5. PICK g : Upto(g, n)
  BY <1>4
<1> QED
  BY <1>5 DEF Upto

-----------------------------------------------------------------------------
(* The empty sequence has no members, *)
LEMMA MembersEmpty == Members(<<>>) = {}
<1>1. Len(<<>>) = 0
  BY EmptySeq
<1> QED
  BY <1>1 DEF Members

(* the members of a sequence over S belong to S, *)
LEMMA MembersType ==
  ASSUME NEW S, NEW s \in Seq(S)
  PROVE  Members(s) \subseteq S
BY ElementOfSeq DEF Members

(* Append adds the new element to them, *)
LEMMA MembersAppend ==
  ASSUME NEW S, NEW s \in Seq(S), NEW x \in S
  PROVE  Members(Append(s, x)) = Members(s) \union {x}
<1> DEFINE t == Append(s, x)
<1>1. Len(s) + 1 \in 1 .. Len(t) /\ t[Len(s) + 1] = x
  BY AppendNew
<1>2. \A i \in 1 .. Len(t) : i \in 1 .. Len(s) \/ i = Len(s) + 1
  BY AppendNew
<1>3. \A i \in 1 .. Len(s) : i \in 1 .. Len(t) /\ t[i] = s[i]
  BY AppendOld
<1> HIDE DEF t
<1>4. Members(t) \subseteq Members(s) \union {x}
  BY <1>1, <1>2, <1>3 DEF Members
<1>5. Members(s) \union {x} \subseteq Members(t)
  BY <1>1, <1>3 DEF Members
<1> QED
  BY <1>4, <1>5 DEF t

(* and Tail takes away at most the head. *)
LEMMA MembersTail ==
  ASSUME NEW S, NEW s \in Seq(S), s # <<>>
  PROVE  /\ Head(s) \in Members(s)
         /\ Members(Tail(s)) \subseteq Members(s)
         /\ \A x \in Members(s) : x = Head(s) \/ x \in Members(Tail(s))
<1> DEFINE t == Tail(s)
<1>1. 1 \in 1 .. Len(s) /\ Head(s) = s[1]
  BY TailHead
<1>2. \A i \in 1 .. Len(t) : i + 1 \in 1 .. Len(s) /\ t[i] = s[i + 1]
  BY TailNew
<1>3. \A i \in 1 .. Len(s) : i = 1 \/ (i - 1 \in 1 .. Len(t) /\ t[i - 1] = s[i])
  BY TailOld
<1> HIDE DEF t
<1>4. Head(s) \in Members(s)
  BY <1>1 DEF Members
<1>5. Members(t) \subseteq Members(s)
  BY <1>2 DEF Members
<1>6. \A x \in Members(s) : x = Head(s) \/ x \in Members(t)
  BY <1>1, <1>3 DEF Members
<1> QED
  BY <1>4, <1>5, <1>6 DEF t

-----------------------------------------------------------------------------
(* Distinct elements stay distinct when a new one is appended, *)
LEMMA DistinctAppend ==
  ASSUME NEW S, NEW s \in Seq(S), NEW x \in S, Distinct(s), x \notin Members(s)
  PROVE  Distinct(Append(s, x))
<1> DEFINE t == Append(s, x)
           n == Len(s) + 1
<1>1. t[n] = x /\ \A i \in 1 .. Len(t) : i \in 1 .. Len(s) \/ i = n
  BY AppendNew
<1>2. \A i \in 1 .. Len(s) : t[i] = s[i] /\ s[i] \in Members(s)
  BY AppendOld DEF Members
<1> HIDE DEF t, n
<1>3. \A i, j \in 1 .. Len(t) : t[i] = t[j] => i = j
  BY <1>1, <1>2 DEF Distinct
<1> QED
  BY <1>3 DEF t, Distinct

(* when the head is taken, which then is not there any more, *)
LEMMA DistinctTail ==
  ASSUME NEW S, NEW s \in Seq(S), s # <<>>, Distinct(s)
  PROVE  /\ Distinct(Tail(s))
         /\ Members(Tail(s)) = Members(s) \ {Head(s)}
<1> DEFINE t == Tail(s)
<1>1. 1 \in 1 .. Len(s) /\ Head(s) = s[1]
  BY TailHead
<1>2. \A i \in 1 .. Len(t) : i \in Nat /\ i + 1 \in 1 .. Len(s) /\ i + 1 # 1 /\ t[i] = s[i + 1]
  BY TailNew
<1>3. /\ Members(t) \subseteq Members(s)
      /\ \A x \in Members(s) : x = Head(s) \/ x \in Members(t)
  BY MembersTail
<1> HIDE DEF t
<1>4. ASSUME NEW i \in 1 .. Len(t), NEW j \in 1 .. Len(t), t[i] = t[j]
      PROVE  i = j
  <2>1. i + 1 = j + 1
    BY <1>2, <1>4 DEF Distinct
  <2>2. i \in Nat /\ j \in Nat
    BY <1>2, <1>4
  <2> QED
    BY <2>1, <2>2, SameSuccessor
<1>5. ASSUME NEW i \in 1 .. Len(t)
      PROVE  t[i] # Head(s)
  BY <1>1, <1>2, <1>5 DEF Distinct
<1>6. Head(s) \notin Members(t)
  BY <1>5 DEF Members
<1> QED
  BY <1>3, <1>4, <1>6 DEF t, Distinct

(* A sequence of one element has no other member. *)
LEMMA OnlyMember ==
  ASSUME NEW S, NEW x \in S
  PROVE  /\ <<x>> \in Seq(S) /\ <<x>> # <<>> /\ Head(<<x>>) = x /\ Tail(<<x>>) = <<>>
         /\ Members(<<x>>) = {x} /\ Distinct(<<x>>)
<1> DEFINE s == <<x>>
<1>1. s \in Seq(S) /\ s # <<>> /\ Len(s) = 1 /\ s[1] = x /\ Head(s) = x /\ Tail(s) = <<>>
  OBVIOUS
<1>2. 1 .. Len(s) = {1}
  BY <1>1
<1> HIDE DEF s
<1>3. Members(s) = {x} /\ Distinct(s)
  BY <1>1, <1>2 DEF Members, Distinct
<1> QED
  BY <1>1, <1>3 DEF s

(* and when only the end of the sequence is kept. *)
LEMMA DistinctSuffix ==
  ASSUME NEW S, NEW s \in Seq(S), Distinct(s), NEW m \in 1 .. Len(s) + 1
  PROVE  LET t == SubSeq(s, m, Len(s))
         IN  /\ t \in Seq(S)
             /\ Len(t) = Len(s) - m + 1
             /\ Distinct(t)
             /\ Members(t) \subseteq Members(s)
<1> DEFINE t == SubSeq(s, m, Len(s))
<1>0. Len(s) \in Nat
  BY LenProperties
<1>1. \A i \in m .. Len(s) : s[i] \in S
  BY <1>0, ElementOfSeq
<1>2. /\ t \in Seq(S)
      /\ Len(t) = IF m <= Len(s) THEN Len(s) - m + 1 ELSE 0
      /\ \A i \in 1 .. Len(s) - m + 1 : t[i] = s[m + i - 1]
  <2>1. m \in Int /\ Len(s) \in Int
    BY <1>0
  <2> QED
    BY <1>1, <2>1, SubSeqProperties
<1>3. Len(t) = Len(s) - m + 1
  BY <1>0, <1>2
<1> HIDE DEF t
<1>4. ASSUME NEW i \in 1 .. Len(t)
      PROVE  i \in Nat /\ m + i - 1 \in 1 .. Len(s) /\ t[i] = s[m + i - 1]
  BY <1>0, <1>2, <1>3
<1>5. ASSUME NEW i \in 1 .. Len(t), NEW j \in 1 .. Len(t), t[i] = t[j]
      PROVE  i = j
  <2>1. m + i - 1 = m + j - 1
    BY <1>4, <1>5 DEF Distinct
  <2> QED
    BY <1>4, <2>1
<1>6. Members(t) \subseteq Members(s)
  BY <1>4 DEF Members
<1>7. Distinct(t)
  BY <1>5 DEF Distinct
<1> QED
  BY <1>2, <1>3, <1>6, <1>7 DEF t

-----------------------------------------------------------------------------
(* The places of a sequence whose elements are in T are finitely many, *)
LEMMA PlacesFinite ==
  ASSUME NEW S, NEW s \in Seq(S), NEW T
  PROVE  /\ IsFiniteSet(Places(s, T))
         /\ Cardinality(Places(s, T)) \in Nat
         /\ Cardinality(Places(s, T)) <= Len(s)
<1>1. Len(s) \in Nat
  BY LenProperties
<1>2. IsFiniteSet(1 .. Len(s)) /\ Cardinality(1 .. Len(s)) = Len(s)
  BY SMTT(30), <1>1, FS_Interval
<1>3. Places(s, T) \subseteq 1 .. Len(s)
  BY DEF Places
<1>4. IsFiniteSet(Places(s, T)) /\ Cardinality(Places(s, T)) <= Cardinality(1 .. Len(s))
  BY <1>2, <1>3, FS_Subset
<1> QED
  BY <1>2, <1>4, FS_CardinalityType

(* and the empty sequence has none. *)
LEMMA PlacesEmpty ==
  ASSUME NEW T
  PROVE  Cardinality(Places(<<>>, T)) = 0
<1>1. Len(<<>>) = 0
  BY EmptySeq
<1>2. Places(<<>>, T) = {}
  BY <1>1 DEF Places
<1> QED
  BY <1>2, FS_EmptySet

(* No place, no member; *)
LEMMA PlacesNone ==
  ASSUME NEW S, NEW s \in Seq(S), NEW T
  PROVE  Cardinality(Places(s, T)) = 0 <=> Members(s) \cap T = {}
<1>1. Cardinality(Places(s, T)) = 0 <=> Places(s, T) = {}
  BY PlacesFinite, FS_EmptySet
<1>2. Places(s, T) = {} <=> Members(s) \cap T = {}
  BY DEF Places, Members
<1> QED
  BY <1>1, <1>2

(* one place, one member. *)
LEMMA PlacesOne ==
  ASSUME NEW S, NEW s \in Seq(S), NEW T, Cardinality(Places(s, T)) = 1,
         NEW i \in Places(s, T), NEW j \in Places(s, T)
  PROVE  i = j
<1>1. \E x : Places(s, T) = {x}
  BY PlacesFinite, FS_Singleton
<1> QED
  BY <1>1

(* Append counts the new element, *)
LEMMA PlacesAppend ==
  ASSUME NEW S, NEW s \in Seq(S), NEW x \in S, NEW T
  PROVE  Cardinality(Places(Append(s, x), T))
            = IF x \in T THEN Cardinality(Places(s, T)) + 1 ELSE Cardinality(Places(s, T))
<1> DEFINE t == Append(s, x)
           n == Len(s) + 1
<1>1. n \in 1 .. Len(t) /\ t[n] = x /\ \A i \in 1 .. Len(t) : i \in 1 .. Len(s) \/ i = n
  BY AppendNew
<1>2. \A i \in 1 .. Len(s) : i \in 1 .. Len(t) /\ t[i] = s[i] /\ i # n
  BY AppendOld
<1> HIDE DEF t, n
<1>3. Places(t, T) = IF x \in T THEN Places(s, T) \union {n} ELSE Places(s, T)
  BY <1>1, <1>2 DEF Places
<1>4. n \notin Places(s, T)
  BY <1>2 DEF Places
<1>5. IsFiniteSet(Places(s, T))
  BY PlacesFinite
<1>6. Cardinality(Places(s, T) \union {n}) = Cardinality(Places(s, T)) + 1
  BY <1>4, <1>5, FS_AddElement
<1> QED
  BY <1>3, <1>6 DEF t

(* and Tail forgets the head. *)
LEMMA PlacesTail ==
  ASSUME NEW S, NEW s \in Seq(S), s # <<>>, NEW T
  PROVE  Cardinality(Places(Tail(s), T))
            = IF Head(s) \in T THEN Cardinality(Places(s, T)) - 1 ELSE Cardinality(Places(s, T))
<1> DEFINE t == Tail(s)
           rest == Places(s, T) \ {1}
           shift == [i \in Places(t, T) |-> i + 1]
<1>1. 1 \in 1 .. Len(s) /\ Head(s) = s[1]
  BY TailHead
<1>2. \A i \in 1 .. Len(t) : i \in Nat /\ i + 1 \in 1 .. Len(s) /\ i + 1 # 1 /\ t[i] = s[i + 1]
  BY TailNew
<1>3. \A i \in 1 .. Len(s) : i = 1 \/ (i - 1 \in 1 .. Len(t) /\ t[i - 1] = s[i])
  BY TailOld
<1>4. t \in Seq(S)
  BY HeadTailProperties
<1> HIDE DEF t
<1>5. shift \in [Places(t, T) -> rest]
  BY <1>2 DEF Places
<1>6. \A i, j \in Places(t, T) : shift[i] = shift[j] => i = j
  BY <1>2 DEF Places
<1>7. \A k \in rest : \E i \in Places(t, T) : shift[i] = k
  <2> SUFFICES ASSUME NEW k \in rest
               PROVE  \E i \in Places(t, T) : shift[i] = k
    OBVIOUS
  <2>1. k \in 1 .. Len(s) /\ k # 1 /\ s[k] \in T
    BY DEF Places
  <2>2. k - 1 \in Places(t, T) /\ k - 1 + 1 = k
    BY <1>3, <2>1 DEF Places
  <2> QED
    BY <2>2
<1>8. shift \in Bijection(Places(t, T), rest)
  BY <1>5, <1>6, <1>7 DEF Bijection, Injection, Surjection, IsInjective
<1>9. IsFiniteSet(Places(t, T)) /\ IsFiniteSet(Places(s, T)) /\ Cardinality(Places(s, T)) \in Nat
  BY <1>4, PlacesFinite
<1>10. ExistsBijection(Places(t, T), rest)
  BY <1>8 DEF ExistsBijection
<1>11. Cardinality(Places(t, T)) = Cardinality(rest)
  BY <1>9, <1>10, FS_Bijection
<1>12. Cardinality(rest) = IF 1 \in Places(s, T) THEN Cardinality(Places(s, T)) - 1
                           ELSE Cardinality(Places(s, T))
  BY <1>9, FS_RemoveElement
<1>13. 1 \in Places(s, T) <=> Head(s) \in T
  BY <1>1 DEF Places
<1> QED
  BY <1>11, <1>12, <1>13 DEF t

-----------------------------------------------------------------------------
(* The places up to the n-th. *)
UpTo(s, T, n) == {i \in 1 .. n : s[i] \in T}

(* Counting up to a place is a number, 0 at the beginning. *)
LEMMA UpToCount ==
  ASSUME NEW s, NEW T, NEW n \in Nat
  PROVE  /\ IsFiniteSet(UpTo(s, T, n))
         /\ Cardinality(UpTo(s, T, n)) \in Nat
         /\ Cardinality(UpTo(s, T, 0)) = 0
<1>1. IsFiniteSet(1 .. n)
  BY FS_Interval
<1>2. UpTo(s, T, n) \subseteq 1 .. n /\ UpTo(s, T, 0) = {}
  BY DEF UpTo
<1> QED
  BY <1>1, <1>2, FS_Subset, FS_EmptySet, FS_CardinalityType

(* A number is one more if a condition holds, else the same. *)
CountsOne(more, condition, number) == more = IF condition THEN number + 1 ELSE number

(* Counting counts the next element if it is one of T, *)
LEMMA UpToNext ==
  ASSUME NEW s, NEW T, NEW n \in Nat, NEW m, m = n + 1
  PROVE  CountsOne(Cardinality(UpTo(s, T, m)), s[m] \in T, Cardinality(UpTo(s, T, n)))
<1>1. 1 .. m = (1 .. n) \union {m} /\ m \notin 1 .. n
  OBVIOUS
<1>2. UpTo(s, T, m) = IF s[m] \in T THEN UpTo(s, T, n) \union {m} ELSE UpTo(s, T, n)
  BY <1>1 DEF UpTo
<1>3. m \notin UpTo(s, T, n)
  BY <1>1 DEF UpTo
<1>4. IsFiniteSet(UpTo(s, T, n))
  BY UpToCount
<1>5. Cardinality(UpTo(s, T, n) \union {m}) = Cardinality(UpTo(s, T, n)) + 1
  BY <1>3, <1>4, FS_AddElement
<1> QED
  BY <1>2, <1>5 DEF CountsOne

(* it never decreases, *)
LEMMA UpToGrows ==
  ASSUME NEW s, NEW T, NEW m \in Nat, NEW n \in Nat, m <= n
  PROVE  Cardinality(UpTo(s, T, m)) <= Cardinality(UpTo(s, T, n))
<1>1. UpTo(s, T, m) \subseteq UpTo(s, T, n)
  BY DEF UpTo
<1> QED
  BY <1>1, UpToCount, FS_Subset

(* and Append does not change it. *)
LEMMA UpToAppend ==
  ASSUME NEW S, NEW s \in Seq(S), NEW x \in S, NEW T, NEW n \in 0 .. Len(s)
  PROVE  UpTo(Append(s, x), T, n) = UpTo(s, T, n)
<1>1. Len(s) \in Nat
  BY LenProperties
<1>2. \A i \in 1 .. Len(s) : Append(s, x)[i] = s[i]
  BY AppendProperties
<1>3. 1 .. n \subseteq 1 .. Len(s)
  BY <1>1
<1> QED
  BY <1>2, <1>3 DEF UpTo

(* How many elements of a sequence belong to T. *)
HowMany(s, T) == Cardinality(UpTo(s, T, Len(s)))

(* All of an appended sequence are those counted before and the new one. *)
LEMMA UpToLast ==
  ASSUME NEW S, NEW s \in Seq(S), NEW x \in S, NEW T
  PROVE  CountsOne(HowMany(Append(s, x), T), x \in T, HowMany(s, T))
<1> DEFINE t == Append(s, x)
           n == Len(s)
           m == Len(t)
<1>1. n \in Nat /\ m = n + 1
  BY AppendProperties, LenProperties
<1>2. UpTo(t, T, n) = UpTo(s, T, n)
  <2>1. n \in 0 .. Len(s)
    BY <1>1
  <2> QED
    BY <2>1, UpToAppend
<1>3. t[m] = x
  BY <1>1, AppendProperties
<1>4. HowMany(t, T) = Cardinality(UpTo(t, T, m)) /\ HowMany(s, T) = Cardinality(UpTo(s, T, n))
  BY DEF HowMany
<1> HIDE DEF n, m, t
<1>5. CountsOne(Cardinality(UpTo(t, T, m)), t[m] \in T, Cardinality(UpTo(t, T, n)))
  BY <1>1, UpToNext
<1> QED
  BY <1>2, <1>3, <1>4, <1>5 DEF CountsOne, t

-----------------------------------------------------------------------------
(* Counting a union of sets that share nothing, *)
LEMMA DisjointUnion ==
  ASSUME NEW S, NEW T, IsFiniteSet(S), IsFiniteSet(T), S \cap T = {}
  PROVE  /\ IsFiniteSet(S \union T)
         /\ Cardinality(S \union T) = Cardinality(S) + Cardinality(T)
<1>1. Cardinality(S) \in Nat /\ Cardinality(T) \in Nat
  BY FS_CardinalityType
<1>2. Cardinality(S \cap T) = 0
  BY FS_EmptySet
<1>3. /\ IsFiniteSet(S \union T)
      /\ Cardinality(S \union T) = Cardinality(S) + Cardinality(T) - Cardinality(S \cap T)
  BY FS_Union
<1> QED
  BY <1>1, <1>2, <1>3

(* and a set that has one more element. *)
LEMMA OneMore ==
  ASSUME NEW S, IsFiniteSet(S), NEW x, x \notin S
  PROVE  /\ IsFiniteSet(S \union {x})
         /\ Cardinality(S \union {x}) = Cardinality(S) + 1
BY FS_AddElement

(* How many elements of S are in T, and S with one more element.           *)
CountIn(S, T) == Cardinality(S \cap T)

With(S, x) == S \union {x}

(* A new element of a finite set is counted among those of T if it is one. *)
LEMMA OneMoreOf ==
  ASSUME NEW S, IsFiniteSet(S), NEW x, x \notin S, NEW R, R = With(S, x)
  PROVE  /\ IsFiniteSet(R)
         /\ \A T : /\ CountIn(S, T) \in Nat
                  /\ CountIn(R, T) = IF x \in T THEN CountIn(S, T) + 1 ELSE CountIn(S, T)
<1>1. R = S \union {x} /\ IsFiniteSet(R)
  BY OneMore DEF With
<1> SUFFICES ASSUME NEW T
             PROVE  /\ CountIn(S, T) \in Nat
                    /\ CountIn(R, T) = IF x \in T THEN CountIn(S, T) + 1 ELSE CountIn(S, T)
  BY <1>1
<1>2. IsFiniteSet(S \cap T) /\ CountIn(S, T) = Cardinality(S \cap T) /\ CountIn(S, T) \in Nat
  BY FS_Subset, FS_CardinalityType DEF CountIn
<1>3. CASE x \in T
  <2>1. R \cap T = (S \cap T) \union {x} /\ x \notin S \cap T
    BY <1>1, <1>3
  <2>2. Cardinality((S \cap T) \union {x}) = Cardinality(S \cap T) + 1
    BY <1>2, <2>1, OneMore
  <2> QED
    BY <1>2, <1>3, <2>1, <2>2 DEF CountIn
<1>4. CASE x \notin T
  <2>1. R \cap T = S \cap T
    BY <1>1, <1>4
  <2> QED
    BY <1>2, <1>4, <2>1 DEF CountIn
<1> QED
  BY <1>3, <1>4
=============================================================================
