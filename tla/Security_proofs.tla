-------------------------- MODULE Security_proofs --------------------------
(***************************************************************************)
(* Proofs about the two parts of server/src/security.cpp: RateLimiter, for *)
(* every limit, window and set of clients, and Sanitizers, for texts and   *)
(* paths of any length and every limit on it.                              *)
(*                                                                         *)
(* What is admitted to a client forms a history A of times, cut into       *)
(* windows: O[j] is the position in A of the request that opened the       *)
(* window of the j-th one.  A window has at most max_requests_per_minute   *)
(* requests and the next one opens at least WINDOW seconds after it; so    *)
(* 2 * max requests reach at least into the second window after the first. *)
(***************************************************************************)
EXTENDS RateLimiter, Sanitizers, SequenceLemmas

History(A, O) ==
    /\ A \in Seq(Nat) /\ O \in Seq(Nat) /\ Len(O) = Len(A)
    /\ \A i, j \in 1 .. Len(A) : i <= j => A[i] <= A[j]
    /\ \A j \in 1 .. Len(A) :
          /\ O[j] \in 1 .. j
          /\ j - O[j] < max_requests_per_minute
          /\ A[j] < A[O[j]] + WINDOW
    /\ \A j \in 1 .. Len(A) : O[j] > 1 => A[O[O[j] - 1]] + WINDOW <= A[O[j]]

(* The maps describe the last window of each client's history. *)
LastWindow(ip) ==
    LET n == Len(admits[ip]) IN
    /\ rate_limit_map_[ip] = admits[ip][opened[ip][n]]
    /\ request_count_map_[ip] = n - opened[ip][n] + 1

IInv ==
    /\ TypeOK
    /\ \A ip \in Clients :
          /\ History(admits[ip], opened[ip])
          /\ \A i \in 1 .. Len(admits[ip]) : admits[ip][i] <= now
          /\ admits[ip] # <<>> => LastWindow(ip)
    /\ NoFalseRefusal

USE LimitAssumption, WindowAssumption, ClientsAssumption

-----------------------------------------------------------------------------
(* The parts of a history, one by one. *)
LEMMA HistoryParts ==
  ASSUME NEW A, NEW O, History(A, O)
  PROVE  /\ A \in Seq(Nat) /\ O \in Seq(Nat)
         /\ Len(A) \in Nat /\ Len(O) = Len(A)
         /\ \A k \in 1 .. Len(A) : A[k] \in Nat /\ O[k] \in Nat
         /\ \A i, j \in 1 .. Len(A) : i <= j => A[i] <= A[j]
         /\ \A j \in 1 .. Len(A) :
               /\ O[j] \in 1 .. Len(A)
               /\ O[j] <= j
               /\ j - O[j] < max_requests_per_minute
               /\ A[j] < A[O[j]] + WINDOW
               /\ O[j] > 1 => A[O[O[j] - 1]] + WINDOW <= A[O[j]]
<1>1. A \in Seq(Nat) /\ O \in Seq(Nat) /\ Len(O) = Len(A)
  BY DEF History
<1>2. Len(A) \in Nat
  BY <1>1
<1>3. \A k \in 1 .. Len(A) : A[k] \in Nat /\ O[k] \in Nat
  BY <1>1
<1>4. \A i, j \in 1 .. Len(A) : i <= j => A[i] <= A[j]
  BY DEF History
<1>5. \A j \in 1 .. Len(A) :
        /\ O[j] \in 1 .. j
        /\ j - O[j] < max_requests_per_minute
        /\ A[j] < A[O[j]] + WINDOW
        /\ O[j] > 1 => A[O[O[j] - 1]] + WINDOW <= A[O[j]]
  BY DEF History
<1>6. \A j \in 1 .. Len(A) : O[j] \in 1 .. Len(A) /\ O[j] <= j
  BY <1>2, <1>5
<1> QED
  BY <1>1, <1>2, <1>3, <1>4, <1>5, <1>6

(* Admitting one more request keeps a history a history, whether it opens  *)
(* a window or belongs to the last one.                                    *)
LEMMA HistoryGrows ==
  ASSUME NEW A, NEW O, History(A, O),
         NEW t \in Nat, \A i \in 1 .. Len(A) : A[i] <= t,
         NEW first \in Nat,
         \/ /\ first = Len(A) + 1
            /\ A # <<>> => A[O[Len(A)]] + WINDOW <= t
         \/ /\ A # <<>>
            /\ first = O[Len(A)]
            /\ Len(A) + 1 - first < max_requests_per_minute
            /\ t < A[first] + WINDOW
  PROVE  History(Append(A, t), Append(O, first))
<1> DEFINE B == Append(A, t)
           P == Append(O, first)
           n == Len(A)
<1>1. /\ A \in Seq(Nat) /\ O \in Seq(Nat) /\ Len(O) = n /\ n \in Nat
      /\ \A i \in 1 .. n : A[i] \in Nat /\ O[i] \in Nat
  BY HistoryParts
<1>2. \A i, j \in 1 .. n : i <= j => A[i] <= A[j]
  BY HistoryParts
<1>3. \A j \in 1 .. n : /\ O[j] \in 1 .. n
                        /\ O[j] <= j
                        /\ j - O[j] < max_requests_per_minute
                        /\ A[j] < A[O[j]] + WINDOW
  BY HistoryParts
<1>4. \A j \in 1 .. n : O[j] > 1 => A[O[O[j] - 1]] + WINDOW <= A[O[j]]
  BY HistoryParts
<1>a. B \in Seq(Nat) /\ Len(B) = n + 1 /\ B[n + 1] = t /\ \A i \in 1 .. n : B[i] = A[i]
  BY <1>1
<1>b. P \in Seq(Nat) /\ Len(P) = n + 1 /\ P[n + 1] = first /\ \A i \in 1 .. n : P[i] = O[i]
  BY <1>1
<1>c. A # <<>> <=> n \in 1 .. n
  BY <1>1
<1>d. \/ first = n + 1
      \/ /\ n \in 1 .. n
         /\ first = O[n]
         /\ n + 1 - first < max_requests_per_minute
         /\ t < A[first] + WINDOW
  BY <1>c
<1>e. \A i \in 1 .. n : A[i] <= t
  OBVIOUS
<1>f. n \in 1 .. n /\ first = n + 1 => A[O[n]] + WINDOW <= t
  BY <1>3, <1>c
<1> HIDE DEF B, P, n
<1>5. \A i, j \in 1 .. Len(B) : i <= j => B[i] <= B[j]
  <2> SUFFICES ASSUME NEW i \in 1 .. Len(B), NEW j \in 1 .. Len(B), i <= j
               PROVE  B[i] <= B[j]
    OBVIOUS
  <2>1. CASE j \in 1 .. n
    <3>1. i \in 1 .. n
      BY <1>1, <2>1
    <3>2. B[i] = A[i] /\ B[j] = A[j]
      BY <1>a, <2>1, <3>1
    <3> QED
      BY <1>2, <2>1, <3>1, <3>2
  <2>2. CASE j = n + 1 /\ i \in 1 .. n
    <3>1. B[i] = A[i] /\ B[j] = t
      BY <1>a, <2>2
    <3>2. A[i] <= t
      BY <1>e, <2>2
    <3> QED
      BY <3>1, <3>2
  <2>3. CASE j = n + 1 /\ i = n + 1
    BY <1>1, <1>a, <1>b, <2>3
  <2> QED
    BY <1>1, <1>a, <1>b, <1>c, <2>1, <2>2, <2>3
<1>6. ASSUME NEW j \in 1 .. Len(B)
      PROVE  /\ P[j] \in 1 .. j
             /\ j - P[j] < max_requests_per_minute
             /\ B[j] < B[P[j]] + WINDOW
  <2>1. CASE j \in 1 .. n
    <3>1. /\ O[j] \in 1 .. n
          /\ O[j] <= j
          /\ j - O[j] < max_requests_per_minute
          /\ A[j] < A[O[j]] + WINDOW
      BY <1>3, <2>1
    <3>2. P[j] = O[j] /\ B[j] = A[j] /\ B[O[j]] = A[O[j]]
      BY <1>a, <1>b, <2>1, <3>1
    <3> QED
      BY <2>1, <3>1, <3>2
  <2>2. CASE j = n + 1 /\ first = n + 1
    BY <1>1, <1>a, <1>b, <2>2
  <2>3. CASE j = n + 1 /\ n \in 1 .. n /\ first = O[n]
             /\ n + 1 - first < max_requests_per_minute /\ t < A[first] + WINDOW
    <3>1. first \in 1 .. n
      BY <1>3, <2>3
    <3>2. P[j] = first /\ B[j] = t /\ B[first] = A[first]
      BY <1>a, <1>b, <2>3, <3>1
    <3>3. first \in 1 .. j /\ j - first < max_requests_per_minute
      <4>1. j = n + 1 /\ n \in Nat /\ n + 1 - first < max_requests_per_minute
        BY <1>1, <2>3
      <4>2. first \in 1 .. n + 1
        BY <3>1, <4>1
      <4> QED
        BY <4>1, <4>2
    <3>4. B[j] < B[first] + WINDOW
      BY <2>3, <3>2
    <3> QED
      BY <3>2, <3>3, <3>4
  <2> QED
    BY <1>1, <1>a, <1>d, <2>1, <2>2, <2>3
<1>7. ASSUME NEW j \in 1 .. Len(B), P[j] > 1
      PROVE  B[P[P[j] - 1]] + WINDOW <= B[P[j]]
  <2>1. ASSUME NEW k \in 1 .. n, P[j] = O[k]
        PROVE  B[P[P[j] - 1]] + WINDOW <= B[P[j]]
    <3>1. O[k] \in 1 .. n /\ O[k] - 1 \in 1 .. n
      <4>1. O[k] > 1 /\ O[k] \in 1 .. n
        BY <1>3, <1>7, <2>1
      <4>2. n \in Nat
        BY <1>1
      <4>3. \A x \in 1 .. n : x > 1 => x - 1 \in 1 .. n
        BY <4>2
      <4> QED
        BY <4>1, <4>3
    <3>2. P[O[k] - 1] = O[O[k] - 1] /\ O[O[k] - 1] \in 1 .. n
      BY <1>1, <1>3, <1>a, <1>b, <3>1
    <3>3. A[O[O[k] - 1]] + WINDOW <= A[O[k]]
      BY <1>4, <1>7, <2>1
    <3>4. B[O[k]] = A[O[k]] /\ B[O[O[k] - 1]] = A[O[O[k] - 1]]
      BY <1>a, <3>1, <3>2
    <3> QED
      BY <2>1, <3>2, <3>3, <3>4
  <2>2. CASE j \in 1 .. n
    BY <1>1, <1>a, <1>b, <1>c, <2>1, <2>2
  <2>3. CASE j = n + 1 /\ first = n + 1
    <3>1. P[j] = n + 1 /\ n \in 1 .. n /\ A # <<>>
      BY <1>1, <1>7, <1>a, <1>b, <1>c, <2>3
    <3>2. P[P[j] - 1] = O[n] /\ O[n] \in 1 .. n
      BY <1>1, <1>3, <1>a, <1>b, <3>1
    <3>3. A[O[n]] + WINDOW <= t
      BY <1>f, <2>3, <3>1
    <3> QED
      BY <1>1, <1>a, <1>b, <3>1, <3>2, <3>3
  <2>4. CASE j = n + 1 /\ n \in 1 .. n /\ first = O[n]
    <3>1. P[j] = O[n]
      BY <1>b, <2>4
    <3> QED
      BY <2>1, <2>4, <3>1
  <2> QED
    BY <1>1, <1>a, <1>d, <2>2, <2>3, <2>4
<1>8. History(B, P)
  BY <1>1, <1>a, <1>b, <1>5, <1>6, <1>7 DEF History
<1> QED
  BY <1>8 DEF B, P

(* Times around a whole window are a window apart. *)
LEMMA WindowBetween ==
  ASSUME NEW a \in Nat, NEW b \in Nat, NEW c \in Nat, NEW d \in Nat,
         a <= b, b + WINDOW <= c, c <= d
  PROVE  d - a >= WINDOW
OBVIOUS

(* What lies in one window is before the start of the next. *)
LEMMA WindowBefore ==
  ASSUME NEW a \in Nat, NEW b \in Nat, NEW c \in Nat, NEW d \in Nat,
         a <= b, b < c + WINDOW, c + WINDOW <= d
  PROVE  a < d
OBVIOUS

(* Any 2 * max consecutive requests of a history span a window. *)
LEMMA TwoWindows ==
  ASSUME NEW A, NEW O, History(A, O),
         NEW i \in 1 .. Len(A), NEW j \in 1 .. Len(A),
         j = i + 2 * max_requests_per_minute - 1
  PROVE  A[j] - A[i] >= WINDOW
<1> DEFINE s == O[j]
           p == O[s - 1]
<1>1. A \in Seq(Nat) /\ Len(A) \in Nat /\ \A k \in 1 .. Len(A) : A[k] \in Nat
  BY HistoryParts
<1>2. s \in 1 .. j /\ j - s < max_requests_per_minute
  <2>1. \A k \in 1 .. Len(A) : O[k] \in 1 .. k /\ k - O[k] < max_requests_per_minute
    BY DEF History
  <2> QED
    BY <2>1
<1>3. s > i /\ s > 1 /\ s - 1 \in 1 .. Len(A) /\ s \in 1 .. Len(A)
  <2> HIDE DEF s
  <2> QED
    BY <1>1, <1>2
<1>4. p \in 1 .. Len(A) /\ p <= s - 1 /\ (s - 1) - p < max_requests_per_minute
  <2> DEFINE r == s - 1
  <2>1. r \in 1 .. Len(A)
    BY <1>3
  <2> HIDE DEF r
  <2>2. O[r] \in 1 .. Len(A) /\ O[r] <= r /\ r - O[r] < max_requests_per_minute
    BY <2>1, HistoryParts
  <2> QED
    BY <2>2 DEF r
<1>5. p >= i /\ p \in 1 .. Len(A) /\ s \in 1 .. Len(A)
  <2> HIDE DEF p, s
  <2> QED
    BY <1>2, <1>3, <1>4
<1>6. A[p] + WINDOW <= A[s]
  BY <1>2, <1>3, HistoryParts
<1>7. A[i] <= A[p]
  BY <1>5, HistoryParts
<1>8. A[s] <= A[j]
  BY <1>2, <1>5, HistoryParts
<1> HIDE DEF s, p
<1>9. A[i] \in Nat /\ A[p] \in Nat /\ A[s] \in Nat /\ A[j] \in Nat
  BY <1>1, <1>5
<1> QED
  BY <1>6, <1>7, <1>8, <1>9, WindowBetween

(* The current window is the last one of the history: its requests are     *)
(* those not before its start.                                             *)
LEMMA LastWindowExact ==
  ASSUME NEW A, NEW O, History(A, O), A # <<>>
  PROVE  LET n == Len(A) IN
         /\ n \in 1 .. n /\ O[n] \in 1 .. n
         /\ n - O[n] + 1 \in 1 .. max_requests_per_minute
         /\ A[n] < A[O[n]] + WINDOW
         /\ \A i \in 1 .. n : A[i] >= A[O[n]] <=> i >= O[n]
<1> DEFINE n == Len(A)
           s == O[n]
<1>1. n \in 1 .. n /\ \A k \in 1 .. n : A[k] \in Nat
  BY HistoryParts
<1>2. s \in 1 .. n /\ n - s < max_requests_per_minute /\ A[n] < A[s] + WINDOW
  BY <1>1, HistoryParts
<1>3. \A i, j \in 1 .. n : i <= j => A[i] <= A[j]
  BY HistoryParts
<1>4. ASSUME NEW i \in 1 .. n, i < s
      PROVE  A[i] < A[s]
  <2> DEFINE r == s - 1
  <2>1. r \in 1 .. n /\ i <= r
    BY <1>2, <1>4
  <2>2. s > 1
    <3> HIDE DEF s
    <3> QED
      BY <1>1, <1>2, <1>4
  <2>3. A[O[r]] + WINDOW <= A[s]
    BY <1>1, <2>2, HistoryParts
  <2> HIDE DEF r
  <2>4. O[r] \in 1 .. n /\ A[r] < A[O[r]] + WINDOW
    BY <2>1, HistoryParts
  <2>5. A[i] <= A[r]
    BY <1>3, <2>1
  <2>6. A[i] \in Nat /\ A[r] \in Nat /\ A[O[r]] \in Nat /\ A[s] \in Nat
    BY <1>1, <1>2, <2>1, <2>4
  <2> HIDE DEF s
  <2> QED
    BY <2>3, <2>4, <2>5, <2>6, WindowBefore
<1>5. \A i \in 1 .. n : A[i] >= A[s] <=> i >= s
  <2> SUFFICES ASSUME NEW i \in 1 .. n
               PROVE  A[i] >= A[s] <=> i >= s
    OBVIOUS
  <2>1. CASE i < s
    <3>1. A[i] < A[s] /\ A[i] \in Nat /\ A[s] \in Nat
      BY <1>1, <1>2, <1>4, <2>1
    <3> HIDE DEF s
    <3> QED
      BY <2>1, <3>1, <1>2
  <2>2. CASE i >= s
    <3>1. A[s] <= A[i]
      BY <1>2, <1>3, <2>2
    <3> QED
      BY <2>2, <3>1
  <2> QED
    BY <1>2, <2>1, <2>2
<1>6. n - s + 1 \in 1 .. max_requests_per_minute
  <2> HIDE DEF s
  <2> QED
    BY <1>1, <1>2
<1> QED
  BY <1>1, <1>2, <1>5, <1>6

-----------------------------------------------------------------------------
(* The inductive invariant holds in the first state. *)
LEMMA InvInit ==
  ASSUME Init
  PROVE  IInv
<1>1. \A ip \in Clients : admits[ip] = <<>> /\ opened[ip] = <<>>
  BY DEF Init
<1>2. admits \in [Clients -> Seq(Nat)] /\ opened \in [Clients -> Seq(Nat)]
  BY DEF Init
<1>3. /\ DOMAIN rate_limit_map_ = {} /\ DOMAIN request_count_map_ = {}
      /\ rate_limit_map_ \in [{} -> 0 .. now]
      /\ request_count_map_ \in [{} -> 1 .. max_requests_per_minute]
  BY DEF Init
<1>4. {ip \in Clients : admits[ip] # <<>>} = {}
  BY <1>1
<1>5. answer.granted \in BOOLEAN /\ answer.at = 0 /\ now = 0
  BY DEF Init
<1>6. TypeOK
  BY <1>2, <1>3, <1>4, <1>5 DEF TypeOK
<1>7. NoFalseRefusal
  <2>1. answer.ip \notin Clients
    BY DEF Init
  <2> QED
    BY <2>1 DEF NoFalseRefusal
<1>8. ASSUME NEW ip \in Clients
      PROVE  History(admits[ip], opened[ip])
  <2>1. admits[ip] = <<>> /\ opened[ip] = <<>> /\ Len(<<>>) = 0
    BY <1>1
  <2>2. <<>> \in Seq(Nat)
    OBVIOUS
  <2> QED
    BY <2>1, <2>2 DEF History
<1>9. ASSUME NEW ip \in Clients
      PROVE  \A i \in 1 .. Len(admits[ip]) : admits[ip][i] <= now
  BY <1>1
<1> QED
  BY <1>1, <1>6, <1>7, <1>8, <1>9 DEF IInv

(* What an admission does, whichever path it takes: the histories and the  *)
(* maps of the other clients are left alone, and those of ip agree again.  *)
LEMMA AdmitStep ==
  ASSUME IInv, NEW ip \in Clients, NEW first \in Nat,
         Admit(ip, first), Answer(ip, TRUE), now' = now,
         \/ /\ first = Len(admits[ip]) + 1
            /\ admits[ip] # <<>> => rate_limit_map_[ip] + WINDOW <= now
            /\ rate_limit_map_' = Put(rate_limit_map_, ip, now)
            /\ request_count_map_' = Put(request_count_map_, ip, 1)
         \/ /\ admits[ip] # <<>>
            /\ first = opened[ip][Len(admits[ip])]
            /\ request_count_map_[ip] < max_requests_per_minute
            /\ now < rate_limit_map_[ip] + WINDOW
            /\ rate_limit_map_' = rate_limit_map_
            /\ request_count_map_' = [request_count_map_ EXCEPT ![ip] = @ + 1]
  PROVE  IInv'
<1> DEFINE A == admits[ip]
           O == opened[ip]
           n == Len(A)
<1>1. /\ admits \in [Clients -> Seq(Nat)] /\ opened \in [Clients -> Seq(Nat)]
      /\ A \in Seq(Nat) /\ O \in Seq(Nat) /\ n \in Nat /\ now \in Nat
  BY DEF IInv, TypeOK
<1>2. /\ History(A, O)
      /\ \A i \in 1 .. n : A[i] <= now
      /\ A # <<>> => rate_limit_map_[ip] = A[O[n]] /\ request_count_map_[ip] = n - O[n] + 1
  BY DEF IInv, LastWindow
<1>3. /\ admits' = [admits EXCEPT ![ip] = Append(A, now)]
      /\ opened' = [opened EXCEPT ![ip] = Append(O, first)]
      /\ Len(O) = n
  BY <1>2, HistoryParts DEF Admit
<1>4. /\ admits'[ip] = Append(A, now) /\ opened'[ip] = Append(O, first)
      /\ \A c \in Clients \ {ip} : admits'[c] = admits[c] /\ opened'[c] = opened[c]
  BY <1>1, <1>3
<1>5. /\ Append(A, now) \in Seq(Nat) /\ Append(O, first) \in Seq(Nat)
      /\ Len(Append(A, now)) = n + 1 /\ Append(A, now) # <<>>
      /\ Append(A, now)[n + 1] = now /\ Append(O, first)[n + 1] = first
      /\ \A i \in 1 .. n : Append(A, now)[i] = A[i]
  <2> HIDE DEF A, O
  <2>1. /\ Append(A, now) \in Seq(Nat) /\ Len(Append(A, now)) = n + 1
        /\ Append(A, now)[n + 1] = now /\ \A i \in 1 .. n : Append(A, now)[i] = A[i]
    BY <1>1
  <2>2. Append(O, first) \in Seq(Nat) /\ Append(O, first)[n + 1] = first
    BY <1>1, <1>3
  <2>3. Append(A, now) # <<>>
    <3>1. Len(Append(A, now)) # Len(<<>>)
      BY <1>1, <2>1
    <3> QED
      BY <3>1
  <2> QED
    BY <2>1, <2>2, <2>3
<1>6. DOMAIN rate_limit_map_ = {c \in Clients : admits[c] # <<>>}
      /\ DOMAIN request_count_map_ = DOMAIN rate_limit_map_
  BY DEF IInv, TypeOK
<1>7. A # <<>> => n \in 1 .. n /\ O[n] \in 1 .. n
  BY <1>1, <1>2, LastWindowExact
<1>8. History(Append(A, now), Append(O, first))
  <2>1. A # <<>> => n + 1 - O[n] = request_count_map_[ip]
    BY <1>1, <1>2, <1>7
  <2>2. \/ first = n + 1 /\ (A # <<>> => A[O[n]] + WINDOW <= now)
        \/ /\ A # <<>>
           /\ first = O[n]
           /\ n + 1 - first < max_requests_per_minute
           /\ now < A[first] + WINDOW
    BY <1>2, <2>1
  <2> HIDE DEF A, O
  <2> QED
    BY <1>1, <1>2, <2>2, HistoryGrows
<1>9. \A c \in Clients : History(admits'[c], opened'[c])
  BY <1>4, <1>8 DEF IInv
<1>10. \A c \in Clients : \A i \in 1 .. Len(admits'[c]) : admits'[c][i] <= now'
  <2>1. \A i \in 1 .. n + 1 : Append(A, now)[i] <= now
    <3>1. \A i \in 1 .. n : Append(A, now)[i] <= now
      BY <1>2, <1>5
    <3>2. Append(A, now)[n + 1] <= now
      BY <1>1, <1>5
    <3> QED
      BY <1>1, <3>1, <3>2
  <2> QED
    BY <1>4, <1>5, <2>1 DEF IInv
<1>11. \A c \in Clients : admits'[c] # <<>> <=> c = ip \/ admits[c] # <<>>
  BY <1>4, <1>5
<1>12. /\ DOMAIN rate_limit_map_' = {c \in Clients : admits'[c] # <<>>}
       /\ DOMAIN request_count_map_' = DOMAIN rate_limit_map_'
       /\ \A c \in DOMAIN rate_limit_map_ \ {ip} :
             /\ rate_limit_map_'[c] = rate_limit_map_[c]
             /\ request_count_map_'[c] = request_count_map_[c]
       /\ rate_limit_map_'[ip] = Append(A, now)[first]
       /\ request_count_map_'[ip] = (n + 1) - first + 1
       /\ rate_limit_map_'[ip] \in 0 .. now
       /\ request_count_map_'[ip] \in 1 .. max_requests_per_minute
  <2>1. CASE /\ first = n + 1
             /\ rate_limit_map_' = Put(rate_limit_map_, ip, now)
             /\ request_count_map_' = Put(request_count_map_, ip, 1)
    BY <1>1, <1>5, <1>6, <1>11, <2>1 DEF Put
  <2>2. CASE /\ A # <<>>
             /\ first = O[n]
             /\ request_count_map_[ip] < max_requests_per_minute
             /\ rate_limit_map_' = rate_limit_map_
             /\ request_count_map_' = [request_count_map_ EXCEPT ![ip] = @ + 1]
    <3>1. ip \in DOMAIN request_count_map_
      BY <1>6, <2>2
    <3>2. /\ request_count_map_'[ip] = request_count_map_[ip] + 1
          /\ DOMAIN request_count_map_' = DOMAIN request_count_map_
          /\ \A c \in DOMAIN rate_limit_map_ \ {ip} :
                request_count_map_'[c] = request_count_map_[c]
      BY <1>6, <2>2, <3>1
    <3>3. request_count_map_[ip] \in 1 .. max_requests_per_minute
          /\ rate_limit_map_[ip] \in 0 .. now
      BY <1>6, <3>1 DEF IInv, TypeOK
    <3>4. rate_limit_map_[ip] = Append(A, now)[first]
      BY <1>2, <1>5, <1>7, <2>2
    <3>5. request_count_map_[ip] + 1 = (n + 1) - first + 1
      <4>1. request_count_map_[ip] = n - first + 1 /\ first \in Nat /\ n \in Nat
        BY <1>1, <1>2, <2>2
      <4> HIDE DEF n
      <4> QED
        BY <4>1
    <3>6. {c \in Clients : admits'[c] # <<>>} = DOMAIN rate_limit_map_
      BY <1>6, <1>11, <3>1
    <3>7. /\ DOMAIN rate_limit_map_' = {c \in Clients : admits'[c] # <<>>}
          /\ DOMAIN request_count_map_' = DOMAIN rate_limit_map_'
      BY <1>6, <2>2, <3>2, <3>6
    <3>8. request_count_map_'[ip] \in 1 .. max_requests_per_minute
      BY <2>2, <3>2, <3>3
    <3>9. request_count_map_'[ip] = (n + 1) - first + 1
      BY <3>2, <3>5
    <3>10. /\ rate_limit_map_'[ip] = Append(A, now)[first]
           /\ rate_limit_map_'[ip] \in 0 .. now
           /\ \A c \in DOMAIN rate_limit_map_ \ {ip} :
                 rate_limit_map_'[c] = rate_limit_map_[c]
      BY <2>2, <3>3, <3>4
    <3> QED
      BY <3>2, <3>7, <3>8, <3>9, <3>10
  <2> QED
    BY <2>1, <2>2
<1>13. \A c \in Clients : admits'[c] # <<>> => LastWindow(c)'
  <2>1. ASSUME NEW c \in Clients \ {ip}, admits'[c] # <<>>
        PROVE  LastWindow(c)'
    <3>1. admits[c] # <<>> /\ LastWindow(c) /\ c \in DOMAIN rate_limit_map_
      BY <1>6, <1>11, <2>1 DEF IInv
    <3> QED
      BY <1>4, <1>12, <3>1 DEF LastWindow
  <2>2. LastWindow(ip)'
    BY <1>4, <1>5, <1>12 DEF LastWindow
  <2> QED
    BY <2>1, <2>2
<1>14. TypeOK'
  <2>1. admits' \in [Clients -> Seq(Nat)] /\ opened' \in [Clients -> Seq(Nat)]
    BY <1>1, <1>3, <1>5
  <2>2. rate_limit_map_' \in [DOMAIN rate_limit_map_' -> 0 .. now]
    <3>1. \A c \in DOMAIN rate_limit_map_ : rate_limit_map_[c] \in 0 .. now
      BY DEF IInv, TypeOK
    <3>2. \A c \in DOMAIN rate_limit_map_' : rate_limit_map_'[c] \in 0 .. now
      BY <1>6, <1>11, <1>12, <3>1
    <3>3. rate_limit_map_' = [c \in DOMAIN rate_limit_map_' |-> rate_limit_map_'[c]]
      BY DEF IInv, TypeOK, Put
    <3> QED
      BY <3>2, <3>3
  <2>3. request_count_map_' \in [DOMAIN request_count_map_' -> 1 .. max_requests_per_minute]
    <3>1. \A c \in DOMAIN rate_limit_map_ :
             request_count_map_[c] \in 1 .. max_requests_per_minute
      BY <1>6 DEF IInv, TypeOK
    <3>2. \A c \in DOMAIN request_count_map_' :
             request_count_map_'[c] \in 1 .. max_requests_per_minute
      BY <1>6, <1>11, <1>12, <3>1
    <3>3. request_count_map_' = [c \in DOMAIN request_count_map_' |-> request_count_map_'[c]]
      BY DEF IInv, TypeOK, Put
    <3> QED
      BY <3>2, <3>3
  <2>4. answer'.granted \in BOOLEAN /\ answer'.at \in 0 .. now
    BY <1>1 DEF Answer
  <2> QED
    BY <1>1, <1>12, <2>1, <2>2, <2>3, <2>4 DEF TypeOK
<1>15. NoFalseRefusal'
  BY DEF NoFalseRefusal, Answer
<1> QED
  BY <1>9, <1>10, <1>13, <1>14, <1>15 DEF IInv

(* The steps that admit nobody: they change at most the clock and the      *)
(* answer.                                                                 *)
LEMMA StutterStep ==
  ASSUME IInv, UNCHANGED <<maps, admits, opened>>,
         now' \in Nat, now' >= now,
         answer'.granted \in BOOLEAN, answer'.at \in 0 .. now',
         NoFalseRefusal'
  PROVE  IInv'
<1>1. now \in Nat
  BY DEF IInv, TypeOK
<1>2. /\ rate_limit_map_' = rate_limit_map_ /\ request_count_map_' = request_count_map_
      /\ admits' = admits /\ opened' = opened
  BY DEF maps
<1>3. rate_limit_map_' \in [DOMAIN rate_limit_map_' -> 0 .. now']
  <2>1. \A x \in 0 .. now : x \in 0 .. now'
    BY <1>1
  <2>2. rate_limit_map_ \in [DOMAIN rate_limit_map_ -> 0 .. now]
    BY DEF IInv, TypeOK
  <2> QED
    BY <1>2, <2>1, <2>2
<1>4. TypeOK'
  BY <1>2, <1>3 DEF IInv, TypeOK
<1>5. ASSUME NEW ip \in Clients
      PROVE  \A i \in 1 .. Len(admits'[ip]) : admits'[ip][i] <= now'
  <2>1. \A i \in 1 .. Len(admits[ip]) : admits[ip][i] <= now /\ admits[ip][i] \in Nat
    <3>1. admits[ip] \in Seq(Nat)
      BY DEF IInv, TypeOK
    <3> QED
      BY <3>1 DEF IInv
  <2> QED
    BY <1>1, <1>2, <2>1
<1>6. ASSUME NEW ip \in Clients
      PROVE  /\ History(admits'[ip], opened'[ip])
             /\ admits'[ip] # <<>> => LastWindow(ip)'
  BY <1>2 DEF IInv, LastWindow
<1> QED
  BY <1>4, <1>5, <1>6 DEF IInv

(* A client refused for excess was let in max times in its window, which   *)
(* opened less than WINDOW seconds ago.                                    *)
LEMMA RefuseStep ==
  ASSUME IInv, NEW ip \in Clients, RefuseExcess(ip)
  PROVE  IInv'
<1> DEFINE A == admits[ip]
           n == Len(A)
           s == opened[ip][n]
<1>1. /\ A # <<>> /\ rate_limit_map_[ip] \in 0 .. now
      /\ request_count_map_[ip] \in 1 .. max_requests_per_minute
  BY DEF IInv, TypeOK, RefuseExcess
<1>2. rate_limit_map_[ip] = A[s] /\ request_count_map_[ip] = n - s + 1
  BY <1>1 DEF IInv, LastWindow
<1>3. n \in Nat /\ s \in 1 .. n
  BY <1>1, HistoryParts, LastWindowExact DEF IInv
<1>4. request_count_map_[ip] = max_requests_per_minute
  BY <1>1 DEF RefuseExcess
<1>5. s = n - max_requests_per_minute + 1 /\ n >= max_requests_per_minute
  <2> HIDE DEF n, s
  <2> QED
    BY <1>2, <1>3, <1>4
<1>6. now - A[s] < WINDOW
  BY <1>2 DEF RefuseExcess, Elapsed
<1>7. answer' = [ip |-> ip, granted |-> FALSE, at |-> now] /\ admits' = admits
  BY DEF RefuseExcess, Answer
<1>8. NoFalseRefusal'
  <2>1. ASSUME NEW c \in Clients, answer'.ip = c
        PROVE  LET m == Len(admits'[c]) IN
               /\ m >= max_requests_per_minute
               /\ answer'.at - admits'[c][m - max_requests_per_minute + 1] < WINDOW
    <3>1. c = ip /\ answer'.at = now
      BY <1>7, <2>1
    <3> QED
      BY <1>5, <1>6, <1>7, <3>1
  <2> QED
    BY <2>1 DEF NoFalseRefusal
<1>9. now' = now /\ now \in Nat /\ UNCHANGED <<maps, admits, opened>>
  BY DEF RefuseExcess, IInv, TypeOK
<1> QED
  BY <1>7, <1>8, <1>9, StutterStep

(* IInv is inductive. *)
LEMMA InvNext ==
  ASSUME IInv, [Next]_vars
  PROVE  IInv'
<1> SUFFICES ASSUME IInv, [Next]_vars PROVE IInv'
  OBVIOUS
<1>0. now \in Nat /\ answer.at \in 0 .. now /\ answer.granted \in BOOLEAN
  BY DEF IInv, TypeOK
<1>1. CASE Tick
  <2>1. NoFalseRefusal'
    BY <1>1 DEF IInv, NoFalseRefusal, Tick
  <2>2. /\ now' \in Nat /\ now' >= now
        /\ answer'.granted \in BOOLEAN /\ answer'.at \in 0 .. now'
    BY <1>0, <1>1 DEF Tick
  <2> QED
    BY <1>1, <2>1, <2>2, StutterStep DEF Tick
<1>2. ASSUME NEW ip \in Malformed, RefuseMalformed(ip)
      PROVE  IInv'
  <2>1. answer' = [ip |-> ip, granted |-> FALSE, at |-> now] /\ now' = now
    BY <1>2 DEF RefuseMalformed, Answer
  <2>2. NoFalseRefusal'
    <3>1. answer'.ip \notin Clients
      BY <2>1
    <3> QED
      BY <3>1 DEF NoFalseRefusal
  <2> QED
    BY <1>0, <1>2, <2>1, <2>2, StutterStep DEF RefuseMalformed
<1>3. ASSUME NEW ip \in Clients, FirstRequest(ip)
      PROVE  IInv'
  <2>1. admits[ip] = <<>>
    BY <1>3 DEF FirstRequest, IInv, TypeOK
  <2>2. Len(admits[ip]) + 1 \in Nat
    BY DEF IInv, TypeOK
  <2> QED
    BY <1>3, <2>1, <2>2, AdmitStep DEF FirstRequest, OpenWindow
<1>4. ASSUME NEW ip \in Clients, NextWindow(ip)
      PROVE  IInv'
  <2>1. rate_limit_map_[ip] \in 0 .. now
    BY <1>4 DEF NextWindow, IInv, TypeOK
  <2>2. rate_limit_map_[ip] + WINDOW <= now
    BY <1>0, <1>4, <2>1 DEF NextWindow, Elapsed
  <2>3. Len(admits[ip]) + 1 \in Nat
    BY DEF IInv, TypeOK
  <2> QED
    BY <1>4, <2>2, <2>3, AdmitStep DEF NextWindow, OpenWindow
<1>5. ASSUME NEW ip \in Clients, CountRequest(ip)
      PROVE  IInv'
  <2>1. rate_limit_map_[ip] \in 0 .. now /\ admits[ip] # <<>>
    BY <1>5 DEF CountRequest, IInv, TypeOK
  <2>2. now < rate_limit_map_[ip] + WINDOW
    BY <1>0, <1>5, <2>1 DEF CountRequest, Elapsed
  <2>3. History(admits[ip], opened[ip]) /\ Len(opened[ip]) = Len(admits[ip])
    BY HistoryParts DEF IInv
  <2>4. opened[ip][Len(admits[ip])] \in Nat
    BY <2>1, <2>3, LastWindowExact
  <2> QED
    BY <1>5, <2>1, <2>2, <2>3, <2>4, AdmitStep DEF CountRequest
<1>6. ASSUME NEW ip \in Clients, RefuseExcess(ip)
      PROVE  IInv'
  BY <1>6, RefuseStep
<1>7. CASE UNCHANGED vars
  <2>1. NoFalseRefusal'
    BY <1>7 DEF IInv, NoFalseRefusal, vars
  <2> QED
    BY <1>0, <1>7, <2>1, StutterStep DEF vars
<1> QED
  BY <1>1, <1>2, <1>3, <1>4, <1>5, <1>6, <1>7 DEF Next

(* So the invariant always holds. *)
LEMMA Inductive == Spec => []IInv
<1>1. Init => IInv
  BY InvInit
<1>2. IInv /\ [Next]_vars => IInv'
  BY InvNext
<1> QED
  BY <1>1, <1>2, PTL DEF Spec

-----------------------------------------------------------------------------
(* check_rate_limit keeps its two maps in step, for the same clients, with *)
(* every count between 1 and the limit.                                    *)
THEOREM TypeCorrect == Spec => []TypeOK
<1>1. IInv => TypeOK
  BY DEF IInv
<1> QED
  BY <1>1, Inductive, PTL

(* Whatever the limit and the window, a client gets at most                *)
(* 2 * max_requests_per_minute - 1 requests through in less than a window. *)
THEOREM TwoWindowCorrect == Spec => []TwoWindowBound
<1>1. ASSUME IInv
      PROVE  TwoWindowBound
  <2>1. ASSUME NEW ip \in Clients, NEW i \in DOMAIN admits[ip], NEW j \in DOMAIN admits[ip],
               j = i + 2 * max_requests_per_minute - 1
        PROVE  admits[ip][j] - admits[ip][i] >= WINDOW
    <3>1. History(admits[ip], opened[ip]) /\ admits[ip] \in Seq(Nat)
      BY <1>1 DEF IInv, TypeOK
    <3>2. DOMAIN admits[ip] = 1 .. Len(admits[ip])
      BY <3>1
    <3> QED
      BY <2>1, <3>1, <3>2, TwoWindows
  <2> QED
    BY <2>1 DEF TwoWindowBound
<1> QED
  BY <1>1, Inductive, PTL

(* The count in request_count_map_ is that of the requests let in since    *)
(* the start in rate_limit_map_, for every client.                         *)
THEOREM CountCorrect == Spec => []CountIsExact
<1>1. ASSUME IInv
      PROVE  CountIsExact
  <2>1. ASSUME NEW ip \in DOMAIN request_count_map_
        PROVE  LET n     == Len(admits[ip])
                   count == request_count_map_[ip]
                   start == rate_limit_map_[ip]
               IN  /\ count <= n
                   /\ \A i \in 1 .. n : admits[ip][i] >= start <=> i > n - count
                   /\ admits[ip][n] < start + WINDOW
    <3> DEFINE A == admits[ip]
               n == Len(A)
               s == opened[ip][n]
    <3>1. ip \in Clients /\ A # <<>>
      BY <1>1, <2>1 DEF IInv, TypeOK
    <3>2. History(A, opened[ip]) /\ rate_limit_map_[ip] = A[s]
          /\ request_count_map_[ip] = n - s + 1
      BY <1>1, <3>1 DEF IInv, LastWindow
    <3>3. /\ n \in Nat /\ s \in 1 .. n /\ A[n] < A[s] + WINDOW
          /\ \A i \in 1 .. n : A[i] >= A[s] <=> i >= s
      BY <3>1, <3>2, HistoryParts, LastWindowExact
    <3>4. request_count_map_[ip] <= n /\ \A i \in 1 .. n : i >= s <=> i > n - request_count_map_[ip]
      <4> HIDE DEF n, s
      <4> QED
        BY <3>2, <3>3
    <3> QED
      BY <3>2, <3>3, <3>4
  <2> QED
    BY <2>1 DEF CountIsExact
<1> QED
  BY <1>1, Inductive, PTL

(* check_rate_limit turns a valid client away only after letting it in     *)
(* max_requests_per_minute times within the window.                        *)
THEOREM RefusalCorrect == Spec => []NoFalseRefusal
<1>1. IInv => NoFalseRefusal
  BY DEF IInv
<1> QED
  BY <1>1, Inductive, PTL

-----------------------------------------------------------------------------
(***************************************************************************)
(* The sanitizers.  A loop over a string is a function defined by          *)
(* recursion on its characters: the lemmas named ...Def show that it is    *)
(* what its definition says (Recursion in SequenceLemmas), and what holds  *)
(* at 0 and from each character to the next holds all along (Upwards).     *)
(* For sanitize_for_log that is Readable and Unescapes; for the scan of    *)
(* sanitize_path, SlashesKnown, Fits, DotsKnown and Agrees.                *)
(***************************************************************************)
HIDE ClientsAssumption
HIDE WindowAssumption
HIDE LimitAssumption
USE LengthsAssumption

(* What the texts and their sanitized forms are made of. *)
Letters == {"dot", "n", "x", "hex"}
Chars == TextChars \union Letters
Clean == Chars \ {"newline", "control"}

-----------------------------------------------------------------------------
(* What is appended for a character has no line end and no control         *)
(* character.                                                              *)
LEMMA EscapedClean ==
  ASSUME NEW c \in Chars
  PROVE  Escaped(c) \in Seq(Clean)
<1>1. {"backslash", "n", "x", "hex"} \subseteq Clean
  BY DEF Clean, Chars, TextChars, Letters
<1>2. CASE c \in {"quote", "backslash"}
  <2>1. c \in Clean
    BY <1>2 DEF Clean, Chars, TextChars, Letters
  <2> HIDE DEF Clean
  <2> QED
    BY <1>1, <1>2, <2>1 DEF Escaped
<1>3. CASE c = "newline"
  <2> HIDE DEF Clean
  <2> QED
    BY <1>1, <1>3 DEF Escaped
<1>4. CASE c = "control"
  <2> HIDE DEF Clean
  <2> QED
    BY <1>1, <1>4 DEF Escaped
<1>5. CASE c \notin {"quote", "backslash", "newline", "control"}
  <2>1. c \in Clean
    BY <1>5 DEF Clean
  <2>2. Escaped(c) = <<c>>
    BY <1>5 DEF Escaped
  <2> QED
    BY <2>1, <2>2
<1> QED
  BY <1>2, <1>3, <1>4, <1>5

(* The loop of sanitize_for_log is what its definition says: nothing at    *)
(* first, then what each character appends.                                *)
LEMMA EscapesDef ==
  ASSUME NEW s \in Seq(Chars)
  PROVE  /\ Escapes(s) \in [0 .. Len(s) -> Seq(Clean)]
         /\ Escapes(s)[0] = <<>>
         /\ \A i \in 1 .. Len(s) : Escapes(s)[i] = Escapes(s)[i - 1] \o Escaped(s[i])
<1> DEFINE S == Seq(Clean)
           n == Len(s)
           base == <<>>
           Turn(i, v) == v \o Escaped(s[i])
           step == [i \in 1 .. n |-> [v \in S |-> Turn(i, v)]]
           Is(f) == f = [i \in 0 .. n |-> IF i = 0 THEN base ELSE Turn(i, f[i - 1])]
           out == Escapes(s)
<1>1. n \in Nat /\ base \in S
  OBVIOUS
<1>2. out = CHOOSE f : Is(f)
  BY DEF Escapes
<1>3. \A i \in 1 .. n : \A v \in S : Turn(i, v) \in S
  <2> SUFFICES ASSUME NEW i \in 1 .. n, NEW v \in S
               PROVE  Turn(i, v) \in S
    OBVIOUS
  <2>1. Escaped(s[i]) \in S
    BY EscapedClean
  <2> QED
    BY <2>1
<1> HIDE DEF n, Turn, S, base, out
<1>4. step \in [1 .. n -> [S -> S]]
  BY <1>3
<1>5. \E f \in [0 .. n -> S] : f[0] = base /\ \A i \in 1 .. n : f[i] = step[i][f[i - 1]]
  <2> HIDE DEF step
  <2> QED
    BY SMTT(30), <1>1, <1>4, Recursion
<1>6. \E f : Is(f)
  <2>1. PICK f \in [0 .. n -> S] : f[0] = base /\ \A i \in 1 .. n : f[i] = step[i][f[i - 1]]
    BY <1>5
  <2>2. \A i \in 1 .. n : f[i] = Turn(i, f[i - 1])
    BY <1>1, <2>1
  <2> QED
    BY <1>1, <2>1, <2>2
<1> HIDE DEF Is
<1>7. Is(out)
  BY <1>2, <1>6, Zenon
<1>8. /\ out = [i \in 0 .. n |-> out[i]] /\ out[0] = base
      /\ \A i \in 1 .. n : out[i] = Turn(i, out[i - 1])
  BY <1>1, <1>7 DEF Is
<1>9. out \in [0 .. n -> S]
  BY <1>1, <1>3, <1>8, Values
<1> QED
  BY <1>8, <1>9 DEF n, Turn, S, base, out

(* The states of a reader of a string. *)
Positions == {"string", "escape", "closed"}

(* The loop of a reader is what its definition says.                       *)
LEMMA ReadersDef ==
  ASSUME NEW s \in Seq(Chars)
  PROVE  /\ Readers(s) \in [0 .. Len(s) -> Positions]
         /\ Readers(s)[0] = "string"
         /\ \A i \in 1 .. Len(s) : Readers(s)[i] = Reading(Readers(s)[i - 1], s[i])
<1> DEFINE S == Positions
           n == Len(s)
           base == "string"
           Turn(i, v) == Reading(v, s[i])
           step == [i \in 1 .. n |-> [v \in S |-> Turn(i, v)]]
           Is(f) == f = [i \in 0 .. n |-> IF i = 0 THEN base ELSE Turn(i, f[i - 1])]
           at == Readers(s)
<1>1. n \in Nat /\ base \in S
  BY DEF Positions
<1>2. at = CHOOSE f : Is(f)
  BY DEF Readers
<1>3. \A i \in 1 .. n : \A v \in S : Turn(i, v) \in S
  BY DEF Reading, Positions
<1> HIDE DEF n, Turn, S, base, at
<1>4. step \in [1 .. n -> [S -> S]]
  BY <1>3
<1>5. \E f \in [0 .. n -> S] : f[0] = base /\ \A i \in 1 .. n : f[i] = step[i][f[i - 1]]
  <2> HIDE DEF step
  <2> QED
    BY SMTT(30), <1>1, <1>4, Recursion
<1>6. \E f : Is(f)
  <2>1. PICK f \in [0 .. n -> S] : f[0] = base /\ \A i \in 1 .. n : f[i] = step[i][f[i - 1]]
    BY <1>5
  <2>2. \A i \in 1 .. n : f[i] = Turn(i, f[i - 1])
    BY <1>1, <2>1
  <2> QED
    BY <1>1, <2>1, <2>2
<1> HIDE DEF Is
<1>7. Is(at)
  BY <1>2, <1>6, Zenon
<1>8. /\ at = [i \in 0 .. n |-> at[i]] /\ at[0] = base
      /\ \A i \in 1 .. n : at[i] = Turn(i, at[i - 1])
  BY <1>1, <1>7 DEF Is
<1>9. at \in [0 .. n -> S]
  BY <1>1, <1>3, <1>8, Values
<1> QED
  BY <1>8, <1>9 DEF n, Turn, S, base, at

(* Readers of texts that begin alike agree on what they have both read. *)
LEMMA ReadersAgree ==
  ASSUME NEW s \in Seq(Chars), NEW t \in Seq(Chars), NEW n \in Nat,
         n <= Len(s), n <= Len(t), \A i \in 1 .. n : s[i] = t[i]
  PROVE  \A i \in 0 .. n : Readers(s)[i] = Readers(t)[i]
<1> DEFINE T == {i \in 0 .. n : Readers(s)[i] = Readers(t)[i]}
<1>1. 0 \in T
  BY ReadersDef
<1>2. ASSUME NEW i \in 1 .. n, i - 1 \in T
      PROVE  i \in T
  <2>1. i \in 1 .. Len(s) /\ i \in 1 .. Len(t)
    BY LenProperties
  <2>2. Readers(s)[i] = Reading(Readers(s)[i - 1], s[i])
    BY <2>1, ReadersDef
  <2>3. Readers(t)[i] = Reading(Readers(t)[i - 1], t[i])
    BY <2>1, ReadersDef
  <2> QED
    BY <1>2, <2>2, <2>3
<1> HIDE DEF T
<1>3. 0 .. n \subseteq T
  BY <1>1, <1>2, Upwards
<1> QED
  BY <1>3 DEF T

(* Text after which a reader is in the string, and before that too or      *)
(* after a backslash.                                                      *)
Readable(s) ==
    /\ s \in Seq(Clean)
    /\ InString(s)
    /\ \A i \in 0 .. Len(s) : Readers(s)[i] # "closed"

(* Clean characters are characters of the log.                             *)
LEMMA CleanChars == Seq(Clean) \subseteq Seq(Chars)
<1>1. Clean \subseteq Chars
  BY DEF Clean
<1> QED
  BY <1>1, SeqMonotonic

(* Text followed by what is appended for a character is such a text again. *)
LEMMA ReadableStep ==
  ASSUME NEW s, Readable(s), NEW c \in Chars
  PROVE  Readable(s \o Escaped(c))
<1> DEFINE e == Escaped(c)
           t == s \o e
           n == Len(s)
           at == Readers(t)
<1>1. s \in Seq(Clean) /\ e \in Seq(Clean) /\ t \in Seq(Clean)
  BY EscapedClean DEF Readable
<1>2. /\ n \in Nat /\ Len(e) \in Nat /\ Len(t) = n + Len(e)
      /\ \A i \in 1 .. n : s[i] = t[i]
      /\ \A i \in 1 .. Len(e) : t[n + i] = e[i]
  BY <1>1, ConcatProperties, LenProperties
<1>3. s \in Seq(Chars) /\ t \in Seq(Chars)
  BY <1>1, CleanChars
<1>4. \A i \in 0 .. n : Readers(s)[i] = at[i]
  <2>1. n <= Len(s) /\ n <= Len(t)
    BY <1>2
  <2> HIDE DEF t, n
  <2> QED
    BY <1>2, <1>3, <2>1, ReadersAgree DEF n, at
<1>5. at[n] = "string" /\ \A i \in 0 .. n : at[i] # "closed"
  BY <1>2, <1>4 DEF Readable, InString
<1>6. \A i \in 1 .. n + Len(e) : at[i] = Reading(at[i - 1], t[i])
  BY <1>2, <1>3, ReadersDef
<1>7. \A i \in 1 .. Len(e) : at[n + i] = Reading(at[n + i - 1], e[i])
  BY <1>2, <1>6
<1> HIDE DEF t, n, at
<1>8. at[n + Len(e)] = "string" /\ \A i \in 1 .. Len(e) : at[n + i] # "closed"
  <2>1. CASE c \in {"quote", "backslash"}
    <3>1. Len(e) = 2 /\ e[1] = "backslash"
      BY <2>1 DEF Escaped
    <3> HIDE DEF e
    <3>2. at[n + 1] = "escape"
      BY <1>2, <1>5, <1>7, <3>1 DEF Reading
    <3>3. at[n + 2] = "string"
      BY <1>2, <1>7, <3>1, <3>2 DEF Reading
    <3> QED
      BY <1>2, <3>1, <3>2, <3>3
  <2>2. CASE c = "newline"
    <3>1. Len(e) = 2 /\ e[1] = "backslash"
      BY <2>2 DEF Escaped
    <3> HIDE DEF e
    <3>2. at[n + 1] = "escape"
      BY <1>2, <1>5, <1>7, <3>1 DEF Reading
    <3>3. at[n + 2] = "string"
      BY <1>2, <1>7, <3>1, <3>2 DEF Reading
    <3> QED
      BY <1>2, <3>1, <3>2, <3>3
  <2>3. CASE c = "control"
    <3>1. Len(e) = 4 /\ e[1] = "backslash" /\ e[2] = "x" /\ e[3] = "hex" /\ e[4] = "hex"
      BY <2>3 DEF Escaped
    <3> HIDE DEF e
    <3>2. at[n + 1] = "escape"
      BY <1>2, <1>5, <1>7, <3>1 DEF Reading
    <3>3. at[n + 2] = "string"
      BY <1>2, <1>7, <3>1, <3>2 DEF Reading
    <3>4. at[n + 3] = "string"
      BY <1>2, <1>7, <3>1, <3>3 DEF Reading
    <3>5. at[n + 4] = "string"
      BY <1>2, <1>7, <3>1, <3>4 DEF Reading
    <3> QED
      BY <1>2, <3>1, <3>2, <3>3, <3>4, <3>5
  <2>4. CASE c \notin {"quote", "backslash", "newline", "control"}
    <3>1. Len(e) = 1 /\ e[1] = c
      BY <2>4 DEF Escaped
    <3> HIDE DEF e
    <3>2. at[n + 1] = "string"
      BY <1>2, <1>5, <1>7, <2>4, <3>1 DEF Reading
    <3> QED
      BY <1>2, <3>1, <3>2
  <2> QED
    BY <2>1, <2>2, <2>3, <2>4
<1>9. \A i \in 0 .. n + Len(e) : at[i] # "closed"
  <2> SUFFICES ASSUME NEW i \in 0 .. n + Len(e)
               PROVE  at[i] # "closed"
    OBVIOUS
  <2>1. i \in 0 .. n \/ (i - n \in 1 .. Len(e) /\ i = n + (i - n))
    BY <1>2
  <2> QED
    BY <1>5, <1>8, <2>1
<1> QED
  BY <1>1, <1>2, <1>8, <1>9 DEF Readable, InString, t, at

(* So is all that is appended. *)
LEMMA EscapesReadable ==
  ASSUME NEW s \in Seq(Chars)
  PROVE  Readable(Escapes(s)[Len(s)])
<1> DEFINE n == Len(s)
           out == Escapes(s)
           T == {i \in 0 .. n : Readable(out[i])}
<1>1. 0 \in T
  <2>1. out[0] = <<>>
    BY EscapesDef
  <2>2. <<>> \in Seq(Clean) /\ <<>> \in Seq(Chars) /\ Len(<<>>) = 0
    BY EmptySeq
  <2>3. Readers(<<>>)[0] = "string"
    BY <2>2, ReadersDef
  <2>4. Readable(<<>>)
    BY <2>2, <2>3 DEF Readable, InString
  <2>5. n \in Nat
    OBVIOUS
  <2> QED
    BY <2>1, <2>4, <2>5
<1>2. ASSUME NEW i \in 1 .. n, i - 1 \in T
      PROVE  i \in T
  <2>1. out[i] = out[i - 1] \o Escaped(s[i])
    BY EscapesDef
  <2>2. s[i] \in Chars
    BY ElementOfSeq
  <2>3. Readable(out[i])
    BY <1>2, <2>1, <2>2, ReadableStep
  <2> QED
    BY <2>3
<1>3. n \in Nat
  OBVIOUS
<1> HIDE DEF T
<1>4. 0 .. n \subseteq T
  BY <1>1, <1>2, <1>3, Upwards
<1> QED
  BY <1>3, <1>4 DEF T

-----------------------------------------------------------------------------
(* What is logged of a text is clean, leaves a reader in the string, and   *)
(* is not too long, wherever it was cut.                                   *)
LEMMA SanitizedReadable ==
  ASSUME NEW s \in Seq(Chars)
  PROVE  LET r == sanitize_for_log(s)
         IN  r \in Seq(Clean) /\ InString(r) /\ Len(r) <= MAX_LOG_STRING_LENGTH
<1> DEFINE u == Escapes(s)[Len(s)]
           m == MAX_LOG_STRING_LENGTH - 3
           dots == <<"dot", "dot", "dot">>
           begun == SubSeq(u, 1, m)
           r == begun \o dots
<1>1. Readable(u)
  BY EscapesReadable
<1>2. u \in Seq(Clean) /\ InString(u) /\ Len(u) \in Nat
  BY <1>1 DEF Readable
<1>3. m \in Nat /\ MAX_LOG_STRING_LENGTH = m + 3
  OBVIOUS
<1>4. CASE Len(u) <= MAX_LOG_STRING_LENGTH
  BY <1>2, <1>4 DEF sanitize_for_log, Cut
<1>5. CASE Len(u) > MAX_LOG_STRING_LENGTH
  <2>1. sanitize_for_log(s) = r
    BY <1>2, <1>5 DEF sanitize_for_log, Cut
  <2> HIDE DEF u, m
  <2>2. /\ begun \in Seq(Clean) /\ Len(begun) = m
        /\ \A i \in 1 .. m : begun[i] = u[i]
    <3>1. \A i \in 1 .. m : u[i] \in Clean
      BY <1>2, <1>3, <1>5, ElementOfSeq
    <3>2. /\ begun \in Seq(Clean)
          /\ Len(begun) = IF 1 <= m THEN m - 1 + 1 ELSE 0
          /\ \A i \in 1 .. m - 1 + 1 : begun[i] = u[1 + i - 1]
      BY <1>3, <3>1, SubSeqProperties
    <3> QED
      BY <1>3, <3>2
  <2>3. dots \in Seq(Clean) /\ Len(dots) = 3 /\ \A i \in 1 .. 3 : dots[i] = "dot"
    <3>1. "dot" \in Clean
      BY DEF Clean, Chars, TextChars, Letters
    <3> HIDE DEF Clean
    <3> QED
      BY <3>1
  <2> HIDE DEF begun, dots
  <2>4. /\ r \in Seq(Clean) /\ Len(r) = m + 3
        /\ \A i \in 1 .. m : r[i] = u[i]
        /\ r[m + 1] = "dot" /\ r[m + 2] = "dot" /\ r[m + 3] = "dot"
    <3>1. /\ r \in Seq(Clean) /\ Len(r) = Len(begun) + Len(dots)
          /\ \A i \in 1 .. Len(begun) + Len(dots) :
                r[i] = IF i <= Len(begun) THEN begun[i] ELSE dots[i - Len(begun)]
      BY ZenonT(30), <2>2, <2>3, ConcatProperties
    <3> HIDE DEF r
    <3>2. /\ Len(r) = m + 3
          /\ \A i \in 1 .. m + 3 : r[i] = IF i <= m THEN begun[i] ELSE dots[i - m]
      BY <2>2, <2>3, <3>1
    <3> QED
      BY <1>3, <2>2, <2>3, <3>1, <3>2
  <2> HIDE DEF r
  <2>5. r \in Seq(Chars) /\ u \in Seq(Chars)
    BY <1>2, <2>4, CleanChars
  <2>6. \A i \in 0 .. m : Readers(u)[i] = Readers(r)[i]
    <3>1. m <= Len(u) /\ m <= Len(r)
      BY <1>2, <1>3, <1>5, <2>4
    <3> QED
      BY SMTT(30), <1>3, <2>4, <2>5, <3>1, ReadersAgree
  <2>7. Readers(r)[m] \in {"string", "escape"}
    <3>1. m \in 0 .. Len(u) /\ m \in 0 .. m
      BY <1>2, <1>3, <1>5
    <3>2. Readers(u) \in [0 .. Len(u) -> Positions]
      BY <2>5, ReadersDef
    <3>3. Readers(u)[m] # "closed"
      BY <1>1, <3>1 DEF Readable
    <3> QED
      BY <2>6, <3>1, <3>2, <3>3 DEF Positions
  <2>8. /\ Readers(r)[m + 1] = Reading(Readers(r)[m], r[m + 1])
        /\ Readers(r)[m + 2] = Reading(Readers(r)[m + 1], r[m + 2])
        /\ Readers(r)[m + 3] = Reading(Readers(r)[m + 2], r[m + 3])
    <3>1. \A i \in 1 .. m + 3 : Readers(r)[i] = Reading(Readers(r)[i - 1], r[i])
      BY <2>4, <2>5, ReadersDef
    <3> QED
      BY <1>3, <3>1
  <2>9. Readers(r)[m + 1] = "string"
    BY <1>3, <2>4, <2>7, <2>8 DEF Reading
  <2>10. Readers(r)[m + 2] = "string"
    BY <1>3, <2>4, <2>8, <2>9 DEF Reading
  <2>11. Readers(r)[m + 3] = "string"
    BY <1>3, <2>4, <2>8, <2>10 DEF Reading
  <2> QED
    BY <1>3, <2>1, <2>4, <2>11 DEF InString
<1> QED
  BY <1>2, <1>4, <1>5

(* The inputs are texts and paths of their characters.                     *)
LEMMA InputCorrect == InputSpec => []InputType
<1>1. NoInput => InputType
  BY DEF NoInput, InputType
<1>2. InputType /\ [MoreInput]_inputs => InputType'
  <2> SUFFICES ASSUME InputType, [MoreInput]_inputs
               PROVE  InputType'
    OBVIOUS
  <2>1. CASE ExtendText
    BY <2>1 DEF InputType, ExtendText
  <2>2. CASE ExtendPath
    BY <2>2 DEF InputType, ExtendPath
  <2>3. CASE UNCHANGED inputs
    BY <2>3 DEF InputType, inputs
  <2> QED
    BY <2>1, <2>2, <2>3 DEF MoreInput
<1> QED
  BY <1>1, <1>2, PTL DEF InputSpec

(* Whatever is logged stays inside its JSON string and on its line, and is *)
(* not too long, for every text and every limit: the cut may split an      *)
(* escape, but the dots after it end it.                                   *)
THEOREM ContainedCorrect == InputSpec => []Contained
<1>1. ASSUME InputType
      PROVE  Contained
  <2> DEFINE once == sanitize_for_log(text)
             again == sanitize_for_log(once)
  <2>1. text \in Seq(Chars)
    <3>1. TextChars \subseteq Chars
      BY DEF Chars
    <3> QED
      BY <1>1, <3>1, SeqMonotonic DEF InputType
  <2>2. once \in Seq(Clean) /\ InString(once) /\ Len(once) <= MAX_LOG_STRING_LENGTH
    BY <2>1, SanitizedReadable
  <2>3. once \in Seq(Chars)
    BY <2>2, CleanChars
  <2> HIDE DEF once
  <2>4. InString(again) /\ Len(again) <= MAX_LOG_STRING_LENGTH
    BY <2>3, SanitizedReadable
  <2>5. \A i \in 1 .. Len(once) : once[i] \notin {"newline", "control"}
    BY <2>2, ElementOfSeq DEF Clean
  <2> QED
    BY <2>2, <2>4, <2>5 DEF Contained, once
<1> QED
  BY <1>1, InputCorrect, PTL

-----------------------------------------------------------------------------
(* The states of undoing the escapes. *)
UndoStates == [out : Seq(Chars), escape : BOOLEAN, hex : Nat]

(* Undoing one character gives such a state again.                         *)
LEMMA UndoType ==
  ASSUME NEW r \in UndoStates, NEW c \in Chars
  PROVE  Undo(r, c) \in UndoStates
<1>1. /\ r.out \in Seq(Chars) /\ r.escape \in BOOLEAN /\ r.hex \in Nat
      /\ "newline" \in Chars /\ "control" \in Chars
  BY DEF UndoStates, Chars, TextChars
<1>2. \A x \in Chars : Append(r.out, x) \in Seq(Chars)
  BY <1>1, AppendProperties
<1>3. \A p \in Seq(Chars), h \in Nat : HasRead(p, h) \in UndoStates /\ Escaping(p) \in UndoStates
  BY DEF UndoStates, HasRead, Escaping
<1>4. CASE r.hex > 0
  <2>1. Undo(r, c) = HasRead(r.out, r.hex - 1) /\ r.hex - 1 \in Nat
    BY <1>1, <1>4 DEF Undo
  <2> QED
    BY <1>1, <1>3, <2>1
<1>5. CASE r.hex = 0
  <2>1. \/ \E x \in Chars : Undo(r, c) \in {HasRead(Append(r.out, x), 0), HasRead(Append(r.out, x), 2)}
        \/ Undo(r, c) = Escaping(r.out)
    BY <1>1, <1>5 DEF Undo
  <2> QED
    BY <1>1, <1>2, <1>3, <2>1
<1> QED
  BY <1>1, <1>4, <1>5

(* The loop of undoing the escapes is what its definition says.            *)
LEMMA UndosDef ==
  ASSUME NEW s \in Seq(Chars)
  PROVE  /\ Undos(s) \in [0 .. Len(s) -> UndoStates]
         /\ Undos(s)[0] = HasRead(<<>>, 0)
         /\ \A i \in 1 .. Len(s) : Undos(s)[i] = Undo(Undos(s)[i - 1], s[i])
<1> DEFINE S == UndoStates
           n == Len(s)
           base == HasRead(<<>>, 0)
           Turn(i, v) == Undo(v, s[i])
           step == [i \in 1 .. n |-> [v \in S |-> Turn(i, v)]]
           Is(f) == f = [i \in 0 .. n |-> IF i = 0 THEN base ELSE Turn(i, f[i - 1])]
           r == Undos(s)
<1>1. n \in Nat /\ base \in S
  <2>1. <<>> \in Seq(Chars)
    BY EmptySeq
  <2> QED
    BY <2>1 DEF UndoStates, HasRead
<1>2. r = CHOOSE f : Is(f)
  BY DEF Undos
<1>3. \A i \in 1 .. n : \A v \in S : Turn(i, v) \in S
  BY UndoType, ElementOfSeq
<1> HIDE DEF n, Turn, S, base, r
<1>4. step \in [1 .. n -> [S -> S]]
  BY <1>3
<1>5. \E f \in [0 .. n -> S] : f[0] = base /\ \A i \in 1 .. n : f[i] = step[i][f[i - 1]]
  <2> HIDE DEF step
  <2> QED
    BY SMTT(30), <1>1, <1>4, Recursion
<1>6. \E f : Is(f)
  <2>1. PICK f \in [0 .. n -> S] : f[0] = base /\ \A i \in 1 .. n : f[i] = step[i][f[i - 1]]
    BY <1>5
  <2>2. \A i \in 1 .. n : f[i] = Turn(i, f[i - 1])
    BY <1>1, <2>1
  <2> QED
    BY <1>1, <2>1, <2>2
<1> HIDE DEF Is
<1>7. Is(r)
  BY <1>2, <1>6, Zenon
<1>8. /\ r = [i \in 0 .. n |-> r[i]] /\ r[0] = base
      /\ \A i \in 1 .. n : r[i] = Turn(i, r[i - 1])
  BY <1>1, <1>7 DEF Is
<1>9. r \in [0 .. n -> S]
  BY <1>1, <1>3, <1>8, Values
<1> QED
  BY <1>8, <1>9 DEF n, Turn, S, base, r

(* What has been undone of texts that begin alike is the same. *)
LEMMA UndosAgree ==
  ASSUME NEW s \in Seq(Chars), NEW t \in Seq(Chars), NEW n \in Nat,
         n <= Len(s), n <= Len(t), \A i \in 1 .. n : s[i] = t[i]
  PROVE  \A i \in 0 .. n : Undos(s)[i] = Undos(t)[i]
<1> DEFINE T == {i \in 0 .. n : Undos(s)[i] = Undos(t)[i]}
<1>1. 0 \in T
  BY UndosDef
<1>2. ASSUME NEW i \in 1 .. n, i - 1 \in T
      PROVE  i \in T
  <2>1. i \in 1 .. Len(s) /\ i \in 1 .. Len(t)
    BY LenProperties
  <2>2. Undos(s)[i] = Undo(Undos(s)[i - 1], s[i])
    BY <2>1, UndosDef
  <2>3. Undos(t)[i] = Undo(Undos(t)[i - 1], t[i])
    BY <2>1, UndosDef
  <2> QED
    BY <1>2, <2>2, <2>3
<1> HIDE DEF T
<1>3. 0 .. n \subseteq T
  BY <1>1, <1>2, Upwards
<1> QED
  BY <1>3 DEF T

(* What each kind of character undoes. *)
LEMMA UndoTurns ==
  ASSUME NEW p, NEW c
  PROVE  /\ c = "printable" => Undo(HasRead(p, 0), c) = HasRead(Append(p, c), 0)
         /\ Undo(HasRead(p, 0), "backslash") = Escaping(p)
         /\ c \in {"quote", "backslash"} =>
                Undo(Escaping(p), c) = HasRead(Append(p, c), 0)
         /\ Undo(Escaping(p), "n") = HasRead(Append(p, "newline"), 0)
         /\ Undo(Escaping(p), "x") = HasRead(Append(p, "control"), 2)
         /\ Undo(HasRead(p, 2), "hex") = HasRead(p, 1)
         /\ Undo(HasRead(p, 1), "hex") = HasRead(p, 0)
<1>1. \A h \in Nat : /\ HasRead(p, h).out = p /\ HasRead(p, h).hex = h
                     /\ ~ HasRead(p, h).escape
  BY DEF HasRead
<1>2. Escaping(p).out = p /\ Escaping(p).hex = 0 /\ Escaping(p).escape
  BY DEF Escaping
<1>3. c = "printable" => Undo(HasRead(p, 0), c) = HasRead(Append(p, c), 0)
  BY <1>1, <1>2 DEF Undo
<1>4. Undo(HasRead(p, 0), "backslash") = Escaping(p)
  BY <1>1, <1>2 DEF Undo
<1>5. c \in {"quote", "backslash"} =>
          Undo(Escaping(p), c) = HasRead(Append(p, c), 0)
  BY <1>1, <1>2 DEF Undo
<1>6. Undo(Escaping(p), "n") = HasRead(Append(p, "newline"), 0)
  BY <1>1, <1>2 DEF Undo
<1>7. Undo(Escaping(p), "x") = HasRead(Append(p, "control"), 2)
  BY <1>1, <1>2 DEF Undo
<1>8. Undo(HasRead(p, 2), "hex") = HasRead(p, 1)
  BY <1>1, <1>2 DEF Undo
<1>9. Undo(HasRead(p, 1), "hex") = HasRead(p, 0)
  BY <1>1, <1>2 DEF Undo
<1> QED
  BY <1>3, <1>4, <1>5, <1>6, <1>7, <1>8, <1>9

(* A reader that is not in an escape goes through what is appended for a   *)
(* character and has read that character.                                  *)
LEMMA UndoEscaped ==
  ASSUME NEW p, NEW c \in TextChars, NEW n \in Nat, NEW e, e = Escaped(c), NEW at,
         at[n] = HasRead(p, 0),
         \A i \in 1 .. Len(e) : at[n + i] = Undo(at[n + i - 1], e[i])
  PROVE  /\ at[n + Len(e)] = HasRead(Append(p, c), 0)
         /\ \A i \in 1 .. Len(e) : at[n + i].out \in {p, Append(p, c)}
<1>1. /\ \A h \in Nat : HasRead(Append(p, c), h).out = Append(p, c)
      /\ Escaping(p).out = p
  BY DEF HasRead, Escaping
<1>2. CASE c \in {"quote", "backslash", "newline"}
  <2>1. /\ Len(e) = 2 /\ e[1] = "backslash"
        /\ e[2] = IF c = "newline" THEN "n" ELSE c
    BY <1>2 DEF Escaped
  <2>2. at[n + 1] = Undo(at[n], "backslash")
    BY <2>1
  <2>3. at[n + 2] = Undo(at[n + 1], IF c = "newline" THEN "n" ELSE c)
    BY <2>1
  <2>4. at[n + 1] = Escaping(p)
    BY <2>2, UndoTurns
  <2>5. at[n + 2] = HasRead(Append(p, c), 0)
    BY <1>2, <2>3, <2>4, UndoTurns
  <2> QED
    BY <1>1, <2>1, <2>4, <2>5
<1>3. CASE c = "control"
  <2>1. Len(e) = 4 /\ e[1] = "backslash" /\ e[2] = "x" /\ e[3] = "hex" /\ e[4] = "hex"
    BY <1>3 DEF Escaped
  <2>2. at[n + 1] = Undo(at[n], "backslash")
    BY <2>1
  <2>3. at[n + 2] = Undo(at[n + 1], "x")
    BY <2>1
  <2>4. at[n + 3] = Undo(at[n + 2], "hex")
    BY <2>1
  <2>5. at[n + 4] = Undo(at[n + 3], "hex")
    BY <2>1
  <2>6. at[n + 1] = Escaping(p)
    BY <2>2, UndoTurns
  <2>7. at[n + 2] = HasRead(Append(p, c), 2)
    BY <1>3, <2>3, <2>6, UndoTurns
  <2>8. at[n + 3] = HasRead(Append(p, c), 1)
    BY <2>4, <2>7, UndoTurns
  <2>9. at[n + 4] = HasRead(Append(p, c), 0)
    BY <2>5, <2>8, UndoTurns
  <2>10. /\ at[n + 1].out = p /\ at[n + 2].out = Append(p, c)
         /\ at[n + 3].out = Append(p, c) /\ at[n + 4].out = Append(p, c)
    BY <1>1, <2>6, <2>7, <2>8, <2>9
  <2>11. \A i \in 1 .. 4 : i \in {1, 2, 3, 4}
    OBVIOUS
  <2> QED
    BY <2>1, <2>9, <2>10, <2>11
<1>4. CASE c = "printable"
  <2>1. Len(e) = 1 /\ e[1] = c
    BY <1>4 DEF Escaped
  <2>2. at[n + 1] = Undo(at[n], c)
    BY <2>1
  <2>3. at[n + 1] = HasRead(Append(p, c), 0)
    BY <1>4, <2>2, UndoTurns
  <2> QED
    BY <1>1, <2>1, <2>3
<1> QED
  BY <1>2, <1>3, <1>4 DEF TextChars

(* How s reads when its escapes are undone: all of p at the end, and a     *)
(* beginning of p everywhere before.                                       *)
Unescapes(s, p) ==
    /\ s \in Seq(Chars)
    /\ Undos(s)[Len(s)] = HasRead(p, 0)
    /\ \A k \in 0 .. Len(s) : \E n \in 0 .. Len(p) : Undos(s)[k].out = SubSeq(p, 1, n)

(* What is appended for one more character reads as one more character. *)
LEMMA UnescapesStep ==
  ASSUME NEW p \in Seq(TextChars), NEW s, Unescapes(s, p), NEW c \in TextChars
  PROVE  Unescapes(s \o Escaped(c), Append(p, c))
<1> DEFINE e == Escaped(c)
           t == s \o e
           q == Append(p, c)
           m == Len(s)
           at == Undos(t)
<1>1. c \in Chars /\ s \in Seq(Chars)
  BY DEF Chars, Unescapes
<1>2. e \in Seq(Chars) /\ t \in Seq(Chars)
  BY <1>1, EscapedClean, CleanChars
<1>3. /\ m \in Nat /\ Len(e) \in Nat /\ Len(t) = m + Len(e)
      /\ \A i \in 1 .. m : s[i] = t[i]
      /\ \A i \in 1 .. Len(e) : t[m + i] = e[i]
  BY <1>1, <1>2, ConcatProperties, LenProperties
<1>4. \A i \in 0 .. m : Undos(s)[i] = at[i]
  <2>1. m <= Len(s) /\ m <= Len(t)
    BY <1>3
  <2> HIDE DEF t, m
  <2> QED
    BY <1>1, <1>2, <1>3, <2>1, UndosAgree DEF m, at
<1>5. at[m] = HasRead(p, 0)
  BY <1>3, <1>4 DEF Unescapes
<1>6. \A i \in 1 .. m + Len(e) : at[i] = Undo(at[i - 1], t[i])
  BY <1>2, <1>3, UndosDef
<1>7. \A i \in 1 .. Len(e) : at[m + i] = Undo(at[m + i - 1], e[i])
  BY <1>3, <1>6
<1>8. /\ at[m + Len(e)] = HasRead(q, 0)
      /\ \A i \in 1 .. Len(e) : at[m + i].out \in {p, q}
  <2> HIDE DEF e, m, at
  <2> QED
    BY <1>3, <1>5, <1>7, UndoEscaped DEF e
<1>9. /\ Len(p) \in Nat /\ Len(q) = Len(p) + 1
      /\ p = SubSeq(q, 1, Len(p)) /\ q = SubSeq(q, 1, Len(q))
      /\ \A n \in 0 .. Len(p) : SubSeq(p, 1, n) = SubSeq(q, 1, n)
  <2>1. q \in Seq(TextChars) /\ Len(p) \in Nat /\ Len(q) = Len(p) + 1
    BY AppendProperties
  <2>2. \A n \in 0 .. Len(p) : SubSeq(p, 1, n) = SubSeq(q, 1, n)
    OBVIOUS
  <2>3. SubSeq(p, 1, Len(p)) = p /\ SubSeq(q, 1, Len(q)) = q
    BY <2>1, SubSeqFull
  <2> QED
    BY <2>1, <2>2, <2>3
<1>10. ASSUME NEW k \in 0 .. Len(t)
       PROVE  \E n \in 0 .. Len(q) : at[k].out = SubSeq(q, 1, n)
  <2>1. CASE k \in 0 .. m
    <3>1. PICK n \in 0 .. Len(p) : Undos(s)[k].out = SubSeq(p, 1, n)
      BY <2>1 DEF Unescapes
    <3>2. n \in 0 .. Len(q) /\ at[k].out = SubSeq(q, 1, n)
      BY <1>4, <1>9, <2>1, <3>1
    <3> QED
      BY <3>2
  <2>2. CASE k \notin 0 .. m
    <3>1. k - m \in 1 .. Len(e) /\ k = m + (k - m)
      BY <1>3, <2>2
    <3>2. at[k].out \in {p, q}
      BY <1>8, <3>1
    <3>3. Len(p) \in 0 .. Len(q) /\ Len(q) \in 0 .. Len(q)
      BY <1>9
    <3> QED
      BY <1>9, <3>2, <3>3
  <2> QED
    BY <2>1, <2>2
<1>11. at[Len(t)] = HasRead(q, 0)
  BY <1>3, <1>8
<1> QED
  BY <1>2, <1>10, <1>11 DEF Unescapes

(* All that is appended for a text reads as that text. *)
LEMMA EscapesUndone ==
  ASSUME NEW s \in Seq(TextChars)
  PROVE  Unescapes(Escapes(s)[Len(s)], s)
<1> DEFINE n == Len(s)
           out == Escapes(s)
           p(i) == SubSeq(s, 1, i)
           T == {i \in 0 .. n : Unescapes(out[i], p(i))}
<1>1. n \in Nat /\ s \in Seq(Chars)
  <2>1. TextChars \subseteq Chars
    BY DEF Chars
  <2> QED
    BY <2>1, SeqMonotonic
<1>2. out[0] = <<>> /\ \A i \in 1 .. n : out[i] = out[i - 1] \o Escaped(s[i])
  <2> HIDE DEF out
  <2> QED
    BY <1>1, EscapesDef DEF out
<1>3. /\ p(0) = <<>> /\ p(n) = s
      /\ \A i \in 1 .. n : /\ s[i] \in TextChars
                          /\ p(i - 1) \in Seq(TextChars)
                          /\ p(i) = Append(p(i - 1), s[i])
  <2>1. p(0) = <<>>
    BY SubSeqEmpty
  <2>2. p(n) = s
    BY SubSeqFull
  <2>3. ASSUME NEW i \in 1 .. n
        PROVE  /\ s[i] \in TextChars
               /\ p(i - 1) \in Seq(TextChars)
               /\ p(i) = Append(p(i - 1), s[i])
    <3>1. s[i] \in TextChars /\ p(i - 1) \in Seq(TextChars)
      OBVIOUS
    <3>2. 1 \in 1 .. n /\ i \in 1 .. n
      OBVIOUS
    <3>3. p(i) = p(i - 1) \o <<s[i]>>
      BY <3>2, SubSeqRecursiveSecond
    <3> QED
      BY <3>1, <3>3, AppendIsConcat
  <2> QED
    BY <2>1, <2>2, <2>3
<1> HIDE DEF n, out, p
<1>4. 0 \in T
  <2>1. <<>> \in Seq(Chars) /\ Len(<<>>) = 0
    BY EmptySeq
  <2>2. Undos(<<>>)[0] = HasRead(<<>>, 0)
    BY <2>1, UndosDef
  <2>3. HasRead(<<>>, 0).out = SubSeq(<<>>, 1, 0)
    <3>1. SubSeq(<<>>, 1, 0) = <<>>
      BY SubSeqEmpty
    <3> QED
      BY <3>1 DEF HasRead
  <2> DEFINE none == <<>>
  <2>4. Unescapes(none, none)
    <3> HIDE DEF none
    <3>1. none \in Seq(Chars) /\ Len(none) = 0
      BY <2>1 DEF none
    <3>2. Undos(none)[0] = HasRead(none, 0) /\ HasRead(none, 0).out = SubSeq(none, 1, 0)
      BY <2>2, <2>3 DEF none
    <3> QED
      BY <3>1, <3>2 DEF Unescapes
  <2> QED
    BY <1>1, <1>2, <1>3, <2>4
<1>5. ASSUME NEW i \in 1 .. n, i - 1 \in T
      PROVE  i \in T
  <2>1. Unescapes(out[i - 1], p(i - 1))
    BY <1>5
  <2>2. Unescapes(out[i - 1] \o Escaped(s[i]), Append(p(i - 1), s[i]))
    BY <1>3, <2>1, UnescapesStep
  <2>3. Unescapes(out[i], p(i))
    BY <1>2, <1>3, <2>2
  <2>4. i \in 0 .. n
    BY <1>1
  <2> QED
    BY <2>3, <2>4
<1> HIDE DEF T
<1>6. 0 .. n \subseteq T
  BY <1>1, <1>4, <1>5, Upwards
<1>7. n \in T
  BY <1>1, <1>6
<1>8. Unescapes(out[n], p(n))
  BY <1>7 DEF T
<1> QED
  BY <1>3, <1>8 DEF out, n

(* What is logged of a text reads as the text, or as a beginning of it     *)
(* that was cut, for every text and every limit.                           *)
THEOREM FaithfulCorrect == InputSpec => []Faithful
<1>1. ASSUME InputType
      PROVE  Faithful
  <2> DEFINE u == Escapes(text)[Len(text)]
             m == MAX_LOG_STRING_LENGTH - 3
             dots == <<"dot", "dot", "dot">>
             begun == SubSeq(u, 1, m)
             s == sanitize_for_log(text)
  <2>1. text \in Seq(TextChars)
    BY <1>1 DEF InputType
  <2>2. Unescapes(u, text)
    BY <2>1, EscapesUndone
  <2>3. u \in Seq(Chars) /\ Len(u) \in Nat /\ m \in Nat /\ MAX_LOG_STRING_LENGTH = m + 3
    BY <2>2, LenProperties DEF Unescapes
  <2>4. CASE Len(u) <= MAX_LOG_STRING_LENGTH
    <3>1. s = u
      BY <2>3, <2>4 DEF sanitize_for_log, Cut
    <3>2. Undone(u) = text
      BY <2>2 DEF Unescapes, Undone, HasRead
    <3> HIDE DEF u
    <3> QED
      BY <2>4, <3>1, <3>2 DEF Faithful, u
  <2>5. CASE Len(u) > MAX_LOG_STRING_LENGTH
    <3>1. s = begun \o dots
      BY <2>3, <2>5 DEF sanitize_for_log, Cut
    <3> HIDE DEF u, m
    <3>2. /\ begun \in Seq(Chars) /\ Len(begun) = m
          /\ \A i \in 1 .. m : begun[i] = u[i]
      <4>1. \A i \in 1 .. m : u[i] \in Chars
        BY <2>3, <2>5, ElementOfSeq
      <4>2. /\ begun \in Seq(Chars)
            /\ Len(begun) = IF 1 <= m THEN m - 1 + 1 ELSE 0
            /\ \A i \in 1 .. m - 1 + 1 : begun[i] = u[1 + i - 1]
        BY <2>3, <4>1, SubSeqProperties
      <4> QED
        BY <2>3, <4>2
    <3>3. SubSeq(s, 1, Len(s) - 3) = begun
      <4>1. dots \in Seq(Chars) /\ Len(dots) = 3
        <5>1. "dot" \in Chars
          BY DEF Chars, Letters
        <5> QED
          BY <5>1
      <4> HIDE DEF begun, dots
      <4>2. /\ s \in Seq(Chars) /\ Len(s) = m + 3
            /\ \A i \in 1 .. m : s[i] = begun[i]
        <5> DEFINE r == begun \o dots
        <5>1. /\ r \in Seq(Chars) /\ Len(r) = Len(begun) + Len(dots)
              /\ \A i \in 1 .. Len(begun) + Len(dots) :
                    r[i] = IF i <= Len(begun) THEN begun[i] ELSE dots[i - Len(begun)]
          BY <3>2, <4>1, ConcatProperties
        <5> HIDE DEF s, r
        <5>2. s = r
          BY <3>1 DEF r
        <5> QED
          BY <2>3, <3>2, <4>1, <5>1, <5>2
      <4> DEFINE b == SubSeq(s, 1, m)
      <4>3. \A i \in 1 .. m : s[i] \in Chars
        BY <3>2, <4>2, ElementOfSeq
      <4>4. /\ b \in Seq(Chars)
            /\ Len(b) = IF 1 <= m THEN m - 1 + 1 ELSE 0
            /\ \A i \in 1 .. m - 1 + 1 : b[i] = s[1 + i - 1]
        BY <2>3, <4>3, SubSeqProperties
      <4> HIDE DEF s, b
      <4>5. Len(b) = Len(begun) /\ \A i \in 1 .. Len(b) : b[i] = begun[i]
        BY <2>3, <3>2, <4>2, <4>4
      <4>6. b = begun
        BY <3>2, <4>4, <4>5, SeqEqual
      <4>7. Len(s) - 3 = m
        BY <2>3, <4>2
      <4> QED
        BY <4>6, <4>7 DEF b
    <3> HIDE DEF begun, s
    <3>4. m <= Len(u) /\ m <= Len(begun) /\ m \in 0 .. m /\ m \in 0 .. Len(u)
      BY <2>3, <2>5, <3>2
    <3>5. \A i \in 0 .. m : Undos(u)[i] = Undos(begun)[i]
      BY <2>3, <3>2, <3>4, UndosAgree
    <3>6. \E n \in 0 .. Len(text) : Undos(u)[m].out = SubSeq(text, 1, n)
      BY <2>2, <3>4 DEF Unescapes
    <3>7. \E n \in 0 .. Len(text) : Undone(begun) = SubSeq(text, 1, n)
      BY <3>2, <3>4, <3>5, <3>6 DEF Undone
    <3>8. ~ (Len(u) <= MAX_LOG_STRING_LENGTH)
      BY <2>3, <2>5
    <3> QED
      BY <3>3, <3>7, <3>8 DEF Faithful, s, u
  <2> QED
    BY <2>3, <2>4, <2>5
<1> QED
  BY <1>1, InputCorrect, PTL

-----------------------------------------------------------------------------
(* x does not stand twice in a row. *)
NoTwo(s, x) == \A i \in 1 .. Len(s) - 1 : s[i] # x \/ s[i + 1] # x

(* It does not where two sequences meet unless it ends the one and begins  *)
(* the other,                                                              *)
LEMMA NoTwoConcat ==
  ASSUME NEW S, NEW s \in Seq(S), NEW u \in Seq(S), NEW x, NoTwo(s, x), NoTwo(u, x),
         Len(s) > 0 /\ Len(u) > 0 => s[Len(s)] # x \/ u[1] # x,
         NEW t, t = s \o u
  PROVE  NoTwo(t, x)
<1> DEFINE m == Len(s)
           n == Len(u)
<1>1. m \in Nat /\ n \in Nat /\ Len(t) = m + n
  BY ConcatProperties, LenProperties
<1>2. /\ \A i \in 1 .. m : t[i] = s[i]
      /\ \A i \in 1 .. n : t[m + i] = u[i]
  BY <1>1, ConcatProperties
<1> HIDE DEF m, n
<1>3. ASSUME NEW i \in 1 .. m + n - 1
      PROVE  t[i] # x \/ t[i + 1] # x
  <2>1. CASE i < m
    <3>1. i \in 1 .. m - 1 /\ i \in 1 .. m /\ i + 1 \in 1 .. m
      BY <1>1, <2>1
    <3>2. s[i] # x \/ s[i + 1] # x
      BY <3>1 DEF NoTwo, m
    <3> QED
      BY <1>2, <3>1, <3>2
  <2>2. CASE i = m
    <3>1. m \in 1 .. m /\ 1 \in 1 .. n
      BY <1>1, <2>2
    <3>2. s[m] # x \/ u[1] # x
      BY <1>1, <3>1 DEF m, n
    <3> QED
      BY <1>2, <2>2, <3>1, <3>2
  <2>3. CASE i > m
    <3>1. /\ i - m \in 1 .. n - 1 /\ i - m \in 1 .. n /\ i - m + 1 \in 1 .. n
          /\ i = m + (i - m) /\ i + 1 = m + (i - m + 1)
      BY <1>1, <2>3
    <3>2. u[i - m] # x \/ u[i - m + 1] # x
      BY <3>1 DEF NoTwo, n
    <3>3. t[i] = u[i - m] /\ t[i + 1] = u[i - m + 1]
      BY <1>2, <3>1
    <3> QED
      BY <3>2, <3>3
  <2> QED
    BY <1>1, <2>1, <2>2, <2>3
<1> QED
  BY <1>1, <1>3 DEF NoTwo

(* nor in a beginning of a sequence in which it does not. *)
LEMMA NoTwoBeginning ==
  ASSUME NEW S, NEW s \in Seq(S), NEW n \in 0 .. Len(s), NEW t, t = SubSeq(s, 1, n)
  PROVE  /\ t \in Seq(S) /\ Len(t) = n /\ \A i \in 1 .. n : t[i] = s[i]
         /\ \A x : NoTwo(s, x) => NoTwo(t, x)
<1>1. Len(s) \in Nat /\ \A i \in 1 .. n : s[i] \in S
  BY LenProperties, ElementOfSeq
<1>2. t \in Seq(S) /\ Len(t) = n /\ \A i \in 1 .. n : t[i] = s[i]
  <2>1. /\ t \in Seq(S)
        /\ Len(t) = IF 1 <= n THEN n - 1 + 1 ELSE 0
        /\ \A i \in 1 .. n - 1 + 1 : t[i] = s[1 + i - 1]
    BY <1>1, SubSeqProperties
  <2> QED
    BY <1>1, <2>1
<1>3. ASSUME NEW x, NoTwo(s, x)
      PROVE  NoTwo(t, x)
  <2> SUFFICES ASSUME NEW i \in 1 .. n - 1
               PROVE  t[i] # x \/ t[i + 1] # x
    BY <1>2 DEF NoTwo
  <2>1. i \in 1 .. n /\ i + 1 \in 1 .. n /\ i \in 1 .. Len(s) - 1
    BY <1>1
  <2> QED
    BY <1>2, <1>3, <2>1 DEF NoTwo
<1> QED
  BY <1>2, <1>3

-----------------------------------------------------------------------------
(* The states of the scan of a path. *)
KeptChars == PathChars \ {"other"}

ScanStates == [kept : Seq(KeptChars), last_was_slash : BOOLEAN, found_dot_dot : BOOLEAN,
               dot_count : Nat, used : Nat]

(* What a turn may do.  It leaves the scan as it is, *)
Passes(new, scan, s, i) ==
    /\ new = scan
    /\ \/ Len(scan.kept) >= MAX_PATH_LENGTH
       \/ scan.used = 0 /\ s[i] = "slash" /\ scan.last_was_slash
       \/ scan.used = 0 /\ s[i] = "percent" /\ Meaning(s, i) = <<>>

(* goes over a digit that a percent sign has used up, *)
Skips(new, scan) ==
    /\ scan.used > 0 /\ new.used = scan.used - 1
    /\ new.kept = scan.kept
    /\ new.last_was_slash = scan.last_was_slash
    /\ new.dot_count = scan.dot_count /\ new.found_dot_dot = scan.found_dot_dot

(* or keeps a slash, *)
KeepsSlash(new, scan, s, i) ==
    /\ s[i] = "slash" /\ ~ scan.last_was_slash
    /\ new.kept = Append(scan.kept, "slash") /\ new.last_was_slash
    /\ new.dot_count = 0 /\ ~ new.found_dot_dot

(* a dot, *)
KeepsDot(new, scan, s, i) ==
    /\ s[i] = "dot"
    /\ new.kept = Append(scan.kept, "dot") /\ ~ new.last_was_slash
    /\ new.dot_count = scan.dot_count + 1
    /\ scan.found_dot_dot \/ scan.dot_count + 1 >= 2 => new.found_dot_dot

(* another character or what replaces it, *)
KeepsChar(new, scan, s, i) ==
    /\ s[i] \in {"hex", "word", "other"}
    /\ \E c \in {"hex", "word"} : Meaning(s, i) = <<c>> /\ new.kept = Append(scan.kept, c)
    /\ ~ new.last_was_slash /\ (new.found_dot_dot => scan.found_dot_dot)
    /\ s[i] = "other" /\ scan.found_dot_dot => new.found_dot_dot

(* or three of them. *)
AnEscape == <<"percent", "hex", "hex">>

KeepsEscape(new, scan, s, i) ==
    /\ i + 2 <= Len(s) /\ s[i] = "percent" /\ s[i + 1] = "hex" /\ s[i + 2] = "hex"
    /\ new.kept = scan.kept \o AnEscape
    /\ ~ new.last_was_slash /\ ~ new.found_dot_dot

Keeps(new, scan, s, i) ==
    /\ Len(scan.kept) < MAX_PATH_LENGTH /\ scan.used = 0
    /\ \/ /\ new.used = 0
          /\ KeepsSlash(new, scan, s, i) \/ KeepsDot(new, scan, s, i) \/ KeepsChar(new, scan, s, i)
       \/ new.used = 2 /\ KeepsEscape(new, scan, s, i)

(* What the fields of a state are.                                         *)
LEMMA ScanFields ==
  ASSUME NEW scan \in ScanStates
  PROVE  /\ scan.kept \in Seq(KeptChars) /\ scan.last_was_slash \in BOOLEAN
         /\ scan.found_dot_dot \in BOOLEAN /\ scan.dot_count \in Nat /\ scan.used \in Nat
         /\ Len(scan.kept) \in Nat
<1>1. scan.kept \in Seq(KeptChars)
  BY DEF ScanStates
<1> QED
  BY <1>1, LenProperties DEF ScanStates

Forgetting(scan, k) ==
    [scan EXCEPT !.kept = k, !.last_was_slash = FALSE, !.dot_count = 0, !.found_dot_dot = FALSE]

Remembering(scan, k) == [scan EXCEPT !.kept = k, !.last_was_slash = FALSE, !.dot_count = 0]

UsingTwo(scan) == [scan EXCEPT !.used = 2]

(* The fields of a state with other characters kept, with or without the   *)
(* forgetting of the dots, and of one with other characters used up.       *)
LEMMA KeptFields ==
  ASSUME NEW scan \in ScanStates, NEW k \in Seq(KeptChars), NEW new,
         new = Forgetting(scan, k)
  PROVE  /\ new \in ScanStates /\ new.kept = k /\ ~ new.last_was_slash /\ new.used = scan.used
         /\ ~ new.found_dot_dot
BY DEF ScanStates, Forgetting

(* The dots are still known when only their count is forgotten,            *)
LEMMA ReplacedFields ==
  ASSUME NEW scan \in ScanStates, NEW k \in Seq(KeptChars), NEW new,
         new = Remembering(scan, k)
  PROVE  /\ new \in ScanStates /\ new.kept = k /\ ~ new.last_was_slash /\ new.used = scan.used
         /\ new.found_dot_dot = scan.found_dot_dot
BY DEF ScanStates, Remembering

(* and nothing else changes when characters are used up.                   *)
LEMMA UsedFields ==
  ASSUME NEW scan \in ScanStates, NEW new, new = UsingTwo(scan)
  PROVE  /\ new \in ScanStates /\ new.kept = scan.kept /\ new.used = 2
         /\ new.last_was_slash = scan.last_was_slash
         /\ new.dot_count = scan.dot_count /\ new.found_dot_dot = scan.found_dot_dot
BY DEF ScanStates, UsingTwo

(* Characters that are allowed are kept, and the dots forgotten.           *)
LEMMA AllowedFields ==
  ASSUME NEW scan \in ScanStates, NEW chars \in Seq(KeptChars), NEW new, new = Allowed(scan, chars)
  PROVE  /\ new \in ScanStates /\ new.kept = scan.kept \o chars
         /\ ~ new.last_was_slash /\ new.used = scan.used /\ ~ new.found_dot_dot
<1> DEFINE k == scan.kept \o chars
<1>1. k \in Seq(KeptChars)
  BY ScanFields, ConcatProperties
<1>2. new = Forgetting(scan, k)
  BY DEF Allowed, Forgetting
<1> HIDE DEF k
<1>3. /\ new \in ScanStates /\ new.kept = k
      /\ ~ new.last_was_slash /\ new.used = scan.used /\ ~ new.found_dot_dot
  BY <1>1, <1>2, KeptFields
<1> QED
  BY <1>3 DEF k

(* A turn does one of these, and its result is a state of the scan. *)
LEMMA StepCases ==
  ASSUME NEW scan \in ScanStates, NEW s \in Seq(PathChars), NEW i \in 1 .. Len(s),
         NEW new, new = Step(scan, s, i)
  PROVE  /\ new \in ScanStates
         /\ \/ Passes(new, scan, s, i)
            \/ Len(scan.kept) < MAX_PATH_LENGTH /\ Skips(new, scan)
            \/ Keeps(new, scan, s, i)
<1>1. /\ scan.kept \in Seq(KeptChars) /\ scan.last_was_slash \in BOOLEAN
      /\ scan.found_dot_dot \in BOOLEAN /\ scan.dot_count \in Nat /\ scan.used \in Nat
      /\ Len(scan.kept) \in Nat
  BY ScanFields
<1>2. s[i] \in PathChars /\ Len(s) \in Nat
  BY ElementOfSeq, LenProperties
<1>3. {"slash", "dot", "hex", "word", "percent"} \subseteq KeptChars
  BY DEF KeptChars, PathChars
<1>4. /\ \A c \in KeptChars : /\ Append(scan.kept, c) = scan.kept \o <<c>>
                             /\ scan.kept \o <<c>> \in Seq(KeptChars)
      /\ scan.kept \o <<"percent", "hex", "hex">> \in Seq(KeptChars)
  <2>1. \A c \in KeptChars : <<c>> \in Seq(KeptChars)
    OBVIOUS
  <2>2. <<"percent", "hex", "hex">> \in Seq(KeptChars)
    BY <1>3
  <2> QED
    BY <1>1, <2>1, <2>2, AppendIsConcat, ConcatProperties
<1>5. CASE Len(scan.kept) >= MAX_PATH_LENGTH
  BY <1>5 DEF Step, Passes
<1> SUFFICES ASSUME Len(scan.kept) < MAX_PATH_LENGTH
             PROVE  /\ new \in ScanStates
                    /\ Passes(new, scan, s, i) \/ Skips(new, scan) \/ Keeps(new, scan, s, i)
  BY <1>1, <1>5
<1>6. CASE scan.used > 0
  <2>1. new = [scan EXCEPT !.used = @ - 1]
    BY <1>1, <1>6 DEF Step
  <2> QED
    BY SMTT(30), <1>1, <1>6, <2>1 DEF ScanStates, Skips
<1>7. CASE scan.used = 0 /\ s[i] = "slash"
  <2>1. new = Slash(scan)
    BY <1>1, <1>7 DEF Step
  <2>2. CASE scan.last_was_slash
    BY <1>7, <2>1, <2>2 DEF Slash, Passes
  <2>3. CASE ~ scan.last_was_slash
    <3>1. new = [scan EXCEPT !.kept = @ \o <<"slash">>, !.last_was_slash = TRUE,
                             !.dot_count = 0, !.found_dot_dot = FALSE]
      BY <1>3, <1>4, <2>1, <2>3 DEF Slash
    <3> QED
      BY ZenonT(30), <1>1, <1>3, <1>4, <1>7, <2>3, <3>1 DEF ScanStates, Keeps, KeepsSlash
  <2> QED
    BY <2>2, <2>3
<1>8. CASE scan.used = 0 /\ s[i] = "dot"
  <2> DEFINE k == scan.kept \o <<"dot">>
             d == scan.dot_count + 1
  <2>1. new = Dot(scan) /\ k \in Seq(KeptChars) /\ d \in Nat
    BY <1>1, <1>3, <1>4, <1>8 DEF Step
  <2>2. new = [scan EXCEPT !.kept = k, !.last_was_slash = FALSE, !.dot_count = d,
                           !.found_dot_dot = @ \/ d >= 2]
    BY <1>3, <1>4, <2>1 DEF Dot
  <2> HIDE DEF k, d
  <2>3. /\ new \in ScanStates /\ new.kept = k /\ ~ new.last_was_slash /\ new.dot_count = d
        /\ new.used = scan.used /\ (scan.found_dot_dot \/ d >= 2 => new.found_dot_dot)
    BY <1>1, <2>1, <2>2 DEF ScanStates
  <2> QED
    BY <1>8, <2>3 DEF Keeps, KeepsDot, k, d
<1>9. CASE scan.used = 0 /\ s[i] \in {"hex", "word"}
  <2>1. new = Allowed(scan, <<s[i]>>) /\ Meaning(s, i) = <<s[i]>>
    BY <1>1, <1>9 DEF Step, Meaning
  <2>2. <<s[i]>> \in Seq(KeptChars)
    BY <1>3, <1>9
  <2>3. /\ new \in ScanStates /\ new.kept = scan.kept \o <<s[i]>>
        /\ ~ new.last_was_slash /\ new.used = scan.used /\ ~ new.found_dot_dot
    BY <2>1, <2>2, AllowedFields
  <2> QED
    BY SMTT(30), <1>9, <2>1, <2>3 DEF Keeps, KeepsChar
<1>10. CASE scan.used = 0 /\ s[i] = "percent"
  <2>1. new = Percent(scan, s, i)
    BY <1>1, <1>10 DEF Step
  <2>2. CASE i + 2 <= Len(s) /\ s[i + 1] = "hex" /\ s[i + 2] = "hex"
    <3> DEFINE e == <<"percent", "hex", "hex">>
               u == SubSeq(s, i, i + 2)
    <3>1. u = e
      <4>1. \A x \in i .. i + 2 : s[x] \in PathChars
        BY <1>2, <2>2, ElementOfSeq
      <4>2. i \in Int /\ i + 2 \in Int
        BY <1>2
      <4>3. /\ u \in Seq(PathChars) /\ Len(u) = IF i <= i + 2 THEN i + 2 - i + 1 ELSE 0
            /\ \A x \in 1 .. i + 2 - i + 1 : u[x] = s[i + x - 1]
        BY <4>1, <4>2, SubSeqProperties
      <4> HIDE DEF u
      <4>4. Len(u) = 3 /\ u[1] = "percent" /\ u[2] = "hex" /\ u[3] = "hex"
        BY <1>2, <1>10, <2>2, <4>3
      <4> QED
        BY <4>3, <4>4
    <3>2. e \in Seq(KeptChars)
      BY <1>3
    <3> HIDE DEF e
    <3> DEFINE allowed == Allowed(scan, e)
    <3>3. new = UsingTwo(allowed)
      BY <2>1, <2>2, <3>1 DEF Percent, UsingTwo
    <3>4. allowed \in ScanStates
      BY <3>2, AllowedFields
    <3>5. allowed.kept = scan.kept \o e /\ ~ allowed.last_was_slash /\ ~ allowed.found_dot_dot
      BY <3>2, AllowedFields
    <3> HIDE DEF allowed, u
    <3>6. /\ new \in ScanStates /\ new.kept = allowed.kept
          /\ new.last_was_slash = allowed.last_was_slash /\ new.used = 2
          /\ new.found_dot_dot = allowed.found_dot_dot
      BY <3>3, <3>4, UsedFields
    <3> QED
      BY <1>10, <2>2, <3>5, <3>6 DEF Keeps, KeepsEscape, AnEscape, e
  <2>3. CASE ~ (i + 2 <= Len(s) /\ s[i + 1] = "hex" /\ s[i + 2] = "hex")
    <3>1. new = scan
      BY <2>1, <2>3 DEF Percent
    <3>2. Meaning(s, i) = <<>>
      BY <1>10, <2>3 DEF Meaning
    <3> QED
      BY <1>10, <3>1, <3>2 DEF Passes
  <2> QED
    BY <2>2, <2>3
<1>11. CASE scan.used = 0 /\ s[i] = "other"
  <2> DEFINE k == Append(scan.kept, "word")
  <2>1. new = Replaced(scan) /\ Meaning(s, i) = <<"word">>
    BY <1>1, <1>11 DEF Step, Meaning, Underscore
  <2>2. k = scan.kept \o <<"word">>
    BY <1>3, <1>4
  <2>3. k \in Seq(KeptChars)
    BY <1>3, <1>4
  <2>4. new = Remembering(scan, k)
    BY <2>1 DEF Replaced, Underscore, Remembering
  <2> HIDE DEF k
  <2>5. /\ new \in ScanStates /\ new.kept = k /\ ~ new.last_was_slash /\ new.used = scan.used
        /\ new.found_dot_dot = scan.found_dot_dot
    BY <2>3, <2>4, ReplacedFields
  <2> QED
    BY <1>11, <2>1, <2>2, <2>5 DEF Keeps, KeepsChar
<1> QED
  BY <1>1, <1>2, <1>6, <1>7, <1>8, <1>9, <1>10, <1>11 DEF PathChars
(* A path that one character has been kept of. *)
LEMMA KeptOne ==
  ASSUME NEW S, NEW k \in Seq(S), NEW c \in S, NEW t, t = Append(k, c)
  PROVE  /\ t \in Seq(S) /\ Len(k) \in Nat /\ Len(t) = Len(k) + 1 /\ t[Len(t)] = c
         /\ \A i \in 1 .. Len(k) : t[i] = k[i]
BY AppendProperties, LenProperties

(* It makes no two in a row unless the same one came last. *)
LEMMA NoTwoAppend ==
  ASSUME NEW S, NEW k \in Seq(S), NEW c \in S, NEW t, t = Append(k, c),
         NEW x, NoTwo(k, x), c # x \/ Len(k) = 0 \/ k[Len(k)] # x
  PROVE  NoTwo(t, x)
BY KeptOne DEF NoTwo

(* A path that more has been kept of. *)
LEMMA KeptMore ==
  ASSUME NEW S, NEW k \in Seq(S), NEW u \in Seq(S), NEW t, t = k \o u
  PROVE  /\ t \in Seq(S) /\ Len(k) \in Nat /\ Len(t) = Len(k) + Len(u)
         /\ \A i \in 1 .. Len(k) : t[i] = k[i]
         /\ \A i \in 1 .. Len(u) : t[Len(k) + i] = u[i]
BY ConcatProperties, LenProperties

(* A path that an escape has been kept of. *)
LEMMA KeptEscape ==
  ASSUME NEW k \in Seq(KeptChars), NEW t, t = k \o AnEscape
  PROVE  /\ t \in Seq(KeptChars) /\ Len(k) \in Nat /\ Len(t) = Len(k) + 3
         /\ \A i \in 1 .. Len(k) : t[i] = k[i]
         /\ t[Len(k) + 1] = "percent" /\ t[Len(k) + 2] = "hex" /\ t[Len(k) + 3] = "hex"
         /\ \A x : (x # "percent" /\ x # "hex" /\ NoTwo(k, x)) => NoTwo(t, x)
<1> DEFINE u == AnEscape
<1>1. u \in Seq(KeptChars) /\ Len(u) = 3 /\ u[1] = "percent" /\ u[2] = "hex" /\ u[3] = "hex"
  BY DEF AnEscape, KeptChars, PathChars
<1> HIDE DEF u
<1>2. /\ t \in Seq(KeptChars) /\ Len(k) \in Nat /\ Len(t) = Len(k) + Len(u)
      /\ \A i \in 1 .. Len(k) : t[i] = k[i]
      /\ \A i \in 1 .. Len(u) : t[Len(k) + i] = u[i]
  <2>1. t = k \o u
    BY DEF u
  <2>2. u \in Seq(KeptChars)
    BY <1>1
  <2> QED
    BY <2>1, <2>2, KeptMore
<1>3. t[Len(k) + 1] = "percent" /\ t[Len(k) + 2] = "hex" /\ t[Len(k) + 3] = "hex"
  BY <1>1, <1>2
<1>4. ASSUME NEW x, x # "percent", x # "hex", NoTwo(k, x)
      PROVE  NoTwo(t, x)
  <2> SUFFICES ASSUME NEW i \in 1 .. Len(t) - 1
               PROVE  t[i] # x \/ t[i + 1] # x
    BY DEF NoTwo
  <2>1. CASE i < Len(k)
    <3>1. i \in 1 .. Len(k) /\ i + 1 \in 1 .. Len(k) /\ i \in 1 .. Len(k) - 1
      BY <1>2, <2>1
    <3> QED
      BY <1>2, <1>4, <3>1 DEF NoTwo
  <2>2. CASE i >= Len(k)
    <3>1. i + 1 \in {Len(k) + 1, Len(k) + 2, Len(k) + 3}
      BY <1>1, <1>2, <2>2
    <3> QED
      BY <1>3, <1>4, <3>1
  <2> QED
    BY <1>2, <2>1, <2>2
<1> QED
  BY <1>1, <1>2, <1>3, <1>4

-----------------------------------------------------------------------------
(* The loop of the scan is what its definition says. *)
LEMMA ScansDef ==
  ASSUME NEW s \in Seq(PathChars)
  PROVE  /\ Scans(s) \in [0 .. Len(s) -> ScanStates]
         /\ Scans(s)[0] = Start
         /\ \A i \in 1 .. Len(s) : Scans(s)[i] = Step(Scans(s)[i - 1], s, i)
<1> DEFINE S == ScanStates
           n == Len(s)
           base == Start
           Turn(i, v) == Step(v, s, i)
           step == [i \in 1 .. n |-> [v \in S |-> Turn(i, v)]]
           Is(f) == f = [i \in 0 .. n |-> IF i = 0 THEN base ELSE Turn(i, f[i - 1])]
           r == Scans(s)
<1>1. n \in Nat /\ base \in S
  <2>1. <<>> \in Seq(KeptChars)
    BY EmptySeq
  <2> QED
    BY <2>1 DEF ScanStates, Start
<1>2. r = CHOOSE f : Is(f)
  BY DEF Scans
<1>3. \A i \in 1 .. n : \A v \in S : Turn(i, v) \in S
  BY StepCases
<1> HIDE DEF n, Turn, S, base, r
<1>4. step \in [1 .. n -> [S -> S]]
  BY <1>3
<1>5. \E f \in [0 .. n -> S] : f[0] = base /\ \A i \in 1 .. n : f[i] = step[i][f[i - 1]]
  <2> HIDE DEF step
  <2> QED
    BY SMTT(30), <1>1, <1>4, Recursion
<1>6. \E f : Is(f)
  <2>1. PICK f \in [0 .. n -> S] : f[0] = base /\ \A i \in 1 .. n : f[i] = step[i][f[i - 1]]
    BY <1>5
  <2>2. \A i \in 1 .. n : f[i] = Turn(i, f[i - 1])
    BY <1>1, <2>1
  <2> QED
    BY <1>1, <2>1, <2>2
<1> HIDE DEF Is
<1>7. Is(r)
  BY <1>2, <1>6, Zenon
<1>8. /\ r = [i \in 0 .. n |-> r[i]] /\ r[0] = base
      /\ \A i \in 1 .. n : r[i] = Turn(i, r[i - 1])
  <2>1. r = [i \in 0 .. n |-> IF i = 0 THEN base ELSE Turn(i, r[i - 1])]
    BY <1>7 DEF Is
  <2>2. \A i \in 0 .. n : r[i] = IF i = 0 THEN base ELSE Turn(i, r[i - 1])
    BY <2>1, Zenon
  <2>3. r = [i \in 0 .. n |-> r[i]]
    BY <2>1, <2>2, Zenon
  <2>4. 0 \in 0 .. n /\ \A i \in 1 .. n : i \in 0 .. n /\ i # 0
    BY ONLY <1>1
  <2> QED
    BY <2>2, <2>3, <2>4, Zenon
<1>9. r \in [0 .. n -> S]
  <2>1. r[0] \in S /\ \A i \in 1 .. n : r[i - 1] \in S => r[i] \in S
    BY <1>1, <1>3, <1>8, Zenon
  <2> QED
    BY <1>1, <1>8, <2>1, Values
<1> QED
  BY <1>8, <1>9 DEF n, Turn, S, base, r

(* What has been kept has no two slashes in a row, and when it ends in one *)
(* the scan knows.                                                         *)
SlashesKnown(scan) ==
    /\ NoTwo(scan.kept, "slash")
    /\ (Len(scan.kept) > 0 /\ scan.kept[Len(scan.kept)] = "slash") => scan.last_was_slash

(* A turn leaves it so, *)
LEMMA StepSlashes ==
  ASSUME NEW scan \in ScanStates, NEW s \in Seq(PathChars), NEW i \in 1 .. Len(s),
         SlashesKnown(scan), NEW new, new = Step(scan, s, i)
  PROVE  SlashesKnown(new)
<1> DEFINE k == scan.kept
           t == new.kept
<1>1. /\ new \in ScanStates
      /\ \/ Passes(new, scan, s, i)
         \/ Len(scan.kept) < MAX_PATH_LENGTH /\ Skips(new, scan)
         \/ Keeps(new, scan, s, i)
  BY StepCases
<1>2. k \in Seq(KeptChars) /\ t \in Seq(KeptChars)
  BY <1>1, ScanFields
<1>3. {"slash", "dot", "hex", "word", "percent"} \subseteq KeptChars
  BY DEF KeptChars, PathChars
<1>4. NoTwo(k, "slash") /\ ((Len(k) > 0 /\ k[Len(k)] = "slash") => scan.last_was_slash)
  BY DEF SlashesKnown
<1>5. ASSUME NEW c \in KeptChars, t = Append(k, c),
             IF c = "slash" THEN ~ scan.last_was_slash /\ new.last_was_slash ELSE TRUE
      PROVE  NoTwo(t, "slash") /\ ((Len(t) > 0 /\ t[Len(t)] = "slash") => new.last_was_slash)
  <2> HIDE DEF t, k
  <2>1. t[Len(t)] = c /\ Len(k) \in Nat
    BY <1>2, <1>5, KeptOne
  <2>2. c # "slash" \/ Len(k) = 0 \/ k[Len(k)] # "slash"
    BY <1>4, <1>5, <2>1
  <2>3. NoTwo(t, "slash")
    BY <1>2, <1>4, <1>5, <2>2, NoTwoAppend
  <2> QED
    BY <1>5, <2>1, <2>3
<1>6. CASE Passes(new, scan, s, i) \/ Skips(new, scan)
  BY <1>6 DEF Passes, Skips, SlashesKnown
<1>7. CASE Keeps(new, scan, s, i) /\ ~ KeepsEscape(new, scan, s, i)
  <2>1. \E c \in KeptChars : /\ t = Append(k, c)
                            /\ IF c = "slash" THEN ~ scan.last_was_slash /\ new.last_was_slash ELSE TRUE
    BY <1>3, <1>7 DEF Keeps, KeepsSlash, KeepsDot, KeepsChar
  <2> QED
    BY <1>5, <2>1 DEF SlashesKnown
<1>8. CASE KeepsEscape(new, scan, s, i)
  <2>1. t = k \o AnEscape
    BY <1>8 DEF KeepsEscape
  <2> HIDE DEF t, k
  <2>2. /\ Len(k) \in Nat /\ Len(t) = Len(k) + 3 /\ t[Len(k) + 3] = "hex"
        /\ \A x : (x # "percent" /\ x # "hex" /\ NoTwo(k, x)) => NoTwo(t, x)
    BY <1>2, <2>1, KeptEscape
  <2>3. NoTwo(t, "slash") /\ t[Len(t)] # "slash"
    BY <1>4, <2>2
  <2> QED
    BY <2>3 DEF SlashesKnown, t
<1> QED
  BY <1>1, <1>6, <1>7, <1>8

(* so the scan ends so. *)
LEMMA ScanSlashes ==
  ASSUME NEW s \in Seq(PathChars)
  PROVE  \A i \in 0 .. Len(s) : SlashesKnown(Scans(s)[i])
<1> DEFINE n == Len(s)
           scan == Scans(s)
           T == {i \in 0 .. n : SlashesKnown(scan[i])}
<1>1. n \in Nat
  BY LenProperties
<1>2. /\ scan \in [0 .. n -> ScanStates] /\ scan[0] = Start
      /\ \A i \in 1 .. n : scan[i] = Step(scan[i - 1], s, i)
  BY ScansDef
<1> HIDE DEF scan
<1>3. 0 \in T
  <2>1. SlashesKnown(Start)
    BY DEF SlashesKnown, NoTwo, Start
  <2> QED
    BY <1>1, <1>2, <2>1
<1>4. ASSUME NEW i \in 1 .. n, i - 1 \in T
      PROVE  i \in T
  <2>1. scan[i - 1] \in ScanStates /\ SlashesKnown(scan[i - 1])
    BY <1>1, <1>2, <1>4
  <2>2. SlashesKnown(Step(scan[i - 1], s, i))
    BY <2>1, StepSlashes
  <2> QED
    BY <1>1, <1>2, <2>2
<1> HIDE DEF T
<1>5. 0 .. n \subseteq T
  BY <1>1, <1>3, <1>4, Upwards
<1> QED
  BY <1>5 DEF T, scan

-----------------------------------------------------------------------------
(* Replacing pairs of dots keeps every slash where it was. *)
LEMMA WithoutPairsKeeps ==
  ASSUME NEW k \in Seq(KeptChars), NEW t, t = WithoutPairs(k)
  PROVE  /\ t \in Seq(KeptChars) /\ Len(t) = Len(k)
         /\ \A i \in 1 .. Len(k) : t[i] \in {k[i], "word"}
         /\ NoTwo(k, "slash") => NoTwo(t, "slash")
<1> DEFINE n == Len(k)
           P(i) == Pairs(k)[i] \/ Pairs(k)[i - 1]
<1>1. n \in Nat /\ \A i \in 1 .. n : k[i] \in KeptChars
  BY LenProperties, ElementOfSeq
<1>2. t = [i \in 1 .. n |-> IF P(i) THEN "word" ELSE k[i]]
  BY DEF WithoutPairs, Underscore
<1> HIDE DEF P, n
<1>3. "word" \in KeptChars
  BY DEF KeptChars, PathChars
<1>4. t \in [1 .. n -> KeptChars] /\ \A i \in 1 .. n : t[i] \in {k[i], "word"}
  BY <1>1, <1>2, <1>3
<1>5. t \in Seq(KeptChars) /\ Len(t) = n
  BY <1>1, <1>4, FunctionIsSeq
<1>6. ASSUME NoTwo(k, "slash")
      PROVE  NoTwo(t, "slash")
  <2>1. \A i \in 1 .. n - 1 : i \in 1 .. n /\ i + 1 \in 1 .. n
    BY <1>1
  <2> QED
    BY <1>4, <1>5, <1>6, <2>1 DEF NoTwo, n
<1> QED
  BY <1>4, <1>5, <1>6 DEF n

-----------------------------------------------------------------------------
(* A path that begins with a slash and has no two in a row. *)
Shaped(s) == s \in Seq(KeptChars) /\ Len(s) >= 1 /\ s[1] = "slash" /\ NoTwo(s, "slash")

(* A path becomes one when it gets its root, *)
LEMMA RootedShaped ==
  ASSUME NEW k \in Seq(KeptChars), NoTwo(k, "slash"), NEW t, t = Rooted(k)
  PROVE  Shaped(t) /\ (NoTwo(k, "dot") => NoTwo(t, "dot"))
<1>1. "slash" \in KeptChars /\ "slash" # "dot"
  BY DEF KeptChars, PathChars
<1>2. Len(k) \in Nat /\ (k = <<>> <=> Len(k) = 0)
  BY EmptySeq, LenProperties
<1>3. CASE k = <<>> \/ k[1] # "slash"
  <2> DEFINE u == <<"slash">>
  <2>1. t = u \o k
    BY <1>3 DEF Rooted
  <2>2. u \in Seq(KeptChars) /\ Len(u) = 1 /\ u[1] = "slash"
    BY <1>1
  <2>3. NoTwo(u, "slash") /\ NoTwo(u, "dot")
    BY <2>2 DEF NoTwo
  <2> HIDE DEF u
  <2>4. u \in Seq(KeptChars)
    BY <2>2
  <2>5. /\ t \in Seq(KeptChars) /\ Len(t) = Len(u) + Len(k)
        /\ \A i \in 1 .. Len(u) : t[i] = u[i]
    BY <2>1, <2>4, KeptMore
  <2>6. Len(t) >= 1 /\ t[1] = "slash"
    BY <1>2, <2>2, <2>5
  <2>7. /\ Len(u) > 0 /\ Len(k) > 0 => u[Len(u)] # "slash" \/ k[1] # "slash"
        /\ Len(u) > 0 /\ Len(k) > 0 => u[Len(u)] # "dot" \/ k[1] # "dot"
    BY <1>1, <1>2, <1>3, <2>2
  <2>8. NoTwo(t, "slash")
    BY <2>1, <2>3, <2>4, <2>7, NoTwoConcat
  <2>9. NoTwo(k, "dot") => NoTwo(t, "dot")
    BY <2>1, <2>3, <2>4, <2>7, NoTwoConcat
  <2> QED
    BY <2>5, <2>6, <2>8, <2>9 DEF Shaped
<1>4. CASE ~ (k = <<>> \/ k[1] # "slash")
  <2>1. t = k
    BY <1>4 DEF Rooted
  <2> QED
    BY <1>2, <1>4, <2>1 DEF Shaped
<1> QED
  BY <1>3, <1>4

(* and stays one when it is limited, *)
LEMMA LimitedShaped ==
  ASSUME NEW s, Shaped(s), NEW t, t = Limited(s)
  PROVE  Shaped(t) /\ Len(t) <= MAX_PATH_LENGTH /\ (NoTwo(s, "dot") => NoTwo(t, "dot"))
<1>1. s \in Seq(KeptChars) /\ Len(s) \in Nat /\ Len(s) >= 1
  BY LenProperties DEF Shaped
<1>2. MAX_PATH_LENGTH \in Nat /\ MAX_PATH_LENGTH >= 1
  BY LengthsAssumption
<1>3. CASE Len(s) > MAX_PATH_LENGTH
  <2>1. MAX_PATH_LENGTH \in 0 .. Len(s) /\ t = SubSeq(s, 1, MAX_PATH_LENGTH)
    BY <1>1, <1>2, <1>3 DEF Limited
  <2>2. /\ t \in Seq(KeptChars) /\ Len(t) = MAX_PATH_LENGTH
        /\ \A i \in 1 .. MAX_PATH_LENGTH : t[i] = s[i]
    BY <1>1, <2>1, NoTwoBeginning
  <2>3. \A x : NoTwo(s, x) => NoTwo(t, x)
    BY <1>1, <2>1, NoTwoBeginning
  <2>4. t[1] = s[1]
    BY <1>2, <2>2
  <2> QED
    BY <1>2, <2>2, <2>3, <2>4 DEF Shaped
<1>4. CASE ~ (Len(s) > MAX_PATH_LENGTH)
  BY <1>1, <1>2, <1>4 DEF Limited
<1> QED
  BY <1>3, <1>4

(* and when the slash at its end goes. *)
LEMMA TrimmedShaped ==
  ASSUME NEW s, Shaped(s), NEW t, t = Trimmed(s)
  PROVE  /\ Shaped(t) /\ Len(t) <= Len(s) /\ (NoTwo(s, "dot") => NoTwo(t, "dot"))
         /\ Len(t) = 1 \/ t[Len(t)] # "slash"
<1> DEFINE Ends(n) == /\ n = 1 \/ s[n] # "slash"
                      /\ \A i \in n + 1 .. Len(s) : s[i] = "slash"
           n == CHOOSE m \in 1 .. Len(s) : Ends(m)
<1>1. s \in Seq(KeptChars) /\ Len(s) \in Nat /\ Len(s) >= 1
  BY LenProperties DEF Shaped
<1>2. t = SubSeq(s, 1, n)
  BY DEF Trimmed
<1>3. \E m \in 1 .. Len(s) : Ends(m)
  <2>1. CASE Len(s) = 1 \/ s[Len(s)] # "slash"
    <3>1. Len(s) \in 1 .. Len(s) /\ Ends(Len(s))
      BY <1>1, <2>1
    <3> QED
      BY <3>1
  <2>2. CASE Len(s) > 1 /\ s[Len(s)] = "slash"
    <3>1. Len(s) - 1 \in 1 .. Len(s) /\ Len(s) - 1 \in 1 .. Len(s) - 1 /\ Len(s) - 1 + 1 = Len(s)
      BY <1>1, <2>2
    <3>2. s[Len(s) - 1] # "slash"
      BY <2>2, <3>1 DEF Shaped, NoTwo
    <3>3. Ends(Len(s) - 1)
      BY <1>1, <2>2, <3>1, <3>2
    <3> QED
      BY <3>1, <3>3
  <2> QED
    BY <1>1, <2>1, <2>2
<1>4. n \in 1 .. Len(s) /\ Ends(n)
  <2> HIDE DEF Ends
  <2> QED
    BY <1>3
<1> HIDE DEF n
<1>5. n \in 0 .. Len(s) /\ n \in Nat /\ n >= 1 /\ n \in 1 .. n /\ 1 \in 1 .. n /\ n <= Len(s)
  BY <1>1, <1>4
<1>6. /\ t \in Seq(KeptChars) /\ Len(t) = n /\ \A i \in 1 .. n : t[i] = s[i]
  BY <1>1, <1>2, <1>5, NoTwoBeginning
<1>7. NoTwo(t, "slash") /\ (NoTwo(s, "dot") => NoTwo(t, "dot"))
  <2>1. \A x : NoTwo(s, x) => NoTwo(t, x)
    BY <1>1, <1>2, <1>5, NoTwoBeginning
  <2> QED
    BY <2>1 DEF Shaped
<1>8. Shaped(t)
  BY <1>5, <1>6, <1>7 DEF Shaped
<1>9. Len(t) = 1 \/ t[Len(t)] # "slash"
  BY <1>4, <1>5, <1>6
<1> QED
  BY <1>5, <1>6, <1>7, <1>8, <1>9

(* What the scan keeps of a path, without the pairs of dots it knows of. *)
Kept(s) ==
    LET scan == Scans(s)[Len(s)]
    IN  IF scan.found_dot_dot THEN WithoutPairs(scan.kept) ELSE scan.kept

(* It has no two slashes in a row either.                                  *)
LEMMA KeptSlashes ==
  ASSUME NEW s \in Seq(PathChars)
  PROVE  Kept(s) \in Seq(KeptChars) /\ NoTwo(Kept(s), "slash")
<1> DEFINE scan == Scans(s)[Len(s)]
<1>1. Len(s) \in Nat /\ Len(s) \in 0 .. Len(s)
  BY LenProperties
<1>2. scan \in ScanStates
  <2>1. Scans(s) \in [0 .. Len(s) -> ScanStates]
    BY ScansDef
  <2> QED
    BY <1>1, <2>1
<1>3. SlashesKnown(scan)
  BY <1>1, ScanSlashes
<1>4. Kept(s) = IF scan.found_dot_dot THEN WithoutPairs(scan.kept) ELSE scan.kept
  BY DEF Kept
<1> HIDE DEF scan
<1>5. scan.kept \in Seq(KeptChars) /\ NoTwo(scan.kept, "slash")
  BY <1>2, <1>3, ScanFields DEF SlashesKnown
<1>6. WithoutPairs(scan.kept) \in Seq(KeptChars) /\ NoTwo(WithoutPairs(scan.kept), "slash")
  BY <1>5, WithoutPairsKeeps
<1> QED
  BY <1>4, <1>5, <1>6

(* A sanitized path is one that the dashboard can compare: a root, no      *)
(* double slash and no slash at the end, nothing that is not allowed, and  *)
(* not too long - for every path and every limit.                          *)
THEOREM PathShapeCorrect == InputSpec => []PathShape
<1>1. InputType => PathShape
  <2> SUFFICES ASSUME InputType
               PROVE  PathShape
    OBVIOUS
  <2> DEFINE r == sanitize_path(path)
  <2>1. path \in Seq(PathChars)
    BY DEF InputType
  <2>2. Shaped(r) /\ (Len(r) = 1 \/ r[Len(r)] # "slash") /\ Len(r) <= MAX_PATH_LENGTH
    <3>1. CASE path = <<>>
      <4>1. r = <<"slash">>
        BY <3>1 DEF sanitize_path
      <4>2. r \in Seq(KeptChars) /\ Len(r) = 1 /\ r[1] = "slash"
        BY <4>1 DEF KeptChars, PathChars
      <4> HIDE DEF r
      <4> QED
        BY <4>2, LengthsAssumption DEF Shaped, NoTwo
    <3>2. CASE path # <<>>
      <4> DEFINE k == Kept(path)
                 rooted == Rooted(k)
                 limited == Limited(rooted)
      <4>1. r = Trimmed(limited)
        BY <3>2 DEF sanitize_path, Kept
      <4> HIDE DEF k, limited, rooted, r
      <4>2. k \in Seq(KeptChars) /\ NoTwo(k, "slash")
        BY <2>1, KeptSlashes DEF k
      <4>3. Shaped(rooted)
        BY <4>2, RootedShaped DEF rooted
      <4>4. Shaped(limited) /\ Len(limited) <= MAX_PATH_LENGTH
        BY <4>3, LimitedShaped DEF limited
      <4>5. Shaped(r) /\ Len(r) <= Len(limited) /\ (Len(r) = 1 \/ r[Len(r)] # "slash")
        BY <4>1, <4>4, TrimmedShaped
      <4>6. Len(limited) \in Nat /\ Len(r) \in Nat
        BY <4>4, <4>5, LenProperties DEF Shaped
      <4> QED
        BY <4>4, <4>5, <4>6, LengthsAssumption
    <3> QED
      BY <3>1, <3>2
  <2> HIDE DEF r
  <2>3. \A i \in 1 .. Len(r) : r[i] # "other"
    <3>1. r \in Seq(KeptChars)
      BY <2>2 DEF Shaped
    <3>2. \A i \in 1 .. Len(r) : r[i] \in KeptChars
      BY <3>1, ElementOfSeq
    <3> QED
      BY <3>2 DEF KeptChars
  <2> QED
    BY <2>2, <2>3 DEF PathShape, Shaped, NoTwo, r
<1> QED
  BY <1>1, InputCorrect, PTL

-----------------------------------------------------------------------------
(* Where a pair of dots begins is what the definition says: not where one  *)
(* began just before.                                                      *)
LEMMA PairsDef ==
  ASSUME NEW s \in Seq(KeptChars)
  PROVE  \A i \in 1 .. Len(s) :
             Pairs(s)[i] <=> /\ i \in 1 .. Len(s) - 1 /\ s[i] = "dot" /\ s[i + 1] = "dot"
                             /\ ~ Pairs(s)[i - 1]
<1> DEFINE S == {"none", "pair"}
           n == Len(s)
           Two(i) == i \in 1 .. n - 1 /\ s[i] = "dot" /\ s[i + 1] = "dot"
           base == "none"
           Turn(i, v) == IF Two(i) /\ v = "none" THEN "pair" ELSE "none"
           step == [i \in 1 .. n |-> [v \in S |-> Turn(i, v)]]
           Is(f) == f = [i \in 0 .. n |-> Two(i) /\ ~ f[i - 1]]
           r == Pairs(s)
<1>1. n \in Nat /\ base \in S
  BY LenProperties
<1>2. r = CHOOSE f : Is(f)
  BY DEF Pairs
<1>3. step \in [1 .. n -> [S -> S]]
  OBVIOUS
<1>4. ~ Two(0)
  BY <1>1
<1> HIDE DEF n, Two, r
<1>5. \E f \in [0 .. n -> S] : f[0] = base /\ \A i \in 1 .. n : f[i] = step[i][f[i - 1]]
  <2> HIDE DEF step, S, base
  <2> QED
    BY SMTT(30), <1>1, <1>3, Recursion
<1>6. \E f : Is(f)
  <2>1. PICK f \in [0 .. n -> S] : f[0] = base /\ \A i \in 1 .. n : f[i] = step[i][f[i - 1]]
    BY <1>5
  <2>2. \A i \in 1 .. n : f[i] = "pair" <=> Two(i) /\ f[i - 1] # "pair"
    <3>1. \A i \in 1 .. n : i \in 0 .. n /\ i - 1 \in 0 .. n
      BY <1>1
    <3>2. \A i \in 1 .. n : f[i] = Turn(i, f[i - 1])
      BY <2>1, <3>1
    <3>3. \A i \in 1 .. n : f[i - 1] = "pair" \/ f[i - 1] = "none"
      BY <2>1, <3>1
    <3> QED
      BY <3>2, <3>3
  <2> DEFINE g == [i \in 0 .. n |-> f[i] = "pair"]
  <2>3. \A i \in 0 .. n : g[i] <=> (Two(i) /\ ~ g[i - 1])
    <3> SUFFICES ASSUME NEW i \in 0 .. n
                 PROVE  f[i] = "pair" <=> (Two(i) /\ ~ g[i - 1])
      OBVIOUS
    <3>1. CASE i = 0
      BY <1>4, <2>1, <3>1
    <3>2. CASE i # 0
      <4>1. i \in 1 .. n /\ i - 1 \in 0 .. n
        BY <1>1, <3>2
      <4>2. f[i] = "pair" <=> Two(i) /\ f[i - 1] # "pair"
        BY <2>2, <4>1
      <4>3. g[i - 1] <=> f[i - 1] = "pair"
        BY <4>1
      <4> QED
        BY <4>2, <4>3
    <3> QED
      BY <3>1, <3>2
  <2>4. g = [i \in 0 .. n |-> g[i]]
    OBVIOUS
  <2>5. \A i \in 0 .. n : g[i] \in BOOLEAN
    OBVIOUS
  <2> HIDE DEF g
  <2>6. \A i \in 0 .. n : g[i] = (Two(i) /\ ~ g[i - 1])
    BY <2>3, <2>5
  <2>7. Is(g)
    BY <2>4, <2>6, Zenon
  <2> QED
    BY <2>7
<1> HIDE DEF Is
<1>7. Is(r)
  BY <1>2, <1>6, Zenon
<1>8. \A i \in 0 .. n : r[i] <=> (Two(i) /\ ~ r[i - 1])
  BY <1>7 DEF Is
<1>9. \A i \in 1 .. n : i \in 0 .. n
  BY <1>1
<1> QED
  BY <1>8, <1>9 DEF n, Two, r

(* No pair of dots is left when they have been replaced. *)
LEMMA WithoutPairsNoTwo ==
  ASSUME NEW k \in Seq(KeptChars), NEW t, t = WithoutPairs(k)
  PROVE  NoTwo(t, "dot")
<1> DEFINE n == Len(k)
           P == Pairs(k)
<1>1. n \in Nat
  BY LenProperties
<1>2. t = [i \in 1 .. n |-> IF P[i] \/ P[i - 1] THEN "word" ELSE k[i]] /\ Len(t) = n
  BY WithoutPairsKeeps DEF WithoutPairs, Underscore
<1>3. \A i \in 1 .. n : P[i] <=> /\ i \in 1 .. n - 1 /\ k[i] = "dot" /\ k[i + 1] = "dot"
                                 /\ ~ P[i - 1]
  BY PairsDef
<1> HIDE DEF P, n
<1> SUFFICES ASSUME NEW i \in 1 .. n - 1, t[i] = "dot", t[i + 1] = "dot"
             PROVE  FALSE
  BY <1>2 DEF NoTwo
<1>4. i \in 1 .. n /\ i + 1 \in 1 .. n /\ i + 1 - 1 = i
  BY <1>1
<1>5. ~ P[i] /\ ~ P[i - 1] /\ k[i] = "dot"
  BY <1>2, <1>4
<1>6. k[i + 1] = "dot"
  BY <1>2, <1>4
<1> QED
  BY <1>3, <1>4, <1>5, <1>6

-----------------------------------------------------------------------------
(* What a character means is at most one that is kept.                     *)
MeansOne(s, i, c) == Meaning(s, i) = <<c>> /\ c = IF s[i] = "other" THEN "word" ELSE s[i]

(* A percent sign without two digits means nothing, anything else one      *)
(* character.                                                              *)
LEMMA MeaningCases ==
  ASSUME NEW s \in Seq(PathChars), NEW i \in 1 .. Len(s)
  PROVE  \/ s[i] = "percent" /\ Meaning(s, i) = <<>>
         \/ \E c \in KeptChars : MeansOne(s, i, c)
<1>1. s[i] \in PathChars
  BY ElementOfSeq
<1>2. "word" \in KeptChars /\ (s[i] # "other" => s[i] \in KeptChars)
  BY <1>1 DEF KeptChars, PathChars
<1>3. CASE s[i] = "other"
  <2>1. MeansOne(s, i, "word")
    BY <1>3 DEF MeansOne, Meaning, Underscore
  <2> QED
    BY <1>2, <2>1
<1>4. CASE s[i] # "other"
  <2>1. (s[i] = "percent" /\ Meaning(s, i) = <<>>) \/ MeansOne(s, i, s[i])
    BY <1>4 DEF MeansOne, Meaning
  <2> QED
    BY <1>2, <1>4, <2>1
<1> QED
  BY <1>3, <1>4

(* The loop of the meanings is what its definition says.                   *)
LEMMA MeaningsDef ==
  ASSUME NEW s \in Seq(PathChars)
  PROVE  /\ Meanings(s) \in [0 .. Len(s) -> Seq(KeptChars)]
         /\ Meanings(s)[0] = <<>>
         /\ \A i \in 1 .. Len(s) : Meanings(s)[i] = Meanings(s)[i - 1] \o Meaning(s, i)
<1> DEFINE S == Seq(KeptChars)
           n == Len(s)
           base == <<>>
           Turn(i, v) == v \o Meaning(s, i)
           step == [i \in 1 .. n |-> [v \in S |-> Turn(i, v)]]
           Is(f) == f = [i \in 0 .. n |-> IF i = 0 THEN base ELSE Turn(i, f[i - 1])]
           r == Meanings(s)
<1>1. n \in Nat /\ base \in S
  BY LenProperties, EmptySeq
<1>2. r = CHOOSE f : Is(f)
  BY DEF Meanings
<1>3. \A i \in 1 .. n : \A v \in S : Turn(i, v) \in S
  <2>1. \A i \in 1 .. n : Meaning(s, i) \in S
    <3> SUFFICES ASSUME NEW i \in 1 .. n
                 PROVE  Meaning(s, i) \in S
      OBVIOUS
    <3>1. CASE Meaning(s, i) = <<>>
      BY <3>1, EmptySeq
    <3>2. ASSUME NEW c \in KeptChars, MeansOne(s, i, c)
          PROVE  Meaning(s, i) \in S
      BY <3>2 DEF MeansOne
    <3> QED
      BY <3>1, <3>2, MeaningCases
  <2> QED
    BY <2>1, ConcatProperties
<1> HIDE DEF n, Turn, S, base, r
<1>4. step \in [1 .. n -> [S -> S]]
  BY <1>3
<1>5. \E f \in [0 .. n -> S] : f[0] = base /\ \A i \in 1 .. n : f[i] = step[i][f[i - 1]]
  <2> HIDE DEF step
  <2> QED
    BY SMTT(30), <1>1, <1>4, Recursion
<1>6. \E f : Is(f)
  <2>1. PICK f \in [0 .. n -> S] : f[0] = base /\ \A i \in 1 .. n : f[i] = step[i][f[i - 1]]
    BY <1>5
  <2>2. \A i \in 1 .. n : f[i] = Turn(i, f[i - 1])
    BY <1>1, <2>1
  <2> QED
    BY <1>1, <2>1, <2>2
<1> HIDE DEF Is
<1>7. Is(r)
  BY <1>2, <1>6, Zenon
<1>8. /\ r = [i \in 0 .. n |-> r[i]] /\ r[0] = base
      /\ \A i \in 1 .. n : r[i] = Turn(i, r[i - 1])
  <2>1. r = [i \in 0 .. n |-> IF i = 0 THEN base ELSE Turn(i, r[i - 1])]
    BY <1>7 DEF Is
  <2>2. \A i \in 0 .. n : r[i] = IF i = 0 THEN base ELSE Turn(i, r[i - 1])
    BY <2>1, Zenon
  <2>3. r = [i \in 0 .. n |-> r[i]]
    BY <2>1, <2>2, Zenon
  <2>4. 0 \in 0 .. n /\ \A i \in 1 .. n : i \in 0 .. n /\ i # 0
    BY ONLY <1>1
  <2> QED
    BY <2>2, <2>3, <2>4, Zenon
<1>9. r \in [0 .. n -> S]
  <2>1. r[0] \in S /\ \A i \in 1 .. n : r[i - 1] \in S => r[i] \in S
    BY <1>1, <1>3, <1>8, Zenon
  <2> QED
    BY <1>1, <1>8, <2>1, Values
<1> QED
  BY <1>8, <1>9 DEF n, Turn, S, base, r

(* The meaning grows by at most one character at a time. *)
LEMMA MeaningsStep ==
  ASSUME NEW s \in Seq(PathChars), NEW i \in 1 .. Len(s)
  PROVE  /\ Meanings(s)[i - 1] \in Seq(KeptChars) /\ Meanings(s)[i] \in Seq(KeptChars)
         /\ \/ /\ s[i] = "percent" /\ Meaning(s, i) = <<>>
               /\ Meanings(s)[i] = Meanings(s)[i - 1]
            \/ \E c \in KeptChars : /\ MeansOne(s, i, c)
                                    /\ Meanings(s)[i] = Append(Meanings(s)[i - 1], c)
<1> DEFINE k == Meanings(s)[i - 1]
           t == Meanings(s)[i]
<1>1. i - 1 \in 0 .. Len(s) /\ i \in 0 .. Len(s)
  BY LenProperties
<1>2. k \in Seq(KeptChars) /\ t \in Seq(KeptChars) /\ t = k \o Meaning(s, i)
  BY <1>1, MeaningsDef
<1> HIDE DEF k, t
<1>3. CASE s[i] = "percent" /\ Meaning(s, i) = <<>>
  <2>1. t = k
    BY <1>2, <1>3, ConcatEmptySeq
  <2> QED
    BY <1>2, <1>3, <2>1 DEF k, t
<1>4. ASSUME NEW c \in KeptChars, MeansOne(s, i, c)
      PROVE  t = Append(k, c)
  <2>1. t = k \o <<c>>
    BY <1>2, <1>4 DEF MeansOne
  <2> QED
    BY <1>2, <2>1, AppendIsConcat
<1> QED
  BY <1>2, <1>3, <1>4, MeaningCases DEF k, t

-----------------------------------------------------------------------------
(* A short path is never cut by the scan: what has been kept is no longer  *)
(* than what has been read, and what an escape has used up is there.       *)
Fits(scan, s, i) ==
    /\ Len(scan.kept) <= i + scan.used
    /\ scan.used > 0 => /\ i + scan.used <= Len(s)
                        /\ \A j \in i + 1 .. i + scan.used : s[j] = "hex"

(* A turn leaves it so, with room for more before it,                      *)
LEMMA StepFits ==
  ASSUME NEW s \in Seq(PathChars), Len(s) < MAX_PATH_LENGTH, NEW i \in 1 .. Len(s),
         NEW scan \in ScanStates, Fits(scan, s, i - 1), NEW new, new = Step(scan, s, i)
  PROVE  Fits(new, s, i) /\ Len(scan.kept) < MAX_PATH_LENGTH
<1> DEFINE k == scan.kept
           t == new.kept
<1>1. /\ new \in ScanStates
      /\ \/ Passes(new, scan, s, i)
         \/ Len(scan.kept) < MAX_PATH_LENGTH /\ Skips(new, scan)
         \/ Keeps(new, scan, s, i)
  BY StepCases
<1>2. /\ k \in Seq(KeptChars) /\ t \in Seq(KeptChars) /\ Len(k) \in Nat /\ Len(t) \in Nat
      /\ scan.used \in Nat /\ new.used \in Nat
  BY <1>1, ScanFields
<1>3. Len(s) \in Nat /\ MAX_PATH_LENGTH \in Nat
  BY LenProperties, LengthsAssumption
<1>4. {"slash", "dot", "hex", "word", "percent"} \subseteq KeptChars
  BY DEF KeptChars, PathChars
<1>5. Len(k) < MAX_PATH_LENGTH
  BY <1>2, <1>3 DEF Fits
<1>6. CASE Passes(new, scan, s, i)
  <2>1. new = scan /\ scan.used = 0
    BY <1>2, <1>3, <1>5, <1>6 DEF Passes
  <2> QED
    BY <1>2, <1>3, <1>5, <2>1 DEF Fits
<1>7. CASE Skips(new, scan)
  <2>1. scan.used > 0 /\ new.used = scan.used - 1 /\ t = k
    BY <1>7 DEF Skips
  <2>2. i + new.used = i - 1 + scan.used /\ i + 1 .. i + new.used \subseteq i - 1 + 1 .. i - 1 + scan.used
    BY <1>2, <1>3, <2>1
  <2> QED
    BY <1>2, <1>3, <1>5, <2>1, <2>2 DEF Fits
<1>8. CASE Keeps(new, scan, s, i) /\ new.used = 0
  <2>1. \E c \in KeptChars : t = Append(k, c)
    <3>1. CASE KeepsSlash(new, scan, s, i)
      BY <1>4, <3>1 DEF KeepsSlash
    <3>2. CASE KeepsDot(new, scan, s, i)
      BY <1>4, <3>2 DEF KeepsDot
    <3>3. CASE KeepsChar(new, scan, s, i)
      BY <1>4, <3>3 DEF KeepsChar
    <3> QED
      BY <1>8, <3>1, <3>2, <3>3 DEF Keeps
  <2> HIDE DEF t, k
  <2>2. Len(t) = Len(k) + 1
    BY <1>2, <2>1, KeptOne
  <2>3. scan.used = 0
    BY <1>8 DEF Keeps
  <2> QED
    BY <1>2, <1>3, <1>5, <1>8, <2>2, <2>3 DEF Fits, t, k
<1>9. CASE Keeps(new, scan, s, i) /\ new.used # 0
  <2>1. t = k \o AnEscape
    BY <1>9 DEF Keeps, KeepsEscape
  <2>2. /\ scan.used = 0 /\ new.used = 2
        /\ i + 2 <= Len(s) /\ s[i + 1] = "hex" /\ s[i + 2] = "hex"
    BY <1>9 DEF Keeps, KeepsEscape
  <2> HIDE DEF t, k
  <2>3. Len(t) = Len(k) + 3
    BY <1>2, <2>1, KeptEscape
  <2>4. i + 1 .. i + new.used = {i + 1, i + 2}
    BY <1>3, <2>2
  <2> QED
    BY SMTT(30), <1>2, <1>3, <1>5, <2>2, <2>3, <2>4 DEF Fits, t, k
<1> QED
  BY <1>1, <1>5, <1>6, <1>7, <1>8, <1>9

(* so it is so all along.                                                  *)
LEMMA ScanFits ==
  ASSUME NEW s \in Seq(PathChars), Len(s) < MAX_PATH_LENGTH
  PROVE  \A i \in 0 .. Len(s) : Fits(Scans(s)[i], s, i)
<1> DEFINE n == Len(s)
           scan == Scans(s)
           T == {i \in 0 .. n : Fits(scan[i], s, i)}
<1>1. n \in Nat
  BY LenProperties
<1>2. /\ scan \in [0 .. n -> ScanStates] /\ scan[0] = Start
      /\ \A i \in 1 .. n : scan[i] = Step(scan[i - 1], s, i)
  BY ScansDef
<1> HIDE DEF scan
<1>3. 0 \in T
  <2>1. Fits(Start, s, 0)
    BY DEF Fits, Start
  <2> QED
    BY <1>1, <1>2, <2>1
<1>4. ASSUME NEW i \in 1 .. n, i - 1 \in T
      PROVE  i \in T
  <2>1. i \in 1 .. Len(s) /\ scan[i - 1] \in ScanStates /\ Fits(scan[i - 1], s, i - 1)
    BY <1>1, <1>2, <1>4
  <2>2. Fits(Step(scan[i - 1], s, i), s, i)
    BY <2>1, StepFits
  <2> QED
    BY <1>1, <1>2, <2>2
<1> HIDE DEF T
<1>5. 0 .. n \subseteq T
  BY <1>1, <1>3, <1>4, Upwards
<1> QED
  BY <1>5 DEF T, scan

-----------------------------------------------------------------------------
(* The beginning of a path up to its i-th character ends in a dot, or in a *)
(* pair of dots that the scan remembers.                                   *)
DotEnds(s, i) ==
    \E a \in 1 .. i : s[a] = "dot" /\ \A n \in a + 1 .. i : s[n] = "percent"

Stays == {"dot", "percent", "other"}

PairEnds(s, i) ==
    \E a, b \in 1 .. i :
        /\ a < b /\ s[a] = "dot" /\ s[b] = "dot"
        /\ \A n \in a + 1 .. b - 1 : s[n] = "percent"
        /\ \A n \in b + 1 .. i : s[n] \in Stays

(* What that needs of the last character, and of what is before it.        *)
LEMMA DotEndsBefore ==
  ASSUME NEW s, NEW i \in Nat, i >= 1, DotEnds(s, i)
  PROVE  s[i] = "dot" \/ (s[i] = "percent" /\ DotEnds(s, i - 1))
<1>1. PICK a \in 1 .. i : s[a] = "dot" /\ \A n \in a + 1 .. i : s[n] = "percent"
  BY DEF DotEnds
<1>2. CASE a = i
  BY <1>1, <1>2
<1>3. CASE a < i
  <2>1. s[i] = "percent"
    BY <1>1, <1>3
  <2>2. a \in 1 .. i - 1 /\ \A n \in a + 1 .. i - 1 : s[n] = "percent"
    BY <1>1, <1>3
  <2> QED
    BY <1>1, <2>1, <2>2 DEF DotEnds
<1> QED
  BY <1>1, <1>2, <1>3

(* A pair stays one, or its second dot is the last character.              *)
LEMMA PairEndsBefore ==
  ASSUME NEW s, NEW i \in Nat, i >= 1, PairEnds(s, i)
  PROVE  (s[i] = "dot" /\ DotEnds(s, i - 1)) \/ (s[i] \in Stays /\ PairEnds(s, i - 1))
<1>1. PICK a \in 1 .. i, b \in 1 .. i :
          /\ a < b /\ s[a] = "dot" /\ s[b] = "dot"
          /\ \A n \in a + 1 .. b - 1 : s[n] = "percent"
          /\ \A n \in b + 1 .. i : s[n] \in Stays
  BY DEF PairEnds
<1>2. CASE b = i
  <2>1. a \in 1 .. i - 1 /\ \A n \in a + 1 .. i - 1 : s[n] = "percent"
    BY <1>1, <1>2
  <2> QED
    BY <1>1, <1>2, <2>1 DEF DotEnds
<1>3. CASE b < i
  <2>1. s[i] \in Stays
    BY <1>1, <1>3
  <2>2. /\ a \in 1 .. i - 1 /\ b \in 1 .. i - 1
        /\ \A n \in b + 1 .. i - 1 : s[n] \in Stays
    BY <1>1, <1>3
  <2>3. PairEnds(s, i - 1)
    BY <1>1, <2>2 DEF PairEnds
  <2> QED
    BY <2>1, <2>3
<1> QED
  BY <1>1, <1>2, <1>3

(* What the scan knows of the dots at the end of what has been read.       *)
DotsKnown(scan, s, i) ==
    scan.used = 0 => /\ DotEnds(s, i) => scan.dot_count >= 1
                     /\ PairEnds(s, i) => scan.found_dot_dot

(* A turn that reads one more character knows of one more,                 *)
LEMMA StepDots ==
  ASSUME NEW s \in Seq(PathChars), Len(s) < MAX_PATH_LENGTH, NEW i \in 1 .. Len(s),
         NEW scan \in ScanStates, Fits(scan, s, i - 1), NEW new, new = Step(scan, s, i),
         DotsKnown(scan, s, i - 1)
  PROVE  DotsKnown(new, s, i)
<1>1. /\ \/ Passes(new, scan, s, i)
         \/ Skips(new, scan)
         \/ Keeps(new, scan, s, i)
      /\ Len(scan.kept) < MAX_PATH_LENGTH
  BY StepCases, StepFits
<1>2. Len(scan.kept) \in Nat /\ MAX_PATH_LENGTH \in Nat /\ scan.dot_count \in Nat /\ Len(s) \in Nat
      /\ scan.used \in Nat
  BY ScanFields, LengthsAssumption, LenProperties
<1>3. i \in Nat /\ i >= 1
  BY <1>2
<1>4. scan.used > 0 => s[i] = "hex"
  <2>1. scan.used > 0 => i \in i - 1 + 1 .. i - 1 + scan.used
    BY <1>2
  <2> QED
    BY <2>1 DEF Fits
<1>5. /\ DotEnds(s, i) => s[i] = "dot" \/ (s[i] = "percent" /\ DotEnds(s, i - 1))
      /\ PairEnds(s, i) => \/ s[i] = "dot" /\ DotEnds(s, i - 1)
                           \/ s[i] \in Stays /\ PairEnds(s, i - 1)
  BY <1>3, DotEndsBefore, PairEndsBefore
<1> DEFINE dot  == DotEnds(s, i - 1)
           pair == PairEnds(s, i - 1)
<1>6. scan.used = 0 => (dot => scan.dot_count >= 1) /\ (pair => scan.found_dot_dot)
  BY DEF DotsKnown
<1> HIDE DEF dot, pair
<1>7. CASE s[i] \notin Stays
  <2>1. ~ DotEnds(s, i) /\ ~ PairEnds(s, i)
    BY <1>5, <1>7 DEF Stays
  <2> QED
    BY <2>1 DEF DotsKnown
<1> SUFFICES ASSUME s[i] \in Stays, new.used = 0
             PROVE  /\ DotEnds(s, i) => new.dot_count >= 1
                    /\ PairEnds(s, i) => new.found_dot_dot
  BY <1>7 DEF DotsKnown
<1>8. scan.used = 0 /\ ~ Skips(new, scan)
  <2>1. s[i] # "hex"
    BY DEF Stays
  <2> QED
    BY <1>2, <1>4, <2>1 DEF Skips
<1>9. (dot => scan.dot_count >= 1) /\ (pair => scan.found_dot_dot)
  BY <1>6, <1>8
<1>10. CASE s[i] = "dot"
  <2>1. ~ Passes(new, scan, s, i)
    BY <1>1, <1>2, <1>10 DEF Passes
  <2>2. KeepsDot(new, scan, s, i)
    BY <1>1, <1>8, <1>10, <2>1 DEF Keeps, KeepsSlash, KeepsChar, KeepsEscape
  <2>3. new.dot_count >= 1
    BY <1>2, <2>2 DEF KeepsDot
  <2>4. dot \/ pair => new.found_dot_dot
    BY <1>2, <1>9, <2>2 DEF KeepsDot
  <2> QED
    BY <1>5, <2>3, <2>4 DEF dot, pair
<1>11. CASE s[i] = "percent"
  <2>1. ~ Keeps(new, scan, s, i)
    <3>1. new.used # 2
      OBVIOUS
    <3> QED
      BY <1>11, <3>1 DEF Keeps, KeepsSlash, KeepsDot, KeepsChar
  <2>2. new = scan
    BY <1>1, <1>8, <2>1 DEF Passes
  <2> QED
    BY <1>5, <1>9, <1>11, <2>2 DEF dot, pair
<1>12. CASE s[i] = "other"
  <2>1. ~ Passes(new, scan, s, i)
    BY <1>1, <1>2, <1>12 DEF Passes
  <2>2. KeepsChar(new, scan, s, i)
    BY <1>1, <1>8, <1>12, <2>1 DEF Keeps, KeepsSlash, KeepsDot, KeepsEscape
  <2>3. scan.found_dot_dot => new.found_dot_dot
    BY <1>12, <2>2 DEF KeepsChar
  <2> QED
    BY <1>5, <1>9, <1>12, <2>3 DEF dot, pair
<1> QED
  BY <1>10, <1>11, <1>12 DEF Stays

(* so the scan of a path that fits knows of the dots all along.            *)
LEMMA ScanDots ==
  ASSUME NEW s \in Seq(PathChars), Len(s) < MAX_PATH_LENGTH
  PROVE  \A i \in 0 .. Len(s) : DotsKnown(Scans(s)[i], s, i)
<1> DEFINE n == Len(s)
           scan == Scans(s)
           T == {i \in 0 .. n : DotsKnown(scan[i], s, i)}
<1>1. n \in Nat
  BY LenProperties
<1>2. /\ scan \in [0 .. n -> ScanStates] /\ scan[0] = Start
      /\ \A i \in 1 .. n : scan[i] = Step(scan[i - 1], s, i)
  BY ScansDef
<1>3. \A i \in 0 .. n : Fits(scan[i], s, i)
  BY ScanFits
<1>4. 0 \in T
  <2>1. ~ DotEnds(s, 0) /\ ~ PairEnds(s, 0)
    BY DEF DotEnds, PairEnds
  <2>2. DotsKnown(scan[0], s, 0)
    BY <2>1 DEF DotsKnown
  <2> QED
    BY <1>1, <2>2
<1> HIDE DEF scan
<1>5. ASSUME NEW i \in 1 .. n, i - 1 \in T
      PROVE  i \in T
  <2>1. /\ i \in 1 .. Len(s) /\ scan[i - 1] \in ScanStates /\ Fits(scan[i - 1], s, i - 1)
        /\ DotsKnown(scan[i - 1], s, i - 1)
    BY <1>1, <1>2, <1>3, <1>5
  <2>2. DotsKnown(Step(scan[i - 1], s, i), s, i)
    BY <2>1, StepDots
  <2> QED
    BY <1>1, <1>2, <2>2
<1> HIDE DEF T
<1>6. 0 .. n \subseteq T
  BY <1>1, <1>4, <1>5, Upwards
<1> QED
  BY <1>6 DEF T, scan

(* When the last dots of a path that fits are a pair the scan remembers -  *)
(* nothing but dots, stray percent signs and replaced characters follows   *)
(* it - no pair is left anywhere in the result.                            *)
THEOREM NoticedDotsGoCorrect == InputSpec => []NoticedDotsGo
<1>1. InputType => NoticedDotsGo
  <2> DEFINE n == Len(path)
             scan == Scans(path)[n]
             k == Kept(path)
             rooted == Rooted(k)
             limited == Limited(rooted)
             r == sanitize_path(path)
  <2> SUFFICES ASSUME InputType, n < MAX_PATH_LENGTH, PairEnds(path, n)
               PROVE  NoTwo(r, "dot")
    BY DEF NoticedDotsGo, RememberedPair, HasPair, NoTwo, PairEnds, Stays
  <2>1. path \in Seq(PathChars) /\ n \in Nat /\ n \in 0 .. n
    <3>1. path \in Seq(PathChars)
      BY DEF InputType
    <3> QED
      BY <3>1, LenProperties
  <2>2. scan.found_dot_dot
    <3>1. DotsKnown(scan, path, n) /\ Fits(scan, path, n)
      BY <2>1, ScanDots, ScanFits
    <3>2. scan \in ScanStates
      BY <2>1, ScansDef
    <3>3. scan.used \in Nat
      BY <3>2, ScanFields
    <3> HIDE DEF scan
    <3>4. scan.used = 0
      BY <2>1, <3>1, <3>3 DEF Fits
    <3> QED
      BY <3>1, <3>4 DEF DotsKnown
  <2>3. path # <<>>
    <3>1. n >= 1
      BY <2>1 DEF PairEnds
    <3> QED
      BY <3>1, EmptySeq
  <2>4. r = Trimmed(limited) /\ k = WithoutPairs(scan.kept)
    BY <2>2, <2>3 DEF sanitize_path, Kept
  <2>5. k \in Seq(KeptChars) /\ NoTwo(k, "slash")
    BY <2>1, KeptSlashes
  <2>6. scan.kept \in Seq(KeptChars)
    <3>1. Scans(path) \in [0 .. n -> ScanStates]
      BY <2>1, ScansDef
    <3>2. scan \in ScanStates
      BY <2>1, <3>1
    <3> QED
      BY <3>2, ScanFields
  <2> HIDE DEF k, scan, r
  <2>7. NoTwo(k, "dot")
    BY <2>4, <2>6, WithoutPairsNoTwo
  <2> HIDE DEF rooted
  <2>8. Shaped(rooted) /\ NoTwo(rooted, "dot")
    BY <2>5, <2>7, RootedShaped DEF rooted
  <2> HIDE DEF limited
  <2>9. Shaped(limited) /\ NoTwo(limited, "dot")
    BY <2>8, LimitedShaped DEF limited
  <2> QED
    BY <2>4, <2>9, TrimmedShaped
<1> QED
  BY <1>1, InputCorrect, PTL

-----------------------------------------------------------------------------
(* The segments of a path are what the loop of their definition says.      *)
LEMMA SegmentsDef ==
  ASSUME NEW s \in Seq(KeptChars)
  PROVE  /\ Segments(s) \in [0 .. Len(s) -> Seq(KeptChars)]
         /\ Segments(s)[0] = <<>>
         /\ \A i \in 1 .. Len(s) : Segments(s)[i] = Segments(s)[i - 1] \o Segment(s, i)
<1> DEFINE S == Seq(KeptChars)
           n == Len(s)
           base == <<>>
           Turn(i, v) == v \o Segment(s, i)
           step == [i \in 1 .. n |-> [v \in S |-> Turn(i, v)]]
           Is(f) == f = [i \in 0 .. n |-> IF i = 0 THEN base ELSE Turn(i, f[i - 1])]
           r == Segments(s)
<1>1. n \in Nat /\ base \in S
  BY LenProperties, EmptySeq
<1>2. r = CHOOSE f : Is(f)
  BY DEF Segments
<1>3. \A i \in 1 .. n : \A v \in S : Turn(i, v) \in S
  <2>1. \A i \in 1 .. n : Segment(s, i) \in S
    <3> SUFFICES ASSUME NEW i \in 1 .. n
                 PROVE  Segment(s, i) \in S
      OBVIOUS
    <3>1. s[i] \in KeptChars
      BY ElementOfSeq
    <3>2. <<s[i]>> \in S
      BY <3>1
    <3> QED
      BY <1>1, <3>2 DEF Segment
  <2> QED
    BY <2>1, ConcatProperties
<1> HIDE DEF n, Turn, S, base, r
<1>4. step \in [1 .. n -> [S -> S]]
  BY <1>3
<1>5. \E f \in [0 .. n -> S] : f[0] = base /\ \A i \in 1 .. n : f[i] = step[i][f[i - 1]]
  <2> HIDE DEF step
  <2> QED
    BY SMTT(30), <1>1, <1>4, Recursion
<1>6. \E f : Is(f)
  <2>1. PICK f \in [0 .. n -> S] : f[0] = base /\ \A i \in 1 .. n : f[i] = step[i][f[i - 1]]
    BY <1>5
  <2>2. \A i \in 1 .. n : f[i] = Turn(i, f[i - 1])
    BY <1>1, <2>1
  <2> QED
    BY <1>1, <2>1, <2>2
<1> HIDE DEF Is
<1>7. Is(r)
  BY <1>2, <1>6, Zenon
<1>8. /\ r = [i \in 0 .. n |-> r[i]] /\ r[0] = base
      /\ \A i \in 1 .. n : r[i] = Turn(i, r[i - 1])
  <2>1. r = [i \in 0 .. n |-> IF i = 0 THEN base ELSE Turn(i, r[i - 1])]
    BY <1>7 DEF Is
  <2>2. \A i \in 0 .. n : r[i] = IF i = 0 THEN base ELSE Turn(i, r[i - 1])
    BY <2>1, Zenon
  <2>3. r = [i \in 0 .. n |-> r[i]]
    BY <2>1, <2>2, Zenon
  <2>4. 0 \in 0 .. n /\ \A i \in 1 .. n : i \in 0 .. n /\ i # 0
    BY ONLY <1>1
  <2> QED
    BY <2>2, <2>3, <2>4, Zenon
<1>9. r \in [0 .. n -> S]
  <2>1. r[0] \in S /\ \A i \in 1 .. n : r[i - 1] \in S => r[i] \in S
    BY <1>1, <1>3, <1>8, Zenon
  <2> QED
    BY <1>1, <1>8, <2>1, Values
<1> QED
  BY <1>8, <1>9 DEF n, Turn, S, base, r

(* A slash before a slash or at the end belongs to no segment, *)
LEMMA SegmentsSkip ==
  ASSUME NEW s \in Seq(KeptChars), NEW i \in 1 .. Len(s), s[i] = "slash",
         i = Len(s) \/ s[i + 1] = "slash"
  PROVE  Segments(s)[i] = Segments(s)[i - 1] /\ Segments(s)[i - 1] \in Seq(KeptChars)
<1>1. i - 1 \in 0 .. Len(s)
  BY LenProperties
<1>2. Segment(s, i) = <<>>
  BY DEF Segment
<1>3. Segments(s)[i - 1] \in Seq(KeptChars)
  BY <1>1, SegmentsDef
<1>4. Segments(s)[i] = Segments(s)[i - 1] \o <<>>
  BY <1>2, SegmentsDef
<1> QED
  BY <1>3, <1>4, ConcatEmptySeq

(* everything else does. *)
LEMMA SegmentsTake ==
  ASSUME NEW s \in Seq(KeptChars), NEW i \in 1 .. Len(s),
         s[i] # "slash" \/ (i # Len(s) /\ s[i + 1] # "slash")
  PROVE  /\ Segments(s)[i] = Append(Segments(s)[i - 1], s[i])
         /\ Segments(s)[i - 1] \in Seq(KeptChars) /\ s[i] \in KeptChars
<1>1. i - 1 \in 0 .. Len(s)
  BY LenProperties
<1>2. Segment(s, i) = <<s[i]>>
  BY DEF Segment
<1>3. Segments(s)[i - 1] \in Seq(KeptChars) /\ s[i] \in KeptChars
  BY <1>1, SegmentsDef, ElementOfSeq
<1>4. Segments(s)[i] = Segments(s)[i - 1] \o <<s[i]>>
  BY <1>2, SegmentsDef
<1> QED
  BY <1>3, <1>4, AppendIsConcat

(* The root stays in front when a path grows. *)
LEMMA RootedAppend ==
  ASSUME NEW k \in Seq(KeptChars), NEW c \in KeptChars, k # <<>> \/ c # "slash",
         NEW t, t = Append(k, c)
  PROVE  Rooted(t) = Append(Rooted(k), c)
<1>1. /\ t \in Seq(KeptChars) /\ Len(k) \in Nat /\ Len(t) = Len(k) + 1 /\ t[Len(t)] = c
      /\ \A i \in 1 .. Len(k) : t[i] = k[i]
  BY KeptOne
<1>2. (k = <<>> <=> Len(k) = 0) /\ t # <<>>
  BY <1>1, EmptySeq
<1>3. CASE k = <<>> \/ k[1] # "slash"
  <2> DEFINE u == <<"slash">>
             v == <<c>>
  <2>1. t[1] # "slash"
    BY <1>1, <1>2, <1>3
  <2>2. Rooted(t) = u \o t /\ Rooted(k) = u \o k
    BY <1>2, <1>3, <2>1 DEF Rooted
  <2>3. u \in Seq(KeptChars) /\ v \in Seq(KeptChars)
    BY DEF KeptChars, PathChars
  <2>4. t = k \o v
    BY AppendIsConcat
  <2>5. u \o k \in Seq(KeptChars)
    BY <2>3, ConcatProperties
  <2>6. Append(u \o k, c) = (u \o k) \o v
    BY <2>5, AppendIsConcat
  <2> HIDE DEF u, v
  <2>7. (u \o k) \o v = u \o (k \o v)
    BY SMTT(30), <2>3, ConcatAssociative
  <2> QED
    BY <2>2, <2>4, <2>6, <2>7
<1>4. CASE k # <<>> /\ k[1] = "slash"
  <2>1. t[1] = "slash"
    BY <1>1, <1>2, <1>4
  <2>2. Rooted(t) = t /\ Rooted(k) = k
    BY <1>2, <1>4, <2>1 DEF Rooted
  <2> QED
    BY <2>2
<1> QED
  BY <1>3, <1>4

(* What has been kept, under its root, is the segments of the meaning s as *)
(* far as its p-th character, and that character.                          *)
Matches(k, s, p) == /\ Rooted(k) = Append(Segments(s)[p - 1], s[p])
                    /\ k = <<>> => p = 1

(* It goes on so with a character that is kept *)
LEMMA MatchesKept ==
  ASSUME NEW s \in Seq(KeptChars), s[1] = "slash", NEW p \in 1 .. Len(s), p + 1 \in 1 .. Len(s),
         NEW k \in Seq(KeptChars), Matches(k, s, p),
         s[p] # "slash" \/ s[p + 1] # "slash" \/ k = <<>>,
         NEW t, t = Append(k, s[p + 1])
  PROVE  t \in Seq(KeptChars) /\ t # <<>> /\ Matches(t, s, p + 1)
<1> DEFINE c == s[p + 1]
           q == p + 1
           R == Append(Segments(s)[p - 1], s[p])
<1>1. c \in KeptChars /\ p \in Nat /\ q \in 1 .. Len(s) /\ q - 1 = p /\ p # Len(s)
  BY ElementOfSeq, LenProperties
<1>2. Rooted(k) = R /\ (k = <<>> => p = 1)
  BY DEF Matches
<1> HIDE DEF c, R
<1>3. t = Append(k, c)
  BY DEF c
<1>4. t \in Seq(KeptChars) /\ t # <<>> /\ Len(t) = Len(k) + 1 /\ t[Len(t)] = c
  <2>1. t \in Seq(KeptChars) /\ Len(k) \in Nat /\ Len(t) = Len(k) + 1 /\ t[Len(t)] = c
    BY <1>1, <1>3, KeptOne
  <2> QED
    BY <2>1, EmptySeq
<1>5. CASE s[p] = "slash" /\ c = "slash"
  <2>1. k = <<>> /\ p = 1
    BY <1>2, <1>5 DEF c
  <2>2. Segments(s)[p] = <<>>
    <3>1. Segments(s)[p] = Segments(s)[p - 1]
      BY <1>5, SegmentsSkip DEF c
    <3>2. Segments(s)[0] = <<>>
      BY SegmentsDef
    <3> QED
      BY <2>1, <3>1, <3>2
  <2>3. t[1] = "slash"
    BY <1>4, <1>5, <2>1, EmptySeq
  <2>4. Rooted(t) = t
    BY <1>4, <2>3 DEF Rooted
  <2>5. t = Append(Segments(s)[p], c)
    BY <1>3, <2>1, <2>2
  <2> QED
    BY <1>1, <1>4, <2>4, <2>5 DEF Matches, c
<1>6. CASE s[p] # "slash" \/ c # "slash"
  <2>1. Segments(s)[p] = R
    BY <1>1, <1>6, SegmentsTake DEF c, R
  <2>2. k # <<>> \/ c # "slash"
    BY <1>2, <1>6
  <2>3. Rooted(t) = Append(Rooted(k), c)
    BY <1>1, <1>3, <2>2, RootedAppend
  <2>4. Rooted(t) = Append(Segments(s)[p], c)
    BY <1>2, <2>1, <2>3
  <2> QED
    BY <1>1, <1>4, <2>4 DEF Matches, c
<1> QED
  BY <1>5, <1>6

(* and with a second slash, which is not. *)
LEMMA MatchesDropped ==
  ASSUME NEW s \in Seq(KeptChars), NEW p \in 1 .. Len(s), p + 1 \in 1 .. Len(s),
         NEW k \in Seq(KeptChars), Matches(k, s, p), k # <<>>,
         s[p] = "slash", s[p + 1] = "slash"
  PROVE  Matches(k, s, p + 1)
<1>1. p \in Nat /\ p + 1 - 1 = p
  BY LenProperties
<1>2. Segments(s)[p] = Segments(s)[p - 1]
  BY SegmentsSkip
<1> QED
  BY <1>1, <1>2 DEF Matches

-----------------------------------------------------------------------------
(* The meaning of a whole path under its root, and where in it the meaning *)
(* of the first i characters ends.                                         *)
RootedMeaning(s) == <<"slash">> \o Meanings(s)[Len(s)]

Place(s, i) == 1 + Len(Meanings(s)[i])

(* A sequence that is how another one begins. *)
Begins(s, t) == Len(s) <= Len(t) /\ \A i \in 1 .. Len(s) : s[i] = t[i]

(* What the first i characters mean is how the meaning of more begins. *)
LEMMA MeaningsBegin ==
  ASSUME NEW s \in Seq(PathChars), NEW m \in 0 .. Len(s), NEW i \in 0 .. m
  PROVE  Begins(Meanings(s)[i], Meanings(s)[m])
<1> DEFINE n == Len(s)
           K == Meanings(s)
           T == {j \in 0 .. n : \A l \in 0 .. j : Begins(K[l], K[j])}
<1>1. n \in Nat
  BY LenProperties
<1>2. \A j \in 0 .. n : K[j] \in Seq(KeptChars) /\ Len(K[j]) \in Nat
  BY MeaningsDef, LenProperties
<1>3. 0 \in T
  BY <1>1, <1>2 DEF Begins
<1>4. ASSUME NEW j \in 1 .. n, j - 1 \in T
      PROVE  j \in T
  <2>1. j \in 0 .. n /\ j - 1 \in 0 .. n /\ \A l \in 0 .. j : l \in 0 .. j - 1 \/ l = j
    BY <1>1
  <2>2. Begins(K[j], K[j])
    BY <1>2, <2>1 DEF Begins
  <2>3. Begins(K[j - 1], K[j])
    <3>1. K[j] = K[j - 1] \/ \E c \in KeptChars : K[j] = Append(K[j - 1], c)
      BY MeaningsStep
    <3>2. CASE K[j] = K[j - 1]
      BY <2>2, <3>2
    <3>3. ASSUME NEW c \in KeptChars, K[j] = Append(K[j - 1], c)
          PROVE  Begins(K[j - 1], K[j])
      <4> DEFINE k == K[j - 1]
                 t == K[j]
      <4>1. k \in Seq(KeptChars) /\ t = Append(k, c)
        BY <1>2, <2>1, <3>3
      <4> HIDE DEF k, t
      <4>2. Len(k) \in Nat /\ Len(t) = Len(k) + 1 /\ \A l \in 1 .. Len(k) : t[l] = k[l]
        BY <4>1, KeptOne
      <4> QED
        BY <4>2 DEF Begins, k, t
    <3> QED
      BY <3>1, <3>2, <3>3
  <2> SUFFICES ASSUME NEW l \in 0 .. j - 1
               PROVE  Begins(K[l], K[j])
    BY <2>1, <2>2
  <2>4. Begins(K[l], K[j - 1])
    BY <1>4
  <2>5. l \in 0 .. n
    BY <1>1
  <2> HIDE DEF K
  <2>6. Len(K[l]) \in Nat /\ Len(K[j - 1]) \in Nat /\ Len(K[j]) \in Nat
    BY <1>2, <2>1, <2>5
  <2> QED
    BY <2>3, <2>4, <2>6 DEF Begins
<1> HIDE DEF T
<1>5. 0 .. n \subseteq T
  BY <1>1, <1>3, <1>4, Upwards
<1> QED
  BY <1>5 DEF T

(* The rooted meaning goes from the place of nothing read to that of all.  *)
LEMMA RootedMeaningType ==
  ASSUME NEW s \in Seq(PathChars), NEW t, t = RootedMeaning(s)
  PROVE  /\ t \in Seq(KeptChars) /\ t[1] = "slash" /\ Place(s, 0) = 1 /\ Place(s, Len(s)) = Len(t)
         /\ \A i \in 1 .. Len(Meanings(s)[Len(s)]) : t[1 + i] = Meanings(s)[Len(s)][i]
<1> DEFINE u == <<"slash">>
           k == Meanings(s)[Len(s)]
<1>1. u \in Seq(KeptChars) /\ Len(u) = 1 /\ u[1] = "slash"
  BY DEF KeptChars, PathChars
<1>2. k \in Seq(KeptChars) /\ Len(k) \in Nat
  BY MeaningsDef, LenProperties
<1>3. t = u \o k
  BY DEF RootedMeaning
<1>4. Place(s, 0) = 1
  BY MeaningsDef, EmptySeq DEF Place
<1> HIDE DEF u
<1>5. u \in Seq(KeptChars)
  BY <1>1
<1>6. /\ t \in Seq(KeptChars) /\ Len(t) = Len(u) + Len(k)
      /\ \A i \in 1 .. Len(u) : t[i] = u[i]
      /\ \A i \in 1 .. Len(k) : t[Len(u) + i] = k[i]
  <2> HIDE DEF k
  <2> QED
    BY <1>2, <1>3, <1>5, KeptMore
<1>7. t[1] = "slash" /\ Len(t) = 1 + Len(k)
  BY <1>1, <1>2, <1>6
<1>8. \A i \in 1 .. Len(k) : t[1 + i] = k[i]
  BY <1>1, <1>6
<1> QED
  BY <1>4, <1>6, <1>7, <1>8 DEF Place

(* Every place is one of the rooted meaning, and a character moves it on   *)
(* to what it means, or leaves it where it is.                             *)
LEMMA PlacesMove ==
  ASSUME NEW s \in Seq(PathChars), NEW t, t = RootedMeaning(s)
  PROVE  /\ \A i \in 0 .. Len(s) : Place(s, i) \in 1 .. Len(t)
         /\ \A i \in 1 .. Len(s) :
                \/ /\ s[i] = "percent" /\ Meaning(s, i) = <<>>
                   /\ Place(s, i) = Place(s, i - 1)
                \/ /\ Place(s, i) = Place(s, i - 1) + 1
                   /\ MeansOne(s, i, t[Place(s, i)])
<1> DEFINE n == Len(s)
           K == Meanings(s)
<1>1. n \in Nat /\ n \in 0 .. n
  BY LenProperties
<1>2. \A i \in 0 .. n : K[i] \in Seq(KeptChars) /\ Len(K[i]) \in Nat
  BY MeaningsDef, LenProperties
<1>3. Len(t) = 1 + Len(K[n]) /\ \A i \in 1 .. Len(K[n]) : t[1 + i] = K[n][i]
  BY RootedMeaningType DEF Place
<1>4. \A i \in 0 .. n : Begins(K[i], K[n])
  BY <1>1, MeaningsBegin
<1>5. \A i \in 0 .. n : Place(s, i) \in 1 .. Len(t)
  BY <1>1, <1>2, <1>3, <1>4 DEF Place, Begins
<1>6. ASSUME NEW i \in 1 .. n
      PROVE  \/ /\ s[i] = "percent" /\ Meaning(s, i) = <<>>
                /\ Place(s, i) = Place(s, i - 1)
             \/ /\ Place(s, i) = Place(s, i - 1) + 1
                /\ MeansOne(s, i, t[Place(s, i)])
  <2>1. CASE s[i] = "percent" /\ Meaning(s, i) = <<>> /\ K[i] = K[i - 1]
    BY <2>1 DEF Place
  <2>2. ASSUME NEW c \in KeptChars, MeansOne(s, i, c), K[i] = Append(K[i - 1], c)
        PROVE  Place(s, i) = Place(s, i - 1) + 1 /\ t[Place(s, i)] = c
    <3> DEFINE k == K[i - 1]
               l == K[i]
               m == K[n]
    <3>1. i \in 0 .. n /\ i - 1 \in 0 .. n
      BY <1>1
    <3>2. k \in Seq(KeptChars) /\ l = Append(k, c) /\ Begins(l, m) /\ Len(m) \in Nat
      BY <1>1, <1>2, <1>4, <2>2, <3>1
    <3>3. \A j \in 1 .. Len(m) : t[1 + j] = m[j]
      BY <1>3
    <3>4. Place(s, i) = 1 + Len(l) /\ Place(s, i - 1) = 1 + Len(k)
      BY DEF Place
    <3> HIDE DEF k, l, m
    <3>5. Len(k) \in Nat /\ Len(l) = Len(k) + 1 /\ l[Len(l)] = c
      BY <3>2, KeptOne
    <3>6. Len(l) \in 1 .. Len(l) /\ Len(l) \in 1 .. Len(m)
      BY <3>2, <3>5 DEF Begins
    <3>7. t[1 + Len(l)] = c
      BY <3>2, <3>3, <3>5, <3>6 DEF Begins
    <3> QED
      BY <3>4, <3>5, <3>7
  <2> QED
    BY <2>1, <2>2, MeaningsStep
<1>7. \A i \in 1 .. n : \/ /\ s[i] = "percent" /\ Meaning(s, i) = <<>>
                         /\ Place(s, i) = Place(s, i - 1)
                      \/ /\ Place(s, i) = Place(s, i - 1) + 1
                         /\ MeansOne(s, i, t[Place(s, i)])
  BY <1>6
<1> QED
  BY <1>5, <1>7

-----------------------------------------------------------------------------
(* A scan that agrees with what has been read of a path without dots: what *)
(* it has kept is the segments up to place p of the rooted meaning t, and  *)
(* it knows whether a slash came last.                                     *)
Agrees(scan, t, p) ==
    /\ p \in 1 .. Len(t) /\ Matches(scan.kept, t, p)
    /\ scan.last_was_slash <=> (t[p] = "slash" /\ scan.kept # <<>>)
    /\ ~ scan.found_dot_dot

(* Up to where a scan has taken account of a path. *)
Reached(s, scan, i) == Place(s, i + scan.used)

(* It still agrees after a character that it leaves or goes over, *)
LEMMA AgreesPassed ==
  ASSUME NEW s \in Seq(PathChars), NEW t, t = RootedMeaning(s),
         NEW i \in 1 .. Len(s), NEW scan \in ScanStates, NEW new \in ScanStates,
         Len(scan.kept) < MAX_PATH_LENGTH, Agrees(scan, t, Reached(s, scan, i - 1)),
         Passes(new, scan, s, i) \/ Skips(new, scan)
  PROVE  Agrees(new, t, Reached(s, new, i))
<1> DEFINE k == scan.kept
           p == Place(s, i - 1)
<1>1. /\ k \in Seq(KeptChars) /\ scan.used \in Nat /\ Len(k) \in Nat /\ MAX_PATH_LENGTH \in Nat
      /\ Len(s) \in Nat
  BY ScanFields, LengthsAssumption, LenProperties
<1>2. t \in Seq(KeptChars)
  BY RootedMeaningType
<1>3. CASE Skips(new, scan)
  <2>1. /\ i + new.used = i - 1 + scan.used /\ new.kept = scan.kept
        /\ new.last_was_slash = scan.last_was_slash /\ new.found_dot_dot = scan.found_dot_dot
    BY <1>1, <1>3 DEF Skips
  <2> QED
    BY <2>1 DEF Agrees, Reached
<1>4. CASE Passes(new, scan, s, i)
  <2>1. /\ new = scan /\ scan.used = 0
        /\ \/ s[i] = "slash" /\ scan.last_was_slash
           \/ s[i] = "percent" /\ Meaning(s, i) = <<>>
    BY <1>1, <1>4 DEF Passes
  <2>2. Agrees(scan, t, p) /\ Reached(s, new, i) = Place(s, i)
    <3>1. i - 1 + scan.used = i - 1 /\ i + new.used = i
      BY <1>1, <2>1
    <3> QED
      BY <3>1 DEF Reached
  <2>3. CASE s[i] = "percent" /\ Meaning(s, i) = <<>>
    <3>1. ~ MeansOne(s, i, t[Place(s, i)])
      BY <2>3 DEF MeansOne
    <3>2. Place(s, i) = p
      BY <2>3, <3>1, PlacesMove
    <3> QED
      BY <2>1, <2>2, <3>2
  <2>4. CASE s[i] = "slash" /\ scan.last_was_slash
    <3>1. Place(s, i) = p + 1 /\ MeansOne(s, i, t[Place(s, i)])
      BY <2>4, PlacesMove
    <3>2. t[p + 1] = "slash"
      BY <2>4, <3>1 DEF MeansOne
    <3>3. Place(s, i) \in 1 .. Len(t)
      <4>1. i \in 0 .. Len(s)
        BY <1>1
      <4> QED
        BY <4>1, PlacesMove
    <3> HIDE DEF p
    <3>4. p \in 1 .. Len(t) /\ Matches(k, t, p) /\ t[p] = "slash" /\ k # <<>> /\ ~ scan.found_dot_dot
      BY <2>2, <2>4 DEF Agrees
    <3>5. p + 1 \in 1 .. Len(t)
      BY <3>1, <3>3
    <3>6. Matches(k, t, p + 1)
      BY <1>1, <1>2, <3>2, <3>4, <3>5, MatchesDropped
    <3> QED
      BY <2>1, <2>2, <2>4, <3>1, <3>2, <3>4, <3>5, <3>6 DEF Agrees
  <2> QED
    BY <2>1, <2>3, <2>4
<1> QED
  BY <1>3, <1>4

(* after one that it keeps, *)
LEMMA AgreesKept ==
  ASSUME NEW s \in Seq(PathChars), NEW t, t = RootedMeaning(s),
         NEW i \in 1 .. Len(s), NEW scan \in ScanStates, NEW new \in ScanStates,
         Agrees(scan, t, Reached(s, scan, i - 1)),
         scan.used = 0, new.used = 0, KeepsSlash(new, scan, s, i) \/ KeepsChar(new, scan, s, i)
  PROVE  Agrees(new, t, Reached(s, new, i))
<1> DEFINE k == scan.kept
           p == Place(s, i - 1)
           q == Place(s, i)
           c == t[q]
<1>1. k \in Seq(KeptChars) /\ Len(s) \in Nat
  BY ScanFields, LenProperties
<1>2. t \in Seq(KeptChars) /\ t[1] = "slash"
  BY RootedMeaningType
<1>3. Agrees(scan, t, p) /\ Reached(s, new, i) = q
  <2>1. i - 1 + scan.used = i - 1 /\ i + new.used = i
    BY <1>1
  <2> QED
    BY <2>1 DEF Reached
<1>4. q = p + 1 /\ MeansOne(s, i, c) /\ q \in 1 .. Len(t)
  <2>1. i \in 0 .. Len(s) /\ s[i] # "percent"
    BY <1>1 DEF KeepsSlash, KeepsChar
  <2> QED
    BY <2>1, PlacesMove
<1>5. /\ new.kept = Append(k, c) /\ (new.last_was_slash <=> c = "slash") /\ ~ new.found_dot_dot
      /\ c = "slash" => ~ scan.last_was_slash
  <2>1. ~ scan.found_dot_dot
    BY <1>3 DEF Agrees
  <2>2. CASE KeepsSlash(new, scan, s, i)
    <3>1. c = "slash"
      BY <1>4, <2>2 DEF MeansOne, KeepsSlash
    <3> QED
      BY <2>2, <3>1 DEF KeepsSlash
  <2>3. CASE KeepsChar(new, scan, s, i)
    <3>1. PICK d \in {"hex", "word"} : Meaning(s, i) = <<d>> /\ new.kept = Append(k, d)
      BY <2>3 DEF KeepsChar
    <3>2. c = d
      <4>1. <<c>> = <<d>>
        BY <1>4, <3>1 DEF MeansOne
      <4> QED
        BY ONLY <4>1
    <3> QED
      BY <2>1, <2>3, <3>1, <3>2 DEF KeepsChar
  <2> QED
    BY <2>2, <2>3
<1> HIDE DEF p, q, c
<1>6. /\ p \in 1 .. Len(t) /\ Matches(k, t, p)
      /\ scan.last_was_slash <=> (t[p] = "slash" /\ k # <<>>)
  BY <1>3 DEF Agrees
<1>7. p + 1 \in 1 .. Len(t) /\ c = t[p + 1]
  BY <1>4 DEF c
<1>8. t[p] # "slash" \/ t[p + 1] # "slash" \/ k = <<>>
  BY <1>5, <1>6, <1>7
<1>9. new.kept = Append(k, t[p + 1])
  BY <1>5, <1>7
<1>10. new.kept # <<>> /\ Matches(new.kept, t, p + 1)
  BY <1>1, <1>2, <1>6, <1>7, <1>8, <1>9, MatchesKept
<1> QED
  BY <1>3, <1>4, <1>5, <1>7, <1>10 DEF Agrees

(* An escape is kept character by character, *)
LEMMA EscapeAppends ==
  ASSUME NEW k \in Seq(KeptChars)
  PROVE  k \o AnEscape = Append(Append(Append(k, "percent"), "hex"), "hex")
<1> DEFINE a == <<"percent">>
           b == <<"hex">>
<1>1. a \in Seq(KeptChars) /\ b \in Seq(KeptChars) /\ "percent" \in KeptChars /\ "hex" \in KeptChars
  BY DEF KeptChars, PathChars
<1>2. AnEscape = (a \o b) \o b
  BY DEF AnEscape
<1>3. Append(k, "percent") = k \o a
  BY <1>1, AppendIsConcat
<1>4. k \o a \in Seq(KeptChars) /\ a \o b \in Seq(KeptChars)
  BY <1>1, ConcatProperties
<1>5. (k \o a) \o b \in Seq(KeptChars)
  BY <1>1, <1>4, ConcatProperties
<1>6. Append(k \o a, "hex") = (k \o a) \o b
  BY <1>1, <1>4, AppendIsConcat
<1>7. Append((k \o a) \o b, "hex") = ((k \o a) \o b) \o b
  BY <1>1, <1>5, AppendIsConcat
<1> HIDE DEF a, b
<1>8. (k \o a) \o b = k \o (a \o b)
  BY <1>1, ConcatAssociative
<1> DEFINE c == a \o b
<1>9. c \in Seq(KeptChars)
  BY <1>4
<1> HIDE DEF c
<1>10. (k \o c) \o b = k \o (c \o b)
  BY SMTT(30), <1>1, <1>9, ConcatAssociative
<1> QED
  BY <1>2, <1>3, <1>6, <1>7, <1>8, <1>10 DEF c

(* and the scan agrees after it. *)
LEMMA AgreesEscape ==
  ASSUME NEW s \in Seq(PathChars), NEW t, t = RootedMeaning(s),
         NEW i \in 1 .. Len(s), NEW scan \in ScanStates, NEW new \in ScanStates,
         Agrees(scan, t, Reached(s, scan, i - 1)),
         scan.used = 0, new.used = 2, KeepsEscape(new, scan, s, i)
  PROVE  Agrees(new, t, Reached(s, new, i))
<1> DEFINE k == scan.kept
           p == Place(s, i - 1)
           k1 == Append(k, "percent")
           k2 == Append(k1, "hex")
           k3 == Append(k2, "hex")
<1>1. k \in Seq(KeptChars) /\ Len(s) \in Nat /\ "percent" \in KeptChars /\ "hex" \in KeptChars
  BY ScanFields, LenProperties DEF KeptChars, PathChars
<1>2. t \in Seq(KeptChars) /\ t[1] = "slash"
  BY RootedMeaningType
<1>3. Agrees(scan, t, p) /\ Reached(s, new, i) = Place(s, i + 2)
  <2>1. i - 1 + scan.used = i - 1 /\ i + new.used = i + 2
    BY <1>1
  <2> QED
    BY <2>1 DEF Reached
<1>4. /\ i \in 1 .. Len(s) /\ i + 1 \in 1 .. Len(s) /\ i + 2 \in 1 .. Len(s)
      /\ i + 1 - 1 = i /\ i + 2 - 1 = i + 1
      /\ i \in 0 .. Len(s) /\ i + 1 \in 0 .. Len(s) /\ i + 2 \in 0 .. Len(s)
  BY <1>1 DEF KeepsEscape
<1>5. s[i] = "percent" /\ s[i + 1] = "hex" /\ s[i + 2] = "hex" /\ Meaning(s, i) # <<>>
  BY DEF KeepsEscape, Meaning
<1>6. /\ Place(s, i) = p + 1 /\ MeansOne(s, i, t[Place(s, i)])
      /\ Place(s, i + 1) = Place(s, i) + 1 /\ MeansOne(s, i + 1, t[Place(s, i + 1)])
      /\ Place(s, i + 2) = Place(s, i + 1) + 1 /\ MeansOne(s, i + 2, t[Place(s, i + 2)])
      /\ Place(s, i) \in 1 .. Len(t) /\ Place(s, i + 1) \in 1 .. Len(t) /\ Place(s, i + 2) \in 1 .. Len(t)
  <2>1. Place(s, i) = p + 1 /\ MeansOne(s, i, t[Place(s, i)])
    BY <1>5, PlacesMove
  <2>2. Place(s, i + 1) = Place(s, i + 1 - 1) + 1 /\ MeansOne(s, i + 1, t[Place(s, i + 1)])
    BY SMTT(30), <1>4, <1>5, PlacesMove
  <2>3. Place(s, i + 2) = Place(s, i + 2 - 1) + 1 /\ MeansOne(s, i + 2, t[Place(s, i + 2)])
    BY <1>4, <1>5, PlacesMove
  <2>4. Place(s, i) \in 1 .. Len(t) /\ Place(s, i + 1) \in 1 .. Len(t) /\ Place(s, i + 2) \in 1 .. Len(t)
    BY <1>4, PlacesMove
  <2> QED
    BY <1>4, <2>1, <2>2, <2>3, <2>4
<1> HIDE DEF p
<1>7. p \in 1 .. Len(t) /\ Matches(k, t, p)
  BY <1>3 DEF Agrees
<1>8. /\ Place(s, i + 2) = p + 1 + 1 + 1
      /\ p + 1 \in 1 .. Len(t) /\ p + 1 + 1 \in 1 .. Len(t) /\ p + 1 + 1 + 1 \in 1 .. Len(t)
      /\ t[p + 1] = "percent" /\ t[p + 1 + 1] = "hex" /\ t[p + 1 + 1 + 1] = "hex"
  BY <1>5, <1>6 DEF MeansOne
<1>9. k1 = Append(k, t[p + 1]) /\ k2 = Append(k1, t[p + 1 + 1]) /\ k3 = Append(k2, t[p + 1 + 1 + 1])
  BY <1>8
<1>10. t[p + 1] # "slash" /\ t[p + 1 + 1] # "slash" /\ t[p + 1 + 1 + 1] # "slash"
  BY <1>8
<1>11. new.kept = k3 /\ ~ new.last_was_slash /\ ~ new.found_dot_dot
  BY <1>1, EscapeAppends DEF KeepsEscape
<1> HIDE DEF k, k1, k2, k3
<1>12. k \in Seq(KeptChars)
  BY <1>1
<1>13. k1 \in Seq(KeptChars) /\ k1 # <<>> /\ Matches(k1, t, p + 1)
  BY <1>2, <1>7, <1>8, <1>9, <1>10, <1>12, MatchesKept
<1>14. k2 \in Seq(KeptChars) /\ k2 # <<>> /\ Matches(k2, t, p + 1 + 1)
  BY <1>2, <1>8, <1>9, <1>10, <1>13, MatchesKept
<1>15. k3 # <<>> /\ Matches(k3, t, p + 1 + 1 + 1)
  BY ZenonT(30), <1>2, <1>8, <1>9, <1>10, <1>14, MatchesKept
<1> QED
  BY <1>3, <1>8, <1>10, <1>11, <1>15 DEF Agrees

(* So a scan of a path without dots that fits agrees with it all along.    *)
LEMMA ScanAgrees ==
  ASSUME NEW s \in Seq(PathChars), Len(s) < MAX_PATH_LENGTH, \A i \in 1 .. Len(s) : s[i] # "dot",
         NEW t, t = RootedMeaning(s)
  PROVE  \A i \in 0 .. Len(s) : Agrees(Scans(s)[i], t, Reached(s, Scans(s)[i], i))
<1> DEFINE n == Len(s)
           scan == Scans(s)
           T == {i \in 0 .. n : Agrees(scan[i], t, Reached(s, scan[i], i))}
<1>1. n \in Nat
  BY LenProperties
<1>2. /\ scan \in [0 .. n -> ScanStates] /\ scan[0] = Start
      /\ \A i \in 1 .. n : scan[i] = Step(scan[i - 1], s, i)
  BY ScansDef
<1>3. \A i \in 0 .. n : Fits(scan[i], s, i)
  BY ScanFits
<1> HIDE DEF scan
<1>4. 0 \in T
  <2>1. Start.used = 0 /\ Start.kept = <<>> /\ ~ Start.last_was_slash /\ ~ Start.found_dot_dot
    BY DEF Start
  <2>2. /\ t \in Seq(KeptChars) /\ t[1] = "slash" /\ Place(s, 0) = 1
        /\ Place(s, n) = Len(t)
    BY RootedMeaningType
  <2>3. 1 \in 1 .. Len(t)
    <3>1. 0 \in 0 .. n
      BY <1>1
    <3> QED
      BY <2>2, <3>1, PlacesMove
  <2>4. Reached(s, Start, 0) = 1
    BY <2>1, <2>2 DEF Reached
  <2>5. Matches(<<>>, t, 1)
    <3>1. Segments(t)[1 - 1] = <<>>
      BY <2>2, SegmentsDef
    <3>2. Rooted(<<>>) = <<"slash">>
      <4>1. Rooted(<<>>) = <<"slash">> \o <<>>
        BY DEF Rooted
      <4> QED
        BY <4>1
    <3> QED
      BY <2>2, <3>1, <3>2 DEF Matches
  <2>6. Agrees(Start, t, 1)
    BY <2>1, <2>3, <2>5 DEF Agrees
  <2> QED
    BY <1>1, <1>2, <2>4, <2>6
<1>5. ASSUME NEW i \in 1 .. n, i - 1 \in T
      PROVE  i \in T
  <2> DEFINE old == scan[i - 1]
             new == scan[i]
  <2>1. /\ i \in 1 .. Len(s) /\ old \in ScanStates /\ new = Step(old, s, i) /\ Fits(old, s, i - 1)
        /\ Agrees(old, t, Reached(s, old, i - 1))
    BY <1>1, <1>2, <1>3, <1>5
  <2> HIDE DEF old, new
  <2>2. /\ new \in ScanStates
        /\ Passes(new, old, s, i) \/ Skips(new, old) \/ Keeps(new, old, s, i)
    BY <2>1, StepCases
  <2>3. Len(old.kept) < MAX_PATH_LENGTH
    BY <2>1, StepFits
  <2>4. Agrees(new, t, Reached(s, new, i))
    <3>1. CASE Passes(new, old, s, i) \/ Skips(new, old)
      BY <2>1, <2>2, <2>3, <3>1, AgreesPassed
    <3>2. CASE Keeps(new, old, s, i)
      <4>1. ~ KeepsDot(new, old, s, i) /\ old.used = 0
        BY <2>1, <3>2 DEF Keeps, KeepsDot
      <4>2. CASE new.used = 0 /\ (KeepsSlash(new, old, s, i) \/ KeepsChar(new, old, s, i))
        BY <2>1, <2>2, <4>1, <4>2, AgreesKept
      <4>3. CASE new.used = 2 /\ KeepsEscape(new, old, s, i)
        BY <2>1, <2>2, <4>1, <4>3, AgreesEscape
      <4> QED
        BY <3>2, <4>1, <4>2, <4>3 DEF Keeps
    <3> QED
      BY <2>2, <3>1, <3>2
  <2> QED
    BY <1>1, <2>4 DEF new
<1> HIDE DEF T
<1>6. 0 .. n \subseteq T
  BY <1>1, <1>4, <1>5, Upwards
<1> QED
  BY <1>6 DEF T, scan

-----------------------------------------------------------------------------
(* A path that ends in no slash, or is only one, is not trimmed, *)
LEMMA TrimmedSame ==
  ASSUME NEW s \in Seq(KeptChars), Len(s) >= 1, Len(s) = 1 \/ s[Len(s)] # "slash"
  PROVE  Trimmed(s) = s
<1> DEFINE Ends(n) == /\ n = 1 \/ s[n] # "slash"
                      /\ \A i \in n + 1 .. Len(s) : s[i] = "slash"
           n == CHOOSE m \in 1 .. Len(s) : Ends(m)
<1>1. Len(s) \in Nat
  BY LenProperties
<1>2. Trimmed(s) = SubSeq(s, 1, n)
  BY DEF Trimmed
<1>3. Len(s) \in 1 .. Len(s) /\ Ends(Len(s))
  BY <1>1
<1>4. \A m \in 1 .. Len(s) : Ends(m) => m = Len(s)
  BY <1>1, <1>3
<1> HIDE DEF Ends
<1>5. n = Len(s)
  BY <1>3, <1>4
<1> QED
  BY <1>2, <1>5, SubSeqFull

(* the root alone is not trimmed either,                                   *)
LEMMA TrimmedRoot == Trimmed(<<"slash">>) = <<"slash">>
<1> DEFINE root == <<"slash">>
<1>1. root \in Seq(KeptChars) /\ Len(root) = 1
  BY DEF KeptChars, PathChars
<1> HIDE DEF root
<1>2. root \in Seq(KeptChars) /\ Len(root) >= 1
  BY <1>1
<1>3. Trimmed(root) = root
  BY <1>1, <1>2, TrimmedSame
<1> QED
  BY <1>3 DEF root

(* and one slash at the end goes. *)
LEMMA TrimmedLast ==
  ASSUME NEW k \in Seq(KeptChars), Len(k) >= 1, k[Len(k)] # "slash"
  PROVE  Trimmed(Append(k, "slash")) = k
<1> DEFINE s == Append(k, "slash")
           Ends(n) == /\ n = 1 \/ s[n] # "slash"
                      /\ \A i \in n + 1 .. Len(s) : s[i] = "slash"
           n == CHOOSE m \in 1 .. Len(s) : Ends(m)
<1>1. "slash" \in KeptChars
  BY DEF KeptChars, PathChars
<1>2. Trimmed(s) = SubSeq(s, 1, n)
  BY DEF Trimmed
<1>3. /\ s \in Seq(KeptChars) /\ Len(k) \in Nat /\ Len(s) = Len(k) + 1 /\ s[Len(s)] = "slash"
      /\ \A i \in 1 .. Len(k) : s[i] = k[i]
  BY <1>1, AppendProperties, LenProperties
<1> HIDE DEF s
<1>4. Len(k) \in 1 .. Len(s) /\ Len(k) \in 1 .. Len(k) /\ Ends(Len(k))
  BY <1>3
<1>5. \A m \in 1 .. Len(s) : Ends(m) => m = Len(k)
  BY <1>3, <1>4
<1> HIDE DEF Ends
<1>6. n = Len(k)
  BY <1>4, <1>5
<1> HIDE DEF n
<1>7. Len(k) \in 0 .. Len(s)
  BY <1>3
<1> DEFINE r == SubSeq(s, 1, Len(k))
<1>8. r \in Seq(KeptChars) /\ Len(r) = Len(k) /\ \A i \in 1 .. Len(k) : r[i] = s[i]
  BY <1>3, <1>7, NoTwoBeginning
<1> HIDE DEF r
<1>9. r = k
  BY <1>3, <1>8, SeqEqual
<1> QED
  BY <1>2, <1>6, <1>9 DEF r, s

(* What is kept under its root, trimmed, is the canonical form. *)
LEMMA TrimmedCanonical ==
  ASSUME NEW s \in Seq(PathChars), NEW t, t = RootedMeaning(s), NEW k \in Seq(KeptChars),
         NoTwo(k, "slash"), Matches(k, t, Len(t))
  PROVE  Trimmed(Rooted(k)) = Canonical(s)
<1> DEFINE m == Len(t)
           P == Segments(t)[m - 1]
           c == t[m]
           R == Rooted(k)
           named == Segments(t)[m]
<1>1. t \in Seq(KeptChars) /\ t[1] = "slash" /\ Place(s, Len(s)) = m
  BY RootedMeaningType
<1>2. m \in Nat /\ m \in 1 .. m /\ m >= 1
  <2>1. Len(s) \in 0 .. Len(s)
    BY LenProperties
  <2> QED
    BY <1>1, <2>1, PlacesMove, LenProperties
<1>3. P \in Seq(KeptChars) /\ c \in KeptChars
  <2>1. m - 1 \in 0 .. m
    BY <1>2
  <2> QED
    BY <1>1, <1>2, <2>1, SegmentsDef, ElementOfSeq
<1>4. R = Append(P, c) /\ Shaped(R)
  BY RootedShaped DEF Matches
<1>5. Canonical(s) = IF named = <<>> THEN <<"slash">> ELSE named
  BY DEF Canonical, RootedMeaning
<1>6. CASE c # "slash"
  <2>1. named = Append(P, c)
    BY <1>1, <1>2, <1>6, SegmentsTake
  <2> HIDE DEF P, c, R, named
  <2>2. R \in Seq(KeptChars) /\ Len(R) = Len(P) + 1 /\ R[Len(R)] = c /\ Len(P) \in Nat
    BY <1>3, <1>4, KeptOne
  <2>3. Trimmed(R) = R
    BY <1>6, <2>2, TrimmedSame
  <2>4. named = R /\ named # <<>>
    BY <1>4, <2>1, <2>2, EmptySeq
  <2> QED
    BY <1>5, <2>3, <2>4 DEF R
<1>7. CASE c = "slash"
  <2>1. named = P
    BY <1>1, <1>2, <1>7, SegmentsSkip
  <2>2. CASE P = <<>>
    <3>1. R = <<"slash">>
      BY <1>4, <1>7, <2>2
    <3> QED
      BY <1>5, <2>1, <2>2, <3>1, TrimmedRoot
  <2>3. CASE P # <<>>
    <3> HIDE DEF P, c, R, named
    <3>1. Len(P) \in Nat /\ Len(P) >= 1
      BY <1>3, <2>3, EmptySeq, LenProperties
    <3>2. /\ Len(R) = Len(P) + 1 /\ R[Len(R)] = c /\ \A i \in 1 .. Len(P) : R[i] = P[i]
      BY <1>3, <1>4, KeptOne
    <3>3. Len(P) \in 1 .. Len(R) - 1 /\ Len(P) \in 1 .. Len(P)
      BY <3>1, <3>2
    <3>4. R[Len(P)] # "slash"
      BY <1>4, <1>7, <3>2, <3>3 DEF Shaped, NoTwo
    <3>5. P[Len(P)] # "slash"
      BY <3>2, <3>3, <3>4
    <3>6. Trimmed(Append(P, "slash")) = P
      BY <1>3, <3>1, <3>5, TrimmedLast
    <3> QED
      BY <1>4, <1>5, <1>7, <2>1, <2>3, <3>6 DEF R
  <2> QED
    BY <2>2, <2>3
<1> QED
  BY <1>6, <1>7

(* Paths that mean the same come out the same: a path without dots that    *)
(* fits comes out in canonical form, whatever the limit.                   *)
THEOREM PathIsCanonicalCorrect == InputSpec => []PathIsCanonical
<1>1. InputType => PathIsCanonical
  <2> DEFINE n == Len(path)
             t == RootedMeaning(path)
             scan == Scans(path)[n]
             k == scan.kept
             R == Rooted(k)
  <2> SUFFICES ASSUME InputType, n < MAX_PATH_LENGTH, \A i \in 1 .. n : path[i] # "dot"
               PROVE  sanitize_path(path) = Canonical(path)
    BY DEF PathIsCanonical
  <2>1. path \in Seq(PathChars) /\ n \in Nat /\ n \in 0 .. n
    <3>1. path \in Seq(PathChars)
      BY DEF InputType
    <3> QED
      BY <3>1, LenProperties
  <2>2. scan \in ScanStates
    <3>1. Scans(path) \in [0 .. n -> ScanStates]
      BY <2>1, ScansDef
    <3> QED
      BY <2>1, <3>1
  <2>3. scan.used = 0 /\ Len(k) <= n
    <3>1. Fits(scan, path, n)
      BY <2>1, ScanFits
    <3>2. scan.used \in Nat
      BY <2>2, ScanFields
    <3> HIDE DEF scan
    <3> QED
      BY <2>1, <3>1, <3>2 DEF Fits
  <2>4. Matches(k, t, Len(t)) /\ ~ scan.found_dot_dot
    <3>1. Agrees(scan, t, Reached(path, scan, n))
      BY <2>1, ScanAgrees
    <3>2. Reached(path, scan, n) = Place(path, n)
      <4>1. n + 0 = n
        BY <2>1
      <4> QED
        BY <2>3, <4>1 DEF Reached
    <3>3. Place(path, n) = Len(t)
      BY <2>1, RootedMeaningType
    <3> QED
      BY <3>1, <3>2, <3>3 DEF Agrees
  <2>5. k \in Seq(KeptChars) /\ NoTwo(k, "slash") /\ Len(k) \in Nat
    <3>1. SlashesKnown(scan)
      BY <2>1, ScanSlashes
    <3> QED
      BY <2>2, <3>1, ScanFields DEF SlashesKnown
  <2>6. Trimmed(R) = Canonical(path)
    <3> HIDE DEF k, scan
    <3> QED
      BY <2>1, <2>4, <2>5, TrimmedCanonical
  <2>7. CASE path # <<>>
    <3>1. sanitize_path(path) = Trimmed(Limited(R))
      BY <2>4, <2>7 DEF sanitize_path
    <3>2. Len(R) <= Len(k) + 1
      <4>1. "slash" \in KeptChars
        BY DEF KeptChars, PathChars
      <4> DEFINE u == <<"slash">>
      <4>2. u \in Seq(KeptChars) /\ Len(u) = 1
        BY <4>1
      <4>3. Rooted(k) = u \o k \/ Rooted(k) = k
        BY DEF Rooted
      <4>4. Len(u \o k) = Len(u) + Len(k)
        BY <2>5, <4>2, ConcatProperties
      <4> HIDE DEF u, k
      <4> QED
        BY <2>5, <4>2, <4>3, <4>4
    <3>3. Shaped(R)
      BY <2>5, RootedShaped
    <3>4. Len(R) \in Nat /\ MAX_PATH_LENGTH \in Nat
      BY <3>3, LenProperties, LengthsAssumption DEF Shaped
    <3> HIDE DEF R, k, scan
    <3>5. ~ (Len(R) > MAX_PATH_LENGTH)
      BY <2>1, <2>3, <2>5, <3>2, <3>4
    <3>6. Limited(R) = R
      BY <3>5 DEF Limited
    <3> QED
      BY <2>6, <3>1, <3>6
  <2>8. CASE path = <<>>
    <3>1. sanitize_path(path) = <<"slash">>
      BY <2>8 DEF sanitize_path
    <3>2. n = 0
      BY <2>8, EmptySeq
    <3>3. k = <<>>
      <4>1. Scans(path)[0] = Start
        BY <2>1, ScansDef
      <4>2. scan = Start
        BY <3>2, <4>1
      <4> HIDE DEF scan
      <4> QED
        BY <4>2 DEF Start
    <3>4. R = <<"slash">>
      <4>1. R = <<"slash">> \o <<>>
        BY <3>3 DEF Rooted
      <4> QED
        BY <4>1
    <3> QED
      BY <2>6, <3>1, <3>4, TrimmedRoot
  <2> QED
    BY <2>7, <2>8
<1> QED
  BY <1>1, InputCorrect, PTL
====
