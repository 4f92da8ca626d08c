---------------------------- MODULE SocketRxProofs ----------------------------
(***************************************************************************)
(* Theorems about SocketRx, for every set of threads and sockets and every *)
(* size of the buffers.                                                    *)
(***************************************************************************)
EXTENDS SocketRx, FiniteSetTheorems, NaturalsInduction, WellFoundedInduction, TLAPS

-----------------------------------------------------------------------------
(* Sums of packet sizes. Upto is a recursive function: what it computes is *)
(* found from the least number at which a claim about it would fail.       *)

LEMMA LeastOf ==
  ASSUME NEW S \in SUBSET Nat, S # {}
  PROVE  \E x \in S : \A k \in S : x <= k
  <1> DEFINE R == OpToRel(<, Nat)
  <1>1. IsWellFoundedOn(R, Nat)
    BY NatLessThanWellFounded
  <1>2. PICK x \in S : \A k \in S : <<k, x>> \notin R
    <2> HIDE DEF R
    <2> QED BY <1>1, WFMin
  <1>3. \A k \in S : x <= k
    <2>1. ASSUME NEW k \in S, k < x PROVE <<k, x>> \in R
      <3>1. <<k, x>> \in Nat \X Nat /\ <<k, x>>[1] = k /\ <<k, x>>[2] = x
        OBVIOUS
      <3> QED BY <2>1, <3>1, Zenon DEF OpToRel
    <2>2. \A k \in S : ~(k < x)
      BY <1>2, <2>1, Zenon
    <2> QED BY <2>2
  <1> QED BY <1>3

(* Two functions that start alike and grow alike are alike. *)
LEMMA SameSteps ==
  ASSUME NEW n \in Nat, NEW f \in [0 .. n -> Int], NEW g \in [0 .. n -> Int], f[0] = g[0],
         \A i \in 1 .. n : f[i] - f[i - 1] = g[i] - g[i - 1]
  PROVE  \A i \in 0 .. n : f[i] = g[i]
  <1> SUFFICES ASSUME NEW i \in 0 .. n, f[i] # g[i] PROVE FALSE
    OBVIOUS
  <1> DEFINE S == {k \in 0 .. n : f[k] # g[k]}
  <1>1. S \in SUBSET Nat /\ S # {}
    <2>1. i \in S
      OBVIOUS
    <2>2. \A k \in S : k \in Nat
      OBVIOUS
    <2> QED BY <2>1, <2>2
  <1>2. PICK k \in S : \A j \in S : k <= j
    BY <1>1, LeastOf
  <1>3. k # 0 /\ k \in 1 .. n /\ k - 1 \in 0 .. n /\ f[k] # g[k]
    BY <1>2
  <1>4. f[k - 1] = g[k - 1]
    BY <1>2, <1>3
  <1> QED BY <1>3, <1>4

(* The recursive definition has a value. *)
LEMMA UptoExists ==
  ASSUME NEW q \in Seq(Nat), NEW n \in 0 .. Len(q)
  PROVE  \E f \in [0 .. n -> Nat] : f[0] = 0 /\ \A i \in 1 .. n : f[i] = f[i - 1] + q[i]
  <1> DEFINE P(m) == \E f \in [0 .. m -> Nat] : f[0] = 0 /\ \A i \in 1 .. m : f[i] = f[i - 1] + q[i]
             S == {m \in 0 .. Len(q) : ~P(m)}
  <1> SUFFICES ASSUME S # {} PROVE FALSE
    OBVIOUS
  <1> HIDE DEF P
  <1>0. S \in SUBSET Nat
    OBVIOUS
  <1>1. PICK k \in S : \A j \in S : k <= j
    BY <1>0, LeastOf
  <1>2. P(0)
    <2>1. [i \in 0 .. 0 |-> 0] \in [0 .. 0 -> Nat] /\ [i \in 0 .. 0 |-> 0][0] = 0 /\ 1 .. 0 = {}
      OBVIOUS
    <2> QED BY <2>1 DEF P
  <1>3. k # 0 /\ k \in 1 .. Len(q) /\ k - 1 \in 0 .. Len(q) /\ k - 1 \notin S
    BY <1>1, <1>2
  <1>4. P(k - 1)
    BY <1>3
  <1>5. PICK f \in [0 .. k - 1 -> Nat] : f[0] = 0 /\ \A i \in 1 .. k - 1 : f[i] = f[i - 1] + q[i]
    BY <1>4 DEF P
  <1> DEFINE g == [i \in 0 .. k |-> IF i = k THEN f[k - 1] + q[k] ELSE f[i]]
  <1>6. f[k - 1] \in Nat /\ q[k] \in Nat /\ f[k - 1] + q[k] \in Nat
    BY <1>3, <1>5
  <1>7. g \in [0 .. k -> Nat]
    <2> SUFFICES ASSUME NEW i \in 0 .. k PROVE g[i] \in Nat
      OBVIOUS
    <2>1. i # k => i \in 0 .. k - 1
      BY <1>3
    <2> QED BY <1>5, <1>6, <2>1
  <1>8. g[0] = 0
    BY <1>3, <1>5
  <1>9. ASSUME NEW i \in 1 .. k PROVE g[i] = g[i - 1] + q[i]
    <2>1. i - 1 \in 0 .. k /\ i - 1 # k /\ i \in 0 .. k
      BY <1>3
    <2>2. g[i - 1] = f[i - 1]
      BY <2>1
    <2>3. CASE i = k
      BY <2>1, <2>2, <2>3
    <2>4. CASE i # k
      <3>1. i \in 1 .. k - 1
        BY <1>3, <2>4
      <3> QED BY <1>5, <2>1, <2>2, <2>4, <3>1
    <2> QED BY <2>3, <2>4
  <1> HIDE DEF g
  <1>10. P(k)
    BY <1>7, <1>8, <1>9 DEF P
  <1> QED BY <1>1, <1>10

LEMMA UptoFacts ==
  ASSUME NEW q \in Seq(Nat)
  PROVE  /\ Upto(q) \in [0 .. Len(q) -> Nat] /\ Upto(q)[0] = 0 /\ Len(q) \in Nat
         /\ \A i \in 1 .. Len(q) : Upto(q)[i] = Upto(q)[i - 1] + q[i]
         /\ Total(q) \in Nat
  <1> DEFINE P(f) == f = [i \in 0 .. Len(q) |-> IF i = 0 THEN 0 ELSE f[i - 1] + q[i]]
  <1>0. Len(q) \in Nat /\ \A i \in 1 .. Len(q) : q[i] \in Nat
    OBVIOUS
  <1>1. PICK f \in [0 .. Len(q) -> Nat] : f[0] = 0 /\ \A i \in 1 .. Len(q) : f[i] = f[i - 1] + q[i]
    <2>1. Len(q) \in 0 .. Len(q)
      BY <1>0
    <2> QED BY <2>1, UptoExists
  <1>2. P(f)
    <2>1. \A i \in 0 .. Len(q) : f[i] = IF i = 0 THEN 0 ELSE f[i - 1] + q[i]
      <3> SUFFICES ASSUME NEW i \in 0 .. Len(q), i # 0 PROVE f[i] = f[i - 1] + q[i]
        BY <1>1
      <3>1. i \in 1 .. Len(q)
        BY <1>0
      <3> QED BY <1>1, <3>1
    <2> QED BY <1>1, <2>1
  <1>3. Upto(q) = CHOOSE h : P(h)
    BY DEF Upto
  <1>4. P(Upto(q))
    <2> HIDE DEF P
    <2> QED BY <1>2, <1>3
  <1> DEFINE u == Upto(q)
  <1>5. u = [i \in 0 .. Len(q) |-> IF i = 0 THEN 0 ELSE u[i - 1] + q[i]]
    BY <1>4
  <1> HIDE DEF u
  <1>6. u[0] = 0 /\ \A i \in 1 .. Len(q) : u[i] = u[i - 1] + q[i]
    <2>1. 0 \in 0 .. Len(q) /\ \A i \in 1 .. Len(q) : i \in 0 .. Len(q) /\ i # 0
      BY <1>0
    <2> QED BY <1>5, <2>1
  <1>7. \A i \in 0 .. Len(q) : u[i] = f[i]
    <2> SUFFICES ASSUME NEW i \in 0 .. Len(q), u[i] # f[i] PROVE FALSE
      OBVIOUS
    <2> DEFINE S == {k \in 0 .. Len(q) : u[k] # f[k]}
    <2>1. S \in SUBSET Nat /\ S # {}
      BY <1>0
    <2>2. PICK k \in S : \A j \in S : k <= j
      BY <2>1, LeastOf
    <2>3. k # 0 /\ k \in 1 .. Len(q) /\ k - 1 \in 0 .. Len(q)
      BY <1>0, <1>1, <1>6, <2>2
    <2>4. u[k - 1] = f[k - 1]
      BY <1>0, <2>2, <2>3
    <2> QED BY <1>1, <1>6, <2>2, <2>3, <2>4
  <1>8. u \in [0 .. Len(q) -> Nat]
    BY <1>1, <1>5, <1>7
  <1>9. Total(q) = u[Len(q)] /\ Len(q) \in 0 .. Len(q)
    BY <1>0 DEF Total, u
  <1> QED BY <1>0, <1>6, <1>8, <1>9 DEF u

LEMMA TotalEmpty == Total(<<>>) = 0
  <1>1. <<>> \in Seq(Nat) /\ Len(<<>>) = 0
    OBVIOUS
  <1> QED BY <1>1, UptoFacts DEF Total

LEMMA HeadOfTotal ==
  ASSUME NEW q \in Seq(Nat), q # <<>>
  PROVE  Head(q) \in Nat /\ Head(q) <= Total(q)
  <1> DEFINE u == Upto(q)
             S == {k \in 1 .. Len(q) : u[k] < u[1]}
  <1>1. /\ u \in [0 .. Len(q) -> Nat] /\ u[0] = 0 /\ Total(q) = u[Len(q)]
        /\ \A i \in 1 .. Len(q) : u[i] = u[i - 1] + q[i]
    BY UptoFacts DEF Total
  <1>2. Len(q) \in Nat /\ Len(q) >= 1 /\ Head(q) = q[1] /\ \A i \in 1 .. Len(q) : q[i] \in Nat
    OBVIOUS
  <1> HIDE DEF u
  <1>3. u[1] = q[1]
    BY <1>1, <1>2
  <1>4. S = {}
    <2> SUFFICES ASSUME S # {} PROVE FALSE
      OBVIOUS
    <2>1. S \in SUBSET Nat
      BY <1>2
    <2>2. PICK k \in S : \A j \in S : k <= j
      BY <2>1, LeastOf
    <2>3. k \in 1 .. Len(q) /\ u[k] < u[1] /\ k # 1 /\ k - 1 \in 1 .. Len(q)
      BY <1>1, <1>2, <2>2
    <2>4. ~(u[k - 1] < u[1])
      BY <1>2, <2>2, <2>3
    <2>5. u[k] = u[k - 1] + q[k] /\ q[k] \in Nat /\ u[k] \in Nat /\ u[k - 1] \in Nat /\ u[1] \in Nat
      <3>1. 1 \in 0 .. Len(q) /\ k \in 0 .. Len(q) /\ k - 1 \in 0 .. Len(q)
        BY <1>2, <2>3
      <3>2. u[k] \in Nat /\ u[k - 1] \in Nat /\ u[1] \in Nat
        BY ONLY <1>1, <3>1
      <3>3. q[k] \in Nat
        BY ONLY <1>2, <2>3
      <3> QED BY ONLY <1>1, <2>3, <3>2, <3>3
    <2> QED BY ONLY <2>3, <2>4, <2>5
  <1>5. ~(u[Len(q)] < u[1])
    BY <1>2, <1>4
  <1> QED BY <1>1, <1>2, <1>3, <1>5

LEMMA TotalAppend ==
  ASSUME NEW q \in Seq(Nat), NEW n \in Nat
  PROVE  Total(Append(q, n)) = Total(q) + n
  <1> DEFINE r == Append(q, n)
             f == Upto(r)
             g == [i \in 0 .. Len(q) + 1 |-> IF i = Len(q) + 1 THEN Total(q) + n ELSE Upto(q)[i]]
  <1>1. /\ r \in Seq(Nat) /\ Len(q) \in Nat /\ Len(r) = Len(q) + 1 /\ r[Len(q) + 1] = n
        /\ \A i \in 1 .. Len(q) : r[i] = q[i]
    OBVIOUS
  <1>2. /\ Upto(q) \in [0 .. Len(q) -> Nat] /\ Upto(q)[0] = 0 /\ Total(q) = Upto(q)[Len(q)]
        /\ \A i \in 1 .. Len(q) : Upto(q)[i] = Upto(q)[i - 1] + q[i]
    BY UptoFacts DEF Total
  <1> HIDE DEF r
  <1>3. /\ f \in [0 .. Len(q) + 1 -> Nat] /\ f[0] = 0 /\ Total(r) = f[Len(q) + 1]
        /\ \A i \in 1 .. Len(q) + 1 : f[i] = f[i - 1] + r[i]
    BY <1>1, UptoFacts DEF Total
  <1>4. g \in [0 .. Len(q) + 1 -> Nat] /\ g[0] = 0 /\ g[Len(q) + 1] = Total(q) + n
    BY <1>1, <1>2
  <1>5. \A i \in 1 .. Len(q) + 1 : g[i] = g[i - 1] + r[i]
    <2> SUFFICES ASSUME NEW i \in 1 .. Len(q) + 1 PROVE g[i] = g[i - 1] + r[i]
      OBVIOUS
    <2>1. CASE i = Len(q) + 1
      <3>1. g[i - 1] = Upto(q)[Len(q)]
        BY <1>1, <2>1
      <3> QED BY <1>1, <1>2, <1>4, <2>1, <3>1
    <2>2. CASE i # Len(q) + 1
      <3>1. i \in 1 .. Len(q) /\ g[i] = Upto(q)[i] /\ g[i - 1] = Upto(q)[i - 1]
        BY <1>1, <2>2
      <3> QED BY <1>1, <1>2, <3>1
    <2> QED BY <2>1, <2>2
  <1> HIDE DEF f, g
  <1>6. \A i \in 1 .. Len(q) + 1 : f[i] - f[i - 1] = g[i] - g[i - 1]
    <2> SUFFICES ASSUME NEW i \in 1 .. Len(q) + 1 PROVE f[i] - f[i - 1] = g[i] - g[i - 1]
      OBVIOUS
    <2>1. /\ f[i] = f[i - 1] + r[i] /\ g[i] = g[i - 1] + r[i] /\ r[i] \in Nat
          /\ f[i - 1] \in Nat /\ g[i - 1] \in Nat
      <3>1. i - 1 \in 0 .. Len(q) + 1 /\ r[i] \in Nat
        BY <1>1
      <3>2. f[i - 1] \in Nat /\ g[i - 1] \in Nat
        BY ONLY <1>3, <1>4, <3>1
      <3> QED BY ONLY <1>3, <1>5, <3>1, <3>2
    <2> QED BY ONLY <2>1
  <1>7. Len(q) + 1 \in Nat /\ f \in [0 .. Len(q) + 1 -> Int] /\ g \in [0 .. Len(q) + 1 -> Int]
    BY <1>1, <1>3, <1>4
  <1>8. f[Len(q) + 1] = g[Len(q) + 1]
    <2>1. Len(q) + 1 \in 0 .. Len(q) + 1
      BY <1>1
    <2> QED BY <1>3, <1>4, <1>6, <1>7, <2>1, SameSteps
  <1> QED BY <1>3, <1>4, <1>8 DEF r

(* Where modem_socket_packet_size_update stops dropping packets. *)
LEMMA SomeCut ==
  ASSUME NEW q \in Seq(Nat), NEW n \in 0 .. Total(q)
  PROVE  \E i \in 0 .. Len(q) : Upto(q)[i] <= n /\ (i = Len(q) \/ Upto(q)[i + 1] > n)
  <1> DEFINE u == Upto(q)
             S == {i \in 0 .. Len(q) : i = Len(q) \/ u[i + 1] > n}
  <1>1. u \in [0 .. Len(q) -> Nat] /\ u[0] = 0 /\ Len(q) \in Nat
    BY UptoFacts
  <1> HIDE DEF u
  <1>2. S \in SUBSET Nat /\ S # {}
    <2>1. Len(q) \in S
      BY <1>1
    <2>2. \A k \in S : k \in Nat
      BY <1>1
    <2> QED BY <2>1, <2>2
  <1>3. PICK k \in S : \A j \in S : k <= j
    BY <1>2, LeastOf
  <1>4. u[k] <= n
    <2>1. CASE k = 0
      BY <1>1, <2>1
    <2>2. CASE k # 0
      <3>1. k - 1 \in 0 .. Len(q) /\ k - 1 \notin S /\ (k - 1) + 1 = k /\ k - 1 # Len(q)
        <4>1. k \in 0 .. Len(q)
          BY <1>3
        <4>2. k - 1 \in 0 .. Len(q) /\ (k - 1) + 1 = k /\ k - 1 # Len(q) /\ ~(k <= k - 1)
          BY ONLY <1>1, <2>2, <4>1
        <4> QED BY <1>3, <4>2
      <3>2. ~(u[k] > n)
        <4>1. ~(u[(k - 1) + 1] > n)
          BY <3>1
        <4> QED BY <3>1, <4>1
      <3>3. u[k] \in Nat /\ n \in Int
        BY <1>1, <1>3, UptoFacts
      <3> QED BY ONLY <3>2, <3>3
    <2> QED BY <2>1, <2>2
  <1> QED BY <1>3, <1>4 DEF u

LEMMA FunctionIsSeq ==
  ASSUME NEW S, NEW n \in Nat, NEW f \in [1 .. n -> S]
  PROVE  f \in Seq(S) /\ Len(f) = n
  <1>1. f \in Seq(S)
    OBVIOUS
  <1> QED BY <1>1

LEMMA SuffixFacts ==
  ASSUME NEW S, NEW q \in Seq(S), NEW i \in 0 .. Len(q)
  PROVE  /\ SubSeq(q, i + 1, Len(q)) \in Seq(S) /\ Len(SubSeq(q, i + 1, Len(q))) = Len(q) - i
         /\ \A j \in 1 .. Len(q) - i : SubSeq(q, i + 1, Len(q))[j] = q[i + j]
  OBVIOUS

(* What is dropped from the front is what was to be dropped. *)
LEMMA ShrunkFacts ==
  ASSUME NEW B \in Nat, NEW q \in Seq(1 .. B), NEW n \in 0 .. Total(q)
  PROVE  /\ Shrunk(q, n) \in Seq(1 .. B) /\ Len(Shrunk(q, n)) <= Len(q)
         /\ Total(Shrunk(q, n)) = Total(q) - n
  <1> DEFINE u == Upto(q)
             Cut(i) == u[i] <= n /\ (i = Len(q) \/ u[i + 1] > n)
             c == CHOOSE i \in 0 .. Len(q) : Cut(i)
             r == SubSeq(q, c + 1, Len(q))
             v == [r EXCEPT ![1] = @ - (n - u[c])]
  <1>1. q \in Seq(Nat) /\ Len(q) \in Nat /\ \A i \in 1 .. Len(q) : q[i] \in 1 .. B
    OBVIOUS
  <1>2. /\ u \in [0 .. Len(q) -> Nat] /\ u[0] = 0 /\ Total(q) = u[Len(q)] /\ Total(q) \in Nat
        /\ \A i \in 1 .. Len(q) : u[i] = u[i - 1] + q[i]
    BY <1>1, UptoFacts DEF Total
  <1>3. \E i \in 0 .. Len(q) : Cut(i)
    BY <1>1, SomeCut
  <1>4. Shrunk(q, n) = IF r = <<>> THEN r ELSE v
    BY DEF Shrunk
  <1>5. c \in 0 .. Len(q) /\ Cut(c)
    <2> HIDE DEF Cut
    <2> QED BY <1>3
  <1> HIDE DEF c, u
  <1>6. u[c] \in Nat /\ u[c] <= n /\ n \in Nat
    BY <1>2, <1>5
  <1>7. /\ r \in Seq(1 .. B) /\ Len(r) = Len(q) - c
        /\ \A j \in 1 .. Len(q) - c : r[j] = q[c + j]
    BY <1>5, SuffixFacts
  <1> HIDE DEF r
  <1>8. CASE c = Len(q)
    <2>1. r = <<>>
      BY <1>1, <1>7, <1>8
    <2>2. Total(q) = n
      BY <1>2, <1>5, <1>6, <1>8
    <2>3. Total(r) = 0 /\ Len(r) = 0
      BY <2>1, TotalEmpty
    <2>4. Total(q) - n = 0 /\ Len(r) <= Len(q)
      BY <1>1, <1>6, <2>2, <2>3
    <2> QED BY <1>4, <1>7, <2>1, <2>3, <2>4
  <1>9. CASE c # Len(q)
    <2> DEFINE m == Len(q) - c
    <2>1. m \in Nat /\ m >= 1 /\ c + 1 \in 1 .. Len(q) /\ m = Len(r) /\ c + m = Len(q) /\ m <= Len(q)
      <3>1. c \in 0 .. Len(q) /\ Len(r) = Len(q) - c
        BY <1>5, <1>7
      <3> QED BY ONLY <1>1, <1>9, <3>1
    <2>2. r # <<>> /\ r[1] = q[c + 1] /\ 1 \in 1 .. m
      BY <1>7, <2>1
    <2>3. u[c + 1] > n /\ u[c + 1] = u[c] + q[c + 1]
      <3>1. u[c + 1] = u[(c + 1) - 1] + q[c + 1] /\ (c + 1) - 1 = c
        BY <1>2, <1>5, <2>1
      <3> QED BY <1>5, <1>9, <3>1
    <2>4. r[1] - (n - u[c]) \in 1 .. B
      <3>1. q[c + 1] \in 1 .. B
        BY <1>1, <2>1
      <3> QED BY ONLY <1>6, <2>2, <2>3, <3>1
    <2>5. r \in [1 .. m -> 1 .. B]
      BY <1>7, <2>1
    <2> HIDE DEF m
    <2>6. v \in [1 .. m -> 1 .. B] /\ v[1] = r[1] - (n - u[c]) /\ \A j \in 2 .. m : v[j] = r[j]
      BY <2>1, <2>2, <2>4, <2>5
    <2> HIDE DEF v
    <2>7. v \in Seq(1 .. B) /\ Len(v) = m
      <3>1. m \in Nat
        BY <2>1
      <3> QED BY ONLY <2>6, <3>1, FunctionIsSeq
    <2>8. /\ Upto(v) \in [0 .. m -> Nat] /\ Upto(v)[0] = 0 /\ Total(v) = Upto(v)[m]
          /\ \A i \in 1 .. m : Upto(v)[i] = Upto(v)[i - 1] + v[i]
      <3>1. v \in Seq(Nat)
        BY <2>1, <2>6, FunctionIsSeq
      <3> QED BY <2>7, <3>1, UptoFacts DEF Total
    <2> DEFINE g == [j \in 0 .. m |-> IF j = 0 THEN 0 ELSE u[c + j] - n]
    <2>9. \A j \in 0 .. m : c + j \in 0 .. Len(q) /\ u[c + j] \in Nat
      <3> SUFFICES ASSUME NEW j \in 0 .. m PROVE c + j \in 0 .. Len(q) /\ u[c + j] \in Nat
        OBVIOUS
      <3>1. c \in 0 .. Len(q)
        BY <1>5
      <3>2. c + j \in 0 .. Len(q)
        BY ONLY <1>1, <2>1, <3>1
      <3> QED BY ONLY <1>2, <3>2
    <2>10. g \in [0 .. m -> Int] /\ g[0] = 0 /\ g[m] = Total(q) - n
      <3>1. \A j \in 0 .. m : (IF j = 0 THEN 0 ELSE u[c + j] - n) \in Int
        BY ONLY <1>6, <2>9
      <3>2. g \in [0 .. m -> Int]
        BY ONLY <3>1
      <3>3. 0 \in 0 .. m /\ m \in 0 .. m /\ m # 0
        BY ONLY <2>1
      <3>4. u[c + m] = Total(q)
        BY <1>2, <2>1
      <3>5. g[0] = 0 /\ g[m] = u[c + m] - n
        BY ONLY <3>3
      <3> QED BY <3>2, <3>4, <3>5
    <2>11. \A j \in 1 .. m : g[j] - g[j - 1] = v[j]
      <3> SUFFICES ASSUME NEW j \in 1 .. m PROVE g[j] - g[j - 1] = v[j]
        OBVIOUS
      <3>1. j \in 0 .. m /\ j - 1 \in 0 .. m /\ c + j \in 1 .. Len(q) /\ (c + j) - 1 = c + (j - 1)
        BY <1>1, <1>5, <2>1
      <3>2. u[c + j] = u[c + (j - 1)] + q[c + j] /\ q[c + j] \in Nat
        BY <1>1, <1>2, <3>1
      <3>3. CASE j = 1
        <4>1. g[j] = u[c + 1] - n /\ g[j - 1] = 0
          BY <3>1, <3>3
        <4>2. v[1] = q[c + 1] - (n - u[c]) /\ q[c + 1] \in Nat
          BY <2>2, <2>6, <3>2, <3>3
        <4> QED BY ONLY <1>6, <2>3, <3>3, <4>1, <4>2
      <3>4. CASE j # 1
        <4>1. g[j] = u[c + j] - n /\ g[j - 1] = u[c + (j - 1)] - n /\ j \in 2 .. m /\ j \in 1 .. Len(q) - c
          <5>1. j # 0 /\ j - 1 # 0 /\ j \in 2 .. m /\ j \in 1 .. Len(q) - c
            BY ONLY <2>1, <3>1, <3>4, <1>5, <1>1
          <5> QED BY <3>1, <5>1
        <4>2. v[j] = q[c + j] /\ u[c + j] \in Nat /\ u[c + (j - 1)] \in Nat
          BY <1>7, <2>6, <2>9, <3>1, <4>1
        <4> QED BY ONLY <1>6, <3>2, <4>1, <4>2
      <3> QED BY <3>3, <3>4
    <2> HIDE DEF g
    <2>12. \A i \in 1 .. m : Upto(v)[i] - Upto(v)[i - 1] = g[i] - g[i - 1]
      <3> SUFFICES ASSUME NEW i \in 1 .. m PROVE Upto(v)[i] - Upto(v)[i - 1] = g[i] - g[i - 1]
        OBVIOUS
      <3>1. i - 1 \in 0 .. m /\ v[i] \in Nat
        BY <2>1, <2>6
      <3>2. Upto(v)[i - 1] \in Nat /\ Upto(v)[i] = Upto(v)[i - 1] + v[i]
        BY <2>8, <3>1
      <3> QED BY <2>11, <3>1, <3>2
    <2>13. Upto(v) \in [0 .. m -> Int] /\ m \in 0 .. m
      BY <2>1, <2>8
    <2>14. Upto(v)[m] = g[m]
      BY <2>1, <2>8, <2>10, <2>12, <2>13, SameSteps
    <2> QED BY <1>4, <2>1, <2>2, <2>7, <2>8, <2>10, <2>14
  <1> QED BY <1>8, <1>9

(* modem_socket_packet_size_update: the total is what it is to be, unless  *)
(* a packet found no slot.                                                 *)
LEMMA ResizedFacts ==
  ASSUME NEW q \in Seq(1 .. BufSize), Len(q) <= MaxPackets, NEW total \in 0 .. BufSize
  PROVE  /\ Resized(q, total) \in Seq(1 .. BufSize) /\ Len(Resized(q, total)) <= MaxPackets
         /\ total <= Total(q) \/ Len(q) < MaxPackets => Total(Resized(q, total)) = total
         /\ total > Total(q) /\ Len(q) >= MaxPackets => Resized(q, total) = q
         /\ Total(q) \in Nat
  <1>1. BufSize \in Nat /\ MaxPackets \in Nat \ {0} /\ Len(q) \in Nat /\ total \in Nat
    BY SizeAssumption
  <1>2. q \in Seq(Nat)
    <2>1. \A i \in 1 .. Len(q) : q[i] \in Nat
      BY <1>1
    <2>2. q \in [1 .. Len(q) -> Nat]
      BY <2>1
    <2> QED BY <1>1, <2>2, FunctionIsSeq
  <1>3. Total(q) \in Nat
    BY <1>2, UptoFacts
  <1>4. CASE total = 0
    <2>1. Resized(q, total) = <<>>
      BY <1>4 DEF Resized
    <2>2. <<>> \in Seq(1 .. BufSize) /\ Len(<<>>) = 0
      OBVIOUS
    <2>3. Total(Resized(q, total)) = total /\ Len(Resized(q, total)) <= MaxPackets
      BY <1>1, <1>4, <2>1, <2>2, TotalEmpty
    <2>4. ~(total > Total(q))
      BY ONLY <1>3, <1>4
    <2> QED BY <1>3, <2>1, <2>2, <2>3, <2>4
  <1>5. CASE total # 0 /\ total <= Total(q)
    <2> DEFINE n == Total(q) - total
    <2>1. n \in 0 .. Total(q) /\ Total(q) - n = total
      BY <1>1, <1>3, <1>5
    <2>2. Resized(q, total) = Shrunk(q, n)
      BY <1>5 DEF Resized
    <2> HIDE DEF n
    <2>3. /\ Shrunk(q, n) \in Seq(1 .. BufSize) /\ Len(Shrunk(q, n)) <= Len(q)
          /\ Total(Shrunk(q, n)) = Total(q) - n
      BY <1>1, <2>1, ShrunkFacts
    <2>4. Len(Shrunk(q, n)) \in Nat
      BY <2>3
    <2> QED BY <1>1, <1>3, <1>5, <2>1, <2>2, <2>3, <2>4
  <1>6. CASE total # 0 /\ ~(total <= Total(q)) /\ Len(q) >= MaxPackets
    BY <1>1, <1>3, <1>6 DEF Resized
  <1>7. CASE total # 0 /\ ~(total <= Total(q)) /\ ~(Len(q) >= MaxPackets)
    <2> DEFINE d == total - Total(q)
    <2>1. d \in 1 .. BufSize /\ d \in Nat /\ Total(q) + d = total
      BY <1>1, <1>3, <1>7
    <2>2. Resized(q, total) = Append(q, d)
      BY <1>7 DEF Resized
    <2> HIDE DEF d
    <2>3. Append(q, d) \in Seq(1 .. BufSize) /\ Len(Append(q, d)) = Len(q) + 1
      BY <2>1
    <2>4. Total(Append(q, d)) = total
      BY <1>2, <2>1, TotalAppend
    <2> QED BY <1>1, <1>3, <1>7, <2>2, <2>3, <2>4
  <1> QED BY <1>4, <1>5, <1>6, <1>7

-----------------------------------------------------------------------------
(* Type correctness, in parts, with what the parts rest on.                *)

AppType ==
    /\ pc \in [Thread -> Pc] /\ on \in [Thread -> Socket \cup {None}]
    /\ to_read \in [Thread -> 0 .. MaxPayload]
    /\ \A t \in Thread : /\ pc[t] = "idle" <=> on[t] = None
                         /\ pc[t] \in {"recv_lock", "recv_size"} => to_read[t] >= 1

SlotType ==
    /\ allocated \in [Socket -> BOOLEAN] /\ is_connected \in [Socket -> BOOLEAN]
    /\ DOMAIN sizes = Socket
    /\ \A s \in Socket : sizes[s] \in Seq(1 .. BufSize) /\ Len(sizes[s]) <= MaxPackets

SignalType == is_waiting \in [Socket -> BOOLEAN] /\ data_ready \in [Socket -> {0, 1}]

(* buffered is the length of what the buffer holds, and that fits.         *)
DataType ==
    /\ DOMAIN rx_buf = Socket /\ \A s \in Socket : rx_buf[s] = None \/ rx_buf[s] \in Buffer
    /\ buffered \in [Socket -> 0 .. BufSize]
    /\ lock \in [Socket -> Thread \cup {RX, None}]
    /\ \A s \in Socket : buffered[s] = Len(Bytes(s))
    /\ \A s \in Socket : rx_buf[s] # None => Len(rx_buf[s].bytes) <= rx_buf[s].used

RxType ==
    /\ rx \in [pc : {"idle", "lock", "read", "unlock", "size", "ready"}, s : Socket \cup {None},
               left : 0 .. MaxPayload, skip : {0, 1}, retry : 0 .. MaxRetries, total : 0 .. BufSize]
    /\ rx.pc # "idle" <=> rx.s # None

WireType ==
    /\ line \in Seq(Element) /\ uart \in Seq(Element) /\ owed \in Seq(Element)
    /\ link \in [Socket -> BOOLEAN] /\ sent \in [Socket -> Nat]

(* The ghosts: what was given, from where on, and what was lost.           *)
LogType ==
    /\ got \in [Socket -> Seq(Element)] /\ base \in [Socket -> Nat]
    /\ DOMAIN lapse = Socket /\ orphaned \subseteq Socket

(* The account of mdm_recv_pool: what is in use, free or wiped is all of it. *)
Account  == pool + Cardinality(Holding) + (IF Handling THEN 1 ELSE 0)
PoolType == pool \in Nat /\ wiped \in Nat /\ Account + wiped = PoolSize

TInv == AppType /\ SlotType /\ SignalType /\ DataType /\ RxType /\ WireType /\ PoolType /\ LogType

LEMMA ConstantTypes ==
  /\ BufSize \in Nat \ {0} /\ PoolSize \in Nat \ {0} /\ Chunk \in Nat \ {0}
  /\ MaxPackets \in Nat \ {0} /\ MaxPayload \in Nat \ {0} /\ MaxRetries \in Nat
  BY SizeAssumption

LEMMA HoldingFinite ==
  /\ IsFiniteSet(Holding) /\ Cardinality(Holding) \in Nat
  <1>1. Holding \subseteq Socket
    BY DEF Holding
  <1> QED BY <1>1, SocketAssumption, FS_Subset, FS_CardinalityType

LEMMA TypeIsTypeOK == TInv => TypeOK
  <1> SUFFICES ASSUME TInv PROVE TypeOK
    OBVIOUS
  <1>1. pool \in 0 .. PoolSize
    BY HoldingFinite, ConstantTypes DEF TInv, PoolType, Account
  <1> QED BY <1>1 DEF TInv, TypeOK, AppType, SlotType, SignalType, DataType, RxType, WireType, PoolType, LogType

LEMMA MinOfTwo ==
  ASSUME NEW a \in Nat, NEW b \in Nat
  PROVE  Min({a, b}) \in {a, b} /\ Min({a, b}) <= a /\ Min({a, b}) <= b
  <1>1. \E x \in {a, b} : \A y \in {a, b} : x <= y
    <2>1. CASE a <= b
      BY <2>1
    <2>2. CASE ~(a <= b)
      BY <2>2
    <2> QED BY <2>1, <2>2
  <1> QED BY <1>1 DEF Min

LEMMA MinOfThree ==
  ASSUME NEW a \in Nat, NEW b \in Nat, NEW c \in Nat
  PROVE  /\ Min({a, b, c}) \in Nat
         /\ Min({a, b, c}) <= a /\ Min({a, b, c}) <= b /\ Min({a, b, c}) <= c
  <1>1. \E x \in {a, b, c} : \A y \in {a, b, c} : x <= y
    <2>1. CASE a <= b /\ a <= c
      BY <2>1
    <2>2. CASE b <= a /\ b <= c
      BY <2>2
    <2>3. CASE c <= a /\ c <= b
      BY <2>3
    <2> QED BY <2>1, <2>2, <2>3
  <1> QED BY <1>1 DEF Min

(* The next packet is what the sizes begin with. *)
LEMMA NextPacket ==
  ASSUME SlotType, NEW s \in Socket
  PROVE  /\ next_packet_size(s) \in 0 .. BufSize
         /\ next_packet_size(s) = 0 <=> sizes[s] = <<>>
         /\ next_packet_size(s) <= Total(sizes[s]) /\ Total(sizes[s]) \in Nat
  <1> DEFINE q == sizes[s]
  <1>1. q \in Seq(1 .. BufSize) /\ BufSize \in Nat
    BY ConstantTypes DEF SlotType
  <1> HIDE DEF q
  <1>2. q \in Seq(Nat)
    <2>1. q \in [1 .. Len(q) -> Nat] /\ Len(q) \in Nat
      BY <1>1
    <2> QED BY <2>1, FunctionIsSeq
  <1>3. Total(q) \in Nat
    BY <1>2, UptoFacts
  <1>4. CASE q = <<>>
    BY <1>1, <1>3, <1>4 DEF next_packet_size, q
  <1>5. CASE q # <<>>
    <2>1. Head(q) \in 1 .. BufSize
      BY <1>1, <1>5
    <2>2. Head(q) <= Total(q)
      BY <1>2, <1>5, HeadOfTotal
    <2> QED BY <1>1, <1>3, <1>5, <2>1, <2>2 DEF next_packet_size, q
  <1> QED BY <1>4, <1>5

-----------------------------------------------------------------------------
(* The threads. *)

LEMMA AppKept ==
  ASSUME TInv, NEW t \in Thread, Call(t) \/ Step(t)
  PROVE  AppType'
  <1>0. AppType
    BY DEF TInv
  <1>n. None \notin Socket
    BY SocketAssumption
  <1> USE <1>0, <1>n DEF AppType, Pc, Goto, Done
  <1>1. ASSUME NEW s \in Socket, socket_get(t, s) PROVE AppType'
    BY <1>1 DEF socket_get
  <1>2. ASSUME NEW s \in Socket, close(t, s) PROVE AppType'
    BY <1>2 DEF close
  <1>3. ASSUME NEW s \in Socket, NEW d \in BOOLEAN, recvfrom(t, s, d) PROVE AppType'
    BY <1>3 DEF recvfrom
  <1>4. CASE socket_init(t)
    BY <1>4 DEF socket_init
  <1>5. CASE recv_flag(t)
    BY <1>5 DEF recv_flag
  <1>6. CASE recv_wait(t)
    BY <1>6 DEF recv_wait
  <1>7. ASSUME NEW n \in 1 .. MaxPayload, recv_next(t, n) PROVE AppType'
    <2> DEFINE k == next_packet_size(on[t])
               m == Min({k, n})
    <2>1. on[t] \in Socket
      BY <1>7 DEF recv_next
    <2>2. k \in Nat /\ n \in Nat
      BY <2>1, NextPacket, ConstantTypes DEF TInv
    <2> HIDE DEF k
    <2>3. m \in {k, n} /\ m <= k /\ m <= n
      BY <2>2, MinOfTwo
    <2> HIDE DEF m
    <2>4. k # 0 => m \in 1 .. MaxPayload
      BY <2>2, <2>3, <1>7, ConstantTypes
    <2>5. \/ k = 0 /\ Done(t) /\ UNCHANGED to_read
          \/ k # 0 /\ to_read' = [to_read EXCEPT ![t] = m] /\ Goto(t, "recv_lock") /\ UNCHANGED on
      BY <1>7 DEF recv_next, k, m
    <2>6. CASE k = 0
      BY <1>7, <2>5, <2>6 DEF recv_next
    <2>7. CASE k # 0
      <3>1. to_read' \in [Thread -> 0 .. MaxPayload] /\ to_read'[t] >= 1
            /\ \A u \in Thread \ {t} : to_read'[u] = to_read[u]
        BY <2>4, <2>5, <2>7, ConstantTypes
      <3> QED BY <1>7, <2>5, <2>7, <3>1 DEF recv_next
    <2> QED BY <2>6, <2>7
  <1>8. CASE recv_short(t)
    BY <1>8 DEF recv_short
  <1>9. CASE recv_lock(t)
    BY <1>9 DEF recv_lock
  <1>10. CASE recv_size(t)
    BY <1>10 DEF recv_size
  <1>11. CASE recv_more(t)
    BY <1>11 DEF recv_more
  <1>12. CASE close_modem(t)
    BY <1>12 DEF close_modem
  <1>13. CASE close_lock(t)
    BY <1>13 DEF close_lock
  <1>14. CASE close_put(t)
    <2>1. /\ pc'[t] = "idle" /\ on'[t] = None /\ UNCHANGED to_read
          /\ pc' \in [Thread -> Pc] /\ on' \in [Thread -> Socket \cup {None}]
          /\ \A u \in Thread \ {t} :
                /\ on'[u] = on[u]
                /\ pc'[u] = pc[u] \/ (pc[u] = "recv_wait" /\ pc'[u] = "recv_next")
      BY <1>14 DEF close_put
    <2> QED BY <2>1
  <1> QED BY <1>1, <1>2, <1>3, <1>4, <1>5, <1>6, <1>7, <1>8, <1>9, <1>10, <1>11, <1>12, <1>13, <1>14 DEF Call, Step

-----------------------------------------------------------------------------
(* The slots. *)

LEMMA UpdateType ==
  ASSUME SlotType, NEW s \in Socket, NEW total \in 0 .. BufSize, packet_size_update(s, total)
  PROVE  /\ DOMAIN sizes' = Socket
         /\ \A r \in Socket : sizes'[r] \in Seq(1 .. BufSize) /\ Len(sizes'[r]) <= MaxPackets
  <1> DEFINE q == Resized(sizes[s], total)
  <1>1. q \in Seq(1 .. BufSize) /\ Len(q) <= MaxPackets
    BY ResizedFacts DEF SlotType
  <1>2. sizes' = [sizes EXCEPT ![s] = q]
    BY DEF packet_size_update
  <1> HIDE DEF q
  <1> QED BY <1>1, <1>2 DEF SlotType

LEMMA SlotKept ==
  ASSUME TInv, [Next]_vars
  PROVE  SlotType' /\ SignalType'
  <1>0. SlotType /\ SignalType /\ AppType /\ RxType
    BY DEF TInv
  <1> USE DEF slot, SlotType, SignalType
  <1>1. ASSUME UNCHANGED slot PROVE SlotType' /\ SignalType'
    BY <1>0, <1>1
  <1>2. ASSUME UNCHANGED <<sizes, is_waiting, data_ready>>, NEW t \in Thread, NEW s \in Socket, socket_get(t, s)
        PROVE  SlotType' /\ SignalType'
    BY <1>0, <1>2 DEF socket_get
  <1>3. ASSUME NEW t \in Thread, recv_flag(t) \/ recv_wait(t) PROVE SlotType' /\ SignalType'
    BY <1>0, <1>3 DEF recv_flag, recv_wait
  <1>4. ASSUME NEW t \in Thread, recv_size(t) PROVE SlotType' /\ SignalType'
    <2>1. on[t] \in Socket /\ UNCHANGED <<allocated, is_waiting, data_ready, is_connected>>
      BY <1>0, <1>4 DEF recv_size, AppType
    <2> DEFINE T == Total(sizes[on[t]])
               n == IF T > to_read[t] THEN T - to_read[t] ELSE 0
    <2>2. CASE n \in 0 .. BufSize
      <3>1. packet_size_update(on[t], n)
        BY <1>4 DEF recv_size
      <3> QED BY <1>0, <2>1, <2>2, <3>1, UpdateType
    <2>3. CASE n \notin 0 .. BufSize
      <3>1. T \in Nat /\ to_read[t] \in Nat
        BY <1>0, <2>1, NextPacket, ConstantTypes DEF AppType
      <3> HIDE DEF T
      <3>2. n \in Nat /\ n > 0 /\ n <= T
        BY <2>3, <3>1, ConstantTypes
      <3>3. /\ sizes' = [sizes EXCEPT ![on[t]] = Resized(@, n)]
            /\ Resized(sizes[on[t]], n) = Shrunk(sizes[on[t]], T - n)
        BY <1>4, <3>2 DEF recv_size, packet_size_update, Resized, T
      <3> HIDE DEF n
      <3>4. /\ Shrunk(sizes[on[t]], T - n) \in Seq(1 .. BufSize)
            /\ Len(Shrunk(sizes[on[t]], T - n)) <= Len(sizes[on[t]])
        <4>1. T - n \in 0 .. Total(sizes[on[t]])
          BY <3>1, <3>2 DEF T
        <4> QED BY <1>0, <2>1, <4>1, ShrunkFacts, ConstantTypes
      <3>5. Len(Shrunk(sizes[on[t]], T - n)) <= MaxPackets
        BY <1>0, <2>1, <3>4, ConstantTypes
      <3> QED BY <1>0, <2>1, <3>3, <3>4, <3>5
    <2> QED BY <2>2, <2>3
  <1>5. ASSUME NEW t \in Thread, recv_more(t) PROVE SlotType' /\ SignalType'
    BY <1>0, <1>5 DEF recv_more, data_ready_give
  <1>6. ASSUME NEW t \in Thread, close_put(t) PROVE SlotType' /\ SignalType'
    <2>1. /\ <<>> \in Seq(1 .. BufSize) /\ Len(<<>>) <= MaxPackets
      BY ConstantTypes
    <2> QED BY <1>0, <1>6, <2>1 DEF close_put
  <1>7. CASE rx_size
    <2>1. rx.s \in Socket /\ rx.total \in 0 .. BufSize
      BY <1>0, <1>7 DEF RxType, rx_size
    <2> QED BY <1>0, <1>7, <2>1, UpdateType DEF rx_size
  <1>8. CASE rx_ready
    BY <1>0, <1>8 DEF rx_ready, data_ready_give
  <1>9. CASE modem_rx /\ ~rx_size /\ ~rx_ready
    <2>1. UNCHANGED slot
      BY <1>9 DEF modem_rx, rx_process, rx_discard, on_urc_receive, rx_lock, rx_read, rx_retry, rx_unlock
    <2> QED BY <1>1, <2>1
  <1>10. CASE modem
    <2>1. UNCHANGED slot \/ \E s \in Socket : modem_open(s)
      BY <1>10 DEF modem, modem_receive, modem_byte
    <2>2. ASSUME NEW s \in Socket, modem_open(s) PROVE SlotType' /\ SignalType'
      BY <1>0, <2>2 DEF modem_open
    <2> QED BY <1>1, <2>1, <2>2
  <1>11. ASSUME NEW t \in Thread, Call(t) PROVE SlotType' /\ SignalType'
    <2>1. (\E s \in Socket : socket_get(t, s) /\ UNCHANGED <<sizes, is_waiting, data_ready>>) \/ UNCHANGED slot
      BY <1>11 DEF Call, socket_get, close, recvfrom
    <2> QED BY <1>1, <1>2, <2>1
  <1>12. ASSUME NEW t \in Thread, Step(t) PROVE SlotType' /\ SignalType'
    <2>1. \/ UNCHANGED slot \/ close_modem(t)
          \/ recv_flag(t) \/ recv_wait(t) \/ recv_size(t) \/ recv_more(t) \/ close_put(t)
      BY <1>12 DEF Step, socket_init, recv_next, recv_short, recv_lock, close_lock
    <2>2. CASE close_modem(t)
      BY <1>0, <2>2 DEF close_modem
    <2> QED BY <1>1, <1>3, <1>4, <1>5, <1>6, <2>1, <2>2
  <1>13. CASE UNCHANGED vars
    BY <1>1, <1>13 DEF vars
  <1> QED BY <1>7, <1>8, <1>9, <1>10, <1>11, <1>12, <1>13 DEF Next

-----------------------------------------------------------------------------
(* The wires. *)

LEMMA TailType ==
  ASSUME NEW S, NEW q \in Seq(S), q # <<>>
  PROVE  Head(q) \in S /\ Tail(q) \in Seq(S)
  OBVIOUS

LEMMA CutType ==
  ASSUME NEW S, NEW q \in Seq(S), NEW i \in Nat, NEW j \in Nat, j <= Len(q), i <= j
  PROVE  SubSeq(q, i + 1, j) \in Seq(S) /\ Len(SubSeq(q, i + 1, j)) = j - i
         /\ \A k \in 1 .. j - i : SubSeq(q, i + 1, j)[k] = q[i + k]
  OBVIOUS

LEMMA JoinType ==
  ASSUME NEW S, NEW p \in Seq(S), NEW q \in Seq(S)
  PROVE  /\ p \o q \in Seq(S) /\ Len(p \o q) = Len(p) + Len(q)
         /\ \A i \in 1 .. Len(p) + Len(q) : (p \o q)[i] = IF i <= Len(p) THEN p[i] ELSE q[i - Len(p)]
  OBVIOUS

(* What a turn of the loop takes from the UART. *)
LEMMA ChunkTaken ==
  ASSUME TInv, rx.pc = "read", NEW m, m = Min({rx.left + rx.skip, Chunk, Len(uart)}), m > 0
  PROVE  /\ m \in Nat /\ rx.skip \in {0, 1} /\ rx.skip <= m /\ m - rx.skip <= rx.left /\ m <= Len(uart)
         /\ rx.left \in Nat
         /\ SubSeq(uart, rx.skip + 1, m) \in Seq(Element) /\ Len(SubSeq(uart, rx.skip + 1, m)) = m - rx.skip
         /\ SubSeq(uart, m + 1, Len(uart)) \in Seq(Element)
  <1>1. /\ rx.left \in Nat /\ rx.skip \in {0, 1} /\ rx.skip \in Nat /\ Len(uart) \in Nat
        /\ uart \in Seq(Element)
    BY ConstantTypes DEF TInv, RxType, WireType
  <1>2. rx.left + rx.skip \in Nat /\ Chunk \in Nat
    BY <1>1, ConstantTypes
  <1>3. m \in Nat /\ m <= rx.left + rx.skip /\ m <= Len(uart)
    BY ONLY <1>1, <1>2, m = Min({rx.left + rx.skip, Chunk, Len(uart)}), MinOfThree
  <1>4. rx.skip <= m /\ m - rx.skip <= rx.left
    BY ONLY <1>1, <1>3, m > 0
  <1>5. SubSeq(uart, rx.skip + 1, m) \in Seq(Element) /\ Len(SubSeq(uart, rx.skip + 1, m)) = m - rx.skip
    BY ONLY <1>1, <1>3, <1>4, CutType
  <1>6. SubSeq(uart, m + 1, Len(uart)) \in Seq(Element)
    BY ONLY <1>1, <1>3, CutType
  <1> QED BY <1>1, <1>3, <1>4, <1>5, <1>6

LEMMA WireKept ==
  ASSUME TInv, [Next]_vars
  PROVE  WireType'
  <1>0. WireType
    BY DEF TInv
  <1> USE <1>0 DEF WireType, wire
  <1>1. CASE UNCHANGED wire
    BY <1>1
  <1>2. CASE rx_process
    BY <1>2 DEF rx_process
  <1>3. CASE rx_discard \/ on_urc_receive
    <2>1. line # <<>> /\ line' = Tail(line) /\ UNCHANGED <<uart, link, owed, sent>>
      BY <1>3 DEF rx_discard, on_urc_receive
    <2>2. Tail(line) \in Seq(Element)
      BY <2>1, TailType
    <2> QED BY <2>1, <2>2
  <1>4. CASE rx_read
    <2>1. uart' \in Seq(Element) /\ UNCHANGED <<line, link, owed, sent>>
      BY <1>4, ChunkTaken DEF rx_read
    <2> QED BY <2>1
  <1>5. ASSUME NEW t \in Thread, close_modem(t) PROVE WireType'
    BY <1>5 DEF close_modem
  <1>6. ASSUME NEW s \in Socket, modem_open(s) PROVE WireType'
    BY <1>6 DEF modem_open
  <1>7. ASSUME NEW s \in Socket, modem_receive(s) PROVE WireType'
    <2>1. PICK n \in 1 .. MaxPayload :
             /\ uart' = Append(uart, [k |-> "hdr", s |-> s, b |-> n])
             /\ owed' = <<LF>> \o [i \in 1 .. n |-> [k |-> "data", s |-> s, b |-> sent[s] + i]]
             /\ sent' = [sent EXCEPT ![s] = @ + n]
      BY <1>7 DEF modem_receive
    <2>2. n \in Nat /\ n \in 1 .. MaxPayload /\ sent[s] \in Nat
      BY ConstantTypes
    <2>3. [k |-> "hdr", s |-> s, b |-> n] \in Element
      BY <2>2 DEF Element, Header
    <2> DEFINE d == [i \in 1 .. n |-> [k |-> "data", s |-> s, b |-> sent[s] + i]]
    <2>4. \A i \in 1 .. n : [k |-> "data", s |-> s, b |-> sent[s] + i] \in Element
      <3> SUFFICES ASSUME NEW i \in 1 .. n PROVE [k |-> "data", s |-> s, b |-> sent[s] + i] \in Element
        OBVIOUS
      <3>1. sent[s] + i \in Nat \ {0}
        BY <2>2
      <3> QED BY <3>1 DEF Element, Byte
    <2>5. d \in [1 .. n -> Element]
      BY <2>4
    <2> HIDE DEF d
    <2>6. d \in Seq(Element)
      BY <2>2, <2>5, FunctionIsSeq
    <2>7. <<LF>> \in Seq(Element)
      <3>1. LF \in Element
        BY DEF Element
      <3> HIDE DEF LF
      <3> QED BY <3>1
    <2>8. owed' \in Seq(Element) /\ uart' \in Seq(Element)
      BY <2>1, <2>3, <2>6, <2>7 DEF d
    <2>9. sent' \in [Socket -> Nat]
      BY <2>1, <2>2
    <2> QED BY <1>7, <2>8, <2>9 DEF modem_receive
  <1>8. CASE modem_byte
    <2>1. Head(owed) \in Element /\ Tail(owed) \in Seq(Element)
      BY <1>8, TailType DEF modem_byte
    <2> QED BY <1>8, <2>1 DEF modem_byte
  <1>9. CASE modem_rx
    <2>1. rx_process \/ rx_discard \/ on_urc_receive \/ rx_read \/ UNCHANGED wire
      BY <1>9 DEF modem_rx, rx_lock, rx_retry, rx_unlock, rx_size, rx_ready
    <2> QED BY <1>1, <1>2, <1>3, <1>4, <2>1
  <1>10. ASSUME NEW t \in Thread, Call(t) \/ Step(t) PROVE WireType'
    <2>1. close_modem(t) \/ UNCHANGED wire
      BY <1>10 DEF Call, Step, socket_get, close, recvfrom, socket_init, recv_flag, recv_wait, recv_next,
         recv_short, recv_lock, recv_size, recv_more, close_lock, close_put
    <2> QED BY <1>1, <1>5, <2>1
  <1> QED BY <1>1, <1>6, <1>7, <1>8, <1>9, <1>10 DEF Next, modem, vars

-----------------------------------------------------------------------------
(* The buffers. *)

(* What the slots hold, when one of them changes. *)
LEMMA OneSlot ==
  ASSUME DataType, NEW s \in Socket, NEW x, x = None \/ x \in Buffer,
         rx_buf' = [rx_buf EXCEPT ![s] = x],
         x # None => Len(x.bytes) <= x.used,
         buffered' = [buffered EXCEPT ![s] = IF x = None THEN 0 ELSE Len(x.bytes)],
         lock' \in [Socket -> Thread \cup {RX, None}]
  PROVE  DataType'
  <1> USE DEF DataType
  <1>1. DOMAIN rx_buf' = Socket /\ \A r \in Socket : rx_buf'[r] = (IF r = s THEN x ELSE rx_buf[r])
    OBVIOUS
  <1>2. x # None => Len(x.bytes) \in 0 .. BufSize
    <2>1. x # None => Len(x.bytes) \in Nat /\ x.used \in 0 .. BufSize
      BY DEF Buffer
    <2> QED BY ONLY <2>1, ConstantTypes, x # None => Len(x.bytes) <= x.used
  <1>3. (IF x = None THEN 0 ELSE Len(x.bytes)) \in 0 .. BufSize
    BY <1>2, ConstantTypes
  <1>4. buffered' \in [Socket -> 0 .. BufSize]
    BY <1>3
  <1>5. \A r \in Socket : buffered'[r] = Len(Bytes(r)')
    <2> SUFFICES ASSUME NEW r \in Socket PROVE buffered'[r] = Len(Bytes(r)')
      OBVIOUS
    <2>1. CASE r = s
      <3>1. buffered'[r] = (IF x = None THEN 0 ELSE Len(x.bytes))
        BY <2>1
      <3>2. Bytes(r)' = IF x = None THEN <<>> ELSE x.bytes
        BY <1>1, <2>1 DEF Bytes
      <3> QED BY ONLY <3>1, <3>2
    <2>2. CASE r # s
      BY <1>1, <2>2 DEF Bytes
    <2> QED BY <2>1, <2>2
  <1>6. \A r \in Socket : rx_buf'[r] = None \/ rx_buf'[r] \in Buffer
    BY <1>1
  <1>7. \A r \in Socket : rx_buf'[r] # None => Len(rx_buf'[r].bytes) <= rx_buf'[r].used
    BY <1>1
  <1> QED BY <1>1, <1>4, <1>5, <1>6, <1>7

LEMMA SlotFreed ==
  ASSUME DataType, NEW s \in Socket,
         rx_buf' = [rx_buf EXCEPT ![s] = None], buffered' = [buffered EXCEPT ![s] = 0],
         lock' \in [Socket -> Thread \cup {RX, None}]
  PROVE  DataType'
  BY OneSlot

LEMMA SlotLocked ==
  ASSUME DataType, UNCHANGED <<rx_buf, buffered>>, lock' \in [Socket -> Thread \cup {RX, None}]
  PROVE  DataType'
  BY DEF DataType, Bytes

(* What a read leaves in the buffer. *)
LEMMA ReadLeaves ==
  ASSUME TInv, NEW t \in Thread, recv_lock(t)
  PROVE  /\ on[t] \in Socket /\ rx_buf[on[t]] # None /\ to_read[t] \in Nat \ {0}
         /\ buffered[on[t]] \in Nat /\ to_read[t] <= buffered[on[t]]
         /\ buffered' = [buffered EXCEPT ![on[t]] = buffered[on[t]] - to_read[t]]
         /\ \/ /\ buffered[on[t]] = to_read[t]
               /\ rx_buf' = [rx_buf EXCEPT ![on[t]] = None] /\ pool' = pool + 1
            \/ /\ buffered[on[t]] > to_read[t]
               /\ \E b \in Seq(Element) :
                     /\ Len(b) = buffered[on[t]] - to_read[t]
                     /\ rx_buf' = [rx_buf EXCEPT ![on[t]] = [bytes |-> b, used |-> rx_buf[on[t]].used]]
               /\ UNCHANGED pool
  <1> DEFINE s == on[t]
             n == to_read[t]
             q == Bytes(s)
             b == SubSeq(q, n + 1, Len(q))
  <1>1. s \in Socket /\ n \in Nat \ {0}
    BY ConstantTypes, SocketAssumption DEF TInv, AppType, recv_lock
  <1>2. q \in Seq(Element) /\ Len(q) \in Nat /\ buffered[s] = Len(q) /\ n <= Len(q)
    BY <1>1 DEF TInv, DataType, Bytes, Buffer, recv_lock
  <1>3. rx_buf[s] # None /\ rx_buf[s] \in Buffer
    BY <1>1, <1>2 DEF TInv, DataType, Bytes
  <1>4. b \in Seq(Element) /\ Len(b) = Len(q) - n
    BY <1>1, <1>2, CutType
  <1>5. buffered' = [buffered EXCEPT ![s] = IF buffered[s] >= n THEN buffered[s] - n ELSE 0]
    BY DEF recv_lock
  <1>6. \/ b = <<>> /\ rx_buf' = [rx_buf EXCEPT ![s] = None] /\ pool' = pool + 1
        \/ b # <<>> /\ rx_buf' = [rx_buf EXCEPT ![s].bytes = b] /\ UNCHANGED pool
    BY DEF recv_lock
  <1> HIDE DEF q, b, s, n
  <1>7. buffered' = [buffered EXCEPT ![s] = buffered[s] - n]
    <2>1. buffered[s] >= n
      BY <1>1, <1>2
    <2> QED BY <1>5, <2>1
  <1>8. CASE b = <<>>
    <2>1. Len(b) = 0
      BY <1>8
    <2>2. buffered[s] = n
      BY ONLY <1>1, <1>2, <1>4, <2>1
    <2> QED BY <1>1, <1>2, <1>3, <1>6, <1>7, <1>8, <2>2 DEF s, n
  <1>9. CASE b # <<>>
    <2>1. Len(b) # 0
      BY <1>4, <1>9
    <2>2. buffered[s] > n /\ Len(b) = buffered[s] - n
      BY ONLY <1>1, <1>2, <1>4, <2>1, <1>4
    <2>3. [rx_buf[s] EXCEPT !.bytes = b] = [bytes |-> b, used |-> rx_buf[s].used]
      BY <1>3 DEF Buffer
    <2>4. rx_buf' = [rx_buf EXCEPT ![s] = [bytes |-> b, used |-> rx_buf[s].used]]
      BY <1>6, <1>9, <2>3
    <2> QED BY <1>1, <1>2, <1>3, <1>4, <1>6, <1>7, <1>9, <2>2, <2>4 DEF s, n
  <1> QED BY <1>8, <1>9

(* What a turn of the loop puts into it. *)
LEMMA ReadAdds ==
  ASSUME TInv, rx_read
  PROVE  /\ rx.s \in Socket /\ rx.pc = "read" /\ rx_buf[rx.s] # None
         /\ \/ UNCHANGED <<rx_buf, buffered>>
            \/ \E c \in Seq(Element), u \in 0 .. BufSize :
                  /\ Len(c) <= u
                  /\ rx_buf' = [rx_buf EXCEPT ![rx.s] = [bytes |-> c, used |-> u]]
                  /\ buffered' = [buffered EXCEPT ![rx.s] = Len(c)]
  <1> DEFINE s == rx.s
             m == Min({rx.left + rx.skip, Chunk, Len(uart)})
             b == SubSeq(uart, rx.skip + 1, m)
             c == rx_buf[s].bytes \o b
             u == rx_buf[s].used + Len(b)
  <1>1. s \in Socket /\ rx.pc = "read" /\ rx_buf[s] # None /\ rx_buf[s] \in Buffer
    BY DEF TInv, RxType, DataType, rx_read
  <1>2. /\ rx_buf[s].bytes \in Seq(Element) /\ rx_buf[s].used \in 0 .. BufSize
        /\ buffered[s] = Len(rx_buf[s].bytes) /\ Len(rx_buf[s].bytes) <= rx_buf[s].used
        /\ buffered \in [Socket -> 0 .. BufSize]
    BY <1>1 DEF TInv, DataType, Buffer, Bytes
  <1>3. m > 0
    BY DEF rx_read
  <1>4. m \in Nat /\ rx.skip \in {0, 1} /\ b \in Seq(Element) /\ Len(b) = m - rx.skip
    BY <1>1, <1>3, ChunkTaken
  <1>5. \/ UNCHANGED <<rx_buf, buffered>>
        \/ /\ ~(BufSize - rx_buf[s].used < m)
           /\ rx_buf' = [rx_buf EXCEPT ![s] = [bytes |-> c, used |-> u]]
           /\ buffered' = [buffered EXCEPT ![s] = buffered[s] + Len(b)]
    BY DEF rx_read
  <1> HIDE DEF m, b
  <1>6. c \in Seq(Element) /\ Len(c) = Len(rx_buf[s].bytes) + Len(b) /\ Len(b) \in Nat /\ Len(b) <= m
    <2>1. c \in Seq(Element) /\ Len(c) = Len(rx_buf[s].bytes) + Len(b)
      BY <1>2, <1>4, JoinType
    <2>2. Len(b) \in Nat /\ Len(b) <= m
      BY ONLY <1>4
    <2> QED BY <2>1, <2>2
  <1>7. CASE UNCHANGED <<rx_buf, buffered>>
    BY <1>1, <1>7
  <1>8. CASE ~UNCHANGED <<rx_buf, buffered>>
    <2>0. Len(rx_buf[s].bytes) \in Nat
      BY <1>2
    <2>1. ~(BufSize - rx_buf[s].used < m)
      BY <1>5, <1>8
    <2> DEFINE l == Len(rx_buf[s].bytes)
               k == rx_buf[s].used
               d == Len(b)
    <2>2. l \in Nat /\ k \in 0 .. BufSize /\ d \in Nat /\ l <= k /\ d <= m
      BY <2>0, <1>2, <1>6
    <2>3. ~(BufSize - k < m)
      BY <2>1
    <2>4. Len(c) = l + d /\ u = k + d /\ buffered[s] + Len(b) = l + d
      BY <1>2, <1>6
    <2> HIDE DEF l, k, d, c, u
    <2>5. u \in 0 .. BufSize /\ Len(c) <= u
      BY ONLY <2>2, <2>3, <2>4, <1>4, ConstantTypes
    <2>6. buffered' = [buffered EXCEPT ![s] = Len(c)]
      BY <1>5, <1>8, <2>4
    <2>7. rx_buf' = [rx_buf EXCEPT ![s] = [bytes |-> c, used |-> u]]
      BY <1>5, <1>8 DEF c, u
    <2> QED BY <1>1, <1>6, <2>5, <2>6, <2>7
  <1> QED BY <1>7, <1>8

LEMMA DataKept ==
  ASSUME TInv, [Next]_vars
  PROVE  DataType'
  <1>0. DataType /\ AppType /\ RxType /\ lock \in [Socket -> Thread \cup {RX, None}]
    BY DEF TInv, DataType
  <1>1. CASE UNCHANGED <<rx_buf, buffered, lock>>
    BY <1>0, <1>1, SlotLocked
  <1>2. ASSUME NEW t \in Thread, socket_init(t) PROVE DataType'
    <2>1. /\ on[t] \in Socket /\ lock' = [lock EXCEPT ![on[t]] = None]
          /\ rx_buf' = [rx_buf EXCEPT ![on[t]] = None] /\ buffered' = [buffered EXCEPT ![on[t]] = 0]
      BY <1>0, <1>2 DEF socket_init, AppType
    <2>2. lock' \in [Socket -> Thread \cup {RX, None}]
      BY <1>0, <2>1
    <2> QED BY <1>0, <2>1, <2>2, SlotFreed
  <1>3. ASSUME NEW t \in Thread, recv_lock(t) PROVE DataType'
    <2>1. lock' \in [Socket -> Thread \cup {RX, None}]
      BY <1>0, <1>3 DEF recv_lock
    <2>2. /\ on[t] \in Socket /\ rx_buf[on[t]] # None /\ to_read[t] \in Nat \ {0} /\ buffered[on[t]] \in Nat
          /\ to_read[t] <= buffered[on[t]]
          /\ buffered' = [buffered EXCEPT ![on[t]] = buffered[on[t]] - to_read[t]]
      BY <1>3, ReadLeaves
    <2>3. CASE buffered[on[t]] = to_read[t]
      <3>0. ~(buffered[on[t]] > to_read[t])
        BY <2>2, <2>3
      <3>1. rx_buf' = [rx_buf EXCEPT ![on[t]] = None]
        BY <1>3, <3>0, ReadLeaves
      <3>2. buffered[on[t]] - to_read[t] = 0
        BY <2>2, <2>3
      <3> QED BY <1>0, <2>1, <2>2, <3>1, <3>2, SlotFreed
    <2>4. CASE buffered[on[t]] # to_read[t]
      <3>1. PICK b \in Seq(Element) :
                /\ Len(b) = buffered[on[t]] - to_read[t]
                /\ rx_buf' = [rx_buf EXCEPT ![on[t]] = [bytes |-> b, used |-> rx_buf[on[t]].used]]
        BY <1>3, <2>4, ReadLeaves
      <3>2. rx_buf[on[t]] \in Buffer /\ Len(rx_buf[on[t]].bytes) <= rx_buf[on[t]].used
            /\ buffered[on[t]] = Len(rx_buf[on[t]].bytes)
        BY <1>0, <2>2 DEF DataType, Bytes
      <3> DEFINE x == [bytes |-> b, used |-> rx_buf[on[t]].used]
      <3>3. x \in Buffer /\ x.used \in 0 .. BufSize
        BY <3>2 DEF Buffer
      <3>4. Len(x.bytes) <= x.used
        <4>1. Len(b) <= buffered[on[t]]
          BY <2>2, <3>1
        <4>2. rx_buf[on[t]].used \in Nat /\ Len(b) \in Nat
          BY <3>2, ConstantTypes DEF Buffer
        <4> QED BY <2>2, <3>2, <4>1, <4>2
      <3>5. x # None
        BY <3>3, BufferAssumption
      <3>6. buffered' = [buffered EXCEPT ![on[t]] = Len(x.bytes)]
        BY <2>2, <3>1
      <3>7. rx_buf' = [rx_buf EXCEPT ![on[t]] = x]
        BY <3>1
      <3> HIDE DEF x
      <3> QED BY <1>0, <2>1, <2>2, <3>3, <3>4, <3>5, <3>6, <3>7, OneSlot
    <2> QED BY <2>3, <2>4
  <1>4. ASSUME NEW t \in Thread, recv_size(t) PROVE DataType'
    <2>1. UNCHANGED <<rx_buf, buffered>> /\ lock' \in [Socket -> Thread \cup {RX, None}]
      BY <1>0, <1>4 DEF recv_size
    <2> QED BY <1>0, <2>1, SlotLocked
  <1>5. ASSUME NEW t \in Thread, close_lock(t) PROVE DataType'
    <2>1. /\ on[t] \in Socket /\ lock' = lock
          /\ rx_buf' = [rx_buf EXCEPT ![on[t]] = None] /\ buffered' = [buffered EXCEPT ![on[t]] = 0]
      BY <1>0, <1>5 DEF close_lock, AppType
    <2> QED BY <1>0, <2>1, SlotFreed
  <1>6. CASE rx_lock
    <2>1. rx.s \in Socket /\ buffered' = buffered
      BY <1>0, <1>6 DEF rx_lock, RxType
    <2>2. lock' \in [Socket -> Thread \cup {RX, None}]
      BY <1>0, <1>6 DEF rx_lock
    <2>3. CASE rx_buf' = rx_buf
      BY <1>0, <2>1, <2>2, <2>3, SlotLocked
    <2>4. CASE rx_buf' # rx_buf
      <3> DEFINE x == [bytes |-> <<>>, used |-> 0]
      <3>1. rx_buf[rx.s] = None /\ rx_buf' = [rx_buf EXCEPT ![rx.s] = x]
        BY <1>6, <2>4 DEF rx_lock
      <3>2. x \in Buffer /\ Len(x.bytes) = 0 /\ x.used = 0
        BY ConstantTypes DEF Buffer
      <3>3. x # None
        BY <3>2, BufferAssumption
      <3>4. buffered[rx.s] = 0 /\ buffered' = [buffered EXCEPT ![rx.s] = 0]
        BY <1>0, <2>1, <3>1 DEF DataType, Bytes
      <3> HIDE DEF x
      <3>5. buffered' = [buffered EXCEPT ![rx.s] = IF x = None THEN 0 ELSE Len(x.bytes)]
        BY <3>2, <3>3, <3>4
      <3>6. Len(x.bytes) <= x.used
        BY <3>2
      <3> QED BY <1>0, <2>1, <2>2, <3>1, <3>2, <3>5, <3>6, OneSlot
    <2> QED BY <2>3, <2>4
  <1>7. CASE rx_read
    <2>1. rx.s \in Socket /\ lock' = lock
      BY <1>7, ReadAdds DEF rx_read
    <2>2. CASE UNCHANGED <<rx_buf, buffered>>
      BY <1>0, <2>1, <2>2, SlotLocked
    <2>3. CASE ~UNCHANGED <<rx_buf, buffered>>
      <3>1. PICK c \in Seq(Element), u \in 0 .. BufSize :
                  /\ Len(c) <= u
                  /\ rx_buf' = [rx_buf EXCEPT ![rx.s] = [bytes |-> c, used |-> u]]
                  /\ buffered' = [buffered EXCEPT ![rx.s] = Len(c)]
        BY <1>7, <2>3, ReadAdds
      <3> DEFINE x == [bytes |-> c, used |-> u]
      <3>2. x \in Buffer /\ Len(x.bytes) <= x.used /\ Len(x.bytes) = Len(c)
        BY <3>1 DEF Buffer
      <3>3. x # None
        BY <3>2, BufferAssumption
      <3>4. rx_buf' = [rx_buf EXCEPT ![rx.s] = x] /\ buffered' = [buffered EXCEPT ![rx.s] = Len(x.bytes)]
        BY <3>1
      <3> HIDE DEF x
      <3> QED BY <1>0, <2>1, <3>2, <3>3, <3>4, OneSlot
    <2> QED BY <2>2, <2>3
  <1>8. CASE rx_unlock
    <2>1. UNCHANGED <<rx_buf, buffered>> /\ lock' \in [Socket -> Thread \cup {RX, None}]
      BY <1>0, <1>8 DEF rx_unlock, Released
    <2> QED BY <1>0, <2>1, SlotLocked
  <1>9. CASE modem_rx
    <2>1. rx_lock \/ rx_read \/ rx_unlock \/ UNCHANGED <<rx_buf, buffered, lock>>
      BY <1>9 DEF modem_rx, rx_process, rx_discard, on_urc_receive, rx_retry, rx_size, rx_ready, data
    <2> QED BY <1>1, <1>6, <1>7, <1>8, <2>1
  <1>10. CASE modem \/ UNCHANGED vars
    <2>1. UNCHANGED <<rx_buf, buffered, lock>>
      BY <1>10 DEF modem, modem_open, modem_receive, modem_byte, vars, data
    <2> QED BY <1>1, <2>1
  <1>11. ASSUME NEW t \in Thread, Call(t) \/ Step(t) PROVE DataType'
    <2>1. \/ socket_init(t) \/ recv_lock(t) \/ recv_size(t) \/ close_lock(t)
          \/ UNCHANGED <<rx_buf, buffered, lock>>
      BY <1>11 DEF Call, Step, socket_get, close, recvfrom, recv_flag, recv_wait, recv_next,
         recv_short, recv_more, close_modem, close_put, data
    <2> QED BY <1>1, <1>2, <1>3, <1>4, <1>5, <2>1
  <1> QED BY <1>9, <1>10, <1>11 DEF Next

(* The RX thread. *)
LEMMA RxKept ==
  ASSUME TInv, [Next]_vars
  PROVE  RxType'
  <1>0. RxType /\ None \notin Socket
    BY SocketAssumption DEF TInv
  <1> USE <1>0 DEF RxType
  <1>1. CASE UNCHANGED rx
    BY <1>1
  <1>2. CASE rx' = Idle
    BY <1>2, ConstantTypes DEF Idle
  <1>3. CASE on_urc_receive
    <2>1. Head(line) \in Element /\ Known(Head(line))
      BY <1>3, TailType DEF on_urc_receive, TInv, WireType
    <2>2. Head(line).s \in Socket /\ Head(line).b \in 0 .. MaxPayload
      <3>1. Head(line).k = "hdr"
        BY <2>1 DEF Known
      <3>2. Head(line) \in Header
        BY <2>1, <3>1 DEF Element, Byte, LF
      <3> QED BY <3>2 DEF Header
    <2>3. rx' = [pc |-> "lock", s |-> Head(line).s, left |-> Head(line).b, skip |-> 1, retry |-> 0, total |-> 0]
      BY <1>3 DEF on_urc_receive, Idle
    <2> QED BY <2>2, <2>3, ConstantTypes
  <1>4. CASE rx_lock
    <2>1. rx' = Idle \/ (rx' = [rx EXCEPT !.pc = "read"] /\ rx.pc = "lock")
      BY <1>4 DEF rx_lock
    <2> QED BY <1>2, <2>1
  <1>5. CASE rx_read
    <2> DEFINE m == Min({rx.left + rx.skip, Chunk, Len(uart)})
               b == SubSeq(uart, rx.skip + 1, m)
               d == rx.left - Len(b)
    <2>1. rx.pc = "read" /\ m > 0
      BY <1>5 DEF rx_read
    <2>2. /\ m \in Nat /\ rx.skip \in {0, 1} /\ rx.skip <= m /\ m - rx.skip <= rx.left
          /\ rx.left \in Nat /\ Len(b) = m - rx.skip
      BY <2>1, ChunkTaken DEF TInv
    <2>3. rx' = [rx EXCEPT !.pc = "unlock"] \/ rx' = [rx EXCEPT !.left = d, !.skip = 0, !.retry = 0]
      BY <1>5 DEF rx_read
    <2> HIDE DEF m, b
    <2>4. d \in Nat /\ d <= rx.left
      BY ONLY <2>2
    <2>5. d \in 0 .. MaxPayload
      BY <2>2, <2>4, ConstantTypes
    <2> HIDE DEF d
    <2>6. 0 \in 0 .. MaxRetries /\ rx.s # None
      BY <2>1, ConstantTypes
    <2>7. CASE rx' = [rx EXCEPT !.pc = "unlock"]
      BY <2>6, <2>7
    <2>8. CASE rx' = [rx EXCEPT !.left = d, !.skip = 0, !.retry = 0]
      <3>1. /\ rx'.pc = "read" /\ rx'.s = rx.s /\ rx'.total = rx.total
            /\ rx' = [pc |-> "read", s |-> rx.s, left |-> d, skip |-> 0, retry |-> 0, total |-> rx.total]
        BY <2>1, <2>8
      <3> QED BY <2>5, <2>6, <3>1
    <2> QED BY <2>3, <2>7, <2>8
  <1>6. CASE rx_retry
    <2>1. CASE rx' = [rx EXCEPT !.retry = @ + 1] /\ rx.retry < MaxRetries
      <3>1. rx' = [rx EXCEPT !.retry = rx.retry + 1] /\ rx.retry + 1 \in 0 .. MaxRetries
        BY <2>1, ConstantTypes
      <3> QED BY <1>6, <3>1 DEF rx_retry
    <2>2. CASE rx' = [rx EXCEPT !.pc = "unlock"]
      BY <1>6, <2>2 DEF rx_retry
    <2> QED BY <1>6, <2>1, <2>2 DEF rx_retry
  <1>7. CASE rx_unlock
    <2>1. rx.s \in Socket /\ rx.pc # "idle"
      BY <1>7 DEF rx_unlock
    <2>2. buffered[rx.s] \in 0 .. BufSize
      BY <2>1 DEF TInv, DataType
    <2>3. rx' = Idle \/ rx' = [rx EXCEPT !.pc = "size", !.total = buffered[rx.s]]
      BY <1>7 DEF rx_unlock
    <2> QED BY <1>2, <2>1, <2>2, <2>3
  <1>8. CASE rx_size
    BY <1>8 DEF rx_size
  <1>9. CASE modem_rx
    <2>1. \/ on_urc_receive \/ rx_lock \/ rx_read \/ rx_retry \/ rx_unlock \/ rx_size
          \/ UNCHANGED rx \/ rx' = Idle
      BY <1>9 DEF modem_rx, rx_process, rx_discard, rx_ready
    <2> QED BY <1>1, <1>2, <1>3, <1>4, <1>5, <1>6, <1>7, <1>8, <2>1
  <1>10. CASE ~modem_rx
    <2>1. UNCHANGED rx
      BY <1>10 DEF Next, modem, modem_open, modem_receive, modem_byte, vars, Call, Step, socket_init, recv_lock,
         recv_size, close_lock, socket_get, close, recvfrom, recv_flag, recv_wait, recv_next, recv_short,
         recv_more, close_modem, close_put
    <2> QED BY <1>1, <2>1
  <1> QED BY <1>9, <1>10

-----------------------------------------------------------------------------
(* The account of mdm_recv_pool.                                           *)

(* A step that touches neither a slot's buffer nor the handler's.          *)
LEMMA AccountSame ==
  ASSUME UNCHANGED <<rx_buf, pool>>, Handling' = Handling
  PROVE  Account' = Account /\ pool' = pool
  <1>1. Holding' = Holding
    BY DEF Holding
  <1> HIDE DEF Holding, Handling
  <1> QED BY <1>1 DEF Account

(* A slot's buffer that goes back to the pool. *)
LEMMA AccountBack ==
  ASSUME DOMAIN rx_buf = Socket, pool \in Nat, NEW s \in Socket, rx_buf[s] # None, Handling' = Handling,
         rx_buf' = [rx_buf EXCEPT ![s] = None], pool' = pool + 1
  PROVE  Account' = Account /\ pool' \in Nat
  <1>1. Holding' = Holding \ {s} /\ s \in Holding
    BY DEF Holding
  <1> DEFINE h == Cardinality(Holding)
             g == Cardinality(Holding)'
             e == IF Handling THEN 1 ELSE 0
             f == (IF Handling THEN 1 ELSE 0)'
  <1>2. g = h - 1
    BY <1>1, HoldingFinite, FS_RemoveElement
  <1>3. h \in Nat /\ e \in {0, 1} /\ f = e
    BY HoldingFinite
  <1>4. Account = pool + h + e /\ Account' = pool' + g + f
    BY DEF Account
  <1> HIDE DEF g, h, e, f
  <1> QED BY ONLY <1>2, <1>3, <1>4, pool \in Nat, pool' = pool + 1

(* One that is taken from it. *)
LEMMA AccountTake ==
  ASSUME DOMAIN rx_buf = Socket, pool \in Nat, NEW s \in Socket, rx_buf[s] = None, Handling' = Handling,
         NEW x, x # None, rx_buf' = [rx_buf EXCEPT ![s] = x], pool > 0, pool' = pool - 1
  PROVE  Account' = Account /\ pool' \in Nat
  <1>1. Holding' = Holding \cup {s} /\ s \notin Holding
    BY DEF Holding
  <1> DEFINE h == Cardinality(Holding)
             g == Cardinality(Holding)'
             e == IF Handling THEN 1 ELSE 0
             f == (IF Handling THEN 1 ELSE 0)'
  <1>2. g = h + 1
    BY <1>1, HoldingFinite, FS_AddElement
  <1>3. h \in Nat /\ e \in {0, 1} /\ f = e
    BY HoldingFinite
  <1>4. Account = pool + h + e /\ Account' = pool' + g + f
    BY DEF Account
  <1> HIDE DEF g, h, e, f
  <1> QED BY ONLY <1>2, <1>3, <1>4, pool \in Nat, pool > 0, pool' = pool - 1

(* The command handler's, which goes back when nothing is left to handle.  *)
LEMMA AccountHandler ==
  ASSUME pool \in Nat, UNCHANGED rx_buf, Handling, Handling' = (line' # <<>>), Skip(line')
  PROVE  Account' = Account /\ pool' \in Nat
  <1>1. Holding' = Holding
    BY DEF Holding
  <1> DEFINE h == Cardinality(Holding)
             e == IF Handling THEN 1 ELSE 0
             f == (IF Handling THEN 1 ELSE 0)'
  <1>2. h \in Nat /\ e = 1 /\ f = IF line' # <<>> THEN 1 ELSE 0
    BY HoldingFinite
  <1>3. Account = pool + h + e /\ Account' = pool' + h + f
    <2>1. Cardinality(Holding)' = Cardinality(Holding)
      BY <1>1
    <2> QED BY <2>1 DEF Account
  <1>4. pool' = IF line' = <<>> THEN pool + 1 ELSE pool
    BY DEF Skip
  <1> HIDE DEF h, e, f
  <1>5. CASE line' = <<>>
    BY ONLY <1>2, <1>3, <1>4, <1>5, pool \in Nat
  <1>6. CASE line' # <<>>
    BY ONLY <1>2, <1>3, <1>4, <1>6, pool \in Nat, Handling' = (line' # <<>>)
  <1> QED BY <1>5, <1>6

(* What every step does to the account: it balances, but where the memset  *)
(* of modem_offload_socket forgets a buffer.                               *)
LEMMA AccountKept ==
  ASSUME TInv, [Next]_vars
  PROVE  /\ pool' \in Nat
         /\ Account' = Account \/ \E t \in Thread : socket_init(t)
  <1>0. /\ pool \in Nat /\ DOMAIN rx_buf = Socket /\ RxType /\ AppType /\ RxType'
    BY RxKept DEF TInv, PoolType, DataType
  <1>1. ASSUME UNCHANGED <<rx_buf, pool>>, Handling' = Handling
        PROVE  Account' = Account /\ pool' = pool
    BY <1>1, AccountSame
  <1>2. CASE rx_process
    <2>1. /\ Holding' = Holding /\ ~Handling /\ Handling' /\ pool' = pool - 1 /\ pool > 0
      BY <1>2, <1>0 DEF rx_process, Handling, Holding
    <2> DEFINE h == Cardinality(Holding)
               e == IF Handling THEN 1 ELSE 0
               f == (IF Handling THEN 1 ELSE 0)'
    <2>2. h \in Nat /\ e = 0 /\ f = 1
      BY <2>1, HoldingFinite
    <2>3. Account = pool + h + e /\ Account' = pool' + h + f
      <3>1. Cardinality(Holding)' = Cardinality(Holding)
        BY <2>1
      <3> QED BY <3>1 DEF Account
    <2> HIDE DEF h, e, f
    <2>4. Account' = Account /\ pool' \in Nat
      BY ONLY <1>0, <2>1, <2>2, <2>3
    <2> QED BY <2>1, <2>4
  <1>3. CASE rx_discard
    <2>1. UNCHANGED rx_buf /\ Handling /\ Handling' = (line' # <<>>) /\ Skip(line')
      BY <1>3 DEF rx_discard, Handling
    <2> QED BY <1>0, <2>1, AccountHandler
  <1>4. CASE on_urc_receive \/ rx_retry \/ rx_size
    <2>1. UNCHANGED <<rx_buf, pool>>
      BY <1>4 DEF on_urc_receive, rx_retry, rx_size, data
    <2>2. Handling /\ Handling'
      <3>1. CASE on_urc_receive
        <4>1. rx'.pc = "lock" /\ line # <<>>
          BY <3>1 DEF on_urc_receive, Idle
        <4> QED BY <4>1 DEF Handling
      <3>2. CASE rx_retry
        <4>1. rx.pc = "read" /\ rx'.pc # "idle"
          BY <3>2, <1>0 DEF rx_retry, RxType
        <4> QED BY <4>1 DEF Handling
      <3>3. CASE rx_size
        <4>1. rx.pc = "size" /\ rx'.pc # "idle"
          BY <3>3, <1>0 DEF rx_size, RxType
        <4> QED BY <4>1 DEF Handling
      <3> QED BY <1>4, <3>1, <3>2, <3>3
    <2> QED BY <1>0, <1>1, <2>1, <2>2
  <1>5. CASE rx_lock
    <2>1. rx.pc = "lock" /\ rx.s \in Socket /\ line' = line /\ Handling
      BY <1>0, <1>5 DEF rx_lock, wire, RxType, Handling
    <2>2. CASE rx' = Idle
      <3>1. rx'.pc = "idle" /\ Idle.pc = "idle"
        BY <2>2 DEF Idle
      <3>2. UNCHANGED rx_buf /\ Skip(line')
        BY <1>5, <2>1, <3>1, <1>0 DEF rx_lock, RxType
      <3>3. Handling' = (line' # <<>>)
        BY <3>1 DEF Handling
      <3> QED BY <1>0, <2>1, <3>2, <3>3, AccountHandler
    <2>3. CASE rx' # Idle
      <3>1. rx' = [rx EXCEPT !.pc = "read"]
        BY <1>5, <2>3 DEF rx_lock
      <3>2. Handling'
        BY <1>0, <3>1 DEF Handling, RxType
      <3>3. CASE rx_buf[rx.s] # None
        <4>1. UNCHANGED <<rx_buf, pool>>
          BY <1>5, <3>3 DEF rx_lock
        <4> QED BY <1>0, <1>1, <2>1, <3>2, <4>1
      <3>4. CASE rx_buf[rx.s] = None
        <4> DEFINE x == [bytes |-> <<>>, used |-> 0]
        <4>1. rx_buf' = [rx_buf EXCEPT ![rx.s] = x] /\ pool > 0 /\ pool' = pool - 1
          BY <1>5, <2>3, <3>4 DEF rx_lock
        <4>2. x \in Buffer
          BY ConstantTypes DEF Buffer
        <4>3. x # None
          BY <4>2, BufferAssumption
        <4> HIDE DEF x
        <4>4. Account' = Account /\ pool' \in Nat
          BY <1>0, <2>1, <3>2, <3>4, <4>1, <4>3, AccountTake
        <4> QED BY <3>2, <4>4
      <3> QED BY <3>3, <3>4
    <2> QED BY <2>2, <2>3
  <1>6. CASE rx_read
    <2>1. rx.s \in Socket /\ rx_buf[rx.s] # None /\ rx.pc = "read" /\ pool' = pool /\ Handling
      BY <1>6, ReadAdds DEF rx_read, Handling
    <2>2. Handling'
      <3>1. rx'.pc # "idle"
        BY <1>0, <1>6, <2>1 DEF rx_read, RxType
      <3> QED BY <3>1 DEF Handling
    <2>3. Holding' = Holding
      <3>1. CASE UNCHANGED rx_buf
        BY <3>1 DEF Holding
      <3>2. CASE ~UNCHANGED rx_buf
        <4>1. PICK c \in Seq(Element), u \in 0 .. BufSize : rx_buf' = [rx_buf EXCEPT ![rx.s] = [bytes |-> c, used |-> u]]
          BY <1>6, <3>2, ReadAdds
        <4> DEFINE x == [bytes |-> c, used |-> u]
        <4>2. x \in Buffer
          BY DEF Buffer
        <4>3. x # None /\ rx_buf' = [rx_buf EXCEPT ![rx.s] = x]
          BY <4>1, <4>2, BufferAssumption
        <4> HIDE DEF x
        <4> QED BY <1>0, <2>1, <4>3 DEF Holding
      <3> QED BY <3>1, <3>2
    <2>4. Account' = Account
      <3> HIDE DEF Holding, Handling
      <3> QED BY <2>1, <2>2, <2>3 DEF Account
    <2> QED BY <1>0, <2>1, <2>2, <2>4
  <1>7. CASE rx_unlock \/ rx_ready
    <2>1. UNCHANGED rx_buf /\ rx.pc # "idle" /\ line' = line /\ Handling
      BY <1>7 DEF rx_unlock, rx_ready, wire, Handling
    <2>2. CASE rx' = Idle
      <3>1. rx'.pc = "idle"
        BY <2>2 DEF Idle
      <3>2. Handling' = (line' # <<>>)
        BY <3>1 DEF Handling
      <3>3. Skip(line')
        BY <1>0, <1>7, <2>1, <3>1 DEF rx_unlock, rx_ready, RxType
      <3> QED BY <1>0, <2>1, <3>2, <3>3, AccountHandler
    <2>3. CASE rx' # Idle
      <3>1. rx_unlock /\ pool' = pool /\ rx' = [rx EXCEPT !.pc = "size", !.total = buffered[rx.s]]
        BY <1>7, <2>3 DEF rx_unlock, rx_ready
      <3>2. Handling'
        BY <1>0, <3>1 DEF Handling, RxType
      <3> QED BY <1>0, <1>1, <2>1, <3>1, <3>2
    <2> QED BY <2>2, <2>3
  <1>8. CASE modem \/ UNCHANGED vars
    <2>1. UNCHANGED <<rx_buf, pool, rx, line>>
      BY <1>8 DEF modem, modem_open, modem_receive, modem_byte, vars, data, wire
    <2> QED BY <1>0, <1>1, <2>1 DEF Handling
  <1>9. ASSUME NEW t \in Thread, Call(t) \/ Step(t)
        PROVE  pool' \in Nat /\ (Account' = Account \/ socket_init(t))
    <2>1. UNCHANGED <<rx, line>>
      BY <1>9 DEF Call, Step, socket_init, recv_lock, recv_size, close_lock, socket_get, close, recvfrom,
         recv_flag, recv_wait, recv_next, recv_short, recv_more, close_modem, close_put, wire
    <2>2. Handling' = Handling
      BY <2>1 DEF Handling
    <2>3. CASE recv_lock(t)
      <3>1. on[t] \in Socket /\ rx_buf[on[t]] # None
        BY <2>3, ReadLeaves
      <3>2. CASE pool' = pool + 1 /\ rx_buf' = [rx_buf EXCEPT ![on[t]] = None]
        <4>1. Account' = Account /\ pool' \in Nat
          BY <1>0, <2>2, <3>1, <3>2, AccountBack
        <4> QED BY <1>0, <2>2, <3>2, <4>1
      <3>3. CASE ~(pool' = pool + 1 /\ rx_buf' = [rx_buf EXCEPT ![on[t]] = None])
        <4>1. PICK b \in Seq(Element) :
                 /\ rx_buf' = [rx_buf EXCEPT ![on[t]] = [bytes |-> b, used |-> rx_buf[on[t]].used]]
                 /\ pool' = pool
          BY <2>3, <3>3, ReadLeaves
        <4>2. rx_buf[on[t]] \in Buffer
          BY <3>1 DEF TInv, DataType
        <4> DEFINE x == [bytes |-> b, used |-> rx_buf[on[t]].used]
        <4>3. x \in Buffer
          BY <4>2 DEF Buffer
        <4>4. x # None /\ rx_buf' = [rx_buf EXCEPT ![on[t]] = x]
          BY <4>1, <4>3, BufferAssumption
        <4> HIDE DEF x
        <4>5. Holding' = Holding
          BY <1>0, <3>1, <4>4 DEF Holding
        <4>6. Account' = Account
          <5> HIDE DEF Holding, Handling
          <5> QED BY <2>2, <4>1, <4>5 DEF Account
        <4> QED BY <1>0, <2>2, <4>1, <4>6
      <3> QED BY <3>2, <3>3
    <2>4. CASE close_lock(t)
      <3>1. on[t] \in Socket /\ rx_buf' = [rx_buf EXCEPT ![on[t]] = None]
            /\ pool' = IF rx_buf[on[t]] = None THEN pool ELSE pool + 1
        BY <1>0, <2>4 DEF close_lock, AppType
      <3>2. CASE rx_buf[on[t]] = None
        <4>1. pool' = pool
          BY <3>1, <3>2
        <4>2. Holding' = Holding
          BY <1>0, <3>1, <3>2 DEF Holding
        <4>3. Account' = Account
          <5> HIDE DEF Holding, Handling
          <5> QED BY <2>2, <4>1, <4>2 DEF Account
        <4> QED BY <1>0, <2>2, <4>1, <4>3
      <3>3. CASE rx_buf[on[t]] # None
        <4>1. pool' = pool + 1
          BY <3>1, <3>3
        <4>2. Account' = Account /\ pool' \in Nat
          BY <1>0, <2>2, <3>1, <3>3, <4>1, AccountBack
        <4> QED BY <1>0, <2>2, <4>1, <4>2
      <3> QED BY <3>2, <3>3
    <2>5. CASE socket_init(t)
      <3>1. pool' = pool
        BY <2>5 DEF socket_init
      <3> QED BY <1>0, <2>2, <2>5, <3>1
    <2>6. CASE ~recv_lock(t) /\ ~close_lock(t) /\ ~socket_init(t)
      <3>1. UNCHANGED <<rx_buf, pool>>
        BY <1>9, <2>6 DEF Call, Step, recv_size, socket_get, close, recvfrom, recv_flag, recv_wait,
           recv_next, recv_short, recv_more, close_modem, close_put, data
      <3> QED BY <1>0, <1>1, <2>2, <3>1
    <2> QED BY <2>3, <2>4, <2>5, <2>6
  <1>10. CASE modem_rx
    BY <1>2, <1>3, <1>4, <1>5, <1>6, <1>7, <1>10 DEF modem_rx
  <1> QED BY <1>8, <1>9, <1>10 DEF Next

(* Nothing else forgets a buffer. *)
LEMMA WipedStays ==
  ASSUME [Next]_vars, ~(\E t \in Thread : socket_init(t))
  PROVE  wiped' = wiped
  <1>1. CASE modem_rx
    BY <1>1 DEF modem_rx, rx_process, rx_discard, on_urc_receive, rx_lock, rx_read, rx_retry, rx_unlock, rx_size,
       rx_ready, ghost
  <1>2. CASE modem \/ UNCHANGED vars
    BY <1>2 DEF modem, modem_open, modem_receive, modem_byte, vars, ghost
  <1>3. ASSUME NEW t \in Thread, Call(t) \/ Step(t) PROVE wiped' = wiped
    BY <1>3 DEF Call, Step, recv_lock, recv_size, close_lock, socket_get, close, recvfrom, recv_flag, recv_wait,
       recv_next, recv_short, recv_more, close_modem, close_put, ghost
  <1> QED BY <1>1, <1>2, <1>3 DEF Next

LEMMA PoolKept ==
  ASSUME TInv, [Next]_vars
  PROVE  PoolType'
  <1>0. pool' \in Nat /\ pool \in Nat /\ wiped \in Nat /\ Account + wiped = PoolSize
    BY AccountKept DEF TInv, PoolType
  <1>1. CASE ~(\E t \in Thread : socket_init(t))
    <2>1. Account' = Account /\ wiped' = wiped
      BY <1>1, AccountKept, WipedStays
    <2> QED BY <1>0, <2>1 DEF PoolType
  <1>2. ASSUME NEW t \in Thread, socket_init(t) PROVE PoolType'
    <2>1. on[t] \in Socket /\ DOMAIN rx_buf = Socket
      BY <1>2, SocketAssumption DEF socket_init, TInv, AppType, DataType
    <2>2. /\ rx_buf' = [rx_buf EXCEPT ![on[t]] = None] /\ pool' = pool /\ UNCHANGED <<rx, line>>
          /\ wiped' = IF rx_buf[on[t]] = None THEN wiped ELSE wiped + 1
      BY <1>2 DEF socket_init, wire
    <2> DEFINE h == Cardinality(Holding)
               g == Cardinality(Holding)'
               e == IF Handling THEN 1 ELSE 0
               f == (IF Handling THEN 1 ELSE 0)'
    <2>3. h \in Nat /\ e \in {0, 1} /\ f = e
      BY <2>2, HoldingFinite DEF Handling
    <2>4. Account = pool + h + e /\ Account' = pool' + g + f
      BY DEF Account
    <2>5. CASE rx_buf[on[t]] = None
      <3>1. Holding' = Holding
        BY <2>1, <2>2, <2>5 DEF Holding
      <3>2. g = h /\ wiped' = wiped
        BY <2>2, <2>5, <3>1
      <3> HIDE DEF h, g, e, f
      <3>3. Account' = Account
        BY ONLY <2>2, <2>3, <2>4, <3>2
      <3> QED BY <1>0, <3>2, <3>3 DEF PoolType
    <2>6. CASE rx_buf[on[t]] # None
      <3>1. Holding' = Holding \ {on[t]} /\ on[t] \in Holding
        BY <2>1, <2>2, <2>6 DEF Holding
      <3>2. g = h - 1 /\ wiped' = wiped + 1
        BY <2>2, <2>6, <3>1, HoldingFinite, FS_RemoveElement
      <3> HIDE DEF h, g, e, f
      <3>3. Account' = Account - 1 /\ Account \in Nat
        BY ONLY <1>0, <2>2, <2>3, <2>4, <3>2
      <3>4. Account' + wiped' = PoolSize /\ wiped' \in Nat
        BY ONLY <1>0, <3>2, <3>3
      <3> QED BY <1>0, <3>4 DEF PoolType
    <2> QED BY <2>5, <2>6
  <1> QED BY <1>1, <1>2

LEMMA LogKept ==
  ASSUME TInv, [Next]_vars
  PROVE  LogType'
  <1>0. LogType
    BY DEF TInv
  <1>1. CASE UNCHANGED <<got, base, lapse, orphaned>>
    BY <1>0, <1>1 DEF LogType
  <1>2. ASSUME NEW t \in Thread, recv_lock(t) PROVE LogType'
    <2> DEFINE s == on[t]
               n == to_read[t]
               q == Bytes(s)
    <2>1. s \in Socket /\ n \in Nat /\ n <= Len(q)
      BY <1>2, ConstantTypes, SocketAssumption DEF TInv, AppType, recv_lock
    <2>2. q \in Seq(Element) /\ Len(q) \in Nat
      BY <2>1 DEF TInv, DataType, Bytes, Buffer
    <2>3. SubSeq(q, 0 + 1, n) \in Seq(Element)
      BY <2>1, <2>2, CutType
    <2>4. got' = [got EXCEPT ![s] = got[s] \o SubSeq(q, 1, n)] /\ UNCHANGED <<base, lapse, orphaned>>
      BY <1>2 DEF recv_lock
    <2> HIDE DEF q, n, s
    <2>5. got[s] \in Seq(Element) /\ SubSeq(q, 1, n) \in Seq(Element)
      BY <1>0, <2>1, <2>3 DEF LogType
    <2>6. got[s] \o SubSeq(q, 1, n) \in Seq(Element)
      BY <2>5
    <2> QED BY <1>0, <2>1, <2>4, <2>6 DEF LogType
  <1>3. ASSUME NEW s \in Socket, modem_open(s) PROVE LogType'
    <2>1. sent[s] \in Nat /\ <<>> \in Seq(Element)
      BY DEF TInv, WireType
    <2> QED BY <1>0, <1>3, <2>1 DEF modem_open, LogType
  <1>4. CASE modem_rx
    <2>1. UNCHANGED <<got, base, orphaned>> /\ DOMAIN lapse' = DOMAIN lapse
      BY <1>4 DEF modem_rx, rx_process, rx_discard, on_urc_receive, rx_lock, rx_read, rx_retry, rx_unlock, rx_size,
         rx_ready, ghost, Lapse
    <2> QED BY <1>0, <2>1 DEF LogType
  <1>5. ASSUME NEW t \in Thread, close_modem(t) PROVE LogType'
    <2>1. on[t] \in Socket /\ UNCHANGED <<got, base, lapse>> /\ orphaned' \subseteq orphaned \cup {on[t]}
      BY <1>5, SocketAssumption DEF close_modem, TInv, AppType
    <2> QED BY <1>0, <2>1 DEF LogType
  <1>6. CASE /\ ~modem_rx /\ ~(\E t \in Thread : recv_lock(t) \/ close_modem(t))
             /\ ~(\E s \in Socket : modem_open(s))
    <2>1. UNCHANGED <<got, base, lapse, orphaned>>
      BY <1>6 DEF Next, modem, modem_receive, modem_byte, vars, Call, Step, socket_init,
         recv_size, close_lock, socket_get, close, recvfrom, recv_flag, recv_wait, recv_next, recv_short,
         recv_more, close_put, ghost
    <2> QED BY <1>1, <2>1
  <1> QED BY <1>2, <1>3, <1>4, <1>5, <1>6

LEMMA TypeInit == Init => TInv
  <1> SUFFICES ASSUME Init PROVE TInv
    OBVIOUS
  <1> USE ConstantTypes, SocketAssumption DEF Init
  <1>1. AppType
    BY DEF AppType, Pc
  <1>2. SlotType /\ SignalType
    BY DEF SlotType, SignalType
  <1>3. DataType
    BY DEF DataType, Bytes
  <1>4. RxType
    BY DEF RxType, Idle
  <1>5. WireType
    BY DEF WireType
  <1>6. PoolType
    <2>1. Holding = {} /\ ~Handling
      BY DEF Holding, Handling, Idle
    <2>2. Cardinality(Holding) = 0
      BY <2>1, FS_EmptySet
    <2> QED BY <2>1, <2>2 DEF PoolType, Account
  <1>7. LogType
    BY DEF LogType
  <1> QED BY <1>1, <1>2, <1>3, <1>4, <1>5, <1>6, <1>7 DEF TInv

LEMMA TypeStep == TInv /\ [Next]_vars => TInv'
  <1> SUFFICES ASSUME TInv, [Next]_vars PROVE TInv'
    OBVIOUS
  <1>1. AppType'
    <2>1. CASE \E t \in Thread : Call(t) \/ Step(t)
      BY <2>1, AppKept
    <2>2. CASE ~(\E t \in Thread : Call(t) \/ Step(t))
      <3>1. UNCHANGED app
        BY <2>2 DEF Next, modem_rx, rx_process, rx_discard, on_urc_receive, rx_lock, rx_read, rx_retry,
           rx_unlock, rx_size, rx_ready, modem, modem_open, modem_receive, modem_byte, vars
      <3> QED BY <3>1 DEF TInv, AppType, app
    <2> QED BY <2>1, <2>2
  <1>2. SlotType' /\ SignalType' /\ DataType' /\ RxType' /\ WireType' /\ PoolType' /\ LogType'
    BY SlotKept, DataKept, RxKept, WireKept, PoolKept, LogKept
  <1> QED BY <1>1, <1>2 DEF TInv

LEMMA Typed == Spec => []TInv
  <1>1. Init => TInv
    BY TypeInit
  <1>2. TInv /\ [Next]_vars => TInv'
    BY TypeStep
  <1> QED BY <1>1, <1>2, PTL DEF Spec

(* Every variable keeps its type, whatever slots were orphaned before: no  *)
(* read leaves more in a buffer than it has room for, no packet size is    *)
(* zero, none exceeds the slots there are (on_urc_receive,                 *)
(* offload_recvfrom, modem_socket_packet_size_update).                     *)
THEOREM TypeCorrect == Spec => []TypeOK
  BY Typed, TypeIsTypeOK, PTL

-----------------------------------------------------------------------------
(* What holds as long as no slot was orphaned: no socket was closed with   *)
(* more to come for it.                                                    *)

(* Who may be on a socket together: one that closes it and one that reads. *)
Closing  == {"close_modem", "close_lock", "close_put"}
Reader   == {"recv_wait", "recv_next", "recv_lock", "recv_size", "recv_more"}
Together ==
    \A t, u \in Thread : t # u /\ on[t] = on[u] /\ pc[t] # "idle" =>
        \/ pc[t] \in Closing /\ pc[u] \in Reader
        \/ pc[u] \in Closing /\ pc[t] \in Reader

(* Who opens, closes or is about to wait has a slot that is in use.        *)
InUse == \A t \in Thread : pc[t] \in Closing \cup {"socket_init", "recv_flag"} => allocated[on[t]]

(* What is under way is for a connection; that has a slot nobody opens or  *)
(* gives up.                                                               *)
Linked == \A s \in Socket :
    /\ ~Silent(s) => link[s]
    /\ link[s] => allocated[s]
    /\ link[s] => \A t \in Thread : on[t] = s => pc[t] \notin {"socket_init", "close_lock", "close_put"}

(* Who has the lock of a socket. *)
LockHeld == \A s \in Socket :
    /\ lock[s] = RX <=> rx.s = s /\ rx.pc \in {"read", "unlock"}
    /\ \A t \in Thread : lock[s] = t <=> on[t] = s /\ pc[t] = "recv_size"

(* Nothing is left of a connection that is gone, but while it is closed.   *)
Clean == \A s \in Socket :
    /\ ~link[s] => \/ rx_buf[s] = None /\ sizes[s] = <<>>
                   \/ \E t \in Thread : on[t] = s /\ pc[t] \in {"close_lock", "close_put"}
    /\ \A t \in Thread : on[t] = s /\ pc[t] = "close_put" => rx_buf[s] = None /\ lock[s] = None

(* Bytes a reader took that the packet sizes still count.                  *)
Ahead(s)   == IF lock[s] \in Thread THEN to_read[lock[s]] ELSE 0
Putting(s) == \E t \in Thread : on[t] = s /\ pc[t] = "close_put"

(* No more is promised than there is; what RX is to write is what there is;*)
(* once it is written the two agree; a reader takes what was promised.     *)
Promised == \A s \in Socket : Putting(s) \/ Total(sizes[s]) <= buffered[s] + Ahead(s)
Counted  == rx.pc = "size" => rx.total = buffered[rx.s] + Ahead(rx.s)
Settled  == \A s \in Socket :
    \/ rx.s = s /\ rx.pc \in {"read", "unlock", "size"}
    \/ Total(sizes[s]) = buffered[s] + Ahead(s)
    \/ "no packet" \in lapse[s]
    \/ Putting(s)
Taken == \A t \in Thread : pc[t] \in {"recv_lock", "recv_size"} =>
    \/ to_read[t] <= Total(sizes[on[t]])
    \/ pc[t] = "recv_lock" /\ ~link[on[t]] /\ rx_buf[on[t]] = None

(* No buffer was forgotten. *)
Kept == wiped = 0

Use  == Together /\ InUse /\ Linked /\ LockHeld /\ Clean
Sums == Promised /\ Counted /\ Settled /\ Taken
GInv == TInv /\ Use /\ Sums /\ Kept

LEMMA OthersStay ==
  ASSUME TInv, NEW t \in Thread, Call(t) \/ Step(t), ~close_put(t), NEW u \in Thread, u # t
  PROVE  pc'[u] = pc[u] /\ on'[u] = on[u] /\ to_read'[u] = to_read[u]
  BY DEF Call, Step, socket_init, recv_lock, recv_size, close_lock, socket_get, close, recvfrom,
     recv_flag, recv_wait, recv_next, recv_short, recv_more, close_modem, Goto, Done, TInv, AppType

LEMMA OthersAtPut ==
  ASSUME TInv, NEW t \in Thread, close_put(t)
  PROVE  /\ pc' \in [Thread -> Pc] /\ on' \in [Thread -> Socket \cup {None}]
         /\ pc'[t] = "idle" /\ on'[t] = None /\ to_read' = to_read
         /\ \A u \in Thread \ {t} :
               /\ on'[u] = on[u]
               /\ pc'[u] = pc[u] \/ (pc[u] = "recv_wait" /\ pc'[u] = "recv_next" /\ on[u] = on[t])
  BY DEF close_put, TInv, AppType, Pc

(* What a thread that is not at close_put does to its own state. *)
LEMMA OwnStep ==
  ASSUME TInv, NEW t \in Thread, Call(t) \/ Step(t), ~close_put(t)
  PROVE  \/ \E s \in Socket : socket_get(t, s) \/ close(t, s) \/ \E d \in BOOLEAN : recvfrom(t, s, d)
         \/ pc[t] # "idle" /\ pc'[t] = "idle" /\ on'[t] = None
         \/ /\ on'[t] = on[t] /\ on[t] \in Socket
            /\ \/ pc[t] = "recv_flag" /\ pc'[t] = "recv_wait"
               \/ pc[t] \in Reader /\ pc'[t] \in Reader
               \/ pc[t] = "close_modem" /\ pc'[t] = "close_lock"
               \/ pc[t] = "close_lock" /\ pc'[t] = "close_put"
  BY SocketAssumption DEF Call, Step, socket_init, recv_lock, recv_size, close_lock,
     recv_flag, recv_wait, recv_next, recv_short, recv_more, close_modem, Goto, Done, TInv, AppType, Reader

LEMMA TogetherKept ==
  ASSUME TInv, Together, InUse, NEW t \in Thread, Call(t) \/ Step(t)
  PROVE  Together'
  <1>0. AppType /\ None \notin Socket
    BY SocketAssumption DEF TInv
  <1>1. CASE close_put(t)
    <2>1. pc[t] \in Closing
      BY <1>1 DEF close_put, Closing
    <2> QED BY <1>0, <1>1, <2>1, OthersAtPut DEF AppType, Together, Reader, Closing
  <1>2. CASE ~close_put(t)
    <2>1. \A u \in Thread \ {t} : pc'[u] = pc[u] /\ on'[u] = on[u]
      BY <1>2, OthersStay
    <2>2. SUFFICES ASSUME NEW u \in Thread, u # t, on'[t] = on'[u], pc'[t] # "idle"
                   PROVE  \/ pc'[t] \in Closing /\ pc'[u] \in Reader
                          \/ pc'[u] \in Closing /\ pc'[t] \in Reader
      <3>1. \A u \in Thread : on'[u] = None <=> pc'[u] = "idle"
        BY AppKept DEF AppType
      <3> QED BY <2>1, <3>1 DEF Together
    <2>3. pc'[u] = pc[u] /\ on'[u] = on[u]
      BY <2>1, <2>2
    <2>4. ASSUME NEW s \in Socket, socket_get(t, s) \/ \E d \in BOOLEAN : recvfrom(t, s, d) PROVE FALSE
      BY <1>0, <2>2, <2>3, <2>4 DEF socket_get, recvfrom, AppType
    <2>5. ASSUME NEW s \in Socket, close(t, s) PROVE pc'[t] \in Closing /\ pc'[u] \in Reader
      BY <1>0, <2>2, <2>3, <2>5 DEF close, AppType, Goto, Closing, Reader
    <2>6. CASE pc[t] # "idle" /\ on'[t] = on[t] /\ on[t] \in Socket
      BY <1>0, <1>2, <2>2, <2>3, <2>4, <2>5, <2>6, OwnStep DEF Together, Closing, Reader
    <2> QED BY <1>0, <1>2, <2>2, <2>4, <2>5, <2>6, OwnStep DEF Reader
  <1> QED BY <1>1, <1>2

LEMMA InUseKept ==
  ASSUME TInv, Together, InUse, NEW t \in Thread, Call(t) \/ Step(t)
  PROVE  InUse'
  <1>0. AppType /\ SlotType /\ None \notin Socket
    BY SocketAssumption DEF TInv
  <1>1. CASE close_put(t)
    <2> SUFFICES ASSUME NEW u \in Thread, pc'[u] \in Closing \cup {"socket_init", "recv_flag"}
                 PROVE  allocated'[on'[u]]
      BY DEF InUse
    <2>1. u # t /\ pc[u] = pc'[u] /\ on'[u] = on[u]
      BY <1>1, OthersAtPut DEF Closing
    <2>2. allocated[on[u]] /\ on[u] # on[t]
      BY <1>0, <1>1, <2>1 DEF InUse, Together, Closing, Reader, close_put
    <2>3. on[u] \in Socket /\ allocated' = [allocated EXCEPT ![on[t]] = FALSE]
      BY <1>0, <1>1, <2>1 DEF AppType, close_put, Closing
    <2> QED BY <1>0, <2>1, <2>2, <2>3 DEF SlotType
  <1>2. CASE ~close_put(t)
    <2> SUFFICES ASSUME NEW u \in Thread, pc'[u] \in Closing \cup {"socket_init", "recv_flag"}
                 PROVE  allocated'[on'[u]]
      BY DEF InUse
    <2>1. \A s \in Socket : allocated[s] => allocated'[s]
      BY <1>0, <1>2 DEF SlotType, Call, Step, socket_init, recv_lock, recv_size, close_lock, socket_get, close,
         recvfrom, recv_flag, recv_wait, recv_next, recv_short, recv_more, close_modem, slot
    <2>2. CASE u # t
      <3>1. pc'[u] = pc[u] /\ on'[u] = on[u]
        BY <1>2, <2>2, OthersStay
      <3>2. allocated[on[u]] /\ on[u] \in Socket
        BY <1>0, <3>1 DEF InUse, AppType, Closing
      <3> QED BY <2>1, <3>1, <3>2
    <2>3. CASE u = t
      <3>1. ASSUME NEW s \in Socket, socket_get(t, s) \/ close(t, s) \/ \E d \in BOOLEAN : recvfrom(t, s, d)
            PROVE  on'[t] = s /\ allocated'[s]
        <4>1. CASE socket_get(t, s)
          BY <1>0, <4>1 DEF socket_get, SlotType, AppType
        <4>2. CASE close(t, s) \/ \E d \in BOOLEAN : recvfrom(t, s, d)
          BY <1>0, <4>2, <2>1 DEF close, recvfrom, SlotType, AppType
        <4> QED BY <3>1, <4>1, <4>2
      <3>2. CASE on'[t] = on[t] /\ on[t] \in Socket /\ pc[t] \in Closing
        BY <2>1, <2>3, <3>2 DEF InUse
      <3> QED BY <1>2, <2>3, <3>1, <3>2, OwnStep DEF Closing, Reader
    <2> QED BY <2>2, <2>3
  <1> QED BY <1>1, <1>2

-----------------------------------------------------------------------------
(* Connections. *)

LEMMA TailSpeaks ==
  ASSUME NEW q \in Seq(Element), q # <<>>, NEW s, Speaks(s, Tail(q))
  PROVE  Speaks(s, q)
  <1>1. PICK i \in DOMAIN Tail(q) : Tail(q)[i] # LF /\ Tail(q)[i].s = s
    BY DEF Speaks
  <1>2. i + 1 \in DOMAIN q /\ q[i + 1] = Tail(q)[i]
    OBVIOUS
  <1> QED BY <1>1, <1>2 DEF Speaks

LEMMA CutSpeaks ==
  ASSUME NEW q \in Seq(Element), NEW m \in Nat, m <= Len(q), NEW s, Speaks(s, SubSeq(q, m + 1, Len(q)))
  PROVE  Speaks(s, q)
  <1> DEFINE r == SubSeq(q, m + 1, Len(q))
  <1>1. Len(r) = Len(q) - m /\ r \in Seq(Element) /\ \A k \in 1 .. Len(q) - m : r[k] = q[m + k]
    BY CutType
  <1>2. PICK i \in DOMAIN r : r[i] # LF /\ r[i].s = s
    BY DEF Speaks
  <1> HIDE DEF r
  <1>3. m + i \in DOMAIN q /\ q[m + i] = r[i]
    BY <1>1, <1>2
  <1> QED BY <1>2, <1>3 DEF Speaks

LEMMA AppendSpeaks ==
  ASSUME NEW q \in Seq(Element), NEW e \in Element, NEW s, Speaks(s, Append(q, e))
  PROVE  Speaks(s, q) \/ (e # LF /\ e.s = s)
  <1>1. PICK i \in DOMAIN Append(q, e) : Append(q, e)[i] # LF /\ Append(q, e)[i].s = s
    BY DEF Speaks
  <1>2. (i \in DOMAIN q /\ Append(q, e)[i] = q[i]) \/ Append(q, e)[i] = e
    BY <1>1
  <1> QED BY <1>1, <1>2 DEF Speaks

(* A header or a byte of a socket at the head of a queue speaks of it.     *)
LEMMA HeadSpeaks ==
  ASSUME NEW q \in Seq(Element), q # <<>>, Head(q) # LF
  PROVE  Speaks(Head(q).s, q)
  <1>1. 1 \in DOMAIN q /\ q[1] = Head(q)
    OBVIOUS
  <1> QED BY <1>1 DEF Speaks

LEMMA KnownIsHeader ==
  ASSUME NEW e \in Element, Known(e)
  PROVE  e \in Header /\ e # LF /\ allocated[e.s]
  BY DEF Known, Element, Byte, LF

(* A socket of which nothing is under way stays so until the modem has     *)
(* received for it.                                                        *)
LEMMA SilentStays ==
  ASSUME TInv, [Next]_vars, NEW s \in Socket, Silent(s), ~modem_receive(s)
  PROVE  Silent(s)'
  <1>0. /\ line \in Seq(Element) /\ uart \in Seq(Element) /\ owed \in Seq(Element)
        /\ ~Speaks(s, owed) /\ ~Speaks(s, uart) /\ ~Speaks(s, line) /\ rx.s # s
        /\ None \notin Socket /\ RxType
    BY SocketAssumption DEF TInv, WireType, Silent
  <1>1. CASE UNCHANGED <<line, uart, owed>> /\ (UNCHANGED rx \/ rx'.s = rx.s \/ rx' = Idle)
    BY <1>0, <1>1 DEF Silent, Speaks, Idle
  <1>2. CASE rx_process
    BY <1>0, <1>2 DEF rx_process, Silent, Speaks
  <1>3. CASE rx_discard
    <2>1. line # <<>> /\ line' = Tail(line) /\ UNCHANGED <<rx, uart, owed>>
      BY <1>3 DEF rx_discard
    <2>2. ~Speaks(s, Tail(line))
      BY <1>0, <2>1, TailSpeaks
    <2> QED BY <1>0, <2>1, <2>2 DEF Silent, Speaks
  <1>4. CASE on_urc_receive
    <2>1. line # <<>> /\ line' = Tail(line) /\ UNCHANGED <<uart, owed>> /\ rx'.s = Head(line).s /\ Known(Head(line))
      BY <1>4 DEF on_urc_receive, Idle
    <2>2. ~Speaks(s, Tail(line))
      BY <1>0, <2>1, TailSpeaks
    <2>3. Head(line) # LF
      BY <1>0, <2>1, TailType, KnownIsHeader
    <2>4. Head(line).s # s
      BY <1>0, <2>1, <2>3, HeadSpeaks
    <2> QED BY <1>0, <2>1, <2>2, <2>4 DEF Silent, Speaks
  <1>5. CASE rx_read
    <2> DEFINE m == Min({rx.left + rx.skip, Chunk, Len(uart)})
    <2>1. rx.pc = "read" /\ m > 0 /\ uart' = SubSeq(uart, m + 1, Len(uart)) /\ UNCHANGED <<line, owed>>
      BY <1>5 DEF rx_read
    <2>2. m \in Nat /\ m <= Len(uart)
      BY <2>1, ChunkTaken
    <2>3. rx'.s = rx.s
      BY <1>0, <1>5 DEF rx_read, RxType
    <2> HIDE DEF m
    <2>4. ~Speaks(s, SubSeq(uart, m + 1, Len(uart)))
      BY <1>0, <2>2, CutSpeaks
    <2> QED BY <1>0, <2>1, <2>3, <2>4 DEF Silent, Speaks
  <1>6. CASE rx_lock \/ rx_retry \/ rx_unlock \/ rx_size \/ rx_ready
    <2>1. UNCHANGED <<line, uart, owed>>
      BY <1>6 DEF rx_lock, rx_retry, rx_unlock, rx_size, rx_ready, wire
    <2>2. rx'.s = rx.s \/ rx' = Idle
      BY <1>0, <1>6 DEF rx_lock, rx_retry, rx_unlock, rx_size, rx_ready, RxType
    <2> QED BY <1>1, <2>1, <2>2
  <1>7. CASE modem_byte
    <2>1. owed # <<>> /\ uart' = Append(uart, Head(owed)) /\ owed' = Tail(owed) /\ UNCHANGED <<rx, line>>
      BY <1>7 DEF modem_byte
    <2>2. Head(owed) \in Element /\ ~Speaks(s, Tail(owed))
      BY <1>0, <2>1, TailType, TailSpeaks
    <2>3. Head(owed) = LF \/ Head(owed).s # s
      BY <1>0, <2>1, HeadSpeaks
    <2>4. ~Speaks(s, Append(uart, Head(owed)))
      BY <1>0, <2>2, <2>3, AppendSpeaks
    <2> QED BY <1>0, <2>1, <2>2, <2>4 DEF Silent, Speaks
  <1>8. ASSUME NEW r \in Socket, modem_receive(r) PROVE Silent(s)'
    <2>1. PICK n \in 1 .. MaxPayload :
             /\ uart' = Append(uart, [k |-> "hdr", s |-> r, b |-> n])
             /\ owed' = <<LF>> \o [i \in 1 .. n |-> [k |-> "data", s |-> r, b |-> sent[r] + i]]
      BY <1>8 DEF modem_receive
    <2>2. r # s /\ n \in Nat /\ UNCHANGED <<rx, line>>
      <3>1. r # s
        BY <1>8
      <3>2. n \in Nat
        BY ConstantTypes
      <3>3. UNCHANGED <<rx, line>>
        BY <1>8 DEF modem_receive
      <3> QED BY <3>1, <3>2, <3>3
    <2> DEFINE h == [k |-> "hdr", s |-> r, b |-> n]
               d == [i \in 1 .. n |-> [k |-> "data", s |-> r, b |-> sent[r] + i]]
    <2>3. h \in Element /\ h.s = r
      BY <2>1 DEF Element, Header
    <2>4. d \in Seq([k : {"data"}, s : {r}, b : {sent[r] + i : i \in 1 .. n}]) /\ \A i \in DOMAIN d : d[i].s = r
      BY <2>2
    <2> HIDE DEF h, d
    <2>5. ~Speaks(s, Append(uart, h))
      BY <1>0, <2>2, <2>3, AppendSpeaks
    <2>6. \A i \in DOMAIN (<<LF>> \o d) : (<<LF>> \o d)[i] = LF \/ (<<LF>> \o d)[i].s = r
      <3> HIDE DEF LF
      <3> QED BY <2>4
    <2>7. ~Speaks(s, <<LF>> \o d)
      BY <2>2, <2>6 DEF Speaks
    <2> QED BY <1>0, <2>1, <2>2, <2>5, <2>7 DEF Silent, Speaks, h, d
  <1>9. ASSUME NEW r \in Socket, modem_open(r) PROVE Silent(s)'
    BY <1>1, <1>9 DEF modem_open
  <1>10. ASSUME NEW t \in Thread, Call(t) \/ Step(t) PROVE Silent(s)'
    <2>1. UNCHANGED <<rx, line, uart, owed>>
      BY <1>10 DEF Call, Step, socket_init, recv_lock, recv_size, close_lock, socket_get, close, recvfrom,
         recv_flag, recv_wait, recv_next, recv_short, recv_more, close_modem, close_put, wire
    <2> QED BY <1>1, <2>1
  <1>11. CASE UNCHANGED vars
    BY <1>1, <1>11 DEF vars, wire
  <1> QED BY <1>2, <1>3, <1>4, <1>5, <1>6, <1>7, <1>8, <1>9, <1>10, <1>11 DEF Next, modem, modem_rx

LEMMA LinkChange ==
  ASSUME TInv, [Next]_vars, NEW s \in Socket
  PROVE  \/ link'[s] = link[s]
         \/ modem_open(s) /\ ~link[s] /\ link'[s]
         \/ \E t \in Thread : close_modem(t) /\ on[t] = s /\ link[s] /\ ~link'[s]
  <1>0. link \in [Socket -> BOOLEAN] /\ AppType /\ None \notin Socket
    BY SocketAssumption DEF TInv, WireType
  <1>1. CASE UNCHANGED link
    BY <1>1
  <1>2. ASSUME NEW r \in Socket, modem_open(r) PROVE link'[s] = link[s] \/ (r = s /\ ~link[s] /\ link'[s])
    BY <1>0, <1>2 DEF modem_open
  <1>3. ASSUME NEW t \in Thread, close_modem(t) PROVE link'[s] = link[s] \/ (on[t] = s /\ link[s] /\ ~link'[s])
    <2>1. on[t] \in Socket
      BY <1>0, <1>3 DEF close_modem, AppType
    <2>2. link' = [link EXCEPT ![on[t]] = FALSE] \/ link' = link
      BY <1>3 DEF close_modem
    <2> QED BY <1>0, <2>1, <2>2
  <1>4. CASE modem_rx \/ UNCHANGED vars
    <2>1. UNCHANGED link
      BY <1>4 DEF modem_rx, rx_process, rx_discard, on_urc_receive, rx_lock, rx_read, rx_retry, rx_unlock, rx_size,
         rx_ready, vars, wire
    <2> QED BY <1>1, <2>1
  <1>5. CASE modem
    <2>1. UNCHANGED link \/ \E r \in Socket : modem_open(r)
      BY <1>5 DEF modem, modem_receive, modem_byte
    <2> QED BY <1>1, <1>2, <2>1
  <1>6. ASSUME NEW t \in Thread, Call(t) \/ Step(t)
        PROVE  link'[s] = link[s] \/ (close_modem(t) /\ on[t] = s /\ link[s] /\ ~link'[s])
    <2>1. UNCHANGED link \/ close_modem(t)
      BY <1>6 DEF Call, Step, socket_init, recv_lock, recv_size, close_lock, socket_get, close, recvfrom,
         recv_flag, recv_wait, recv_next, recv_short, recv_more, close_put, wire
    <2> QED BY <1>1, <1>3, <2>1
  <1> QED BY <1>4, <1>5, <1>6 DEF Next

LEMMA LinkedKept ==
  ASSUME orphaned' = {}, TInv, Together, InUse, Linked, [Next]_vars
  PROVE  Linked'
  <1>0. AppType /\ SlotType /\ None \notin Socket /\ link \in [Socket -> BOOLEAN]
    BY SocketAssumption DEF TInv, WireType
  <1> SUFFICES ASSUME NEW s \in Socket
               PROVE  /\ ~Silent(s)' => link'[s]
                      /\ link'[s] => allocated'[s]
                      /\ link'[s] => \A t \in Thread : on'[t] = s => pc'[t] \notin {"socket_init", "close_lock", "close_put"}
    BY DEF Linked
  <1>1. ASSUME NEW t \in Thread, close_modem(t), on[t] = s PROVE ~link'[s] /\ Silent(s)
    <2>1. orphaned' = IF link'[s] \/ ~Silent(s) THEN orphaned \cup {s} ELSE orphaned
      BY <1>1 DEF close_modem
    <2> QED BY <2>1
  <1>2. ~Silent(s)' => link'[s]
    <2>1. CASE ~Silent(s)
      BY <1>1, <2>1, LinkChange DEF Linked
    <2>2. CASE modem_receive(s)
      BY <2>2 DEF modem_receive
    <2> QED BY <2>1, <2>2, SilentStays
  <1>3. CASE modem_open(s)
    BY <1>2, <1>3 DEF modem_open, app, slot
  <1>4. CASE ~modem_open(s)
    <2> SUFFICES ASSUME link'[s]
                 PROVE  allocated'[s] /\ \A t \in Thread : on'[t] = s => pc'[t] \notin {"socket_init", "close_lock", "close_put"}
      BY <1>2
    <2>1. link[s] /\ allocated[s] /\ \A t \in Thread : on[t] = s => pc[t] \notin {"socket_init", "close_lock", "close_put"}
      BY <1>4, LinkChange DEF Linked
    <2>2. CASE modem_rx \/ modem \/ UNCHANGED vars
      <3>1. UNCHANGED <<pc, on, allocated>>
        BY <2>2 DEF modem_rx, rx_process, rx_discard, on_urc_receive, rx_lock, rx_read, rx_retry, rx_unlock,
           rx_size, rx_ready, modem, modem_open, modem_receive, modem_byte, vars, app, slot
      <3> QED BY <2>1, <3>1
    <2>3. ASSUME NEW t \in Thread, close_put(t)
          PROVE  allocated'[s] /\ \A u \in Thread : on'[u] = s => pc'[u] \notin {"socket_init", "close_lock", "close_put"}
      <3>1. on[t] # s /\ on[t] \in Socket /\ allocated' = [allocated EXCEPT ![on[t]] = FALSE]
        BY <1>0, <2>1, <2>3 DEF close_put, AppType
      <3> QED BY <1>0, <2>1, <2>3, <3>1, OthersAtPut DEF SlotType
    <2>4. ASSUME NEW t \in Thread, Call(t) \/ Step(t), ~close_put(t)
          PROVE  allocated'[s] /\ \A u \in Thread : on'[u] = s => pc'[u] \notin {"socket_init", "close_lock", "close_put"}
      <3>1. allocated'[s]
        BY <1>0, <2>1, <2>4 DEF SlotType, Call, Step, socket_init, recv_lock, recv_size, close_lock, socket_get, close,
           recvfrom, recv_flag, recv_wait, recv_next, recv_short, recv_more, close_modem, slot
      <3>2. on'[t] = s => pc'[t] \notin {"socket_init", "close_lock", "close_put"}
        <4>1. ASSUME NEW r \in Socket, socket_get(t, r) \/ close(t, r) \/ \E d \in BOOLEAN : recvfrom(t, r, d)
              PROVE  on'[t] = s => pc'[t] \notin {"socket_init", "close_lock", "close_put"}
          BY <1>0, <2>1, <4>1 DEF socket_get, close, recvfrom, Goto, AppType
        <4>2. CASE on'[t] = s /\ on[t] = s /\ pc[t] = "close_modem" /\ pc'[t] = "close_lock"
          <5>1. close_modem(t)
            BY <2>4, <4>2 DEF Call, Step, socket_init, recv_lock, recv_size, close_lock, socket_get, close,
               recvfrom, recv_flag, recv_wait, recv_next, recv_short, recv_more
          <5> QED BY <1>1, <4>2, <5>1
        <4>3. CASE on'[t] = s /\ on[t] = s /\ ~(pc[t] = "close_modem" /\ pc'[t] = "close_lock")
          BY <1>0, <2>1, <2>4, <4>1, <4>3, OwnStep DEF Reader
        <4> QED BY <1>0, <2>4, <4>1, <4>2, <4>3, OwnStep
      <3> QED BY <2>1, <2>4, <3>1, <3>2, OthersStay
    <2> QED BY <2>2, <2>3, <2>4 DEF Next
  <1> QED BY <1>3, <1>4

-----------------------------------------------------------------------------
(* The locks. *)

LEMMA LockHeldKept ==
  ASSUME TInv, Use, [Next]_vars
  PROVE  LockHeld'
  <1>0. /\ AppType /\ RxType /\ None \notin Socket /\ lock \in [Socket -> Thread \cup {RX, None}]
        /\ RX \notin Thread /\ None \notin Thread /\ RX # None
        /\ Together /\ Linked /\ LockHeld
    BY SocketAssumption, OwnerAssumption DEF TInv, DataType, Use
  <1>1. ASSUME UNCHANGED lock,
               \/ rx' = rx
               \/ rx'.s = rx.s /\ (rx'.pc \in {"read", "unlock"} <=> rx.pc \in {"read", "unlock"})
               \/ rx'.pc \notin {"read", "unlock"} /\ rx.pc \notin {"read", "unlock"},
               \A t \in Thread : \/ pc'[t] = pc[t] /\ on'[t] = on[t]
                                 \/ pc'[t] # "recv_size" /\ pc[t] # "recv_size"
        PROVE  LockHeld'
    BY <1>0, <1>1 DEF LockHeld
  <1>2. ASSUME NEW t \in Thread, socket_init(t) PROVE LockHeld'
    <2>1. /\ on[t] \in Socket /\ pc[t] = "socket_init" /\ lock' = [lock EXCEPT ![on[t]] = None] /\ UNCHANGED rx
          /\ pc'[t] = "idle" /\ \A u \in Thread \ {t} : pc'[u] = pc[u] /\ on'[u] = on[u]
      BY <1>0, <1>2 DEF socket_init, AppType, Done, Goto
    <2>2. \A u \in Thread : on[u] = on[t] => pc[u] # "recv_size"
      BY <1>0, <2>1 DEF Together, Closing, Reader
    <2>3. rx.s # on[t]
      BY <1>0, <2>1 DEF Linked, Silent
    <2> QED BY <1>0, <2>1, <2>2, <2>3 DEF LockHeld
  <1>3. ASSUME NEW t \in Thread, recv_lock(t) PROVE LockHeld'
    <2>1. /\ on[t] \in Socket /\ lock[on[t]] = None /\ lock' = [lock EXCEPT ![on[t]] = t] /\ UNCHANGED <<rx, on>>
          /\ pc'[t] = "recv_size" /\ \A u \in Thread \ {t} : pc'[u] = pc[u]
      BY <1>0, <1>3 DEF recv_lock, AppType, Goto
    <2> QED BY <1>0, <2>1 DEF LockHeld
  <1>4. ASSUME NEW t \in Thread, recv_size(t) PROVE LockHeld'
    <2>1. /\ on[t] \in Socket /\ pc[t] = "recv_size" /\ lock' = [lock EXCEPT ![on[t]] = None] /\ UNCHANGED <<rx, on>>
          /\ pc'[t] = "recv_more" /\ \A u \in Thread \ {t} : pc'[u] = pc[u]
      BY <1>0, <1>4 DEF recv_size, AppType, Goto
    <2>2. lock[on[t]] = t
      BY <1>0, <2>1 DEF LockHeld
    <2> QED BY <1>0, <2>1, <2>2 DEF LockHeld
  <1>5. CASE rx_lock
    <2>1. UNCHANGED <<pc, on>> /\ rx.pc = "lock" /\ rx.s \in Socket /\ lock[rx.s] = None
      BY <1>0, <1>5 DEF rx_lock, app, RxType
    <2>2. \/ UNCHANGED lock /\ rx' = Idle
          \/ lock' = [lock EXCEPT ![rx.s] = RX] /\ rx'.pc = "read" /\ rx'.s = rx.s
      BY <1>0, <1>5 DEF rx_lock, RxType
    <2> QED BY <1>0, <2>1, <2>2 DEF LockHeld, Idle
  <1>6. CASE rx_unlock
    <2>1. /\ UNCHANGED <<pc, on>> /\ rx.pc \in {"read", "unlock"} /\ rx.s \in Socket
          /\ Released(rx.s) /\ rx'.pc \in {"idle", "size"}
      <3>1. /\ UNCHANGED <<pc, on>> /\ rx.pc \in {"read", "unlock"}
            /\ Released(rx.s)
            /\ rx' = Idle \/ rx' = [rx EXCEPT !.pc = "size", !.total = buffered[rx.s]]
        BY <1>6 DEF rx_unlock, app
      <3>2. rx.s \in Socket
        BY <1>0, <3>1 DEF RxType
      <3>3. rx'.pc \in {"idle", "size"}
        <4>1. CASE rx' = Idle
          BY <4>1 DEF Idle
        <4>2. CASE rx' = [rx EXCEPT !.pc = "size", !.total = buffered[rx.s]]
          BY <1>0, <4>2 DEF RxType
        <4> QED BY <3>1, <4>1, <4>2
      <3> QED BY <3>1, <3>2, <3>3
    <2>2. lock[rx.s] = RX /\ lock' = [lock EXCEPT ![rx.s] = None]
      BY <1>0, <2>1 DEF LockHeld, Released
    <2> QED BY <1>0, <2>1, <2>2 DEF LockHeld
  <1>7. CASE modem_rx /\ ~rx_lock /\ ~rx_unlock
    <2>1. UNCHANGED <<pc, on, lock>>
      BY <1>7 DEF modem_rx, rx_process, rx_discard, on_urc_receive, rx_read, rx_retry, rx_size, rx_ready, app, data
    <2>2. \/ rx' = rx
          \/ rx'.s = rx.s /\ (rx'.pc \in {"read", "unlock"} <=> rx.pc \in {"read", "unlock"})
          \/ rx'.pc \notin {"read", "unlock"} /\ rx.pc \notin {"read", "unlock"}
      <3>1. CASE rx_process \/ rx_discard
        BY <3>1 DEF rx_process, rx_discard
      <3>2. CASE on_urc_receive
        BY <3>2 DEF on_urc_receive, Idle
      <3>3. CASE rx_read
        BY <1>0, <3>3 DEF rx_read, RxType
      <3>4. CASE rx_retry
        BY <1>0, <3>4 DEF rx_retry, RxType
      <3>5. CASE rx_size \/ rx_ready
        <4>1. rx.pc \notin {"read", "unlock"} /\ (rx' = Idle \/ rx' = [rx EXCEPT !.pc = "ready"])
          BY <3>5 DEF rx_size, rx_ready
        <4>2. CASE rx' = Idle
          BY <4>1, <4>2 DEF Idle
        <4>3. CASE rx' = [rx EXCEPT !.pc = "ready"]
          BY <1>0, <4>1, <4>3 DEF RxType
        <4> QED BY <4>1, <4>2, <4>3
      <3> QED BY <1>7, <3>1, <3>2, <3>3, <3>4, <3>5 DEF modem_rx
    <2> QED BY <1>1, <2>1, <2>2
  <1>8. CASE modem \/ UNCHANGED vars
    <2>1. UNCHANGED <<pc, on, lock, rx>>
      BY <1>8 DEF modem, modem_open, modem_receive, modem_byte, vars, app, data
    <2> QED BY <1>1, <2>1
  <1>9. ASSUME NEW t \in Thread, Call(t) \/ Step(t), ~socket_init(t), ~recv_lock(t), ~recv_size(t) PROVE LockHeld'
    <2>1. UNCHANGED <<rx, lock>>
      BY <1>9 DEF Call, Step, close_lock, socket_get, close, recvfrom,
         recv_flag, recv_wait, recv_next, recv_short, recv_more, close_modem, close_put, data
    <2>2. CASE close_put(t)
      <3>1. \A u \in Thread : (pc'[u] = pc[u] /\ on'[u] = on[u]) \/ (pc'[u] # "recv_size" /\ pc[u] # "recv_size")
        <4>1. pc[t] = "close_put"
          BY <2>2 DEF close_put
        <4>2. pc'[t] = "idle"
          BY <2>2, OthersAtPut
        <4>3. \A u \in Thread \ {t} : (pc'[u] = pc[u] /\ on'[u] = on[u]) \/ (pc'[u] # "recv_size" /\ pc[u] # "recv_size")
          <5> SUFFICES ASSUME NEW u \in Thread \ {t}
                       PROVE  (pc'[u] = pc[u] /\ on'[u] = on[u]) \/ (pc'[u] # "recv_size" /\ pc[u] # "recv_size")
            OBVIOUS
          <5>1. on'[u] = on[u] /\ (pc'[u] = pc[u] \/ (pc[u] = "recv_wait" /\ pc'[u] = "recv_next"))
            BY <2>2, OthersAtPut
          <5> QED BY <5>1
        <4> QED BY <4>1, <4>2, <4>3
      <3> QED BY <1>1, <2>1, <3>1
    <2>3. CASE ~close_put(t)
      <3>1. pc[t] # "recv_size" /\ pc'[t] # "recv_size"
        BY <1>0, <1>9, <2>3 DEF Call, Step, close_lock, socket_get, close, recvfrom, recv_flag, recv_wait, recv_next,
           recv_short, recv_more, close_modem, close_put, Done, Goto, AppType
      <3> QED BY <1>1, <1>9, <2>1, <2>3, <3>1, OthersStay
    <2> QED BY <2>2, <2>3
  <1> QED BY <1>2, <1>3, <1>4, <1>5, <1>6, <1>7, <1>8, <1>9 DEF Next

-----------------------------------------------------------------------------
(* What a step does to one socket. *)

Same(s) ==
    /\ rx_buf'[s] = rx_buf[s] /\ buffered'[s] = buffered[s] /\ lock'[s] = lock[s] /\ sizes'[s] = sizes[s]

ThreadStep(t) == socket_init(t) \/ recv_lock(t) \/ recv_size(t) \/ close_lock(t) \/ close_put(t)
RxStep        == rx_lock \/ rx_read \/ rx_unlock \/ rx_size

LEMMA OneSocket ==
  ASSUME TInv, [Next]_vars, NEW s \in Socket
  PROVE  \/ Same(s)
         \/ \E t \in Thread : ThreadStep(t) /\ on[t] = s
         \/ RxStep /\ rx.s = s
  <1>0. AppType /\ SlotType /\ DataType /\ RxType /\ None \notin Socket
    BY SocketAssumption DEF TInv
  <1>1. ASSUME UNCHANGED <<rx_buf, buffered, lock, sizes>> PROVE Same(s)
    BY <1>1 DEF Same
  <1>2. ASSUME NEW t \in Thread, Call(t) \/ Step(t), ~ThreadStep(t) PROVE Same(s)
    <2>1. UNCHANGED <<rx_buf, buffered, lock, sizes>>
      BY <1>2 DEF ThreadStep, Call, Step, socket_get, close, recvfrom, recv_flag, recv_wait, recv_next,
         recv_short, recv_more, close_modem, data, slot
    <2> QED BY <1>1, <2>1
  <1>3. ASSUME NEW t \in Thread, ThreadStep(t), on[t] # s PROVE Same(s)
    <2>1. on[t] \in Socket
      BY <1>0, <1>3 DEF ThreadStep, socket_init, recv_lock, recv_size, close_lock, close_put, AppType
    <2>2. CASE socket_init(t)
      BY <1>0, <1>3, <2>1, <2>2 DEF socket_init, Same, slot, DataType
    <2>3. CASE recv_lock(t)
      BY <1>0, <1>3, <2>1, <2>3 DEF recv_lock, Same, slot, DataType
    <2>4. CASE recv_size(t)
      BY <1>0, <1>3, <2>1, <2>4 DEF recv_size, Same, packet_size_update, SlotType, DataType
    <2>5. CASE close_lock(t)
      BY <1>0, <1>3, <2>1, <2>5 DEF close_lock, Same, slot, DataType
    <2>6. CASE close_put(t)
      BY <1>0, <1>3, <2>1, <2>6 DEF close_put, Same, data, SlotType
    <2> QED BY <1>3, <2>2, <2>3, <2>4, <2>5, <2>6 DEF ThreadStep
  <1>4. CASE modem_rx /\ ~RxStep
    <2>1. UNCHANGED <<rx_buf, buffered, lock, sizes>>
      BY <1>4 DEF RxStep, modem_rx, rx_process, rx_discard, on_urc_receive, rx_retry, rx_ready, data, slot
    <2> QED BY <1>1, <2>1
  <1>5. CASE RxStep /\ rx.s # s
    <2>1. rx.s \in Socket
      BY <1>0, <1>5 DEF RxStep, rx_lock, rx_read, rx_unlock, rx_size, RxType
    <2>2. CASE rx_lock
      BY <1>0, <1>5, <2>1, <2>2 DEF rx_lock, Same, slot, DataType
    <2>3. CASE rx_read
      BY <1>0, <1>5, <2>1, <2>3 DEF rx_read, Same, slot, DataType
    <2>4. CASE rx_unlock
      BY <1>0, <1>5, <2>1, <2>4 DEF rx_unlock, Released, Same, slot, DataType
    <2>5. CASE rx_size
      BY <1>0, <1>5, <2>1, <2>5 DEF rx_size, Same, packet_size_update, data, SlotType
    <2> QED BY <1>5, <2>2, <2>3, <2>4, <2>5 DEF RxStep
  <1>6. CASE modem \/ UNCHANGED vars
    <2>1. UNCHANGED <<rx_buf, buffered, lock, sizes>>
      BY <1>6 DEF modem, modem_open, modem_receive, modem_byte, vars, data, slot
    <2> QED BY <1>1, <2>1
  <1> QED BY <1>2, <1>3, <1>4, <1>5, <1>6 DEF Next

(* What a reader has taken and not yet counted stays its own. *)
LEMMA SameAhead ==
  ASSUME TInv, Use, [Next]_vars, NEW s \in Socket, lock'[s] = lock[s]
  PROVE  Ahead(s)' = Ahead(s)
  <1>1. CASE lock[s] \notin Thread
    BY <1>1 DEF Ahead
  <1>2. CASE lock[s] \in Thread
    <2> DEFINE u == lock[s]
    <2>1. u \in Thread /\ pc[u] = "recv_size"
      BY <1>2 DEF Use, LockHeld
    <2> HIDE DEF u
    <2>2. to_read'[u] = to_read[u]
      <3>1. CASE UNCHANGED to_read
        BY <3>1
      <3>2. ASSUME NEW t \in Thread, NEW n \in 1 .. MaxPayload, recv_next(t, n) PROVE to_read'[u] = to_read[u]
        BY <2>1, <3>2 DEF recv_next, TInv, AppType
      <3>3. CASE modem_rx \/ modem \/ UNCHANGED vars
        <4>1. UNCHANGED to_read
          BY <3>3 DEF modem_rx, rx_process, rx_discard, on_urc_receive, rx_lock, rx_read, rx_retry, rx_unlock,
             rx_size, rx_ready, modem, modem_open, modem_receive, modem_byte, vars, app
        <4> QED BY <3>1, <4>1
      <3>4. ASSUME NEW t \in Thread, Call(t) \/ Step(t), ~(\E n \in 1 .. MaxPayload : recv_next(t, n))
            PROVE  to_read'[u] = to_read[u]
        <4>1. UNCHANGED to_read
          BY <3>4 DEF Call, Step, socket_init, recv_lock, recv_size, close_lock, socket_get, close, recvfrom,
             recv_flag, recv_wait, recv_short, recv_more, close_modem, close_put
        <4> QED BY <3>1, <4>1
      <3> QED BY <3>2, <3>3, <3>4 DEF Next
    <2> QED BY <1>2, <2>2 DEF Ahead, u
  <1> QED BY <1>1, <1>2

(* What RX works on is connected, and none opens or closes it. *)
LEMMA AtRx ==
  ASSUME TInv, Use, NEW s \in Socket, rx.s = s
  PROVE  /\ link[s] /\ ~Putting(s)
         /\ \A t \in Thread : on[t] = s => pc[t] \notin {"socket_init", "close_lock", "close_put"}
  BY DEF Use, Linked, Silent, Putting

(* What each of the steps leaves of the socket it works on.                *)
LEMMA AfterInit ==
  ASSUME TInv, Use, NEW t \in Thread, socket_init(t)
  PROVE  /\ on[t] \in Socket /\ ~link[on[t]] /\ UNCHANGED <<link, rx, lapse, sizes>>
         /\ rx_buf[on[t]] = None /\ sizes[on[t]] = <<>> /\ rx.s # on[t]
         /\ rx_buf'[on[t]] = None /\ buffered'[on[t]] = 0 /\ lock'[on[t]] = None
         /\ \A u \in Thread : u # t => on[u] # on[t]
         /\ on'[t] = None /\ \A u \in Thread : u # t => pc'[u] = pc[u] /\ on'[u] = on[u]
  <1>0. /\ AppType /\ DataType /\ RxType /\ None \notin Socket
        /\ Together /\ Linked /\ Clean
    BY SocketAssumption DEF TInv, Use
  <1>1. /\ on[t] \in Socket /\ pc[t] = "socket_init" /\ UNCHANGED <<link, rx, lapse, sizes>>
        /\ on'[t] = None /\ \A u \in Thread : u # t => pc'[u] = pc[u] /\ on'[u] = on[u]
    BY <1>0 DEF socket_init, AppType, Done, Goto, wire, ghost, slot
  <1>2. \A u \in Thread : u # t => on[u] # on[t]
    BY <1>0, <1>1 DEF Together, Closing, Reader
  <1>3. ~link[on[t]] /\ rx.s # on[t]
    BY <1>0, <1>1 DEF Linked, Silent
  <1>4. rx_buf[on[t]] = None /\ sizes[on[t]] = <<>>
    BY <1>0, <1>1, <1>2, <1>3 DEF Clean
  <1>5. rx_buf'[on[t]] = None /\ buffered'[on[t]] = 0 /\ lock'[on[t]] = None
    BY <1>0, <1>1 DEF socket_init, DataType
  <1> QED BY <1>1, <1>2, <1>3, <1>4, <1>5

LEMMA AfterTake ==
  ASSUME TInv, Use, NEW t \in Thread, recv_lock(t)
  PROVE  /\ on[t] \in Socket /\ UNCHANGED <<link, rx, lapse, sizes, on, to_read>>
         /\ rx_buf[on[t]] # None /\ sizes'[on[t]] = sizes[on[t]] /\ ~Putting(on[t])
         /\ lock[on[t]] = None /\ lock'[on[t]] = t
         /\ to_read[t] \in Nat \ {0} /\ buffered[on[t]] \in Nat
         /\ to_read[t] <= buffered[on[t]] /\ buffered'[on[t]] = buffered[on[t]] - to_read[t]
         /\ Ahead(on[t]) = 0 /\ Ahead(on[t])' = to_read[t]
         /\ pc'[t] = "recv_size" /\ \A u \in Thread : u # t => pc'[u] = pc[u]
  <1>0. /\ AppType /\ DataType /\ None \notin Socket /\ None \notin Thread /\ Clean
    BY SocketAssumption, OwnerAssumption DEF TInv, Use
  <1>1. /\ UNCHANGED <<link, rx, lapse, sizes, on, to_read>> /\ lock[on[t]] = None
        /\ lock' = [lock EXCEPT ![on[t]] = t] /\ pc' = [pc EXCEPT ![t] = "recv_size"]
    BY DEF recv_lock, wire, slot, Goto
  <1>2. /\ on[t] \in Socket /\ rx_buf[on[t]] # None /\ to_read[t] \in Nat \ {0} /\ buffered[on[t]] \in Nat
        /\ to_read[t] <= buffered[on[t]]
        /\ buffered' = [buffered EXCEPT ![on[t]] = buffered[on[t]] - to_read[t]]
    BY ReadLeaves
  <1>3. lock'[on[t]] = t /\ buffered'[on[t]] = buffered[on[t]] - to_read[t]
    BY <1>0, <1>1, <1>2 DEF DataType
  <1>4. Ahead(on[t]) = 0 /\ Ahead(on[t])' = to_read[t]
    BY <1>0, <1>1, <1>3 DEF Ahead
  <1>5. ~Putting(on[t])
    BY <1>0, <1>2 DEF Clean, Putting
  <1>6. pc'[t] = "recv_size" /\ \A u \in Thread : u # t => pc'[u] = pc[u]
    BY <1>0, <1>1 DEF AppType
  <1> QED BY <1>1, <1>2, <1>3, <1>4, <1>5, <1>6

LEMMA AfterCount ==
  ASSUME TInv, Use, NEW t \in Thread, recv_size(t)
  PROVE  /\ on[t] \in Socket /\ UNCHANGED <<link, rx, lapse, rx_buf, buffered, on, to_read>>
         /\ lock[on[t]] = t /\ lock'[on[t]] = None /\ ~Putting(on[t])
         /\ Ahead(on[t]) = to_read[t] /\ Ahead(on[t])' = 0 /\ to_read[t] \in Nat /\ Total(sizes[on[t]]) \in Nat
         /\ Total(sizes'[on[t]]) = IF Total(sizes[on[t]]) > to_read[t] THEN Total(sizes[on[t]]) - to_read[t] ELSE 0
         /\ sizes[on[t]] = <<>> => sizes'[on[t]] = <<>>
         /\ rx.pc # "size"
         /\ pc'[t] = "recv_more" /\ \A u \in Thread : u # t => pc'[u] = pc[u]
  <1>0. /\ AppType /\ SlotType /\ DataType /\ None \notin Socket /\ None \notin Thread /\ Clean /\ LockHeld
    BY SocketAssumption, OwnerAssumption DEF TInv, Use
  <1> DEFINE s == on[t]
             T == Total(sizes[s])
             n == IF T > to_read[t] THEN T - to_read[t] ELSE 0
  <1>1. /\ UNCHANGED <<link, rx, lapse, rx_buf, buffered, on, to_read>> /\ pc[t] = "recv_size" /\ rx.pc # "size"
        /\ lock' = [lock EXCEPT ![s] = None] /\ pc' = [pc EXCEPT ![t] = "recv_more"]
        /\ sizes' = [sizes EXCEPT ![s] = Resized(sizes[s], n)]
    BY DEF recv_size, wire, ghost, Goto, packet_size_update
  <1>2. s \in Socket /\ to_read[t] \in Nat
    BY <1>0, <1>1, ConstantTypes DEF AppType
  <1>3. lock[s] = t /\ lock'[s] = None /\ sizes'[s] = Resized(sizes[s], n)
    BY <1>0, <1>1, <1>2 DEF LockHeld, DataType, SlotType
  <1>4. Ahead(s) = to_read[t] /\ Ahead(s)' = 0
    BY <1>0, <1>1, <1>3 DEF Ahead
  <1>5. ~Putting(s)
    BY <1>0, <1>2, <1>3 DEF Clean, Putting
  <1>6. T \in Nat /\ n \in Nat /\ n <= T
    <2>1. T \in Nat
      BY <1>0, <1>2, NextPacket
    <2> HIDE DEF T
    <2> QED BY <1>2, <2>1
  <1>7. Total(Resized(sizes[s], n)) = n
    <2>1. sizes[s] \in Seq(1 .. BufSize) /\ Len(sizes[s]) <= MaxPackets
      BY <1>0, <1>2 DEF SlotType
    <2>2. CASE n = 0
      BY <2>2, TotalEmpty DEF Resized
    <2>3. CASE n # 0
      <3> HIDE DEF n, s
      <3>1. Resized(sizes[s], n) = Shrunk(sizes[s], T - n)
        BY <1>6, <2>3 DEF Resized
      <3>2. T - n \in 0 .. Total(sizes[s])
        BY <1>6
      <3>3. Total(Shrunk(sizes[s], T - n)) = T - (T - n)
        BY <2>1, <3>2, ShrunkFacts, ConstantTypes
      <3> HIDE DEF T
      <3>4. T - (T - n) = n
        BY <1>6
      <3> QED BY <3>1, <3>3, <3>4
    <2> QED BY <2>2, <2>3
  <1>8. sizes[s] = <<>> => sizes'[s] = <<>>
    <2>1. ASSUME sizes[s] = <<>> PROVE sizes'[s] = <<>>
      <3>1. T = 0
        BY <2>1, TotalEmpty
      <3> HIDE DEF T
      <3>2. n = 0
        BY <1>2, <3>1
      <3> QED BY <1>3, <3>2 DEF Resized
    <2> QED BY <2>1
  <1>9. pc'[t] = "recv_more" /\ \A u \in Thread : u # t => pc'[u] = pc[u]
    BY <1>0, <1>1 DEF AppType
  <1> QED BY <1>1, <1>2, <1>3, <1>4, <1>5, <1>6, <1>7, <1>8, <1>9

LEMMA AfterFree ==
  ASSUME TInv, Use, NEW t \in Thread, close_lock(t)
  PROVE  /\ on[t] \in Socket /\ UNCHANGED <<link, rx, lapse, sizes, on, to_read, lock>> /\ rx.s # on[t]
         /\ lock[on[t]] = None /\ rx_buf'[on[t]] = None
         /\ pc'[t] = "close_put" /\ \A u \in Thread : u # t => pc'[u] = pc[u]
  <1>0. /\ AppType /\ DataType /\ None \notin Socket /\ Linked
    BY SocketAssumption DEF TInv, Use
  <1>1. /\ UNCHANGED <<link, rx, lapse, sizes, on, to_read, lock>> /\ lock[on[t]] = None /\ pc[t] = "close_lock"
        /\ rx_buf' = [rx_buf EXCEPT ![on[t]] = None] /\ pc' = [pc EXCEPT ![t] = "close_put"]
    BY DEF close_lock, wire, slot, ghost, Goto
  <1>2. on[t] \in Socket /\ pc'[t] = "close_put" /\ \A u \in Thread : u # t => pc'[u] = pc[u]
    BY <1>0, <1>1 DEF AppType
  <1>3. rx.s # on[t]
    BY <1>0, <1>1, <1>2 DEF Linked, Silent
  <1>4. rx_buf'[on[t]] = None
    BY <1>0, <1>1, <1>2 DEF DataType
  <1> QED BY <1>1, <1>2, <1>3, <1>4

LEMMA AfterPut ==
  ASSUME TInv, Use, NEW t \in Thread, close_put(t)
  PROVE  /\ on[t] \in Socket /\ ~link[on[t]]
         /\ UNCHANGED <<link, rx, lapse, rx_buf, buffered, lock, to_read>> /\ rx.s # on[t]
         /\ rx_buf[on[t]] = None /\ buffered[on[t]] = 0 /\ lock[on[t]] = None /\ sizes'[on[t]] = <<>>
  <1>0. /\ AppType /\ DataType /\ SlotType /\ None \notin Socket /\ Linked /\ Clean
    BY SocketAssumption DEF TInv, Use
  <1>1. /\ UNCHANGED <<link, rx, lapse, rx_buf, buffered, lock, to_read>> /\ pc[t] = "close_put"
        /\ sizes' = [sizes EXCEPT ![on[t]] = <<>>]
    BY DEF close_put, wire, data, ghost
  <1>2. on[t] \in Socket
    BY <1>0, <1>1 DEF AppType
  <1>3. rx.s # on[t] /\ ~link[on[t]]
    BY <1>0, <1>1, <1>2 DEF Linked, Silent
  <1>4. rx_buf[on[t]] = None /\ lock[on[t]] = None
    BY <1>0, <1>1, <1>2 DEF Clean
  <1>5. buffered[on[t]] = 0
    BY <1>0, <1>2, <1>4 DEF DataType, Bytes
  <1>6. sizes'[on[t]] = <<>>
    BY <1>0, <1>1, <1>2 DEF SlotType
  <1> QED BY <1>1, <1>2, <1>3, <1>4, <1>5, <1>6

LEMMA AfterRx ==
  ASSUME TInv, Use, Promised, Counted, RxStep, NEW s \in Socket, rx.s = s
  PROVE  /\ UNCHANGED <<link, pc, on, to_read>>
         /\ Ahead(s)' = Ahead(s) /\ Ahead(s) \in Nat
         /\ buffered[s] \in Nat /\ buffered'[s] \in Nat /\ buffered'[s] >= buffered[s]
         /\ ~rx_size => sizes' = sizes /\ Ahead(s) = 0 /\ \A l : l \in lapse[s] => l \in lapse'[s]
         /\ ~rx_read => buffered'[s] = buffered[s]
         /\ rx_size => /\ rx.pc = "size" /\ rx'.pc = "ready"
                       /\ \/ Total(sizes'[s]) = buffered[s] + Ahead(s)
                          \/ /\ Total(sizes'[s]) <= buffered[s] + Ahead(s)
                             /\ "no packet" \in lapse'[s]
                       /\ Total(sizes'[s]) >= Total(sizes[s])
  <1>0. /\ AppType /\ DataType /\ SlotType /\ RxType /\ LogType
        /\ None \notin Socket /\ None \notin Thread /\ RX \notin Thread
        /\ LockHeld
    BY SocketAssumption, OwnerAssumption DEF TInv, Use
  <1>1. UNCHANGED <<link, pc, on, to_read>>
    BY DEF RxStep, rx_lock, rx_read, rx_unlock, rx_size, app, wire
  <1>2. buffered[s] \in Nat /\ buffered'[s] \in Nat
    <2>1. buffered'[s] \in 0 .. BufSize
      BY DataKept DEF DataType, RxStep, Next, modem_rx
    <2>2. buffered[s] \in 0 .. BufSize
      BY <1>0 DEF DataType
    <2> QED BY <2>1, <2>2, ConstantTypes
  <1>3. Ahead(s) \in Nat
    <2>1. CASE lock[s] \in Thread
      BY <1>0, <2>1, ConstantTypes DEF Ahead, AppType
    <2>2. CASE lock[s] \notin Thread
      BY <2>2 DEF Ahead
    <2> QED BY <2>1, <2>2
  <1>4. CASE rx_lock \/ rx_unlock
    <2>1. UNCHANGED <<buffered, sizes>>
      BY <1>4 DEF rx_lock, rx_unlock, slot
    <2>2. lock[s] \notin Thread /\ lock'[s] \notin Thread
      <3>1. CASE rx_lock
        <4>1. lock[s] = None /\ (lock' = lock \/ lock' = [lock EXCEPT ![s] = RX])
          BY <3>1 DEF rx_lock
        <4> QED BY <1>0, <4>1 DEF DataType
      <3>2. CASE rx_unlock
        <4>1. rx.pc \in {"read", "unlock"} /\ Released(s)
          BY <3>2 DEF rx_unlock
        <4>2. lock[s] = RX
          BY <1>0, <4>1 DEF LockHeld
        <4> QED BY <1>0, <4>1, <4>2 DEF DataType, Released
      <3> QED BY <1>4, <3>1, <3>2
    <2>3. Ahead(s) = 0 /\ Ahead(s)' = 0
      BY <2>2 DEF Ahead
    <2>4. \A l : l \in lapse[s] => l \in lapse'[s]
      <3>1. lapse' = lapse \/ Lapse(s, "no buffer")
        BY <1>4 DEF rx_lock, rx_unlock, ghost
      <3> QED BY <1>0, <3>1 DEF Lapse, LogType
    <2>5. ~rx_size /\ ~rx_read
      <3>1. rx_lock => rx.pc = "lock"
        BY DEF rx_lock
      <3>2. rx_size => rx.pc = "size"
        BY DEF rx_size
      <3>3. rx_read => rx.pc = "read" /\ rx.left > 0
        BY DEF rx_read
      <3>4. rx_unlock => rx.pc = "unlock" \/ (rx.pc = "read" /\ rx.left = 0)
        BY DEF rx_unlock
      <3> QED BY <1>4, <3>1, <3>2, <3>3, <3>4
    <2>6. buffered'[s] = buffered[s] /\ buffered'[s] >= buffered[s]
      BY <1>2, <2>1
    <2> QED BY <1>1, <1>2, <1>3, <2>1, <2>3, <2>4, <2>5, <2>6
  <1>5. CASE rx_read
    <2>1. /\ rx.pc = "read" /\ UNCHANGED <<lock, sizes>>
          /\ (lapse' = lapse \/ Lapse(s, "overflow"))
      BY <1>5 DEF rx_read, slot
    <2>2. lock[s] = RX
      BY <1>0, <2>1 DEF LockHeld
    <2>3. Ahead(s) = 0 /\ Ahead(s)' = 0
      BY <1>0, <2>1, <2>2 DEF Ahead
    <2>4. \A l : l \in lapse[s] => l \in lapse'[s]
      BY <1>0, <2>1 DEF Lapse, LogType
    <2>5. ~rx_size
      BY <2>1 DEF rx_size
    <2>6. buffered'[s] >= buffered[s]
      <3> DEFINE m == Min({rx.left + rx.skip, Chunk, Len(uart)})
                 b == SubSeq(uart, rx.skip + 1, m)
      <3>1. m > 0
        BY <1>5 DEF rx_read
      <3>2. b \in Seq(Element)
        BY <2>1, <3>1, ChunkTaken
      <3>3. buffered' = buffered \/ buffered' = [buffered EXCEPT ![s] = @ + Len(b)]
        BY <1>5 DEF rx_read
      <3> HIDE DEF m, b
      <3>4. Len(b) \in Nat
        BY <3>2
      <3>5. buffered'[s] = buffered[s] \/ buffered'[s] = buffered[s] + Len(b)
        BY <1>0, <3>3 DEF DataType
      <3> QED BY <1>2, <3>4, <3>5
    <2> QED BY <1>1, <1>2, <1>5, <2>1, <2>3, <2>4, <2>5, <2>6
  <1>6. CASE rx_size
    <2>1. /\ rx.pc = "size" /\ UNCHANGED <<lock, buffered>>
          /\ sizes' = [sizes EXCEPT ![s] = Resized(sizes[s], rx.total)] /\ rx' = [rx EXCEPT !.pc = "ready"]
          /\ rx.total > Total(sizes[s]) /\ Len(sizes[s]) >= MaxPackets => Lapse(s, "no packet")
      BY <1>6 DEF rx_size, data, packet_size_update
    <2>2. Ahead(s)' = Ahead(s)
      BY <1>1, <2>1 DEF Ahead
    <2>3. rx.total = buffered[s] + Ahead(s) /\ Total(sizes[s]) <= rx.total
      <3>1. ~Putting(s)
        BY AtRx
      <3> QED BY <2>1, <3>1 DEF Counted, Promised
    <2>4. rx.total \in 0 .. BufSize /\ rx'.pc = "ready"
      BY <1>0, <2>1 DEF RxType
    <2>5. sizes[s] \in Seq(1 .. BufSize) /\ Len(sizes[s]) <= MaxPackets /\ sizes'[s] = Resized(sizes[s], rx.total)
      BY <1>0, <2>1 DEF SlotType
    <2>6. /\ rx.total <= Total(sizes[s]) \/ Len(sizes[s]) < MaxPackets => Total(sizes'[s]) = rx.total
          /\ rx.total > Total(sizes[s]) /\ Len(sizes[s]) >= MaxPackets => sizes'[s] = sizes[s]
          /\ Total(sizes[s]) \in Nat /\ Len(sizes[s]) \in Nat /\ rx.total \in Nat
      BY <2>4, <2>5, ResizedFacts, ConstantTypes
    <2>a. buffered'[s] = buffered[s] /\ buffered'[s] >= buffered[s]
      <3>1. buffered' = buffered
        BY <2>1
      <3> QED BY <1>2, <3>1
    <2>7. CASE rx.total > Total(sizes[s]) /\ Len(sizes[s]) >= MaxPackets
      <3>1. "no packet" \in lapse'[s]
        BY <1>0, <2>1, <2>7 DEF Lapse, LogType
      <3>2. Total(sizes'[s]) <= buffered[s] + Ahead(s) /\ Total(sizes'[s]) >= Total(sizes[s])
        <4>1. sizes'[s] = sizes[s]
          BY <2>6, <2>7
        <4> QED BY <2>3, <2>6, <4>1
      <3> QED BY <1>1, <1>2, <1>3, <1>6, <2>1, <2>2, <2>4, <2>a, <3>1, <3>2
    <2>8. CASE ~(rx.total > Total(sizes[s]) /\ Len(sizes[s]) >= MaxPackets)
      <3>1. rx.total <= Total(sizes[s]) \/ Len(sizes[s]) < MaxPackets
        BY <2>6, <2>8, ConstantTypes
      <3>2. Total(sizes'[s]) = rx.total
        BY <2>6, <3>1
      <3>3. Total(sizes'[s]) = buffered[s] + Ahead(s) /\ Total(sizes'[s]) >= Total(sizes[s])
        BY <2>3, <2>6, <3>2
      <3> QED BY <1>1, <1>2, <1>3, <1>6, <2>1, <2>2, <2>4, <2>a, <3>3
    <2> QED BY <2>7, <2>8
  <1> QED BY <1>3, <1>4, <1>5, <1>6 DEF RxStep

(* Who is at close_put on a socket. *)
LEMMA PuttingChange ==
  ASSUME TInv, Use, [Next]_vars, NEW s \in Socket
  PROVE  /\ Putting(s)' => Putting(s) \/ \E t \in Thread : close_lock(t) /\ on[t] = s
         /\ Putting(s) => Putting(s)' \/ \E t \in Thread : close_put(t) /\ on[t] = s
  <1>0. AppType /\ None \notin Socket
    BY SocketAssumption DEF TInv
  <1>1. CASE UNCHANGED <<pc, on>>
    BY <1>1 DEF Putting
  <1>2. CASE modem_rx \/ modem \/ UNCHANGED vars
    <2>1. UNCHANGED <<pc, on>>
      BY <1>2 DEF modem_rx, rx_process, rx_discard, on_urc_receive, rx_lock, rx_read, rx_retry, rx_unlock,
         rx_size, rx_ready, modem, modem_open, modem_receive, modem_byte, vars, app
    <2> QED BY <1>1, <2>1
  <1>3. ASSUME NEW t \in Thread, close_put(t)
        PROVE  /\ Putting(s)' => Putting(s)
               /\ Putting(s) => Putting(s)' \/ on[t] = s
    <2>1. Putting(s)' => Putting(s)
      <3>1. ASSUME NEW u \in Thread, on'[u] = s, pc'[u] = "close_put" PROVE on[u] = s /\ pc[u] = "close_put"
        BY <1>0, <1>3, <3>1, OthersAtPut
      <3> QED BY <3>1 DEF Putting
    <2>2. ASSUME NEW u \in Thread, on[u] = s, pc[u] = "close_put", on[t] # s PROVE on'[u] = s /\ pc'[u] = "close_put"
      BY <1>0, <1>3, <2>2, OthersAtPut
    <2> QED BY <2>1, <2>2 DEF Putting
  <1>4. ASSUME NEW t \in Thread, Call(t) \/ Step(t), ~close_put(t)
        PROVE  /\ Putting(s)' => Putting(s) \/ (close_lock(t) /\ on[t] = s)
               /\ Putting(s) => Putting(s)'
    <2>1. \A u \in Thread : u # t => pc'[u] = pc[u] /\ on'[u] = on[u]
      BY <1>4, OthersStay
    <2>2. pc[t] # "close_put"
      BY <1>0, <1>4 DEF Call, Step, socket_init, recv_lock, recv_size, close_lock, socket_get, close, recvfrom,
         recv_flag, recv_wait, recv_next, recv_short, recv_more, close_modem
    <2>3. ~close_lock(t) => pc'[t] # "close_put"
      BY <1>0, <1>4 DEF Call, Step, socket_init, recv_lock, recv_size, socket_get, close, recvfrom,
         recv_flag, recv_wait, recv_next, recv_short, recv_more, close_modem, Goto, Done, AppType
    <2>4. close_lock(t) => on'[t] = on[t]
      BY DEF close_lock
    <2> QED BY <2>1, <2>2, <2>3, <2>4 DEF Putting
  <1> QED BY <1>2, <1>3, <1>4 DEF Next

LEMMA CleanKept ==
  ASSUME orphaned' = {}, TInv, Use, Promised, Counted, [Next]_vars
  PROVE  Clean'
  <1>0. /\ AppType /\ DataType /\ SlotType /\ RxType /\ WireType /\ None \notin Socket /\ None \notin Thread
        /\ RX \notin Thread /\ Linked /\ Clean /\ Together
    BY SocketAssumption, OwnerAssumption DEF TInv, Use
  <1> SUFFICES ASSUME NEW s \in Socket
               PROVE  /\ ~link'[s] => \/ rx_buf'[s] = None /\ sizes'[s] = <<>>
                                      \/ \E t \in Thread : on'[t] = s /\ pc'[t] \in {"close_lock", "close_put"}
                      /\ Putting(s)' => rx_buf'[s] = None /\ lock'[s] = None
    BY DEF Clean, Putting
  <1>1. Putting(s) => rx_buf[s] = None /\ lock[s] = None /\ ~link[s]
    BY <1>0 DEF Putting, Clean, Linked
  <1>2. CASE RxStep /\ rx.s = s
    <2>1. link[s] /\ ~Putting(s) /\ UNCHANGED <<link, pc, on>>
      BY <1>2, AtRx, AfterRx
    <2> QED BY <1>2, <2>1 DEF Putting
  <1>3. ASSUME NEW t \in Thread, socket_init(t), on[t] = s
        PROVE  rx_buf'[s] = None /\ sizes'[s] = <<>> /\ lock'[s] = None
    BY <1>3, AfterInit
  <1>4. ASSUME NEW t \in Thread, recv_lock(t), on[t] = s
        PROVE  /\ ~Putting(s)'
               /\ ~link'[s] => \E u \in Thread : on'[u] = s /\ pc'[u] \in {"close_lock", "close_put"}
    <2>1. rx_buf[s] # None /\ ~Putting(s) /\ UNCHANGED <<link, on>>
      BY <1>4, AfterTake
    <2>2. pc'[t] = "recv_size" /\ \A u \in Thread : u # t => pc'[u] = pc[u]
      BY <1>4, AfterTake
    <2>3. \A u \in Thread : on[u] = s /\ pc[u] \in {"close_lock", "close_put"} => pc'[u] = pc[u]
      BY <1>4, <2>2 DEF recv_lock
    <2> QED BY <1>0, <2>1, <2>2, <2>3 DEF Putting, Clean
  <1>5. ASSUME NEW t \in Thread, recv_size(t), on[t] = s
        PROVE  /\ ~Putting(s)'
               /\ ~link'[s] => \/ rx_buf'[s] = None /\ sizes'[s] = <<>>
                               \/ \E u \in Thread : on'[u] = s /\ pc'[u] \in {"close_lock", "close_put"}
    <2>1. ~Putting(s) /\ UNCHANGED <<link, on, rx_buf>> /\ (sizes[s] = <<>> => sizes'[s] = <<>>)
      BY <1>5, AfterCount
    <2>2. pc'[t] = "recv_more" /\ \A u \in Thread : u # t => pc'[u] = pc[u]
      BY <1>5, AfterCount
    <2>3. \A u \in Thread : on[u] = s /\ pc[u] \in {"close_lock", "close_put"} => pc'[u] = pc[u]
      BY <1>5, <2>2 DEF recv_size
    <2> QED BY <1>0, <2>1, <2>2, <2>3 DEF Putting, Clean
  <1>6. ASSUME NEW t \in Thread, close_lock(t), on[t] = s
        PROVE  /\ rx_buf'[s] = None /\ lock'[s] = None
               /\ \E u \in Thread : on'[u] = s /\ pc'[u] \in {"close_lock", "close_put"}
    BY <1>6, AfterFree
  <1>7. ASSUME NEW t \in Thread, close_put(t), on[t] = s
        PROVE  rx_buf'[s] = None /\ lock'[s] = None /\ sizes'[s] = <<>>
    BY <1>7, AfterPut
  <1>8. CASE Same(s)
    <2>1. Putting(s)' => rx_buf'[s] = None /\ lock'[s] = None
      BY <1>1, <1>6, <1>8, PuttingChange DEF Same
    <2>2. CASE link'[s]
      BY <2>1, <2>2
    <2>3. CASE ~link'[s] /\ link[s]
      <3>1. PICK t \in Thread : close_modem(t) /\ on[t] = s
        BY <2>3, LinkChange
      <3>2. on'[t] = s /\ pc'[t] = "close_lock"
        BY <1>0, <3>1 DEF close_modem, Goto, AppType
      <3> QED BY <2>1, <3>2
    <2>4. CASE ~link'[s] /\ ~link[s]
      <3>1. CASE rx_buf[s] = None /\ sizes[s] = <<>>
        BY <1>8, <2>1, <3>1 DEF Same
      <3>2. ASSUME NEW t \in Thread, on[t] = s, pc[t] \in {"close_lock", "close_put"}
            PROVE  \/ rx_buf'[s] = None /\ sizes'[s] = <<>>
                   \/ \E u \in Thread : on'[u] = s /\ pc'[u] \in {"close_lock", "close_put"}
        <4>1. ASSUME NEW u \in Thread, close_put(u), on[u] = s
              PROVE  rx_buf'[s] = None /\ sizes'[s] = <<>>
          BY <1>7, <4>1
        <4>2. ASSUME NEW u \in Thread, close_put(u), on[u] # s
              PROVE  on'[t] = s /\ pc'[t] \in {"close_lock", "close_put"}
          BY <3>2, <4>2, OthersAtPut
        <4>3. ASSUME NEW u \in Thread, Call(u) \/ Step(u), ~close_put(u)
              PROVE  on'[t] = s /\ pc'[t] \in {"close_lock", "close_put"}
          <5>1. CASE u # t
            BY <3>2, <4>3, <5>1, OthersStay
          <5>2. CASE u = t
            BY <1>0, <3>2, <4>3, <5>2, OwnStep DEF Reader, socket_get, close, recvfrom, Call, Step, socket_init,
               recv_lock, recv_size, close_lock, recv_flag, recv_wait, recv_next, recv_short, recv_more, close_modem
          <5> QED BY <5>1, <5>2
        <4>4. CASE modem_rx \/ modem \/ UNCHANGED vars
          <5>1. UNCHANGED <<pc, on>>
            BY <4>4 DEF modem_rx, rx_process, rx_discard, on_urc_receive, rx_lock, rx_read, rx_retry, rx_unlock,
               rx_size, rx_ready, modem, modem_open, modem_receive, modem_byte, vars, app
          <5> QED BY <3>2, <5>1
        <4> QED BY <4>1, <4>2, <4>3, <4>4 DEF Next
      <3> QED BY <1>0, <2>1, <2>4, <3>1, <3>2 DEF Clean
    <2> QED BY <1>0, <2>2, <2>3, <2>4
  <1> QED BY <1>2, <1>3, <1>4, <1>5, <1>6, <1>7, <1>8, OneSocket DEF ThreadStep

LEMMA Numbers ==
  ASSUME TInv, NEW s \in Socket
  PROVE  Ahead(s) \in Nat /\ buffered[s] \in Nat /\ Total(sizes[s]) \in Nat
  <1>1. Ahead(s) \in Nat
    BY ConstantTypes DEF TInv, AppType, Ahead
  <1>2. buffered[s] \in Nat
    <2>1. buffered[s] \in 0 .. BufSize
      BY DEF TInv, DataType
    <2> QED BY <2>1, ConstantTypes
  <1>3. Total(sizes[s]) \in Nat
    BY NextPacket DEF TInv
  <1> QED BY <1>1, <1>2, <1>3

LEMMA NumbersAfter ==
  ASSUME TInv, [Next]_vars, NEW s \in Socket
  PROVE  Ahead(s)' \in Nat /\ buffered'[s] \in Nat /\ Total(sizes'[s]) \in Nat
  <1>1. TInv'
    BY TypeStep
  <1> DEFINE X == TInv => Ahead(s) \in Nat /\ buffered[s] \in Nat /\ Total(sizes[s]) \in Nat
  <1>2. X'
    BY Numbers, PTL
  <1> QED BY <1>1, <1>2

(* What was logged on a connection stays logged. *)
LEMMA LapseStays ==
  ASSUME TInv, [Next]_vars, NEW s \in Socket, ~modem_open(s), NEW l \in lapse[s]
  PROVE  l \in lapse'[s]
  <1>0. LogType
    BY DEF TInv
  <1>1. CASE UNCHANGED lapse
    BY <1>1
  <1>2. CASE modem_rx
    <2>1. UNCHANGED lapse \/ \E r, k : Lapse(r, k)
      BY <1>2 DEF modem_rx, rx_process, rx_discard, on_urc_receive, rx_lock, rx_read, rx_retry, rx_unlock, rx_size,
         rx_ready, ghost
    <2>2. ASSUME NEW r, NEW k, Lapse(r, k) PROVE l \in lapse'[s]
      BY <1>0, <2>2 DEF Lapse, LogType
    <2> QED BY <1>1, <2>1, <2>2
  <1>3. ASSUME NEW r \in Socket, modem_open(r) PROVE l \in lapse'[s]
    <2>1. r # s
      BY <1>3
    <2> QED BY <1>0, <1>3, <2>1 DEF modem_open, LogType
  <1>4. CASE ~modem_rx /\ ~(\E r \in Socket : modem_open(r))
    <2>1. UNCHANGED lapse
      BY <1>4 DEF Next, modem, modem_receive, modem_byte, vars, Call, Step, socket_init, recv_lock,
         recv_size, close_lock, socket_get, close, recvfrom, recv_flag, recv_wait, recv_next, recv_short,
         recv_more, close_modem, close_put, ghost
    <2> QED BY <1>1, <2>1
  <1> QED BY <1>2, <1>3, <1>4

LEMMA SumsKept ==
  ASSUME TInv, Use, Sums, [Next]_vars, orphaned' = {}
  PROVE  Promised' /\ Settled'
  <1>0. Promised /\ Counted /\ Settled /\ LogType /\ Linked
    BY DEF Sums, TInv, Use
  <1> DEFINE P(s) == Putting(s)' \/ Total(sizes'[s]) <= buffered'[s] + Ahead(s)'
             R(s) == \/ rx'.s = s /\ rx'.pc \in {"read", "unlock", "size"}
                     \/ Total(sizes'[s]) = buffered'[s] + Ahead(s)'
                     \/ "no packet" \in lapse'[s]
                     \/ Putting(s)'
  <1> SUFFICES ASSUME NEW s \in Socket PROVE P(s) /\ R(s)
    BY DEF Promised, Settled
  <1>1. Ahead(s) \in Nat /\ buffered[s] \in Nat /\ Total(sizes[s]) \in Nat
    BY Numbers
  <1>2. Ahead(s)' \in Nat /\ buffered'[s] \in Nat /\ Total(sizes'[s]) \in Nat
    BY NumbersAfter
  <1>3. \/ Putting(s)
        \/ Total(sizes[s]) <= buffered[s] + Ahead(s)
    BY <1>0 DEF Promised
  <1>4. \/ rx.s = s /\ rx.pc \in {"read", "unlock", "size"}
        \/ Total(sizes[s]) = buffered[s] + Ahead(s)
        \/ "no packet" \in lapse[s]
        \/ Putting(s)
    BY <1>0 DEF Settled
  <1>5. ASSUME NEW t \in Thread, socket_init(t), on[t] = s PROVE P(s) /\ R(s)
    <2>1. sizes'[s] = <<>> /\ buffered'[s] = 0 /\ lock'[s] = None
      BY <1>5, AfterInit
    <2>2. Ahead(s)' = 0
      BY <2>1, OwnerAssumption DEF Ahead
    <2>3. Total(sizes'[s]) = 0
      BY <2>1, TotalEmpty
    <2>4. Total(sizes'[s]) = buffered'[s] + Ahead(s)'
      BY <2>1, <2>2, <2>3
    <2> QED BY <1>2, <2>4
  <1>6. ASSUME NEW t \in Thread, recv_lock(t), on[t] = s PROVE P(s) /\ R(s)
    <2>1. /\ ~Putting(s) /\ sizes'[s] = sizes[s] /\ Ahead(s) = 0 /\ UNCHANGED <<rx, lapse>>
          /\ to_read[t] \in Nat /\ to_read[t] <= buffered[s] /\ buffered'[s] = buffered[s] - to_read[t]
      BY <1>6, AfterTake
    <2>2. Ahead(s)' = to_read[t]
      <3>1. lock'[s] = t /\ to_read' = to_read
        BY <1>6, AfterTake
      <3> QED BY <3>1 DEF Ahead
    <2>3. buffered'[s] + Ahead(s)' = buffered[s] + Ahead(s)
      BY ONLY <1>1, <2>1, <2>2
    <2> QED BY <1>3, <1>4, <2>1, <2>3
  <1>7. ASSUME NEW t \in Thread, recv_size(t), on[t] = s PROVE P(s) /\ R(s)
    <2>1. /\ ~Putting(s) /\ UNCHANGED <<rx, lapse, buffered>>
          /\ Ahead(s) = to_read[t] /\ to_read[t] \in Nat
          /\ Total(sizes'[s]) = IF Total(sizes[s]) > to_read[t] THEN Total(sizes[s]) - to_read[t] ELSE 0
      BY <1>7, AfterCount
    <2>2. Ahead(s)' = 0
      <3>1. lock'[s] = None
        BY <1>7, AfterCount
      <3> QED BY <3>1, OwnerAssumption DEF Ahead
    <2> DEFINE T == Total(sizes[s])
               U == Total(sizes'[s])
               a == Ahead(s)
    <2>3. T \in Nat /\ a \in Nat /\ U = (IF T > a THEN T - a ELSE 0) /\ buffered[s] \in Nat
      BY <1>1, <2>1
    <2>4. T <= buffered[s] + a
      BY <1>3, <2>1
    <2>5. T = buffered[s] + a => U = buffered[s]
      <3> HIDE DEF T, U, a
      <3> QED BY ONLY <2>3
    <2>6. U <= buffered[s]
      <3> HIDE DEF T, U, a
      <3> QED BY ONLY <2>3, <2>4
    <2>7. buffered'[s] + Ahead(s)' = buffered[s]
      BY <1>1, <2>1, <2>2
    <2>8. P(s)
      BY <2>6, <2>7
    <2>9. R(s)
      BY <1>4, <2>1, <2>5, <2>7
    <2> QED BY <2>8, <2>9
  <1>8. ASSUME NEW t \in Thread, close_lock(t), on[t] = s PROVE P(s) /\ R(s)
    <2>1. pc'[t] = "close_put" /\ on'[t] = s
      BY <1>8, AfterFree
    <2> QED BY <2>1 DEF Putting
  <1>9. ASSUME NEW t \in Thread, close_put(t), on[t] = s PROVE P(s) /\ R(s)
    <2>1. sizes'[s] = <<>> /\ buffered'[s] = 0 /\ lock'[s] = None
      BY <1>9, AfterPut
    <2>2. Ahead(s)' = 0
      BY <2>1, OwnerAssumption DEF Ahead
    <2>3. Total(sizes'[s]) = 0
      BY <2>1, TotalEmpty
    <2>4. Total(sizes'[s]) = buffered'[s] + Ahead(s)'
      BY <2>1, <2>2, <2>3
    <2> QED BY <1>2, <2>4
  <1>10. CASE RxStep /\ rx.s = s
    <2>0. ~Putting(s)
      BY <1>10, AtRx
    <2>1. /\ Ahead(s)' = Ahead(s)
          /\ buffered'[s] >= buffered[s]
          /\ ~rx_size => sizes' = sizes /\ Ahead(s) = 0 /\ \A l : l \in lapse[s] => l \in lapse'[s]
          /\ ~rx_read => buffered'[s] = buffered[s]
          /\ rx_size => \/ Total(sizes'[s]) = buffered[s] + Ahead(s)
                        \/ /\ Total(sizes'[s]) <= buffered[s] + Ahead(s)
                           /\ "no packet" \in lapse'[s]
      BY <1>0, <1>10, AfterRx
    <2>2. CASE rx_size
      <3>1. ~rx_read
        BY <2>2 DEF rx_size, rx_read
      <3>2. buffered'[s] + Ahead(s)' = buffered[s] + Ahead(s)
        BY <2>1, <3>1
      <3>3. CASE Total(sizes'[s]) = buffered[s] + Ahead(s)
        <4>1. Total(sizes'[s]) = buffered'[s] + Ahead(s)'
          BY <3>2, <3>3
        <4> QED BY <1>2, <4>1
      <3>4. CASE Total(sizes'[s]) <= buffered[s] + Ahead(s) /\ "no packet" \in lapse'[s]
        <4>1. Total(sizes'[s]) <= buffered'[s] + Ahead(s)'
          BY <3>2, <3>4
        <4> QED BY <3>4, <4>1
      <3> QED BY <2>1, <2>2, <3>3, <3>4
    <2>3. CASE ~rx_size
      <3>1. Total(sizes'[s]) <= buffered'[s] + Ahead(s)'
        <4>1. sizes'[s] = sizes[s] /\ Ahead(s)' = Ahead(s)
          BY <2>1, <2>3
        <4>2. Total(sizes[s]) <= buffered[s] + Ahead(s)
          BY <1>3, <2>0
        <4>3. Total(sizes'[s]) = Total(sizes[s]) /\ buffered'[s] >= buffered[s]
          BY <2>1, <4>1
        <4> QED BY ONLY <1>1, <1>2, <4>1, <4>2, <4>3
      <3>2. CASE rx_read
        <4>1. rx'.s = s /\ rx'.pc \in {"read", "unlock"}
          BY <1>10, <3>2 DEF rx_read, TInv, RxType
        <4> QED BY <3>1, <4>1
      <3>3. CASE rx_lock
        <4>1. rx.pc = "lock"
          BY <3>3 DEF rx_lock
        <4>2. ~rx_read
          BY <4>1 DEF rx_read
        <4> QED BY <1>4, <2>0, <2>1, <2>3, <3>1, <4>1, <4>2
      <3>4. CASE rx_unlock
        <4>1. buffered[s] = 0 \/ (buffered[s] > 0 /\ rx' = [rx EXCEPT !.pc = "size", !.total = buffered[s]])
          BY <1>1, <1>10, <3>4 DEF rx_unlock
        <4>2. CASE buffered[s] > 0 /\ rx' = [rx EXCEPT !.pc = "size", !.total = buffered[s]]
          <5>1. rx'.s = s /\ rx'.pc = "size"
            BY <1>10, <4>2 DEF TInv, RxType
          <5> QED BY <3>1, <5>1
        <4>3. CASE buffered[s] = 0
          <5>1. ~rx_read
            BY <3>4 DEF rx_unlock, rx_read, TInv, RxType
          <5>2. buffered'[s] = 0 /\ Ahead(s)' = 0
            BY <2>1, <2>3, <4>3, <5>1
          <5>3. Total(sizes'[s]) = buffered'[s] + Ahead(s)'
            BY <1>2, <3>1, <5>2
          <5> QED BY <3>1, <5>3
        <4> QED BY <4>1, <4>2, <4>3
      <3> QED BY <1>10, <2>3, <3>2, <3>3, <3>4 DEF RxStep
    <2> QED BY <2>2, <2>3
  <1>11. CASE Same(s) /\ ~(RxStep /\ rx.s = s) /\ ~(\E t \in Thread : ThreadStep(t) /\ on[t] = s)
    <2>1. sizes'[s] = sizes[s] /\ buffered'[s] = buffered[s] /\ Ahead(s)' = Ahead(s)
      BY <1>11, SameAhead DEF Same
    <2>2. Putting(s) => Putting(s)'
      BY <1>11, PuttingChange DEF ThreadStep
    <2>3. P(s)
      BY <1>3, <2>1, <2>2
    <2>4. R(s)
      <3>1. CASE rx.s = s /\ rx.pc \in {"read", "unlock", "size"}
        <4>1. rx'.s = s /\ rx'.pc \in {"read", "unlock", "size"}
          <5>1. UNCHANGED rx \/ rx_retry
            BY <1>11, <3>1 DEF Next, RxStep, modem_rx, rx_process, rx_discard, on_urc_receive, rx_ready, modem,
               modem_open, modem_receive, modem_byte, vars, Call, Step, socket_init, recv_lock, recv_size, close_lock,
               socket_get, close, recvfrom, recv_flag, recv_wait, recv_next, recv_short, recv_more, close_modem,
               close_put
          <5>2. rx_retry => rx'.s = rx.s /\ rx'.pc \in {"read", "unlock"}
            BY DEF rx_retry, TInv, RxType
          <5> QED BY <3>1, <5>1, <5>2
        <4> QED BY <4>1
      <3>2. CASE "no packet" \in lapse[s]
        <4>1. CASE modem_open(s)
          <5>1. /\ allocated[s] /\ ~link[s] /\ \A t \in Thread : on[t] # s
            BY <4>1 DEF modem_open
          <5>2. rx_buf[s] = None /\ sizes[s] = <<>>
            BY <5>1 DEF Use, Clean
          <5>3. buffered[s] = 0
            BY <5>2 DEF TInv, DataType, Bytes
          <5>4. Ahead(s) = 0
            BY <5>1 DEF Use, LockHeld, Ahead
          <5>5. Total(sizes[s]) = 0
            BY <5>2, TotalEmpty
          <5>6. Total(sizes'[s]) = buffered'[s] + Ahead(s)'
            BY <2>1, <5>3, <5>4, <5>5
          <5> QED BY <5>6
        <4>2. CASE ~modem_open(s)
          <5>1. "no packet" \in lapse'[s]
            BY <3>2, <4>2, LapseStays
          <5> QED BY <5>1
        <4> QED BY <4>1, <4>2
      <3> QED BY <1>4, <2>1, <2>2, <3>1, <3>2
    <2> QED BY <2>3, <2>4
  <1> QED BY <1>5, <1>6, <1>7, <1>8, <1>9, <1>10, <1>11, OneSocket DEF ThreadStep

LEMMA CountedKept ==
  ASSUME TInv, Use, Sums, [Next]_vars
  PROVE  Counted'
  <1>0. /\ AppType /\ DataType /\ RxType /\ None \notin Socket /\ None \notin Thread /\ Counted
    BY SocketAssumption, OwnerAssumption DEF TInv, Use, Sums
  <1> SUFFICES ASSUME rx'.pc = "size" PROVE rx'.total = buffered'[rx'.s] + Ahead(rx.s)'
    BY DEF Counted
  <1>1. CASE rx_unlock
    <2> DEFINE s == rx.s
    <2>1. rx' = [rx EXCEPT !.pc = "size", !.total = buffered[s]] /\ Released(s)
          /\ buffered' = buffered /\ rx.pc \in {"read", "unlock"}
      BY <1>1 DEF rx_unlock, Idle
    <2>2. s \in Socket /\ rx'.s = s /\ rx'.total = buffered[s]
      BY <1>0, <2>1 DEF RxType
    <2>3. lock'[rx'.s] = None
      <3>1. lock[s] = RX
        BY <2>1, <2>2 DEF Use, LockHeld
      <3> QED BY <1>0, <2>1, <2>2, <3>1 DEF DataType, Released
    <2>4. Ahead(rx.s)' = 0
      BY <1>0, <2>3 DEF Ahead
    <2>5. buffered[s] \in Nat
      BY <2>2, Numbers
    <2> QED BY <2>1, <2>2, <2>4, <2>5
  <1>2. CASE ~rx_unlock
    <2>1. UNCHANGED rx
      <3>1. CASE modem_rx
        <4>1. \/ rx' = rx \/ rx' = Idle
              \/ rx'.pc = "lock"
              \/ rx.pc \in {"lock", "read"} /\ rx'.pc \in {"read", "unlock"}
              \/ rx' = [rx EXCEPT !.pc = "ready"]
          <5>1. CASE rx_process \/ rx_discard \/ rx_ready
            BY <5>1 DEF rx_process, rx_discard, rx_ready
          <5>2. CASE on_urc_receive
            BY <5>2 DEF on_urc_receive, Idle
          <5>3. CASE rx_lock
            <6>1. rx.pc = "lock" /\ (rx' = Idle \/ rx' = [rx EXCEPT !.pc = "read"])
              BY <5>3 DEF rx_lock
            <6> QED BY <1>0, <6>1 DEF RxType
          <5>4. CASE rx_read \/ rx_retry
            BY <1>0, <5>4 DEF rx_read, rx_retry, RxType
          <5>5. CASE rx_size
            BY <5>5 DEF rx_size
          <5> QED BY <1>2, <3>1, <5>1, <5>2, <5>3, <5>4, <5>5 DEF modem_rx
        <4>2. rx' # Idle
          BY DEF Idle
        <4>3. rx' # [rx EXCEPT !.pc = "ready"]
          BY <1>0 DEF RxType
        <4> QED BY <4>1, <4>2, <4>3
      <3>2. CASE ~modem_rx
        BY <3>2 DEF Next, modem, modem_open, modem_receive, modem_byte, vars, Call, Step, socket_init,
           recv_lock, recv_size, close_lock, socket_get, close, recvfrom, recv_flag, recv_wait, recv_next, recv_short,
           recv_more, close_modem, close_put
      <3> QED BY <3>1, <3>2
    <2>0. rx.s \in Socket /\ rx.pc = "size"
      BY <1>0, <2>1 DEF RxType
    <2>s. PICK s \in Socket : rx.s = s
      BY <2>0
    <2>2. s \in Socket /\ rx.pc = "size" /\ rx'.s = s
      BY <2>0, <2>1, <2>s
    <2>3. rx.total = buffered[s] + Ahead(s)
      BY <1>0, <2>2, <2>s DEF Counted
    <2>4. Ahead(rx.s)' = IF lock'[s] \in Thread THEN to_read'[lock'[s]] ELSE 0
      BY <2>2 DEF Ahead
    <2>5. buffered[s] \in Nat /\ Ahead(s) \in Nat
      BY <2>2, Numbers
    <2>6. CASE Same(s)
      <3>1. Ahead(s)' = Ahead(s) /\ buffered'[s] = buffered[s]
        BY <2>2, <2>6, SameAhead DEF Same
      <3>2. Ahead(s)' = Ahead(rx.s)'
        BY <2>4 DEF Ahead
      <3> QED BY <2>1, <2>2, <2>3, <3>1, <3>2
    <2>7. ASSUME NEW t \in Thread, ThreadStep(t), on[t] = s PROVE recv_lock(t)
      <3>1. rx.s = s
        BY <2>s
      <3>2. pc[t] \notin {"socket_init", "close_lock", "close_put"}
        BY <2>2, <2>7, <3>1, AtRx
      <3> QED BY <2>2, <2>7, <3>2 DEF ThreadStep, socket_init, recv_size, close_lock, close_put
    <2>8. ASSUME NEW t \in Thread, recv_lock(t), on[t] = s PROVE rx.total = buffered'[s] + Ahead(s)'
      <3>1. /\ Ahead(s) = 0 /\ to_read[t] \in Nat /\ to_read[t] <= buffered[s]
            /\ buffered'[s] = buffered[s] - to_read[t] /\ lock'[s] = t /\ to_read' = to_read
        BY <2>8, AfterTake
      <3>2. Ahead(s)' = to_read[t]
        BY <3>1 DEF Ahead
      <3> QED BY ONLY <2>3, <2>5, <3>1, <3>2
    <2>9. CASE RxStep
      <3>1. rx.s = s
        BY <2>s
      <3>2. rx_size \/ rx_unlock
        BY <2>2, <2>9 DEF RxStep, rx_lock, rx_read
      <3>3. rx'.pc = "ready"
        BY <1>0, <1>2, <3>2 DEF rx_size, RxType
      <3> QED BY <3>3
    <2>10. Ahead(s)' = Ahead(rx.s)'
      BY <2>4 DEF Ahead
    <2> QED BY <2>1, <2>2, <2>6, <2>7, <2>8, <2>9, <2>10, OneSocket
  <1> QED BY <1>1, <1>2

LEMMA TakenKept ==
  ASSUME TInv, Use, Sums, [Next]_vars
  PROVE  Taken'
  <1>0. /\ AppType /\ DataType /\ RxType /\ SlotType /\ None \notin Socket /\ None \notin Thread
        /\ Taken /\ Promised /\ Counted /\ Together /\ LockHeld /\ link \in [Socket -> BOOLEAN]
    BY SocketAssumption, OwnerAssumption DEF TInv, Use, Sums, WireType
  <1> SUFFICES ASSUME NEW t \in Thread, pc'[t] \in {"recv_lock", "recv_size"}
               PROVE  \/ to_read'[t] <= Total(sizes'[on'[t]])
                      \/ pc'[t] = "recv_lock" /\ ~link'[on'[t]] /\ rx_buf'[on'[t]] = None
    BY DEF Taken
  <1> DEFINE s == on[t]
             Goal == \/ to_read'[t] <= Total(sizes'[on'[t]])
                     \/ pc'[t] = "recv_lock" /\ ~link'[on'[t]] /\ rx_buf'[on'[t]] = None
  <1>1. ASSUME NEW n \in 1 .. MaxPayload, recv_next(t, n) PROVE Goal
    <2> DEFINE k == next_packet_size(s)
               m == Min({k, n})
    <2>1. s \in Socket /\ n \in Nat
      BY <1>0, <1>1, ConstantTypes DEF recv_next, AppType
    <2>2. k \in Nat /\ k <= Total(sizes[s]) /\ Total(sizes[s]) \in Nat
      BY <1>0, <2>1, NextPacket, ConstantTypes
    <2>3. UNCHANGED <<sizes, on>> /\ to_read' = [to_read EXCEPT ![t] = m]
      BY <1>0, <1>1 DEF recv_next, Done, Goto, AppType, slot
    <2> HIDE DEF k
    <2>4. m \in {k, n} /\ m <= k
      BY <2>1, <2>2, MinOfTwo
    <2> HIDE DEF m
    <2>5. to_read'[t] = m
      BY <1>0, <2>3 DEF AppType
    <2>6. m <= Total(sizes[s])
      BY <2>1, <2>2, <2>4
    <2> QED BY <2>3, <2>5, <2>6
  <1>2. CASE recv_lock(t)
    <2>1. rx_buf[s] # None /\ UNCHANGED <<sizes, on, to_read>> /\ pc[t] = "recv_lock"
      BY <1>2, AfterTake DEF recv_lock
    <2>2. to_read[t] <= Total(sizes[s])
      BY <1>0, <2>1 DEF Taken
    <2> QED BY <2>1, <2>2
  <1>3. CASE ~recv_lock(t) /\ ~(\E n \in 1 .. MaxPayload : recv_next(t, n))
    <2>1. pc[t] = pc'[t] /\ on'[t] = on[t] /\ to_read'[t] = to_read[t]
      <3>1. CASE Call(t) \/ Step(t)
        BY <1>0, <1>3, <3>1 DEF Call, Step, socket_init,
           recv_size, close_lock, socket_get, close, recvfrom, recv_flag, recv_wait, recv_short,
           recv_more, close_modem, close_put, Goto, Done, AppType
      <3>2. ASSUME NEW u \in Thread, u # t, Call(u) \/ Step(u)
            PROVE  pc[t] = pc'[t] /\ on'[t] = on[t] /\ to_read'[t] = to_read[t]
        <4>1. CASE close_put(u)
          BY <3>2, <4>1, OthersAtPut
        <4>2. CASE ~close_put(u)
          BY <3>2, <4>2, OthersStay
        <4> QED BY <4>1, <4>2
      <3>3. CASE modem_rx \/ modem \/ UNCHANGED vars
        <4>1. UNCHANGED <<pc, on, to_read>>
          BY <3>3 DEF modem_rx, rx_process, rx_discard, on_urc_receive, rx_lock, rx_read, rx_retry, rx_unlock,
             rx_size, rx_ready, modem, modem_open, modem_receive, modem_byte, vars, app
        <4> QED BY <4>1
      <3> QED BY <3>1, <3>2, <3>3 DEF Next
    <2>2. s \in Socket /\ to_read[t] \in Nat
      BY <1>0, <2>1, ConstantTypes DEF AppType
    <2>3. to_read[t] <= Total(sizes[s]) \/ (pc[t] = "recv_lock" /\ ~link[s] /\ rx_buf[s] = None)
      BY <1>0, <2>1 DEF Taken
    <2>4. ~link[s] => ~link'[s]
      <3>1. ~modem_open(s)
        BY DEF modem_open
      <3> QED BY <2>2, <3>1, LinkChange
    <2> HIDE DEF s
    <2>5. CASE Same(s)
      BY <2>1, <2>3, <2>4, <2>5 DEF Same, s
    <2>6. ASSUME NEW u \in Thread, ThreadStep(u), on[u] = s PROVE Goal
      <3>1. u # t
        <4>1. recv_size(t) => pc'[t] = "recv_more"
          BY AfterCount
        <4> QED BY <1>3, <2>1, <2>6, <4>1 DEF ThreadStep, socket_init, close_lock, close_put
      <3>2. CASE socket_init(u)
        BY <2>6, <3>1, <3>2, AfterInit DEF s
      <3>3. CASE recv_lock(u) \/ recv_size(u)
        BY <1>0, <2>1, <2>6, <3>1, <3>3 DEF Together, recv_lock, recv_size, Closing, Reader, s
      <3>4. CASE close_lock(u)
        <4>1. sizes' = sizes /\ rx_buf'[s] = None
          BY <2>6, <3>4, AfterFree
        <4> QED BY <2>1, <2>3, <2>4, <4>1 DEF s
      <3>5. CASE close_put(u)
        <4>1. rx_buf' = rx_buf /\ rx_buf[s] = None /\ ~link[s] /\ lock[s] = None
          BY <2>6, <3>5, AfterPut
        <4>2. pc[t] = "recv_lock"
          BY <1>0, <2>1, <2>2, <4>1 DEF LockHeld, s
        <4> QED BY <2>1, <2>4, <4>1, <4>2 DEF s
      <3> QED BY <2>6, <3>2, <3>3, <3>4, <3>5 DEF ThreadStep
    <2>7. CASE RxStep /\ rx.s = s
      <3>1. link[s]
        BY <2>2, <2>7, AtRx
      <3>2. /\ ~rx_size => sizes' = sizes
            /\ rx_size => Total(sizes'[s]) >= Total(sizes[s])
        BY <1>0, <2>2, <2>7, AfterRx
      <3>3. Total(sizes[s]) \in Nat /\ Total(sizes'[s]) \in Nat
        BY <2>2, Numbers, NumbersAfter
      <3>4. Total(sizes'[s]) >= Total(sizes[s])
        <4>1. CASE rx_size
          BY <3>2, <4>1
        <4>2. CASE ~rx_size
          <5>1. sizes' = sizes
            BY <3>2, <4>2
          <5>2. Total(sizes'[s]) = Total(sizes[s])
            BY <5>1
          <5> QED BY ONLY <3>3, <5>2
        <4> QED BY <4>1, <4>2
      <3>5. to_read[t] <= Total(sizes[s])
        BY <2>3, <3>1
      <3>6. to_read[t] <= Total(sizes'[s])
        BY ONLY <2>2, <3>3, <3>4, <3>5
      <3> QED BY <2>1, <3>6 DEF s
    <2> QED BY <2>2, <2>5, <2>6, <2>7, OneSocket
  <1> QED BY <1>1, <1>2, <1>3

-----------------------------------------------------------------------------
(* The account balances: the memset of modem_offload_socket forgets no     *)
(* buffer, for the slot it is for has none.                                *)
LEMMA BalanceKept ==
  ASSUME TInv, Use, Kept, [Next]_vars
  PROVE  Kept'
  <1>1. ASSUME NEW t \in Thread, socket_init(t) PROVE wiped' = wiped
    <2>1. on[t] \in Socket /\ rx_buf[on[t]] = None
      BY <1>1, AfterInit
    <2> QED BY <1>1, <2>1 DEF socket_init
  <1> QED BY <1>1, WipedStays DEF Kept

LEMMA GInit == Init => GInv
  <1> SUFFICES ASSUME Init PROVE GInv
    OBVIOUS
  <1>0. TInv /\ None \notin Socket /\ None \notin Thread /\ RX \notin Thread /\ RX # None
    BY TypeInit, SocketAssumption, OwnerAssumption
  <1> USE DEF Init
  <1>1. Together /\ InUse
    BY DEF Together, InUse, Closing
  <1>2. Linked
    BY <1>0 DEF Linked, Silent, Speaks, Idle
  <1>3. LockHeld /\ Clean
    BY <1>0 DEF LockHeld, Clean, Idle
  <1>4. \A s \in Socket : Total(sizes[s]) = 0 /\ buffered[s] = 0 /\ Ahead(s) = 0
    BY <1>0, TotalEmpty DEF Ahead
  <1>5. Promised /\ Settled
    BY <1>4 DEF Promised, Settled
  <1>6. Counted /\ Taken
    BY DEF Counted, Taken, Idle
  <1>7. Kept
    BY DEF Kept
  <1> QED BY <1>0, <1>1, <1>2, <1>3, <1>5, <1>6, <1>7 DEF GInv, Use, Sums

(* A slot that was orphaned stays in the record. *)
LEMMA OrphansStay ==
  ASSUME [Next]_vars, orphaned' = {}
  PROVE  orphaned = {}
  <1>1. CASE modem_rx
    BY <1>1 DEF modem_rx, rx_process, rx_discard, on_urc_receive, rx_lock, rx_read, rx_retry, rx_unlock, rx_size,
       rx_ready, ghost
  <1>2. CASE modem \/ UNCHANGED vars
    BY <1>2 DEF modem, modem_open, modem_receive, modem_byte, vars, ghost
  <1>3. ASSUME NEW t \in Thread, Call(t) \/ Step(t) PROVE orphaned = {}
    <2>1. CASE close_modem(t)
      <3>1. orphaned \subseteq orphaned'
        BY <2>1 DEF close_modem
      <3> QED BY <3>1
    <2>2. CASE ~close_modem(t)
      <3>1. orphaned' = orphaned
        BY <1>3, <2>2 DEF Call, Step, socket_init, recv_lock, recv_size, close_lock, socket_get, close, recvfrom,
           recv_flag, recv_wait, recv_next, recv_short, recv_more, close_put, ghost
      <3> QED BY <3>1
    <2> QED BY <2>1, <2>2
  <1> QED BY <1>1, <1>2, <1>3 DEF Next

LEMMA GStep ==
  ASSUME GInv, [Next]_vars, orphaned' = {}
  PROVE  GInv'
  <1>0. TInv /\ Use /\ Sums /\ Kept
    BY DEF GInv
  <1>1. TInv'
    BY <1>0, TypeStep
  <1>2. Together' /\ InUse'
    <2>1. CASE \E t \in Thread : Call(t) \/ Step(t)
      BY <1>0, <2>1, TogetherKept, InUseKept DEF Use
    <2>2. CASE modem_rx \/ modem \/ UNCHANGED vars
      <3>1. UNCHANGED <<pc, on, allocated>>
        BY <2>2 DEF modem_rx, rx_process, rx_discard, on_urc_receive, rx_lock, rx_read, rx_retry, rx_unlock,
           rx_size, rx_ready, modem, modem_open, modem_receive, modem_byte, vars, app, slot
      <3> QED BY <1>0, <3>1 DEF Use, Together, InUse
    <2> QED BY <2>1, <2>2 DEF Next
  <1>3. Linked'
    BY <1>0, LinkedKept DEF Use
  <1>4. LockHeld'
    BY <1>0, LockHeldKept
  <1>5. Clean'
    BY <1>0, CleanKept DEF Sums
  <1>6. Sums'
    BY <1>0, SumsKept, CountedKept, TakenKept DEF Sums
  <1>7. Kept'
    BY <1>0, BalanceKept
  <1> QED BY <1>1, <1>2, <1>3, <1>4, <1>5, <1>6, <1>7 DEF GInv, Use

GInvUnlessOrphaned == TInv /\ (orphaned = {} => GInv)

LEMMA Sound == Spec => []GInvUnlessOrphaned
  <1>1. Init => GInvUnlessOrphaned
    BY GInit, TypeInit DEF GInvUnlessOrphaned
  <1>2. GInvUnlessOrphaned /\ [Next]_vars => GInvUnlessOrphaned'
    BY TypeStep, OrphansStay, GStep DEF GInvUnlessOrphaned
  <1> QED BY <1>1, <1>2, PTL DEF Spec

LEMMA GivesBalance == GInvUnlessOrphaned => NoBufferLost
  <1> SUFFICES ASSUME GInvUnlessOrphaned PROVE NoBufferLost
    OBVIOUS
  <1>1. Account + wiped = PoolSize
    BY DEF GInvUnlessOrphaned, TInv, PoolType
  <1>2. ASSUME orphaned = {}
        PROVE  wiped = 0 /\ \A s \in Socket : ~allocated[s] => rx_buf[s] = None /\ sizes[s] = <<>>
    BY <1>2 DEF GInvUnlessOrphaned, GInv, Kept, Use, Linked, Clean, InUse, Closing
  <1> QED BY <1>1, <1>2 DEF NoBufferLost, Account

LEMMA GivesSizes == GInvUnlessOrphaned => SizesAgree
  <1> SUFFICES ASSUME GInv, NEW s \in Socket
               PROVE  /\ buffered[s] = Len(Bytes(s))
                      /\ \A t \in Thread :
                            pc[t] = "recv_lock" /\ on[t] = s => Bytes(s) = <<>> \/ Len(Bytes(s)) >= to_read[t]
                      /\ rx.s # s /\ (\A t \in Thread : on[t] = s => pc[t] \in {"recv_flag", "recv_wait"})
                            => Total(sizes[s]) = buffered[s] \/ "no packet" \in lapse[s]
    BY DEF SizesAgree, GInvUnlessOrphaned
  <1>0. TInv /\ Together /\ LockHeld /\ Clean /\ Promised /\ Settled /\ Taken
    BY DEF GInv, Use, Sums
  <1>1. buffered[s] = Len(Bytes(s))
    BY <1>0 DEF TInv, DataType
  <1>2. Ahead(s) \in Nat /\ buffered[s] \in Nat /\ Total(sizes[s]) \in Nat
    BY <1>0, Numbers
  <1>3. ASSUME NEW t \in Thread, pc[t] = "recv_lock", on[t] = s
        PROVE  Bytes(s) = <<>> \/ Len(Bytes(s)) >= to_read[t]
    <2>1. CASE rx_buf[s] = None
      BY <2>1 DEF Bytes
    <2>2. CASE rx_buf[s] # None
      <3>1. ~Putting(s) /\ to_read[t] <= Total(sizes[s])
        BY <1>0, <1>3, <2>2 DEF Clean, Putting, Taken
      <3>2. lock[s] \notin Thread
        <4>1. ASSUME NEW u \in Thread, lock[s] = u PROVE FALSE
          <5>1. on[u] = s /\ pc[u] = "recv_size"
            BY <1>0, <4>1 DEF LockHeld
          <5> QED BY <1>0, <1>3, <5>1 DEF Together, Closing, Reader
        <4> QED BY <4>1
      <3>3. Ahead(s) = 0
        BY <3>2 DEF Ahead
      <3>4. Total(sizes[s]) <= buffered[s] + Ahead(s)
        BY <1>0, <3>1 DEF Promised
      <3>5. to_read[t] \in Nat
        BY <1>0, ConstantTypes DEF TInv, AppType
      <3>6. to_read[t] <= buffered[s]
        BY ONLY <1>2, <3>1, <3>3, <3>4, <3>5
      <3> QED BY <1>1, <1>2, <3>5, <3>6
    <2> QED BY <2>1, <2>2
  <1>4. ASSUME rx.s # s, \A t \in Thread : on[t] = s => pc[t] \in {"recv_flag", "recv_wait"}
        PROVE  Total(sizes[s]) = buffered[s] \/ "no packet" \in lapse[s]
    <2>1. ~Putting(s)
      BY <1>4 DEF Putting
    <2>2. lock[s] \notin Thread
      BY <1>0, <1>4 DEF LockHeld
    <2>3. Ahead(s) = 0
      BY <2>2 DEF Ahead
    <2>4. Total(sizes[s]) = buffered[s] + Ahead(s) \/ "no packet" \in lapse[s]
      BY <1>0, <1>4, <2>1 DEF Settled
    <2>5. buffered[s] + Ahead(s) = buffered[s]
      BY <1>2, <2>3
    <2> QED BY <2>4, <2>5
  <1> QED BY <1>1, <1>3, <1>4

(* In every interleaving of any number of threads with RX, every buffer of *)
(* mdm_recv_pool is free, in a slot, the command handler's or was wiped by *)
(* modem_offload_socket; and none is wiped, and none left in a slot that   *)
(* is free, but after a close with more to come for the socket: then RX    *)
(* can give the closed slot a buffer that the memset of the next open      *)
(* forgets.                                                                *)
THEOREM NoLeak == Spec => []NoBufferLost
  BY Sound, GivesBalance, PTL

(* And until such a close the packet sizes are a promise recvfrom can      *)
(* keep: it never finds fewer bytes than it was promised, though RX may    *)
(* add to the buffer, and close may free it, between any two of its steps. *)
THEOREM PromiseKept == Spec => []SizesAgree
  BY Sound, GivesSizes, PTL

-----------------------------------------------------------------------------
(* What is under way, when RX sees a header before the byte after it       *)
(* arrives. Pending is the header RX has not met, Pend(s) and Cur(s) what  *)
(* it and the URC RX works on still have for s, Mark(s) how far RX is with *)
(* what the peer sent to s, At(i) what comes next on the UART.             *)

Data(r, n) == [k |-> "data", s |-> r, b |-> n]
Pending ==
    IF uart # <<>> THEN IF uart[Len(uart)].k = "hdr" THEN uart[Len(uart)] ELSE LF
    ELSE IF line # <<>> /\ line[Len(line)].k = "hdr" THEN line[Len(line)] ELSE LF
Pend(s) == IF Pending # LF /\ Pending.s = s THEN Pending.b ELSE 0
Cur(s)  == IF rx.s = s /\ rx.pc \in {"lock", "read"} THEN rx.left ELSE 0
Mark(s) == sent[s] - Pend(s) - Cur(s)
At(i)   == IF i <= Len(uart) THEN uart[i] ELSE owed[i - Len(uart)]

(* Nothing follows a header until RX has it. *)
HeaderLast ==
    /\ \A i \in DOMAIN uart : uart[i].k = "hdr" => i = Len(uart)
    /\ \A i \in DOMAIN line : line[i].k = "hdr" => i = Len(line) /\ uart = <<>>
    /\ \A i \in DOMAIN owed : owed[i].k # "hdr"
    /\ rx.pc # "idle" => line = <<>>

(* What the modem owes is then the LF and the payload of that header.      *)
Follows ==
    Pending # LF => /\ Len(owed) = Pending.b + 1 /\ owed[1] = LF
                    /\ \A j \in 1 .. Pending.b : owed[j + 1] = Data(Pending.s, sent[Pending.s] - Pending.b + j)

(* What RX is to read is what comes next. *)
Coming ==
    rx.pc \in {"lock", "read"} =>
        /\ rx.skip + rx.left <= Len(uart) + Len(owed)
        /\ rx.skip = 1 => At(1) = LF
        /\ \A j \in 1 .. rx.left : At(rx.skip + j) = Data(rx.s, Mark(rx.s) + j)

(* What a socket was given and has is what the peer sent, up to where RX   *)
(* is, but for what was logged as lost.                                    *)
Ordered(s, q, lo, hi) ==
    \A i \in DOMAIN q :
        /\ q[i].k = "data" /\ q[i].s = s
        /\ q[i].b > IF i = 1 THEN lo ELSE q[i - 1].b
        /\ q[i].b <= hi
Whole(q, lo) == \A i \in DOMAIN q : q[i].b = lo + i
InOrder ==
    \A s \in Socket :
        /\ base[s] <= Mark(s) /\ Ordered(s, Arrived(s), base[s], Mark(s))
        /\ Lost(s) \/ Whole(Arrived(s), base[s])
        /\ link[s] => Lost(s) \/ base[s] + Len(Arrived(s)) = Mark(s)

Flow == HeaderLast /\ Follows /\ Coming

LEMMA PendingType ==
  ASSUME TInv
  PROVE  /\ Pending \in Header \cup {LF}
         /\ Pending # LF => Pending \in Header /\ Pending.k = "hdr" /\ Pending.s \in Socket /\ Pending.b \in Nat \ {0}
  <1>1. uart \in Seq(Element) /\ line \in Seq(Element)
    BY DEF TInv, WireType
  <1>2. ASSUME NEW q \in Seq(Element), q # <<>>, q[Len(q)].k = "hdr" PROVE q[Len(q)] \in Header
    <2>1. q[Len(q)] \in Element
      BY <1>2
    <2> QED BY <1>2, <2>1 DEF Element, Byte, LF
  <1>3. Pending \in Header \cup {LF}
    BY <1>1, <1>2 DEF Pending
  <1>4. \A h \in Header : h.k = "hdr" /\ h.s \in Socket /\ h.b \in Nat \ {0}
    BY ConstantTypes DEF Header
  <1> HIDE DEF LF, Pending
  <1> QED BY <1>3, <1>4

LEMMA MarkType ==
  ASSUME TInv, NEW s \in Socket
  PROVE  Pend(s) \in Nat /\ Cur(s) \in Nat /\ sent[s] \in Nat /\ Mark(s) \in Int /\ base[s] \in Nat
  <1>1. Pend(s) \in Nat
    BY PendingType DEF Pend
  <1>2. Cur(s) \in Nat
    BY ConstantTypes DEF Cur, TInv, RxType
  <1>3. sent[s] \in Nat /\ base[s] \in Nat
    BY DEF TInv, WireType, LogType
  <1> QED BY <1>1, <1>2, <1>3 DEF Mark

(* A header under way is the pending one. *)
LEMMA HeaderIsPending ==
  ASSUME TInv, HeaderLast
  PROVE  /\ \A i \in DOMAIN uart : uart[i].k = "hdr" => i = Len(uart) /\ Pending = uart[i] /\ Pending # LF
         /\ \A i \in DOMAIN line : line[i].k = "hdr" => i = Len(line) /\ Pending = line[i] /\ Pending # LF
  <1>1. uart \in Seq(Element) /\ line \in Seq(Element)
    BY DEF TInv, WireType
  <1>2. \A e : e.k = "hdr" => e # LF
    BY DEF LF
  <1>3. ASSUME NEW i \in DOMAIN uart, uart[i].k = "hdr" PROVE i = Len(uart) /\ Pending = uart[i]
    <2>1. i = Len(uart) /\ uart # <<>>
      BY <1>1, <1>3 DEF HeaderLast
    <2> QED BY <1>3, <2>1 DEF Pending
  <1>4. ASSUME NEW i \in DOMAIN line, line[i].k = "hdr" PROVE i = Len(line) /\ Pending = line[i]
    <2>1. i = Len(line) /\ line # <<>> /\ uart = <<>>
      BY <1>1, <1>4 DEF HeaderLast
    <2> QED BY <1>4, <2>1 DEF Pending
  <1> QED BY <1>2, <1>3, <1>4

(* And its socket is not silent. *)
LEMMA PendingSpeaks ==
  ASSUME TInv, Pending # LF
  PROVE  ~Silent(Pending.s)
  <1>1. uart \in Seq(Element) /\ line \in Seq(Element)
    BY DEF TInv, WireType
  <1>2. CASE uart # <<>>
    <2>1. Len(uart) \in DOMAIN uart /\ uart[Len(uart)] # LF /\ Pending = uart[Len(uart)]
      BY <1>1, <1>2 DEF Pending
    <2>2. Speaks(Pending.s, uart)
      BY <2>1 DEF Speaks
    <2> QED BY <2>2 DEF Silent
  <1>3. CASE uart = <<>>
    <2>1. Len(line) \in DOMAIN line /\ line[Len(line)] # LF /\ Pending = line[Len(line)]
      BY <1>1, <1>3 DEF Pending
    <2>2. Speaks(Pending.s, line)
      BY <2>1 DEF Speaks
    <2> QED BY <2>2 DEF Silent
  <1> QED BY <1>2, <1>3

(* The steps that move what is under way. *)
Moving == \/ rx_process \/ rx_discard \/ on_urc_receive \/ rx_read \/ modem_byte
          \/ \E r \in Socket : modem_receive(r)

LEMMA WireStep ==
  ASSUME TInv, [Next]_vars, ~Moving
  PROVE  UNCHANGED <<line, uart, owed, sent>> /\ (rx.pc = "idle" => rx'.pc = "idle")
  <1>0. RxType
    BY DEF TInv
  <1>1. CASE modem_rx
    <2>1. rx_lock \/ rx_retry \/ rx_unlock \/ rx_size \/ rx_ready
      BY <1>1 DEF Moving, modem_rx
    <2> QED BY <2>1 DEF rx_lock, rx_retry, rx_unlock, rx_size, rx_ready, wire
  <1>2. CASE modem
    <2>1. PICK r \in Socket : modem_open(r)
      BY <1>2 DEF Moving, modem
    <2> QED BY <2>1 DEF modem_open
  <1>3. ASSUME NEW t \in Thread, Call(t) \/ Step(t) PROVE UNCHANGED <<line, uart, owed, sent, rx>>
    BY <1>3 DEF Call, Step, socket_init, recv_lock, recv_size, close_lock, socket_get, close, recvfrom,
       recv_flag, recv_wait, recv_next, recv_short, recv_more, close_modem, close_put, wire
  <1>4. CASE UNCHANGED vars
    BY <1>4 DEF vars, wire
  <1> QED BY <1>1, <1>2, <1>3, <1>4 DEF Next

(* What the modem sends after a header, once RX has the header. *)
LEMMA SentByte ==
  ASSUME Prompt = TRUE, TInv, modem_byte
  PROVE  /\ owed # <<>> /\ uart' = Append(uart, Head(owed)) /\ owed' = Tail(owed) /\ Head(owed) = owed[1]
         /\ UNCHANGED <<line, sent, rx, rx_buf, got, base, lapse>>
         /\ Pending = LF
         /\ \A i \in DOMAIN uart : uart[i].k # "hdr"
         /\ \A i \in DOMAIN line : line[i].k # "hdr"
  <1>1. uart \in Seq(Element) /\ line \in Seq(Element) /\ owed \in Seq(Element)
    BY DEF TInv, WireType
  <1>2. /\ \A i \in DOMAIN uart : uart[i].k # "hdr"
        /\ \A i \in DOMAIN line : line[i].k # "hdr"
    BY DEF modem_byte
  <1>3. /\ owed # <<>> /\ uart' = Append(uart, Head(owed)) /\ owed' = Tail(owed) /\ Head(owed) = owed[1]
        /\ UNCHANGED <<line, sent, rx, rx_buf, got, base, lapse>>
    BY DEF modem_byte, data, ghost
  <1>4. (uart # <<>> => Len(uart) \in DOMAIN uart) /\ (line # <<>> => Len(line) \in DOMAIN line)
    BY <1>1
  <1>5. Pending = LF
    BY <1>2, <1>4 DEF Pending
  <1> QED BY <1>2, <1>3, <1>5

(* And a URC the modem begins comes with none under way. *)
LEMMA SentHeader ==
  ASSUME TInv, HeaderLast, Follows, NEW r \in Socket, modem_receive(r)
  PROVE  /\ owed = <<>> /\ Pending = LF /\ link[r]
         /\ UNCHANGED <<line, rx, rx_buf, got, base, lapse>>
         /\ \A i \in DOMAIN uart : uart[i].k # "hdr"
         /\ \A i \in DOMAIN line : line[i].k # "hdr"
         /\ \E n \in Nat \ {0} :
               LET h == [k |-> "hdr", s |-> r, b |-> n]
               IN  /\ h \in Header /\ uart' = Append(uart, h)
                   /\ owed' \in Seq(Element) /\ Len(owed') = n + 1 /\ owed'[1] = LF
                   /\ \A j \in 1 .. n : owed'[j + 1] = Data(r, sent[r] + j)
                   /\ sent'[r] = sent[r] + n /\ \A s \in Socket : s # r => sent'[s] = sent[s]
  <1>0. /\ owed \in Seq(Element) /\ sent \in [Socket -> Nat]
    BY DEF TInv, WireType
  <1>1. owed = <<>> /\ link[r] /\ UNCHANGED <<line, rx, rx_buf, got, base, lapse>>
    BY DEF modem_receive, data, ghost
  <1>2. Pending = LF
    <2> SUFFICES ASSUME Pending # LF PROVE FALSE
      OBVIOUS
    <2>1. Len(owed) = Pending.b + 1 /\ Pending.b \in Nat
      BY PendingType DEF Follows
    <2> QED BY <1>1, <2>1
  <1>3. /\ \A i \in DOMAIN uart : uart[i].k # "hdr"
        /\ \A i \in DOMAIN line : line[i].k # "hdr"
    BY <1>2, HeaderIsPending
  <1>4. PICK n \in 1 .. MaxPayload :
           /\ uart' = Append(uart, [k |-> "hdr", s |-> r, b |-> n])
           /\ owed' = <<LF>> \o [i \in 1 .. n |-> [k |-> "data", s |-> r, b |-> sent[r] + i]]
           /\ sent' = [sent EXCEPT ![r] = @ + n]
    BY DEF modem_receive
  <1>5. n \in Nat \ {0} /\ [k |-> "hdr", s |-> r, b |-> n] \in Header
    BY ConstantTypes DEF Header
  <1>6. sent'[r] = sent[r] + n /\ \A s \in Socket : s # r => sent'[s] = sent[s]
    BY <1>0, <1>4
  <1> DEFINE d == [i \in 1 .. n |-> Data(r, sent[r] + i)]
  <1>7. d \in Seq(Element) /\ Len(d) = n /\ \A j \in 1 .. n : d[j] = Data(r, sent[r] + j)
    <2>1. \A i \in 1 .. n : Data(r, sent[r] + i) \in Element
      <3> SUFFICES ASSUME NEW i \in 1 .. n PROVE Data(r, sent[r] + i) \in Element
        OBVIOUS
      <3>1. sent[r] + i \in Nat \ {0}
        BY <1>0, <1>5
      <3> QED BY <3>1 DEF Element, Byte, Data
    <2>2. d \in [1 .. n -> Element]
      BY <2>1
    <2> HIDE DEF d
    <2>3. d \in Seq(Element) /\ Len(d) = n
      BY <1>5, <2>2, FunctionIsSeq
    <2> QED BY <2>3 DEF d
  <1>8. owed' = <<LF>> \o d
    BY <1>4 DEF Data
  <1> HIDE DEF d
  <1>9. owed' \in Seq(Element) /\ Len(owed') = n + 1 /\ owed'[1] = LF /\ \A j \in 1 .. n : owed'[j + 1] = d[j]
    <2>1. <<LF>> \in Seq(Element) /\ Len(<<LF>>) = 1 /\ <<LF>>[1] = LF
      <3>1. LF \in Element
        BY DEF Element
      <3> HIDE DEF LF
      <3> QED BY <3>1
    <2> DEFINE p == <<LF>>
    <2>2. p \in Seq(Element) /\ Len(p) = 1 /\ p[1] = LF /\ owed' = p \o d
      BY <1>8, <2>1
    <2> HIDE DEF p
    <2>3. p \o d \in Seq(Element) /\ Len(p \o d) = 1 + n
          /\ \A i \in 1 .. 1 + n : (p \o d)[i] = IF i <= 1 THEN p[i] ELSE d[i - 1]
      <3>1. /\ p \o d \in Seq(Element) /\ Len(p \o d) = Len(p) + Len(d)
            /\ \A i \in 1 .. Len(p) + Len(d) : (p \o d)[i] = IF i <= Len(p) THEN p[i] ELSE d[i - Len(p)]
        BY ONLY <1>7, <2>2, JoinType
      <3>2. Len(p) = 1 /\ Len(d) = n
        BY <1>7, <2>2
      <3> QED BY <3>1, <3>2
    <2>4. (p \o d)[1] = LF /\ \A j \in 1 .. n : (p \o d)[j + 1] = d[j]
      BY <1>5, <2>2, <2>3
    <2> QED BY <1>5, <2>2, <2>3, <2>4
  <1>10. \A j \in 1 .. n : owed'[j + 1] = Data(r, sent[r] + j)
    BY <1>7, <1>9
  <1> QED BY <1>1, <1>2, <1>3, <1>4, <1>5, <1>6, <1>9, <1>10

LEMMA HeaderLastKept ==
  ASSUME Prompt = TRUE, TInv, HeaderLast, Follows, [Next]_vars
  PROVE  HeaderLast'
  <1>0. /\ line \in Seq(Element) /\ uart \in Seq(Element) /\ owed \in Seq(Element) /\ RxType
        /\ \A i \in DOMAIN uart : uart[i].k = "hdr" => i = Len(uart)
        /\ \A i \in DOMAIN line : line[i].k = "hdr" => i = Len(line) /\ uart = <<>>
        /\ \A i \in DOMAIN owed : owed[i].k # "hdr"
        /\ rx.pc # "idle" => line = <<>>
    BY DEF TInv, WireType, HeaderLast
  <1>1. CASE ~Moving
    BY <1>0, <1>1, WireStep DEF HeaderLast
  <1>2. CASE rx_process
    BY <1>0, <1>2 DEF rx_process, HeaderLast
  <1>3. CASE rx_discard
    <2>1. line # <<>> /\ line' = Tail(line) /\ UNCHANGED <<uart, owed, rx>> /\ rx.pc = "idle"
      BY <1>3 DEF rx_discard
    <2>2. \A i \in DOMAIN Tail(line) : i + 1 \in DOMAIN line /\ Tail(line)[i] = line[i + 1]
      BY <1>0, <2>1
    <2>3. Len(Tail(line)) = Len(line) - 1
      BY <1>0, <2>1
    <2>4. \A i \in DOMAIN Tail(line) : Tail(line)[i].k = "hdr" => i = Len(Tail(line)) /\ uart = <<>>
      BY <1>0, <2>1, <2>2, <2>3
    <2> QED BY <1>0, <2>1, <2>4 DEF HeaderLast
  <1>4. CASE on_urc_receive
    <2>1. line # <<>> /\ line' = Tail(line) /\ UNCHANGED <<uart, owed>> /\ Head(line).k = "hdr"
      BY <1>4 DEF on_urc_receive, Known
    <2>2. Len(line) = 1 /\ uart = <<>>
      <3>1. 1 \in DOMAIN line /\ line[1] = Head(line)
        BY <1>0, <2>1
      <3> QED BY <1>0, <2>1, <3>1
    <2>3. line' = <<>>
      BY <1>0, <2>1, <2>2
    <2> QED BY <1>0, <2>1, <2>3 DEF HeaderLast
  <1>5. CASE rx_read
    <2> DEFINE m == Min({rx.left + rx.skip, Chunk, Len(uart)})
    <2>1. rx.pc = "read" /\ m > 0 /\ uart' = SubSeq(uart, m + 1, Len(uart)) /\ UNCHANGED <<line, owed>>
      BY <1>5 DEF rx_read
    <2>2. m \in Nat /\ m <= Len(uart)
      BY <2>1, ChunkTaken
    <2> HIDE DEF m
    <2>3. Len(uart') = Len(uart) - m /\ uart' \in Seq(Element) /\ \A k \in 1 .. Len(uart) - m : uart'[k] = uart[m + k]
      BY <1>0, <2>1, <2>2, CutType
    <2>4. \A i \in DOMAIN uart' : uart'[i].k = "hdr" => i = Len(uart')
      <3> SUFFICES ASSUME NEW i \in DOMAIN uart', uart'[i].k = "hdr" PROVE i = Len(uart')
        OBVIOUS
      <3>1. i \in 1 .. Len(uart) - m /\ m + i \in DOMAIN uart
        BY <1>0, <2>2, <2>3
      <3>2. m + i = Len(uart)
        BY <1>0, <2>3, <3>1
      <3> QED BY <1>0, <2>2, <2>3, <3>1, <3>2
    <2>5. line' = <<>>
      BY <1>0, <2>1
    <2>6. \A i \in DOMAIN line' : FALSE
      BY <2>5
    <2> QED BY <1>0, <2>1, <2>4, <2>5, <2>6 DEF HeaderLast
  <1>6. CASE modem_byte
    <2>1. /\ owed # <<>> /\ uart' = Append(uart, Head(owed)) /\ owed' = Tail(owed) /\ UNCHANGED <<line, rx>>
          /\ Head(owed) = owed[1]
          /\ \A i \in DOMAIN uart : uart[i].k # "hdr"
          /\ \A i \in DOMAIN line : line[i].k # "hdr"
      BY <1>6, SentByte
    <2>2. 1 \in DOMAIN owed /\ \A i \in DOMAIN Tail(owed) : i + 1 \in DOMAIN owed /\ Tail(owed)[i] = owed[i + 1]
      BY <1>0, <2>1
    <2>3. Head(owed).k # "hdr" /\ \A i \in DOMAIN owed' : owed'[i].k # "hdr"
      BY <1>0, <2>1, <2>2
    <2>4. \A i \in DOMAIN uart' : (i \in DOMAIN uart /\ uart'[i] = uart[i]) \/ uart'[i] = Head(owed)
      BY <1>0, <2>1
    <2>5. \A i \in DOMAIN uart' : uart'[i].k # "hdr"
      BY <2>1, <2>3, <2>4
    <2> QED BY <1>0, <2>1, <2>3, <2>5 DEF HeaderLast
  <1>7. ASSUME NEW r \in Socket, modem_receive(r) PROVE HeaderLast'
    <2>1. /\ UNCHANGED <<line, rx>>
          /\ \A i \in DOMAIN uart : uart[i].k # "hdr"
          /\ \A i \in DOMAIN line : line[i].k # "hdr"
      BY <1>7, SentHeader
    <2>2. PICK n \in Nat \ {0} :
             LET h == [k |-> "hdr", s |-> r, b |-> n]
             IN  /\ h \in Header /\ uart' = Append(uart, h)
                 /\ owed' \in Seq(Element) /\ Len(owed') = n + 1 /\ owed'[1] = LF
                 /\ \A j \in 1 .. n : owed'[j + 1] = Data(r, sent[r] + j)
      BY <1>7, SentHeader
    <2>3. \A i \in DOMAIN uart' : uart'[i].k = "hdr" => i = Len(uart')
      <3> DEFINE h == [k |-> "hdr", s |-> r, b |-> n]
      <3>1. uart' = Append(uart, h)
        BY <2>2
      <3> HIDE DEF h
      <3>2. \A i \in DOMAIN uart' : (i \in DOMAIN uart /\ uart'[i] = uart[i]) \/ i = Len(uart')
        BY <1>0, <3>1
      <3> QED BY <2>1, <3>2
    <2>4. \A i \in DOMAIN owed' : owed'[i].k # "hdr"
      <3> SUFFICES ASSUME NEW i \in DOMAIN owed' PROVE owed'[i].k # "hdr"
        OBVIOUS
      <3>1. i \in 1 .. n + 1 /\ (i = 1 \/ (i - 1 \in 1 .. n /\ i = (i - 1) + 1))
        BY <2>2
      <3>2. LF.k # "hdr" /\ \A j : Data(r, j).k # "hdr"
        BY DEF LF, Data
      <3>3. \A j \in 1 .. n : owed'[j + 1].k # "hdr"
        BY <2>2, <3>2
      <3>4. CASE i = 1
        BY <2>2, <3>2, <3>4
      <3>5. CASE i - 1 \in 1 .. n /\ i = (i - 1) + 1
        BY <3>3, <3>5
      <3> QED BY <3>1, <3>4, <3>5
    <2> QED BY <1>0, <2>1, <2>3, <2>4 DEF HeaderLast
  <1> QED BY <1>1, <1>2, <1>3, <1>4, <1>5, <1>6, <1>7 DEF Moving

(* What a turn of the loop takes, and that it is the payload.              *)
LEMMA TakesPayload ==
  ASSUME TInv, Coming, rx_read, NEW m, m = Min({rx.left + rx.skip, Chunk, Len(uart)})
  PROVE  /\ rx.pc = "read" /\ rx.s \in Socket /\ m \in Nat \ {0} /\ m <= Len(uart)
         /\ rx.skip \in Nat /\ rx.left \in Nat /\ rx.skip <= m /\ m <= rx.skip + rx.left
         /\ Mark(rx.s) \in Int
         /\ uart' \in Seq(Element) /\ Len(uart') = Len(uart) - m /\ \A i \in 1 .. Len(uart) - m : uart'[i] = uart[m + i]
         /\ uart[m].k # "hdr"
         /\ \A j \in 1 .. m - rx.skip : uart[rx.skip + j] = Data(rx.s, Mark(rx.s) + j)
         /\ UNCHANGED <<line, owed, sent, got, base>>
  <1>0. uart \in Seq(Element) /\ None \notin Socket /\ RxType
    BY SocketAssumption DEF TInv, WireType
  <1>1. rx.pc = "read" /\ m > 0 /\ uart' = SubSeq(uart, m + 1, Len(uart)) /\ UNCHANGED <<line, owed, sent, got, base>>
    BY DEF rx_read
  <1>2. /\ m \in Nat /\ rx.skip \in {0, 1} /\ rx.skip <= m /\ m - rx.skip <= rx.left /\ m <= Len(uart)
        /\ rx.left \in Nat
    BY <1>1, ChunkTaken
  <1>3. rx.s \in Socket
    BY <1>0, <1>1 DEF RxType
  <1>4. Mark(rx.s) \in Int
    BY <1>3, MarkType
  <1>5. m \in Nat \ {0} /\ rx.skip \in Nat /\ m <= rx.skip + rx.left /\ Len(uart) \in Nat
    BY <1>0, <1>1, <1>2
  <1>6. uart' \in Seq(Element) /\ Len(uart') = Len(uart) - m /\ \A i \in 1 .. Len(uart) - m : uart'[i] = uart[m + i]
    BY ONLY <1>0, <1>1, <1>2, <1>5, CutType
  <1>7. /\ rx.skip = 1 => At(1) = LF
        /\ \A j \in 1 .. rx.left : At(rx.skip + j) = Data(rx.s, Mark(rx.s) + j)
    BY <1>1 DEF Coming
  <1>8. \A j \in 1 .. m - rx.skip : uart[rx.skip + j] = Data(rx.s, Mark(rx.s) + j)
    <2> SUFFICES ASSUME NEW j \in 1 .. m - rx.skip PROVE uart[rx.skip + j] = Data(rx.s, Mark(rx.s) + j)
      OBVIOUS
    <2>1. j \in 1 .. rx.left /\ rx.skip + j <= Len(uart)
      BY <1>2, <1>5
    <2>2. At(rx.skip + j) = uart[rx.skip + j]
      BY <2>1 DEF At
    <2> QED BY <1>7, <2>1, <2>2
  <1>9. uart[m].k # "hdr"
    <2>1. LF.k # "hdr" /\ \A r, n : Data(r, n).k # "hdr"
      BY DEF LF, Data
    <2>2. CASE m = rx.skip
      <3>1. m = 1
        BY <1>2, <1>5, <2>2
      <3>2. At(1) = uart[1]
        BY <1>2, <3>1 DEF At
      <3> QED BY <1>7, <2>1, <2>2, <3>1, <3>2
    <2>3. CASE m # rx.skip
      <3>1. m - rx.skip \in 1 .. m - rx.skip /\ rx.skip + (m - rx.skip) = m
        BY <1>2, <1>5, <2>3
      <3>2. uart[rx.skip + (m - rx.skip)] = Data(rx.s, Mark(rx.s) + (m - rx.skip))
        BY <1>8, <3>1
      <3> QED BY <2>1, <3>1, <3>2
    <2> QED BY <2>2, <2>3
  <1> QED BY <1>1, <1>2, <1>3, <1>4, <1>5, <1>6, <1>8, <1>9

(* RX takes on what is under way. *)
LEMMA TakesPending ==
  ASSUME TInv, HeaderLast, on_urc_receive
  PROVE  Pending = Head(line) /\ Pending # LF /\ Pending' = LF /\ uart = <<>> /\ uart' = <<>> /\ line' = <<>>
  <1>0. /\ line \in Seq(Element) /\ uart \in Seq(Element)
    BY DEF TInv, WireType
  <1>1. line # <<>> /\ line' = Tail(line) /\ uart' = uart /\ Head(line).k = "hdr"
    BY DEF on_urc_receive, Known
  <1>2. 1 \in DOMAIN line /\ line[1] = Head(line)
    BY <1>0, <1>1
  <1>3. Len(line) = 1 /\ Pending = Head(line) /\ Pending # LF /\ uart = <<>>
    BY <1>1, <1>2, HeaderIsPending DEF HeaderLast
  <1>4. line' = <<>>
    BY <1>0, <1>1, <1>3
  <1>5. Pending' = LF
    BY <1>1, <1>3, <1>4 DEF Pending
  <1> QED BY <1>1, <1>3, <1>4, <1>5

(* The header under way stays until RX has it; the driver never throws it  *)
(* away, for its socket is in use.                                         *)
LEMMA PendingChange ==
  ASSUME Prompt = TRUE, TInv, Use, HeaderLast, Follows, Coming, [Next]_vars
  PROVE  Pending' = Pending \/ on_urc_receive \/ \E r \in Socket : modem_receive(r)
  <1>0. /\ line \in Seq(Element) /\ uart \in Seq(Element) /\ owed \in Seq(Element) /\ RxType
    BY DEF TInv, WireType
  <1>1. CASE ~Moving
    BY <1>1, WireStep DEF Pending
  <1>2. CASE rx_process
    <2>1. line = <<>> /\ line' = uart /\ uart' = <<>> /\ uart # <<>>
      BY <1>2 DEF rx_process
    <2> QED BY <2>1 DEF Pending
  <1>3. CASE rx_discard
    <2>1. line # <<>> /\ line' = Tail(line) /\ uart' = uart /\ ~Known(Head(line))
      BY <1>3 DEF rx_discard
    <2>2. CASE uart # <<>>
      BY <2>1, <2>2 DEF Pending
    <2>3. CASE uart = <<>> /\ Tail(line) # <<>>
      <3>1. Tail(line)[Len(Tail(line))] = line[Len(line)]
        BY <1>0, <2>1, <2>3
      <3> QED BY <2>1, <2>3, <3>1 DEF Pending
    <2>4. CASE uart = <<>> /\ Tail(line) = <<>>
      <3>1. Len(line) = 1 /\ line[Len(line)] = Head(line)
        <4>1. Len(Tail(line)) = Len(line) - 1 /\ Len(line) \in Nat
          BY <1>0, <2>1
        <4>2. Len(line) = 1
          <5> DEFINE r == Tail(line)
          <5>1. r = <<>> /\ Len(r) = Len(line) - 1
            BY <2>4, <4>1
          <5> HIDE DEF r
          <5>2. Len(r) = 0
            BY ONLY <5>1
          <5> QED BY ONLY <4>1, <5>1, <5>2
        <4> QED BY <1>0, <2>1, <4>2
      <3>2. ASSUME Head(line).k = "hdr" PROVE FALSE
        <4>1. Pending = Head(line)
          BY <2>1, <2>4, <3>1, <3>2 DEF Pending
        <4>2. Pending # LF
          BY <3>2, <4>1 DEF LF
        <4>3. Pending.s \in Socket /\ ~Silent(Pending.s)
          BY <4>2, PendingType, PendingSpeaks
        <4>4. allocated[Pending.s]
          BY <4>3 DEF Use, Linked
        <4> QED BY <2>1, <3>2, <4>1, <4>4 DEF Known
      <3> QED BY <2>1, <2>4, <3>1, <3>2 DEF Pending
    <2> QED BY <2>2, <2>3, <2>4
  <1>5. CASE rx_read
    <2> DEFINE m == Min({rx.left + rx.skip, Chunk, Len(uart)})
    <2>0. m = Min({rx.left + rx.skip, Chunk, Len(uart)})
      OBVIOUS
    <2> HIDE DEF m
    <2>1. /\ rx.pc = "read" /\ m \in Nat \ {0} /\ m <= Len(uart) /\ uart[m].k # "hdr" /\ line' = line
          /\ uart' \in Seq(Element) /\ Len(uart') = Len(uart) - m /\ \A i \in 1 .. Len(uart) - m : uart'[i] = uart[m + i]
      BY <1>5, <2>0, TakesPayload
    <2>2. line = <<>> /\ line' = <<>> /\ uart # <<>> /\ Len(uart) \in Nat
      BY <1>0, <2>1 DEF HeaderLast
    <2>3. CASE m = Len(uart)
      <3>1. uart' = <<>>
        BY <2>1, <2>2, <2>3
      <3> QED BY <2>1, <2>2, <2>3, <3>1 DEF Pending
    <2>4. CASE m # Len(uart)
      <3>1. Len(uart') \in 1 .. Len(uart) - m /\ m + Len(uart') = Len(uart)
        BY <2>1, <2>2, <2>4
      <3>2. uart'[Len(uart')] = uart[Len(uart)] /\ uart' # <<>>
        BY <2>1, <3>1
      <3> QED BY <2>2, <3>2 DEF Pending
    <2> QED BY <2>3, <2>4
  <1>6. CASE modem_byte
    <2>1. /\ owed # <<>> /\ uart' = Append(uart, Head(owed)) /\ Head(owed) = owed[1] /\ Pending = LF
      BY <1>6, SentByte
    <2>2. 1 \in DOMAIN owed
      BY <1>0, <2>1
    <2>3. Head(owed).k # "hdr"
      BY <2>1, <2>2 DEF HeaderLast
    <2>4. uart' # <<>> /\ uart'[Len(uart')] = Head(owed)
      BY <1>0, <2>1
    <2> QED BY <2>1, <2>3, <2>4 DEF Pending
  <1> QED BY <1>1, <1>2, <1>3, <1>5, <1>6 DEF Moving

(* A URC the modem begins is the one under way then. *)
LEMMA PendingBegins ==
  ASSUME TInv, HeaderLast, Follows, NEW r \in Socket, modem_receive(r), TInv'
  PROVE  /\ Pending = LF /\ Pending' # LF /\ Pending'.s = r /\ Pending'.b \in Nat \ {0}
         /\ sent'[r] = sent[r] + Pending'.b /\ \A s \in Socket : s # r => sent'[s] = sent[s]
         /\ owed = <<>> /\ Len(owed') = Pending'.b + 1 /\ owed'[1] = LF
         /\ \A j \in 1 .. Pending'.b : owed'[j + 1] = Data(r, sent[r] + j)
         /\ uart' = Append(uart, Pending') /\ UNCHANGED <<line, rx, rx_buf, got, base, lapse>>
  <1>0. uart \in Seq(Element)
    BY DEF TInv, WireType
  <1>1. Pending = LF /\ owed = <<>> /\ UNCHANGED <<line, rx, rx_buf, got, base, lapse>>
    BY SentHeader
  <1>2. PICK n \in Nat \ {0} :
           LET h == [k |-> "hdr", s |-> r, b |-> n]
           IN  /\ h \in Header /\ uart' = Append(uart, h)
               /\ owed' \in Seq(Element) /\ Len(owed') = n + 1 /\ owed'[1] = LF
               /\ \A j \in 1 .. n : owed'[j + 1] = Data(r, sent[r] + j)
               /\ sent'[r] = sent[r] + n /\ \A s \in Socket : s # r => sent'[s] = sent[s]
    BY SentHeader
  <1> DEFINE h == [k |-> "hdr", s |-> r, b |-> n]
  <1>3. h.k = "hdr" /\ h.s = r /\ h.b = n /\ h # LF /\ uart' = Append(uart, h)
    BY <1>2 DEF LF
  <1> HIDE DEF h
  <1>4. uart' # <<>> /\ uart'[Len(uart')] = h
    BY <1>0, <1>3
  <1>5. Pending' = h
    BY <1>3, <1>4 DEF Pending
  <1> QED BY <1>1, <1>2, <1>3, <1>5

LEMMA FollowsKept ==
  ASSUME Prompt = TRUE, TInv, Use, HeaderLast, Follows, Coming, [Next]_vars, TInv'
  PROVE  Follows'
  <1>0. sent \in [Socket -> Nat]
    BY DEF TInv, WireType
  <1>1. ASSUME NEW r \in Socket, modem_receive(r) PROVE Follows'
    <2> DEFINE n == Pending'.b
    <2>1. /\ Pending'.s = r /\ n \in Nat \ {0} /\ sent'[r] = sent[r] + n
          /\ Len(owed') = n + 1 /\ owed'[1] = LF
          /\ \A j \in 1 .. n : owed'[j + 1] = Data(r, sent[r] + j)
      BY <1>1, PendingBegins
    <2>2. sent'[r] - n = sent[r]
      BY <1>0, <2>1
    <2> HIDE DEF n
    <2>3. \A j \in 1 .. n : owed'[j + 1] = Data(r, sent'[r] - n + j)
      BY <2>1, <2>2
    <2> QED BY <2>1, <2>3 DEF Follows, n
  <1>2. CASE Pending' = LF
    BY <1>2 DEF Follows
  <1>3. CASE Pending' = Pending /\ Pending # LF /\ \A r \in Socket : ~modem_receive(r)
    <2>1. UNCHANGED <<owed, sent>>
      <3>1. ~modem_byte
        BY <1>3, SentByte
      <3> QED BY <1>3, <3>1, WireStep DEF Moving, rx_process, rx_discard, on_urc_receive, rx_read
    <2> QED BY <1>3, <2>1 DEF Follows
  <1> QED BY <1>1, <1>2, <1>3, PendingChange, TakesPending

-----------------------------------------------------------------------------
(* How far RX is. *)

(* What RX drops it logs, and what it appends is what comes next.          *)
Dropped(s) == rx.s = s /\ Lost(s)' /\ UNCHANGED <<got, rx_buf, base, link>> /\ Mark(s)' >= Mark(s)
Appended(s) ==
    /\ rx_read /\ rx.s = s /\ UNCHANGED <<got, base, lapse, link>>
    /\ rx_buf[s] # None /\ rx_buf'[s] # None
    /\ \E d \in Seq(Element) :
          /\ rx_buf'[s].bytes = rx_buf[s].bytes \o d
          /\ Mark(s)' = Mark(s) + Len(d)
          /\ \A j \in 1 .. Len(d) : d[j] = Data(s, Mark(s) + j)

(* Of a header under way that stays, the socket's share does not change.   *)
LEMMA PendStays ==
  ASSUME Pending' = Pending, NEW s \in Socket
  PROVE  Pend(s)' = Pend(s)
  BY DEF Pend

(* A URC that begins adds as much to what was sent as to what is under way;*)
(* RX that takes it on, nothing to either.                                 *)
LEMMA MarkBegins ==
  ASSUME TInv, HeaderLast, Follows, NEW r \in Socket, modem_receive(r), TInv', NEW s \in Socket
  PROVE  Mark(s)' = Mark(s)
  <1>1. /\ Pending = LF /\ Pending' # LF /\ Pending'.s = r /\ Pending'.b \in Nat \ {0}
        /\ sent'[r] = sent[r] + Pending'.b /\ \A q \in Socket : q # r => sent'[q] = sent[q]
        /\ UNCHANGED rx
    BY PendingBegins
  <1>2. Cur(s)' = Cur(s) /\ Pend(s) = 0 /\ Pend(s)' = IF s = r THEN Pending'.b ELSE 0
    BY <1>1 DEF Cur, Pend
  <1>3. sent[s] \in Nat /\ Cur(s) \in Nat
    BY MarkType
  <1>4. CASE s = r
    <2> DEFINE n == Pending'.b
    <2>1. n \in Nat /\ Pend(s)' = n /\ sent'[s] = sent[s] + n
      BY <1>1, <1>2, <1>4
    <2> HIDE DEF n
    <2> QED BY <1>2, <1>3, <2>1 DEF Mark
  <1>5. CASE s # r
    BY <1>1, <1>2, <1>3, <1>5 DEF Mark
  <1> QED BY <1>4, <1>5

LEMMA MarkTaken ==
  ASSUME TInv, HeaderLast, on_urc_receive, NEW s \in Socket
  PROVE  /\ Mark(s)' = Mark(s)
         /\ rx'.pc = "lock" /\ rx'.s = Pending.s /\ rx'.left = Pending.b /\ rx'.skip = 1 /\ UNCHANGED <<sent, owed>>
         /\ s = Pending.s => Mark(s)' = sent[s] - Pending.b
  <1>0. Pending = Head(line) /\ Pending # LF /\ Pending' = LF
    BY TakesPending
  <1>1. /\ rx.pc = "idle" /\ UNCHANGED <<sent, owed>>
        /\ rx'.pc = "lock" /\ rx'.s = Pending.s /\ rx'.left = Pending.b /\ rx'.skip = 1
    BY <1>0 DEF on_urc_receive, Idle
  <1>2. Pending.s \in Socket /\ Pending.b \in Nat
    BY <1>0, PendingType
  <1>3. ASSUME NEW q \in Socket
        PROVE  Pend(q)' = 0 /\ Cur(q) = 0 /\ Cur(q)' = Pend(q) /\ Pend(q) \in Nat /\ sent[q] \in Nat /\ sent'[q] = sent[q]
    <2>1. Pend(q)' = 0 /\ Cur(q) = 0 /\ Cur(q)' = Pend(q)
      BY <1>0, <1>1 DEF Pend, Cur
    <2> QED BY <1>1, <2>1, MarkType
  <1>4. ASSUME NEW q \in Socket PROVE Mark(q)' = Mark(q) /\ Mark(q) = sent[q] - Pend(q)
    <2>1. Mark(q) = sent[q] - Pend(q) - Cur(q) /\ Mark(q)' = sent'[q] - Pend(q)' - Cur(q)'
      BY DEF Mark
    <2>2. /\ Pend(q)' = 0 /\ Cur(q) = 0 /\ Cur(q)' = Pend(q) /\ Pend(q) \in Nat /\ sent[q] \in Nat
          /\ sent'[q] = sent[q]
      BY <1>3
    <2> QED BY ONLY <2>1, <2>2
  <1>5. s = Pending.s => Pend(s) = Pending.b
    BY <1>0 DEF Pend
  <1> QED BY <1>1, <1>2, <1>4, <1>5

(* Where RX stops before the end. *)
LEMMA MarkDropped ==
  ASSUME TInv, NEW s \in Socket, rx.s = s, Pending' = Pending, UNCHANGED sent, Cur(s)' = 0
  PROVE  Mark(s)' >= Mark(s)
  <1>1. Pend(s)' = Pend(s) /\ sent'[s] = sent[s] /\ Pend(s) \in Nat /\ Cur(s) \in Nat /\ sent[s] \in Nat
    BY MarkType, PendStays
  <1>2. Mark(s) = sent[s] - Pend(s) - Cur(s) /\ Mark(s)' = sent'[s] - Pend(s)' - Cur(s)'
    BY DEF Mark
  <1> QED BY ONLY <1>1, <1>2, Cur(s)' = 0

LEMMA MarkSame ==
  ASSUME TInv, NEW s \in Socket, Pending' = Pending, UNCHANGED sent, Cur(s)' = Cur(s)
  PROVE  Mark(s)' = Mark(s)
  BY PendStays DEF Mark

LEMMA LapseLost ==
  ASSUME TInv, NEW s \in Socket, NEW l \in {"no buffer", "overflow", "gave up"}, Lapse(s, l)
  PROVE  Lost(s)'
  <1>1. l \in lapse'[s]
    BY DEF Lapse, TInv, LogType
  <1> QED BY <1>1 DEF Lost

LEMMA ReadMoves ==
  ASSUME TInv, Coming, Pending' = Pending, rx_read, NEW s \in Socket, rx.s = s,
         NEW m, m = Min({rx.left + rx.skip, Chunk, Len(uart)})
  PROVE  \/ Dropped(s) /\ rx'.pc = "unlock"
         \/ Appended(s) /\ rx'.pc = "read" /\ rx'.s = s /\ rx'.skip = 0 /\ rx'.left = rx.left - (m - rx.skip)
            /\ Mark(s)' = Mark(s) + (m - rx.skip)
  <1>0. /\ RxType /\ DataType /\ None \notin Socket /\ uart \in Seq(Element)
    BY SocketAssumption DEF TInv, WireType
  <1>1. /\ rx.pc = "read" /\ m \in Nat \ {0} /\ m <= Len(uart)
        /\ rx.skip \in Nat /\ rx.left \in Nat /\ rx.skip <= m /\ m <= rx.skip + rx.left
        /\ Mark(s) \in Int
        /\ \A j \in 1 .. m - rx.skip : uart[rx.skip + j] = Data(s, Mark(s) + j)
        /\ UNCHANGED <<line, owed, sent, got, base>>
    BY TakesPayload
  <1> DEFINE b == SubSeq(uart, rx.skip + 1, m)
  <1>2. b \in Seq(Element) /\ Len(b) = m - rx.skip /\ \A j \in 1 .. m - rx.skip : b[j] = uart[rx.skip + j]
    <2>1. uart \in Seq(Element) /\ m \in Nat /\ rx.skip \in Nat /\ m <= Len(uart) /\ rx.skip <= m
      BY <1>0, <1>1
    <2> QED BY ONLY <2>1, CutType
  <1>3. /\ UNCHANGED link /\ rx_buf[s] # None
        /\ \/ rx' = [rx EXCEPT !.pc = "unlock"] /\ Lapse(s, "overflow") /\ UNCHANGED rx_buf
           \/ /\ rx_buf' = [rx_buf EXCEPT ![s] = [bytes |-> @.bytes \o b, used |-> @.used + Len(b)]]
              /\ rx' = [rx EXCEPT !.left = @ - Len(b), !.skip = 0, !.retry = 0]
              /\ UNCHANGED lapse
    BY DEF rx_read
  <1> HIDE DEF b
  <1>4. CASE rx' = [rx EXCEPT !.pc = "unlock"] /\ Lapse(s, "overflow") /\ UNCHANGED rx_buf
    <2>1. rx'.pc = "unlock"
      BY <1>0, <1>4 DEF RxType
    <2>2. Cur(s)' = 0
      BY <2>1 DEF Cur
    <2>3. Mark(s)' >= Mark(s)
      BY <1>1, <2>2, MarkDropped
    <2>4. Lost(s)'
      BY <1>4, LapseLost
    <2> QED BY <1>1, <1>3, <1>4, <2>1, <2>3, <2>4 DEF Dropped
  <1>5. CASE /\ rx_buf' = [rx_buf EXCEPT ![s] = [bytes |-> @.bytes \o b, used |-> @.used + Len(b)]]
             /\ rx' = [rx EXCEPT !.left = @ - Len(b), !.skip = 0, !.retry = 0]
             /\ UNCHANGED lapse
    <2>1. rx'.pc = "read" /\ rx'.s = s /\ rx'.skip = 0 /\ rx'.left = rx.left - Len(b)
      BY <1>0, <1>1, <1>5 DEF RxType
    <2>2. rx_buf'[s].bytes = rx_buf[s].bytes \o b /\ rx_buf'[s] # None
      <3>1. rx_buf'[s] = [bytes |-> rx_buf[s].bytes \o b, used |-> rx_buf[s].used + Len(b)]
        BY <1>0, <1>5 DEF DataType
      <3>2. rx_buf'[s] # None
        <4>1. CASE UNCHANGED rx_buf
          BY <1>3, <4>1
        <4>2. ASSUME NEW c \in Seq(Element), NEW u \in 0 .. BufSize,
                     rx_buf' = [rx_buf EXCEPT ![s] = [bytes |-> c, used |-> u]]
              PROVE  rx_buf'[s] # None
          <5>1. [bytes |-> c, used |-> u] \in Buffer
            BY DEF Buffer
          <5>2. rx_buf'[s] \in Buffer
            BY <1>0, <4>2, <5>1 DEF DataType
          <5> QED BY <5>2, BufferAssumption
        <4> QED BY <4>1, <4>2, ReadAdds
      <3> QED BY <3>1, <3>2
    <2>3. Mark(s)' = Mark(s) + Len(b)
      <3>1. Cur(s) = rx.left /\ Cur(s)' = rx.left - Len(b) /\ sent' = sent
        BY <1>1, <2>1 DEF Cur
      <3>2. Pend(s)' = Pend(s) /\ Pend(s) \in Nat /\ sent[s] \in Nat
        BY MarkType, PendStays
      <3>3. Mark(s) = sent[s] - Pend(s) - Cur(s) /\ Mark(s)' = sent'[s] - Pend(s)' - Cur(s)'
        BY DEF Mark
      <3>4. rx.left \in Nat /\ Len(b) \in Int
        BY <1>1, <1>2
      <3> QED BY ONLY <3>1, <3>2, <3>3, <3>4
    <2>4. \A j \in 1 .. Len(b) : b[j] = Data(s, Mark(s) + j)
      BY <1>1, <1>2
    <2>5. Appended(s)
      BY <1>1, <1>2, <1>3, <1>5, <2>2, <2>3, <2>4 DEF Appended
    <2> QED BY <1>2, <2>1, <2>3, <2>5
  <1> QED BY <1>3, <1>4, <1>5

(* The other steps drop what is left of a URC, or leave it as it is.       *)
LEMMA OthersMove ==
  ASSUME TInv, Pending' = Pending, UNCHANGED sent, [Next]_vars, ~rx_read, ~on_urc_receive, NEW s \in Socket
  PROVE  Cur(s)' = Cur(s) \/ (Dropped(s) /\ rx'.pc \notin {"lock", "read"})
  <1>0. RxType /\ None \notin Socket
    BY SocketAssumption DEF TInv
  <1>1. CASE UNCHANGED rx
    BY <1>1 DEF Cur
  <1>2. CASE rx_lock /\ rx.s = s
    <2>1. \/ rx' = [rx EXCEPT !.pc = "read"]
          \/ rx' = Idle /\ Lapse(s, "no buffer") /\ UNCHANGED <<got, rx_buf, base, link>>
      BY <1>2 DEF rx_lock, wire
    <2>2. CASE rx' = [rx EXCEPT !.pc = "read"]
      <3>1. rx'.pc = "read" /\ rx'.s = rx.s /\ rx'.left = rx.left /\ rx.pc = "lock"
        BY <1>0, <1>2, <2>2 DEF rx_lock, RxType
      <3> QED BY <3>1 DEF Cur
    <2>3. CASE rx' = Idle /\ Lapse(s, "no buffer") /\ UNCHANGED <<got, rx_buf, base, link>>
      <3>1. Cur(s)' = 0 /\ rx'.pc = "idle"
        BY <2>3 DEF Cur, Idle
      <3>2. Mark(s)' >= Mark(s)
        BY <1>2, <3>1, MarkDropped
      <3>3. Lost(s)'
        BY <2>3, LapseLost
      <3> QED BY <1>2, <2>3, <3>1, <3>2, <3>3 DEF Dropped
    <2> QED BY <2>1, <2>2, <2>3
  <1>3. CASE rx_retry /\ rx.s = s
    <2>1. /\ rx.pc = "read" /\ UNCHANGED <<got, rx_buf, base, link>>
          /\ \/ rx' = [rx EXCEPT !.retry = @ + 1]
             \/ rx' = [rx EXCEPT !.pc = "unlock"] /\ Lapse(s, "gave up")
      BY <1>3 DEF rx_retry, wire, data
    <2>2. CASE rx' = [rx EXCEPT !.retry = @ + 1]
      <3>1. rx'.pc = rx.pc /\ rx'.s = rx.s /\ rx'.left = rx.left
        BY <1>0, <2>2 DEF RxType
      <3> QED BY <3>1 DEF Cur
    <2>3. CASE rx' = [rx EXCEPT !.pc = "unlock"] /\ Lapse(s, "gave up")
      <3>1. rx'.pc = "unlock"
        BY <1>0, <2>3 DEF RxType
      <3>2. Cur(s)' = 0
        BY <3>1 DEF Cur
      <3>3. Mark(s)' >= Mark(s)
        BY <1>3, <3>2, MarkDropped
      <3>4. Lost(s)'
        BY <2>3, LapseLost
      <3> QED BY <1>3, <2>1, <3>1, <3>3, <3>4 DEF Dropped
    <2> QED BY <2>1, <2>2, <2>3
  <1>4. CASE rx_unlock
    <2>1. rx.pc = "unlock" \/ rx.left = 0
      BY <1>4 DEF rx_unlock
    <2>2. Cur(s) = 0
      BY <2>1 DEF Cur
    <2>3. rx' = Idle \/ rx' = [rx EXCEPT !.pc = "size", !.total = buffered[rx.s]]
      BY <1>4 DEF rx_unlock
    <2>4. rx'.pc \in {"idle", "size"}
      <3>1. CASE rx' = Idle
        BY <3>1 DEF Idle
      <3>2. CASE rx' = [rx EXCEPT !.pc = "size", !.total = buffered[rx.s]]
        BY <1>0, <3>2 DEF RxType
      <3> QED BY <2>3, <3>1, <3>2
    <2> QED BY <2>2, <2>4 DEF Cur
  <1>5. CASE rx_size \/ rx_ready
    <2>1. rx.pc \in {"size", "ready"} /\ (rx' = Idle \/ rx' = [rx EXCEPT !.pc = "ready"])
      BY <1>5 DEF rx_size, rx_ready
    <2>2. rx'.pc \in {"idle", "ready"}
      BY <1>0, <2>1 DEF Idle, RxType
    <2> QED BY <2>1, <2>2 DEF Cur
  <1>6. CASE (rx_lock \/ rx_retry) /\ rx.s # s
    <2>1. rx' = Idle \/ rx'.s = rx.s
      BY <1>0, <1>6 DEF rx_lock, rx_retry, RxType
    <2>2. rx'.s # s
      BY <1>0, <1>6, <2>1 DEF Idle
    <2> QED BY <1>6, <2>2 DEF Cur
  <1>7. CASE rx_process \/ rx_discard \/ ~modem_rx
    <2>1. UNCHANGED rx
      BY <1>7 DEF Next, rx_process, rx_discard, modem, modem_open, modem_receive, modem_byte, vars, Call, Step,
         socket_init, recv_lock, recv_size, close_lock, socket_get, close, recvfrom, recv_flag, recv_wait,
         recv_next, recv_short, recv_more, close_modem, close_put
    <2> QED BY <1>1, <2>1
  <1> QED BY <1>2, <1>3, <1>4, <1>5, <1>6, <1>7 DEF modem_rx

(* RX that reads has taken on its header before. *)
LEMMA ReadAfter ==
  ASSUME Prompt = TRUE, TInv, Use, Flow, rx_read, [Next]_vars, TInv'
  PROVE  Pending' = Pending
  <1>0. HeaderLast /\ Follows /\ Coming /\ uart \in Seq(Element)
    BY DEF Flow, TInv, WireType
  <1>1. ~on_urc_receive
    BY DEF rx_read, on_urc_receive
  <1>2. ASSUME NEW r \in Socket, modem_receive(r) PROVE FALSE
    <2> DEFINE m == Min({rx.left + rx.skip, Chunk, Len(uart)})
    <2>1. m = Min({rx.left + rx.skip, Chunk, Len(uart)})
      OBVIOUS
    <2> HIDE DEF m
    <2>2. m \in Nat \ {0} /\ Len(uart') = Len(uart) - m
      BY <1>0, <2>1, TakesPayload
    <2>3. uart' = Append(uart, Pending')
      BY <1>0, <1>2, PendingBegins
    <2>4. Len(uart') = Len(uart) + 1 /\ Len(uart) \in Nat
      BY <1>0, <2>3
    <2> QED BY <2>2, <2>4
  <1> QED BY <1>0, <1>1, <1>2, PendingChange

LEMMA SentStays ==
  ASSUME [Next]_vars, \A r \in Socket : ~modem_receive(r), TInv
  PROVE  UNCHANGED sent
  BY WireStep DEF Moving, rx_process, rx_discard, on_urc_receive, rx_read, modem_byte

LEMMA MarkChange ==
  ASSUME Prompt = TRUE, TInv, Use, Flow, [Next]_vars, TInv', NEW s \in Socket
  PROVE  Mark(s)' = Mark(s) \/ Dropped(s) \/ Appended(s)
  <1>0. HeaderLast /\ Follows /\ Coming
    BY DEF Flow
  <1>1. ASSUME NEW r \in Socket, modem_receive(r) PROVE Mark(s)' = Mark(s)
    BY <1>0, <1>1, MarkBegins
  <1>2. CASE on_urc_receive
    BY <1>0, <1>2, MarkTaken
  <1>3. CASE ~on_urc_receive /\ \A r \in Socket : ~modem_receive(r)
    <2>1. Pending' = Pending /\ UNCHANGED sent
      BY <1>0, <1>3, PendingChange, SentStays
    <2>2. CASE rx_read /\ rx.s = s
      BY <1>0, <2>1, <2>2, ReadMoves
    <2>3. CASE rx_read /\ rx.s # s
      <3>1. rx'.s = rx.s
        BY <2>3 DEF rx_read, TInv, RxType
      <3>2. Cur(s)' = Cur(s)
        BY <2>3, <3>1 DEF Cur
      <3> QED BY <2>1, <3>2, MarkSame
    <2>4. CASE ~rx_read
      BY <1>3, <2>1, <2>4, OthersMove, MarkSame
    <2> QED BY <2>2, <2>3, <2>4
  <1> QED BY <1>1, <1>2, <1>3

(* The next of what the modem sends moves on, from what it owes to the     *)
(* UART.                                                                   *)
LEMMA ComingKept ==
  ASSUME Prompt = TRUE, TInv, Use, Flow, [Next]_vars, TInv'
  PROVE  Coming'
  <1>0. /\ HeaderLast /\ Follows /\ Coming /\ RxType /\ RxType' /\ None \notin Socket
        /\ uart \in Seq(Element) /\ owed \in Seq(Element)
    BY SocketAssumption DEF Flow, TInv, WireType
  <1> SUFFICES ASSUME rx'.pc \in {"lock", "read"}
               PROVE  Coming'
    BY DEF Coming
  <1>s. PICK s \in Socket : rx'.s = s
    BY <1>0 DEF RxType
  <1>1. CASE on_urc_receive
    <2> DEFINE n == Pending.b
    <2>1. /\ Pending # LF /\ uart = <<>> /\ uart' = <<>>
      BY <1>0, <1>1, TakesPending
    <2>2. /\ rx'.s = Pending.s /\ rx'.left = n /\ rx'.skip = 1 /\ UNCHANGED <<sent, owed>>
          /\ s = Pending.s /\ Mark(s)' = sent[s] - n
      BY <1>0, <1>1, <1>s, MarkTaken
    <2>3. n \in Nat
      BY <2>1, PendingType
    <2>4. Len(owed) = n + 1 /\ owed[1] = LF /\ \A j \in 1 .. n : owed[j + 1] = Data(s, sent[s] - n + j)
      BY <1>0, <2>1, <2>2 DEF Follows
    <2> HIDE DEF n
    <2>5. \A i \in Nat \ {0} : At(i)' = owed[i]
      <3> SUFFICES ASSUME NEW i \in Nat \ {0} PROVE At(i)' = owed[i]
        OBVIOUS
      <3>1. ~(i <= Len(uart')) /\ i - Len(uart') = i
        BY <2>1
      <3> QED BY <2>2, <3>1 DEF At
    <2>6. /\ rx'.skip + rx'.left <= Len(uart') + Len(owed')
          /\ At(1)' = LF
      BY <2>1, <2>2, <2>3, <2>4, <2>5
    <2>7. ASSUME NEW j \in 1 .. n PROVE At(1 + j)' = Data(s, Mark(s)' + j)
      <3>1. At(1 + j)' = owed[j + 1]
        BY <2>3, <2>5
      <3> QED BY <2>2, <2>4, <3>1
    <2> QED BY <1>s, <2>2, <2>6, <2>7 DEF Coming
  <1>2. CASE rx_read
    <2> DEFINE m == Min({rx.left + rx.skip, Chunk, Len(uart)})
    <2>0. m = Min({rx.left + rx.skip, Chunk, Len(uart)})
      OBVIOUS
    <2> HIDE DEF m
    <2>1. /\ rx.pc = "read" /\ m \in Nat \ {0} /\ m <= Len(uart) /\ rx.skip \in Nat /\ rx.left \in Nat
          /\ rx.skip <= m /\ m <= rx.skip + rx.left /\ rx.s \in Socket
          /\ uart' \in Seq(Element) /\ Len(uart') = Len(uart) - m /\ \A i \in 1 .. Len(uart) - m : uart'[i] = uart[m + i]
          /\ UNCHANGED owed
      BY <1>0, <1>2, <2>0, TakesPayload
    <2>2. rx.s = s
      <3>1. rx'.s = rx.s
        BY <1>0, <1>2 DEF rx_read, RxType
      <3> QED BY <1>s, <3>1
    <2>3. Pending' = Pending
      BY <1>2, ReadAfter
    <2>4. /\ rx'.skip = 0 /\ rx'.left = rx.left - (m - rx.skip)
          /\ Mark(s)' = Mark(s) + (m - rx.skip)
      BY <1>0, <1>2, <2>0, <2>2, <2>3, ReadMoves
    <2>5. Mark(s) \in Int
      BY MarkType
    <2>6. /\ rx.skip + rx.left <= Len(uart) + Len(owed)
          /\ \A j \in 1 .. rx.left : At(rx.skip + j) = Data(s, Mark(s) + j)
      BY <1>0, <2>1, <2>2 DEF Coming
    <2>7. ASSUME NEW i \in Nat \ {0} PROVE At(i)' = At(m + i)
      <3>1. Len(uart) \in Nat
        BY <1>0
      <3>2. CASE i <= Len(uart')
        <4>1. i \in 1 .. Len(uart) - m /\ m + i <= Len(uart)
          BY <2>1, <3>1, <3>2
        <4> QED BY <2>1, <3>2, <4>1 DEF At
      <3>3. CASE ~(i <= Len(uart'))
        <4>1. ~(m + i <= Len(uart)) /\ i - Len(uart') = m + i - Len(uart)
          BY <2>1, <3>1, <3>3
        <4> QED BY <2>1, <3>3, <4>1 DEF At
      <3> QED BY <3>2, <3>3
    <2>8. rx'.skip + rx'.left <= Len(uart') + Len(owed')
      <3>1. Len(uart) \in Nat /\ Len(owed) \in Nat
        BY <1>0
      <3> QED BY <2>1, <2>4, <2>6, <3>1
    <2>9. ASSUME NEW j \in 1 .. rx'.left PROVE At(j)' = Data(s, Mark(s)' + j)
      <3> DEFINE k == m - rx.skip + j
      <3>1. k \in 1 .. rx.left /\ rx.skip + k = m + j /\ Mark(s)' + j = Mark(s) + k /\ j \in Nat \ {0}
        BY <2>1, <2>4, <2>5
      <3> HIDE DEF k
      <3>2. At(j)' = At(m + j)
        BY <2>7, <3>1
      <3> QED BY <2>6, <3>1, <3>2
    <2>10. \A j \in 1 .. rx'.left : 0 + j = j
      BY <2>1, <2>4
    <2> QED BY <1>s, <2>4, <2>8, <2>9, <2>10 DEF Coming
  <1>3. CASE ~on_urc_receive /\ ~rx_read
    <2>1. rx.pc \in {"lock", "read"} /\ rx.s = s /\ rx'.skip = rx.skip /\ rx'.left = rx.left
      <3>1. CASE rx_lock \/ rx_retry \/ UNCHANGED rx
        <4>1. CASE rx_lock
          <5>1. rx' = Idle \/ rx' = [rx EXCEPT !.pc = "read"]
            BY <4>1 DEF rx_lock
          <5>2. rx' # Idle
            BY DEF Idle
          <5>3. rx.pc = "lock"
            BY <4>1 DEF rx_lock
          <5>4. rx' = [rx EXCEPT !.pc = "read"]
            BY <5>1, <5>2
          <5> QED BY <1>0, <1>s, <5>3, <5>4 DEF RxType
        <4>2. CASE rx_retry
          <5>1. rx' = [rx EXCEPT !.retry = @ + 1] \/ rx' = [rx EXCEPT !.pc = "unlock"]
            BY <4>2 DEF rx_retry
          <5>2. rx' = [rx EXCEPT !.retry = @ + 1] /\ rx.pc = "read"
            BY <1>0, <4>2, <5>1 DEF rx_retry, RxType
          <5> QED BY <1>0, <1>s, <5>2 DEF RxType
        <4> QED BY <1>s, <3>1, <4>1, <4>2
      <3>2. CASE rx_unlock
        <4>1. rx' = Idle \/ rx' = [rx EXCEPT !.pc = "size", !.total = buffered[rx.s]]
          BY <3>2 DEF rx_unlock
        <4>2. rx'.pc \in {"idle", "size"}
          <5>1. CASE rx' = Idle
            BY <5>1 DEF Idle
          <5>2. CASE rx' = [rx EXCEPT !.pc = "size", !.total = buffered[rx.s]]
            BY <1>0, <5>2 DEF RxType
          <5> QED BY <4>1, <5>1, <5>2
        <4> QED BY <4>2
      <3>3. CASE rx_size \/ rx_ready
        <4>1. rx' = Idle \/ rx' = [rx EXCEPT !.pc = "ready"]
          BY <3>3 DEF rx_size, rx_ready
        <4>2. rx'.pc \in {"idle", "ready"}
          BY <1>0, <4>1 DEF Idle, RxType
        <4> QED BY <4>2
      <3>4. rx_lock \/ rx_retry \/ rx_unlock \/ rx_size \/ rx_ready \/ UNCHANGED rx
        BY <1>3 DEF Next, modem_rx, rx_process, rx_discard, modem, modem_open, modem_receive, modem_byte, vars, Call,
           Step, socket_init, recv_lock, recv_size, close_lock, socket_get, close, recvfrom, recv_flag, recv_wait,
           recv_next, recv_short, recv_more, close_modem, close_put
      <3> QED BY <3>1, <3>2, <3>3, <3>4
    <2> DEFINE n == rx.skip + rx.left
    <2>2. /\ n <= Len(uart) + Len(owed) /\ (rx.skip = 1 => At(1) = LF)
          /\ \A j \in 1 .. rx.left : At(rx.skip + j) = Data(s, Mark(s) + j)
      BY <1>0, <2>1 DEF Coming
    <2>3. /\ rx.skip \in {0, 1} /\ rx.left \in Nat /\ n \in Nat /\ Len(uart) \in Nat /\ Len(owed) \in Nat
          /\ \A j \in 1 .. rx.left : rx.skip + j \in 1 .. n
          /\ rx.skip = 1 => 1 \in 1 .. n
      BY <1>0, ConstantTypes DEF RxType
    <2> HIDE DEF n
    <2>4. Mark(s)' = Mark(s)
      <3>1. CASE \E r \in Socket : modem_receive(r)
        BY <1>0, <3>1, MarkBegins
      <3>2. CASE \A r \in Socket : ~modem_receive(r)
        <4>1. Pending' = Pending /\ UNCHANGED sent
          BY <1>0, <1>3, <3>2, PendingChange, SentStays
        <4>2. Cur(s)' = Cur(s)
          BY <1>3, <4>1, OthersMove
        <4> QED BY <4>1, <4>2, MarkSame
      <3> QED BY <3>1, <3>2
    <2>5. /\ n <= Len(uart') + Len(owed')
          /\ \A i \in 1 .. n : At(i)' = At(i)
      <3>1. CASE UNCHANGED <<uart, owed>>
        BY <2>2, <3>1 DEF At
      <3>2. CASE modem_byte
        <4>1. owed # <<>> /\ uart' = Append(uart, Head(owed)) /\ owed' = Tail(owed) /\ Head(owed) = owed[1]
          BY <3>2, SentByte
        <4>2. /\ Len(uart') = Len(uart) + 1 /\ Len(owed') = Len(owed) - 1
              /\ uart'[Len(uart) + 1] = owed[1] /\ \A i \in 1 .. Len(uart) : uart'[i] = uart[i]
          BY <1>0, <4>1
        <4>3. \A i \in 1 .. Len(owed) - 1 : owed'[i] = owed[i + 1]
          BY <1>0, <4>1
        <4>4. ASSUME NEW i \in 1 .. n PROVE At(i)' = At(i)
          <5>1. CASE i <= Len(uart)
            <6>1. i <= Len(uart') /\ uart'[i] = uart[i]
              BY <2>3, <4>2, <5>1
            <6> QED BY <5>1, <6>1 DEF At
          <5>2. CASE i = Len(uart) + 1
            <6>1. i <= Len(uart') /\ ~(i <= Len(uart)) /\ i - Len(uart) = 1
              BY <2>3, <4>2, <5>2
            <6> QED BY <4>2, <5>2, <6>1 DEF At
          <5>3. CASE i > Len(uart) + 1
            <6> DEFINE k == i - Len(uart')
            <6>1. ~(i <= Len(uart')) /\ ~(i <= Len(uart)) /\ i - Len(uart) = k + 1 /\ k \in 1 .. Len(owed) - 1
              BY <2>2, <2>3, <4>2, <5>3
            <6>2. At(i)' = owed'[k] /\ At(i) = owed[k + 1]
              BY <6>1 DEF At
            <6> HIDE DEF k
            <6> QED BY <4>3, <6>1, <6>2
          <5> QED BY <2>3, <5>1, <5>2, <5>3
        <4> QED BY <2>2, <2>3, <4>2, <4>4
      <3>3. ASSUME NEW r \in Socket, modem_receive(r) PROVE n <= Len(uart') + Len(owed') /\ \A i \in 1 .. n : At(i)' = At(i)
        <4>1. owed = <<>> /\ uart' = Append(uart, Pending') /\ Len(owed') = Pending'.b + 1 /\ Pending'.b \in Nat
          BY <1>0, <3>3, PendingBegins
        <4>2. Len(uart') = Len(uart) + 1 /\ \A i \in 1 .. Len(uart) : uart'[i] = uart[i]
          BY <1>0, <4>1
        <4>3. n <= Len(uart)
          BY <2>2, <2>3, <4>1
        <4>4. ASSUME NEW i \in 1 .. n PROVE At(i)' = At(i)
          <5>1. i \in 1 .. Len(uart) /\ i <= Len(uart) /\ i <= Len(uart')
            BY <2>3, <4>2, <4>3
          <5> QED BY <4>2, <5>1 DEF At
        <4> QED BY <2>3, <4>1, <4>2, <4>3, <4>4
      <3>4. CASE ~UNCHANGED <<uart, owed>>
        <4>1. Moving
          BY <3>4, WireStep
        <4> QED BY <1>3, <2>1, <3>2, <3>3, <4>1 DEF Moving, rx_process, rx_discard
      <3> QED BY <3>1, <3>4
    <2>6. rx'.skip + rx'.left <= Len(uart') + Len(owed')
      BY <2>1, <2>5 DEF n
    <2>7. rx'.skip = 1 => At(1)' = LF
      BY <2>1, <2>2, <2>3, <2>5
    <2>8. ASSUME NEW j \in 1 .. rx'.left PROVE At(rx.skip + j)' = Data(s, Mark(s)' + j)
      <3> DEFINE i == rx.skip + j
      <3>1. i \in 1 .. n /\ At(i) = Data(s, Mark(s) + j)
        BY <2>1, <2>2, <2>3
      <3>2. At(i) = At(i)' /\ i = rx'.skip + j
        BY <2>1, <2>5, <3>1
      <3> QED BY <2>4, <3>1, <3>2
    <2> QED BY <1>s, <2>6, <2>7, <2>8 DEF Coming
  <1> QED BY <1>1, <1>2, <1>3

-----------------------------------------------------------------------------
(* What has arrived. *)

LEMMA SameSequence ==
  ASSUME NEW S, NEW p \in Seq(S), NEW q \in Seq(S), Len(p) = Len(q), \A i \in 1 .. Len(p) : p[i] = q[i]
  PROVE  p = q
  OBVIOUS

LEMMA Regrouped ==
  ASSUME NEW S, NEW p \in Seq(S), NEW q \in Seq(S), NEW n \in Nat, n <= Len(q)
  PROVE  (p \o SubSeq(q, 1, n)) \o SubSeq(q, n + 1, Len(q)) = p \o q
  <1> DEFINE a == SubSeq(q, 0 + 1, n)
             b == SubSeq(q, n + 1, Len(q))
             k == Len(p)
             l == Len(q)
  <1>0. k \in Nat /\ l \in Nat /\ n <= l
    OBVIOUS
  <1>1. a \in Seq(S) /\ Len(a) = n - 0 /\ \A i \in 1 .. n - 0 : a[i] = q[0 + i]
    BY <1>0, CutType
  <1>2. b \in Seq(S) /\ Len(b) = l - n /\ \A i \in 1 .. l - n : b[i] = q[n + i]
    BY <1>0, CutType
  <1> HIDE DEF a, b
  <1>3. /\ p \o a \in Seq(S) /\ Len(p \o a) = k + n
        /\ \A i \in 1 .. k + n : (p \o a)[i] = IF i <= k THEN p[i] ELSE a[i - k]
    <2>1. Len(a) = n
      BY <1>0, <1>1
    <2>2. /\ p \o a \in Seq(S) /\ Len(p \o a) = Len(p) + Len(a)
          /\ \A i \in 1 .. Len(p) + Len(a) : (p \o a)[i] = IF i <= Len(p) THEN p[i] ELSE a[i - Len(p)]
      BY <1>1, JoinType
    <2> QED BY ONLY <2>1, <2>2
  <1> DEFINE c == p \o a
  <1>4. /\ c \o b \in Seq(S) /\ Len(c \o b) = k + l
        /\ \A i \in 1 .. k + l : (c \o b)[i] = IF i <= k + n THEN c[i] ELSE b[i - (k + n)]
    <2>1. c \in Seq(S) /\ Len(c) = k + n
      BY <1>3
    <2> HIDE DEF c
    <2>2. /\ c \o b \in Seq(S) /\ Len(c \o b) = Len(c) + Len(b)
          /\ \A i \in 1 .. Len(c) + Len(b) : (c \o b)[i] = IF i <= Len(c) THEN c[i] ELSE b[i - Len(c)]
      BY ONLY <1>2, <2>1, JoinType
    <2>3. Len(c) + Len(b) = k + l
      BY <1>0, <1>2, <2>1
    <2> QED BY ONLY <2>1, <2>2, <2>3
  <1>5. /\ p \o q \in Seq(S) /\ Len(p \o q) = k + l
        /\ \A i \in 1 .. k + l : (p \o q)[i] = IF i <= k THEN p[i] ELSE q[i - k]
    BY JoinType
  <1> HIDE DEF k, l
  <1>6. ASSUME NEW i \in 1 .. k + l PROVE (c \o b)[i] = (p \o q)[i]
    <2>1. CASE i <= k
      <3>1. i \in 1 .. k + n /\ i <= k + n
        BY <1>0, <2>1
      <3> QED BY <1>3, <1>4, <1>5, <2>1, <3>1
    <2>2. CASE ~(i <= k) /\ i <= k + n
      <3>1. i \in 1 .. k + n /\ i - k \in 1 .. n - 0 /\ 0 + (i - k) = i - k
        BY <1>0, <2>2
      <3>2. c[i] = q[i - k]
        BY <1>1, <1>3, <2>2, <3>1
      <3> QED BY <1>4, <1>5, <2>2, <3>2
    <2>3. CASE ~(i <= k + n)
      <3>1. i - (k + n) \in 1 .. l - n /\ n + (i - (k + n)) = i - k /\ ~(i <= k)
        BY <1>0, <2>3
      <3>2. b[i - (k + n)] = q[i - k]
        BY <1>2, <3>1
      <3> QED BY <1>4, <1>5, <2>3, <3>1, <3>2
    <2> QED BY <2>1, <2>2, <2>3
  <1>7. c \o b = p \o q
    BY ONLY <1>4, <1>5, <1>6, SameSequence
  <1>8. a = SubSeq(q, 1, n)
    BY DEF a
  <1> QED BY <1>7, <1>8 DEF b, l

LEMMA BytesBefore ==
  ASSUME NEW q \in Seq(Element), NEW s, NEW lo \in Nat, NEW hi \in Int, Ordered(s, q, lo, hi), NEW i \in 1 .. Len(q)
  PROVE  q[i].b \in Nat /\ q[i].b <= hi
  <1>1. q[i] \in Element /\ q[i].k = "data" /\ q[i].b <= hi
    BY DEF Ordered
  <1>2. q[i] \in Byte
    BY <1>1 DEF Element, Header, LF
  <1> QED BY <1>1, <1>2 DEF Byte

LEMMA OrderedGrows ==
  ASSUME NEW q \in Seq(Element), NEW s, NEW lo \in Nat, NEW hi \in Int, NEW h \in Int, hi <= h, Ordered(s, q, lo, hi)
  PROVE  Ordered(s, q, lo, h)
  <1> SUFFICES ASSUME NEW i \in DOMAIN q PROVE q[i].b <= h
    BY DEF Ordered
  <1>1. q[i].b \in Nat /\ q[i].b <= hi
    <2>1. i \in 1 .. Len(q)
      OBVIOUS
    <2> QED BY <2>1, BytesBefore
  <1> QED BY <1>1

LEMMA OrderedCut ==
  ASSUME NEW p \in Seq(Element), NEW q \in Seq(Element), NEW s, NEW lo \in Nat, NEW hi \in Int
  PROVE  /\ Ordered(s, p \o q, lo, hi) => Ordered(s, p, lo, hi)
         /\ Whole(p \o q, lo) => Whole(p, lo)
  <1>1. Len(p) \in Nat /\ Len(q) \in Nat
    OBVIOUS
  <1>2. \A i \in DOMAIN p : i \in DOMAIN (p \o q) /\ (p \o q)[i] = p[i]
    BY JoinType
  <1>3. \A i \in DOMAIN p : i # 1 => i - 1 \in DOMAIN p
    BY <1>1
  <1> DEFINE a == p \o q
  <1> HIDE DEF a
  <1>4. \A i \in DOMAIN p : i \in DOMAIN a /\ a[i] = p[i]
    BY <1>2 DEF a
  <1>5. Ordered(s, a, lo, hi) => Ordered(s, p, lo, hi)
    BY <1>3, <1>4 DEF Ordered
  <1>6. Whole(a, lo) => Whole(p, lo)
    BY <1>4 DEF Whole
  <1> QED BY <1>5, <1>6 DEF a

(* What is appended is what comes next. *)
LEMMA OrderedJoin ==
  ASSUME NEW q \in Seq(Element), NEW d \in Seq(Element), NEW s, NEW lo \in Nat, NEW hi \in Int, lo <= hi,
         \A j \in 1 .. Len(d) : d[j] = Data(s, hi + j)
  PROVE  /\ Ordered(s, q, lo, hi) => Ordered(s, q \o d, lo, hi + Len(d))
         /\ Whole(q, lo) /\ lo + Len(q) = hi => Whole(q \o d, lo)
  <1> DEFINE a == q \o d
             k == Len(q)
             l == Len(d)
  <1>1. k \in Nat /\ l \in Nat
    OBVIOUS
  <1>2. a \in Seq(Element) /\ Len(a) = k + l /\ \A i \in 1 .. k + l : a[i] = IF i <= k THEN q[i] ELSE d[i - k]
    BY JoinType
  <1>3. DOMAIN a = 1 .. k + l /\ DOMAIN q = 1 .. k
    BY <1>2
  <1>4. \A j \in 1 .. l : d[j].k = "data" /\ d[j].s = s /\ d[j].b = hi + j
    <2>1. \A n : Data(s, n).k = "data" /\ Data(s, n).s = s /\ Data(s, n).b = n
      BY DEF Data
    <2> SUFFICES ASSUME NEW j \in 1 .. l PROVE d[j].k = "data" /\ d[j].s = s /\ d[j].b = hi + j
      OBVIOUS
    <2>2. d[j] = Data(s, hi + j)
      OBVIOUS
    <2> QED BY <2>1, <2>2
  <1> HIDE DEF a, k, l
  <1>5. ASSUME Ordered(s, q, lo, hi) PROVE Ordered(s, a, lo, hi + l)
    <2> SUFFICES ASSUME NEW i \in 1 .. k + l
                 PROVE  /\ a[i].k = "data" /\ a[i].s = s
                        /\ a[i].b > (IF i = 1 THEN lo ELSE a[i - 1].b)
                        /\ a[i].b <= hi + l
      BY <1>3 DEF Ordered
    <2>1. CASE i <= k
      <3>1. i \in 1 .. k /\ a[i] = q[i] /\ (i # 1 => i - 1 \in 1 .. k + l /\ i - 1 <= k)
        BY <1>1, <1>2, <2>1
      <3>2. i # 1 => a[i - 1] = q[i - 1]
        BY <1>2, <3>1
      <3>3. q[i].k = "data" /\ q[i].s = s /\ q[i].b > (IF i = 1 THEN lo ELSE q[i - 1].b)
        BY <1>3, <1>5, <3>1 DEF Ordered
      <3>4. q[i].b \in Nat /\ q[i].b <= hi
        BY <1>5, <3>1, BytesBefore DEF k
      <3>5. q[i].b <= hi + l
        BY <1>1, <3>4
      <3> QED BY <3>1, <3>2, <3>3, <3>5
    <2>2. CASE ~(i <= k)
      <3>1. i - k \in 1 .. l /\ a[i] = d[i - k]
        BY <1>1, <1>2, <2>2
      <3>2. a[i].k = "data" /\ a[i].s = s /\ a[i].b = hi + (i - k)
        BY <1>4, <3>1
      <3>3. a[i].b <= hi + l
        BY <1>1, <3>1, <3>2
      <3>4. CASE i = 1
        BY <1>1, <3>1, <3>2, <3>4
      <3>5. CASE i # 1 /\ i = k + 1
        <4>1. k \in 1 .. Len(q) /\ i - 1 = k /\ k \in 1 .. k + l /\ k <= k
          BY <1>1, <3>5 DEF k
        <4>2. a[i - 1] = q[k]
          BY <1>2, <4>1
        <4>3. q[k].b \in Nat /\ q[k].b <= hi
          BY <1>5, <4>1, BytesBefore
        <4>4. a[i].b > a[i - 1].b
          BY <1>1, <3>1, <3>2, <4>2, <4>3
        <4> QED BY <3>2, <3>3, <3>5, <4>4
      <3>6. CASE i # 1 /\ i # k + 1
        <4>1. i - 1 \in 1 .. k + l /\ ~(i - 1 <= k) /\ i - 1 - k \in 1 .. l
          BY <1>1, <2>2, <3>6
        <4>2. a[i - 1].b = hi + (i - 1 - k)
          BY <1>2, <1>4, <4>1
        <4>3. a[i].b > a[i - 1].b
          BY <1>1, <3>2, <4>2
        <4> QED BY <3>2, <3>3, <3>6, <4>3
      <3> QED BY <3>4, <3>5, <3>6, <3>2, <3>3
    <2> QED BY <2>1, <2>2
  <1>6. ASSUME Whole(q, lo), lo + k = hi PROVE Whole(a, lo)
    <2> SUFFICES ASSUME NEW i \in 1 .. k + l PROVE a[i].b = lo + i
      BY <1>3 DEF Whole
    <2>1. CASE i <= k
      <3>1. i \in 1 .. k /\ a[i] = q[i]
        BY <1>1, <1>2, <2>1
      <3> QED BY <1>3, <1>6, <3>1 DEF Whole
    <2>2. CASE ~(i <= k)
      <3>1. i - k \in 1 .. l /\ a[i] = d[i - k]
        BY <1>1, <1>2, <2>2
      <3>2. a[i].b = hi + (i - k)
        BY <1>4, <3>1
      <3> QED BY <1>1, <1>6, <3>2
    <2> QED BY <2>1, <2>2
  <1> QED BY <1>5, <1>6 DEF a, k, l

LEMMA ArrivedType ==
  ASSUME TInv, NEW s \in Socket
  PROVE  got[s] \in Seq(Element) /\ Bytes(s) \in Seq(Element) /\ Arrived(s) \in Seq(Element)
  <1>1. got[s] \in Seq(Element)
    BY DEF TInv, LogType
  <1>2. Bytes(s) \in Seq(Element)
    BY DEF TInv, DataType, Bytes, Buffer
  <1> QED BY <1>1, <1>2, JoinType DEF Arrived

LEMMA GotChange ==
  ASSUME TInv, [Next]_vars, NEW s \in Socket, ~modem_open(s)
  PROVE  base'[s] = base[s] /\ (got'[s] = got[s] \/ \E t \in Thread : recv_lock(t) /\ on[t] = s)
  <1>0. LogType
    BY DEF TInv
  <1>1. CASE UNCHANGED <<got, base>>
    BY <1>1
  <1>2. ASSUME NEW t \in Thread, recv_lock(t) PROVE base'[s] = base[s] /\ (got'[s] = got[s] \/ on[t] = s)
    BY <1>0, <1>2, ReadLeaves DEF recv_lock, LogType
  <1>3. ASSUME NEW r \in Socket, modem_open(r) PROVE base'[s] = base[s] /\ got'[s] = got[s]
    <2>1. r # s
      BY <1>3
    <2> QED BY <1>0, <1>3, <2>1 DEF modem_open, LogType
  <1>4. CASE ~(\E t \in Thread : recv_lock(t)) /\ ~(\E r \in Socket : modem_open(r))
    <2>1. UNCHANGED <<got, base>>
      BY <1>4 DEF Next, modem, modem_receive, modem_byte, vars, Call, Step, socket_init,
         recv_size, close_lock, socket_get, close, recvfrom, recv_flag, recv_wait, recv_next, recv_short,
         recv_more, close_modem, close_put, ghost, modem_rx, rx_process, rx_discard, on_urc_receive, rx_lock,
         rx_read, rx_retry, rx_unlock, rx_size, rx_ready
    <2> QED BY <1>1, <2>1
  <1> QED BY <1>2, <1>3, <1>4

(* A reader takes over what the buffer begins with. *)
LEMMA TakeKeeps ==
  ASSUME TInv, NEW t \in Thread, recv_lock(t), NEW s \in Socket, on[t] = s
  PROVE  Arrived(s)' = Arrived(s)
  <1> DEFINE n == to_read[t]
             q == Bytes(s)
             b == SubSeq(q, n + 1, Len(q))
             a == SubSeq(q, 1, n)
  <1>1. /\ rx_buf[s] # None /\ n \in Nat /\ buffered[s] = Len(q) /\ n <= Len(q) /\ q \in Seq(Element)
        /\ got[s] \in Seq(Element) /\ Len(q) \in Nat
    BY ReadLeaves, ArrivedType DEF TInv, DataType
  <1>2. got' = [got EXCEPT ![s] = got[s] \o a]
    BY DEF recv_lock
  <1>3. \/ b = <<>> /\ rx_buf' = [rx_buf EXCEPT ![s] = None]
        \/ b # <<>> /\ rx_buf' = [rx_buf EXCEPT ![s].bytes = b]
    BY DEF recv_lock
  <1>4. got'[s] = got[s] \o a
    BY <1>2 DEF TInv, LogType
  <1>5. DataType /\ rx_buf[s] \in Buffer
    BY <1>1 DEF TInv, DataType
  <1> HIDE DEF n, a, b
  <1>6. Bytes(s)' = b
    <2>1. CASE b = <<>> /\ rx_buf' = [rx_buf EXCEPT ![s] = None]
      BY <1>5, <2>1 DEF DataType, Bytes
    <2>2. CASE b # <<>> /\ rx_buf' = [rx_buf EXCEPT ![s].bytes = b]
      <3>1. rx_buf'[s] = [rx_buf[s] EXCEPT !.bytes = b]
        BY <1>5, <2>2 DEF DataType
      <3>2. rx_buf'[s].bytes = b
        BY <1>5, <3>1 DEF Buffer
      <3>3. rx_buf'[s] # None
        <4>1. rx_buf'[s] = [bytes |-> b, used |-> rx_buf[s].used]
          BY <1>5, <3>1 DEF Buffer
        <4>2. b \in Seq(Element)
          BY <1>1, CutType DEF b
        <4>3. rx_buf'[s] \in Buffer
          BY <1>5, <4>1, <4>2 DEF Buffer
        <4> QED BY <4>3, BufferAssumption
      <3> QED BY <3>2, <3>3 DEF Bytes
    <2> QED BY <1>3, <2>1, <2>2
  <1>7. (got[s] \o SubSeq(q, 1, n)) \o SubSeq(q, n + 1, Len(q)) = got[s] \o q
    BY ONLY <1>1, Regrouped
  <1>8. Arrived(s)' = (got[s] \o a) \o b
    BY <1>4, <1>6 DEF Arrived
  <1> QED BY <1>7, <1>8 DEF Arrived, a, b

(* What has arrived changes only where RX reads, the connection is opened, *)
(* or what none will read of a connection that is closed goes.             *)
LEMMA ArrivedChange ==
  ASSUME TInv, Use, Sums, [Next]_vars, NEW s \in Socket, ~modem_open(s), ~(rx_read /\ rx.s = s)
  PROVE  /\ base'[s] = base[s]
         /\ \/ Arrived(s)' = Arrived(s)
            \/ Arrived(s)' \o Bytes(s) = Arrived(s) /\ ~link[s] /\ UNCHANGED link
  <1>0. DataType /\ got[s] \in Seq(Element) /\ Bytes(s) \in Seq(Element) /\ RxType /\ None \notin Socket
    BY ArrivedType, SocketAssumption DEF TInv
  <1>1. base'[s] = base[s] /\ (got'[s] = got[s] \/ \E t \in Thread : recv_lock(t) /\ on[t] = s)
    BY GotChange
  <1>2. ASSUME NEW t \in Thread, recv_lock(t), on[t] = s PROVE Arrived(s)' = Arrived(s)
    BY <1>2, TakeKeeps
  <1>3. ASSUME Bytes(s)' = Bytes(s), got'[s] = got[s] PROVE Arrived(s)' = Arrived(s)
    BY <1>3 DEF Arrived
  <1>4. CASE got'[s] = got[s] /\ rx_buf'[s] = rx_buf[s]
    <2>1. Bytes(s)' = Bytes(s)
      BY <1>4 DEF Bytes
    <2> QED BY <1>1, <1>3, <1>4, <2>1
  <1>5. ASSUME NEW t \in Thread, socket_init(t), on[t] = s, got'[s] = got[s] PROVE Arrived(s)' = Arrived(s)
    <2>1. rx_buf[s] = None /\ rx_buf'[s] = None
      BY <1>5, AfterInit
    <2> QED BY <1>3, <1>5, <2>1 DEF Bytes
  <1>6. ASSUME NEW t \in Thread, recv_size(t) \/ close_put(t), on[t] = s PROVE rx_buf'[s] = rx_buf[s]
    BY <1>6 DEF recv_size, close_put, data
  <1>7. ASSUME NEW t \in Thread, close_lock(t), on[t] = s, got'[s] = got[s]
        PROVE  Arrived(s)' \o Bytes(s) = Arrived(s) /\ ~link[s] /\ UNCHANGED link
    <2>1. rx_buf'[s] = None /\ UNCHANGED link /\ pc[t] = "close_lock"
      BY <1>7, AfterFree DEF close_lock
    <2>2. ~link[s]
      BY <1>7, <2>1 DEF Use, Linked
    <2>3. Arrived(s)' = got[s] \o <<>>
      BY <1>7, <2>1 DEF Arrived, Bytes
    <2>4. Arrived(s)' = got[s]
      BY <1>0, <2>3
    <2> QED BY <2>1, <2>2, <2>4 DEF Arrived
  <1>8. CASE RxStep /\ rx.s = s /\ got'[s] = got[s]
    <2>1. CASE rx_lock
      <3>1. rx_buf'[s] = rx_buf[s] \/ (rx_buf[s] = None /\ rx_buf'[s] = [bytes |-> <<>>, used |-> 0])
        BY <1>0, <1>8, <2>1 DEF rx_lock, DataType
      <3>2. Bytes(s)' = Bytes(s)
        BY <3>1 DEF Bytes
      <3> QED BY <1>1, <1>3, <1>8, <3>2
    <2>2. CASE rx_unlock \/ rx_size
      <3>1. rx_buf'[s] = rx_buf[s]
        BY <2>2 DEF rx_unlock, rx_size, data
      <3> QED BY <1>4, <1>8, <3>1
    <2> QED BY <1>8, <2>1, <2>2 DEF RxStep
  <1>9. CASE ~(\E t \in Thread : recv_lock(t) /\ on[t] = s)
    <2>1. got'[s] = got[s]
      BY <1>1, <1>9
    <2>2. CASE Same(s)
      BY <1>4, <2>1, <2>2 DEF Same
    <2>3. ASSUME NEW t \in Thread, ThreadStep(t), on[t] = s
          PROVE  \/ Arrived(s)' = Arrived(s)
                 \/ Arrived(s)' \o Bytes(s) = Arrived(s) /\ ~link[s] /\ UNCHANGED link
      BY <1>4, <1>5, <1>6, <1>7, <1>9, <2>1, <2>3 DEF ThreadStep
    <2> QED BY <1>1, <1>8, <2>1, <2>2, <2>3, OneSocket
  <1> QED BY <1>1, <1>2, <1>9

-----------------------------------------------------------------------------
(* The stream. *)

(* Of a silent socket nothing is under way, and RX has all there was.      *)
LEMMA AllRead ==
  ASSUME TInv, NEW s \in Socket, Silent(s)
  PROVE  Mark(s) = sent[s]
  <1>1. Pend(s) = 0
    BY PendingSpeaks DEF Pend
  <1>2. Cur(s) = 0
    BY DEF Cur, Silent
  <1>3. sent[s] \in Nat
    BY MarkType
  <1> QED BY <1>1, <1>2, <1>3 DEF Mark

LEMMA ArrivedIs ==
  ASSUME TInv, NEW s \in Socket
  PROVE  Arrived(s) \in Seq(Element) /\ Mark(s) \in Int
  BY ArrivedType, MarkType

LEMMA ArrivedAfter ==
  ASSUME NEW s \in Socket, TInv'
  PROVE  Arrived(s)' \in Seq(Element) /\ Mark(s)' \in Int
  <1> DEFINE X == TInv => Arrived(s) \in Seq(Element) /\ Mark(s) \in Int
  <1>1. X'
    BY ArrivedIs, PTL
  <1> QED BY <1>1



LEMMA LostStays ==
  ASSUME TInv, [Next]_vars, NEW s \in Socket, ~modem_open(s), Lost(s)
  PROVE  Lost(s)'
  <1>1. PICK l \in lapse[s] : l \in {"no buffer", "overflow", "gave up"}
    BY DEF Lost
  <1>2. l \in lapse'[s]
    BY <1>1, LapseStays
  <1> QED BY <1>1, <1>2 DEF Lost

LEMMA InOrderKept ==
  ASSUME Prompt = TRUE, GInv, Flow, InOrder, [Next]_vars, GInv'
  PROVE  InOrder'
  <1>0. TInv /\ Use /\ Sums /\ TInv' /\ Linked /\ Clean
    BY DEF GInv, Use
  <1> SUFFICES ASSUME NEW s \in Socket
               PROVE  /\ base'[s] <= Mark(s)' /\ Ordered(s, Arrived(s)', base'[s], Mark(s)')
                      /\ Lost(s)' \/ Whole(Arrived(s)', base'[s])
                      /\ link'[s] => Lost(s)' \/ base'[s] + Len(Arrived(s)') = Mark(s)'
    BY DEF InOrder, Ordered, Whole
  <1> DEFINE a == Arrived(s)
             lo == base[s]
             hi == Mark(s)
  <1>1. /\ a \in Seq(Element) /\ lo \in Nat /\ hi \in Int /\ Mark(s)' \in Int /\ Arrived(s)' \in Seq(Element)
        /\ Bytes(s) \in Seq(Element)
    <2>1. Mark(s)' \in Int /\ Arrived(s)' \in Seq(Element)
      BY <1>0, ArrivedAfter
    <2> QED BY <1>0, <2>1, ArrivedType, MarkType
  <1>2. lo <= hi /\ Ordered(s, a, lo, hi) /\ (Lost(s) \/ Whole(a, lo)) /\ (link[s] => Lost(s) \/ lo + Len(a) = hi)
    BY DEF InOrder
  <1>3. CASE modem_open(s)
    <2>1. /\ ~link[s] /\ got'[s] = <<>> /\ base'[s] = sent[s] /\ \A t \in Thread : on[t] # s
          /\ UNCHANGED <<rx, rx_buf, line, uart, owed, sent>>
      BY <1>0, <1>3 DEF modem_open, TInv, LogType, data
    <2>2. rx_buf[s] = None /\ Silent(s)
      BY <1>0, <2>1 DEF Clean, Linked
    <2>3. Arrived(s)' = <<>>
      BY <2>1, <2>2 DEF Arrived, Bytes
    <2>4. Mark(s)' = sent[s] /\ sent[s] \in Nat
      <3>1. Mark(s)' = Mark(s)
        BY <2>1 DEF Mark, Pend, Cur, Pending
      <3> QED BY <1>0, <2>2, <3>1, AllRead, MarkType
    <2> QED BY <2>1, <2>3, <2>4 DEF Ordered, Whole
  <1>4. CASE Appended(s)
    <2>1. UNCHANGED <<got, base, lapse, link>> /\ rx.s = s /\ rx_buf[s] # None /\ rx_buf'[s] # None
      BY <1>4 DEF Appended
    <2>2. PICK d \in Seq(Element) :
             /\ rx_buf'[s].bytes = rx_buf[s].bytes \o d
             /\ Mark(s)' = Mark(s) + Len(d)
             /\ \A j \in 1 .. Len(d) : d[j] = Data(s, Mark(s) + j)
      BY <1>4 DEF Appended
    <2>3. Arrived(s)' = a \o d
      <3>1. Arrived(s)' = got[s] \o (Bytes(s) \o d)
        BY <2>1, <2>2 DEF Arrived, Bytes
      <3>2. got[s] \in Seq(Element) /\ Bytes(s) \in Seq(Element) /\ d \in Seq(Element)
        BY <1>0, ArrivedType
      <3>3. got[s] \o (Bytes(s) \o d) = (got[s] \o Bytes(s)) \o d
        <4> DEFINE p == got[s]
                   q == Bytes(s)
        <4>1. p \in Seq(Element) /\ q \in Seq(Element) /\ d \in Seq(Element)
          BY <3>2
        <4> HIDE DEF p, q
        <4>2. p \o (q \o d) = (p \o q) \o d
          BY ONLY <4>1
        <4> QED BY <4>2 DEF p, q
      <3> QED BY <3>1, <3>3 DEF Arrived
    <2>4. Lost(s) <=> Lost(s)'
      BY <2>1 DEF Lost
    <2>5. link[s]
      BY <1>0, <2>1, AtRx
    <2> HIDE DEF a, lo, hi
    <2>6. /\ Ordered(s, a, lo, hi) => Ordered(s, a \o d, lo, hi + Len(d))
          /\ Whole(a, lo) /\ lo + Len(a) = hi => Whole(a \o d, lo)
      BY <1>1, <1>2, <2>2, OrderedJoin DEF hi
    <2>7. Len(a \o d) = Len(a) + Len(d) /\ Len(a) \in Nat /\ Len(d) \in Nat
      BY <1>1
    <2>8. Mark(s)' = hi + Len(d) /\ base'[s] = lo
      BY <2>1, <2>2 DEF hi, lo
    <2>9. lo <= hi + Len(d)
      BY <1>1, <1>2, <2>7
    <2>10. Lost(s) \/ (Whole(a \o d, lo) /\ lo + Len(a \o d) = hi + Len(d))
      <3>1. CASE Lost(s)
        BY <3>1
      <3>2. CASE ~Lost(s)
        <4>1. Whole(a, lo) /\ lo + Len(a) = hi
          BY <1>2, <2>5, <3>2
        <4>2. Whole(a \o d, lo)
          BY <2>6, <4>1
        <4>3. lo + Len(a \o d) = hi + Len(d)
          <5>1. lo + Len(a) = hi /\ lo \in Nat /\ hi \in Int
            BY <1>1, <4>1
          <5> QED BY ONLY <2>7, <5>1
        <4> QED BY <4>2, <4>3
      <3> QED BY <3>1, <3>2
    <2> QED BY <1>2, <2>3, <2>4, <2>6, <2>8, <2>9, <2>10
  <1>5. CASE ~modem_open(s) /\ ~Appended(s) /\ Dropped(s)
    <2>1. rx.s = s /\ Lost(s)' /\ UNCHANGED <<got, rx_buf, base, link>> /\ Mark(s)' >= Mark(s)
      BY <1>5 DEF Dropped
    <2>2. Arrived(s)' = a
      BY <2>1 DEF Arrived, Bytes
    <2> QED BY <1>1, <1>2, <2>1, <2>2, OrderedGrows
  <1>6. CASE ~modem_open(s) /\ ~Appended(s) /\ ~Dropped(s)
    <2>1. Mark(s)' = hi
      BY <1>0, <1>6, MarkChange
    <2>2. ~(rx_read /\ rx.s = s)
      <3> SUFFICES ASSUME rx_read, rx.s = s PROVE FALSE
        OBVIOUS
      <3>1. Pending' = Pending /\ Coming
        BY <1>0, ReadAfter DEF Flow
      <3> QED BY <1>0, <1>6, <3>1, ReadMoves
    <2>3. /\ base'[s] = lo
          /\ \/ Arrived(s)' = a
             \/ Arrived(s)' \o Bytes(s) = a /\ ~link[s] /\ UNCHANGED link
      BY <1>0, <1>6, <2>2, ArrivedChange
    <2>4. Lost(s) => Lost(s)'
      BY <1>0, <1>6, LostStays
    <2>5. link'[s] => link[s]
      BY <1>0, <1>6, LinkChange
    <2>6. CASE Arrived(s)' = a
      BY <1>2, <2>1, <2>3, <2>4, <2>5, <2>6
    <2>7. CASE Arrived(s)' \o Bytes(s) = a /\ ~link[s]
      <3>1. Ordered(s, Arrived(s)', lo, hi) /\ (Whole(a, lo) => Whole(Arrived(s)', lo))
        <4> DEFINE p == Arrived(s)'
                   q == Bytes(s)
        <4>1. p \in Seq(Element) /\ q \in Seq(Element) /\ p \o q = a
          BY <1>1, <2>7
        <4> HIDE DEF p, q, a, lo, hi
        <4>2. /\ Ordered(s, p \o q, lo, hi) => Ordered(s, p, lo, hi)
              /\ Whole(p \o q, lo) => Whole(p, lo)
          BY <1>1, <4>1, OrderedCut
        <4>3. Ordered(s, p, lo, hi) /\ (Whole(a, lo) => Whole(p, lo))
          BY <1>2, <4>1, <4>2
        <4> QED BY <4>3 DEF p
      <3> QED BY <1>2, <2>1, <2>3, <2>4, <2>5, <2>7, <3>1
    <2> QED BY <2>3, <2>6, <2>7
  <1> QED BY <1>3, <1>4, <1>5, <1>6

LEMMA StreamInit == Init => Flow /\ InOrder
  <1> SUFFICES ASSUME Init PROVE Flow /\ InOrder
    OBVIOUS
  <1> USE DEF Init
  <1>1. Pending = LF /\ rx.pc = "idle"
    BY DEF Pending, Idle
  <1>2. Flow
    BY <1>1 DEF Flow, HeaderLast, Follows, Coming
  <1>3. \A s \in Socket : Mark(s) = 0 /\ Arrived(s) = <<>> /\ base[s] = 0 /\ ~link[s]
    BY <1>1 DEF Mark, Pend, Cur, Arrived, Bytes
  <1>4. \A s \in Socket : Ordered(s, <<>>, 0, 0) /\ Whole(<<>>, 0)
    BY DEF Ordered, Whole
  <1> QED BY <1>2, <1>3, <1>4 DEF InOrder

LEMMA GivesStream ==
  ASSUME orphaned = {} => GInv /\ Flow /\ InOrder
  PROVE  StreamIntact
  <1> SUFFICES ASSUME GInv, InOrder, NEW s \in Socket
               PROVE  /\ \A i \in DOMAIN Arrived(s) :
                            /\ Arrived(s)[i].k = "data" /\ Arrived(s)[i].s = s
                            /\ Arrived(s)[i].b > IF i = 1 THEN base[s] ELSE Arrived(s)[i - 1].b
                            /\ Lost(s) \/ Arrived(s)[i].b = base[s] + i
                      /\ link[s] /\ Silent(s) /\ ~Lost(s) => Len(Arrived(s)) = sent[s] - base[s]
    BY DEF StreamIntact
  <1>1. TInv
    BY DEF GInv
  <1>2. /\ Ordered(s, Arrived(s), base[s], Mark(s)) /\ (Lost(s) \/ Whole(Arrived(s), base[s]))
        /\ link[s] => Lost(s) \/ base[s] + Len(Arrived(s)) = Mark(s)
    BY DEF InOrder
  <1>3. \A i \in DOMAIN Arrived(s) :
           /\ Arrived(s)[i].k = "data" /\ Arrived(s)[i].s = s
           /\ Arrived(s)[i].b > IF i = 1 THEN base[s] ELSE Arrived(s)[i - 1].b
           /\ Lost(s) \/ Arrived(s)[i].b = base[s] + i
    BY <1>2 DEF Ordered, Whole
  <1>4. ASSUME link[s], Silent(s), ~Lost(s) PROVE Len(Arrived(s)) = sent[s] - base[s]
    <2>1. base[s] + Len(Arrived(s)) = sent[s]
      BY <1>1, <1>2, <1>4, AllRead
    <2>2. Len(Arrived(s)) \in Nat /\ base[s] \in Nat /\ sent[s] \in Nat
      BY <1>1, ArrivedType, MarkType
    <2> QED BY <2>1, <2>2
  <1> QED BY <1>3, <1>4

(* Where RX meets a header before the first byte after it arrives, and no  *)
(* socket was closed with more to come for it, a reader is given what the  *)
(* peer sent to its connection, in order, nothing twice and nothing of     *)
(* another socket or of the protocol, and all of it unless a loss was      *)
(* logged; however the bytes are cut into URCs, chunks and reads.          *)
THEOREM StreamKept ==
  ASSUME Prompt = TRUE
  PROVE  Spec => []StreamIntact
  <1> DEFINE SInv == orphaned = {} => GInv /\ Flow /\ InOrder
  <1>1. Init => SInv
    BY GInit, StreamInit
  <1>2. SInv /\ [Next]_vars => SInv'
    <2> SUFFICES ASSUME GInv, Flow, InOrder, [Next]_vars, orphaned' = {} PROVE (GInv /\ Flow /\ InOrder)'
      BY OrphansStay
    <2>1. GInv'
      BY GStep
    <2>2. TInv /\ Use /\ TInv' /\ HeaderLast /\ Follows /\ Coming
      BY <2>1 DEF GInv, Flow
    <2>3. Flow'
      BY <2>2, HeaderLastKept, FollowsKept, ComingKept DEF Flow
    <2>4. InOrder'
      BY <2>1, InOrderKept
    <2> QED BY <2>1, <2>3, <2>4
  <1>3. SInv => StreamIntact
    BY GivesStream
  <1> QED BY <1>1, <1>2, <1>3, PTL DEF Spec

=============================================================================
