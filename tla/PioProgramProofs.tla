---------------------------- MODULE PioProgramProofs ----------------------------
(***************************************************************************)
(* PioProgram, for every width of word and register: the types of its      *)
(* state, what TX puts on the line and when, that the receiver misses no   *)
(* word, and that it implements WordLine. The arguments are about time: at *)
(* which cycle of a frame each instruction runs.                           *)
(***************************************************************************)
EXTENDS PioProgram, SequenceTheorems, NaturalsInduction, WellFoundedInduction, TLAPS

-----------------------------------------------------------------------------
(* Powers of two. Induction being out of reach, a fact about every number  *)
(* is found from the least number at which it would fail.                  *)

LEMMA LeastOf ==
  ASSUME NEW S \in SUBSET Nat, S # {}
  PROVE  \E x \in S : \A k \in S : x <= k
  <1> DEFINE R == OpToRel(<, Nat)
  <1>1. IsWellFoundedOn(R, Nat)
    BY NatLessThanWellFounded
  <1>2. PICK x \in S : \A k \in S : <<k, x>> \notin R
    <2> HIDE DEF R
    <2> QED BY <1>1, WFMin
  <1>3. \A k \in S : x <= k
    <2>1. ASSUME NEW k \in S, k < x PROVE <<k, x>> \in R
      <3>1. <<k, x>> \in Nat \X Nat /\ <<k, x>>[1] = k /\ <<k, x>>[2] = x
        OBVIOUS
      <3> QED BY <2>1, <3>1, Zenon DEF OpToRel
    <2>2. \A k \in S : ~(k < x)
      BY <1>2, <2>1, Zenon
    <2> QED BY <2>2
  <1> QED BY <1>3

(* A function that doubles up to n. *)
Doubles(n, f) == f[0] = 1 /\ \A i \in 1 .. n : f[i] = 2 * f[i - 1]

LEMMA DoublesUpTo ==
  ASSUME NEW n \in Nat
  PROVE  \E f \in [0 .. n -> Nat \ {0}] : Doubles(n, f)
  <1> DEFINE P(m) == \E f \in [0 .. m -> Nat \ {0}] : Doubles(m, f)
             S == {m \in Nat : ~P(m)}
  <1> SUFFICES ASSUME S # {} PROVE FALSE
    OBVIOUS
  <1> HIDE DEF P
  <1>1. PICK k \in S : \A j \in S : k <= j
    BY LeastOf
  <1>2. P(0)
    <2>1. [i \in 0 .. 0 |-> 1] \in [0 .. 0 -> Nat \ {0}] /\ [i \in 0 .. 0 |-> 1][0] = 1 /\ 1 .. 0 = {}
      OBVIOUS
    <2> QED BY <2>1 DEF P, Doubles
  <1>3. k \in Nat /\ k # 0 /\ k - 1 \in Nat /\ k - 1 \notin S
    BY <1>1, <1>2
  <1>4. PICK f \in [0 .. k - 1 -> Nat \ {0}] : Doubles(k - 1, f)
    BY <1>3 DEF P
  <1> DEFINE g == [i \in 0 .. k |-> IF i = k THEN 2 * f[k - 1] ELSE f[i]]
  <1>5. f[k - 1] \in Nat \ {0} /\ 2 * f[k - 1] \in Nat \ {0}
    BY <1>3, <1>4
  <1>6. g \in [0 .. k -> Nat \ {0}]
    <2> SUFFICES ASSUME NEW i \in 0 .. k PROVE g[i] \in Nat \ {0}
      OBVIOUS
    <2>1. i # k => i \in 0 .. k - 1
      BY <1>3
    <2> QED BY <1>4, <1>5, <2>1
  <1>7. g[0] = 1
    BY <1>3, <1>4 DEF Doubles
  <1>8. ASSUME NEW i \in 1 .. k PROVE g[i] = 2 * g[i - 1]
    <2>1. i - 1 \in 0 .. k /\ i - 1 # k /\ i \in 0 .. k
      BY <1>3
    <2>2. g[i - 1] = f[i - 1]
      BY <2>1
    <2>3. CASE i = k
      BY <2>1, <2>2, <2>3
    <2>4. CASE i # k
      <3>1. i \in 1 .. k - 1
        BY <1>3, <2>4
      <3> QED BY <1>4, <2>1, <2>2, <2>4, <3>1 DEF Doubles
    <2> QED BY <2>3, <2>4
  <1> HIDE DEF g
  <1>9. P(k)
    BY <1>6, <1>7, <1>8 DEF P, Doubles
  <1> QED BY <1>1, <1>9

LEMMA DoublesAlike ==
  ASSUME NEW n \in Nat, NEW m \in Nat, n <= m,
         NEW f \in [0 .. n -> Nat \ {0}], Doubles(n, f),
         NEW g \in [0 .. m -> Nat \ {0}], Doubles(m, g)
  PROVE  \A i \in 0 .. n : f[i] = g[i]
  <1> DEFINE S == {i \in 0 .. n : f[i] # g[i]}
  <1> SUFFICES ASSUME S # {} PROVE FALSE
    OBVIOUS
  <1>0. S \in SUBSET Nat
    OBVIOUS
  <1>1. PICK k \in S : \A j \in S : k <= j
    BY <1>0, LeastOf
  <1>2. k # 0 /\ k \in 1 .. n /\ k \in 1 .. m /\ k - 1 \in 0 .. n
    BY <1>1 DEF Doubles
  <1>3. f[k - 1] = g[k - 1]
    BY <1>1, <1>2
  <1>4. f[k] = 2 * f[k - 1] /\ g[k] = 2 * g[k - 1]
    BY <1>2 DEF Doubles
  <1> QED BY <1>1, <1>3, <1>4

LEMMA Powers ==
  /\ Pow2 \in [Nat -> Nat \ {0}] /\ Pow2[0] = 1
  /\ \A n \in Nat : Pow2[n + 1] = 2 * Pow2[n]
  <1> DEFINE P(f) == f = [n \in Nat |-> IF n = 0 THEN 1 ELSE 2 * f[n - 1]]
             upto(n) == CHOOSE f \in [0 .. n -> Nat \ {0}] : Doubles(n, f)
             h == [n \in Nat |-> upto(n)[n]]
  <1>1. \A n \in Nat : upto(n) \in [0 .. n -> Nat \ {0}] /\ Doubles(n, upto(n))
    BY DoublesUpTo
  <1> HIDE DEF upto
  <1>2. ASSUME NEW n \in Nat, n # 0 PROVE upto(n)[n] = 2 * upto(n - 1)[n - 1]
    <2>1. n - 1 \in Nat /\ n - 1 <= n /\ n \in 1 .. n /\ n - 1 \in 0 .. n - 1
      BY <1>2
    <2>2. upto(n - 1)[n - 1] = upto(n)[n - 1]
      <3> DEFINE f == upto(n - 1)
                 g == upto(n)
      <3>1. f \in [0 .. n - 1 -> Nat \ {0}] /\ Doubles(n - 1, f)
        BY <1>1, <2>1
      <3>2. g \in [0 .. n -> Nat \ {0}] /\ Doubles(n, g)
        BY <1>1
      <3> HIDE DEF f, g
      <3>3. \A i \in 0 .. n - 1 : f[i] = g[i]
        BY <2>1, <3>1, <3>2, DoublesAlike
      <3> QED BY <2>1, <3>3 DEF f, g
    <2>3. upto(n)[n] = 2 * upto(n)[n - 1]
      BY <1>1, <2>1 DEF Doubles
    <2> QED BY <2>2, <2>3
  <1>3. upto(0)[0] = 1
    BY <1>1 DEF Doubles
  <1>4. P(h)
    <2>1. \A n \in Nat : h[n] = IF n = 0 THEN 1 ELSE 2 * h[n - 1]
      <3> SUFFICES ASSUME NEW n \in Nat PROVE h[n] = IF n = 0 THEN 1 ELSE 2 * h[n - 1]
        OBVIOUS
      <3>1. n # 0 => n - 1 \in Nat
        OBVIOUS
      <3> QED BY <1>2, <1>3, <3>1
    <2> QED BY <2>1
  <1>5. Pow2 = CHOOSE f : P(f)
    BY DEF Pow2
  <1>6. P(Pow2)
    <2> HIDE DEF P, h
    <2> QED BY <1>4, <1>5
  <1>7. Pow2[0] = 1 /\ \A n \in Nat : n # 0 => Pow2[n] = 2 * Pow2[n - 1]
    <2> HIDE DEF h
    <2>1. \A n \in Nat : Pow2[n] = IF n = 0 THEN 1 ELSE 2 * Pow2[n - 1]
      BY <1>6
    <2> QED BY <2>1
  <1>8. \A n \in Nat : Pow2[n] \in Nat \ {0}
    <2> DEFINE S == {n \in Nat : Pow2[n] \notin Nat \ {0}}
    <2> SUFFICES ASSUME S # {} PROVE FALSE
      OBVIOUS
    <2>1. PICK k \in S : \A j \in S : k <= j
      BY LeastOf
    <2>2. k # 0 /\ k - 1 \in Nat /\ k - 1 \notin S
      BY <1>7, <2>1
    <2>3. Pow2[k - 1] \in Nat \ {0} /\ Pow2[k] = 2 * Pow2[k - 1]
      BY <1>7, <2>1, <2>2
    <2> QED BY <2>1, <2>3
  <1>9. Pow2 \in [Nat -> Nat \ {0}]
    <2>1. Pow2 = [n \in Nat |-> Pow2[n]]
      <3> HIDE DEF h
      <3> QED BY <1>6
    <2> QED BY <1>8, <2>1
  <1>10. ASSUME NEW n \in Nat PROVE Pow2[n + 1] = 2 * Pow2[n]
    <2>1. n + 1 \in Nat /\ n + 1 # 0 /\ (n + 1) - 1 = n
      OBVIOUS
    <2> QED BY <1>7, <2>1
  <1> QED BY <1>7, <1>9, <1>10

LEMMA SmallPowers == Pow2[1] = 2 /\ Pow2[2] = 4 /\ Pow2[3] = 8 /\ Pow2[4] = 16
  <1>1. Pow2[1] = 2
    BY Powers, 1 = 0 + 1
  <1>2. Pow2[2] = 4
    BY Powers, <1>1, 2 = 1 + 1
  <1>3. Pow2[3] = 8
    BY Powers, <1>2, 3 = 2 + 1
  <1> QED BY Powers, <1>1, <1>2, <1>3, 4 = 3 + 1

-----------------------------------------------------------------------------
(* Cutting words. *)

LEMMA Division ==
  ASSUME NEW a \in Nat, NEW p \in Nat \ {0}
  PROVE  /\ a \div p \in Nat /\ a % p \in 0 .. p - 1 /\ a = p * (a \div p) + (a % p)
         /\ (a \div p) \div 2 = a \div (2 * p)
  OBVIOUS

LEMMA DivisionIs ==
  ASSUME NEW p \in Nat \ {0}, NEW q \in Nat, NEW r \in 0 .. p - 1
  PROVE  (p * q + r) \div p = q /\ (p * q + r) % p = r
  OBVIOUS

(* The low bits of a word with one more of them. *)
LEMMA OneMoreBit ==
  ASSUME NEW a \in Nat, NEW p \in Nat \ {0}
  PROVE  a % (2 * p) = (a % p) + ((a \div p) % 2) * p
  <1> DEFINE d == a \div p
             r == a % p
  <1>1. d \in Nat /\ r \in 0 .. p - 1 /\ a = p * d + r
    BY Division
  <1> DEFINE e == d \div 2
             b == d % 2
  <1>2. e \in Nat /\ b \in {0, 1} /\ d = 2 * e + b
    BY <1>1
  <1> HIDE DEF d, r, e, b
  <1>3. b * p \in {0, p} /\ r + b * p \in 0 .. 2 * p - 1
    BY <1>1, <1>2
  <1>4. p * d = 2 * p * e + b * p
    <2>1. CASE b = 0
      BY <1>1, <1>2, <2>1
    <2>2. CASE b = 1
      BY <1>1, <1>2, <2>2
    <2> QED BY <1>2, <2>1, <2>2
  <1>5. a = (2 * p) * e + (r + b * p) /\ 2 * p \in Nat \ {0}
    BY <1>1, <1>2, <1>3, <1>4
  <1>6. a % (2 * p) = r + b * p
    BY <1>2, <1>3, <1>5, DivisionIs
  <1> QED BY <1>6 DEF d, r, b

(* A word with something above it. *)
LEMMA TopBits ==
  ASSUME NEW a \in Nat, NEW p \in Nat \ {0}, NEW q \in Nat \ {0}, NEW b \in {0, 1}
  PROVE  (a + b * (p * q)) \div p = (a \div p) + b * q
  OBVIOUS

LEMMA BitIs ==
  ASSUME NEW w \in Nat, NEW k \in Nat
  PROVE  /\ Bit(w, k) \in {0, 1} /\ Bit(w, k) = (w \div Pow2[k]) % 2
         /\ (w \div Pow2[k]) \div 2 = w \div Pow2[k + 1]
         /\ w % Pow2[k + 1] = (w % Pow2[k]) + Bit(w, k) * Pow2[k]
  <1>1. Pow2[k] \in Nat \ {0} /\ Pow2[k + 1] = 2 * Pow2[k]
    BY Powers
  <1>2. w \div Pow2[k] \in Nat /\ (w \div Pow2[k]) \div 2 = w \div Pow2[k + 1]
    BY <1>1, Division
  <1>3. (w \div Pow2[k]) % 2 \in {0, 1}
    BY <1>2
  <1> QED BY <1>1, <1>2, <1>3, OneMoreBit DEF Bit

-----------------------------------------------------------------------------
(* The types. For them: a word is only counted as gone if there is one, and *)
(* a frame is always of a word.                                            *)

Owing  == Len(going) >= Len(tx_fifo) + (IF tx.pc = 1 THEN 1 ELSE 0) + (IF age > 0 THEN 1 ELSE 0)
Framed == device.cell <= Stop => device.word \in Word

TInv == TypeOK /\ Owing /\ Framed

LEMMA Constants ==
  /\ DataBits \in Nat \ {0} /\ IsrBits \in Nat \ {0} /\ RxDepth \in Nat \ {0} /\ TxDepth \in Nat \ {0}
  /\ SIDESET_BIT_COUNT \in 1 .. 5 /\ DataBits <= IsrBits
  /\ Word \subseteq 0 .. Pow2[DataBits] - 1 /\ Word \subseteq Nat /\ Out \subseteq Nat
  /\ Slip \in 0 .. 7 /\ Breaks \subseteq Nat \ {0}
  /\ y \in Nat /\ y = DataBits - 1
  <1>1. \A n \in {DataBits, IsrBits, SIDESET_BIT_COUNT, RxDepth, TxDepth} : n \in Nat \ {0}
    BY ProgramAssumption
  <1>2. DataBits \in Nat \ {0} /\ Pow2[DataBits] \in Nat
    BY <1>1, Powers
  <1>3. Word \subseteq 0 .. Pow2[DataBits] - 1 /\ Word \subseteq Nat
    BY <1>2, ProgramAssumption
  <1> QED BY <1>1, <1>3, ProgramAssumption DEF y

LEMMA Delays ==
  ASSUME NEW f \in 0 .. 31
  PROVE  Delay(f) \in 0 .. 15 /\ Side(f) \in {0, 1}
  <1>1. 5 - SIDESET_BIT_COUNT \in 0 .. 4
    BY Constants
  <1>2. Pow2[5 - SIDESET_BIT_COUNT] \in {1, 2, 4, 8, 16}
    BY <1>1, SmallPowers, Powers
  <1> DEFINE p == Pow2[5 - SIDESET_BIT_COUNT]
  <1> HIDE DEF p
  <1>3. p \in 1 .. 16
    BY <1>2 DEF p
  <1>4. f % p \in 0 .. 15 /\ f \div p \in Nat
    BY <1>3, Division
  <1> QED BY <1>4 DEF Delay, Side, p

LEMMA Fields ==
  ASSUME TypeOK
  PROVE  /\ tx.pc \in 0 .. 3 /\ tx.delay \in 0 .. 15 /\ tx.x \in 0 .. y /\ tx.osr \in Nat
         /\ rx.pc \in 0 .. 10 /\ rx.delay \in 0 .. 15 /\ rx.x \in 0 .. y /\ rx.isr \in 0 .. Pow2[IsrBits] - 1
         /\ device.cell \in 0 .. Low /\ device.left \in Nat \ {0} /\ device.drift \in -Slip .. Slip
         /\ device.word \in Word \cup {0} /\ device.word \in Nat
  <1>1. tx \in [pc : 0 .. 3, delay : 0 .. 15, x : 0 .. DataBits - 1, osr : Nat]
    BY DEF TypeOK
  <1>2. rx \in [pc : 0 .. 10, delay : 0 .. 15, x : 0 .. DataBits - 1, isr : 0 .. Pow2[IsrBits] - 1]
    BY DEF TypeOK
  <1>3. device \in [cell : 0 .. Low, left : Nat \ {0}, drift : -Slip .. Slip, word : Word \cup {0}]
    BY DEF TypeOK
  <1>4. device.word \in Word \cup {0} /\ device.word \in Nat
    <2>1. Word \subseteq Nat
      BY Constants
    <2>2. device.word \in Word \/ device.word = 0
      BY <1>3
    <2>3. device.word \in Word => device.word \in Nat
      BY <2>1, Zenon
    <2> QED BY <2>2, <2>3
  <1>5. device.cell \in 0 .. Low /\ device.left \in Nat \ {0} /\ device.drift \in -Slip .. Slip
    BY <1>3
  <1>6. y = DataBits - 1
    BY Constants
  <1>7. tx.pc \in 0 .. 3 /\ tx.delay \in 0 .. 15 /\ tx.x \in 0 .. y /\ tx.osr \in Nat
    BY <1>1, <1>6
  <1>8. rx.pc \in 0 .. 10 /\ rx.delay \in 0 .. 15 /\ rx.x \in 0 .. y /\ rx.isr \in 0 .. Pow2[IsrBits] - 1
    BY <1>2, <1>6
  <1> QED BY <1>4, <1>5, <1>7, <1>8, Zenon

LEMMA LevelIs ==
  ASSUME TypeOK
  PROVE  Level \in {0, 1}
  <1>1. device.cell \in 0 .. Low /\ device.word \in Nat /\ tx_pin \in {0, 1} /\ DataBits \in Nat \ {0}
    BY Fields, Constants DEF TypeOK
  <1>2. device.cell # 0 => device.cell - 1 \in Nat
    BY <1>1
  <1>3. device.cell - 1 \in Nat => Bit(device.word, device.cell - 1) \in {0, 1}
    BY <1>1, BitIs
  <1>4. Start # Low /\ Start # Stop /\ Start # Quiet /\ Low # Stop /\ Low # Quiet /\ Start = 0
    BY Constants DEF Start, Stop, Quiet, Low
  <1> HIDE DEF Start, Stop, Quiet, Low
  <1>5. CASE device.cell \in {Start, Low} \/ far = "driver"
    BY <1>1, <1>4, <1>5 DEF Level
  <1>6. CASE device.cell \in {Stop, Quiet} /\ far # "driver"
    BY <1>4, <1>6 DEF Level
  <1>7. CASE device.cell \notin {Start, Low, Stop, Quiet} /\ far # "driver"
    BY <1>2, <1>3, <1>4, <1>7 DEF Level
  <1> QED BY <1>5, <1>6, <1>7

LEMMA SequenceFacts ==
  ASSUME NEW S, NEW q \in Seq(S)
  PROVE  /\ Len(q) \in Nat
         /\ q # <<>> => /\ Head(q) \in S /\ Tail(q) \in Seq(S) /\ Len(q) >= 1
                        /\ Len(Tail(q)) = Len(q) - 1 /\ Head(q) = q[1]
         /\ \A e \in S : Append(q, e) \in Seq(S) /\ Len(Append(q, e)) = Len(q) + 1
         /\ (q = <<>> <=> Len(q) = 0)
  OBVIOUS

TxRecord == [pc : 0 .. 3, delay : 0 .. 15, x : 0 .. y, osr : Nat]

LEMMA TxTypes ==
  ASSUME TInv, uart_tx
  PROVE  /\ tx' \in TxRecord /\ tx_pin' \in {0, 1}
         /\ tx_fifo' \in Seq(Out) /\ Len(tx_fifo') <= TxDepth
  <1>0. /\ tx \in TxRecord /\ tx_pin \in {0, 1} /\ y \in Nat
        /\ tx_fifo \in Seq(Out) /\ Len(tx_fifo) <= TxDepth
    BY Constants DEF TInv, TypeOK, TxRecord, y
  <1>1. Delay(31) \in 0 .. 15 /\ Delay(23) \in 0 .. 15 /\ Delay(6) \in 0 .. 15
    BY Delays
  <1>2. Pinned(31) \in {0, 1} /\ Pinned(23) \in {0, 1}
    BY <1>0, Delays DEF Pinned
  <1>t. tx_fifo # <<>> => Head(tx_fifo) \in Nat
    BY <1>0, SequenceFacts, Constants
  <1> HIDE DEF Delay, Pinned
  <1>3. tx' \in TxRecord
    <2> DEFINE A == 0 .. 3
               B == 0 .. 15
               C == 0 .. y
    <2>0. /\ tx \in [pc : A, delay : B, x : C, osr : Nat] /\ {0, 1, 2, 3} \subseteq A
          /\ {Delay(31), Delay(23), Delay(6)} \subseteq B /\ y \in C /\ 0 \in C
          /\ (tx.x > 0 => tx.x - 1 \in C) /\ (tx.delay > 0 => tx.delay - 1 \in B) /\ tx.osr \div 2 \in Nat
      BY <1>0, <1>1 DEF TxRecord
    <2> HIDE DEF A, B, C
    <2> SUFFICES tx' \in [pc : A, delay : B, x : C, osr : Nat]
      BY DEF A, B, C, TxRecord
    <2>1. CASE tx_delay
      BY <2>0, <2>1 DEF tx_delay
    <2>2. CASE pull
      BY <2>0, <1>t, <2>2 DEF pull
    <2>3. CASE mov_start
      BY <2>0, <2>3 DEF mov_start
    <2>4. CASE out
      BY <2>0, <2>4 DEF out
    <2>5. CASE jmp_bit
      BY <2>0, <2>5 DEF jmp_bit
    <2> QED BY <2>1, <2>2, <2>3, <2>4, <2>5 DEF uart_tx
  <1>4. tx_pin' \in {0, 1}
    <2>1. tx.osr \in Nat
      BY <1>0 DEF TxRecord
    <2> QED BY <1>0, <1>2, <2>1 DEF uart_tx, tx_delay, pull, mov_start, out, jmp_bit
  <1>5. tx_fifo' \in Seq(Out) /\ Len(tx_fifo') <= TxDepth
    <2>1. tx_fifo' = tx_fifo \/ (tx_fifo # <<>> /\ tx_fifo' = Tail(tx_fifo))
      BY DEF uart_tx, tx_delay, pull, mov_start, out, jmp_bit
    <2> QED BY <1>0, <2>1, SequenceFacts, Constants
  <1> QED BY <1>3, <1>4, <1>5

RxRecord == [pc : 0 .. 10, delay : 0 .. 15, x : 0 .. y, isr : 0 .. Pow2[IsrBits] - 1]

LEMMA RxTypes ==
  ASSUME TInv, uart_rx
  PROVE  /\ rx' \in RxRecord /\ irq_flag' \in BOOLEAN
         /\ rx_fifo' \in Seq(0 .. Pow2[IsrBits] - 1) /\ Len(rx_fifo') <= RxDepth
  <1>0. /\ rx \in RxRecord /\ y \in Nat /\ irq_flag \in BOOLEAN
        /\ rx_fifo \in Seq(0 .. Pow2[IsrBits] - 1) /\ Len(rx_fifo) <= RxDepth
    BY Constants DEF TInv, TypeOK, RxRecord, y
  <1>1. Level \in {0, 1}
    BY LevelIs DEF TInv
  <1>2. Pow2[IsrBits] = 2 * Pow2[IsrBits - 1] /\ Pow2[IsrBits - 1] \in Nat \ {0}
    <2>1. IsrBits - 1 \in Nat /\ IsrBits = (IsrBits - 1) + 1
      BY Constants
    <2> QED BY <2>1, Powers
  <1>3. rx' \in RxRecord
    <2>2. (rx.isr \div 2) + Level * Pow2[IsrBits - 1] \in 0 .. Pow2[IsrBits] - 1 /\ 0 \in 0 .. Pow2[IsrBits] - 1
      <3>1. rx.isr \in 0 .. Pow2[IsrBits] - 1
        BY <1>0 DEF RxRecord
      <3> HIDE DEF Level
      <3> QED BY <1>1, <1>2, <3>1
    <2> DEFINE A == 0 .. 10
               B == 0 .. Pow2[IsrBits] - 1
               C == 0 .. y
               E == 0 .. 15
    <2>3. /\ rx \in [pc : A, delay : E, x : C, isr : B] /\ 0 .. 10 \subseteq A /\ {6, 10, 15} \subseteq E
          /\ y \in C /\ 0 \in C /\ (rx.x > 0 => rx.x - 1 \in C) /\ (rx.delay > 0 => rx.delay - 1 \in E)
      BY <1>0 DEF RxRecord
    <2>4. (rx.isr \div 2) + Level * Pow2[IsrBits - 1] \in B /\ 0 \in B
      BY <2>2
    <2>5. /\ 0 \in A /\ 1 \in A /\ 2 \in A /\ 3 \in A /\ 4 \in A /\ 5 \in A /\ 6 \in A /\ 7 \in A
          /\ 8 \in A /\ 9 \in A /\ 10 \in A /\ 6 \in E /\ 10 \in E /\ 15 \in E
      BY <2>3
    <2> HIDE DEF A, B, C, E
    <2> SUFFICES rx' \in [pc : A, delay : E, x : C, isr : B]
      BY DEF RxRecord, A, B, C, E
    <2> USE <2>3, <2>5 DEF Jump
    <2>a. CASE rx_delay
      BY <2>a DEF rx_delay
    <2>b. CASE wait_start
      BY <2>b DEF wait_start
    <2>c. CASE mov_centre
      BY <2>c DEF mov_centre
    <2>d. CASE in_pins
      BY <2>4, <2>d DEF in_pins
    <2>e. CASE jmp_in
      BY <2>e DEF jmp_in
    <2>f. CASE jmp_stop
      BY <2>f DEF jmp_stop
    <2>g. CASE irq
      BY <2>g DEF irq
    <2>h. CASE mov_timeout
      BY <2>h DEF mov_timeout
    <2>i. CASE jmp_idle
      BY <2>i DEF jmp_idle
    <2>j. CASE jmp_wait
      BY <2>j DEF jmp_wait
    <2>k. CASE jmp_start
      BY <2>k DEF jmp_start
    <2>l. CASE push
      BY <2>4, <2>l DEF push
    <2> QED BY <2>a, <2>b, <2>c, <2>d, <2>e, <2>f, <2>g, <2>h, <2>i, <2>j, <2>k, <2>l DEF uart_rx
  <1>4. irq_flag' \in BOOLEAN
    BY <1>0 DEF uart_rx, KeepFlag, rx_delay, wait_start, mov_centre, in_pins, jmp_in, jmp_stop, irq,
       mov_timeout, jmp_idle, jmp_wait, jmp_start, push
  <1>5. rx_fifo' \in Seq(0 .. Pow2[IsrBits] - 1) /\ Len(rx_fifo') <= RxDepth
    <2>1. \/ rx_fifo' = rx_fifo
          \/ ~(Len(rx_fifo) >= RxDepth) /\ rx_fifo' = Append(rx_fifo, rx.isr)
      BY DEF uart_rx, KeepFlag, rx_delay, wait_start, mov_centre, in_pins, jmp_in, jmp_stop, irq,
         mov_timeout, jmp_idle, jmp_wait, jmp_start, push, Stalled
    <2>2. rx.isr \in 0 .. Pow2[IsrBits] - 1
      BY <1>0 DEF RxRecord
    <2> DEFINE B == 0 .. Pow2[IsrBits] - 1
    <2>3. rx_fifo \in Seq(B) /\ rx.isr \in B /\ Len(rx_fifo) <= RxDepth /\ RxDepth \in Nat
      BY <1>0, <2>2, Constants
    <2> HIDE DEF B
    <2>4. rx_fifo' \in Seq(B) /\ Len(rx_fifo') <= RxDepth
      BY <2>1, <2>3, SequenceFacts
    <2> QED BY <2>4 DEF B
  <1> QED BY <1>3, <1>4, <1>5

LEMMA DeviceTypes ==
  ASSUME TInv, device_step
  PROVE  /\ device' \in [cell : 0 .. Low, left : Nat \ {0}, drift : -Slip .. Slip, word : Word \cup {0}]
         /\ Framed'
  <1> USE Constants DEF Stop, Quiet, Low, Start, CYCLES_PER_BIT
  <1>0. /\ device \in [cell : 0 .. Low, left : Nat \ {0}, drift : -Slip .. Slip, word : Word \cup {0}]
        /\ Framed
    BY DEF TInv, TypeOK
  <1>1. CASE device.left > 1 /\ device' = [device EXCEPT !.left = @ - 1]
    BY <1>0, <1>1 DEF Framed
  <1>2. ASSUME device.left = 1, device.cell < Stop, NEW d \in -Slip .. Slip,
               Enter(device.cell + 1, d, device.word)
        PROVE  /\ device' \in [cell : 0 .. Low, left : Nat \ {0}, drift : -Slip .. Slip, word : Word \cup {0}]
               /\ Framed'
    BY <1>0, <1>2 DEF Framed, Enter
  <1>3. CASE Stay(Quiet, 1)
    BY <1>0, <1>3 DEF Framed, Stay
  <1>4. CASE UNCHANGED device
    BY <1>0, <1>4 DEF Framed
  <1>5. ASSUME NEW n \in Breaks, Stay(Low, n)
        PROVE  /\ device' \in [cell : 0 .. Low, left : Nat \ {0}, drift : -Slip .. Slip, word : Word \cup {0}]
               /\ Framed'
    BY <1>0, <1>5 DEF Framed, Stay
  <1>6. ASSUME NEW d \in -Slip .. Slip, NEW w \in Word, Enter(Start, d, w)
        PROVE  /\ device' \in [cell : 0 .. Low, left : Nat \ {0}, drift : -Slip .. Slip, word : Word \cup {0}]
               /\ Framed'
    BY <1>0, <1>6 DEF Framed, Enter
  <1> QED BY <1>1, <1>2, <1>3, <1>4, <1>5, <1>6 DEF device_step

LEMMA GhostTypes ==
  ASSUME TInv, uart_tx, ghost_step
  PROVE  /\ high' \in 0 .. Settled /\ in_step' \in BOOLEAN /\ age' \in 0 .. FrameEnd
         /\ due' \in Seq(Word) /\ going' \in Seq(Out) /\ Owing'
  <1>0. /\ high \in 0 .. Settled /\ in_step \in BOOLEAN /\ age \in 0 .. FrameEnd
        /\ due \in Seq(Word) /\ going \in Seq(Out) /\ tx_fifo \in Seq(Out)
    BY DEF TInv, TypeOK
  <1>1. FrameEnd \in Nat /\ FrameEnd > 0 /\ Settled \in Nat
    BY Constants DEF FrameEnd, Settled, CYCLES_PER_BIT
  <1>2. high' \in 0 .. Settled
    BY <1>0, <1>1 DEF ghost_step
  <1>3. in_step' \in BOOLEAN
    BY DEF ghost_step
  <1>4. age' \in 0 .. FrameEnd
    BY <1>0, <1>1 DEF ghost_step
  <1>5. due' \in Seq(Word)
    <2>1. device.cell = Start => device.word \in Word
      BY Constants DEF TInv, Framed, Start, Stop
    <2>2. \/ due' = <<>> \/ due' = due
          \/ device.cell = Start /\ due' = Append(due, device.word)
          \/ due # <<>> /\ due' = Tail(due)
      BY DEF ghost_step
    <2>3. device.cell = Start => Append(due, device.word) \in Seq(Word)
      BY <1>0, <2>1, SequenceFacts
    <2>4. due # <<>> => Tail(due) \in Seq(Word)
      BY <1>0, SequenceFacts
    <2>5. <<>> \in Seq(Word)
      OBVIOUS
    <2> QED BY <1>0, <2>2, <2>3, <2>4, <2>5
  <1>6. Len(going) \in Nat /\ Len(tx_fifo) \in Nat
    BY <1>0, SequenceFacts
  <1>7. age = FrameEnd => going # <<>>
    BY <1>0, <1>1, <1>6 DEF TInv, Owing
  <1>8. going' \in Seq(Out) /\ Len(going') = IF age = FrameEnd THEN Len(going) - 1 ELSE Len(going)
    BY <1>0, <1>7, SequenceFacts DEF ghost_step
  <1>9. Owing'
    <2>1. Len(tx_fifo') + (IF tx'.pc = 1 THEN 1 ELSE 0)
            <= Len(tx_fifo) + (IF tx.pc = 1 /\ ~At(1) THEN 1 ELSE 0)
      <3>0. tx.pc \in 0 .. 3 /\ Len(tx_fifo') \in Nat
        BY TxTypes, Fields, SequenceFacts DEF TInv
      <3>1. CASE tx_delay
        BY <1>6, <3>1, Fields DEF TInv, tx_delay, At
      <3>2. CASE pull
        BY <1>0, <1>6, <3>2, SequenceFacts, Fields DEF TInv, pull, At
      <3>3. CASE mov_start
        BY <1>6, <3>3, Fields DEF TInv, mov_start, At
      <3>4. CASE out
        BY <1>6, <3>4, Fields DEF TInv, out, At
      <3>5. CASE jmp_bit
        BY <1>6, <3>5, Fields DEF TInv, jmp_bit, At
      <3> QED BY <3>1, <3>2, <3>3, <3>4, <3>5 DEF uart_tx
    <2>2. Len(tx_fifo') \in Nat
      BY TxTypes, SequenceFacts
    <2>3. At(1) => tx.pc = 1
      BY DEF At
    <2> DEFINE n == Len(going)
               m == Len(tx_fifo) + (IF tx.pc = 1 /\ ~At(1) THEN 1 ELSE 0)
               m2 == Len(tx_fifo') + (IF tx'.pc = 1 THEN 1 ELSE 0)
               n2 == Len(going')
    <2>4. age' = IF At(1) THEN 1 ELSE IF age \in 1 .. FrameEnd - 1 THEN age + 1 ELSE 0
      BY DEF ghost_step
    <2>5. n >= m + (IF At(1) THEN 1 ELSE 0) + (IF age > 0 THEN 1 ELSE 0) /\ m \in Nat
      <3>1. Len(going) >= Len(tx_fifo) + (IF tx.pc = 1 THEN 1 ELSE 0) + (IF age > 0 THEN 1 ELSE 0)
        BY DEF TInv, Owing
      <3> DEFINE k == Len(tx_fifo)
      <3>a. age \in Nat
        BY <1>0, <1>1
      <3>2. n \in Nat /\ k \in Nat /\ age \in Nat /\ n >= k + (IF tx.pc = 1 THEN 1 ELSE 0) + (IF age > 0 THEN 1 ELSE 0)
        BY <1>6, <3>1, <3>a, Zenon
      <3> HIDE DEF At, n, k
      <3>3. n >= (k + (IF tx.pc = 1 /\ ~At(1) THEN 1 ELSE 0)) + (IF At(1) THEN 1 ELSE 0) + (IF age > 0 THEN 1 ELSE 0)
        BY <2>3, <3>2
      <3>4. k + (IF tx.pc = 1 /\ ~At(1) THEN 1 ELSE 0) \in Nat
        BY <3>2
      <3> QED BY <3>3, <3>4, Zenon DEF k, m
    <2>6. m2 \in Nat /\ m2 <= m /\ n \in Nat /\ n2 = IF age = FrameEnd THEN n - 1 ELSE n
      BY <1>6, <1>8, <2>1, <2>2
    <2> HIDE DEF At, n, m, n2, m2
    <2>7. n2 >= m2 + (IF age' > 0 THEN 1 ELSE 0)
      <3>1. CASE At(1)
        BY <1>0, <1>1, <2>4, <2>5, <2>6, <3>1
      <3>2. CASE ~At(1)
        BY <1>0, <1>1, <2>4, <2>5, <2>6, <3>2
      <3> QED BY <3>1, <3>2
    <2> QED BY <2>7 DEF n2, m2, Owing
  <1> QED BY <1>2, <1>3, <1>4, <1>5, <1>8, <1>9

LEMMA TypeInit == Init => TInv
  <1> SUFFICES ASSUME Init PROVE TInv
    OBVIOUS
  <1> DEFINE A == 0 .. y
             B == 0 .. Pow2[IsrBits] - 1
  <1>1. 0 \in A /\ 0 \in B /\ y = DataBits - 1
    BY Constants, Powers
  <1>2. far \in FarEnd /\ tx_pin \in {0, 1} /\ irq_flag \in BOOLEAN /\ in_step \in BOOLEAN
    BY DEF Init
  <1>3. device \in [cell : 0 .. Low, left : Nat \ {0}, drift : -Slip .. Slip, word : Word \cup {0}]
    BY Constants DEF Init, Low, Quiet
  <1>4. tx \in [pc : 0 .. 3, delay : 0 .. 15, x : A, osr : Nat]
    <2> HIDE DEF A
    <2> QED BY <1>1 DEF Init
  <1>5. rx \in [pc : 0 .. 10, delay : 0 .. 15, x : A, isr : B]
    <2> HIDE DEF A, B
    <2> QED BY <1>1 DEF Init
  <1>6. /\ rx_fifo \in Seq(B) /\ Len(rx_fifo) = 0 /\ tx_fifo \in Seq(Out) /\ Len(tx_fifo) = 0
        /\ due \in Seq(Word) /\ going \in Seq(Out) /\ Len(going) = 0
    <2> HIDE DEF B
    <2> QED BY DEF Init
  <1>7. Len(rx_fifo) <= RxDepth /\ Len(tx_fifo) <= TxDepth
    BY <1>6, Constants
  <1>8. high \in 0 .. Settled /\ age \in 0 .. FrameEnd
    BY Constants DEF Init, Settled, FrameEnd, CYCLES_PER_BIT
  <1>9. TypeOK
    <2> HIDE DEF A, B
    <2>1. A = 0 .. DataBits - 1 /\ B = 0 .. Pow2[IsrBits] - 1
      BY <1>1 DEF A, B
    <2> QED BY <1>2, <1>3, <1>4, <1>5, <1>6, <1>7, <1>8, <2>1, Zenon DEF TypeOK
  <1>10. Owing /\ Framed
    BY <1>6, Constants DEF Init, Owing, Framed, Quiet, Stop
  <1> QED BY <1>9, <1>10 DEF TInv

LEMMA TypeNext == TInv /\ [Next]_vars => TInv'
  <1> SUFFICES ASSUME TInv, [Next]_vars PROVE TInv'
    OBVIOUS
  <1>0. y = DataBits - 1
    BY Constants
  <1>1. CASE cycle
    <2>1. uart_tx /\ uart_rx /\ device_step /\ ghost_step /\ far' = far
      BY <1>1 DEF cycle
    <2>2. far' \in FarEnd
      BY <2>1 DEF TInv, TypeOK
    <2>3. TypeOK'
      BY <1>0, <2>1, <2>2, TxTypes, RxTypes, DeviceTypes, GhostTypes, Zenon DEF TypeOK, TxRecord, RxRecord
    <2> QED BY <2>1, <2>3, DeviceTypes, GhostTypes DEF TInv
  <1>2. ASSUME NEW w \in Out, poll_out(w) PROVE TInv'
    <2>1. tx_fifo \in Seq(Out) /\ going \in Seq(Out) /\ Len(tx_fifo) <= TxDepth
      BY DEF TInv, TypeOK
    <2>2. /\ tx_fifo' \in Seq(Out) /\ going' \in Seq(Out) /\ Len(tx_fifo') <= TxDepth
          /\ Len(tx_fifo') = Len(tx_fifo) + 1 /\ Len(going') = Len(going) + 1
      BY <1>2, <2>1, SequenceFacts, Constants DEF poll_out
    <2>3. TypeOK'
      BY <1>2, <2>2, Zenon DEF TInv, TypeOK, poll_out
    <2>4. Owing'
      <3>1. Len(tx_fifo) \in Nat /\ Len(going) \in Nat
        BY <2>1, SequenceFacts
      <3>2. tx'.pc = tx.pc /\ age' = age
        BY <1>2 DEF poll_out
      <3>3. Len(going) >= Len(tx_fifo) + (IF tx.pc = 1 THEN 1 ELSE 0) + (IF age > 0 THEN 1 ELSE 0)
        BY DEF TInv, Owing
      <3>4. Len(going') >= Len(tx_fifo') + (IF tx'.pc = 1 THEN 1 ELSE 0) + (IF age' > 0 THEN 1 ELSE 0)
        <4>1. age \in Nat
          BY Constants DEF TInv, TypeOK, FrameEnd, CYCLES_PER_BIT
        <4> DEFINE n == Len(going)
                   m == Len(tx_fifo)
        <4>2. n \in Nat /\ m \in Nat /\ n >= m + (IF tx.pc = 1 THEN 1 ELSE 0) + (IF age > 0 THEN 1 ELSE 0)
          BY <3>1, <3>3
        <4>3. Len(going') = n + 1 /\ Len(tx_fifo') = m + 1
          BY <2>2
        <4> HIDE DEF n, m
        <4>4. n + 1 >= (m + 1) + (IF tx.pc = 1 THEN 1 ELSE 0) + (IF age > 0 THEN 1 ELSE 0)
          BY <4>1, <4>2
        <4> QED BY <3>2, <4>3, <4>4
      <3> QED BY <3>4 DEF Owing
    <2>5. Framed'
      BY <1>2 DEF TInv, Framed, poll_out
    <2> QED BY <2>3, <2>4, <2>5 DEF TInv
  <1>3. CASE poll_in
    <2> DEFINE B == 0 .. Pow2[IsrBits] - 1
    <2>1. rx_fifo \in Seq(B) /\ Len(rx_fifo) <= RxDepth
      BY DEF TInv, TypeOK
    <2>2. rx_fifo' \in Seq(B) /\ Len(rx_fifo') <= RxDepth
      <3> HIDE DEF B
      <3> QED BY <1>3, <2>1, SequenceFacts, Constants DEF poll_in
    <2>3. TypeOK'
      BY <1>3, <2>2, Zenon DEF TInv, TypeOK, poll_in, ghost
    <2>4. Owing' /\ Framed'
      BY <1>3 DEF TInv, Owing, Framed, poll_in, ghost
    <2> QED BY <2>3, <2>4 DEF TInv
  <1>4. CASE UNCHANGED vars
    <2>1. TypeOK'
      BY <1>4, Zenon DEF TInv, TypeOK, vars, sm, ghost
    <2>2. Owing' /\ Framed'
      BY <1>4 DEF TInv, Owing, Framed, vars, sm, ghost
    <2> QED BY <2>1, <2>2 DEF TInv
  <1> QED BY <1>1, <1>2, <1>3, <1>4 DEF Next

(* The state of the two programs, their FIFOs and the device has its type,  *)
(* whatever the widths: the shift registers hold no more bits than they     *)
(* have, and no FIFO holds more words than fit (uart_tx, uart_rx).          *)
THEOREM TypeCorrect == Spec => []TypeOK
  <1>1. TInv => TypeOK
    BY DEF TInv
  <1> QED BY <1>1, TypeInit, TypeNext, PTL DEF Spec

-----------------------------------------------------------------------------
(* What TX puts on the line. Where the program is says how old the frame   *)
(* is, what is left of the word and which bit is on the pin.               *)

InFrame == going # <<>> /\ Tail(going) = tx_fifo

Sending ==
    /\ tx.pc = 0 => \/ age = 0 /\ tx.delay = 0 /\ going = tx_fifo
                    \/ /\ age + tx.delay = FrameEnd /\ tx.delay <= 6
                       /\ InFrame /\ tx_pin = Bit(Head(going), y)
    /\ tx.pc = 1 => age = 0 /\ InFrame /\ tx.osr = Head(going)
    /\ tx.pc = 2 => /\ age + tx.delay = 8 * (DataBits - tx.x) /\ tx.delay <= 7
                    /\ InFrame /\ tx.osr = Head(going) \div Pow2[y - tx.x]
                    /\ IF tx.x = y THEN SIDESET_BIT_COUNT = 2 => tx_pin = 0
                                   ELSE tx_pin = Bit(Head(going), y - tx.x - 1)
    /\ tx.pc = 3 => /\ age = 8 * (DataBits - tx.x) + 1 /\ tx.delay = 0
                    /\ InFrame /\ tx.osr = Head(going) \div Pow2[DataBits - tx.x]
                    /\ tx_pin = Bit(Head(going), y - tx.x)

(* One or two bits of the delay field for the side-set: the delays of       *)
(* uart_tx are then those its source asks for after the start bit.         *)
LEMMA TxDelays ==
  ASSUME SIDESET_BIT_COUNT \in {1, 2}
  PROVE  /\ Delay(23) = 7 /\ Delay(6) = 6 /\ Pinned(31) \in {1, tx_pin}
         /\ SIDESET_BIT_COUNT = 2 => Pinned(23) = 0
  <1>1. CASE SIDESET_BIT_COUNT = 1
    <2>1. Pow2[5 - SIDESET_BIT_COUNT] = 16
      BY <1>1, SmallPowers
    <2> QED BY <1>1, <2>1 DEF Delay, Pinned, Enabled
  <1>2. CASE SIDESET_BIT_COUNT = 2
    <2>1. Pow2[5 - SIDESET_BIT_COUNT] = 8
      BY <1>2, SmallPowers
    <2>2. Side(31) = 1 /\ Side(23) = 0
      BY <2>1 DEF Side
    <2> QED BY <1>2, <2>1, <2>2 DEF Delay, Pinned, Enabled
  <1> QED BY <1>1, <1>2

LEMMA SendingInit == Init => Sending
  BY DEF Init, Sending

LEMMA SendingCycle ==
  ASSUME SIDESET_BIT_COUNT \in {1, 2}, TInv, Sending, uart_tx, ghost_step
  PROVE  Sending'
  <1>0. /\ tx.pc \in 0 .. 3 /\ tx.delay \in 0 .. 15 /\ tx.x \in 0 .. y /\ tx.osr \in Nat
        /\ tx \in [pc : 0 .. 3, delay : 0 .. 15, x : 0 .. DataBits - 1, osr : Nat]
    BY Fields DEF TInv, TypeOK
  <1>1. DataBits \in Nat \ {0} /\ y = DataBits - 1 /\ FrameEnd = 8 * DataBits + 8 /\ age \in 0 .. FrameEnd
    BY Constants DEF TInv, TypeOK, FrameEnd, CYCLES_PER_BIT
  <1>2. /\ age' = IF At(1) THEN 1 ELSE IF age \in 1 .. FrameEnd - 1 THEN age + 1 ELSE 0
        /\ going' = IF age = FrameEnd THEN Tail(going) ELSE going
    BY DEF ghost_step
  <1>3. going # <<>> => Head(going) \in Nat
    <2>1. going \in Seq(Out) /\ Out \subseteq Nat
      BY Constants DEF TInv, TypeOK
    <2> QED BY <2>1, SequenceFacts
  <1>4. tx_fifo # <<>> => Head(tx_fifo) \in Nat
    <2>1. tx_fifo \in Seq(Out) /\ Out \subseteq Nat
      BY Constants DEF TInv, TypeOK
    <2> QED BY <2>1, SequenceFacts
  <1> DEFINE w == Head(going)
  <1>a. CASE tx_delay
    <2>1. /\ tx.delay > 0 /\ tx'.pc = tx.pc /\ tx'.x = tx.x /\ tx'.osr = tx.osr
          /\ tx'.delay = tx.delay - 1 /\ tx_pin' = tx_pin /\ tx_fifo' = tx_fifo
      BY <1>0, <1>a DEF tx_delay
    <2>2. ~At(1)
      BY <2>1 DEF At
    <2>3. CASE tx.pc = 0
      <3>1. age + tx.delay = FrameEnd /\ tx.delay <= 6 /\ InFrame /\ tx_pin = Bit(Head(going), y)
        BY <2>1, <2>3 DEF Sending
      <3>a. age \in 1 .. FrameEnd - 1
        BY <1>0, <1>1, <2>1, <3>1
      <3>2. age' = age + 1 /\ going' = going
        BY <1>1, <1>2, <2>2, <3>a
      <3> QED BY <1>0, <1>1, <2>1, <2>3, <3>1, <3>2 DEF Sending, InFrame
    <2>4. CASE tx.pc = 1
      <3>1. age = 0 /\ InFrame /\ tx.osr = w
        BY <2>4 DEF Sending
      <3>2. age' = 0 /\ going' = going
        BY <1>1, <1>2, <2>2, <3>1
      <3> QED BY <2>1, <2>4, <3>1, <3>2 DEF Sending, InFrame
    <2>5. CASE tx.pc = 2
      <3>1. /\ age + tx.delay = 8 * (DataBits - tx.x) /\ tx.delay <= 7
            /\ InFrame /\ tx.osr = w \div Pow2[y - tx.x]
            /\ IF tx.x = y THEN SIDESET_BIT_COUNT = 2 => tx_pin = 0 ELSE tx_pin = Bit(w, y - tx.x - 1)
        BY <2>5 DEF Sending
      <3>a. age \in 1 .. FrameEnd - 1
        BY <1>0, <1>1, <2>1, <3>1
      <3>2. age' = age + 1 /\ going' = going
        BY <1>1, <1>2, <2>2, <3>a
      <3>3. age' + tx'.delay = 8 * (DataBits - tx'.x) /\ tx'.delay <= 7
        BY <1>0, <1>1, <2>1, <3>1, <3>2
      <3> QED BY <2>1, <2>5, <3>1, <3>2, <3>3 DEF Sending, InFrame
    <2>6. tx.pc # 3
      BY <2>1 DEF Sending
    <2> QED BY <1>0, <2>3, <2>4, <2>5, <2>6
  <1>b. CASE pull
    <2>1. tx.pc = 0 /\ tx.delay = 0 /\ ~At(1)
      BY <1>b DEF pull, At
    <2>2. going' = tx_fifo /\ age' = 0
      <3>1. CASE age = 0 /\ going = tx_fifo
        BY <1>1, <1>2, <2>1, <3>1
      <3>2. CASE age + tx.delay = FrameEnd /\ InFrame
        BY <1>1, <1>2, <2>1, <3>2 DEF InFrame
      <3> QED BY <2>1, <3>1, <3>2 DEF Sending
    <2>3. CASE tx_fifo = <<>>
      <3>1. tx' = tx /\ tx_fifo' = tx_fifo
        BY <1>b, <2>3 DEF pull
      <3> QED BY <2>1, <2>2, <3>1 DEF Sending
    <2>4. CASE tx_fifo # <<>>
      <3>1. tx'.pc = 1 /\ tx'.osr = Head(tx_fifo) /\ tx_fifo' = Tail(tx_fifo)
        BY <1>0, <1>b, <2>4 DEF pull
      <3> QED BY <2>2, <2>4, <3>1 DEF Sending, InFrame
    <2> QED BY <2>3, <2>4
  <1>c. CASE mov_start
    <2>1. /\ tx.pc = 1 /\ At(1) /\ tx_pin' = Pinned(23) /\ tx'.pc = 2 /\ tx'.delay = Delay(23) /\ tx'.x = y
          /\ tx'.osr = tx.osr /\ tx_fifo' = tx_fifo
      BY <1>0, <1>c DEF mov_start, At
    <2>2. age = 0 /\ InFrame /\ tx.osr = w
      BY <2>1 DEF Sending
    <2>3. age' = 1 /\ going' = going
      BY <1>1, <1>2, <2>1, <2>2
    <2>4. w \in Nat /\ w \div Pow2[y - y] = w
      <3>1. w \in Nat /\ w \div 1 = w
        BY <1>3, <2>2 DEF InFrame
      <3>2. y - y = 0 /\ Pow2[0] = 1
        BY <1>1, Powers
      <3> QED BY <3>1, <3>2
    <2>5. age' + tx'.delay = 8 * (DataBits - tx'.x) /\ tx'.delay <= 7
      BY <1>1, <2>1, <2>3, TxDelays
    <2>6. SIDESET_BIT_COUNT = 2 => tx_pin' = 0
      BY <2>1, TxDelays
    <2> QED BY <2>1, <2>2, <2>3, <2>4, <2>5, <2>6 DEF Sending, InFrame
  <1>d. CASE out
    <2>1. /\ tx.pc = 2 /\ tx.delay = 0 /\ ~At(1) /\ tx_pin' = tx.osr % 2 /\ tx'.pc = 3 /\ tx'.delay = 0
          /\ tx'.x = tx.x /\ tx'.osr = tx.osr \div 2 /\ tx_fifo' = tx_fifo
      BY <1>0, <1>d DEF out, At
    <2>2. age = 8 * (DataBits - tx.x) /\ InFrame /\ tx.osr = w \div Pow2[y - tx.x]
      BY <1>0, <1>1, <2>1 DEF Sending
    <2>3. age' = age + 1 /\ going' = going
      BY <1>0, <1>1, <1>2, <2>1, <2>2
    <2>4. y - tx.x \in Nat /\ (y - tx.x) + 1 = DataBits - tx.x /\ w \in Nat
      BY <1>0, <1>1, <1>3, <2>2 DEF InFrame
    <2>5. tx_pin' = Bit(w, y - tx.x) /\ tx'.osr = w \div Pow2[DataBits - tx.x]
      BY <2>1, <2>2, <2>4, BitIs
    <2> QED BY <2>1, <2>2, <2>3, <2>5 DEF Sending, InFrame
  <1>e. CASE jmp_bit
    <2>1. /\ tx.pc = 3 /\ tx.delay = 0 /\ ~At(1) /\ tx_pin' = tx_pin /\ tx_fifo' = tx_fifo
          /\ tx'.pc = (IF tx.x > 0 THEN 2 ELSE 0) /\ tx'.delay = 6
          /\ tx'.x = (IF tx.x > 0 THEN tx.x - 1 ELSE 0) /\ tx'.osr = tx.osr
      BY <1>0, <1>e, TxDelays DEF jmp_bit, At
    <2>2. /\ age = 8 * (DataBits - tx.x) + 1 /\ InFrame /\ tx.osr = w \div Pow2[DataBits - tx.x]
          /\ tx_pin = Bit(w, y - tx.x)
      BY <2>1 DEF Sending
    <2>3. age' = age + 1 /\ going' = going
      BY <1>0, <1>1, <1>2, <2>1, <2>2
    <2>4. CASE tx.x > 0
      <3>1. tx'.pc = 2 /\ tx'.x = tx.x - 1 /\ tx'.x # y /\ y - tx'.x = DataBits - tx.x /\ y - tx'.x - 1 = y - tx.x
        BY <1>0, <1>1, <2>1, <2>4
      <3>2. age' + tx'.delay = 8 * (DataBits - tx'.x) /\ tx'.delay <= 7
        BY <1>0, <1>1, <2>1, <2>2, <2>3, <3>1
      <3> QED BY <2>1, <2>2, <2>3, <3>1, <3>2 DEF Sending, InFrame
    <2>5. CASE tx.x = 0
      <3>1. tx'.pc = 0 /\ y - tx.x = y /\ age' + tx'.delay = FrameEnd /\ tx'.delay <= 6
        BY <1>1, <2>1, <2>2, <2>3, <2>5
      <3> QED BY <2>1, <2>2, <2>3, <3>1 DEF Sending, InFrame
    <2> QED BY <1>0, <2>4, <2>5
  <1> QED BY <1>a, <1>b, <1>c, <1>d, <1>e DEF uart_tx

LEMMA SendingNext ==
  ASSUME SIDESET_BIT_COUNT \in {1, 2}, TInv, Sending, [Next]_vars
  PROVE  Sending'
  <1>1. CASE cycle
    BY <1>1, SendingCycle DEF cycle
  <1>2. ASSUME NEW w \in Out, poll_out(w) PROVE Sending'
    <2>1. tx_fifo \in Seq(Out) /\ going \in Seq(Out)
      BY DEF TInv, TypeOK
    <2>2. /\ tx_fifo' = Append(tx_fifo, w) /\ going' = Append(going, w)
          /\ tx' = tx /\ age' = age /\ tx_pin' = tx_pin
      BY <1>2 DEF poll_out
    <2>3. going = tx_fifo => going' = tx_fifo'
      BY <2>2
    <2>4. InFrame => InFrame' /\ Head(going') = Head(going)
      BY <2>1, <2>2 DEF InFrame
    <2> QED BY <2>2, <2>3, <2>4 DEF Sending
  <1>3. CASE poll_in
    BY <1>3 DEF poll_in, ghost, Sending, InFrame
  <1>4. CASE UNCHANGED vars
    BY <1>4 DEF vars, sm, ghost, Sending, InFrame
  <1> QED BY <1>1, <1>2, <1>3, <1>4 DEF Next

(* What poll_out was given goes out in order, each word with its least bit  *)
(* first and each bit on the pin where a receiver samples it, for every     *)
(* width of word: with the side-set tx_init configures (one bit, the        *)
(* enabling one, so no start bit is driven), and with the two bits the      *)
(* program was assembled for (uart_tx, set y).                              *)
THEOREM WordsSent == ASSUME SIDESET_BIT_COUNT \in {1, 2} PROVE Spec => []BitsSent
  <1>1. TInv /\ Sending => BitsSent
    <2> SUFFICES ASSUME TInv, Sending, NEW k \in 0 .. y, age = 8 * (k + 1) + 4
                 PROVE  going # <<>> /\ tx_pin = Bit(Head(going), k)
      BY DEF BitsSent, CYCLES_PER_BIT
    <2>1. tx.pc \in 0 .. 3 /\ tx.delay \in 0 .. 15 /\ tx.x \in 0 .. y
      BY Fields DEF TInv
    <2>2. DataBits \in Nat \ {0} /\ y = DataBits - 1 /\ FrameEnd = 8 * DataBits + 8
      BY Constants DEF FrameEnd, CYCLES_PER_BIT
    <2>3. CASE tx.pc = 0
      <3>1. age + tx.delay = FrameEnd /\ tx.delay <= 6 /\ InFrame /\ tx_pin = Bit(Head(going), y)
        BY <2>3 DEF Sending
      <3>2. k = y
        BY <2>1, <2>2, <3>1
      <3> QED BY <3>1, <3>2 DEF InFrame
    <2>4. tx.pc # 1
      BY DEF Sending
    <2>5. CASE tx.pc = 2
      <3>1. /\ age + tx.delay = 8 * (DataBits - tx.x) /\ tx.delay <= 7 /\ InFrame
            /\ tx.x # y => tx_pin = Bit(Head(going), y - tx.x - 1)
        BY <2>5 DEF Sending
      <3>2. tx.x # y /\ k = y - tx.x - 1
        BY <2>1, <2>2, <3>1
      <3> QED BY <3>1, <3>2 DEF InFrame
    <2>6. tx.pc # 3
      <3> SUFFICES ASSUME age = 8 * (DataBits - tx.x) + 1 PROVE FALSE
        BY DEF Sending
      <3> QED BY <2>1, <2>2
    <2> QED BY <2>1, <2>3, <2>4, <2>5, <2>6
  <1>2. Init => TInv /\ Sending
    BY TypeInit, SendingInit
  <1>3. TInv /\ Sending /\ [Next]_vars => TInv' /\ Sending'
    BY TypeNext, SendingNext
  <1> QED BY <1>1, <1>2, <1>3, PTL DEF Spec

(* With the two side-set bits the program was assembled for, and with no    *)
(* other change, the pin is low for the eight clocks of the start bit that  *)
(* uart_rpi_pico_pio_enhanced.pio asserts: the count that tx_init takes is  *)
(* all that keeps StartBitSent from holding.                               *)
THEOREM StartBitWithTwo == ASSUME SIDESET_BIT_COUNT = 2 PROVE Spec => []StartBitSent
  <1>1. TInv /\ Sending => StartBitSent
    <2> SUFFICES ASSUME TInv, Sending, age \in 1 .. 8 PROVE tx_pin = 0
      BY DEF StartBitSent, CYCLES_PER_BIT
    <2>1. tx.pc \in 0 .. 3 /\ tx.delay \in 0 .. 15 /\ tx.x \in 0 .. y
      BY Fields DEF TInv
    <2>2. DataBits \in Nat \ {0} /\ y = DataBits - 1 /\ FrameEnd = 8 * DataBits + 8
      BY Constants DEF FrameEnd, CYCLES_PER_BIT
    <2>3. tx.pc # 0
      <3>1. ~(age + tx.delay = FrameEnd /\ tx.delay <= 6)
        BY <2>1, <2>2
      <3> QED BY <3>1 DEF Sending
    <2>4. tx.pc # 1
      BY DEF Sending
    <2>5. CASE tx.pc = 2
      <3>1. /\ age + tx.delay = 8 * (DataBits - tx.x) /\ tx.delay <= 7
            /\ tx.x = y => tx_pin = 0
        BY <2>5 DEF Sending
      <3> QED BY <2>1, <2>2, <3>1
    <2>6. tx.pc # 3
      <3> SUFFICES ASSUME age = 8 * (DataBits - tx.x) + 1 PROVE FALSE
        BY DEF Sending
      <3> QED BY <2>1, <2>2
    <2> QED BY <2>1, <2>3, <2>4, <2>5, <2>6
  <1>2. Init => TInv /\ Sending
    BY TypeInit, SendingInit
  <1>3. TInv /\ Sending /\ [Next]_vars => TInv' /\ Sending'
    BY TypeNext, SendingNext
  <1> QED BY <1>1, <1>2, <1>3, PTL DEF Spec

-----------------------------------------------------------------------------
(* Time. A frame of the device and a word of the receiver are both counted  *)
(* in cycles from the first one of the start bit.                          *)

Time == 8 * (device.cell + 1) + device.drift - device.left

Position == CASE rx.pc = 1  -> 1
              [] rx.pc = 2  -> 12 + 8 * (y - rx.x) - rx.delay
              [] rx.pc = 3  -> 13 + 8 * (y - rx.x)
              [] rx.pc = 4  -> 8 * DataBits + 12 - rx.delay
              [] OTHER      -> 8 * DataBits + 13

(* How long a receiver that sees a high line takes to wait for a start bit. *)
Remaining == CASE rx.pc \in 1 .. 4 -> 8 * DataBits + 14 - Position
               [] rx.pc = 5 -> 19
               [] rx.pc = 6 -> 18
               [] rx.pc = 7 -> rx.delay + 2
               [] rx.pc = 8 -> 3
               [] rx.pc = 9 -> 1
               [] OTHER     -> 0

Pausing == /\ rx.pc \notin {2, 4, 7} => rx.delay = 0
           /\ rx.pc = 2 => rx.delay <= 10
           /\ rx.pc = 4 => rx.delay <= 6

(* A cell never begins more than Slip early; a device at rest keeps no      *)
(* drift; a frame is high for less than a receiver needs to be settled.    *)
Paced == /\ device.cell \in 1 .. Stop => Time >= 8 * device.cell - Slip
         /\ device.cell = Start => Time >= 0 /\ device.drift \in -1 .. 1
         /\ device.cell >= Quiet => device.drift = 0
         /\ far = "device" /\ device.cell \in 1 .. Stop => high + 7 <= Time
Resting == rx.pc # 10 => high + Remaining <= Settled

Steady == Pausing /\ Paced /\ Resting

LEMMA RxMoves ==
  ASSUME TInv, uart_rx
  PROVE  \/ rx.delay > 0 /\ rx'.pc = rx.pc /\ rx'.x = rx.x /\ rx'.delay = rx.delay - 1
         \/ rx.delay = 0 /\ rx.pc = 0 /\ rx'.pc = (IF Level = 0 THEN 1 ELSE 0) /\ rx'.x = rx.x /\ rx'.delay = 0
         \/ rx.delay = 0 /\ rx.pc = 1 /\ rx'.pc = 2 /\ rx'.x = y /\ rx'.delay = 10
         \/ rx.delay = 0 /\ rx.pc = 2 /\ rx'.pc = 3 /\ rx'.x = rx.x /\ rx'.delay = 0
         \/ rx.delay = 0 /\ rx.pc = 3 /\ rx.x > 0 /\ rx'.pc = 2 /\ rx'.x = rx.x - 1 /\ rx'.delay = 6
         \/ rx.delay = 0 /\ rx.pc = 3 /\ rx.x = 0 /\ rx'.pc = 4 /\ rx'.x = 0 /\ rx'.delay = 6
         \/ rx.delay = 0 /\ rx.pc = 4 /\ rx'.pc = (IF Level = 1 THEN 10 ELSE 5) /\ rx'.x = rx.x /\ rx'.delay = 0
         \/ rx.delay = 0 /\ rx.pc = 5 /\ rx'.pc = 6 /\ rx'.delay = 0
         \/ rx.delay = 0 /\ rx.pc = 6 /\ rx'.pc = 7 /\ rx'.delay = 15
         \/ rx.delay = 0 /\ rx.pc = 7 /\ rx'.pc = (IF Level = 1 THEN 9 ELSE 8) /\ rx'.delay = 0
         \/ rx.delay = 0 /\ rx.pc = 8 /\ rx'.pc \in {7, 9} /\ rx'.delay = 0
         \/ rx.delay = 0 /\ rx.pc = 9 /\ rx'.pc = 0 /\ rx'.delay = 0
         \/ rx.delay = 0 /\ rx.pc = 10 /\ rx'.pc = (IF Stalled THEN 10 ELSE 0) /\ rx'.delay = 0
  <1>0. rx \in [pc : 0 .. 10, delay : 0 .. 15, x : 0 .. DataBits - 1, isr : 0 .. Pow2[IsrBits] - 1]
    BY DEF TInv, TypeOK
  <1>x. rx.x \in Nat
    BY Fields, Constants DEF TInv
  <1> HIDE DEF Level, Stalled
  <1>a. CASE rx_delay
    BY <1>0, <1>a DEF rx_delay
  <1>b. CASE wait_start
    BY <1>0, <1>b DEF wait_start, Rx, Jump
  <1>c. CASE mov_centre
    BY <1>0, <1>c DEF mov_centre, Rx
  <1>d. CASE in_pins
    BY <1>0, <1>d DEF in_pins, Rx
  <1>e. CASE jmp_in
    BY <1>0, <1>e, <1>x DEF jmp_in, Rx
  <1>f. CASE jmp_stop
    BY <1>0, <1>f DEF jmp_stop, Rx, Jump
  <1>g. CASE irq
    BY <1>0, <1>g DEF irq, Rx, Jump
  <1>h. CASE mov_timeout
    BY <1>0, <1>h DEF mov_timeout, Rx
  <1>i. CASE jmp_idle
    BY <1>0, <1>i DEF jmp_idle, Rx, Jump
  <1>j. CASE jmp_wait
    BY <1>0, <1>j DEF jmp_wait, Rx
  <1>k. CASE jmp_start
    BY <1>0, <1>k DEF jmp_start, Rx, Jump
  <1>l. CASE push
    BY <1>0, <1>l DEF push, Rx
  <1> QED BY <1>a, <1>b, <1>c, <1>d, <1>e, <1>f, <1>g, <1>h, <1>i, <1>j, <1>k, <1>l DEF uart_rx

LEMMA DeviceMoves ==
  ASSUME TInv, device_step
  PROVE  \/ /\ device.left > 1 /\ device'.left = device.left - 1 /\ device'.cell = device.cell
            /\ device'.drift = device.drift /\ device'.word = device.word
         \/ /\ device.left = 1 /\ device.cell < Stop /\ device'.cell = device.cell + 1
            /\ device'.drift \in -Slip .. Slip /\ device'.drift - device.drift \in {-1, 0, 1}
            /\ device'.left = 8 + device'.drift - device.drift /\ device'.word = device.word
         \/ /\ device.left = 1 /\ device.cell \in {Stop, Low}
            /\ device'.cell = Quiet /\ device'.drift = 0
         \/ device.left = 1 /\ device.cell = Quiet /\ device' = device
         \/ device.left = 1 /\ device.cell = Quiet /\ device'.cell = Low /\ device'.drift = 0
         \/ /\ device.left = 1 /\ device.cell = Quiet /\ device'.cell = Start
            /\ device'.drift \in -Slip .. Slip /\ device'.drift - device.drift \in {-1, 0, 1}
            /\ device'.left = 8 + device'.drift - device.drift /\ device'.word \in Word
  <1>0. device \in [cell : 0 .. Low, left : Nat \ {0}, drift : -Slip .. Slip, word : Word \cup {0}]
    BY DEF TInv, TypeOK
  <1> HIDE DEF Start, Stop, Quiet, Low
  <1>1. CASE device.left > 1 /\ device' = [device EXCEPT !.left = @ - 1]
    BY <1>0, <1>1
  <1>2. ASSUME device.left = 1, device.cell < Stop, NEW d \in -Slip .. Slip,
               Enter(device.cell + 1, d, device.word)
        PROVE  /\ device.left = 1 /\ device.cell < Stop /\ device'.cell = device.cell + 1
               /\ device'.drift \in -Slip .. Slip /\ device'.drift - device.drift \in {-1, 0, 1}
               /\ device'.left = 8 + device'.drift - device.drift /\ device'.word = device.word
    BY <1>2 DEF Enter, CYCLES_PER_BIT
  <1>3. ASSUME NEW c, NEW n, Stay(c, n) PROVE device'.cell = c /\ device'.drift = 0
    BY <1>3 DEF Stay
  <1>4. ASSUME NEW d \in -Slip .. Slip, NEW w \in Word, Enter(Start, d, w)
        PROVE  /\ device'.cell = Start
               /\ device'.drift \in -Slip .. Slip /\ device'.drift - device.drift \in {-1, 0, 1}
               /\ device'.left = 8 + device'.drift - device.drift /\ device'.word \in Word
    BY <1>4 DEF Enter, CYCLES_PER_BIT
  <1> QED BY <1>1, <1>2, <1>3, <1>4 DEF device_step

(* The line of a device: low for a start bit and a break, high for a stop   *)
(* bit and at rest.                                                        *)
LEMMA DeviceLevel ==
  ASSUME TInv, far = "device"
  PROVE  /\ device.cell \in {Start, Low} => Level = 0
         /\ device.cell \in {Stop, Quiet} => Level = 1
         /\ device.cell \in 1 .. DataBits => Level = Bit(device.word, device.cell - 1)
  <1>1. DataBits \in Nat \ {0} /\ device.cell \in 0 .. DataBits + 3
    BY Constants, Fields DEF TInv, Low
  <1> DEFINE c == device.cell
             b == Bit(device.word, device.cell - 1)
  <1>2. Level = CASE c \in {0, DataBits + 3} -> 0 [] c \in {DataBits + 1, DataBits + 2} -> 1 [] OTHER -> b
    BY DEF Level, Start, Stop, Quiet, Low
  <1>3. c \in 0 .. DataBits + 3
    BY <1>1
  <1> HIDE DEF c, b
  <1>4. /\ c \in {0, DataBits + 3} => Level = 0
        /\ c \in {DataBits + 1, DataBits + 2} => Level = 1
        /\ c \in 1 .. DataBits => Level = b
    BY <1>1, <1>2, <1>3
  <1> QED BY <1>4 DEF c, b, Start, Stop, Quiet, Low

(* A receiver in step is where the frame is: it waits for a start bit       *)
(* before a frame and after one, and samples in between. A word is owed     *)
(* only while the receiver is at work on it.                               *)
AtWork == IF rx.pc = 0 THEN Time = 0 \/ Time >= 8 * DataBits + 14 ELSE Time = Position

Following ==
    /\ in_step => /\ far = "device" /\ device.cell # Low /\ rx.pc \in {0, 1, 2, 3, 4, 10}
                  /\ device.cell <= Stop => AtWork
                  /\ device.cell = Quiet => rx.pc \in {0, 10}
    /\ ~in_step => due = <<>>
    /\ due # <<>> => Len(due) = 1 /\ device.cell # Start /\ rx.pc # 0

LEMMA SteadyInit == Init => Steady
  <1> SUFFICES ASSUME Init PROVE Steady
    OBVIOUS
  <1>1. /\ rx.pc = 0 /\ rx.delay = 0 /\ high = 0
        /\ device.cell = Quiet /\ device.drift = 0
    BY DEF Init
  <1>2. Settled \in Nat /\ DataBits \in Nat \ {0}
    BY Constants DEF Settled, CYCLES_PER_BIT
  <1>3. Remaining = 0
    BY <1>1 DEF Remaining
  <1>4. Quiet \notin 1 .. Stop /\ Quiet # Start
    BY <1>2 DEF Quiet, Stop, Start
  <1> QED BY <1>1, <1>2, <1>3, <1>4 DEF Steady, Pausing, Paced, Resting

(* The numbers the steps are about. *)
LEMMA Numbers ==
  ASSUME TInv
  PROVE  /\ DataBits \in Nat \ {0} /\ y = DataBits - 1 /\ Slip \in 0 .. 7
         /\ Settled = 8 * DataBits + 14 /\ high \in 0 .. Settled
         /\ Start = 0 /\ Stop = DataBits + 1 /\ Quiet = DataBits + 2 /\ Low = DataBits + 3
         /\ rx.pc \in 0 .. 10 /\ rx.delay \in 0 .. 15 /\ rx.x \in 0 .. y
         /\ device.cell \in 0 .. Low /\ device.left \in Nat \ {0} /\ device.drift \in -Slip .. Slip
         /\ Level \in {0, 1}
  <1>1. DataBits \in Nat \ {0} /\ y = DataBits - 1 /\ Slip \in 0 .. 7
    BY Constants
  <1>2. Settled = 8 * DataBits + 14
    BY DEF Settled, CYCLES_PER_BIT
  <1>3. high \in 0 .. Settled
    BY DEF TInv, TypeOK
  <1>4. Start = 0 /\ Stop = DataBits + 1 /\ Quiet = DataBits + 2 /\ Low = DataBits + 3
    BY DEF Start, Stop, Quiet, Low
  <1>5. rx.pc \in 0 .. 10 /\ rx.delay \in 0 .. 15 /\ rx.x \in 0 .. y
    BY Fields DEF TInv
  <1>6. device.cell \in 0 .. Low /\ device.left \in Nat \ {0} /\ device.drift \in -Slip .. Slip
    BY Fields DEF TInv
  <1>7. Level \in {0, 1}
    BY LevelIs DEF TInv
  <1> QED BY <1>1, <1>2, <1>3, <1>4, <1>5, <1>6, <1>7, Zenon

Where == /\ rx.pc = 1 => Position = 1 /\ Remaining = 8 * DataBits + 13
         /\ rx.pc = 2 => /\ Position = 12 + 8 * (y - rx.x) - rx.delay
                         /\ Remaining = 8 * DataBits + 2 - 8 * (y - rx.x) + rx.delay
         /\ rx.pc = 3 => /\ Position = 13 + 8 * (y - rx.x)
                         /\ Remaining = 8 * DataBits + 1 - 8 * (y - rx.x)
         /\ rx.pc = 4 => Position = 8 * DataBits + 12 - rx.delay /\ Remaining = 2 + rx.delay
         /\ rx.pc = 10 => Position = 8 * DataBits + 13
         /\ rx.pc \in 1 .. 4 => Position \in 1 .. 8 * DataBits + 12 /\ Remaining \in 2 .. 8 * DataBits + 13
         /\ rx.pc = 5 => Remaining = 19
         /\ rx.pc = 6 => Remaining = 18
         /\ rx.pc = 7 => Remaining = rx.delay + 2
         /\ rx.pc = 8 => Remaining = 3
         /\ rx.pc = 9 => Remaining = 1
         /\ rx.pc \in {0, 10} => Remaining = 0

LEMMA PositionIs == TInv /\ Pausing => Where
  <1> SUFFICES ASSUME TInv, Pausing PROVE Where
    OBVIOUS
  <1>0. /\ DataBits \in Nat \ {0} /\ y = DataBits - 1
        /\ rx.pc \in 0 .. 10 /\ rx.delay \in 0 .. 15 /\ rx.x \in 0 .. y
        /\ rx.pc = 2 => rx.delay <= 10
        /\ rx.pc = 4 => rx.delay <= 6
    BY Numbers DEF Pausing
  <1>1. CASE rx.pc = 1
    BY <1>0, <1>1 DEF Where, Position, Remaining
  <1>2. CASE rx.pc = 2
    BY <1>0, <1>2 DEF Where, Position, Remaining
  <1>3. CASE rx.pc = 3
    BY <1>0, <1>3 DEF Where, Position, Remaining
  <1>4. CASE rx.pc = 4
    BY <1>0, <1>4 DEF Where, Position, Remaining
  <1>5. CASE rx.pc \in {0, 5, 6, 7, 8, 9, 10}
    BY <1>0, <1>5 DEF Where, Position, Remaining
  <1> QED BY <1>0, <1>1, <1>2, <1>3, <1>4, <1>5

(* The clock of a frame. *)
LEMMA FrameMoves ==
  ASSUME Slip <= 3, TInv, Paced, device_step
  PROVE  /\ device'.cell = Start => \/ device.cell = Quiet /\ Time' = 0
                                    \/ device.cell = Start /\ Time' = Time + 1
         /\ device'.cell \in 1 .. Stop => /\ device.cell \in {device'.cell, device'.cell - 1}
                                          /\ Time' = Time + 1
         /\ device.cell \in 0 .. Stop => Time \in 8 * device.cell - Slip .. 8 * device.cell + 7 + device.drift /\ Time \in Nat
         /\ device.cell \in 0 .. DataBits => device'.cell \in {device.cell, device.cell + 1}
         /\ device.cell = Stop => \/ device'.cell = Stop
                                  \/ device'.cell = Quiet /\ Time = 8 * DataBits + 15 + device.drift
         /\ device'.cell \in 1 .. Stop => Time' >= 8 * device'.cell - Slip
         /\ device.cell = Start /\ device'.cell = 1 => Time' >= 7
         /\ device'.cell = Start => Time' >= 0 /\ device'.drift \in -1 .. 1
         /\ device'.cell >= Quiet => device'.drift = 0
         /\ device.cell = Quiet => device'.cell \in {Quiet, Low, Start}
         /\ device.cell = Low => device'.cell \in {Low, Quiet}
  <1>0. /\ DataBits \in Nat \ {0} /\ Slip \in 0 .. 3
        /\ Start = 0 /\ Stop = DataBits + 1 /\ Quiet = DataBits + 2 /\ Low = DataBits + 3
        /\ device.cell \in 0 .. Low /\ device.left \in Nat \ {0} /\ device.drift \in -Slip .. Slip
    BY Numbers
  <1>1. /\ Time = 8 * (device.cell + 1) + device.drift - device.left
        /\ Time' = 8 * (device'.cell + 1) + device'.drift - device'.left
    BY DEF Time
  <1>2. /\ device.cell \in 1 .. Stop => Time >= 8 * device.cell - Slip
        /\ device.cell = Start => Time >= 0 /\ device.drift \in -1 .. 1
        /\ device.cell >= Quiet => device.drift = 0
    BY DEF Paced
  <1>3. Start' = Start /\ Stop' = Stop /\ Quiet' = Quiet
    BY DEF Start, Stop, Quiet
  <1>a. CASE /\ device.left > 1 /\ device'.left = device.left - 1 /\ device'.cell = device.cell
             /\ device'.drift = device.drift
    <2>1. Time' = Time + 1
      BY <1>0, <1>1, <1>a
    <2>2. device.cell \in 0 .. Stop =>
            Time \in 8 * device.cell - Slip .. 8 * device.cell + 7 + device.drift /\ Time \in Nat
      BY <1>0, <1>1, <1>2
    <2> QED BY <1>0, <1>2, <1>a, <2>1, <2>2
  <1>b. CASE /\ device.left = 1 /\ device.cell < Stop /\ device'.cell = device.cell + 1
             /\ device'.drift \in -Slip .. Slip /\ device'.drift - device.drift \in {-1, 0, 1}
             /\ device'.left = 8 + device'.drift - device.drift
    <2>1. Time' = Time + 1 /\ Time = 8 * device.cell + 7 + device.drift /\ Time \in Nat
      BY <1>0, <1>1, <1>2, <1>b
    <2>2. CASE device.cell = 0
      BY <1>0, <1>2, <1>b, <2>1, <2>2
    <2>3. CASE device.cell >= 1
      BY <1>0, <1>2, <1>b, <2>1, <2>3
    <2> QED BY <1>0, <2>2, <2>3
  <1>c. CASE device.left = 1 /\ device.cell \in {Stop, Low} /\ device'.cell = Quiet /\ device'.drift = 0
    BY <1>0, <1>1, <1>2, <1>c
  <1>d. CASE device.left = 1 /\ device.cell = Quiet /\ device' = device
    BY <1>0, <1>1, <1>2, <1>d
  <1>e. CASE device.left = 1 /\ device.cell = Quiet /\ device'.cell = Low /\ device'.drift = 0
    BY <1>0, <1>1, <1>2, <1>e
  <1>f. CASE /\ device.left = 1 /\ device.cell = Quiet /\ device'.cell = Start
             /\ device'.drift \in -Slip .. Slip /\ device'.drift - device.drift \in {-1, 0, 1}
             /\ device'.left = 8 + device'.drift - device.drift
    BY <1>0, <1>1, <1>2, <1>f
  <1> QED BY <1>a, <1>b, <1>c, <1>d, <1>e, <1>f, DeviceMoves

LEMMA PausingStep ==
  ASSUME TInv, Pausing, uart_rx
  PROVE  Pausing'
  <1>1. rx.pc \in 0 .. 10 /\ rx.delay \in 0 .. 15
    BY Numbers
  <1> HIDE DEF Level, Stalled
  <1>2. /\ rx'.pc \notin {2, 4, 7} => rx'.delay = 0
        /\ rx'.pc = 2 => rx'.delay <= 10
        /\ rx'.pc = 4 => rx'.delay <= 6
    BY <1>1, RxMoves DEF Pausing
  <1> QED BY <1>2 DEF Pausing

LEMMA RestingStep ==
  ASSUME TInv, TInv', Pausing, Pausing', Resting, uart_rx, ghost_step
  PROVE  Resting'
  <1>0. /\ DataBits \in Nat \ {0} /\ y = DataBits - 1 /\ Settled = 8 * DataBits + 14
        /\ rx.pc \in 0 .. 10 /\ rx.delay \in 0 .. 15 /\ rx.x \in 0 .. y /\ Level \in {0, 1}
        /\ high \in 0 .. Settled
    BY Numbers
  <1>1. rx'.pc \in 0 .. 10 /\ rx'.delay \in 0 .. 15 /\ rx'.x \in 0 .. y
    BY RxTypes DEF RxRecord
  <1>2. Where /\ Where'
    <2>1. (TInv /\ Pausing => Where)'
      BY PositionIs, PTL
    <2> QED BY <2>1, PositionIs
  <1>3. high' = IF Level = 0 THEN 0 ELSE IF high < Settled THEN high + 1 ELSE high
    BY DEF ghost_step
  <1>4. rx.pc # 10 => high + Remaining <= Settled
    BY DEF Resting
  <1>5. Settled' = Settled
    BY DEF Settled
  <1>9. y' = y /\ DataBits' = DataBits
    BY DEF y
  <1> HIDE DEF Level, Stalled, Remaining
  <1>6. rx'.pc # 10 => Remaining' \in 0 .. 8 * DataBits + 14
    BY <1>0, <1>1, <1>2 DEF Where
  <1>7. CASE Level = 0
    BY <1>0, <1>3, <1>5, <1>6, <1>7 DEF Resting
  <1>8. CASE Level = 1
    <2>1. rx'.pc # 10 /\ rx.pc # 10 =>
              \/ Remaining' = 0
              \/ Remaining \in Nat /\ Remaining' \in Nat /\ Remaining' <= Remaining - 1
      <3>1. Where /\ Where'
        BY <1>2
      <3>d. CASE rx.delay > 0 /\ rx'.pc = rx.pc /\ rx'.x = rx.x /\ rx'.delay = rx.delay - 1
        <4>1. rx.pc \in {2, 4, 7}
          BY <1>0, <3>d DEF Pausing
        <4> QED BY <1>0, <1>1, <3>1, <3>d, <4>1 DEF Where
      <3>m. CASE rx.delay = 0
        <4>0. CASE rx.pc = 0
          <5>1. rx'.pc = 0
            BY <1>8, <3>m, <4>0, RxMoves
          <5> QED BY <3>1, <5>1 DEF Where
        <4>1. CASE rx.pc = 1
          <5>1. rx'.pc = 2 /\ rx'.x = y /\ rx'.delay = 10
            BY <3>m, <4>1, RxMoves
          <5>2. Remaining = 8 * DataBits + 13 /\ Remaining' = 8 * DataBits + 2 - 8 * (y - y) + 10
            BY <1>0, <1>9, <3>1, <4>1, <5>1 DEF Where
          <5> QED BY <1>0, <5>2
        <4>2. CASE rx.pc = 2
          <5>1. rx'.pc = 3 /\ rx'.x = rx.x
            BY <3>m, <4>2, RxMoves
          <5>2. /\ Remaining = 8 * DataBits + 2 - 8 * (y - rx.x)
                /\ Remaining' = 8 * DataBits + 1 - 8 * (y - rx.x)
            BY <1>0, <1>9, <3>1, <3>m, <4>2, <5>1 DEF Where
          <5>3. Remaining \in Nat /\ Remaining' \in Nat
            BY <1>0, <5>2
          <5> QED BY <1>0, <5>2, <5>3
        <4>3. CASE rx.pc = 3
          <5>1. Remaining = 8 * DataBits + 1 - 8 * (y - rx.x)
            BY <3>1, <4>3 DEF Where
          <5>2. CASE rx.x > 0
            <6>1. rx'.pc = 2 /\ rx'.x = rx.x - 1 /\ rx'.delay = 6
              BY <1>0, <3>m, <4>3, <5>2, RxMoves
            <6>2. Remaining' = 8 * DataBits + 2 - 8 * (y - (rx.x - 1)) + 6
              BY <1>9, <3>1, <6>1 DEF Where
            <6> QED BY <1>0, <5>1, <5>2, <6>2
          <5>3. CASE rx.x = 0
            <6>1. rx'.pc = 4 /\ rx'.delay = 6
              BY <1>0, <3>m, <4>3, <5>3, RxMoves
            <6>2. Remaining' = 8
              BY <3>1, <6>1 DEF Where
            <6> QED BY <1>0, <5>1, <5>3, <6>2
          <5> QED BY <1>0, <5>2, <5>3
        <4>4. CASE rx.pc = 4
          <5>1. rx'.pc = 10
            BY <1>8, <3>m, <4>4, RxMoves
          <5> QED BY <5>1
        <4>5. CASE rx.pc = 5
          <5>1. rx'.pc = 6
            BY <3>m, <4>5, RxMoves
          <5> QED BY <3>1, <4>5, <5>1 DEF Where
        <4>6. CASE rx.pc = 6
          <5>1. rx'.pc = 7 /\ rx'.delay = 15
            BY <3>m, <4>6, RxMoves
          <5> QED BY <3>1, <4>6, <5>1 DEF Where
        <4>7. CASE rx.pc = 7
          <5>1. rx'.pc = 9
            BY <1>8, <3>m, <4>7, RxMoves
          <5> QED BY <3>1, <3>m, <4>7, <5>1 DEF Where
        <4>8. CASE rx.pc = 8
          <5>1. rx'.pc \in {7, 9} /\ rx'.delay = 0
            BY <3>m, <4>8, RxMoves
          <5> QED BY <3>1, <4>8, <5>1 DEF Where
        <4>9. CASE rx.pc = 9
          <5>1. rx'.pc = 0
            BY <3>m, <4>9, RxMoves
          <5> QED BY <3>1, <5>1 DEF Where
        <4> QED BY <1>0, <4>0, <4>1, <4>2, <4>3, <4>4, <4>5, <4>6, <4>7, <4>8, <4>9
      <3> QED BY <3>d, <3>m, RxMoves
    <2>2. rx.pc = 10 /\ rx'.pc # 10 => Remaining' = 0
      BY <1>0, <1>2, RxMoves DEF Where
    <2>3. rx'.pc # 10 => high' + Remaining' <= Settled
      BY <1>0, <1>3, <1>4, <1>8, <2>1, <2>2
    <2> QED BY <1>5, <2>3 DEF Resting
  <1> QED BY <1>0, <1>7, <1>8

LEMMA PacedStep ==
  ASSUME Slip <= 3, TInv, Paced, device_step, ghost_step, far' = far
  PROVE  Paced'
  <1>0. /\ DataBits \in Nat \ {0} /\ Slip \in 0 .. 3 /\ Settled = 8 * DataBits + 14 /\ high \in 0 .. Settled
        /\ Start = 0 /\ Stop = DataBits + 1 /\ Quiet = DataBits + 2 /\ Low = DataBits + 3
        /\ device.cell \in 0 .. Low
    BY Numbers
  <1>1. Start' = Start /\ Stop' = Stop /\ Quiet' = Quiet
    BY DEF Start, Stop, Quiet
  <1>2. high' = IF Level = 0 THEN 0 ELSE IF high < Settled THEN high + 1 ELSE high
    BY DEF ghost_step
  <1>3. /\ device'.cell \in 1 .. Stop => Time' >= 8 * device'.cell - Slip
        /\ device'.cell = Start => Time' >= 0 /\ device'.drift \in -1 .. 1
        /\ device'.cell >= Quiet => device'.drift = 0
    BY FrameMoves
  <1>4. ASSUME far = "device", device'.cell \in 1 .. Stop PROVE high' + 7 <= Time'
    <2>1. device.cell \in {device'.cell, device'.cell - 1} /\ Time' = Time + 1
      BY <1>4, FrameMoves
    <2>2. CASE device.cell = Start
      <3>1. Level = 0
        BY <1>4, <2>2, DeviceLevel
      <3>2. device'.cell = 1 /\ Time' >= 7
        BY <1>0, <1>4, <2>1, <2>2, FrameMoves
      <3> QED BY <1>2, <3>1, <3>2
    <2>3. CASE device.cell # Start
      <3>1. device.cell \in 1 .. Stop
        BY <1>0, <1>4, <2>1, <2>3
      <3>2. high + 7 <= Time /\ Time \in Nat
        BY <1>0, <1>4, <3>1, FrameMoves DEF Paced
      <3>3. high' <= high + 1 /\ high' \in Nat
        BY <1>0, <1>2
      <3>4. Time' = Time + 1 /\ high \in Nat
        BY <1>0, <2>1
      <3>5. \A h, n, t \in Nat : h <= n + 1 /\ n + 7 <= t => h + 7 <= t + 1
        OBVIOUS
      <3>6. high' + 7 <= Time + 1
        BY <3>2, <3>3, <3>4, <3>5
      <3> QED BY <3>4, <3>6
    <2> QED BY <2>2, <2>3
  <1> QED BY <1>1, <1>3, <1>4 DEF Paced

LEMMA FollowingInit == Init => Following
  BY DEF Init, Following

(* A receiver that comes in step has been at rest, and so has the line. *)
LEMMA ComesInStep ==
  ASSUME Slip <= 3, TInv, Steady, Steady', ~in_step, cycle, in_step'
  PROVE  /\ far = "device" /\ rx'.pc = 0 /\ device.cell = Quiet
         /\ \/ device'.cell = Quiet
            \/ device'.cell = Start /\ Time' = 0
  <1>a. uart_rx /\ device_step /\ ghost_step /\ far' = far
    BY DEF cycle
  <1>0. /\ DataBits \in Nat \ {0} /\ Slip \in 0 .. 3 /\ Settled = 8 * DataBits + 14 /\ high \in 0 .. Settled
        /\ Start = 0 /\ Stop = DataBits + 1 /\ Quiet = DataBits + 2 /\ Low = DataBits + 3
        /\ device.cell \in 0 .. Low /\ rx.pc \in 0 .. 10 /\ rx.delay \in 0 .. 15 /\ device.drift \in -Slip .. Slip
    BY Numbers
  <1>1. ~Disturbed /\ high' = Settled /\ ~Rx(10)
    BY <1>a DEF ghost_step
  <1>2. far = "device" /\ device'.cell # Low
    <2>1. far \in {"device", "driver"}
      BY ProgramAssumption DEF TInv, TypeOK
    <2> QED BY <1>1, <2>1 DEF Disturbed
  <1>3. Level # 0 /\ high >= Settled - 1
    BY <1>0, <1>1, <1>a DEF ghost_step
  <1>4. device.cell \notin {Start, Low}
    BY <1>2, <1>3, DeviceLevel
  <1>5. device.cell \notin 1 .. Stop
    <2> SUFFICES ASSUME device.cell \in 1 .. Stop PROVE FALSE
      OBVIOUS
    <2>1. high + 7 <= Time
      BY <1>2 DEF Steady, Paced
    <2>2. Time \in 8 * device.cell - Slip .. 8 * device.cell + 7 + device.drift /\ Time \in Nat
      BY <1>0, <1>a, FrameMoves DEF Steady
    <2> QED BY <1>0, <1>3, <2>1, <2>2
  <1>6. device.cell = Quiet
    BY <1>0, <1>4, <1>5
  <1>7. rx'.pc = 0
    <2>1. Where /\ Where'
      <3>1. (TInv /\ Pausing => Where)'
        BY PositionIs, PTL
      <3>2. TInv'
        BY TypeNext DEF Next
      <3> QED BY <3>1, <3>2, PositionIs DEF Steady
    <2>2. rx.pc # 10
      BY <1>0, <1>1 DEF Rx, Steady, Pausing
    <2>3. rx'.pc # 10
      <3> SUFFICES ASSUME rx'.pc = 10 PROVE FALSE
        OBVIOUS
      <3>1. rx.pc = 4
        BY <1>0, <1>a, <2>2, RxMoves
      <3>2. Remaining = 2 + rx.delay /\ high + Remaining <= Settled
        BY <2>1, <3>1 DEF Where, Steady, Resting
      <3> QED BY <1>0, <1>3, <3>2
    <2>4. high' + Remaining' <= Settled
      <3>1. Settled' = Settled
        BY DEF Settled
      <3> QED BY <2>3, <3>1 DEF Steady, Resting
    <2>5. rx'.pc \in 0 .. 10 /\ rx'.delay \in 0 .. 15
      BY <1>a, RxTypes DEF RxRecord
    <2>6. rx'.pc \in 1 .. 9 => Remaining' >= 1 /\ Remaining' \in Nat
      BY <1>0, <2>1, <2>5 DEF Where
    <2> QED BY <1>0, <1>1, <2>3, <2>4, <2>5, <2>6
  <1> QED BY <1>0, <1>2, <1>6, <1>7, <1>a, FrameMoves DEF Steady

(* A receiver that stays in step follows the frame cycle by cycle. *)
LEMMA StaysInStep ==
  ASSUME Slip <= 3, TInv, Steady, Following, cycle, in_step, in_step'
  PROVE  /\ device'.cell # Low /\ rx'.pc \in {0, 1, 2, 3, 4, 10}
         /\ device'.cell <= Stop => AtWork'
         /\ device'.cell = Quiet => rx'.pc \in {0, 10}
         /\ rx.pc = 0 => device.cell \in {Start, Stop, Quiet} /\ rx'.pc \in {0, 1}
         /\ rx.pc = 10 => rx'.pc = 0 /\ device.cell \in {Stop, Quiet}
         /\ rx.pc \in 1 .. 4 => rx'.pc \in {2, 3, 4, 10}
         /\ device.cell = Start /\ device'.cell = 1 => rx.pc \in 1 .. 2
         /\ device.cell = Quiet => rx'.pc = 0
         /\ device.cell \in 0 .. Stop /\ rx.pc # 0 => Time = Position /\ Time \in Nat
         /\ device.cell \in 0 .. Stop => Time \in 8 * device.cell - 3 .. 8 * device.cell + 10
  <1>a. uart_rx /\ device_step /\ ghost_step /\ far' = far
    BY DEF cycle
  <1>0. /\ DataBits \in Nat \ {0} /\ y = DataBits - 1 /\ Slip \in 0 .. 3
        /\ Start = 0 /\ Stop = DataBits + 1 /\ Quiet = DataBits + 2 /\ Low = DataBits + 3
        /\ device.cell \in 0 .. Low /\ rx.pc \in 0 .. 10 /\ rx.delay \in 0 .. 15 /\ rx.x \in 0 .. y
        /\ device.drift \in -Slip .. Slip
    BY Numbers
  <1>1. ~Stalled /\ device'.cell # Low /\ far = "device"
    BY <1>a DEF ghost_step, Disturbed, Following
  <1>2. /\ device.cell # Low /\ rx.pc \in {0, 1, 2, 3, 4, 10}
        /\ device.cell <= Stop => AtWork
        /\ device.cell = Quiet => rx.pc \in {0, 10}
    BY DEF Following
  <1>3. Where /\ Where'
    <2>1. (TInv /\ Pausing => Where)'
      BY PositionIs, PTL
    <2>2. TInv' /\ Pausing'
      BY <1>a, TypeNext, PausingStep DEF Next, Steady
    <2> QED BY <2>1, <2>2, PositionIs DEF Steady
  <1>4. rx'.pc \in 0 .. 10 /\ rx'.delay \in 0 .. 15 /\ rx'.x \in 0 .. y
    BY <1>a, RxTypes DEF RxRecord
  <1>5. device.cell \in 0 .. Stop =>
          Time \in 8 * device.cell - 3 .. 8 * device.cell + 10 /\ Time \in Nat
    BY <1>0, <1>a, FrameMoves DEF Steady
  <1>6. device'.cell \in 0 .. Quiet /\ Stop' = Stop
    <2>1. device'.cell \in 0 .. Low
      <3>1. device'.cell \in 0 .. Low
        BY <1>a, DeviceTypes
      <3> QED BY <3>1
    <2> QED BY <1>0, <1>1, <2>1 DEF Stop
  <1>7. /\ device.cell = Start => Level = 0
        /\ device.cell \in {Stop, Quiet} => Level = 1
    BY <1>1, DeviceLevel
  <1>8. device.cell \in 0 .. Quiet
    BY <1>0, <1>2
  <1>9. /\ device.cell \in 0 .. Stop /\ rx.pc = 4 /\ rx.delay = 0 => device.cell = Stop
        /\ device.cell \in 0 .. Stop /\ rx.pc = 10 => device.cell = Stop
        /\ device.cell \in 0 .. Stop /\ rx.pc = 0 =>
              (device.cell = Start /\ Time = 0) \/ (device.cell = Stop /\ Time >= 8 * DataBits + 14)
    <2> SUFFICES ASSUME device.cell \in 0 .. Stop PROVE
            /\ rx.pc = 4 /\ rx.delay = 0 => device.cell = Stop
            /\ rx.pc = 10 => device.cell = Stop
            /\ rx.pc = 0 => (device.cell = Start /\ Time = 0) \/ (device.cell = Stop /\ Time >= 8 * DataBits + 14)
      OBVIOUS
    <2>1. AtWork
      BY <1>0, <1>2
    <2>2. rx.pc # 0 => Time = Position
      BY <2>1 DEF AtWork
    <2>3. rx.pc = 0 => Time = 0 \/ Time >= 8 * DataBits + 14
      BY <2>1 DEF AtWork
    <2>4. CASE rx.pc = 4 /\ rx.delay = 0
      <3>1. Time = 8 * DataBits + 12
        BY <1>0, <1>3, <2>2, <2>4 DEF Where
      <3> QED BY <1>0, <1>5, <2>4, <3>1
    <2>5. CASE rx.pc = 10
      <3>1. Time = 8 * DataBits + 13
        BY <1>3, <2>2, <2>5 DEF Where
      <3> QED BY <1>0, <1>5, <2>5, <3>1
    <2>6. CASE rx.pc = 0
      <3>1. CASE Time = 0
        <4>1. \A c, t \in Nat : t \in 8 * c - 3 .. 8 * c + 10 /\ t = 0 => c = 0
          OBVIOUS
        <4>2. device.cell = 0
          BY <1>0, <1>5, <3>1, <4>1
        <4>3. device.cell = Start
          BY <1>0, <4>2
        <4> QED BY <2>6, <3>1, <4>3
      <3>2. CASE Time >= 8 * DataBits + 14
        BY <1>0, <1>5, <2>6, <3>2
      <3> QED BY <2>3, <2>6, <3>1, <3>2
    <2> QED BY <2>4, <2>5, <2>6
  <1>10. /\ rx'.pc \in {0, 1, 2, 3, 4, 10}
         /\ rx.pc = 0 => device.cell \in {Start, Stop, Quiet} /\ rx'.pc \in {0, 1}
         /\ rx.pc = 10 => rx'.pc = 0 /\ device.cell \in {Stop, Quiet}
         /\ rx.pc \in 1 .. 4 => rx'.pc \in {2, 3, 4, 10}
    <2>1. rx.pc = 4 /\ rx.delay = 0 => Level = 1
      BY <1>0, <1>2, <1>7, <1>8, <1>9
    <2> HIDE DEF Level, Stalled
    <2>2. rx.pc \in {0, 1, 3, 10} => rx.delay = 0
      BY DEF Steady, Pausing
    <2> QED BY <1>0, <1>1, <1>2, <1>8, <1>9, <1>a, <2>1, <2>2, RxMoves
  <1>11. rx.pc \in 1 .. 4 => Position' = Position + 1
    <2> HIDE DEF Level, Stalled, Position
    <2> SUFFICES ASSUME rx.pc \in 1 .. 4 PROVE Position' = Position + 1
      OBVIOUS
    <2>1. CASE rx.delay > 0
      <3>1. rx.pc \in {2, 4} /\ rx'.pc = rx.pc /\ rx'.x = rx.x /\ rx'.delay = rx.delay - 1
        BY <1>0, <1>a, <2>1, RxMoves DEF Steady, Pausing
      <3> QED BY <1>0, <1>3, <1>4, <3>1 DEF Where
    <2>2. CASE rx.delay = 0
      <3> USE <1>0, <1>3, <1>4, <1>10, <1>a, <2>2
      <3>1. CASE rx.pc = 1
        <4>1. rx'.pc = 2 /\ rx'.x = y /\ rx'.delay = 10 /\ Position = 1
          BY <3>1, RxMoves DEF Where
        <4>2. Position' = 12 + 8 * (y - rx'.x) - rx'.delay
          BY <4>1 DEF Where
        <4> QED BY <4>1, <4>2
      <3>2. CASE rx.pc = 2
        BY <3>2, RxMoves DEF Where
      <3>3. CASE rx.pc = 3
        BY <3>3, RxMoves DEF Where
      <3>4. CASE rx.pc = 4
        BY <3>4, RxMoves DEF Where
      <3> QED BY <3>1, <3>2, <3>3, <3>4
    <2> QED BY <1>0, <2>1, <2>2
  <1>12. device.cell = Quiet => rx'.pc = 0
    <2>1. ASSUME device.cell = Quiet, rx.pc = 0 PROVE rx'.pc = 0
      <3>1. Level = 1 /\ rx.delay = 0
        BY <1>7, <2>1 DEF Steady, Pausing
      <3> QED BY <1>a, <2>1, <3>1, RxMoves
    <2> QED BY <1>2, <1>10, <2>1
  <1>13. ASSUME device'.cell <= Stop PROVE AtWork'
    <2>1. CASE device.cell = Quiet
      <3>1. Time' = 0
        BY <1>0, <1>6, <1>13, <1>a, <2>1, FrameMoves DEF Steady
      <3> QED BY <1>12, <2>1, <3>1 DEF AtWork
    <2>2. CASE device.cell \in 0 .. Stop
      <3>1. Time' = Time + 1
        BY <1>0, <1>6, <1>13, <1>a, <2>2, FrameMoves DEF Steady
      <3>2. CASE rx.pc = 0
        <4>1. rx.delay = 0
          BY <3>2 DEF Steady, Pausing
        <4>2. CASE device.cell = Start /\ Time = 0
          <5>1. rx'.pc = 1
            BY <1>7, <1>a, <3>2, <4>1, <4>2, RxMoves
          <5> QED BY <1>3, <3>1, <4>2, <5>1 DEF AtWork, Where
        <4>3. CASE device.cell = Stop /\ Time >= 8 * DataBits + 14
          <5>1. rx'.pc = 0
            BY <1>7, <1>a, <3>2, <4>1, <4>3, RxMoves
          <5>2. Time + 1 >= 8 * DataBits + 14
            BY <1>0, <1>5, <2>2, <4>3
          <5> QED BY <3>1, <5>1, <5>2 DEF AtWork
        <4> QED BY <1>9, <2>2, <3>2, <4>2, <4>3
      <3>3. CASE rx.pc = 10
        <4>1. Time = 8 * DataBits + 13
          BY <1>0, <1>2, <1>3, <2>2, <3>3 DEF AtWork, Where
        <4> QED BY <1>0, <1>10, <3>1, <3>3, <4>1 DEF AtWork
      <3>4. CASE rx.pc \in 1 .. 4
        <4>1. Time = Position
          BY <1>0, <1>2, <2>2, <3>4 DEF AtWork
        <4> QED BY <1>10, <1>11, <3>1, <3>4, <4>1 DEF AtWork
      <3> QED BY <1>2, <3>2, <3>3, <3>4
    <2> QED BY <1>0, <1>8, <2>1, <2>2
  <1>14. ASSUME device'.cell = Quiet PROVE rx'.pc \in {0, 10}
    <2>1. CASE device.cell = Quiet
      BY <1>12, <2>1
    <2>2. CASE device.cell \in 0 .. Stop
      <3>1. device.cell = Stop /\ Time >= 8 * DataBits + 12
        BY <1>0, <1>14, <1>a, <2>2, FrameMoves DEF Steady
      <3>2. CASE rx.pc = 0
        <4>1. Level = 1 /\ rx.delay = 0
          BY <1>7, <3>1, <3>2 DEF Steady, Pausing
        <4> QED BY <1>a, <3>2, <4>1, RxMoves
      <3>3. CASE rx.pc = 10
        BY <1>10, <3>3
      <3>4. CASE rx.pc \in 1 .. 4
        <4>1. Time = Position
          BY <1>0, <1>2, <2>2, <3>4 DEF AtWork
        <4>2. rx.pc = 4 /\ rx.delay = 0
          BY <1>0, <1>3, <3>1, <3>4, <4>1 DEF Where
        <4> QED BY <1>7, <1>a, <3>1, <4>2, RxMoves
      <3> QED BY <1>2, <3>2, <3>3, <3>4
    <2> QED BY <1>0, <1>8, <2>1, <2>2
  <1>15. ASSUME device.cell = Start, device'.cell = 1 PROVE rx.pc \in 1 .. 2
    <2>1. Time \in 6 .. 10
      <3>1. Time' >= 7 /\ Time' = Time + 1
        BY <1>0, <1>15, <1>a, FrameMoves DEF Steady
      <3> QED BY <1>0, <1>5, <1>15, <3>1
    <2>2. rx.pc \notin {0, 10}
      BY <1>0, <1>9, <1>15, <2>1
    <2>3. Time = Position
      BY <1>0, <1>2, <1>15, <2>2 DEF AtWork
    <2>4. rx.pc \notin {3, 4}
      <3>1. ASSUME rx.pc = 3 PROVE FALSE
        <4>1. Position = 13 + 8 * (y - rx.x)
          BY <1>3, <3>1 DEF Where
        <4>2. \A n \in Nat : \A k \in 0 .. n : 13 + 8 * (n - k) >= 13
          OBVIOUS
        <4>3. Position >= 13
          BY <1>0, <4>1, <4>2
        <4> QED BY <2>1, <2>3, <4>3
      <3>2. ASSUME rx.pc = 4 PROVE FALSE
        <4>1. Position = 8 * DataBits + 12 - rx.delay /\ rx.delay <= 6
          BY <1>3, <3>2 DEF Where, Steady, Pausing
        <4>2. \A n \in Nat \ {0}, k \in Nat : k <= 6 => 8 * n + 12 - k >= 14
          OBVIOUS
        <4>3. Position >= 14
          BY <1>0, <4>1, <4>2
        <4> QED BY <2>1, <2>3, <4>3
      <3> QED BY <3>1, <3>2
    <2> QED BY <1>2, <2>2, <2>4
  <1>16. device.cell \in 0 .. Stop /\ rx.pc # 0 => Time = Position
    BY <1>0, <1>2 DEF AtWork
  <1> QED BY <1>1, <1>5, <1>10, <1>12, <1>13, <1>14, <1>15, <1>16

LEMMA FollowingCycle ==
  ASSUME Slip <= 3, TInv, Steady, Steady', Following, cycle
  PROVE  Following'
  <1>a. uart_rx /\ device_step /\ ghost_step /\ far' = far
    BY DEF cycle
  <1>0. /\ Start' = Start /\ Stop' = Stop /\ Quiet' = Quiet /\ Low' = Low
        /\ Start = 0 /\ Stop = DataBits + 1 /\ Quiet = DataBits + 2 /\ Low = DataBits + 3
        /\ DataBits \in Nat \ {0} /\ due \in Seq(Word)
    BY Constants DEF Start, Stop, Quiet, Low, TInv, TypeOK
  <1>1. due' = IF ~in_step' THEN <<>>
              ELSE IF in_step /\ device.cell = Start /\ device'.cell = 1 THEN Append(due, device.word)
              ELSE IF in_step /\ Rx(10) /\ due # <<>> THEN Tail(due) ELSE due
    BY <1>a DEF ghost_step
  <1>2. CASE ~in_step'
    BY <1>1, <1>2 DEF Following
  <1>3. CASE ~in_step /\ in_step'
    <2>1. /\ far = "device" /\ rx'.pc = 0
          /\ \/ device'.cell = Quiet
             \/ device'.cell = Start /\ Time' = 0
      BY <1>3, ComesInStep
    <2>2. due' = <<>>
      BY <1>1, <1>3 DEF Following
    <2>3. device'.cell <= Stop => AtWork'
      BY <1>0, <2>1 DEF AtWork
    <2> QED BY <1>0, <1>3, <1>a, <2>1, <2>2, <2>3 DEF Following
  <1>4. CASE in_step /\ in_step'
    <2>1. /\ device'.cell # Low /\ rx'.pc \in {0, 1, 2, 3, 4, 10}
          /\ device'.cell <= Stop => AtWork'
          /\ device'.cell = Quiet => rx'.pc \in {0, 10}
          /\ rx.pc = 10 => rx'.pc = 0 /\ device.cell \in {Stop, Quiet}
          /\ rx.pc \in 1 .. 4 => rx'.pc \in {2, 3, 4, 10}
          /\ device.cell = Start /\ device'.cell = 1 => rx.pc \in 1 .. 2
      BY <1>4, StaysInStep
    <2>2. far' = "device"
      BY <1>4, <1>a DEF Following
    <2>3. /\ rx.pc \in {0, 1, 2, 3, 4, 10} /\ device.cell # Low
          /\ due # <<>> => Len(due) = 1 /\ device.cell # Start /\ rx.pc # 0
      BY <1>4 DEF Following
    <2>4. due' # <<>> => Len(due') = 1 /\ device'.cell # Start /\ rx'.pc # 0
      <3>1. CASE device.cell = Start /\ device'.cell = 1
        <4>1. due = <<>> /\ due' = Append(due, device.word)
          BY <1>1, <1>4, <2>3, <3>1
        <4>2. Len(due') = 1
          BY <4>1
        <4> QED BY <1>0, <2>1, <3>1, <4>2
      <3>2. CASE ~(device.cell = Start /\ device'.cell = 1) /\ rx.pc = 10
        <4>1. rx.delay = 0
          BY <3>2 DEF Steady, Pausing
        <4>2. due # <<>> => due' = Tail(due)
          BY <1>1, <1>4, <3>2, <4>1 DEF Rx
        <4>3. due = <<>> => due' = <<>>
          BY <1>1, <1>4, <3>2
        <4>4. due # <<>> => Tail(due) = <<>>
          <5> SUFFICES ASSUME due # <<>> PROVE Tail(due) = <<>>
            OBVIOUS
          <5>1. Tail(due) \in Seq(Word) /\ Len(Tail(due)) = 0
            BY <1>0, <2>3, SequenceFacts
          <5> QED BY <5>1, SequenceFacts
        <4> QED BY <4>2, <4>3, <4>4
      <3>3. CASE ~(device.cell = Start /\ device'.cell = 1) /\ rx.pc # 10
        <4>1. due' = due
          BY <1>1, <1>4, <3>3 DEF Rx
        <4> SUFFICES ASSUME due # <<>> PROVE device'.cell # Start /\ rx'.pc # 0
          BY <2>3, <4>1
        <4>2. rx.pc \in 1 .. 4 /\ device.cell # Start
          BY <2>3, <3>3
        <4>3. device.cell # Quiet
          BY <1>4, <3>3, <4>2 DEF Following
        <4>4. device'.cell # Start
          BY <1>a, <4>2, <4>3, FrameMoves DEF Steady
        <4> QED BY <2>1, <4>2, <4>4
      <3> QED BY <3>1, <3>2, <3>3
    <2> QED BY <1>0, <1>4, <2>1, <2>2, <2>4 DEF Following
  <1> QED BY <1>2, <1>3, <1>4

LEMMA RxNext ==
  ASSUME Slip <= 3, TInv, Steady, Following, [Next]_vars
  PROVE  Steady' /\ Following'
  <1>1. CASE cycle
    <2>1. uart_rx /\ device_step /\ ghost_step /\ far' = far
      BY <1>1 DEF cycle
    <2>2. TInv'
      BY <1>1, TypeNext DEF Next
    <2>3. Steady'
      BY <2>1, <2>2, PausingStep, RestingStep, PacedStep DEF Steady
    <2> QED BY <1>1, <2>3, FollowingCycle
  <1>2. CASE UNCHANGED <<far, device, rx, high, in_step, due>>
    <2>1. Time' = Time /\ Position' = Position /\ Remaining' = Remaining
      BY <1>2 DEF Time, Position, Remaining
    <2>2. Start' = Start /\ Stop' = Stop /\ Quiet' = Quiet /\ Low' = Low /\ Settled' = Settled
      BY DEF Start, Stop, Quiet, Low, Settled
    <2>3. Steady'
      BY <1>2, <2>1, <2>2 DEF Steady, Pausing, Paced, Resting
    <2>4. AtWork' <=> AtWork
      BY <1>2, <2>1 DEF AtWork
    <2>5. Following'
      BY <1>2, <2>2, <2>4 DEF Following
    <2> QED BY <2>3, <2>5
  <1>3. ASSUME NEW w \in Out, poll_out(w) PROVE UNCHANGED <<far, device, rx, high, in_step, due>>
    BY <1>3 DEF poll_out
  <1>4. CASE poll_in
    BY <1>2, <1>4 DEF poll_in, ghost
  <1>5. CASE UNCHANGED vars
    BY <1>2, <1>5 DEF vars, sm, ghost
  <1> QED BY <1>1, <1>2, <1>3, <1>4, <1>5 DEF Next

(* However closely the frames follow each other, and if the device's clock  *)
(* slips by up to three eighths of a bit within one, the receiver owes one  *)
(* word at most and is at work on it: it is back at its first instruction   *)
(* before the next start bit (the 14 + 8 n cycles of uart_rx).             *)
THEOREM NoWordMissed == ASSUME Slip <= 3 PROVE Spec => []NoneMissed
  <1>1. TInv /\ Following => NoneMissed
    <2> SUFFICES ASSUME Following PROVE NoneMissed
      OBVIOUS
    <2>1. due = <<>> => Len(due) = 0
      OBVIOUS
    <2>2. due # <<>> => Len(due) = 1 /\ rx.pc # 0
      BY DEF Following
    <2>3. Len(due) <= 1
      BY <2>1, <2>2
    <2> QED BY <2>2, <2>3 DEF NoneMissed
  <1>2. Init => TInv /\ Steady /\ Following
    BY TypeInit, SteadyInit, FollowingInit
  <1>3. TInv /\ Steady /\ Following /\ [Next]_vars => TInv' /\ Steady' /\ Following'
    BY TypeNext, RxNext
  <1> QED BY <1>1, <1>2, <1>3, PTL DEF Spec

-----------------------------------------------------------------------------
(* What the receiver reads. The bits it has sampled are at the top of the   *)
(* shift register, whatever was left there before them.                    *)

LEMMA PowersAdd ==
  ASSUME NEW a \in Nat, NEW b \in Nat
  PROVE  Pow2[a + b] = Pow2[a] * Pow2[b]
  <1> DEFINE S == {n \in Nat : Pow2[a + n] # Pow2[a] * Pow2[n]}
  <1> SUFFICES ASSUME S # {} PROVE FALSE
    OBVIOUS
  <1>1. PICK k \in S : \A j \in S : k <= j
    BY LeastOf
  <1>2. Pow2[a + 0] = Pow2[a] * Pow2[0]
    BY Powers
  <1>3. k # 0 /\ k - 1 \in Nat /\ k - 1 \notin S
    BY <1>1, <1>2
  <1>4. Pow2[a + (k - 1)] = Pow2[a] * Pow2[k - 1]
    BY <1>3
  <1>5. Pow2[a + k] = 2 * Pow2[a + (k - 1)] /\ Pow2[k] = 2 * Pow2[k - 1]
    <2>1. a + (k - 1) \in Nat /\ (a + (k - 1)) + 1 = a + k /\ (k - 1) + 1 = k
      BY <1>1, <1>3
    <2> QED BY <1>3, <2>1, Powers
  <1>6. Pow2[a] \in Nat /\ Pow2[k - 1] \in Nat
    BY <1>3, Powers
  <1>7. \A p, q \in Nat : 2 * (p * q) = p * (2 * q)
    OBVIOUS
  <1> QED BY <1>1, <1>4, <1>5, <1>6, <1>7

(* A bit shifted in from the top. *)
LEMMA ShiftedIn ==
  ASSUME NEW isr \in Nat, NEW w \in Nat, NEW k \in Nat, k < IsrBits,
         isr \div Pow2[IsrBits - k] = w % Pow2[k]
  PROVE  ((isr \div 2) + Bit(w, k) * Pow2[IsrBits - 1]) \div Pow2[IsrBits - (k + 1)] = w % Pow2[k + 1]
  <1> DEFINE p == Pow2[IsrBits - (k + 1)]
             q == Pow2[k]
             b == Bit(w, k)
  <1>0. IsrBits \in Nat /\ IsrBits - (k + 1) \in Nat /\ IsrBits - k = (IsrBits - (k + 1)) + 1
        /\ IsrBits - 1 = (IsrBits - (k + 1)) + k
    BY Constants
  <1>1. p \in Nat \ {0} /\ q \in Nat \ {0} /\ b \in {0, 1}
    BY <1>0, Powers, BitIs
  <1>2. Pow2[IsrBits - 1] = p * q
    BY <1>0, PowersAdd
  <1>3. Pow2[IsrBits - k] = 2 * p
    BY <1>0, Powers
  <1>4. w % Pow2[k + 1] = (w % q) + b * q
    BY BitIs
  <1>5. isr \div (2 * p) = w % q
    BY <1>3
  <1> HIDE DEF p, q, b
  <1>6. (isr \div 2) \div p = isr \div (2 * p)
    BY <1>1
  <1>7. isr \div 2 \in Nat
    OBVIOUS
  <1>8. ((isr \div 2) + b * (p * q)) \div p = ((isr \div 2) \div p) + b * q
    BY <1>1, <1>7, TopBits
  <1>9. ((isr \div 2) + b * Pow2[IsrBits - 1]) \div p = w % Pow2[k + 1]
    BY <1>2, <1>4, <1>5, <1>6, <1>8
  <1> QED BY <1>9 DEF p, b

LEMMA Polled ==
  ASSUME NEW isr \in Nat, NEW w \in Word, isr \div Pow2[IsrBits - DataBits] = w % Pow2[DataBits]
  PROVE  Poll(isr) = w
  <1>1. Pow2[DataBits] \in Nat \ {0} /\ w \in 0 .. Pow2[DataBits] - 1
    BY Constants, Powers
  <1>2. w % Pow2[DataBits] = w
    BY <1>1
  <1> QED BY <1>2 DEF Poll

LEMMA PollIs ==
  ASSUME NEW isr \in Nat
  PROVE  Poll(isr) \in 0 .. Pow2[DataBits] - 1
  <1>1. Pow2[DataBits] \in Nat \ {0} /\ Pow2[IsrBits - DataBits] \in Nat \ {0}
    BY Constants, Powers
  <1>2. isr \div Pow2[IsrBits - DataBits] \in Nat
    BY <1>1, Division
  <1> QED BY <1>1, <1>2, Division DEF Poll

(* How many bits of the word the receiver has sampled. *)
Samples == CASE rx.pc \in {0, 1} -> 0
             [] rx.pc = 2        -> y - rx.x
             [] rx.pc = 3        -> y - rx.x + 1
             [] OTHER            -> DataBits

Reading ==
    in_step => /\ device.cell = Quiet => rx.pc = 0
               /\ device.cell \in 1 .. Stop /\ rx.pc # 0 => due = <<device.word>>
               /\ device.cell <= Stop /\ rx.pc # 0 =>
                     rx.isr \div Pow2[IsrBits - Samples] = device.word % Pow2[Samples]

LEMMA RxReads ==
  ASSUME TInv, uart_rx
  PROVE  \/ /\ rx.pc = 2 /\ rx.delay = 0 /\ rx_fifo' = rx_fifo
            /\ rx'.isr = (rx.isr \div 2) + Level * Pow2[IsrBits - 1]
         \/ /\ rx.pc = 10 /\ rx.delay = 0 /\ ~Stalled
            /\ rx'.isr = 0 /\ rx_fifo' = Append(rx_fifo, rx.isr)
         \/ ~(rx.pc = 2 /\ rx.delay = 0) /\ rx'.isr = rx.isr /\ rx_fifo' = rx_fifo
  <1>0. rx \in [pc : 0 .. 10, delay : 0 .. 15, x : 0 .. DataBits - 1, isr : 0 .. Pow2[IsrBits] - 1]
    BY DEF TInv, TypeOK
  <1> HIDE DEF Level, Stalled
  <1>a. CASE rx_delay
    BY <1>0, <1>a DEF rx_delay, KeepFlag
  <1>d. CASE in_pins
    BY <1>0, <1>d DEF in_pins, Rx, KeepFlag
  <1>l. CASE push
    <2>1. CASE Stalled
      BY <1>l, <2>1 DEF push, Rx
    <2>2. CASE ~Stalled
      <3>1. rx' = [rx EXCEPT !.pc = 0, !.isr = 0] /\ rx_fifo' = Append(rx_fifo, rx.isr)
        BY <1>l, <2>2 DEF push
      <3>2. rx'.isr = 0
        BY <1>0, <3>1
      <3> QED BY <1>l, <2>2, <3>1, <3>2 DEF push, Rx
    <2> QED BY <2>1, <2>2
  <1>1. CASE wait_start \/ jmp_stop \/ irq \/ jmp_idle \/ jmp_start
    BY <1>0, <1>1 DEF wait_start, jmp_stop, irq, jmp_idle, jmp_start, Rx, Jump, KeepFlag
  <1>2. CASE mov_centre \/ mov_timeout \/ jmp_in \/ jmp_wait
    <2>1. rx.pc # 2 /\ rx_fifo' = rx_fifo
      BY <1>2 DEF mov_centre, mov_timeout, jmp_in, jmp_wait, Rx, KeepFlag
    <2>2. rx'.isr = rx.isr
      <3>1. CASE mov_centre
        BY <1>0, <3>1 DEF mov_centre
      <3>2. CASE mov_timeout
        BY <1>0, <3>2 DEF mov_timeout
      <3>3. CASE jmp_in
        BY <1>0, <3>3 DEF jmp_in
      <3>4. CASE jmp_wait
        BY <1>0, <3>4 DEF jmp_wait
      <3> QED BY <1>2, <3>1, <3>2, <3>3, <3>4
    <2> QED BY <2>1, <2>2
  <1> QED BY <1>a, <1>d, <1>l, <1>1, <1>2 DEF uart_rx

LEMMA SamplesIs ==
  ASSUME TInv
  PROVE  /\ rx.pc \in {0, 1} => Samples = 0
         /\ rx.pc = 2 => Samples = y - rx.x
         /\ rx.pc = 3 => Samples = y - rx.x + 1
         /\ rx.pc \in {4, 10} => Samples = DataBits
  BY Numbers DEF Samples

(* The bit on the line when the receiver samples is the one it is to read.  *)
LEMMA SampledBit ==
  ASSUME Slip <= 3, TInv, Steady, Following, in_step, device.cell \in 0 .. Stop,
         rx.pc = 2, rx.delay = 0, Time = Position,
         Time \in 8 * device.cell - 3 .. 8 * device.cell + 10
  PROVE  Level = Bit(device.word, y - rx.x) /\ y - rx.x \in Nat /\ y - rx.x < DataBits
  <1>0. /\ DataBits \in Nat \ {0} /\ y = DataBits - 1 /\ Stop = DataBits + 1
        /\ device.cell \in Nat /\ rx.x \in 0 .. y
    BY Numbers
  <1> DEFINE k == y - rx.x
             c == device.cell
  <1>1. k \in Nat /\ k < DataBits /\ c \in Nat
    BY <1>0
  <1>2. Time = 12 + 8 * k
    <2>1. Position = 12 + 8 * (y - rx.x) - rx.delay
      BY PositionIs DEF Steady, Where
    <2> QED BY <1>0, <2>1
  <1>3. 12 + 8 * k \in 8 * c - 3 .. 8 * c + 10
    BY <1>2
  <1> HIDE DEF k, c
  <1>4. c = k + 1
    BY <1>1, <1>3
  <1>5. device.cell \in 1 .. DataBits /\ device.cell - 1 = k
    BY <1>0, <1>1, <1>4 DEF c
  <1>6. far = "device"
    BY DEF Following
  <1>7. Level = Bit(device.word, k)
    BY <1>5, <1>6, DeviceLevel
  <1> QED BY <1>1, <1>7 DEF k

LEMMA ReadingInit == Init => Reading
  BY DEF Init, Reading

LEMMA ReadingCycle ==
  ASSUME Slip <= 2, TInv, Steady, Steady', Following, Reading, cycle
  PROVE  Reading'
  <1> SUFFICES ASSUME in_step' PROVE Reading'
    BY DEF Reading
  <1>a. uart_rx /\ device_step /\ ghost_step /\ far' = far
    BY DEF cycle
  <1>0. /\ Start' = Start /\ Stop' = Stop /\ Quiet' = Quiet /\ y' = y
        /\ Start = 0 /\ Stop = DataBits + 1 /\ Quiet = DataBits + 2 /\ Low = DataBits + 3
        /\ DataBits \in Nat \ {0} /\ y = DataBits - 1 /\ DataBits <= IsrBits /\ Slip <= 3
        /\ IsrBits \in Nat
    BY Constants DEF Start, Stop, Quiet, Low, y
  <1>1. CASE ~in_step
    <2>1. rx'.pc = 0
      BY <1>1, <1>0, ComesInStep
    <2> QED BY <2>1 DEF Reading
  <1>2. CASE in_step
    <2>1. /\ device'.cell # Low /\ rx'.pc \in {0, 1, 2, 3, 4, 10}
          /\ rx.pc = 0 => device.cell \in {Start, Stop, Quiet} /\ rx'.pc \in {0, 1}
          /\ rx.pc = 10 => rx'.pc = 0 /\ device.cell \in {Stop, Quiet}
          /\ rx.pc \in 1 .. 4 => rx'.pc \in {2, 3, 4, 10}
          /\ device.cell = Start /\ device'.cell = 1 => rx.pc \in 1 .. 2
          /\ device.cell = Quiet => rx'.pc = 0
          /\ device.cell \in 0 .. Stop /\ rx.pc # 0 => Time = Position /\ Time \in Nat
          /\ device.cell \in 0 .. Stop => Time \in 8 * device.cell - 3 .. 8 * device.cell + 10
      BY <1>0, <1>2, StaysInStep
    <2>2. /\ rx.pc \in {0, 1, 2, 3, 4, 10} /\ device.cell # Low /\ device.cell \in 0 .. Low
      BY <1>2, Numbers DEF Following
    <2>3. device'.cell = Quiet => rx'.pc = 0
      <3> SUFFICES ASSUME device'.cell = Quiet, rx'.pc # 0 PROVE FALSE
        OBVIOUS
      <3>1. device.cell = Stop /\ Time = 8 * DataBits + 15 + device.drift
        BY <1>0, <1>a, <2>1, <2>2, FrameMoves DEF Steady
      <3>2. device.drift \in -2 .. 2
        BY Numbers
      <3>3. rx.pc \in 1 .. 4
        <4>1. rx.pc # 0
          <5>1. ASSUME rx.pc = 0 PROVE FALSE
            <6>1. Level = 1 /\ rx.delay = 0
              BY <1>2, <3>1, <5>1, DeviceLevel DEF Following, Steady, Pausing
            <6> QED BY <1>a, <5>1, <6>1, RxMoves
          <5> QED BY <5>1
        <4> QED BY <2>1, <2>2, <4>1
      <3>4. Time = Position /\ Position \in 1 .. 8 * DataBits + 12
        <4>1. Where
          BY PositionIs DEF Steady
        <4> QED BY <1>0, <2>1, <3>1, <3>3, <4>1 DEF Where
      <3>5. \A d \in Nat, e \in -2 .. 2 : 8 * d + 15 + e > 8 * d + 12
        OBVIOUS
      <3> QED BY <1>0, <3>1, <3>2, <3>4, <3>5
    <2>4. ASSUME device'.cell \in 0 .. Stop, rx'.pc # 0
          PROVE  /\ device.cell \in 0 .. Stop /\ device'.word = device.word /\ rx.pc # 10
                 /\ device.cell \in {device'.cell, device'.cell - 1}
      <3>1. device.cell \in 0 .. Stop
        BY <1>0, <2>1, <2>2, <2>4
      <3>2. device.cell \in 0 .. DataBits => device'.cell \in {device.cell, device.cell + 1}
        BY <1>0, <1>a, FrameMoves DEF Steady
      <3>3. device.cell = Stop => device'.cell = Stop
        BY <1>0, <1>a, <2>4, FrameMoves DEF Steady
      <3>4. device'.word = device.word
        BY <1>0, <1>a, <2>4, <3>1, DeviceMoves
      <3> QED BY <1>0, <2>1, <2>4, <3>1, <3>2, <3>3, <3>4
    <2>5. ASSUME device'.cell \in 1 .. Stop, rx'.pc # 0 PROVE due' = <<device'.word>>
      <3>1. /\ device.cell \in 0 .. Stop /\ device'.word = device.word /\ rx.pc # 10
            /\ device.cell \in {device'.cell, device'.cell - 1}
        BY <1>0, <2>4, <2>5
      <3>2. due' = IF ~in_step' THEN <<>>
                   ELSE IF in_step /\ device.cell = Start /\ device'.cell = 1 THEN Append(due, device.word)
                   ELSE IF in_step /\ Rx(10) /\ due # <<>> THEN Tail(due) ELSE due
        BY <1>a DEF ghost_step
      <3>3. CASE device.cell = Start
        <4>1. device'.cell = 1 /\ due = <<>>
          BY <1>0, <2>5, <3>1, <3>3 DEF Following
        <4> QED BY <1>2, <3>1, <3>2, <3>3, <4>1
      <3>4. CASE device.cell # Start
        <4>1. due' = due
          BY <1>2, <3>1, <3>2, <3>4 DEF Rx
        <4>2. device.cell \in 1 .. Stop
          BY <1>0, <3>1, <3>4
        <4>3. rx.pc # 0
          <5> SUFFICES ASSUME rx.pc = 0 PROVE FALSE
            OBVIOUS
          <5>1. device.cell = Stop /\ rx.delay = 0
            BY <1>0, <2>1, <3>1, <3>4 DEF Steady, Pausing
          <5>2. Level = 1
            BY <1>2, <5>1, DeviceLevel DEF Following
          <5> QED BY <1>a, <2>5, <5>1, <5>2, RxMoves
        <4> QED BY <1>2, <3>1, <4>1, <4>2, <4>3 DEF Reading
      <3> QED BY <3>3, <3>4
    <2>6. ASSUME device'.cell <= Stop, rx'.pc # 0
          PROVE  rx'.isr \div Pow2[IsrBits - Samples'] = device'.word % Pow2[Samples']
      <3> DEFINE w == device.word
      <3>1. /\ device.cell \in 0 .. Stop /\ device'.word = w /\ rx.pc # 10 /\ device'.cell \in 0 .. Stop
        <4>1. device'.cell \in 0 .. Low
          <5>1. device'.cell \in 0 .. Low
            BY <1>a, DeviceTypes
          <5> QED BY <5>1
        <4>2. device'.cell \in 0 .. Stop
          BY <1>0, <2>6, <4>1
        <4> QED BY <2>4, <2>6, <4>2
      <3>2. rx.pc # 0 => rx.isr \div Pow2[IsrBits - Samples] = w % Pow2[Samples]
        BY <1>0, <1>2, <3>1 DEF Reading
      <3>3. /\ rx.isr \in 0 .. Pow2[IsrBits] - 1 /\ w \in Nat /\ rx.delay \in 0 .. 15
            /\ rx.x \in 0 .. y /\ rx'.x \in 0 .. y
        BY <1>a, Fields, RxTypes DEF TInv, RxRecord
      <3>4. /\ rx'.pc = 1 => Samples' = 0
            /\ rx'.pc = 2 => Samples' = y - rx'.x
            /\ rx'.pc = 3 => Samples' = y - rx'.x + 1
            /\ rx'.pc \in {4, 10} => Samples' = DataBits
        BY <1>0 DEF Samples
      <3>5. ~(rx.pc = 2 /\ rx.delay = 0) => rx'.isr = rx.isr
        BY <1>a, <3>1, RxReads
      <3>6. rx.pc \in {0, 1, 3} => rx.delay = 0
        BY DEF Steady, Pausing
      <3>7. ASSUME rx.pc = 0 PROVE rx'.isr \div Pow2[IsrBits - Samples'] = w % Pow2[Samples']
        <4>1. Samples' = 0 /\ rx'.isr = rx.isr
          BY <2>1, <2>6, <3>4, <3>5, <3>7
        <4>2. Pow2[0] = 1 /\ Pow2[IsrBits] \in Nat \ {0} /\ IsrBits - 0 = IsrBits
          BY <1>0, Powers
        <4>3. rx.isr \div Pow2[IsrBits] = 0 /\ w % 1 = 0
          BY <3>3, <4>2
        <4> QED BY <4>1, <4>2, <4>3
      <3>8. ASSUME rx.pc # 0, ~(rx.pc = 2 /\ rx.delay = 0) PROVE Samples' = Samples
        <4>1. CASE rx.delay > 0
          <5>1. rx.pc \in {2, 4} /\ rx'.pc = rx.pc /\ rx'.x = rx.x
            BY <1>a, <2>2, <3>1, <3>3, <3>6, <3>8, <4>1, RxMoves
          <5> QED BY <3>4, <5>1, SamplesIs
        <4>2. CASE rx.delay = 0 /\ rx.pc = 1
          <5>1. rx'.pc = 2 /\ rx'.x = y
            BY <1>a, <4>2, RxMoves
          <5> QED BY <1>0, <3>4, <4>2, <5>1, SamplesIs
        <4>3. CASE rx.delay = 0 /\ rx.pc = 3
          <5>1. \/ rx.x > 0 /\ rx'.pc = 2 /\ rx'.x = rx.x - 1
                \/ rx.x = 0 /\ rx'.pc = 4
            BY <1>a, <4>3, RxMoves
          <5> QED BY <1>0, <3>3, <3>4, <4>3, <5>1, SamplesIs
        <4>4. CASE rx.delay = 0 /\ rx.pc = 4
          <5>1. rx'.pc = 10
            BY <1>a, <2>1, <4>4, RxMoves
          <5> QED BY <3>4, <4>4, <5>1, SamplesIs
        <4> QED BY <2>2, <3>1, <3>3, <3>8, <4>1, <4>2, <4>3, <4>4
      <3>9. ASSUME rx.pc = 2, rx.delay = 0
            PROVE  rx'.isr \div Pow2[IsrBits - Samples'] = w % Pow2[Samples']
        <4> DEFINE k == y - rx.x
        <4>1. Level = Bit(w, k) /\ k \in Nat /\ k < DataBits
          BY <1>0, <1>2, <2>1, <3>1, <3>9, SampledBit
        <4>2. Samples = k /\ rx'.pc = 3 /\ rx'.x = rx.x
          BY <1>a, <3>9, RxMoves, SamplesIs
        <4>3. Samples' = k + 1
          BY <3>4, <4>2
        <4>4. rx'.isr = (rx.isr \div 2) + Bit(w, k) * Pow2[IsrBits - 1]
          BY <1>a, <3>9, <4>1, RxReads
        <4>5. rx.isr \div Pow2[IsrBits - k] = w % Pow2[k] /\ k < IsrBits /\ rx.isr \in Nat
          <5>1. Pow2[IsrBits] \in Nat
            BY <1>0, Powers
          <5> QED BY <1>0, <3>2, <3>3, <3>9, <4>1, <4>2, <5>1
        <4> HIDE DEF k
        <4>6. ((rx.isr \div 2) + Bit(w, k) * Pow2[IsrBits - 1]) \div Pow2[IsrBits - (k + 1)] = w % Pow2[k + 1]
          BY <3>3, <4>1, <4>5, ShiftedIn
        <4> QED BY <4>3, <4>4, <4>6
      <3> QED BY <3>1, <3>2, <3>5, <3>7, <3>8, <3>9
    <2> QED BY <1>0, <2>3, <2>5, <2>6 DEF Reading
  <1> QED BY <1>1, <1>2

LEMMA ReadingNext ==
  ASSUME Slip <= 2, TInv, Steady, Following, Reading, [Next]_vars
  PROVE  Reading'
  <1>1. CASE cycle
    <2>1. Slip <= 3
      BY Constants
    <2>2. Steady'
      BY <1>1, <2>1, RxNext DEF Next
    <2> QED BY <1>1, <2>2, ReadingCycle
  <1>2. CASE UNCHANGED <<far, device, rx, high, in_step, due>>
    <2>1. Samples' = Samples /\ Stop' = Stop /\ Quiet' = Quiet
      BY <1>2 DEF Samples, Stop, Quiet, y
    <2> QED BY <1>2, <2>1 DEF Reading
  <1>3. ASSUME NEW w \in Out, poll_out(w) PROVE UNCHANGED <<far, device, rx, high, in_step, due>>
    BY <1>3 DEF poll_out
  <1>4. CASE poll_in
    BY <1>2, <1>4 DEF poll_in, ghost
  <1>5. CASE UNCHANGED vars
    BY <1>2, <1>5 DEF vars, sm, ghost
  <1> QED BY <1>1, <1>2, <1>3, <1>4, <1>5 DEF Next

-----------------------------------------------------------------------------
(* The refinement of WordLine: what each cycle, and each poll_in, is to the *)
(* reader of the line.                                                      *)

Polls(q) == [i \in DOMAIN q |-> Poll(q[i])]

Raw == 0 .. Pow2[IsrBits] - 1

LEMMA PollsAre ==
  /\ Polls(<<>>) = <<>>
  /\ \A q \in Seq(Raw) : /\ Polls(q) \in Seq(0 .. Pow2[DataBits] - 1)
                         /\ Len(Polls(q)) = Len(q)
                         /\ \A i \in 1 .. Len(q) : Polls(q)[i] = Poll(q[i])
  <1>1. Polls(<<>>) = <<>>
    BY DEF Polls
  <1>2. ASSUME NEW q \in Seq(Raw)
        PROVE  /\ Polls(q) \in Seq(0 .. Pow2[DataBits] - 1)
               /\ Len(Polls(q)) = Len(q)
               /\ \A i \in 1 .. Len(q) : Polls(q)[i] = Poll(q[i])
    <2>1. DOMAIN q = 1 .. Len(q) /\ Len(q) \in Nat
      BY LenProperties
    <2>2. \A i \in 1 .. Len(q) : q[i] \in Nat
      <3>1. Pow2[IsrBits] \in Nat
        BY Constants, Powers
      <3> QED BY <3>1, ElementOfSeq DEF Raw
    <2>3. \A i \in 1 .. Len(q) : Poll(q[i]) \in 0 .. Pow2[DataBits] - 1
      BY <2>2, PollIs
    <2>4. Polls(q) = [i \in 1 .. Len(q) |-> Poll(q[i])]
      BY <2>1 DEF Polls
    <2>5. Polls(q) \in [1 .. Len(q) -> 0 .. Pow2[DataBits] - 1]
      BY <2>3, <2>4
    <2>6. Polls(q) \in Seq(0 .. Pow2[DataBits] - 1)
      <3> DEFINE n == Len(q)
                 V == 0 .. Pow2[DataBits] - 1
      <3>1. n \in Nat /\ Polls(q) \in [1 .. n -> V]
        BY <2>1, <2>5
      <3> HIDE DEF n, V
      <3>2. Polls(q) \in Seq(V)
        BY <3>1, SeqDef
      <3> QED BY <3>2 DEF V
    <2>7. DOMAIN Polls(q) = 1 .. Len(q)
      BY <2>4
    <2>8. Len(Polls(q)) = Len(q)
      BY <2>1, <2>6, <2>7, LenProperties
    <2> QED BY <2>4, <2>6, <2>8
  <1> QED BY <1>1, <1>2

LEMMA PollsOfMore ==
  ASSUME NEW q \in Seq(Raw), NEW e \in Raw
  PROVE  Polls(Append(q, e)) = Append(Polls(q), Poll(e))
  <1> DEFINE V == 0 .. Pow2[DataBits] - 1
             r == Append(q, e)
             s == Append(Polls(q), Poll(e))
  <1>1. /\ r \in Seq(Raw) /\ Len(r) = Len(q) + 1 /\ r[Len(q) + 1] = e
        /\ \A i \in 1 .. Len(q) : r[i] = q[i]
    BY AppendProperties
  <1>2. Polls(q) \in Seq(V) /\ Len(Polls(q)) = Len(q) /\ Len(q) \in Nat
    BY PollsAre, LenProperties
  <1>3. Poll(e) \in V
    <2>1. Pow2[IsrBits] \in Nat
      BY Constants, Powers
    <2>2. e \in Nat
      BY <2>1 DEF Raw
    <2> QED BY <2>2, PollIs
  <1>4. /\ s \in Seq(V) /\ Len(s) = Len(q) + 1 /\ s[Len(q) + 1] = Poll(e)
        /\ \A i \in 1 .. Len(q) : s[i] = Polls(q)[i]
    <2> HIDE DEF V
    <2> QED BY <1>2, <1>3, AppendProperties
  <1>5. Polls(r) \in Seq(V) /\ Len(Polls(r)) = Len(r) /\ \A i \in 1 .. Len(r) : Polls(r)[i] = Poll(r[i])
    BY <1>1, PollsAre
  <1>6. \A i \in 1 .. Len(q) : Polls(q)[i] = Poll(q[i])
    BY PollsAre
  <1> HIDE DEF V, r, s
  <1>7. \A i \in 1 .. Len(s) : Polls(r)[i] = s[i]
    <2> SUFFICES ASSUME NEW i \in 1 .. Len(s) PROVE Polls(r)[i] = s[i]
      OBVIOUS
    <2>1. i \in 1 .. Len(q) \/ i = Len(q) + 1
      BY <1>2, <1>4
    <2>2. Polls(r)[i] = Poll(r[i])
      BY <1>1, <1>4, <1>5
    <2> QED BY <1>1, <1>4, <1>6, <2>1, <2>2
  <1>8. Polls(r) = s
    BY <1>1, <1>4, <1>5, <1>7, SeqEqual
  <1> QED BY <1>8 DEF r, s

LEMMA PollsOfRest ==
  ASSUME NEW q \in Seq(Raw), q # <<>>
  PROVE  Polls(q) # <<>> /\ Polls(Tail(q)) = Tail(Polls(q))
  <1> DEFINE V == 0 .. Pow2[DataBits] - 1
             p == Polls(q)
  <1>1. Len(q) \in Nat \ {0}
    BY EmptySeq, LenProperties
  <1>2. p \in Seq(V) /\ Len(p) = Len(q) /\ \A i \in 1 .. Len(q) : p[i] = Poll(q[i])
    BY PollsAre
  <1> HIDE DEF V, p
  <1>3. p # <<>>
    BY <1>1, <1>2
  <1>4. Tail(q) \in Seq(Raw) /\ Len(Tail(q)) = Len(q) - 1 /\ \A i \in 1 .. Len(Tail(q)) : Tail(q)[i] = q[i + 1]
    BY HeadTailProperties
  <1>5. Tail(p) \in Seq(V) /\ Len(Tail(p)) = Len(p) - 1 /\ \A i \in 1 .. Len(Tail(p)) : Tail(p)[i] = p[i + 1]
    BY <1>2, <1>3, HeadTailProperties
  <1>6. /\ Polls(Tail(q)) \in Seq(V) /\ Len(Polls(Tail(q))) = Len(Tail(q))
        /\ \A i \in 1 .. Len(Tail(q)) : Polls(Tail(q))[i] = Poll(Tail(q)[i])
    BY <1>4, PollsAre DEF V
  <1>7. \A i \in 1 .. Len(Tail(p)) : Polls(Tail(q))[i] = Tail(p)[i]
    BY <1>1, <1>2, <1>4, <1>5, <1>6
  <1>8. Polls(Tail(q)) = Tail(p)
    BY <1>2, <1>4, <1>5, <1>6, <1>7, SeqEqual
  <1> QED BY <1>3, <1>8 DEF p

LEMMA Pushes ==
  ASSUME TInv, uart_rx
  PROVE  IF Rx(10) /\ ~Stalled THEN rx_fifo' = Append(rx_fifo, rx.isr) ELSE rx_fifo' = rx_fifo
  <1>1. CASE Rx(10) /\ ~Stalled
    <2>1. push
      BY <1>1 DEF uart_rx, rx_delay, wait_start, mov_centre, in_pins, jmp_in, jmp_stop, irq,
                  mov_timeout, jmp_idle, jmp_wait, jmp_start, Rx
    <2> QED BY <1>1, <2>1 DEF push
  <1>2. CASE ~(Rx(10) /\ ~Stalled)
    BY <1>2, RxReads DEF Rx
  <1> QED BY <1>1, <1>2

LEMMA LineSends ==
  ASSUME NEW w \in Word, in_step, in_step' = in_step, due' = Append(due, w), rx_fifo' = rx_fifo
  PROVE  Line!Next
  <1>1. w \in 0 .. Pow2[DataBits] - 1
    BY ProgramAssumption
  <1>2. Line!Send(w)
    BY DEF Line!Send
  <1> QED BY <1>1, <1>2 DEF Line!Next

LEMMA LineDelivers ==
  ASSUME NEW w \in Word, in_step' = in_step, in_step, due = <<w>>, due' = Tail(due),
         rx_fifo \in Seq(Raw), rx.isr \in Raw, rx_fifo' = Append(rx_fifo, rx.isr), Poll(rx.isr) = w
  PROVE  Line!Next
  <1>1. Polls(rx_fifo') = Append(Polls(rx_fifo), w)
    BY PollsOfMore
  <1>2. due # <<>> /\ Head(due) = w
    OBVIOUS
  <1>3. Line!Deliver
    BY <1>1, <1>2 DEF Line!Deliver, Polls
  <1> QED BY <1>3 DEF Line!Next

LEMMA LineMisreads ==
  ASSUME ~in_step, in_step' = in_step, due' = due,
         rx_fifo \in Seq(Raw), rx.isr \in Raw, rx_fifo' = Append(rx_fifo, rx.isr)
  PROVE  Line!Next
  <1>1. Polls(rx_fifo') = Append(Polls(rx_fifo), Poll(rx.isr))
    BY PollsOfMore
  <1>2. Poll(rx.isr) \in 0 .. Pow2[DataBits] - 1
    <2>1. Pow2[IsrBits] \in Nat
      BY Constants, Powers
    <2>2. rx.isr \in Nat
      BY <2>1 DEF Raw
    <2> QED BY <2>2, PollIs
  <1>3. Line!Misread(Poll(rx.isr))
    BY <1>1 DEF Line!Misread, Polls
  <1> QED BY <1>2, <1>3 DEF Line!Next

LEMMA LineCycle ==
  ASSUME Slip <= 2, TInv, Steady, Steady', Following, Reading, cycle
  PROVE  Line!Next \/ UNCHANGED Line!wordVars
  <1>a. uart_rx /\ device_step /\ ghost_step /\ far' = far
    BY DEF cycle
  <1>0. /\ rx_fifo \in Seq(Raw) /\ rx.isr \in Raw /\ in_step \in BOOLEAN /\ Slip <= 3
        /\ Quiet = DataBits + 2 /\ Low = DataBits + 3 /\ Stop = DataBits + 1 /\ DataBits \in Nat
    BY Constants, Fields DEF TInv, TypeOK, Raw, Quiet, Low, Stop
  <1>1. IF Rx(10) /\ ~Stalled THEN rx_fifo' = Append(rx_fifo, rx.isr) ELSE rx_fifo' = rx_fifo
    BY <1>a, Pushes
  <1>2. due' = IF ~in_step' THEN <<>>
               ELSE IF in_step /\ device.cell = Start /\ device'.cell = 1 THEN Append(due, device.word)
               ELSE IF in_step /\ Rx(10) /\ due # <<>> THEN Tail(due) ELSE due
    BY <1>a DEF ghost_step
  <1>3. in_step' = (~Disturbed /\ (in_step \/ (high' = Settled /\ ~Rx(10))))
    BY <1>a DEF ghost_step
  <1>4. ~in_step => due = <<>>
    BY DEF Following
  <1>5. ASSUME rx_fifo' = rx_fifo
        PROVE  [i \in DOMAIN rx_fifo' |-> Poll(rx_fifo'[i])] = [i \in DOMAIN rx_fifo |-> Poll(rx_fifo[i])]
    BY <1>5
  <1>6. ASSUME in_step, Rx(10) PROVE device.cell # Quiet
    BY <1>6 DEF Reading, Rx
  <1>7. CASE ~in_step'
    <2>1. in_step' = FALSE /\ due' = <<>>
      BY <1>2, <1>3, <1>7
    <2>2. CASE rx_fifo' = rx_fifo
      <3>1. Line!Disturb
        BY <1>5, <2>1, <2>2 DEF Line!Disturb
      <3> QED BY <3>1 DEF Line!Next
    <2>3. CASE rx_fifo' # rx_fifo /\ ~in_step
      BY <1>0, <1>1, <1>4, <2>1, <2>3, LineMisreads
    <2>4. ASSUME rx_fifo' # rx_fifo, in_step PROVE FALSE
      <3>1. Rx(10) /\ ~Stalled
        BY <1>1, <2>4
      <3>2. far # "driver" /\ device.cell # Low
        BY <2>4 DEF Following
      <3>3. device'.cell = Low
        BY <1>3, <1>7, <2>4, <3>1, <3>2 DEF Disturbed
      <3>4. device.cell \in {Quiet, Low}
        <4>1. Start = 0 /\ device.cell \in 0 .. Low
          BY Numbers
        <4> QED BY <1>a, <1>0, <3>3, <4>1, DeviceMoves
      <3> QED BY <1>6, <2>4, <3>1, <3>2, <3>4
    <2> QED BY <2>2, <2>3, <2>4
  <1>8. CASE in_step' /\ ~in_step
    <2>1. rx_fifo' = rx_fifo
      BY <1>1, <1>3, <1>8
    <2>2. due' = due /\ in_step' = TRUE
      BY <1>2, <1>3, <1>8
    <2>3. Line!Settle
      BY <1>5, <2>1, <2>2 DEF Line!Settle
    <2> QED BY <2>3 DEF Line!Next
  <1>9. CASE in_step' /\ in_step
    <2>1. /\ device.cell = Start /\ device'.cell = 1 => rx.pc \in 1 .. 2
          /\ rx.pc = 10 => device.cell \in {Stop, Quiet}
      BY <1>0, <1>9, StaysInStep
    <2>2. ~Stalled /\ in_step' = in_step
      BY <1>0, <1>3, <1>9 DEF Disturbed
    <2>3. CASE device.cell = Start /\ device'.cell = 1
      <3>1. rx_fifo' = rx_fifo
        BY <1>1, <2>1, <2>3 DEF Rx
      <3>2. due' = Append(due, device.word)
        BY <1>2, <1>9, <2>3
      <3>3. device.word \in Word
        BY <1>0, <2>3 DEF TInv, Framed, Start
      <3> QED BY <1>9, <3>1, <3>2, <3>3, LineSends
    <2>4. CASE ~(device.cell = Start /\ device'.cell = 1) /\ Rx(10)
      <3> DEFINE w == device.word
      <3>1. device.cell = Stop /\ rx.pc = 10
        BY <1>6, <1>9, <2>1, <2>4 DEF Rx
      <3>2. w \in Word /\ due = <<w>> /\ rx.isr \div Pow2[IsrBits - Samples] = w % Pow2[Samples]
        <4>1. device.cell \in 1 .. Stop /\ device.cell <= Stop
          BY <1>0, <3>1
        <4>2. w \in Word
          BY <4>1 DEF TInv, Framed
        <4> QED BY <1>9, <3>1, <4>1, <4>2 DEF Reading
      <3>3. Poll(rx.isr) = w
        <4>1. Samples = DataBits
          BY <3>1, SamplesIs
        <4>2. rx.isr \in Nat
          BY <1>0, Constants, Powers DEF Raw
        <4> QED BY <3>2, <4>1, <4>2, Polled
      <3>4. due' = Tail(due)
        BY <1>2, <1>9, <2>4, <3>2
      <3>5. rx_fifo' = Append(rx_fifo, rx.isr)
        BY <1>1, <2>2, <2>4
      <3> QED BY <1>0, <1>9, <2>2, <3>2, <3>3, <3>4, <3>5, LineDelivers
    <2>5. CASE ~(device.cell = Start /\ device'.cell = 1) /\ ~Rx(10)
      <3>1. rx_fifo' = rx_fifo /\ due' = due
        BY <1>1, <1>2, <1>9, <2>5
      <3> QED BY <1>5, <2>2, <3>1 DEF Line!wordVars
    <2> QED BY <2>3, <2>4, <2>5
  <1> QED BY <1>7, <1>8, <1>9

LEMMA LineStep ==
  ASSUME Slip <= 2, TInv, Steady, Following, Reading, [Next]_vars
  PROVE  [Line!Next]_Line!wordVars
  <1>1. CASE cycle
    <2>1. Slip <= 3
      BY Constants
    <2>2. Steady'
      BY <1>1, <2>1, RxNext DEF Next
    <2> QED BY <1>1, <2>2, LineCycle
  <1>2. CASE poll_in
    <2>1. rx_fifo # <<>> /\ rx_fifo' = Tail(rx_fifo) /\ in_step' = in_step /\ due' = due
      BY <1>2 DEF poll_in, ghost
    <2>2. rx_fifo \in Seq(Raw)
      BY DEF TInv, TypeOK, Raw
    <2>3. Polls(rx_fifo) # <<>> /\ Polls(rx_fifo') = Tail(Polls(rx_fifo))
      BY <2>1, <2>2, PollsOfRest
    <2>4. Line!Read
      BY <2>1, <2>3 DEF Line!Read, Polls
    <2> QED BY <2>4 DEF Line!Next
  <1>3. CASE UNCHANGED <<in_step, due, rx_fifo>>
    BY <1>3 DEF Line!wordVars
  <1>4. ASSUME NEW w \in Out, poll_out(w) PROVE UNCHANGED <<in_step, due, rx_fifo>>
    BY <1>4 DEF poll_out
  <1>5. CASE UNCHANGED vars
    BY <1>3, <1>5 DEF vars, sm, ghost
  <1> QED BY <1>1, <1>2, <1>3, <1>4, <1>5 DEF Next

(* If the device's clock slips by up to a quarter of a bit within a frame,  *)
(* uart_rx and the shift in poll_in implement the queue of words: in step,  *)
(* poll_in returns what the device sent, in order, and after a break or an  *)
(* overflow it does so again once the line has rested.                      *)
THEOREM WordsDelivered == ASSUME Slip <= 2 PROVE Spec => Delivered
  <1>1. Init => TInv /\ Steady /\ Following /\ Reading /\ Line!Init
    <2>1. Init => Line!Init
      BY PollsAre DEF Init, Line!Init, Polls
    <2> QED BY <2>1, TypeInit, SteadyInit, FollowingInit, ReadingInit
  <1>2. TInv /\ Steady /\ Following /\ Reading /\ [Next]_vars
          => TInv' /\ Steady' /\ Following' /\ Reading'
    <2>1. Slip <= 2 => Slip <= 3
      BY Constants
    <2> QED BY <2>1, TypeNext, RxNext, ReadingNext
  <1>3. TInv /\ Steady /\ Following /\ Reading /\ [Next]_vars => [Line!Next]_Line!wordVars
    BY LineStep
  <1> QED BY <1>1, <1>2, <1>3, PTL DEF Spec, Delivered, Line!Spec

=============================================================================
