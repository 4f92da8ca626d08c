----------------------------- MODULE PioUartProofs -----------------------------
(***************************************************************************)
(* Proofs about PioUart, for any number of devices and blocks, whatever    *)
(* other drivers hold of them: the type, that a device which is ready has  *)
(* what it needs to itself, and that the shared interrupt handler takes no *)
(* word from under a poll of a UART without a callback.                    *)
(***************************************************************************)
EXTENDS PioUart, TLAPS, FiniteSetTheorems, SequenceTheorems, WellFoundedInduction

LEMMA Sizes == /\ N \in Nat /\ MaxInstances \in Nat
               /\ Capacity \in Nat \ {0} /\ PioOf \in [Dev -> Pio]
  BY PioAssumption DEF Dev

(* The least member of a set of naturals, which Min chooses. *)
LEMMA Least ==
  ASSUME NEW S \in SUBSET Nat, S # {} PROVE Min(S) \in S /\ \A k \in S : Min(S) <= k
  <1> DEFINE R == OpToRel(<, Nat)
  <1>1. IsWellFoundedOn(R, Nat)
    BY NatLessThanWellFounded
  <1>2. PICK x \in S : \A k \in S : <<k, x>> \notin R
    <2> HIDE DEF R
    <2> QED BY <1>1, WFMin
  <1>3. \A k \in S : x <= k
    <2>1. ASSUME NEW k \in S, k < x PROVE <<k, x>> \in R
      <3>1. <<k, x>> \in Nat \X Nat /\ <<k, x>>[1] = k /\ <<k, x>>[2] = x
        OBVIOUS
      <3> QED BY <2>1, <3>1, Zenon DEF OpToRel
    <2>2. \A k \in S : ~(k < x)
      BY <1>2, <2>1, Zenon
    <2> QED BY <2>2
  <1> QED BY <1>3 DEF Min

LEMMA SomeSms == ASSUME NEW F \in SUBSET Sm PROVE IsFiniteSet(F) /\ Cardinality(F) \in Nat
  <1>1. IsFiniteSet(Sm)
    <2>1. IsFiniteSet(0 .. 3)
      <3>1. 0 \in Int /\ 3 \in Int
        OBVIOUS
      <3> QED BY <3>1, FS_Interval, Zenon
    <2> QED BY <2>1 DEF Sm
  <1>2. IsFiniteSet(F)
    BY <1>1, FS_Subset
  <1> QED BY <1>2, FS_CardinalityType

(* The two state machines a device takes are two, and Min and Max of them   *)
(* are RX and TX.                                                           *)
LEMMA Pair ==
  ASSUME NEW a \in Sm, NEW b \in Sm, a # b
  PROVE  /\ Cardinality({a, b}) = 2
         /\ Min({a, b}) \in {a, b} /\ Max({a, b}) \in {a, b} /\ Min({a, b}) # Max({a, b})
  <1>1. Cardinality({a, b}) = 2
    <2>1. IsFiniteSet({a}) /\ Cardinality({a}) = 1 /\ {a, b} = {a} \cup {b} /\ b \notin {a}
      BY FS_Singleton
    <2> QED BY <2>1, FS_AddElement
  <1>2. CASE a < b
    <2>1. \A y \in {a, b} : a <= y /\ b >= y
      BY <1>2 DEF Sm
    <2>2. Min({a, b}) = a /\ Max({a, b}) = b
      BY <1>2, <2>1 DEF Min, Max, Sm
    <2> QED BY <1>1, <2>2
  <1>3. CASE b < a
    <2>1. \A y \in {a, b} : b <= y /\ a >= y
      BY <1>3 DEF Sm
    <2>2. Min({a, b}) = b /\ Max({a, b}) = a
      BY <1>3, <2>1 DEF Min, Max, Sm
    <2> QED BY <1>1, <2>2
  <1> QED BY <1>2, <1>3 DEF Sm

LEMMA TwoFree ==
  ASSUME NEW F \in SUBSET Sm, Cardinality(F) >= 2
  PROVE  Min(F) \in F /\ Min(F \ {Min(F)}) \in F \ {Min(F)}
  <1>1. IsFiniteSet(F) /\ Cardinality(F) \in Nat /\ F \in SUBSET Nat
    BY SomeSms DEF Sm
  <1>2. F # {}
    BY <1>1, FS_EmptySet
  <1>3. Min(F) \in F
    BY <1>1, <1>2, Least
  <1>4. F \ {Min(F)} # {}
    <2>1. Cardinality(F \ {Min(F)}) = Cardinality(F) - 1
      BY <1>1, <1>3, FS_RemoveElement
    <2> QED BY <1>1, <2>1, FS_EmptySet
  <1> QED BY <1>1, <1>3, <1>4, Least

(* What uart_init claims was free, and if it is two they are different.     *)
LEMMA Claims ==
  ASSUME NEW p, Free(p) \in SUBSET Sm
  PROVE  /\ Claimed(p) \subseteq Free(p)
         /\ Cardinality(Claimed(p)) = 2 =>
               /\ Min(Claimed(p)) \in Claimed(p) /\ Max(Claimed(p)) \in Claimed(p)
               /\ Min(Claimed(p)) # Max(Claimed(p))
  <1> DEFINE F == Free(p)  a == Min(F)  b == Min(F \ {a})
  <1> HIDE DEF F
  <1>1. CASE Cardinality(F) >= 2
    <2>1. Claimed(p) = {a, b}
      BY <1>1 DEF Claimed, F
    <2>2. a \in F /\ b \in F /\ a # b /\ F \subseteq Sm
      BY <1>1, TwoFree DEF F
    <2> HIDE DEF a, b
    <2> QED BY <2>1, <2>2, Pair DEF F
  <1>2. CASE ~(Cardinality(F) >= 2)
    <2>1. Claimed(p) = F /\ Cardinality(F) # 2
      BY <1>2 DEF Claimed, F
    <2> QED BY <2>1 DEF F
  <1> QED BY <1>1, <1>2

LEMMA Room ==
  ASSUME NEW room \in 0 .. MemSize
  PROVE  /\ Programs(room) \in SUBSET {"rx", "tx"}
         /\ Loaded(Programs(room)) \in 0 .. room
  BY DEF Programs, Loaded, Size, MemSize

-----------------------------------------------------------------------------
(* Type correctness.                                                        *)

LEMMA TypeInit == TypeOK /\ uart_init => TypeOK'
  <1> SUFFICES ASSUME TypeOK, uart_init PROVE TypeOK'
    OBVIOUS
  <1> DEFINE p == PioOf[booting]  claim == Claimed(p)  got == Cardinality(claim) = 2
             progs == IF got THEN Programs(MemSize - mem[p]) ELSE {}
  <1>1. booting \in Dev /\ booting' = booting + 1 /\ N \in Nat /\ p \in Pio
    BY Sizes DEF uart_init, TypeOK, Dev
  <1>2. Free(p) \in SUBSET Sm
    BY DEF Free
  <1>3. claim \in SUBSET Sm /\ (got => Min(claim) \in Sm /\ Max(claim) \in Sm)
    BY <1>2, Claims
  <1>4. /\ MemSize - mem[p] \in 0 .. MemSize /\ mem[p] \in 0 .. MemSize
        /\ Loaded({}) = 0
    <2>1. mem[p] \in 0 .. 32
      BY <1>1 DEF TypeOK, MemSize
    <2>2. Loaded({}) = 0
      BY DEF Loaded
    <2> QED BY <2>1, <2>2 DEF MemSize
  <1>5. progs \in SUBSET {"rx", "tx"} /\ Loaded(progs) \in 0 .. MemSize - mem[p]
    <2>1. CASE got
      BY <1>4, <2>1, Room
    <2>2. CASE ~got
      BY <1>4, <2>2 DEF MemSize
    <2> QED BY <2>1, <2>2
  <1>6. /\ sms' = [sms EXCEPT ![p] = @ \cup claim]
        /\ rx_sm' = (IF got THEN [rx_sm EXCEPT ![booting] = Min(claim)] ELSE rx_sm)
        /\ tx_sm' = (IF got THEN [tx_sm EXCEPT ![booting] = Max(claim)] ELSE tx_sm)
        /\ mem' = [mem EXCEPT ![p] = @ + Loaded(progs)]
        /\ loaded' = [loaded EXCEPT ![booting] = progs]
        /\ ready \subseteq ready' /\ ready' \subseteq ready \cup {booting}
        /\ \/ instances' = instances
           \/ Len(instances) < MaxInstances /\ instances' = Append(instances, booting)
        /\ UNCHANGED <<callback, rx_irq_enabled, fifo, polling>>
    BY DEF uart_init
  <1> HIDE DEF p, claim, got, progs
  <1>7. mem[p] + Loaded(progs) \in 0 .. MemSize
    BY <1>4, <1>5 DEF MemSize
  <1>8. instances' \in Seq(Dev) /\ Len(instances') <= MaxInstances
    <2>1. instances \in Seq(Dev) /\ Len(instances) \in Nat /\ Len(instances) <= MaxInstances
      BY LenProperties DEF TypeOK
    <2>2. /\ Append(instances, booting) \in Seq(Dev)
          /\ Len(Append(instances, booting)) = Len(instances) + 1
      BY <1>1, <2>1, AppendProperties
    <2> QED BY <1>6, <2>1, <2>2, Sizes
  <1>9. rx_sm' \in [Dev -> Sm \cup {NoSm}] /\ tx_sm' \in [Dev -> Sm \cup {NoSm}]
    BY <1>1, <1>3, <1>6 DEF TypeOK
  <1>10. /\ sms' \in [Pio -> SUBSET Sm] /\ mem' \in [Pio -> 0 .. MemSize]
         /\ loaded' \in [Dev -> SUBSET {"rx", "tx"}]
    BY <1>1, <1>3, <1>5, <1>6, <1>7 DEF TypeOK
  <1>11. /\ booting' \in 1 .. N + 1 /\ ready' \subseteq Dev /\ callback' \subseteq ready'
         /\ rx_irq_enabled' \subseteq ready' /\ polling' \subseteq ready'
    BY <1>1, <1>6 DEF TypeOK, Dev
  <1> QED BY <1>6, <1>8, <1>9, <1>10, <1>11 DEF TypeOK

LEMMA TypeStep == TypeOK /\ [Next]_vars => TypeOK'
  <1> SUFFICES ASSUME TypeOK, [Next]_vars PROVE TypeOK'
    OBVIOUS
  <1>1. CASE uart_init
    BY <1>1, TypeInit
  <1>2. ASSUME NEW q \in Pio, irq_handler(q) PROVE TypeOK'
    <2>1. PICK i \in Dev : \E n \in 1 .. fifo[i] : fifo' = [fifo EXCEPT ![i] = @ - n]
      BY <1>2 DEF irq_handler, TypeOK
    <2>2. PICK n \in 1 .. fifo[i] : fifo' = [fifo EXCEPT ![i] = @ - n]
      BY <2>1
    <2>3. fifo[i] - n \in 0 .. Capacity
      BY PioAssumption DEF TypeOK
    <2>4. fifo' \in [Dev -> 0 .. Capacity]
      BY <2>2, <2>3 DEF TypeOK
    <2> QED BY <1>2, <2>4 DEF irq_handler, boot, TypeOK
  <1>3. ASSUME NEW i \in Dev, word_in(i) PROVE TypeOK'
    BY <1>3, PioAssumption DEF word_in, boot, TypeOK
  <1>4. ASSUME NEW i \in Dev, irq_callback_set(i) PROVE TypeOK'
    BY <1>4 DEF irq_callback_set, Thread, boot, TypeOK
  <1>5. ASSUME NEW i \in Dev, irq_rx_enable(i) PROVE TypeOK'
    BY <1>5 DEF irq_rx_enable, Thread, boot, TypeOK
  <1>6. ASSUME NEW i \in Dev, irq_rx_disable(i) PROVE TypeOK'
    BY <1>6 DEF irq_rx_disable, boot, TypeOK
  <1>7. ASSUME NEW i \in Dev, poll_in(i) PROVE TypeOK'
    BY <1>7 DEF poll_in, Thread, boot, TypeOK
  <1>8. ASSUME NEW i \in Dev, poll_in_get(i) PROVE TypeOK'
    BY <1>8, PioAssumption DEF poll_in_get, boot, TypeOK
  <1>9. CASE UNCHANGED vars
    BY <1>9 DEF vars, boot, TypeOK
  <1> QED BY <1>1, <1>2, <1>3, <1>4, <1>5, <1>6, <1>7, <1>8, <1>9 DEF Next

(* Every variable keeps its type: no block is given more state machines or  *)
(* more instructions than it has (uart_pio_enhanced_init).                  *)
THEOREM TypeCorrect == Spec => []TypeOK
  <1>1. Init => TypeOK
    <2> SUFFICES ASSUME Init PROVE TypeOK
      OBVIOUS
    <2>1. sms \in [Pio -> SUBSET Sm] /\ mem \in [Pio -> 0 .. MemSize]
      BY PioAssumption DEF Init, Sm, MemSize
    <2>2. instances \in Seq(Dev) /\ Len(instances) = 0
      BY EmptySeq DEF Init
    <2> QED BY <2>1, <2>2, Sizes DEF Init, TypeOK
  <1> QED BY <1>1, TypeStep, PTL DEF Spec

-----------------------------------------------------------------------------
(* A ready device was the next one once, and took state machines that were   *)
(* free: SmsOf of an earlier one are all taken.                              *)

Works(i) == /\ i < booting /\ loaded[i] = {"rx", "tx"}
            /\ rx_sm[i] # tx_sm[i] /\ SmsOf(i) \subseteq sms[PioOf[i]] \cap Sm
            /\ \E k \in DOMAIN instances : instances[k] = i

ReadyInv ==
    /\ Len(instances) < booting
    /\ \A i \in ready : Works(i)
    /\ \A i, j \in ready : i # j /\ PioOf[i] = PioOf[j] => SmsOf(i) \cap SmsOf(j) = {}

(* The step of uart_init as the invariant sees it. *)
LEMMA InitStep ==
  ASSUME TypeOK, N <= MaxInstances, ReadyInv, uart_init
  PROVE  /\ booting \in Dev /\ booting' = booting + 1
         /\ \A q \in Pio : sms[q] \subseteq sms'[q]
         /\ \A i \in Dev \ {booting} : /\ rx_sm'[i] = rx_sm[i]
                                       /\ tx_sm'[i] = tx_sm[i] /\ loaded'[i] = loaded[i]
         /\ \/ ready' = ready /\ instances' = instances
            \/ /\ ready' = ready \cup {booting} /\ instances' = Append(instances, booting)
               /\ loaded'[booting] = {"rx", "tx"} /\ rx_sm'[booting] # tx_sm'[booting]
               /\ {rx_sm'[booting], tx_sm'[booting]} \subseteq sms'[PioOf[booting]] \cap Sm
               /\ {rx_sm'[booting], tx_sm'[booting]} \cap sms[PioOf[booting]] = {}
  <1> DEFINE p == PioOf[booting]  claim == Claimed(p)  got == Cardinality(claim) = 2
             progs == IF got THEN Programs(MemSize - mem[p]) ELSE {}
  <1>1. booting \in Dev /\ booting' = booting + 1 /\ N \in Nat /\ p \in Pio
    BY Sizes DEF uart_init, TypeOK, Dev
  <1>2. Free(p) \in SUBSET Sm /\ Free(p) \cap sms[p] = {}
    BY DEF Free
  <1>3. claim \subseteq Free(p) /\ (got => Min(claim) \in claim /\ Max(claim) \in claim
                                            /\ Min(claim) # Max(claim))
    BY <1>2, Claims
  <1>4. Len(instances) < MaxInstances
    <2>1. Len(instances) \in Nat /\ Len(instances) < booting /\ booting \in 1 .. N
      BY <1>1, LenProperties DEF TypeOK, ReadyInv, Dev
    <2> QED BY <2>1, Sizes
  <1>5. /\ sms' = [sms EXCEPT ![p] = @ \cup claim]
        /\ rx_sm' = (IF got THEN [rx_sm EXCEPT ![booting] = Min(claim)] ELSE rx_sm)
        /\ tx_sm' = (IF got THEN [tx_sm EXCEPT ![booting] = Max(claim)] ELSE tx_sm)
        /\ loaded' = [loaded EXCEPT ![booting] = progs]
        /\ \/ ready' = ready /\ instances' = instances
           \/ /\ Started(progs) /\ ready' = ready \cup {booting}
              /\ instances' = Append(instances, booting)
    BY <1>4 DEF uart_init
  <1>6. Started(progs) => got /\ progs = {"rx", "tx"}
    BY DEF Started
  <1> HIDE DEF p, claim, got, progs
  <1>7. \A q \in Pio : sms[q] \subseteq sms'[q]
    BY <1>1, <1>5 DEF TypeOK
  <1>8. \A i \in Dev \ {booting} : /\ rx_sm'[i] = rx_sm[i] /\ tx_sm'[i] = tx_sm[i]
                                   /\ loaded'[i] = loaded[i]
    BY <1>1, <1>5 DEF TypeOK
  <1>9. ASSUME Started(progs)
        PROVE  /\ loaded'[booting] = {"rx", "tx"} /\ rx_sm'[booting] # tx_sm'[booting]
               /\ {rx_sm'[booting], tx_sm'[booting]} \subseteq sms'[p] \cap Sm
               /\ {rx_sm'[booting], tx_sm'[booting]} \cap sms[p] = {}
    <2>1. /\ rx_sm'[booting] = Min(claim) /\ tx_sm'[booting] = Max(claim)
          /\ loaded'[booting] = {"rx", "tx"} /\ sms'[p] = sms[p] \cup claim
      BY <1>1, <1>5, <1>6, <1>9 DEF TypeOK
    <2> QED BY <1>2, <1>3, <1>6, <1>9, <2>1
  <1> QED BY <1>1, <1>5, <1>7, <1>8, <1>9 DEF p

LEMMA ReadyStep == N <= MaxInstances /\ TypeOK /\ TypeOK' /\ ReadyInv /\ [Next]_vars => ReadyInv'
  <1> SUFFICES ASSUME N <= MaxInstances, TypeOK, TypeOK', ReadyInv, [Next]_vars PROVE ReadyInv'
    OBVIOUS
  <1>1. CASE uart_init
    <2> DEFINE b == booting
    <2>1. /\ b \in Dev /\ booting' = b + 1 /\ ready \subseteq Dev /\ b \notin ready
          /\ \A q \in Pio : sms[q] \subseteq sms'[q]
          /\ \A i \in ready : /\ rx_sm'[i] = rx_sm[i] /\ tx_sm'[i] = tx_sm[i]
                              /\ loaded'[i] = loaded[i] /\ i # b /\ i < b /\ i < b + 1
      <3>1. \A i \in ready : i \in Dev /\ b \in Dev /\ i < b
        BY <1>1, InitStep DEF ReadyInv, Works, TypeOK
      <3>2. \A i \in ready : i # b /\ i < b + 1
        BY <3>1 DEF Dev
      <3> QED BY <1>1, <3>1, <3>2, InitStep DEF TypeOK
    <2>2. /\ Len(instances) \in Nat /\ Len(instances) < b /\ DOMAIN instances = 1 .. Len(instances)
          /\ b \in Nat
      BY <2>1, LenProperties DEF TypeOK, ReadyInv, Dev
    <2>3. /\ Len(instances') < b + 1
          /\ \A k \in DOMAIN instances : k \in DOMAIN instances' /\ instances'[k] = instances[k]
      <3>1. CASE instances' = instances
        BY <2>2, <3>1
      <3>2. CASE instances' = Append(instances, b)
        <4>1. /\ Len(instances') = Len(instances) + 1
              /\ \A k \in 1 .. Len(instances) : instances'[k] = instances[k]
          BY <2>1, <3>2, AppendProperties DEF TypeOK
        <4>2. DOMAIN instances' = 1 .. Len(instances')
          BY LenProperties DEF TypeOK
        <4> QED BY <2>2, <4>1, <4>2
      <3> QED BY <1>1, <3>1, <3>2, InitStep
    <2>4. \A i \in ready : PioOf[i] \in Pio
      BY <2>1, Sizes
    <2>5. ASSUME NEW i \in ready PROVE Works(i)'
      <3>1. Works(i)
        BY DEF ReadyInv
      <3> QED BY <2>1, <2>3, <2>4, <3>1 DEF Works, SmsOf
    <2>6. ASSUME NEW i \in ready, NEW j \in ready, i # j, PioOf[i] = PioOf[j]
          PROVE  (SmsOf(i) \cap SmsOf(j) = {})'
      BY <2>1, <2>6 DEF ReadyInv, SmsOf
    <2>7. CASE ready' = ready
      BY <2>1, <2>3, <2>5, <2>6, <2>7 DEF ReadyInv
    <2>8. CASE ready' # ready
      <3>1. /\ ready' = ready \cup {b} /\ instances' = Append(instances, b)
            /\ loaded'[b] = {"rx", "tx"} /\ rx_sm'[b] # tx_sm'[b]
            /\ {rx_sm'[b], tx_sm'[b]} \subseteq sms'[PioOf[b]] \cap Sm
            /\ {rx_sm'[b], tx_sm'[b]} \cap sms[PioOf[b]] = {}
        BY <1>1, <2>8, InitStep
      <3>2. \E k \in DOMAIN instances' : instances'[k] = b
        <4>1. Len(instances') = Len(instances) + 1 /\ instances'[Len(instances) + 1] = b
          BY <2>1, <3>1, AppendProperties DEF TypeOK
        <4>2. DOMAIN instances' = 1 .. Len(instances')
          BY LenProperties DEF TypeOK
        <4> QED BY <2>2, <4>1, <4>2
      <3>3. \A i \in {b} : Works(i)'
        <4> SUFFICES ASSUME NEW i, i = b PROVE Works(i)'
          BY Zenon
        <4>1. i < booting'
          BY <2>1, <2>2
        <4> QED BY <3>1, <3>2, <4>1 DEF Works, SmsOf
      <3>4. \A i \in ready, j \in {b} : PioOf[i] = PioOf[j] =>
               (SmsOf(i) \cap SmsOf(j) = {})' /\ (SmsOf(j) \cap SmsOf(i) = {})'
        <4> SUFFICES ASSUME NEW i \in ready, NEW j, j = b, PioOf[i] = PioOf[j]
                     PROVE  (SmsOf(i) \cap SmsOf(j) = {})' /\ (SmsOf(j) \cap SmsOf(i) = {})'
          BY Zenon
        <4>1. SmsOf(i)' \subseteq sms[PioOf[j]]
          BY <2>1 DEF ReadyInv, Works, SmsOf
        <4> QED BY <3>1, <4>1 DEF SmsOf
      <3> QED BY <2>1, <2>3, <2>5, <2>6, <3>1, <3>3, <3>4 DEF ReadyInv
    <2> QED BY <2>7, <2>8
  <1>2. CASE UNCHANGED boot
    BY <1>2 DEF boot, ReadyInv, Works, SmsOf
  <1> QED BY <1>1, <1>2 DEF Next, irq_handler, word_in, irq_callback_set, irq_rx_enable,
          irq_rx_disable, poll_in, poll_in_get, vars

(* When the table has a place for each device, one that initialises has both *)
(* programs and two state machines, shares none with another one, and is     *)
(* known to the interrupt handler, whatever failed before it                 *)
(* (uart_pio_enhanced_init, which gives nothing back).                       *)
THEOREM ReadyHolds == ASSUME N <= MaxInstances PROVE Spec => []ReadyWorks
  <1>1. Init => ReadyInv
    BY DEF Init, ReadyInv
  <1>2. TypeOK /\ ReadyInv => ReadyWorks
    <2> SUFFICES ASSUME TypeOK, ReadyInv, NEW i \in ready PROVE Cardinality(SmsOf(i)) = 2
      BY DEF ReadyInv, ReadyWorks, Works
    <2> QED BY Pair DEF ReadyInv, Works, SmsOf
  <1> QED BY <1>1, <1>2, TypeCorrect, ReadyStep, PTL DEF Spec

-----------------------------------------------------------------------------
(* Polling. The handler takes words of a UART with a callback only, and      *)
(* callbacks are never taken back.                                           *)

LEMMA HandlerSpares ==
  ASSUME TypeOK, NEW p \in Pio, irq_handler(p)
  PROVE  \A j \in Dev \ callback : fifo'[j] = fifo[j]
  <1> DEFINE i == instances[Min(Served(p))]
  <1>1. PICK n \in 1 .. fifo[i] : fifo' = [fifo EXCEPT ![i] = @ - n]
    BY DEF irq_handler
  <1>2. i \in callback
    BY DEF irq_handler
  <1> HIDE DEF i
  <1> QED BY <1>1, <1>2 DEF TypeOK

LEMMA PollStep == TypeOK /\ PollSafe /\ [Next]_vars => PollSafe'
  <1> SUFFICES ASSUME TypeOK, PollSafe, [Next]_vars PROVE PollSafe'
    OBVIOUS
  <1> USE DEF PollSafe
  <1>0. polling \subseteq Dev
    BY DEF TypeOK
  <1>1. CASE uart_init
    BY <1>1 DEF uart_init
  <1>2. ASSUME NEW p \in Pio, irq_handler(p) PROVE PollSafe'
    <2>1. UNCHANGED <<callback, polling>>
      BY <1>2 DEF irq_handler
    <2> QED BY <1>0, <1>2, <2>1, HandlerSpares
  <1>3. ASSUME NEW i \in Dev, word_in(i) PROVE PollSafe'
    <2>1. \A j \in Dev : fifo'[j] \in {fifo[j], fifo[j] + 1} /\ fifo[j] \in Nat
      BY <1>3, Sizes DEF word_in, TypeOK
    <2> QED BY <1>0, <1>3, <2>1 DEF word_in
  <1>4. ASSUME NEW i \in Dev, irq_callback_set(i) \/ irq_rx_enable(i) \/ irq_rx_disable(i)
        PROVE  PollSafe'
    BY <1>4 DEF irq_callback_set, irq_rx_enable, irq_rx_disable
  <1>5. ASSUME NEW i \in Dev, poll_in(i) PROVE PollSafe'
    BY <1>5 DEF poll_in
  <1>6. ASSUME NEW i \in Dev, poll_in_get(i) PROVE PollSafe'
    BY <1>0, <1>6 DEF poll_in_get, TypeOK
  <1>7. CASE UNCHANGED vars
    BY <1>7 DEF vars
  <1> QED BY <1>1, <1>2, <1>3, <1>4, <1>5, <1>6, <1>7 DEF Next

(* A word that poll_in has seen of a UART without a callback is there when  *)
(* it takes it, whatever interrupts come for the UARTs of its block, its    *)
(* own among them (poll_in, and the handler that they share).               *)
THEOREM PollHolds == Spec => []PollSafe
  <1>1. Init => PollSafe
    BY DEF Init, PollSafe
  <1> QED BY <1>1, TypeCorrect, PollStep, PTL DEF Spec
=============================================================================
