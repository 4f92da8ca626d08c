-------------------------------- MODULE PioUart --------------------------------
(***************************************************************************)
(* The UARTs made of PIO state machines (uart_rpi_pico_pio_enhanced.c):    *)
(* what their initialisation takes from the two PIO blocks, and how the    *)
(* one interrupt of a block is shared by the UARTs on it.                  *)
(*                                                                         *)
(* A device is initialised in one step: nothing runs before. Afterwards    *)
(* the interrupt handler is one step too, since no thread runs while it    *)
(* does; an interrupt that is pending is taken before a thread goes on.    *)
(* Words are only counted.                                                 *)
(***************************************************************************)
EXTENDS Naturals, Sequences, FiniteSets, FiniteSetsExt

CONSTANTS
    N,             \* devices 1 .. N, in the order of their initialisation
    Pio,           \* PIO blocks
    PioOf,         \* [1 .. N -> Pio], from the device tree
    MaxInstances,  \* MAX_UART_PIO_INSTANCES
    OtherSms,      \* state machines that other drivers may hold in a block
    OtherMem,      \* instructions that they may have loaded
    Capacity       \* words in the RX FIFO and the state machine that fills it

ASSUME PioAssumption ==
    /\ {N, MaxInstances, Capacity} \subseteq Nat /\ Capacity > 0
    /\ PioOf \in [1 .. N -> Pio]
    /\ OtherSms \subseteq SUBSET (0 .. 3) /\ OtherMem \subseteq 0 .. 32

VARIABLES
    booting,       \* the next device to initialise; N + 1 after the boot
    sms, mem,      \* per block: state machines claimed, instructions loaded
    rx_sm, tx_sm,  \* uart_pio_enhanced_data
    loaded,        \* ghost: the programs a device runs
    ready,         \* init returned 0
    instances,     \* uart_pio_instances
    callback, rx_irq_enabled,
    fifo,          \* words received and not read
    polling        \* poll_in has seen a word and is about to get it

boot == <<booting, sms, mem, rx_sm, tx_sm, loaded, ready, instances>>
vars == <<boot, callback, rx_irq_enabled, fifo, polling>>

Dev      == 1 .. N
Sm       == 0 .. 3
NoSm     == 4
Size     == [rx |-> 11, tx |-> 4]
MemSize  == 32

Init ==
    /\ booting = 1
    /\ sms \in [Pio -> OtherSms] /\ mem \in [Pio -> OtherMem]
    /\ rx_sm = [i \in Dev |-> NoSm] /\ tx_sm = [i \in Dev |-> NoSm]
    /\ loaded = [i \in Dev |-> {}] /\ ready = {} /\ instances = <<>>
    /\ callback = {} /\ rx_irq_enabled = {}
    /\ fifo = [i \in Dev |-> 0] /\ polling = {}

-----------------------------------------------------------------------------
(* uart_pio_enhanced_init: each step that fails leaves what the ones before *)
(* have taken.                                                              *)

Free(p) == Sm \ sms[p]

(* pio_rpi_pico_allocate_sm, for RX and then for TX. *)
Claimed(p) == IF Cardinality(Free(p)) >= 2
              THEN {Min(Free(p)), Min(Free(p) \ {Min(Free(p))})} ELSE Free(p)

(* Mutant: the room for the program is not asked for. *)
Programs_unchecked(room) == {"rx", "tx"}

(* The programs that rx_init and tx_init load into that much room. Programs *)
(* without a place of their own are put below those already there, and none *)
(* is ever removed, so what is free is in one piece.                        *)
Programs(room) ==
    IF room < Size["rx"] THEN {}
    ELSE IF room - Size["rx"] < Size["tx"] THEN {"rx"} ELSE {"rx", "tx"}

(* Mutant: the result of tx_init is not looked at. *)
Started_ignored(progs) == progs # {}

(* Both inits returned 0. *)
Started(progs) == progs = {"rx", "tx"}

(* The instructions these take. *)
Loaded(progs) == (IF "rx" \in progs THEN Size["rx"] ELSE 0) + (IF "tx" \in progs THEN Size["tx"] ELSE 0)

uart_init ==
    /\ booting <= N /\ booting' = booting + 1
    /\ LET i == booting  p == PioOf[i]  claim == Claimed(p)
           got   == Cardinality(claim) = 2
           progs == IF got THEN Programs(MemSize - mem[p]) ELSE {}
           ok    == Started(progs)
       IN /\ sms' = [sms EXCEPT ![p] = @ \cup claim]
          /\ rx_sm' = IF got THEN [rx_sm EXCEPT ![i] = Min(claim)] ELSE rx_sm
          /\ tx_sm' = IF got THEN [tx_sm EXCEPT ![i] = Max(claim)] ELSE tx_sm
          /\ mem' = [mem EXCEPT ![p] = @ + Loaded(progs)]
          /\ loaded' = [loaded EXCEPT ![i] = progs]
          /\ ready' = IF ok THEN ready \cup {i} ELSE ready
          /\ instances' = IF ok /\ Len(instances) < MaxInstances THEN Append(instances, i) ELSE instances
    /\ UNCHANGED <<callback, rx_irq_enabled, fifo, polling>>

-----------------------------------------------------------------------------
(* The interrupt of block p is pending while an enabled source has a word. *)
Pending(p) == \E i \in rx_irq_enabled : PioOf[i] = p /\ fifo[i] > 0

(* The places in the table of those with a word, enabled or not. *)
Served(p) == {k \in DOMAIN instances : PioOf[instances[k]] = p /\ fifo[instances[k]] > 0}

(* Mutant: the handler runs the first UART of the block, word or not. *)
irq_handler_first(p) ==
    /\ Pending(p)
    /\ LET i == instances[Min({k \in DOMAIN instances : PioOf[instances[k]] = p})]
       IN i \in callback /\ fifo[i] > 0 /\ fifo' = [fifo EXCEPT ![i] = @ - 1]
    /\ UNCHANGED <<boot, callback, rx_irq_enabled, polling>>

(* Mutant: what nobody asked for is drained.                                *)
irq_handler_drains(p) ==
    /\ Pending(p) /\ Served(p) # {}
    /\ LET i == instances[Min(Served(p))]
       IN \E n \in 1 .. fifo[i] : fifo' = [fifo EXCEPT ![i] = @ - n]
    /\ UNCHANGED <<boot, callback, rx_irq_enabled, polling>>

(* The first of them has its callback run, which reads a word or more. A    *)
(* device without a callback leaves all as it was, and the interrupt comes  *)
(* again, for ever: that step is a stutter.                                 *)
irq_handler(p) ==
    /\ Pending(p) /\ Served(p) # {}
    /\ LET i == instances[Min(Served(p))]
       IN i \in callback /\ \E n \in 1 .. fifo[i] : fifo' = [fifo EXCEPT ![i] = @ - n]
    /\ UNCHANGED <<boot, callback, rx_irq_enabled, polling>>

(* A word comes in; when there is no room it is lost. *)
word_in(i) ==
    /\ i \in ready
    /\ fifo' = [fifo EXCEPT ![i] = IF @ < Capacity THEN @ + 1 ELSE @]
    /\ UNCHANGED <<boot, callback, rx_irq_enabled, polling>>

-----------------------------------------------------------------------------
(* Threads; an application uses devices that are ready, in any order, and   *)
(* polls each from one thread.                                              *)
Thread(i) == i \in ready /\ booting > N /\ \A p \in Pio : ~Pending(p)

irq_callback_set(i) ==
    /\ Thread(i) /\ callback' = callback \cup {i}
    /\ UNCHANGED <<boot, rx_irq_enabled, fifo, polling>>

irq_rx_enable(i) ==
    /\ Thread(i) /\ rx_irq_enabled' = rx_irq_enabled \cup {i}
    /\ UNCHANGED <<boot, callback, fifo, polling>>

irq_rx_disable(i) ==
    /\ Thread(i) /\ rx_irq_enabled' = rx_irq_enabled \ {i}
    /\ UNCHANGED <<boot, callback, fifo, polling>>

(* poll_in: the FIFO is not empty; then the word is taken. *)
poll_in(i) ==
    /\ Thread(i) /\ i \notin polling /\ fifo[i] > 0 /\ polling' = polling \cup {i}
    /\ UNCHANGED <<boot, callback, rx_irq_enabled, fifo>>

poll_in_get(i) ==
    /\ Thread(i) /\ i \in polling /\ polling' = polling \ {i}
    /\ fifo' = [fifo EXCEPT ![i] = IF @ > 0 THEN @ - 1 ELSE @]
    /\ UNCHANGED <<boot, callback, rx_irq_enabled>>

Next ==
    \/ uart_init
    \/ \E p \in Pio : irq_handler(p)
    \/ \E i \in Dev : \/ word_in(i) \/ irq_callback_set(i) \/ irq_rx_enable(i)
                      \/ irq_rx_disable(i) \/ poll_in(i) \/ poll_in_get(i)

Spec == Init /\ [][Next]_vars

(* Pending interrupts are taken. No application is bound to do anything.    *)
FairSpec == Spec /\ \A p \in Pio : WF_vars(irq_handler(p))

-----------------------------------------------------------------------------
(* Properties. *)

TypeOK ==
    /\ booting \in 1 .. N + 1
    /\ sms \in [Pio -> SUBSET Sm] /\ mem \in [Pio -> 0 .. MemSize]
    /\ rx_sm \in [Dev -> Sm \cup {NoSm}] /\ tx_sm \in [Dev -> Sm \cup {NoSm}]
    /\ loaded \in [Dev -> SUBSET {"rx", "tx"}] /\ ready \subseteq Dev
    /\ instances \in Seq(Dev) /\ Len(instances) <= MaxInstances
    /\ callback \subseteq ready /\ rx_irq_enabled \subseteq ready /\ polling \subseteq ready
    /\ fifo \in [Dev -> 0 .. Capacity]

(* A device that is ready works: it runs both programs, on state machines   *)
(* that no other device of its block has, and the interrupt handler knows   *)
(* it. Blocks differ in what other drivers left of them.                    *)
SmsOf(i) == {rx_sm[i], tx_sm[i]}
ReadyWorks ==
    /\ \A i \in ready : /\ loaded[i] = {"rx", "tx"} /\ Cardinality(SmsOf(i)) = 2
                        /\ SmsOf(i) \subseteq sms[PioOf[i]] \cap Sm
                        /\ \E k \in DOMAIN instances : instances[k] = i
    /\ \A i, j \in ready : i # j /\ PioOf[i] = PioOf[j] => SmsOf(i) \cap SmsOf(j) = {}

(* A word that poll_in has seen is there when it takes it, as long as its   *)
(* UART has no callback: the handler that all UARTs of a block share, run   *)
(* for any of them between the two steps, leaves it alone. (With a callback *)
(* the word may be gone, and poll_in returns an old one: poll_in, the       *)
(* handler.)                                                                *)
PollSafe == \A i \in polling \ callback : fifo[i] > 0

(* A UART whose callback is set and whose interrupt is enabled has its      *)
(* words read again and again, whatever the UARTs after it in the table do. *)
(* Of those before it only two things keep it waiting: traffic without end, *)
(* or a word that nobody reads because there is no callback for it          *)
(* (README.md:332, "Supports multiple UART instances").                     *)
Waits(i)   == i \in rx_irq_enabled \cap callback /\ fifo[i] > 0
Stuck(i)   == i \notin callback /\ fifo[i] > 0
Earlier(i) == {j \in 1 .. i - 1 : PioOf[j] = PioOf[i]}

ServedInTurn ==
    \A i \in Dev :
        \/ []<>~Waits(i)
        \/ []<><<fifo'[i] < fifo[i]>>_fifo
        \/ \E j \in Earlier(i) : <>[]Stuck(j) \/ []<><<fifo'[j] > fifo[j]>>_fifo
=============================================================================
