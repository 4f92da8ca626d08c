------------------------------- MODULE PioProgram -------------------------------
(***************************************************************************)
(* The two PIO programs of the UART (uart_tx and uart_rx of                *)
(* uart_rpi_pico_pio_enhanced.c), one instruction of each a cycle, eight   *)
(* cycles a bit; the line between them; and the CPU at the other end of    *)
(* the FIFOs (poll_out, poll_in). The far end of an RX line is a device    *)
(* with a clock of its own, which may also break the line, or the TX       *)
(* program of another UART of this driver. The PIO itself is outside the   *)
(* repository.                                                             *)
(***************************************************************************)
EXTENDS Integers, Sequences

CONSTANTS
    DataBits,           \* data_bits, scaled down
    IsrBits,            \* 32, the width of the shift registers, scaled down
    SIDESET_BIT_COUNT,  \* what tx_init takes from the delay field
    RxDepth, TxDepth,   \* 8, the depth of the joined FIFOs, scaled down
    FarEnd,             \* what may be at the other end: "device", "driver"
    Word,               \* the words a device sends
    Out,                \* the words a thread sends with poll_out
    Slip,               \* cycles a device may be early or late within a frame
    Breaks              \* cycles for which a device may hold the line low

(* 2 ^ n *)
Pow2[n \in Nat] == IF n = 0 THEN 1 ELSE 2 * Pow2[n - 1]

ASSUME ProgramAssumption ==
    /\ {DataBits, IsrBits, SIDESET_BIT_COUNT, RxDepth, TxDepth} \subseteq Nat \ {0}
    /\ DataBits <= IsrBits /\ SIDESET_BIT_COUNT <= 5 /\ FarEnd \subseteq {"device", "driver"}
    /\ Word \subseteq 0 .. Pow2[DataBits] - 1 /\ Out \subseteq Nat
    /\ Slip \in 0 .. 7 /\ Breaks \subseteq Nat \ {0}

VARIABLES
    far,       \* what is at the other end
    device,    \* the device: the cell of the frame it is in, its word, its clock
    tx,        \* the TX state machine: pc, delay left, X, OSR
    tx_pin,    \* the TX pin
    tx_fifo,
    rx,        \* the RX state machine: pc, delay left, X, ISR
    rx_fifo,
    irq_flag,  \* the flag of irq 4 rel
    high,      \* ghost: for how many cycles the line has been high
    in_step,   \* ghost: is the receiver in step with the device?
    due,       \* ghost: words of the device that poll_in owes its caller
    age,       \* ghost: cycles since TX began a frame
    going      \* ghost: words of poll_out that have not left

sm    == <<device, tx, tx_pin, tx_fifo, rx, rx_fifo, irq_flag>>
ghost == <<high, in_step, due, age, going>>
vars  == <<far, sm, ghost>>

Bit(w, k)   == (w \div Pow2[k]) % 2
CYCLES_PER_BIT == 8

(* The cells of a frame: start bit, data bits, stop bit; then idle, break. *)
Start == 0
Stop  == DataBits + 1
Quiet == DataBits + 2
Low   == DataBits + 3

Level == IF far = "driver" THEN tx_pin
         ELSE CASE device.cell \in {Start, Low}  -> 0
                [] device.cell \in {Stop, Quiet} -> 1
                [] OTHER                         -> Bit(device.word, device.cell - 1)

(* After so many high cycles any frame the receiver has taken is over.     *)
Settled  == CYCLES_PER_BIT * DataBits + 14
FrameEnd == CYCLES_PER_BIT * (DataBits + 1)

Init ==
    /\ far \in FarEnd
    /\ device = [cell |-> Quiet, left |-> 1, drift |-> 0, word |-> 0]
    /\ tx = [pc |-> 0, delay |-> 0, x |-> 0, osr |-> 0] /\ tx_pin = 1 /\ tx_fifo = <<>>
    /\ rx = [pc |-> 0, delay |-> 0, x |-> 0, isr |-> 0] /\ rx_fifo = <<>> /\ irq_flag = FALSE
    /\ high = 0 /\ in_step = FALSE /\ due = <<>> /\ age = 0 /\ going = <<>>

-----------------------------------------------------------------------------
(* uart_tx, as uart_pio_enhanced_tx_init sets it up. The five upper bits    *)
(* after the opcode hold the side-set, of which the first enables the rest  *)
(* (optional = true), and the delay.                                        *)

Delay(field)   == field % Pow2[5 - SIDESET_BIT_COUNT]
Enabled(field) == field \div 16 = 1 /\ SIDESET_BIT_COUNT > 1
Side(field)    == (field \div Pow2[5 - SIDESET_BIT_COUNT]) % 2
Pinned(field)  == IF Enabled(field) THEN Side(field) ELSE tx_pin

(* Mutant: one bit too many. *)
y_no_minus == DataBits

(* set y, data_bits - 1, for both programs. *)
y == DataBits - 1

tx_delay == tx.delay > 0 /\ tx' = [tx EXCEPT !.delay = @ - 1] /\ UNCHANGED <<tx_pin, tx_fifo>>

At(pc) == tx.pc = pc /\ tx.delay = 0

(* 0x9fa0; the side-set does not wait for the pull. *)
pull == /\ At(0) /\ tx_pin' = Pinned(31)
        /\ IF tx_fifo = <<>>
           THEN UNCHANGED <<tx, tx_fifo>>
           ELSE /\ tx' = [tx EXCEPT !.pc = 1, !.delay = Delay(31), !.osr = Head(tx_fifo)]
                /\ tx_fifo' = Tail(tx_fifo)

(* 0xb722 *)
mov_start == /\ At(1) /\ tx_pin' = Pinned(23)
             /\ tx' = [tx EXCEPT !.pc = 2, !.delay = Delay(23), !.x = y]
             /\ UNCHANGED tx_fifo

(* Mutant: the shift register moves to the left. *)
out_left == /\ At(2) /\ tx_pin' = Bit(tx.osr, IsrBits - 1)
            /\ tx' = [tx EXCEPT !.pc = 3, !.osr = (@ * 2) % Pow2[IsrBits]]
            /\ UNCHANGED tx_fifo

(* 0x6001, OSR to the right. *)
out == /\ At(2) /\ tx_pin' = tx.osr % 2
       /\ tx' = [tx EXCEPT !.pc = 3, !.osr = @ \div 2]
       /\ UNCHANGED tx_fifo

(* 0x0642; x is set again before it is used. *)
jmp_bit == /\ At(3) /\ UNCHANGED <<tx_pin, tx_fifo>>
           /\ tx' = [tx EXCEPT !.pc = IF tx.x > 0 THEN 2 ELSE 0, !.delay = Delay(6),
                               !.x = IF @ > 0 THEN @ - 1 ELSE 0]

uart_tx == tx_delay \/ pull \/ mov_start \/ out \/ jmp_bit

-----------------------------------------------------------------------------
(* uart_rx, as uart_pio_enhanced_rx_init sets it up. *)

Rx(pc)     == rx.pc = pc /\ rx.delay = 0
Jump(pc)   == rx' = [rx EXCEPT !.pc = pc]
KeepFlag   == UNCHANGED <<rx_fifo, irq_flag>>

rx_delay == rx.delay > 0 /\ rx' = [rx EXCEPT !.delay = @ - 1] /\ KeepFlag

wait_start == Rx(0) /\ Jump(IF Level = 0 THEN 1 ELSE 0) /\ KeepFlag

mov_centre == Rx(1) /\ rx' = [rx EXCEPT !.pc = 2, !.x = y, !.delay = 10] /\ KeepFlag

(* ISR to the right: the last bit read is the top one. *)
in_pins == /\ Rx(2) /\ KeepFlag
           /\ rx' = [rx EXCEPT !.pc = 3, !.isr = (@ \div 2) + Level * Pow2[IsrBits - 1]]

jmp_in == /\ Rx(3) /\ KeepFlag
          /\ rx' = [rx EXCEPT !.pc = IF rx.x > 0 THEN 2 ELSE 4, !.delay = 6,
                              !.x = IF @ > 0 THEN @ - 1 ELSE 0]

(* Mutant: a high stop bit is taken for the error. *)
jmp_stop_inverted == Rx(4) /\ Jump(IF Level = 1 THEN 5 ELSE 10) /\ KeepFlag

jmp_stop == Rx(4) /\ Jump(IF Level = 1 THEN 10 ELSE 5) /\ KeepFlag

irq == Rx(5) /\ Jump(6) /\ irq_flag' = TRUE /\ UNCHANGED rx_fifo

mov_timeout == Rx(6) /\ rx' = [rx EXCEPT !.pc = 7, !.x = y, !.delay = 15] /\ KeepFlag

jmp_idle == Rx(7) /\ Jump(IF Level = 1 THEN 9 ELSE 8) /\ KeepFlag

jmp_wait == /\ Rx(8) /\ KeepFlag
            /\ rx' = [rx EXCEPT !.pc = IF rx.x > 0 THEN 7 ELSE 9, !.x = IF @ > 0 THEN @ - 1 ELSE 0]

jmp_start == Rx(9) /\ Jump(0) /\ KeepFlag

Stalled == Rx(10) /\ Len(rx_fifo) >= RxDepth

push == /\ Rx(10) /\ UNCHANGED irq_flag
        /\ IF Stalled
           THEN UNCHANGED <<rx, rx_fifo>>
           ELSE rx' = [rx EXCEPT !.pc = 0, !.isr = 0] /\ rx_fifo' = Append(rx_fifo, rx.isr)

uart_rx == \/ rx_delay \/ wait_start \/ mov_centre \/ in_pins \/ jmp_in \/ jmp_stop
           \/ irq \/ mov_timeout \/ jmp_idle \/ jmp_wait \/ jmp_start \/ push

-----------------------------------------------------------------------------
(* The device at the far end: each cell of a frame lasts 7, 8 or 9 of our   *)
(* cycles, and the frame is never more than Slip ahead or behind.           *)

Enter(c, d, w) ==
    /\ d - device.drift \in {-1, 0, 1} /\ d \in -Slip .. Slip
    /\ device' = [cell |-> c, left |-> CYCLES_PER_BIT + d - device.drift, drift |-> d, word |-> w]

Stay(c, n) == device' = [cell |-> c, left |-> n, drift |-> 0, word |-> 0]

device_step ==
    \/ device.left > 1 /\ device' = [device EXCEPT !.left = @ - 1]
    \/ /\ device.left = 1 /\ device.cell < Stop
       /\ \E d \in -Slip .. Slip : Enter(device.cell + 1, d, device.word)
    \/ /\ device.left = 1 /\ device.cell \in {Stop, Low}
       /\ Stay(Quiet, 1)
    \/ /\ device.left = 1 /\ device.cell = Quiet
       /\ \/ UNCHANGED device
          \/ far = "device" /\ \E n \in Breaks : Stay(Low, n)
          \/ far = "device" /\ \E d \in -Slip .. Slip, w \in Word : Enter(Start, d, w)

-----------------------------------------------------------------------------
(* One cycle of everything. A word is owed from the end of its start bit,   *)
(* if the receiver was in step; a stalled receiver, as much as a break,     *)
(* puts it out of step until the line has been high for long enough.        *)

Disturbed == Stalled \/ device'.cell = Low \/ far = "driver"

ghost_step ==
    /\ high' = IF Level = 0 THEN 0 ELSE IF high < Settled THEN high + 1 ELSE high
    /\ in_step' = (~Disturbed /\ (in_step \/ (high' = Settled /\ ~Rx(10))))
    /\ due' = IF ~in_step' THEN <<>>
              ELSE IF in_step /\ device.cell = Start /\ device'.cell = 1 THEN Append(due, device.word)
              ELSE IF in_step /\ Rx(10) /\ due # <<>> THEN Tail(due) ELSE due
    /\ age' = IF At(1) THEN 1 ELSE IF age \in 1 .. FrameEnd - 1 THEN age + 1 ELSE 0
    /\ going' = IF age = FrameEnd THEN Tail(going) ELSE going

cycle == uart_tx /\ uart_rx /\ device_step /\ ghost_step /\ UNCHANGED far

(* The CPU. pio_sm_put_blocking waits for room; the shift in poll_in.       *)
poll_out(w) ==
    /\ far = "driver" /\ Len(tx_fifo) < TxDepth
    /\ tx_fifo' = Append(tx_fifo, w) /\ going' = Append(going, w)
    /\ UNCHANGED <<far, device, tx, tx_pin, rx, rx_fifo, irq_flag, high, in_step, due, age>>

(* Mutant: the low bits of the register are taken for the word. *)
Poll_low(raw) == raw % Pow2[DataBits]

Poll(raw) == (raw \div Pow2[IsrBits - DataBits]) % Pow2[DataBits]

poll_in ==
    /\ rx_fifo # <<>> /\ rx_fifo' = Tail(rx_fifo)
    /\ UNCHANGED <<far, device, tx, tx_pin, tx_fifo, rx, irq_flag, ghost>>

Next == cycle \/ poll_in \/ \E w \in Out : poll_out(w)

Spec == Init /\ [][Next]_vars

-----------------------------------------------------------------------------
(* Properties. *)

TypeOK ==
    /\ far \in FarEnd /\ tx_pin \in {0, 1} /\ irq_flag \in BOOLEAN /\ in_step \in BOOLEAN
    /\ device \in [cell : 0 .. Low, left : Nat \ {0}, drift : -Slip .. Slip, word : Word \cup {0}]
    /\ tx \in [pc : 0 .. 3, delay : 0 .. 15, x : 0 .. DataBits - 1, osr : Nat]
    /\ rx \in [pc : 0 .. 10, delay : 0 .. 15, x : 0 .. DataBits - 1, isr : 0 .. Pow2[IsrBits] - 1]
    /\ rx_fifo \in Seq(0 .. Pow2[IsrBits] - 1) /\ Len(rx_fifo) <= RxDepth
    /\ tx_fifo \in Seq(Out) /\ Len(tx_fifo) <= TxDepth
    /\ high \in 0 .. Settled /\ age \in 0 .. FrameEnd
    /\ due \in Seq(Word) /\ going \in Seq(Out)

(* While the line is in step the receiver is a queue of words: poll_in      *)
(* returns what the device sent, in order, none twice, none made up, even   *)
(* with bits of a broken frame still in the ISR; after an overflow or a     *)
(* break it is in step again once the line has rested (uart_rx, poll_in).   *)
Line == INSTANCE WordLine WITH
            Word      <- 0 .. Pow2[DataBits] - 1,
            delivered <- [i \in DOMAIN rx_fifo |-> Poll(rx_fifo[i])]
Delivered == Line!Spec

(* And none is missed: while a word is owed the receiver is at work on it,  *)
(* and only on it, however closely the frames follow each other and         *)
(* whichever way the device's clock slips (the 14 + 8 n cycles of uart_rx). *)
NoneMissed == Len(due) <= 1 /\ (due # <<>> => rx.pc # 0)

(* What poll_out was given goes out in order, each word with its least bit  *)
(* first, and a receiver that samples each bit in its middle reads it       *)
(* (uart_tx, set y).                                                        *)
BitsSent == \A k \in 0 .. y :
    age = CYCLES_PER_BIT * (k + 1) + 4 => going # <<>> /\ tx_pin = Bit(Head(going), k)

(* The start bit is on the line before them (uart_rpi_pico_pio_enhanced.pio *)
(* line 29: "assert start bit for 8 clocks").                               *)
StartBitSent == age \in 1 .. CYCLES_PER_BIT => tx_pin = 0
=============================================================================
