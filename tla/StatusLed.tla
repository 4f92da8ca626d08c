------------------------------- MODULE StatusLed -------------------------------
(***************************************************************************)
(* One status LED (status_led.c): threads that set its state, and the work *)
(* handler on the system work queue that makes it blink.                   *)
(*                                                                         *)
(* Time is counted in units of 50 ms, which divides every delay of the     *)
(* driver. The work queue is cooperative, so the handler is one step; a    *)
(* thread that sets the state can be preempted between the store of        *)
(* current_state and what follows. The queue is not late: time does not    *)
(* pass while the work is due.                                             *)
(***************************************************************************)
EXTENDS Integers

CONSTANTS
    Callers,       \* threads that set the state
    CounterSize,   \* heartbeat_counter is counted modulo this (2^32 in the code)
    MaxStill       \* bound: time since the last change is not counted beyond this

(* A smaller power of 2 with an even exponent leaves 4 modulo 12, as 2^32   *)
(* does: the pattern breaks in the same place when the counter wraps.       *)
ASSUME LedAssumption ==
    /\ CounterSize \in Nat /\ CounterSize % 12 = 4
    /\ MaxStill \in Nat

VARIABLES
    current_state, blink_toggle, heartbeat_counter,   \* status_led_data
    work,    \* time until the work is due, or Stopped
    led,     \* the GPIO
    pc,      \* the state that the caller is setting, or "idle"
    still    \* ghost: time since the LED changed or a call returned

data == <<current_state, blink_toggle, heartbeat_counter>>
vars == <<data, work, led, pc, still>>

Ms(n)   == n \div 50
Stopped == -1
Blinks  == {"BLINK_SLOW", "BLINK_FAST", "HEARTBEAT"}
State   == {"OFF", "ON", "unknown"} \cup Blinks

Init ==
    /\ current_state = "OFF" /\ blink_toggle = FALSE /\ heartbeat_counter = 0
    /\ work = Stopped /\ led = FALSE
    /\ pc = [c \in Callers |-> "idle"] /\ still = 0

set_state(c) ==
    /\ pc[c] = "idle"
    /\ \E s \in State : current_state' = s /\ pc' = [pc EXCEPT ![c] = s]
    /\ UNCHANGED <<blink_toggle, heartbeat_counter, work, led, still>>

(* The work is moved to 100 ms from now even if it is active already.       *)
set_state_end(c) ==
    /\ pc[c] # "idle"
    /\ work' = IF pc[c] \in Blinks THEN Ms(100) ELSE work
    /\ led'  = IF pc[c] \in {"OFF", "ON"} THEN pc[c] = "ON" ELSE led
    /\ still' = 0
    /\ pc' = [pc EXCEPT ![c] = "idle"]
    /\ UNCHANGED data

-----------------------------------------------------------------------------
(* The delays of the switch on the state. *)
Period == [BLINK_FAST |-> Ms(250), BLINK_SLOW |-> Ms(1000), HEARTBEAT |-> Ms(250)]

(* Mutant: a slow blink of one toggle per period of 2 s. *)
delay_slow_2s ==
    IF current_state \in Blinks THEN [Period EXCEPT !.BLINK_SLOW = Ms(2000)][current_state]
                                ELSE Stopped

(* Mutant: every state but BLINK_SLOW has the delay of the fast ones. *)
delay_never_stops == IF current_state = "BLINK_SLOW" THEN Ms(1000) ELSE Ms(250)

delay == IF current_state \in Blinks THEN Period[current_state] ELSE Stopped

(* Mutant: the second pulse is missing.                                     *)
heartbeat_single(n) == n % 12 \in {0, 1}

heartbeat_on(n) == n % 12 \in {0, 1, 3, 4}

(* Mutant: the GPIO is set before the switch on the state. *)
blink_work_handler_sets_first ==
    /\ work = 0
    /\ heartbeat_counter' = (heartbeat_counter + 1) % CounterSize
    /\ blink_toggle' = ~blink_toggle
    /\ led' = IF current_state = "HEARTBEAT" THEN heartbeat_on(heartbeat_counter') ELSE blink_toggle'
    /\ work' = delay
    /\ still' = IF led' = led THEN still ELSE 0
    /\ UNCHANGED <<current_state, pc>>

blink_work_handler ==
    /\ work = 0
    /\ heartbeat_counter' = (heartbeat_counter + 1) % CounterSize
    /\ blink_toggle' = ~blink_toggle
    /\ led' = IF current_state = "HEARTBEAT" THEN heartbeat_on(heartbeat_counter')
              ELSE IF current_state \in Blinks THEN blink_toggle' ELSE led
    /\ work' = delay
    /\ still' = IF led' = led THEN still ELSE 0
    /\ UNCHANGED <<current_state, pc>>

tick ==
    /\ work # 0
    /\ work' = IF work = Stopped THEN Stopped ELSE work - 1
    /\ still' = IF still < MaxStill THEN still + 1 ELSE still
    /\ UNCHANGED <<data, led, pc>>

Next == \/ \E c \in Callers : set_state(c) \/ set_state_end(c)
        \/ blink_work_handler \/ tick

Spec == Init /\ [][Next]_vars

-----------------------------------------------------------------------------
(* Properties. *)

TypeOK ==
    /\ current_state \in State /\ blink_toggle \in BOOLEAN
    /\ heartbeat_counter \in 0 .. CounterSize - 1
    /\ work \in {Stopped} \cup 0 .. Ms(1000)
    /\ led \in BOOLEAN /\ pc \in [Callers -> {"idle"} \cup State] /\ still \in 0 .. MaxStill

Quiet == \A c \in Callers : pc[c] = "idle"

(* When set_state(OFF) or set_state(ON) has returned the LED is off or on    *)
(* and stays so: no toggle of a blinking that was under way comes later.     *)
LedAgrees == Quiet /\ current_state \in {"OFF", "ON"} => led = (current_state = "ON")

(* A blinking LED goes on blinking: through changes of state, the 100 ms of  *)
(* the call, work that is due while a thread is in the middle of a call and  *)
(* the wrap of the counter, the work is never lost and no change is late by  *)
(* more than that call. Late is against the handler's own delays, whatever   *)
(* rate they come to: a heartbeat's longest pause is 7 of them.              *)
(* (status_led_set_state, status_led_blink_work_handler.)                    *)
LongestStill(s) == Ms(100) + (IF s = "HEARTBEAT" THEN 7 ELSE 1) * Period[s]
KeepsBlinking == Quiet /\ current_state \in Blinks =>
                    work # Stopped /\ still <= LongestStill(current_state)

(* When there is nothing to blink the work stops by itself: one delay after  *)
(* the last call at the latest ("No blinking needed, stop work").            *)
WorkStops == Quiet /\ current_state \notin Blinks /\ still > Ms(1000) => work = Stopped
=============================================================================
