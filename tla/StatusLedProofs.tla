---------------------------- MODULE StatusLedProofs ----------------------------
(***************************************************************************)
(* Proofs about StatusLed, for every CounterSize that leaves 4 modulo 12,  *)
(* 2^32 of the code among them: its type, that the work stops, and, for an *)
(* LED that one thread sets, that OFF and ON are final and that blinking   *)
(* goes on.                                                                *)
(***************************************************************************)
EXTENDS StatusLed, TLAPS

LEMMA Times == Ms(100) = 2 /\ Ms(250) = 5 /\ Ms(1000) = 20
  BY DEF Ms

(* The counter goes up by one, or from its last value to 0. *)
Beat(n) == IF n = CounterSize - 1 THEN 0 ELSE n + 1

LEMMA NextBeat ==
  ASSUME NEW n \in 0 .. CounterSize - 1
  PROVE  (n + 1) % CounterSize = Beat(n) /\ Beat(n) \in 0 .. CounterSize - 1
  <1>1. CounterSize \in Nat /\ CounterSize > 0
    BY LedAssumption
  <1>2. CASE n = CounterSize - 1
    BY <1>1, <1>2 DEF Beat
  <1>3. CASE n # CounterSize - 1
    BY <1>1, <1>3 DEF Beat
  <1> QED BY <1>2, <1>3

LEMMA DelayType == delay \in {Stopped, 5, 20}
  <1>1. ASSUME current_state \in Blinks PROVE Period[current_state] \in {5, 20}
    BY <1>1, Times DEF Period, Blinks
  <1> QED BY <1>1 DEF delay

-----------------------------------------------------------------------------
(* Type correctness of the data of status_led.c.                           *)

LEMMA TypeStep == TypeOK /\ [Next]_vars => TypeOK'
  <1> SUFFICES ASSUME TypeOK, [Next]_vars PROVE TypeOK'
    OBVIOUS
  <1> USE DEF TypeOK
  <1>1. ASSUME NEW c \in Callers, set_state(c) PROVE TypeOK'
    BY <1>1 DEF set_state
  <1>2. ASSUME NEW c \in Callers, set_state_end(c) PROVE TypeOK'
    <2>1. led' \in BOOLEAN
      <3>1. CASE pc[c] \in {"OFF", "ON"}
        BY <1>2, <3>1, Zenon DEF set_state_end
      <3>2. CASE pc[c] \notin {"OFF", "ON"}
        BY <1>2, <3>2 DEF set_state_end
      <3> QED BY <3>1, <3>2
    <2>2. work' \in {Stopped} \cup 0 .. Ms(1000)
      BY <1>2, Times DEF set_state_end
    <2>3. pc' \in [Callers -> {"idle"} \cup State]
      BY <1>2 DEF set_state_end
    <2> QED BY <1>2, <2>1, <2>2, <2>3, LedAssumption DEF set_state_end, data
  <1>3. ASSUME blink_work_handler PROVE TypeOK'
    <2>1. heartbeat_counter' \in 0 .. CounterSize - 1
      BY <1>3, NextBeat DEF blink_work_handler
    <2>2. work' \in {Stopped} \cup 0 .. Ms(1000)
      BY <1>3, DelayType, Times DEF blink_work_handler
    <2>3. led' \in BOOLEAN /\ blink_toggle' \in BOOLEAN
      <3>1. heartbeat_on(heartbeat_counter') \in BOOLEAN
        BY DEF heartbeat_on
      <3>2. blink_toggle' = ~blink_toggle
        BY <1>3 DEF blink_work_handler
      <3>3. led' \in {heartbeat_on(heartbeat_counter'), blink_toggle', led}
        BY <1>3, Zenon DEF blink_work_handler
      <3> QED BY <3>1, <3>2, <3>3, Zenon
    <2>4. still' \in 0 .. MaxStill
      BY <1>3, LedAssumption DEF blink_work_handler
    <2> QED BY <1>3, <2>1, <2>2, <2>3, <2>4 DEF blink_work_handler
  <1>4. ASSUME tick PROVE TypeOK'
    BY <1>4, Times, LedAssumption DEF tick, data, Stopped
  <1>5. CASE UNCHANGED vars
    BY <1>5 DEF vars, data
  <1> QED BY <1>1, <1>2, <1>3, <1>4, <1>5 DEF Next

(* Every variable of the LED keeps its type.                               *)
THEOREM TypeCorrect == Spec => []TypeOK
  <1>1. Init => TypeOK
    <2> SUFFICES ASSUME Init PROVE TypeOK
      OBVIOUS
    <2>1. 0 \in 0 .. CounterSize - 1 /\ 0 \in 0 .. MaxStill
      BY LedAssumption
    <2> QED BY <2>1 DEF Init, TypeOK, State
  <1> QED BY <1>1, TypeStep, PTL DEF Spec

-----------------------------------------------------------------------------
(* The work stops: whatever the callers do, what is left of the delay and   *)
(* the time since the last call are one delay at most.                      *)

StopInv == Quiet /\ current_state \notin Blinks /\ work # Stopped => still + work <= 20

LEMMA StopStep == TypeOK /\ StopInv /\ [Next]_vars => StopInv'
  <1> SUFFICES ASSUME TypeOK, StopInv, [Next]_vars PROVE StopInv'
    OBVIOUS
  <1> USE DEF TypeOK, StopInv, Stopped
  <1>1. ASSUME NEW c \in Callers, set_state(c) PROVE StopInv'
    <2>1. PICK s \in State : pc' = [pc EXCEPT ![c] = s]
      BY <1>1 DEF set_state
    <2>2. ~Quiet'
      BY <2>1 DEF Quiet, State, Blinks
    <2> QED BY <2>2
  <1>2. ASSUME NEW c \in Callers, set_state_end(c) PROVE StopInv'
    BY <1>2, Times DEF set_state_end
  <1>3. ASSUME blink_work_handler PROVE StopInv'
    BY <1>3 DEF blink_work_handler, delay, Blinks
  <1>4. ASSUME tick PROVE StopInv'
    BY <1>4, LedAssumption DEF tick, data, Quiet
  <1>5. CASE UNCHANGED vars
    BY <1>5 DEF vars, data, Quiet
  <1> QED BY <1>1, <1>2, <1>3, <1>4, <1>5 DEF Next

(* When there is nothing to blink the work is over one delay after the last *)
(* call, however many threads set the LED (status_led_blink_work_handler).  *)
THEOREM WorkEnds == Spec => []WorkStops
  <1>1. Init => StopInv
    BY DEF Init, StopInv
  <1>2. TypeOK /\ StopInv => WorkStops
    BY Times DEF TypeOK, StopInv, WorkStops, Stopped
  <1> QED BY <1>1, <1>2, TypeCorrect, StopStep, PTL DEF Spec

-----------------------------------------------------------------------------
(* One caller: what it is about to act on is what it has stored.            *)

OneCaller == \A c, d \in Callers : c = d
CallInv   == \A c \in Callers : pc[c] \in {"idle", current_state}

LEMMA CallStep == OneCaller /\ TypeOK /\ CallInv /\ [Next]_vars => CallInv'
  <1> SUFFICES ASSUME OneCaller, TypeOK, CallInv, [Next]_vars PROVE CallInv'
    OBVIOUS
  <1> USE DEF TypeOK, CallInv
  <1>1. ASSUME NEW c \in Callers, set_state(c) PROVE CallInv'
    BY <1>1 DEF set_state, OneCaller
  <1>2. ASSUME NEW c \in Callers, set_state_end(c) PROVE CallInv'
    BY <1>2 DEF set_state_end, data
  <1>3. CASE blink_work_handler \/ tick \/ UNCHANGED vars
    BY <1>3 DEF blink_work_handler, tick, vars, data
  <1> QED BY <1>1, <1>2, <1>3 DEF Next

LEMMA NotQuiet ==
  ASSUME TypeOK, NEW c \in Callers, set_state(c) PROVE ~Quiet'
  <1>1. PICK s \in State : pc' = [pc EXCEPT ![c] = s]
    BY DEF set_state
  <1> QED BY <1>1 DEF TypeOK, Quiet, State, Blinks

(* The call that ends is the last one. *)
LEMMA EndQuiet ==
  ASSUME OneCaller, CallInv, NEW c \in Callers, set_state_end(c)
  PROVE  ~Quiet /\ pc[c] = current_state /\ current_state' = current_state
  BY DEF CallInv, set_state_end, Quiet, data

LEMMA LedStep == OneCaller /\ TypeOK /\ CallInv /\ LedAgrees /\ [Next]_vars => LedAgrees'
  <1> SUFFICES ASSUME OneCaller, TypeOK, CallInv, LedAgrees, [Next]_vars PROVE LedAgrees'
    OBVIOUS
  <1> USE DEF LedAgrees
  <1>1. ASSUME NEW c \in Callers, set_state(c) PROVE LedAgrees'
    BY <1>1, NotQuiet
  <1>2. ASSUME NEW c \in Callers, set_state_end(c) PROVE LedAgrees'
    BY <1>2, EndQuiet DEF set_state_end
  <1>3. ASSUME blink_work_handler PROVE LedAgrees'
    BY <1>3 DEF blink_work_handler, Quiet, Blinks
  <1>4. CASE tick \/ UNCHANGED vars
    BY <1>4 DEF tick, vars, data, Quiet
  <1> QED BY <1>1, <1>2, <1>3, <1>4 DEF Next

LEMMA CallHolds == ASSUME OneCaller PROVE Spec => []CallInv
  <1>1. Init => CallInv
    BY DEF Init, CallInv
  <1> QED BY <1>1, CallStep, TypeCorrect, PTL DEF Spec

(* After set_state(OFF) or set_state(ON) by the one thread that sets it the *)
(* LED is off or on and stays so, work under way or not.                    *)
THEOREM LedHolds == ASSUME OneCaller PROVE Spec => []LedAgrees
  <1>1. Init => LedAgrees
    BY DEF Init, LedAgrees
  <1> QED BY <1>1, LedStep, CallHolds, TypeCorrect, PTL DEF Spec

-----------------------------------------------------------------------------
(* Blinking. Lag bounds the beats since the heartbeat last changed, 3 -> 0   *)
(* of the wrap included; before the first beat the 100 ms of the call count. *)

Lag(n) == LET p == n % 12
          IN  IF p = 0 THEN 1 ELSE IF p = 1 THEN 2 ELSE IF p \in {2, 3} THEN 0
              ELSE IF p = 4 THEN 1 ELSE p - 5

LEMMA LagType == ASSUME NEW n \in Nat PROVE Lag(n) \in 0 .. 6
  BY DEF Lag

(* The pattern holds for one more beat only where Lag goes up. *)
LEMMA Pattern ==
  ASSUME NEW n \in 0 .. CounterSize - 1, heartbeat_on(n) <=> heartbeat_on(Beat(n))
  PROVE  Lag(n) + 1 <= Lag(Beat(n))
  <1> USE LedAssumption
  <1>1. CASE n = CounterSize - 1
    <2>1. Beat(n) = 0 /\ n % 12 = 3
      BY <1>1 DEF Beat
    <2> QED BY <2>1 DEF Lag
  <1>2. CASE n # CounterSize - 1
    <2> DEFINE p == n % 12  q == (n + 1) % 12
    <2>1. /\ Beat(n) = n + 1 /\ p \in 0 .. 11
          /\ q = IF p = 11 THEN 0 ELSE p + 1
      BY <1>2 DEF Beat
    <2>2. p \in {0, 1, 3, 4} <=> q \in {0, 1, 3, 4}
      BY <2>1 DEF heartbeat_on
    <2> QED BY <2>1, <2>2 DEF Lag
  <1> QED BY <1>1, <1>2

BlinkInv ==
    Quiet /\ current_state \in Blinks =>
        /\ work # Stopped
        /\ \/ still + work <= 2
           \/ /\ current_state = "HEARTBEAT" /\ (led <=> heartbeat_on(heartbeat_counter))
              /\ still + work <= 2 + 5 * (Lag(heartbeat_counter) + 1)
           \/ /\ current_state # "HEARTBEAT" /\ (led <=> blink_toggle)
              /\ still + work <= 2 + Period[current_state]

LEMMA Periods == /\ Period["HEARTBEAT"] = 5
                 /\ \A b \in Blinks : Period[b] \in {5, 20}
  BY Times DEF Period, Blinks

LEMMA BlinkBeat == ASSUME TypeOK, BlinkInv, blink_work_handler PROVE BlinkInv'
  <1> SUFFICES ASSUME Quiet', (current_state \in Blinks)' PROVE BlinkInv'
    BY DEF BlinkInv
  <1> DEFINE n == heartbeat_counter
  <1>1. /\ Quiet /\ current_state \in Blinks /\ current_state' = current_state
        /\ work = 0 /\ n' = Beat(n) /\ n \in 0 .. CounterSize - 1 /\ n' \in Nat /\ n \in Nat
        /\ work' = Period[current_state] /\ work' \in {5, 20} /\ still \in Nat
        /\ still' \in {0, still} /\ (still' # 0 => (led' <=> led))
    BY NextBeat, Periods, LedAssumption DEF blink_work_handler, TypeOK, Quiet, delay
  <1>2. CASE current_state = "HEARTBEAT"
    <2>1. led' <=> heartbeat_on(n')
      BY <1>2 DEF blink_work_handler
    <2>2. work' = 5 /\ Lag(n') \in 0 .. 6 /\ Lag(n) \in 0 .. 6
      BY <1>1, <1>2, Periods, LagType
    <2>3. still' <= 2 + 5 * Lag(n')
      <3>1. CASE still' <= 2
        BY <1>1, <2>2, <3>1
      <3>2. CASE still' > 2
        <4>1. /\ led <=> heartbeat_on(n)
              /\ still <= 2 + 5 * (Lag(n) + 1) /\ still' = still /\ (led' <=> led)
          BY <1>1, <1>2, <3>2 DEF BlinkInv
        <4>2. Lag(n) + 1 <= Lag(n')
          BY <1>1, <2>1, <4>1, Pattern
        <4> QED BY <1>1, <2>2, <4>1, <4>2
      <3> QED BY <1>1, <3>1, <3>2
    <2> QED BY <1>1, <1>2, <2>1, <2>2, <2>3 DEF BlinkInv, Stopped
  <1>3. CASE current_state # "HEARTBEAT"
    <2>1. (led' <=> blink_toggle') /\ blink_toggle' = ~blink_toggle
      BY <1>1, <1>3 DEF blink_work_handler
    <2>2. still' <= 2
      <3>1. CASE still' > 2
        <4>1. (led <=> blink_toggle) /\ (led' <=> led)
          BY <1>1, <1>3, <3>1 DEF BlinkInv
        <4> QED BY <2>1, <4>1
      <3> QED BY <1>1, <3>1
    <2> QED BY <1>1, <1>3, <2>1, <2>2 DEF BlinkInv, Stopped
  <1> QED BY <1>2, <1>3

LEMMA BlinkStep == OneCaller /\ TypeOK /\ CallInv /\ BlinkInv /\ [Next]_vars => BlinkInv'
  <1> SUFFICES ASSUME OneCaller, TypeOK, CallInv, BlinkInv, [Next]_vars PROVE BlinkInv'
    OBVIOUS
  <1>1. ASSUME NEW c \in Callers, set_state(c) PROVE BlinkInv'
    BY <1>1, NotQuiet DEF BlinkInv
  <1>2. ASSUME NEW c \in Callers, set_state_end(c) PROVE BlinkInv'
    <2> SUFFICES ASSUME (current_state \in Blinks)' PROVE work' = 2 /\ still' = 0
      BY DEF BlinkInv, Stopped
    <2>1. pc[c] = current_state /\ current_state \in Blinks
      BY <1>2, EndQuiet
    <2> QED BY <1>2, <2>1, Times DEF set_state_end
  <1>3. ASSUME blink_work_handler PROVE BlinkInv'
    BY <1>3, BlinkBeat
  <1>4. ASSUME tick PROVE BlinkInv'
    <2>1. /\ work' = (IF work = Stopped THEN Stopped ELSE work - 1) /\ still' \in {still, still + 1}
          /\ work \in {Stopped} \cup Nat /\ still \in Nat /\ work # 0
          /\ UNCHANGED <<current_state, blink_toggle, heartbeat_counter, led>> /\ Quiet' = Quiet
      BY <1>4, Times DEF tick, data, TypeOK, Quiet
    <2>2. Lag(heartbeat_counter) \in 0 .. 6 /\ \A b \in Blinks : Period[b] \in {5, 20}
      BY LagType, Periods, LedAssumption DEF TypeOK
    <2> SUFFICES ASSUME Quiet', (current_state \in Blinks)' PROVE BlinkInv'
      BY DEF BlinkInv
    <2>3. Quiet /\ current_state \in Blinks
      BY <2>1
    <2>4. work # Stopped /\ work \in Nat \ {0} /\ work' = work - 1 /\ work' # Stopped
      BY <2>1, <2>3 DEF BlinkInv, Stopped
    <2>5. CASE still + work <= 2
      <3>1. still' + work' <= 2
        <4>1. CASE still' = still
          BY <2>1, <2>4, <2>5, <4>1
        <4>2. CASE still' = still + 1
          BY <2>1, <2>4, <2>5, <4>2
        <4> QED BY <2>1, <4>1, <4>2
      <3> QED BY <2>4, <3>1 DEF BlinkInv
    <2>6. CASE still + work > 2 /\ current_state = "HEARTBEAT"
      <3>1. /\ led <=> heartbeat_on(heartbeat_counter)
            /\ still + work <= 2 + 5 * (Lag(heartbeat_counter) + 1)
        BY <2>1, <2>3, <2>6 DEF BlinkInv, Stopped
      <3>2. still' + work' <= 2 + 5 * (Lag(heartbeat_counter) + 1)
        BY <2>1, <2>2, <2>4, <3>1 DEF Stopped
      <3> QED BY <2>1, <2>4, <2>6, <3>1, <3>2 DEF BlinkInv
    <2>7. CASE still + work > 2 /\ current_state # "HEARTBEAT"
      <3>1. (led <=> blink_toggle) /\ still + work <= 2 + Period[current_state]
        BY <2>1, <2>3, <2>7 DEF BlinkInv, Stopped
      <3>2. still' + work' <= 2 + Period[current_state]
        BY <2>1, <2>2, <2>3, <2>4, <3>1 DEF Stopped
      <3> QED BY <2>1, <2>4, <2>7, <3>1, <3>2 DEF BlinkInv
    <2> QED BY <2>1, <2>4, <2>5, <2>6, <2>7 DEF Stopped
  <1>5. CASE UNCHANGED vars
    BY <1>5 DEF vars, data, Quiet, BlinkInv
  <1> QED BY <1>1, <1>2, <1>3, <1>4, <1>5 DEF Next

(* While the one thread that sets the LED wants it to blink, the work never  *)
(* stops and no change of the LED is late against the handler's own delays,  *)
(* through every change of state and every wrap of heartbeat_counter         *)
(* (status_led_blink_work_handler).                                          *)
THEOREM BlinkHolds == ASSUME OneCaller PROVE Spec => []KeepsBlinking
  <1>1. Init => BlinkInv
    BY DEF Init, BlinkInv, Blinks
  <1>2. TypeOK /\ BlinkInv => KeepsBlinking
    <2> SUFFICES ASSUME TypeOK, BlinkInv, Quiet, current_state \in Blinks
                 PROVE  work # Stopped /\ still <= LongestStill(current_state)
      BY DEF KeepsBlinking
    <2>1. /\ work # Stopped /\ work \in Nat /\ still \in Nat
          /\ Lag(heartbeat_counter) \in 0 .. 6
      BY LagType, LedAssumption, Times DEF TypeOK, BlinkInv
    <2>2. LongestStill(current_state) = 2 + (IF current_state = "HEARTBEAT" THEN 7 ELSE 1) * Period[current_state]
      BY Times DEF LongestStill
    <2>3. CASE current_state = "HEARTBEAT"
      BY <2>1, <2>2, <2>3, Periods DEF BlinkInv
    <2>4. CASE current_state # "HEARTBEAT"
      BY <2>1, <2>2, <2>4, Periods DEF BlinkInv
    <2> QED BY <2>3, <2>4
  <1> QED BY <1>1, <1>2, BlinkStep, CallHolds, TypeCorrect, PTL DEF Spec
=============================================================================
