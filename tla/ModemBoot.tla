------------------------------- MODULE ModemBoot -------------------------------
(***************************************************************************)
(* How the SIM800L is brought up (sim800l.c, sim800l_pdp.c): reset and     *)
(* autobaud, the wait for RDY and the SIM card, the setup commands, the    *)
(* activation of the PDP context, and then power management.               *)
(*                                                                         *)
(* All of it runs in the init thread, before any socket call; the RX       *)
(* thread gives the semaphores it waits for. modem_cmd_send is the one of  *)
(* ModemCmd, without a rival: reset sem_response, write, wait, read        *)
(* last_error.                                                             *)
(***************************************************************************)
EXTENDS Naturals, Sequences

CONSTANTS
    BootTries,     \* MDM_BOOT_TRIES
    MaxAutobaud,   \* MDM_MAX_AUTOBAUD
    SetupCmds,     \* ARRAY_SIZE(setup_cmds)
    RssiCount,     \* MDM_WAIT_FOR_RSSI_COUNT
    CgattWaits,    \* MDM_MAX_CGATT_WAITS
    MaxUrcs,       \* bound: URCs the modem sends between two resets
    MaxLines       \* bound: with this many lines under way no URC comes and no wait runs out

ASSUME BootAssumption ==
    /\ {BootTries, MaxAutobaud, SetupCmds, RssiCount, CgattWaits, MaxUrcs, MaxLines} \subseteq Nat
    /\ MaxAutobaud > 0 /\ SetupCmds > 0

VARIABLES
    pc,            \* where the init thread is: a command, or a step of its own
    waiting,       \* TRUE between the write of the command pc and its end
    boot_tries, counter,
    ret,           \* what modem_boot returned
    sem_response, boot_sem, last_error,
    cpin, attached, rssi, ip_addr, state,   \* mdata
    powered, pm,   \* mdata.powered and the kernel's PM state of the device
    toModem, fromModem,
    up,            \* the modem is out of reset
    done,          \* ghost: commands it has carried out since its reset
    urcs,          \* how many URCs it may still send
    late           \* ghost: commands given up with their answer still to come

boot  == <<pc, waiting, boot_tries, counter, ret>>
sems  == <<sem_response, boot_sem, last_error>>
mdata == <<cpin, attached, rssi, ip_addr, state>>
power == <<powered, pm>>
modem == <<up, done, urcs>>
vars  == <<boot, sems, mdata, power, toModem, fromModem, modem, late>>

Cmd    == {"AT", "ATE0", "setup", "CSQ", "CREG?", "CGATT?", "CIPMUX", "CSTT", "CIICR", "CIFSR"}
Pc     == Cmd \cup {"reset", "boot_reset", "wait_rdy", "wait_sim", "check_sim", "check_gprs", "booted"}
Answer == {"OK", "ERROR", "RSSI ok", "RSSI unknown", "CREG? 1", "CGATT 1", "CGATT 0", "text", "addr"}
Urc    == {"RDY", "CPIN READY", "CPIN NOT READY", "CREG 1", "CREG 0", "text"}
Return == {"0", "EIO", "ETIMEDOUT", "no RDY", "no SIM status", "no SIM", "ENETUNREACH"}

(* modem_init up to modem_boot; the first reset is that of autobaud. *)
Init ==
    /\ pc = "reset" /\ waiting = FALSE /\ boot_tries = 0 /\ counter = 0 /\ ret = "0"
    /\ sem_response = 0 /\ boot_sem = 0 /\ last_error = "0"
    /\ cpin = FALSE /\ attached = FALSE /\ rssi = "unset" /\ ip_addr = "none" /\ state = "IDLE"
    /\ powered = TRUE /\ pm = "suspended"
    /\ toModem = <<>> /\ fromModem = <<>>
    /\ up = TRUE /\ done = {} /\ urcs = MaxUrcs /\ late = {}

-----------------------------------------------------------------------------
(* The modem is held in reset or let go; either way it forgets everything. *)
gpio_reset(v) == /\ up' = v /\ done' = {} /\ urcs' = MaxUrcs /\ toModem' = <<>>

Goto(l) == pc' = l /\ UNCHANGED ret
Fail(r) == pc' = "booted" /\ ret' = r

(* Mutant: autobaud never gives up. *)
modem_reset_for_ever ==
    /\ pc = "reset"
    /\ gpio_reset(TRUE) /\ Goto("AT") /\ counter' = 0
    /\ boot_tries' = boot_tries + 1
    /\ UNCHANGED <<waiting, sems, mdata, power, fromModem, late>>

(* autobaud's outer loop; it ends with the result of the last AT. *)
modem_reset ==
    /\ pc = "reset"
    /\ IF boot_tries <= BootTries
       THEN gpio_reset(TRUE) /\ Goto("AT") /\ counter' = 0
       ELSE Goto("booted") /\ UNCHANGED <<counter, toModem, modem>>
    /\ boot_tries' = boot_tries + 1
    /\ UNCHANGED <<waiting, sems, mdata, power, fromModem, late>>

(* modem_cmd_send. *)
cmd_send ==
    /\ pc \in Cmd /\ ~waiting
    /\ waiting' = TRUE /\ sem_response' = 0 /\ last_error' = "0"
    /\ toModem' = Append(toModem, pc)
    /\ UNCHANGED <<pc, boot_tries, counter, ret, boot_sem, mdata, power, fromModem, modem, late>>

Final == {"OK", "ERROR"}

(* Some answer is still on its way: a command to read, or a line that       *)
(* on_response will take for the end of whatever command is waiting then.   *)
Expected == toModem # <<>> \/ \E i \in DOMAIN fromModem : fromModem[i] \in Final

(* The command pc has ended with r: 0, EIO or, by time alone, ETIMEDOUT. *)
Ended(r) ==
    /\ waiting
    /\ \/ /\ sem_response = 1 /\ sem_response' = 0
          /\ r = last_error /\ UNCHANGED late
       \/ /\ sem_response = 0 /\ Len(toModem) + Len(fromModem) <= MaxLines
          /\ r = "ETIMEDOUT" /\ UNCHANGED sem_response
          /\ late' = IF Expected THEN late \cup {pc} ELSE late
    /\ waiting' = FALSE
    /\ UNCHANGED <<boot_sem, last_error, mdata, power, toModem, fromModem, modem>>

autobaud ==
    /\ pc = "AT"
    /\ \E r \in Return :
          /\ Ended(r)
          /\ ret' = r
          /\ IF r = "0" THEN pc' = "ATE0" /\ UNCHANGED counter
             ELSE /\ counter' = counter + 1
                  /\ pc' = IF counter + 1 < MaxAutobaud THEN "AT" ELSE "reset"
    /\ UNCHANGED boot_tries

(* Mutant: the answer to ATE0 is not returned. *)
autobaud_echo_ignored ==
    /\ pc = "ATE0"
    /\ \E r \in Return : Ended(r) /\ Goto("boot_reset")
    /\ UNCHANGED <<boot_tries, counter>>

autobaud_echo ==
    /\ pc = "ATE0"
    /\ \E r \in Return : Ended(r) /\ IF r = "0" THEN Goto("boot_reset") ELSE Fail(r)
    /\ UNCHANGED <<boot_tries, counter>>

boot_reset ==
    /\ pc = "boot_reset"
    /\ boot_sem' = 0 /\ Goto("wait_rdy")
    /\ UNCHANGED <<waiting, boot_tries, counter, sem_response, last_error, mdata, power,
                   toModem, fromModem, modem, late>>

(* boot_sem is taken for RDY, then for the SIM status; it is the same give. *)
boot_wait ==
    /\ \/ /\ boot_sem = 1 /\ boot_sem' = 0
          /\ \/ pc = "wait_rdy" /\ Goto("wait_sim")
             \/ pc = "wait_sim" /\ Goto("check_sim")
       \/ /\ boot_sem = 0 /\ UNCHANGED boot_sem
          /\ \/ pc = "wait_rdy" /\ Fail("no RDY")
             \/ pc = "wait_sim" /\ Fail("no SIM status")
    /\ UNCHANGED <<waiting, boot_tries, counter, sem_response, last_error, mdata, power,
                   toModem, fromModem, modem, late>>

check_sim ==
    /\ pc = "check_sim"
    /\ IF cpin THEN Goto("setup") /\ counter' = 0 /\ state' = "READY"
               ELSE Fail("no SIM") /\ UNCHANGED <<counter, state>>
    /\ UNCHANGED <<waiting, boot_tries, sems, cpin, attached, rssi, ip_addr, power,
                   toModem, fromModem, modem, late>>

(* modem_cmd_handler_setup_cmds; then the first query of modem_pdp_activate. *)
setup_cmds ==
    /\ pc = "setup"
    /\ \E r \in Return :
          /\ Ended(r)
          /\ IF r # "0" THEN Fail(r) /\ UNCHANGED counter
             ELSE IF counter + 1 < SetupCmds THEN Goto("setup") /\ counter' = counter + 1
             ELSE Goto("CSQ") /\ counter' = 0
    /\ UNCHANGED boot_tries

-----------------------------------------------------------------------------
(* modem_pdp_activate. *)

(* The query's result is not looked at: after RssiCount more it goes on. *)
wait_rssi ==
    /\ pc = "CSQ"
    /\ \E r \in Return : Ended(r)
    /\ IF counter < RssiCount /\ rssi # "ok"
       THEN Goto("CSQ") /\ counter' = counter + 1
       ELSE Goto("CREG?") /\ counter' = 0
    /\ UNCHANGED boot_tries

(* Mutant: the number of queries is not counted. *)
wait_gprs_forever ==
    /\ pc \in {"CREG?", "CGATT?"}
    /\ \E r \in Return :
          /\ Ended(r)
          /\ IF r # "0" THEN Fail(r)
             ELSE IF ~attached THEN Goto("CGATT?")
             ELSE Goto("check_gprs")
    /\ UNCHANGED <<boot_tries, counter>>

(* The registration is asked for once, CGATT until attached. *)
wait_gprs ==
    /\ pc \in {"CREG?", "CGATT?"}
    /\ \E r \in Return :
          /\ Ended(r)
          /\ IF r # "0" THEN Fail(r) /\ UNCHANGED counter
             ELSE IF counter < CgattWaits /\ ~attached THEN Goto("CGATT?") /\ counter' = counter + 1
             ELSE Goto("check_gprs") /\ UNCHANGED counter
    /\ UNCHANGED boot_tries

check_gprs ==
    /\ pc = "check_gprs"
    /\ IF cpin /\ attached THEN Goto("CIPMUX") ELSE Fail("ENETUNREACH")
    /\ UNCHANGED <<waiting, boot_tries, counter, sems, mdata, power, toModem, fromModem, modem, late>>

AfterPdp == [CIPMUX |-> "CSTT", CSTT |-> "CIICR", CIICR |-> "CIFSR", CIFSR |-> "booted"]

pdp_cmd ==
    /\ pc \in DOMAIN AfterPdp
    /\ \E r \in Return : Ended(r) /\ IF r = "0" THEN Goto(AfterPdp[pc]) ELSE Fail(r)
    /\ UNCHANGED <<boot_tries, counter>>

-----------------------------------------------------------------------------
(* Power management: the device starts out suspended, with the modem on.   *)

Pm(action, from, to) == pc = "booted" /\ ret = "0" /\ pm = from /\ pm' = to

modem_power_off ==
    /\ Pm("SUSPEND", "active", "suspended")
    /\ powered' = FALSE /\ gpio_reset(FALSE)
    /\ UNCHANGED <<boot, sems, mdata, fromModem, late>>

modem_power_on ==
    /\ Pm("RESUME", "suspended", "active")
    /\ IF powered THEN UNCHANGED <<toModem, modem>> ELSE gpio_reset(TRUE)
    /\ powered' = TRUE
    /\ UNCHANGED <<boot, sems, mdata, fromModem, late>>

-----------------------------------------------------------------------------
(* The RX thread. *)

Receive(K) == /\ fromModem # <<>> /\ Head(fromModem) \in K
              /\ fromModem' = Tail(fromModem)
              /\ UNCHANGED <<boot, power, toModem, modem, late>>

on_response ==
    /\ Receive({"OK", "ERROR"})
    /\ last_error' = IF Head(fromModem) = "OK" THEN "0" ELSE "EIO"
    /\ sem_response' = 1
    /\ UNCHANGED <<boot_sem, mdata>>

on_urc_rdy ==
    /\ Receive({"RDY"})
    /\ boot_sem' = 1
    /\ UNCHANGED <<sem_response, last_error, mdata>>

on_urc_cpin ==
    /\ Receive({"CPIN READY", "CPIN NOT READY"})
    /\ cpin' = (Head(fromModem) = "CPIN READY")
    /\ boot_sem' = 1
    /\ UNCHANGED <<sem_response, last_error, attached, rssi, ip_addr, state>>

on_urc_creg ==
    /\ Receive({"CREG 1", "CREG 0"})
    /\ IF Head(fromModem) = "CREG 1" THEN state' = "READY" /\ boot_sem' = 1
                                     ELSE state' = "INIT"  /\ UNCHANGED boot_sem
    /\ UNCHANGED <<sem_response, last_error, cpin, attached, rssi, ip_addr>>

(* "+CREG: 0,1": two tables have a handler for it, and the order in which  *)
(* modem_cmd_handler looks at them is not the driver's. on_urc_creg takes  *)
(* the 0 for a state.                                                      *)
on_cmd_cereg ==
    /\ Receive({"CREG? 1"})
    /\ state' \in {state, "INIT"}
    /\ UNCHANGED <<sems, cpin, attached, rssi, ip_addr>>

on_cmd_csq ==
    /\ Receive({"RSSI ok", "RSSI unknown"})
    /\ rssi' = IF pc # "CSQ" \/ ~waiting THEN rssi
               ELSE IF Head(fromModem) = "RSSI ok" THEN "ok" ELSE "unknown"
    /\ UNCHANGED <<sems, cpin, attached, ip_addr, state>>

on_cmd_cgatt ==
    /\ Receive({"CGATT 1", "CGATT 0"})
    /\ attached' = IF pc = "CGATT?" /\ waiting THEN Head(fromModem) = "CGATT 1" ELSE attached
    /\ UNCHANGED <<sems, cpin, rssi, ip_addr, state>>

(* While AT+CIFSR waits, any other line is the address. *)
on_cmd_cifsr ==
    /\ Receive({"text", "addr"})
    /\ IF pc = "CIFSR" /\ waiting
       THEN ip_addr' = Head(fromModem) /\ sem_response' = 1
       ELSE UNCHANGED <<ip_addr, sem_response>>
    /\ UNCHANGED <<boot_sem, last_error, cpin, attached, rssi, state>>

modem_rx == \/ on_response \/ on_urc_rdy \/ on_urc_cpin \/ on_urc_creg \/ on_cmd_cereg
            \/ on_cmd_csq \/ on_cmd_cgatt \/ on_cmd_cifsr

-----------------------------------------------------------------------------
(* The modem reads a command and answers it, refuses it or stays silent.   *)

Good(c) ==
    CASE c = "CSQ"    -> {<<"RSSI ok", "OK">>, <<"RSSI unknown", "OK">>}
      [] c = "CREG?"  -> {<<"CREG? 1", "OK">>}
      [] c = "CGATT?" -> {<<"CGATT 1", "OK">>, <<"CGATT 0", "OK">>}
      [] c = "setup"  -> {<<"text", "OK">>}
      [] c = "CIFSR"  -> {<<"addr">>}
      [] OTHER        -> {<<"OK">>}

modem_answer ==
    /\ up /\ toModem # <<>> /\ toModem' = Tail(toModem)
    /\ \/ \E ls \in Good(Head(toModem)) :
             fromModem' = fromModem \o ls /\ done' = done \cup {Head(toModem)}
       \/ fromModem' = Append(fromModem, "ERROR") /\ UNCHANGED done
       \/ UNCHANGED <<fromModem, done>>
    /\ UNCHANGED <<boot, sems, mdata, power, up, urcs, late>>

modem_urc ==
    /\ up /\ urcs > 0 /\ Len(fromModem) < MaxLines
    /\ \E u \in Urc : fromModem' = Append(fromModem, u)
    /\ urcs' = urcs - 1
    /\ UNCHANGED <<boot, sems, mdata, power, toModem, up, done, late>>

-----------------------------------------------------------------------------
modem_boot == \/ modem_reset \/ cmd_send \/ autobaud \/ autobaud_echo \/ boot_reset \/ boot_wait
              \/ check_sim \/ setup_cmds \/ wait_rssi \/ wait_gprs \/ check_gprs \/ pdp_cmd

Next == modem_boot \/ modem_power_off \/ modem_power_on \/ modem_rx \/ modem_answer \/ modem_urc

Spec == Init /\ [][Next]_vars

(* Threads run, timeouts expire, and a command is read (and perhaps         *)
(* ignored). Nothing makes the modem answer or send a URC.                  *)
FairSpec == Spec /\ WF_vars(modem_boot) /\ WF_vars(modem_rx) /\ WF_vars(modem_answer)

-----------------------------------------------------------------------------
(* Properties. *)

Limit(p) == IF p = "setup" THEN SetupCmds - 1
            ELSE IF p = "CSQ" THEN RssiCount
            ELSE IF p \in {"CREG?", "CGATT?", "check_gprs", "CIPMUX", "CSTT", "CIICR", "CIFSR"} THEN CgattWaits
            ELSE MaxAutobaud

TypeOK ==
    /\ pc \in Pc /\ waiting \in BOOLEAN /\ ret \in Return
    /\ boot_tries \in 0 .. BootTries + 2
    /\ counter \in Nat /\ (pc # "booted" => counter <= Limit(pc))
    /\ sem_response \in {0, 1} /\ boot_sem \in {0, 1} /\ last_error \in {"0", "EIO"}
    /\ cpin \in BOOLEAN /\ attached \in BOOLEAN /\ rssi \in {"unset", "ok", "unknown"}
    /\ ip_addr \in {"none", "text", "addr"} /\ state \in {"IDLE", "INIT", "READY"}
    /\ powered \in BOOLEAN /\ pm \in {"suspended", "active"}
    /\ toModem \in Seq(Cmd) /\ fromModem \in Seq(Answer \cup Urc)
    /\ up \in BOOLEAN /\ done \subseteq Cmd /\ urcs \in 0 .. MaxUrcs /\ late \subseteq Cmd

Configured == {"ATE0", "CIPMUX", "CSTT", "CIICR"} \subseteq done

(* A boot that reports success has brought up the modem it talks to: the    *)
(* modem has said that it is attached and, when no answer came later than   *)
(* its command, carried out since the last reset each of the commands the   *)
(* sockets rely on: no answer is counted twice or for another command. An   *)
(* answer that is late ends some later command instead, and success then    *)
(* says nothing of the commands from there on; after a timely autobaud the  *)
(* echo is off all the same (modem_autobaud, modem_boot,                    *)
(* modem_pdp_activate).                                                     *)
BootTruth ==
    [][pc # "booted" /\ pc' = "booted" /\ ret' = "0"
         => /\ attached
            /\ late = {} => Configured
            /\ "AT" \notin late => "ATE0" \in done]_vars

(* The boot ends, whatever the modem does not answer: every wait has a      *)
(* timeout and every loop a bound (modem_autobaud, modem_pdp_activate).     *)
BootEnds == <>(pc = "booted")

(* After a resume the modem can be used as after the boot (README.md:36,    *)
(* "Power management support"), if its answers were in time.                *)
ResumeRestores == pc = "booted" /\ ret = "0" /\ pm = "active" /\ late = {} => Configured
=============================================================================
