---------------------------- MODULE ModemBootProofs ----------------------------
(***************************************************************************)
(* Proofs about ModemBoot, for every limit of its loops and any number of  *)
(* URCs: its type, and that a boot that ends in success has configured the *)
(* modem it talks to, as far as its answers came in time.                  *)
(***************************************************************************)
EXTENDS ModemBoot, TLAPS

LEMMA Limits == /\ BootTries \in Nat /\ RssiCount \in Nat /\ CgattWaits \in Nat /\ MaxUrcs \in Nat
                /\ SetupCmds \in Nat \ {0} /\ MaxAutobaud \in Nat \ {0}
  BY BootAssumption

-----------------------------------------------------------------------------
(* Lines on their way from the modem.                                      *)

Line == Answer \cup Urc

Has(s, K) == \E i \in 1 .. Len(s) : s[i] \in K
OneFinal(s) == \A i, j \in 1 .. Len(s) : s[i] \in Final /\ s[j] \in Final => i = j

LEMMA TailLines ==
  ASSUME NEW s \in Seq(Line), s # <<>>
  PROVE  /\ Tail(s) \in Seq(Line) /\ Head(s) \in Line
         /\ Head(s) \in Final => Has(s, {Head(s)}) /\ Has(s, Final)
         /\ \A K : Has(Tail(s), K) => Has(s, K)
         /\ OneFinal(s) => OneFinal(Tail(s))
         /\ OneFinal(s) /\ Head(s) \in Final => ~Has(Tail(s), Final)
  <1>1. /\ Tail(s) \in Seq(Line) /\ Len(Tail(s)) = Len(s) - 1 /\ Len(s) \in Nat \ {0}
        /\ \A i \in 1 .. Len(s) - 1 : Tail(s)[i] = s[i + 1]
        /\ Head(s) = s[1] /\ s[1] \in Line
    OBVIOUS
  <1>2. ASSUME NEW K, Has(Tail(s), K) PROVE Has(s, K)
    BY <1>1, <1>2 DEF Has
  <1>3. OneFinal(s) => OneFinal(Tail(s))
    <2> SUFFICES ASSUME OneFinal(s), NEW i \in 1 .. Len(s) - 1, NEW j \in 1 .. Len(s) - 1,
                        Tail(s)[i] \in Final, Tail(s)[j] \in Final
                 PROVE  i = j
      BY <1>1 DEF OneFinal
    <2>1. s[i + 1] \in Final /\ s[j + 1] \in Final /\ i + 1 \in 1 .. Len(s) /\ j + 1 \in 1 .. Len(s)
      BY <1>1
    <2> QED BY <2>1 DEF OneFinal
  <1>4. OneFinal(s) /\ Head(s) \in Final => ~Has(Tail(s), Final)
    <2> SUFFICES ASSUME OneFinal(s), s[1] \in Final, NEW i \in 1 .. Len(s) - 1, s[i + 1] \in Final
                 PROVE  FALSE
      BY <1>1 DEF Has
    <2>1. i + 1 \in 1 .. Len(s) /\ 1 \in 1 .. Len(s) /\ i + 1 # 1
      BY <1>1
    <2> QED BY <2>1 DEF OneFinal
  <1>5. Head(s) \in Final => Has(s, {Head(s)}) /\ Has(s, Final)
    BY <1>1 DEF Has
  <1> QED BY <1>1, <1>2, <1>3, <1>4, <1>5

LEMMA MoreLines ==
  ASSUME NEW s \in Seq(Line), NEW t \in Seq(Line)
  PROVE  /\ s \o t \in Seq(Line)
         /\ \A K : Has(s \o t, K) => Has(s, K) \/ Has(t, K)
         /\ ~Has(s, Final) /\ OneFinal(t) => OneFinal(s \o t)
         /\ OneFinal(s) /\ ~Has(t, Final) => OneFinal(s \o t)
  <1> DEFINE m == Len(s)  n == Len(t)
  <1>1. /\ s \o t \in Seq(Line) /\ Len(s \o t) = m + n /\ m \in Nat /\ n \in Nat
        /\ \A i \in 1 .. m + n : (s \o t)[i] = IF i <= m THEN s[i] ELSE t[i - m]
    OBVIOUS
  <1> HIDE DEF m, n
  <1>2. ASSUME NEW i \in 1 .. m + n
        PROVE  \/ i \in 1 .. m /\ (s \o t)[i] = s[i]
               \/ i - m \in 1 .. n /\ (s \o t)[i] = t[i - m]
    BY <1>1
  <1>3. ASSUME NEW K, Has(s \o t, K) PROVE Has(s, K) \/ Has(t, K)
    BY <1>1, <1>2, <1>3 DEF Has, m, n
  <1>4. ASSUME ~Has(s, Final), OneFinal(t) PROVE OneFinal(s \o t)
    <2> SUFFICES ASSUME NEW i \in 1 .. m + n, NEW j \in 1 .. m + n,
                        (s \o t)[i] \in Final, (s \o t)[j] \in Final
                 PROVE  i = j
      BY <1>1 DEF OneFinal
    <2>1. i - m \in 1 .. n /\ t[i - m] \in Final /\ j - m \in 1 .. n /\ t[j - m] \in Final
      BY <1>2, <1>4 DEF Has, m
    <2>2. i - m = j - m
      BY <2>1, <1>4 DEF OneFinal, n
    <2> QED BY <2>2, <1>1
  <1>5. ASSUME OneFinal(s), ~Has(t, Final) PROVE OneFinal(s \o t)
    <2> SUFFICES ASSUME NEW i \in 1 .. m + n, NEW j \in 1 .. m + n,
                        (s \o t)[i] \in Final, (s \o t)[j] \in Final
                 PROVE  i = j
      BY <1>1 DEF OneFinal
    <2>1. i \in 1 .. m /\ s[i] \in Final /\ j \in 1 .. m /\ s[j] \in Final
      BY <1>2, <1>5 DEF Has, n
    <2> QED BY <2>1, <1>5 DEF OneFinal, m
  <1> QED BY <1>1, <1>3, <1>4, <1>5

LEMMA OneLine ==
  ASSUME NEW s \in Seq(Line), NEW l \in Line
  PROVE  /\ Append(s, l) = s \o <<l>> /\ <<l>> \in Seq(Line) /\ OneFinal(<<l>>)
         /\ \A K : Has(<<l>>, K) => l \in K
  BY DEF OneFinal, Has

(* An answer that carries a command out has one final line at most, and it *)
(* is OK; only that of AT+CIFSR has none.                                  *)
LEMMA GoodLines ==
  ASSUME NEW c \in Cmd, NEW ls \in Good(c)
  PROVE  ls \in Seq(Line) /\ OneFinal(ls)
  <1>1. \E a \in Line : ls = <<a>> \/ (ls = <<a, "OK">> /\ a \notin Final)
    <2> DEFINE Info == {"RSSI ok", "RSSI unknown", "CREG? 1", "CGATT 1", "CGATT 0", "text"}
    <2>1. ls = <<"addr">> \/ ls = <<"OK">> \/ \E a \in Info : ls = <<a, "OK">>
      BY Zenon DEF Good, Cmd
    <2>2. Info \subseteq Line /\ "addr" \in Line /\ "OK" \in Line
      BY DEF Line, Answer
    <2>3. Info \cap Final = {}
      BY DEF Final
    <2> QED BY <2>1, <2>2, <2>3, Zenon
  <1>2. PICK a \in Line : ls = <<a>> \/ (ls = <<a, "OK">> /\ a \notin Final)
    BY <1>1
  <1>3. "OK" \in Line
    BY DEF Line, Answer
  <1>4. CASE ls = <<a>>
    BY <1>4 DEF OneFinal
  <1>5. CASE ls = <<a, "OK">> /\ a \notin Final
    BY <1>3, <1>5 DEF OneFinal
  <1> QED BY <1>2, <1>4, <1>5

-----------------------------------------------------------------------------
(* Type correctness. Two loops end by a comparison at their top, so their  *)
(* counters stand one lower inside.                                        *)

LoopBounds == /\ pc # "booted" => boot_tries <= BootTries + 1
              /\ pc = "AT" => counter < MaxAutobaud

PlaceType == pc \in Pc /\ ret \in Return
CountType == /\ boot_tries \in 0 .. BootTries + 2
             /\ counter \in Nat /\ (pc # "booted" => counter <= Limit(pc))
             /\ LoopBounds
FlagType    == {waiting, cpin, attached, powered, up} \subseteq BOOLEAN
StoreType   == /\ sem_response \in {0, 1} /\ boot_sem \in {0, 1} /\ last_error \in {"0", "EIO"}
               /\ rssi \in {"unset", "ok", "unknown"} /\ ip_addr \in {"none", "text", "addr"}
               /\ state \in {"IDLE", "INIT", "READY"} /\ pm \in {"suspended", "active"}
               /\ done \subseteq Cmd /\ urcs \in 0 .. MaxUrcs /\ late \subseteq Cmd
WireType    == toModem \in Seq(Cmd) /\ fromModem \in Seq(Line)

LEMMA TypeParts == TypeOK /\ LoopBounds <=> PlaceType /\ CountType /\ FlagType /\ StoreType /\ WireType
  <1>1. TypeOK /\ LoopBounds <=>
           PlaceType /\ CountType /\ StoreType /\ WireType
           /\ (waiting \in BOOLEAN /\ cpin \in BOOLEAN /\ attached \in BOOLEAN
               /\ powered \in BOOLEAN /\ up \in BOOLEAN)
    BY Zenon DEF TypeOK, PlaceType, CountType, StoreType, WireType, Line
  <1>2. FlagType <=> (waiting \in BOOLEAN /\ cpin \in BOOLEAN /\ attached \in BOOLEAN
                      /\ powered \in BOOLEAN /\ up \in BOOLEAN)
    BY Zenon DEF FlagType
  <1> QED BY <1>1, <1>2, Zenon

LEMMA PdpNext == pdp_cmd => /\ pc \in {"CIPMUX", "CSTT", "CIICR", "CIFSR"}
                            /\ AfterPdp[pc] \in {"CSTT", "CIICR", "CIFSR", "booted"}
  BY DEF pdp_cmd, AfterPdp

LEMMA PdpStep == pdp_cmd => \/ pc = "CIPMUX" /\ AfterPdp[pc] = "CSTT"
                            \/ pc = "CSTT" /\ AfterPdp[pc] = "CIICR"
                            \/ pc = "CIICR" /\ AfterPdp[pc] = "CIFSR"
                            \/ pc = "CIFSR" /\ AfterPdp[pc] = "booted"
  BY DEF pdp_cmd, AfterPdp

LEMMA PlaceBoot == PlaceType /\ modem_boot => PlaceType'
  <1> SUFFICES ASSUME PlaceType, modem_boot PROVE PlaceType'
    OBVIOUS
  <1> USE DEF PlaceType, Pc, Cmd, Return, Goto, Fail
  <1>1. CASE modem_reset
    BY <1>1 DEF modem_reset
  <1>2. CASE cmd_send
    BY <1>2 DEF cmd_send
  <1>3. CASE autobaud
    BY <1>3 DEF autobaud
  <1>4. CASE autobaud_echo
    BY <1>4 DEF autobaud_echo
  <1>5. CASE boot_reset
    BY <1>5 DEF boot_reset
  <1>6. CASE boot_wait
    BY <1>6 DEF boot_wait
  <1>7. CASE check_sim
    BY <1>7 DEF check_sim
  <1>8. CASE setup_cmds
    BY <1>8 DEF setup_cmds
  <1>9. CASE wait_rssi
    BY <1>9 DEF wait_rssi
  <1>10. CASE wait_gprs
    BY <1>10 DEF wait_gprs
  <1>11. CASE check_gprs
    BY <1>11 DEF check_gprs
  <1>12. CASE pdp_cmd
    BY <1>12, PdpNext DEF pdp_cmd
  <1> QED BY <1>1, <1>2, <1>3, <1>4, <1>5, <1>6, <1>7, <1>8, <1>9, <1>10, <1>11, <1>12 DEF modem_boot

LEMMA CountBoot == CountType /\ modem_boot => CountType'
  <1> SUFFICES ASSUME CountType, modem_boot PROVE CountType'
    OBVIOUS
  <1> USE Limits DEF CountType, LoopBounds, Limit, Goto, Fail
  <1>1. CASE modem_reset
    <2>1. CASE boot_tries <= BootTries
      BY <1>1, <2>1 DEF modem_reset
    <2>2. CASE ~(boot_tries <= BootTries)
      BY <1>1, <2>2 DEF modem_reset
    <2> QED BY <2>1, <2>2
  <1>2. CASE cmd_send
    BY <1>2 DEF cmd_send
  <1>3. CASE autobaud
    BY <1>3 DEF autobaud
  <1>4. CASE autobaud_echo
    BY <1>4 DEF autobaud_echo
  <1>5. CASE boot_reset
    BY <1>5 DEF boot_reset
  <1>6. CASE boot_wait
    BY <1>6 DEF boot_wait
  <1>7. CASE check_sim
    <2>1. boot_tries' = boot_tries /\ pc = "check_sim"
      BY <1>7 DEF check_sim
    <2>2. (pc' = "setup" /\ counter' = 0) \/ (pc' = "booted" /\ counter' = counter)
      BY <1>7, Zenon DEF check_sim
    <2> QED BY <2>1, <2>2
  <1>8. CASE setup_cmds
    BY <1>8 DEF setup_cmds
  <1>9. CASE wait_rssi
    BY <1>9 DEF wait_rssi
  <1>10. CASE wait_gprs
    BY <1>10 DEF wait_gprs
  <1>11. CASE check_gprs
    BY <1>11 DEF check_gprs
  <1>12. CASE pdp_cmd
    BY <1>12, PdpNext DEF pdp_cmd
  <1> QED BY <1>1, <1>2, <1>3, <1>4, <1>5, <1>6, <1>7, <1>8, <1>9, <1>10, <1>11, <1>12 DEF modem_boot

LEMMA EndedFrame ==
  ASSUME NEW r, Ended(r)
  PROVE  /\ UNCHANGED <<boot_sem, last_error, cpin, attached, rssi, ip_addr, state, powered, pm,
                        toModem, fromModem, up, done, urcs>>
         /\ waiting' = FALSE /\ sem_response' \in {sem_response, 0}
         /\ late' = late \/ late' = late \cup {pc}
  BY DEF Ended, mdata, power, modem

(* What the init thread leaves alone, and what little it does to the rest. *)
LEMMA BootFrame ==
  ASSUME modem_boot
  PROVE  /\ UNCHANGED <<cpin, attached, powered, rssi, ip_addr, pm, fromModem>>
         /\ waiting' = waiting \/ waiting' = TRUE \/ waiting' = FALSE
         /\ up' = up \/ up' = TRUE
         /\ sem_response' \in {sem_response, 0} /\ boot_sem' \in {boot_sem, 0}
         /\ last_error' \in {last_error, "0"} /\ state' \in {state, "READY"}
         /\ done' \in {done, {}} /\ urcs' \in {urcs, MaxUrcs}
         /\ late' = late \/ (pc \in Cmd /\ late' = late \cup {pc})
         /\ toModem' \in {toModem, <<>>} \/ (pc \in Cmd /\ toModem' = Append(toModem, pc))
  <1> USE DEF sems, mdata, power, modem
  <1>1. CASE modem_reset
    BY <1>1 DEF modem_reset, gpio_reset
  <1>2. CASE cmd_send
    BY <1>2 DEF cmd_send
  <1>3. CASE autobaud
    BY <1>3, EndedFrame DEF autobaud, Cmd
  <1>4. CASE autobaud_echo
    BY <1>4, EndedFrame DEF autobaud_echo, Cmd
  <1>5. CASE boot_reset
    BY <1>5 DEF boot_reset
  <1>6. CASE boot_wait
    BY <1>6 DEF boot_wait
  <1>7. CASE check_sim
    BY <1>7 DEF check_sim
  <1>8. CASE setup_cmds
    BY <1>8, EndedFrame DEF setup_cmds, Cmd
  <1>9. CASE wait_rssi
    BY <1>9, EndedFrame DEF wait_rssi, Cmd
  <1>10. CASE wait_gprs
    BY <1>10, EndedFrame DEF wait_gprs, Cmd
  <1>11. CASE check_gprs
    BY <1>11 DEF check_gprs
  <1>12. CASE pdp_cmd
    BY <1>12, PdpNext, EndedFrame DEF pdp_cmd, Cmd
  <1> QED BY <1>1, <1>2, <1>3, <1>4, <1>5, <1>6, <1>7, <1>8, <1>9, <1>10, <1>11, <1>12 DEF modem_boot

LEMMA FlagStep == FlagType /\ [Next]_vars => FlagType'
  <1> SUFFICES ASSUME FlagType, [Next]_vars PROVE FlagType'
    OBVIOUS
  <1> USE Zenon DEF FlagType, boot, mdata, power, modem
  <1>1. CASE modem_boot
    BY <1>1, BootFrame
  <1>2. CASE modem_rx
    BY <1>2 DEF modem_rx, on_response, on_urc_rdy, on_urc_cpin, on_urc_creg,
                on_cmd_cereg, on_cmd_csq, on_cmd_cgatt, on_cmd_cifsr, Receive
  <1>3. CASE modem_power_off \/ modem_power_on
    BY <1>3 DEF modem_power_off, modem_power_on, gpio_reset
  <1>4. CASE modem_answer \/ modem_urc \/ UNCHANGED vars
    BY <1>4 DEF modem_answer, modem_urc, vars
  <1> QED BY <1>1, <1>2, <1>3, <1>4 DEF Next

LEMMA StoreStep == StoreType /\ WireType /\ [Next]_vars => StoreType'
  <1> SUFFICES ASSUME StoreType, WireType, [Next]_vars PROVE StoreType'
    OBVIOUS
  <1> USE Limits DEF StoreType, boot, sems, mdata, power, modem
  <1>1. CASE modem_boot
    BY <1>1, BootFrame
  <1>2. CASE modem_rx
    BY <1>2 DEF modem_rx, on_response, on_urc_rdy, on_urc_cpin, on_urc_creg,
                on_cmd_cereg, on_cmd_csq, on_cmd_cgatt, on_cmd_cifsr, Receive
  <1>3. CASE modem_power_off \/ modem_power_on
    BY <1>3 DEF modem_power_off, modem_power_on, gpio_reset, Pm
  <1>4. CASE modem_answer
    <2>1. Head(toModem) \in Cmd
      BY <1>4 DEF modem_answer, WireType
    <2> QED BY <1>4, <2>1 DEF modem_answer
  <1>5. CASE modem_urc \/ UNCHANGED vars
    BY <1>5 DEF modem_urc, vars
  <1> QED BY <1>1, <1>2, <1>3, <1>4, <1>5 DEF Next

LEMMA WireStep == WireType /\ [Next]_vars => WireType'
  <1> SUFFICES ASSUME WireType, [Next]_vars PROVE WireType'
    OBVIOUS
  <1> USE DEF WireType
  <1>0. <<>> \in Seq(Cmd)
    OBVIOUS
  <1>1. CASE modem_boot
    <2>1. toModem' \in Seq(Cmd)
      <3>1. toModem' = toModem \/ toModem' = <<>> \/ (pc \in Cmd /\ toModem' = Append(toModem, pc))
        BY <1>1, BootFrame
      <3>2. CASE pc \in Cmd /\ toModem' = Append(toModem, pc)
        BY <3>2
      <3> QED BY <3>1, <3>2, <1>0
    <2>2. fromModem' = fromModem
      BY <1>1, BootFrame
    <2> QED BY <2>1, <2>2
  <1>2. CASE modem_rx
    BY <1>2, TailLines DEF modem_rx, on_response, on_urc_rdy, on_urc_cpin, on_urc_creg,
                on_cmd_cereg, on_cmd_csq, on_cmd_cgatt, on_cmd_cifsr, Receive
  <1>3. CASE modem_power_off \/ modem_power_on
    <2>1. (toModem' = toModem \/ toModem' = <<>>) /\ fromModem' = fromModem
      BY <1>3 DEF modem_power_off, modem_power_on, gpio_reset
    <2>2. toModem' \in Seq(Cmd)
      BY <1>0, <2>1
    <2> QED BY <2>1, <2>2
  <1>4. CASE modem_answer
    <2>1. toModem # <<>> /\ toModem' = Tail(toModem)
      BY <1>4 DEF modem_answer
    <2>2. toModem' \in Seq(Cmd) /\ Head(toModem) \in Cmd
      BY <2>1
    <2>3. ASSUME NEW ls \in Good(Head(toModem)), fromModem' = fromModem \o ls PROVE WireType'
      BY <2>2, <2>3, GoodLines, MoreLines
    <2>4. ASSUME fromModem' \in {fromModem, Append(fromModem, "ERROR")} PROVE WireType'
      <3>1. "ERROR" \in Line
        BY DEF Line, Answer
      <3> QED BY <2>2, <2>4, <3>1, OneLine, MoreLines
    <2> QED BY <1>4, <2>3, <2>4 DEF modem_answer
  <1>5. CASE modem_urc
    BY <1>5 DEF modem_urc, Line
  <1>6. CASE UNCHANGED vars
    BY <1>6 DEF vars
  <1> QED BY <1>1, <1>2, <1>3, <1>4, <1>5, <1>6 DEF Next

LEMMA TypeStep == TypeOK /\ LoopBounds /\ [Next]_vars => TypeOK' /\ LoopBounds'
  <1> SUFFICES ASSUME TypeOK, LoopBounds, [Next]_vars PROVE TypeOK' /\ LoopBounds'
    OBVIOUS
  <1>1. PlaceType /\ CountType /\ FlagType /\ StoreType /\ WireType
    BY TypeParts
  <1>2. PlaceType' /\ CountType'
    <2>1. CASE modem_boot
      BY <2>1, <1>1, PlaceBoot, CountBoot
    <2>2. CASE ~modem_boot
      <3>1. UNCHANGED boot
        BY <2>2 DEF Next, modem_power_off, modem_power_on, modem_answer, modem_urc, vars,
                    modem_rx, on_response, on_urc_rdy, on_urc_cpin, on_urc_creg,
                    on_cmd_cereg, on_cmd_csq, on_cmd_cgatt, on_cmd_cifsr, Receive
      <3> QED BY <1>1, <3>1 DEF PlaceType, CountType, LoopBounds, Limit, boot
    <2> QED BY <2>1, <2>2
  <1>3. FlagType' /\ StoreType' /\ WireType'
    BY <1>1, FlagStep, StoreStep, WireStep
  <1>4. (TypeOK /\ LoopBounds <=> PlaceType /\ CountType /\ FlagType /\ StoreType /\ WireType)'
    BY TypeParts, PTL
  <1> QED BY <1>2, <1>3, <1>4

(* Every variable of the boot keeps its type, and no loop runs further than *)
(* its limit (modem_autobaud, modem_pdp_activate).                          *)
THEOREM TypeCorrect == Spec => []TypeOK
  <1>1. Init => TypeOK /\ LoopBounds
    <2> SUFFICES ASSUME Init PROVE TypeOK /\ LoopBounds
      OBVIOUS
    <2>1. PlaceType
      BY DEF Init, PlaceType, Pc, Return
    <2>2. CountType
      BY Limits DEF Init, CountType, LoopBounds, Limit
    <2>3. FlagType
      BY Zenon DEF Init, FlagType
    <2>4. StoreType /\ WireType
      BY Limits DEF Init, StoreType, WireType
    <2> QED BY <2>1, <2>2, <2>3, <2>4, TypeParts
  <1> QED BY <1>1, TypeStep, PTL DEF Spec

-----------------------------------------------------------------------------
(* Success means a configured modem. As long as no answer was late, each   *)
(* command has one answer under way at most, and an OK among what is under *)
(* way, or taken and not yet looked at, means that the command pc was      *)
(* carried out. After AT+CIFSR, which any line completes, none of this     *)
(* holds; but then the boot is over.                                       *)

OneAnswer ==
    /\ waiting => pc \in Cmd
    /\ ~waiting /\ pc # "booted" => toModem = <<>> /\ ~Has(fromModem, Final)
    /\ waiting /\ pc # "CIFSR" =>
          /\ toModem # <<>> => toModem = <<pc>> /\ ~Has(fromModem, Final) /\ sem_response = 0
          /\ OneFinal(fromModem)
          /\ sem_response = 1 => ~Has(fromModem, Final)
          /\ Has(fromModem, {"OK"}) \/ (sem_response = 1 /\ last_error = "0") => pc \in done

(* What the place of the init thread says of the modem ...                 *)
Order ==
    /\ pc \in {"CSTT", "CIICR", "CIFSR"} => "CIPMUX" \in done
    /\ pc \in {"CIICR", "CIFSR"} => "CSTT" \in done
    /\ pc = "CIFSR" => "CIICR" \in done

EchoOff == pc \notin {"reset", "AT", "ATE0", "booted"} => "ATE0" \in done

(* ... and, whenever the answers come, of the attachment and of autobaud.  *)
Place ==
    /\ pc \in {"CIPMUX", "CSTT", "CIICR", "CIFSR"} => attached
    /\ pc \in {"reset", "AT", "ATE0"} => late \subseteq {"AT"}
    /\ boot_tries = 0 => pc = "reset"
    /\ pc = "reset" /\ boot_tries # 0 => ret # "0"

BInv == /\ Place
        /\ late = {} => OneAnswer /\ Order
        /\ "AT" \notin late => EchoOff

Truth == pc # "booted" /\ pc' = "booted" /\ ret' = "0"
           => /\ attached
              /\ late = {} => Configured
              /\ "AT" \notin late => "ATE0" \in done

LEMMA NoLines == OneFinal(<<>>) /\ \A K : ~Has(<<>>, K)
  BY DEF Has, OneFinal

LEMMA Fewer == ASSUME NEW s \in Seq(Line), Has(s, {"OK"}) PROVE Has(s, Final)
  BY DEF Has, Final

(* A command that has ended well was carried out, and one that has ended   *)
(* with no answer to come leaves nothing behind it.                        *)
LEMMA EndedClean ==
  ASSUME TypeOK, OneAnswer, NEW r, Ended(r), pc # "CIFSR"
  PROVE  /\ late' = {} => toModem' = <<>> /\ ~Has(fromModem', Final)
         /\ r = "0" => pc \in done
         /\ UNCHANGED <<attached, done>> /\ waiting' = FALSE
  <1>1. waiting /\ waiting' = FALSE /\ UNCHANGED <<attached, done, toModem, fromModem>>
    BY DEF Ended, mdata, modem
  <1>2. CASE sem_response = 1 /\ r = last_error
    BY <1>1, <1>2 DEF OneAnswer
  <1>3. CASE r = "ETIMEDOUT" /\ late' = IF Expected THEN late \cup {pc} ELSE late
    <2>1. ~Expected => toModem = <<>> /\ ~Has(fromModem, Final)
      BY DEF Expected, Has, TypeOK
    <2> QED BY <1>1, <1>3, <2>1
  <1> QED BY <1>2, <1>3 DEF Ended

LEMMA AnswerBoot ==
  ASSUME TypeOK, OneAnswer, modem_boot, late' = {}
  PROVE  OneAnswer'
  <1> USE DEF Goto, Fail, Cmd, Pc, sems, modem
  <1>1. CASE cmd_send
    <2>0. pc \in Cmd /\ pc # "booted" /\ ~waiting
      BY <1>1 DEF cmd_send
    <2>1. toModem' = <<pc>> /\ pc' = pc /\ sem_response' = 0 /\ fromModem' = fromModem
      <3>1. toModem = <<>>
        BY <2>0 DEF OneAnswer
      <3> QED BY <1>1, <3>1 DEF cmd_send
    <2>2. ~Has(fromModem, Final) /\ ~Has(fromModem, {"OK"}) /\ OneFinal(fromModem)
      BY <2>0, Fewer DEF OneAnswer, TypeOK, Line, Has, OneFinal
    <2> QED BY <1>1, <2>0, <2>1, <2>2 DEF cmd_send, OneAnswer
  <1>2. CASE modem_reset \/ boot_reset \/ boot_wait \/ check_sim \/ check_gprs
    <2>1. pc \notin Cmd /\ pc # "booted"
      BY <1>2 DEF modem_reset, boot_reset, boot_wait, check_sim, check_gprs
    <2>2. ~waiting /\ waiting' = waiting /\ toModem' \in {toModem, <<>>} /\ fromModem' = fromModem
      BY <1>2, <2>1 DEF OneAnswer, modem_reset, gpio_reset, boot_reset, boot_wait, check_sim, check_gprs
    <2> QED BY <2>1, <2>2 DEF OneAnswer
  <1>3. CASE \E r \in Return : Ended(r)
    <2> PICK r \in Return : Ended(r)
      BY <1>3
    <2>1. CASE pc # "CIFSR"
      BY <2>1, EndedClean DEF OneAnswer
    <2>2. CASE pc = "CIFSR"
      <3>1. pdp_cmd /\ pc' = "booted" /\ waiting' = FALSE
        BY <2>2 DEF modem_boot, modem_reset, cmd_send, autobaud, autobaud_echo, boot_reset,
           boot_wait, check_sim, setup_cmds, wait_rssi, wait_gprs, check_gprs, pdp_cmd, Ended, AfterPdp
      <3> QED BY <3>1 DEF OneAnswer
    <2> QED BY <2>1, <2>2
  <1> QED BY <1>1, <1>2, <1>3 DEF modem_boot, autobaud, autobaud_echo, setup_cmds, wait_rssi,
                                  wait_gprs, pdp_cmd

LEMMA AnswerRx ==
  ASSUME TypeOK, OneAnswer, modem_rx
  PROVE  OneAnswer'
  <1>1. PICK K : Receive(K)
    BY DEF modem_rx, on_response, on_urc_rdy, on_urc_cpin, on_urc_creg,
           on_cmd_cereg, on_cmd_csq, on_cmd_cgatt, on_cmd_cifsr
  <1>2. /\ UNCHANGED <<pc, waiting, toModem, done>>
        /\ fromModem' = Tail(fromModem) /\ fromModem # <<>> /\ fromModem \in Seq(Line)
    BY <1>1 DEF Receive, boot, modem, TypeOK, Line
  <1>3. /\ Head(fromModem) \in Final => Has(fromModem, {Head(fromModem)}) /\ Has(fromModem, Final)
        /\ \A L : Has(fromModem', L) => Has(fromModem, L)
        /\ OneFinal(fromModem) => OneFinal(fromModem')
        /\ OneFinal(fromModem) /\ Head(fromModem) \in Final => ~Has(fromModem', Final)
    BY <1>2, TailLines
  <1>4. CASE on_response
    <2>1. /\ Head(fromModem) \in Final /\ sem_response' = 1
          /\ last_error' = "0" => Head(fromModem) = "OK"
      BY <1>4 DEF on_response, Receive, Final
    <2> QED BY <1>2, <1>3, <2>1, Zenon DEF OneAnswer
  <1>5. CASE UNCHANGED <<sem_response, last_error>>
    BY <1>2, <1>3, <1>5, Zenon DEF OneAnswer
  <1>6. CASE waiting /\ pc = "CIFSR"
    BY <1>2, <1>6 DEF OneAnswer
  <1> QED BY <1>4, <1>5, <1>6 DEF modem_rx, on_urc_rdy, on_urc_cpin, on_urc_creg, on_cmd_cereg,
                                  on_cmd_csq, on_cmd_cgatt, on_cmd_cifsr, sems

LEMMA AnswerModem ==
  ASSUME TypeOK, OneAnswer, modem_answer \/ modem_urc
  PROVE  OneAnswer'
  <1>1. UNCHANGED <<pc, waiting, sem_response, last_error>> /\ fromModem \in Seq(Line)
    BY DEF modem_answer, modem_urc, boot, sems, TypeOK, Line
  <1>2. CASE ~waiting /\ pc = "booted"
    BY <1>1, <1>2 DEF OneAnswer
  <1>3. CASE waiting /\ pc = "CIFSR"
    BY <1>1, <1>3 DEF OneAnswer
  <1>4. CASE modem_urc /\ (waiting \/ pc # "booted")
    <2>1. PICK u \in Urc : fromModem' = Append(fromModem, u)
      BY <1>4 DEF modem_urc
    <2>2. u \in Line /\ u \notin Final /\ u # "OK"
      BY DEF Line, Urc, Final
    <2>3. /\ \A K : Has(fromModem', K) => Has(fromModem, K) \/ u \in K
          /\ OneFinal(fromModem) => OneFinal(fromModem')
      BY <1>1, <2>1, <2>2, OneLine, MoreLines
    <2>4. toModem' = toModem /\ done' = done
      BY <1>4 DEF modem_urc
    <2> QED BY <1>1, <2>2, <2>3, <2>4 DEF OneAnswer
  <1>5. CASE modem_answer /\ waiting /\ pc # "CIFSR"
    <2>1. /\ toModem = <<pc>> /\ toModem' = <<>> /\ sem_response = 0 /\ ~Has(fromModem, Final)
          /\ pc \in Cmd
      <3>1. toModem # <<>> /\ toModem' = Tail(toModem)
        BY <1>5 DEF modem_answer
      <3>2. toModem = <<pc>> /\ sem_response = 0 /\ ~Has(fromModem, Final) /\ pc \in Cmd
        BY <1>5, <3>1 DEF OneAnswer
      <3> QED BY <3>1, <3>2
    <2>2. ~Has(fromModem, {"OK"}) /\ OneFinal(fromModem) /\ Head(toModem) = pc
      BY <1>1, <2>1, Fewer, <1>5 DEF OneAnswer
    <2>3. CASE \E ls \in Good(pc) : fromModem' = fromModem \o ls /\ done' = done \cup {pc}
      <3>1. OneFinal(fromModem') /\ pc \in done'
        BY <1>1, <2>1, <2>3, GoodLines, MoreLines
      <3> QED BY <1>1, <1>5, <2>1, <3>1 DEF OneAnswer
    <2>4. CASE fromModem' = Append(fromModem, "ERROR")
      <3>1. "ERROR" \in Line /\ "ERROR" # "OK"
        BY DEF Line, Answer
      <3>2. OneFinal(fromModem') /\ ~Has(fromModem', {"OK"})
        BY <1>1, <2>1, <2>2, <2>4, <3>1, OneLine, MoreLines
      <3> QED BY <1>1, <1>5, <2>1, <3>2 DEF OneAnswer
    <2>5. CASE fromModem' = fromModem
      BY <1>1, <1>5, <2>1, <2>2, <2>5 DEF OneAnswer
    <2> QED BY <1>5, <2>2, <2>3, <2>4, <2>5 DEF modem_answer
  <1>6. CASE modem_answer /\ ~waiting /\ pc # "booted"
    BY <1>6 DEF modem_answer, OneAnswer
  <1>7. waiting => pc # "booted"
    BY DEF OneAnswer, Cmd
  <1> QED BY <1>2, <1>3, <1>4, <1>5, <1>6, <1>7

LEMMA LateGrows == [Next]_vars => late \subseteq late'
  <1>1. CASE modem_boot
    BY <1>1, BootFrame
  <1>2. CASE modem_rx
    BY <1>2 DEF modem_rx, on_response, on_urc_rdy, on_urc_cpin, on_urc_creg, on_cmd_cereg,
                on_cmd_csq, on_cmd_cgatt, on_cmd_cifsr, Receive
  <1> QED BY <1>1, <1>2 DEF Next, modem_power_off, modem_power_on, modem_answer, modem_urc, vars

(* Where the init thread goes, and what it found before it went there.     *)
LEMMA PlaceKept ==
  ASSUME TypeOK, Place, modem_boot
  PROVE  Place' /\ (pc # "booted" /\ pc' = "booted" /\ ret' = "0" => pc = "CIFSR" /\ attached)
  <1> USE DEF Goto, Fail, Place, mdata
  <1>0. boot_tries \in Nat
    BY Limits DEF TypeOK
  <1>1. CASE modem_reset
    <2>1. boot_tries' = boot_tries + 1 /\ pc = "reset" /\ ret' = ret /\ late' = late
      BY <1>1 DEF modem_reset
    <2>2. pc' = "AT" \/ (pc' = "booted" /\ boot_tries # 0)
      <3>1. CASE boot_tries <= BootTries
        BY <1>1, <3>1 DEF modem_reset
      <3>2. CASE ~(boot_tries <= BootTries)
        BY <1>0, <1>1, <3>2, Limits DEF modem_reset
      <3> QED BY <3>1, <3>2
    <2> QED BY <1>0, <2>1, <2>2
  <1>2. CASE cmd_send
    BY <1>2 DEF cmd_send
  <1>3. CASE autobaud
    <2>1. PICK r \in Return : /\ Ended(r) /\ ret' = r
                              /\ pc' = "ATE0" \/ (r # "0" /\ pc' \in {"AT", "reset"})
      BY <1>3 DEF autobaud
    <2>2. pc = "AT" /\ boot_tries' = boot_tries /\ late' \subseteq late \cup {"AT"}
      BY <1>3, BootFrame DEF autobaud, Cmd
    <2> QED BY <1>0, <2>1, <2>2
  <1>4. CASE autobaud_echo
    <2>1. PICK r \in Return : /\ Ended(r)
                              /\ \/ r = "0" /\ pc' = "boot_reset"
                                 \/ r # "0" /\ pc' = "booted" /\ ret' = r
      BY <1>4 DEF autobaud_echo
    <2>2. pc = "ATE0" /\ boot_tries' = boot_tries
      BY <1>4 DEF autobaud_echo
    <2> QED BY <2>1, <2>2
  <1>5. CASE boot_reset
    BY <1>5 DEF boot_reset
  <1>6. CASE boot_wait
    BY <1>6 DEF boot_wait
  <1>7. CASE check_sim
    BY <1>7 DEF check_sim
  <1>8. CASE setup_cmds
    BY <1>8 DEF setup_cmds
  <1>9. CASE wait_rssi
    BY <1>9 DEF wait_rssi
  <1>10. CASE wait_gprs
    BY <1>10 DEF wait_gprs
  <1>11. CASE check_gprs
    BY <1>11 DEF check_gprs
  <1>12. CASE pdp_cmd
    <2>1. PICK r \in Return : Ended(r) /\ IF r = "0" THEN Goto(AfterPdp[pc]) ELSE Fail(r)
      BY <1>12 DEF pdp_cmd
    <2>2. boot_tries' = boot_tries /\ UNCHANGED attached
      BY <1>12 DEF pdp_cmd, Ended
    <2>3. CASE r # "0"
      BY <1>12, <2>1, <2>2, <2>3, PdpNext
    <2>4. CASE r = "0"
      BY <1>12, <2>1, <2>2, <2>4, PdpStep
    <2> QED BY <2>3, <2>4
  <1> QED BY <1>1, <1>2, <1>3, <1>4, <1>5, <1>6, <1>7, <1>8, <1>9, <1>10, <1>11, <1>12 DEF modem_boot

(* With every answer in time so far, a command that ends well was carried  *)
(* out.                                                                    *)
LEMMA OrderBoot ==
  ASSUME TypeOK, OneAnswer, Order, modem_boot
  PROVE  Order' /\ (pc = "ATE0" /\ pc' # "booted" => EchoOff')
  <1> USE DEF Goto, Fail, Order, EchoOff, mdata, modem
  <1>1. CASE modem_reset
    BY <1>1 DEF modem_reset
  <1>2. CASE cmd_send
    BY <1>2 DEF cmd_send
  <1>3. CASE autobaud
    BY <1>3 DEF autobaud
  <1>4. CASE autobaud_echo
    <2>1. PICK r \in Return : Ended(r) /\ (r = "0" \/ (r # "0" /\ pc' = "booted"))
      BY <1>4 DEF autobaud_echo
    <2>2. pc = "ATE0" /\ pc' \in {"boot_reset", "booted"}
      BY <1>4 DEF autobaud_echo
    <2> QED BY <2>1, <2>2, EndedClean
  <1>5. CASE boot_reset
    BY <1>5 DEF boot_reset
  <1>6. CASE boot_wait
    BY <1>6 DEF boot_wait
  <1>7. CASE check_sim
    BY <1>7 DEF check_sim
  <1>8. CASE setup_cmds
    BY <1>8 DEF setup_cmds
  <1>9. CASE wait_rssi
    BY <1>9 DEF wait_rssi
  <1>10. CASE wait_gprs
    BY <1>10 DEF wait_gprs
  <1>11. CASE check_gprs
    BY <1>11 DEF check_gprs
  <1>12. CASE pdp_cmd
    <2>1. PICK r \in Return : Ended(r) /\ IF r = "0" THEN Goto(AfterPdp[pc]) ELSE Fail(r)
      BY <1>12 DEF pdp_cmd
    <2>2. UNCHANGED done /\ pc # "ATE0"
      BY <1>12, PdpNext DEF pdp_cmd, Ended
    <2>3. CASE r # "0"
      BY <2>1, <2>2, <2>3
    <2>4. CASE r = "0"
      <3>1. pc # "CIFSR" => pc \in done
        BY <2>1, <2>4, EndedClean
      <3> QED BY <1>12, <2>1, <2>2, <2>4, <3>1, PdpStep
    <2> QED BY <2>3, <2>4
  <1> QED BY <1>1, <1>2, <1>3, <1>4, <1>5, <1>6, <1>7, <1>8, <1>9, <1>10, <1>11, <1>12 DEF modem_boot

(* Past autobaud the modem is not reset again, so the echo stays off.      *)
LEMMA EchoKept ==
  ASSUME modem_boot, EchoOff, pc # "ATE0"
  PROVE  EchoOff'
  <1> USE DEF Goto, Fail, EchoOff, modem
  <1>1. CASE modem_reset \/ cmd_send \/ boot_reset \/ boot_wait \/ check_sim \/ check_gprs
    BY <1>1 DEF modem_reset, cmd_send, boot_reset, boot_wait, check_sim, check_gprs
  <1>2. CASE autobaud
    BY <1>2 DEF autobaud
  <1>3. CASE setup_cmds \/ wait_rssi \/ wait_gprs \/ pdp_cmd
    <2>1. UNCHANGED done /\ pc \notin {"reset", "AT", "ATE0", "booted"}
      BY <1>3, PdpNext DEF setup_cmds, wait_rssi, wait_gprs, pdp_cmd, Ended
    <2> QED BY <2>1
  <1>4. CASE autobaud_echo
    BY <1>4 DEF autobaud_echo
  <1> QED BY <1>1, <1>2, <1>3, <1>4 DEF modem_boot

LEMMA BootStep ==
  ASSUME TypeOK, BInv, modem_boot
  PROVE  BInv' /\ Truth
  <1>1. Place' /\ (pc # "booted" /\ pc' = "booted" /\ ret' = "0" => pc = "CIFSR" /\ attached)
    BY PlaceKept DEF BInv
  <1>2. late \subseteq late'
    BY LateGrows DEF Next
  <1>3. late' = {} => OneAnswer' /\ Order'
    BY <1>2, AnswerBoot, OrderBoot DEF BInv
  <1>4. ASSUME "AT" \notin late' PROVE EchoOff'
    <2>1. "AT" \notin late /\ EchoOff
      BY <1>2, <1>4 DEF BInv
    <2>2. CASE pc = "ATE0"
      <3>1. late = {}
        BY <2>1, <2>2 DEF BInv, Place
      <3>2. pc' = "booted" => EchoOff'
        BY DEF EchoOff
      <3> QED BY <2>2, <3>1, <3>2, OrderBoot DEF BInv
    <2>3. CASE pc # "ATE0"
      BY <2>1, <2>3, EchoKept
    <2> QED BY <2>2, <2>3
  <1>5. Truth
    BY <1>1 DEF Truth, BInv, Order, EchoOff, Configured
  <1> QED BY <1>1, <1>3, <1>4, <1>5 DEF BInv

LEMMA AnswerStep == TypeOK /\ BInv /\ [Next]_vars => BInv' /\ Truth
  <1> SUFFICES ASSUME TypeOK, BInv, [Next]_vars PROVE BInv' /\ Truth
    OBVIOUS
  <1> USE DEF BInv
  <1>1. CASE modem_boot
    BY <1>1, BootStep
  <1>2. CASE modem_rx
    <2>1. UNCHANGED <<boot, done, late>> /\ (attached' # attached => pc = "CGATT?")
      BY <1>2 DEF modem_rx, on_response, on_urc_rdy, on_urc_cpin, on_urc_creg, on_cmd_cereg, on_cmd_csq,
                  on_cmd_cgatt, on_cmd_cifsr, Receive, boot, modem, mdata
    <2>2. Place' /\ (Order => Order') /\ (EchoOff => EchoOff') /\ Truth
      BY <2>1 DEF Place, Order, EchoOff, Truth, boot
    <2> QED BY <1>2, <2>1, <2>2, AnswerRx
  <1>3. CASE modem_answer \/ modem_urc
    <2>1. UNCHANGED <<boot, attached, late>> /\ done \subseteq done'
      BY <1>3 DEF modem_answer, modem_urc, mdata
    <2>2. Place' /\ (Order => Order') /\ (EchoOff => EchoOff') /\ Truth
      BY <2>1 DEF Place, Order, EchoOff, Truth, boot
    <2> QED BY <1>3, <2>1, <2>2, AnswerModem
  <1>4. CASE modem_power_off \/ modem_power_on
    <2>1. pc = "booted" /\ UNCHANGED <<boot, late>>
      BY <1>4 DEF modem_power_off, modem_power_on, Pm
    <2> QED BY <2>1 DEF OneAnswer, Order, Place, EchoOff, Truth, Cmd, boot
  <1>5. CASE UNCHANGED vars
    BY <1>5 DEF vars, boot, sems, mdata, modem, OneAnswer, Order, Place, EchoOff, Truth, Has, OneFinal
  <1> QED BY <1>1, <1>2, <1>3, <1>4, <1>5 DEF Next

(* A boot that reports success has found the modem attached; if no answer  *)
(* was late it has configured the modem it talks to since the last reset,  *)
(* and after a timely autobaud it has turned the echo off (modem_autobaud, *)
(* modem_boot, modem_pdp_activate).                                        *)
THEOREM BootHolds == Spec => BootTruth
  <1>1. Init => BInv
    BY NoLines DEF Init, BInv, OneAnswer, Order, Place, EchoOff
  <1>2. Truth => [Truth]_vars
    OBVIOUS
  <1> QED BY <1>1, <1>2, AnswerStep, TypeCorrect, PTL DEF Spec, BootTruth, Truth
=============================================================================
