---------------------------- MODULE ModemCmdProofs ----------------------------
(***************************************************************************)
(* Theorems about ModemCmd, for every set of threads and sockets.          *)
(***************************************************************************)
EXTENDS ModemCmd, SequenceTheorems, TLAPS

AnySocket == CHOOSE s \in Socket : TRUE

LEMMA AnySocketType == AnySocket \in Socket
  BY SocketAssumption DEF AnySocket

LEMMA NoThreadFact == NoThread \notin Thread
  BY ThreadAssumption

-----------------------------------------------------------------------------
(* Type correctness. *)

WakeType == wake \in [Thread -> {"none", "blocked", "taken", "again"}]
SemType  == sem \in [Semaphore -> {0, 1}]

LEMMA GiveType ==
  ASSUME WakeType, SemType, NEW m \in Semaphore, k_sem_give(m)
  PROVE  WakeType' /\ SemType'
  BY DEF WakeType, SemType, k_sem_give, Semaphore

LEMMA ResetType ==
  ASSUME WakeType, SemType, NEW m \in Semaphore, k_sem_reset(m)
  PROVE  WakeType' /\ SemType'
  BY DEF WakeType, SemType, k_sem_reset, Semaphore

LEMMA WriteType ==
  ASSUME TypeOK, NEW t \in Thread, NEW k \in Command \cup {"payload"}, write(t, k)
  PROVE  toModem' \in Seq(Line(Command \cup {"payload"}, Thread))
  <1>1. call[t].s \in Socket
    BY DEF TypeOK
  <1>2. [k |-> k, s |-> call[t].s, by |-> t] \in Line(Command \cup {"payload"}, Thread)
    BY <1>1 DEF Line
  <1> QED BY <1>2 DEF TypeOK, write

LEMMA HeadTailType ==
  ASSUME NEW S, NEW q \in Seq(S), q # <<>>
  PROVE  Head(q) \in S /\ Tail(q) \in Seq(S)
  OBVIOUS

LEMMA AppendType ==
  ASSUME NEW S, NEW q \in Seq(S), NEW e \in S
  PROVE  Append(q, e) \in Seq(S)
  OBVIOUS

LEMMA FunctionIsSeq ==
  ASSUME NEW S, NEW n \in Nat, NEW f \in [1 .. n -> S]
  PROVE  f \in Seq(S)
  BY SeqDef

LEMMA ReplyType ==
  ASSUME TypeOK, toModem # <<>>, NEW ks \in Seq(Answer), Reply(ks)
  PROVE  fromModem' \in Seq(Line(Answer, Thread \cup {NoThread}))
  <1>1. Head(toModem) \in Line(Command \cup {"payload"}, Thread)
    BY HeadTailType DEF TypeOK
  <1> DEFINE r == [i \in DOMAIN ks |-> [k |-> ks[i], s |-> Head(toModem).s, by |-> Head(toModem).by]]
  <1>2. r \in Seq(Line(Answer, Thread \cup {NoThread}))
    <2>1. \A i \in DOMAIN ks : r[i] \in Line(Answer, Thread \cup {NoThread})
      BY <1>1 DEF Line
    <2>2. DOMAIN ks = 1 .. Len(ks) /\ Len(ks) \in Nat
      OBVIOUS
    <2>3. r \in [1 .. Len(ks) -> Line(Answer, Thread \cup {NoThread})]
      BY <2>1, <2>2
    <2> QED BY <2>2, <2>3, FunctionIsSeq
  <1>3. fromModem' = fromModem \o r
    BY DEF Reply
  <1> QED BY <1>2, <1>3 DEF TypeOK

(* One step of a thread. *)
LEMMA StepType ==
  ASSUME TypeOK, NEW t \in Thread, Step(t)
  PROVE  TypeOK'
  <1> USE DEF TypeOK, Goto, Rest, Woken, modemVars, Pc, LockPc, HeldPc, FreePc
  <1>1. CASE k_sem_take(t)
    <2>1. SemAt[pc[t]] \in Semaphore
      BY <1>1 DEF k_sem_take, SemAt, Semaphore
    <2>2. sem' \in [Semaphore -> {0, 1}]
      <3>1. sem' = sem \/ sem' = [sem EXCEPT ![SemAt[pc[t]]] = 0]
        BY <1>1 DEF k_sem_take
      <3> QED BY <2>1, <3>1
    <2>3. wake' \in [Thread -> {"none", "blocked", "taken", "again"}]
      BY <1>1 DEF k_sem_take
    <2> QED BY <1>1, <2>2, <2>3 DEF k_sem_take
  <1>2. CASE timeout(t)
    BY <1>2 DEF timeout
  <1>3. CASE dns_node(t)
    BY <1>3 DEF dns_node, Return_, Return, Error
  <1>4. CASE locked(t)
    BY <1>4 DEF locked
  <1>5. CASE cmd_set(t)
    BY <1>5 DEF cmd_set, TableOf, Function, Table, Error
  <1>6. CASE cmd_wait(t)
    BY <1>6 DEF cmd_wait, Return, Error
  <1>7. CASE cmd_unset(t)
    BY <1>7 DEF cmd_unset, Table
  <1>8. CASE close_done(t)
    BY <1>8 DEF close_done, Return_, Return, Error
  <1>9. CASE conn_set(t)
    BY <1>9 DEF conn_set, Table, Error
  <1>10. CASE conn_timeout(t)
    BY <1>10 DEF conn_timeout, Return_, Return
  <1>11. CASE conn_done(t)
    BY <1>11 DEF conn_done, Return_, Return, Error
  <1>12. CASE send_set(t)
    BY <1>12 DEF send_set, TableOf, Table, Error
  <1>13. CASE send_giveup(t)
    BY <1>13 DEF send_giveup, Failed, Return_, Return, Error
  <1>14. CASE send_prompt(t)
    BY <1>14 DEF send_prompt
  <1>15. CASE send_wait(t)
    BY <1>15 DEF send_wait, Failed, Return, Error
  <1>16. CASE cmd_arm(t)
    <2>1. CmdSem(t) \in Semaphore
      BY DEF CmdSem, Semaphore
    <2>2. wake' \in [Thread -> {"none", "blocked", "taken", "again"}] /\ sem' \in [Semaphore -> {0, 1}]
      BY <1>16, <2>1, ResetType DEF cmd_arm, WakeType, SemType
    <2> QED BY <1>16, <2>2 DEF cmd_arm
  <1>17. CASE conn_arm(t)
    <2>1. "sock_conn" \in Semaphore
      BY DEF CmdSem, Semaphore
    <2>2. wake' \in [Thread -> {"none", "blocked", "taken", "again"}] /\ sem' \in [Semaphore -> {0, 1}]
      BY <1>17, <2>1, ResetType DEF conn_arm, WakeType, SemType
    <2> QED BY <1>17, <2>2 DEF conn_arm
  <1>18. CASE send_arm(t)
    <2>1. "tx_ready" \in Semaphore
      BY DEF CmdSem, Semaphore
    <2>2. wake' \in [Thread -> {"none", "blocked", "taken", "again"}] /\ sem' \in [Semaphore -> {0, 1}]
      BY <1>18, <2>1, ResetType DEF send_arm, WakeType, SemType
    <2> QED BY <1>18, <2>2 DEF send_arm
  <1>19. CASE send_rearm(t)
    <2>1. "response" \in Semaphore
      BY DEF CmdSem, Semaphore
    <2>2. wake' \in [Thread -> {"none", "blocked", "taken", "again"}] /\ sem' \in [Semaphore -> {0, 1}]
      BY <1>19, <2>1, ResetType DEF send_rearm, WakeType, SemType
    <2> QED BY <1>19, <2>2 DEF send_rearm
  <1>20. CASE cmd_unlock(t)
    <2>1. wake' \in [Thread -> {"none", "blocked", "taken", "again"}] /\ sem' \in [Semaphore -> {0, 1}]
      BY <1>20, GiveType DEF cmd_unlock, WakeType, SemType, Semaphore
    <2> QED BY <1>20, <2>1 DEF cmd_unlock, AfterCmd
  <1>21. CASE cmd_write(t)
    <2>1. CommandOf[call[t].f] \in Command \cup {"payload"}
      BY DEF CommandOf, Command, Function
    <2>2. toModem' \in Seq(Line(Command \cup {"payload"}, Thread))
      BY <1>21, <2>1, WriteType DEF cmd_write
    <2> QED BY <1>21, <2>2 DEF cmd_write, CmdWait, Table, Error
  <1>22. CASE send_cmd(t)
    <2>1. "CIPSEND" \in Command \cup {"payload"}
      BY DEF CommandOf, Command, Function
    <2>2. toModem' \in Seq(Line(Command \cup {"payload"}, Thread))
      BY <1>22, <2>1, WriteType DEF send_cmd
    <2> QED BY <1>22, <2>2 DEF send_cmd, CmdWait, Table, Error
  <1>23. CASE send_data(t)
    <2>1. "payload" \in Command \cup {"payload"}
      BY DEF CommandOf, Command, Function
    <2>2. toModem' \in Seq(Line(Command \cup {"payload"}, Thread))
      BY <1>23, <2>1, WriteType DEF send_data
    <2> QED BY <1>23, <2>2 DEF send_data, CmdWait, Table, Error
  <1>24. CASE msg_next(t)
    <2>1. call[t].left > 0 => call[t].left - 1 \in Nat
      <3>1. call[t].left \in Nat
        OBVIOUS
      <3> QED BY ONLY <3>1
    <2>2. UNCHANGED call \/ (call[t].left > 0 /\ call' = [call EXCEPT ![t].left = @ - 1, ![t].begun = TRUE])
      BY <1>24 DEF msg_next
    <2>3. call' \in [Thread -> [f : Function, s : Socket, left : Nat, begun : BOOLEAN]]
      <3> DEFINE n == call[t].left - 1
      <3>1. call \in [Thread -> [f : Function, s : Socket, left : Nat, begun : BOOLEAN]]
        OBVIOUS
      <3>2. UNCHANGED call \/ (n \in Nat /\ call' = [call EXCEPT ![t].left = n, ![t].begun = TRUE])
        BY <2>1, <2>2
      <3> QED BY ONLY <3>1, <3>2
    <2> QED BY <1>24, <2>3 DEF msg_next, Enter, Return_, Return, Error
  <1> QED BY <1>1, <1>2, <1>3, <1>4, <1>5, <1>6, <1>7, <1>8, <1>9, <1>10, <1>11, <1>12, <1>13, <1>14, <1>15, <1>16, <1>17, <1>18, <1>19, <1>20, <1>21, <1>22, <1>23, <1>24 DEF Step

(* Calls, lines and the modem. *)
LEMMA BeginType ==
  ASSUME TypeOK, NEW t \in Thread, NEW f \in Function, NEW s \in Socket, NEW n \in Nat \ {0},
         Begin(t, f, s, n)
  PROVE  call' \in [Thread -> [f : Function, s : Socket, left : Nat, begun : BOOLEAN]]
  <1>1. n - 1 \in Nat
    OBVIOUS
  <1> QED BY <1>1 DEF TypeOK, Begin

LEMMA CallType ==
  ASSUME TypeOK, NEW t \in Thread, Call(t)
  PROVE  TypeOK'
  <1> DEFINE Calling == call' \in [Thread -> [f : Function, s : Socket, left : Nat, begun : BOOLEAN]]
  <1>0. 1 \in Nat \ {0} /\ {"connect", "close", "send", "getaddrinfo"} \subseteq Function
    BY DEF Function
  <1> USE DEF Goto, Enter, Return_, modemVars, Pc, LockPc, HeldPc, FreePc, Return, Error
  <1>1. CASE getaddrinfo(t)
    <2>1. Calling
      BY <1>1, <1>0, AnySocketType, BeginType DEF getaddrinfo, AnySocket
    <2> QED BY <1>1, <2>1 DEF TypeOK, getaddrinfo
  <1>2. ASSUME NEW s \in Socket, connect(t, s) PROVE TypeOK'
    <2>1. Calling
      BY <1>2, <1>0, BeginType DEF connect
    <2> QED BY <1>2, <2>1 DEF TypeOK, connect
  <1>3. ASSUME NEW s \in Socket, close(t, s) PROVE TypeOK'
    <2>1. Calling
      BY <1>3, <1>0, BeginType DEF close
    <2> QED BY <1>3, <2>1 DEF TypeOK, close
  <1>4. ASSUME NEW s \in Socket, NEW d \in BOOLEAN, NEW n \in Parts, sendto(t, s, d, n) PROVE TypeOK'
    <2>1. Calling
      BY <1>4, <1>0, BeginType, PartsAssumption DEF sendto
    <2> QED BY <1>4, <2>1 DEF TypeOK, sendto
  <1> QED BY <1>1, <1>2, <1>3, <1>4 DEF Call

LEMMA ReceiveType ==
  ASSUME TypeOK, NEW K, Receive(K)
  PROVE  fromModem' \in Seq(Line(Answer, Thread \cup {NoThread}))
  BY HeadTailType DEF TypeOK, Receive

LEMMA RxType ==
  ASSUME TypeOK, modem_rx
  PROVE  TypeOK'
  <1> DEFINE Sems == /\ wake' \in [Thread -> {"none", "blocked", "taken", "again"}]
                     /\ sem' \in [Semaphore -> {0, 1}]
  <1> USE DEF Error
  <1>1. CASE on_cmd_ok
    <2>1. Sems BY <1>1, GiveType DEF on_cmd_ok, TypeOK, WakeType, SemType, Semaphore
    <2> QED BY <1>1, <2>1, ReceiveType DEF on_cmd_ok, Receive, TypeOK
  <1>2. CASE on_cmd_error
    <2>1. Sems BY <1>2, GiveType DEF on_cmd_error, TypeOK, WakeType, SemType, Semaphore
    <2> QED BY <1>2, <2>1, ReceiveType DEF on_cmd_error, Receive, TypeOK
  <1>3. CASE on_cmd_cipstart
    <2>1. Sems BY <1>3, GiveType DEF on_cmd_cipstart, TypeOK, WakeType, SemType, Semaphore
    <2> QED BY <1>3, <2>1, ReceiveType DEF on_cmd_cipstart, Receive, TypeOK
  <1>4. CASE on_cmd_cipclose
    <2>1. Sems BY <1>4, GiveType DEF on_cmd_cipclose, TypeOK, WakeType, SemType, Semaphore
    <2> QED BY <1>4, <2>1, ReceiveType DEF on_cmd_cipclose, Receive, TypeOK
  <1>5. CASE on_cmd_tx_ready
    <2>1. Sems BY <1>5, GiveType DEF on_cmd_tx_ready, TypeOK, WakeType, SemType, Semaphore
    <2> QED BY <1>5, <2>1, ReceiveType DEF on_cmd_tx_ready, Receive, TypeOK
  <1>6. CASE on_cmd_cipsend_ok
    <2>1. Sems BY <1>6, GiveType DEF on_cmd_cipsend_ok, TypeOK, WakeType, SemType, Semaphore
    <2> QED BY <1>6, <2>1, ReceiveType DEF on_cmd_cipsend_ok, Receive, TypeOK
  <1>7. CASE on_cmd_cdnsgip
    <2>1. Sems BY <1>7, GiveType DEF on_cmd_cdnsgip, TypeOK, WakeType, SemType, Semaphore
    <2> QED BY <1>7, <2>1, ReceiveType DEF on_cmd_cdnsgip, Receive, TypeOK
  <1>8. CASE unmatched
    BY <1>8, ReceiveType DEF unmatched, Receive, TypeOK
  <1> QED BY <1>1, <1>2, <1>3, <1>4, <1>5, <1>6, <1>7, <1>8 DEF modem_rx

LEMMA ExecuteType ==
  ASSUME TypeOK, NEW k, Execute(k)
  PROVE  /\ toModem # <<>> /\ toModem' \in Seq(Line(Command \cup {"payload"}, Thread))
         /\ Head(toModem).s \in Socket /\ Head(toModem).by \in Thread
  <1>1. toModem \in Seq(Line(Command \cup {"payload"}, Thread)) /\ toModem # <<>>
    BY DEF TypeOK, Execute
  <1>2. Head(toModem) \in Line(Command \cup {"payload"}, Thread)
    BY <1>1, HeadTailType
  <1>3. toModem' \in Seq(Line(Command \cup {"payload"}, Thread))
    BY <1>1, HeadTailType DEF Execute
  <1> QED BY <1>1, <1>2, <1>3 DEF Line

LEMMA OneAnswer ==
  ASSUME NEW k \in Answer
  PROVE  <<k>> \in Seq(Answer)
  OBVIOUS

(* A step that answers the head of toModem with one line, or not at all. *)
LEMMA MaybeReplyType ==
  ASSUME TypeOK, toModem # <<>>, NEW K \in SUBSET Answer,
         (\E k \in K : Reply(<<k>>)) \/ UNCHANGED fromModem
  PROVE  fromModem' \in Seq(Line(Answer, Thread \cup {NoThread}))
  <1>1. CASE UNCHANGED fromModem
    BY <1>1 DEF TypeOK
  <1>2. ASSUME NEW k \in K, Reply(<<k>>) PROVE fromModem' \in Seq(Line(Answer, Thread \cup {NoThread}))
    BY <1>2, OneAnswer, ReplyType
  <1> QED BY <1>1, <1>2

LEMMA ModemType ==
  ASSUME TypeOK, modem
  PROVE  TypeOK'
  <1> DEFINE From == fromModem' \in Seq(Line(Answer, Thread \cup {NoThread}))
  <1>1. CASE modem_cipstart
    <2>1. From
      <3>1. <<"OK">> \in Seq(Answer) /\ <<"ERROR">> \in Seq(Answer) BY DEF Answer
      <3> QED BY <1>1, <3>1, ReplyType, ExecuteType DEF modem_cipstart, TypeOK
    <2> QED BY <1>1, <2>1, ExecuteType DEF modem_cipstart, Execute, hostVars, TypeOK
  <1>2. CASE modem_cipclose
    <2>1. From
      <3>1. {"CLOSE OK", "CLOSE FAIL", "ERROR"} \in SUBSET Answer BY DEF Answer
      <3>2. (\E k \in {"CLOSE OK", "CLOSE FAIL", "ERROR"} : Reply(<<k>>)) \/ UNCHANGED fromModem
        BY <1>2 DEF modem_cipclose
      <3> QED BY <1>2, <3>1, <3>2, MaybeReplyType, ExecuteType DEF modem_cipclose
    <2> QED BY <1>2, <2>1, ExecuteType DEF modem_cipclose, Execute, hostVars, TypeOK
  <1>3. CASE modem_cipsend
    <2>1. From
      <3>1. {">", "ERROR"} \in SUBSET Answer BY DEF Answer
      <3>2. (\E k \in {">", "ERROR"} : Reply(<<k>>)) \/ UNCHANGED fromModem
        BY <1>3 DEF modem_cipsend
      <3> QED BY <1>3, <3>1, <3>2, MaybeReplyType, ExecuteType DEF modem_cipsend
    <2> QED BY <1>3, <2>1, ExecuteType DEF modem_cipsend, Execute, hostVars, TypeOK
  <1>4. CASE modem_cdnsgip
    <2>1. From
      <3>1. <<"ERROR">> \in Seq(Answer) /\ \A k \in {"DNS 1", "DNS 0"} : <<"OK", k>> \in Seq(Answer)
        BY DEF Answer
      <3> QED BY <1>4, <3>1, ReplyType, ExecuteType DEF modem_cdnsgip, TypeOK
    <2> QED BY <1>4, <2>1, ExecuteType DEF modem_cdnsgip, Execute, hostVars, TypeOK
  <1>5. CASE modem_payload
    <2>1. From
      <3>1. {"SEND OK", "SEND FAIL", "ERROR"} \in SUBSET Answer BY DEF Answer
      <3>2. (\E k \in {"SEND OK", "SEND FAIL", "ERROR"} : Reply(<<k>>)) \/ UNCHANGED fromModem
        BY <1>5 DEF modem_payload
      <3> QED BY <1>5, <3>1, <3>2, MaybeReplyType DEF modem_payload
    <2>2. toModem # <<>> /\ toModem \in Seq(Line(Command \cup {"payload"}, Thread))
      BY <1>5 DEF modem_payload, TypeOK
    <2>3. Head(toModem) \in Line(Command \cup {"payload"}, Thread)
      BY <2>2, HeadTailType
    <2>4. toModem' \in Seq(Line(Command \cup {"payload"}, Thread))
      BY <1>5, <2>2, HeadTailType DEF modem_payload
    <2>5. Head(toModem).by \in Thread
      BY <2>3 DEF Line
    <2> QED BY <1>5, <2>1, <2>4, <2>5 DEF modem_payload, hostVars, TypeOK
  <1>6. ASSUME NEW s \in Socket, modem_dialled(s) PROVE TypeOK'
    <2>1. PICK ok \in BOOLEAN :
            fromModem' = Append(fromModem,
              [k |-> IF ok THEN "CONNECT OK" ELSE "CONNECT FAIL", s |-> s, by |-> NoThread])
      BY <1>6 DEF modem_dialled
    <2>3. [k |-> IF ok THEN "CONNECT OK" ELSE "CONNECT FAIL", s |-> s, by |-> NoThread]
             \in Line(Answer, Thread \cup {NoThread})
      BY DEF Line, Answer
    <2>4. fromModem \in Seq(Line(Answer, Thread \cup {NoThread}))
      BY DEF TypeOK
    <2>2. From
      BY ONLY <2>1, <2>3, <2>4, AppendType
    <2> QED BY <1>6, <2>2 DEF modem_dialled, hostVars, TypeOK
  <1>7. ASSUME NEW s \in Socket, modem_lost(s) PROVE TypeOK'
    <2>1. [k |-> "CLOSED", s |-> s, by |-> NoThread] \in Line(Answer, Thread \cup {NoThread})
      BY DEF Line, Answer
    <2>2. From BY <1>7, <2>1 DEF modem_lost, TypeOK
    <2> QED BY <1>7, <2>2 DEF modem_lost, hostVars, TypeOK
  <1> QED BY <1>1, <1>2, <1>3, <1>4, <1>5, <1>6, <1>7 DEF modem

(* Every variable keeps its type, in every behaviour of the driver. *)
THEOREM TypeCorrect == Spec => []TypeOK
  <1>1. Init => TypeOK
    BY AnySocketType DEF Init, TypeOK, AnySocket, Pc, FreePc, Function, Return, Error, Semaphore, Table
  <1>2. TypeOK /\ [Next]_vars => TypeOK'
    <2> SUFFICES ASSUME TypeOK, [Next]_vars PROVE TypeOK'
      OBVIOUS
    <2>1. CASE UNCHANGED vars
      BY <2>1 DEF vars, hostVars, modemVars, TypeOK
    <2> QED BY <2>1, StepType, CallType, RxType, ModemType DEF Next
  <1> QED BY <1>1, <1>2, PTL DEF Spec

-----------------------------------------------------------------------------
(* The inductive invariant of the command channel. *)

(* The lock is taken exactly by its owner or by a send that left with it. *)
OneOwner    == \A t, u \in Thread : Owner(t) /\ Owner(u) => t = u
FreeNoOwner == sem["tx_lock"] = 1 => \A t \in Thread : ~Owner(t)
NoOwner     == sem["tx_lock"] = 0 /\ \A t \in Thread : ~Owner(t)
LeftTable   == NoOwner => cmds.tbl \in {"cipsend", "cipstart"}
PromptTable == \A t \in Thread : pc[t] = "send_prompt" => cmds.tbl \in {"cipsend", "cipstart"}
WakeAtTake  == \A t \in Thread : wake[t] # "none" => pc[t] \in DOMAIN SemAt

(* Which call a step belongs to. *)
SendPc == {"send_lock", "send_arm", "send_cmd", "send_set", "send_prompt",
           "send_data", "send_rearm", "send_wait", "msg_next"}
CmdPc  == {"cmd_lock", "cmd_set", "cmd_arm", "cmd_write", "cmd_wait", "dns_wait",
           "dns_node", "conn_arm"}
CallAtPc == \A t \in Thread : /\ pc[t] \in SendPc => call[t].f = "send"
                              /\ pc[t] \in CmdPc  => call[t].f # "send"

ChannelInv == OneOwner /\ FreeNoOwner /\ LeftTable /\ PromptTable /\ WakeAtTake /\ CallAtPc

LEMMA SemAtFacts ==
  /\ DOMAIN SemAt = {"cmd_lock", "send_lock", "cmd_wait", "send_wait", "dns_wait",
                     "conn_wait", "send_prompt"}
  /\ \A l \in DOMAIN SemAt : SemAt[l] = "tx_lock" <=> l \in LockPc
  /\ \A l \in DOMAIN SemAt : SemAt[l] = "tx_ready" <=> l = "send_prompt"
  BY DEF SemAt, LockPc

LEMMA ChannelInit == Init => ChannelInv
  BY SemAtFacts DEF Init, ChannelInv, OneOwner, FreeNoOwner, NoOwner, LeftTable, PromptTable,
     WakeAtTake, CallAtPc, Owner, HeldPc, LockPc, SendPc, CmdPc, Semaphore

(* Giving or resetting any other semaphore leaves the lock where it is. *)
LEMMA OtherGive ==
  ASSUME TypeOK, WakeAtTake, NEW m \in Semaphore \ {"tx_lock"}, k_sem_give(m)
  PROVE  /\ sem'["tx_lock"] = sem["tx_lock"]
         /\ \A t \in Thread : wake'[t] # wake[t] =>
               /\ pc[t] \in DOMAIN SemAt /\ SemAt[pc[t]] = m
               /\ wake[t] = "blocked" /\ wake'[t] = "taken"
  BY DEF TypeOK, WakeAtTake, k_sem_give, Blocked, Semaphore

LEMMA OtherReset ==
  ASSUME TypeOK, WakeAtTake, NEW m \in Semaphore \ {"tx_lock"}, k_sem_reset(m)
  PROVE  /\ sem'["tx_lock"] = sem["tx_lock"]
         /\ \A t \in Thread : wake'[t] # wake[t] =>
               /\ pc[t] \in DOMAIN SemAt /\ SemAt[pc[t]] = m
               /\ wake[t] = "blocked" /\ wake'[t] = "again"
  BY DEF TypeOK, WakeAtTake, k_sem_reset, Blocked, Semaphore


LEMMA ChannelStep ==
  ASSUME TypeOK, ChannelInv, NEW t \in Thread, Step(t)
  PROVE  ChannelInv'
  <1>0. /\ pc   \in [Thread -> Pc]
        /\ call \in [Thread -> [f : Function, s : Socket, left : Nat, begun : BOOLEAN]]
        /\ wake \in [Thread -> {"none", "blocked", "taken", "again"}]
        /\ sem  \in [Semaphore -> {0, 1}]
    BY DEF TypeOK
  <1> USE <1>0, SemAtFacts DEF Goto, Rest, Woken, modemVars, Semaphore, Owner, LockPc, HeldPc,
          SendPc, CmdPc, ChannelInv, OneOwner, FreeNoOwner, NoOwner, LeftTable, PromptTable,
          WakeAtTake, CallAtPc
  <1>1. CASE k_sem_take(t)
    BY <1>1 DEF k_sem_take
  <1>2. CASE timeout(t)
    BY <1>2 DEF timeout
  <1>3. CASE dns_node(t)
    BY <1>3 DEF dns_node, Return_
  <1>4. CASE locked(t)
    BY <1>4 DEF locked
  <1>5. CASE cmd_set(t)
    BY <1>5 DEF cmd_set, TableOf, Function
  <1>6. CASE cmd_arm(t)
    BY <1>6 DEF cmd_arm, CmdSem, k_sem_reset, Blocked
  <1>7. CASE cmd_write(t)
    BY <1>7 DEF cmd_write, CmdWait
  <1>8. CASE cmd_wait(t)
    BY <1>8 DEF cmd_wait
  <1>9. CASE cmd_unset(t)
    BY <1>9 DEF cmd_unset
  <1>10. CASE cmd_unlock(t)
    <2>1. Owner(t) /\ \A u \in Thread \ {t} : ~Owner(u)
      BY <1>10 DEF cmd_unlock
    <2>2. /\ AfterCmd(t) \in {"idle", "close_done", "conn_set", "msg_next"}
          /\ AfterCmd(t) = "msg_next" => call[t].f = "send"
          /\ pc' = [pc EXCEPT ![t] = AfterCmd(t)] /\ UNCHANGED <<call, cmds>>
      BY <1>10 DEF cmd_unlock, AfterCmd
    <2>3. CASE Blocked("tx_lock") = {}
      <3>1. sem' = [sem EXCEPT !["tx_lock"] = 1] /\ wake' = wake
        BY <1>10, <2>3 DEF cmd_unlock, k_sem_give
      <3> QED BY <2>1, <2>2, <3>1, <1>10 DEF cmd_unlock
    <2>4. CASE Blocked("tx_lock") # {}
      <3>1. PICK u \in Blocked("tx_lock") : wake' = [wake EXCEPT ![u] = "taken"] /\ sem' = sem
        BY <1>10, <2>4 DEF cmd_unlock, k_sem_give
      <3>2. u \in Thread /\ wake[u] = "blocked" /\ pc[u] \in LockPc /\ u # t
        BY <1>10 DEF Blocked, cmd_unlock
      <3> QED BY <2>1, <2>2, <3>1, <3>2, <1>10 DEF cmd_unlock
    <2> QED BY <2>3, <2>4
  <1>11. CASE close_done(t)
    BY <1>11 DEF close_done, Return_
  <1>12. CASE conn_arm(t)
    BY <1>12 DEF conn_arm, k_sem_reset, Blocked
  <1>13. CASE conn_set(t)
    BY <1>13 DEF conn_set
  <1>14. CASE conn_timeout(t)
    BY <1>14 DEF conn_timeout, Return_
  <1>15. CASE conn_done(t)
    BY <1>15 DEF conn_done, Return_
  <1>16. CASE send_arm(t)
    BY <1>16 DEF send_arm, k_sem_reset, Blocked
  <1>17. CASE send_cmd(t)
    BY <1>17 DEF send_cmd
  <1>18. CASE send_set(t)
    BY <1>18 DEF send_set, TableOf
  <1>19. CASE send_giveup(t)
    BY <1>19 DEF send_giveup, Return_
  <1>20. CASE send_prompt(t)
    BY <1>20 DEF send_prompt
  <1>21. CASE send_data(t)
    BY <1>21 DEF send_data
  <1>22. CASE send_rearm(t)
    BY <1>22 DEF send_rearm, k_sem_reset, Blocked
  <1>23. CASE send_wait(t)
    BY <1>23 DEF send_wait
  <1>24. CASE msg_next(t)
    <2>1. \A u \in Thread : call'[u].f = call[u].f
      BY <1>24 DEF msg_next
    <2>2. /\ pc[t] = "msg_next" /\ call[t].f = "send" /\ wake[t] = "none"
          /\ pc' = [pc EXCEPT ![t] = "send_lock"] \/ pc' = [pc EXCEPT ![t] = "idle"]
          /\ UNCHANGED <<wake, sem, cmds>>
      BY <1>24 DEF msg_next, Enter, Return_
    <2> QED BY <2>1, <2>2
  <1> QED BY <1>1, <1>2, <1>3, <1>4, <1>5, <1>6, <1>7, <1>8, <1>9, <1>10, <1>11, <1>12, <1>13, <1>14, <1>15, <1>16, <1>17, <1>18, <1>19, <1>20, <1>21, <1>22, <1>23, <1>24 DEF Step

LEMMA ChannelCall ==
  ASSUME TypeOK, ChannelInv, NEW t \in Thread, Call(t)
  PROVE  ChannelInv'
  <1> DEFINE Moves(f, l) ==
          /\ pc[t] = "idle" /\ pc' = [pc EXCEPT ![t] = l]
          /\ call'[t].f = f /\ \A u \in Thread \ {t} : call'[u] = call[u]
          /\ UNCHANGED <<wake, sem, cmds>>
          /\ f = "send" => l \in {"idle", "send_lock"}
          /\ f # "send" => l \in {"idle", "dns_node", "conn_arm", "cmd_lock"}
             Calling == \E f \in Function, l \in FreePc \cup LockPc : Moves(f, l)
  <1>1. Calling
    <2> USE DEF Begin, Goto, Enter, Return_, FreePc, LockPc, Function, TypeOK
    <2>1. CASE getaddrinfo(t)
      BY <2>1 DEF getaddrinfo
    <2>2. ASSUME NEW s \in Socket, connect(t, s) PROVE Calling
      BY <2>2 DEF connect
    <2>3. ASSUME NEW s \in Socket, close(t, s) PROVE Calling
      BY <2>3 DEF close
    <2>4. ASSUME NEW s \in Socket, NEW d \in BOOLEAN, NEW n \in Parts, sendto(t, s, d, n) PROVE Calling
      BY <2>4 DEF sendto
    <2> QED BY <2>1, <2>2, <2>3, <2>4 DEF Call
  <1>3. PICK f \in Function, l \in FreePc \cup LockPc : Moves(f, l)
    BY <1>1
  <1>2. wake[t] = "none"
    BY <1>3, SemAtFacts DEF ChannelInv, WakeAtTake, TypeOK
  <1> QED BY <1>3, <1>2, SemAtFacts DEF TypeOK, Function, Owner, LockPc, HeldPc, FreePc, SendPc, CmdPc,
       ChannelInv, OneOwner, FreeNoOwner, NoOwner, LeftTable, PromptTable, WakeAtTake, CallAtPc

(* RX gives semaphores, but never the lock, and installs no table. *)
LEMMA RxGives ==
  ASSUME modem_rx, TypeOK, WakeAtTake
  PROVE  /\ UNCHANGED <<pc, call, cmds, toModem, prompted>>
         /\ \/ \E m \in Semaphore \ {"tx_lock"} : k_sem_give(m)
            \/ UNCHANGED <<sem, wake>>
  BY DEF modem_rx, Receive, Semaphore, on_cmd_ok, on_cmd_error, on_cmd_cipstart, on_cmd_cipclose,
     on_cmd_tx_ready, on_cmd_cipsend_ok, on_cmd_cdnsgip, unmatched

LEMMA ChannelRx ==
  ASSUME TypeOK, ChannelInv, modem_rx
  PROVE  ChannelInv'
  <1>1. WakeAtTake /\ UNCHANGED <<pc, call, cmds>>
    BY RxGives DEF ChannelInv
  <1>2. /\ sem'["tx_lock"] = sem["tx_lock"]
        /\ \A t \in Thread : wake'[t] # wake[t] => pc[t] \in DOMAIN SemAt /\ pc[t] \notin LockPc
    BY <1>1, RxGives, OtherGive, SemAtFacts
  <1>3. \A t \in Thread : Owner(t)' <=> Owner(t)
    BY <1>1, <1>2 DEF Owner
  <1> QED BY <1>1, <1>2, <1>3 DEF ChannelInv, OneOwner, FreeNoOwner, NoOwner, LeftTable,
        PromptTable, WakeAtTake, CallAtPc

LEMMA ChannelModem ==
  ASSUME ChannelInv, UNCHANGED hostVars
  PROVE  ChannelInv'
  BY DEF hostVars, Owner, ChannelInv, OneOwner, FreeNoOwner, NoOwner, LeftTable, PromptTable,
     WakeAtTake, CallAtPc

LEMMA ModemKeepsHost ==
  ASSUME modem
  PROVE  UNCHANGED hostVars
  BY DEF modem, Execute, modem_cipstart, modem_cipclose, modem_cipsend, modem_cdnsgip,
     modem_payload, modem_dialled, modem_lost

LEMMA ChannelNext ==
  ASSUME TypeOK, ChannelInv, [Next]_vars
  PROVE  ChannelInv'
  BY ChannelStep, ChannelCall, ChannelRx, ChannelModem, ModemKeepsHost DEF Next, vars

(* One thread at a time has the command channel, for any number of them. *)
THEOREM ChannelExclusive == Spec => []OneChannelUser
  <1>1. Init => ChannelInv
    BY ChannelInit
  <1>2. TypeOK /\ ChannelInv /\ [Next]_vars => ChannelInv'
    BY ChannelNext
  <1>3. TypeOK /\ ChannelInv => OneChannelUser
    BY DEF ChannelInv, OneChannelUser, OneOwner, FreeNoOwner, NoOwner, LeftTable, LockLeaked,
       TypeOK, Semaphore
  <1> QED BY TypeCorrect, <1>1, <1>2, <1>3, PTL DEF Spec

-----------------------------------------------------------------------------
(* Whose frame the installed table is in. *)

FrameOf(f)  == cmds.by \in Thread /\ pc[cmds.by] \in HeldPc /\ call[cmds.by].f = f
DnsFrame    == cmds.tbl = "cdnsgip" => FrameOf("getaddrinfo")
SendFrame   == cmds.tbl = "cipsend" => FrameOf("send") \/ NoOwner
UnlockClean == \A t \in Thread : pc[t] = "cmd_unlock" => cmds.tbl \in {"none", "cipstart"}
FramesInv   == DnsFrame /\ SendFrame /\ UnlockClean

(* Every step but the giving of the lock leaves a lock that was left. *)
LEMMA StaysLeft ==
  ASSUME TypeOK, ChannelInv, NEW t \in Thread, Step(t), NoOwner
  PROVE  NoOwner'
  <1>0. /\ pc   \in [Thread -> Pc]
        /\ wake \in [Thread -> {"none", "blocked", "taken", "again"}]
        /\ sem  \in [Semaphore -> {0, 1}]
    BY DEF TypeOK
  <1>1. ~Owner(t) /\ (pc[t] \in LockPc => wake[t] # "taken") /\ pc[t] \notin HeldPc
    BY DEF NoOwner, Owner
  <1> USE <1>0, <1>1, SemAtFacts DEF Goto, Rest, Woken, modemVars, Semaphore, HeldPc, LockPc,
          ChannelInv, WakeAtTake, NoOwner, Owner
  <1>2. CASE k_sem_take(t)
    BY <1>2 DEF k_sem_take
  <1>3. CASE timeout(t)
    BY <1>3 DEF timeout
  <1>4. CASE dns_node(t)
    BY <1>4 DEF dns_node, Return_
  <1>5. CASE close_done(t)
    BY <1>5 DEF close_done, Return_
  <1>6. CASE conn_arm(t)
    BY <1>6 DEF conn_arm, k_sem_reset, Blocked
  <1>7. CASE conn_set(t)
    BY <1>7 DEF conn_set
  <1>8. CASE conn_timeout(t)
    BY <1>8 DEF conn_timeout, Return_
  <1>9. CASE conn_done(t)
    BY <1>9 DEF conn_done, Return_
  <1>10. CASE msg_next(t)
    BY <1>10 DEF msg_next, Enter, Return_
  <1> QED BY <1>2, <1>3, <1>4, <1>5, <1>6, <1>7, <1>8, <1>9, <1>10 DEF Step, locked, cmd_set, cmd_arm,
        cmd_write, cmd_wait, cmd_unset, cmd_unlock, send_arm, send_cmd, send_set, send_giveup,
        send_prompt, send_data, send_rearm, send_wait

LEMMA FramesStep ==
  ASSUME TypeOK, ChannelInv, FramesInv, NEW t \in Thread, Step(t)
  PROVE  FramesInv'
  <1>0. /\ pc   \in [Thread -> Pc]
        /\ call \in [Thread -> [f : Function, s : Socket, left : Nat, begun : BOOLEAN]]
    BY DEF TypeOK
  <1>a. NoOwner => NoOwner'
    BY StaysLeft
  <1>b. pc[t] \in HeldPc => \A u \in Thread \ {t} : pc[u] \notin HeldPc
    BY DEF ChannelInv, OneOwner, Owner
  <1>c. CallAtPc
    BY DEF ChannelInv
  <1>d. pc[t] \in HeldPc => ~NoOwner
    BY DEF NoOwner, Owner
  <1> USE <1>0, <1>a, <1>b, <1>c, <1>d DEF Goto, Rest, Woken, modemVars, HeldPc, LockPc, CallAtPc, SendPc,
          FramesInv, FrameOf, DnsFrame, SendFrame, UnlockClean
  <1>1. CASE k_sem_take(t)
    BY <1>1 DEF k_sem_take
  <1>2. CASE timeout(t)
    BY <1>2 DEF timeout
  <1>3. CASE dns_node(t)
    BY <1>3 DEF dns_node, Return_
  <1>4. CASE locked(t)
    BY <1>4 DEF locked
  <1>5. CASE cmd_set(t)
    BY <1>5 DEF cmd_set, TableOf, Function, CmdPc
  <1>6. CASE cmd_arm(t)
    BY <1>6 DEF cmd_arm
  <1>7. CASE cmd_write(t)
    BY <1>7 DEF cmd_write, CmdWait
  <1>8. CASE cmd_wait(t)
    BY <1>8 DEF cmd_wait
  <1>9. CASE cmd_unset(t)
    BY <1>9 DEF cmd_unset
  <1>10. CASE cmd_unlock(t)
    BY <1>10 DEF cmd_unlock, AfterCmd
  <1>11. CASE close_done(t)
    BY <1>11 DEF close_done, Return_
  <1>12. CASE conn_arm(t)
    BY <1>12 DEF conn_arm
  <1>13. CASE conn_set(t)
    BY <1>13 DEF conn_set
  <1>14. CASE conn_timeout(t)
    BY <1>14 DEF conn_timeout, Return_
  <1>15. CASE conn_done(t)
    BY <1>15 DEF conn_done, Return_
  <1>16. CASE send_arm(t)
    BY <1>16 DEF send_arm
  <1>17. CASE send_cmd(t)
    BY <1>17 DEF send_cmd
  <1>18. CASE send_set(t)
    BY <1>18 DEF send_set, TableOf
  <1>19. CASE send_giveup(t)
    <2>1. NoOwner'
      BY <1>19, SemAtFacts DEF send_giveup, Return_, ChannelInv, OneOwner, FreeNoOwner, NoOwner, Owner,
         TypeOK, Semaphore
    <2> QED BY <1>19, <2>1 DEF send_giveup, Return_
  <1>20. CASE send_prompt(t)
    BY <1>20 DEF send_prompt
  <1>21. CASE send_data(t)
    BY <1>21 DEF send_data
  <1>22. CASE send_rearm(t)
    BY <1>22 DEF send_rearm
  <1>23. CASE send_wait(t)
    BY <1>23 DEF send_wait
  <1>24. CASE msg_next(t)
    BY <1>24 DEF msg_next, Enter, Return_
  <1> QED BY <1>1, <1>2, <1>3, <1>4, <1>5, <1>6, <1>7, <1>8, <1>9, <1>10, <1>11, <1>12, <1>13, <1>14, <1>15, <1>16, <1>17, <1>18, <1>19, <1>20, <1>21, <1>22, <1>23, <1>24 DEF Step

LEMMA FramesRest ==
  ASSUME TypeOK, ChannelInv, FramesInv,
         (\E t \in Thread : Call(t)) \/ modem_rx \/ UNCHANGED hostVars
  PROVE  FramesInv'
  <1>1. ASSUME NEW t \in Thread, Call(t) PROVE FramesInv'
    <2>1. PICK l \in FreePc \cup LockPc :
             /\ pc[t] = "idle" /\ pc' = [pc EXCEPT ![t] = l]
             /\ \A u \in Thread \ {t} : call'[u] = call[u]
             /\ UNCHANGED <<wake, sem, cmds>>
      BY <1>1 DEF Call, getaddrinfo, connect, close, sendto, Begin, Enter, Return_, Goto, FreePc, LockPc,
         TypeOK
    <2>2. \A u \in Thread : pc'[u] = IF u = t THEN l ELSE pc[u]
      BY <2>1 DEF TypeOK
    <2>3. wake[t] = "none"
      BY <2>1, SemAtFacts DEF ChannelInv, WakeAtTake, TypeOK
    <2>4. NoOwner => NoOwner'
      BY <2>1, <2>2, <2>3 DEF NoOwner, Owner, HeldPc, FreePc, LockPc
    <2> QED BY <2>1, <2>2, <2>4 DEF FramesInv, FrameOf, DnsFrame, SendFrame, UnlockClean,
          HeldPc, FreePc, LockPc
  <1>2. CASE modem_rx
    <2>1. WakeAtTake /\ UNCHANGED <<pc, call, cmds>>
      BY <1>2, RxGives DEF ChannelInv
    <2>2. NoOwner => NoOwner'
      BY <1>2, <2>1, RxGives, OtherGive, SemAtFacts DEF NoOwner, Owner
    <2> QED BY <2>1, <2>2 DEF FramesInv, FrameOf, DnsFrame, SendFrame, UnlockClean
  <1>3. CASE UNCHANGED hostVars
    BY <1>3 DEF hostVars, FramesInv, FrameOf, DnsFrame, SendFrame, UnlockClean, NoOwner, Owner
  <1> QED BY <1>1, <1>2, <1>3

(* RX never reads a table from the stack of a call that is over, unless a  *)
(* send has left with the lock.                                            *)
THEOREM FramesHold == Spec => []FramesAlive
  <1>1. Init => ChannelInv /\ FramesInv
    BY ChannelInit DEF Init, FramesInv, DnsFrame, SendFrame, UnlockClean
  <1>2. TypeOK /\ ChannelInv /\ FramesInv /\ [Next]_vars => (ChannelInv /\ FramesInv)'
    BY ChannelNext, FramesStep, FramesRest, ModemKeepsHost DEF Next, vars
  <1>3. FramesInv => FramesAlive
    BY DEF FramesInv, FramesAlive, FrameOf, DnsFrame, SendFrame, LockLeaked, NoOwner
  <1> QED BY TypeCorrect, <1>1, <1>2, <1>3, PTL DEF Spec
=============================================================================
