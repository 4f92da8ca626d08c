----------------------------- MODULE ChannelProofs -----------------------------
(***************************************************************************)
(* The driver implements CommandChannel, for every set of threads and      *)
(* sockets: each step maps to a step of the abstract channel or leaves all *)
(* it sees unchanged. The invariants of ModemCmdProofs and FramingProofs   *)
(* say that the abstract guards hold where the driver checks nothing.      *)
(***************************************************************************)
EXTENDS FramingProofs

(* The lock is lost exactly when nobody has it and nobody can take it. *)
LEMMA LostIsNoOwner ==
  ASSUME ChannelInv
  PROVE  LockLeaked <=> NoOwner
  BY DEF ChannelInv, LeftTable, LockLeaked, NoOwner

AsSeen(l) == [by |-> l.by, data |-> l.k = "payload"]

-----------------------------------------------------------------------------
(* The abstract wire. *)

LEMMA ImageFacts ==
  ASSUME NEW q \in Seq(Line(Command \cup {"payload"}, Thread)), NEW m, m = Seen(q)
  PROVE  /\ m \in Seq([by : Thread, data : BOOLEAN]) /\ Len(m) = Len(q) /\ Len(q) \in Nat
         /\ \A i \in 1 .. Len(q) : m[i] = AsSeen(q[i])
         /\ m = <<>> <=> q = <<>>
         /\ q # <<>> => Head(m) = AsSeen(Head(q))
  <1> DEFINE S == Line(Command \cup {"payload"}, Thread)
             T == [by : Thread, data : BOOLEAN]
  <1>1. /\ DOMAIN q = 1 .. Len(q) /\ Len(q) \in Nat
        /\ q = <<>> <=> Len(q) = 0
        /\ \A i \in 1 .. Len(q) : q[i] \in S
    BY SeqFacts
  <1>2. \A i \in 1 .. Len(q) : q[i].by \in Thread
    BY <1>1 DEF Line
  <1>3. m \in [1 .. Len(q) -> T]
    BY <1>1, <1>2 DEF Seen
  <1>4. m \in Seq(T) /\ Len(m) = Len(q)
    <2> DEFINE n == Len(q)
    <2>1. n \in Nat /\ m \in [1 .. n -> T]
      BY <1>1, <1>3
    <2> HIDE DEF n, T
    <2>2. m \in Seq(T)
      BY ONLY <2>1, FunctionIsSeq
    <2>3. Len(m) = n
      BY ONLY <2>1, <2>2
    <2> QED BY <2>2, <2>3 DEF n
  <1>5. \A i \in 1 .. Len(q) : m[i] = AsSeen(q[i])
    BY <1>1 DEF Seen, AsSeen
  <1>6. m = <<>> <=> q = <<>>
    BY <1>1, <1>4, SeqFacts
  <1>7. q # <<>> => Head(m) = m[1] /\ Head(q) = q[1] /\ 1 \in 1 .. Len(q)
    BY <1>1, <1>4, <1>6, TailFacts
  <1> QED BY <1>1, <1>4, <1>5, <1>6, <1>7

LEMMA WireType ==
  ASSUME TypeOK
  PROVE  /\ Wire \in Seq([by : Thread, data : BOOLEAN])
         /\ Len(Wire) = Len(toModem) /\ Len(toModem) \in Nat
         /\ \A i \in 1 .. Len(toModem) : Wire[i] = AsSeen(toModem[i])
         /\ Wire = <<>> <=> toModem = <<>>
         /\ toModem # <<>> => Head(Wire) = AsSeen(Head(toModem))
  <1>1. toModem \in Seq(Line(Command \cup {"payload"}, Thread)) /\ Wire = Seen(toModem)
    BY DEF TypeOK, Wire
  <1> QED BY ONLY <1>1, ImageFacts

LEMMA SameWire ==
  ASSUME UNCHANGED toModem
  PROVE  UNCHANGED Wire
  BY DEF Wire

LEMMA WireAppend ==
  ASSUME TypeOK, TypeOK', NEW t \in Thread, NEW k, write(t, k)
  PROVE  Wire' = Append(Wire, [by |-> t, data |-> k = "payload"])
  <1> DEFINE T == [by : Thread, data : BOOLEAN]
             l == [k |-> k, s |-> call[t].s, by |-> t]
             e == [by |-> t, data |-> k = "payload"]
             n == Len(toModem)
  <1>1. /\ Wire \in Seq(T) /\ Len(Wire) = n /\ n \in Nat
        /\ \A i \in 1 .. n : Wire[i] = AsSeen(toModem[i])
    BY WireType
  <1>2. /\ Wire' \in Seq(T) /\ Len(Wire') = Len(toModem')
        /\ \A i \in 1 .. Len(toModem') : Wire'[i] = AsSeen(toModem'[i])
    <2>1. toModem' \in Seq(Line(Command \cup {"payload"}, Thread)) /\ Wire' = Seen(toModem')
      BY DEF TypeOK, Wire, Seen
    <2> QED BY ONLY <2>1, ImageFacts
  <1>3. /\ Len(toModem') = n + 1
        /\ \A i \in 1 .. n : toModem'[i] = toModem[i]
        /\ toModem'[n + 1] = l
    BY DEF write, TypeOK
  <1>4. e \in T /\ AsSeen(l) = e
    BY DEF AsSeen
  <1>5. /\ Append(Wire, e) \in Seq(T) /\ Len(Append(Wire, e)) = n + 1
        /\ \A i \in 1 .. n : Append(Wire, e)[i] = Wire[i]
        /\ Append(Wire, e)[n + 1] = e
    BY <1>1, <1>4, AppendFacts, AppendType
  <1>6. \A i \in 1 .. n + 1 : Wire'[i] = Append(Wire, e)[i]
    <2> SUFFICES ASSUME NEW i \in 1 .. n + 1 PROVE Wire'[i] = Append(Wire, e)[i]
      OBVIOUS
    <2>1. i \in 1 .. n \/ i = n + 1
      BY <1>1
    <2> HIDE DEF e, l
    <2> QED BY <1>1, <1>2, <1>3, <1>4, <1>5, <2>1
  <1> HIDE DEF e, l
  <1>7. Len(Wire') = Len(Append(Wire, e)) /\ \A i \in 1 .. Len(Wire') : Wire'[i] = Append(Wire, e)[i]
    BY <1>2, <1>3, <1>5, <1>6
  <1> QED BY ONLY <1>2, <1>5, <1>7, SeqEqual DEF e

LEMMA WireTail ==
  ASSUME TypeOK, TypeOK', toModem # <<>>, toModem' = Tail(toModem)
  PROVE  Wire' = Tail(Wire)
  <1> DEFINE T == [by : Thread, data : BOOLEAN]
             n == Len(toModem)
  <1>1. /\ Wire \in Seq(T) /\ Wire # <<>> /\ Len(Wire) = n
        /\ \A i \in 1 .. n : Wire[i] = AsSeen(toModem[i])
    BY WireType
  <1>2. /\ Wire' \in Seq(T) /\ Len(Wire') = Len(toModem')
        /\ \A i \in 1 .. Len(toModem') : Wire'[i] = AsSeen(toModem'[i])
    <2>1. toModem' \in Seq(Line(Command \cup {"payload"}, Thread)) /\ Wire' = Seen(toModem')
      BY DEF TypeOK, Wire, Seen
    <2> QED BY ONLY <2>1, ImageFacts
  <1>3. /\ n \in Nat /\ n >= 1 /\ Len(toModem') = n - 1
        /\ \A i \in 1 .. n - 1 : toModem'[i] = toModem[i + 1]
    BY Wires
  <1>4. /\ Tail(Wire) \in Seq(T) /\ Len(Tail(Wire)) = n - 1
        /\ \A i \in 1 .. n - 1 : Tail(Wire)[i] = Wire[i + 1]
    BY <1>1, TailFacts
  <1>5. \A i \in 1 .. n - 1 : i + 1 \in 1 .. n
    BY <1>3
  <1>6. \A i \in 1 .. n - 1 : Wire'[i] = Tail(Wire)[i]
    BY <1>1, <1>2, <1>3, <1>4, <1>5
  <1> QED BY <1>2, <1>3, <1>4, <1>6, SeqEqual

-----------------------------------------------------------------------------
(* Steps that leave the lock where it is. *)

LockKept == /\ sem'["tx_lock"] = sem["tx_lock"]
            /\ \A u \in Thread : Owner(u)' <=> Owner(u)

LEMMA Kept ==
  ASSUME ChannelInv, ChannelInv', LockKept
  PROVE  Holders' = Holders /\ LockLeaked' = LockLeaked
  <1>1. NoOwner' <=> NoOwner
    BY DEF LockKept, NoOwner
  <1>2. (LockLeaked <=> NoOwner) /\ (LockLeaked' <=> NoOwner')
    BY DEF ChannelInv, LeftTable, LockLeaked, NoOwner
  <1>3. LockLeaked' <=> LockLeaked
    BY <1>1, <1>2
  <1>4. LockLeaked \in BOOLEAN /\ LockLeaked' \in BOOLEAN
    BY DEF LockLeaked
  <1>5. Holders' = Holders
    BY DEF LockKept, Holders
  <1> QED BY <1>3, <1>4, <1>5

(* The one thread that has the channel. *)
LEMMA HolderIs ==
  ASSUME ChannelInv, NEW t \in Thread, Owner(t)
  PROVE  Holders = {t} /\ ~LockLeaked
  BY LostIsNoOwner DEF ChannelInv, OneOwner, Holders, NoOwner

LEMMA TakeLock ==
  ASSUME TypeOK, ChannelInv, ChannelInv', NEW t \in Thread, k_sem_take(t), pc[t] \in LockPc,
         sem["tx_lock"] = 1
  PROVE  Channel!Take(t)
  <1>1. /\ sem' = [sem EXCEPT !["tx_lock"] = 0] /\ wake' = [wake EXCEPT ![t] = "taken"]
        /\ UNCHANGED <<pc, toModem, prompted>>
    BY SemAtFacts DEF k_sem_take, modemVars
  <1>2. \A u \in Thread : ~Owner(u)
    BY DEF ChannelInv, FreeNoOwner
  <1>3. \A u \in Thread : Owner(u)' <=> u = t
    BY <1>1, <1>2 DEF Owner, TypeOK
  <1>4. Holders = {} /\ Holders' = {t}
    BY <1>2, <1>3 DEF Holders
  <1>5. LockLeaked = FALSE /\ LockLeaked' = FALSE
    BY <1>3 DEF LockLeaked
  <1>6. UNCHANGED Wire
    BY <1>1, SameWire
  <1> QED BY <1>1, <1>4, <1>5, <1>6 DEF Channel!Take

LEMMA GiveLock ==
  ASSUME TypeOK, ChannelInv, ChannelInv', NEW t \in Thread, cmd_unlock(t)
  PROVE  Channel!Give(t)
  <1>1. Owner(t) /\ wake[t] = "none" /\ pc[t] = "cmd_unlock"
    BY DEF cmd_unlock, Owner, HeldPc, ChannelInv, WakeAtTake, SemAt, TypeOK
  <1>2. \A u \in Thread \ {t} : ~Owner(u)
    BY <1>1 DEF ChannelInv, OneOwner
  <1>3. /\ pc' = [pc EXCEPT ![t] = AfterCmd(t)] /\ AfterCmd(t) \in FreePc
        /\ UNCHANGED <<toModem, prompted>> /\ k_sem_give("tx_lock")
    BY DEF cmd_unlock, Goto, AfterCmd, FreePc, modemVars
  <1>4. Holders = {t} /\ ~LockLeaked
    BY <1>1, HolderIs
  <1>5. CASE Blocked("tx_lock") = {}
    <2>1. sem'["tx_lock"] = 1 /\ wake' = wake
      BY <1>3, <1>5 DEF k_sem_give, TypeOK, Semaphore
    <2>2. Holders' = {}
      BY <2>1 DEF ChannelInv, FreeNoOwner, Holders
    <2>3. ~LockLeaked'
      BY <2>1 DEF LockLeaked
    <2> QED BY <1>3, <1>4, <2>2, <2>3, SameWire DEF Channel!Give, LockLeaked
  <1>6. CASE Blocked("tx_lock") # {}
    <2>1. PICK u \in Blocked("tx_lock") : wake' = [wake EXCEPT ![u] = "taken"] /\ sem' = sem
      BY <1>3, <1>6 DEF k_sem_give
    <2>2. u \in Thread \ {t} /\ pc[u] \in LockPc
      BY <1>1, <2>1, SemAtFacts DEF Blocked, ChannelInv, WakeAtTake
    <2>3. Owner(u)'
      BY <1>3, <2>1, <2>2 DEF Owner, TypeOK
    <2>4. Holders' = {u}
      BY <2>2, <2>3 DEF ChannelInv, OneOwner, Holders
    <2>5. ~LockLeaked'
      BY <2>2, <2>3 DEF LockLeaked
    <2> QED BY <1>3, <1>4, <2>2, <2>4, <2>5, SameWire DEF Channel!Give, LockLeaked
  <1> QED BY <1>5, <1>6

LEMMA LeaveWithLock ==
  ASSUME TypeOK, ChannelInv, ChannelInv', NEW t \in Thread, send_giveup(t)
  PROVE  Channel!Lose(t)
  <1>1. Owner(t) /\ UNCHANGED <<sem, toModem, prompted>>
    BY DEF send_giveup, Woken, Owner, HeldPc, modemVars
  <1>2. Holders = {t} /\ ~LockLeaked /\ sem["tx_lock"] = 0
    BY <1>1, HolderIs DEF ChannelInv, FreeNoOwner, TypeOK, Semaphore
  <1>3. \A u \in Thread : ~Owner(u)'
    <2>1. \A u \in Thread \ {t} : ~Owner(u)
      BY <1>1 DEF ChannelInv, OneOwner
    <2> QED BY <2>1 DEF send_giveup, Return_, Goto, Rest, Owner, HeldPc, LockPc, TypeOK
  <1>4. Holders' = {} /\ LockLeaked' = TRUE
    BY <1>1, <1>2, <1>3 DEF Holders, LockLeaked, ChannelInv, LeftTable, NoOwner
  <1> QED BY <1>1, <1>2, <1>4, SameWire DEF Channel!Lose

(* The holder writes a command: no prompt of an earlier send is under way, *)
(* or its payload is still ahead of the command.                           *)
LEMMA HolderWrites ==
  ASSUME TypeOK, TypeOK', ChannelInv, ChannelInv', FramingInv, NEW t \in Thread, NEW k \in Command,
         pc[t] \in HeldPc, ~Sending(t), pc[t] # "send_data", write(t, k), LockKept,
         UNCHANGED prompted
  PROVE  Channel!Command(t)
  <1>1. Holders = {t} /\ UNCHANGED <<Holders, LockLeaked>>
    BY HolderIs, Kept DEF Owner
  <1>2. prompted # NoThread => toModem # <<>> /\ toModem[1].k = "payload"
    BY NoPromptUnderWay DEF FramingInv, PayloadNext
  <1>3. prompted # NoThread => Wire # <<>> /\ Head(Wire).data
    <2>1. toModem # <<>> => Head(toModem) = toModem[1]
      BY Wires
    <2> QED BY <1>2, <2>1, WireType DEF AsSeen
  <1>4. Wire' = Append(Wire, [by |-> t, data |-> FALSE])
    <2>1. (k = "payload") = FALSE
      BY DEF Command
    <2> QED BY <2>1, WireAppend
  <1> QED BY <1>1, <1>3, <1>4 DEF Channel!Command

LEMMA PromptedWrites ==
  ASSUME TypeOK, TypeOK', ChannelInv, ChannelInv', FramingInv, NEW t \in Thread, send_data(t)
  PROVE  Channel!Payload(t)
  <1>1. /\ prompted = t /\ toModem = <<>> /\ write(t, "payload") /\ UNCHANGED prompted
    BY DEF send_data, FramingInv, AtThread
  <1>2. LockKept
    BY DEF send_data, Goto, LockKept, Owner, HeldPc, LockPc, TypeOK
  <1>3. Holders = {t} /\ UNCHANGED <<Holders, LockLeaked>>
    BY <1>2, HolderIs, Kept DEF Owner, send_data, HeldPc
  <1>4. Wire = <<>> /\ Wire' = Append(Wire, [by |-> t, data |-> "payload" = "payload"])
    BY <1>1, WireType, WireAppend
  <1>5. Wire' = <<[by |-> t, data |-> TRUE]>>
    <2>1. \A e : Append(<<>>, e) = <<e>>
      OBVIOUS
    <2>2. Wire' = Append(<<>>, [by |-> t, data |-> "payload" = "payload"])
      BY <1>4
    <2>3. Wire' = <<[by |-> t, data |-> "payload" = "payload"]>>
      BY ONLY <2>1, <2>2
    <2> QED BY ONLY <2>3
  <1> QED BY <1>1, <1>3, <1>4, <1>5 DEF Channel!Payload

-----------------------------------------------------------------------------
(* Every step. *)

Unseen == UNCHANGED <<Holders, LockLeaked, Wire, prompted>>

LEMMA QuietStep ==
  ASSUME ChannelInv, ChannelInv', LockKept, UNCHANGED <<toModem, prompted>>
  PROVE  Unseen
  BY Kept, SameWire DEF Unseen

LEMMA AbstractStep ==
  ASSUME TypeOK, TypeOK', ChannelInv, ChannelInv', FramingInv, NEW t \in Thread, Step(t)
  PROVE  Channel!Next \/ Unseen
  <1> DEFINE Quiet_ == LockKept /\ UNCHANGED <<toModem, prompted>>
  <1>0. /\ pc   \in [Thread -> Pc]
        /\ wake \in [Thread -> {"none", "blocked", "taken", "again"}]
        /\ sem  \in [Semaphore -> {0, 1}]
        /\ WakeAtTake
    BY DEF TypeOK, ChannelInv
  <1>a. Quiet_ => Unseen
    BY QuietStep
  <1>b. ASSUME NEW m \in Semaphore \ {"tx_lock"}, k_sem_reset(m), NEW l \in HeldPc \cup FreePc, pc' = [pc EXCEPT ![t] = l],
               pc[t] \in HeldPc <=> l \in HeldPc, pc[t] \notin LockPc
        PROVE  LockKept
    <2>1. /\ sem'["tx_lock"] = sem["tx_lock"]
          /\ \A u \in Thread : wake'[u] # wake[u] => pc[u] \in DOMAIN SemAt /\ pc[u] \notin LockPc
      BY <1>0, <1>b, OtherReset, SemAtFacts
    <2>2. l \notin LockPc
      BY DEF HeldPc, FreePc, LockPc
    <2> QED BY <1>0, <1>b, <2>1, <2>2 DEF LockKept, Owner
  <1> USE <1>0 DEF Goto, Rest, Woken, modemVars
  <1>1. CASE k_sem_take(t)
    <2>1. CASE pc[t] \in LockPc /\ sem["tx_lock"] = 1
      BY <1>1, <2>1, TakeLock DEF Channel!Next
    <2>2. CASE ~(pc[t] \in LockPc /\ sem["tx_lock"] = 1)
      <3>1. Quiet_
        BY <1>1, <2>2, SemAtFacts DEF k_sem_take, LockKept, Owner, LockPc, HeldPc, Semaphore
      <3> QED BY <1>a, <3>1
    <2> QED BY <2>1, <2>2
  <1>2. CASE cmd_unlock(t)
    BY <1>2, GiveLock DEF Channel!Next
  <1>3. CASE send_giveup(t)
    BY <1>3, LeaveWithLock DEF Channel!Next
  <1>4. CASE cmd_write(t)
    <2>1. CommandOf[call[t].f] \in Command /\ pc[t] \in HeldPc /\ ~Sending(t) /\ pc[t] # "send_data"
      BY <1>4 DEF cmd_write, CommandOf, Command, Function, HeldPc, Sending, TypeOK
    <2>2. LockKept
      BY <1>4 DEF cmd_write, CmdWait, LockKept, Owner, HeldPc, LockPc
    <2> QED BY <1>4, <2>1, <2>2, HolderWrites DEF cmd_write, Channel!Next
  <1>5. CASE send_cmd(t)
    <2>1. "CIPSEND" \in Command /\ pc[t] \in HeldPc /\ ~Sending(t) /\ pc[t] # "send_data"
      BY <1>5 DEF send_cmd, Command, HeldPc, Sending
    <2>2. LockKept
      BY <1>5 DEF send_cmd, LockKept, Owner, HeldPc, LockPc
    <2> QED BY <1>5, <2>1, <2>2, HolderWrites DEF send_cmd, Channel!Next
  <1>6. CASE send_data(t)
    BY <1>6, PromptedWrites DEF Channel!Next
  <1>7. CASE cmd_arm(t)
    <2>1. LockKept
      BY <1>7, <1>b DEF cmd_arm, CmdSem, Semaphore, HeldPc, LockPc
    <2> QED BY <1>7, <2>1, <1>a DEF cmd_arm
  <1>8. CASE conn_arm(t)
    <2>1. /\ pc[t] = "conn_arm" /\ pc' = [pc EXCEPT ![t] = "cmd_lock"]
          /\ k_sem_reset("sock_conn") /\ UNCHANGED <<toModem, prompted>>
      BY <1>8 DEF conn_arm
    <2>2. /\ sem'["tx_lock"] = sem["tx_lock"]
          /\ \A u \in Thread : wake'[u] # wake[u] => wake'[u] = "again" /\ wake[u] = "blocked"
      BY <2>1, OtherReset DEF Semaphore
    <2>3. wake[t] = "none"
      BY <2>1, SemAtFacts DEF WakeAtTake
    <2>4. LockKept
      BY <2>1, <2>2, <2>3 DEF LockKept, Owner, HeldPc, LockPc
    <2> QED BY <2>1, <2>4, <1>a
  <1>9. CASE send_arm(t)
    <2>1. LockKept
      BY <1>9, <1>b DEF send_arm, Semaphore, HeldPc, LockPc
    <2> QED BY <1>9, <2>1, <1>a DEF send_arm
  <1>10. CASE send_rearm(t)
    <2>1. LockKept
      BY <1>10, <1>b DEF send_rearm, Semaphore, HeldPc, LockPc
    <2> QED BY <1>10, <2>1, <1>a DEF send_rearm
  <1> USE DEF LockKept, Owner, HeldPc, LockPc
  <1>11. CASE timeout(t)
    BY <1>11, <1>a DEF timeout
  <1>12. CASE dns_node(t)
    BY <1>12, <1>a, SemAtFacts DEF dns_node, Return_, WakeAtTake
  <1>13. CASE locked(t)
    BY <1>13, <1>a DEF locked
  <1>14. CASE cmd_set(t)
    BY <1>14, <1>a DEF cmd_set
  <1>15. CASE cmd_wait(t)
    BY <1>15, <1>a DEF cmd_wait
  <1>16. CASE cmd_unset(t)
    BY <1>16, <1>a DEF cmd_unset
  <1>17. CASE close_done(t)
    BY <1>17, <1>a DEF close_done, Return_
  <1>18. CASE conn_set(t)
    BY <1>18, <1>a DEF conn_set
  <1>19. CASE conn_timeout(t)
    BY <1>19, <1>a DEF conn_timeout, Return_
  <1>20. CASE conn_done(t)
    BY <1>20, <1>a DEF conn_done, Return_
  <1>21. CASE send_set(t)
    BY <1>21, <1>a DEF send_set
  <1>22. CASE send_prompt(t)
    BY <1>22, <1>a DEF send_prompt
  <1>23. CASE send_wait(t)
    BY <1>23, <1>a DEF send_wait
  <1>24. CASE msg_next(t)
    BY <1>24, <1>a, SemAtFacts DEF msg_next, Enter, Return_, WakeAtTake
  <1> QED BY <1>1, <1>2, <1>3, <1>4, <1>5, <1>6, <1>7, <1>8, <1>9, <1>10, <1>11, <1>12, <1>13, <1>14, <1>15, <1>16, <1>17, <1>18, <1>19, <1>20, <1>21, <1>22, <1>23, <1>24 DEF Step

LEMMA AbstractCall ==
  ASSUME TypeOK, ChannelInv, ChannelInv', NEW t \in Thread, Call(t)
  PROVE  Unseen
  <1>1. /\ \E l \in {"idle", "dns_node", "conn_arm", "cmd_lock", "send_lock"} :
               pc' = [pc EXCEPT ![t] = l]
        /\ pc[t] = "idle" /\ UNCHANGED <<wake, sem, toModem, prompted>>
    BY DEF Call, getaddrinfo, connect, close, sendto, Begin, Enter, Return_, Goto, modemVars
  <1>2. wake[t] = "none"
    BY <1>1, SemAtFacts DEF ChannelInv, WakeAtTake, TypeOK
  <1>3. LockKept
    BY <1>1, <1>2 DEF LockKept, Owner, HeldPc, LockPc, TypeOK
  <1> QED BY <1>1, <1>3, QuietStep

LEMMA AbstractRx ==
  ASSUME TypeOK, ChannelInv, ChannelInv', modem_rx
  PROVE  Unseen
  <1>1. UNCHANGED <<pc, toModem, prompted>> /\ WakeAtTake
    BY RxGives DEF ChannelInv
  <1>2. /\ sem'["tx_lock"] = sem["tx_lock"]
        /\ \A u \in Thread : wake'[u] # wake[u] => pc[u] \notin LockPc
    BY <1>1, RxGives, OtherGive, SemAtFacts
  <1>3. LockKept
    BY <1>1, <1>2 DEF LockKept, Owner
  <1> QED BY <1>1, <1>3, QuietStep

LEMMA AbstractModem ==
  ASSUME TypeOK, TypeOK', ChannelInv, ChannelInv', FramingInv, modem
  PROVE  Channel!Next \/ Unseen
  <1>1. LockKept
    BY ModemKeepsHost DEF hostVars, LockKept, Owner
  <1>2. UNCHANGED <<Holders, LockLeaked>>
    BY <1>1, Kept
  <1>3. toModem # <<>> => Head(toModem) = toModem[1] /\ 1 \in DOMAIN toModem
    BY Wires
  <1>4. CASE modem_payload
    <2>1. /\ prompted # NoThread /\ toModem # <<>>
          /\ toModem' = Tail(toModem) /\ prompted' = NoThread
      BY <1>4 DEF modem_payload
    <2>2. Head(toModem).k = "payload" /\ Head(toModem).by = prompted
      BY <1>3, <2>1 DEF FramingInv, PayloadNext, PayloadFirst
    <2>3. Wire # <<>> /\ Head(Wire) = [by |-> prompted, data |-> TRUE] /\ Wire' = Tail(Wire)
      BY <2>1, <2>2, WireType, WireTail DEF AsSeen
    <2> QED BY <1>2, <2>1, <2>3 DEF Channel!Next, Channel!Accept
  <1>5. ASSUME NEW k \in Command, Execute(k), prompted' \in {NoThread, Head(toModem).by}
        PROVE  Channel!Next
    <2>1. prompted = NoThread /\ toModem # <<>> /\ Head(toModem).k = k /\ toModem' = Tail(toModem)
      BY <1>5 DEF Execute
    <2>2. Head(toModem).k # "payload"
      BY <2>1 DEF Command
    <2>3. /\ Wire # <<>> /\ ~Head(Wire).data /\ Head(Wire).by = Head(toModem).by
          /\ Wire' = Tail(Wire)
      BY <2>1, <2>2, WireType, WireTail DEF AsSeen
    <2> QED BY <1>2, <1>5, <2>1, <2>3 DEF Channel!Next, Channel!Execute
  <1>6. CASE \E s \in Socket : modem_dialled(s) \/ modem_lost(s)
    BY <1>1, <1>6, QuietStep DEF modem_dialled, modem_lost
  <1>7. CASE modem_cipstart \/ modem_cipclose \/ modem_cipsend \/ modem_cdnsgip
    <2>1. /\ \E k \in Command : Execute(k)
          /\ prompted' \in {NoThread, Head(toModem).by}
      BY <1>7 DEF modem_cipstart, modem_cipclose, modem_cipsend, modem_cdnsgip, Command, Execute
    <2> QED BY <1>5, <2>1
  <1> QED BY <1>4, <1>6, <1>7 DEF modem

(* The driver, for any threads and sockets, is a CommandChannel: one holder *)
(* at a time writes, and every payload goes to a modem that asked for it    *)
(* (modem_cmd_send, offload_sendto and the modem's prompt).                 *)
THEOREM ChannelImplemented == Spec => ChannelUsed
  <1>1. Init => Channel!Init
    <2> SUFFICES ASSUME Init PROVE Channel!Init
      OBVIOUS
    <2>1. Holders = {}
      BY DEF Init, Holders, Owner, HeldPc, LockPc
    <2>2. LockLeaked = FALSE
      BY DEF Init, LockLeaked
    <2>3. Wire = <<>>
      BY DEF Init, Wire, Seen
    <2> QED BY <2>1, <2>2, <2>3 DEF Init, Channel!Init
  <1>2. Init => ChannelInv /\ FramingInv
    BY ChannelInit, FramingInit
  <1>3. TypeOK /\ ChannelInv /\ FramingInv /\ [Next]_vars => (ChannelInv /\ FramingInv)'
    BY ChannelNext, FramingNext
  <1>4. /\ TypeOK /\ TypeOK' /\ ChannelInv /\ ChannelInv' /\ FramingInv
        /\ [Next]_vars
        => [Channel!Next]_(Channel!channelVars)
    <2> SUFFICES ASSUME TypeOK, TypeOK', ChannelInv, ChannelInv', FramingInv, [Next]_vars
                 PROVE  Channel!Next \/ Unseen
      BY DEF Channel!channelVars, Unseen
    <2>1. CASE UNCHANGED vars
      <3>1. LockKept /\ UNCHANGED <<toModem, prompted>>
        BY <2>1 DEF vars, hostVars, modemVars, LockKept, Owner
      <3> QED BY <3>1, QuietStep
    <2> QED BY <2>1, AbstractStep, AbstractCall, AbstractRx, AbstractModem DEF Next
  <1> QED BY TypeCorrect, <1>1, <1>2, <1>3, <1>4, PTL DEF Spec, ChannelUsed, Channel!Spec
===============================================================================
