----------------------------- MODULE FramingProofs -----------------------------
(***************************************************************************)
(* The modem never takes a command for a payload or a payload for a        *)
(* command (Framing), for every set of threads and sockets and whatever    *)
(* times out. The argument follows the prompt: from the moment the modem   *)
(* has sent ">" nothing is written to it before the payload, because the   *)
(* thread it prompted has the channel or the lock is lost for good. And    *)
(* when no answer is later than its timeout a command's success is its own *)
(* (AnswerIsOurs).                                                         *)
(***************************************************************************)
EXTENDS ModemCmdProofs

Sending(t) == pc[t] \in {"send_set", "send_prompt"}
Waits(t)   == Sending(t) \/ NoOwner
Woke(t)    == pc[t] = "send_prompt" /\ wake[t] = "taken"

(* A prompt on its way: a ">" in fromModem or a count of sem_tx_ready. *)
Prompts == {i \in DOMAIN fromModem : fromModem[i].k = ">"}
Token   == Prompts # {} \/ sem["tx_ready"] = 1

CipsendLast ==
    \A i \in DOMAIN toModem : toModem[i].k = "CIPSEND" =>
        i = Len(toModem) /\ Waits(toModem[i].by)
PayloadFirst ==
    \A i \in DOMAIN toModem : toModem[i].k = "payload" => i = 1 /\ prompted = toModem[i].by
PayloadNext ==
    prompted # NoThread =>
        IF toModem = <<>> THEN Waits(prompted) \/ pc[prompted] = "send_data"
                          ELSE toModem[1].k = "payload"
TokenKept ==
    Token => /\ prompted # NoThread /\ toModem = <<>> /\ Waits(prompted)
             /\ \A t \in Thread : ~Woke(t)
OneToken  == /\ \A i, j \in Prompts : i = j
             /\ Prompts # {} => sem["tx_ready"] = 0
AtThread  == \A t \in Thread : Woke(t) \/ pc[t] = "send_data" => prompted = t /\ toModem = <<>>

FramingInv == /\ CipsendLast /\ PayloadFirst /\ PayloadNext
              /\ TokenKept /\ OneToken /\ AtThread

-----------------------------------------------------------------------------
(* Sequences. *)

LEMMA AppendFacts ==
  ASSUME NEW S, NEW q \in Seq(S), NEW e \in S
  PROVE  /\ Len(Append(q, e)) = Len(q) + 1 /\ Append(q, e) # <<>>
         /\ DOMAIN Append(q, e) = 1 .. Len(q) + 1
         /\ \A i \in 1 .. Len(q) : Append(q, e)[i] = q[i]
         /\ Append(q, e)[Len(q) + 1] = e
  OBVIOUS

LEMMA TailFacts ==
  ASSUME NEW S, NEW q \in Seq(S), q # <<>>
  PROVE  /\ Len(q) >= 1 /\ Head(q) = q[1] /\ Tail(q) \in Seq(S)
         /\ Len(Tail(q)) = Len(q) - 1 /\ DOMAIN Tail(q) = 1 .. Len(q) - 1
         /\ \A i \in 1 .. Len(q) - 1 : Tail(q)[i] = q[i + 1]
  OBVIOUS

LEMMA SeqFacts ==
  ASSUME NEW S, NEW q \in Seq(S)
  PROVE  /\ DOMAIN q = 1 .. Len(q) /\ Len(q) \in Nat
         /\ q = <<>> <=> Len(q) = 0
         /\ \A i \in 1 .. Len(q) : q[i] \in S
  OBVIOUS

LEMMA ConcatFacts ==
  ASSUME NEW S, NEW q \in Seq(S), NEW r \in Seq(S)
  PROVE  /\ DOMAIN (q \o r) = 1 .. Len(q) + Len(r)
         /\ \A i \in 1 .. Len(q) : (q \o r)[i] = q[i]
         /\ \A i \in 1 .. Len(r) : (q \o r)[Len(q) + i] = r[i]
  OBVIOUS

(* The lines of the two wires, in the form the proofs use. *)
LEMMA Wires ==
  ASSUME TypeOK
  PROVE  /\ DOMAIN toModem = 1 .. Len(toModem) /\ Len(toModem) \in Nat
         /\ toModem = <<>> <=> Len(toModem) = 0
         /\ \A i \in 1 .. Len(toModem) : toModem[i].by \in Thread
         /\ toModem # <<>> => /\ Head(toModem) = toModem[1] /\ Len(toModem) >= 1
                              /\ DOMAIN Tail(toModem) = 1 .. Len(toModem) - 1
                              /\ Len(Tail(toModem)) = Len(toModem) - 1
                              /\ Tail(toModem) = <<>> <=> Len(toModem) = 1
                              /\ \A i \in 1 .. Len(toModem) - 1 : Tail(toModem)[i] = toModem[i + 1]
         /\ DOMAIN fromModem = 1 .. Len(fromModem) /\ Len(fromModem) \in Nat
         /\ fromModem # <<>> => /\ Head(fromModem) = fromModem[1] /\ Len(fromModem) >= 1
                                /\ DOMAIN Tail(fromModem) = 1 .. Len(fromModem) - 1
                                /\ \A i \in 1 .. Len(fromModem) - 1 : Tail(fromModem)[i] = fromModem[i + 1]
  <1> DEFINE S == Line(Command \cup {"payload"}, Thread)
             R == Line(Answer, Thread \cup {NoThread})
  <1>1. toModem \in Seq(S) /\ fromModem \in Seq(R)
    BY DEF TypeOK
  <1>2. \A i \in 1 .. Len(toModem) : toModem[i].by \in Thread
    <2>1. \A i \in 1 .. Len(toModem) : toModem[i] \in S
      BY <1>1, SeqFacts
    <2> QED BY <2>1 DEF Line
  <1>3. toModem # <<>> => /\ Tail(toModem) \in Seq(S) /\ Len(Tail(toModem)) = Len(toModem) - 1
                          /\ Head(toModem) = toModem[1] /\ Len(toModem) >= 1
                          /\ DOMAIN Tail(toModem) = 1 .. Len(toModem) - 1
                          /\ \A i \in 1 .. Len(toModem) - 1 : Tail(toModem)[i] = toModem[i + 1]
    BY <1>1, TailFacts
  <1>4. toModem # <<>> => (Tail(toModem) = <<>> <=> Len(toModem) = 1)
    <2> SUFFICES ASSUME toModem # <<>> PROVE Tail(toModem) = <<>> <=> Len(toModem) = 1
      OBVIOUS
    <2>1. Tail(toModem) \in Seq(S) /\ Len(Tail(toModem)) = Len(toModem) - 1
      BY <1>3
    <2>2. Tail(toModem) = <<>> <=> Len(Tail(toModem)) = 0
      BY ONLY <2>1, SeqFacts
    <2>3. Len(toModem) \in Nat
      BY <1>1, SeqFacts
    <2> QED BY <2>1, <2>2, <2>3
  <1>5. fromModem # <<>> => /\ Head(fromModem) = fromModem[1] /\ Len(fromModem) >= 1
                            /\ DOMAIN Tail(fromModem) = 1 .. Len(fromModem) - 1
                            /\ \A i \in 1 .. Len(fromModem) - 1 : Tail(fromModem)[i] = fromModem[i + 1]
    BY <1>1, TailFacts
  <1>6. /\ DOMAIN toModem = 1 .. Len(toModem) /\ Len(toModem) \in Nat
        /\ toModem = <<>> <=> Len(toModem) = 0
        /\ DOMAIN fromModem = 1 .. Len(fromModem) /\ Len(fromModem) \in Nat
    BY <1>1, SeqFacts
  <1> QED BY <1>2, <1>3, <1>4, <1>5, <1>6

-----------------------------------------------------------------------------
(* Steps of the driver that write nothing and are given no prompt. *)

LEMMA Quiet ==
  ASSUME TypeOK, FramingInv, UNCHANGED <<toModem, prompted>>,
         NoOwner => NoOwner',
         \A u \in Thread : Sending(u) => Waits(u)',
         \A u \in Thread : pc[u] = "send_data" => pc'[u] = "send_data",
         \A u \in Thread : pc'[u] = "send_data" => pc[u] = "send_data",
         \A u \in Thread : Woke(u)' => Woke(u),
         sem'["tx_ready"] = 1 => sem["tx_ready"] = 1,
         sem'["tx_ready"] \in {0, 1},
         Prompts' # {} => Prompts # {},
         \A i, j \in Prompts' : i = j
  PROVE  FramingInv'
  <1>1. \A u \in Thread : Waits(u) => Waits(u)'
    BY DEF Waits
  <1>2. CipsendLast' /\ PayloadFirst'
    BY <1>1, Wires DEF FramingInv, CipsendLast, PayloadFirst
  <1>3. PayloadNext'
    BY <1>1 DEF FramingInv, PayloadNext, TypeOK
  <1>4. TokenKept' /\ OneToken'
    BY <1>1 DEF FramingInv, TokenKept, OneToken, Token, TypeOK, Semaphore
  <1>5. AtThread'
    BY DEF FramingInv, AtThread
  <1> QED BY <1>2, <1>3, <1>4, <1>5 DEF FramingInv

(* What a thread that has the channel knows, outside the wait for a prompt. *)
LEMMA NoPromptUnderWay ==
  ASSUME TypeOK, ChannelInv, FramingInv, NEW t \in Thread,
         pc[t] \in HeldPc, ~Sending(t), pc[t] # "send_data"
  PROVE  /\ \A i \in DOMAIN toModem : toModem[i].k # "CIPSEND"
         /\ prompted # NoThread => toModem # <<>>
         /\ ~Token
         /\ \A u \in Thread : ~Woke(u) /\ pc[u] # "send_data"
  <1>1. ~NoOwner /\ \A u \in Thread \ {t} : ~Owner(u)
    BY DEF ChannelInv, OneOwner, NoOwner, Owner
  <1>2. \A u \in Thread : ~Sending(u) /\ pc[u] # "send_data"
    <2>1. \A u \in Thread : Sending(u) \/ pc[u] = "send_data" => Owner(u)
      BY DEF Sending, Owner, HeldPc
    <2> QED BY <1>1, <2>1
  <1>3. \A u \in Thread : ~Waits(u)
    BY <1>1, <1>2 DEF Waits
  <1>4. \A i \in DOMAIN toModem : toModem[i].k # "CIPSEND"
    BY <1>3, Wires DEF FramingInv, CipsendLast
  <1>5. prompted # NoThread => toModem # <<>>
    BY <1>2, <1>3 DEF FramingInv, PayloadNext, TypeOK
  <1>6. ~Token
    BY <1>5 DEF FramingInv, TokenKept
  <1>7. \A u \in Thread : ~Woke(u)
    BY <1>2 DEF Woke, Sending
  <1> QED BY <1>2, <1>4, <1>5, <1>6, <1>7

(* The owner of the channel writes a command. *)
LEMMA WriteCommand ==
  ASSUME TypeOK, ChannelInv, FramingInv, NEW t \in Thread, NEW k \in Command, NEW l \in Pc,
         pc[t] \in HeldPc, ~Sending(t), pc[t] # "send_data",
         write(t, k), pc' = [pc EXCEPT ![t] = l],
         k = "CIPSEND" => l = "send_set",
         l # "send_data", wake' = wake, wake[t] # "taken",
         UNCHANGED <<sem, fromModem, prompted>>
  PROVE  FramingInv'
  <1> DEFINE e == [k |-> k, s |-> call[t].s, by |-> t]
             S == Line(Command \cup {"payload"}, Thread)
  <1>1. /\ \A i \in DOMAIN toModem : toModem[i].k # "CIPSEND"
        /\ prompted # NoThread => toModem # <<>>
        /\ ~Token
        /\ \A u \in Thread : ~Woke(u) /\ pc[u] # "send_data"
    BY NoPromptUnderWay
  <1>2. e \in S /\ toModem \in Seq(S) /\ toModem' = Append(toModem, e)
    BY DEF Line, TypeOK, write
  <1>3. /\ Len(toModem') = Len(toModem) + 1 /\ toModem' # <<>>
        /\ DOMAIN toModem' = 1 .. Len(toModem) + 1
        /\ \A i \in 1 .. Len(toModem) : toModem'[i] = toModem[i]
        /\ toModem'[Len(toModem) + 1] = e
    BY ONLY <1>2, AppendFacts
  <1>4. CipsendLast'
    <2> SUFFICES ASSUME NEW i \in DOMAIN toModem', toModem'[i].k = "CIPSEND"
                 PROVE  (i = Len(toModem) /\ Waits(toModem[i].by))'
      BY DEF CipsendLast
    <2>1. i = Len(toModem) + 1
      BY <1>1, <1>3, Wires
    <2>2. k = "CIPSEND" /\ toModem'[i].by = t
      BY <1>3, <2>1
    <2>3. pc'[t] = "send_set"
      BY <2>2 DEF TypeOK
    <2> QED BY <1>3, <2>1, <2>2, <2>3 DEF Waits, Sending
  <1>5. PayloadFirst'
    <2> SUFFICES ASSUME NEW i \in DOMAIN toModem', toModem'[i].k = "payload"
                 PROVE  i = 1 /\ prompted' = toModem'[i].by
      BY DEF PayloadFirst
    <2>1. k # "payload"
      BY DEF Command
    <2>2. i \in DOMAIN toModem /\ toModem'[i] = toModem[i]
      BY <1>3, <2>1, Wires
    <2> QED BY <2>2 DEF FramingInv, PayloadFirst
  <1>6. PayloadNext'
    <2> SUFFICES ASSUME prompted # NoThread PROVE toModem'[1].k = "payload"
      BY <1>3 DEF PayloadNext
    <2>1. toModem # <<>> /\ toModem[1].k = "payload"
      BY <1>1 DEF FramingInv, PayloadNext
    <2> QED BY <1>3, <2>1, Wires
  <1>7. ~Token' /\ Prompts' = Prompts /\ sem' = sem
    BY <1>1 DEF Token, Prompts
  <1>8. TokenKept' /\ OneToken'
    BY <1>7 DEF TokenKept, OneToken, FramingInv
  <1>9. AtThread'
    <2>1. \A u \in Thread : pc'[u] = IF u = t THEN l ELSE pc[u]
      BY DEF TypeOK
    <2> QED BY <1>1, <2>1 DEF AtThread, Woke
  <1> QED BY <1>4, <1>5, <1>6, <1>8, <1>9 DEF FramingInv

(* The prompted thread writes its payload. *)
LEMMA WritePayload ==
  ASSUME TypeOK, ChannelInv, FramingInv, NEW t \in Thread, send_data(t)
  PROVE  FramingInv'
  <1> DEFINE e == [k |-> "payload", s |-> call[t].s, by |-> t]
             S == Line(Command \cup {"payload"}, Thread)
  <1>1. prompted = t /\ toModem = <<>>
    BY DEF send_data, FramingInv, AtThread
  <1>2. e \in S /\ toModem \in Seq(S) /\ toModem' = Append(toModem, e)
    BY DEF Line, TypeOK, write, send_data
  <1>3. /\ Len(toModem') = Len(toModem) + 1 /\ toModem' # <<>>
        /\ DOMAIN toModem' = 1 .. Len(toModem) + 1
        /\ toModem'[Len(toModem) + 1] = e
    BY ONLY <1>2, AppendFacts
  <1>4. Len(toModem') = 1 /\ DOMAIN toModem' = {1} /\ toModem'[1] = e /\ toModem' # <<>>
    BY <1>1, <1>3, Wires
  <1>5. CipsendLast' /\ PayloadFirst' /\ PayloadNext'
    BY <1>1, <1>4 DEF CipsendLast, PayloadFirst, PayloadNext, send_data
  <1>6. /\ \A u \in Thread : pc'[u] = IF u = t THEN "send_rearm" ELSE pc[u]
        /\ UNCHANGED <<wake, sem, fromModem>>
    BY DEF send_data, Goto, TypeOK
  <1>7. ~NoOwner /\ \A u \in Thread \ {t} : ~Owner(u)
    BY DEF ChannelInv, OneOwner, NoOwner, Owner, send_data, HeldPc
  <1>8. AtThread'
    BY <1>6, <1>7 DEF AtThread, Woke, Owner, HeldPc
  <1>9. ~Token
    BY <1>1, <1>7 DEF FramingInv, TokenKept, Waits, Sending, send_data
  <1>10. TokenKept' /\ OneToken'
    BY <1>6, <1>9 DEF TokenKept, OneToken, Token, Prompts
  <1> QED BY <1>5, <1>8, <1>10 DEF FramingInv

LEMMA FramingStep ==
  ASSUME TypeOK, ChannelInv, FramingInv, NEW t \in Thread, Step(t)
  PROVE  FramingInv'
  <1>0. /\ pc   \in [Thread -> Pc]
        /\ wake \in [Thread -> {"none", "blocked", "taken", "again"}]
        /\ sem  \in [Semaphore -> {0, 1}]
    BY DEF TypeOK
  <1>a. NoOwner => NoOwner'
    BY StaysLeft
  <1>b. Prompts # {} => \A i, j \in Prompts : i = j
    BY DEF FramingInv, OneToken
  <1> DEFINE Same == /\ UNCHANGED <<toModem, fromModem, prompted>>
                     /\ \A u \in Thread : Sending(u) => Waits(u)'
                     /\ \A u \in Thread : pc'[u] = "send_data" <=> pc[u] = "send_data"
                     /\ \A u \in Thread : Woke(u)' => Woke(u)
                     /\ sem'["tx_ready"] = 1 => sem["tx_ready"] = 1
                     /\ sem'["tx_ready"] \in {0, 1}
  <1>c. ASSUME Same PROVE FramingInv'
    <2>1. Prompts' = Prompts
      BY <1>c DEF Prompts
    <2> HIDE DEF Prompts
    <2> QED BY <1>a, <1>b, <1>c, <2>1, Quiet
  <1> USE <1>0, SemAtFacts DEF Goto, Rest, Woken, modemVars, Semaphore, Sending, Waits, Woke, ChannelInv, WakeAtTake
  <1> HIDE DEF Same
  <1>1. CASE k_sem_take(t)
    <2>1. CASE pc[t] = "send_prompt" /\ sem["tx_ready"] = 1
      <3>1. Token /\ ~NoOwner /\ \A u \in Thread \ {t} : ~Owner(u)
        BY <2>1 DEF Token, OneOwner, NoOwner, Owner, HeldPc
      <3>2. toModem = <<>> /\ prompted \in Thread /\ Waits(prompted) /\ \A u \in Thread : ~Woke(u)
        BY <3>1 DEF FramingInv, TokenKept, TypeOK
      <3>3. prompted = t
        BY <3>1, <3>2 DEF Owner, HeldPc
      <3>4. /\ UNCHANGED <<pc, toModem, fromModem, prompted>>
            /\ sem' = [sem EXCEPT !["tx_ready"] = 0]
            /\ wake' = [wake EXCEPT ![t] = "taken"]
        BY <1>1, <2>1 DEF k_sem_take, SemAt
      <3>5. Prompts' = {} /\ sem'["tx_ready"] = 0
        BY <2>1, <3>4 DEF Prompts, FramingInv, OneToken
      <3>6. TokenKept' /\ OneToken'
        BY <3>5 DEF TokenKept, OneToken, Token
      <3>7. AtThread'
        <4>1. \A u \in Thread : pc[u] = "send_data" => u = t
          BY <3>1 DEF Owner, HeldPc
        <4> QED BY <3>2, <3>3, <3>4, <4>1 DEF AtThread
      <3>8. CipsendLast' /\ PayloadFirst' /\ PayloadNext'
        BY <3>2, <3>3, <3>4, <2>1, Wires DEF FramingInv, CipsendLast, PayloadFirst, PayloadNext
      <3> QED BY <3>6, <3>7, <3>8 DEF FramingInv
    <2>2. CASE ~(pc[t] = "send_prompt" /\ sem["tx_ready"] = 1)
      <3>1. Same
        BY <1>1, <2>2 DEF k_sem_take, Same
      <3> QED BY <3>1, <1>c
    <2> QED BY <2>1, <2>2
  <1>2. CASE timeout(t)
    <2>1. Same
      BY <1>2 DEF timeout, Same
    <2> QED BY <2>1, <1>c
  <1>3. CASE dns_node(t)
    <2>1. Same
      BY <1>3 DEF dns_node, Return_, Same
    <2> QED BY <2>1, <1>c
  <1>4. CASE locked(t)
    <2>1. Same
      BY <1>4 DEF locked, Same
    <2> QED BY <2>1, <1>c
  <1>5. CASE cmd_set(t)
    <2>1. Same
      BY <1>5 DEF cmd_set, Same
    <2> QED BY <2>1, <1>c
  <1>6. CASE cmd_arm(t)
    <2>1. Same
      BY <1>6 DEF cmd_arm, CmdSem, k_sem_reset, Blocked, Same
    <2> QED BY <2>1, <1>c
  <1>7. CASE cmd_write(t)
    <2>1. CommandOf[call[t].f] \in Command /\ CmdWait(t) \in Pc
      BY DEF CommandOf, Command, CmdWait, Pc, HeldPc, Function, TypeOK
    <2>2. CommandOf[call[t].f] = "CIPSEND" => CmdWait(t) = "send_set"
      BY <1>7 DEF cmd_write, CommandOf, CallAtPc, CmdPc, TypeOK, Function
    <2>3. pc[t] \in HeldPc /\ ~Sending(t) /\ pc[t] # "send_data" /\ wake[t] # "taken"
      BY <1>7 DEF cmd_write, HeldPc
    <2>4. /\ write(t, CommandOf[call[t].f]) /\ pc' = [pc EXCEPT ![t] = CmdWait(t)]
          /\ CmdWait(t) # "send_data" /\ wake' = wake /\ UNCHANGED <<sem, fromModem, prompted>>
      BY <1>7 DEF cmd_write, CmdWait
    <2> HIDE DEF write, Sending, ChannelInv
    <2> QED BY <2>1, <2>2, <2>3, <2>4, WriteCommand
  <1>8. CASE cmd_wait(t)
    <2>1. Same
      BY <1>8 DEF cmd_wait, Same
    <2> QED BY <2>1, <1>c
  <1>9. CASE cmd_unset(t)
    <2>1. Same
      BY <1>9 DEF cmd_unset, Same
    <2> QED BY <2>1, <1>c
  <1>10. CASE cmd_unlock(t)
    <2>1. Same
      BY <1>10 DEF cmd_unlock, k_sem_give, Blocked, AfterCmd, LockPc, Same
    <2> QED BY <2>1, <1>c
  <1>11. CASE close_done(t)
    <2>1. Same
      BY <1>11 DEF close_done, Return_, Same
    <2> QED BY <2>1, <1>c
  <1>12. CASE conn_arm(t)
    <2>1. Same
      BY <1>12 DEF conn_arm, k_sem_reset, Blocked, Same
    <2> QED BY <2>1, <1>c
  <1>13. CASE conn_set(t)
    <2>1. Same
      BY <1>13 DEF conn_set, Same
    <2> QED BY <2>1, <1>c
  <1>14. CASE conn_timeout(t)
    <2>1. Same
      BY <1>14 DEF conn_timeout, Return_, Same
    <2> QED BY <2>1, <1>c
  <1>15. CASE conn_done(t)
    <2>1. Same
      BY <1>15 DEF conn_done, Return_, Same
    <2> QED BY <2>1, <1>c
  <1>16. CASE send_arm(t)
    <2>1. Same
      BY <1>16 DEF send_arm, k_sem_reset, Blocked, Same
    <2> QED BY <2>1, <1>c
  <1>17. CASE send_cmd(t)
    <2>1. "CIPSEND" \in Command /\ "send_set" \in Pc
      BY DEF CommandOf, Command, CmdWait, Pc, HeldPc, Function, TypeOK
    <2>2. "CIPSEND" = "CIPSEND" => "send_set" = "send_set"
      BY <1>17 DEF send_cmd, CommandOf, CallAtPc, CmdPc, TypeOK, Function
    <2>3. pc[t] \in HeldPc /\ ~Sending(t) /\ pc[t] # "send_data" /\ wake[t] # "taken"
      BY <1>17 DEF send_cmd, HeldPc
    <2>4. /\ write(t, "CIPSEND") /\ pc' = [pc EXCEPT ![t] = "send_set"]
          /\ "send_set" # "send_data" /\ wake' = wake /\ UNCHANGED <<sem, fromModem, prompted>>
      BY <1>17 DEF send_cmd, CmdWait
    <2> HIDE DEF write, Sending, ChannelInv
    <2> QED BY <2>1, <2>2, <2>3, <2>4, WriteCommand
  <1>18. CASE send_set(t)
    <2>1. Same
      BY <1>18 DEF send_set, Same
    <2> QED BY <2>1, <1>c
  <1>19. CASE send_giveup(t)
    <2>1. NoOwner'
      BY <1>19 DEF send_giveup, Return_, OneOwner, FreeNoOwner, NoOwner, Owner, HeldPc, LockPc
    <2>2. Same
      BY <1>19, <2>1 DEF send_giveup, Return_, Same
    <2> QED BY <2>2, <1>c
  <1>20. CASE send_prompt(t)
    <2>1. /\ pc' = [pc EXCEPT ![t] = "send_data"] /\ wake' = [wake EXCEPT ![t] = "none"]
          /\ UNCHANGED <<sem, toModem, fromModem, prompted>>
      BY <1>20 DEF send_prompt
    <2>2. Woke(t) /\ prompted = t /\ toModem = <<>>
      BY <1>20 DEF send_prompt, FramingInv, AtThread
    <2>3. ~Token /\ ~Token'
      BY <2>1, <2>2 DEF FramingInv, TokenKept, Token, Prompts
    <2>4. AtThread'
      BY <2>1, <2>2 DEF FramingInv, AtThread
    <2>5. CipsendLast' /\ PayloadFirst' /\ PayloadNext'
      BY <2>1, <2>2, Wires DEF CipsendLast, PayloadFirst, PayloadNext
    <2>6. TokenKept' /\ OneToken'
      BY <2>3 DEF TokenKept, OneToken, Token
    <2> QED BY <2>4, <2>5, <2>6 DEF FramingInv
  <1>21. CASE send_data(t)
    BY <1>21, WritePayload
  <1>22. CASE send_rearm(t)
    <2>1. Same
      BY <1>22 DEF send_rearm, k_sem_reset, Blocked, Same
    <2> QED BY <2>1, <1>c
  <1>23. CASE send_wait(t)
    <2>1. Same
      BY <1>23 DEF send_wait, Same
    <2> QED BY <2>1, <1>c
  <1>24. CASE msg_next(t)
    <2>1. Same
      BY <1>24 DEF msg_next, Enter, Return_, Same
    <2> QED BY <2>1, <1>c
  <1> QED BY <1>1, <1>2, <1>3, <1>4, <1>5, <1>6, <1>7, <1>8, <1>9, <1>10, <1>11, <1>12, <1>13, <1>14, <1>15, <1>16, <1>17, <1>18, <1>19, <1>20, <1>21, <1>22, <1>23, <1>24 DEF Step

LEMMA FramingCall ==
  ASSUME TypeOK, ChannelInv, FramingInv, NEW t \in Thread, Call(t)
  PROVE  FramingInv'
  <1>1. /\ \E l \in {"idle", "dns_node", "conn_arm", "cmd_lock", "send_lock"} :
               pc' = [pc EXCEPT ![t] = l]
        /\ pc[t] = "idle"
        /\ UNCHANGED <<wake, sem, cmds, toModem, fromModem, prompted>>
    BY DEF Call, getaddrinfo, connect, close, sendto, Begin, Enter, Return_, Goto, modemVars
  <1>2. PICK l \in {"idle", "dns_node", "conn_arm", "cmd_lock", "send_lock"} :
               pc' = [pc EXCEPT ![t] = l]
    BY <1>1
  <1>3. \A u \in Thread : pc'[u] = IF u = t THEN l ELSE pc[u]
    BY <1>2 DEF TypeOK
  <1>4. wake[t] = "none"
    BY <1>1, SemAtFacts DEF ChannelInv, WakeAtTake, TypeOK
  <1>5. NoOwner => NoOwner'
    BY <1>1, <1>2, <1>3, <1>4 DEF NoOwner, Owner, HeldPc, LockPc
  <1>6. \A u \in Thread : /\ Sending(u) => Waits(u)'
                          /\ pc'[u] = "send_data" <=> pc[u] = "send_data"
                          /\ Woke(u)' => Woke(u)
    BY <1>1, <1>2, <1>3, <1>4 DEF Sending, Waits, Woke
  <1>7. Prompts' = Prompts
    BY <1>1 DEF Prompts
  <1>8. sem'["tx_ready"] \in {0, 1} /\ sem' = sem
    BY <1>1 DEF TypeOK, Semaphore
  <1>9. \A i, j \in Prompts : i = j
    BY DEF FramingInv, OneToken
  <1> QED BY <1>1, <1>5, <1>6, <1>7, <1>8, <1>9, Quiet

-----------------------------------------------------------------------------
(* The RX thread. *)

LEMMA ReceivePrompts ==
  ASSUME TypeOK, FramingInv, NEW K, Receive(K)
  PROVE  /\ Prompts' # {} => Prompts # {}
         /\ \A i, j \in Prompts' : i = j
         /\ Head(fromModem).k = ">" => Prompts # {} /\ Prompts' = {}
  <1>1. /\ fromModem # <<>> /\ fromModem' = Tail(fromModem)
        /\ Head(fromModem) = fromModem[1] /\ 1 \in DOMAIN fromModem
        /\ \A i \in DOMAIN fromModem' : i + 1 \in DOMAIN fromModem /\ fromModem'[i] = fromModem[i + 1]
        /\ DOMAIN fromModem' \subseteq Nat \ {0}
    BY Wires DEF Receive
  <1>2. \A i \in Prompts' : i + 1 \in Prompts /\ i \in Nat \ {0}
    BY <1>1 DEF Prompts
  <1>3. \A i, j \in Prompts : i = j
    BY DEF FramingInv, OneToken
  <1>4. \A i, j \in Prompts' : i = j
    BY <1>2, <1>3
  <1>5. ASSUME Head(fromModem).k = ">" PROVE Prompts # {} /\ Prompts' = {}
    <2>1. 1 \in Prompts
      BY <1>1, <1>5 DEF Prompts
    <2> QED BY <1>2, <1>3, <2>1
  <1> QED BY <1>2, <1>4, <1>5

LEMMA RxQuiet ==
  ASSUME TypeOK, ChannelInv, FramingInv, NEW K, Receive(K),
         \/ \E m \in Semaphore \ {"tx_lock", "tx_ready"} : k_sem_give(m)
         \/ UNCHANGED <<sem, wake>>
  PROVE  FramingInv'
  <1>1. UNCHANGED <<pc, toModem, prompted>>
    BY DEF Receive
  <1>2. /\ sem'["tx_lock"] = sem["tx_lock"] /\ sem'["tx_ready"] = sem["tx_ready"]
        /\ \A u \in Thread : wake'[u] # wake[u] =>
              pc[u] \in DOMAIN SemAt /\ SemAt[pc[u]] \notin {"tx_lock", "tx_ready"}
    BY DEF ChannelInv, WakeAtTake, k_sem_give, Blocked, Semaphore, TypeOK
  <1>3. \A u \in Thread : wake'[u] # wake[u] => pc[u] \notin LockPc \cup {"send_prompt"}
    BY <1>2, SemAtFacts DEF LockPc
  <1>4. NoOwner => NoOwner'
    BY <1>1, <1>2, <1>3 DEF NoOwner, Owner
  <1>5. \A u \in Thread : /\ Sending(u) => Waits(u)'
                          /\ Woke(u)' => Woke(u)
    BY <1>1, <1>3 DEF Sending, Waits, Woke
  <1>6. sem'["tx_ready"] \in {0, 1}
    BY <1>2 DEF TypeOK, Semaphore
  <1> QED BY <1>1, <1>2, <1>4, <1>5, <1>6, ReceivePrompts, Quiet

(* The prompt reaches the semaphore, and through it the thread it is for. *)
LEMMA RxPrompt ==
  ASSUME TypeOK, ChannelInv, FramingInv, on_cmd_tx_ready
  PROVE  FramingInv'
  <1>1. UNCHANGED <<pc, toModem, prompted>> /\ Prompts # {} /\ Prompts' = {}
    BY ReceivePrompts DEF on_cmd_tx_ready, Receive
  <1>2. /\ prompted # NoThread /\ prompted \in Thread /\ toModem = <<>> /\ Waits(prompted)
        /\ \A u \in Thread : ~Woke(u)
        /\ sem["tx_ready"] = 0
    BY <1>1 DEF FramingInv, TokenKept, OneToken, Token, TypeOK
  <1>3. sem'["tx_lock"] = sem["tx_lock"]
        /\ \A u \in Thread : wake'[u] # wake[u] => pc[u] = "send_prompt"
    BY SemAtFacts DEF on_cmd_tx_ready, k_sem_give, Blocked, ChannelInv, WakeAtTake, TypeOK, Semaphore
  <1>4. \A u \in Thread : Owner(u)' <=> Owner(u)
    BY <1>1, <1>3 DEF Owner, LockPc
  <1>5. /\ NoOwner' <=> NoOwner
        /\ \A u \in Thread : Waits(u)' <=> Waits(u)
    <2>1. NoOwner' <=> NoOwner
      BY <1>3, <1>4 DEF NoOwner
    <2> QED BY <1>1, <2>1 DEF Waits, Sending
  <1>6. CipsendLast' /\ PayloadFirst'
    BY <1>1, <1>2, Wires DEF CipsendLast, PayloadFirst
  <1>7. PayloadNext'
    BY <1>1, <1>2, <1>5 DEF PayloadNext
  <1>8. CASE Blocked("tx_ready") = {}
    <2>1. sem'["tx_ready"] = 1 /\ wake' = wake
      BY <1>8 DEF on_cmd_tx_ready, k_sem_give, TypeOK, Semaphore
    <2>2. TokenKept' /\ OneToken' /\ AtThread'
      BY <1>1, <1>2, <1>5, <2>1 DEF TokenKept, OneToken, AtThread, FramingInv, Woke
    <2> QED BY <1>6, <1>7, <2>2 DEF FramingInv
  <1>9. CASE Blocked("tx_ready") # {}
    <2>1. PICK u \in Blocked("tx_ready") : wake' = [wake EXCEPT ![u] = "taken"] /\ sem' = sem
      BY <1>9 DEF on_cmd_tx_ready, k_sem_give
    <2>2. u \in Thread /\ pc[u] = "send_prompt"
      BY SemAtFacts DEF Blocked, ChannelInv, WakeAtTake
    <2>3. u = prompted
      BY <1>2, <2>2 DEF Waits, Sending, NoOwner, Owner, HeldPc, ChannelInv, OneOwner
    <2>4. ~Token'
      BY <1>1, <1>2, <2>1 DEF Token
    <2>5. TokenKept' /\ OneToken'
      BY <1>1, <2>4 DEF TokenKept, OneToken
    <2>6. AtThread'
      BY <1>1, <1>2, <2>1, <2>3 DEF AtThread, FramingInv, Woke, TypeOK
    <2> QED BY <1>6, <1>7, <2>5, <2>6 DEF FramingInv
  <1> QED BY <1>8, <1>9

LEMMA FramingRx ==
  ASSUME TypeOK, ChannelInv, FramingInv, modem_rx
  PROVE  FramingInv'
  <1>1. CASE on_cmd_tx_ready
    BY <1>1, RxPrompt
  <1>2. CASE ~on_cmd_tx_ready
    <2>1. \E K : /\ Receive(K)
                 /\ \/ \E m \in Semaphore \ {"tx_lock", "tx_ready"} : k_sem_give(m)
                    \/ UNCHANGED <<sem, wake>>
      BY <1>2 DEF modem_rx, Semaphore, on_cmd_ok, on_cmd_error, on_cmd_cipstart, on_cmd_cipclose,
         on_cmd_cipsend_ok, on_cmd_cdnsgip, unmatched
    <2> QED BY <2>1, RxQuiet
  <1> QED BY <1>1, <1>2

-----------------------------------------------------------------------------
(* The modem. *)

(* The lines of an answer come after those under way. *)
LEMMA ReplyLines ==
  ASSUME TypeOK, NEW ks \in Seq(Answer), Reply(ks)
  PROVE  /\ DOMAIN ks = 1 .. Len(ks) /\ Len(ks) \in Nat
         /\ DOMAIN fromModem = 1 .. Len(fromModem) /\ Len(fromModem) \in Nat
         /\ DOMAIN fromModem' = 1 .. Len(fromModem) + Len(ks)
         /\ \A i \in 1 .. Len(fromModem) : fromModem'[i] = fromModem[i]
         /\ \A i \in 1 .. Len(ks) : /\ fromModem'[Len(fromModem) + i].k = ks[i]
                                  /\ fromModem'[Len(fromModem) + i].by = Head(toModem).by
  <1> DEFINE h == Head(toModem)
             r == [i \in DOMAIN ks |-> [k |-> ks[i], s |-> h.s, by |-> h.by]]
             V == {r[i] : i \in DOMAIN ks} \cup {fromModem[i] : i \in DOMAIN fromModem}
  <1>1. DOMAIN ks = 1 .. Len(ks) /\ Len(ks) \in Nat
    OBVIOUS
  <1>2. r \in [1 .. Len(ks) -> V]
    BY <1>1
  <1>3. r \in Seq(V)
    BY ONLY <1>1, <1>2, FunctionIsSeq
  <1>4. Len(r) = Len(ks)
    BY <1>1, <1>2, <1>3
  <1>5. /\ fromModem \in [1 .. Len(fromModem) -> V] /\ Len(fromModem) \in Nat
        /\ DOMAIN fromModem = 1 .. Len(fromModem)
    <2>1. fromModem \in Seq(Line(Answer, Thread \cup {NoThread}))
      BY DEF TypeOK
    <2>2. fromModem \in [1 .. Len(fromModem) -> Line(Answer, Thread \cup {NoThread})] /\ Len(fromModem) \in Nat
      BY <2>1
    <2> QED BY <2>2
  <1>6. fromModem \in Seq(V)
    BY ONLY <1>5, FunctionIsSeq
  <1>7. fromModem' = fromModem \o r
    BY DEF Reply
  <1>8. \A i \in DOMAIN ks : r[i].k = ks[i] /\ r[i].by = h.by
    OBVIOUS
  <1> HIDE DEF r, V, h
  <1>9. /\ DOMAIN fromModem' = 1 .. Len(fromModem) + Len(ks)
        /\ \A i \in 1 .. Len(fromModem) : fromModem'[i] = fromModem[i]
        /\ \A i \in 1 .. Len(ks) : fromModem'[Len(fromModem) + i] = r[i]
    <2>1. /\ DOMAIN (fromModem \o r) = 1 .. Len(fromModem) + Len(r)
          /\ \A i \in 1 .. Len(fromModem) : (fromModem \o r)[i] = fromModem[i]
          /\ \A i \in 1 .. Len(r) : (fromModem \o r)[Len(fromModem) + i] = r[i]
      BY ONLY <1>3, <1>6, ConcatFacts
    <2> QED BY ONLY <2>1, <1>4, <1>7
  <1> QED BY <1>1, <1>5, <1>8, <1>9 DEF h

(* Lines other than ">" add no prompt. *)
LEMMA ReplyPrompts ==
  ASSUME TypeOK, NEW ks \in Seq(Answer), Reply(ks)
  PROVE  /\ (\A i \in DOMAIN ks : ks[i] # ">") => Prompts' = Prompts
         /\ Prompts = {} /\ ks = <<">">> => \A i, j \in Prompts' : i = j
  <1>1. /\ DOMAIN ks = 1 .. Len(ks) /\ Len(ks) \in Nat
        /\ DOMAIN fromModem = 1 .. Len(fromModem) /\ Len(fromModem) \in Nat
        /\ DOMAIN fromModem' = 1 .. Len(fromModem) + Len(ks)
        /\ \A i \in 1 .. Len(fromModem) : fromModem'[i] = fromModem[i]
        /\ \A i \in 1 .. Len(ks) : fromModem'[Len(fromModem) + i].k = ks[i]
    BY ReplyLines
  <1>10. ASSUME \A i \in DOMAIN ks : ks[i] # ">" PROVE Prompts' = Prompts
    <2>1. \A i \in DOMAIN fromModem' : i \notin DOMAIN fromModem => fromModem'[i].k # ">"
      <3> SUFFICES ASSUME NEW i \in DOMAIN fromModem', i \notin DOMAIN fromModem
                   PROVE  fromModem'[i].k # ">"
        OBVIOUS
      <3>1. i - Len(fromModem) \in 1 .. Len(ks) /\ Len(fromModem) + (i - Len(fromModem)) = i
        BY <1>1
      <3> QED BY <1>1, <1>10, <3>1
    <2>2. DOMAIN fromModem \subseteq DOMAIN fromModem'
      BY <1>1
    <2> QED BY <1>1, <2>1, <2>2 DEF Prompts
  <1>11. ASSUME Prompts = {}, ks = <<">">> PROVE \A i, j \in Prompts' : i = j
    <2>1. \A i \in 1 .. Len(fromModem) : fromModem'[i].k # ">"
      BY <1>1, <1>11 DEF Prompts
    <2>2. Len(ks) = 1
      BY <1>11
    <2>3. \A i \in Prompts' : i = Len(fromModem) + 1
      BY <1>1, <2>1, <2>2 DEF Prompts
    <2> QED BY <2>3
  <1> QED BY <1>10, <1>11

(* In command mode nothing waits for a prompt. *)
LEMMA CommandMode ==
  ASSUME TypeOK, FramingInv, prompted = NoThread
  PROVE  /\ ~Token /\ \A t \in Thread : ~Woke(t) /\ pc[t] # "send_data"
         /\ \A i \in DOMAIN toModem : toModem[i].k # "payload"
  BY NoThreadFact, Wires DEF FramingInv, TokenKept, AtThread, PayloadFirst

LEMMA HostUnchanged ==
  ASSUME UNCHANGED hostVars
  PROVE  /\ NoOwner' <=> NoOwner
         /\ \A t \in Thread : (Waits(t)' <=> Waits(t)) /\ (Woke(t)' <=> Woke(t))
         /\ UNCHANGED <<pc, wake, sem>>
  BY DEF hostVars, NoOwner, Owner, Waits, Sending, Woke

(* The modem reads a command. *)
LEMMA ReadCommand ==
  ASSUME TypeOK, FramingInv, prompted = NoThread, toModem # <<>>, toModem' = Tail(toModem),
         UNCHANGED hostVars
  PROVE  /\ CipsendLast' /\ PayloadFirst'
         /\ \A i \in DOMAIN toModem' : i + 1 \in DOMAIN toModem /\ toModem'[i] = toModem[i + 1]
         /\ Head(toModem).k = "CIPSEND" =>
               /\ toModem' = <<>> /\ Head(toModem).by \in Thread
               /\ Waits(Head(toModem).by)
  <1>1. /\ DOMAIN toModem = 1 .. Len(toModem) /\ Len(toModem) \in Nat \ {0}
        /\ Head(toModem) = toModem[1] /\ toModem[1].by \in Thread
        /\ Len(toModem') = Len(toModem) - 1 /\ DOMAIN toModem' = 1 .. Len(toModem) - 1
        /\ toModem' = <<>> <=> Len(toModem) = 1
        /\ \A i \in 1 .. Len(toModem) - 1 : toModem'[i] = toModem[i + 1]
        /\ \A i \in 1 .. Len(toModem) : toModem[i].by \in Thread
    BY Wires
  <1>2. \A i \in DOMAIN toModem' : i + 1 \in DOMAIN toModem /\ toModem'[i] = toModem[i + 1]
    BY <1>1
  <1>3. CipsendLast'
    <2>1. ASSUME NEW i \in DOMAIN toModem', toModem'[i].k = "CIPSEND", NEW u, u = toModem'[i].by
          PROVE  i = Len(toModem') /\ Waits(u)'
      <3>1. i + 1 = Len(toModem) /\ Waits(u) /\ u \in Thread
        BY <1>1, <1>2, <2>1 DEF FramingInv, CipsendLast
      <3> QED BY <1>1, <3>1, HostUnchanged
    <2> QED BY <2>1 DEF CipsendLast
  <1>4. PayloadFirst'
    BY <1>2, CommandMode DEF PayloadFirst
  <1>5. Head(toModem).k = "CIPSEND" => toModem' = <<>> /\ Waits(Head(toModem).by)
    BY <1>1 DEF FramingInv, CipsendLast
  <1> QED BY <1>1, <1>2, <1>3, <1>4, <1>5

(* A command that leaves the modem in command mode. *)
LEMMA StaysInCommandMode ==
  ASSUME TypeOK, FramingInv, prompted = NoThread, prompted' = NoThread, toModem # <<>>,
         toModem' = Tail(toModem), UNCHANGED hostVars, Prompts' = Prompts
  PROVE  FramingInv'
  <1>1. CipsendLast' /\ PayloadFirst'
    BY ReadCommand
  <1>2. ~Token' /\ AtThread' /\ PayloadNext'
    BY CommandMode, HostUnchanged DEF Token, AtThread, PayloadNext
  <1>3. TokenKept' /\ OneToken'
    BY <1>2 DEF TokenKept, OneToken, Token
  <1> QED BY <1>1, <1>2, <1>3 DEF FramingInv

(* A line of its own accord. *)
LEMMA Unsolicited ==
  ASSUME TypeOK, FramingInv, UNCHANGED <<hostVars, toModem, prompted>>, Prompts' = Prompts
  PROVE  FramingInv'
  <1>1. \A t \in Thread : (Waits(t)' <=> Waits(t)) /\ (Woke(t)' <=> Woke(t))
    BY HostUnchanged DEF hostVars
  <1>2. /\ NoOwner => NoOwner'
        /\ UNCHANGED <<pc, wake, sem>>
    BY HostUnchanged DEF hostVars
  <1>3. sem'["tx_ready"] \in {0, 1}
    BY <1>2 DEF TypeOK, Semaphore
  <1>4. \A t \in Thread : Sending(t) => Waits(t)'
    BY <1>1 DEF Waits
  <1>5. \A i, j \in Prompts' : i = j
    BY DEF FramingInv, OneToken
  <1> QED BY <1>1, <1>2, <1>3, <1>4, <1>5, Quiet

LEMMA NoPromptAppended ==
  ASSUME TypeOK, NEW l \in Line(Answer, Thread \cup {NoThread}), l.k # ">",
         fromModem' = Append(fromModem, l)
  PROVE  Prompts' = Prompts
  <1>1. fromModem \in Seq(Line(Answer, Thread \cup {NoThread}))
    BY DEF TypeOK
  <1>2. /\ DOMAIN fromModem' = 1 .. Len(fromModem) + 1 /\ DOMAIN fromModem = 1 .. Len(fromModem)
        /\ Len(fromModem) \in Nat
        /\ \A i \in 1 .. Len(fromModem) : fromModem'[i] = fromModem[i]
        /\ fromModem'[Len(fromModem) + 1] = l
    BY <1>1, AppendFacts, SeqFacts
  <1> QED BY <1>2 DEF Prompts

LEMMA SilentModem ==
  ASSUME UNCHANGED fromModem
  PROVE  Prompts' = Prompts
  BY DEF Prompts

LEMMA TwoAnswers ==
  ASSUME NEW j \in Answer, NEW k \in Answer, j # ">", k # ">"
  PROVE  <<j, k>> \in Seq(Answer) /\ \A i \in DOMAIN <<j, k>> : <<j, k>>[i] # ">"
  OBVIOUS

LEMMA FramingModem ==
  ASSUME TypeOK, FramingInv, modem
  PROVE  FramingInv'
  <1> DEFINE Plain == Answer \ {">"}
  <1>a. \A k \in Plain : <<k>> \in Seq(Answer) /\ \A i \in DOMAIN <<k>> : <<k>>[i] # ">"
    OBVIOUS
  <1>b. ASSUME (\E k \in Plain : Reply(<<k>>)) \/ UNCHANGED fromModem
        PROVE  Prompts' = Prompts
    <2>1. ASSUME NEW k \in Plain, Reply(<<k>>) PROVE Prompts' = Prompts
      BY <1>a, <2>1, ReplyPrompts
    <2> QED BY <1>b, <2>1, SilentModem
  <1>1. CASE modem_cipstart
    <2>1. (\E k \in Plain : Reply(<<k>>)) \/ UNCHANGED fromModem
      BY <1>1 DEF modem_cipstart, Answer
    <2> QED BY <1>1, <1>b, <2>1, StaysInCommandMode DEF modem_cipstart, Execute
  <1>2. CASE modem_cipclose
    <2>1. (\E k \in Plain : Reply(<<k>>)) \/ UNCHANGED fromModem
      BY <1>2 DEF modem_cipclose, Answer
    <2> QED BY <1>2, <1>b, <2>1, StaysInCommandMode DEF modem_cipclose, Execute
  <1>3. CASE modem_cdnsgip
    <2>1. CASE \E k \in {"DNS 1", "DNS 0"} : Reply(<<"OK", k>>)
      <3>1. PICK k \in {"DNS 1", "DNS 0"} : Reply(<<"OK", k>>)
        BY <2>1
      <3>2. <<"OK", k>> \in Seq(Answer) /\ \A i \in DOMAIN <<"OK", k>> : <<"OK", k>>[i] # ">"
        BY <3>1, TwoAnswers DEF Answer
      <3> QED BY <1>3, <3>1, <3>2, ReplyPrompts, StaysInCommandMode DEF modem_cdnsgip, Execute
    <2>2. CASE ~\E k \in {"DNS 1", "DNS 0"} : Reply(<<"OK", k>>)
      <3>1. (\E k \in Plain : Reply(<<k>>)) \/ UNCHANGED fromModem
        BY <1>3, <2>2 DEF modem_cdnsgip, Answer
      <3> QED BY <1>3, <1>b, <3>1, StaysInCommandMode DEF modem_cdnsgip, Execute
    <2> QED BY <2>1, <2>2
  <1>4. CASE modem_cipsend
    <2>1. CASE prompted' = NoThread
      <3>1. (\E k \in Plain : Reply(<<k>>)) \/ UNCHANGED fromModem
        <4>1. toModem # <<>> => Head(toModem).by # NoThread
          BY Wires, NoThreadFact
        <4> QED BY <1>4, <2>1, <4>1 DEF modem_cipsend, Execute, Answer
      <3> QED BY <1>4, <1>b, <2>1, <3>1, StaysInCommandMode DEF modem_cipsend, Execute
    <2>2. CASE prompted' # NoThread
      <3>1. /\ prompted = NoThread /\ toModem # <<>> /\ Head(toModem).k = "CIPSEND"
            /\ toModem' = Tail(toModem) /\ UNCHANGED hostVars
            /\ prompted' = Head(toModem).by /\ Reply(<<">">>)
        BY <1>4, <2>2 DEF modem_cipsend, Execute
      <3>2. /\ CipsendLast' /\ PayloadFirst' /\ toModem' = <<>>
            /\ prompted' \in Thread /\ Waits(prompted')
        BY <3>1, ReadCommand
      <3>3. ~Token /\ \A t \in Thread : ~Woke(t) /\ pc[t] # "send_data"
        BY <3>1, CommandMode
      <3>4. \A i, j \in Prompts' : i = j
        <4>1. Prompts = {} /\ <<">">> \in Seq(Answer)
          BY <3>3 DEF Token, Answer
        <4> QED BY <3>1, <4>1, ReplyPrompts
      <3>5. sem'["tx_ready"] = 0 /\ pc' = pc /\ wake' = wake
        BY <3>1, <3>3 DEF Token, hostVars, TypeOK, Semaphore
      <3>6. PayloadNext' /\ TokenKept'
        <4>1. NoOwner' <=> NoOwner
          BY <3>1, HostUnchanged
        <4>2. Waits(prompted)'
          BY <3>2, <3>5, <4>1 DEF Waits, Sending
        <4> QED BY <3>2, <3>3, <3>5, <4>2, NoThreadFact DEF PayloadNext, TokenKept, Woke
      <3>7. OneToken' /\ AtThread'
        BY <3>3, <3>4, <3>5 DEF OneToken, AtThread, Woke
      <3> QED BY <3>2, <3>6, <3>7 DEF FramingInv
    <2> QED BY <2>1, <2>2
  <1>5. CASE modem_payload
    <2>1. /\ prompted # NoThread /\ toModem # <<>> /\ toModem' = Tail(toModem)
          /\ prompted' = NoThread /\ UNCHANGED hostVars
      BY <1>5 DEF modem_payload
    <2>2. ~Token /\ \A t \in Thread : ~Woke(t) /\ pc[t] # "send_data"
      BY <2>1 DEF FramingInv, TokenKept, AtThread
    <2>3. Prompts' = Prompts
      <3>1. (\E k \in Plain : Reply(<<k>>)) \/ UNCHANGED fromModem
        BY <1>5 DEF modem_payload, Answer
      <3> QED BY <1>b, <3>1
    <2>4. ~Token' /\ TokenKept' /\ OneToken' /\ AtThread' /\ PayloadNext'
      BY <2>1, <2>2, <2>3, HostUnchanged DEF Token, TokenKept, OneToken, AtThread, PayloadNext
    <2>5. /\ DOMAIN toModem = 1 .. Len(toModem) /\ Len(toModem) \in Nat \ {0}
          /\ Len(toModem') = Len(toModem) - 1 /\ DOMAIN toModem' = 1 .. Len(toModem) - 1
          /\ \A i \in 1 .. Len(toModem) - 1 : toModem'[i] = toModem[i + 1]
      BY <2>1, Wires
    <2>6. PayloadFirst'
      BY <2>5 DEF FramingInv, PayloadFirst
    <2>7. CipsendLast'
      <3>1. ASSUME NEW i \in DOMAIN toModem', toModem'[i].k = "CIPSEND", NEW u, u = toModem'[i].by
            PROVE  i = Len(toModem') /\ Waits(u)'
        <4>1. i + 1 = Len(toModem) /\ Waits(u) /\ u \in Thread
          BY <2>5, <3>1, Wires DEF FramingInv, CipsendLast
        <4> QED BY <2>1, <2>5, <4>1, HostUnchanged
      <3> QED BY <3>1 DEF CipsendLast
    <2> QED BY <2>4, <2>6, <2>7 DEF FramingInv
  <1>6. ASSUME NEW s \in Socket, modem_dialled(s) \/ modem_lost(s) PROVE FramingInv'
    <2>1. PICK k \in {"CONNECT OK", "CONNECT FAIL", "CLOSED"} :
             fromModem' = Append(fromModem, [k |-> k, s |-> s, by |-> NoThread])
      BY <1>6 DEF modem_dialled, modem_lost
    <2>2. [k |-> k, s |-> s, by |-> NoThread] \in Line(Answer, Thread \cup {NoThread})
      BY DEF Line, Answer
    <2>3. Prompts' = Prompts
      BY <2>1, <2>2, NoPromptAppended
    <2> QED BY <1>6, <2>3, Unsolicited DEF modem_dialled, modem_lost
  <1> QED BY <1>1, <1>2, <1>3, <1>4, <1>5, <1>6 DEF modem

-----------------------------------------------------------------------------
LEMMA FramingInit == Init => FramingInv
  BY DEF Init, FramingInv, CipsendLast, PayloadFirst, PayloadNext, TokenKept, OneToken, AtThread,
     Token, Prompts, Woke, Semaphore

LEMMA FramingNext ==
  ASSUME TypeOK, ChannelInv, FramingInv, [Next]_vars
  PROVE  FramingInv'
  <1>1. CASE UNCHANGED vars
    <2>1. Prompts' = Prompts
      BY <1>1 DEF vars, modemVars, Prompts
    <2> QED BY <1>1, <2>1, Unsolicited DEF vars, modemVars
  <1> QED BY <1>1, FramingStep, FramingCall, FramingRx, FramingModem DEF Next

(* No command is taken for data and no data for a command. *)
THEOREM FramingHolds == Spec => []Framing
  <1>1. Init => ChannelInv /\ FramingInv
    BY ChannelInit, FramingInit
  <1>2. TypeOK /\ ChannelInv /\ FramingInv /\ [Next]_vars => (ChannelInv /\ FramingInv)'
    BY ChannelNext, FramingNext
  <1>3. TypeOK /\ FramingInv => Framing
    <2> SUFFICES ASSUME TypeOK, FramingInv, toModem # <<>> PROVE Framing
      BY DEF Framing
    <2>1. Head(toModem) = toModem[1] /\ 1 \in DOMAIN toModem /\ toModem[1].by \in Thread
      BY Wires
    <2> QED BY <2>1, NoThreadFact DEF Framing, FramingInv, PayloadFirst, PayloadNext
  <1> QED BY TypeCorrect, <1>1, <1>2, <1>3, PTL DEF Spec

-----------------------------------------------------------------------------
(* A command's success is its own (AnswerIsOurs). The argument counts      *)
(* lines: from the k_sem_reset before a command to the end of its wait,    *)
(* the only line under way that can give the semaphore is the command      *)
(* itself or its last answer.                                              *)

(* Where a thread takes the semaphore of its command, and where it may     *)
(* have a command or an answer under way.                                  *)
AtTake == {"cmd_wait", "dns_wait", "send_prompt", "send_wait"}
Asking == AtTake \cup {"send_set", "send_rearm"}

Lookup  == {"DNS 1", "DNS 0"}
OwnWill == {"CONNECT OK", "CONNECT FAIL", "CLOSED"}

Asked(t)    == \E i \in DOMAIN toModem : toModem[i].by = t
Answered(t) == \E i \in DOMAIN fromModem : fromModem[i].by = t
Open(t)     == Asked(t) \/ Answered(t)

(* Nobody but a thread that is asking has a line under way, and what it    *)
(* waits for has then not been given.                                      *)
OpenAsking == \A t \in Thread : Open(t) => pc[t] \in Asking
OpenUngiven ==
    \A t \in Thread : Open(t) /\ pc[t] \in AtTake =>
        wake[t] \in {"none", "blocked"} /\ sem[SemAt[pc[t]]] = 0

(* Between the reset and the wait nothing is given either. *)
Fresh ==
    \A t \in Thread : /\ pc[t] = "cmd_write" => sem[CmdSem(t)] = 0
                      /\ pc[t] \in {"send_cmd", "send_set"} => sem["tx_ready"] = 0
                      /\ pc[t] = "send_set" => cmds.tbl # "cipsend"

(* The lines under way: those the modem sends of its own will, and one     *)
(* command or its answers, an OK before the result of a lookup.            *)
Unasked    == \A i \in DOMAIN fromModem : fromModem[i].by = NoThread <=> fromModem[i].k \in OwnWill
OneAsked   == \A i \in DOMAIN toModem : i = 1
AskedFirst == toModem # <<>> => \A i \in DOMAIN fromModem : fromModem[i].by = NoThread
LastAnswer ==
    \A i, j \in DOMAIN fromModem : i < j /\ fromModem[i].by # NoThread /\ fromModem[j].by # NoThread =>
        fromModem[i].k = "OK" /\ fromModem[j].k \in Lookup
AtLookup ==
    /\ \A i \in DOMAIN toModem : toModem[i].k = "CDNSGIP" => pc[toModem[i].by] = "dns_wait"
    /\ \A i \in DOMAIN fromModem : fromModem[i].k \in Lookup => pc[fromModem[i].by] = "dns_wait"

LinesInv == Unasked /\ OneAsked /\ AskedFirst /\ LastAnswer /\ AtLookup
AnswerInv == OpenAsking /\ OpenUngiven /\ Fresh /\ LinesInv

-----------------------------------------------------------------------------
(* Only the thread that has the channel has a line under way. *)

LEMMA OpenOwns ==
  ASSUME ChannelInv, OpenAsking, NEW t \in Thread, Open(t)
  PROVE  Owner(t) /\ \A u \in Thread : Owner(u) \/ Open(u) => u = t
  BY DEF OpenAsking, Asking, AtTake, Owner, HeldPc, ChannelInv, OneOwner

LEMMA SameLines ==
  ASSUME UNCHANGED <<toModem, fromModem>>
  PROVE  /\ \A t \in Thread : Open(t)' <=> Open(t)
         /\ (\A t \in Thread : Open(t) /\ pc[t] = "dns_wait" => pc'[t] = "dns_wait")
            /\ TypeOK /\ LinesInv => LinesInv'
  <1>1. \A t \in Thread : Open(t)' <=> Open(t)
    BY DEF Open, Asked, Answered
  <1>2. ASSUME \A t \in Thread : Open(t) /\ pc[t] = "dns_wait" => pc'[t] = "dns_wait", TypeOK, LinesInv
        PROVE  LinesInv'
    <2>1. Unasked' /\ OneAsked' /\ AskedFirst' /\ LastAnswer'
      BY <1>2 DEF LinesInv, Unasked, OneAsked, AskedFirst, LastAnswer
    <2>2. \A i \in DOMAIN toModem : toModem[i].by \in Thread
      BY <1>2, Wires
    <2>3. \A i \in DOMAIN fromModem : fromModem[i].k \in Lookup => fromModem[i].by \in Thread
      <3>1. \A i \in 1 .. Len(fromModem) : fromModem[i] \in Line(Answer, Thread \cup {NoThread})
        BY <1>2, SeqFacts DEF TypeOK
      <3> QED BY <1>2, <3>1, Wires DEF LinesInv, Unasked, Lookup, OwnWill, Line
    <2>4. AtLookup'
      BY <1>2, <2>2, <2>3 DEF LinesInv, AtLookup, Open, Asked, Answered
    <2> QED BY <2>1, <2>4 DEF LinesInv
  <1> QED BY <1>1, <1>2

-----------------------------------------------------------------------------
(* The driver's steps. *)

(* The steps that write to the modem. *)
Writing(t) == cmd_write(t) \/ send_cmd(t) \/ send_data(t)

LEMMA QuietStepLines ==
  ASSUME NEW t \in Thread, Step(t)
  PROVE  Writing(t) \/ UNCHANGED <<toModem, fromModem>>
  BY DEF Step, Writing, modemVars, k_sem_take, timeout, dns_node, locked, cmd_set, cmd_arm,
     cmd_wait, cmd_unset, cmd_unlock, close_done, conn_arm, conn_set, conn_timeout, conn_done,
     send_arm, send_set, send_giveup, send_prompt, send_rearm, send_wait, msg_next

(* A step that writes nothing. *)
LEMMA AnswerStep ==
  ASSUME Late = FALSE, TypeOK, ChannelInv, AnswerInv, NEW t \in Thread, Step(t), ~Writing(t)
  PROVE  AnswerInv'
  <1>0. /\ pc   \in [Thread -> Pc]
        /\ call \in [Thread -> [f : Function, s : Socket, left : Nat, begun : BOOLEAN]]
        /\ wake \in [Thread -> {"none", "blocked", "taken", "again"}]
        /\ sem  \in [Semaphore -> {0, 1}]
    BY DEF TypeOK
  <1>l. UNCHANGED <<toModem, fromModem>>
    BY QuietStepLines
  <1>o. \A u \in Thread : Open(u)' <=> Open(u)
    BY <1>l, SameLines
  <1>w. \A u \in Thread : pc[u] # "conn_wait" => (Awaited(u) <=> Open(u))
    BY DEF Awaited, Open, Asked, Answered
  <1> DEFINE Kept == /\ \A u \in Thread : Open(u) => pc'[u] \in Asking
                     /\ \A u \in Thread : Open(u) /\ pc'[u] \in AtTake =>
                           wake'[u] \in {"none", "blocked"} /\ sem'[SemAt[pc'[u]]] = 0
                     /\ \A u \in Thread :
                           /\ pc'[u] = "cmd_write" => sem'[CmdSem(u)'] = 0
                           /\ pc'[u] \in {"send_cmd", "send_set"} => sem'["tx_ready"] = 0
                           /\ pc'[u] = "send_set" => cmds'.tbl # "cipsend"
                     /\ \A u \in Thread : Open(u) /\ pc[u] = "dns_wait" => pc'[u] = "dns_wait"
  <1>k. Kept
    <2>1. /\ \A u \in Thread : Open(u) => pc[u] \in Asking
          /\ \A u \in Thread : Open(u) /\ pc[u] \in AtTake =>
                wake[u] \in {"none", "blocked"} /\ sem[SemAt[pc[u]]] = 0
          /\ \A u \in Thread : /\ pc[u] = "cmd_write" => sem[CmdSem(u)] = 0
                               /\ pc[u] \in {"send_cmd", "send_set"} => sem["tx_ready"] = 0
                               /\ pc[u] = "send_set" => cmds.tbl # "cipsend"
      BY DEF AnswerInv, OpenAsking, OpenUngiven, Fresh
    <2>2. /\ \A u, v \in Thread : Owner(u) /\ Owner(v) => u = v
          /\ \A u \in Thread : wake[u] # "none" => pc[u] \in DOMAIN SemAt
          /\ \A u \in Thread : /\ pc[u] \in SendPc => call[u].f = "send"
                               /\ pc[u] \in CmdPc  => call[u].f # "send"
      BY DEF ChannelInv, OneOwner, WakeAtTake, CallAtPc
    <2>3. \A u \in Thread : SemAt[pc[u]] = "tx_lock" => pc[u] \notin Asking \/ pc[u] \notin DOMAIN SemAt
      BY SemAtFacts DEF Asking, AtTake, LockPc
    <2> HIDE DEF Open
    <2> USE <1>0, <2>1, <2>2, SemAtFacts DEF Goto, Rest, Woken, modemVars, Semaphore, Owner, LockPc,
            HeldPc, Asking, AtTake, CmdSem, SemAt, SendPc, CmdPc
    <2>t1. CASE k_sem_take(t)
      BY <2>t1 DEF k_sem_take
    <2>t2. CASE timeout(t)
      BY <2>t2, <1>w DEF timeout
    <2>t3. CASE dns_node(t)
      BY <2>t3 DEF dns_node, Return_
    <2>t4. CASE locked(t)
      BY <2>t4 DEF locked
    <2>t5. CASE cmd_set(t)
      BY <2>t5 DEF cmd_set, TableOf, Function
    <2>t6. CASE cmd_arm(t)
      BY <2>t6 DEF cmd_arm, k_sem_reset, Blocked
    <2>t8. CASE cmd_wait(t)
      BY <2>t8 DEF cmd_wait
    <2>t9. CASE cmd_unset(t)
      BY <2>t9 DEF cmd_unset
    <2>t10. CASE cmd_unlock(t)
      BY <2>t10 DEF cmd_unlock, AfterCmd, k_sem_give, Blocked
    <2>t11. CASE close_done(t)
      BY <2>t11 DEF close_done, Return_
    <2>t12. CASE conn_arm(t)
      BY <2>t12 DEF conn_arm, k_sem_reset, Blocked
    <2>t13. CASE conn_set(t)
      BY <2>t13 DEF conn_set
    <2>t14. CASE conn_timeout(t)
      BY <2>t14 DEF conn_timeout, Return_
    <2>t15. CASE conn_done(t)
      BY <2>t15 DEF conn_done, Return_
    <2>t16. CASE send_arm(t)
      BY <2>t16 DEF send_arm, k_sem_reset, Blocked
    <2>t18. CASE send_set(t)
      BY <2>t18 DEF send_set, TableOf
    <2>t19. CASE send_giveup(t)
      BY <2>t19 DEF send_giveup, Return_
    <2>t20. CASE send_prompt(t)
      BY <2>t20 DEF send_prompt
    <2>t22. CASE send_rearm(t)
      BY <2>t22 DEF send_rearm, k_sem_reset, Blocked
    <2>t23. CASE send_wait(t)
      BY <2>t23 DEF send_wait
    <2>t24. CASE msg_next(t)
      <3>1. \A u \in Thread : call'[u].f = call[u].f
        BY <2>t24 DEF msg_next
      <3>2. /\ pc[t] = "msg_next" /\ UNCHANGED <<wake, sem, cmds>>
            /\ pc' = [pc EXCEPT ![t] = "send_lock"] \/ pc' = [pc EXCEPT ![t] = "idle"]
        BY <2>t24 DEF msg_next, Enter, Return_
      <3> QED BY <3>1, <3>2
    <2> QED BY <2>t1, <2>t2, <2>t3, <2>t4, <2>t5, <2>t6, <2>t8, <2>t9, <2>t10, <2>t11, <2>t12, <2>t13,
          <2>t14, <2>t15, <2>t16, <2>t18, <2>t19, <2>t20, <2>t22, <2>t23, <2>t24 DEF Step, Writing
  <1>1. OpenAsking' /\ OpenUngiven' /\ Fresh'
    BY <1>k, <1>o DEF OpenAsking, OpenUngiven, Fresh
  <1>2. LinesInv'
    BY <1>k, <1>l, SameLines DEF AnswerInv
  <1> QED BY <1>1, <1>2 DEF AnswerInv

(* With nobody asking, the wires hold no more than what the modem says of  *)
(* its own will.                                                           *)
LEMMA NobodyOpen ==
  ASSUME TypeOK, \A u \in Thread : ~Open(u)
  PROVE  toModem = <<>> /\ \A i \in DOMAIN fromModem : fromModem[i].by = NoThread
  <1>1. toModem = <<>>
    BY Wires DEF Open, Asked
  <1>2. \A i \in 1 .. Len(fromModem) : fromModem[i] \in Line(Answer, Thread \cup {NoThread})
    BY SeqFacts DEF TypeOK
  <1> QED BY <1>1, <1>2, Wires DEF Open, Answered, Line

(* A command or a payload leaves when nothing else is under way.           *)
LEMMA AnswerWrite ==
  ASSUME TypeOK, ChannelInv, AnswerInv, NEW t \in Thread, Writing(t)
  PROVE  AnswerInv'
  <1>0. /\ pc   \in [Thread -> Pc]
        /\ call \in [Thread -> [f : Function, s : Socket, left : Nat, begun : BOOLEAN]]
        /\ wake \in [Thread -> {"none", "blocked", "taken", "again"}]
        /\ sem  \in [Semaphore -> {0, 1}]
    BY DEF TypeOK
  <1>1. pc[t] \in {"cmd_write", "send_cmd", "send_data"} /\ UNCHANGED <<call, wake, sem, fromModem>>
    BY DEF Writing, cmd_write, send_cmd, send_data
  <1>2. Owner(t) /\ \A u \in Thread : ~Open(u)
    <2>1. Owner(t)
      BY <1>1 DEF Owner, HeldPc
    <2> QED BY <1>1, <2>1, OpenOwns DEF AnswerInv, OpenAsking, Asking, AtTake
  <1>3. toModem = <<>> /\ \A i \in DOMAIN fromModem : fromModem[i].by = NoThread
    BY <1>2, NobodyOpen
  <1>4. PICK k \in Command \cup {"payload"} : write(t, k) /\ (k = "CDNSGIP" => pc'[t] = "dns_wait")
    BY <1>0, <1>1 DEF Writing, cmd_write, send_cmd, send_data, Command, CommandOf, CmdWait, Goto, Function
  <1> DEFINE l == [k |-> k, s |-> call[t].s, by |-> t]
  <1>5. toModem' = <<l>>
    <2>1. toModem' = Append(<<>>, l)
      BY <1>3, <1>4 DEF write
    <2> HIDE DEF l
    <2> QED BY ONLY <2>1
  <1>6. DOMAIN toModem' = {1} /\ toModem'[1].k = k /\ toModem'[1].by = t /\ toModem' # <<>>
    BY <1>5
  <1>7. \A u \in Thread : Open(u)' => u = t
    BY <1>1, <1>3, <1>6, NoThreadFact DEF Open, Asked, Answered
  <1>8. LinesInv'
    <2>1. Unasked' /\ OneAsked' /\ AskedFirst' /\ LastAnswer'
      BY <1>1, <1>3, <1>6 DEF AnswerInv, LinesInv, Unasked, OneAsked, AskedFirst, LastAnswer
    <2>2. AtLookup'
      <3>1. \A i \in DOMAIN fromModem' : fromModem'[i].k \notin Lookup
        BY <1>1, <1>3 DEF AnswerInv, LinesInv, Unasked, Lookup, OwnWill
      <3>2. \A i \in DOMAIN toModem' : toModem'[i].k = "CDNSGIP" => pc'[toModem'[i].by] = "dns_wait"
        BY <1>4, <1>6
      <3> QED BY <3>1, <3>2 DEF AtLookup
    <2> QED BY <2>1, <2>2 DEF LinesInv
  <1> HIDE DEF Open, l
  <1>9. wake[t] = "none"
    BY <1>1, SemAtFacts DEF ChannelInv, WakeAtTake
  <1>10. /\ pc[t] = "cmd_write" => pc' = [pc EXCEPT ![t] = CmdWait(t)] /\ cmds' = cmds
         /\ pc[t] = "send_cmd"  => pc' = [pc EXCEPT ![t] = "send_set"] /\ cmds'.tbl = "none"
         /\ pc[t] = "send_data" => pc' = [pc EXCEPT ![t] = "send_rearm"] /\ cmds' = cmds
    BY DEF Writing, cmd_write, send_cmd, send_data, Goto
  <1>11. \A u \in Thread : /\ pc[u] = "cmd_write" => sem[CmdSem(u)] = 0
                           /\ pc[u] \in {"send_cmd", "send_set"} => sem["tx_ready"] = 0
                           /\ pc[u] = "send_set" => cmds.tbl # "cipsend"
    BY DEF AnswerInv, Fresh
  <1>12. OpenAsking'
    BY <1>0, <1>1, <1>7, <1>10 DEF OpenAsking, Asking, AtTake, CmdWait
  <1>13. OpenUngiven'
    <2>1. pc'[t] \in AtTake => sem[SemAt[pc'[t]]] = 0
      BY <1>0, <1>1, <1>10, <1>11 DEF AtTake, CmdWait, CmdSem, SemAt
    <2> QED BY <1>1, <1>7, <1>9, <2>1 DEF OpenUngiven
  <1>14. Fresh'
    BY <1>0, <1>1, <1>10, <1>11 DEF Fresh, CmdWait, CmdSem
  <1> QED BY <1>8, <1>12, <1>13, <1>14 DEF AnswerInv

(* A new call. *)
LEMMA AnswerCall ==
  ASSUME TypeOK, ChannelInv, AnswerInv, NEW t \in Thread, Call(t)
  PROVE  AnswerInv'
  <1> DEFINE Moves(l) ==
          /\ pc[t] = "idle" /\ pc' = [pc EXCEPT ![t] = l]
          /\ \A u \in Thread \ {t} : call'[u] = call[u]
          /\ UNCHANGED <<wake, sem, cmds, toModem, fromModem>>
  <1>1. \E l \in FreePc \cup LockPc : Moves(l)
    <2> USE DEF Begin, Goto, Enter, Return_, FreePc, LockPc, Function, TypeOK, modemVars
    <2>1. CASE getaddrinfo(t)
      BY <2>1 DEF getaddrinfo
    <2>2. ASSUME NEW s \in Socket, connect(t, s) PROVE \E l \in FreePc \cup LockPc : Moves(l)
      BY <2>2 DEF connect
    <2>3. ASSUME NEW s \in Socket, close(t, s) PROVE \E l \in FreePc \cup LockPc : Moves(l)
      BY <2>3 DEF close
    <2>4. ASSUME NEW s \in Socket, NEW d \in BOOLEAN, NEW n \in Parts, sendto(t, s, d, n)
          PROVE  \E l \in FreePc \cup LockPc : Moves(l)
      BY <2>4 DEF sendto
    <2> QED BY <2>1, <2>2, <2>3, <2>4 DEF Call
  <1>2. PICK l \in FreePc \cup LockPc : Moves(l)
    BY <1>1
  <1>3. \A u \in Thread : Open(u)' <=> Open(u)
    BY <1>2, SameLines
  <1> HIDE DEF Open
  <1>4. OpenAsking' /\ OpenUngiven' /\ Fresh'
    BY <1>2, <1>3 DEF AnswerInv, OpenAsking, OpenUngiven, Fresh, TypeOK, Asking, AtTake, FreePc, LockPc, CmdSem
  <1>5. LinesInv'
    <2>1. \A u \in Thread : Open(u) /\ pc[u] = "dns_wait" => pc'[u] = "dns_wait"
      BY <1>2 DEF TypeOK
    <2> QED BY <1>2, <2>1, SameLines DEF AnswerInv
  <1> QED BY <1>4, <1>5 DEF AnswerInv

-----------------------------------------------------------------------------
(* The RX thread. *)

(* What is left after the oldest line. *)
LEMMA ReceiveLines ==
  ASSUME TypeOK, LinesInv, NEW K, Receive(K)
  PROVE  /\ fromModem # <<>> /\ Head(fromModem).k \in K
         /\ Head(fromModem).by \in Thread \cup {NoThread}
         /\ 1 \in DOMAIN fromModem /\ Head(fromModem) = fromModem[1]
         /\ \A i \in DOMAIN fromModem' : /\ i + 1 \in DOMAIN fromModem /\ 1 < i + 1
                                        /\ fromModem'[i] = fromModem[i + 1]
         /\ \A u \in Thread : Open(u)' => Open(u)
         /\ LinesInv'
  <1>1. fromModem # <<>> /\ fromModem' = Tail(fromModem) /\ UNCHANGED <<toModem, pc>>
        /\ Head(fromModem).k \in K
    BY DEF Receive
  <1>2. /\ DOMAIN fromModem = 1 .. Len(fromModem) /\ Len(fromModem) \in Nat /\ Len(fromModem) >= 1
        /\ Head(fromModem) = fromModem[1] /\ DOMAIN fromModem' = 1 .. Len(fromModem) - 1
        /\ \A i \in 1 .. Len(fromModem) - 1 : fromModem'[i] = fromModem[i + 1]
    BY <1>1, Wires
  <1>3. \A i \in DOMAIN fromModem : fromModem[i].by \in Thread \cup {NoThread}
    <2>1. \A i \in 1 .. Len(fromModem) : fromModem[i] \in Line(Answer, Thread \cup {NoThread})
      BY SeqFacts DEF TypeOK
    <2> QED BY <1>2, <2>1 DEF Line
  <1>4. 1 \in DOMAIN fromModem
    BY <1>2
  <1>5. \A i \in DOMAIN fromModem' : /\ i + 1 \in DOMAIN fromModem /\ 1 < i + 1
                                   /\ fromModem'[i] = fromModem[i + 1]
    BY <1>2
  <1>6. \A u \in Thread : Open(u)' => Open(u)
    BY <1>1, <1>5 DEF Open, Asked, Answered
  <1>7. LinesInv'
    <2>1. Unasked' /\ OneAsked' /\ AskedFirst'
      BY <1>1, <1>5 DEF LinesInv, Unasked, OneAsked, AskedFirst
    <2>2. LastAnswer'
      <3> SUFFICES ASSUME NEW i \in DOMAIN fromModem', NEW j \in DOMAIN fromModem', i < j,
                          fromModem'[i].by # NoThread, fromModem'[j].by # NoThread
                   PROVE  fromModem'[i].k = "OK" /\ fromModem'[j].k \in Lookup
        BY DEF LastAnswer
      <3>1. i + 1 < j + 1
        BY <1>2
      <3> QED BY <1>5, <3>1 DEF LinesInv, LastAnswer
    <2>3. AtLookup'
      BY <1>1, <1>5 DEF LinesInv, AtLookup
    <2> QED BY <2>1, <2>2, <2>3 DEF LinesInv
  <1> QED BY <1>1, <1>2, <1>3, <1>4, <1>5, <1>6, <1>7

(* After the last answer of a command nothing of any command is under way. *)
LEMMA LastOne ==
  ASSUME TypeOK, ChannelInv, AnswerInv, NEW K, Receive(K), NEW t \in Thread, Head(fromModem).by = t,
         Head(fromModem).k \in Lookup \/ pc[t] # "dns_wait"
  PROVE  \A u \in Thread : ~Open(u)'
  <1>0. LinesInv /\ OpenAsking /\ UNCHANGED toModem
    BY DEF AnswerInv, Receive
  <1>1. /\ 1 \in DOMAIN fromModem /\ fromModem[1] = Head(fromModem) /\ fromModem[1].by = t
        /\ \A i \in DOMAIN fromModem' : /\ i + 1 \in DOMAIN fromModem /\ 1 < i + 1
                                       /\ fromModem'[i] = fromModem[i + 1]
    BY <1>0, ReceiveLines
  <1>2. t # NoThread /\ Open(t)
    BY <1>1, NoThreadFact DEF Open, Answered
  <1>3. toModem = <<>>
    BY <1>0, <1>1, <1>2 DEF LinesInv, AskedFirst
  <1>4. ASSUME NEW u \in Thread, NEW i \in DOMAIN fromModem', fromModem'[i].by = u PROVE FALSE
    <2>1. i + 1 \in DOMAIN fromModem /\ 1 < i + 1 /\ fromModem[i + 1].by = u /\ u # NoThread
      BY <1>1, <1>4, NoThreadFact
    <2>2. fromModem[1].k = "OK" /\ fromModem[i + 1].k \in Lookup
      BY <1>0, <1>1, <1>2, <2>1 DEF LinesInv, LastAnswer
    <2>3. pc[u] = "dns_wait" /\ Open(u)
      BY <1>0, <2>1, <2>2 DEF LinesInv, AtLookup, Open, Answered
    <2>4. u = t
      BY <1>0, <1>2, <2>3, OpenOwns
    <2> QED BY <1>1, <2>2, <2>3, <2>4 DEF Lookup
  <1>5. \A u \in Thread : ~Asked(u)'
    BY <1>0, <1>3 DEF Asked
  <1> QED BY <1>4, <1>5 DEF Open, Answered

(* A line that gives a semaphore of a command is of the command waited for. *)
LEMMA AnswerGiven ==
  ASSUME TypeOK, ChannelInv, AnswerInv, NEW K, Receive(K), Head(fromModem).k \notin OwnWill,
         NEW m \in {"response", "tx_ready", "dns"}, k_sem_give(m),
         m = "dns" => Head(fromModem).k \in Lookup,
         m = "tx_ready" => cmds.tbl = "cipsend"
  PROVE  AnswerInv'
  <1> DEFINE t == Head(fromModem).by
  <1>1. LinesInv /\ OpenAsking /\ UNCHANGED <<pc, call, cmds>>
    BY DEF AnswerInv, Receive
  <1>2. t \in Thread /\ Open(t)
    BY <1>1, ReceiveLines DEF LinesInv, Unasked, Open, Answered
  <1>3. LinesInv' /\ \A u \in Thread : Open(u)' => Open(u)
    BY <1>1, ReceiveLines
  <1>4. /\ Owner(t) /\ pc[t] \in Asking
        /\ \A u \in Thread : Owner(u) \/ Open(u) => u = t
    BY <1>1, <1>2, OpenOwns DEF OpenAsking
  <1>5. /\ \A n \in Semaphore : n # m => sem'[n] = sem[n]
        /\ \A u \in Thread : wake'[u] # wake[u] => pc[u] \in DOMAIN SemAt /\ SemAt[pc[u]] = m
    <2>1. m \in Semaphore \ {"tx_lock"} /\ WakeAtTake
      BY DEF Semaphore, ChannelInv
    <2> QED BY <2>1, OtherGive DEF k_sem_give, TypeOK
  <1>6. Fresh'
    <2>1. \A u \in Thread : pc[u] \notin {"cmd_write", "send_cmd"}
      BY <1>4 DEF Owner, HeldPc, Asking, AtTake
    <2>2. \A u \in Thread : pc[u] = "send_set" => m # "tx_ready" /\ sem["tx_ready"] = 0 /\ cmds.tbl # "cipsend"
      BY DEF AnswerInv, Fresh
    <2> QED BY <1>1, <1>5, <2>1, <2>2 DEF Fresh, Semaphore
  <1>7. OpenAsking'
    BY <1>1, <1>3 DEF OpenAsking
  <1>8. OpenUngiven'
    <2>1. CASE Head(fromModem).k \in Lookup \/ pc[t] # "dns_wait"
      <3>1. \A u \in Thread : ~Open(u)'
        BY <1>2, <2>1, LastOne
      <3> QED BY <3>1 DEF OpenUngiven
    <2>2. CASE pc[t] = "dns_wait" /\ m # "dns"
      <3>1. SemAt[pc[t]] = "dns" /\ "dns" \in Semaphore
        BY <2>2 DEF SemAt, Semaphore
      <3>2. wake'[t] = wake[t] /\ sem'["dns"] = sem["dns"]
        BY <1>2, <1>5, <2>2, <3>1
      <3> HIDE DEF t
      <3> QED BY <1>1, <1>3, <1>4, <3>1, <3>2 DEF OpenUngiven, AnswerInv
    <2> QED BY <2>1, <2>2
  <1> QED BY <1>3, <1>6, <1>7, <1>8 DEF AnswerInv

LEMMA AnswerRx ==
  ASSUME TypeOK, ChannelInv, AnswerInv, modem_rx
  PROVE  AnswerInv'
  <1> DEFINE K0 == {"OK", "ERROR", "CLOSE OK", "CLOSE FAIL", "SEND OK"}
  <1>1. CASE on_cmd_ok \/ on_cmd_error \/ on_cmd_cipclose \/ on_cmd_cipsend_ok
    <2>1. Receive(K0) /\ k_sem_give("response")
      BY <1>1 DEF on_cmd_ok, on_cmd_error, on_cmd_cipclose, on_cmd_cipsend_ok, Receive
    <2>2. Head(fromModem).k \notin OwnWill
      BY <2>1 DEF Receive, OwnWill
    <2> QED BY <2>1, <2>2, AnswerGiven
  <1>2. CASE on_cmd_tx_ready
    <2>1. Receive({">"}) /\ k_sem_give("tx_ready") /\ cmds.tbl = "cipsend"
      BY <1>2 DEF on_cmd_tx_ready
    <2>2. Head(fromModem).k \notin OwnWill
      BY <2>1 DEF Receive, OwnWill
    <2> QED BY <2>1, <2>2, AnswerGiven
  <1>3. CASE on_cmd_cdnsgip
    <2>1. Receive(Lookup) /\ k_sem_give("dns")
      BY <1>3 DEF on_cmd_cdnsgip, Lookup
    <2>2. Head(fromModem).k \notin OwnWill /\ Head(fromModem).k \in Lookup
      BY <2>1 DEF Receive, OwnWill, Lookup
    <2> QED BY <2>1, <2>2, AnswerGiven
  <1>4. CASE on_cmd_cipstart \/ unmatched
    <2>1. (\E K : Receive(K)) /\ (k_sem_give("sock_conn") \/ UNCHANGED <<wake, sem>>)
      BY <1>4 DEF on_cmd_cipstart, unmatched
    <2>2. LinesInv /\ UNCHANGED <<pc, call, cmds>>
      BY <2>1 DEF AnswerInv, Receive
    <2>3. LinesInv' /\ \A u \in Thread : Open(u)' => Open(u)
      BY <2>1, <2>2, ReceiveLines
    <2>4. /\ \A n \in Semaphore : n # "sock_conn" => sem'[n] = sem[n]
          /\ \A u \in Thread : wake'[u] # wake[u] => pc[u] \in DOMAIN SemAt /\ SemAt[pc[u]] = "sock_conn"
      <3>1. "sock_conn" \in Semaphore \ {"tx_lock"} /\ WakeAtTake
        BY DEF Semaphore, ChannelInv
      <3> QED BY <2>1, <3>1, OtherGive DEF k_sem_give, TypeOK
    <2>5. OpenAsking'
      BY <2>2, <2>3 DEF AnswerInv, OpenAsking
    <2>6. OpenUngiven'
      BY <2>2, <2>3, <2>4 DEF AnswerInv, OpenUngiven, AtTake, SemAt, Semaphore
    <2>7. Fresh'
      BY <2>2, <2>4 DEF AnswerInv, Fresh, CmdSem, Semaphore
    <2> QED BY <2>3, <2>5, <2>6, <2>7 DEF AnswerInv
  <1> QED BY <1>1, <1>2, <1>3, <1>4 DEF modem_rx

-----------------------------------------------------------------------------
(* The modem. *)

(* Lines that change hands keep their threads asking. *)
LEMMA HostKept ==
  ASSUME AnswerInv, UNCHANGED hostVars, \A u \in Thread : Open(u)' => Open(u), LinesInv'
  PROVE  AnswerInv'
  BY DEF AnswerInv, hostVars, OpenAsking, OpenUngiven, Fresh, CmdSem

(* What the modem reads is all that was asked. *)
LEMMA ModemReads ==
  ASSUME TypeOK, LinesInv, toModem # <<>>, toModem' = Tail(toModem)
  PROVE  /\ toModem' = <<>> /\ Head(toModem).by \in Thread /\ Open(Head(toModem).by)
         /\ \A i \in DOMAIN fromModem : fromModem[i].by = NoThread
         /\ Head(toModem).k = "CDNSGIP" => pc[Head(toModem).by] = "dns_wait"
  <1>1. /\ DOMAIN toModem = 1 .. Len(toModem) /\ Len(toModem) \in Nat /\ Len(toModem) >= 1
        /\ Head(toModem) = toModem[1] /\ toModem[1].by \in Thread
        /\ Tail(toModem) = <<>> <=> Len(toModem) = 1
    BY Wires
  <1>2. 1 \in DOMAIN toModem
    BY <1>1
  <1>3. Len(toModem) = 1
    <2>1. Len(toModem) \in DOMAIN toModem
      BY <1>1
    <2> QED BY <2>1 DEF LinesInv, OneAsked
  <1> QED BY <1>1, <1>2, <1>3 DEF LinesInv, AskedFirst, AtLookup, Open, Asked

LEMMA ModemSilent ==
  ASSUME TypeOK, AnswerInv, toModem # <<>>, toModem' = Tail(toModem), UNCHANGED <<hostVars, fromModem>>
  PROVE  AnswerInv'
  <1>1. toModem' = <<>> /\ LinesInv
    BY ModemReads DEF AnswerInv
  <1>2. LinesInv'
    BY <1>1 DEF LinesInv, Unasked, OneAsked, AskedFirst, LastAnswer, AtLookup, hostVars
  <1>3. \A u \in Thread : Open(u)' => Open(u)
    BY <1>1 DEF Open, Asked, Answered
  <1> QED BY <1>2, <1>3, HostKept

LEMMA ModemAnswers ==
  ASSUME TypeOK, AnswerInv, toModem # <<>>, toModem' = Tail(toModem), UNCHANGED hostVars,
         NEW ks \in Seq(Answer), Reply(ks),
         \A i \in DOMAIN ks : ks[i] \notin OwnWill /\ (ks[i] \in Lookup => Head(toModem).k = "CDNSGIP"),
         \A i, j \in DOMAIN ks : i < j => ks[i] = "OK" /\ ks[j] \in Lookup
  PROVE  AnswerInv'
  <1> DEFINE u == Head(toModem).by
             n == Len(fromModem)
  <1>1. /\ toModem' = <<>> /\ u \in Thread /\ Open(u) /\ LinesInv
        /\ \A i \in DOMAIN fromModem : fromModem[i].by = NoThread
        /\ Head(toModem).k = "CDNSGIP" => pc[u] = "dns_wait"
    BY ModemReads DEF AnswerInv
  <1>2. /\ DOMAIN ks = 1 .. Len(ks) /\ Len(ks) \in Nat
        /\ DOMAIN fromModem = 1 .. n /\ n \in Nat
        /\ DOMAIN fromModem' = 1 .. n + Len(ks)
        /\ \A i \in 1 .. n : fromModem'[i] = fromModem[i]
        /\ \A i \in 1 .. Len(ks) : fromModem'[n + i].k = ks[i] /\ fromModem'[n + i].by = u
    BY ReplyLines
  <1> HIDE DEF n, u
  <1>3. \A i \in DOMAIN fromModem' :
           \/ i \in DOMAIN fromModem /\ fromModem'[i] = fromModem[i]
           \/ i > n /\ i - n \in DOMAIN ks /\ fromModem'[i].k = ks[i - n] /\ fromModem'[i].by = u
    <2> SUFFICES ASSUME NEW i \in DOMAIN fromModem', i \notin DOMAIN fromModem
                 PROVE  i > n /\ i - n \in DOMAIN ks /\ fromModem'[i].k = ks[i - n] /\ fromModem'[i].by = u
      BY <1>2
    <2>1. i > n /\ i - n \in 1 .. Len(ks) /\ n + (i - n) = i
      BY <1>2
    <2> QED BY <1>2, <2>1
  <1>4. u # NoThread
    BY <1>1, NoThreadFact
  <1>5. Unasked' /\ OneAsked' /\ AskedFirst'
    BY <1>1, <1>3, <1>4 DEF LinesInv, Unasked, OneAsked, AskedFirst
  <1>6. LastAnswer'
    <2> SUFFICES ASSUME NEW i \in DOMAIN fromModem', NEW j \in DOMAIN fromModem', i < j,
                        fromModem'[i].by # NoThread, fromModem'[j].by # NoThread
                 PROVE  fromModem'[i].k = "OK" /\ fromModem'[j].k \in Lookup
      BY DEF LastAnswer
    <2>1. /\ i > n /\ i - n \in DOMAIN ks /\ fromModem'[i].k = ks[i - n]
          /\ j > n /\ j - n \in DOMAIN ks /\ fromModem'[j].k = ks[j - n]
      BY <1>1, <1>3
    <2>2. i - n < j - n
      BY <1>2
    <2> QED BY <2>1, <2>2
  <1>7. AtLookup'
    <2>1. \A i \in DOMAIN fromModem' : fromModem'[i].k \in Lookup => pc'[fromModem'[i].by] = "dns_wait"
      <3> SUFFICES ASSUME NEW i \in DOMAIN fromModem', fromModem'[i].k \in Lookup
                   PROVE  pc[fromModem'[i].by] = "dns_wait"
        BY DEF hostVars
      <3> QED BY <1>1, <1>3 DEF LinesInv, AtLookup, Unasked
    <2> QED BY <1>1, <2>1 DEF AtLookup
  <1>8. \A v \in Thread : Open(v)' => Open(v)
    BY <1>1, <1>3, NoThreadFact DEF Open, Asked, Answered
  <1>9. LinesInv'
    BY <1>5, <1>6, <1>7 DEF LinesInv
  <1> QED BY <1>8, <1>9, HostKept

LEMMA OneLine ==
  ASSUME TypeOK, AnswerInv, toModem # <<>>, toModem' = Tail(toModem), UNCHANGED hostVars,
         NEW k \in Answer, k \notin OwnWill \cup Lookup, Reply(<<k>>)
  PROVE  AnswerInv'
  <1> DEFINE q == <<k>>
  <1>1. q \in Seq(Answer) /\ DOMAIN q = {1} /\ q[1] = k /\ Reply(q)
    OBVIOUS
  <1> HIDE DEF q
  <1>2. \A i, j \in DOMAIN q : ~(i < j)
    BY <1>1
  <1>3. \A i \in DOMAIN q : q[i] \notin OwnWill \cup Lookup
    BY <1>1
  <1> QED BY <1>1, <1>2, <1>3, ModemAnswers

LEMMA LookupLines ==
  ASSUME TypeOK, AnswerInv, toModem # <<>>, toModem' = Tail(toModem), UNCHANGED hostVars,
         Head(toModem).k = "CDNSGIP", NEW k \in Lookup, Reply(<<"OK", k>>)
  PROVE  AnswerInv'
  <1> DEFINE q == <<"OK", k>>
  <1>1. k \in Answer /\ "OK" \in Answer /\ k \notin OwnWill /\ "OK" \notin OwnWill
    BY DEF Answer, Lookup, OwnWill
  <1>2. /\ q \in Seq(Answer) /\ DOMAIN q = {1, 2} /\ q[1] = "OK" /\ q[2] = k
    BY <1>1
  <1> HIDE DEF q
  <1>3. \A i, j \in DOMAIN q : i < j => q[i] = "OK" /\ q[j] \in Lookup
    BY <1>2
  <1>4. \A i \in DOMAIN q : q[i] \notin OwnWill
    BY <1>1, <1>2
  <1>5. Reply(q)
    BY DEF q
  <1> QED BY <1>2, <1>3, <1>4, <1>5, ModemAnswers

(* A line the modem sends of its own will. *)
LEMMA OwnLine ==
  ASSUME TypeOK, AnswerInv, UNCHANGED <<hostVars, toModem>>, NEW k \in OwnWill, NEW s \in Socket,
         fromModem' = Append(fromModem, [k |-> k, s |-> s, by |-> NoThread])
  PROVE  AnswerInv'
  <1> DEFINE l == [k |-> k, s |-> s, by |-> NoThread]
  <1>1. l \in Line(Answer, Thread \cup {NoThread}) /\ l.by = NoThread /\ l.k = k
    BY DEF Line, Answer, OwnWill
  <1>2. fromModem' = Append(fromModem, l)
    OBVIOUS
  <1> HIDE DEF l
  <1>3. \A i \in DOMAIN fromModem' :
           \/ i \in DOMAIN fromModem /\ fromModem'[i] = fromModem[i]
           \/ fromModem'[i].by = NoThread /\ fromModem'[i].k = k
    <2>1. fromModem \in Seq(Line(Answer, Thread \cup {NoThread}))
      BY DEF TypeOK
    <2>2. /\ DOMAIN fromModem = 1 .. Len(fromModem) /\ Len(fromModem) \in Nat
          /\ DOMAIN fromModem' = 1 .. Len(fromModem) + 1
          /\ \A i \in 1 .. Len(fromModem) : fromModem'[i] = fromModem[i]
          /\ fromModem'[Len(fromModem) + 1] = l
      BY <1>1, <1>2, <2>1, AppendFacts, SeqFacts
    <2> QED BY <1>1, <2>2
  <1>4. Unasked' /\ OneAsked' /\ AskedFirst' /\ LastAnswer'
    BY <1>3 DEF AnswerInv, LinesInv, Unasked, OneAsked, AskedFirst, LastAnswer
  <1>5. AtLookup'
    BY <1>3 DEF AnswerInv, LinesInv, AtLookup, Lookup, OwnWill, hostVars
  <1>6. \A u \in Thread : Open(u)' => Open(u)
    BY <1>3, NoThreadFact DEF Open, Asked, Answered
  <1> QED BY <1>4, <1>5, <1>6, HostKept DEF LinesInv

LEMMA AnswerModem ==
  ASSUME TypeOK, AnswerInv, modem
  PROVE  AnswerInv'
  <1> DEFINE Plain == Answer \ (OwnWill \cup Lookup)
  <1>1. CASE modem_cipstart \/ modem_cipclose \/ modem_cipsend \/ modem_payload
    <2>1. /\ toModem # <<>> /\ toModem' = Tail(toModem) /\ UNCHANGED hostVars
          /\ (\E k \in {"OK", "ERROR", "CLOSE OK", "CLOSE FAIL", ">", "SEND OK", "SEND FAIL"} : Reply(<<k>>))
             \/ UNCHANGED fromModem
      BY <1>1 DEF modem_cipstart, modem_cipclose, modem_cipsend, modem_payload, Execute
    <2>2. {"OK", "ERROR", "CLOSE OK", "CLOSE FAIL", ">", "SEND OK", "SEND FAIL"} \subseteq Plain
      BY DEF Answer, OwnWill, Lookup
    <2> QED BY <2>1, <2>2, OneLine, ModemSilent
  <1>2. CASE modem_cdnsgip
    <2>1. /\ toModem # <<>> /\ toModem' = Tail(toModem) /\ UNCHANGED hostVars
          /\ Head(toModem).k = "CDNSGIP"
          /\ \/ \E k \in Lookup : Reply(<<"OK", k>>)
             \/ Reply(<<"ERROR">>)
             \/ UNCHANGED fromModem
      BY <1>2 DEF modem_cdnsgip, Execute, Lookup
    <2>2. "ERROR" \in Plain
      BY DEF Answer, OwnWill, Lookup
    <2> QED BY <2>1, <2>2, OneLine, LookupLines, ModemSilent
  <1>3. ASSUME NEW s \in Socket, modem_dialled(s) \/ modem_lost(s) PROVE AnswerInv'
    <2>1. /\ UNCHANGED <<hostVars, toModem>>
          /\ \E k \in OwnWill : fromModem' = Append(fromModem, [k |-> k, s |-> s, by |-> NoThread])
      BY <1>3 DEF modem_dialled, modem_lost, OwnWill
    <2> QED BY <2>1, OwnLine
  <1> QED BY <1>1, <1>2, <1>3 DEF modem

-----------------------------------------------------------------------------
LEMMA AnswerInit == Init => AnswerInv
  BY DEF Init, AnswerInv, OpenAsking, OpenUngiven, Fresh, LinesInv, Unasked, OneAsked, AskedFirst,
     LastAnswer, AtLookup, Open, Asked, Answered

LEMMA AnswerNext ==
  ASSUME Late = FALSE, TypeOK, ChannelInv, AnswerInv, [Next]_vars
  PROVE  AnswerInv'
  <1>1. CASE UNCHANGED vars
    BY <1>1, SameLines, HostKept DEF vars, hostVars, modemVars, AnswerInv
  <1> QED BY <1>1, AnswerStep, AnswerWrite, AnswerCall, AnswerRx, AnswerModem DEF Next

(* When no answer is later than its timeout, a thread that a semaphore of  *)
(* its command wakes has nothing of that command left to be answered, for  *)
(* any number of threads: the reset before the command and the lock leave  *)
(* no other line to give it.                                               *)
THEOREM AnswersAreOurs == ASSUME Late = FALSE PROVE Spec => []AnswerIsOurs
  <1>1. Init => ChannelInv /\ AnswerInv
    BY ChannelInit, AnswerInit
  <1>2. TypeOK /\ ChannelInv /\ AnswerInv /\ [Next]_vars => ChannelInv' /\ AnswerInv'
    BY ChannelNext, AnswerNext
  <1>3. AnswerInv => AnswerIsOurs
    <2> SUFFICES ASSUME AnswerInv, NEW t \in Thread, wake[t] = "taken", pc[t] \in AtTake
                 PROVE  ~Awaited(t)
      BY DEF AnswerIsOurs, AtTake
    <2>1. ~Open(t)
      BY DEF AnswerInv, OpenUngiven
    <2>2. pc[t] # "conn_wait"
      BY DEF AtTake
    <2> QED BY <2>1, <2>2 DEF Awaited, Open, Asked, Answered
  <1> QED BY <1>1, <1>2, <1>3, TypeCorrect, PTL DEF Spec
===============================================================================
