------------------------------- MODULE ModemCmd -------------------------------
(***************************************************************************)
(* The AT command channel of the SIM800L driver: what connect, sendto,     *)
(* close and getaddrinfo (sim800l_offload.c) do to the semaphores, the     *)
(* command table and last_error they share, the RX thread that answers     *)
(* them line by line, and the modem at the other end of the UART.          *)
(*                                                                         *)
(* Application threads can be preempted between any two steps; the RX      *)
(* thread is cooperative (K_PRIO_COOP), so one handler is one step.        *)
(* modem_cmd_handler, k_sem and the modem are outside the repository and   *)
(* are modelled from the way the driver uses them.                         *)
(***************************************************************************)
EXTENDS Naturals, Sequences, FiniteSets

CONSTANTS
    Thread,      \* application threads that call the socket offload
    NoThread,    \* sender of an unsolicited line
    Socket,      \* modem socket ids in use
    Udp,         \* those of them that are SOCK_DGRAM
    Calls,       \* the offload functions the application uses
    Parts,       \* how many iovs its messages may have; 1: sendto or write
    Late,        \* may an answer arrive after its caller has timed out?
    MaxInFlight  \* bound: no new call while this many lines are under way

ASSUME ThreadAssumption == NoThread \notin Thread
ASSUME SocketAssumption == Socket \subseteq 0 .. 4 /\ Socket # {} /\ Udp \subseteq Socket
ASSUME CallsAssumption  == Calls \subseteq {"connect", "send", "close", "getaddrinfo"}
ASSUME PartsAssumption  == Parts \subseteq Nat \ {0}
ASSUME BoundAssumption  == MaxInFlight \in Nat /\ Late \in BOOLEAN

VARIABLES
    pc,            \* next step of each thread
    call,          \* the function each thread is in, the socket it is on, the
                   \* iovs of its message to come, and whether one has gone out
    wake,          \* each thread's k_sem_take: none, blocked, taken, again
    ret,           \* what the thread's call is about to return or returned
    sem,           \* semaphore counts
    cmds,          \* data->cmds[CMD_HANDLER] and the thread that set it
    last_error,    \* data->last_error
    is_connected,  \* modem_socket.is_connected
    dns_addr,      \* the static dns_result_addr
    toModem,       \* UART, host to modem: commands and payloads
    fromModem,     \* UART, modem to host: lines
    prompted,      \* whose CIPSEND the modem has prompted; NoThread: command mode
    link           \* the modem's connections

hostVars  == <<pc, call, wake, ret, sem, cmds, last_error, is_connected, dns_addr>>
modemVars == <<toModem, fromModem, prompted, link>>
vars      == <<hostVars, modemVars>>

-----------------------------------------------------------------------------
Semaphore == {"tx_lock", "response", "sock_conn", "tx_ready", "dns"}
Function  == {"connect", "send", "close", "getaddrinfo"}
Table     == {"none", "cipstart", "cipclose", "cipsend", "cdnsgip"}
Command   == {"CIPSTART", "CIPCLOSE", "CIPSEND", "CDNSGIP"}
Answer    == {"OK", "ERROR", "CONNECT OK", "CONNECT FAIL", "CLOSE OK",
              "CLOSE FAIL", ">", "SEND OK", "SEND FAIL", "DNS 1", "DNS 0",
              "CLOSED"}
Error     == {"0", "EIO", "ECONNREFUSED"}
Return    == Error \cup {"ETIMEDOUT", "EISCONN", "ENOTCONN", "EDESTADDRREQ", "EAI", "partial"}

Line(K, B) == [k : K, s : Socket, by : B]

(* The k_sem_take at each blocking step. *)
SemAt == [cmd_lock    |-> "tx_lock",   send_lock |-> "tx_lock",
          cmd_wait    |-> "response",  send_wait |-> "response",
          dns_wait    |-> "dns",       conn_wait |-> "sock_conn",
          send_prompt |-> "tx_ready"]

LockPc == {"cmd_lock", "send_lock"}
HeldPc == {"cmd_set", "cmd_arm", "cmd_write", "cmd_wait", "dns_wait",
           "cmd_unset", "cmd_unlock", "send_arm", "send_cmd", "send_set",
           "send_prompt", "send_data", "send_rearm", "send_wait"}
FreePc == {"idle", "dns_node", "conn_arm", "conn_set", "conn_wait", "close_done", "msg_next"}
Pc     == LockPc \cup HeldPc \cup FreePc

TableOf   == [connect |-> "none", close |-> "cipclose",
              getaddrinfo |-> "cdnsgip", send |-> "cipsend"]
CommandOf == [connect |-> "CIPSTART", close |-> "CIPCLOSE",
              getaddrinfo |-> "CDNSGIP", send |-> "CIPSEND"]

Init ==
    /\ pc           = [t \in Thread |-> "idle"]
    /\ call         = [t \in Thread |-> [f |-> "close", s |-> CHOOSE s \in Socket : TRUE,
                                        left |-> 0, begun |-> FALSE]]
    /\ wake         = [t \in Thread |-> "none"]
    /\ ret          = [t \in Thread |-> "ENOTCONN"]
    /\ sem          = [m \in Semaphore |-> IF m = "tx_lock" THEN 1 ELSE 0]
    /\ cmds         = [tbl |-> "none", by |-> NoThread]
    /\ last_error   = "0"
    /\ is_connected = [s \in Socket |-> FALSE]
    /\ dns_addr     = "zero"
    /\ toModem      = <<>>
    /\ fromModem    = <<>>
    /\ prompted     = NoThread
    /\ link         = [s \in Socket |-> "down"]

-----------------------------------------------------------------------------
(* Kernel and modem_cmd_handler primitives. *)

Goto(t, l)      == pc' = [pc EXCEPT ![t] = l]
Return_(t, r)   == Goto(t, "idle") /\ ret' = [ret EXCEPT ![t] = r]
Enter(t, l)     == Goto(t, l) /\ ret' = [ret EXCEPT ![t] = "0"]
Blocked(m)      == {t \in Thread : wake[t] = "blocked" /\ SemAt[pc[t]] = m}

(* A give goes straight to a waiter if there is one; the limit is 1. *)
k_sem_give(m) ==
    IF Blocked(m) = {}
    THEN sem' = [sem EXCEPT ![m] = 1] /\ UNCHANGED wake
    ELSE /\ \E t \in Blocked(m) : wake' = [wake EXCEPT ![t] = "taken"]
         /\ UNCHANGED sem

(* A reset clears the count and makes every waiter return -EAGAIN. *)
k_sem_reset(m) ==
    /\ sem' = [sem EXCEPT ![m] = 0]
    /\ wake' = [t \in Thread |-> IF t \in Blocked(m) THEN "again" ELSE wake[t]]

k_sem_take(t) ==
    /\ pc[t] \in DOMAIN SemAt /\ wake[t] = "none"
    /\ LET m == SemAt[pc[t]]
       IN  IF sem[m] = 1
           THEN /\ wake' = [wake EXCEPT ![t] = "taken"]
                /\ sem'  = [sem EXCEPT ![m] = 0]
           ELSE wake' = [wake EXCEPT ![t] = "blocked"] /\ UNCHANGED sem
    /\ UNCHANGED <<pc, call, ret, cmds, last_error, is_connected, dns_addr, modemVars>>

InFlight == Len(toModem) + Len(fromModem)

(* Something the modem or the wires still owe to t's current wait. *)
Awaited(t) ==
    \/ \E i \in DOMAIN toModem   : toModem[i].by = t
    \/ \E i \in DOMAIN fromModem : fromModem[i].by = t
    \/ /\ pc[t] = "conn_wait"
       /\ \/ link[call[t].s] = "dialing"
          \/ \E i \in DOMAIN fromModem :
                /\ fromModem[i].k \in {"CONNECT OK", "CONNECT FAIL"}
                /\ fromModem[i].s = call[t].s

(* Mutant: the wait for CONNECT OK has no timeout. *)
timeout_conn_forever(t) ==
    /\ wake[t] = "blocked" /\ pc[t] \notin LockPc \cup {"conn_wait"}
    /\ wake' = [wake EXCEPT ![t] = "again"]
    /\ UNCHANGED <<pc, call, ret, sem, cmds, last_error, is_connected, dns_addr, modemVars>>

(* Every wait but the one for the lock (K_FOREVER) has a timeout. *)
timeout(t) ==
    /\ wake[t] = "blocked" /\ pc[t] \notin LockPc
    /\ Late \/ ~Awaited(t)
    /\ wake' = [wake EXCEPT ![t] = "again"]
    /\ UNCHANGED <<pc, call, ret, sem, cmds, last_error, is_connected, dns_addr, modemVars>>

Woken(t, l, w) == pc[t] = l /\ wake[t] = w
Rest(t)        == wake' = [wake EXCEPT ![t] = "none"]

write(t, k) == toModem' = Append(toModem, [k |-> k, s |-> call[t].s, by |-> t])

-----------------------------------------------------------------------------
(* Calls. Connecting or closing a socket excludes other calls on it; that  *)
(* is the caller's duty, nothing in the driver enforces it.                *)

Excluded(t, f, s) ==
    \E u \in Thread \ {t} :
        /\ pc[u] # "idle" /\ call[u].f # "getaddrinfo" /\ call[u].s = s
        /\ f # "send" \/ call[u].f # "send"

Begin(t, f, s, parts) ==
    /\ f \in Calls /\ pc[t] = "idle" /\ InFlight < MaxInFlight
    /\ f = "getaddrinfo" \/ ~Excluded(t, f, s)
    /\ call' = [call EXCEPT ![t] = [f |-> f, s |-> s, left |-> parts - 1, begun |-> FALSE]]

connect(t, s) ==
    /\ Begin(t, "connect", s, 1)
    /\ IF is_connected[s] THEN Return_(t, "EISCONN")
                          ELSE Enter(t, "conn_arm")
    /\ UNCHANGED <<wake, sem, cmds, last_error, is_connected, dns_addr, modemVars>>

close(t, s) ==
    /\ Begin(t, "close", s, 1)
    /\ IF is_connected[s] THEN Enter(t, "cmd_lock")
                          ELSE Return_(t, "0")
    /\ UNCHANGED <<wake, sem, cmds, last_error, is_connected, dns_addr, modemVars>>

(* dest_addr lets an unconnected datagram socket through. A sendmsg of     *)
(* several iovs is a sendto of each, the first of them here.               *)
sendto(t, s, dest_addr, parts) ==
    /\ Begin(t, "send", s, parts)
    /\ IF is_connected[s] \/ (s \in Udp /\ dest_addr)
       THEN Enter(t, "send_lock")
       ELSE Return_(t, IF s \in Udp THEN "EDESTADDRREQ" ELSE "ENOTCONN")
    /\ UNCHANGED <<wake, sem, cmds, last_error, is_connected, dns_addr, modemVars>>

getaddrinfo(t) ==
    /\ Begin(t, "getaddrinfo", CHOOSE s \in Socket : TRUE, 1)
    /\ Enter(t, "dns_node")
    /\ dns_addr' = "zero"
    /\ UNCHANGED <<wake, sem, cmds, last_error, is_connected, modemVars>>

(* A bad service, AI_NUMERICHOST with a name, a literal address, a name. *)
dns_node(t) ==
    /\ pc[t] = "dns_node"
    /\ \/ Return_(t, "EAI") /\ UNCHANGED dns_addr
       \/ Return_(t, "0") /\ dns_addr' = "addr"
       \/ Goto(t, "cmd_lock") /\ UNCHANGED <<ret, dns_addr>>
    /\ UNCHANGED <<call, wake, sem, cmds, last_error, is_connected, modemVars>>

-----------------------------------------------------------------------------
(* modem_cmd_send: lock, install the handlers, reset and take the          *)
(* semaphore, read last_error, remove the handlers, unlock.                *)

locked(t) ==
    /\ \E l \in LockPc :
          Woken(t, l, "taken") /\ Goto(t, IF l = "cmd_lock" THEN "cmd_set" ELSE "send_arm")
    /\ Rest(t)
    /\ UNCHANGED <<call, ret, sem, cmds, last_error, is_connected, dns_addr, modemVars>>

cmd_set(t) ==
    /\ pc[t] = "cmd_set"
    /\ cmds' = [tbl |-> TableOf[call[t].f], by |-> t]
    /\ last_error' = "0"
    /\ Goto(t, "cmd_arm")
    /\ UNCHANGED <<call, wake, ret, sem, is_connected, dns_addr, modemVars>>

CmdSem(t)  == IF call[t].f = "getaddrinfo" THEN "dns" ELSE "response"
CmdWait(t) == IF call[t].f = "getaddrinfo" THEN "dns_wait" ELSE "cmd_wait"

cmd_arm(t) ==
    /\ pc[t] = "cmd_arm"
    /\ k_sem_reset(CmdSem(t))
    /\ Goto(t, "cmd_write")
    /\ UNCHANGED <<call, ret, cmds, last_error, is_connected, dns_addr, modemVars>>

cmd_write(t) ==
    /\ pc[t] = "cmd_write"
    /\ write(t, CommandOf[call[t].f])
    /\ Goto(t, CmdWait(t))
    /\ UNCHANGED <<call, wake, ret, sem, cmds, last_error, is_connected, dns_addr,
                   fromModem, prompted, link>>

cmd_wait(t) ==
    /\ pc[t] \in {"cmd_wait", "dns_wait"}
    /\ \/ wake[t] = "taken" /\ ret' = [ret EXCEPT ![t] = last_error]
       \/ wake[t] = "again" /\ ret' = [ret EXCEPT ![t] = "ETIMEDOUT"]
    /\ Goto(t, "cmd_unset") /\ Rest(t)
    /\ UNCHANGED <<call, sem, cmds, last_error, is_connected, dns_addr, modemVars>>

cmd_unset(t) ==
    /\ pc[t] = "cmd_unset"
    /\ cmds' = [tbl |-> "none", by |-> NoThread]
    /\ Goto(t, "cmd_unlock")
    /\ UNCHANGED <<call, wake, ret, sem, last_error, is_connected, dns_addr, modemVars>>

AfterCmd(t) == CASE call[t].f = "close" -> "close_done"
                 [] call[t].f = "connect" /\ ret[t] = "0" -> "conn_set"
                 [] call[t].f = "send" /\ ret[t] = "0" /\ call[t].left > 0 -> "msg_next"
                 [] OTHER -> "idle"

cmd_unlock(t) ==
    /\ pc[t] = "cmd_unlock"
    /\ k_sem_give("tx_lock")
    /\ Goto(t, AfterCmd(t))
    /\ UNCHANGED <<call, ret, cmds, last_error, is_connected, dns_addr, modemVars>>

(* A failed CIPCLOSE is only logged. *)
close_done(t) ==
    /\ pc[t] = "close_done"
    /\ is_connected' = [is_connected EXCEPT ![call[t].s] = FALSE]
    /\ Return_(t, "0")
    /\ UNCHANGED <<call, wake, sem, cmds, last_error, dns_addr, modemVars>>

-----------------------------------------------------------------------------
(* offload_connect around its modem_cmd_send: the semaphore is reset       *)
(* before, the handler is installed after, both without the lock.          *)

conn_arm(t) ==
    /\ pc[t] = "conn_arm"
    /\ k_sem_reset("sock_conn")
    /\ Goto(t, "cmd_lock")
    /\ UNCHANGED <<call, ret, cmds, last_error, is_connected, dns_addr, modemVars>>

conn_set(t) ==
    /\ pc[t] = "conn_set"
    /\ cmds' = [tbl |-> "cipstart", by |-> t]
    /\ last_error' = "0"
    /\ Goto(t, "conn_wait")
    /\ UNCHANGED <<call, wake, ret, sem, is_connected, dns_addr, modemVars>>

(* Mutant: the error path gives a lock the caller does not have. *)
conn_timeout_unlock(t) ==
    /\ Woken(t, "conn_wait", "again")
    /\ Return_(t, "ETIMEDOUT") /\ Rest(t)
    /\ sem' = [sem EXCEPT !["tx_lock"] = 1]
    /\ UNCHANGED <<call, cmds, last_error, is_connected, dns_addr, modemVars>>

conn_timeout(t) ==
    /\ Woken(t, "conn_wait", "again")
    /\ Return_(t, "ETIMEDOUT") /\ Rest(t)
    /\ UNCHANGED <<call, sem, cmds, last_error, is_connected, dns_addr, modemVars>>

conn_done(t) ==
    /\ Woken(t, "conn_wait", "taken")
    /\ is_connected' = [is_connected EXCEPT ![call[t].s] = @ \/ last_error = "0"]
    /\ Return_(t, last_error) /\ Rest(t)
    /\ UNCHANGED <<call, sem, cmds, last_error, dns_addr, modemVars>>

-----------------------------------------------------------------------------
(* offload_sendto. *)

send_arm(t) ==
    /\ pc[t] = "send_arm"
    /\ k_sem_reset("tx_ready")
    /\ Goto(t, "send_cmd")
    /\ UNCHANGED <<call, ret, cmds, last_error, is_connected, dns_addr, modemVars>>

send_cmd(t) ==
    /\ pc[t] = "send_cmd"
    /\ cmds' = [tbl |-> "none", by |-> NoThread]
    /\ last_error' = "0"
    /\ write(t, "CIPSEND")
    /\ Goto(t, "send_set")
    /\ UNCHANGED <<call, wake, ret, sem, is_connected, dns_addr,
                   fromModem, prompted, link>>

send_set(t) ==
    /\ pc[t] = "send_set"
    /\ cmds' = [tbl |-> TableOf["send"], by |-> t]
    /\ last_error' = "0"
    /\ Goto(t, "send_prompt")
    /\ UNCHANGED <<call, wake, ret, sem, is_connected, dns_addr, modemVars>>

(* Mutant: the lock is given back, but the prompt is not cancelled. *)
send_giveup_unlock(t) ==
    /\ Woken(t, "send_prompt", "again")
    /\ Goto(t, "cmd_unset") /\ ret' = [ret EXCEPT ![t] = "EIO"] /\ Rest(t)
    /\ UNCHANGED <<call, sem, cmds, last_error, is_connected, dns_addr, modemVars>>

(* sendmsg reports no error once something has gone out. *)
Failed(t, e) == IF call[t].begun THEN "partial" ELSE e

(* No prompt in time: return, with the lock taken and the table installed. *)
send_giveup(t) ==
    /\ Woken(t, "send_prompt", "again")
    /\ Return_(t, Failed(t, "EIO")) /\ Rest(t)
    /\ UNCHANGED <<call, sem, cmds, last_error, is_connected, dns_addr, modemVars>>

send_prompt(t) ==
    /\ Woken(t, "send_prompt", "taken")
    /\ Goto(t, "send_data") /\ Rest(t)
    /\ UNCHANGED <<call, ret, sem, cmds, last_error, is_connected, dns_addr, modemVars>>

send_data(t) ==
    /\ pc[t] = "send_data"
    /\ write(t, "payload")
    /\ Goto(t, "send_rearm")
    /\ UNCHANGED <<call, wake, ret, sem, cmds, last_error, is_connected, dns_addr,
                   fromModem, prompted, link>>

(* Mutant: the semaphore keeps what earlier lines gave it. *)
send_rearm_no_reset(t) ==
    /\ pc[t] = "send_rearm"
    /\ Goto(t, "send_wait")
    /\ UNCHANGED <<call, wake, ret, sem, cmds, last_error, is_connected, dns_addr, modemVars>>

(* The semaphore is reset after the payload has left. *)
send_rearm(t) ==
    /\ pc[t] = "send_rearm"
    /\ k_sem_reset("response")
    /\ Goto(t, "send_wait")
    /\ UNCHANGED <<call, ret, cmds, last_error, is_connected, dns_addr, modemVars>>

(* Mutant: the error path skips the removal of the handlers. *)
send_wait_keep_cmds(t) ==
    /\ pc[t] = "send_wait"
    /\ \/ wake[t] = "taken" /\ ret' = [ret EXCEPT ![t] = "0"] /\ Goto(t, "cmd_unset")
       \/ wake[t] = "again" /\ ret' = [ret EXCEPT ![t] = "ETIMEDOUT"] /\ Goto(t, "cmd_unlock")
    /\ Rest(t)
    /\ UNCHANGED <<call, sem, cmds, last_error, is_connected, dns_addr, modemVars>>

(* Mutant: the kernel's -EAGAIN is passed on. *)
send_wait_raw(t) ==
    /\ pc[t] = "send_wait" /\ wake[t] # "none"
    /\ ret' = [ret EXCEPT ![t] = IF wake[t] = "taken" THEN "0" ELSE "EAGAIN"]
    /\ Goto(t, "cmd_unset") /\ Rest(t)
    /\ UNCHANGED <<call, sem, cmds, last_error, is_connected, dns_addr, modemVars>>

(* last_error is not looked at. *)
send_wait(t) ==
    /\ pc[t] = "send_wait"
    /\ \/ wake[t] = "taken" /\ ret' = [ret EXCEPT ![t] = "0"]
       \/ wake[t] = "again" /\ ret' = [ret EXCEPT ![t] = Failed(t, "ETIMEDOUT")]
    /\ Goto(t, "cmd_unset") /\ Rest(t)
    /\ UNCHANGED <<call, sem, cmds, last_error, is_connected, dns_addr, modemVars>>

(* The loop of offload_sendmsg: the next iov, without an address and        *)
(* without the lock in between; no more after one that was longer than      *)
(* MDM_MAX_DATA_LENGTH.                                                     *)
msg_next(t) ==
    /\ pc[t] = "msg_next"
    /\ \/ /\ call[t].left > 0 /\ is_connected[call[t].s]
          /\ call' = [call EXCEPT ![t].left = @ - 1, ![t].begun = TRUE]
          /\ Enter(t, "send_lock")
       \/ Return_(t, "partial") /\ UNCHANGED call
    /\ UNCHANGED <<wake, sem, cmds, last_error, is_connected, dns_addr, modemVars>>

-----------------------------------------------------------------------------
(* The RX thread: modem_cmd_handler_process hands the oldest line to the   *)
(* handler that matches it, in the response table or the installed one.    *)

Receive(K) == /\ fromModem # <<>> /\ Head(fromModem).k \in K
              /\ fromModem' = Tail(fromModem)
              /\ UNCHANGED <<pc, call, ret, cmds, is_connected, toModem, prompted, link>>

on_cmd_ok == /\ Receive({"OK"})
             /\ last_error' = "0" /\ k_sem_give("response") /\ UNCHANGED dns_addr

on_cmd_error == /\ Receive({"ERROR"})
                /\ last_error' = "EIO" /\ k_sem_give("response") /\ UNCHANGED dns_addr

(* The socket id is parsed for the log only. *)
on_cmd_cipstart ==
    /\ cmds.tbl = "cipstart" /\ Receive({"CONNECT OK", "CONNECT FAIL"})
    /\ last_error' = IF Head(fromModem).k = "CONNECT OK" THEN "0" ELSE "ECONNREFUSED"
    /\ k_sem_give("sock_conn") /\ UNCHANGED dns_addr

on_cmd_cipclose ==
    /\ cmds.tbl = "cipclose" /\ Receive({"CLOSE OK", "CLOSE FAIL"})
    /\ last_error' = IF Head(fromModem).k = "CLOSE OK" THEN "0" ELSE "EIO"
    /\ k_sem_give("response") /\ UNCHANGED dns_addr

on_cmd_tx_ready == /\ cmds.tbl = "cipsend" /\ Receive({">"})
                   /\ k_sem_give("tx_ready") /\ UNCHANGED <<last_error, dns_addr>>

(* The table matches the text "0, SEND OK". *)
on_cmd_cipsend_ok ==
    /\ cmds.tbl = "cipsend" /\ Receive({"SEND OK"}) /\ Head(fromModem).s = 0
    /\ last_error' = "0" /\ k_sem_give("response") /\ UNCHANGED dns_addr

on_cmd_cdnsgip ==
    /\ cmds.tbl = "cdnsgip" /\ Receive({"DNS 1", "DNS 0"})
    /\ dns_addr' = IF Head(fromModem).k = "DNS 1" THEN "addr" ELSE dns_addr
    /\ k_sem_give("dns") /\ UNCHANGED last_error

(* What the installed tables match; "SEND FAIL" never starts a line.       *)
Matched(l) ==
    \/ l.k \in {"OK", "ERROR"}
    \/ cmds.tbl = "cipstart" /\ l.k \in {"CONNECT OK", "CONNECT FAIL"}
    \/ cmds.tbl = "cipclose" /\ l.k \in {"CLOSE OK", "CLOSE FAIL"}
    \/ cmds.tbl = "cipsend"  /\ (l.k = ">" \/ (l.k = "SEND OK" /\ l.s = 0))
    \/ cmds.tbl = "cdnsgip"  /\ l.k \in {"DNS 1", "DNS 0"}

unmatched == /\ Receive(Answer) /\ ~Matched(Head(fromModem))
             /\ UNCHANGED <<wake, sem, last_error, dns_addr>>

modem_rx == \/ on_cmd_ok \/ on_cmd_error \/ on_cmd_cipstart \/ on_cmd_cipclose
            \/ on_cmd_tx_ready \/ on_cmd_cipsend_ok \/ on_cmd_cdnsgip \/ unmatched

-----------------------------------------------------------------------------
(* The modem. In command mode it reads a command and answers it or stays   *)
(* silent; after the prompt it takes whatever comes next as the payload.   *)

Reply(ks) ==
    LET c == Head(toModem)
    IN  fromModem' = fromModem \o [i \in DOMAIN ks |-> [k |-> ks[i], s |-> c.s, by |-> c.by]]

Execute(k) == /\ prompted = NoThread /\ toModem # <<>> /\ Head(toModem).k = k
              /\ toModem' = Tail(toModem)
              /\ UNCHANGED hostVars

modem_cipstart ==
    /\ Execute("CIPSTART")
    /\ LET s == Head(toModem).s
       IN  \/ /\ link[s] \notin {"dialing", "up"}
              /\ link' = [link EXCEPT ![s] = "dialing"] /\ Reply(<<"OK">>)
           \/ Reply(<<"ERROR">>) /\ UNCHANGED link
           \/ UNCHANGED <<fromModem, link>>
    /\ UNCHANGED prompted

modem_dialled(s) ==
    /\ link[s] = "dialing"
    /\ \E ok \in BOOLEAN :
          /\ link' = [link EXCEPT ![s] = IF ok THEN "up" ELSE "refused"]
          /\ fromModem' = Append(fromModem,
                [k |-> IF ok THEN "CONNECT OK" ELSE "CONNECT FAIL", s |-> s, by |-> NoThread])
    /\ UNCHANGED <<hostVars, toModem, prompted>>

modem_lost(s) ==
    /\ link[s] = "up"
    /\ link' = [link EXCEPT ![s] = "lost"]
    /\ fromModem' = Append(fromModem, [k |-> "CLOSED", s |-> s, by |-> NoThread])
    /\ UNCHANGED <<hostVars, toModem, prompted>>

modem_cipclose ==
    /\ Execute("CIPCLOSE")
    /\ LET s == Head(toModem).s
       IN  \/ link' = [link EXCEPT ![s] = "down"] /\ Reply(<<"CLOSE OK">>)
           \/ \E k \in {"CLOSE FAIL", "ERROR"} : Reply(<<k>>) /\ UNCHANGED link
           \/ UNCHANGED <<fromModem, link>>
    /\ UNCHANGED prompted

modem_cipsend ==
    /\ Execute("CIPSEND")
    /\ \/ /\ link[Head(toModem).s] = "up"
          /\ prompted' = Head(toModem).by /\ Reply(<<">">>)
       \/ Reply(<<"ERROR">>) /\ UNCHANGED prompted
       \/ UNCHANGED <<fromModem, prompted>>
    /\ UNCHANGED link

modem_cdnsgip ==
    /\ Execute("CDNSGIP")
    /\ \/ \E k \in {"DNS 1", "DNS 0"} : Reply(<<"OK", k>>)
       \/ Reply(<<"ERROR">>)
       \/ UNCHANGED fromModem
    /\ UNCHANGED <<prompted, link>>

modem_payload ==
    /\ prompted # NoThread /\ toModem # <<>>
    /\ toModem' = Tail(toModem) /\ prompted' = NoThread
    /\ \/ \E k \in {"SEND OK", "SEND FAIL", "ERROR"} : Reply(<<k>>)
       \/ UNCHANGED fromModem
    /\ UNCHANGED <<hostVars, link>>

modem == \/ modem_cipstart \/ modem_cipclose \/ modem_cipsend \/ modem_cdnsgip
         \/ modem_payload \/ \E s \in Socket : modem_dialled(s) \/ modem_lost(s)

-----------------------------------------------------------------------------
Step(t) ==
    \/ k_sem_take(t) \/ timeout(t)
    \/ dns_node(t) \/ locked(t) \/ cmd_set(t) \/ cmd_arm(t) \/ cmd_write(t)
    \/ cmd_wait(t) \/ cmd_unset(t) \/ cmd_unlock(t) \/ close_done(t)
    \/ conn_arm(t) \/ conn_set(t) \/ conn_timeout(t) \/ conn_done(t)
    \/ send_arm(t) \/ send_cmd(t) \/ send_set(t) \/ send_giveup(t)
    \/ send_prompt(t) \/ send_data(t) \/ send_rearm(t) \/ send_wait(t) \/ msg_next(t)

Call(t) == \/ getaddrinfo(t)
           \/ \E s \in Socket : \/ connect(t, s) \/ close(t, s)
                                \/ \E d \in BOOLEAN, n \in Parts : sendto(t, s, d, n)

Next == \/ \E t \in Thread : Call(t) \/ Step(t)
        \/ modem_rx \/ modem

Spec == Init /\ [][Next]_vars

(* The scheduler runs every ready thread and every timeout expires. The    *)
(* modem owes nothing: no fairness is assumed of it, nor of new calls.     *)
FairSpec == Spec /\ \A t \in Thread : WF_vars(Step(t)) /\ WF_vars(modem_rx)

-----------------------------------------------------------------------------
(* Properties. *)

TypeOK ==
    /\ pc           \in [Thread -> Pc]
    /\ call         \in [Thread -> [f : Function, s : Socket, left : Nat, begun : BOOLEAN]]
    /\ wake         \in [Thread -> {"none", "blocked", "taken", "again"}]
    /\ ret          \in [Thread -> Return]
    /\ sem          \in [Semaphore -> {0, 1}]
    /\ cmds         \in [tbl : Table, by : Thread \cup {NoThread}]
    /\ last_error   \in Error
    /\ is_connected \in [Socket -> BOOLEAN]
    /\ dns_addr     \in {"zero", "addr"}
    /\ toModem      \in Seq(Line(Command \cup {"payload"}, Thread))
    /\ fromModem    \in Seq(Line(Answer, Thread \cup {NoThread}))
    /\ prompted     \in Thread \cup {NoThread}
    /\ link         \in [Socket -> {"down", "dialing", "up", "refused", "lost"}]

(* A thread that has sem_tx_lock. *)
Owner(t) == pc[t] \in HeldPc \/ (pc[t] \in LockPc /\ wake[t] = "taken")

(* offload_sendto returned with the lock: nobody has it, nobody can get it. *)
LockLeaked ==
    /\ sem["tx_lock"] = 0 /\ \A t \in Thread : ~Owner(t)
    /\ cmds.tbl \in {"cipsend", "cipstart"}

(* One thread at a time uses the command channel: it alone writes to the    *)
(* modem and waits on sem_response, sem_dns or sem_tx_ready (sem_tx_lock in *)
(* modem_cmd_send and offload_sendto), so no reset aborts another's wait;   *)
(* it is lost only to a send that got no prompt.                            *)
OneChannelUser ==
    /\ \A t, u \in Thread : Owner(t) /\ Owner(u) => t = u
    /\ sem["tx_lock"] = 0 <=> (LockLeaked \/ \E t \in Thread : Owner(t))

(* The modem reads a payload exactly when it has prompted for it, for the   *)
(* connection of the CIPSEND it prompted: no AT command is sent as data and *)
(* no data is run as a command, whatever times out (offload_sendto).        *)
Framing ==
    /\ prompted # NoThread /\ toModem # <<>> =>
          Head(toModem).k = "payload" /\ Head(toModem).by = prompted
    /\ prompted = NoThread /\ toModem # <<>> => Head(toModem).k # "payload"

(* The channel as CommandChannel sees it. *)
Holders == {t \in Thread : Owner(t)}
Seen(q) == [i \in DOMAIN q |-> [by |-> q[i].by, data |-> q[i].k = "payload"]]
Wire    == Seen(toModem)

Channel == INSTANCE CommandChannel WITH holders <- Holders, lost <- LockLeaked, wire <- Wire

(* The driver, its RX thread and the modem implement the abstract channel:  *)
(* every step of modem_cmd_send, offload_sendto and the modem is one of its *)
(* steps or changes nothing it sees.                                        *)
ChannelUsed == Channel!Spec

(* A command's success is its own: a thread woken by an answer has nothing  *)
(* of its command left to be answered (the k_sem_reset of modem_cmd_send;   *)
(* needs answers that are never later than their timeout).                  *)
AnswerIsOurs ==
    \A t \in Thread :
        /\ wake[t] = "taken" /\ pc[t] \in {"cmd_wait", "dns_wait", "send_prompt", "send_wait"}
        => ~Awaited(t)

(* RX never dispatches through a table on the stack of a call that is over, *)
(* except the one a failed send leaves behind with the lock                 *)
(* (handler_cmds of offload_sendto, cmd of offload_getaddrinfo).            *)
FramesAlive ==
    /\ cmds.tbl = "cdnsgip" => pc[cmds.by] \in HeldPc /\ call[cmds.by].f = "getaddrinfo"
    /\ cmds.tbl = "cipsend" =>
          \/ pc[cmds.by] \in HeldPc /\ call[cmds.by].f = "send"
          \/ LockLeaked

(* connect marks a socket connected only if the modem did open that socket  *)
(* (on_cmd_cipstart and the tail of offload_connect).                       *)
ConnectTruth ==
    [][\A s \in Socket : ~is_connected[s] /\ is_connected'[s] => link[s] \in {"up", "lost"}]_vars

(* Every call returns, unless a send has walked off with the lock.          *)
CallsReturn ==
    \A t \in Thread : pc[t] # "idle" ~> (pc[t] = "idle" \/ LockLeaked)

(* A close returns (tests/modem/src/main.c closes after a failed send).     *)
CloseReturns ==
    \A t \in Thread : (pc[t] # "idle" /\ call[t].f = "close") ~> pc[t] = "idle"
=============================================================================
