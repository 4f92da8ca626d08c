------------------------------- MODULE SocketRx -------------------------------
(***************************************************************************)
(* Receiving: +RECEIVE URCs and their payload on the UART, the RX thread   *)
(* that moves the payload into a socket's net_buf (on_urc_receive), and    *)
(* the threads that open, read and close sockets (sim800l_offload.c).      *)
(*                                                                         *)
(* The UART carries elements: a URC header up to its CR, the LF after it,  *)
(* payload bytes. A byte is its position in what the peer sent. The RX     *)
(* thread is cooperative: it only loses the CPU where it sleeps or waits.  *)
(* modem_socket, net_buf and the kernel are outside the repository.        *)
(***************************************************************************)
EXTENDS Naturals, FiniteSets, SequencesExt

CONSTANTS
    Thread,      \* application threads
    Calls,       \* the calls it makes: <<thread, call, socket>>
    RX,          \* the RX thread, as the owner of a lock
    None,        \* no owner, no buffer, no call
    Socket,      \* socket slots
    BufSize,     \* MDM_RECV_BUF_SIZE, scaled down
    PoolSize,    \* MDM_RECV_MAX_BUF, scaled down
    Chunk,       \* sizeof(chunk), scaled down
    MaxRetries,  \* max_retries of on_urc_receive, scaled down
    MaxPackets,  \* CONFIG_MODEM_SOCKET_PACKET_COUNT, scaled down
    Prompt,      \* does RX see a header before the byte after it arrives?
    MaxPayload,  \* bound: bytes in one +RECEIVE
    MaxBytes     \* bound: bytes ever sent

ASSUME SocketAssumption == IsFiniteSet(Socket) /\ None \notin Socket
ASSUME OwnerAssumption == RX \notin Thread /\ None \notin Thread \cup {RX}
ASSUME CallsAssumption == Calls \subseteq Thread \X {"socket", "close", "recvfrom"} \X Socket
ASSUME SizeAssumption  ==
    /\ {BufSize, PoolSize, Chunk, MaxPackets, MaxPayload} \subseteq Nat \ {0}
    /\ MaxRetries \in Nat /\ MaxBytes \in Nat /\ Prompt \in BOOLEAN

VARIABLES
    pc,          \* next step of each thread
    on,          \* the socket of each thread's call
    to_read,     \* bytes the recvfrom is about to take
    allocated,   \* modem_socket: is the slot in use?
    rx_buf,      \* sim800l_socket_data.rx_buf: None or bytes and room used
    buffered,    \* sim800l_socket_data.buffered
    lock,        \* sim800l_socket_data.lock: owner
    sizes,       \* modem_socket.packet_sizes
    is_waiting,  \* modem_socket.is_waiting
    data_ready,  \* modem_socket.sem_data_ready
    is_connected, \* modem_socket.is_connected: what offload_connect found
    pool,        \* free buffers of mdm_recv_pool
    rx,          \* the RX thread
    line,        \* what modem_cmd_handler has taken from the UART
    uart,        \* what it has not
    link,        \* connections the modem has open
    owed,        \* payload the modem still has to send after a header
    sent,        \* bytes sent to each socket so far
    got,         \* ghost: what the readers of this connection were given
    base,        \* ghost: bytes sent before this connection
    lapse,       \* ghost: losses the driver logged on this connection
    orphaned,    \* ghost: slots closed with more to come for them
    wiped        \* ghost: buffers the memset of a slot made forget

app   == <<pc, on, to_read>>
slot  == <<allocated, sizes, is_waiting, data_ready, is_connected>>
data  == <<rx_buf, buffered, lock, pool>>
wire  == <<line, uart, link, owed, sent>>
ghost == <<got, base, lapse, orphaned, wiped>>
vars  == <<app, slot, data, rx, wire, ghost>>

Pc == {"idle", "socket_init", "recv_flag", "recv_wait", "recv_next", "recv_lock",
       "recv_size", "recv_more", "close_modem", "close_lock", "close_put"}

Header  == [k : {"hdr"}, s : Socket, b : 1 .. MaxPayload]
Byte    == [k : {"data"}, s : Socket, b : Nat \ {0}]
LF      == [k |-> "lf"]
Element == Header \cup Byte \cup {LF}
Buffer  == [bytes : Seq(Element), used : 0 .. BufSize]

ASSUME BufferAssumption == None \notin Buffer

Idle == [pc |-> "idle", s |-> None, left |-> 0, skip |-> 0, retry |-> 0, total |-> 0]

Init ==
    /\ pc = [t \in Thread |-> "idle"] /\ on = [t \in Thread |-> None]
    /\ to_read = [t \in Thread |-> 0]
    /\ allocated = [s \in Socket |-> FALSE]
    /\ rx_buf = [s \in Socket |-> None] /\ buffered = [s \in Socket |-> 0]
    /\ lock = [s \in Socket |-> None] /\ pool = PoolSize
    /\ sizes = [s \in Socket |-> <<>>]
    /\ is_waiting = [s \in Socket |-> FALSE] /\ data_ready = [s \in Socket |-> 0]
    /\ is_connected = [s \in Socket |-> FALSE]
    /\ rx = Idle /\ line = <<>> /\ uart = <<>>
    /\ link = [s \in Socket |-> FALSE] /\ owed = <<>>
    /\ sent = [s \in Socket |-> 0] /\ got = [s \in Socket |-> <<>>]
    /\ base = [s \in Socket |-> 0] /\ lapse = [s \in Socket |-> {}]
    /\ orphaned = {} /\ wiped = 0

Goto(t, l) == pc' = [pc EXCEPT ![t] = l]
Done(t)    == Goto(t, "idle") /\ on' = [on EXCEPT ![t] = None]
Bytes(s)   == IF rx_buf[s] = None THEN <<>> ELSE rx_buf[s].bytes

-----------------------------------------------------------------------------
(* modem_socket_packet_size_update(total): drop or shrink packets from the *)
(* front, or add one; -ENOMEM, which the driver ignores, when full.        *)

Upto(q) == LET sum[i \in 0 .. Len(q)] == IF i = 0 THEN 0 ELSE sum[i - 1] + q[i] IN sum
Total(q)     == Upto(q)[Len(q)]
Shrunk(q, n) ==
    LET i == CHOOSE i \in 0 .. Len(q) : Upto(q)[i] <= n /\ (i = Len(q) \/ Upto(q)[i + 1] > n)
        r == SubSeq(q, i + 1, Len(q))
    IN  IF r = <<>> THEN r ELSE [r EXCEPT ![1] = @ - (n - Upto(q)[i])]

Resized(q, total) ==
    IF total = 0 THEN <<>>
    ELSE IF total <= Total(q) THEN Shrunk(q, Total(q) - total)
    ELSE IF Len(q) >= MaxPackets THEN q
    ELSE Append(q, total - Total(q))

packet_size_update(s, total) == sizes' = [sizes EXCEPT ![s] = Resized(@, total)]
next_packet_size(s)          == IF sizes[s] = <<>> THEN 0 ELSE Head(sizes[s])

(* modem_socket_data_ready: only a thread that said it waits is woken. *)
data_ready_give(s) ==
    /\ is_waiting' = [is_waiting EXCEPT ![s] = FALSE]
    /\ data_ready' = [data_ready EXCEPT ![s] = IF is_waiting[s] THEN 1 ELSE @]

-----------------------------------------------------------------------------
(* modem_offload_socket: modem_socket_get, then the memset of the slot's   *)
(* data and k_mutex_init. No other call may be on the slot (the caller's   *)
(* duty), but the RX thread may.                                           *)

socket_get(t, s) ==
    /\ pc[t] = "idle" /\ ~allocated[s] /\ \A u \in Thread : on[u] # s
    /\ allocated' = [allocated EXCEPT ![s] = TRUE]
    /\ on' = [on EXCEPT ![t] = s] /\ Goto(t, "socket_init")
    /\ UNCHANGED <<to_read, sizes, is_waiting, data_ready, is_connected, data, rx, wire, ghost>>

socket_init(t) ==
    /\ pc[t] = "socket_init"
    /\ rx_buf'   = [rx_buf EXCEPT ![on[t]] = None]
    /\ buffered' = [buffered EXCEPT ![on[t]] = 0]
    /\ lock'     = [lock EXCEPT ![on[t]] = None]
    /\ wiped'    = IF rx_buf[on[t]] = None THEN wiped ELSE wiped + 1
    /\ Done(t)
    /\ UNCHANGED <<to_read, slot, pool, rx, wire, got, base, lapse, orphaned>>

(* offload_recvfrom, one reader at a time per socket. *)
recvfrom(t, s, dontwait) ==
    /\ pc[t] = "idle" /\ allocated[s] /\ \A u \in Thread : on[u] # s
    /\ on' = [on EXCEPT ![t] = s]
    /\ Goto(t, IF dontwait THEN "recv_next" ELSE "recv_flag")
    /\ UNCHANGED <<to_read, slot, data, rx, wire, ghost>>

(* modem_socket_wait_data does not ask whether data is already there. *)
recv_flag(t) ==
    /\ pc[t] = "recv_flag"
    /\ is_waiting' = [is_waiting EXCEPT ![on[t]] = TRUE]
    /\ Goto(t, "recv_wait")
    /\ UNCHANGED <<on, to_read, allocated, sizes, data_ready, is_connected, data, rx, wire, ghost>>

recv_wait(t) ==
    /\ pc[t] = "recv_wait" /\ data_ready[on[t]] = 1
    /\ data_ready' = [data_ready EXCEPT ![on[t]] = 0]
    /\ Goto(t, "recv_next")
    /\ UNCHANGED <<on, to_read, allocated, sizes, is_waiting, is_connected, data, rx, wire, ghost>>

recv_next(t, max_len) ==
    /\ pc[t] = "recv_next"
    /\ LET n == next_packet_size(on[t])
       IN  IF n = 0
           THEN Done(t) /\ UNCHANGED to_read
           ELSE /\ to_read' = [to_read EXCEPT ![t] = Min({n, max_len})]
                /\ Goto(t, "recv_lock") /\ UNCHANGED on
    /\ UNCHANGED <<slot, data, rx, wire, ghost>>

(* EAGAIN with nothing buffered, EIO with less than the packet size says.  *)
recv_short(t) ==
    /\ pc[t] = "recv_lock" /\ lock[on[t]] = None
    /\ Len(Bytes(on[t])) < to_read[t]
    /\ Done(t)
    /\ UNCHANGED <<to_read, slot, data, rx, wire, ghost>>

(* Mutant: the emptied buffer is forgotten, not given back. *)
recv_lock_no_unref(t) ==
    LET s == on[t]
        n == to_read[t]
        b == SubSeq(Bytes(s), n + 1, Len(Bytes(s)))
    IN  /\ pc[t] = "recv_lock" /\ lock[s] = None /\ Len(Bytes(s)) >= n
        /\ got' = [got EXCEPT ![s] = @ \o SubSeq(Bytes(s), 1, n)]
        /\ buffered' = [buffered EXCEPT ![s] = @ - n]
        /\ rx_buf' = IF b = <<>> THEN [rx_buf EXCEPT ![s] = None]
                                 ELSE [rx_buf EXCEPT ![s].bytes = b]
        /\ lock' = [lock EXCEPT ![s] = t]
        /\ Goto(t, "recv_size")
        /\ UNCHANGED <<on, to_read, slot, pool, rx, wire, base, lapse, orphaned, wiped>>

(* The lock is kept until the packet size is updated. *)
recv_lock(t) ==
    LET s == on[t]
        n == to_read[t]
        b == SubSeq(Bytes(s), n + 1, Len(Bytes(s)))
    IN  /\ pc[t] = "recv_lock" /\ lock[s] = None /\ Len(Bytes(s)) >= n
        /\ got' = [got EXCEPT ![s] = @ \o SubSeq(Bytes(s), 1, n)]
        /\ buffered' = [buffered EXCEPT ![s] = IF @ >= n THEN @ - n ELSE 0]
        /\ IF b = <<>>
           THEN rx_buf' = [rx_buf EXCEPT ![s] = None] /\ pool' = pool + 1
           ELSE rx_buf' = [rx_buf EXCEPT ![s].bytes = b] /\ UNCHANGED pool
        /\ lock' = [lock EXCEPT ![s] = t]
        /\ Goto(t, "recv_size")
        /\ UNCHANGED <<on, to_read, slot, rx, wire, base, lapse, orphaned, wiped>>

(* Mutant: the bytes read become the new total. *)
recv_size_absolute(t) ==
    LET s == on[t]
    IN  /\ pc[t] = "recv_size" /\ rx.pc # "size"
        /\ packet_size_update(s, to_read[t])
        /\ lock' = [lock EXCEPT ![s] = None]
        /\ Goto(t, "recv_more")
        /\ UNCHANGED <<on, to_read, allocated, is_waiting, data_ready, is_connected,
                       rx_buf, buffered, pool, rx, wire, ghost>>

(* RX has priority where both wait for the modem_socket lock. *)
recv_size(t) ==
    LET s == on[t]
    IN  /\ pc[t] = "recv_size" /\ rx.pc # "size"
        /\ packet_size_update(s, IF Total(sizes[s]) > to_read[t]
                                 THEN Total(sizes[s]) - to_read[t] ELSE 0)
        /\ lock' = [lock EXCEPT ![s] = None]
        /\ Goto(t, "recv_more")
        /\ UNCHANGED <<on, to_read, allocated, is_waiting, data_ready, is_connected,
                       rx_buf, buffered, pool, rx, wire, ghost>>

recv_more(t) ==
    /\ pc[t] = "recv_more"
    /\ IF next_packet_size(on[t]) > 0 THEN data_ready_give(on[t])
                                      ELSE UNCHANGED <<is_waiting, data_ready>>
    /\ Done(t)
    /\ UNCHANGED <<to_read, allocated, sizes, is_connected, data, rx, wire, ghost>>

(* offload_close. It may come while another thread waits for data.         *)
close(t, s) ==
    /\ pc[t] = "idle" /\ allocated[s]
    /\ \A u \in Thread : on[u] = s => pc[u] = "recv_wait"
    /\ on' = [on EXCEPT ![t] = s] /\ Goto(t, "close_modem")
    /\ UNCHANGED <<to_read, slot, data, rx, wire, ghost>>

Speaks(s, q) == \E i \in DOMAIN q : q[i] # LF /\ q[i].s = s
Silent(s)    == ~Speaks(s, owed) /\ ~Speaks(s, uart) /\ ~Speaks(s, line) /\ rx.s # s

(* AT+CIPCLOSE goes out only if offload_connect had marked the socket, and *)
(* the close goes on whatever became of it. Its answer would follow all the *)
(* modem had to say on the socket; without one there may be more to come.  *)
close_modem(t) ==
    LET s == on[t]
    IN  /\ pc[t] = "close_modem"
        /\ \/ is_connected[s] /\ link' = [link EXCEPT ![s] = FALSE]
           \/ UNCHANGED link
        /\ is_connected' = [is_connected EXCEPT ![s] = FALSE]
        /\ orphaned' = IF link'[s] \/ ~Silent(s) THEN orphaned \cup {s} ELSE orphaned
        /\ Goto(t, "close_lock")
        /\ UNCHANGED <<on, to_read, allocated, sizes, is_waiting, data_ready, data, rx,
                       line, uart, owed, sent, got, base, lapse, wiped>>

close_lock(t) ==
    LET s == on[t]
    IN  /\ pc[t] = "close_lock" /\ lock[s] = None
        /\ pool' = IF rx_buf[s] = None THEN pool ELSE pool + 1
        /\ rx_buf' = [rx_buf EXCEPT ![s] = None]
        /\ buffered' = [buffered EXCEPT ![s] = 0]
        /\ Goto(t, "close_put")
        /\ UNCHANGED <<on, to_read, slot, lock, rx, wire, ghost>>

(* modem_socket_put; the reset of sem_data_ready lets the waiters go.      *)
close_put(t) ==
    LET s == on[t]
    IN  /\ pc[t] = "close_put"
        /\ allocated'  = [allocated EXCEPT ![s] = FALSE]
        /\ sizes'      = [sizes EXCEPT ![s] = <<>>]
        /\ is_waiting' = [is_waiting EXCEPT ![s] = FALSE]
        /\ data_ready' = [data_ready EXCEPT ![s] = 0]
        /\ is_connected' = [is_connected EXCEPT ![s] = FALSE]
        /\ on' = [on EXCEPT ![t] = None]
        /\ pc' = [u \in Thread |->
                    CASE u = t -> "idle"
                      [] u # t /\ on[u] = s /\ pc[u] = "recv_wait" -> "recv_next"
                      [] OTHER -> pc[u]]
        /\ UNCHANGED <<to_read, data, rx, wire, ghost>>

-----------------------------------------------------------------------------
(* The RX thread. modem_cmd_handler_process takes all the UART holds into a *)
(* buffer of mdm_recv_pool too, and waits until it gets one; then it looks  *)
(* for lines. What is no line it knows is thrown away.                      *)

Lapse(s, l) == lapse' = [lapse EXCEPT ![s] = @ \cup {l}]

rx_process ==
    /\ rx.pc = "idle" /\ line = <<>> /\ uart # <<>>
    /\ pool > 0 /\ pool' = pool - 1
    /\ line' = uart /\ uart' = <<>>
    /\ UNCHANGED <<app, slot, rx_buf, buffered, lock, rx, link, owed, sent, ghost>>

(* The buffer goes back once all in it is used. *)
Skip(rest) == pool' = IF rest = <<>> THEN pool + 1 ELSE pool

Known(e) == e.k = "hdr" /\ allocated[e.s]

rx_discard ==
    /\ rx.pc = "idle" /\ line # <<>> /\ ~Known(Head(line))
    /\ line' = Tail(line) /\ Skip(line')
    /\ UNCHANGED <<app, slot, rx_buf, buffered, lock, rx, uart, link, owed, sent, ghost>>

(* on_urc_receive. *)
on_urc_receive ==
    /\ rx.pc = "idle" /\ line # <<>> /\ Known(Head(line))
    /\ rx' = [Idle EXCEPT !.pc = "lock", !.s = Head(line).s, !.left = Head(line).b, !.skip = 1]
    /\ line' = Tail(line)
    /\ UNCHANGED <<app, slot, data, uart, link, owed, sent, ghost>>

rx_lock ==
    LET s == rx.s
    IN  /\ rx.pc = "lock" /\ lock[s] = None
        /\ IF rx_buf[s] # None
           THEN /\ rx' = [rx EXCEPT !.pc = "read"] /\ lock' = [lock EXCEPT ![s] = RX]
                /\ UNCHANGED <<rx_buf, pool, lapse>>
           ELSE IF pool > 0
           THEN /\ rx' = [rx EXCEPT !.pc = "read"] /\ lock' = [lock EXCEPT ![s] = RX]
                /\ rx_buf' = [rx_buf EXCEPT ![s] = [bytes |-> <<>>, used |-> 0]]
                /\ pool' = pool - 1 /\ UNCHANGED lapse
           ELSE rx' = Idle /\ Skip(line) /\ Lapse(s, "no buffer") /\ UNCHANGED <<rx_buf, lock>>
        /\ UNCHANGED <<app, slot, buffered, wire, got, base, orphaned, wiped>>

(* Mutant: every chunk is taken to start with the LF. *)
rx_read_keep_skip ==
    LET s == rx.s
        m == Min({rx.left + rx.skip, Chunk, Len(uart)})
        b == SubSeq(uart, rx.skip + 1, m)
    IN  /\ rx.pc = "read" /\ rx.left > 0 /\ m > 0 /\ rx_buf[s] # None
        /\ uart' = SubSeq(uart, m + 1, Len(uart))
        /\ IF BufSize - rx_buf[s].used < m
           THEN /\ rx' = [rx EXCEPT !.pc = "unlock"] /\ Lapse(s, "overflow")
                /\ UNCHANGED <<rx_buf, buffered>>
           ELSE /\ rx_buf' = [rx_buf EXCEPT ![s] = [bytes |-> @.bytes \o b, used |-> @.used + Len(b)]]
                /\ buffered' = [buffered EXCEPT ![s] = @ + Len(b)]
                /\ rx' = [rx EXCEPT !.left = @ - Len(b), !.retry = 0]
                /\ UNCHANGED lapse
        /\ UNCHANGED <<app, slot, lock, pool, line, link, owed, sent, got, base,
                       orphaned, wiped>>

(* Mutant: the LF is counted as buffered. *)
rx_read_counts_lf ==
    LET s == rx.s
        m == Min({rx.left + rx.skip, Chunk, Len(uart)})
        b == SubSeq(uart, rx.skip + 1, m)
    IN  /\ rx.pc = "read" /\ rx.left > 0 /\ m > 0 /\ rx_buf[s] # None
        /\ uart' = SubSeq(uart, m + 1, Len(uart))
        /\ IF BufSize - rx_buf[s].used < m
           THEN /\ rx' = [rx EXCEPT !.pc = "unlock"] /\ Lapse(s, "overflow")
                /\ UNCHANGED <<rx_buf, buffered>>
           ELSE /\ rx_buf' = [rx_buf EXCEPT ![s] = [bytes |-> @.bytes \o b, used |-> @.used + Len(b)]]
                /\ buffered' = [buffered EXCEPT ![s] = @ + m]
                /\ rx' = [rx EXCEPT !.left = @ - Len(b), !.skip = 0, !.retry = 0]
                /\ UNCHANGED lapse
        /\ UNCHANGED <<app, slot, lock, pool, line, link, owed, sent, got, base,
                       orphaned, wiped>>

(* One turn of the loop: at most Chunk bytes; the first one is the LF.     *)
(* There is nothing after a step through a NULL rx_buf.                    *)
rx_read ==
    LET s == rx.s
        m == Min({rx.left + rx.skip, Chunk, Len(uart)})
        b == SubSeq(uart, rx.skip + 1, m)
    IN  /\ rx.pc = "read" /\ rx.left > 0 /\ m > 0 /\ rx_buf[s] # None
        /\ uart' = SubSeq(uart, m + 1, Len(uart))
        /\ IF BufSize - rx_buf[s].used < m
           THEN /\ rx' = [rx EXCEPT !.pc = "unlock"] /\ Lapse(s, "overflow")
                /\ UNCHANGED <<rx_buf, buffered>>
           ELSE /\ rx_buf' = [rx_buf EXCEPT ![s] = [bytes |-> @.bytes \o b, used |-> @.used + Len(b)]]
                /\ buffered' = [buffered EXCEPT ![s] = @ + Len(b)]
                /\ rx' = [rx EXCEPT !.left = @ - Len(b), !.skip = 0, !.retry = 0]
                /\ UNCHANGED lapse
        /\ UNCHANGED <<app, slot, lock, pool, line, link, owed, sent, got, base,
                       orphaned, wiped>>

(* Nothing there: sleep 10 ms with the lock held; give up after the last   *)
(* of the retries, or at once on a read error.                             *)
rx_retry ==
    /\ rx.pc = "read" /\ rx.left > 0
    /\ \/ /\ uart = <<>> /\ rx.retry < MaxRetries
          /\ rx' = [rx EXCEPT !.retry = @ + 1] /\ UNCHANGED lapse
       \/ rx' = [rx EXCEPT !.pc = "unlock"] /\ Lapse(rx.s, "gave up")
    /\ UNCHANGED <<app, slot, data, wire, got, base, orphaned, wiped>>

(* k_mutex_unlock does nothing for a thread that is not the owner (any more, *)
(* if the slot's lock was initialised again).                               *)
Released(s) == lock' = [lock EXCEPT ![s] = IF @ = RX THEN None ELSE @]

(* Mutant: a read that stopped half way returns without the unlock. *)
rx_unlock_if_whole ==
    LET s == rx.s
    IN  /\ rx.pc = "unlock" \/ (rx.pc = "read" /\ rx.left = 0)
        /\ IF rx.left = 0 THEN Released(s) ELSE UNCHANGED lock
        /\ IF buffered[s] > 0
           THEN rx' = [rx EXCEPT !.pc = "size", !.total = buffered[s]] /\ UNCHANGED pool
           ELSE rx' = Idle /\ Skip(line)
        /\ UNCHANGED <<app, slot, rx_buf, buffered, wire, ghost>>

(* buffered is read after the unlock, before the modem_socket lock.        *)
rx_unlock ==
    LET s == rx.s
    IN  /\ rx.pc = "unlock" \/ (rx.pc = "read" /\ rx.left = 0)
        /\ Released(s)
        /\ IF buffered[s] > 0
           THEN rx' = [rx EXCEPT !.pc = "size", !.total = buffered[s]] /\ UNCHANGED pool
           ELSE rx' = Idle /\ Skip(line)
        /\ UNCHANGED <<app, slot, rx_buf, buffered, wire, ghost>>

rx_size ==
    LET s == rx.s
    IN  /\ rx.pc = "size"
        /\ packet_size_update(s, rx.total)
        /\ IF rx.total > Total(sizes[s]) /\ Len(sizes[s]) >= MaxPackets
           THEN Lapse(s, "no packet") ELSE UNCHANGED lapse
        /\ rx' = [rx EXCEPT !.pc = "ready"]
        /\ UNCHANGED <<app, allocated, is_waiting, data_ready, is_connected, data, wire,
                       got, base, orphaned, wiped>>

rx_ready ==
    /\ rx.pc = "ready"
    /\ data_ready_give(rx.s)
    /\ rx' = Idle /\ Skip(line)
    /\ UNCHANGED <<app, allocated, sizes, is_connected, rx_buf, buffered, lock, wire, ghost>>

modem_rx == \/ rx_process \/ rx_discard \/ on_urc_receive \/ rx_lock \/ rx_read
            \/ rx_retry \/ rx_unlock \/ rx_size \/ rx_ready

-----------------------------------------------------------------------------
(* The modem. Header, LF and payload of a URC are never mixed with         *)
(* another's; the line may pause anywhere in between.                      *)

(* The modem opens the connection AT+CIPSTART asked for. offload_connect    *)
(* may have stopped waiting for it, and then leaves the socket unmarked.   *)
modem_open(s) ==
    /\ allocated[s] /\ ~is_connected[s] /\ ~link[s] /\ \A t \in Thread : on[t] # s
    /\ link'  = [link EXCEPT ![s] = TRUE]
    /\ \/ is_connected' = [is_connected EXCEPT ![s] = TRUE]
       \/ UNCHANGED is_connected
    /\ got'   = [got EXCEPT ![s] = <<>>]
    /\ base'  = [base EXCEPT ![s] = sent[s]]
    /\ lapse' = [lapse EXCEPT ![s] = {}]
    /\ UNCHANGED <<app, allocated, sizes, is_waiting, data_ready, data, rx,
                   line, uart, owed, sent, orphaned, wiped>>

modem_receive(s) ==
    /\ link[s] /\ owed = <<>>
    /\ \E n \in 1 .. MaxPayload :
          /\ FoldFunction(+, 0, sent) + n <= MaxBytes
          /\ uart' = Append(uart, [k |-> "hdr", s |-> s, b |-> n])
          /\ owed' = <<LF>> \o [i \in 1 .. n |-> [k |-> "data", s |-> s, b |-> sent[s] + i]]
          /\ sent' = [sent EXCEPT ![s] = @ + n]
    /\ UNCHANGED <<app, slot, data, rx, line, link, ghost>>

modem_byte ==
    /\ owed # <<>>
    /\ Prompt => \A i \in DOMAIN uart \cup DOMAIN line :
                    /\ i \in DOMAIN uart => uart[i].k # "hdr"
                    /\ i \in DOMAIN line => line[i].k # "hdr"
    /\ uart' = Append(uart, Head(owed)) /\ owed' = Tail(owed)
    /\ UNCHANGED <<app, slot, data, rx, line, link, sent, ghost>>

modem == modem_byte \/ \E s \in Socket : modem_open(s) \/ modem_receive(s)

-----------------------------------------------------------------------------
Step(t) ==
    \/ socket_init(t) \/ recv_flag(t) \/ recv_wait(t) \/ recv_short(t) \/ recv_lock(t)
    \/ recv_size(t) \/ recv_more(t) \/ close_modem(t) \/ close_lock(t) \/ close_put(t)
    \/ \E n \in 1 .. MaxPayload : recv_next(t, n)

Call(t) == \E s \in Socket :
    \/ <<t, "socket", s>> \in Calls /\ socket_get(t, s)
    \/ <<t, "close", s>> \in Calls /\ close(t, s)
    \/ <<t, "recvfrom", s>> \in Calls /\ \E d \in BOOLEAN : recvfrom(t, s, d)

Next == modem_rx \/ modem \/ \E t \in Thread : Call(t) \/ Step(t)

Spec == Init /\ [][Next]_vars

(* Ready threads run and bytes under way arrive. *)
FairSpec == Spec /\ WF_vars(modem_rx) /\ WF_vars(modem_byte) /\ \A t \in Thread : WF_vars(Step(t))

-----------------------------------------------------------------------------
(* Properties. *)

TypeOK ==
    /\ pc \in [Thread -> Pc] /\ on \in [Thread -> Socket \cup {None}]
    /\ to_read \in [Thread -> 0 .. MaxPayload]
    /\ allocated \in [Socket -> BOOLEAN]
    /\ \A s \in Socket : rx_buf[s] = None \/ rx_buf[s] \in Buffer
    /\ buffered \in [Socket -> 0 .. BufSize]
    /\ lock \in [Socket -> Thread \cup {RX, None}]
    /\ \A s \in Socket : sizes[s] \in Seq(1 .. BufSize) /\ Len(sizes[s]) <= MaxPackets
    /\ is_waiting \in [Socket -> BOOLEAN] /\ data_ready \in [Socket -> {0, 1}]
    /\ is_connected \in [Socket -> BOOLEAN]
    /\ pool \in 0 .. PoolSize
    /\ rx \in [pc : {"idle", "lock", "read", "unlock", "size", "ready"}, s : Socket \cup {None},
               left : 0 .. MaxPayload, skip : {0, 1}, retry : 0 .. MaxRetries, total : 0 .. BufSize]
    /\ line \in Seq(Element) /\ uart \in Seq(Element) /\ owed \in Seq(Element)
    /\ link \in [Socket -> BOOLEAN] /\ sent \in [Socket -> Nat]
    /\ orphaned \subseteq Socket /\ wiped \in Nat

Lost(s)    == lapse[s] \cap {"no buffer", "overflow", "gave up"} # {}
Arrived(s) == got[s] \o Bytes(s)

(* What a socket's reader is given is what the peer sent to that connection,*)
(* in order, nothing twice, nothing of another socket or of the protocol;   *)
(* and all of it, up to where the next byte will go, unless the driver      *)
(* logged a loss (on_urc_receive against offload_recvfrom). Bytes still to  *)
(* come for an orphaned slot may meet its next connection.                  *)
StreamIntact == orphaned = {} =>
    \A s \in Socket :
        /\ \A i \in DOMAIN Arrived(s) :
              /\ Arrived(s)[i].k = "data" /\ Arrived(s)[i].s = s
              /\ Arrived(s)[i].b > IF i = 1 THEN base[s] ELSE Arrived(s)[i - 1].b
              /\ Lost(s) \/ Arrived(s)[i].b = base[s] + i
        /\ link[s] /\ Silent(s) /\ ~Lost(s) => Len(Arrived(s)) = sent[s] - base[s]

(* The packet sizes are a promise recvfrom can keep: never more than what   *)
(* is buffered when it gets the lock (so EIO cannot happen), and, with no   *)
(* one at work on the socket, exactly that, unless a packet found no slot   *)
(* or a slot was orphaned.                                                  *)
SizesAgree == orphaned = {} =>
    \A s \in Socket :
        /\ buffered[s] = Len(Bytes(s))
        /\ \A t \in Thread :
              pc[t] = "recv_lock" /\ on[t] = s => Bytes(s) = <<>> \/ Len(Bytes(s)) >= to_read[t]
        /\ rx.s # s /\ (\A t \in Thread : on[t] = s => pc[t] \in {"recv_flag", "recv_wait"})
              => Total(sizes[s]) = buffered[s] \/ "no packet" \in lapse[s]

(* Every buffer of mdm_recv_pool is free, in a slot, the command handler's, *)
(* or was wiped by the memset of modem_offload_socket; and one is wiped,    *)
(* or kept by a slot nobody has open, only after a close that did not       *)
(* silence the modem: it sent no AT+CIPCLOSE, the connect having timed out  *)
(* (tests/modem/src/main.c:46-49 closes then), or AT+CIPCLOSE failed. Open, *)
(* read, overflow and close in any other order never lose a buffer.         *)
Handling == rx.pc # "idle" \/ line # <<>>
Holding  == {s \in Socket : rx_buf[s] # None}
NoBufferLost ==
    /\ pool + Cardinality(Holding) + (IF Handling THEN 1 ELSE 0) + wiped = PoolSize
    /\ orphaned = {} => wiped = 0 /\ \A s \in Socket : ~allocated[s] => rx_buf[s] = None /\ sizes[s] = <<>>

(* RX comes back from every URC: it never waits for ever for a socket's     *)
(* lock, whatever failed before (all modem traffic depends on it), unless   *)
(* the memset of a slot that was orphaned took the lock from under it.      *)
RxReturns == rx.pc # "idle" ~> rx.pc = "idle" \/ orphaned # {}

(* Closing always ends, with RX asleep inside the lock or not.              *)
CloseEnds == \A t \in Thread : pc[t] \in {"close_modem", "close_lock", "close_put"} ~> pc[t] = "idle"

(* A reader does not sleep on data that is there: recvfrom is to signal     *)
(* "More data pending" (sim800l_offload.c:581).                             *)
ReaderWoken ==
    \A t \in Thread : \A s \in Socket :
        (pc[t] = "recv_wait" /\ on[t] = s /\ sizes[s] # <<>>) ~> pc[t] # "recv_wait"
=============================================================================
