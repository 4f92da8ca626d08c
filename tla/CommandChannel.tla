---------------------------- MODULE CommandChannel ----------------------------
(***************************************************************************)
(* What the AT command channel promises the threads that share it and the  *)
(* modem at its end. One thread at a time holds it, and only the holder    *)
(* writes; the wire is a queue; a payload is written by the thread the     *)
(* modem has prompted, to an empty wire, and the modem takes it as such.   *)
(* A holder may walk off with the channel: then nobody writes again.       *)
(***************************************************************************)
EXTENDS Sequences

CONSTANTS Thread, NoThread

VARIABLES
    holders,    \* the thread that holds the channel, if one does
    lost,       \* has a holder left without giving the channel back?
    wire,       \* what the modem has not read: who wrote it, is it a payload
    prompted    \* whose payload the modem waits for; NoThread: command mode

channelVars == <<holders, lost, wire, prompted>>

Init == holders = {} /\ lost = FALSE /\ wire = <<>> /\ prompted = NoThread

Take(t) == /\ holders = {} /\ ~lost /\ holders' = {t}
           /\ UNCHANGED <<lost, wire, prompted>>

(* Given back, straight to a thread that waits for it if there is one. *)
Give(t) == /\ holders = {t} /\ holders' \in {{}} \cup {{u} : u \in Thread \ {t}}
           /\ UNCHANGED <<lost, wire, prompted>>

Lose(t) == /\ holders = {t} /\ holders' = {} /\ lost' = TRUE
           /\ UNCHANGED <<wire, prompted>>

(* A prompted modem must not read a command: a payload is there before it. *)
Command(t) == /\ holders = {t}
              /\ prompted # NoThread => wire # <<>> /\ Head(wire).data
              /\ wire' = Append(wire, [by |-> t, data |-> FALSE])
              /\ UNCHANGED <<holders, lost, prompted>>

Payload(t) == /\ holders = {t} /\ prompted = t /\ wire = <<>>
              /\ wire' = <<[by |-> t, data |-> TRUE]>>
              /\ UNCHANGED <<holders, lost, prompted>>

Execute == /\ prompted = NoThread /\ wire # <<>> /\ ~Head(wire).data
           /\ wire' = Tail(wire) /\ prompted' \in {NoThread, Head(wire).by}
           /\ UNCHANGED <<holders, lost>>

Accept == /\ prompted # NoThread /\ wire # <<>>
          /\ Head(wire) = [by |-> prompted, data |-> TRUE]
          /\ wire' = Tail(wire) /\ prompted' = NoThread
          /\ UNCHANGED <<holders, lost>>

Next == \/ \E t \in Thread : Take(t) \/ Give(t) \/ Lose(t) \/ Command(t) \/ Payload(t)
        \/ Execute \/ Accept

Spec == Init /\ [][Next]_channelVars
===============================================================================
