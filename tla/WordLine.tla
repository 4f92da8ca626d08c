-------------------------------- MODULE WordLine --------------------------------
(***************************************************************************)
(* What a serial line promises the reader of uart_poll_in_u16: a queue of  *)
(* words. While the line is in step, what comes out is what went in, in    *)
(* order; a disturbance ends the promise until the line has settled.       *)
(***************************************************************************)
EXTENDS Sequences

CONSTANT Word

VARIABLES
    in_step,    \* is the promise on?
    due,        \* words promised and not delivered
    delivered   \* words the reader can get

wordVars == <<in_step, due, delivered>>

Init == in_step \in BOOLEAN /\ due = <<>> /\ delivered = <<>>

Send(w) == /\ in_step /\ due' = Append(due, w)
           /\ UNCHANGED <<in_step, delivered>>

Deliver == /\ in_step /\ due # <<>>
           /\ delivered' = Append(delivered, Head(due)) /\ due' = Tail(due)
           /\ UNCHANGED in_step

(* Out of step, any word may be read off the line. *)
Misread(w) == ~in_step /\ delivered' = Append(delivered, w) /\ UNCHANGED <<in_step, due>>

Read == /\ delivered # <<>> /\ delivered' = Tail(delivered)
        /\ UNCHANGED <<in_step, due>>

Disturb == in_step' = FALSE /\ due' = <<>> /\ UNCHANGED delivered
Settle  == in_step' = TRUE /\ UNCHANGED <<due, delivered>>

Next == Deliver \/ Read \/ Disturb \/ Settle \/ \E w \in Word : Send(w) \/ Misread(w)

Spec == Init /\ [][Next]_wordVars
=============================================================================
