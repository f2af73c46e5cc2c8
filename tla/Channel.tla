------------------------------ MODULE Channel ------------------------------
(***************************************************************************)
(* What one msgbuf ring promises its two ends: a bounded channel.  Every   *)
(* message that was sent is delivered once and in the order of sending, at *)
(* most Capacity messages are outstanding, and a channel whose ends have   *)
(* both let go of it may be opened again, empty.  A broken channel         *)
(* delivers nothing more; the sender may still be writing to it.           *)
(***************************************************************************)
EXTENDS Naturals, Sequences

CONSTANTS Message, Capacity

VARIABLES log,      \* every message sent since the channel was opened
          got,      \* every message delivered since then
          broken    \* the receiver has given the channel up

chan == <<log, got, broken>>

Init == /\ log = << >>
        /\ got = << >>
        /\ broken = FALSE

\* Any number of messages may be sent at once.
Send == /\ log' \in Seq(Message)
        /\ Len(log') > Len(log)
        /\ \A i \in 1..Len(log) : log'[i] = log[i]
        /\ broken \/ Len(log') - Len(got) <= Capacity
        /\ UNCHANGED <<got, broken>>

Deliver == /\ ~broken
           /\ Len(got) < Len(log)
           /\ got' = Append(got, log[Len(got) + 1])
           /\ UNCHANGED <<log, broken>>

Break == /\ broken' = TRUE
         /\ UNCHANGED <<log, got>>

Reopen == /\ got = log
          /\ log' = << >>
          /\ got' = << >>
          /\ UNCHANGED broken

Next == \/ Send
        \/ Deliver
        \/ Break
        \/ Reopen

Spec == Init /\ [][Next]_chan
=============================================================================
