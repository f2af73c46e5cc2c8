------------------------------- MODULE I2cBus -------------------------------
(***************************************************************************)
(* One Tegra210 I2C controller (soc/tegra210 packet.rs and TegraI2c of     *)
(* runtime.rs).  The bus lock makes a transaction, and the recovery that   *)
(* follows a failed one, exclusive, so transactions run one after another; *)
(* what can go wrong is what a failed one leaves behind in the controller  *)
(* and on the wires.  Each polled wait ends with the interrupt status bits *)
(* the hardware happens to show, or at its deadline.                       *)
(***************************************************************************)
EXTENDS Naturals, Sequences

CONSTANTS Transactions,  \* sequences of messages [stop, short]
          MaxCalls       \* bound: transactions in a behaviour

VARIABLES
  at,       \* idle, begin, normal, packet, stop, failed, reset, clear
  txn, i,   \* the transaction and the message it is at
  result,   \* of the last transaction: an error, or "ok"
  mode,     \* CNFG: "normal" or "packet"
  fifo,     \* words of an unfinished packet are queued
  held,     \* a START went out and no STOP yet
  wire,     \* history: the messages of this transaction that went out
  acked,    \* history: how many of them the slaves acknowledged in full
  worn,     \* the controller could not be recovered after the last failure
  calls

vars == <<at, txn, i, result, mode, fifo, held, wire, acked, worn, calls>>

Errors == {"nack", "arbitration", "bus", "timeout"}

Init ==
  /\ at = "idle" /\ txn = <<>> /\ i = 1 /\ result = "ok"
  /\ mode = "normal" /\ fifo = FALSE /\ held = FALSE   \* probe ran begin and finish
  /\ wire = <<>> /\ acked = 0 /\ worn = FALSE /\ calls = 0

\* INT_STATUS when a wait looks: error bits and the awaited bit, all at once.
Status == SUBSET {"done", "nack", "arbitration", "bus"}

\* check and wait: errors win over completion, arbitration loss over the rest;
\* a wait that sees neither ends at its deadline.
Wait(s) ==
  IF "arbitration" \in s THEN "arbitration"
  ELSE IF "nack" \in s THEN "nack"
  ELSE IF "bus" \in s THEN "bus"
  ELSE IF "done" \in s THEN "ok" ELSE "timeout"

\* The controller mode for the next message: short messages that start and end
\* a bus cycle use the command registers.
Entry(k, fresh) == IF fresh /\ txn'[k].stop /\ txn'[k].short THEN "normal"
                   ELSE IF fresh THEN "begin" ELSE "packet"

\* The whole transaction is looked at before anything reaches a slave: one that
\* is empty, too long or leaves its bus cycle open is refused and changes nothing.
Accepted(t) == Len(t) \in 1..8 /\ t[Len(t)].stop

Start(t) ==
  /\ at = "idle" /\ calls < MaxCalls
  /\ Accepted(t)
  /\ calls' = calls + 1
  /\ txn' = t /\ i' = 1
  /\ at' = Entry(1, TRUE)
  /\ wire' = <<>> /\ acked' = 0
  /\ UNCHANGED <<result, mode, fifo, held, worn>>

Fail(r) == at' = "failed" /\ result' = r /\ UNCHANGED <<txn, i>>

\* After message i: the next one, or the end of the transaction.
Advance ==
  /\ UNCHANGED txn
  /\ IF i = Len(txn) THEN at' = "idle" /\ result' = "ok" /\ i' = i
     ELSE at' = Entry(i + 1, txn[i].stop) /\ i' = i + 1 /\ UNCHANGED result

\* begin: packet mode, status cleared, FIFOs flushed (waited for), loaded.
BeginMut ==
  /\ at = "begin"
  /\ mode' = "packet"
  /\ \E s \in Status: LET r == Wait(s) IN
       /\ UNCHANGED fifo
       /\ IF r = "ok" THEN at' = "packet" /\ UNCHANGED <<txn, i, result>> ELSE Fail(r)
  /\ UNCHANGED <<held, wire, acked, worn, calls>>
Begin ==
  /\ at = "begin"
  /\ mode' = "packet"
  /\ \E s \in Status: LET r == Wait(s) IN
       /\ fifo' = IF r = "ok" THEN FALSE ELSE fifo
       /\ IF r = "ok" THEN at' = "packet" /\ UNCHANGED <<txn, i, result>> ELSE Fail(r)
  /\ UNCHANGED <<held, wire, acked, worn, calls>>

\* A message goes out: a failure may strike before, within or after it.
\* A nack makes the controller end the cycle; the other errors may leave it open.
OnWire(s, r) ==
  \/ /\ wire' = Append(wire, i)
     /\ acked' = IF s = {"done"} THEN acked + 1 ELSE acked
     /\ held' \in IF r = "ok" THEN {~txn[i].stop}
                  ELSE IF r = "nack" THEN {FALSE} ELSE BOOLEAN
  \/ /\ r \notin {"ok", "nack"}
     /\ UNCHANGED <<wire, acked, held>>

\* normal_transfer: command registers, GO, poll busy, back to CONFIG.
Normal ==
  /\ at = "normal"
  /\ mode' = "normal"
  /\ \E s \in Status: LET r == Wait(s) IN
       /\ OnWire(s, r)
       /\ IF r = "ok" THEN Advance ELSE Fail(r)
  /\ UNCHANGED <<fifo, worn, calls>>

\* transfer: three header words, data, completion.  A failure leaves words.
Packet ==
  /\ at = "packet"
  /\ \E s \in Status: LET r == Wait(s) IN
       /\ OnWire(s, r)
       /\ IF r = "ok"
          THEN /\ UNCHANGED fifo
               /\ IF txn[i].stop THEN at' = "stop" /\ UNCHANGED <<txn, i, result>>
                  ELSE Advance
          ELSE fifo' = TRUE /\ Fail(r)
  /\ UNCHANGED <<mode, worn, calls>>

\* finish after a STOP: let it leave the pins, normal mode, flush, clear.
Stop ==
  /\ at = "stop"
  /\ mode' = "normal" /\ fifo' = FALSE
  /\ Advance
  /\ UNCHANGED <<held, wire, acked, worn, calls>>

\* The error path: finish, then recovery unless the slave only refused.  The
\* failed messages are never sent again.
NeedsReset(r) == r \in {"timeout", "bus", "arbitration"}
AfterFailure == IF NeedsReset(result) THEN "reset" ELSE "idle"
Failed ==
  /\ at = "failed"
  /\ mode' = "normal" /\ fifo' \in {fifo, FALSE}      \* the flush is not waited for
  /\ at' = AfterFailure
  /\ UNCHANGED <<txn, i, result, held, wire, acked, worn, calls>>

\* reinitialize: reset this controller only, restore its timing, begin.  Its
\* clock may be off, the reset may not read back, the wait in begin may fail.
Reset ==
  /\ at = "reset"
  /\ \/ /\ at' = "idle" /\ worn' = TRUE               \* clock or reset readback
        /\ UNCHANGED <<mode, fifo, held>>
     \/ /\ mode' = "packet" /\ held' = FALSE          \* reset done, begin fails
        /\ at' = "idle" /\ worn' = TRUE
        /\ UNCHANGED fifo
     \/ /\ mode' = "packet" /\ held' = FALSE /\ fifo' = FALSE
        /\ at' = IF result = "arbitration" THEN "clear" ELSE "idle"
        /\ worn' = FALSE
  /\ UNCHANGED <<txn, i, result, wire, acked, calls>>

\* recover: nine clocks and a STOP free a slave that holds SDA.
Clear ==
  /\ at = "clear"
  /\ mode' = "normal"
  /\ at' = "idle" /\ worn' \in BOOLEAN
  /\ UNCHANGED <<txn, i, result, fifo, held, wire, acked, calls>>

Next == \/ \E t \in Transactions: Start(t)
        \/ Begin \/ Normal \/ Packet \/ Stop \/ Failed \/ Reset \/ Clear
Spec == Init /\ [][Next]_vars /\ WF_vars(Next)

---------------------------------------------------------------------------
(* Properties                                                              *)

\* A transaction that reports success delivered every message, once and in
\* order; one that failed delivered a prefix and repeated nothing (a status
\* with an error bit never counts as completion).
DeliveredOnce ==
  /\ \A k \in 1..Len(wire): wire[k] = k
  /\ at = "idle" /\ result = "ok" => acked = Len(txn)
  /\ at = "idle" /\ result # "ok" => acked < Len(txn)

\* Packet words are only queued in packet mode and never behind the words of a
\* failed packet, which would go to another slave.
CleanPackets == at = "packet" => mode = "packet" /\ ~fifo

\* A new bus cycle starts only on a released bus, and the command registers are
\* never used inside a cycle, unless recovery itself failed before.
CycleOnFreeBus ==
  /\ at = "packet" /\ i > 1 /\ ~txn[i - 1].stop => held
  /\ at \in {"normal", "begin"} => ~held \/ worn

\* What a transaction reports and what it leaves behind (packet.rs, runtime.rs).
BusSafe == DeliveredOnce /\ CleanPackets /\ CycleOnFreeBus

\* Every transaction ends: all waits, in recovery too, are bounded.
TransactionsEnd == at # "idle" ~> at = "idle"
=============================================================================
