------------------------------ MODULE GpioIrq -------------------------------
(***************************************************************************)
(* The level-low GPIO interrupts of gpio_irq.rs with GpioInterrupt and     *)
(* GpioBankInterrupt of the SoC runtime.rs, and the service loop around    *)
(* them in typec_monitor.  The handler masks a pin, latches pending and    *)
(* wakes its worker; the worker drains the peripheral and rearms the pin.  *)
(* The bank's register lock excludes the handler, but not the lines, which *)
(* change between any two register accesses.                               *)
(***************************************************************************)
EXTENDS Naturals

CONSTANTS
  Pins,       \* the pins of one bank
  Subscribed, \* those with a registered child and a worker
  MaxEvents,  \* bound: how often a line is pulled low
  MaxErrors   \* bound: services that fail, or that leave the line low

ASSUME GpioAssumption ==
  /\ Subscribed \subseteq Pins /\ "none" \notin Pins
  /\ MaxEvents \in Nat /\ MaxErrors \in Nat

VARIABLES
  low,      \* the lines that are low (IN)
  sta,      \* the status register
  enb,      \* the enable register
  held,     \* the pin whose worker holds the register lock, or "none"
  pending,  \* GpioInterrupt::pending
  pc,       \* where each worker is
  asserted, \* asserted_services
  events, errors

vars == <<low, sta, enb, held, pending, pc, asserted, events, errors>>

StuckLimit == 4

To(p, step) == pc' = [pc EXCEPT ![p] = step]

\* A W1C acknowledgement of the pins in S; a low level may set the bit again.
Ack(S) == \E again \in SUBSET (S \cap sta \cap low) : sta' = (sta \ S) \cup again

----------------------------------------------------------------------------
(* The lines, and enables that nobody in the bank owns. *)

Pull ==
  /\ events < MaxEvents
  /\ events' = events + 1
  /\ \E p \in Pins \ low : low' = low \cup {p} /\ sta' = sta \cup {p}
  /\ UNCHANGED <<enb, held, pending, pc, asserted, errors>>

Foreign ==
  /\ \E p \in (Pins \ Subscribed) \ enb : events < MaxEvents /\ enb' = enb \cup {p}
  /\ events' = events + 1
  /\ UNCHANGED <<low, sta, held, pending, pc, asserted, errors>>

----------------------------------------------------------------------------
(* GpioBankInterrupt::claim_interrupt, with both locks held. *)

\* quiesce_unregistered(): enabled and pending, but without a child.
Stale == (sta \cap enb) \ Subscribed

\* LevelLowPin::claim of every registered pin.
Claimed == sta \cap enb \cap Subscribed

\* Mutated form: the whole bank is masked while one pin is served.
Masked_Bank == {}

\* Only the claimed and the stale pins are masked.
Masked == enb \ (Claimed \cup Stale)

Handler ==
  /\ held = "none" /\ sta \cap enb # {}
  /\ enb' = Masked
  /\ Ack(Claimed \cup Stale)
  /\ pending' = pending \cup Claimed
  /\ UNCHANGED <<low, held, pc, asserted, events, errors>>

----------------------------------------------------------------------------
(* A worker's loop. *)

\* The condition wait ends on the latch, or on a policy timer.
Wake(p) ==
  /\ pc[p] = "sleep" /\ p \in pending /\ To(p, "mask")
  /\ UNCHANGED <<low, sta, enb, held, pending, asserted, events, errors>>

Timer(p) ==
  /\ pc[p] = "sleep" /\ p \notin pending /\ events < MaxEvents
  /\ events' = events + 1 /\ To(p, "mask")
  /\ UNCHANGED <<low, sta, enb, held, pending, asserted, errors>>

\* irq.mask(), under the lock, and irq.take_pending().
Mask(p) ==
  /\ pc[p] = "mask" /\ held = "none" /\ To(p, "service")
  /\ enb' = enb \ {p}
  /\ pending' = pending \ {p}
  /\ UNCHANGED <<low, sta, held, asserted, events, errors>>

\* The I2C work releases the line; it may fail, or leave the line low.
Service(p) ==
  /\ pc[p] = "service"
  /\ \/ low' = low \ {p} /\ To(p, "rearm") /\ UNCHANGED errors
     \/ /\ errors < MaxErrors /\ errors' = errors + 1
        /\ (To(p, "rearm") \/ To(p, "backoff"))
        /\ UNCHANGED low
  /\ UNCHANGED <<sta, enb, held, pending, asserted, events>>

\* rearm() returns: work remains, up to StuckLimit times at once, or it sleeps.
Returns(p, work) ==
  LET count == IF work THEN IF asserted[p] < StuckLimit THEN asserted[p] + 1 ELSE StuckLimit ELSE 0
  IN /\ asserted' = [asserted EXCEPT ![p] = count]
     /\ held' = "none"
     /\ To(p, IF count >= StuckLimit THEN "stuck" ELSE "sleep")

\* GpioInterrupt::rearm: a latched event only masks the pin.
Rearm(p) ==
  /\ pc[p] = "rearm" /\ held = "none"
  /\ enb' = enb \ {p}
  /\ \/ p \in pending /\ Returns(p, TRUE) /\ UNCHANGED sta
     \/ p \notin pending /\ Ack({p}) /\ held' = p /\ To(p, "check") /\ UNCHANGED asserted
  /\ UNCHANGED <<low, pending, events, errors>>

\* asserted(): the line is low or its status is set.
Asserted(p) == p \in low \cup sta

Check(p) ==
  /\ pc[p] = "check"
  /\ \/ Asserted(p) /\ pending' = pending \cup {p} /\ Returns(p, TRUE)
     \/ ~Asserted(p) /\ To(p, "enable") /\ UNCHANGED <<pending, held, asserted>>
  /\ UNCHANGED <<low, sta, enb, events, errors>>

Enable(p) ==
  /\ pc[p] = "enable" /\ To(p, "recheck")
  /\ enb' = enb \cup {p}
  /\ UNCHANGED <<low, sta, held, pending, asserted, events, errors>>

\* Mutated form: the recheck masks the pin and forgets what it saw.
Recheck_Forgets(p) ==
  /\ pc[p] = "recheck"
  /\ \/ Asserted(p) /\ enb' = enb \ {p} /\ Ack({p}) /\ Returns(p, FALSE)
     \/ ~Asserted(p) /\ Returns(p, FALSE) /\ UNCHANGED <<enb, sta>>
  /\ UNCHANGED <<low, pending, events, errors>>

\* "A new low level may arrive between the masked check and enabling."
Recheck(p) ==
  /\ pc[p] = "recheck"
  /\ \/ Asserted(p) /\ enb' = enb \ {p} /\ Ack({p})
        /\ pending' = pending \cup {p} /\ Returns(p, TRUE)
     \/ ~Asserted(p) /\ Returns(p, FALSE) /\ UNCHANGED <<enb, sta, pending>>
  /\ UNCHANGED <<low, events, errors>>

\* Repeated service did not release the line: it stays masked for 100 ms.
Stuck(p) ==
  /\ pc[p] = "stuck" /\ held = "none" /\ To(p, "backoff")
  /\ enb' = enb \ {p}
  /\ UNCHANGED <<low, sta, held, pending, asserted, events, errors>>

Backoff(p) ==
  /\ pc[p] = "backoff" /\ To(p, "mask")
  /\ UNCHANGED <<low, sta, enb, held, pending, asserted, events, errors>>

Worker(p) ==
  Wake(p) \/ Mask(p) \/ Service(p) \/ Rearm(p) \/ Check(p) \/ Enable(p)
  \/ Recheck(p) \/ Stuck(p) \/ Backoff(p)

----------------------------------------------------------------------------
(* The specification: initialize_bank cleared the bank's enables, and each *)
(* subscription ended with a rearm(); the workers begin their loops.       *)

Init ==
  /\ low \in SUBSET Pins /\ sta = low /\ held = "none"
  /\ enb = Subscribed \ low /\ pending = Subscribed \cap low /\ events = 0 /\ errors = 0
  /\ pc = [p \in Subscribed |-> "mask"] /\ asserted = [p \in Subscribed |-> 0]

Next == Pull \/ Foreign \/ Handler \/ \E p \in Subscribed : Worker(p) \/ Timer(p)

\* Interrupts are delivered, and every worker is scheduled; one that finds the
\* register lock held again and again is eventually granted it.
Fairness == WF_vars(Handler) /\ \A p \in Subscribed : SF_vars(Worker(p))

Spec == Init /\ [][Next]_vars /\ Fairness

----------------------------------------------------------------------------
(* Properties. *)

\* Every variable keeps its type.
TypeOK ==
  /\ low \subseteq Pins /\ sta \subseteq Pins /\ enb \subseteq Pins
  /\ held \in Subscribed \cup {"none"} /\ pending \subseteq Subscribed
  /\ pc \in [Subscribed -> {"sleep", "mask", "service", "rearm", "check", "enable",
                            "recheck", "stuck", "backoff"}]
  /\ asserted \in [Subscribed -> 0 .. StuckLimit]
  /\ events \in 0 .. MaxEvents /\ errors \in 0 .. MaxErrors

\* A worker sleeps without a latched event only on an enabled pin, and a low
\* line is then already on its way to the handler: no alert is slept through.
ArmedInSleep ==
  \A p \in Subscribed :
    pc[p] = "sleep" /\ p \notin pending => p \in enb /\ (p \in low => p \in sta)

\* A line that is pulled low is eventually released by its worker.
LineServed == \A p \in Subscribed : p \in low ~> p \notin low

\* An interrupt source without a registered child does not keep the bank's
\* level asserted: "otherwise returning NotMine leaves the level asserted forever".
NoStorm == \A p \in Pins \ Subscribed : p \in sta \cap enb ~> p \notin sta \cap enb
=============================================================================
