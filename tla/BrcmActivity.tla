---------------------------- MODULE BrcmActivity ----------------------------
(***************************************************************************)
(* activity.rs and interrupt.rs: the sleeping radio worker, the INTx line  *)
(* it shares with another device, and the three parties that wake it: the  *)
(* interrupt, the firmware behind it and a task that submits work.  The    *)
(* interrupt core masks the line before it asks the sources and keeps it   *)
(* masked while a deferred completion token is outstanding.                *)
(***************************************************************************)
EXTENDS Naturals

CONSTANTS
  MaxRing,    \* bound: completions the firmware publishes
  MaxQueue,   \* bound: submissions of the software task
  MaxFaults   \* bound: accesses that fail

VARIABLES
  worker,      \* the worker's step
  seen,        \* the sequence its last checkpoint returned
  seq,         \* Notification::sequence
  registered,  \* the worker is on the Waker's queue
  armed, slot, \* Irq::armed, a token in Irq::completion
  status, mask, intx,  \* mailbox status and mask, INTx not disabled in PCI
  irq,         \* step of the interrupt core and the handler it calls
  held,        \* the line is masked at the interrupt controller
  lost,        \* a complete() whose failure nobody retries
  other,       \* the other device of the line requests service
  fw, ring,    \* firmware step, completions the worker has not inspected
  task, queue, \* software step, submissions the worker has not inspected
  sent, asked, \* completions and submissions so far
  faults

vars == <<worker, seen, seq, registered, armed, slot, status, mask, intx, irq,
          held, lost, other, fw, ring, task, queue, sent, asked, faults>>

device == <<status, mask, intx>>
line == <<irq, held, lost, other>>
sides == <<fw, ring, task, queue, sent, asked>>

Fault == faults < MaxFaults /\ faults' = faults + 1

Init ==
  /\ worker = "quiet" /\ seen = 0 /\ seq = 0 /\ registered = FALSE
  /\ armed = FALSE /\ slot = FALSE
  /\ status \in BOOLEAN /\ mask \in BOOLEAN /\ intx = TRUE
  /\ irq = "idle" /\ held = FALSE /\ lost = FALSE /\ other = FALSE
  /\ fw = "idle" /\ ring = 0 /\ task = "idle" /\ queue = 0
  /\ sent = 0 /\ asked = 0 /\ faults = 0

----------------------------------------------------------------------------
(* Activity::new. *)

\* The device is masked and acknowledged before its source is registered.
Quiet ==
  /\ worker = "quiet"
  /\ mask' = FALSE /\ status' = FALSE
  /\ worker' = "arm"
  /\ UNCHANGED <<seen, seq, registered, armed, slot, intx, faults>>
  /\ UNCHANGED <<line, sides>>

Arm ==
  /\ worker = "arm"
  /\ armed' = TRUE
  /\ worker' = "unmask"
  /\ UNCHANGED <<seen, seq, registered, slot, faults>>
  /\ UNCHANGED <<device, line, sides>>

\* interrupt::mask: the mask may fail to latch; the Activity is then dropped.
Unmask ==
  /\ worker = "unmask"
  /\ mask' \in {TRUE, mask}
  /\ \/ worker' = "ack" /\ mask' = TRUE /\ UNCHANGED faults
     \/ worker' = "mask" /\ Fault
  /\ UNCHANGED <<seen, seq, registered, armed, slot, status, intx>>
  /\ UNCHANGED <<line, sides>>

----------------------------------------------------------------------------
(* checkpoint(): the status is acknowledged, a held line is released and the *)
(* sequence is read, before the rings are inspected.                         *)

\* A power or fault mailbox, or an endpoint that is gone, ends the worker.
Acknowledge ==
  /\ worker = "ack"
  /\ status' = FALSE
  /\ \/ worker' = "take" /\ UNCHANGED faults
     \/ worker' = "disable" /\ Fault
  /\ UNCHANGED <<seen, seq, registered, armed, slot, mask, intx>>
  /\ UNCHANGED <<line, sides>>

Take ==
  /\ worker = "take"
  /\ slot' = FALSE
  /\ worker' = IF slot THEN "complete" ELSE "seen"
  /\ UNCHANGED <<seen, seq, registered, armed, faults>>
  /\ UNCHANGED <<device, line, sides>>

\* complete() unmasks the line; a token that could not be completed is kept.
Complete ==
  /\ worker = "complete"
  /\ \/ held' = FALSE /\ worker' = "seen" /\ UNCHANGED <<slot, faults>>
     \/ slot' = TRUE /\ worker' = "disable" /\ Fault /\ UNCHANGED held
  /\ UNCHANGED <<seen, seq, registered, armed, irq, lost, other>>
  /\ UNCHANGED <<device, sides>>

Seen ==
  /\ worker = "seen"
  /\ seen' = seq
  /\ worker' = "queue"
  /\ UNCHANGED <<seq, registered, armed, slot, faults>>
  /\ UNCHANGED <<device, line, sides>>

\* Published submissions first, then the completion rings; only an inspection
\* without progress waits, and any error ends the worker.
InspectQueue ==
  /\ worker = "queue"
  /\ queue' = 0
  /\ worker' = IF queue > 0 THEN "busy" ELSE "rings"
  /\ UNCHANGED <<seen, seq, registered, armed, slot, faults, fw, ring, task, sent, asked>>
  /\ UNCHANGED <<device, line>>

InspectRings ==
  /\ worker \in {"rings", "busy"}
  /\ \/ /\ ring' = 0
        /\ worker' = IF worker = "busy" \/ ring > 0 THEN "ack" ELSE "wait"
        /\ UNCHANGED faults
     \/ worker' = "disable" /\ Fault /\ UNCHANGED ring
  /\ UNCHANGED <<seen, seq, registered, armed, slot, fw, task, queue, sent, asked>>
  /\ UNCHANGED <<device, line>>

----------------------------------------------------------------------------
(* wait(): wait_with_condition registers the sleeper and checks again. *)

Wait ==
  /\ worker = "wait"
  /\ worker' = IF seq # seen THEN "ack" ELSE "register"
  /\ UNCHANGED <<seen, seq, registered, armed, slot, faults>>
  /\ UNCHANGED <<device, line, sides>>

Register ==
  /\ worker = "register"
  /\ registered' = TRUE
  /\ worker' = "recheck"
  /\ UNCHANGED <<seen, seq, armed, slot, faults>>
  /\ UNCHANGED <<device, line, sides>>

\* Mutated form: the condition is not checked again after registration.
Recheck_Skipped ==
  /\ worker = "recheck"
  /\ worker' = "asleep"
  /\ UNCHANGED <<seen, seq, registered, armed, slot, faults>>
  /\ UNCHANGED <<device, line, sides>>

Recheck ==
  /\ worker = "recheck"
  /\ \/ seq # seen /\ worker' = "ack" /\ registered' = FALSE
     \/ seq = seen /\ worker' = "asleep" /\ UNCHANGED registered
  /\ UNCHANGED <<seen, seq, armed, slot, faults>>
  /\ UNCHANGED <<device, line, sides>>

Woken ==
  /\ worker = "asleep" /\ ~registered
  /\ worker' = "wait"
  /\ UNCHANGED <<seen, seq, registered, armed, slot, faults>>
  /\ UNCHANGED <<device, line, sides>>

----------------------------------------------------------------------------
(* Drop for Activity: the source is stopped, then the hold is released. *)

Disable ==
  /\ worker = "disable"
  /\ intx' = FALSE
  /\ worker' = "mask"
  /\ UNCHANGED <<seen, seq, registered, armed, slot, status, mask, faults>>
  /\ UNCHANGED <<line, sides>>

\* A failed mask is ignored: INTx is off either way.
Mask ==
  /\ worker = "mask"
  /\ intx' = FALSE
  /\ \/ mask' = FALSE /\ UNCHANGED faults
     \/ Fault /\ UNCHANGED mask
  /\ worker' = "disarm"
  /\ UNCHANGED <<seen, seq, registered, armed, slot, status>>
  /\ UNCHANGED <<line, sides>>

\* Under the completion lock: no later handler stores a token.
Disarm ==
  /\ worker = "disarm"
  /\ armed' = FALSE /\ slot' = FALSE
  /\ worker' = IF slot THEN "release" ELSE "gone"
  /\ UNCHANGED <<seen, seq, registered, faults>>
  /\ UNCHANGED <<device, line, sides>>

Release ==
  /\ worker = "release"
  /\ \/ held' = FALSE /\ UNCHANGED <<lost, faults>>
     \/ lost' = TRUE /\ Fault /\ UNCHANGED held
  /\ worker' = "gone"
  /\ UNCHANGED <<seen, seq, registered, armed, slot, irq, other>>
  /\ UNCHANGED <<device, sides>>

----------------------------------------------------------------------------
(* The interrupt: the core of the line and the calls into Irq. *)

Raised == (status /\ mask /\ intx) \/ other

OtherRequests ==
  /\ ~other /\ faults = MaxFaults
  /\ other' = TRUE
  /\ UNCHANGED <<worker, seen, seq, registered, armed, slot, irq, held, lost, faults>>
  /\ UNCHANGED <<device, sides>>

\* The line is masked, the other device served and this one asked.
Interrupt ==
  /\ irq = "idle" /\ ~held /\ Raised
  /\ held' = TRUE /\ other' = FALSE
  /\ irq' = "claim"
  /\ UNCHANGED <<worker, seen, seq, registered, armed, slot, lost, faults>>
  /\ UNCHANGED <<device, sides>>

\* claim_interrupt: armed, then the PCI status; not mine unmasks the line.
ClaimArmed ==
  /\ irq = "claim"
  /\ irq' = IF armed THEN "status" ELSE "idle"
  /\ held' = armed
  /\ UNCHANGED <<worker, seen, seq, registered, armed, slot, lost, other, faults>>
  /\ UNCHANGED <<device, sides>>

ClaimStatus ==
  /\ irq = "status"
  /\ irq' = IF status /\ mask THEN "ready" ELSE "idle"
  /\ held' = (status /\ mask)
  /\ UNCHANGED <<worker, seen, seq, registered, armed, slot, lost, other, faults>>
  /\ UNCHANGED <<device, sides>>

\* deferred_interrupt_ready, under the completion lock.
Ready ==
  /\ irq = "ready"
  /\ \/ /\ armed
        /\ slot' = TRUE /\ irq' = "count"
        /\ UNCHANGED <<held, lost, faults>>
     \/ /\ ~armed
        /\ \/ held' = FALSE /\ UNCHANGED <<lost, faults>>
           \/ lost' = TRUE /\ Fault /\ UNCHANGED held
        /\ irq' = "idle" /\ UNCHANGED slot
  /\ UNCHANGED <<worker, seen, seq, registered, armed, other>>
  /\ UNCHANGED <<device, sides>>

\* notify(): the sequence moves before the sleeper is looked for.
Notify ==
  /\ irq = "count"
  /\ seq' = seq + 1 /\ irq' = "wake"
  /\ UNCHANGED <<worker, seen, registered, armed, slot, held, lost, other, faults>>
  /\ UNCHANGED <<device, sides>>

WakeOne ==
  /\ irq = "wake"
  /\ registered' = FALSE /\ irq' = "idle"
  /\ UNCHANGED <<worker, seen, seq, armed, slot, held, lost, other, faults>>
  /\ UNCHANGED <<device, sides>>

----------------------------------------------------------------------------
(* The firmware publishes a completion and rings; a task submits work and *)
(* notifies.                                                              *)

FwPublish ==
  /\ fw = "idle" /\ sent < MaxRing
  /\ ring' = ring + 1 /\ sent' = sent + 1 /\ fw' = "ring"
  /\ UNCHANGED <<worker, seen, seq, registered, armed, slot, faults, task, queue, asked>>
  /\ UNCHANGED <<device, line>>

FwDoorbell ==
  /\ fw = "ring"
  /\ status' = TRUE /\ fw' = "idle"
  /\ UNCHANGED <<worker, seen, seq, registered, armed, slot, faults, mask, intx>>
  /\ UNCHANGED <<line, ring, task, queue, sent, asked>>

Submit ==
  /\ task = "idle" /\ asked < MaxQueue
  /\ queue' = queue + 1 /\ asked' = asked + 1 /\ task' = "count"
  /\ UNCHANGED <<worker, seen, seq, registered, armed, slot, faults, fw, ring, sent>>
  /\ UNCHANGED <<device, line>>

SubmitNotify ==
  /\ task = "count"
  /\ seq' = seq + 1 /\ task' = "wake"
  /\ UNCHANGED <<worker, seen, registered, armed, slot, faults, fw, ring, queue, sent, asked>>
  /\ UNCHANGED <<device, line>>

SubmitWake ==
  /\ task = "wake"
  /\ registered' = FALSE /\ task' = "idle"
  /\ UNCHANGED <<worker, seen, seq, armed, slot, faults, fw, ring, queue, sent, asked>>
  /\ UNCHANGED <<device, line>>

----------------------------------------------------------------------------

Worker ==
  \/ Quiet \/ Arm \/ Unmask \/ Acknowledge \/ Take \/ Complete \/ Seen
  \/ InspectRings \/ InspectQueue \/ Wait \/ Register \/ Recheck \/ Woken
  \/ Disable \/ Mask \/ Disarm \/ Release

Handler == Interrupt \/ ClaimArmed \/ ClaimStatus \/ Ready \/ Notify \/ WakeOne

Next ==
  \/ Worker \/ Handler \/ OtherRequests
  \/ FwPublish \/ FwDoorbell \/ Submit \/ SubmitNotify \/ SubmitWake

\* The worker is scheduled, interrupts are delivered, and a firmware or task
\* that published work goes on to announce it.
Fairness ==
  /\ WF_vars(Worker) /\ WF_vars(Handler)
  /\ WF_vars(FwDoorbell) /\ WF_vars(SubmitNotify) /\ WF_vars(SubmitWake)

Spec == Init /\ [][Next]_vars /\ Fairness

----------------------------------------------------------------------------

TypeOK ==
  /\ worker \in {"quiet", "arm", "unmask", "ack", "take", "complete", "seen", "queue",
                 "rings", "busy", "wait", "register", "recheck", "asleep", "disable",
                 "mask", "disarm", "release", "gone"}
  /\ irq \in {"idle", "claim", "status", "ready", "count", "wake"}
  /\ seq \in Nat /\ seen \in Nat
  /\ {registered, armed, slot, status, mask, intx, held, lost, other} \subseteq BOOLEAN
  /\ fw \in {"idle", "ring"} /\ task \in {"idle", "count", "wake"}
  /\ ring \in 0..MaxRing /\ queue \in 0..MaxQueue
  /\ sent \in 0..MaxRing /\ asked \in 0..MaxQueue /\ faults \in 0..MaxFaults

\* A masked line has exactly one party that will unmask it: the handler in
\* progress, the token in the slot or the worker that took it.  With it the
\* assertion in deferred_interrupt_ready cannot fail.
HoldAccounted ==
  LET parties == (IF irq \in {"claim", "status", "ready"} THEN 1 ELSE 0)
               + (IF slot THEN 1 ELSE 0)
               + (IF worker \in {"complete", "release"} THEN 1 ELSE 0)
  IN  parties + (IF lost THEN 1 ELSE 0) = (IF held THEN 1 ELSE 0)

\* Whatever the interleaving of inspection, registration and notification, a
\* submission published before notify() is inspected; there is no polling timer.
SubmissionsInspected == queue > 0 ~> (queue = 0 \/ worker = "gone")

\* "A software submission or IRQ between the last ring read and this call
\* cannot be lost": a completion the firmware announced is inspected too.
CompletionsInspected == ring > 0 ~> (ring = 0 \/ worker = "gone")

\* A radio that is gone leaves the line to the other device.
SharedLineServed == (other /\ worker = "gone") ~> (~other \/ lost)
=============================================================================
