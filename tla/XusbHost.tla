------------------------------ MODULE XusbHost ------------------------------
(***************************************************************************)
(* The host of runtime.rs: the tasks typec_monitor, worker (startup) and   *)
(* mailbox_worker share the flags of Host, the Falcon lock and two wakers. *)
(* A step is the code between two accesses to shared state.  The Type-C    *)
(* policies, which SourcePolicy and PdPolicy model in detail, appear here  *)
(* as one pass that boosts VBUS for a source partner and reports a host.   *)
(* The tasks have CPUs of their own (dedicated_mailbox).                   *)
(***************************************************************************)
EXTENDS Naturals

CONSTANTS
  MaxChanges,  \* bound: how often the connector changes
  MaxErrors,   \* bound: how many operations fail
  Latched      \* does Waker remember a wake_one() that finds nobody waiting?

ASSUME HostAssumption ==
  MaxChanges \in Nat /\ MaxErrors \in Nat /\ Latched \in BOOLEAN

VARIABLES
  port,     \* the connector: no host role, a powered partner, one to boost
  irq,      \* ALERT is asserted: the monitor will not sleep
  changes, errors,
  boost,    \* the charger boosts VBUS
  active,   \* Falcon::active
  gate,     \* the PHY is electrically connected
  lock,     \* who holds the Falcon lock
  flags,    \* the AtomicBools of Host
  wake,     \* typec_waker has been woken
  mon,      \* where typec_monitor is
  loc,      \* its locals
  st        \* where the startup worker is

hw   == <<boost, active, gate>>
vars == <<port, irq, changes, errors, hw, lock, flags, wake, mon, loc, st>>

Flags == {"role", "phy_ready", "allow_connection", "failed", "bound", "mailbox_ready"}

\* ready is the pass's is_host; error and gate_error are *_error_reported.
Locals == [ready : BOOLEAN, requested : BOOLEAN, connected : BOOLEAN,
           error : BOOLEAN, gate_error : BOOLEAN]

Succeed == UNCHANGED errors
Fails   == errors < MaxErrors /\ errors' = errors + 1

\* wake_one() on typec_waker; on startup_waker it is not needed, since the
\* startup worker waits for a condition.
WakeMonitor == wake' = (wake \/ Latched \/ mon = "wait")

Change ==
  /\ changes < MaxChanges
  /\ changes' = changes + 1
  /\ port' \in {"none", "sink", "source"} \ {port}
  /\ irq' = TRUE
  /\ UNCHANGED <<errors, hw, lock, flags, wake, mon, loc, st>>

----------------------------------------------------------------------------
(* typec_monitor. *)

\* enable_interrupts(); boost has been off since the probe.
Setup ==
  /\ mon = "setup"
  /\ \/ Succeed /\ mon' = "load" /\ UNCHANGED flags
     \/ Fails /\ mon' = "exited" /\ flags' = [flags EXCEPT !.failed = TRUE]
  /\ UNCHANGED <<port, irq, changes, hw, lock, wake, loc, st>>

LoadFailed ==
  /\ mon = "load"
  /\ mon' = IF flags.failed THEN "stop" ELSE "pass"
  /\ UNCHANGED <<port, irq, changes, errors, hw, lock, flags, wake, loc, st>>

\* TypecPort::monitor: the alert is drained, boost follows the partner.  A
\* pass that fails withdraws boost, unless that fails too.
Pass ==
  /\ mon = "pass" /\ mon' = "role"
  /\ irq' = FALSE
  /\ \/ Succeed /\ boost' = (port = "source")
        /\ loc' = [loc EXCEPT !.ready = (port # "none"), !.error = FALSE]
     \/ Fails /\ boost' \in {FALSE, boost}
        /\ loc' = [loc EXCEPT !.ready = FALSE, !.error = TRUE]
  /\ UNCHANGED <<port, changes, active, gate, lock, flags, wake, st>>

StopSourcing ==
  /\ mon = "stop" /\ mon' = "role"
  /\ \/ Succeed /\ boost' = FALSE
        /\ loc' = [loc EXCEPT !.ready = FALSE, !.error = FALSE]
     \/ Fails /\ UNCHANGED boost
        /\ loc' = [loc EXCEPT !.ready = FALSE, !.error = TRUE]
  /\ UNCHANGED <<port, irq, changes, active, gate, lock, flags, wake, st>>

SwapRole ==
  /\ mon = "role" /\ mon' = "gate"
  /\ flags' = [flags EXCEPT !.role = loc.ready]
  /\ UNCHANGED <<port, irq, changes, errors, hw, lock, wake, loc, st>>

\* Mutated form: a connection is requested before the host is published.
Wanted_Early == ~flags.failed

\* The connection is wanted as far as the flags allow one.
Wanted == flags.allow_connection /\ ~flags.failed

\* Mutated form: the gate is only looked at to connect.
Gate_Opens ==
  /\ mon = "gate"
  /\ loc' = [loc EXCEPT !.requested = loc.ready /\ Wanted]
  /\ mon' = IF flags.phy_ready /\ loc.ready /\ Wanted /\ ~loc.connected THEN "lock" ELSE "end"
  /\ UNCHANGED <<port, irq, changes, errors, hw, lock, flags, wake, st>>

Gate ==
  /\ mon = "gate"
  /\ loc' = [loc EXCEPT !.requested = loc.ready /\ Wanted]
  /\ mon' = IF flags.phy_ready /\ loc'.requested # loc.connected THEN "lock" ELSE "end"
  /\ UNCHANGED <<port, irq, changes, errors, hw, lock, flags, wake, st>>

\* Under the Falcon lock the flags are read again.  A partial change leaves
\* the gate unknown; connected keeps the monitor retrying OFF.
SetConnection ==
  /\ mon = "lock" /\ lock = "free" /\ mon' = "end"
  /\ \/ ~flags.phy_ready /\ Succeed /\ UNCHANGED <<gate, loc, flags>>
     \/ /\ flags.phy_ready /\ Succeed
        /\ gate' = (loc.requested /\ Wanted)
        /\ loc' = [loc EXCEPT !.connected = gate', !.gate_error = FALSE]
        /\ UNCHANGED flags
     \/ /\ flags.phy_ready /\ Fails
        /\ gate' \in BOOLEAN
        /\ loc' = [loc EXCEPT !.connected = TRUE, !.gate_error = TRUE]
        /\ flags' = [flags EXCEPT !.failed = TRUE]
  /\ UNCHANGED <<port, irq, changes, boost, active, lock, wake, st>>

\* The end of the loop: back off after an error, leave after a failure, else
\* rearm the pin and wait.
End ==
  /\ mon = "end"
  /\ mon' = IF loc.error \/ loc.gate_error THEN "backoff"
            ELSE IF flags.failed THEN "exited" ELSE "wait"
  /\ UNCHANGED <<port, irq, changes, errors, hw, lock, flags, wake, loc, st>>

Wait ==
  /\ \/ mon = "wait" /\ (irq \/ wake)
     \/ mon = "backoff"
  /\ mon' = "load" /\ wake' = FALSE
  /\ UNCHANGED <<port, irq, changes, errors, hw, lock, flags, loc, st>>

Monitor ==
  Setup \/ LoadFailed \/ Pass \/ StopSourcing \/ SwapRole \/ Gate \/ SetConnection \/ End \/ Wait

----------------------------------------------------------------------------
(* The startup worker and Host::start. *)

\* An operation of start() that fails ends it with an error.
StartFails == Fails /\ st' = "fail"

Start ==
  /\ st = "idle" /\ ~flags.failed /\ flags.role
  /\ \/ Succeed /\ st' = "boot"
     \/ StartFails   \* the supplies
  /\ UNCHANGED <<port, irq, changes, hw, lock, flags, wake, mon, loc>>

StartupExits ==
  /\ st = "idle" /\ flags.failed /\ st' = "exited"
  /\ UNCHANGED <<port, irq, changes, errors, hw, lock, flags, wake, mon, loc>>

\* Falcon::boot marks the controller active and closes the gate ...
Boot ==
  /\ st = "boot" /\ lock = "free"
  /\ lock' = "startup" /\ st' = "booting"
  /\ active' = TRUE /\ gate' = FALSE
  /\ UNCHANGED <<port, irq, changes, errors, boost, flags, wake, mon, loc>>

\* ... and starts the firmware.
Booted ==
  /\ st = "booting" /\ lock' = "free"
  /\ \/ Succeed /\ st' = "recheck" /\ flags' = [flags EXCEPT !.phy_ready = TRUE]
     \/ StartFails /\ UNCHANGED flags
     \/ StartFails /\ flags' = [flags EXCEPT !.phy_ready = TRUE]   \* the DMA context
  /\ UNCHANGED <<port, irq, changes, hw, wake, mon, loc>>

\* TypecPort::poll, without draining the alert.
Recheck ==
  /\ st = "recheck"
  /\ \/ Succeed /\ boost' = (port = "source")
        /\ st' = IF port = "none" THEN "retire" ELSE "bind"
     \/ StartFails /\ boost' \in {FALSE, boost}
  /\ UNCHANGED <<port, irq, changes, active, gate, lock, flags, wake, mon, loc>>

Retire ==
  /\ st = "retire" /\ st' = "isolate"
  /\ flags' = [flags EXCEPT !.role = FALSE, !.mailbox_ready = FALSE]
  /\ UNCHANGED <<port, irq, changes, errors, hw, lock, wake, mon, loc>>

Isolate ==
  /\ st = "isolate" /\ lock = "free"
  /\ flags' = [flags EXCEPT !.phy_ready = FALSE]
  /\ \/ Succeed /\ active' = FALSE /\ WakeMonitor /\ st' = "idle"
     \/ StartFails /\ UNCHANGED <<active, wake>>
  /\ UNCHANGED <<port, irq, changes, boost, gate, lock, mon, loc>>

\* The mailbox IRQ is registered; from here on the controller stays resident.
Bind ==
  /\ st = "bind"
  /\ \/ Succeed /\ st' = "binding"
        /\ flags' = [flags EXCEPT !.mailbox_ready = TRUE, !.bound = TRUE]
     \/ StartFails /\ UNCHANGED flags
  /\ UNCHANGED <<port, irq, changes, hw, lock, wake, mon, loc>>

\* bind_xhci, the first message, the check of failed and of the ports.
Binding ==
  /\ st = "binding"
  /\ \/ flags.failed /\ Succeed /\ st' = "fail"
     \/ ~flags.failed /\ Succeed /\ st' = "allow"
     \/ StartFails
  /\ UNCHANGED <<port, irq, changes, hw, lock, flags, wake, mon, loc>>

Allow ==
  /\ st = "allow" /\ st' = "exited"
  /\ flags' = [flags EXCEPT !.allow_connection = TRUE]
  /\ WakeMonitor
  /\ UNCHANGED <<port, irq, changes, errors, hw, lock, mon, loc>>

\* Mutated form: a failed start is always unwound, also after binding.
Fail_Unwinds ==
  /\ st = "fail" /\ st' = "unwind"
  /\ flags' = [flags EXCEPT !.failed = TRUE]
  /\ WakeMonitor
  /\ UNCHANGED <<port, irq, changes, errors, hw, lock, mon, loc>>

Fail ==
  /\ st = "fail" /\ st' = IF flags.bound THEN "exited" ELSE "unwind"
  /\ flags' = [flags EXCEPT !.failed = TRUE]
  /\ WakeMonitor
  /\ UNCHANGED <<port, irq, changes, errors, hw, lock, mon, loc>>

Unwind ==
  /\ st = "unwind" /\ lock = "free" /\ st' = "exited"
  /\ flags' = [flags EXCEPT !.mailbox_ready = FALSE, !.phy_ready = FALSE]
  /\ \/ Succeed /\ active' = FALSE
     \/ Fails /\ UNCHANGED active
  /\ UNCHANGED <<port, irq, changes, boost, gate, lock, wake, mon, loc>>

Startup ==
  Start \/ StartupExits \/ Boot \/ Booted \/ Recheck \/ Retire \/ Isolate
  \/ Bind \/ Binding \/ Allow \/ Fail \/ Unwind

\* service_mailbox_worker: the firmware hangs, or a fast service failed.
MailboxFails ==
  /\ flags.mailbox_ready /\ lock = "free" /\ Fails
  /\ flags' = [flags EXCEPT !.failed = TRUE]
  /\ WakeMonitor
  /\ UNCHANGED <<port, irq, changes, hw, lock, mon, loc, st>>

----------------------------------------------------------------------------
(* The specification. *)

Init ==
  /\ port \in {"none", "sink", "source"} /\ irq = FALSE /\ changes = 0 /\ errors = 0
  /\ boost = FALSE /\ active = FALSE /\ gate = FALSE /\ lock = "free"
  /\ flags = [f \in Flags |-> FALSE]
  /\ wake = FALSE /\ mon = "setup" /\ st = "idle"
  /\ loc = [ready |-> FALSE, requested |-> FALSE, connected |-> FALSE,
            error |-> FALSE, gate_error |-> FALSE]

Next == Change \/ Monitor \/ Startup \/ MailboxFails

\* Both tasks are scheduled; a contended Falcon lock is eventually granted.
Fairness == WF_vars(Monitor) /\ WF_vars(Startup)

Spec == Init /\ [][Next]_vars /\ Fairness

----------------------------------------------------------------------------
(* Properties. *)

\* Every variable keeps its type.
TypeOK ==
  /\ port \in {"none", "sink", "source"} /\ irq \in BOOLEAN
  /\ changes \in 0 .. MaxChanges /\ errors \in 0 .. MaxErrors
  /\ boost \in BOOLEAN /\ active \in BOOLEAN /\ gate \in BOOLEAN
  /\ lock \in {"free", "startup"} /\ flags \in [Flags -> BOOLEAN] /\ wake \in BOOLEAN
  /\ mon \in {"setup", "load", "pass", "stop", "role", "gate", "lock", "end", "wait",
              "backoff", "exited"}
  /\ loc \in Locals
  /\ st \in {"idle", "boot", "booting", "recheck", "retire", "isolate", "bind",
             "binding", "allow", "fail", "unwind", "exited"}

\* The cable is not exposed while the common driver resets and publishes its
\* controller: the gate is closed until start() has finished.
ExposedWhenPublished == gate => st = "exited" /\ flags.bound /\ active

\* When the monitor goes to sleep it leaves the gate open only for a host its
\* last pass saw.
GateFollowsRole == mon = "wait" /\ gate => loc.ready

\* Once the common driver may have published its worker the controller is
\* never reset or isolated again: that "would race that worker".
BoundStaysResident == flags.bound => active /\ lock # "startup"

\* A partner that stays is eventually connected, whatever role changes raced
\* the startup worker's recheck.
HostServed == []~flags.failed /\ <>[](port # "none") => <>[]gate

\* A connector without a host role is eventually isolated and not boosted.
RoleLossIsolates ==
  []~flags.failed /\ <>[](port = "none") => <>[](~gate /\ ~boost)

\* A fatal failure withdraws the connection and the boost: "A host failure
\* after that point continues firmware mailbox service while withdrawing the
\* physical connection".
FailureWithdraws == <>flags.failed => <>[](~gate /\ ~boost)
=============================================================================
