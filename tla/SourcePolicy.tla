---------------------------- MODULE SourcePolicy ----------------------------
(***************************************************************************)
(* SourcePolicy and HostPolicy of typec.rs with the VBUS callbacks of      *)
(* charger.rs: when the BQ24193 may boost VBUS, what a source fault        *)
(* forbids afterwards, and when a source-mode host is published.  A step   *)
(* is one I2C transaction (a stable snapshot, or a read-modify-write with  *)
(* its readback, counts as one); between two of them the cable and the     *)
(* controller, which are external, may do anything.  Time is discrete: the *)
(* 220 ms of the regulator are Settle ticks.                               *)
(***************************************************************************)
EXTENDS Naturals
LOCAL INSTANCE TLC

CONSTANTS
  Sides,      \* the CC sides a plug can use
  MaxCables,  \* bound: how many cables are plugged in, one after the other
  MaxNoise,   \* bound: faults and role changes, of any cable
  MaxErrors,  \* bound: how many I2C transactions fail
  Settle      \* ticks in the regulator's enable time

ASSUME SourceAssumption ==
  /\ Sides # {} /\ "none" \notin Sides
  /\ MaxCables \in Nat /\ MaxNoise \in Nat /\ MaxErrors \in Nat
  /\ Settle \in Nat \ {0}

\* Orientations are compared with each other and with "none", never told
\* apart: the two sides of the connector may be exchanged.
SideSymmetry == Permutations(Sides)

VARIABLES
  cable,    \* how many cables have been plugged in so far
  port,     \* what STATUS1, STATUS2 and DP_STATUS report
  alert,    \* the bits pending in ALERT
  noise,    \* faults and role changes so far
  mode,     \* the charger's mode field: off, charge or otg (boost)
  rail,     \* how long VBUS has been boosted, in ticks up to Settle
  init,     \* ControllerInit::phase
  due,      \* ... and whether its 100 ms have passed
  src,      \* the fields of SourcePolicy
  settle,   \* boost_waiting_tick and boost_ready_at of HostPolicy
  pass,     \* the call that holds the lock: monitor, recheck, startup, none
  at,       \* the transaction that comes next, "rest" when none does
  hand,     \* the captured ALERT bits of the pass
  view,     \* the port state the pass goes by
  prior,    \* prior_unresolved
  was,      \* was_sourcing
  since,    \* ticks since monitored_at, while a delay may be anchored there
  host,     \* is_host of the last monitor pass, FALSE after an error
  retry,    \* the last monitor pass failed: typec_monitor backs off 100 ms
  failed,   \* typec_monitor has found host.failed set
  errors,   \* transactions that have failed
  culprit,  \* history: the cable whose fault is pending in ALERT
  faulty,   \* history: the cables whose fault a monitor pass has consumed
  viewed,   \* history: the cable of the last snapshot
  inherited \* history: the mode the firmware left, boost withdrawn

env   == <<cable, port, alert, noise, culprit>>
power == <<mode, rail>>
locals == <<pass, at, hand, view, prior, was, since>>
outcome == <<host, retry, failed>>
hist  == <<faulty, viewed, inherited>>
vars  == <<env, power, init, due, src, settle, locals, outcome, errors, hist>>

Bits  == {"FAULT", "PLUGPULL"}

\* source stands for is_source, otg_inserted, no accessory and no active DP.
Ports == [attached : BOOLEAN, side : Sides, source : BOOLEAN, fault : BOOLEAN]

Inits == {"Begin", "WaitStart", "WaitReset", "WaitSettle", "Ready", "Failed"}

\* saved_power is the mode to restore; latch is fault_attachment.
Sources == [saved : {"none", "off", "charge"}, latch : Sides \cup {"none"},
            unresolved : BOOLEAN]

\* ready "run" has ticked age times, "settled" once a monitor pass began after
\* the deadline (monitored_at >= deadline).
Settles == [tick : BOOLEAN, ready : {"none", "run", "settled"}, age : 0 .. Settle]

Unsettled == [tick |-> FALSE, ready |-> "none", age |-> 0]

can_source(p) == p.attached /\ p.source /\ ~p.fault

SideOf(p) == IF p.attached THEN p.side ELSE "none"

----------------------------------------------------------------------------
(* The environment: the connector and the controller. *)

Attach ==
  /\ ~port.attached /\ cable < MaxCables
  /\ cable' = cable + 1
  /\ \E s \in Sides, b \in BOOLEAN :
       port' = [attached |-> TRUE, side |-> s, source |-> b, fault |-> FALSE]
  /\ alert' = alert \cup {"PLUGPULL"}
  /\ UNCHANGED <<noise, culprit>>

Detach ==
  /\ port.attached
  /\ port' = [port EXCEPT !.attached = FALSE, !.fault = FALSE]
  /\ alert' = alert \cup {"PLUGPULL"}
  /\ UNCHANGED <<cable, noise, culprit>>

\* The controller reports a fault of this cable, in ALERT alone or also in
\* STATUS1; the report in STATUS1 may end by itself.
Fault ==
  /\ port.attached /\ noise < MaxNoise
  /\ noise' = noise + 1
  /\ \E b \in BOOLEAN : port' = [port EXCEPT !.fault = b]
  /\ alert' = alert \cup {"FAULT"}
  /\ culprit' = cable
  /\ UNCHANGED cable

FaultEnds ==
  /\ port.fault
  /\ port' = [port EXCEPT !.fault = FALSE]
  /\ UNCHANGED <<cable, alert, noise, culprit>>

\* The power role changes; no ALERT bit is promised for that.
RoleChange ==
  /\ port.attached /\ noise < MaxNoise
  /\ noise' = noise + 1
  /\ port' = [port EXCEPT !.source = ~@]
  /\ UNCHANGED <<cable, alert, culprit>>

Environment ==
  /\ Attach \/ Detach \/ Fault \/ FaultEnds \/ RoleChange
  /\ UNCHANGED <<power, init, due, src, settle, locals, outcome, errors, hist>>

\* Time passes: the rail rises, the anchored delay runs, the 100 ms end.  A
\* monitor pass goes by the time it began at.
Tick ==
  /\ rail' = IF mode = "otg" /\ rail < Settle THEN rail + 1 ELSE rail
  /\ settle' = IF settle.ready = "run" /\ settle.age < Settle
               THEN [settle EXCEPT !.age = @ + 1] ELSE settle
  /\ since' = IF pass = "monitor" /\ settle.ready = "none" /\ since < Settle
              THEN since + 1 ELSE since
  /\ due' = (due \/ (init \in {"WaitStart", "WaitReset", "WaitSettle"} /\ pass # "monitor"))
  /\ <<rail', settle', since', due'>> # <<rail, settle, since, due>>
  /\ UNCHANGED <<env, mode, init, src, pass, at, hand, view, prior, was, outcome, errors, hist>>

----------------------------------------------------------------------------
(* One transaction: what it changes, and where the pass goes on. *)

Lapse   == errors < MaxErrors /\ errors' = errors + 1
Succeed == UNCHANGED errors

Go(step) == at' = step /\ UNCHANGED <<pass, hand, prior, was, since>>

\* The call returns: the lock is free, the locals are dead.
Return ==
  /\ pass' = "none" /\ at' = "rest" /\ hand' = {}
  /\ prior' = FALSE /\ was' = FALSE /\ since' = 0

\* The charger keeps its mode, or enters m; boost starts from a flat rail.
SetMode(m) == mode' = m /\ rail' = IF m = "otg" /\ mode = "otg" THEN rail ELSE 0

\* Mutated form: the saved mode is dropped although withdrawing boost failed.
stop_Forgets(ok) ==
  LET target == IF src.saved = "charge" THEN "charge" ELSE "off"
      owned  == src.saved # "none" \/ mode = "otg"
  IN /\ src' = [src EXCEPT !.saved = "none"]
     /\ SetMode(IF ok /\ owned THEN target ELSE mode)

\* SourcePolicy::stop with source_disable: on failure the mode field may hold
\* the old value, the restored one or the fallback's off.
stop(ok) ==
  LET target == IF src.saved = "charge" THEN "charge" ELSE "off"
      owned  == src.saved # "none" \/ mode = "otg"
  IN IF ok
     THEN /\ src' = [src EXCEPT !.saved = "none"]
          /\ SetMode(IF owned THEN target ELSE mode)
     ELSE /\ \E m \in {mode} \cup (IF owned THEN {target, "off"} ELSE {}) : SetMode(m)
          /\ UNCHANGED src

\* The outcomes of a stop: step ok when it succeeds, step bad when it does not.
Stopping(ok, bad) ==
  \/ Succeed /\ stop(TRUE) /\ Go(ok)
  \/ Lapse /\ stop(FALSE) /\ Go(bad)

\* observe(): the snapshot is read.  A status fault is latched at once.
Seen == viewed' = cable /\ UNCHANGED <<faulty, inherited>>

Latched(p) == [src EXCEPT !.latch = SideOf(p)]

\* A snapshot that is not returned: a failed read, or a fault in STATUS1.
ObserveFails ==
  /\ \/ Lapse /\ UNCHANGED <<src, hist>>
     \/ port.fault /\ Succeed /\ src' = Latched(port) /\ Seen
  /\ Go("shutdown")
  /\ UNCHANGED <<env, power, init, due, settle, view, outcome>>

ObserveOk == ~port.fault /\ Succeed /\ Seen /\ view' = port

----------------------------------------------------------------------------
(* The calls that take the lock. *)

\* Mutated form: an idle port is only looked at after an interrupt, so that
\* neither the one-shot tick nor the settling deadline has a timer.
\* Mutated form: a failed pass waits for the next interrupt, without back-off.
Wake_NoRetry ==
  \/ alert # {}
  \/ init = "Begin"
  \/ init \in {"WaitStart", "WaitReset", "WaitSettle"} /\ due
  \/ init = "Ready" /\ settle.tick
  \/ init = "Ready" /\ settle.ready = "run" /\ settle.age = Settle

\* next_deadline_ns() and the reasons of typec_monitor to run a pass.
Wake ==
  \/ alert # {} \/ retry
  \/ init = "Begin"
  \/ init \in {"WaitStart", "WaitReset", "WaitSettle"} /\ due
  \/ init = "Ready" /\ settle.tick
  \/ init = "Ready" /\ settle.ready = "run" /\ settle.age = Settle

\* The monitor's pass ends with an error.
MonitorFails ==
  /\ Return
  /\ settle' = Unsettled
  /\ host' = FALSE
  /\ retry' = TRUE
  /\ UNCHANGED failed

\* The startup task's poll ends with an error: it sets host.failed and wakes
\* typec_monitor.
StartupFails ==
  /\ Return
  /\ settle' = Unsettled
  /\ failed' = TRUE
  /\ retry' = TRUE
  /\ UNCHANGED host

\* ... or finds no host: the monitor is woken to reconcile.
StartupEnds(isHost) ==
  /\ Return
  /\ retry' = (retry \/ ~isHost)
  /\ UNCHANGED <<host, failed>>

\* monitor_inner(): monitored_at = now, and the one drain of ALERT.
Drain ==
  /\ at = "rest" /\ ~failed
  /\ \/ /\ Succeed
        /\ pass' = "monitor" /\ since' = 0
        /\ at' = IF init = "Ready" THEN "observe" ELSE "init_stop"
        /\ hand' = alert
        /\ alert' = {}
        /\ faulty' = IF "FAULT" \in alert THEN faulty \cup {culprit} ELSE faulty
        /\ settle' = IF settle.ready = "run" /\ settle.age = Settle
                     THEN [settle EXCEPT !.ready = "settled"] ELSE settle
        /\ prior' = src.unresolved
        /\ was' = (init = "Ready" /\ src.saved # "none")
        /\ src' = [src EXCEPT !.unresolved = @ \/ "FAULT" \in alert]
        /\ UNCHANGED <<outcome>>
     \/ Lapse /\ MonitorFails /\ UNCHANGED <<alert, faulty, src>>
  /\ UNCHANGED <<cable, port, noise, culprit, power, init, due, view, viewed, inherited>>

\* Host::start calls HostPolicy::poll, which never consumes ALERT.  Whatever
\* sets host.failed comes after that call.
Startup ==
  /\ at = "rest" /\ ~failed
  /\ pass' = "startup"
  /\ at' = IF init = "Ready" THEN "observe" ELSE "init_stop"
  /\ hand' = {}
  /\ prior' = src.unresolved
  /\ was' = (src.saved # "none")
  /\ since' = 0
  /\ UNCHANGED <<env, power, init, due, src, settle, view, outcome, errors, hist>>

\* typec_monitor finds host.failed set: stop_sourcing() until it succeeds; no
\* pass follows.
StopSourcing ==
  /\ at = "rest" /\ (failed => retry)
  /\ failed' = TRUE
  /\ settle' = Unsettled
  /\ host' = FALSE
  /\ \/ Succeed /\ stop(TRUE) /\ retry' = FALSE
     \/ Lapse /\ stop(FALSE) /\ retry' = TRUE
     \/ Lapse /\ stop(TRUE) /\ retry' = TRUE   \* the charging work is not cancelled
  /\ UNCHANGED <<env, init, due, locals, hist>>

----------------------------------------------------------------------------
(* ControllerInit: until it is ready, every pass first stops boost. *)

\* A pass other than the monitor's does nothing more; a fault ends the pass.
InitStop ==
  /\ at = "init_stop"
  /\ \/ /\ Succeed /\ stop(TRUE)
        /\ \/ pass = "monitor" /\ "FAULT" \notin hand /\ Go("init")
              /\ UNCHANGED <<settle, outcome>>
           \/ pass = "monitor" /\ "FAULT" \in hand /\ MonitorFails
           \/ pass = "startup" /\ StartupEnds(FALSE) /\ UNCHANGED settle
     \/ /\ Lapse /\ stop(FALSE)
        /\ IF pass = "monitor" THEN MonitorFails ELSE StartupFails
     \/ pass = "startup" /\ Lapse /\ stop(TRUE) /\ StartupFails   \* the snapshot
  /\ UNCHANGED <<env, init, due, view, hist>>

\* The phase moves on; the pass ends with a snapshot, without a host.
InitTo(phase) ==
  /\ init' = phase /\ due' = FALSE
  /\ \/ Succeed /\ Return /\ host' = FALSE /\ retry' = FALSE
        /\ UNCHANGED <<settle, failed>>
     \/ Lapse /\ MonitorFails

\* Any failure is final: the monitor keeps reporting it.
InitFails == init' = "Failed" /\ UNCHANGED due /\ MonitorFails

InitPoll ==
  /\ at = "init"
  /\ \/ init = "Begin" /\ InitTo("WaitStart")
     \/ init = "WaitStart" /\ due /\ InitTo("WaitSettle")
     \/ init = "WaitStart" /\ due /\ port.attached /\ InitTo("WaitReset")
     \/ init \notin {"Begin", "Failed"} /\ ~due /\ InitTo(init)
     \/ init = "WaitSettle" /\ due /\ Succeed /\ Go("observe") /\ init' = "Ready"
        /\ UNCHANGED <<due, settle, outcome>>
     \/ init \in {"Begin", "WaitStart"} /\ (due \/ init = "Begin") /\ Lapse /\ InitFails
     \/ init = "Failed" /\ Succeed /\ InitFails
  /\ UNCHANGED <<env, power, src, view, hist>>

\* WaitReset reads ALERT once more; a fault in it is kept for later.
InitReset ==
  /\ at = "init" /\ init = "WaitReset" /\ due
  /\ \/ Lapse /\ InitFails /\ UNCHANGED <<alert, src, faulty>>
     \/ /\ alert' = {}
        /\ faulty' = IF "FAULT" \in alert THEN faulty \cup {culprit} ELSE faulty
        /\ src' = [src EXCEPT !.unresolved = @ \/ "FAULT" \in alert]
        /\ \/ "FAULT" \notin alert /\ InitTo("WaitSettle")
           \/ Succeed /\ InitFails   \* a fault, or the reset did not complete
  /\ UNCHANGED <<cable, port, noise, culprit, power, view, viewed, inherited>>

----------------------------------------------------------------------------
(* SourcePolicy::poll_with_alert. *)

\* What follows once no older fault is in the way of state p: a fault in hand
\* is latched to it, and a port that sources or did so is looked at again.
Goes(p, s) ==
  LET again == (p.attached /\ p.source) \/ s.saved # "none" \/ "FAULT" \in hand
  IN /\ src' = IF "FAULT" \in hand THEN [s EXCEPT !.latch = SideOf(p)] ELSE s
     /\ Go(IF again THEN "again" ELSE "apply")

\* The fault that an earlier pass could not place belongs to this attachment.
Placed == [src EXCEPT !.unresolved = FALSE, !.latch = IF prior THEN SideOf(port) ELSE @]

Observe ==
  /\ at = "observe"
  /\ \/ ObserveFails
     \/ /\ ObserveOk
        /\ \/ Placed.latch = "none" /\ Goes(port, Placed)
           \/ Placed.latch # "none" /\ src' = Placed
              /\ Go(IF SideOf(port) = Placed.latch THEN "latched" ELSE "confirm")
        /\ UNCHANGED <<env, power, init, due, settle, outcome>>

\* A second snapshot must agree that the faulted attachment is gone.
Confirm ==
  /\ at = "confirm"
  /\ \/ ObserveFails
     \/ /\ ObserveOk
        /\ \/ SideOf(port) # src.latch /\ Goes(port, [src EXCEPT !.latch = "none"])
           \/ SideOf(port) = src.latch /\ Go("latched") /\ UNCHANGED src
        /\ UNCHANGED <<env, power, init, due, settle, outcome>>

\* The second look: with a fault in hand it only stops (and resets PD).
Again ==
  /\ at = "again"
  /\ \/ ObserveFails
     \/ /\ ObserveOk
        /\ Go(IF "FAULT" \in hand THEN "latched" ELSE "apply")
        /\ UNCHANGED <<env, power, init, due, src, settle, outcome>>

\* Stop because of a latched fault; the pass fails either way.
StopLatched ==
  /\ at = "latched"
  /\ Stopping("shutdown", "shutdown")
  /\ UNCHANGED <<env, init, due, settle, view, outcome, hist>>

\* apply(): stop, or remember the mode that boost will replace.
Apply ==
  /\ at = "apply"
  /\ \/ ~can_source(view) /\ Stopping("last", "shutdown")
     \/ /\ can_source(view)
        /\ \/ /\ Succeed /\ Go("enable")
              /\ src' = [src EXCEPT !.saved =
                           IF @ # "none" THEN @ ELSE IF mode = "charge" THEN mode ELSE "off"]
           \/ src.saved = "none" /\ Lapse /\ Go("shutdown") /\ UNCHANGED src
        /\ UNCHANGED power
  /\ UNCHANGED <<env, init, due, settle, view, outcome, hist>>

\* source_enable() validates with a snapshot of its own before each write.
Enable ==
  /\ at = "enable"
  /\ \/ mode = "otg" /\ Succeed /\ Go("last") /\ UNCHANGED viewed
     \/ mode # "otg" /\ can_source(port) /\ Succeed /\ Go("boost") /\ viewed' = cable
     \/ mode # "otg" /\ ~can_source(port) /\ Succeed /\ Go("shutdown") /\ viewed' = cable
     \/ Lapse /\ Go("shutdown") /\ UNCHANGED viewed
  /\ UNCHANGED <<env, power, init, due, src, settle, view, outcome, faulty, inherited>>

\* The write of the mode field; a failed one may have reached the charger.
Boost ==
  /\ at = "boost"
  /\ \/ Succeed /\ SetMode("otg") /\ Go("last")
     \/ Lapse /\ (\E m \in {mode, "otg"} : SetMode(m)) /\ Go("shutdown")
  /\ UNCHANGED <<env, init, due, src, settle, view, outcome, hist>>

\* The role is revalidated after boost was enabled.
Last ==
  /\ at = "last"
  /\ \/ ObserveFails
     \/ /\ ObserveOk
        /\ Go(IF can_source(port) THEN "done" ELSE "withdraw")
        /\ UNCHANGED <<env, power, init, due, src, settle, outcome>>

Withdraw ==
  /\ at = "withdraw"
  /\ Stopping("done", "shutdown")
  /\ UNCHANGED <<env, init, due, settle, view, outcome, hist>>

\* Every error ends with a stop, and with the settling proof cleared.
Shutdown ==
  /\ at = "shutdown"
  /\ \/ Succeed /\ stop(TRUE)
     \/ Lapse /\ stop(FALSE)
  /\ IF pass = "startup" THEN StartupFails ELSE MonitorFails
  /\ UNCHANGED <<env, init, due, view, hist>>

----------------------------------------------------------------------------
(* HostPolicy around the source policy. *)

\* Mutated form: the delay is anchored in the pass that enables boost, before
\* the enabling transactions have returned.
Anchored_Early ==
  IF src.saved = "none" THEN Unsettled
  ELSE IF settle.ready = "none" \/ ~was
       THEN [tick |-> FALSE, ready |-> "run", age |-> since] ELSE settle

\* monitor_inner() anchors the delay in the first pass that begins after the
\* one that enabled boost, at that pass's beginning.
Anchored ==
  LET old == IF was THEN settle ELSE Unsettled
  IN CASE src.saved = "none"  -> Unsettled
       [] src.saved # "none" /\ old.ready # "none" -> old
       [] src.saved # "none" /\ old.ready = "none" ->
            IF old.tick THEN [tick |-> FALSE, ready |-> "run", age |-> since]
            ELSE [old EXCEPT !.tick = TRUE]

MonitorDone ==
  /\ at = "done" /\ pass = "monitor"
  /\ settle' = Anchored
  /\ Go("pd")
  /\ UNCHANGED <<env, power, init, due, src, view, outcome, errors, hist>>

\* The PD policy (which may drain ALERT on a sink) and the charging work,
\* whose failure ends the pass without a stop; then HostPolicy::poll.
PdAndCharge ==
  /\ at = "pd"
  /\ \/ /\ Succeed
        /\ alert' \in {alert} \cup (IF view.attached /\ ~view.source THEN {{}} ELSE {})
        /\ pass' = "recheck" /\ at' = "observe" /\ hand' = {}
        /\ prior' = src.unresolved /\ was' = (src.saved # "none")
        /\ since' = 0
        /\ UNCHANGED <<settle, outcome>>
     \/ Lapse /\ MonitorFails /\ UNCHANGED alert
  /\ UNCHANGED <<cable, port, noise, culprit, power, init, due, src, view, hist>>

\* A recheck may begin a new source session, but cannot anchor its delay.
Kept == IF was /\ src.saved # "none" THEN settle ELSE Unsettled

\* is_host of a source attachment; for a sink the PD policy decides.
SourceHost == can_source(view) /\ Kept.ready = "settled"

Reported == IF view.attached /\ ~view.source THEN BOOLEAN ELSE {SourceHost}

PollDone ==
  /\ at = "done" /\ pass # "monitor"
  /\ settle' = Kept
  /\ IF pass = "startup"
     THEN \E isHost \in Reported : StartupEnds(isHost)
     ELSE /\ Return /\ retry' = FALSE /\ UNCHANGED failed
          /\ host' \in Reported
  /\ UNCHANGED <<env, power, init, due, src, view, errors, hist>>

----------------------------------------------------------------------------
(* The specification. *)

Init ==
  /\ cable = 0 /\ alert = {} /\ noise = 0 /\ culprit = 0
  /\ port \in [attached : {FALSE}, side : Sides, source : {FALSE}, fault : {FALSE}]
  /\ inherited \in {"off", "charge"}   \* probe() has stopped boost
  /\ mode = inherited /\ rail = 0
  /\ init = "Begin" /\ due = FALSE
  /\ src = [saved |-> "none", latch |-> "none", unresolved |-> FALSE]
  /\ settle = Unsettled
  /\ pass = "none" /\ at = "rest" /\ hand = {} /\ view = port
  /\ prior = FALSE /\ was = FALSE /\ since = 0
  /\ host = FALSE /\ retry = TRUE /\ failed = FALSE /\ errors = 0
  /\ faulty = {} /\ viewed = 0

Step ==
  \/ InitStop \/ InitPoll \/ InitReset
  \/ Observe \/ Confirm \/ Again \/ StopLatched \/ Apply \/ Enable \/ Boost
  \/ Last \/ Withdraw \/ Shutdown
  \/ MonitorDone \/ PdAndCharge \/ PollDone

Next == Drain \/ Startup \/ StopSourcing \/ Step \/ Tick \/ Environment

Fairness == WF_vars(Wake /\ Drain) /\ WF_vars(Step) /\ WF_vars(Tick)

Spec == Init /\ [][Next]_vars /\ Fairness

----------------------------------------------------------------------------
(* Properties. *)

\* Every variable keeps its type.
TypeOK ==
  /\ cable \in 0 .. MaxCables /\ port \in Ports /\ alert \subseteq Bits
  /\ noise \in 0 .. MaxNoise
  /\ mode \in {"off", "charge", "otg"} /\ rail \in 0 .. Settle
  /\ init \in Inits /\ due \in BOOLEAN
  /\ src \in Sources /\ settle \in Settles
  /\ pass \in {"none", "monitor", "recheck", "startup"}
  /\ hand \subseteq Bits /\ view \in Ports
  /\ prior \in BOOLEAN /\ was \in BOOLEAN /\ since \in 0 .. Settle
  /\ host \in BOOLEAN /\ retry \in BOOLEAN
  /\ failed \in BOOLEAN
  /\ errors \in 0 .. MaxErrors
  /\ culprit \in 0 .. MaxCables /\ faulty \subseteq 0 .. MaxCables
  /\ viewed \in 0 .. MaxCables /\ inherited \in {"off", "charge"}

\* Whenever no source session holds a mode to restore, the charger is in the
\* mode it was inherited in: source_disable() restores "only a known prior
\* non-OTG mode", and no failing transaction loses it or leaves boost unowned.
ModeRestored == src.saved = "none" => mode = inherited

\* A fault that was consumed from the read-clear ALERT keeps boost off for the
\* rest of the attachment: "a later successful poll must not re-enable boost".
FaultKeepsBoostOff == at = "boost" /\ viewed = cable => cable \notin faulty

\* It does so for as long as no I2C transaction has failed, whichever cable the
\* latch still holds when the fault is consumed.
FaultRemembered == errors = 0 => FaultKeepsBoostOff

\* A source-mode host is reported, to the monitor or to the startup task, only
\* after boost has been on without interruption for the regulator's 220 ms.
HostOnSettledRail ==
  at = "done" /\ pass # "monitor" /\ SourceHost => mode = "otg" /\ rail = Settle

\* A finished monitor pass leaves boost on only for a port it saw as a source.
BoostOnlyForSource ==
  at = "done" /\ mode = "otg" => can_source(view)

\* Boost is justified: switched on for a source and for no cable with a consumed
\* fault, and reported as a host only on a settled rail (typec.rs poll, ready).
BoostJustified == HostOnSettledRail /\ BoostOnlyForSource /\ FaultRemembered

\* The startup task polls finitely often, and the host does not fail fatally.
Operational == <>[][~Startup]_vars /\ []~failed

\* An empty connector is not boosted for ever, although idle ports are not
\* polled: the interrupt, the back-off and the trailing recheck suffice.
BoostWithdrawn == Operational /\ <>[](~port.attached) => <>[](mode # "otg")

\* A source-mode partner that stays is eventually reported as a host: the
\* one-shot tick and the settling deadline bring the passes that this needs.
SourceServed ==
  Operational /\ <>[](can_source(port) /\ init = "Ready") => <>[]host
=============================================================================
