---------------------------- MODULE ChargePolicy ----------------------------
(***************************************************************************)
(* charger.rs: the delayed, stepwise raising of the BQ24193 input limit    *)
(* under a verified contract.  Every register update reads the old value,  *)
(* looks at the port again and writes only a value that differs; the cable *)
(* and the charger's status change between any two of these transactions,  *)
(* and each of them may fail.                                              *)
(***************************************************************************)
EXTENDS Naturals, Sequences

CONSTANTS
  Top,          \* highest index of CURRENT_MA
  Floor,        \* index of 500 mA in CURRENT_MA
  MaxContracts, \* bound: contracts PD reports
  MaxPort,      \* bound: changes of the port and of the charger's status
  MaxFaults     \* bound: transactions that fail

VARIABLES
  chg,       \* ChargePolicy: phase, due, target, applied, side
  contract,  \* PD's status: the contract whose charging time is set
  sched,     \* charge_scheduled_at
  pc,        \* what the owner of the policy does
  todo,      \* register updates of the operation in progress
  step,      \* step within the first of them
  eligible,  \* sink_safe of this poll
  port,      \* the Type-C port: sink on a side, other attachment, nothing
  input,     \* REG08: no input, unknown VBUS, input, charge done
  reg,       \* the charger's fields: hiz, limit, jeita, mode
  known,     \* history: the highest ceiling this schedule may use
  contracts, changes, faults

vars == <<chg, contract, sched, pc, todo, step, eligible, port, input, reg,
          known, contracts, changes, faults>>

Level == 0..Top
NoContract == [id |-> 0, ceiling |-> 0]
Sides == {"cc1", "cc2"}
Ports == Sides \cup {"other", "none"}
Inputs == {"none", "unknown", "present", "done"}

lower(a, b) == IF a <= b THEN a ELSE b

Active == chg.phase \in {"Waiting", "Ramping", "Complete"}

Fault == faults < MaxFaults /\ faults' = faults + 1

Quiet == UNCHANGED <<contracts, changes>>

Init ==
  /\ chg = [phase |-> "Idle", due |-> FALSE, target |-> 0, applied |-> 0, side |-> "none"]
  /\ contract = NoContract /\ sched = NoContract
  /\ pc = "idle" /\ todo = << >> /\ step = "read" /\ eligible = FALSE
  /\ port = "none" /\ input = "none"
  /\ reg \in [hiz : BOOLEAN, limit : {Floor, Top}, jeita : {FALSE}, mode : {"charge", "otg"}]
  /\ known = 0 /\ contracts = 0 /\ changes = 0 /\ faults = 0

----------------------------------------------------------------------------
(* The port, the charger's input and the delay. *)

PortChanges ==
  /\ changes < MaxPort /\ changes' = changes + 1
  /\ \/ \E p \in Ports \ {port} : port' = p /\ UNCHANGED input
     \/ \E i \in Inputs \ {input} : input' = i /\ UNCHANGED port
  /\ UNCHANGED <<chg, contract, sched, pc, todo, step, eligible, reg, known, contracts, faults>>

Due ==
  /\ chg.phase \in {"Waiting", "Ramping"} /\ ~chg.due
  /\ chg' = [chg EXCEPT !.due = TRUE]
  /\ UNCHANGED <<contract, sched, pc, todo, step, eligible, port, input, reg, known, faults>>
  /\ Quiet

----------------------------------------------------------------------------
(* The owner: monitor() polls PD and then the charging work. *)

\* PD makes a contract of one or another ceiling, or loses it; Top + 1 stands
\* for a current charger.rs refuses.
PdContract ==
  /\ pc = "idle" /\ contracts < MaxContracts
  /\ contracts' = contracts + 1
  /\ \/ \E c \in {0, Floor, Top, Top + 1} : contract' = [id |-> contracts', ceiling |-> c]
     \/ contract # NoContract /\ contract' = NoContract
  /\ UNCHANGED <<chg, sched, pc, todo, step, eligible, port, input, reg, known, changes, faults>>

\* A new charging time cancels the work of the old one first.
Monitor ==
  /\ pc = "idle"
  /\ eligible' = (port \in Sides)
  /\ pc' = IF contract = sched THEN "poll" ELSE IF Active THEN "cancel" ELSE "schedule"
  /\ UNCHANGED <<chg, contract, sched, todo, step, port, input, reg, known, faults>>
  /\ Quiet

\* stop_sourcing() after a fatal host failure.
StopSourcing ==
  /\ pc = "idle" /\ Active
  /\ pc' = "stop"
  /\ UNCHANGED <<chg, contract, sched, todo, step, eligible, port, input, reg, known, faults>>
  /\ Quiet

schedule(c) ==
  IF c.ceiling > Top
  THEN [phase |-> "Failed", due |-> FALSE, target |-> chg.target, applied |-> chg.applied,
        side |-> "none"]
  ELSE [phase |-> "Waiting", due |-> FALSE, target |-> c.ceiling, applied |-> chg.applied,
        side |-> "none"]

Schedule ==
  /\ pc = "schedule"
  /\ sched' = contract
  /\ chg' = IF contract = NoContract THEN chg ELSE schedule(contract)
  /\ known' = IF contract = NoContract THEN known ELSE lower(contract.ceiling, Top)
  /\ pc' = "poll"
  /\ UNCHANGED <<contract, todo, step, eligible, port, input, reg, faults>>
  /\ Quiet

\* ChargePolicy::poll.
Poll ==
  /\ pc = "poll"
  /\ pc' = CASE ~Active -> "idle"
             [] Active /\ ~eligible -> "stop"
             [] Active /\ eligible /\ (~chg.due \/ chg.phase = "Complete") -> "idle"
             [] OTHER -> IF chg.phase = "Waiting" THEN "begin" ELSE "ramp"
  /\ UNCHANGED <<chg, contract, sched, todo, step, eligible, port, input, reg, known, faults>>
  /\ Quiet

----------------------------------------------------------------------------
(* update(): read, validate, write and read back one field. *)

\* An update sets the fields of reg that are in the domain of its value.
Put(f, v) == [field |-> f, value |-> v]

Apply(u) == [reg EXCEPT ![u.field] = u.value]

\* The port a write is made for: the sink of this attachment, or no input.
Valid ==
  IF pc \in {"cancelling", "stopping"}
  THEN port = "none" /\ input = "none"
  ELSE port = chg.side

Read ==
  /\ todo # << >> /\ step = "read"
  /\ IF Apply(todo[1]) = reg
     THEN todo' = Tail(todo) /\ UNCHANGED step
     ELSE step' = "validate" /\ UNCHANGED todo
  /\ UNCHANGED <<chg, contract, sched, pc, eligible, port, input, reg, known, faults>>
  /\ Quiet

Validate ==
  /\ todo # << >> /\ step = "validate" /\ Valid
  /\ step' = "write"
  /\ UNCHANGED <<chg, contract, sched, pc, todo, eligible, port, input, reg, known, faults>>
  /\ Quiet

Write ==
  /\ todo # << >> /\ step = "write"
  /\ reg' = Apply(todo[1])
  /\ todo' = Tail(todo) /\ step' = "read"
  /\ UNCHANGED <<chg, contract, sched, pc, eligible, port, input, known, faults>>
  /\ Quiet

\* A changed port, a transaction that fails, or a value that did not latch.
UpdateFails ==
  /\ todo # << >>
  /\ \/ step = "validate" /\ ~Valid /\ UNCHANGED <<reg, faults>>
     \/ Fault /\ reg' \in (IF step = "write" THEN {reg, Apply(todo[1])} ELSE {reg})
  /\ chg' = [chg EXCEPT !.phase = "Failed"]
  /\ pc' = "idle" /\ todo' = << >> /\ step' = "read"
  /\ UNCHANGED <<contract, sched, eligible, port, input, known>>
  /\ Quiet

----------------------------------------------------------------------------
(* begin(): the first settings, two seconds after PS_RDY. *)

\* Mutated form: the inherited limit is replaced after high impedance ends.
Opening_Late(target) == <<Put("hiz", FALSE), Put("limit", lower(target, Floor))>>

\* A ceiling below 500 mA is set before the input is opened.
Opening(target) ==
  (IF target < Floor THEN <<Put("limit", target)>> ELSE << >>)
    \o <<Put("hiz", FALSE), Put("limit", lower(target, Floor))>>

Begin ==
  /\ pc = "begin" /\ port \in Sides /\ reg.mode # "otg"
  /\ LET target == IF input \in {"none", "unknown"} THEN lower(chg.target, Floor)
                   ELSE chg.target
     IN  /\ chg' = [chg EXCEPT !.side = port, !.target = target,
                               !.applied = lower(target, Floor)]
         /\ todo' = CASE input \in {"none", "unknown"} -> <<Put("jeita", FALSE)>> \o Opening(target)
                      [] input = "present" -> <<Put("jeita", TRUE)>> \o Opening(target)
                      [] OTHER -> Opening(target)
  /\ pc' = "opening" /\ step' = "read"
  /\ UNCHANGED <<contract, sched, eligible, port, input, reg, known, faults>>
  /\ Quiet

Opened ==
  /\ pc = "opening" /\ todo = << >>
  /\ chg' = [chg EXCEPT !.due = FALSE,
                        !.phase = IF chg.applied = chg.target THEN "Complete" ELSE "Ramping"]
  /\ pc' = "idle"
  /\ UNCHANGED <<contract, sched, todo, step, eligible, port, input, reg, known, faults>>
  /\ Quiet

BeginFails ==
  /\ pc = "begin"
  /\ \/ (port \notin Sides \/ reg.mode = "otg") /\ UNCHANGED faults
     \/ Fault
  /\ chg' = [chg EXCEPT !.phase = "Failed"]
  /\ pc' = "idle"
  /\ UNCHANGED <<contract, sched, todo, step, eligible, port, input, reg, known>>
  /\ Quiet

----------------------------------------------------------------------------
(* The ramp: one step of CURRENT_MA per poll. *)

NextLevel == chg.applied + 1

Ramp ==
  /\ pc = "ramp"
  /\ todo' = <<Put("limit", NextLevel)>> /\ step' = "read"
  /\ pc' = "ramping"
  /\ UNCHANGED <<chg, contract, sched, eligible, port, input, reg, known, faults>>
  /\ Quiet

Ramped ==
  /\ pc = "ramping" /\ todo = << >>
  /\ chg' = [chg EXCEPT !.applied = NextLevel, !.due = FALSE,
                        !.phase = IF NextLevel = chg.target THEN "Complete" ELSE @]
  /\ pc' = "idle"
  /\ UNCHANGED <<contract, sched, todo, step, eligible, port, input, reg, known, faults>>
  /\ Quiet

----------------------------------------------------------------------------
(* cancel(): once, and with the detached fallback only when nothing is there. *)

Cancel ==
  /\ pc \in {"cancel", "stop"}
  /\ chg' = [chg EXCEPT !.phase = "Idle", !.side = "none"]
  /\ todo' = IF input = "none" /\ port = "none"
             THEN <<Put("jeita", FALSE), Put("hiz", FALSE), Put("limit", Floor)>>
             ELSE << >>
  /\ pc' = IF pc = "cancel" THEN "cancelling" ELSE "stopping"
  /\ step' = "read"
  /\ UNCHANGED <<contract, sched, eligible, port, input, reg, known, faults>>
  /\ Quiet

\* A failed read of the status or of the port.
CancelFails ==
  /\ pc \in {"cancel", "stop"} /\ Fault
  /\ chg' = [chg EXCEPT !.phase = "Failed", !.side = "none"]
  /\ pc' = "idle"
  /\ UNCHANGED <<contract, sched, todo, step, eligible, port, input, reg, known>>
  /\ Quiet

Cancelled ==
  /\ pc \in {"cancelling", "stopping"} /\ todo = << >>
  /\ pc' = IF pc = "cancelling" THEN "schedule" ELSE "idle"
  /\ UNCHANGED <<chg, contract, sched, todo, step, eligible, port, input, reg, known, faults>>
  /\ Quiet

----------------------------------------------------------------------------

Owner ==
  \/ Schedule \/ Poll \/ Read \/ Validate \/ Write \/ UpdateFails \/ Begin \/ Opened
  \/ BeginFails \/ Ramp \/ Ramped \/ Cancel \/ CancelFails \/ Cancelled

Next == Owner \/ Monitor \/ Due \/ PortChanges \/ PdContract \/ StopSourcing

\* The monitor is woken by its deadline and by alerts, and finishes a poll.
Fairness == WF_vars(Owner) /\ SF_vars(Monitor /\ chg.due) /\ WF_vars(Due)

Spec == Init /\ [][Next]_vars /\ Fairness

----------------------------------------------------------------------------

TypeOK ==
  /\ chg.phase \in {"Idle", "Waiting", "Ramping", "Complete", "Failed"}
  /\ chg.due \in BOOLEAN /\ chg.target \in Level /\ chg.applied \in Level
  /\ chg.side \in Sides \cup {"none"}
  /\ reg \in [hiz : BOOLEAN, limit : Level, jeita : BOOLEAN, mode : {"charge", "otg"}]
  /\ port \in Ports /\ input \in Inputs /\ eligible \in BOOLEAN
  /\ pc \in {"idle", "schedule", "poll", "begin", "opening", "ramp", "ramping", "cancel",
             "stop", "cancelling", "stopping"}
  /\ step \in {"read", "validate", "write"} /\ known \in Level
  /\ faults \in 0..MaxFaults /\ changes \in 0..MaxPort /\ contracts \in 0..MaxContracts

\* What the policy sets the limit to is never above the contract it works for,
\* and it rises by one step of the table, whatever failed on the way.
RampWithinContract ==
  [][reg'.limit > reg.limit =>
       \/ reg'.limit <= Floor
       \/ reg'.limit <= known /\ reg'.limit = reg.limit + 1]_vars

\* "Clearing HIZ must not briefly expose a larger inherited input limit than
\* the small negotiated ceiling."
OpensWithinSmallCeiling ==
  [][reg.hiz /\ ~reg'.hiz /\ pc = "opening" /\ chg.target < Floor
       => reg.limit <= chg.target]_vars

\* Work that says it is complete has set its target and opened the input.
CompleteIsApplied ==
  chg.phase = "Complete" /\ pc = "idle" =>
    reg.limit = chg.target /\ chg.applied = chg.target /\ ~reg.hiz

\* No write follows the end of the work: the limit and the input change only
\* for work that is scheduled, or for the fallback after a detach.
IdleWritesNothing ==
  [][reg' # reg => Active \/ pc \in {"cancelling", "stopping"}]_vars

\* Scheduled work ends: complete, cancelled or failed.
ChargeSettles == chg.phase \in {"Waiting", "Ramping"} ~> chg.phase \notin {"Waiting", "Ramping"}
=============================================================================
