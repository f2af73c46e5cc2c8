------------------------------ MODULE PdPolicy ------------------------------
(***************************************************************************)
(* The BM92T data-role handoff of pd.rs, driven by the Type-C monitor of   *)
(* typec.rs.  One step of the policy is one I2C transaction together with  *)
(* the code up to the next one; between two of them the controller, the    *)
(* cable and the partner may do anything.  Time is abstracted to two       *)
(* one-shot flags: the 250 ms settling interval and the one-second         *)
(* deadline have passed, or not.                                           *)
(***************************************************************************)
EXTENDS Naturals
LOCAL INSTANCE TLC

CONSTANTS
  Sides,      \* the CC sides a plug can use
  MaxCables,  \* bound: how many cables are plugged in, one after the other
  MaxNoise,   \* bound: how many events the partner starts by itself
  MaxErrors   \* bound: how many I2C transactions fail

ASSUME SidesAssumption == Sides # {} /\ "none" \notin Sides
ASSUME BoundAssumption == MaxCables \in Nat \ {0} /\ MaxNoise \in Nat
ASSUME ErrorsAssumption == MaxErrors \in Nat

\* Orientations are compared with each other and with "none", never told
\* apart: the two sides of the connector may be exchanged.
SideSymmetry == Permutations(Sides)

-----------------------------------------------------------------------------
(***************************************************************************)
(* The environment: the ROHM BM92T port controller, the cable in its       *)
(* connector and the partner behind the cable.  None of it is code of the  *)
(* repository.  It is modelled from how pd.rs and typec.rs read it:        *)
(*   - ALERT is a set of bits that a successful read returns and clears; a *)
(*     failed read leaves it alone;                                        *)
(*   - STATUS1/STATUS2/DP_STATUS describe the attachment as it is now;     *)
(*   - COMMAND starts a command, during which BUSY is set; completing it   *)
(*     raises DONE no later than BUSY clears;                              *)
(*   - CURRENT_PDO/CURRENT_RDO never change without CONTRACT or PDO being  *)
(*     raised, and the cable is never plugged or pulled without PLUGPULL.  *)
(***************************************************************************)
VARIABLES
  cable,   \* how many cables have been plugged in so far
  port,    \* what STATUS1, STATUS2 and DP_STATUS report
  alert,   \* the bits pending in ALERT
  objs,    \* which of CURRENT_PDO and CURRENT_RDO differs from the request
  cmd,     \* the command the controller executes (BUSY), or "none"
  noise    \* events the partner has started by itself

chip == <<cable, port, alert, objs, cmd, noise>>

Bits     == {"FAULT", "DONE", "PLUGPULL", "CONTRACT", "PDO"}
Commands == {"SEND_RDO", "PS_RDY", "DR_SWAP"}
Objects  == {"match", "pdo", "rdo"}
Roles    == {"Device", "Host"}

\* sink stands for the rest of sink_power_valid: VBUS, bit 14, no source or
\* OTG mode, no accessory, no active DP.  rejected is the last command's result.
Ports == [attached : BOOLEAN, side : Sides, role : Roles, sink : BOOLEAN,
          fault : BOOLEAN, rejected : BOOLEAN]

ChipTypeOK ==
  /\ cable \in 0 .. MaxCables
  /\ port \in Ports
  /\ alert \subseteq Bits
  /\ objs \in Objects
  /\ cmd \in Commands \cup {"none"}
  /\ noise \in 0 .. MaxNoise

\* The driver may find a cable in the connector, its notification consumed.
ChipInit ==
  /\ port \in [attached : BOOLEAN, side : Sides, role : Roles,
               sink : {TRUE}, fault : {FALSE}, rejected : {FALSE}]
  /\ ~port.attached => port.role = "Device"
  /\ cable = IF port.attached THEN 1 ELSE 0
  /\ alert \in SUBSET {"PLUGPULL"}
  /\ objs = "pdo"
  /\ cmd = "none"
  /\ noise = 0

Raise(bits) == alert' = alert \cup bits

\* A plug is pushed in: a new cable, on either side, with its own objects.
Attach ==
  /\ ~port.attached
  /\ cable < MaxCables
  /\ cable' = cable + 1
  /\ \E s \in Sides, r \in Roles :
       port' = [port EXCEPT !.attached = TRUE, !.side = s, !.role = r,
                            !.sink = TRUE, !.fault = FALSE]
  /\ objs' \in Objects
  /\ Raise({"PLUGPULL"})
  /\ UNCHANGED <<cmd, noise>>

Detach ==
  /\ port.attached
  /\ port' = [port EXCEPT !.attached = FALSE, !.fault = FALSE,
                          !.role = "Device", !.sink = TRUE]
  /\ Raise({"PLUGPULL"})
  /\ UNCHANGED <<cable, objs, cmd, noise>>

\* SEND_RDO makes the partner accept a contract, before or with its DONE.
Negotiate ==
  /\ cmd = "SEND_RDO"
  /\ objs' \in Objects
  /\ Raise({"CONTRACT"})
  /\ UNCHANGED <<cable, port, cmd, noise>>

\* The running command ends, accepted or rejected.
CommandDone ==
  /\ cmd # "none"
  /\ \E ok \in BOOLEAN :
       port' = [port EXCEPT !.rejected = ~ok,
                  !.role = IF ok /\ cmd = "DR_SWAP" THEN "Host" ELSE @]
  /\ cmd' = "none"
  /\ Raise({"DONE"})
  /\ UNCHANGED <<cable, objs, noise>>

\* A contract is made or changed, or new capabilities arrive.
Renegotiate ==
  /\ port.attached
  /\ noise < MaxNoise /\ noise' = noise + 1
  /\ objs' \in Objects
  /\ \E bit \in {"CONTRACT", "PDO"} : Raise({bit})
  /\ UNCHANGED <<cable, port, cmd>>

\* The partner changes the data role or the power path; no ALERT bit is
\* promised for either.
RoleOrPower ==
  /\ port.attached
  /\ noise < MaxNoise /\ noise' = noise + 1
  /\ \/ \E r \in Roles \ {port.role} : port' = [port EXCEPT !.role = r]
     \/ port' = [port EXCEPT !.sink = ~@]
  /\ UNCHANGED <<cable, alert, objs, cmd>>

\* An electrical fault is reported, or the report ends.
Fault ==
  /\ port.attached
  /\ noise < MaxNoise /\ noise' = noise + 1
  /\ port' = [port EXCEPT !.fault = ~@]
  /\ Raise(IF port.fault THEN {} ELSE {"FAULT"})
  /\ UNCHANGED <<cable, objs, cmd>>

ChipNext ==
  Attach \/ Detach \/ Negotiate \/ CommandDone \/ Renegotiate \/ RoleOrPower \/ Fault

-----------------------------------------------------------------------------
(* The policy. *)

VARIABLES
  pd,      \* the fields of PdPolicy that decide anything
  at,      \* the I2C transaction that comes next, "rest" when none does
  job,     \* the event or contract check that transaction belongs to
  hand,    \* the ALERT bits event() holds in a local
  flag,    \* the local that outlives a transaction: role_lost, command_busy
  retry,   \* monitor() returned an error: typec_monitor backs off 100 ms
  errors,  \* transactions that have failed
  session, \* history: the cable of the snapshot that anchored the attempt
  served   \* history: the cables SEND_RDO has been written for

policy == <<pd, at, job, hand, flag, retry, errors, session, served>>
vars   == <<chip, policy>>

Waits    == {"WaitContract", "WaitReady", "WaitSwap"}
Hosts    == {"Complete", "Revalidate"}
Terminal == {"Unsupported", "Failed"}
Phases   == {"Idle"} \cup Waits \cup Hosts \cup Terminal

\* Jobs are named for the place in the code that waits for the result.  Of
\* the checks, the last two are unchanged_contract() without an event after.
Attempt == {"anchor", "discovered", "send"}
Events  == Attempt \cup {"terminal", "host", "wait", "command", "unsent"}
Checks  == {"terminal2", "host2", "timeout2", "ready2", "swap2", "command2",
            "unsent2"}
Objs    == {"seen", "contract"}
Jobs    == Events \cup Checks \cup Objs

Policies ==
  [phase : Phases, side : Sides \cup {"none"},
   settle : {"off", "running", "elapsed"}, polls : 0 .. 2, expired : BOOLEAN,
   seen : BOOLEAN, drd : BOOLEAN, charge : BOOLEAN, saved : BOOLEAN,
   held : BOOLEAN, captured : SUBSET Bits]

\* PdPolicy::default(): held tells Some(captured) from None.
Default ==
  [phase |-> "Idle", side |-> "none", settle |-> "off", polls |-> 0,
   expired |-> FALSE, seen |-> FALSE, drd |-> FALSE, charge |-> FALSE,
   saved |-> FALSE, held |-> FALSE, captured |-> {}]

----------------------------------------------------------------------------
(* The methods that only change the policy's own fields. *)

fail(p) == [p EXCEPT !.phase = "Failed", !.settle = "off", !.charge = FALSE,
                     !.saved = FALSE]

\* Mutated form: an interrupted negotiation starts over on the same cable.
transport_lost_Restarts(p) ==
  CASE p.phase = "Complete" -> [p EXCEPT !.phase = "Revalidate"]
    [] p.phase = "Idle" -> p
    [] OTHER -> Default

transport_lost(p) ==
  CASE p.phase = "Complete" ->
         [p EXCEPT !.phase = "Revalidate", !.saved = p.charge,
                   !.charge = FALSE, !.expired = FALSE]
    [] p.phase = "Idle" \/ (p.phase = "Revalidate" /\ ~p.expired) -> p
    [] OTHER -> fail(p)

observation_failed(p) == IF p.phase = "Idle" THEN p ELSE fail(p)

data_role_failed(p) == [p EXCEPT !.phase = "Failed", !.settle = "off"]

unsupported(p) == [p EXCEPT !.phase = "Unsupported", !.settle = "off"]

\* *self = Self::default() with the orientation of a fresh snapshot.
reset == [Default EXCEPT !.side = IF port.attached THEN port.side ELSE "none"]

same_attachment(p) == port.attached /\ p.side = port.side

sink_power_valid == port.attached /\ port.sink /\ ~port.fault

command_busy == cmd # "none"

ContractChanged(bits) == bits \cap {"CONTRACT", "PDO"} # {}

\* Mutated form: PLUGPULL with the same orientation is tolerated.
Fatal_SameSide(p, bits, ignorePlug) ==
  "FAULT" \in bits \/ (p.phase \in Hosts /\ ContractChanged(bits))

\* The bits that end a handoff as soon as event() or capture_alert() sees them.
Fatal(p, bits, ignorePlug) ==
  \/ "FAULT" \in bits
  \/ ~ignorePlug /\ "PLUGPULL" \in bits
  \/ p.phase \in Hosts /\ ContractChanged(bits)

capture_alert(p, bits) ==
  LET q == [p EXCEPT !.held = TRUE, !.captured = @ \cup bits]
  IN IF Fatal(p, bits, p.phase = "Idle") THEN fail(q) ELSE q

----------------------------------------------------------------------------
(* Control: where the running poll goes on. *)

Go(step, j) == at' = step /\ job' = j

\* poll() returns; the monitor's own recheck of the port is still to come.
Leave(p) == pd' = p /\ Go("recheck", "none") /\ hand' = {} /\ flag' = FALSE

\* event() has its alert; status is read after it, and ALERT never again.
Consume(j, p, bits) ==
  IF Fatal(p, bits, j = "anchor") THEN Leave(fail(p))
  ELSE pd' = p /\ Go("snap", j) /\ hand' = bits /\ UNCHANGED flag

\* event(): the captured alert is taken first, otherwise ALERT is read.
Event(j, p) ==
  IF p.held
  THEN Consume(j, [p EXCEPT !.held = FALSE, !.captured = {}], p.captured)
  ELSE pd' = p /\ Go("alert", j) /\ hand' = {} /\ UNCHANGED flag

\* unchanged_contract(), and checked_contract_state() which begins with it.
Check(j, p, local) == pd' = p /\ Go("pdo", j) /\ hand' = {} /\ flag' = local

\* A read inside poll() fails: only a completed handoff can survive that, and
\* not once its role loss has been observed.
ReadError ==
  Leave(IF job \in {"host", "host2"} /\ ~flag THEN transport_lost(pd) ELSE fail(pd))

\* An I2C transaction fails, spending one of the bounded failures.
Lapse == errors < MaxErrors /\ errors' = errors + 1

Succeed == UNCHANGED errors

----------------------------------------------------------------------------
(* The monitor around the policy: drain ALERT, observe the port, poll. *)

\* next_deadline_ns() and the reasons of typec_monitor to run at all: the
\* level interrupt, the back-off after an error, a timer that is due.
Wake ==
  \/ alert # {} \/ retry
  \/ pd.phase = "Idle" /\ pd.settle = "elapsed"
  \/ pd.phase \in Waits /\ pd.expired
  \/ pd.phase = "Revalidate"

\* monitor_inner() reads ALERT once, at its beginning.
Drain ==
  /\ at = "rest"
  /\ \/ /\ Succeed
        /\ pd' = capture_alert(pd, alert)
        /\ hand' = alert
        /\ alert' = {}
        /\ Go("raw", "none")
        /\ UNCHANGED retry
     \/ /\ Lapse
        /\ pd' = transport_lost(pd)
        /\ retry' = TRUE
        /\ UNCHANGED <<alert, at, job, hand>>
  /\ UNCHANGED <<cable, port, objs, cmd, noise, flag, session, served>>

\* SourcePolicy reports an error: the monitor returns without polling.
RawError ==
  /\ at = "raw"
  /\ \/ (port.fault \/ "FAULT" \in hand) /\ Succeed /\ pd' = observation_failed(pd)
     \/ Lapse /\ pd' \in {transport_lost(pd), observation_failed(pd)}
  /\ Go("rest", "none")
  /\ hand' = {}
  /\ retry' = TRUE
  /\ UNCHANGED <<chip, flag, session, served>>

\* SourcePolicy returned a safe port state, and poll() begins with it.
Observed ==
  /\ at = "raw"
  /\ ~port.fault /\ "FAULT" \notin hand
  /\ Succeed
  /\ UNCHANGED <<chip, retry, session, served>>

OldAttachment == ~port.attached \/ pd.side \notin {"none", port.side}

\* orientation is set from the first attached observation.
Oriented == [pd EXCEPT !.side = IF @ = "none" THEN port.side ELSE @]

PollGone ==
  /\ Observed
  /\ OldAttachment
  /\ Go("confirm", "none")
  /\ hand' = {}
  /\ UNCHANGED <<pd, flag>>

PollTerminal ==
  /\ Observed
  /\ ~OldAttachment
  /\ pd.phase \in Terminal
  /\ CASE ~pd.charge        -> Leave(Oriented)
       [] ~sink_power_valid -> Leave(fail(Oriented))
       [] OTHER             -> Event("terminal", Oriented)

PollActive ==
  /\ Observed
  /\ ~OldAttachment
  /\ pd.phase \in Waits \cup Hosts
  /\ IF ~sink_power_valid \/ (pd.phase = "Revalidate" /\ pd.expired)
     THEN Leave(fail(Oriented))
     ELSE Event(IF pd.phase \in Hosts THEN "host" ELSE "wait", Oriented)

Unsettled(p) == [p EXCEPT !.settle = "off", !.polls = 0]

\* The debounce: two suitable polls, and the interval between them.
Debounced ==
  [Oriented EXCEPT !.settle = IF @ = "off" THEN "running" ELSE @,
                   !.polls = IF @ < 2 THEN @ + 1 ELSE @]

PollIdle ==
  /\ Observed
  /\ ~OldAttachment
  /\ pd.phase = "Idle"
  /\ CASE ~sink_power_valid \/ port.role # "Device" \/ command_busy ->
            Leave(Unsettled(Oriented))
       [] OTHER ->
            IF Debounced.polls < 2 \/ Debounced.settle # "elapsed"
            THEN Leave(Debounced)
            ELSE Event("anchor", Debounced)

\* A second snapshot must agree before the old attachment is released.
Confirm ==
  /\ at = "confirm"
  /\ \/ /\ ~port.fault /\ Succeed
        /\ \/ same_attachment(pd) /\ Leave(pd)
           \/ ~same_attachment(pd) /\ Leave(reset)
           \/ pd.side = "none" /\ port.attached /\ Leave(pd)   \* on raw's side
     \/ port.fault /\ Succeed /\ Leave(fail(pd))
     \/ Lapse /\ Leave(fail(pd))
  /\ UNCHANGED <<chip, retry, session, served>>

\* monitor_inner() ends with HostPolicy::poll; charger work may fail before it.
Recheck ==
  /\ at = "recheck"
  /\ \/ ~port.fault /\ Succeed /\ retry' = FALSE /\ UNCHANGED pd
     \/ port.fault /\ Succeed /\ retry' = TRUE /\ pd' = observation_failed(pd)
     \/ /\ Lapse /\ retry' = TRUE
        /\ pd' \in {pd, transport_lost(pd), observation_failed(pd)}
  /\ Go("rest", "none")
  /\ UNCHANGED <<chip, hand, flag, session, served>>

\* Host::start calls HostPolicy::poll from the startup task, under the lock.
StartupRecheck ==
  /\ at = "rest"
  /\ \/ port.fault /\ Succeed /\ pd' = observation_failed(pd)
     \/ Lapse /\ pd' \in {transport_lost(pd), observation_failed(pd)}
  /\ UNCHANGED <<chip, at, job, hand, flag, retry, session, served>>

----------------------------------------------------------------------------
(* The transactions inside poll(). *)

ReadAlert ==
  /\ at = "alert"
  /\ \/ Succeed /\ alert' = {} /\ Consume(job, pd, alert)
     \/ Lapse /\ UNCHANGED alert /\ ReadError
  /\ UNCHANGED <<cable, port, objs, cmd, noise, retry, session, served>>

\* event()'s snapshot does not lead on: it failed, or it shows a fault, another
\* attachment or an invalid power path.
SnapStops ==
  /\ at = "snap"
  /\ \/ Lapse /\ ReadError
     \/ Lapse /\ Leave(fail(pd))
     \/ port.fault /\ Succeed /\ Leave(fail(pd))
     \/ ~port.fault /\ ~same_attachment(pd) /\ Succeed /\ Leave(reset)
     \/ ~port.fault /\ same_attachment(pd) /\ ~sink_power_valid /\ Succeed /\ Leave(fail(pd))
  /\ UNCHANGED <<chip, retry, session, served>>

\* event() returned the alert in hand and this port state to job j.
Snapped(j) ==
  /\ at = "snap"
  /\ job = j
  /\ same_attachment(pd) /\ sink_power_valid
  /\ Succeed
  /\ UNCHANGED <<chip, retry, served>>

\* Mutated form: the alert after the object reads is not looked at.
Checked_NoRecheck(j) == Snapped(j) /\ UNCHANGED session

\* checked_contract_state() returned this port state to job j.
Checked(j) == Snapped(j) /\ ~ContractChanged(hand) /\ UNCHANGED session

\* ... or it found the contract changed after the objects were read.
CheckFails ==
  /\ \E j \in Checks : Snapped(j) /\ UNCHANGED session
  /\ ContractChanged(hand)
  /\ Leave(fail(pd))

Anchor ==
  /\ Snapped("anchor")
  /\ session' = cable
  /\ IF command_busy \/ port.role # "Device"
     THEN Leave(Unsettled(pd))
     ELSE pd' = pd /\ Go("caps", "none") /\ hand' = {} /\ UNCHANGED flag

\* discover(): any failure, also of a read, means an unsupported source.
Discover ==
  /\ at = "caps"
  /\ \/ Succeed /\ \E drd \in BOOLEAN : Event("discovered", [pd EXCEPT !.drd = drd])
     \/ Succeed /\ Leave(unsupported(pd))
     \/ Lapse /\ Leave(unsupported(pd))
  /\ UNCHANGED <<chip, retry, session, served>>

\* The two checks between discovery and the RDO commands.
Unchanged ==
  /\ \E j \in {"discovered", "send"} : Snapped(j)
  /\ UNCHANGED session
  /\ IF ContractChanged(hand) \/ command_busy \/ port.role # "Device"
     THEN Leave(fail(pd))
     ELSE /\ pd' = pd
          /\ Go(IF job = "discovered" THEN "set_rdo" ELSE "write", "none")
          /\ hand' = {} /\ UNCHANGED flag

SetRdo ==
  /\ at = "set_rdo"
  /\ \/ Succeed /\ Event("send", pd)
     \/ Lapse /\ Leave(fail(pd))
  /\ UNCHANGED <<chip, retry, session, served>>

\* The command that COMMAND is written with in each phase.
NextCommand ==
  CASE pd.phase = "Idle" -> "SEND_RDO"
    [] pd.phase = "WaitContract" -> "PS_RDY"
    [] OTHER -> "DR_SWAP"

NextWait ==
  CASE pd.phase = "Idle" -> "WaitContract"
    [] pd.phase = "WaitContract" -> "WaitReady"
    [] OTHER -> "WaitSwap"

\* A failed write may still have reached the controller.
WriteCommand ==
  /\ at = "write"
  /\ \/ /\ Succeed
        /\ cmd' = NextCommand
        /\ Leave([pd EXCEPT !.phase = NextWait, !.expired = FALSE])
     \/ /\ Lapse
        /\ cmd' \in {cmd, NextCommand}
        /\ IF NextCommand = "DR_SWAP" /\ pd.charge
           THEN Event("unsent", pd)
           ELSE Leave(fail(pd))
  /\ served' = IF pd.phase = "Idle" THEN served \cup {session} ELSE served
  /\ UNCHANGED <<cable, port, alert, objs, noise, retry, session>>

\* CURRENT_PDO, then CURRENT_RDO and the charger's input limit.
ReadPdo ==
  /\ at = "pdo"
  /\ \/ objs # "pdo" /\ Succeed /\ at' = "rdo" /\ UNCHANGED <<pd, job, hand, flag>>
     \/ objs = "pdo" /\ Succeed /\ Leave(fail(pd))
     \/ Lapse /\ ReadError
  /\ UNCHANGED <<chip, retry, session, served>>

\* Mutated form: PS_RDY is written without draining the previous completion.
ObjectsUnchanged_NoDrain ==
  CASE job = "seen" ->
         LET p == [pd EXCEPT !.seen = TRUE]
         IN IF flag THEN Leave(p) ELSE Check("contract", p, FALSE)
    [] job = "contract" ->
         pd' = pd /\ Go("write", "none") /\ hand' = {} /\ UNCHANGED flag
    [] OTHER -> Event(job, pd)

\* What follows unchanged_contract(): a fresh event, or the two places in
\* WaitContract that go on without one.
ObjectsUnchanged ==
  CASE job = "seen" ->
         LET p == [pd EXCEPT !.seen = TRUE]
         IN IF flag THEN Leave(p) ELSE Check("contract", p, FALSE)
    [] job = "contract" -> Event("command", pd)
    [] OTHER -> Event(job, pd)

ReadRdo ==
  /\ at = "rdo"
  /\ \/ objs # "rdo" /\ Succeed /\ ObjectsUnchanged
     \/ objs = "rdo" /\ Succeed /\ Leave(fail(pd))
     \/ Lapse /\ ReadError
  /\ UNCHANGED <<chip, retry, session, served>>

----------------------------------------------------------------------------
(* What each job does with its event. *)

TerminalPower ==
  /\ UNCHANGED session
  /\ \/ Snapped("terminal") /\ Check("terminal2", pd, FALSE)
     \/ Checked("terminal2") /\ Leave(pd)

RoleLost == command_busy \/ port.role # "Host"

HostHandoff == Snapped("host") /\ UNCHANGED session /\ Check("host2", pd, RoleLost)

HostChecked ==
  /\ Checked("host2")
  /\ Leave(CASE flag \/ RoleLost -> [data_role_failed(pd) EXCEPT !.saved = FALSE]
             [] pd.phase = "Revalidate" /\ pd.expired -> fail(pd)
             [] pd.phase = "Revalidate" /\ ~pd.expired ->
                  [pd EXCEPT !.phase = "Complete", !.charge = pd.saved, !.saved = FALSE]
             [] OTHER -> pd)

\* wait(): a passed deadline or a rejected command ends the handoff.
WaitEnds ==
  /\ Snapped("wait") /\ UNCHANGED session
  /\ pd.expired \/ ("DONE" \in hand /\ port.rejected)
  /\ IF pd.phase = "WaitSwap" THEN Check("timeout2", pd, FALSE) ELSE Leave(fail(pd))

SwapTimedOut == Checked("timeout2") /\ Leave(data_role_failed(pd))

WaitGoesOn ==
  /\ Snapped("wait") /\ UNCHANGED session
  /\ ~pd.expired /\ ~("DONE" \in hand /\ port.rejected)

WaitContract ==
  /\ WaitGoesOn
  /\ pd.phase = "WaitContract"
  /\ CASE "CONTRACT" \in hand      -> Check("seen", pd, command_busy)
       [] pd.seen /\ ~command_busy /\ "CONTRACT" \notin hand -> Check("contract", pd, FALSE)
       [] OTHER                    -> Leave(pd)

WaitDone ==
  /\ WaitGoesOn
  /\ pd.phase \in {"WaitReady", "WaitSwap"}
  /\ CASE "DONE" \notin hand -> Leave(pd)
       [] "DONE" \in hand /\ pd.phase = "WaitSwap" -> Check("swap2", pd, FALSE)
       [] "DONE" \in hand /\ pd.phase = "WaitReady" ->
            IF command_busy THEN Leave(fail(pd)) ELSE Check("ready2", pd, FALSE)

\* PS_RDY completed: power is scheduled before, and apart from, the swap.
ReadyChecked ==
  /\ Checked("ready2")
  /\ LET p == [pd EXCEPT !.charge = TRUE]
     IN CASE command_busy -> Leave(fail(pd))
          [] ~command_busy /\ port.role = "Host" -> Leave([p EXCEPT !.phase = "Complete"])
          [] ~command_busy /\ port.role # "Host" ->
               IF pd.drd THEN Event("command", p) ELSE Leave(unsupported(p))

SwapChecked ==
  /\ Checked("swap2")
  /\ Leave(IF RoleLost THEN data_role_failed(pd) ELSE [pd EXCEPT !.phase = "Complete"])

\* command(): one event, the objects, another event, and only then the write.
CommandDrained ==
  /\ Snapped("command") /\ UNCHANGED session
  /\ IF command_busy THEN Leave(fail(pd)) ELSE Check("command2", pd, FALSE)

CommandChecked ==
  /\ Checked("command2")
  /\ CASE command_busy -> Leave(fail(pd))
       [] ~command_busy /\ pd.phase = "WaitReady" /\ port.role = "Host" ->
            Leave([pd EXCEPT !.phase = "Complete"])
       [] OTHER -> pd' = pd /\ Go("write", "none") /\ hand' = {} /\ UNCHANGED flag

\* The swap's write failed: power survives it only when proved once more.
SwapUnsent ==
  /\ UNCHANGED session
  /\ \/ Snapped("unsent") /\ Check("unsent2", pd, FALSE)
     \/ Checked("unsent2") /\ Leave(data_role_failed(pd))

----------------------------------------------------------------------------
(* Time, and the specification. *)

Tick ==
  /\ \/ pd.settle = "running" /\ pd' = [pd EXCEPT !.settle = "elapsed"]
     \/ /\ pd.phase \in Waits \cup {"Revalidate"} /\ ~pd.expired
        /\ pd' = [pd EXCEPT !.expired = TRUE]
  /\ UNCHANGED <<chip, at, job, hand, flag, retry, errors, session, served>>

Init ==
  /\ ChipInit
  /\ pd = Default
  /\ at = "rest" /\ job = "none" /\ hand = {} /\ flag = FALSE
  /\ retry = TRUE   \* the monitor's first pass waits for nothing
  /\ errors = 0 /\ session = 0 /\ served = {}

\* One transaction of a monitor pass that has begun.
Step ==
  \/ RawError \/ PollGone \/ PollTerminal \/ PollActive \/ PollIdle
  \/ Confirm \/ Recheck \/ ReadAlert \/ SnapStops \/ CheckFails
  \/ Anchor \/ Discover \/ Unchanged \/ SetRdo \/ WriteCommand
  \/ ReadPdo \/ ReadRdo
  \/ TerminalPower \/ HostHandoff \/ HostChecked
  \/ WaitEnds \/ SwapTimedOut \/ WaitContract \/ WaitDone
  \/ ReadyChecked \/ SwapChecked \/ CommandDrained \/ CommandChecked \/ SwapUnsent

Environment == ChipNext /\ UNCHANGED policy

Next == Drain \/ StartupRecheck \/ Step \/ Tick \/ Environment

\* The monitor task keeps running, is woken when Wake says so, and time passes.
Fairness == WF_vars(Wake /\ Drain) /\ WF_vars(Step) /\ WF_vars(Tick)

Spec == Init /\ [][Next]_vars /\ Fairness

----------------------------------------------------------------------------
(* Properties. *)

\* Every variable keeps its type: the fields of PdPolicy and PdStatus, and the
\* control of poll().
TypeOK ==
  /\ ChipTypeOK
  /\ pd \in Policies
  /\ at \in {"rest", "raw", "confirm", "recheck", "alert", "snap", "caps",
             "set_rdo", "write", "pdo", "rdo"}
  /\ job \in Jobs \cup {"none"}
  /\ hand \subseteq Bits
  /\ flag \in BOOLEAN /\ retry \in BOOLEAN
  /\ errors \in 0 .. MaxErrors
  /\ session \in 0 .. MaxCables
  /\ served \subseteq 0 .. MaxCables

\* The policy owns a handoff, or a permission to charge that outlives it.
Owns(p) == p.phase \in Waits \cup Hosts \/ p.charge \/ p.saved

\* The cable of the anchoring snapshot is no longer in the connector.
Replaced == cable # session \/ ~port.attached

\* However a cable is pulled or exchanged between two transactions, while
\* pd.rs owns a handoff or a charging permission the notification of it is
\* still unread: no drain of the read-clear ALERT register loses it.
CableChangeNeverLost == Owns(pd) /\ Replaced => "PLUGPULL" \in alert

\* While the controller executes a command, no completion of an earlier one is
\* pending or captured: the DONE that wait() sees belongs to the command it
\* waits for ("an old DONE cannot complete a newly issued command").
NoStaleDone == cmd # "none" => "DONE" \notin alert \cup pd.captured

\* At rest, the policy vouches for a contract (a host handoff, or retained
\* charging) only while CURRENT_PDO and CURRENT_RDO are the requested ones, or
\* the notification of their change, or of another cable, is still to be handled.
Vouches == pd.phase \in Hosts \/ (pd.phase \in Terminal /\ pd.charge)

VerifiedContract ==
  at = "rest" /\ Vouches /\ objs # "match" =>
    (alert \cup pd.captured) \cap {"CONTRACT", "PDO", "PLUGPULL"} # {}

\* SEND_RDO is written at most once for a cable, whatever fails afterwards:
\* a terminal result is released only by another attachment.
OneAttemptPerCable == [][at = "write" /\ pd.phase = "Idle" /\ at' # "write" => session \notin served]_vars

\* Every command wait ends although idle ports are never polled: the one-shot
\* timers of next_deadline_ns() suffice.
WaitsEnd == pd.phase \in Waits ~> pd.phase \notin Waits

\* A suspended handoff is decided: revalidated, failed or released.
RevalidationEnds == pd.phase = "Revalidate" ~> pd.phase # "Revalidate"

\* A sink-powered partner that stays is not waited for forever: the settling
\* timer alone brings the second poll that starts the handoff.
Suitable == sink_power_valid /\ port.role = "Device" /\ ~command_busy

SinkServed == <>[]Suitable => <>[](pd.phase # "Idle")

\* Once the connector stays empty the policy forgets the old attachment, so
\* that the next cable starts from Idle.
DetachReleases == <>[](~port.attached) => <>[](pd.phase = "Idle")
=============================================================================
