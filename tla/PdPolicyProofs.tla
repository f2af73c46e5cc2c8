--------------------------- MODULE PdPolicyProofs ---------------------------
(***************************************************************************)
(* Theorems about the data-role handoff, for every set of sides and every  *)
(* bound on cables, partner events and failing transactions.               *)
(***************************************************************************)
EXTENDS PdPolicy, TLAPS

----------------------------------------------------------------------------
(* What the methods that only change the policy's fields do to them. *)

\* fail() keeps the captured alert and gives up every permission.
LEMMA FailFacts ==
  ASSUME NEW p \in Policies
  PROVE  /\ fail(p) \in Policies
         /\ fail(p).phase = "Failed" /\ ~fail(p).charge /\ ~fail(p).saved
         /\ fail(p).held = p.held /\ fail(p).captured = p.captured
         /\ ~Owns(fail(p))
<1>1. /\ fail(p) \in Policies
      /\ fail(p).phase = "Failed" /\ ~fail(p).charge /\ ~fail(p).saved
      /\ fail(p).held = p.held /\ fail(p).captured = p.captured
  BY DEF fail, Policies, Phases, Terminal
<1> QED BY <1>1 DEF Owns, Waits, Hosts

\* transport_lost() never gains a permission and is silent in Idle.
LEMMA TransportFacts ==
  ASSUME NEW p \in Policies
  PROVE  /\ transport_lost(p) \in Policies
         /\ Owns(transport_lost(p)) => Owns(p)
         /\ transport_lost(p).phase = "Idle" => transport_lost(p) = p
         /\ transport_lost(p).held = p.held
         /\ transport_lost(p).captured = p.captured
<1>1. CASE p.phase = "Complete"
  BY <1>1 DEF transport_lost, Owns, Policies, Phases, Hosts
<1>2. CASE p.phase = "Idle" \/ (p.phase = "Revalidate" /\ ~p.expired)
  <2>1. transport_lost(p) = p
    BY <1>2 DEF transport_lost
  <2> QED BY <2>1
<1>3. CASE /\ p.phase # "Complete"
           /\ ~(p.phase = "Idle" \/ (p.phase = "Revalidate" /\ ~p.expired))
  <2>1. transport_lost(p) = fail(p)
    BY <1>3 DEF transport_lost
  <2> QED BY <2>1, FailFacts DEF Owns, Waits, Hosts
<1> QED BY <1>1, <1>2, <1>3

\* observation_failed() ends every handoff but leaves Idle alone.
LEMMA ObservationFacts ==
  ASSUME NEW p \in Policies
  PROVE  /\ observation_failed(p) \in Policies
         /\ Owns(observation_failed(p)) => Owns(p)
         /\ observation_failed(p).phase = "Idle" => observation_failed(p) = p
         /\ observation_failed(p).held = p.held
         /\ observation_failed(p).captured = p.captured
<1>1. CASE p.phase = "Idle"
  <2>1. observation_failed(p) = p
    BY <1>1 DEF observation_failed
  <2> QED BY <2>1
<1>2. CASE p.phase # "Idle"
  <2>1. observation_failed(p) = fail(p)
    BY <1>2 DEF observation_failed
  <2> QED BY <2>1, FailFacts DEF Owns, Waits, Hosts
<1> QED BY <1>1, <1>2

\* capture_alert() keeps the new bits; PLUGPULL ends whatever was owned.
LEMMA CaptureFacts ==
  ASSUME NEW p \in Policies, NEW bits \in SUBSET Bits
  PROVE  /\ capture_alert(p, bits) \in Policies
         /\ Owns(capture_alert(p, bits)) => Owns(p)
         /\ Owns(capture_alert(p, bits)) /\ "PLUGPULL" \in bits => p.phase = "Idle"
         /\ capture_alert(p, bits).phase = "Idle" =>
              /\ p.phase = "Idle"
              /\ capture_alert(p, bits).charge = p.charge
              /\ capture_alert(p, bits).saved = p.saved
         /\ capture_alert(p, bits).held
         /\ capture_alert(p, bits).captured = p.captured \cup bits
<1> DEFINE q == [p EXCEPT !.held = TRUE, !.captured = @ \cup bits]
<1>1. /\ q \in Policies /\ q.phase = p.phase /\ q.charge = p.charge
      /\ q.saved = p.saved /\ q.held /\ q.captured = p.captured \cup bits
  BY DEF Policies
<1> HIDE DEF q
<1>2. CASE Fatal(p, bits, p.phase = "Idle")
  <2>1. capture_alert(p, bits) = fail(q)
    BY <1>2 DEF capture_alert, q
  <2> QED BY <2>1, <1>1, FailFacts DEF Owns, Waits, Hosts
<1>3. CASE ~Fatal(p, bits, p.phase = "Idle")
  <2>1. capture_alert(p, bits) = q
    BY <1>3 DEF capture_alert, q
  <2>2. "PLUGPULL" \in bits => p.phase = "Idle"
    BY <1>3 DEF Fatal
  <2> QED BY <2>1, <2>2, <1>1 DEF Owns
<1> QED BY <1>2, <1>3

\* The remaining field updates of poll(): none of them gains a permission.
LEMMA UpdateFacts ==
  ASSUME NEW p \in Policies
  PROVE  /\ data_role_failed(p) \in Policies /\ data_role_failed(p).phase = "Failed"
         /\ data_role_failed(p).charge = p.charge /\ data_role_failed(p).saved = p.saved
         /\ data_role_failed(p).held = p.held /\ data_role_failed(p).captured = p.captured
         /\ Owns(data_role_failed(p)) => Owns(p)
         /\ unsupported(p) \in Policies /\ unsupported(p).phase = "Unsupported"
         /\ unsupported(p).charge = p.charge /\ unsupported(p).saved = p.saved
         /\ unsupported(p).held = p.held /\ unsupported(p).captured = p.captured
         /\ Owns(unsupported(p)) => Owns(p)
         /\ Unsettled(p) \in Policies /\ Unsettled(p).phase = p.phase
         /\ Unsettled(p).charge = p.charge /\ Unsettled(p).saved = p.saved
         /\ Unsettled(p).held = p.held /\ Unsettled(p).captured = p.captured
         /\ Owns(Unsettled(p)) => Owns(p)
<1>1. /\ data_role_failed(p) \in Policies /\ data_role_failed(p).phase = "Failed"
      /\ data_role_failed(p).charge = p.charge /\ data_role_failed(p).saved = p.saved
      /\ data_role_failed(p).held = p.held /\ data_role_failed(p).captured = p.captured
  BY DEF data_role_failed, Policies, Phases, Terminal
<1>2. /\ unsupported(p) \in Policies /\ unsupported(p).phase = "Unsupported"
      /\ unsupported(p).charge = p.charge /\ unsupported(p).saved = p.saved
      /\ unsupported(p).held = p.held /\ unsupported(p).captured = p.captured
  BY DEF unsupported, Policies, Phases, Terminal
<1>3. /\ Unsettled(p) \in Policies /\ Unsettled(p).phase = p.phase
      /\ Unsettled(p).charge = p.charge /\ Unsettled(p).saved = p.saved
      /\ Unsettled(p).held = p.held /\ Unsettled(p).captured = p.captured
  <2>1. 0 \in 0 .. 2
    OBVIOUS
  <2> QED BY <2>1 DEF Unsettled, Policies
<1> QED BY <1>1, <1>2, <1>3 DEF Owns, Waits, Hosts

\* Recording the orientation, and counting a debounce poll.
LEMMA OrientFacts ==
  ASSUME pd \in Policies, port \in Ports
  PROVE  /\ Oriented \in Policies /\ Oriented.phase = pd.phase
         /\ Oriented.charge = pd.charge /\ Oriented.saved = pd.saved
         /\ Oriented.held = pd.held /\ Oriented.captured = pd.captured
         /\ Debounced \in Policies /\ Debounced.phase = pd.phase
         /\ Debounced.charge = pd.charge /\ Debounced.saved = pd.saved
         /\ Debounced.held = pd.held /\ Debounced.captured = pd.captured
         /\ Owns(Oriented) => Owns(pd)
         /\ Owns(Debounced) => Owns(pd)
<1>1. /\ Oriented \in Policies /\ Oriented.phase = pd.phase
      /\ Oriented.charge = pd.charge /\ Oriented.saved = pd.saved
      /\ Oriented.held = pd.held /\ Oriented.captured = pd.captured
  BY DEF Oriented, Policies, Ports
<1>2. /\ Debounced \in Policies /\ Debounced.phase = Oriented.phase
      /\ Debounced.charge = Oriented.charge /\ Debounced.saved = Oriented.saved
      /\ Debounced.held = Oriented.held /\ Debounced.captured = Oriented.captured
  <2>1. \A n \in 0 .. 2 : (IF n < 2 THEN n + 1 ELSE n) \in 0 .. 2
    OBVIOUS
  <2>2. Oriented.polls \in 0 .. 2 /\ Oriented.settle \in {"off", "running", "elapsed"}
    BY <1>1 DEF Policies
  <2> HIDE DEF Oriented
  <2> DEFINE n == IF Oriented.polls < 2 THEN Oriented.polls + 1 ELSE Oriented.polls
             t == IF Oriented.settle = "off" THEN "running" ELSE Oriented.settle
  <2>3. n \in 0 .. 2 /\ t \in {"off", "running", "elapsed"}
    BY <2>1, <2>2
  <2>4. Debounced = [Oriented EXCEPT !.settle = t, !.polls = n]
    BY DEF Debounced
  <2> HIDE DEF n, t
  <2> QED BY <1>1, <2>3, <2>4 DEF Policies
<1> QED BY <1>1, <1>2 DEF Owns

\* reset() returns to the default policy, whose captured alert is None.
LEMMA ResetFacts ==
  ASSUME port \in Ports
  PROVE  /\ reset \in Policies /\ reset.phase = "Idle"
         /\ ~reset.charge /\ ~reset.saved /\ ~reset.held /\ reset.captured = {}
         /\ ~Owns(reset)
<1>1. 0 \in 0 .. 2
  OBVIOUS
<1> DEFINE side == IF port.attached THEN port.side ELSE "none"
<1>2. side \in Sides \cup {"none"}
  BY DEF Ports
<1>3. reset = [Default EXCEPT !.side = side]
  BY DEF reset
<1> HIDE DEF side
<1>4. /\ reset \in Policies /\ reset.phase = "Idle"
      /\ ~reset.charge /\ ~reset.saved /\ ~reset.held /\ reset.captured = {}
  BY <1>1, <1>2, <1>3 DEF Default, Policies, Phases
<1> QED BY <1>4 DEF Owns, Waits, Hosts

----------------------------------------------------------------------------
(* The inductive invariant. *)

InPoll == {"alert", "snap", "caps", "set_rdo", "write", "pdo", "rdo"}

IdleFree(p) == p.phase = "Idle" => ~p.charge /\ ~p.saved

\* The jobs of a command wait that may lead to the next command.
WaitJobs == {"seen", "contract", "command", "ready2", "swap2", "command2"}

\* Which jobs belong to which phases, and that Idle holds no permission.
Control ==
  /\ at = "rest" => job = "none"
  /\ at \in {"pdo", "rdo"} => job \in Checks \cup Objs
  /\ IdleFree(pd)
  /\ job = "anchor" => pd.phase = "Idle"
  /\ job \in WaitJobs => pd.phase \in Waits

\* From the anchoring snapshot on, long before a phase records it, a
\* replacement of the cable must not go unnoticed.
Anchored ==
  \/ Owns(pd)
  \/ at \in {"caps", "set_rdo", "write"}
  \/ at \in {"alert", "snap"} /\ job \in {"discovered", "send"}

PlugInv == Anchored /\ Replaced => "PLUGPULL" \in alert

\* Between the last busy check and a COMMAND write nothing can complete, and
\* the drain in between has removed what had completed before.
Quiet ==
  /\ ~pd.held => pd.captured = {}
  /\ at \in InPoll => ~pd.held
  /\ at \in {"set_rdo", "write"} \/ job \in {"send", "command2"} => cmd = "none"
  /\ at = "write" \/ (at = "snap" /\ job \in {"send", "command2"}) => "DONE" \notin alert

Inv == TypeOK /\ Control /\ PlugInv /\ Quiet /\ NoStaleDone

----------------------------------------------------------------------------
(* What the control operators do. *)

\* event() with an alert in hand either fails the handoff or reads the status,
\* and it goes on after PLUGPULL only in the anchoring drain.
LEMMA ConsumeFacts ==
  ASSUME NEW j \in Jobs, NEW p \in Policies, NEW bits \in SUBSET Bits,
         flag \in BOOLEAN, Consume(j, p, bits)
  PROVE  /\ pd' \in Policies /\ hand' \in SUBSET Bits /\ flag' \in BOOLEAN
         /\ pd'.held = p.held /\ pd'.captured = p.captured
         /\ \/ /\ at' = "recheck" /\ job' = "none" /\ pd'.phase = "Failed"
               /\ ~pd'.charge /\ ~pd'.saved /\ ~Owns(pd')
            \/ at' = "snap" /\ job' = j /\ pd' = p
         /\ at' = "snap" /\ j # "anchor" => "PLUGPULL" \notin bits
<1>1. CASE Fatal(p, bits, j = "anchor")
  BY <1>1, FailFacts DEF Consume, Leave, Go
<1>2. CASE ~Fatal(p, bits, j = "anchor")
  BY <1>2 DEF Consume, Leave, Go, Fatal
<1> QED BY <1>1, <1>2

\* event(): no captured alert is left, and no permission is gained.
LEMMA EventFacts ==
  ASSUME NEW j \in Jobs, NEW p \in Policies, ~p.held => p.captured = {},
         flag \in BOOLEAN, Event(j, p)
  PROVE  /\ pd' \in Policies /\ hand' \in SUBSET Bits /\ flag' \in BOOLEAN
         /\ ~pd'.held /\ pd'.captured = {}
         /\ \/ /\ at' = "recheck" /\ job' = "none" /\ pd'.phase = "Failed"
               /\ ~pd'.charge /\ ~pd'.saved /\ ~Owns(pd')
            \/ /\ at' = (IF p.held THEN "snap" ELSE "alert") /\ job' = j
               /\ pd'.phase = p.phase /\ pd'.charge = p.charge /\ pd'.saved = p.saved
               /\ Owns(pd') => Owns(p)
<1>1. CASE p.held
  <2> DEFINE q == [p EXCEPT !.held = FALSE, !.captured = {}]
  <2>1. /\ q \in Policies /\ q.phase = p.phase /\ q.charge = p.charge
        /\ q.saved = p.saved /\ ~q.held /\ q.captured = {}
    BY DEF Policies
  <2>2. p.captured \in SUBSET Bits
    BY DEF Policies
  <2>3. Consume(j, q, p.captured)
    BY <1>1 DEF Event
  <2> HIDE DEF q
  <2> QED BY <1>1, <2>1, <2>2, <2>3, ConsumeFacts DEF Owns
<1>2. CASE ~p.held
  BY <1>2 DEF Event, Go, Owns
<1> QED BY <1>1, <1>2

\* A failing read inside poll() never gains a permission.
LEMMA ReadErrorFacts ==
  ASSUME pd \in Policies, ReadError
  PROVE  /\ pd' \in Policies /\ at' = "recheck" /\ job' = "none"
         /\ hand' = {} /\ flag' = FALSE
         /\ pd'.held = pd.held /\ pd'.captured = pd.captured
         /\ Owns(pd') => Owns(pd)
         /\ pd'.phase = "Idle" => pd' = pd
<1>1. pd' \in {transport_lost(pd), fail(pd)}
  BY DEF ReadError, Leave
<1>2. at' = "recheck" /\ job' = "none" /\ hand' = {} /\ flag' = FALSE
  BY DEF ReadError, Leave, Go
<1> QED BY <1>1, <1>2, FailFacts, TransportFacts DEF Owns, Waits, Hosts

----------------------------------------------------------------------------
(* The four ways on that a step can take keep the invariant. *)

\* Of the environment's variables the step changes none; the rest is typed.
Frame ==
  /\ UNCHANGED chip
  /\ retry' \in BOOLEAN
  /\ errors' \in 0 .. MaxErrors
  /\ session' \in 0 .. MaxCables
  /\ served' \in SUBSET (0 .. MaxCables)

\* A policy that is entitled to no more than the present one.
Modest(p) ==
  /\ p \in Policies
  /\ Owns(p) => Anchored
  /\ IdleFree(p)
  /\ ~p.held => p.captured = {}
  /\ p.captured \in SUBSET pd.captured

\* Leaving a phase keeps the invariant.
LEMMA LeaveInv ==
  ASSUME Inv, Frame, NEW p, Modest(p), Leave(p), session' = session \/ ~Owns(p)
  PROVE  Inv'
<1>1. pd' = p /\ at' = "recheck" /\ job' = "none" /\ hand' = {} /\ flag' = FALSE
  BY DEF Leave, Go
<1>2. TypeOK'
  BY <1>1 DEF Inv, TypeOK, ChipTypeOK, Frame, chip, Modest
<1>3. Control'
  BY <1>1 DEF Control, IdleFree, Modest, WaitJobs
<1>4. PlugInv'
  BY <1>1 DEF Inv, PlugInv, Anchored, Replaced, Frame, chip, Modest
<1>5. Quiet'
  BY <1>1 DEF Quiet, InPoll, Modest
<1>6. NoStaleDone'
  BY <1>1 DEF Inv, NoStaleDone, Frame, chip, Modest
<1> QED BY <1>2, <1>3, <1>4, <1>5, <1>6 DEF Inv

\* What a job needs of the phase and of the controller when it begins.
Fits(j, p) ==
  /\ j \in Jobs
  /\ j = "anchor" => p.phase = "Idle"
  /\ j \in WaitJobs => p.phase \in Waits
  /\ j \in {"discovered", "send"} => Anchored
  /\ j \in {"send", "command2"} => cmd = "none" /\ ~p.held

\* An event handled in a phase keeps the invariant.
LEMMA EventInv ==
  ASSUME Inv, Frame, NEW p, Modest(p), NEW j, Fits(j, p), Event(j, p),
         session' = session
  PROVE  Inv'
<1>1. /\ pd' \in Policies /\ hand' \in SUBSET Bits /\ flag' \in BOOLEAN
      /\ ~pd'.held /\ pd'.captured = {}
      /\ \/ /\ at' = "recheck" /\ job' = "none" /\ pd'.phase = "Failed"
            /\ ~pd'.charge /\ ~pd'.saved /\ ~Owns(pd')
         \/ /\ at' = (IF p.held THEN "snap" ELSE "alert") /\ job' = j
            /\ pd'.phase = p.phase /\ pd'.charge = p.charge /\ pd'.saved = p.saved
            /\ Owns(pd') => Owns(p)
  BY EventFacts DEF Inv, TypeOK, Modest, Fits
<1>2. TypeOK'
  BY <1>1 DEF Inv, TypeOK, ChipTypeOK, Frame, chip, Fits
<1>3. Control'
  BY <1>1 DEF Control, IdleFree, Modest, Fits, WaitJobs
<1>4. PlugInv'
  BY <1>1 DEF Inv, PlugInv, Anchored, Replaced, Frame, chip, Modest, Fits
<1>5. Quiet'
  BY <1>1 DEF Quiet, InPoll, Fits, Frame, chip
<1>6. NoStaleDone'
  BY <1>1 DEF Inv, NoStaleDone, Frame, chip
<1> QED BY <1>2, <1>3, <1>4, <1>5, <1>6 DEF Inv

\* A check of the phase keeps the invariant.
LEMMA CheckInv ==
  ASSUME Inv, Frame, NEW p, Modest(p), ~p.held, NEW j, Fits(j, p),
         j \in Checks \cup Objs, NEW local \in BOOLEAN, Check(j, p, local),
         session' = session
  PROVE  Inv'
<1>1. pd' = p /\ at' = "pdo" /\ job' = j /\ hand' = {} /\ flag' = local
  BY DEF Check, Go
<1>2. TypeOK'
  BY <1>1 DEF Inv, TypeOK, ChipTypeOK, Frame, chip, Modest, Fits
<1>3. Control'
  BY <1>1 DEF Control, IdleFree, Modest, Fits, WaitJobs
<1>4. PlugInv'
  BY <1>1 DEF Inv, PlugInv, Anchored, Replaced, Frame, chip, Modest
<1>5. Quiet'
  BY <1>1 DEF Quiet, InPoll, Modest, Fits, Frame, chip
<1>6. NoStaleDone'
  BY <1>1 DEF Inv, NoStaleDone, Frame, chip, Modest
<1> QED BY <1>2, <1>3, <1>4, <1>5, <1>6 DEF Inv

----------------------------------------------------------------------------
(* Every action keeps the invariant. *)

\* The policies that the actions continue with are entitled to no more than
\* the present one.
LEMMA ModestFacts ==
  ASSUME Inv
  PROVE  /\ Modest(pd) /\ Modest(fail(pd)) /\ Modest(transport_lost(pd))
         /\ Modest(observation_failed(pd)) /\ Modest(reset)
         /\ Modest(data_role_failed(pd)) /\ Modest(unsupported(pd))
         /\ Modest(Unsettled(pd)) /\ Modest(Oriented) /\ Modest(Debounced)
         /\ Modest(fail(Oriented)) /\ Modest(Unsettled(Oriented))
<1>1. /\ pd \in Policies /\ port \in Ports /\ IdleFree(pd)
      /\ (~pd.held => pd.captured = {}) /\ (Owns(pd) => Anchored)
  BY DEF Inv, TypeOK, ChipTypeOK, Control, Quiet, Anchored
<1>2. Modest(pd) /\ Modest(fail(pd)) /\ Modest(reset)
  BY <1>1, FailFacts, ResetFacts DEF Modest, IdleFree
<1>3. Modest(transport_lost(pd)) /\ Modest(observation_failed(pd))
  BY <1>1, TransportFacts, ObservationFacts DEF Modest, IdleFree
<1>4. Modest(data_role_failed(pd)) /\ Modest(unsupported(pd)) /\ Modest(Unsettled(pd))
  BY <1>1, UpdateFacts DEF Modest, IdleFree
<1>5. Modest(Oriented) /\ Modest(Debounced)
  BY <1>1, OrientFacts DEF Modest, IdleFree
<1>6. Oriented \in Policies
  BY <1>5 DEF Modest
<1>7. Modest(fail(Oriented)) /\ Modest(Unsettled(Oriented))
  BY <1>5, <1>6, FailFacts, UpdateFacts DEF Modest, IdleFree
<1> QED BY <1>2, <1>3, <1>4, <1>5, <1>7

\* A step that leaves the environment and the history variables alone.
LEMMA FrameFacts ==
  ASSUME Inv, UNCHANGED <<chip, session, served>>, Succeed \/ Lapse,
         retry' = retry \/ retry' \in BOOLEAN
  PROVE  Frame /\ session' = session
<1>1. errors' \in 0 .. MaxErrors
  BY ErrorsAssumption DEF Inv, TypeOK, Succeed, Lapse
<1> QED BY <1>1 DEF Inv, TypeOK, Frame

\* The monitor's drain captures what it clears.
LEMMA DrainInv == ASSUME Inv, Drain PROVE Inv'
<1>1. CASE /\ Succeed /\ pd' = capture_alert(pd, alert) /\ hand' = alert
           /\ alert' = {} /\ Go("raw", "none") /\ UNCHANGED retry
  <2>1. pd \in Policies /\ alert \in SUBSET Bits
    BY DEF Inv, TypeOK, ChipTypeOK
  <2>2. /\ pd' \in Policies /\ (Owns(pd') => Owns(pd))
        /\ Owns(pd') /\ "PLUGPULL" \in alert => pd.phase = "Idle"
        /\ pd'.phase = "Idle" => /\ pd.phase = "Idle"
                                 /\ pd'.charge = pd.charge /\ pd'.saved = pd.saved
        /\ pd'.held /\ pd'.captured = pd.captured \cup alert
    BY <1>1, <2>1, CaptureFacts
  <2>3. at' = "raw" /\ job' = "none"
    BY <1>1 DEF Go
  <2>4. TypeOK'
    BY <1>1, <2>2, <2>3 DEF Inv, TypeOK, ChipTypeOK, Drain, Succeed
  <2>5. Control'
    BY <2>2, <2>3 DEF Inv, Control, IdleFree, WaitJobs
  <2>6. pd.phase = "Idle" => ~Owns(pd)
    BY DEF Inv, Control, IdleFree, Owns, Waits, Hosts
  <2>7. PlugInv'
    BY <2>2, <2>3, <2>6 DEF Inv, PlugInv, Anchored, Replaced, Drain
  <2>8. Quiet'
    BY <2>2, <2>3 DEF Quiet, InPoll
  <2>9. NoStaleDone'
    BY <1>1, <2>2 DEF Inv, NoStaleDone, Drain
  <2> QED BY <2>4, <2>5, <2>7, <2>8, <2>9 DEF Inv
<1>2. CASE /\ Lapse /\ pd' = transport_lost(pd) /\ retry' = TRUE
           /\ UNCHANGED <<alert, at, job, hand>>
  <2>1. errors' \in 0 .. MaxErrors
    BY <1>2, ErrorsAssumption DEF Inv, TypeOK, Lapse
  <2>2. Modest(pd') /\ at = "rest" /\ job = "none"
    BY <1>2, ModestFacts DEF Drain, Inv, Control
  <2>3. TypeOK'
    BY <1>2, <2>1, <2>2 DEF Inv, TypeOK, ChipTypeOK, Drain, Modest
  <2>4. Control' /\ Quiet'
    BY <1>2, <2>2 DEF Control, IdleFree, Quiet, InPoll, Modest, WaitJobs
  <2>5. PlugInv' /\ NoStaleDone'
    BY <1>2, <2>2 DEF Inv, PlugInv, Anchored, Replaced, Drain, Modest, NoStaleDone
  <2> QED BY <2>3, <2>4, <2>5 DEF Inv
<1> QED BY <1>1, <1>2 DEF Drain

\* A step that ends at rest with a policy entitled to no more.
LEMMA RestInv ==
  ASSUME Inv, Frame, session' = session, Modest(pd'), at' = "rest", job' = "none",
         hand' \in SUBSET Bits, flag' \in BOOLEAN
  PROVE  Inv'
<1>1. TypeOK'
  BY DEF Inv, TypeOK, ChipTypeOK, Frame, chip, Modest
<1>2. Control' /\ Quiet'
  BY DEF Control, IdleFree, Quiet, InPoll, Modest, WaitJobs
<1>3. PlugInv' /\ NoStaleDone'
  BY DEF Inv, PlugInv, Anchored, Replaced, Frame, chip, Modest, NoStaleDone
<1> QED BY <1>1, <1>2, <1>3 DEF Inv

\* The three places that observe the port outside poll().
LEMMA OutsideInv == ASSUME Inv, RawError \/ Recheck \/ StartupRecheck PROVE Inv'
<1>1. UNCHANGED <<chip, session, served>> /\ (Succeed \/ Lapse)
  BY DEF RawError, Recheck, StartupRecheck
<1>2. retry' = retry \/ retry' \in BOOLEAN
  BY DEF RawError, Recheck, StartupRecheck
<1>3. Frame /\ session' = session
  BY <1>1, <1>2, FrameFacts
<1>4. pd' \in {pd, transport_lost(pd), observation_failed(pd)}
  BY DEF RawError, Recheck, StartupRecheck
<1>5. Modest(pd')
  BY <1>4, ModestFacts
<1>6. /\ at' = "rest" /\ job' = "none"
      /\ hand' \in SUBSET Bits /\ flag' \in BOOLEAN
  BY DEF RawError, Recheck, StartupRecheck, Go, Inv, TypeOK, Control
<1> QED BY <1>3, <1>5, <1>6, RestInv

\* The beginning of poll(), before its first transaction.
LEMMA PollInv ==
  ASSUME Inv, PollGone \/ PollTerminal \/ PollActive \/ PollIdle
  PROVE  Inv'
<1>1. Observed
  BY DEF PollGone, PollTerminal, PollActive, PollIdle
<1>2. Frame /\ session' = session
  BY <1>1, FrameFacts DEF Observed
<1>3. CASE PollGone
  <2>1. pd' = pd /\ at' = "confirm" /\ job' = "none" /\ hand' = {} /\ flag' = flag
    BY <1>3 DEF PollGone, Go
  <2>2. Modest(pd')
    BY <2>1, ModestFacts
  <2>3. TypeOK'
    BY <1>2, <2>1, <2>2 DEF Inv, TypeOK, ChipTypeOK, Frame, chip, Modest
  <2>4. Control' /\ Quiet'
    BY <2>1, <2>2 DEF Control, IdleFree, Quiet, InPoll, Modest, WaitJobs
  <2>5. PlugInv' /\ NoStaleDone'
    BY <1>2, <2>1, <2>2 DEF Inv, PlugInv, Anchored, Replaced, Frame, chip, Modest, NoStaleDone
  <2> QED BY <2>3, <2>4, <2>5 DEF Inv
<1>4. CASE PollTerminal
  <2>1. Leave(Oriented) \/ Leave(fail(Oriented)) \/ Event("terminal", Oriented)
    BY <1>4 DEF PollTerminal
  <2>2. Fits("terminal", Oriented)
    BY DEF Fits, Jobs, Events, WaitJobs
  <2> QED BY <1>2, <2>1, <2>2, ModestFacts, LeaveInv, EventInv
<1>5. CASE PollActive
  <2>1. \/ Leave(fail(Oriented))
        \/ Event("host", Oriented) \/ Event("wait", Oriented)
    BY <1>5 DEF PollActive
  <2>2. Fits("host", Oriented) /\ Fits("wait", Oriented)
    BY DEF Fits, Jobs, Events, WaitJobs
  <2> QED BY <1>2, <2>1, <2>2, ModestFacts, LeaveInv, EventInv
<1>6. CASE PollIdle
  <2>1. \/ Leave(Unsettled(Oriented)) \/ Leave(Debounced)
        \/ Event("anchor", Debounced)
    BY <1>6 DEF PollIdle
  <2>2. Debounced.phase = "Idle"
    BY <1>6, OrientFacts DEF PollIdle, Inv, TypeOK, ChipTypeOK
  <2>3. Fits("anchor", Debounced)
    BY <2>2 DEF Fits, Jobs, Events, Attempt, WaitJobs
  <2> QED BY <1>2, <2>1, <2>3, ModestFacts, LeaveInv, EventInv
<1> QED BY <1>3, <1>4, <1>5, <1>6

\* The second snapshot that releases an old attachment.
LEMMA ConfirmInv == ASSUME Inv, Confirm PROVE Inv'
<1>1. Frame /\ session' = session
  BY FrameFacts DEF Confirm
<1>2. Leave(pd) \/ Leave(reset) \/ Leave(fail(pd))
  BY DEF Confirm
<1> QED BY <1>1, <1>2, ModestFacts, LeaveInv

\* event()'s own drain: it clears ALERT, and goes on past PLUGPULL only for the
\* anchoring snapshot, when nothing is owned yet.
LEMMA ReadAlertInv == ASSUME Inv, ReadAlert PROVE Inv'
<1>1. /\ pd \in Policies /\ alert \in SUBSET Bits /\ flag \in BOOLEAN
      /\ job \in Jobs \cup {"none"} /\ at = "alert"
      /\ ~pd.held /\ pd.captured = {}
  BY DEF Inv, TypeOK, ChipTypeOK, ReadAlert, Quiet, InPoll
<1>2. CASE Lapse /\ UNCHANGED alert /\ ReadError
  <2>1. UNCHANGED <<chip, session, served>> /\ retry' = retry
    BY <1>2 DEF ReadAlert, chip
  <2>2. Frame /\ session' = session
    BY <1>2, <2>1, FrameFacts
  <2>3. Leave(transport_lost(pd)) \/ Leave(fail(pd))
    BY <1>2 DEF ReadError
  <2> QED BY <2>2, <2>3, ModestFacts, LeaveInv
<1>3. CASE Succeed /\ alert' = {} /\ Consume(job, pd, alert)
  <2>1. /\ pd' \in Policies /\ hand' \in SUBSET Bits /\ flag' \in BOOLEAN
        /\ pd'.held = pd.held /\ pd'.captured = pd.captured
        /\ \/ /\ at' = "recheck" /\ job' = "none" /\ pd'.phase = "Failed"
              /\ ~pd'.charge /\ ~pd'.saved /\ ~Owns(pd')
           \/ at' = "snap" /\ job' = job /\ pd' = pd
        /\ at' = "snap" /\ job # "anchor" => "PLUGPULL" \notin alert
    <3>1. CASE job \in Jobs
      BY <1>1, <1>3, <3>1, ConsumeFacts
    <3>2. CASE job = "none"
      BY <1>1, <1>3, <3>2, FailFacts DEF Consume, Fatal, Leave, Go
    <3> QED BY <1>1, <3>1, <3>2
  <2>2. TypeOK'
    BY <1>1, <1>3, <2>1 DEF Inv, TypeOK, ChipTypeOK, ReadAlert, Succeed
  <2>3. Control'
    BY <2>1 DEF Inv, Control, IdleFree, WaitJobs
  <2>4. job = "anchor" => ~Owns(pd)
    BY DEF Inv, Control, IdleFree, Owns, Waits, Hosts
  <2>5. PlugInv'
    BY <1>1, <2>1, <2>4 DEF Inv, PlugInv, Anchored, Replaced, ReadAlert
  <2>6. Quiet'
    BY <1>1, <1>3, <2>1 DEF Inv, Quiet, InPoll, ReadAlert
  <2>7. NoStaleDone'
    BY <1>1, <1>3, <2>1 DEF Inv, NoStaleDone, ReadAlert
  <2> QED BY <2>2, <2>3, <2>5, <2>6, <2>7 DEF Inv
<1> QED BY <1>2, <1>3 DEF ReadAlert

\* Every snapshot of event() that stops there.
LEMMA SnapStopsInv == ASSUME Inv, SnapStops \/ CheckFails PROVE Inv'
<1>1. Frame /\ session' = session
  <2>1. UNCHANGED <<chip, session, served>> /\ (Succeed \/ Lapse) /\ retry' = retry
    BY DEF SnapStops, CheckFails, Snapped
  <2> QED BY <2>1, FrameFacts
<1>2. Leave(transport_lost(pd)) \/ Leave(fail(pd)) \/ Leave(reset)
  BY DEF SnapStops, CheckFails, ReadError
<1> QED BY <1>1, <1>2, ModestFacts, LeaveInv

\* While poll() runs, the captured alert is None and a job's needs are met.
LEMMA SnapFacts ==
  ASSUME Inv, NEW j, Snapped(j), session' = session
  PROVE  /\ Frame /\ ~pd.held /\ at = "snap" /\ job = j
         /\ flag \in BOOLEAN /\ command_busy \in BOOLEAN
<1>1. UNCHANGED <<chip, session, served>> /\ Succeed /\ retry' = retry
  BY DEF Snapped
<1>2. Frame
  BY <1>1, FrameFacts
<1> QED BY <1>2 DEF Snapped, Inv, Quiet, InPoll, TypeOK, command_busy

\* The anchoring snapshot sees the cable that it remembers.
LEMMA AnchorInv == ASSUME Inv, Anchor PROVE Inv'
<1>1. /\ at = "snap" /\ job = "anchor" /\ session' = cable /\ port.attached
      /\ UNCHANGED <<chip, retry, served, errors>>
  BY DEF Anchor, Snapped, same_attachment, Succeed
<1>2. Frame
  BY <1>1 DEF Inv, TypeOK, ChipTypeOK, Frame
<1>3. ~Owns(Unsettled(pd)) /\ ~Owns(pd)
  <2>1. ~Owns(pd) /\ pd \in Policies
    BY <1>1 DEF Inv, TypeOK, Control, IdleFree, Owns, Waits, Hosts
  <2> QED BY <2>1, UpdateFacts
<1>4. CASE Leave(Unsettled(pd))
  BY <1>2, <1>3, <1>4, ModestFacts, LeaveInv
<1>5. CASE pd' = pd /\ Go("caps", "none") /\ hand' = {} /\ UNCHANGED flag
  <2>1. at' = "caps" /\ job' = "none"
    BY <1>5 DEF Go
  <2>2. TypeOK'
    BY <1>1, <1>2, <1>5, <2>1 DEF Inv, TypeOK, ChipTypeOK, Frame, chip
  <2>3. Control'
    BY <1>5, <2>1 DEF Inv, Control, IdleFree, WaitJobs
  <2>4. ~Replaced'
    BY <1>1 DEF Replaced, chip
  <2>5. PlugInv'
    BY <2>4 DEF PlugInv
  <2>6. Quiet' /\ NoStaleDone'
    BY <1>1, <1>5, <2>1 DEF Inv, Quiet, InPoll, NoStaleDone, chip
  <2> QED BY <2>2, <2>3, <2>5, <2>6 DEF Inv
<1> QED BY <1>4, <1>5 DEF Anchor

\* discover(), and the write of the request that follows it.
LEMMA DiscoverInv == ASSUME Inv, Discover PROVE Inv'
<1>1. Frame /\ session' = session
  BY FrameFacts DEF Discover
<1>2. CASE Leave(unsupported(pd))
  BY <1>1, <1>2, ModestFacts, LeaveInv
<1>3. ASSUME NEW drd \in BOOLEAN, Event("discovered", [pd EXCEPT !.drd = drd])
      PROVE  Inv'
  <2> DEFINE q == [pd EXCEPT !.drd = drd]
  <2>1. /\ pd \in Policies /\ q \in Policies /\ q.phase = pd.phase
        /\ q.charge = pd.charge /\ q.saved = pd.saved /\ q.held = pd.held
        /\ q.captured = pd.captured
    BY DEF Inv, TypeOK, Policies
  <2>2. Event("discovered", q)
    BY <1>3
  <2> HIDE DEF q
  <2>3. Modest(q)
    BY <2>1, ModestFacts DEF Modest, IdleFree, Owns
  <2>4. Fits("discovered", q)
    BY DEF Fits, Jobs, Events, Attempt, Anchored, Discover, WaitJobs
  <2> QED BY <1>1, <2>2, <2>3, <2>4, EventInv
<1> QED BY <1>2, <1>3 DEF Discover

\* Requesting the contract keeps the invariant.
LEMMA SetRdoInv == ASSUME Inv, SetRdo PROVE Inv'
<1>1. Frame /\ session' = session
  BY FrameFacts DEF SetRdo
<1>2. Event("send", pd) \/ Leave(fail(pd))
  BY DEF SetRdo
<1>3. Fits("send", pd)
  BY DEF Fits, Jobs, Events, Attempt, Anchored, SetRdo, Inv, Quiet, InPoll, WaitJobs
<1> QED BY <1>1, <1>2, <1>3, ModestFacts, LeaveInv, EventInv

\* From an event to a write: the controller is idle, and for COMMAND its last
\* completion has been drained.
LEMMA ToWriteInv ==
  ASSUME Inv, Frame, session' = session, at = "snap",
         NEW step \in {"set_rdo", "write"}, cmd = "none",
         step = "write" => job \in {"send", "command2"}, Anchored,
         pd' = pd, Go(step, "none"), hand' = {}, UNCHANGED flag
  PROVE  Inv'
<1>1. at' = step /\ job' = "none"
  BY DEF Go
<1>2. TypeOK'
  BY <1>1 DEF Inv, TypeOK, ChipTypeOK, Frame, chip
<1>3. Control'
  BY <1>1 DEF Inv, Control, IdleFree, WaitJobs
<1>4. PlugInv'
  BY <1>1 DEF Inv, PlugInv, Anchored, Replaced, Frame, chip
<1>5. Quiet'
  BY <1>1 DEF Inv, Quiet, InPoll, Frame, chip
<1>6. NoStaleDone'
  BY DEF Inv, NoStaleDone, Frame, chip
<1> QED BY <1>2, <1>3, <1>4, <1>5, <1>6 DEF Inv

\* A snapshot that finds nothing new keeps the invariant.
LEMMA UnchangedInv == ASSUME Inv, Unchanged PROVE Inv'
<1>1. PICK j \in {"discovered", "send"} : Snapped(j)
  BY DEF Unchanged
<1>2. session' = session
  BY DEF Unchanged
<1>3. Frame /\ at = "snap" /\ job = j
  BY <1>1, <1>2, SnapFacts
<1>4. CASE ContractChanged(hand) \/ command_busy \/ port.role # "Device"
  <2>1. Leave(fail(pd))
    BY <1>4 DEF Unchanged
  <2> QED BY <1>2, <1>3, <2>1, ModestFacts, LeaveInv
<1>5. CASE ~(ContractChanged(hand) \/ command_busy \/ port.role # "Device")
  <2>1. cmd = "none"
    BY <1>5 DEF command_busy
  <2> DEFINE step == IF job = "discovered" THEN "set_rdo" ELSE "write"
  <2>2. /\ pd' = pd /\ Go(step, "none") /\ hand' = {} /\ UNCHANGED flag
    BY <1>5 DEF Unchanged
  <2>3. step \in {"set_rdo", "write"} /\ (step = "write" => job \in {"send", "command2"})
    BY <1>3
  <2>4. Anchored
    BY <1>3 DEF Anchored
  <2> HIDE DEF step
  <2> QED BY <1>2, <1>3, <2>1, <2>2, <2>3, <2>4, ToWriteInv
<1> QED BY <1>4, <1>5

\* The COMMAND write: nothing older is pending when the command starts.
LEMMA WriteCommandInv == ASSUME Inv, WriteCommand PROVE Inv'
<1>1. /\ at = "write" /\ cmd = "none" /\ "DONE" \notin alert /\ ~pd.held
      /\ pd.captured = {} /\ pd \in Policies /\ flag \in BOOLEAN
  BY DEF Inv, TypeOK, Quiet, InPoll, WriteCommand
<1>2. /\ UNCHANGED <<cable, port, alert, objs, noise, retry, session>>
      /\ cmd' \in Commands \cup {"none"}
      /\ served' \in SUBSET (0 .. MaxCables)
      /\ errors' \in 0 .. MaxErrors
  <2>1. NextCommand \in Commands
    BY DEF NextCommand, Commands
  <2>2. errors' \in 0 .. MaxErrors
    BY ErrorsAssumption DEF WriteCommand, Inv, TypeOK, Succeed, Lapse
  <2> QED BY <2>1, <2>2 DEF WriteCommand, Inv, TypeOK, ChipTypeOK
<1>3. /\ pd' \in Policies /\ hand' \in SUBSET Bits /\ flag' \in BOOLEAN
      /\ ~pd'.held /\ pd'.captured = {} /\ IdleFree(pd')
      /\ \/ at' = "recheck" /\ job' = "none"
         \/ at' = "alert" /\ job' = "unsent"
  <2>1. CASE Leave([pd EXCEPT !.phase = NextWait, !.expired = FALSE])
    <3>1. NextWait \in Waits /\ NextWait # "Idle"
      BY DEF NextWait, Waits
    <3>2. pd' = [pd EXCEPT !.phase = NextWait, !.expired = FALSE]
      BY <2>1 DEF Leave
    <3>3. /\ pd' \in Policies /\ pd'.phase # "Idle"
          /\ pd'.held = pd.held /\ pd'.captured = pd.captured
      BY <1>1, <3>1, <3>2 DEF Policies, Phases
    <3> QED BY <1>1, <2>1, <3>3 DEF Leave, Go, IdleFree
  <2>2. CASE Event("unsent", pd)
    BY <1>1, <2>2 DEF Event, Go, Inv, Control
  <2>3. CASE Leave(fail(pd))
    BY <1>1, <2>3, FailFacts DEF Leave, Go, IdleFree
  <2> QED BY <2>1, <2>2, <2>3 DEF WriteCommand
<1>4. TypeOK'
  BY <1>2, <1>3 DEF Inv, TypeOK, ChipTypeOK, Jobs, Events
<1>5. Control'
  BY <1>3 DEF Control, WaitJobs
<1>6. PlugInv'
  BY <1>1, <1>2 DEF Inv, PlugInv, Anchored, Replaced
<1>7. Quiet'
  BY <1>3 DEF Quiet, InPoll
<1>8. NoStaleDone'
  BY <1>1, <1>2, <1>3 DEF NoStaleDone
<1> QED BY <1>4, <1>5, <1>6, <1>7, <1>8 DEF Inv

\* The object reads of unchanged_contract().
LEMMA ReadPdoInv == ASSUME Inv, ReadPdo PROVE Inv'
<1>1. Frame /\ session' = session
  BY FrameFacts DEF ReadPdo
<1>2. CASE at' = "rdo" /\ UNCHANGED <<pd, job, hand, flag>>
  <2>1. at = "pdo"
    BY DEF ReadPdo
  <2>2. TypeOK'
    BY <1>1, <1>2 DEF Inv, TypeOK, ChipTypeOK, Frame, chip
  <2>3. Control' /\ Quiet'
    BY <1>1, <1>2, <2>1 DEF Inv, Control, IdleFree, Quiet, InPoll, Frame, chip, WaitJobs
  <2>4. PlugInv' /\ NoStaleDone'
    BY <1>1, <1>2, <2>1 DEF Inv, PlugInv, Anchored, Replaced, Frame, chip, NoStaleDone
  <2> QED BY <2>2, <2>3, <2>4 DEF Inv
<1>3. CASE Leave(transport_lost(pd)) \/ Leave(fail(pd))
  BY <1>1, <1>3, ModestFacts, LeaveInv
<1> QED BY <1>2, <1>3 DEF ReadPdo, ReadError

\* What belongs to which job survives the object reads; the two jobs without an
\* event of their own go on to the next one.
LEMMA ReadRdoInv == ASSUME Inv, ReadRdo PROVE Inv'
<1>1. Frame /\ session' = session
  BY FrameFacts DEF ReadRdo
<1>2. /\ pd \in Policies /\ ~pd.held /\ at = "rdo"
      /\ job \in {"send", "command2"} => cmd = "none"
      /\ job \in WaitJobs => pd.phase \in Waits
      /\ job \in Checks \cup Objs
  BY DEF ReadRdo, Inv, TypeOK, Quiet, InPoll, Control
<1>3. CASE Leave(transport_lost(pd)) \/ Leave(fail(pd))
  BY <1>1, <1>3, ModestFacts, LeaveInv
<1>4. CASE ObjectsUnchanged
  <2>1. CASE job = "seen"
    <3> DEFINE q == [pd EXCEPT !.seen = TRUE]
    <3>1. /\ q \in Policies /\ q.phase = pd.phase /\ q.charge = pd.charge
          /\ q.saved = pd.saved /\ q.held = pd.held /\ q.captured = pd.captured
      BY <1>2 DEF Policies
    <3>2. Leave(q) \/ Check("contract", q, FALSE)
      BY <1>4, <2>1 DEF ObjectsUnchanged
    <3> HIDE DEF q
    <3>3. Modest(q)
      BY <3>1, ModestFacts DEF Modest, IdleFree, Owns
    <3>4. Fits("contract", q) /\ "contract" \in Objs
      BY <1>2, <2>1, <3>1 DEF Fits, Jobs, Objs, WaitJobs
    <3> QED BY <1>1, <1>2, <3>1, <3>2, <3>3, <3>4, LeaveInv, CheckInv
  <2>2. CASE job = "contract"
    <3>1. Event("command", pd)
      BY <1>4, <2>2 DEF ObjectsUnchanged
    <3>2. Fits("command", pd)
      BY <1>2, <2>2 DEF Fits, Jobs, Events, WaitJobs
    <3> QED BY <1>1, <3>1, <3>2, ModestFacts, EventInv
  <2>3. CASE job \in Checks
    <3>1. Event(job, pd)
      BY <1>4, <2>3 DEF ObjectsUnchanged, Checks
    <3>2. Fits(job, pd)
      BY <1>2, <2>3 DEF Fits, Jobs, Checks, WaitJobs
    <3> QED BY <1>1, <3>1, <3>2, ModestFacts, EventInv
  <2> QED BY <1>2, <2>1, <2>2, <2>3 DEF Objs
<1> QED BY <1>3, <1>4 DEF ReadRdo, ReadError

\* The jobs that read the objects, or leave, after their event.
LEMMA WaitInv ==
  ASSUME Inv, \/ TerminalPower \/ HostHandoff \/ WaitEnds \/ SwapTimedOut
              \/ WaitContract \/ CommandDrained \/ SwapUnsent
  PROVE  Inv'
<1>1. session' = session
  BY DEF TerminalPower, HostHandoff, WaitEnds, SwapTimedOut, WaitContract,
         WaitGoesOn, CommandDrained, SwapUnsent, Checked
<1>2. PICK j : Snapped(j)
  BY DEF TerminalPower, HostHandoff, WaitEnds, SwapTimedOut, WaitContract,
         WaitGoesOn, CommandDrained, SwapUnsent, Checked
<1>3. Frame /\ ~pd.held /\ command_busy \in BOOLEAN
  BY <1>1, <1>2, SnapFacts
<1>4. CASE TerminalPower
  <2>1. Check("terminal2", pd, FALSE) \/ Leave(pd)
    BY <1>4 DEF TerminalPower
  <2>2. Fits("terminal2", pd) /\ "terminal2" \in Checks
    BY DEF Fits, Jobs, Checks, WaitJobs
  <2> QED BY <1>1, <1>3, <2>1, <2>2, ModestFacts, LeaveInv, CheckInv
<1>5. CASE HostHandoff
  <2>1. Check("host2", pd, RoleLost) /\ RoleLost \in BOOLEAN
    BY <1>5 DEF HostHandoff, RoleLost
  <2>2. Fits("host2", pd) /\ "host2" \in Checks
    BY DEF Fits, Jobs, Checks, WaitJobs
  <2> QED BY <1>1, <1>3, <2>1, <2>2, ModestFacts, CheckInv
<1>6. CASE WaitEnds \/ SwapTimedOut
  <2>1. Check("timeout2", pd, FALSE) \/ Leave(fail(pd)) \/ Leave(data_role_failed(pd))
    BY <1>6 DEF WaitEnds, SwapTimedOut
  <2>2. Fits("timeout2", pd) /\ "timeout2" \in Checks
    BY DEF Fits, Jobs, Checks, WaitJobs
  <2> QED BY <1>1, <1>3, <2>1, <2>2, ModestFacts, LeaveInv, CheckInv
<1>7. CASE WaitContract
  <2>1. \/ Check("seen", pd, command_busy) \/ Check("contract", pd, FALSE)
        \/ Leave(pd)
    BY <1>7 DEF WaitContract
  <2>2. pd.phase \in Waits
    BY <1>7 DEF WaitContract, Waits
  <2>3. /\ Fits("seen", pd) /\ "seen" \in Objs
        /\ Fits("contract", pd) /\ "contract" \in Objs
    BY <2>2 DEF Fits, Jobs, Objs, WaitJobs
  <2> QED BY <1>1, <1>3, <2>1, <2>3, ModestFacts, LeaveInv, CheckInv
<1>8. CASE CommandDrained
  <2>1. CASE command_busy
    <3>1. Leave(fail(pd))
      BY <1>8, <2>1 DEF CommandDrained
    <3> QED BY <1>1, <1>3, <3>1, ModestFacts, LeaveInv
  <2>2. CASE ~command_busy
    <3>1. Check("command2", pd, FALSE)
      BY <1>8, <2>2 DEF CommandDrained
    <3>2. Fits("command2", pd) /\ "command2" \in Checks
      BY <1>3, <1>8, <2>2 DEF Fits, Jobs, Checks, command_busy, WaitJobs,
             CommandDrained, Snapped, Inv, Control
    <3> QED BY <1>1, <1>3, <3>1, <3>2, ModestFacts, CheckInv
  <2> QED BY <2>1, <2>2
<1>9. CASE SwapUnsent
  <2>1. Check("unsent2", pd, FALSE) \/ Leave(data_role_failed(pd))
    BY <1>9 DEF SwapUnsent
  <2>2. Fits("unsent2", pd) /\ "unsent2" \in Checks
    BY DEF Fits, Jobs, Checks, WaitJobs
  <2> QED BY <1>1, <1>3, <2>1, <2>2, ModestFacts, LeaveInv, CheckInv
<1> QED BY <1>4, <1>5, <1>6, <1>7, <1>8, <1>9

\* The end of a wait keeps the invariant.
LEMMA WaitDoneInv == ASSUME Inv, WaitDone PROVE Inv'
<1>1. session' = session /\ Snapped("wait") /\ pd.phase \in {"WaitReady", "WaitSwap"}
  BY DEF WaitDone, WaitGoesOn
<1>2. Frame /\ ~pd.held
  BY <1>1, SnapFacts
<1>3. \/ Leave(pd) \/ Leave(fail(pd))
      \/ Check("swap2", pd, FALSE) \/ Check("ready2", pd, FALSE)
  BY <1>1 DEF WaitDone
<1>4. /\ Fits("swap2", pd) /\ "swap2" \in Checks
      /\ Fits("ready2", pd) /\ "ready2" \in Checks
  BY <1>1 DEF Fits, Jobs, Checks, Waits, WaitJobs
<1> QED BY <1>1, <1>2, <1>3, <1>4, ModestFacts, LeaveInv, CheckInv

\* A completed handoff after its contract check.
LEMMA HostCheckedInv == ASSUME Inv, HostChecked PROVE Inv'
<1>1. session' = session /\ Snapped("host2")
  BY DEF HostChecked, Checked
<1>2. Frame
  BY <1>1, SnapFacts
<1>3. pd \in Policies
  BY DEF Inv, TypeOK
<1> DEFINE lost == [data_role_failed(pd) EXCEPT !.saved = FALSE]
           back == [pd EXCEPT !.phase = "Complete", !.charge = pd.saved, !.saved = FALSE]
<1>4. \/ Leave(lost) \/ Leave(fail(pd)) \/ Leave(pd)
      \/ pd.phase = "Revalidate" /\ Leave(back)
  BY DEF HostChecked
<1>5. /\ lost \in Policies /\ lost.phase = "Failed" /\ lost.charge = pd.charge
      /\ ~lost.saved /\ lost.held = pd.held /\ lost.captured = pd.captured
  BY <1>3 DEF data_role_failed, Policies, Phases, Terminal
<1>6. /\ back \in Policies /\ back.phase = "Complete"
      /\ back.held = pd.held /\ back.captured = pd.captured
  BY <1>3 DEF Policies, Phases, Hosts
<1> HIDE DEF lost, back
<1>7. Modest(lost)
  BY <1>5, ModestFacts DEF Modest, IdleFree, Owns, Waits, Hosts
<1>8. pd.phase = "Revalidate" => Modest(back)
  BY <1>6, ModestFacts DEF Modest, IdleFree, Anchored, Owns, Hosts
<1> QED BY <1>1, <1>2, <1>4, <1>7, <1>8, ModestFacts, LeaveInv

\* The phase of a command wait moves on after its contract check.
LEMMA CheckedInv == ASSUME Inv, ReadyChecked \/ SwapChecked \/ CommandChecked PROVE Inv'
<1>1. session' = session
  BY DEF ReadyChecked, SwapChecked, CommandChecked, Checked
<1>2. PICK j \in {"ready2", "swap2", "command2"} : Snapped(j)
  BY DEF ReadyChecked, SwapChecked, CommandChecked, Checked
<1>3. Frame /\ ~pd.held /\ at = "snap" /\ job = j
  BY <1>1, <1>2, SnapFacts
<1>4. pd \in Policies
  BY DEF Inv, TypeOK
<1> DEFINE done == [pd EXCEPT !.phase = "Complete"]
<1>5. /\ done \in Policies /\ done.phase = "Complete"
      /\ done.held = pd.held /\ done.captured = pd.captured
  BY <1>4 DEF Policies, Phases, Hosts
<1>6. pd.phase \in Waits => Modest(done)
  BY <1>5, ModestFacts DEF Modest, IdleFree, Anchored, Owns
<1>7. CASE SwapChecked
  <2>1. job = "swap2" /\ job \in WaitJobs
    BY <1>7 DEF SwapChecked, Checked, Snapped, WaitJobs
  <2>2. pd.phase \in Waits
    BY <2>1 DEF Inv, Control
  <2>3. Leave(data_role_failed(pd)) \/ Leave(done)
    BY <1>7 DEF SwapChecked
  <2> HIDE DEF done
  <2> QED BY <1>1, <1>3, <1>6, <2>2, <2>3, ModestFacts, LeaveInv
<1>8. CASE ReadyChecked
  <2>1. job = "ready2" /\ job \in WaitJobs
    BY <1>8 DEF ReadyChecked, Checked, Snapped, WaitJobs
  <2>2. pd.phase \in Waits
    BY <2>1 DEF Inv, Control
  <2> DEFINE q == [pd EXCEPT !.charge = TRUE]
             full == [q EXCEPT !.phase = "Complete"]
  <2>3. /\ q \in Policies /\ q.phase = pd.phase /\ q.held = pd.held
        /\ q.captured = pd.captured
    BY <1>4 DEF Policies
  <2>4. /\ full \in Policies /\ full.phase = "Complete" /\ full.held = pd.held
        /\ full.captured = pd.captured
    BY <1>4 DEF Policies, Phases, Hosts
  <2>5. \/ Leave(fail(pd)) \/ Leave(full)
        \/ Event("command", q) \/ Leave(unsupported(q))
    BY <1>8 DEF ReadyChecked
  <2>6. Anchored
    BY <2>2 DEF Anchored, Owns
  <2> HIDE DEF q, full
  <2>7. pd.phase # "Idle"
    BY <2>2 DEF Waits
  <2>8. Modest(q) /\ Modest(full)
    BY <2>3, <2>4, <2>6, <2>7, ModestFacts DEF Modest, IdleFree
  <2>9. Modest(unsupported(q))
    BY <2>3, <2>6, <2>8, UpdateFacts DEF Modest, IdleFree
  <2>10. Fits("command", q)
    BY <2>2, <2>3 DEF Fits, Jobs, Events, WaitJobs
  <2> QED BY <1>1, <1>3, <2>5, <2>8, <2>9, <2>10, ModestFacts, LeaveInv, EventInv
<1>9. CASE CommandChecked
  <2>1. job = "command2"
    BY <1>9 DEF CommandChecked, Checked, Snapped
  <2>2. cmd = "none"
    BY <2>1 DEF Inv, Quiet
  <2>3. CASE Leave(fail(pd))
    BY <1>1, <1>3, <2>3, ModestFacts, LeaveInv
  <2>4. CASE pd.phase = "WaitReady" /\ Leave(done)
    <3>1. pd.phase \in Waits
      BY <2>4 DEF Waits
    <3> HIDE DEF done
    <3> QED BY <1>1, <1>3, <1>6, <2>4, <3>1, LeaveInv
  <2>5. CASE pd' = pd /\ Go("write", "none") /\ hand' = {} /\ UNCHANGED flag
    <3>1. Anchored
      BY <2>1 DEF Inv, Control, Anchored, Owns, WaitJobs
    <3> QED BY <1>1, <1>3, <2>1, <2>2, <2>5, <3>1, ToWriteInv
  <2> QED BY <1>9, <2>3, <2>4, <2>5 DEF CommandChecked
<1> QED BY <1>7, <1>8, <1>9

\* A timer firing changes no permission.
LEMMA TickInv == ASSUME Inv, Tick PROVE Inv'
<1>1. UNCHANGED <<chip, at, job, hand, flag, retry, errors, session, served>>
  BY DEF Tick
<1>2. /\ pd' \in Policies /\ pd'.phase = pd.phase /\ pd'.charge = pd.charge
      /\ pd'.saved = pd.saved /\ pd'.held = pd.held /\ pd'.captured = pd.captured
  BY DEF Tick, Inv, TypeOK, Policies
<1>3. TypeOK'
  BY <1>1, <1>2 DEF Inv, TypeOK, ChipTypeOK, chip
<1>4. Control' /\ Quiet'
  BY <1>1, <1>2 DEF Inv, Control, IdleFree, Quiet, chip, WaitJobs
<1>5. PlugInv' /\ NoStaleDone'
  BY <1>1, <1>2 DEF Inv, PlugInv, Anchored, Owns, Replaced, NoStaleDone, chip
<1> QED BY <1>3, <1>4, <1>5 DEF Inv

\* The environment announces every change of cable, and completes a command
\* only while one runs.
LEMMA EnvironmentInv == ASSUME Inv, Environment PROVE Inv'
<1>1. UNCHANGED policy
  BY DEF Environment
<1>2. /\ ChipTypeOK'
      /\ alert \subseteq alert'
      /\ Replaced' => Replaced \/ "PLUGPULL" \in alert'
      /\ cmd' = cmd \/ cmd' = "none"
      /\ "DONE" \in alert' => "DONE" \in alert \/ (cmd # "none" /\ cmd' = "none")
  <2>1. CASE Attach
    <3>1. cable' \in 0 .. MaxCables
      BY <2>1, BoundAssumption DEF Attach, Inv, TypeOK, ChipTypeOK
    <3> QED BY <2>1, <3>1 DEF Attach, Inv, TypeOK, ChipTypeOK, Ports, Raise, Bits
  <2>2. CASE Detach
    BY <2>2 DEF Detach, Inv, TypeOK, ChipTypeOK, Ports, Raise, Bits, Roles
  <2>3. CASE Negotiate
    BY <1>1, <2>3 DEF Negotiate, Inv, TypeOK, ChipTypeOK, Raise, Bits, Replaced, policy
  <2>4. CASE CommandDone
    BY <1>1, <2>4 DEF CommandDone, Inv, TypeOK, ChipTypeOK, Ports, Roles, Raise, Bits,
                      Replaced, policy
  <2>5. CASE Renegotiate
    <3>1. noise' \in 0 .. MaxNoise
      BY <2>5, BoundAssumption DEF Renegotiate, Inv, TypeOK, ChipTypeOK
    <3> QED BY <1>1, <2>5, <3>1 DEF Renegotiate, Inv, TypeOK, ChipTypeOK, Raise, Bits,
                                   Replaced, policy
  <2>6. CASE RoleOrPower
    <3>1. noise' \in 0 .. MaxNoise
      BY <2>6, BoundAssumption DEF RoleOrPower, Inv, TypeOK, ChipTypeOK
    <3> QED BY <1>1, <2>6, <3>1 DEF RoleOrPower, Inv, TypeOK, ChipTypeOK, Ports,
                                   Replaced, policy
  <2>7. CASE Fault
    <3>1. noise' \in 0 .. MaxNoise
      BY <2>7, BoundAssumption DEF Fault, Inv, TypeOK, ChipTypeOK
    <3> QED BY <1>1, <2>7, <3>1 DEF Fault, Inv, TypeOK, ChipTypeOK, Ports, Raise, Bits,
                                   Replaced, policy
  <2> QED BY <2>1, <2>2, <2>3, <2>4, <2>5, <2>6, <2>7 DEF Environment, ChipNext
<1>3. TypeOK'
  BY <1>1, <1>2 DEF Inv, TypeOK, policy
<1>4. Control'
  BY <1>1 DEF Inv, Control, IdleFree, policy, WaitJobs
<1>5. PlugInv'
  BY <1>1, <1>2 DEF Inv, PlugInv, Anchored, Owns, policy
<1>6. Quiet' /\ NoStaleDone'
  BY <1>1, <1>2 DEF Inv, Quiet, NoStaleDone, policy
<1> QED BY <1>3, <1>4, <1>5, <1>6 DEF Inv

----------------------------------------------------------------------------
(* The theorems. *)

\* The policy starts without a session.
LEMMA InitInv == Init => Inv
<1> SUFFICES ASSUME Init PROVE Inv
  OBVIOUS
<1>1. ChipTypeOK
  <2>1. port \in Ports
    BY DEF Init, ChipInit, Ports
  <2>2. cable \in 0 .. MaxCables /\ noise \in 0 .. MaxNoise
    <3>1. cable \in {0, 1} /\ noise = 0
      BY DEF Init, ChipInit
    <3> QED BY <3>1, BoundAssumption
  <2>3. alert \subseteq Bits /\ objs \in Objects /\ cmd \in Commands \cup {"none"}
    BY DEF Init, ChipInit, Bits, Objects
  <2> QED BY <2>1, <2>2, <2>3 DEF ChipTypeOK
<1>2. 0 \in 0 .. 2 /\ 0 \in 0 .. MaxErrors /\ 0 \in 0 .. MaxCables
  BY BoundAssumption, ErrorsAssumption
<1>3. /\ pd \in Policies /\ pd.phase = "Idle" /\ ~pd.charge /\ ~pd.saved
      /\ ~pd.held /\ pd.captured = {}
  BY <1>2 DEF Init, Default, Policies, Phases
<1>4. TypeOK
  BY <1>1, <1>2, <1>3 DEF Init, TypeOK
<1>5. Control /\ Quiet
  BY <1>3 DEF Init, Control, IdleFree, Quiet, InPoll, WaitJobs
<1>6. ~Owns(pd)
  BY <1>3 DEF Owns, Waits, Hosts
<1>7. PlugInv /\ NoStaleDone
  BY <1>6 DEF Init, ChipInit, PlugInv, Anchored, NoStaleDone
<1> QED BY <1>4, <1>5, <1>7 DEF Inv

\* Every step keeps the invariant.
LEMMA NextInv == Inv /\ [Next]_vars => Inv'
<1> SUFFICES ASSUME Inv, [Next]_vars PROVE Inv'
  OBVIOUS
<1>1. CASE Step
  BY <1>1, OutsideInv, PollInv, ConfirmInv, ReadAlertInv, SnapStopsInv,
     AnchorInv, DiscoverInv, UnchangedInv, SetRdoInv, WriteCommandInv,
     ReadPdoInv, ReadRdoInv, WaitInv, WaitDoneInv, HostCheckedInv, CheckedInv
     DEF Step
<1>2. CASE UNCHANGED vars
  BY <1>2 DEF vars, chip, policy, Inv, TypeOK, ChipTypeOK, Control, IdleFree,
              PlugInv, Anchored, Owns, Replaced, Quiet, NoStaleDone
<1> QED BY <1>1, <1>2, DrainInv, OutsideInv, TickInv, EnvironmentInv DEF Next

\* The handoff's invariant holds in every reachable state.
THEOREM Invariance == Spec => []Inv
<1> QED BY InitInv, NextInv, PTL DEF Spec

\* Type correctness of the policy, of its control and of its environment.
THEOREM PolicyTypes == Spec => []TypeOK
<1>1. Inv => TypeOK
  BY DEF Inv
<1> QED BY <1>1, Invariance, PTL

\* No drain of the read-clear ALERT register loses the notification that the
\* cable was replaced: not monitor_inner()'s, not event()'s, and not the
\* anchoring one that ignores PLUGPULL, whatever transactions fail.
THEOREM CableChanges == Spec => []CableChangeNeverLost
<1>1. Inv => CableChangeNeverLost
  BY DEF Inv, PlugInv, Anchored, CableChangeNeverLost
<1> QED BY <1>1, Invariance, PTL

\* A command is never completed by an older completion: the drains of
\* command() and of the RDO sequence remove it before the write.
THEOREM Completions == Spec => []NoStaleDone
<1>1. Inv => NoStaleDone
  BY DEF Inv
<1> QED BY <1>1, Invariance, PTL
----------------------------------------------------------------------------
(* One attempt for each cable, and contracts that are vouched for.          *)

\* From the anchoring snapshot to the write of SEND_RDO.
Attempting ==
  /\ pd.phase = "Idle"
  /\ at \in {"caps", "set_rdo", "write"} \/ job \in {"discovered", "send"}

\* A cable that has been tried keeps its policy out of Idle, and keeps its
\* orientation, so that no snapshot takes it for another attachment.
Tried ==
  /\ session <= cable /\ served \subseteq 0 .. cable
  /\ port.attached /\ cable \in served => pd.phase # "Idle" /\ pd.side = port.side
  /\ Attempting =>
       session \notin served /\ (port.attached /\ session = cable => pd.side = port.side)

\* Bits that tell of another contract, other objects or another cable.
Noted(bits) == bits \cap {"CONTRACT", "PDO", "PLUGPULL"} # {}

Vouching(p) == p.phase \in Hosts \/ (p.phase \in Terminal /\ p.charge)

Justified(p) == Vouching(p) /\ objs # "match" => Noted(alert \cup p.captured)

\* Where the objects are about to be read, are half read or have been read, a
\* difference that the reads did not or will not show is still in ALERT.
Verified ==
  /\ job = "none" \/ at \in {"alert", "snap", "pdo", "rdo"}
  /\ at = "alert" => job # "none"
  /\ at \in {"caps", "set_rdo"} \/ job \in Attempt => pd.phase = "Idle"
  /\ pd.phase \in Terminal => at # "write" /\ job \in {"none", "terminal", "terminal2"}
  /\ at = "snap" /\ job # "anchor" => "PLUGPULL" \notin hand
  /\ job \in {"terminal", "terminal2"} \/ Justified(pd)
  /\ at = "rdo" /\ objs = "pdo" => Noted(alert)
  /\ at = "alert" /\ job \in Checks /\ objs # "match" => Noted(alert)
  /\ at = "snap" /\ job \in Checks /\ objs # "match" => Noted(alert \cup hand)

Tracks == Tried /\ Verified

\* What a step may make of the policy: Idle is reached from another phase only
\* when the attachment is not the one the policy was made for.
Carries(p) ==
  /\ p \in Policies
  /\ p.phase = "Idle" => pd.phase = "Idle" \/ ~same_attachment(pd)
  /\ port.attached => p.side \in {pd.side, port.side}

\* None of the policy's updates changes its side.
LEMMA SideFacts ==
  ASSUME NEW p \in Policies
  PROVE  /\ fail(p).side = p.side /\ transport_lost(p).side = p.side
         /\ observation_failed(p).side = p.side /\ data_role_failed(p).side = p.side
         /\ unsupported(p).side = p.side /\ Unsettled(p).side = p.side
<1>1. /\ fail(p).side = p.side /\ data_role_failed(p).side = p.side
      /\ unsupported(p).side = p.side /\ Unsettled(p).side = p.side
  BY DEF fail, data_role_failed, unsupported, Unsettled, Policies
<1>2. [p EXCEPT !.phase = "Revalidate", !.saved = p.charge,
                !.charge = FALSE, !.expired = FALSE].side = p.side
  BY DEF Policies
<1>3. transport_lost(p).side = p.side
  BY <1>1, <1>2 DEF transport_lost
<1>4. observation_failed(p).side = p.side
  BY <1>1 DEF observation_failed
<1> QED BY <1>1, <1>3, <1>4

\* What the methods do to a policy's claim to a contract.
LEMMA VouchFacts ==
  ASSUME NEW p \in Policies
  PROVE  /\ ~Vouching(fail(p))
         /\ Vouching(transport_lost(p)) => Vouching(p)
         /\ Vouching(observation_failed(p)) => Vouching(p)
         /\ Vouching(Unsettled(p)) <=> Vouching(p)
         /\ p.phase = "Idle" => ~Vouching(p)
<1>1. ~Vouching(fail(p))
  BY FailFacts DEF Vouching, Hosts
<1>2. Vouching(transport_lost(p)) => Vouching(p)
  <2>1. CASE p.phase \in Hosts
    BY <2>1 DEF Vouching
  <2>2. CASE p.phase = "Idle"
    BY <2>2 DEF transport_lost, Hosts
  <2>3. CASE p.phase \notin Hosts /\ p.phase # "Idle"
    BY <1>1, <2>3 DEF transport_lost, Hosts
  <2> QED BY <2>1, <2>2, <2>3
<1>3. Vouching(observation_failed(p)) => Vouching(p)
  BY <1>1 DEF observation_failed
<1>4. Vouching(Unsettled(p)) <=> Vouching(p)
  BY UpdateFacts DEF Vouching
<1>5. p.phase = "Idle" => ~Vouching(p)
  BY DEF Vouching, Hosts, Terminal
<1> QED BY <1>1, <1>2, <1>3, <1>4, <1>5

\* None of the policy's updates makes an attachment idle again.
LEMMA CarriesFacts ==
  ASSUME Inv
  PROVE  /\ Carries(pd) /\ Carries(fail(pd)) /\ Carries(transport_lost(pd))
         /\ Carries(observation_failed(pd)) /\ Carries(data_role_failed(pd))
         /\ Carries(unsupported(pd)) /\ Carries(Unsettled(pd)) /\ Carries(Oriented)
         /\ Carries(Debounced) /\ Carries(fail(Oriented)) /\ Carries(Unsettled(Oriented))
         /\ ~same_attachment(pd) => Carries(reset)
<1>1. pd \in Policies /\ port \in Ports
  BY DEF Inv, TypeOK, ChipTypeOK
<1>2. /\ Oriented \in Policies /\ Oriented.phase = pd.phase
      /\ Debounced \in Policies /\ Debounced.phase = pd.phase
  BY <1>1, OrientFacts
<1>3. Oriented.side \in {pd.side, port.side}
  BY <1>1 DEF Oriented, Policies
<1>4. Debounced.side = Oriented.side
  <2> DEFINE t == IF Oriented.settle = "off" THEN "running" ELSE Oriented.settle
             n == IF Oriented.polls < 2 THEN Oriented.polls + 1 ELSE Oriented.polls
  <2>1. Debounced = [Oriented EXCEPT !.settle = t, !.polls = n]
    BY DEF Debounced
  <2> HIDE DEF t, n
  <2> QED BY <1>2, <2>1 DEF Policies
<1>5. Carries(pd) /\ Carries(fail(pd)) /\ Carries(transport_lost(pd))
  BY <1>1, FailFacts, TransportFacts, SideFacts DEF Carries
<1>6. Carries(observation_failed(pd)) /\ Carries(data_role_failed(pd))
  BY <1>1, ObservationFacts, UpdateFacts, SideFacts DEF Carries
<1>7. Carries(unsupported(pd)) /\ Carries(Unsettled(pd))
  BY <1>1, UpdateFacts, SideFacts DEF Carries
<1>8. Carries(Oriented) /\ Carries(Debounced)
  BY <1>2, <1>3, <1>4 DEF Carries
<1>9. Carries(fail(Oriented)) /\ Carries(Unsettled(Oriented))
  <2>1. /\ fail(Oriented) \in Policies /\ fail(Oriented).phase = "Failed"
        /\ Unsettled(Oriented) \in Policies /\ Unsettled(Oriented).phase = pd.phase
    BY <1>2, FailFacts, UpdateFacts
  <2>2. fail(Oriented).side = Oriented.side /\ Unsettled(Oriented).side = Oriented.side
    BY <1>2, SideFacts
  <2> QED BY <1>3, <2>1, <2>2 DEF Carries
<1>10. ~same_attachment(pd) => Carries(reset)
  <2>1. reset.side = IF port.attached THEN port.side ELSE "none"
    BY DEF reset, Default
  <2> QED BY <1>1, <2>1, ResetFacts DEF Carries
<1> QED BY <1>5, <1>6, <1>7, <1>8, <1>9, <1>10

\* The history of the cables, while neither the cable nor the served set moves.
LEMMA TriedStep ==
  ASSUME Inv, Tried, UNCHANGED <<cable, port, served>>, session' \in {session, cable},
         Carries(pd'), Attempting' => Attempting /\ session' = session
  PROVE  Tried'
<1>1. session' <= cable /\ served \subseteq 0 .. cable
  BY DEF Inv, TypeOK, ChipTypeOK, Tried
<1>2. ASSUME port.attached, cable \in served
      PROVE  pd'.phase # "Idle" /\ pd'.side = port.side
  BY <1>2 DEF Tried, Carries, same_attachment
<1>3. ASSUME Attempting'
      PROVE  session' \notin served
             /\ (port.attached /\ session' = cable => pd'.side = port.side)
  BY <1>3 DEF Tried, Carries
<1> QED BY <1>1, <1>2, <1>3 DEF Tried

\* Outside poll(), and where poll() returns, no job is left.
LEMMA OutTracks ==
  ASSUME Inv, Tracks, UNCHANGED <<cable, port, served>>, session' \in {session, cable},
         Carries(pd'), (Justified(pd))', job' = "none",
         at' \in {"rest", "raw", "confirm", "recheck"}
  PROVE  Tracks'
<1>1. Tried'
  BY TriedStep DEF Tracks, Attempting
<1>2. Verified'
  BY DEF Verified, Attempt, Checks
<1> QED BY <1>1, <1>2 DEF Tracks

\* Leaving a phase keeps track of what was tried and verified.
LEMMA LeaveTracks ==
  ASSUME Inv, Tracks, UNCHANGED <<chip, served>>, session' \in {session, cable},
         NEW p, Carries(p), Justified(p), Leave(p)
  PROVE  Tracks'
<1>1. pd' = p /\ at' = "recheck" /\ job' = "none"
  BY DEF Leave, Go
<1>2. (Justified(pd))'
  BY <1>1 DEF Justified, chip
<1> QED BY <1>1, <1>2, OutTracks DEF chip

\* A job with an event of its own may begin.
Begins(j, p) ==
  /\ j \in Jobs
  /\ j \in Attempt => p.phase = "Idle"
  /\ j \in {"discovered", "send"} => Attempting
  /\ j \in Checks => ~p.held /\ (objs # "match" => Noted(alert))
  /\ p.phase \in Terminal => j \in {"terminal", "terminal2"}
  /\ j \in {"terminal", "terminal2"} \/ Justified(p)

\* An event handled in a phase keeps track of what was tried and verified.
LEMMA EventTracks ==
  ASSUME Inv, Tracks, UNCHANGED <<cable, port, alert, objs, served, session>>,
         NEW p, Carries(p), ~p.held => p.captured = {}, NEW j, Begins(j, p), Event(j, p)
  PROVE  Tracks'
<1> DEFINE q == [p EXCEPT !.held = FALSE, !.captured = {}]
<1>1. /\ p \in Policies /\ flag \in BOOLEAN /\ p.captured \in SUBSET Bits
  BY DEF Carries, Inv, TypeOK, Policies
<1>2. /\ q \in Policies /\ q.phase = p.phase /\ q.side = p.side /\ q.charge = p.charge
      /\ q.captured = {}
  BY <1>1 DEF Policies
<1>3. CASE p.held /\ Fatal(q, p.captured, j = "anchor")
  <2>1. Leave(fail(q))
    BY <1>3 DEF Event, Consume
  <2>2. pd' = fail(q) /\ at' = "recheck" /\ job' = "none"
    BY <2>1 DEF Leave, Go
  <2>3. Carries(fail(q)) /\ ~Vouching(fail(q))
    BY <1>2, FailFacts, SideFacts, VouchFacts DEF Carries
  <2>4. Tried'
    BY <2>2, <2>3, TriedStep DEF Tracks, Attempting
  <2>5. Verified'
    BY <2>2, <2>3 DEF Verified, Justified, Vouching, Attempt, Checks
  <2> QED BY <2>4, <2>5 DEF Tracks
<1>4. CASE p.held /\ ~Fatal(q, p.captured, j = "anchor")
  <2>1. pd' = q /\ at' = "snap" /\ job' = j /\ hand' = p.captured
    BY <1>4 DEF Event, Consume, Go
  <2>2. /\ j # "anchor" => "PLUGPULL" \notin p.captured
        /\ q.phase \in Hosts => ~ContractChanged(p.captured)
    BY <1>4 DEF Fatal
  <2> HIDE DEF q
  <2>3. Carries(q)
    BY <1>2 DEF Carries
  <2>4. Attempting' => Attempting
    BY <2>1 DEF Attempting, Begins
  <2>5. Tried'
    BY <2>1, <2>3, <2>4, TriedStep DEF Tracks
  <2>6. j \in {"terminal", "terminal2"} \/ (Justified(pd))'
    <3>1. CASE q.phase \in Terminal
      BY <1>2, <3>1 DEF Begins
    <3>2. CASE q.phase \in Hosts /\ j \notin {"terminal", "terminal2"}
      <4>1. j # "anchor"
        BY <1>2, <3>2 DEF Begins, Attempt, Hosts
      <4>2. p.captured \cap {"CONTRACT", "PDO", "PLUGPULL"} = {}
        BY <2>2, <3>2, <4>1 DEF ContractChanged
      <4>3. objs # "match" => Noted(alert \cup p.captured)
        BY <1>2, <3>2 DEF Begins, Justified, Vouching
      <4> QED BY <2>1, <4>2, <4>3 DEF Justified, Noted
    <3>3. CASE q.phase \notin Hosts \cup Terminal
      BY <2>1, <3>3 DEF Justified, Vouching
    <3> QED BY <3>1, <3>2, <3>3
  <2>7. Verified'
    BY <1>2, <1>4, <2>1, <2>2, <2>6 DEF Verified, Begins, Attempt, Checks
  <2> QED BY <2>5, <2>7 DEF Tracks
<1>5. CASE ~p.held
  <2>1. pd' = p /\ at' = "alert" /\ job' = j
    BY <1>5 DEF Event, Go
  <2>2. Attempting' => Attempting
    BY <2>1 DEF Attempting, Begins
  <2>3. Tried'
    BY <2>1, <2>2, TriedStep DEF Tracks
  <2>4. Verified'
    BY <2>1 DEF Verified, Begins, Justified, Jobs, Events, Attempt, Checks, Objs
  <2> QED BY <2>3, <2>4 DEF Tracks
<1> QED BY <1>3, <1>4, <1>5

\* A check of the phase keeps track of what was tried and verified.
LEMMA CheckTracks ==
  ASSUME Inv, Tracks, UNCHANGED <<chip, served, session>>,
         NEW p, Carries(p), NEW j \in Checks \cup Objs, NEW local, Check(j, p, local),
         p.phase \in Terminal => j = "terminal2", j = "terminal2" \/ Justified(p)
  PROVE  Tracks'
<1>1. pd' = p /\ at' = "pdo" /\ job' = j
  BY DEF Check, Go
<1>2. Tried'
  BY <1>1, TriedStep DEF Tracks, Attempting, chip, Checks, Objs
<1>3. Verified'
  BY <1>1 DEF Verified, Justified, chip, Attempt, Checks, Objs
<1> QED BY <1>2, <1>3 DEF Tracks

----------------------------------------------------------------------------
(* Every action keeps track.                                               *)

\* The claims of the policies that a step may continue with.
LEMMA JustFacts ==
  ASSUME Inv
  PROVE  /\ Justified(fail(pd)) /\ Justified(fail(Oriented)) /\ Justified(reset)
         /\ pd.phase = "Idle" =>
              Justified(pd) /\ Justified(unsupported(pd)) /\ Justified(Debounced)
         /\ Justified(pd) =>
              /\ Justified(transport_lost(pd)) /\ Justified(observation_failed(pd))
              /\ Justified(Oriented) /\ Justified(Debounced)
              /\ Justified(Unsettled(pd)) /\ Justified(Unsettled(Oriented))
<1>1. pd \in Policies /\ port \in Ports /\ IdleFree(pd)
  BY DEF Inv, TypeOK, ChipTypeOK, Control
<1>2. /\ Oriented \in Policies /\ Oriented.phase = pd.phase
      /\ Oriented.charge = pd.charge /\ Oriented.captured = pd.captured
      /\ Debounced \in Policies /\ Debounced.phase = pd.phase
      /\ Debounced.charge = pd.charge /\ Debounced.captured = pd.captured
  BY <1>1, OrientFacts
<1>3. Justified(fail(pd)) /\ Justified(fail(Oriented)) /\ Justified(reset)
  <2>1. ~Vouching(fail(pd)) /\ ~Vouching(fail(Oriented))
    BY <1>1, <1>2, VouchFacts
  <2>2. ~Vouching(reset)
    BY <1>1, ResetFacts, VouchFacts
  <2> QED BY <2>1, <2>2 DEF Justified
<1>4. ASSUME pd.phase = "Idle"
      PROVE  Justified(pd) /\ Justified(unsupported(pd)) /\ Justified(Debounced)
  <2>1. ~Vouching(pd) /\ ~Vouching(Debounced)
    BY <1>1, <1>2, <1>4, VouchFacts
  <2>2. ~Vouching(unsupported(pd))
    BY <1>1, <1>4, UpdateFacts DEF Vouching, IdleFree, Hosts
  <2> QED BY <2>1, <2>2 DEF Justified
<1>5. ASSUME Justified(pd)
      PROVE  Justified(transport_lost(pd)) /\ Justified(observation_failed(pd))
  BY <1>1, <1>5, VouchFacts, TransportFacts, ObservationFacts DEF Justified
<1>6. ASSUME Justified(pd)
      PROVE  Justified(Oriented) /\ Justified(Debounced)
  BY <1>2, <1>6 DEF Justified, Vouching
<1>7. ASSUME Justified(pd)
      PROVE  Justified(Unsettled(pd)) /\ Justified(Unsettled(Oriented))
  <2>1. Vouching(Unsettled(pd)) <=> Vouching(pd)
    BY <1>1, VouchFacts
  <2>2. Vouching(Unsettled(Oriented)) <=> Vouching(pd)
    BY <1>2, VouchFacts DEF Vouching
  <2>3. Unsettled(pd).captured = pd.captured /\ Unsettled(Oriented).captured = pd.captured
    BY <1>1, <1>2, UpdateFacts
  <2> QED BY <1>7, <2>1, <2>2, <2>3 DEF Justified
<1> QED BY <1>3, <1>4, <1>5, <1>6, <1>7

\* A read inside poll() that fails never leaves more than it found.
LEMMA ReadErrorTracks ==
  ASSUME Inv, Tracks, UNCHANGED <<chip, session, served>>, ReadError
  PROVE  Tracks'
<1>1. CASE job \in {"host", "host2"} /\ ~flag
  <2>1. Leave(transport_lost(pd))
    BY <1>1 DEF ReadError
  <2>2. Justified(pd)
    BY <1>1 DEF Tracks, Verified
  <2> QED BY <2>1, <2>2, CarriesFacts, JustFacts, LeaveTracks
<1>2. CASE ~(job \in {"host", "host2"} /\ ~flag)
  <2>1. Leave(fail(pd))
    BY <1>2 DEF ReadError
  <2> QED BY <2>1, CarriesFacts, JustFacts, LeaveTracks
<1> QED BY <1>1, <1>2

\* After the objects, ALERT and the status were read, a difference of the
\* objects can only have come since.
LEMMA CheckedFacts ==
  ASSUME Inv, Tracks, NEW j \in Checks, Checked(j)
  PROVE  objs # "match" => Noted(alert)
<1>1. at = "snap" /\ job = j /\ ~ContractChanged(hand)
  BY DEF Checked, Snapped
<1>2. "PLUGPULL" \notin hand
  BY <1>1 DEF Tracks, Verified, Checks
<1>3. objs # "match" => Noted(alert \cup hand)
  BY <1>1 DEF Tracks, Verified
<1> QED BY <1>1, <1>2, <1>3 DEF Noted, ContractChanged

\* ... so that whatever the step makes of the policy is justified.
LEMMA NotedJustifies ==
  ASSUME objs # "match" => Noted(alert), NEW p
  PROVE  Justified(p)
BY DEF Justified, Noted

\* Draining the alerts keeps track of what was tried and verified.
LEMMA DrainTracks == ASSUME Inv, Tracks, Drain PROVE Tracks'
<1>1. /\ pd \in Policies /\ alert \in SUBSET Bits /\ job = "none"
  BY DEF Drain, Inv, TypeOK, ChipTypeOK, Control
<1>2. Justified(pd) /\ UNCHANGED <<cable, port, objs, served, session>>
  BY <1>1 DEF Drain, Tracks, Verified
<1>3. CASE pd' = capture_alert(pd, alert) /\ alert' = {} /\ Go("raw", "none")
  <2> DEFINE q == [pd EXCEPT !.held = TRUE, !.captured = @ \cup alert]
  <2>1. /\ q \in Policies /\ q.phase = pd.phase /\ q.side = pd.side
        /\ q.charge = pd.charge /\ q.captured = pd.captured \cup alert
    BY <1>1 DEF Policies
  <2>2. pd' = q \/ pd' = fail(q)
    BY <1>3 DEF capture_alert
  <2> HIDE DEF q
  <2>3. Carries(pd')
    BY <2>1, <2>2, FailFacts, SideFacts DEF Carries
  <2>4. Justified(pd)'
    <3>1. Vouching(pd') => pd' = q /\ Vouching(pd)
      BY <2>1, <2>2, VouchFacts DEF Vouching
    <3>2. alert \cup pd.captured = alert' \cup q.captured
      BY <1>3, <2>1
    <3> QED BY <1>2, <3>1, <3>2 DEF Justified
  <2> QED BY <1>2, <1>3, <2>3, <2>4, OutTracks DEF Go
<1>4. CASE pd' = transport_lost(pd) /\ UNCHANGED <<alert, at, job, hand>>
  <2>1. Carries(pd') /\ Justified(transport_lost(pd))
    BY <1>2, <1>4, CarriesFacts, JustFacts
  <2>2. (Justified(pd))'
    BY <1>2, <1>4, <2>1 DEF Justified
  <2>3. at' = "rest" /\ job' = "none"
    BY <1>1, <1>4 DEF Drain
  <2> QED BY <1>2, <2>1, <2>2, <2>3, OutTracks
<1> QED BY <1>3, <1>4 DEF Drain

\* Events outside the policy keep track of what was tried and verified.
LEMMA OutsideTracks ==
  ASSUME Inv, Tracks, RawError \/ Recheck \/ StartupRecheck
  PROVE  Tracks'
<1>1. UNCHANGED <<chip, session, served>>
  BY DEF RawError, Recheck, StartupRecheck
<1>2. pd' \in {pd, transport_lost(pd), observation_failed(pd)}
  BY DEF RawError, Recheck, StartupRecheck
<1>3. at' = "rest" /\ job' = "none"
  BY DEF RawError, Recheck, StartupRecheck, Go, Inv, Control
<1>4. Justified(pd)
  BY DEF RawError, Recheck, StartupRecheck, Tracks, Verified
<1>5. Carries(pd') /\ Justified(pd')
  BY <1>2, <1>4, CarriesFacts, JustFacts
<1>6. (Justified(pd))'
  BY <1>1, <1>5 DEF Justified, chip
<1> QED BY <1>1, <1>3, <1>5, <1>6, OutTracks DEF chip

\* The polls keep track of what was tried and verified.
LEMMA PollTracks ==
  ASSUME Inv, Tracks, PollGone \/ PollTerminal \/ PollActive \/ PollIdle
  PROVE  Tracks'
<1>1. at = "raw" /\ UNCHANGED <<chip, session, served>>
  BY DEF PollGone, PollTerminal, PollActive, PollIdle, Observed
<1>2. job = "none" /\ Justified(pd)
  BY <1>1 DEF Tracks, Verified
<1>3. /\ pd \in Policies /\ port \in Ports /\ (~pd.held => pd.captured = {})
  BY DEF Inv, TypeOK, ChipTypeOK, Quiet
<1>4. /\ Oriented.phase = pd.phase /\ Oriented.held = pd.held
      /\ Oriented.captured = pd.captured
      /\ Debounced.phase = pd.phase /\ Debounced.held = pd.held
      /\ Debounced.captured = pd.captured
  BY <1>3, OrientFacts
<1>5. CASE PollGone
  <2>1. pd' = pd /\ at' = "confirm" /\ job' = "none"
    BY <1>5 DEF PollGone, Go
  <2>2. Carries(pd') /\ (Justified(pd))'
    BY <1>1, <1>2, <2>1, CarriesFacts DEF Justified, chip
  <2> QED BY <1>1, <2>1, <2>2, OutTracks DEF chip
<1>6. CASE PollTerminal
  <2>1. Leave(Oriented) \/ Leave(fail(Oriented)) \/ Event("terminal", Oriented)
    BY <1>6 DEF PollTerminal
  <2>2. Begins("terminal", Oriented)
    BY DEF Begins, Jobs, Events, Attempt, Checks
  <2> QED BY <1>1, <1>2, <1>3, <1>4, <2>1, <2>2, CarriesFacts, JustFacts,
             LeaveTracks, EventTracks DEF chip
<1>7. CASE PollActive
  <2>1. \/ Leave(fail(Oriented))
        \/ Event("host", Oriented) \/ Event("wait", Oriented)
    BY <1>7 DEF PollActive
  <2>2. Oriented.phase \notin Terminal
    BY <1>4, <1>7 DEF PollActive, Waits, Hosts, Terminal
  <2>3. Justified(Oriented)
    BY <1>2, JustFacts
  <2>4. Begins("host", Oriented) /\ Begins("wait", Oriented)
    BY <2>2, <2>3 DEF Begins, Jobs, Events, Attempt, Checks
  <2> QED BY <1>1, <1>3, <1>4, <2>1, <2>4, CarriesFacts, JustFacts,
             LeaveTracks, EventTracks DEF chip
<1>8. CASE PollIdle
  <2>1. \/ Leave(Unsettled(Oriented)) \/ Leave(Debounced)
        \/ Event("anchor", Debounced)
    BY <1>8 DEF PollIdle
  <2>2. Debounced.phase = "Idle" /\ Justified(Debounced)
    BY <1>2, <1>4, <1>8, JustFacts DEF PollIdle
  <2>3. Begins("anchor", Debounced)
    BY <2>2 DEF Begins, Jobs, Events, Attempt, Checks, Terminal
  <2> QED BY <1>1, <1>2, <1>3, <1>4, <2>1, <2>3, CarriesFacts, JustFacts,
             LeaveTracks, EventTracks DEF chip
<1> QED BY <1>5, <1>6, <1>7, <1>8

\* Confirming the session keeps track of what was tried and verified.
LEMMA ConfirmTracks == ASSUME Inv, Tracks, Confirm PROVE Tracks'
<1>1. UNCHANGED <<chip, session, served>> /\ at = "confirm"
  BY DEF Confirm
<1>2. Justified(pd)
  BY <1>1 DEF Tracks, Verified
<1>3. Leave(pd) \/ (~same_attachment(pd) /\ Leave(reset)) \/ Leave(fail(pd))
  BY DEF Confirm
<1> QED BY <1>1, <1>2, <1>3, CarriesFacts, JustFacts, LeaveTracks

\* Reading the alerts keeps track of what was tried and verified.
LEMMA ReadAlertTracks == ASSUME Inv, Tracks, ReadAlert PROVE Tracks'
<1>1. /\ pd \in Policies /\ at = "alert" /\ pd.captured = {}
      /\ UNCHANGED <<cable, port, objs, session, served>>
  BY DEF Inv, TypeOK, ReadAlert, Quiet, InPoll
<1>2. CASE UNCHANGED alert /\ ReadError
  <2>1. UNCHANGED <<chip, session, served>>
    BY <1>2 DEF ReadAlert, chip
  <2> QED BY <1>2, <2>1, ReadErrorTracks
<1>3. CASE Fatal(pd, alert, job = "anchor") /\ Consume(job, pd, alert)
  <2>1. pd' = fail(pd) /\ at' = "recheck" /\ job' = "none"
    BY <1>3 DEF Consume, Leave, Go
  <2>2. Carries(pd') /\ ~Vouching(pd')
    BY <1>1, <2>1, CarriesFacts, VouchFacts
  <2> QED BY <1>1, <2>1, <2>2, OutTracks DEF Justified
<1>4. CASE ~Fatal(pd, alert, job = "anchor") /\ alert' = {} /\ Consume(job, pd, alert)
  <2>1. pd' = pd /\ at' = "snap" /\ job' = job /\ hand' = alert
    BY <1>4 DEF Consume, Go
  <2>2. /\ job # "anchor" => "PLUGPULL" \notin alert
        /\ pd.phase \in Hosts => ~ContractChanged(alert)
    BY <1>4 DEF Fatal
  <2>3. Carries(pd') /\ (Attempting' => Attempting)
    BY <1>1, <2>1, CarriesFacts DEF Attempting
  <2>4. Tried'
    BY <1>1, <2>3, TriedStep DEF Tracks
  <2>5. job \in {"terminal", "terminal2"} \/ (Justified(pd))'
    <3>1. CASE pd.phase \in Hosts
      <4>1. job # "anchor"
        BY <3>1 DEF Inv, Control, Hosts
      <4>2. ~Noted(alert \cup pd.captured)
        BY <1>1, <2>2, <3>1, <4>1 DEF Noted, ContractChanged
      <4> QED BY <1>1, <2>1, <3>1, <4>2 DEF Tracks, Verified, Justified, Vouching
    <3>2. CASE pd.phase \in Terminal
      BY <1>1, <3>2 DEF Tracks, Verified
    <3>3. CASE pd.phase \notin Hosts \cup Terminal
      BY <2>1, <3>3 DEF Justified, Vouching
    <3> QED BY <3>1, <3>2, <3>3
  <2>6. job \in Checks /\ objs # "match" => Noted(alert' \cup hand')
    BY <1>1, <1>4, <2>1 DEF Tracks, Verified
  <2>7. Verified'
    BY <1>1, <2>1, <2>2, <2>5, <2>6 DEF Tracks, Verified, Attempt
  <2> QED BY <2>4, <2>7 DEF Tracks
<1> QED BY <1>2, <1>3, <1>4 DEF ReadAlert

\* A snapshot that stops keeps track of what was tried and verified.
LEMMA SnapStopsTracks == ASSUME Inv, Tracks, SnapStops \/ CheckFails PROVE Tracks'
<1>1. UNCHANGED <<chip, session, served>>
  BY DEF SnapStops, CheckFails, Snapped
<1>2. ReadError \/ Leave(fail(pd)) \/ (~same_attachment(pd) /\ Leave(reset))
  BY DEF SnapStops, CheckFails
<1> QED BY <1>1, <1>2, CarriesFacts, JustFacts, ReadErrorTracks, LeaveTracks

\* The attempt begins: this cable has not been tried, for its policy is Idle.
LEMMA AnchorTracks == ASSUME Inv, Tracks, Anchor PROVE Tracks'
<1>1. /\ UNCHANGED <<chip, served>> /\ session' = cable /\ job = "anchor" /\ at = "snap"
      /\ same_attachment(pd) /\ pd.phase = "Idle"
  BY DEF Anchor, Snapped, Inv, Control
<1>2. Justified(pd) /\ Justified(Unsettled(pd))
  BY <1>1, JustFacts
<1>3. CASE Leave(Unsettled(pd))
  BY <1>1, <1>2, <1>3, CarriesFacts, LeaveTracks
<1>4. CASE pd' = pd /\ Go("caps", "none")
  <2>1. at' = "caps" /\ job' = "none"
    BY <1>4 DEF Go
  <2>2. cable \notin served /\ pd.side = port.side
    BY <1>1 DEF Tracks, Tried, same_attachment
  <2>3. Tried'
    BY <1>1, <1>4, <2>1, <2>2 DEF Tracks, Tried, chip, Inv, TypeOK, ChipTypeOK
  <2>4. Verified'
    BY <1>1, <1>2, <1>4, <2>1 DEF Verified, Justified, chip, Attempt, Terminal
  <2> QED BY <2>3, <2>4 DEF Tracks
<1> QED BY <1>3, <1>4 DEF Anchor

\* Discovery keeps track of what was tried and verified.
LEMMA DiscoverTracks == ASSUME Inv, Tracks, Discover PROVE Tracks'
<1>1. UNCHANGED <<chip, session, served>> /\ at = "caps" /\ ~pd.held /\ pd.captured = {}
  BY DEF Discover, Inv, Quiet, InPoll
<1>2. pd.phase = "Idle" /\ Attempting /\ pd \in Policies
  BY <1>1 DEF Tracks, Verified, Attempting, Inv, TypeOK
<1>3. CASE Leave(unsupported(pd))
  BY <1>1, <1>2, <1>3, CarriesFacts, JustFacts, LeaveTracks
<1>4. ASSUME NEW drd \in BOOLEAN, Event("discovered", [pd EXCEPT !.drd = drd])
      PROVE  Tracks'
  <2> DEFINE q == [pd EXCEPT !.drd = drd]
  <2>1. /\ q \in Policies /\ q.phase = "Idle" /\ q.side = pd.side
        /\ q.held = pd.held /\ q.captured = pd.captured
    BY <1>2 DEF Policies
  <2>2. Event("discovered", q)
    BY <1>4
  <2> HIDE DEF q
  <2>3. Carries(q) /\ ~Vouching(q)
    BY <1>2, <2>1, VouchFacts DEF Carries
  <2>4. Begins("discovered", q)
    BY <1>2, <2>1, <2>3 DEF Begins, Jobs, Events, Attempt, Checks, Terminal, Justified
  <2> QED BY <1>1, <2>1, <2>2, <2>3, <2>4, EventTracks DEF chip
<1> QED BY <1>3, <1>4 DEF Discover

\* Requesting the contract counts as the attempt.
LEMMA SetRdoTracks == ASSUME Inv, Tracks, SetRdo PROVE Tracks'
<1>1. UNCHANGED <<chip, session, served>> /\ at = "set_rdo" /\ ~pd.held /\ pd.captured = {}
  BY DEF SetRdo, Inv, Quiet, InPoll
<1>2. pd.phase = "Idle" /\ Attempting /\ Justified(pd)
  BY <1>1, JustFacts DEF Tracks, Verified, Attempting
<1>3. Begins("send", pd)
  BY <1>2 DEF Begins, Jobs, Events, Attempt, Checks, Terminal
<1> QED BY <1>1, <1>3, CarriesFacts, JustFacts, LeaveTracks, EventTracks DEF SetRdo, chip

\* A poll that goes on with the policy as it is, to a transaction without a job.
LEMMA GoTracks ==
  ASSUME Inv, Tracks, UNCHANGED <<chip, session, served, pd>>, job' = "none",
         at' \in {"set_rdo", "write"}, Justified(pd), pd.phase \notin Terminal,
         at' = "set_rdo" => pd.phase = "Idle", pd.phase = "Idle" => Attempting
  PROVE  Tracks'
<1>1. Tried'
  BY CarriesFacts, TriedStep DEF Tracks, Attempting, chip
<1>2. Verified'
  BY DEF Verified, Justified, chip, Attempt, Checks
<1> QED BY <1>1, <1>2 DEF Tracks

\* A snapshot without news keeps track of what was tried and verified.
LEMMA UnchangedTracks == ASSUME Inv, Tracks, Unchanged PROVE Tracks'
<1>1. /\ UNCHANGED <<chip, session, served>> /\ at = "snap"
      /\ job \in {"discovered", "send"}
  BY DEF Unchanged, Snapped
<1>2. pd.phase = "Idle" /\ Attempting /\ Justified(pd)
  BY <1>1, JustFacts DEF Tracks, Verified, Attempting, Attempt
<1>3. CASE Leave(fail(pd))
  BY <1>1, <1>3, CarriesFacts, JustFacts, LeaveTracks
<1>4. CASE pd' = pd /\ Go(IF job = "discovered" THEN "set_rdo" ELSE "write", "none")
  BY <1>1, <1>2, <1>4, GoTracks DEF Go, Terminal
<1> QED BY <1>3, <1>4 DEF Unchanged

\* SEND_RDO is written: whether it failed or not, the policy is not Idle any more.
LEMMA WriteTracks == ASSUME Inv, Tracks, WriteCommand PROVE Tracks'
<1>1. /\ at = "write" /\ UNCHANGED <<cable, port, alert, objs, session>>
      /\ pd \in Policies /\ ~pd.held /\ pd.captured = {}
      /\ served' = IF pd.phase = "Idle" THEN served \cup {session} ELSE served
  BY DEF WriteCommand, Inv, TypeOK, Quiet, InPoll
<1>2. job = "none" /\ pd.phase \notin Terminal /\ Justified(pd)
  BY <1>1 DEF Tracks, Verified
<1>3. ASSUME NEW p, p.phase # "Idle", p.side = pd.side, ~Vouching(p), Leave(p)
      PROVE  Tracks'
  <2>1. pd' = p /\ at' = "recheck" /\ job' = "none"
    BY <1>3 DEF Leave, Go
  <2>2. session <= cable /\ served \subseteq 0 .. cable /\ session \in 0 .. MaxCables
    BY DEF Tracks, Tried, Inv, TypeOK
  <2>3. served' \subseteq 0 .. cable
    BY <1>1, <2>2, BoundAssumption DEF Inv, TypeOK, ChipTypeOK
  <2>4. ASSUME port.attached, cable \in served'
        PROVE  pd.side = port.side
    <3>1. CASE cable \in served
      BY <2>4, <3>1 DEF Tracks, Tried
    <3>2. CASE cable \notin served
      BY <1>1, <2>4, <3>2 DEF Tracks, Tried, Attempting
    <3> QED BY <3>1, <3>2
  <2>5. Tried'
    BY <1>1, <1>3, <2>1, <2>2, <2>3, <2>4 DEF Tried, Attempting
  <2>6. Verified'
    BY <1>3, <2>1 DEF Verified, Justified, Attempt, Checks
  <2> QED BY <2>5, <2>6 DEF Tracks
<1>4. CASE Leave([pd EXCEPT !.phase = NextWait, !.expired = FALSE])
  <2> DEFINE q == [pd EXCEPT !.phase = NextWait, !.expired = FALSE]
  <2>1. NextWait \in Waits
    BY DEF NextWait, Waits
  <2>2. q.phase \in Waits /\ q.side = pd.side
    BY <1>1, <2>1 DEF Policies
  <2>3. Leave(q)
    BY <1>4
  <2> HIDE DEF q
  <2>4. q.phase # "Idle" /\ ~Vouching(q)
    BY <2>2 DEF Waits, Vouching, Hosts, Terminal
  <2> QED BY <1>3, <2>2, <2>3, <2>4
<1>5. CASE Leave(fail(pd))
  <2>1. fail(pd).phase = "Failed" /\ fail(pd).side = pd.side /\ ~Vouching(fail(pd))
    BY <1>1, FailFacts, SideFacts, VouchFacts
  <2> QED BY <1>3, <1>5, <2>1
<1>6. CASE NextCommand = "DR_SWAP" /\ Event("unsent", pd)
  <2>1. served' = served
    BY <1>1, <1>6 DEF NextCommand
  <2>2. Begins("unsent", pd)
    BY <1>2 DEF Begins, Jobs, Events, Attempt, Checks
  <2> QED BY <1>1, <1>6, <2>1, <2>2, CarriesFacts, EventTracks
<1> QED BY <1>4, <1>5, <1>6 DEF WriteCommand

\* Reading the source's objects keeps track of what was tried and verified.
LEMMA ReadPdoTracks == ASSUME Inv, Tracks, ReadPdo PROVE Tracks'
<1>1. at = "pdo" /\ UNCHANGED <<chip, session, served>>
  BY DEF ReadPdo
<1>2. CASE objs # "pdo" /\ at' = "rdo" /\ UNCHANGED <<pd, job, hand, flag>>
  <2>1. Tried'
    BY <1>1, <1>2, CarriesFacts, TriedStep DEF Tracks, Attempting, chip
  <2>2. Verified'
    BY <1>1, <1>2 DEF Tracks, Verified, Justified, chip
  <2> QED BY <2>1, <2>2 DEF Tracks
<1>3. CASE Leave(fail(pd))
  BY <1>1, <1>3, CarriesFacts, JustFacts, LeaveTracks
<1>4. CASE ReadError
  BY <1>1, <1>4, ReadErrorTracks
<1> QED BY <1>2, <1>3, <1>4 DEF ReadPdo

\* Reading the request back is where the contract is vouched for.
LEMMA ReadRdoTracks == ASSUME Inv, Tracks, ReadRdo PROVE Tracks'
<1>1. /\ at = "rdo" /\ UNCHANGED <<chip, session, served>>
      /\ pd \in Policies /\ ~pd.held /\ pd.captured = {} /\ job \in Checks \cup Objs
  BY DEF ReadRdo, Inv, TypeOK, Quiet, InPoll, Control
<1>2. pd.phase \in Terminal => job = "terminal2"
  BY <1>1 DEF Tracks, Verified, Checks, Objs
<1>3. job = "terminal2" \/ Justified(pd)
  BY <1>1 DEF Tracks, Verified, Checks, Objs
<1>4. CASE Leave(fail(pd))
  BY <1>1, <1>4, CarriesFacts, JustFacts, LeaveTracks
<1>5. CASE ReadError
  BY <1>1, <1>5, ReadErrorTracks
<1>6. CASE objs # "rdo" /\ ObjectsUnchanged
  <2>1. CASE job = "seen"
    <3> DEFINE q == [pd EXCEPT !.seen = TRUE]
    <3>1. /\ q \in Policies /\ q.phase = pd.phase /\ q.charge = pd.charge
          /\ q.side = pd.side /\ q.held = pd.held /\ q.captured = pd.captured
      BY <1>1 DEF Policies
    <3>2. Leave(q) \/ Check("contract", q, FALSE)
      BY <1>6, <2>1 DEF ObjectsUnchanged
    <3> HIDE DEF q
    <3>3. Carries(q) /\ Justified(q) /\ q.phase \notin Terminal
      BY <1>2, <1>3, <2>1, <3>1 DEF Carries, Justified, Vouching
    <3>4. "contract" \in Checks \cup Objs
      BY DEF Objs
    <3> QED BY <1>1, <3>2, <3>3, <3>4, LeaveTracks, CheckTracks
  <2>2. CASE job = "contract"
    <3>1. Event("command", pd)
      BY <1>6, <2>2 DEF ObjectsUnchanged
    <3>2. Begins("command", pd)
      BY <1>2, <1>3, <2>2 DEF Begins, Jobs, Events, Attempt, Checks
    <3> QED BY <1>1, <3>1, <3>2, CarriesFacts, EventTracks DEF chip
  <2>3. CASE job \in Checks
    <3>1. Event(job, pd)
      BY <1>6, <2>3 DEF ObjectsUnchanged, Checks
    <3>2. objs # "match" => Noted(alert)
      BY <1>1, <1>6 DEF Tracks, Verified, Inv, TypeOK, ChipTypeOK, Objects
    <3>3. Begins(job, pd)
      BY <1>1, <1>2, <1>3, <2>3, <3>2 DEF Begins, Jobs, Attempt, Checks
    <3> QED BY <1>1, <3>1, <3>3, CarriesFacts, EventTracks DEF chip
  <2> QED BY <1>1, <2>1, <2>2, <2>3 DEF Objs
<1> QED BY <1>4, <1>5, <1>6 DEF ReadRdo

\* What a job finds when its snapshot leads on.
LEMMA SnappedFacts ==
  ASSUME Inv, Tracks, NEW j, Snapped(j)
  PROVE  /\ UNCHANGED <<chip, served>> /\ at = "snap" /\ job = j
         /\ pd \in Policies /\ ~pd.held /\ pd.captured = {}
         /\ pd.phase \in Terminal => j \in {"none", "terminal", "terminal2"}
         /\ j \notin {"terminal", "terminal2"} => Justified(pd)
BY DEF Snapped, Inv, TypeOK, Quiet, InPoll, Tracks, Verified

\* The ends of a wait keep track of what was tried and verified.
LEMMA WaitTracks ==
  ASSUME Inv, Tracks, \/ TerminalPower \/ HostHandoff \/ WaitEnds \/ SwapTimedOut
                      \/ WaitContract \/ WaitDone \/ CommandDrained \/ SwapUnsent
  PROVE  Tracks'
<1>1. session' = session
  BY DEF TerminalPower, HostHandoff, WaitEnds, SwapTimedOut, WaitContract, WaitDone,
         WaitGoesOn, CommandDrained, SwapUnsent, Checked
<1>2. CASE Snapped("terminal") /\ Check("terminal2", pd, FALSE)
  BY <1>1, <1>2, SnappedFacts, CarriesFacts, CheckTracks DEF Checks
<1>3. ASSUME NEW j \in Checks, Checked(j), NEW p, Carries(p), Leave(p)
      PROVE  Tracks'
  <2>1. Justified(p)
    BY <1>3, CheckedFacts, NotedJustifies
  <2>2. Snapped(j)
    BY <1>3 DEF Checked
  <2> QED BY <1>1, <1>3, <2>1, <2>2, SnappedFacts, LeaveTracks
<1>4. ASSUME NEW j \in {"host", "wait", "command", "unsent"}, Snapped(j),
             NEW k \in {"host2", "timeout2", "seen", "contract", "swap2", "ready2",
                        "command2", "unsent2"},
             NEW local, Check(k, pd, local)
      PROVE  Tracks'
  <2>1. Justified(pd) /\ pd.phase \notin Terminal /\ UNCHANGED <<chip, served>>
    BY <1>4, SnappedFacts
  <2>2. k \in Checks \cup Objs
    BY <1>4 DEF Checks, Objs
  <2> QED BY <1>1, <1>4, <2>1, <2>2, CarriesFacts, CheckTracks
<1>5. ASSUME NEW j \in {"wait", "command"}, Snapped(j), Leave(pd) \/ Leave(fail(pd))
      PROVE  Tracks'
  <2>1. Justified(pd) /\ UNCHANGED <<chip, served>>
    BY <1>5, SnappedFacts
  <2> QED BY <1>1, <1>5, <2>1, CarriesFacts, JustFacts, LeaveTracks
<1>6. Carries(pd) /\ Carries(data_role_failed(pd))
  BY CarriesFacts
<1>7. CASE TerminalPower
  BY <1>2, <1>3, <1>6, <1>7 DEF TerminalPower, Checks
<1>8. CASE HostHandoff
  BY <1>4, <1>8 DEF HostHandoff
<1>9. CASE WaitEnds
  BY <1>4, <1>5, <1>9 DEF WaitEnds
<1>10. CASE SwapTimedOut
  BY <1>3, <1>6, <1>10 DEF SwapTimedOut, Checks
<1>11. CASE WaitContract
  <2>1. Snapped("wait")
    BY <1>11 DEF WaitContract, WaitGoesOn
  <2>2. \/ Check("seen", pd, command_busy) \/ Check("contract", pd, FALSE)
        \/ Leave(pd)
    BY <1>11 DEF WaitContract
  <2> QED BY <1>4, <1>5, <2>1, <2>2
<1>12. CASE WaitDone
  <2>1. Snapped("wait") /\ pd.phase \in {"WaitReady", "WaitSwap"}
    BY <1>12 DEF WaitDone, WaitGoesOn
  <2>2. \/ Leave(pd) \/ Leave(fail(pd))
        \/ Check("swap2", pd, FALSE) \/ Check("ready2", pd, FALSE)
    BY <1>12, <2>1 DEF WaitDone
  <2> QED BY <1>4, <1>5, <2>1, <2>2
<1>13. CASE CommandDrained
  BY <1>4, <1>5, <1>13 DEF CommandDrained
<1>14. CASE SwapUnsent
  BY <1>3, <1>4, <1>6, <1>14 DEF SwapUnsent, Checks
<1> QED BY <1>7, <1>8, <1>9, <1>10, <1>11, <1>12, <1>13, <1>14

\* Where a check leads on, the contract is vouched for from here on.
LEMMA CheckedTracks ==
  ASSUME Inv, Tracks, HostChecked \/ ReadyChecked \/ SwapChecked \/ CommandChecked
  PROVE  Tracks'
<1>1. PICK j \in {"host2", "ready2", "swap2", "command2"} : Checked(j)
  BY DEF HostChecked, ReadyChecked, SwapChecked, CommandChecked
<1>2. j \in Checks /\ Snapped(j) /\ session' = session
  BY <1>1 DEF Checked, Checks
<1>3. objs # "match" => Noted(alert)
  BY <1>1, <1>2, CheckedFacts
<1>4. /\ UNCHANGED <<chip, served, session>> /\ pd \in Policies /\ at = "snap" /\ job = j
      /\ ~pd.held /\ pd.captured = {} /\ pd.phase \notin Terminal
  BY <1>2, SnappedFacts
<1>5. ASSUME NEW p, Carries(p), Leave(p)
      PROVE  Tracks'
  BY <1>3, <1>4, <1>5, NotedJustifies, LeaveTracks
<1> DEFINE lost == [data_role_failed(pd) EXCEPT !.saved = FALSE]
           back == [pd EXCEPT !.phase = "Complete", !.charge = pd.saved, !.saved = FALSE]
           done == [pd EXCEPT !.phase = "Complete"]
           q    == [pd EXCEPT !.charge = TRUE]
           full == [q EXCEPT !.phase = "Complete"]
<1>6. Carries(lost)
  <2>1. /\ data_role_failed(pd) \in Policies /\ data_role_failed(pd).side = pd.side
        /\ data_role_failed(pd).phase = "Failed"
    BY <1>4, UpdateFacts, SideFacts
  <2>2. lost \in Policies /\ lost.side = pd.side /\ lost.phase = "Failed"
    BY <2>1 DEF Policies
  <2> HIDE DEF lost
  <2> QED BY <2>2 DEF Carries
<1>7. Carries(back) /\ Carries(done) /\ Carries(full)
  <2>1. "Complete" \in Phases
    BY DEF Phases, Hosts
  <2>2. back \in Policies /\ back.side = pd.side /\ back.phase = "Complete"
    BY <1>4, <2>1 DEF Policies
  <2>3. done \in Policies /\ done.side = pd.side /\ done.phase = "Complete"
    BY <1>4, <2>1 DEF Policies
  <2>4. full \in Policies /\ full.side = pd.side /\ full.phase = "Complete"
    BY <1>4, <2>1 DEF Policies
  <2> HIDE DEF back, done, full
  <2> QED BY <2>2, <2>3, <2>4 DEF Carries
<1>8. q \in Policies /\ q.phase = pd.phase /\ q.side = pd.side /\ q.held = pd.held
      /\ q.captured = pd.captured
  BY <1>4 DEF Policies
<1>9. CASE HostChecked
  <2>1. Leave(lost) \/ Leave(fail(pd)) \/ Leave(pd) \/ Leave(back)
    BY <1>9 DEF HostChecked
  <2> HIDE DEF lost, back
  <2> QED BY <1>5, <1>6, <1>7, <2>1, CarriesFacts
<1>10. CASE SwapChecked
  <2>1. Leave(data_role_failed(pd)) \/ Leave(done)
    BY <1>10 DEF SwapChecked
  <2> HIDE DEF done
  <2> QED BY <1>5, <1>7, <2>1, CarriesFacts
<1>11. CASE ReadyChecked
  <2>1. \/ Leave(fail(pd)) \/ Leave(full)
        \/ Event("command", q) \/ Leave(unsupported(q))
    BY <1>11 DEF ReadyChecked
  <2>2. pd.phase \in Waits
    BY <1>11 DEF ReadyChecked, Checked, Snapped, Inv, Control, WaitJobs
  <2> HIDE DEF q, full
  <2>3. Carries(q)
    BY <1>8 DEF Carries
  <2>4. Carries(unsupported(q))
    BY <1>8, UpdateFacts, SideFacts DEF Carries
  <2>5. Begins("command", q)
    BY <1>3, <1>4, <1>8, NotedJustifies DEF Begins, Jobs, Events, Attempt, Checks
  <2> QED BY <1>4, <1>5, <1>7, <1>8, <2>1, <2>3, <2>4, <2>5, CarriesFacts, EventTracks DEF chip
<1>12. CASE CommandChecked
  <2>1. pd.phase \in Waits
    BY <1>12 DEF CommandChecked, Checked, Snapped, Inv, Control, WaitJobs
  <2>2. \/ Leave(fail(pd)) \/ Leave(done)
        \/ pd' = pd /\ Go("write", "none")
    BY <1>12 DEF CommandChecked
  <2>3. CASE pd' = pd /\ Go("write", "none")
    <3>1. Justified(pd)
      BY <1>3, NotedJustifies
    <3> QED BY <1>4, <2>1, <2>3, <3>1, GoTracks DEF Go, Waits
  <2> HIDE DEF done
  <2> QED BY <1>5, <1>7, <2>2, <2>3, CarriesFacts
<1> QED BY <1>9, <1>10, <1>11, <1>12

\* Time keeps track of what was tried and verified.
LEMMA TickTracks == ASSUME Inv, Tracks, Tick PROVE Tracks'
<1>1. UNCHANGED <<chip, at, job, hand, session, served>>
  BY DEF Tick
<1>2. /\ pd' \in Policies /\ pd'.phase = pd.phase /\ pd'.charge = pd.charge
      /\ pd'.side = pd.side /\ pd'.captured = pd.captured
  BY DEF Tick, Inv, TypeOK, Policies
<1>3. Tried'
  BY <1>1, <1>2 DEF Tracks, Tried, Attempting, chip
<1>4. Verified'
  BY <1>1, <1>2 DEF Tracks, Verified, Justified, Vouching, chip
<1> QED BY <1>3, <1>4 DEF Tracks

\* The objects never change without a bit of their own, and a cable that is
\* plugged in has never been tried.
LEMMA EnvironmentTracks == ASSUME Inv, Tracks, Environment PROVE Tracks'
<1>1. UNCHANGED policy /\ alert \in SUBSET Bits
  BY DEF Environment, Inv, TypeOK, ChipTypeOK
<1>2. alert \subseteq alert' /\ (objs' # objs => Noted(alert'))
  BY <1>1 DEF Environment, ChipNext, Attach, Detach, Negotiate, CommandDone, Renegotiate,
              RoleOrPower, Fault, Raise, Noted
<1>3. \/ cable' = cable + 1
      \/ cable' = cable /\ (port'.attached => port.attached /\ port'.side = port.side)
  <2>1. port \in Ports
    BY DEF Inv, TypeOK, ChipTypeOK
  <2>2. CASE Attach
    BY <2>2 DEF Attach
  <2>3. CASE Detach
    BY <2>1, <2>3 DEF Detach, Ports
  <2>4. CASE Negotiate \/ Renegotiate
    BY <2>4 DEF Negotiate, Renegotiate
  <2>5. CASE CommandDone
    BY <2>1, <2>5 DEF CommandDone, Ports
  <2>6. CASE RoleOrPower \/ Fault
    BY <2>1, <2>6 DEF RoleOrPower, Fault, Ports
  <2> QED BY <2>2, <2>3, <2>4, <2>5, <2>6 DEF Environment, ChipNext
<1>4. Tried'
  <2>1. cable \in Nat /\ session \in Nat /\ served \subseteq 0 .. cable /\ session <= cable
    BY BoundAssumption DEF Inv, TypeOK, ChipTypeOK, Tracks, Tried
  <2>2. CASE cable' = cable + 1
    <3>1. session <= cable' /\ session # cable' /\ cable' \notin served
          /\ served \subseteq 0 .. cable'
      BY <2>1, <2>2
    <3> QED BY <1>1, <3>1 DEF policy, Tracks, Tried, Attempting
  <2>3. CASE cable' = cable /\ (port'.attached => port.attached /\ port'.side = port.side)
    BY <1>1, <2>3 DEF policy, Tracks, Tried, Attempting
  <2> QED BY <1>3, <2>2, <2>3
<1>5. \A S : Noted(alert \cup S) => Noted(alert' \cup S)
  BY <1>2 DEF Noted
<1>6. Noted(alert) => Noted(alert')
  BY <1>2 DEF Noted
<1>7. objs' # objs => \A S : Noted(alert' \cup S)
  BY <1>2 DEF Noted
<1>8. job \in {"terminal", "terminal2"} \/ (Justified(pd))'
  BY <1>1, <1>5, <1>7 DEF policy, Tracks, Verified, Justified
<1>9. Verified'
  BY <1>1, <1>2, <1>5, <1>6, <1>7, <1>8 DEF policy, Tracks, Verified
<1> QED BY <1>4, <1>9 DEF Tracks

\* Nothing is tried or verified at the start.
LEMMA InitTracks == Init => Tracks
<1> SUFFICES ASSUME Init PROVE Tracks
  OBVIOUS
<1>1. pd.phase = "Idle" /\ ~pd.charge
  BY DEF Init, Default
<1>2. ~Vouching(pd)
  BY <1>1 DEF Vouching, Hosts
<1>3. Tried
  BY <1>1 DEF Init, ChipInit, Tried, Attempting
<1>4. Verified
  BY <1>1, <1>2 DEF Init, Verified, Justified, Attempt, Checks, Terminal
<1> QED BY <1>3, <1>4 DEF Tracks

\* Every step keeps track of what was tried and verified.
LEMMA NextTracks == Inv /\ Tracks /\ [Next]_vars => Tracks'
<1> SUFFICES ASSUME Inv, Tracks, [Next]_vars PROVE Tracks'
  OBVIOUS
<1>1. CASE Step
  BY <1>1, OutsideTracks, PollTracks, ConfirmTracks, ReadAlertTracks, SnapStopsTracks,
     AnchorTracks, DiscoverTracks, UnchangedTracks, SetRdoTracks, WriteTracks,
     ReadPdoTracks, ReadRdoTracks, WaitTracks, CheckedTracks
     DEF Step
<1>2. CASE UNCHANGED vars
  BY <1>2 DEF vars, chip, policy, Tracks, Tried, Attempting, Verified, Justified
<1> QED BY <1>1, <1>2, DrainTracks, OutsideTracks, TickTracks, EnvironmentTracks DEF Next

\* At rest the policy vouches for a contract only while the objects are the
\* requested ones, or the notification of their change is still to be handled:
\* poll() reads them twice around ALERT and no lost transaction breaks that.
THEOREM Contracts == Spec => []VerifiedContract
<1>1. Inv /\ Tracks => VerifiedContract
  BY DEF Inv, Control, Tracks, Verified, Justified, Vouching, Noted, VerifiedContract, Vouches
<1> QED BY <1>1, InitTracks, NextTracks, Invariance, PTL DEF Spec

\* SEND_RDO is written at most once for a cable: Failed and Unsupported are
\* left only for another attachment, which fail() and every retry respect.
THEOREM Attempts == Spec => OneAttemptPerCable
<1>1. Tracks /\ [Next]_vars
        => [at = "write" /\ pd.phase = "Idle" /\ at' # "write" => session \notin served]_vars
  BY DEF Tracks, Tried, Attempting
<1> QED BY <1>1, InitTracks, NextTracks, Invariance, PTL DEF Spec, OneAttemptPerCable
=============================================================================
