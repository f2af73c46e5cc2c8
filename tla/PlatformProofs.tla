--------------------------- MODULE PlatformProofs ---------------------------
(***************************************************************************)
(* The board-level services, for every bank, every set of subscribed pins, *)
(* every table of the charger, every sequence of transactions and any      *)
(* number of events: no interrupt worker sleeps through a low line, the    *)
(* charger's limit rises by steps within the contract, cooling comes up    *)
(* safely whatever the order of the probes, an I2C transaction reports     *)
(* what it delivered, and a link that waits for data has receive armed.    *)
(***************************************************************************)
EXTENDS MCPlatform, SequenceTheorems, TLAPS

-----------------------------------------------------------------------------
(* The GPIO interrupts. *)

\* The worker that holds the register lock is the one inside rearm(), and
\* between enabling the pin and looking at it again the pin is enabled.
LockInRearm ==
  \A p \in Subscribed :
    /\ pc[p] \in {"check", "enable", "recheck"} => held = p
    /\ pc[p] = "recheck" => p \in enb

IInv == TypeOK /\ LockInRearm /\ ArmedInSleep

\* What an acknowledgement of the pins in S may do to the status register.
LEMMA AckFacts ==
  ASSUME NEW S, sta \subseteq Pins, Ack(S)
  PROVE  sta' \subseteq Pins /\ (\A p : p \in sta /\ p \notin S => p \in sta')
BY DEF Ack

\* The workers start awake, so nothing is slept through.
LEMMA InitInv == Init => IInv
BY GpioAssumption DEF Init, IInv, TypeOK, LockInRearm, ArmedInSleep, StuckLimit

\* The lines and the handler: a worker's own steps are not involved.
LEMMA LineStep ==
  ASSUME IInv, Pull \/ Foreign
  PROVE  IInv'
BY GpioAssumption DEF IInv, TypeOK, LockInRearm, ArmedInSleep, Pull, Foreign

\* The handler disables only what it acknowledges and latches: a sleeping worker
\* that is not woken keeps its pin enabled.
LEMMA HandlerStep ==
  ASSUME IInv, Handler
  PROVE  IInv'
<1>1. /\ sta' \subseteq Pins
      /\ \A p : p \in sta /\ p \notin Claimed \cup Stale => p \in sta'
  BY AckFacts DEF Handler, IInv, TypeOK
<1>2. enb' \subseteq Pins /\ pending' \subseteq Subscribed /\ held = "none"
  BY DEF Handler, Masked, Claimed, IInv, TypeOK
<1>3. TypeOK'
  BY <1>1, <1>2 DEF Handler, IInv, TypeOK
<1>4. LockInRearm'
  BY GpioAssumption DEF Handler, IInv, LockInRearm
<1>5. ArmedInSleep'
  <2> SUFFICES ASSUME NEW p \in Subscribed, pc'[p] = "sleep", p \notin pending'
               PROVE  p \in enb' /\ (p \in low' => p \in sta')
    BY DEF ArmedInSleep
  <2>1. p \notin Claimed \cup Stale /\ pc[p] = "sleep" /\ p \notin pending
    BY DEF Handler, Claimed, Stale
  <2>2. p \in enb /\ (p \in low => p \in sta)
    BY <2>1 DEF IInv, ArmedInSleep
  <2> QED BY <1>1, <2>1, <2>2 DEF Handler, Masked
<1> QED BY <1>3, <1>4, <1>5 DEF IInv

\* A step of the worker of q that leaves other pins as they are preserves the
\* invariant, if q itself is in order afterwards.
LEMMA OwnStep ==
  ASSUME IInv, NEW q \in Subscribed, TypeOK',
         \A p \in Subscribed \ {q} : pc'[p] = pc[p],
         \A p \in Subscribed \ {q} : p \in pending => p \in pending',
         \A p \in Subscribed \ {q} : p \in enb => p \in enb',
         \A p \in Subscribed \ {q} : p \in low' => p \in low,
         \A p \in Subscribed \ {q} : p \in sta => p \in sta',
         held' # held => held \in {q, "none"},
         pc'[q] \in {"check", "enable", "recheck"} => held' = q,
         pc'[q] = "recheck" => q \in enb',
         pc'[q] = "sleep" /\ q \notin pending' =>
           q \in enb' /\ (q \in low' => q \in sta')
  PROVE  IInv'
<1>1. LockInRearm'
  BY GpioAssumption DEF IInv, LockInRearm, TypeOK
<1>2. ArmedInSleep'
  BY DEF IInv, ArmedInSleep
<1> QED BY <1>1, <1>2 DEF IInv

\* A worker changes the enable and status bits of its own pin only, and the
\* recheck under the lock closes the gap before it sleeps.
LEMMA WorkerStep ==
  ASSUME IInv, NEW q \in Subscribed, Worker(q) \/ Timer(q)
  PROVE  IInv'
<1> USE DEF To
<1>1. CASE Wake(q) \/ Timer(q) \/ Backoff(q)
  <2>1. TypeOK' BY <1>1, GpioAssumption DEF Wake, Timer, Backoff, IInv, TypeOK
  <2> QED BY <1>1, <2>1, OwnStep DEF Wake, Timer, Backoff, IInv, TypeOK
<1>2. CASE Mask(q) \/ Stuck(q)
  <2>1. TypeOK' BY <1>2 DEF Mask, Stuck, IInv, TypeOK
  <2> QED BY <1>2, <2>1, OwnStep DEF Mask, Stuck, IInv, TypeOK
<1>3. CASE Service(q)
  <2>1. TypeOK' BY <1>3, GpioAssumption DEF Service, IInv, TypeOK
  <2> QED BY <1>3, <2>1, OwnStep DEF Service, IInv, TypeOK
<1>4. CASE Rearm(q)
  <2>1. CASE q \in pending
    <3>1. TypeOK' BY <1>4, <2>1 DEF Rearm, Returns, StuckLimit, IInv, TypeOK
    <3> QED BY <1>4, <2>1, <3>1, OwnStep DEF Rearm, Returns, StuckLimit, IInv, TypeOK
  <2>2. CASE q \notin pending
    <3>0. Ack({q}) BY <1>4, <2>2 DEF Rearm
    <3>1. sta' \subseteq Pins /\ \A p : p \in sta /\ p # q => p \in sta'
      BY <3>0, AckFacts DEF IInv, TypeOK
    <3>2. TypeOK' BY <1>4, <2>2, <3>1 DEF Rearm, IInv, TypeOK
    <3> QED BY <1>4, <2>2, <3>1, <3>2, OwnStep DEF Rearm, IInv, TypeOK
  <2> QED BY <2>1, <2>2
<1>5. CASE Check(q)
  <2>0. held = q BY <1>5 DEF Check, IInv, LockInRearm
  <2>1. TypeOK' BY <1>5 DEF Check, Returns, StuckLimit, IInv, TypeOK
  <2> QED BY <1>5, <2>0, <2>1, OwnStep DEF Check, Returns, StuckLimit, IInv, TypeOK
<1>6. CASE Enable(q)
  <2>0. held = q BY <1>6 DEF Enable, IInv, LockInRearm
  <2>1. TypeOK' BY <1>6, GpioAssumption DEF Enable, IInv, TypeOK
  <2> QED BY <1>6, <2>0, <2>1, OwnStep DEF Enable, IInv, TypeOK
<1>7. CASE Recheck(q)
  <2>0. held = q /\ q \in enb BY <1>7 DEF Recheck, IInv, LockInRearm
  <2>1. CASE Asserted(q)
    <3>1. sta' \subseteq Pins /\ \A p : p \in sta /\ p # q => p \in sta'
      BY <1>7, <2>1, AckFacts DEF Recheck, IInv, TypeOK
    <3>2. TypeOK' BY <1>7, <2>1, <3>1 DEF Recheck, Returns, StuckLimit, IInv, TypeOK
    <3> QED BY <1>7, <2>0, <2>1, <3>1, <3>2, OwnStep
            DEF Recheck, Returns, StuckLimit, IInv, TypeOK
  <2>2. CASE ~Asserted(q)
    <3>1. TypeOK' BY <1>7, <2>2 DEF Recheck, Returns, StuckLimit, IInv, TypeOK
    <3> QED BY <1>7, <2>0, <2>2, <3>1, OwnStep
            DEF Recheck, Returns, StuckLimit, Asserted, IInv, TypeOK
  <2> QED BY <2>1, <2>2
<1> QED BY <1>1, <1>2, <1>3, <1>4, <1>5, <1>6, <1>7 DEF Worker

\* Every step keeps the invariant.
LEMMA StepInv == IInv /\ [Next]_vars => IInv'
<1> SUFFICES ASSUME IInv, [Next]_vars PROVE IInv'
  OBVIOUS
<1>1. CASE Pull \/ Foreign BY <1>1, LineStep
<1>2. CASE Handler BY <1>2, HandlerStep
<1>3. CASE \E p \in Subscribed : Worker(p) \/ Timer(p) BY <1>3, WorkerStep
<1>4. CASE UNCHANGED vars
  BY <1>4 DEF vars, IInv, TypeOK, LockInRearm, ArmedInSleep
<1> QED BY <1>1, <1>2, <1>3, <1>4 DEF Next

\* The invariant of the rearm protocol holds in every reachable state.
THEOREM RearmInvariance == Spec => []IInv
BY InitInv, StepInv, PTL DEF Spec

\* No worker sleeps through a low line: rearm() either leaves the pin enabled,
\* and a low line is in the status register, or it leaves the event latched.
THEOREM NeverSleepsThrough == Spec => []ArmedInSleep
<1>1. IInv => ArmedInSleep BY DEF IInv
<1> QED BY <1>1, RearmInvariance, PTL

-----------------------------------------------------------------------------
(* The cooling bring-up. *)

\* Where a probe is.
Positions == {"probe", "look", "claim", "register", "ready", "undo", "failsafe", "done", "failed"}

\* What the fan's output may be.
Outputs == [duty : {"inherited", "off", "policy", "full"}, mapped : BOOLEAN]

\* The shape of the state.
Built ==
  /\ t_pc \in [Fan!Probes -> Positions] /\ published \subseteq Fan!Probes
  /\ claimed \in [Fan!Zones -> BOOLEAN] /\ refused \in [Fan!Zones -> BOOLEAN]
  /\ zones \in [Fan!Zones -> 0..1]
  /\ ready \in BOOLEAN /\ power \in BOOLEAN
  /\ pwm \in Outputs
  /\ chip \subseteq Fan!Set

\* A probe looks at a zone after it has published its part, and goes on when
\* both parts are there.
Published ==
  \A p \in Fan!Probes :
    /\ p \in published => t_pc[p] # "probe"
    /\ t_pc[p] \in {"claim", "register", "ready", "undo", "failsafe"} =>
         Fan!Parts(Fan!ZoneOf(p)) \subseteq published

\* The flag of a zone is set by the one probe that registers it, and stays set
\* once the kernel has accepted the zone.
OneClaim ==
  /\ \A p \in Fan!Probes : t_pc[p] \in {"register", "undo"} =>
       /\ claimed[Fan!ZoneOf(p)] /\ zones[Fan!ZoneOf(p)] = 0
       /\ \A q \in Fan!Probes : q # p /\ Fan!ZoneOf(q) = Fan!ZoneOf(p) =>
            t_pc[q] \notin {"register", "undo"}
  /\ \A z \in Fan!Zones : zones[z] = 1 => claimed[z]
  /\ \A z \in Fan!Zones : claimed[z] /\ zones[z] = 0 =>
       \E p \in Fan!Parts(z) : t_pc[p] \in {"register", "undo"}
  /\ \A p \in Fan!Probes : t_pc[p] = "undo" => refused[Fan!ZoneOf(p)]

\* With both parts there and no zone, somebody is still on the way to register
\* it, unless the kernel has refused it; then the fan goes to full duty.
OnTheWay ==
  /\ \A z \in Fan!Zones :
       Fan!Parts(z) \subseteq published /\ ~refused[z] /\ zones[z] = 0 =>
         \E p \in Fan!Parts(z) : t_pc[p] \in {"look", "claim", "register"}
  /\ Fan!Parts("skin") \subseteq published /\ zones["skin"] = 0 =>
       \/ pwm.duty = "full"
       \/ \E p \in Fan!Parts("skin") :
            t_pc[p] \in {"look", "claim", "register", "undo", "failsafe"}

\* The GPU follows the zone, and the zone the verified sensor.
Cooled ==
  /\ \A p \in Fan!Probes : t_pc[p] = "ready" => Fan!ZoneOf(p) = "skin" /\ zones["skin"] = 1
  /\ \A p \in Fan!Probes : t_pc[p] = "failsafe" => Fan!ZoneOf(p) = "skin"
  /\ \A z \in Fan!Zones : zones[z] = 1 => Fan!Parts(z) \subseteq published
  /\ ready => zones["skin"] = 1
  /\ "sensor" \in published => chip = Fan!Set
  /\ power => ready

\* The invariant of the bring-up.
TInv == Built /\ Published /\ OneClaim /\ OnTheWay /\ Cooled

\* The zones and their parts.
LEMMA Layout ==
  /\ Fan!Probes = {"fan", "sensor", "soctherm", "gpu"} /\ Fan!Zones = {"skin", "gpu"}
  /\ Fan!Parts("skin") = {"fan", "sensor"} /\ Fan!Parts("gpu") = {"soctherm", "gpu"}
  /\ Fan!ZoneOf("fan") = "skin" /\ Fan!ZoneOf("sensor") = "skin"
  /\ Fan!ZoneOf("soctherm") = "gpu" /\ Fan!ZoneOf("gpu") = "gpu"
BY DEF Fan!Probes, Fan!Zones, Fan!Parts, Fan!ZoneOf

\* The duty is one of the four.
LEMMA OutputFields ==
  /\ [duty |-> "inherited", mapped |-> FALSE] \in Outputs
  /\ [duty |-> "off", mapped |-> TRUE] \in Outputs
  /\ \A w \in Outputs : \A d \in {"off", "policy", "full"} :
       [w EXCEPT !.duty = d] \in Outputs /\ [w EXCEPT !.duty = d].duty = d
BY DEF Outputs

\* Nothing is published and nobody has claimed a zone.
LEMMA ThermalInit ==
  ASSUME Fan!Init PROVE TInv
<1>. USE Layout
<1>1. Built
  <2>1. pwm \in Outputs /\ chip \subseteq Fan!Set
    BY OutputFields DEF Fan!Init, Fan!Set
  <2>2. t_pc \in [Fan!Probes -> Positions] /\ zones \in [Fan!Zones -> 0..1]
    BY DEF Fan!Init, Positions
  <2>3. claimed \in [Fan!Zones -> BOOLEAN] /\ refused \in [Fan!Zones -> BOOLEAN]
    BY DEF Fan!Init
  <2>. QED
    BY <2>1, <2>2, <2>3 DEF Fan!Init, Built
<1>2. Published /\ OneClaim
  BY DEF Fan!Init, Published, OneClaim
<1>3. OnTheWay /\ Cooled
  BY DEF Fan!Init, OnTheWay, Cooled
<1>. QED
  BY <1>1, <1>2, <1>3 DEF TInv

\* A provider that publishes its part goes on to look, so a complete zone has
\* somebody on the way.
LEMMA ThermalProbes ==
  ASSUME TInv, Fan!ProbeFan \/ Fan!ProbeSensor \/ Fan!ProbeSoctherm \/ Fan!ProbeGpu
  PROVE  TInv'
<1>. USE Layout
<1>1. Built'
  <2>1. CASE Fan!ProbeFan
    <3>1. pwm' \in Outputs
      BY <2>1, OutputFields DEF TInv, Built, Fan!ProbeFan
    <3>2. t_pc' \in [Fan!Probes -> Positions] /\ published' \subseteq Fan!Probes
      BY <2>1 DEF TInv, Built, Positions, Fan!ProbeFan, Fan!Goto
    <3>. QED
      BY <2>1, <3>1, <3>2 DEF TInv, Built, Fan!ProbeFan
  <2>2. CASE Fan!ProbeSensor
    <3>1. chip' \subseteq Fan!Set
      BY <2>2 DEF TInv, Built, Fan!ProbeSensor
    <3>2. t_pc' \in [Fan!Probes -> Positions] /\ published' \subseteq Fan!Probes
      <4>1. \/ /\ t_pc' = [t_pc EXCEPT !["sensor"] = "look"]
               /\ published' = published \cup {"sensor"}
            \/ t_pc' = [t_pc EXCEPT !["sensor"] = "failed"] /\ published' = published
        BY <2>2 DEF Fan!ProbeSensor, Fan!Goto
      <4>. QED
        BY <4>1 DEF TInv, Built, Positions
    <3>. QED
      BY <2>2, <3>1, <3>2 DEF TInv, Built, Fan!ProbeSensor
  <2>3. CASE Fan!ProbeSoctherm \/ Fan!ProbeGpu
    BY <2>3 DEF TInv, Built, Positions, Fan!ProbeSoctherm, Fan!ProbeGpu, Fan!Goto
  <2>. QED
    BY <2>1, <2>2, <2>3
<1>2. Published'
  BY DEF TInv, Built, Positions, Published, Fan!ProbeFan, Fan!ProbeSensor, Fan!ProbeSoctherm,
     Fan!ProbeGpu, Fan!Goto
<1>3. OneClaim'
  BY DEF TInv, Built, Positions, OneClaim, Fan!ProbeFan, Fan!ProbeSensor, Fan!ProbeSoctherm,
     Fan!ProbeGpu, Fan!Goto
<1>4. OnTheWay'
  BY DEF TInv, Built, Positions, Published, OnTheWay, Fan!ProbeFan, Fan!ProbeSensor,
     Fan!ProbeSoctherm, Fan!ProbeGpu, Fan!Goto
<1>5. Cooled'
  BY DEF TInv, Built, Positions, Published, Cooled, Fan!ProbeFan, Fan!ProbeSensor,
     Fan!ProbeSoctherm, Fan!ProbeGpu, Fan!Goto, Fan!Configured, Fan!CoolingFanReady
<1>. QED
  BY <1>1, <1>2, <1>3, <1>4, <1>5 DEF TInv

\* A probe that finds a part missing leaves the zone to the one that publishes it,
\* and the flag hands the zone to one probe.
LEMMA ThermalLook ==
  ASSUME TInv, NEW p \in Fan!Probes, Fan!Look(p) \/ Fan!Claim(p) \/ Fan!Ready(p)
  PROVE  TInv'
<1>. USE Layout
<1>1. Built'
  BY DEF TInv, Built, Positions, Fan!Look, Fan!Claim, Fan!Ready, Fan!Goto
<1>2. Published'
  BY DEF TInv, Built, Positions, Published, Fan!Look, Fan!Claim, Fan!Ready, Fan!Goto
<1>3. OneClaim'
  <2>1. CASE Fan!Look(p) \/ Fan!Ready(p)
    BY <2>1 DEF TInv, Built, Positions, OneClaim, Fan!Look, Fan!Ready, Fan!Goto
  <2>2. CASE Fan!Claim(p) /\ claimed[Fan!ZoneOf(p)]
    BY <2>2 DEF TInv, Built, Positions, OneClaim, Fan!Claim, Fan!Goto
  <2>3. CASE Fan!Claim(p) /\ ~claimed[Fan!ZoneOf(p)]
    <3>. DEFINE z == Fan!ZoneOf(p)
    <3>1. /\ t_pc[p] = "claim" /\ t_pc' = [t_pc EXCEPT ![p] = "register"]
          /\ claimed' = [claimed EXCEPT ![z] = TRUE] /\ UNCHANGED <<zones, refused, published>>
          /\ z \in Fan!Zones /\ p \in Fan!Parts(z) /\ ~claimed[z]
      BY <2>3 DEF Fan!Claim, Fan!Goto
    <3>2. zones[z] = 0
      BY <3>1 DEF TInv, Built, Published, OnTheWay, OneClaim, Cooled
    <3>. QED
      BY <3>1, <3>2 DEF TInv, Built, Positions, OneClaim
  <2>. QED
    BY <2>1, <2>2, <2>3
<1>4. OnTheWay'
  BY DEF TInv, Built, Positions, OneClaim, OnTheWay, Fan!Look, Fan!Claim, Fan!Ready, Fan!Goto
<1>5. Cooled'
  BY DEF TInv, Built, Positions, Published, Cooled, Fan!Look, Fan!Claim, Fan!Ready, Fan!Goto
<1>. QED
  BY <1>1, <1>2, <1>3, <1>4, <1>5 DEF TInv

\* The kernel accepts the zone, or the claim goes back and the fan to full duty.
LEMMA ThermalRegister ==
  ASSUME TInv, NEW p \in Fan!Probes, Fan!Register(p) \/ Fan!Undo(p) \/ Fan!FailSafe(p)
  PROVE  TInv'
<1>. USE Layout
<1>1. Built'
  <2>1. CASE Fan!Register(p)
    <3>1. pwm' \in Outputs
      <4>1. pwm' \in {pwm, [pwm EXCEPT !.duty = "policy"]}
        BY <2>1 DEF Fan!Register
      <4>. QED
        BY <4>1, OutputFields DEF TInv, Built
    <3>2. t_pc' \in [Fan!Probes -> Positions] /\ refused' \in [Fan!Zones -> BOOLEAN]
      BY <2>1 DEF TInv, Built, Positions, Fan!Register, Fan!Goto
    <3>3. zones' \in [Fan!Zones -> 0..1]
      BY <2>1 DEF TInv, Built, OneClaim, Fan!Register
    <3>. QED
      BY <2>1, <3>1, <3>2, <3>3 DEF TInv, Built, Fan!Register
  <2>2. CASE Fan!Undo(p)
    BY <2>2 DEF TInv, Built, Positions, Fan!Undo, Fan!Goto
  <2>3. CASE Fan!FailSafe(p)
    <3>1. pwm' \in Outputs
      BY <2>3, OutputFields DEF TInv, Built, Fan!FailSafe
    <3>2. t_pc' \in [Fan!Probes -> Positions]
      BY <2>3 DEF TInv, Built, Positions, Fan!FailSafe, Fan!Goto
    <3>. QED
      BY <2>3, <3>1, <3>2 DEF TInv, Built, Fan!FailSafe
  <2>. QED
    BY <2>1, <2>2, <2>3
<1>2. Published'
  BY DEF TInv, Built, Positions, Published, Fan!Register, Fan!Undo, Fan!FailSafe, Fan!Goto
<1>3. OneClaim'
  BY DEF TInv, Built, Positions, OneClaim, Fan!Register, Fan!Undo, Fan!FailSafe, Fan!Goto
<1>4. OnTheWay'
  <2>1. CASE Fan!Register(p)
    BY <2>1 DEF TInv, Built, Positions, OneClaim, OnTheWay, Fan!Register, Fan!Goto
  <2>2. CASE Fan!Undo(p)
    BY <2>2 DEF TInv, Built, Positions, OneClaim, OnTheWay, Fan!Undo, Fan!Goto
  <2>3. CASE Fan!FailSafe(p)
    <3>1. pwm'.duty = "full"
      BY <2>3, OutputFields DEF TInv, Built, Fan!FailSafe
    <3>. QED
      BY <2>3, <3>1 DEF TInv, Built, Positions, Cooled, OnTheWay, Fan!FailSafe, Fan!Goto
  <2>. QED
    BY <2>1, <2>2, <2>3
<1>5. Cooled'
  BY DEF TInv, Built, Positions, Published, OneClaim, Cooled, Fan!Register, Fan!Undo,
     Fan!FailSafe, Fan!Goto
<1>. QED
  BY <1>1, <1>2, <1>3, <1>4, <1>5 DEF TInv

\* Every step keeps the invariant.
LEMMA ThermalNext ==
  ASSUME TInv, [Fan!Next]_(Fan!vars)
  PROVE  TInv'
<1>1. CASE UNCHANGED Fan!vars
  BY <1>1 DEF Fan!vars, TInv, Built, Published, OneClaim, OnTheWay, Cooled
<1>. QED
  BY <1>1, ThermalProbes, ThermalLook, ThermalRegister DEF Fan!Next

\* The other parts of the run leave the cooling alone.
LEMMA FanPart == PlatformSpec => Fan!Init /\ [][Fan!Next]_(Fan!vars)
<1>1. PlatformInit => Fan!Init
  BY DEF PlatformInit
<1>2. [PlatformNext]_all => [Fan!Next]_(Fan!vars)
  <2>1. CASE FanOnly /\ Fan!Next
    BY <2>1
  <2>2. CASE UNCHANGED fan
    BY <2>2 DEF fan, Fan!vars
  <2>. QED
    BY <2>1, <2>2 DEF PlatformNext, all, GpioOnly, ChargeOnly, FanOnly, BusOnly, RailOnly
<1>. QED
  BY <1>1, <1>2, PTL DEF PlatformSpec

\* Whatever the order of the probes and the refusals of the kernel, each zone is
\* registered once or its fan runs at full duty, and the GPU is powered only under
\* a live zone with a verified sensor (maybe_register_zone).
THEOREM CoolingIsSafe == PlatformSpec => []ThermalSafe
<1>1. TInv => Fan!ThermalSafe
  BY Layout DEF TInv, Built, OneClaim, OnTheWay, Cooled, Fan!ThermalSafe, Fan!OneZone,
     Fan!ZoneNotForgotten,
     Fan!UncontrolledFanIsFull, Fan!GpuNeverUncooled, Fan!Finished, Fan!Ended
<1>. QED
  BY <1>1, ThermalInit, ThermalNext, FanPart, PTL DEF ThermalSafe

-----------------------------------------------------------------------------
(* The I2C controller. *)

\* What the controller needs to know of a message.
Messages == [stop : BOOLEAN, short : BOOLEAN]

\* The callers pass sequences of messages.
BusBounds == Transactions \subseteq Seq(Messages)

\* The shape of the state; a transaction under way was accepted.
Wired ==
  /\ i_at \in {"idle", "begin", "normal", "packet", "stop", "failed", "reset", "clear"}
  /\ txn \in Seq(Messages) /\ i \in Nat \ {0}
  /\ i_at # "idle" => i <= Len(txn) /\ txn[Len(txn)].stop
  /\ result \in Bus!Errors \cup {"ok"} /\ mode \in {"normal", "packet"}
  /\ fifo \in BOOLEAN /\ i_held \in BOOLEAN /\ worn \in BOOLEAN
  /\ i_wire \in Seq(Nat) /\ acked \in Nat

\* The messages before the current one went out and were acknowledged, each once.
Counting ==
  /\ \A k \in 1..Len(i_wire) : i_wire[k] = k
  /\ i_at \in {"begin", "normal", "packet"} => Len(i_wire) = i - 1 /\ acked = i - 1
  /\ i_at = "stop" => Len(i_wire) = i /\ acked = i
  /\ i_at \in {"failed", "reset", "clear"} => acked < Len(txn) /\ result # "ok"
  /\ i_at = "idle" => IF result = "ok" THEN acked = Len(txn) ELSE acked < Len(txn)

\* A bus cycle ends with a STOP, and only then a new one begins.
Cycles ==
  /\ i_at \in {"normal", "stop"} => txn[i].stop
  /\ i_at \in {"begin", "normal"} /\ i > 1 => txn[i - 1].stop
  /\ i_at = "packet" /\ i > 1 /\ ~txn[i - 1].stop => i_held
  /\ i_at = "packet" => mode = "packet" /\ ~fifo

\* The wires are free between cycles, unless the controller could not be recovered.
Released ==
  /\ i_at \in {"idle", "begin", "normal"} => ~i_held \/ worn
  /\ i_at = "failed" /\ result = "nack" => ~i_held \/ worn
  /\ i_at \in {"stop", "clear"} => ~i_held

\* The invariant of a transaction.
BInv == Wired /\ Counting /\ Cycles /\ Released

\* Only a status that shows nothing but completion is success.
LEMMA WaitResult ==
  ASSUME NEW s \in Bus!Status
  PROVE  /\ Bus!Wait(s) \in Bus!Errors \cup {"ok"}
         /\ Bus!Wait(s) = "ok" <=> s = {"done"}
BY DEF Bus!Status, Bus!Wait, Bus!Errors

\* What a message leaves on the wires.
LEMMA WireEffect ==
  ASSUME BInv, NEW s \in Bus!Status, i_at \in {"normal", "packet"}, Bus!OnWire(s, Bus!Wait(s))
  PROVE  /\ i_wire' \in Seq(Nat) /\ \A k \in 1..Len(i_wire') : i_wire'[k] = k
         /\ i_held' \in BOOLEAN /\ acked' \in Nat
         /\ Bus!Wait(s) = "ok" => /\ Len(i_wire') = i /\ acked' = i
                                  /\ i_held' = ~txn[i].stop
         /\ Bus!Wait(s) # "ok" => acked' = i - 1
         /\ Bus!Wait(s) = "nack" => ~i_held'
<1>1. /\ i_wire \in Seq(Nat) /\ i \in Nat \ {0} /\ acked = i - 1 /\ Len(i_wire) = i - 1
      /\ \A k \in 1..Len(i_wire) : i_wire[k] = k
  BY DEF BInv, Wired, Counting
<1>2. txn[i].stop \in BOOLEAN
  <2>1. txn \in Seq(Messages) /\ i \in 1..Len(txn)
    BY DEF BInv, Wired
  <2>2. txn[i] \in Messages
    BY <2>1
  <2>. QED
    BY <2>2 DEF Messages
<1>3. CASE /\ i_wire' = Append(i_wire, i)
           /\ acked' = IF s = {"done"} THEN acked + 1 ELSE acked
           /\ i_held' \in IF Bus!Wait(s) = "ok" THEN {~txn[i].stop}
                         ELSE IF Bus!Wait(s) = "nack" THEN {FALSE} ELSE BOOLEAN
  <2>1. /\ i_wire' \in Seq(Nat) /\ Len(i_wire') = i
        /\ \A k \in 1..Len(i_wire') : i_wire'[k] = k
    BY <1>1, <1>3
  <2>2. CASE Bus!Wait(s) = "ok"
    <3>1. acked' = i /\ i_held' = ~txn[i].stop
      BY <1>1, <1>3, <2>2, WaitResult
    <3>. QED
      BY <1>1, <1>2, <2>1, <2>2, <3>1
  <2>3. CASE Bus!Wait(s) # "ok"
    <3>1. acked' = acked /\ i_held' \in BOOLEAN /\ (Bus!Wait(s) = "nack" => ~i_held')
      BY <1>3, <2>3, WaitResult
    <3>. QED
      BY <1>1, <2>1, <2>3, <3>1
  <2>. QED
    BY <2>2, <2>3
<1>4. CASE /\ Bus!Wait(s) \notin {"ok", "nack"} /\ UNCHANGED <<i_wire, acked, i_held>>
  BY <1>1, <1>4 DEF BInv, Wired
<1>. QED
  BY <1>3, <1>4 DEF Bus!OnWire

\* Where a transaction goes on.
LEMMA NextMessage ==
  ASSUME BInv, i_at \in {"normal", "packet", "stop"}, Bus!Advance
  PROVE  /\ txn' = txn /\ txn \in Seq(Messages) /\ i \in 1..Len(txn) /\ txn[Len(txn)].stop
         /\ \/ i = Len(txn) /\ i_at' = "idle" /\ result' = "ok" /\ i' = i
            \/ /\ i < Len(txn) /\ i' = i + 1 /\ result' = result
               /\ \/ txn[i].stop /\ i_at' = "begin"
                  \/ txn[i].stop /\ i_at' = "normal" /\ txn[i + 1].stop
                  \/ ~txn[i].stop /\ i_at' = "packet"
<1>1. txn \in Seq(Messages) /\ i \in 1..Len(txn) /\ txn[Len(txn)].stop
  BY DEF BInv, Wired
<1>. QED
  BY <1>1 DEF Bus!Advance, Bus!Entry

\* A transaction starts on a bus its predecessor left free, or is refused.
LEMMA BusStart ==
  ASSUME BusBounds, BInv, NEW t \in Transactions, Bus!Start(t)
  PROVE  BInv'
<1>0. t \in Seq(Messages) /\ Len(t) > 0 /\ t[Len(t)].stop
  <2>1. t \in Seq(Messages)
    BY DEF BusBounds
  <2>2. Len(t) \in 1..8
    BY DEF Bus!Start, Bus!Accepted
  <2>3. t[Len(t)].stop
    BY DEF Bus!Start, Bus!Accepted
  <2>4. Len(t) > 0
    BY <2>2
  <2>. QED
    BY <2>1, <2>3, <2>4, Zenon
<1>1. /\ i_at = "idle" /\ txn' = t /\ i' = 1 /\ i_wire' = << >> /\ acked' = 0
      /\ UNCHANGED <<result, mode, fifo, i_held, worn>>
  BY DEF Bus!Start
<1>2. i_at' \in {"begin", "normal"} /\ (i_at' = "normal" => t[1].stop)
  BY <1>1 DEF Bus!Start, Bus!Entry
<1>3. Wired'
  BY <1>0, <1>1, <1>2 DEF BInv, Wired
<1>4. Counting'
  BY <1>0, <1>1, <1>2 DEF Counting
<1>5. Cycles' /\ Released'
  BY <1>1, <1>2 DEF BInv, Cycles, Released
<1>. QED
  BY <1>3, <1>4, <1>5 DEF BInv

\* Packets are queued on a flushed FIFO.
LEMMA BusBegin ==
  ASSUME BInv, Bus!Begin
  PROVE  BInv'
<1>1. PICK s \in Bus!Status :
        IF Bus!Wait(s) = "ok" THEN /\ fifo' = FALSE /\ i_at' = "packet"
                                   /\ UNCHANGED <<txn, i, result>>
        ELSE fifo' = fifo /\ Bus!Fail(Bus!Wait(s))
  BY DEF Bus!Begin
<1>2. /\ i_at = "begin" /\ mode' = "packet" /\ UNCHANGED <<i_held, i_wire, acked, worn>>
  BY DEF Bus!Begin
<1>3. CASE Bus!Wait(s) = "ok"
  <2>1. Wired' /\ Counting'
    BY <1>1, <1>2, <1>3 DEF BInv, Wired, Counting
  <2>2. Cycles' /\ Released'
    BY <1>1, <1>2, <1>3 DEF BInv, Cycles, Released
  <2>. QED
    BY <2>1, <2>2 DEF BInv
<1>4. CASE Bus!Wait(s) # "ok"
  <2>1. /\ i_at' = "failed" /\ result' \in Bus!Errors /\ result' # "ok"
        /\ UNCHANGED <<txn, i, fifo>>
    BY <1>1, <1>4, WaitResult DEF Bus!Fail, Bus!Errors
  <2>2. Wired' /\ Counting'
    BY <1>2, <2>1 DEF BInv, Wired, Counting
  <2>3. Cycles' /\ Released'
    BY <1>2, <2>1 DEF BInv, Cycles, Released
  <2>. QED
    BY <2>2, <2>3 DEF BInv
<1>. QED
  BY <1>3, <1>4

\* A message through the command registers is a bus cycle of its own.
LEMMA BusNormal ==
  ASSUME BInv, Bus!Normal
  PROVE  BInv'
<1>1. PICK s \in Bus!Status :
        /\ Bus!OnWire(s, Bus!Wait(s))
        /\ IF Bus!Wait(s) = "ok" THEN Bus!Advance ELSE Bus!Fail(Bus!Wait(s))
  BY DEF Bus!Normal
<1>2. i_at = "normal" /\ mode' = "normal" /\ UNCHANGED <<fifo, worn>> /\ txn[i].stop
  BY DEF Bus!Normal, BInv, Cycles
<1>3. /\ i_wire' \in Seq(Nat) /\ \A k \in 1..Len(i_wire') : i_wire'[k] = k
      /\ i_held' \in BOOLEAN /\ acked' \in Nat
      /\ Bus!Wait(s) = "ok" => Len(i_wire') = i /\ acked' = i /\ ~i_held'
      /\ Bus!Wait(s) # "ok" => acked' = i - 1
      /\ Bus!Wait(s) = "nack" => ~i_held'
  BY <1>1, <1>2, WireEffect
<1>4. CASE Bus!Wait(s) = "ok"
  <2>1. /\ txn' = txn /\ txn \in Seq(Messages) /\ i \in 1..Len(txn) /\ txn[Len(txn)].stop
        /\ \/ i = Len(txn) /\ i_at' = "idle" /\ result' = "ok" /\ i' = i
           \/ /\ i < Len(txn) /\ i' = i + 1 /\ result' = result
              /\ \/ i_at' = "begin"
                 \/ i_at' = "normal" /\ txn[i + 1].stop
    BY <1>1, <1>2, <1>4, NextMessage
  <2>2. Wired'
    BY <1>2, <1>3, <2>1 DEF BInv, Wired
  <2>3. Counting'
    BY <1>2, <1>3, <1>4, <2>1 DEF Counting
  <2>4. Cycles' /\ Released'
    BY <1>2, <1>3, <1>4, <2>1 DEF Cycles, Released
  <2>. QED
    BY <2>2, <2>3, <2>4 DEF BInv
<1>5. CASE Bus!Wait(s) # "ok"
  <2>1. /\ i_at' = "failed" /\ result' = Bus!Wait(s) /\ result' \in Bus!Errors /\ result' # "ok"
        /\ UNCHANGED <<txn, i>>
    BY <1>1, <1>5, WaitResult DEF Bus!Fail, Bus!Errors
  <2>2. Wired'
    BY <1>2, <1>3, <2>1 DEF BInv, Wired
  <2>3. Counting'
    BY <1>2, <1>3, <1>5, <2>1 DEF BInv, Wired, Counting
  <2>4. Cycles' /\ Released'
    BY <1>3, <2>1 DEF Cycles, Released
  <2>. QED
    BY <2>2, <2>3, <2>4 DEF BInv
<1>. QED
  BY <1>4, <1>5

\* A packet without STOP keeps the bus for the next one.
LEMMA BusPacket ==
  ASSUME BInv, Bus!Packet
  PROVE  BInv'
<1>1. PICK s \in Bus!Status :
        /\ Bus!OnWire(s, Bus!Wait(s))
        /\ IF Bus!Wait(s) = "ok"
           THEN /\ fifo' = fifo
                /\ IF txn[i].stop THEN i_at' = "stop" /\ UNCHANGED <<txn, i, result>>
                   ELSE Bus!Advance
           ELSE fifo' = TRUE /\ Bus!Fail(Bus!Wait(s))
  BY DEF Bus!Packet
<1>2. i_at = "packet" /\ mode' = mode /\ worn' = worn /\ mode = "packet" /\ ~fifo
  BY DEF Bus!Packet, BInv, Cycles
<1>3. /\ i_wire' \in Seq(Nat) /\ \A k \in 1..Len(i_wire') : i_wire'[k] = k
      /\ i_held' \in BOOLEAN /\ acked' \in Nat
      /\ Bus!Wait(s) = "ok" => Len(i_wire') = i /\ acked' = i /\ i_held' = ~txn[i].stop
      /\ Bus!Wait(s) # "ok" => acked' = i - 1
      /\ Bus!Wait(s) = "nack" => ~i_held'
  BY <1>1, <1>2, WireEffect
<1>4. CASE Bus!Wait(s) = "ok" /\ txn[i].stop
  <2>1. Wired' /\ Counting'
    BY <1>1, <1>2, <1>3, <1>4 DEF BInv, Wired, Counting
  <2>2. Cycles' /\ Released'
    BY <1>1, <1>3, <1>4 DEF Cycles, Released
  <2>. QED
    BY <2>1, <2>2 DEF BInv
<1>5. CASE Bus!Wait(s) = "ok" /\ ~txn[i].stop
  <2>1. /\ txn' = txn /\ txn \in Seq(Messages) /\ txn[Len(txn)].stop
        /\ i \in 1..Len(txn) /\ i < Len(txn) /\ i' = i + 1 /\ result' = result
        /\ i_at' = "packet" /\ fifo' = fifo
    BY <1>1, <1>2, <1>5, NextMessage
  <2>2. Wired'
    BY <1>2, <1>3, <2>1 DEF BInv, Wired
  <2>3. Counting'
    BY <1>3, <1>5, <2>1 DEF Counting
  <2>4. Cycles' /\ Released'
    BY <1>2, <1>3, <1>5, <2>1 DEF Cycles, Released
  <2>. QED
    BY <2>2, <2>3, <2>4 DEF BInv
<1>6. CASE Bus!Wait(s) # "ok"
  <2>1. /\ i_at' = "failed" /\ result' = Bus!Wait(s) /\ result' \in Bus!Errors /\ result' # "ok"
        /\ UNCHANGED <<txn, i>> /\ fifo' = TRUE
    BY <1>1, <1>6, WaitResult DEF Bus!Fail, Bus!Errors
  <2>2. Wired'
    BY <1>2, <1>3, <2>1 DEF BInv, Wired
  <2>3. Counting'
    BY <1>2, <1>3, <1>6, <2>1 DEF BInv, Wired, Counting
  <2>4. Cycles' /\ Released'
    BY <1>3, <2>1 DEF Cycles, Released
  <2>. QED
    BY <2>2, <2>3, <2>4 DEF BInv
<1>. QED
  BY <1>4, <1>5, <1>6

\* A STOP ends the cycle and the next message begins one.
LEMMA BusStop ==
  ASSUME BInv, Bus!Stop
  PROVE  BInv'
<1>1. /\ i_at = "stop" /\ mode' = "normal" /\ fifo' = FALSE /\ Bus!Advance
      /\ UNCHANGED <<i_held, i_wire, acked, worn>> /\ txn[i].stop /\ ~i_held
  BY DEF Bus!Stop, BInv, Cycles, Released
<1>2. /\ txn' = txn /\ txn \in Seq(Messages) /\ i \in 1..Len(txn) /\ txn[Len(txn)].stop
      /\ \/ i = Len(txn) /\ i_at' = "idle" /\ result' = "ok" /\ i' = i
         \/ /\ i < Len(txn) /\ i' = i + 1 /\ result' = result
            /\ \/ i_at' = "begin"
               \/ i_at' = "normal" /\ txn[i + 1].stop
  BY <1>1, NextMessage
<1>3. Wired'
  <2>1. i' <= Len(txn) /\ i' \in Nat \ {0}
    BY <1>2
  <2>2. /\ i_at' \in {"begin", "normal", "idle"} /\ result' \in Bus!Errors \cup {"ok"}
        /\ i_wire' \in Seq(Nat) /\ acked' \in Nat /\ i_held' \in BOOLEAN /\ worn' \in BOOLEAN
    BY <1>1, <1>2 DEF BInv, Wired
  <2>. QED
    BY <1>1, <1>2, <2>1, <2>2 DEF Wired
<1>4. Counting'
  BY <1>1, <1>2 DEF BInv, Counting
<1>5. Cycles' /\ Released'
  BY <1>1, <1>2 DEF Cycles, Released
<1>. QED
  BY <1>3, <1>4, <1>5 DEF BInv

\* A failed transaction ends with fewer acknowledgements than messages, and the
\* bus is freed or marked as worn.
LEMMA BusRecovers ==
  ASSUME BInv, Bus!Failed \/ Bus!Reset \/ Bus!Clear
  PROVE  BInv'
<1>1. /\ i_at \in {"failed", "reset", "clear"} /\ i_at' \in {"idle", "reset", "clear"}
      /\ UNCHANGED <<txn, i, result, i_wire, acked>>
  BY DEF Bus!Failed, Bus!AfterFailure, Bus!Reset, Bus!Clear
<1>2. /\ mode' \in {"normal", "packet"} /\ fifo' \in BOOLEAN
      /\ i_held' \in BOOLEAN /\ worn' \in BOOLEAN
  BY DEF BInv, Wired, Bus!Failed, Bus!Reset, Bus!Clear
<1>3. Wired' /\ Counting'
  BY <1>1, <1>2 DEF BInv, Wired, Counting
<1>4. Cycles'
  BY <1>1 DEF Cycles
<1>5. Released'
  <2>1. CASE Bus!Failed
    <3>1. i_at = "failed" /\ i_held' = i_held /\ worn' = worn /\ i_at' = Bus!AfterFailure
      BY <2>1 DEF Bus!Failed
    <3>2. result \in Bus!Errors
      BY <3>1 DEF BInv, Wired, Counting
    <3>3. i_at' = "reset" \/ (i_at' = "idle" /\ result = "nack")
      BY <3>1, <3>2 DEF Bus!AfterFailure, Bus!NeedsReset, Bus!Errors
    <3>. QED
      BY <3>1, <3>3 DEF BInv, Released
  <2>2. CASE Bus!Reset
    BY <2>2 DEF Bus!Reset, Released
  <2>3. CASE Bus!Clear
    BY <2>3 DEF Bus!Clear, BInv, Released
  <2>. QED
    BY <2>1, <2>2, <2>3
<1>. QED
  BY <1>3, <1>4, <1>5 DEF BInv

\* The probe left the controller idle.
LEMMA BusInit ==
  ASSUME Bus!Init
  PROVE  BInv
<1>1. /\ i_at = "idle" /\ txn = << >> /\ i = 1 /\ result = "ok" /\ mode = "normal"
      /\ fifo = FALSE /\ i_held = FALSE /\ i_wire = << >> /\ acked = 0 /\ worn = FALSE
  BY DEF Bus!Init
<1>2. << >> \in Seq(Messages) /\ << >> \in Seq(Nat) /\ Len(<< >>) = 0
  OBVIOUS
<1>3. Wired
  <2>1. txn \in Seq(Messages) /\ i_wire \in Seq(Nat)
    BY <1>1, <1>2
  <2>2. i \in Nat \ {0} /\ acked \in Nat /\ result \in Bus!Errors \cup {"ok"}
    BY <1>1
  <2>. QED
    BY <1>1, <2>1, <2>2 DEF Wired
<1>4. Counting
  BY <1>1, <1>2 DEF Counting
<1>5. Cycles /\ Released
  BY <1>1 DEF Cycles, Released
<1>. QED
  BY <1>3, <1>4, <1>5 DEF BInv

\* Every step keeps the invariant.
LEMMA BusNext ==
  ASSUME BusBounds, BInv, [Bus!Next]_(Bus!vars)
  PROVE  BInv'
<1>1. CASE UNCHANGED Bus!vars
  BY <1>1 DEF Bus!vars, BInv, Wired, Counting, Cycles, Released
<1>2. CASE \E t \in Transactions : Bus!Start(t)
  BY <1>2, BusStart
<1>3. CASE Bus!Begin \/ Bus!Normal \/ Bus!Packet \/ Bus!Stop
  BY <1>3, BusBegin, BusNormal, BusPacket, BusStop
<1>4. CASE Bus!Failed \/ Bus!Reset \/ Bus!Clear
  BY <1>4, BusRecovers
<1>. QED
  BY <1>1, <1>2, <1>3, <1>4 DEF Bus!Next

\* The other parts of the run leave the controller alone.
LEMMA BusPart == PlatformSpec => Bus!Init /\ [][Bus!Next]_(Bus!vars)
<1>1. PlatformInit => Bus!Init
  BY DEF PlatformInit
<1>2. [PlatformNext]_all => [Bus!Next]_(Bus!vars)
  <2>1. CASE BusOnly /\ Bus!Next
    BY <2>1
  <2>2. CASE UNCHANGED bus
    BY <2>2 DEF bus, Bus!vars
  <2>. QED
    BY <2>1, <2>2 DEF PlatformNext, all, GpioOnly, ChargeOnly, FanOnly, BusOnly, RailOnly
<1>. QED
  BY <1>1, <1>2, PTL DEF PlatformSpec

\* Whatever the transactions and wherever they fail: what is reported as done was
\* acknowledged once and in order, no packet is queued behind the rest of a failed
\* one, and a bus cycle begins on a free bus (TegraI2c::transfer).
THEOREM TransfersAreSafe == BusBounds => (PlatformSpec => []BusSafe)
<1>. SUFFICES ASSUME BusBounds
              PROVE  PlatformSpec => []BusSafe
  OBVIOUS
<1>1. BInv => Bus!BusSafe
  BY DEF BInv, Wired, Counting, Cycles, Released, Bus!BusSafe, Bus!DeliveredOnce,
     Bus!CleanPackets, Bus!CycleOnFreeBus
<1>. QED
  BY <1>1, BusInit, BusNext, BusPart, PTL DEF BusSafe

-----------------------------------------------------------------------------
(* The charging policy. *)

\* The policy, its contract and the charger's fields.
Phases == {"Idle", "Waiting", "Ramping", "Complete", "Failed"}
Policies == [phase : Phases, due : BOOLEAN, target : Charge!Level, applied : Charge!Level,
             side : Charge!Sides \cup {"none"}]
Fields == [hiz : BOOLEAN, limit : Charge!Level, jeita : BOOLEAN, mode : {"charge", "otg"}]
Places == {"idle", "schedule", "poll", "begin", "opening", "ramp", "ramping", "cancel", "stop",
           "cancelling", "stopping"}

\* The shape of the state.
Charged ==
  /\ chg \in Policies /\ reg \in Fields /\ c_pc \in Places
  /\ contract.ceiling \in 0 .. Top + 1
  /\ known \in Charge!Level /\ port \in Charge!Ports

\* Where the owner is in its work says how far the policy is.
Placed ==
  /\ c_pc \in {"begin", "opening"} => chg.phase = "Waiting"
  /\ c_pc \in {"ramp", "ramping"} => chg.phase = "Ramping"
  /\ c_pc \in {"cancelling", "stopping"} => chg.phase = "Idle"
  /\ c_pc = "schedule" => ~Charge!Active
  /\ c_pc \notin {"opening", "ramping", "cancelling", "stopping"} => todo = << >>

\* Scheduled work stays within the contract, and what was applied is in the
\* charger.
Applied ==
  /\ Charge!Active => chg.target <= known
  /\ chg.phase = "Ramping" => chg.applied < chg.target
  /\ chg.phase = "Complete" => chg.applied = chg.target
  /\ chg.phase \in {"Ramping", "Complete"} => ~reg.hiz
  /\ chg.phase \in {"Ramping", "Complete"} /\ c_pc # "ramping" => reg.limit = chg.applied

\* What is left of the opening, and what the charger holds by then: the ceiling
\* below 500 mA before the input is opened, the input open before the last write.
Small == Charge!lower(chg.target, Floor)
Unlimited == <<Charge!Put("hiz", FALSE), Charge!Put("limit", Small)>>
OpeningLeft ==
  c_pc = "opening" =>
    /\ chg.applied = Small
    /\ \/ \E b \in BOOLEAN : todo = <<Charge!Put("jeita", b)>> \o Charge!Opening(chg.target)
       \/ todo = Charge!Opening(chg.target)
       \/ todo = Unlimited /\ (chg.target < Floor => reg.limit = chg.target)
       \/ todo = <<Charge!Put("limit", Small)>> /\ ~reg.hiz
       \/ todo = << >> /\ ~reg.hiz /\ reg.limit = Small

\* What is left of a step of the ramp, and of the fallback after a detach.
StepLeft ==
  c_pc = "ramping" =>
    \/ todo = <<Charge!Put("limit", chg.applied + 1)>> /\ reg.limit = chg.applied
    \/ todo = << >> /\ reg.limit = chg.applied + 1
FallbackLeft ==
  c_pc \in {"cancelling", "stopping"} =>
    todo \in {<<Charge!Put("jeita", FALSE), Charge!Put("hiz", FALSE), Charge!Put("limit", Floor)>>,
              <<Charge!Put("hiz", FALSE), Charge!Put("limit", Floor)>>,
              <<Charge!Put("limit", Floor)>>, << >>}

\* The invariant of the charging policy.
CInv == Charged /\ Placed /\ Applied /\ OpeningLeft /\ StepLeft /\ FallbackLeft

\* What an update may be, and what it does to the charger's fields.
Updates == {Charge!Put("hiz", FALSE)} \cup {Charge!Put("jeita", b) : b \in BOOLEAN}
             \cup {Charge!Put("limit", v) : v \in Charge!Level}

LEMMA ApplyFacts ==
  ASSUME reg \in Fields
  PROVE  /\ LET r == Charge!Apply(Charge!Put("hiz", FALSE))
            IN  r \in Fields /\ ~r.hiz /\ r.limit = reg.limit
         /\ \A b \in BOOLEAN : LET r == Charge!Apply(Charge!Put("jeita", b))
                               IN  r \in Fields /\ r.hiz = reg.hiz /\ r.limit = reg.limit
         /\ \A v \in Charge!Level : LET r == Charge!Apply(Charge!Put("limit", v))
                                    IN  r \in Fields /\ r.limit = v /\ r.hiz = reg.hiz
         /\ \A u \in Updates : Charge!Apply(u) \in Fields
<1>1. LET r == Charge!Apply(Charge!Put("hiz", FALSE))
      IN  r \in Fields /\ ~r.hiz /\ r.limit = reg.limit
  BY DEF Fields, Charge!Apply, Charge!Put
<1>2. \A b \in BOOLEAN : LET r == Charge!Apply(Charge!Put("jeita", b))
                         IN  r \in Fields /\ r.hiz = reg.hiz /\ r.limit = reg.limit
  BY DEF Fields, Charge!Apply, Charge!Put
<1>3. \A v \in Charge!Level : LET r == Charge!Apply(Charge!Put("limit", v))
                              IN  r \in Fields /\ r.limit = v /\ r.hiz = reg.hiz
  BY DEF Fields, Charge!Apply, Charge!Put
<1>. QED
  BY <1>1, <1>2, <1>3 DEF Updates

\* A list of one update before others.
LEMMA Joined ==
  ASSUME NEW S, NEW a \in S, NEW b \in S, NEW c \in S
  PROVE  /\ <<a>> \o <<b, c>> = <<a, b, c>>
         /\ <<a, b, c>> \in Seq(S) /\ <<b, c>> \in Seq(S)
<1>. DEFINE l == <<a>> \o <<b, c>>
            r == <<a, b, c>>
<1>0. <<a>> \in Seq(S) /\ <<b, c>> \in Seq(S) /\ r \in Seq(S)
  OBVIOUS
<1>1. l \in Seq(S) /\ Len(l) = 3
  BY <1>0
<1>2. l[1] = a /\ l[2] = b /\ l[3] = c
  BY <1>0
<1>3. Len(r) = 3 /\ r[1] = a /\ r[2] = b /\ r[3] = c
  OBVIOUS
<1>. HIDE DEF l, r
<1>4. l = r
  BY <1>0, <1>1, <1>2, <1>3, SeqEqual
<1>. QED
  BY <1>0, <1>4 DEF l, r

LEMMA Prefixed ==
  ASSUME NEW S, NEW u \in S, NEW q \in Seq(S)
  PROVE  (<<u>> \o q)[1] = u /\ Tail(<<u>> \o q) = q /\ <<u>> \o q # << >>
<1>. DEFINE l == <<u>> \o q
<1>0. <<u>> \in Seq(S) /\ Len(<<u>>) = 1 /\ <<u>>[1] = u
  OBVIOUS
<1>1. l \in Seq(S) /\ Len(l) = 1 + Len(q) /\ l[1] = u
  BY <1>0
<1>2. \A k \in 1..Len(q) : l[k + 1] = q[k]
  BY <1>0
<1>. HIDE DEF l
<1>3. Tail(l) \in Seq(S) /\ Len(Tail(l)) = Len(q) /\ \A k \in 1..Len(q) : Tail(l)[k] = q[k]
  BY <1>1, <1>2
<1>4. Tail(l) = q
  BY <1>3, SeqEqual
<1>. QED
  BY <1>1, <1>4 DEF l

\* The lists of an opening, one by one.
LEMMA OpeningForms ==
  ASSUME NEW t \in Charge!Level
  PROVE  /\ Charge!lower(t, Floor) \in Charge!Level /\ Charge!Opening(t) \in Seq(Updates)
         /\ t < Floor => Charge!Opening(t) = <<Charge!Put("limit", t), Charge!Put("hiz", FALSE),
                                               Charge!Put("limit", Charge!lower(t, Floor))>>
         /\ ~(t < Floor) => Charge!Opening(t) = <<Charge!Put("hiz", FALSE),
                                                  Charge!Put("limit", Charge!lower(t, Floor))>>
<1>. DEFINE P(f, v) == Charge!Put(f, v)
            s == Charge!lower(t, Floor)
<1>0. s \in Charge!Level
  BY ChargerTable DEF Charge!lower, Charge!Level
<1>1. P("limit", t) \in Updates /\ P("hiz", FALSE) \in Updates /\ P("limit", s) \in Updates
  BY <1>0 DEF Updates
<1>2. t < Floor => Charge!Opening(t) = <<P("limit", t), P("hiz", FALSE), P("limit", s)>>
  <2>1. t < Floor => Charge!Opening(t) = <<P("limit", t)>> \o <<P("hiz", FALSE), P("limit", s)>>
    BY DEF Charge!Opening
  <2>. HIDE DEF P, s
  <2>. QED
    BY <1>1, <2>1, Joined
<1>3. ~(t < Floor) => Charge!Opening(t) = <<P("hiz", FALSE), P("limit", s)>>
  <2>1. ~(t < Floor) => Charge!Opening(t) = << >> \o <<P("hiz", FALSE), P("limit", s)>>
    BY DEF Charge!Opening
  <2>. HIDE DEF P, s
  <2>2. << >> \o <<P("hiz", FALSE), P("limit", s)>> = <<P("hiz", FALSE), P("limit", s)>>
    OBVIOUS
  <2>. QED
    BY <2>1, <2>2
<1>. HIDE DEF P, s
<1>4. Charge!Opening(t) \in Seq(Updates)
  <2>1. <<P("limit", t), P("hiz", FALSE), P("limit", s)>> \in Seq(Updates)
        /\ <<P("hiz", FALSE), P("limit", s)>> \in Seq(Updates)
    BY <1>1, Joined, Zenon
  <2>. QED
    BY <1>2, <1>3, <2>1, Zenon
<1>. QED
  BY <1>0, <1>2, <1>3, <1>4 DEF P, s

\* Nothing is scheduled or left to do.
LEMMA ChargeInit ==
  ASSUME Charge!Init PROVE CInv
<1>1. /\ chg = [phase |-> "Idle", due |-> FALSE, target |-> 0, applied |-> 0, side |-> "none"]
      /\ contract.ceiling = 0 /\ c_pc = "idle" /\ todo = << >> /\ known = 0 /\ port = "none"
  BY DEF Charge!Init, Charge!NoContract
<1>2. reg \in Fields
  <2>1. reg \in [hiz : BOOLEAN, limit : {Floor, Top}, jeita : {FALSE}, mode : {"charge", "otg"}]
    BY Zenon DEF Charge!Init
  <2>2. PICK h \in BOOLEAN, l \in {Floor, Top}, m \in {"charge", "otg"} :
          reg = [hiz |-> h, limit |-> l, jeita |-> FALSE, mode |-> m]
    BY <2>1
  <2>3. l \in Charge!Level
    BY ChargerTable DEF Charge!Level
  <2>. QED
    BY <2>2, <2>3 DEF Fields
<1>3. Charged
  BY <1>1, <1>2, ChargerTable
     DEF Charged, Policies, Phases, Places, Charge!Level, Charge!Sides, Charge!Ports
<1>. QED
  BY <1>1, <1>3 DEF CInv, Placed, Applied, OpeningLeft, StepLeft, FallbackLeft, Charge!Active

\* The delay, the port and PD change nothing a list in progress rests on.
LEMMA ChargeOutside ==
  ASSUME CInv,
         \/ Charge!PortChanges \/ Charge!Due \/ Charge!PdContract \/ Charge!Monitor
         \/ Charge!StopSourcing
  PROVE  CInv'
<1>1. /\ UNCHANGED <<reg, known, todo>> /\ c_pc' \in Places
      /\ UNCHANGED chg \/ chg' = [chg EXCEPT !.due = TRUE]
      /\ \/ c_pc' = c_pc
         \/ c_pc = "idle" /\ c_pc' \in {"poll", "cancel", "stop"}
         \/ c_pc = "idle" /\ c_pc' = "schedule" /\ ~Charge!Active
  BY DEF CInv, Charged, Places, Charge!PortChanges, Charge!Due, Charge!PdContract,
     Charge!Monitor, Charge!StopSourcing
<1>2. /\ chg' \in Policies /\ chg'.phase = chg.phase /\ chg'.target = chg.target
      /\ chg'.applied = chg.applied
  BY <1>1 DEF CInv, Charged, Policies
<1>3. contract'.ceiling \in 0 .. Top + 1 /\ port' \in Charge!Ports
  <2>1. CASE Charge!PdContract
    BY <2>1, ChargerTable DEF CInv, Charged, Charge!PdContract, Charge!NoContract
  <2>2. CASE ~Charge!PdContract
    BY <2>2 DEF CInv, Charged, Charge!PortChanges, Charge!Due, Charge!Monitor,
       Charge!StopSourcing
  <2>. QED
    BY <2>1, <2>2
<1>4. Charged' /\ Placed'
  BY <1>1, <1>2, <1>3 DEF CInv, Charged, Placed, Charge!Active
<1>5. Applied'
  BY <1>1, <1>2 DEF CInv, Applied, Charge!Active
<1>6. OpeningLeft'
  <2>1. (c_pc' = "opening" => c_pc = "opening") /\ Small' = Small
    BY <1>1, <1>2 DEF Small, Charge!lower
  <2>. QED
    BY <1>1, <1>2, <2>1 DEF CInv, OpeningLeft, Unlimited, Charge!Opening, Charge!Put, Charge!lower
<1>7. StepLeft' /\ FallbackLeft'
  BY <1>1, <1>2 DEF CInv, StepLeft, FallbackLeft, Charge!Put
<1>. QED
  BY <1>4, <1>5, <1>6, <1>7 DEF CInv

\* A schedule takes the ceiling of its contract, a poll goes where the phase says,
\* and the end of a list leaves what its last write has set.
LEMMA ChargePolls ==
  ASSUME CInv,
         \/ Charge!Schedule \/ Charge!Poll \/ Charge!BeginFails \/ Charge!CancelFails
         \/ Charge!Cancelled \/ Charge!Opened \/ Charge!Ramped
  PROVE  CInv'
<1>0. /\ chg \in Policies /\ reg \in Fields /\ contract.ceiling \in 0 .. Top + 1
      /\ known \in Charge!Level /\ port \in Charge!Ports
  BY DEF CInv, Charged
<1>1. UNCHANGED <<reg, todo, port, contract>> /\ todo = << >>
  BY DEF CInv, Placed, Charge!Schedule, Charge!Poll, Charge!BeginFails, Charge!CancelFails,
     Charge!Cancelled, Charge!Opened, Charge!Ramped
<1>2. c_pc' \in {"poll", "idle", "stop", "begin", "ramp", "schedule"}
  BY DEF Charge!Schedule, Charge!Poll, Charge!BeginFails, Charge!CancelFails,
     Charge!Cancelled, Charge!Opened, Charge!Ramped
<1>3. OpeningLeft' /\ StepLeft' /\ FallbackLeft'
  BY <1>2 DEF OpeningLeft, StepLeft, FallbackLeft
<1>4. CASE Charge!Schedule
  <2>1. CASE contract = Charge!NoContract
    <3>1. c_pc' = "poll" /\ chg' = chg /\ known' = known /\ c_pc = "schedule"
      BY <1>4, <2>1 DEF Charge!Schedule
    <3>. QED
      BY <1>0, <1>1, <1>3, <3>1 DEF CInv, Charged, Placed, Applied, Charge!Active, Places
  <2>2. CASE contract # Charge!NoContract
    <3>1. c_pc' = "poll" /\ chg' = Charge!schedule(contract)
          /\ known' = Charge!lower(contract.ceiling, Top)
      BY <1>4, <2>2 DEF Charge!Schedule
    <3>2. /\ chg' \in Policies /\ chg'.phase \in {"Failed", "Waiting"}
          /\ chg'.phase = "Waiting" => chg'.target = contract.ceiling /\ contract.ceiling <= Top
      BY <1>0, <3>1, ChargerTable DEF Policies, Phases, Charge!schedule, Charge!Level
    <3>3. known' \in Charge!Level /\ (contract.ceiling <= Top => known' = contract.ceiling)
      BY <1>0, <3>1, ChargerTable DEF Charge!lower, Charge!Level
    <3>4. Charged' /\ Placed'
      BY <1>0, <1>1, <3>1, <3>2, <3>3 DEF Charged, Placed, Places
    <3>5. Applied'
      BY <1>0, <3>2, <3>3 DEF Applied, Charge!Active
    <3>. QED
      BY <1>3, <3>4, <3>5 DEF CInv
  <2>. QED
    BY <2>1, <2>2
<1>5. CASE Charge!Poll \/ Charge!Cancelled
  <2>1. UNCHANGED <<chg, known>>
    BY <1>5 DEF Charge!Poll, Charge!Cancelled
  <2>2. /\ c_pc' = "begin" => chg.phase = "Waiting"
        /\ c_pc' = "ramp" => chg.phase = "Ramping"
        /\ c_pc' = "schedule" => chg.phase = "Idle"
    BY <1>5 DEF CInv, Placed, Charge!Poll, Charge!Cancelled, Charge!Active
  <2>3. c_pc # "ramping"
    BY <1>5 DEF Charge!Poll, Charge!Cancelled
  <2>4. Charged' /\ Placed'
    BY <1>0, <1>1, <1>2, <2>1, <2>2 DEF Charged, Placed, Places, Charge!Active
  <2>5. Applied'
    BY <1>1, <2>1, <2>3 DEF CInv, Applied, Charge!Active
  <2>. QED
    BY <1>3, <2>4, <2>5 DEF CInv
<1>6. CASE Charge!BeginFails \/ Charge!CancelFails
  <2>1. c_pc' = "idle" /\ chg' \in Policies /\ chg'.phase = "Failed" /\ known' = known
    BY <1>0, <1>6 DEF Policies, Phases, Charge!BeginFails, Charge!CancelFails
  <2>. QED
    BY <1>0, <1>1, <1>3, <2>1 DEF CInv, Charged, Placed, Applied, Places, Charge!Active
<1>7. CASE Charge!Opened
  <2>1. /\ c_pc = "opening" /\ c_pc' = "idle" /\ known' = known
        /\ chg' \in Policies /\ chg'.target = chg.target /\ chg'.applied = chg.applied
        /\ chg'.phase = IF chg.applied = chg.target THEN "Complete" ELSE "Ramping"
    BY <1>0, <1>7 DEF Policies, Phases, Charge!Opened
  <2>2. chg.phase = "Waiting" /\ chg.applied = Small
    BY <2>1 DEF CInv, Placed, OpeningLeft
  <2>3. ~reg.hiz /\ reg.limit = Small
    <3>1. chg.target \in Charge!Level
      BY <1>0 DEF Policies
    <3>2. \A b \in BOOLEAN : << >> # <<Charge!Put("jeita", b)>> \o Charge!Opening(chg.target)
      <4>1. \A b \in BOOLEAN : Charge!Put("jeita", b) \in Updates
        BY DEF Updates
      <4>2. Charge!Opening(chg.target) \in Seq(Updates)
        BY <3>1, OpeningForms
      <4>. QED
        BY <4>1, <4>2, Prefixed, Zenon
    <3>3. << >> # Charge!Opening(chg.target)
      <4>1. \A a, b, c : << >> # <<a, b, c>> /\ << >> # <<a, b>>
        OBVIOUS
      <4>2. CASE chg.target < Floor
        <5>1. Charge!Opening(chg.target) =
                <<Charge!Put("limit", chg.target), Charge!Put("hiz", FALSE),
                  Charge!Put("limit", Charge!lower(chg.target, Floor))>>
          BY <3>1, <4>2, OpeningForms
        <5>. QED
          BY <4>1, <5>1, Zenon
      <4>3. CASE ~(chg.target < Floor)
        <5>1. Charge!Opening(chg.target) = <<Charge!Put("hiz", FALSE),
                                             Charge!Put("limit", Charge!lower(chg.target, Floor))>>
          BY <3>1, <4>3, OpeningForms
        <5>. QED
          BY <4>1, <5>1, Zenon
      <4>. QED
        BY <4>2, <4>3
    <3>. QED
      BY <1>1, <2>1, <3>2, <3>3 DEF CInv, OpeningLeft, Unlimited
  <2>4. chg.target <= known /\ Small <= chg.target
    BY <1>0, <2>2, ChargerTable
       DEF CInv, Applied, Small, Charge!lower, Charge!Active, Policies, Charge!Level
  <2>5. Applied'
    <3>1. Small \in Nat /\ chg.target \in Nat
      BY <1>0, ChargerTable DEF Small, Charge!lower, Policies, Charge!Level
    <3>. QED
      BY <1>1, <2>1, <2>2, <2>3, <2>4, <3>1 DEF Applied, Charge!Active
  <2>6. Charged' /\ Placed'
    BY <1>0, <1>1, <2>1 DEF Charged, Placed, Places
  <2>. QED
    BY <1>3, <2>5, <2>6 DEF CInv
<1>8. CASE Charge!Ramped
  <2>1. /\ c_pc = "ramping" /\ c_pc' = "idle" /\ known' = known
        /\ chg' = [chg EXCEPT !.applied = chg.applied + 1, !.due = FALSE,
                              !.phase = IF chg.applied + 1 = chg.target THEN "Complete" ELSE @]
    BY <1>8 DEF Charge!Ramped, Charge!NextLevel
  <2>2. chg.phase = "Ramping" /\ chg.applied < chg.target /\ ~reg.hiz /\ chg.target <= known
    BY <2>1 DEF CInv, Placed, Applied, Charge!Active
  <2>3. reg.limit = chg.applied + 1
    BY <1>1, <2>1 DEF CInv, StepLeft
  <2>4. /\ chg' \in Policies /\ chg'.target = chg.target /\ chg'.applied = chg.applied + 1
        /\ chg'.phase = IF chg.applied + 1 = chg.target THEN "Complete" ELSE "Ramping"
    <3>1. chg.applied + 1 \in Charge!Level
      BY <1>0, <2>2, ChargerTable DEF Policies, Charge!Level
    <3>. QED
      BY <1>0, <2>1, <2>2, <3>1 DEF Policies, Phases
  <2>5. Applied'
    <3>1. chg.applied \in Nat /\ chg.target \in Nat
      BY <1>0, ChargerTable DEF Policies, Charge!Level
    <3>. QED
      BY <1>1, <2>1, <2>2, <2>3, <2>4, <3>1 DEF Applied, Charge!Active
  <2>6. Charged' /\ Placed'
    BY <1>0, <1>1, <2>1, <2>4 DEF Charged, Placed, Places
  <2>. QED
    BY <1>3, <2>5, <2>6 DEF CInv
<1>. QED
  BY <1>4, <1>5, <1>6, <1>7, <1>8

\* The lists begin whole: an opening for the target it sets, a step above what is
\* applied, a fallback.
LEMMA ChargeStarts ==
  ASSUME CInv, Charge!Begin \/ Charge!Ramp \/ Charge!Cancel
  PROVE  CInv'
<1>0. /\ chg \in Policies /\ reg \in Fields /\ contract.ceiling \in 0 .. Top + 1
      /\ known \in Charge!Level /\ port \in Charge!Ports
  BY DEF CInv, Charged
<1>1. UNCHANGED <<reg, known, port, contract>>
  BY DEF Charge!Begin, Charge!Ramp, Charge!Cancel
<1>2. CASE Charge!Begin
  <2>1. PICK t \in {Charge!lower(chg.target, Floor), chg.target} :
          /\ chg' = [chg EXCEPT !.side = port, !.target = t, !.applied = Charge!lower(t, Floor)]
          /\ \/ \E b \in BOOLEAN : todo' = <<Charge!Put("jeita", b)>> \o Charge!Opening(t)
             \/ todo' = Charge!Opening(t)
    BY <1>2 DEF Charge!Begin
  <2>2. c_pc = "begin" /\ c_pc' = "opening" /\ port \in Charge!Sides
    BY <1>2 DEF Charge!Begin
  <2>3. chg.phase = "Waiting" /\ chg.target <= known
    BY <2>2 DEF CInv, Placed, Applied, Charge!Active
  <2>4. t \in Charge!Level /\ t <= chg.target /\ Charge!lower(t, Floor) \in Charge!Level
    BY <1>0, <2>1, ChargerTable DEF Policies, Charge!lower, Charge!Level
  <2>5. /\ chg' \in Policies /\ chg'.phase = "Waiting" /\ chg'.target = t
        /\ chg'.applied = Charge!lower(t, Floor)
    BY <1>0, <2>1, <2>2, <2>3, <2>4 DEF Policies
  <2>6. Charged' /\ Placed'
    BY <1>0, <1>1, <2>2, <2>5 DEF Charged, Placed, Places
  <2>7. Applied'
    BY <1>0, <1>1, <2>3, <2>4, <2>5 DEF Applied, Charge!Active, Policies, Charge!Level
  <2>8. OpeningLeft'
    <3>1. Small' = Charge!lower(t, Floor)
      BY <2>5 DEF Small, Charge!lower
    <3>. QED
      BY <2>1, <2>5, <3>1 DEF OpeningLeft, Charge!Opening, Charge!Put, Charge!lower
  <2>9. StepLeft' /\ FallbackLeft'
    BY <2>2 DEF StepLeft, FallbackLeft
  <2>. QED
    BY <2>6, <2>7, <2>8, <2>9 DEF CInv
<1>3. CASE Charge!Ramp
  <2>1. /\ c_pc = "ramp" /\ c_pc' = "ramping" /\ chg' = chg
        /\ todo' = <<Charge!Put("limit", chg.applied + 1)>>
    BY <1>3 DEF Charge!Ramp, Charge!NextLevel
  <2>2. Charged' /\ Placed'
    BY <1>0, <1>1, <2>1 DEF CInv, Charged, Placed, Places
  <2>3. Applied'
    BY <1>1, <2>1 DEF CInv, Applied, Charge!Active
  <2>4. StepLeft'
    BY <1>1, <2>1 DEF CInv, Placed, Applied, StepLeft, Charge!Put
  <2>5. OpeningLeft' /\ FallbackLeft'
    BY <2>1 DEF OpeningLeft, FallbackLeft
  <2>. QED
    BY <2>2, <2>3, <2>4, <2>5 DEF CInv
<1>4. CASE Charge!Cancel
  <2>1. /\ c_pc' \in {"cancelling", "stopping"} /\ chg' \in Policies /\ chg'.phase = "Idle"
        /\ todo' \in {<<Charge!Put("jeita", FALSE), Charge!Put("hiz", FALSE),
                       Charge!Put("limit", Floor)>>, << >>}
    BY <1>0, <1>4 DEF Policies, Phases, Charge!Cancel
  <2>2. Charged' /\ Placed'
    BY <1>0, <1>1, <2>1 DEF Charged, Placed, Places
  <2>3. Applied'
    BY <2>1 DEF Applied, Charge!Active
  <2>4. FallbackLeft'
    BY <2>1 DEF FallbackLeft, Charge!Put
  <2>5. OpeningLeft' /\ StepLeft'
    BY <2>1 DEF OpeningLeft, StepLeft
  <2>. QED
    BY <2>2, <2>3, <2>4, <2>5 DEF CInv
<1>. QED
  BY <1>2, <1>3, <1>4

\* An update leaves the list as it is or applies its head: to the charger, or to
\* what the charger holds already.
LEMMA UpdateEffect ==
  ASSUME Charge!Read \/ Charge!Validate \/ Charge!Write
  PROVE  /\ todo # << >> /\ UNCHANGED <<chg, contract, c_pc, port, known>>
         /\ \/ UNCHANGED <<reg, todo>>
            \/ reg' = Charge!Apply(todo[1]) /\ todo' = Tail(todo)
BY DEF Charge!Read, Charge!Validate, Charge!Write

\* What the head of each list does to the limit and to the input, and what is left.
Headed(r, rest) ==
  /\ r \in Fields /\ c_pc \in {"opening", "ramping", "cancelling", "stopping"}
  /\ c_pc = "opening" =>
       /\ \/ rest = Charge!Opening(chg.target)
          \/ rest = Unlimited /\ (chg.target < Floor => r.limit = chg.target)
          \/ rest = <<Charge!Put("limit", Small)>> /\ ~r.hiz
          \/ rest = << >> /\ ~r.hiz /\ r.limit = Small
       /\ r.limit = reg.limit \/ r.limit <= Floor
       /\ reg.hiz /\ ~r.hiz /\ chg.target < Floor => reg.limit = chg.target
  /\ c_pc = "ramping" =>
       /\ rest = << >> /\ r.limit = chg.applied + 1 /\ reg.limit = chg.applied
       /\ r.hiz = reg.hiz
  /\ c_pc \in {"cancelling", "stopping"} =>
       /\ rest \in {<<Charge!Put("hiz", FALSE), Charge!Put("limit", Floor)>>,
                    <<Charge!Put("limit", Floor)>>, << >>}
       /\ r.limit = reg.limit \/ r.limit = Floor

LEMMA HeadFacts ==
  ASSUME CInv, todo # << >>
  PROVE  Headed(Charge!Apply(todo[1]), Tail(todo))
<1>. DEFINE r == Charge!Apply(todo[1])
            rest == Tail(todo)
            P(f, v) == Charge!Put(f, v)
            t == chg.target
<1>0. /\ chg \in Policies /\ reg \in Fields /\ t \in Charge!Level
      /\ c_pc \in {"opening", "ramping", "cancelling", "stopping"}
  BY DEF CInv, Charged, Placed, Policies
<1>1. /\ \A a, b, c : <<a, b, c>>[1] = a /\ Tail(<<a, b, c>>) = <<b, c>>
      /\ \A a, b : <<a, b>>[1] = a /\ Tail(<<a, b>>) = <<b>>
      /\ \A a : <<a>>[1] = a /\ Tail(<<a>>) = << >>
  OBVIOUS
<1>2. Small \in Charge!Level /\ Floor \in Charge!Level /\ Small <= Floor
  BY <1>0, ChargerTable DEF Small, Charge!lower, Charge!Level
<1>3. CASE c_pc = "opening"
  <2>1. CASE \E b \in BOOLEAN : todo = <<P("jeita", b)>> \o Charge!Opening(t)
    <3>1. PICK b \in BOOLEAN : todo = <<P("jeita", b)>> \o Charge!Opening(t)
      BY <2>1
    <3>2. P("jeita", b) \in Updates /\ Charge!Opening(t) \in Seq(Updates)
      BY <1>0, OpeningForms DEF Updates
    <3>3. todo[1] = P("jeita", b) /\ rest = Charge!Opening(t)
      <4>. HIDE DEF P, t
      <4>. QED
        BY <3>1, <3>2, Prefixed
    <3>4. r \in Fields /\ r.hiz = reg.hiz /\ r.limit = reg.limit
      BY <1>0, <3>3, ApplyFacts
    <3>. QED
      BY <1>0, <1>3, <3>3, <3>4 DEF Headed
  <2>2. CASE todo = Charge!Opening(t) /\ t < Floor
    <3>1. todo[1] = P("limit", t) /\ rest = Unlimited
      <4>1. /\ todo = <<P("limit", t), P("hiz", FALSE), P("limit", Small)>>
            /\ Unlimited = <<P("hiz", FALSE), P("limit", Small)>>
        BY <1>0, <2>2, OpeningForms DEF Unlimited, Small
      <4>. HIDE DEF P
      <4>. QED
        BY <1>1, <4>1, Zenon
    <3>2. r \in Fields /\ r.limit = t /\ r.hiz = reg.hiz
      BY <1>0, <3>1, ApplyFacts
    <3>3. r.limit <= Floor
      BY <1>0, <2>2, <3>2, ChargerTable DEF Charge!Level
    <3>. QED
      BY <1>0, <1>3, <3>1, <3>2, <3>3 DEF Headed
  <2>3. CASE \/ todo = Charge!Opening(t) /\ ~(t < Floor)
             \/ todo = Unlimited /\ (t < Floor => reg.limit = t)
    <3>1. todo[1] = P("hiz", FALSE) /\ rest = <<P("limit", Small)>>
          /\ (t < Floor => reg.limit = t)
      <4>1. todo = <<P("hiz", FALSE), P("limit", Small)>> /\ (t < Floor => reg.limit = t)
        BY <1>0, <2>3, OpeningForms DEF Unlimited, Small
      <4>. HIDE DEF P, t
      <4>. QED
        BY <1>1, <4>1, Zenon
    <3>2. r \in Fields /\ ~r.hiz /\ r.limit = reg.limit
      BY <1>0, <3>1, ApplyFacts
    <3>. QED
      BY <1>0, <1>3, <3>1, <3>2 DEF Headed
  <2>4. CASE todo = <<P("limit", Small)>> /\ ~reg.hiz
    <3>1. todo[1] = P("limit", Small) /\ rest = << >>
      BY <1>1, <2>4
    <3>2. r \in Fields /\ r.limit = Small /\ r.hiz = reg.hiz
      BY <1>0, <1>2, <3>1, ApplyFacts
    <3>. QED
      BY <1>0, <1>2, <1>3, <2>4, <3>1, <3>2 DEF Headed
  <2>. QED
    BY <1>3, <2>1, <2>2, <2>3, <2>4 DEF CInv, OpeningLeft
<1>4. CASE c_pc = "ramping"
  <2>1. todo = <<P("limit", chg.applied + 1)>> /\ reg.limit = chg.applied
    BY <1>4 DEF CInv, StepLeft
  <2>2. chg.applied + 1 \in Charge!Level
    BY <1>0, <1>4, ChargerTable DEF CInv, Placed, Applied, Policies, Charge!Level
  <2>3. todo[1] = P("limit", chg.applied + 1) /\ rest = << >>
    BY <1>1, <2>1
  <2>4. r \in Fields /\ r.limit = chg.applied + 1 /\ r.hiz = reg.hiz
    BY <1>0, <2>2, <2>3, ApplyFacts
  <2>. QED
    BY <1>4, <2>1, <2>3, <2>4 DEF Headed
<1>5. CASE c_pc \in {"cancelling", "stopping"}
  <2>1. \/ todo = <<P("jeita", FALSE), P("hiz", FALSE), P("limit", Floor)>>
        \/ todo = <<P("hiz", FALSE), P("limit", Floor)>>
        \/ todo = <<P("limit", Floor)>>
    BY <1>5 DEF CInv, FallbackLeft
  <2>2. /\ todo[1] \in {P("jeita", FALSE), P("hiz", FALSE), P("limit", Floor)}
        /\ rest \in {<<P("hiz", FALSE), P("limit", Floor)>>, <<P("limit", Floor)>>, << >>}
    <3>. HIDE DEF P
    <3>1. CASE todo = <<P("jeita", FALSE), P("hiz", FALSE), P("limit", Floor)>>
      BY <1>1, <3>1, Zenon
    <3>2. CASE todo = <<P("hiz", FALSE), P("limit", Floor)>>
      BY <1>1, <3>2, Zenon
    <3>3. CASE todo = <<P("limit", Floor)>>
      BY <1>1, <3>3, Zenon
    <3>. QED
      BY <2>1, <3>1, <3>2, <3>3
  <2>3. r \in Fields /\ (r.limit = reg.limit \/ r.limit = Floor)
    BY <1>0, <1>2, <2>2, ApplyFacts
  <2>. QED
    BY <1>5, <2>2, <2>3 DEF Headed
<1>. QED
  BY <1>0, <1>3, <1>4, <1>5

\* A write leaves the rest of its list, and a failure the end of the work.
LEMMA ChargeUpdates ==
  ASSUME CInv, Charge!Read \/ Charge!Validate \/ Charge!Write \/ Charge!UpdateFails
  PROVE  CInv'
<1>. DEFINE r == Charge!Apply(todo[1])
            rest == Tail(todo)
<1>0. /\ chg \in Policies /\ reg \in Fields /\ contract.ceiling \in 0 .. Top + 1
      /\ known \in Charge!Level /\ port \in Charge!Ports /\ c_pc \in Places
  BY DEF CInv, Charged
<1>1. CASE Charge!UpdateFails
  <2>1. /\ todo # << >> /\ UNCHANGED <<contract, port, known>> /\ reg' \in {reg, r}
        /\ chg' = [chg EXCEPT !.phase = "Failed"] /\ c_pc' = "idle" /\ todo' = << >>
    BY <1>1 DEF Charge!UpdateFails
  <2>2. reg' \in Fields
    BY <1>0, <2>1, HeadFacts DEF Headed
  <2>3. chg' \in Policies /\ chg'.phase = "Failed"
    BY <1>0, <2>1 DEF Policies, Phases
  <2>. QED
    BY <1>0, <2>1, <2>2, <2>3
       DEF CInv, Charged, Placed, Applied, OpeningLeft, StepLeft, FallbackLeft, Places,
           Charge!Active
<1>2. CASE Charge!Read \/ Charge!Validate \/ Charge!Write
  <2>1. todo # << >> /\ UNCHANGED <<chg, contract, c_pc, port, known>>
    BY <1>2, UpdateEffect
  <2>2. CASE UNCHANGED <<reg, todo>>
    BY <2>1, <2>2 DEF CInv, Charged, Placed, Applied, OpeningLeft, StepLeft, FallbackLeft,
       Unlimited, Small, Charge!Active, Charge!Opening, Charge!lower, Charge!Put
  <2>3. CASE reg' = r /\ todo' = rest
    <3>1. Headed(r, rest)
      BY <2>1, HeadFacts
    <3>. HIDE DEF r, rest
    <3>2. Charged' /\ Placed'
      BY <1>0, <2>1, <2>3, <3>1 DEF CInv, Charged, Placed, Headed, Charge!Active
    <3>3. Applied'
      BY <2>1, <2>3, <3>1 DEF CInv, Placed, Applied, Headed, Charge!Active
    <3>4. OpeningLeft'
      <4>1. Small' = Small /\ Unlimited' = Unlimited
        BY <2>1 DEF Small, Unlimited, Charge!lower, Charge!Put
      <4>. QED
        BY <2>1, <2>3, <3>1, <4>1
           DEF CInv, OpeningLeft, Headed, Charge!Opening, Charge!lower, Charge!Put
    <3>5. StepLeft' /\ FallbackLeft'
      BY <2>1, <2>3, <3>1 DEF StepLeft, FallbackLeft, Headed, Charge!Put
    <3>. QED
      BY <3>2, <3>3, <3>4, <3>5 DEF CInv
  <2>. QED
    BY <1>2, <2>2, <2>3, UpdateEffect
<1>. QED
  BY <1>1, <1>2

\* Every step keeps the invariant.
LEMMA ChargeNext ==
  ASSUME CInv, [Charge!Next]_(Charge!vars)
  PROVE  CInv'
<1>1. CASE UNCHANGED Charge!vars
  BY <1>1 DEF Charge!vars, CInv, Charged, Placed, Applied, OpeningLeft, StepLeft, FallbackLeft,
     Unlimited, Small, Charge!Active, Charge!Opening, Charge!lower, Charge!Put
<1>. QED
  BY <1>1, ChargeOutside, ChargePolls, ChargeStarts, ChargeUpdates
     DEF Charge!Next, Charge!Owner

\* A step that writes applies the head of a list; no other step touches the charger.
LEMMA WriteFacts ==
  ASSUME CInv, [Charge!Next]_(Charge!vars), reg' # reg
  PROVE  todo # << >> /\ reg' = Charge!Apply(todo[1])
BY DEF Charge!Next, Charge!Owner, Charge!vars, Charge!Schedule, Charge!Poll, Charge!Read,
   Charge!Validate, Charge!Write, Charge!UpdateFails, Charge!Begin, Charge!Opened,
   Charge!BeginFails, Charge!Ramp, Charge!Ramped, Charge!Cancel, Charge!CancelFails,
   Charge!Cancelled, Charge!Monitor, Charge!Due, Charge!PortChanges, Charge!PdContract,
   Charge!StopSourcing

\* The other parts of the run leave the charger alone.
LEMMA ChargePart == PlatformSpec => Charge!Init /\ [][Charge!Next]_(Charge!vars)
<1>1. PlatformInit => Charge!Init
  BY DEF PlatformInit
<1>2. [PlatformNext]_all => [Charge!Next]_(Charge!vars)
  <2>1. CASE ChargeOnly /\ Charge!Next
    BY <2>1
  <2>2. CASE UNCHANGED charge
    BY <2>2 DEF charge, Charge!vars
  <2>. QED
    BY <2>1, <2>2 DEF PlatformNext, all, GpioOnly, ChargeOnly, FanOnly, BusOnly, RailOnly
<1>. QED
  BY <1>1, <1>2, PTL DEF PlatformSpec

\* For every table of the charger, whatever fails and wherever the port changes:
\* the limit rises above 500 mA only by one step within the contract, the input
\* is never opened above a small ceiling, work that says it is complete has set
\* its target, and nothing is written when no work is scheduled (charger.rs).
THEOREM ChargingIsOrdered == PlatformSpec => ChargeOrder
<1>1. CInv => Charge!CompleteIsApplied
  BY DEF CInv, Applied, Charge!CompleteIsApplied
<1>. DEFINE ramp == reg'.limit > reg.limit =>
                      \/ reg'.limit <= Floor
                      \/ reg'.limit <= known /\ reg'.limit = reg.limit + 1
            open == reg.hiz /\ ~reg'.hiz /\ c_pc = "opening" /\ chg.target < Floor
                      => reg.limit <= chg.target
            idle == reg' # reg => Charge!Active \/ c_pc \in {"cancelling", "stopping"}
<1>2. CInv /\ [Charge!Next]_(Charge!vars) => ramp /\ open /\ idle
  <2>. SUFFICES ASSUME CInv, [Charge!Next]_(Charge!vars)
                PROVE  ramp /\ open /\ idle
    OBVIOUS
  <2>0. CASE reg' = reg
    <3>1. reg.limit \in Nat
      BY ChargerTable DEF CInv, Charged, Fields, Charge!Level
    <3>. QED
      BY <2>0, <3>1
  <2>. SUFFICES ASSUME reg' # reg
                PROVE  ramp /\ open /\ idle
    BY <2>0
  <2>1. todo # << >> /\ reg' = Charge!Apply(todo[1])
    BY WriteFacts
  <2>2. /\ chg \in Policies /\ reg \in Fields /\ known \in Charge!Level /\ reg' \in Fields
    BY <2>1, HeadFacts DEF CInv, Charged, Headed
  <2>3. c_pc \in {"opening", "ramping", "cancelling", "stopping"}
    BY <2>1, HeadFacts DEF Headed
  <2>4. CASE c_pc = "opening"
    <3>1. /\ reg'.limit = reg.limit \/ reg'.limit <= Floor
          /\ reg.hiz /\ ~reg'.hiz /\ chg.target < Floor => reg.limit = chg.target
          /\ Charge!Active
      BY <2>1, <2>4, HeadFacts DEF CInv, Placed, Headed, Charge!Active
    <3>. QED
      BY <2>2, <3>1, ChargerTable DEF Fields, Charge!Level
  <2>5. CASE c_pc = "ramping"
    <3>1. /\ reg'.limit = chg.applied + 1 /\ reg.limit = chg.applied
          /\ Charge!Active /\ chg.applied < chg.target /\ chg.target <= known
      BY <2>1, <2>5, HeadFacts DEF CInv, Placed, Applied, Headed, Charge!Active
    <3>. QED
      BY <2>2, <2>5, <3>1, ChargerTable DEF Fields, Policies, Charge!Level
  <2>6. CASE c_pc \in {"cancelling", "stopping"}
    <3>1. reg'.limit = reg.limit \/ reg'.limit = Floor
      BY <2>1, <2>6, HeadFacts DEF Headed
    <3>. QED
      BY <2>2, <2>6, <3>1, ChargerTable DEF Fields, Charge!Level
  <2>. QED
    BY <2>3, <2>4, <2>5, <2>6
<1>3. PlatformSpec => []CInv /\ [][Charge!Next]_(Charge!vars)
  BY ChargeInit, ChargeNext, ChargePart, PTL
<1>4. PlatformSpec => [](part = "charge" => Charge!CompleteIsApplied)
  BY <1>1, <1>3, PTL
<1>5. PlatformSpec => [][ramp]_(Charge!vars) /\ [][open]_(Charge!vars) /\ [][idle]_(Charge!vars)
  <2>. HIDE DEF ramp, open, idle
  <2>. QED
    BY <1>2, <1>3, PTL
<1>. QED
  BY <1>4, <1>5 DEF ChargeOrder, Charge!RampWithinContract, Charge!OpensWithinSmallCeiling,
     Charge!IdleWritesNothing

-----------------------------------------------------------------------------
(* The Joy-Con rail. *)

\* Where the rail's exchange is, before the worker exists and after.
Initializing == {"probe", "poll", "take"}
Working == {"detect", "read", "act", "sleep"}
\* Replies and commands, and what the event device shows.
Words == {"handshake", "info", "baud", "disconnect", "connect", "rate", "poll", "up", "down",
          "noise", Rail!Nothing}
Shown == {"up", "down", Rail!Neutral}
Stages == {"Detached", "Backoff", "Handshake", "Info", "Baud", "Disconnect", "Connect", "Rate",
           "VerifyInput", "Ready"}
Links == [stage : Stages, attempts : Nat, fast : BOOLEAN]
Uarts == [on : BOOLEAN, waker : BOOLEAN, fast : BOOLEAN, queue : Seq(Words), errors : BOOLEAN]
Controllers == [present : BOOLEAN, awake : BOOLEAN, fast : BOOLEAN, hid : BOOLEAN]

\* The shape of the state.
Railed ==
  /\ j_at \in Initializing \cup Working
  /\ link \in Links /\ uart \in Uarts
  /\ detected \in BOOLEAN /\ due \in BOOLEAN /\ quiet \in 0..2
  /\ half \in Shown /\ j_wire \in Seq(Words) /\ inbox \in Words /\ ctl \in Controllers

\* Only a rail with a controller talks, and only there a button is held.
Detected ==
  /\ Rail!ReceiveEnabled(link) \/ half # Rail!Neutral => detected
  /\ j_at \in {"poll", "act"} => detected
  /\ j_at = "probe" => half = Rail!Neutral /\ ~Rail!ReceiveEnabled(link)

\* Receive is never armed before the worker is there; from then on it is armed
\* exactly for a link that expects replies, or the error that masked it waits.
Armed ==
  /\ j_at \in Initializing => ~uart.on /\ ~uart.waker /\ ~uart.errors
  /\ j_at \in Working /\ Rail!ReceiveEnabled(link) => uart.waker /\ (uart.on \/ uart.errors)
  /\ j_at \in Working /\ ~Rail!ReceiveEnabled(link) => ~uart.on

\* The worker does not sleep on a button of a link that is not ready.
LetGo == j_at = "sleep" /\ link.stage # "Ready" => half = Rail!Neutral

\* The invariant of the rail.
RInv == Railed /\ Detected /\ Armed /\ LetGo

\* The timers leave a link alone but for the stage it reaches.
LEMMA LinkFacts ==
  ASSUME NEW l \in Links
  PROVE  /\ Rail!Failed(l) \in Links /\ ~Rail!ReceiveEnabled(Rail!Failed(l))
         /\ Rail!Failed(l).stage = "Backoff"
         /\ \A s \in Stages : Rail!Advanced(l, s) \in Links /\ Rail!Advanced(l, s).stage = s
         /\ \A p \in Words : /\ Rail!Received(l, p) \in Links
                             /\ Rail!ReceiveEnabled(Rail!Received(l, p)) = Rail!ReceiveEnabled(l)
<1>1. Rail!Failed(l) \in Links /\ Rail!Failed(l).stage = "Backoff"
  BY DEF Links, Stages, Rail!Failed
<1>2. \A s \in Stages : Rail!Advanced(l, s) \in Links /\ Rail!Advanced(l, s).stage = s
  BY DEF Links, Rail!Advanced
<1>3. ASSUME NEW p \in Words
      PROVE  /\ Rail!Received(l, p) \in Links
             /\ Rail!ReceiveEnabled(Rail!Received(l, p)) = Rail!ReceiveEnabled(l)
  <2>1. \A s \in Stages : LET b == [Rail!Advanced(l, s) EXCEPT !.fast = TRUE]
                          IN  b \in Links /\ b.stage = s
    BY <1>2 DEF Links
  <2>. QED
    BY <1>2, <2>1 DEF Words, Stages, Rail!Received, Rail!ReceiveEnabled
<1>. QED
  BY <1>1, <1>2, <1>3 DEF Rail!ReceiveEnabled

\* What the link does next, and what it stands at then.
LEMMA NextFacts ==
  ASSUME NEW l \in Links, NEW n, n = Rail!NextAction(l)
  PROVE  /\ n[1] \in Links /\ n[2] \in Words \cup {"start", "fast", "none"}
         /\ ~Rail!ReceiveEnabled(l) => n[1].stage = "Handshake" /\ n[2] = "start"
         /\ Rail!ReceiveEnabled(l) => n[2] # "start"
         /\ Rail!ReceiveEnabled(l) =>
              Rail!ReceiveEnabled(n[1]) \/ (n[1].stage = "Backoff" /\ n[2] = "none")
         /\ l.stage = "Ready" => n[1].stage = "Ready"
<1>. DEFINE v == IF l.stage = "Rate" /\ l.attempts >= 2 THEN Rail!Advanced(l, "VerifyInput") ELSE l
<1>1. CASE ~Rail!ReceiveEnabled(l)
  <2>1. n = <<[Rail!Advanced(l, "Handshake") EXCEPT !.attempts = 1], "start">>
    BY <1>1 DEF Rail!NextAction
  <2>2. [Rail!Advanced(l, "Handshake") EXCEPT !.attempts = 1] \in Links
        /\ [Rail!Advanced(l, "Handshake") EXCEPT !.attempts = 1].stage = "Handshake"
    BY DEF Links, Stages, Rail!Advanced
  <2>3. n[1] = [Rail!Advanced(l, "Handshake") EXCEPT !.attempts = 1] /\ n[2] = "start"
    BY <2>1
  <2>. QED
    BY <1>1, <2>2, <2>3 DEF Rail!ReceiveEnabled
<1>2. CASE Rail!ReceiveEnabled(l) /\ l.fast
  <2>1. n = <<[l EXCEPT !.fast = FALSE], "fast">>
    BY <1>2 DEF Rail!NextAction
  <2>2. [l EXCEPT !.fast = FALSE] \in Links /\ [l EXCEPT !.fast = FALSE].stage = l.stage
    BY DEF Links
  <2>3. n[1] = [l EXCEPT !.fast = FALSE] /\ n[2] = "fast"
    BY <2>1
  <2>. QED
    BY <1>2, <2>2, <2>3 DEF Rail!ReceiveEnabled
<1>3. CASE Rail!ReceiveEnabled(l) /\ ~l.fast
  <2>1. v \in Links /\ Rail!ReceiveEnabled(v) /\ (l.stage = "Ready" => v.stage = "Ready")
    BY <1>3, LinkFacts DEF Stages, Rail!ReceiveEnabled
  <2>2. CASE v.stage # "Ready" /\ v.attempts >= Rail!Limit(v.stage)
    <3>1. n = <<Rail!Failed(v), "none">>
      BY <1>3, <2>2 DEF Rail!NextAction
    <3>2. Rail!Failed(v) \in Links /\ Rail!Failed(v).stage = "Backoff"
      BY <2>1, LinkFacts
    <3>. HIDE DEF v
    <3>. QED
      BY <1>3, <2>1, <2>2, <3>1, <3>2
  <2>3. CASE ~(v.stage # "Ready" /\ v.attempts >= Rail!Limit(v.stage))
    <3>. DEFINE w == [v EXCEPT !.attempts = IF v.stage = "Ready" THEN 0 ELSE @ + 1]
    <3>1. n = <<w, Rail!Command(v.stage)>>
      BY <1>3, <2>3 DEF Rail!NextAction
    <3>2. w \in Links /\ w.stage = v.stage
      <4>. HIDE DEF v
      <4>. QED
        BY <2>1 DEF Links
    <3>3. Rail!Command(v.stage) \in Words /\ Rail!Command(v.stage) # "start"
      BY DEF Rail!Command, Words
    <3>. HIDE DEF v, w
    <3>4. n[1] = w /\ n[2] = Rail!Command(v.stage)
      BY <3>1
    <3>. QED
      BY <1>3, <2>1, <3>2, <3>3, <3>4 DEF Rail!ReceiveEnabled
  <2>. QED
    BY <2>2, <2>3
<1>. QED
  BY <1>1, <1>2, <1>3

\* What the operations on the UART leave in it.
LEMMA UartFacts ==
  ASSUME NEW u \in Uarts
  PROVE  /\ Rail!Disabled(u) \in Uarts /\ ~Rail!Disabled(u).on /\ ~Rail!Disabled(u).waker
         /\ ~Rail!Disabled(u).errors
         /\ Rail!Enabled(u) \in Uarts /\ Rail!Enabled(u).on /\ Rail!Enabled(u).waker
         /\ \A b \in BOOLEAN : LET c == Rail!Configured(u, b)
              IN  c \in Uarts /\ c.on = u.waker /\ c.waker = u.waker /\ ~c.errors
<1>1. << >> \in Seq(Words)
  OBVIOUS
<1>. QED
  BY <1>1 DEF Uarts, Rail!Disabled, Rail!Enabled, Rail!Configured

\* What a transmission leaves in the UART, the inbox and the line.
LEMMA SentFacts ==
  ASSUME RInv, NEW a \in Words \cup {"start", "fast", "none"}
  PROVE  /\ Rail!Sent(uart, a) \in Uarts /\ Rail!Deliver(a) \in Words
         /\ Rail!Line(a) \in Seq(Words)
         /\ Rail!Sent(uart, a).waker = uart.waker
         /\ \/ Rail!Sent(uart, a) = uart
            \/ Rail!Sent(uart, a).on = uart.waker /\ ~Rail!Sent(uart, a).errors
<1>1. Rail!Deliver(a) \in Words /\ Rail!Line(a) \in Seq(Words)
  BY DEF RInv, Railed, Words, Rail!Deliver, Rail!Line
<1>2. uart \in Uarts
  BY DEF RInv, Railed
<1>. QED
  BY <1>1, <1>2, UartFacts DEF Rail!Sent

\* The rail begins without a link, receive masked.
LEMMA RailInit ==
  ASSUME Rail!Init PROVE RInv
<1>1. link \in Links /\ ~Rail!ReceiveEnabled(link)
  BY DEF Rail!Init, Rail!NewLink, Links, Stages, Rail!ReceiveEnabled
<1>2. uart \in Uarts /\ ~uart.on /\ ~uart.waker /\ ~uart.errors
  BY DEF Rail!Init, Uarts
<1>3. j_wire \in Seq(Words) /\ ctl \in Controllers
  <2>1. PICK here \in BOOLEAN : ctl = [Rail!Absent EXCEPT !.present = here]
    BY DEF Rail!Init
  <2>2. j_wire = << >> /\ << >> \in Seq(Words)
    BY DEF Rail!Init
  <2>3. ctl \in Controllers
    BY <2>1 DEF Rail!Absent, Controllers
  <2>. QED
    BY <2>2, <2>3
<1>4. inbox \in Words /\ half \in Shown /\ half = Rail!Neutral
  BY DEF Rail!Init, Words, Shown
<1>5. j_at = "probe" /\ detected \in BOOLEAN /\ due \in BOOLEAN /\ quiet \in 0..2
  <2>1. due = TRUE /\ detected = FALSE /\ quiet = 0 /\ j_at = "probe"
    BY Zenon DEF Rail!Init
  <2>2. due \in BOOLEAN /\ detected \in BOOLEAN
    BY <2>1, Zenon
  <2>. QED
    BY <2>1, <2>2
<1>6. Railed
  BY <1>1, <1>2, <1>3, <1>4, <1>5 DEF Railed, Initializing
<1>. QED
  BY <1>1, <1>2, <1>4, <1>5, <1>6 DEF RInv, Detected, Armed, LetGo, Initializing, Working

\* The first exchange is polled: receive stays masked until the worker takes over.
LEMMA RailInitialize ==
  ASSUME RInv, Rail!Initialize \/ Rail!PollStop
  PROVE  RInv'
<1>. USE DEF Initializing, Working
<1>0. link \in Links /\ uart \in Uarts /\ j_wire \in Seq(Words)
  BY DEF RInv, Railed
<1>1. CASE Rail!Probe
  BY <1>1 DEF RInv, Railed, Detected, Armed, LetGo, Controllers, Rail!Probe
<1>2. CASE Rail!PollRead
  <2>. DEFINE p == Head(j_wire)
  <2>1. p \in Words /\ Tail(j_wire) \in Seq(Words) /\ << >> \in Seq(Words)
    BY <1>0, <1>2 DEF Rail!PollRead
  <2>2. CASE p = "noise"
    BY <1>0, <1>2, <2>1, <2>2, LinkFacts
       DEF RInv, Railed, Detected, Armed, LetGo, Rail!PollRead
  <2>3. CASE p # "noise"
    <3>1. link' = Rail!Received(link, p) /\ link' \in Links
          /\ Rail!ReceiveEnabled(link') = Rail!ReceiveEnabled(link)
      <4>1. link' = Rail!Received(link, p)
        BY <1>2, <2>3 DEF Rail!PollRead
      <4>. QED
        BY <1>0, <2>1, <4>1, LinkFacts
    <3>2. half' \in Shown
      BY <1>2, <2>3 DEF RInv, Railed, Shown, Rail!PollRead, Rail!IsReport
    <3>. QED
      BY <1>2, <2>1, <2>3, <3>1, <3>2
         DEF RInv, Railed, Detected, Armed, LetGo, Rail!PollRead
  <2>. QED
    BY <2>2, <2>3
<1>3. CASE Rail!PollSend
  <2>. DEFINE n == Rail!NextAction(link)
  <2>1. n[1] \in Links /\ n[2] \in Words \cup {"start", "fast", "none"}
    BY <1>0, NextFacts
  <2>2. /\ link' = n[1] /\ due' \in BOOLEAN /\ uart' = Rail!Sent(uart, n[2])
        /\ inbox' = Rail!Deliver(n[2]) /\ j_wire' = Rail!Line(n[2])
        /\ j_at' \in {"take", "poll"} /\ UNCHANGED <<quiet, detected, half, ctl>> /\ j_at = "poll"
    BY <1>3 DEF Rail!PollSend
  <2>. HIDE DEF n
  <2>3. /\ uart' \in Uarts /\ inbox' \in Words /\ j_wire' \in Seq(Words)
        /\ ~uart'.on /\ ~uart'.waker /\ ~uart'.errors
    BY <2>1, <2>2, SentFacts DEF RInv, Armed
  <2>. QED
    BY <2>1, <2>2, <2>3 DEF RInv, Railed, Detected, Armed, LetGo
<1>4. CASE Rail!PollStop
  BY <1>0, <1>4, LinkFacts DEF RInv, Railed, Detected, Armed, LetGo, Rail!PollStop
<1>5. CASE Rail!TakeOver
  BY <1>0, <1>5, UartFacts DEF RInv, Railed, Detected, Armed, LetGo, Rail!TakeOver,
     Rail!ReceiveEnabled
<1>. QED
  BY <1>1, <1>2, <1>3, <1>4, <1>5 DEF Rail!Initialize

\* Detection, and what the receive queue hands out.
LEMMA RailReads ==
  ASSUME RInv, Rail!Read \/ Rail!Wake \/ (\E check \in BOOLEAN : Rail!Detect(check))
  PROVE  RInv'
<1>. USE DEF Initializing, Working
<1>0. link \in Links /\ uart \in Uarts /\ j_wire \in Seq(Words)
  BY DEF RInv, Railed
<1>1. CASE \E check \in BOOLEAN : Rail!Detect(check)
  <2>1. Rail!NewLink \in Links /\ ~Rail!ReceiveEnabled(Rail!NewLink)
    BY DEF Rail!NewLink, Links, Stages, Rail!ReceiveEnabled
  <2>2. CASE /\ j_at = "detect" /\ detected' = ctl.present /\ ctl.present # detected
             /\ uart' = Rail!Disabled(uart) /\ link' = Rail!NewLink /\ due' = TRUE
             /\ half' = Rail!Neutral /\ j_at' = "read"
             /\ UNCHANGED <<quiet, j_wire, inbox, ctl, j_events>>
    BY <1>0, <2>1, <2>2, UartFacts DEF RInv, Railed, Detected, Armed, LetGo, Shown, Controllers
  <2>3. CASE /\ j_at = "detect" /\ j_at' = "read"
             /\ UNCHANGED <<detected, uart, link, due, half, quiet, j_wire, inbox, ctl>>
    BY <2>3 DEF RInv, Railed, Detected, Armed, LetGo
  <2>. QED
    BY <1>1, <2>2, <2>3 DEF Rail!Detect
<1>2. CASE Rail!Wake
  BY <1>2 DEF RInv, Railed, Detected, Armed, LetGo, Rail!Wake
<1>3. CASE Rail!Read
  <2>1. /\ j_at = "read" /\ j_at' = (IF detected THEN "act" ELSE "sleep")
        /\ UNCHANGED <<detected, inbox, ctl>>
    BY <1>3 DEF Rail!Read
  <2>2. CASE uart.errors
    <3>1. /\ uart' = Rail!Disabled(uart) /\ j_wire' = << >> /\ UNCHANGED <<quiet, half, ctl>>
          /\ \/ detected /\ link' = Rail!Failed(link) /\ due' = FALSE
             \/ ~detected /\ UNCHANGED <<link, due>>
      BY <1>3, <2>2 DEF Rail!Read, Rail!ReadError
    <3>2. j_wire' \in Seq(Words) /\ uart' \in Uarts /\ ~uart'.on
      BY <1>0, <3>1, UartFacts
    <3>3. /\ link' \in Links /\ due' \in BOOLEAN /\ ~Rail!ReceiveEnabled(link')
          /\ (~detected => link' = link)
      BY <1>0, <3>1, LinkFacts DEF RInv, Railed, Detected
    <3>. QED
      BY <2>1, <3>1, <3>2, <3>3 DEF RInv, Railed, Detected, Armed, LetGo
  <2>3. CASE ~uart.errors /\ uart.queue = << >>
    BY <1>3, <2>1, <2>3 DEF RInv, Railed, Detected, Armed, LetGo, Rail!Read
  <2>4. CASE ~uart.errors /\ uart.queue # << >>
    <3>. DEFINE p == Head(uart.queue)
    <3>1. p \in Words /\ Tail(uart.queue) \in Seq(Words)
      BY <1>0, <2>4 DEF Uarts
    <3>2. uart' = [uart EXCEPT !.queue = Tail(@)] /\ j_wire' = j_wire
      BY <1>3, <2>4 DEF Rail!Read
    <3>3. uart' \in Uarts /\ uart'.on = uart.on /\ uart'.waker = uart.waker
          /\ uart'.errors = uart.errors
      BY <1>0, <3>1, <3>2 DEF Uarts
    <3>4. CASE ~detected
      BY <1>3, <2>1, <2>4, <3>2, <3>3, <3>4
         DEF RInv, Railed, Detected, Armed, LetGo, Rail!Read
    <3>5. CASE detected
      <4>1. /\ link' = Rail!Received(link, p) /\ due' \in BOOLEAN /\ quiet' \in {0, quiet}
            /\ half' = IF Rail!IsReport(link, p) THEN p ELSE half
        BY <1>3, <2>4, <3>5 DEF RInv, Railed, Rail!Read
      <4>2. link' \in Links /\ Rail!ReceiveEnabled(link') = Rail!ReceiveEnabled(link)
        BY <1>0, <3>1, <4>1, LinkFacts
      <4>3. half' \in Shown
        BY <4>1 DEF RInv, Railed, Shown, Rail!IsReport
      <4>. QED
        BY <2>1, <3>2, <3>3, <3>5, <4>1, <4>2, <4>3 DEF RInv, Railed, Detected, Armed, LetGo
    <3>. QED
      BY <3>4, <3>5
  <2>. QED
    BY <2>2, <2>3, <2>4
<1>. QED
  BY <1>1, <1>2, <1>3

\* A link that goes down takes receive and its buttons along.
LEMMA RailActs ==
  ASSUME RInv, Rail!Act
  PROVE  RInv'
<1>. USE DEF Initializing, Working
<1>. DEFINE dead == IF link.stage = "Ready" /\ Rail!Silent(2) THEN Rail!Failed(link) ELSE link
            shown == IF Rail!Stale THEN Rail!Neutral ELSE half
            n == Rail!NextAction(link)
            moved == Rail!Sent(uart, n[2])
            sent == IF n[2] = "start" THEN Rail!Enabled(moved) ELSE moved
<1>0. /\ link \in Links /\ uart \in Uarts /\ j_wire \in Seq(Words) /\ quiet \in 0..2
      /\ half \in Shown /\ detected /\ due \in BOOLEAN /\ inbox \in Words /\ ctl \in Controllers
      /\ (Rail!ReceiveEnabled(link) => uart.waker /\ (uart.on \/ uart.errors))
  BY DEF RInv, Railed, Detected, Armed, Rail!Act
<1>1. shown \in Shown /\ (shown # Rail!Neutral => link.stage = "Ready" /\ quiet = 0)
  BY <1>0 DEF Shown, Rail!Stale, Rail!Silent
<1>2. j_at' = "sleep" /\ UNCHANGED <<quiet, detected, ctl>>
  BY DEF Rail!Act
<1>3. CASE ~due \/ dead # link
  <2>1. /\ link' = dead /\ due' \in BOOLEAN /\ half' = shown /\ uart' = Rail!End(dead, uart)
        /\ UNCHANGED <<inbox, j_wire>>
    BY <1>0, <1>3 DEF Rail!Act
  <2>2. dead \in Links /\ (Rail!ReceiveEnabled(dead) => dead = link)
        /\ (dead # link => quiet = 2)
    BY <1>0, LinkFacts DEF Rail!Silent
  <2>. HIDE DEF dead, shown
  <2>. QED
    BY <1>0, <1>1, <1>2, <2>1, <2>2, UartFacts
       DEF RInv, Railed, Detected, Armed, LetGo, Rail!End
<1>4. CASE ~(~due \/ dead # link)
  <2>1. /\ n[1] \in Links /\ n[2] \in Words \cup {"start", "fast", "none"}
        /\ (~Rail!ReceiveEnabled(link) => n[1].stage = "Handshake" /\ n[2] = "start")
        /\ (Rail!ReceiveEnabled(link) => n[2] # "start")
        /\ (Rail!ReceiveEnabled(link) =>
              Rail!ReceiveEnabled(n[1]) \/ (n[1].stage = "Backoff" /\ n[2] = "none"))
        /\ (link.stage = "Ready" => n[1].stage = "Ready")
    BY <1>0, NextFacts
  <2>2. /\ j_wire' = Rail!Line(n[2])
        /\ \/ /\ link' = n[1] /\ due' \in BOOLEAN /\ half' = shown
              /\ inbox' = Rail!Deliver(n[2]) /\ uart' = Rail!End(n[1], sent)
           \/ /\ link' = Rail!Failed(n[1]) /\ due' = FALSE /\ half' = Rail!Neutral
              /\ uart' = Rail!Disabled(sent) /\ UNCHANGED inbox
    BY <1>4 DEF Rail!Act
  <2>. HIDE DEF n, shown, dead
  <2>3. /\ moved \in Uarts /\ Rail!Deliver(n[2]) \in Words /\ Rail!Line(n[2]) \in Seq(Words)
        /\ moved.waker = uart.waker
        /\ (moved = uart \/ (moved.on = uart.waker /\ ~moved.errors))
    BY <2>1, SentFacts
  <2>. HIDE DEF moved
  <2>4. sent \in Uarts /\ (n[2] = "start" => sent.on /\ sent.waker)
        /\ (n[2] # "start" => sent = moved)
    BY <2>3, UartFacts
  <2>. HIDE DEF sent
  <2>5. CASE /\ link' = n[1] /\ due' \in BOOLEAN /\ half' = shown
             /\ inbox' = Rail!Deliver(n[2]) /\ uart' = Rail!End(n[1], sent)
    <3>1. Rail!ReceiveEnabled(n[1]) => sent.waker /\ (sent.on \/ sent.errors)
      BY <1>0, <2>1, <2>3, <2>4
    <3>2. uart' \in Uarts /\ (Rail!ReceiveEnabled(n[1]) => uart' = sent)
          /\ (~Rail!ReceiveEnabled(n[1]) => ~uart'.on)
      BY <2>4, <2>5, UartFacts DEF Rail!End
    <3>3. shown # Rail!Neutral => n[1].stage = "Ready"
      BY <1>1, <2>1
    <3>. QED
      BY <1>0, <1>1, <1>2, <2>1, <2>2, <2>3, <2>5, <3>1, <3>2, <3>3
         DEF RInv, Railed, Detected, Armed, LetGo
  <2>6. CASE /\ link' = Rail!Failed(n[1]) /\ due' = FALSE /\ half' = Rail!Neutral
             /\ uart' = Rail!Disabled(sent) /\ UNCHANGED inbox
    <3>1. link' \in Links /\ ~Rail!ReceiveEnabled(link') /\ uart' \in Uarts /\ ~uart'.on
      BY <2>1, <2>4, <2>6, LinkFacts, UartFacts
    <3>. QED
      BY <1>0, <1>2, <2>2, <2>3, <2>6, <3>1 DEF RInv, Railed, Detected, Armed, LetGo, Shown
  <2>. QED
    BY <2>2, <2>5, <2>6
<1>. QED
  BY <1>3, <1>4

\* The interrupt handler masks receive only behind an error, and neither time nor
\* the controller touch the rail.
LEMMA RailOutside ==
  ASSUME RInv,
         \/ Rail!Interrupt \/ Rail!Due \/ Rail!Silence \/ Rail!Plug \/ Rail!Unheard
         \/ Rail!Dropped \/ (\E lost \in BOOLEAN : Rail!Answer(lost))
  PROVE  RInv'
<1>. USE DEF Initializing, Working
<1>0. link \in Links /\ uart \in Uarts /\ j_wire \in Seq(Words) /\ inbox \in Words
  BY DEF RInv, Railed
<1>1. CASE Rail!Interrupt
  <2>1. Head(j_wire) \in Words /\ Tail(j_wire) \in Seq(Words)
    BY <1>0, <1>1 DEF Rail!Interrupt
  <2>2. \/ uart' = [uart EXCEPT !.errors = TRUE, !.on = FALSE]
        \/ uart' = [uart EXCEPT !.queue = Append(@, Head(j_wire))]
    BY <1>1 DEF Rail!Interrupt, Rail!Drained
  <2>3. uart' \in Uarts /\ uart'.waker = uart.waker /\ (uart'.on => uart.on)
        /\ (uart'.on \/ uart'.errors)
    <3>1. uart.on /\ uart \in Uarts /\ uart.queue \in Seq(Words)
      BY <1>0, <1>1 DEF Uarts, Rail!Interrupt
    <3>2. CASE uart' = [uart EXCEPT !.errors = TRUE, !.on = FALSE]
      BY <3>1, <3>2 DEF Uarts
    <3>3. CASE uart' = [uart EXCEPT !.queue = Append(@, Head(j_wire))]
      <4>1. Append(uart.queue, Head(j_wire)) \in Seq(Words)
        BY <2>1, <3>1
      <4>. QED
        BY <3>1, <3>3, <4>1 DEF Uarts
    <3>. QED
      BY <2>2, <3>2, <3>3
  <2>4. j_at \notin Initializing
    BY <1>1 DEF RInv, Armed, Rail!Interrupt
  <2>. QED
    BY <1>1, <2>1, <2>3, <2>4 DEF RInv, Railed, Detected, Armed, LetGo, Rail!Interrupt
<1>2. CASE Rail!Due \/ Rail!Silence
  <2>1. quiet' \in 0..2 /\ due' \in BOOLEAN
    <3>1. CASE Rail!Due
      BY <3>1 DEF RInv, Railed, Rail!Due
    <3>2. CASE Rail!Silence
      BY <3>2 DEF RInv, Railed, Rail!Silence
    <3>. QED
      BY <1>2, <3>1, <3>2
  <2>2. UNCHANGED <<j_at, link, detected, uart, half, j_wire, inbox, ctl>>
    BY <1>2 DEF Rail!Due, Rail!Silence
  <2>. QED
    BY <2>1, <2>2 DEF RInv, Railed, Detected, Armed, LetGo
<1>5. CASE Rail!Unheard \/ Rail!Dropped
  <2>1. j_wire' \in {j_wire, << >>} /\ inbox' \in {inbox, Rail!Nothing}
    BY <1>5 DEF Rail!Unheard, Rail!Dropped
  <2>2. j_wire' \in Seq(Words) /\ inbox' \in Words
    <3>1. << >> \in Seq(Words) /\ Rail!Nothing \in Words
      BY DEF Words
    <3>. QED
      BY <1>0, <2>1, <3>1
  <2>3. UNCHANGED <<j_at, link, due, quiet, detected, uart, half, ctl>>
    BY <1>5 DEF Rail!Unheard, Rail!Dropped
  <2>. QED
    BY <2>2, <2>3 DEF RInv, Railed, Detected, Armed, LetGo
<1>3. CASE Rail!Plug
  <2>1. inbox' \in Words /\ ctl' \in Controllers
    BY <1>0, <1>3 DEF RInv, Railed, Words, Controllers, Rail!Plug, Rail!Absent
  <2>2. j_wire' \in Seq(Words)
    <3>1. "noise" \in Words
      BY DEF Words
    <3>. QED
      BY <1>0, <1>3, <3>1 DEF Rail!Plug
  <2>. QED
    BY <1>3, <2>1, <2>2 DEF RInv, Railed, Detected, Armed, LetGo, Rail!Plug
<1>4. CASE \E lost \in BOOLEAN : Rail!Answer(lost)
  <2>1. j_wire' \in Seq(Words) /\ inbox' \in Words
    <3>1. PICK lost \in BOOLEAN : Rail!Answer(lost)
      BY <1>4
    <3>2. inbox' = Rail!Nothing
      BY <3>1 DEF Rail!Answer
    <3>3. j_wire' = j_wire \/ \E p \in Words : j_wire' = Append(j_wire, p)
      <4>1. CASE lost
        BY <3>1, <4>1 DEF Rail!Answer
      <4>2. CASE ~lost
        <5>1. \E p \in IF inbox # "poll" THEN {inbox}
                       ELSE IF ctl.hid THEN {"up", "down"} ELSE {} : j_wire' = Append(j_wire, p)
          BY <3>1, <4>2 DEF Rail!Answer
        <5>. QED
          BY <1>0, <5>1 DEF Words
      <4>. QED
        BY <4>1, <4>2
    <3>. QED
      BY <1>0, <3>2, <3>3 DEF Words
  <2>2. ctl' \in Controllers
    BY <1>4 DEF RInv, Railed, Controllers, Rail!Answer
  <2>. QED
    BY <1>4, <2>1, <2>2 DEF RInv, Railed, Detected, Armed, LetGo, Rail!Answer
<1>. QED
  BY <1>1, <1>2, <1>3, <1>4, <1>5

\* Every step keeps the invariant.
LEMMA RailNext ==
  ASSUME RInv, [Rail!Next]_(Rail!vars)
  PROVE  RInv'
<1>1. CASE UNCHANGED Rail!vars
  BY <1>1 DEF Rail!vars, RInv, Railed, Detected, Armed, LetGo
<1>. QED
  BY <1>1, RailInitialize, RailReads, RailActs, RailOutside DEF Rail!Next, Rail!Worker

\* The other parts of the run leave the rail alone.
LEMMA RailPart == PlatformSpec => Rail!Init /\ [][Rail!Next]_(Rail!vars)
<1>1. PlatformInit => Rail!Init
  BY DEF PlatformInit
<1>2. [PlatformNext]_all => [Rail!Next]_(Rail!vars)
  <2>1. CASE RailOnly /\ Rail!Next
    BY <2>1
  <2>2. CASE UNCHANGED rail
    BY <2>2 DEF rail, Rail!vars
  <2>. QED
    BY <2>1, <2>2 DEF PlatformNext, all, GpioOnly, ChargeOnly, FanOnly, BusOnly, RailOnly
<1>. QED
  BY <1>1, <1>2, PTL DEF PlatformSpec

\* Whenever the worker sleeps, a link that expects replies has receive armed or an
\* error waiting, one that is down has it masked, and no button of it is held.
THEOREM RailIsSafe == PlatformSpec => []RailSafe
<1>1. RInv => Rail!ReceiveArmed /\ Rail!QuietWhenDown /\ Rail!NothingHeldWhenDown
  BY DEF RInv, Armed, LetGo, Working, Rail!ReceiveArmed, Rail!QuietWhenDown,
     Rail!NothingHeldWhenDown
<1>. QED
  BY <1>1, RailInit, RailNext, RailPart, PTL DEF RailSafe
=============================================================================
