------------------------------ MODULE Thermal ------------------------------
(***************************************************************************)
(* Cooling bring-up (soc/tegra210 thermal.rs, soctherm.rs and the fan part *)
(* of runtime.rs; GPU probe of nvidia-gm20b).  Four probes publish the     *)
(* parts of two thermal zones in any order and on any CPU: the fan and the *)
(* TMP451 sensor form the skin zone, the SOCTHERM sensor and the GPU's     *)
(* frequency table the GPU zone.  Whoever finds a zone's parts complete    *)
(* registers it; the flag decides a tie.  The zone policy itself is the    *)
(* kernel's and is external.                                               *)
(***************************************************************************)
EXTENDS Naturals

Probes == {"fan", "sensor", "soctherm", "gpu"}
Zones == {"skin", "gpu"}
ZoneOf(p) == IF p \in {"fan", "sensor"} THEN "skin" ELSE "gpu"
Parts(z) == {p \in Probes: ZoneOf(p) = z}

VARIABLES
  pc,         \* where each probe is (probe, look, claim, register, ...)
  published,  \* probes whose part is in its static slot (FAN, SENSOR, GPU, devfreq)
  claimed,    \* ZONE_REGISTERED, GPU_ZONE_REGISTERED
  zones,      \* how often the kernel accepted each zone
  ready,      \* FAN_ZONE_READY
  refused,    \* the kernel refused a registration of the zone
  pwm,        \* duty of PWM1, the runtime's FAN mapping and the 5-V rail
  chip,       \* TMP451: what configure has put in place
  power       \* the GPU is powered

vars == <<pc, published, claimed, zones, ready, refused, pwm, chip, power>>

Set == {"limits", "rate", "running"}   \* what configure establishes

Init ==
  /\ pc = [p \in Probes |-> "probe"]
  /\ published = {}
  /\ claimed = [z \in Zones |-> FALSE] /\ refused = [z \in Zones |-> FALSE]
  /\ zones = [z \in Zones |-> 0]
  /\ ready = FALSE /\ power = FALSE
  /\ pwm = [duty |-> "inherited", mapped |-> FALSE]
  /\ chip \in SUBSET {"running"}

Goto(p, where) == pc' = [pc EXCEPT ![p] = where]

---------------------------------------------------------------------------
(* Providers                                                               *)

\* enable_cooling_fan and probe_fan: check the wiring and the shared PWM clock,
\* stop the fan, verify the readback (restoring the inherited duty otherwise),
\* route the pins, switch the rail on, then publish.
ProbeFan ==
  /\ pc["fan"] = "probe"
  /\ \/ /\ Goto("fan", "failed")                  \* wiring, clock or readback
        /\ UNCHANGED <<published, pwm>>
     \/ /\ Goto("fan", "failed")                  \* pad, pin or rail
        /\ pwm' = [pwm EXCEPT !.duty = "off"]
        /\ UNCHANGED published
     \/ /\ pwm' = [duty |-> "off", mapped |-> TRUE]
        /\ published' = published \cup {"fan"}
        /\ Goto("fan", "look")
  /\ UNCHANGED <<claimed, zones, ready, refused, chip, power>>

\* Tmp451::configure: every write may be lost on the bus or not take; limits
\* and rate are read back, and conversion is resumed if it was stopped.
Configured(took) == took = Set

ProbeSensor ==
  /\ pc["sensor"] = "probe"
  /\ \E took \in SUBSET Set:
       /\ chip' = chip \cup took
       /\ IF Configured(chip')
          THEN published' = published \cup {"sensor"} /\ Goto("sensor", "look")
          ELSE UNCHANGED published /\ Goto("sensor", "failed")
  /\ UNCHANGED <<claimed, zones, ready, refused, pwm, power>>

\* soctherm probe: fuse calibration of all eight sensors, clocks, programming,
\* then up to 500 samples until the first valid one.
ProbeSoctherm ==
  /\ pc["soctherm"] = "probe"
  /\ \/ Goto("soctherm", "failed") /\ UNCHANGED published
     \/ Goto("soctherm", "look") /\ published' = published \cup {"soctherm"}
  /\ UNCHANGED <<claimed, zones, ready, refused, pwm, chip, power>>

\* The GPU probe defers until cooling_fan_ready(); its frequency table may be
\* refused, which leaves the GPU at its boot rate.
CoolingFanReady == pwm.mapped /\ ready
ProbeGpu ==
  /\ pc["gpu"] = "probe"
  /\ CoolingFanReady
  /\ power' = TRUE
  /\ \/ Goto("gpu", "done") /\ UNCHANGED published
     \/ Goto("gpu", "look") /\ published' = published \cup {"gpu"}
  /\ UNCHANGED <<claimed, zones, ready, refused, pwm, chip>>

---------------------------------------------------------------------------
(* maybe_register_zone and maybe_register_gpu_zone                         *)

\* Both parts there?
LookMut(p) ==
  /\ pc[p] = "look"
  /\ Goto(p, IF p = "sensor" /\ Parts("skin") \subseteq published THEN "claim" ELSE "done")
  /\ UNCHANGED <<published, claimed, zones, ready, refused, pwm, chip, power>>
Look(p) ==
  /\ pc[p] = "look"
  /\ Goto(p, IF Parts(ZoneOf(p)) \subseteq published THEN "claim" ELSE "done")
  /\ UNCHANGED <<published, claimed, zones, ready, refused, pwm, chip, power>>

\* compare_exchange on the zone's flag.
Claim(p) ==
  /\ pc[p] = "claim"
  /\ Goto(p, IF claimed[ZoneOf(p)] THEN "done" ELSE "register")
  /\ claimed' = [claimed EXCEPT ![ZoneOf(p)] = TRUE]
  /\ UNCHANGED <<published, zones, ready, refused, pwm, chip, power>>

\* thermal::register_zone accepts the zone, and its policy sets the cooler from
\* a first sample, or refuses it.
Register(p) ==
  /\ pc[p] = "register"
  /\ \/ /\ zones' = [zones EXCEPT ![ZoneOf(p)] = @ + 1]
        /\ pwm' = IF ZoneOf(p) = "skin" THEN [pwm EXCEPT !.duty = "policy"] ELSE pwm
        /\ Goto(p, IF ZoneOf(p) = "skin" THEN "ready" ELSE "done")
        /\ UNCHANGED refused
     \/ /\ Goto(p, "undo")
        /\ refused' = [refused EXCEPT ![ZoneOf(p)] = TRUE]
        /\ UNCHANGED <<zones, pwm>>
  /\ UNCHANGED <<published, claimed, ready, chip, power>>

Ready(p) ==
  /\ pc[p] = "ready"
  /\ ready' = TRUE
  /\ Goto(p, "done")
  /\ UNCHANGED <<published, claimed, zones, refused, pwm, chip, power>>

\* A refusal gives the claim back; the skin zone's fan then goes to full duty.
Undo(p) ==
  /\ pc[p] = "undo"
  /\ claimed' = [claimed EXCEPT ![ZoneOf(p)] = FALSE]
  /\ Goto(p, IF ZoneOf(p) = "skin" THEN "failsafe" ELSE "failed")
  /\ UNCHANGED <<published, zones, ready, refused, pwm, chip, power>>
FailSafe(p) ==
  /\ pc[p] = "failsafe"
  /\ pwm' = [pwm EXCEPT !.duty = "full"]
  /\ Goto(p, "failed")
  /\ UNCHANGED <<published, claimed, zones, ready, refused, chip, power>>

Next ==
  \/ ProbeFan \/ ProbeSensor \/ ProbeSoctherm \/ ProbeGpu
  \/ \E p \in Probes: Look(p) \/ Claim(p) \/ Register(p) \/ Ready(p) \/ Undo(p) \/ FailSafe(p)

Fairness == WF_vars(Next)
Spec == Init /\ [][Next]_vars /\ Fairness

---------------------------------------------------------------------------
(* Properties                                                              *)

Ended(p) == pc[p] \in {"done", "failed"}
Finished(z) == \A p \in Parts(z): Ended(p)

\* Two probes that complete a zone together never register it twice.
OneZone == \A z \in Zones: zones[z] <= 1

\* Whichever probe publishes last registers the zone: with both parts there and
\* no refusal, both probes do not return with the zone unregistered.
ZoneNotForgotten ==
  \A z \in Zones:
    Finished(z) /\ Parts(z) \subseteq published /\ ~refused[z] => zones[z] = 1

\* Parts that are there, but no zone to drive them: the fan runs at full duty.
UncontrolledFanIsFull ==
  Finished("skin") /\ Parts("skin") \subseteq published /\ zones["skin"] = 0
    => pwm.duty = "full"

\* The GPU is powered only under a live skin zone fed by a sensor whose limits,
\* rate and conversion were all verified.
GpuNeverUncooled == power => zones["skin"] > 0 /\ chip = Set

\* One of the racing probes registers a zone and none forgets it; a fan or a GPU
\* without a controlling zone runs at full duty or not at all (thermal.rs).
ThermalSafe == OneZone /\ ZoneNotForgotten /\ UncontrolledFanIsFull /\ GpuNeverUncooled

\* Once fan and sensor are there the fan does not stay stopped: it comes under
\* the zone, which then lets the GPU start, or goes to full duty.
FanDecided == Parts("skin") \subseteq published ~> (CoolingFanReady \/ pwm.duty = "full")
=============================================================================
