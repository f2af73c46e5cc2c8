------------------------------ MODULE GpuPower ------------------------------
(***************************************************************************)
(* Bring-up of the GM20B and its rollback: probe() of runtime.rs, the rail *)
(* and the platform fields it owns, the drop of Power, the completion      *)
(* interrupt, and the loss of a registered device.  Every register write   *)
(* that is read back may turn out not to have taken, and every stage may   *)
(* fail.                                                                   *)
(***************************************************************************)
EXTENDS Naturals, Sequences

CONSTANT MaxProbes  \* bound: calls of probe()

VARIABLES
  at,        \* step of probe(), of the drop of Power, or of the running backend
  before,    \* platform_before: inherited clamp and reset
  clamp,     \* GPU_CLAMP is set
  reset,     \* the GPU reset is asserted
  rail,      \* "before", "moving" while a write may have been the last, or "up"
  dma,       \* Power::dma
  inflight,  \* the memory client of the GPU may have accesses to those pages
  irq,       \* Completion::enabled
  isr,       \* claim_interrupt holds the lock and uses the registers
  probes

vars == <<at, before, clamp, reset, rail, dma, inflight, irq, isr, probes>>
platform == <<before, clamp, reset, rail>>

\* The order of probe(), from the first change of power to the backend.
Stages == <<"isolate", "rail", "activate", "flush", "identify", "ring", "clock",
            "allocate", "pfifo", "bar1", "userd", "engine", "acr", "fecs", "golden", "ce",
            "host", "graphics", "verify", "irq", "backend", "registered">>

After(s) == Stages[CHOOSE i \in 2..Len(Stages) : Stages[i - 1] = s]

Init ==
  /\ before \in [clamp : BOOLEAN, reset : BOOLEAN]
  /\ clamp = before.clamp /\ reset = before.reset /\ rail = "before"
  /\ at = "off" /\ dma = "none" /\ inflight = FALSE /\ irq = FALSE /\ isr = FALSE
  /\ probes = 0

----------------------------------------------------------------------------
(* probe(). *)

Done(s) == at' = After(s)
Failed == at' = "drop"

\* The checks of the wiring and of the firmware change nothing; with a snapshot
\* of the platform and the rail, power is changed from here on.
Acquire ==
  /\ at = "off" /\ probes < MaxProbes
  /\ probes' = probes + 1
  /\ \/ at' = "isolate" /\ before' = [clamp |-> clamp, reset |-> reset]
     \/ UNCHANGED <<at, before>>
  /\ UNCHANGED <<clamp, reset, rail, dma, inflight, irq, isr>>

\* platform.isolate(): the clamp, then the reset, then both are read back.
isolate(good, bad) ==
  /\ clamp' \in {TRUE, clamp} /\ reset' \in {TRUE, reset}
  /\ at' = IF clamp' /\ reset' THEN good ELSE bad

Isolate ==
  /\ at = "isolate"
  /\ isolate(After(at), "drop")
  /\ UNCHANGED <<before, rail, dma, inflight, irq, isr, probes>>

\* Both voltage banks, then the enable pin; a failure stops anywhere between.
RailEnable ==
  /\ at = "rail"
  /\ \/ rail' = "up" /\ Done(at)
     \/ rail' \in {"moving", rail} /\ Failed
  /\ UNCHANGED <<before, clamp, reset, dma, inflight, irq, isr, probes>>

\* The read-back after the clamp and the reset are released may still fail.
Activate ==
  /\ at = "activate"
  /\ \/ clamp' = FALSE /\ reset' = FALSE /\ Done(at)
     \/ clamp' \in BOOLEAN /\ reset' \in BOOLEAN /\ Failed
  /\ UNCHANGED <<before, rail, dma, inflight, irq, isr, probes>>

\* A stage that gives the hardware no address of the driver's pages.
Plain(s) ==
  /\ at = s
  /\ Done(at) \/ Failed
  /\ UNCHANGED <<platform, dma, inflight, irq, isr, probes>>

\* A stage that does: a failure may come before or after the address.
Publishing(s) ==
  /\ at = s
  /\ \/ inflight' = TRUE /\ Done(at)
     \/ inflight' \in {TRUE, inflight} /\ Failed
  /\ UNCHANGED <<platform, dma, irq, isr, probes>>

FlushMc == Plain("flush")
Identify == Plain("identify")
HardwareInit == Plain("ring")
ClockInit == Plain("clock")

\* Power owns the pages before the hardware learns of any of them.
Allocate ==
  /\ at = "allocate"
  /\ \/ dma' = "owned" /\ Done(at)
     \/ UNCHANGED dma /\ Failed
  /\ UNCHANGED <<platform, inflight, irq, isr, probes>>

ResetFifo == Plain("pfifo")
GmmuInit == Publishing("bar1")
FifoHardware == Publishing("userd")
GrRegisters == Plain("engine")
BootAcr == Publishing("acr")
BootFecs == Publishing("fecs")
GoldenContext == Publishing("golden")
CopyEngines == Plain("ce")
ProveHost == Publishing("host")
BindGraphics == Publishing("graphics")
VerifyGraphics == Publishing("verify")

\* unmask_source(): without a working interrupt completion is polled.
EnableIrq ==
  /\ at = "irq"
  /\ irq' \in BOOLEAN /\ Done(at)
  /\ UNCHANGED <<platform, dma, inflight, isr, probes>>

\* Backend::new and register_gpu_control_device; a backend that cannot be
\* registered is dropped with its Power.
Register == Plain("backend")

----------------------------------------------------------------------------
(* Completion: the handler and disable() exclude each other by the lock. *)

IsrEnter ==
  /\ irq /\ ~isr
  /\ isr' = TRUE
  /\ UNCHANGED <<at, platform, dma, inflight, irq, probes>>

\* An unreadable source is masked.
IsrLeave ==
  /\ isr
  /\ isr' = FALSE /\ irq' \in {irq, FALSE}
  /\ UNCHANGED <<at, platform, dma, inflight, probes>>

disable == ~isr /\ irq' = FALSE

----------------------------------------------------------------------------
(* State::fault() of a registered backend. *)

FaultIrq ==
  /\ at = "registered"
  /\ disable /\ at' = "fault"
  /\ UNCHANGED <<platform, dma, inflight, isr, probes>>

\* A device that cannot be isolated keeps its pages for good.
FaultIsolate ==
  /\ at = "fault"
  /\ isolate("lost", "lost")
  /\ UNCHANGED <<before, rail, dma, inflight, irq, isr, probes>>

----------------------------------------------------------------------------
(* Drop of Power. *)

DropIrq ==
  /\ at = "drop"
  /\ (IF dma = "none" THEN UNCHANGED irq ELSE disable)
  /\ at' = "drop isolate"
  /\ UNCHANGED <<platform, dma, inflight, isr, probes>>

\* Isolation that fails keeps the pages and leaves the rail alone.
DropIsolate ==
  /\ at = "drop isolate"
  /\ isolate("drop flush", "stuck")
  /\ dma' = IF at' = "stuck" /\ dma = "owned" THEN "forgotten" ELSE dma
  /\ UNCHANGED <<before, rail, inflight, irq, isr, probes>>

\* flush_mc(): only a drained client gives its pages back.
DropFlush ==
  /\ at = "drop flush"
  /\ \/ /\ dma = "none" /\ at' = "drop rail" /\ UNCHANGED <<dma, inflight>>
     \/ /\ dma = "owned"
        /\ \/ inflight' = FALSE /\ dma' = "freed" /\ at' = "drop rail"
           \/ inflight' = inflight /\ dma' = "forgotten" /\ at' = "isolated"
  /\ UNCHANGED <<platform, irq, isr, probes>>

DropRail ==
  /\ at = "drop rail"
  /\ \/ rail' = "before" /\ at' = "drop platform"
     \/ rail' = "moving" /\ at' = "isolated"
  /\ UNCHANGED <<before, clamp, reset, dma, inflight, irq, isr, probes>>

DropPlatform ==
  /\ at = "drop platform"
  /\ \/ /\ reset' = before.reset /\ clamp' = before.clamp /\ at' = "restored"
     \/ reset' \in BOOLEAN /\ clamp' \in BOOLEAN /\ at' = "mismatch"
  /\ UNCHANGED <<before, rail, dma, inflight, irq, isr, probes>>

\* A failed probe may be tried again with the platform as it was left.
Retry ==
  /\ at \in {"restored", "mismatch"} /\ probes < MaxProbes
  /\ at' = "off" /\ dma' = "none"
  /\ UNCHANGED <<platform, inflight, irq, isr, probes>>

----------------------------------------------------------------------------

Probe ==
  \/ Isolate \/ RailEnable \/ Activate \/ FlushMc \/ Identify \/ HardwareInit \/ ClockInit
  \/ Allocate \/ ResetFifo \/ GmmuInit \/ FifoHardware \/ GrRegisters \/ BootAcr
  \/ BootFecs \/ GoldenContext \/ CopyEngines \/ ProveHost \/ BindGraphics
  \/ VerifyGraphics \/ EnableIrq \/ Register

Rollback == DropIrq \/ DropIsolate \/ DropFlush \/ DropRail \/ DropPlatform

Next ==
  \/ Acquire \/ Probe \/ Rollback \/ Retry
  \/ FaultIrq \/ FaultIsolate \/ IsrEnter \/ IsrLeave

\* probe() and the drop run to their end; a handler leaves.
Fairness == WF_vars(Probe) /\ SF_vars(DropIrq) /\ WF_vars(Rollback) /\ WF_vars(IsrLeave)

Spec == Init /\ [][Next]_vars /\ Fairness

----------------------------------------------------------------------------

Ends == {"registered", "fault", "lost", "stuck", "isolated", "restored", "mismatch"}

TypeOK ==
  /\ at \in {Stages[i] : i \in 1..Len(Stages)} \cup Ends
            \cup {"off", "drop", "drop isolate", "drop flush", "drop rail", "drop platform"}
  /\ before \in [clamp : BOOLEAN, reset : BOOLEAN]
  /\ {clamp, reset, inflight, irq, isr} \subseteq BOOLEAN
  /\ rail \in {"before", "moving", "up"} /\ dma \in {"none", "owned", "forgotten", "freed"}
  /\ probes \in 0..MaxProbes
  /\ irq => dma = "owned"

\* "Never change the voltage of an executing inherited GPU": the rail moves only
\* with the GPU clamped and in reset, on the way up and on the way back.
RailMovesIsolated == [][rail' # rail => clamp /\ reset]_vars

\* A GPU that is not isolated has a rail that was brought all the way up, or the
\* one it was inherited with.
ReleasedOnKnownRail == rail = "moving" => clamp /\ reset

\* Pages the memory client may still access are never returned, whatever stage
\* fails and however isolation and the drain go.
PagesOutliveDma == inflight => dma \in {"owned", "forgotten"}

\* The interrupt handler never touches a GPU that fault() or the rollback has
\* taken off the bus.
HandlerFindsPower == isr => ~(clamp \/ reset)

\* A rollback ends with everything as inherited, or says it did not.
RollbackIsExact ==
  /\ at = "restored" => rail = "before" /\ clamp = before.clamp /\ reset = before.reset
  /\ at = "isolated" => clamp /\ reset
  /\ at \in {"restored", "isolated", "stuck"} => ~irq

\* Every probe ends, registered or rolled back.
ProbeEnds == (at = "isolate") ~> at \in Ends
=============================================================================
