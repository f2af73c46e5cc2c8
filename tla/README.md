# Verification of the Switch board drivers

This directory holds TLA+ specifications of the board drivers, rendering
backend and shader compiler in `src/`, the TLC configurations that model-check
them, and theorems about them that TLAPS checks.

Contents: [the system](#the-system), [modules](#modules), [runs](#runs),
[bounds](#bounds), [fairness](#fairness), [proofs](#proofs),
[what is only model-checked](#what-is-only-model-checked),
[where code and documentation disagree](#where-code-and-documentation-disagree),
[assumptions and abstractions](#assumptions-and-abstractions),
[what is not modelled](#what-is-not-modelled), [plan](#plan).

## The system

The repository is the board support for running the Scarlet kernel on a
Tegra X1 console: out-of-tree drivers (`drivers/`), wire formats and a shader
compiler shared with user space (`shared/`), the SGFX rendering backend
(`userspace/`), and boot scripts. The kernel itself (scheduler, `Waker`,
interrupt dispatch, the common xHCI and wireless stacks, the generic GPU core)
is another repository; what the drivers use of it appears in the modules as
external.

| Component | State | Operations | Hard part |
| --- | --- | --- | --- |
| USB-PD handoff, `pd.rs` | phase, orientation, captured alert bits, permission to charge, two deadlines | `capture_alert`, `poll`, `command`, `wait`, `host_handoff`, `unchanged_contract` | `ALERT` is read-clear and has three readers; every I2C transaction can fail; the partner acts between any two |
| Type-C source policy, `typec.rs` | fault latch, saved charger mode, settling interval, initialisation phase | `monitor`, `poll_host_ready`, `stop_sourcing`, `poll_with_alert` | boost is switched by several writes of which any can fail; a fault is reported once |
| Charging, `charger.rs` | scheduled and running job, phase of the ramp, applied contract | `schedule`, `poll`, `begin`, `ramp`, `cancel` | a cancel, a failing write or a new contract at every register of the ramp |
| XUSB host tasks, `runtime.rs` | six `AtomicBool` flags, the Falcon lock, two wakers | `typec_monitor`, `worker`, `mailbox_worker` | flags are loaded several times in one pass while other tasks store them |
| XUSB power, clocks and PHY, `xusb.rs`, `xusb_phy.rs`, `falcon.rs` | supplies, clocks, partitions, drain, PHY, firmware image | `activate`, `boot`, `isolate` | forty handshakes, each may fail half way; some hardware is shared or inherited |
| Falcon mailbox, `mailbox.rs` | `claimed`, `pending`, `fault` | `capture`, `service`, `service_fast`, `send` | a claim nobody waits for; the firmware takes the mailbox between check and write |
| GPIO interrupts, `gpio_irq.rs` | enable and status registers, `pending` per child | `claim`, `quiesce`, `mask`, `rearm` | the line moves between any two register accesses |
| I2C controller, `packet.rs`, SoC `runtime.rs` | packet FIFO, bus lines | `transfer`, recovery | a failed transaction leaves headers queued or SDA held |
| Thermal, `thermal.rs`, `soctherm.rs` | published parts of two zones, fan duty, GPU rail | four probes | whoever completes a zone registers it, once |
| Joy-Con rail, `protocol.rs`, `runtime.rs`, `uart_rx.rs` | link state, receive queue, held buttons | worker, receive interrupt | a pulled controller sends no release |
| Wi-Fi (`brcmfmac`) | message rings, buffers, one control transaction, request, event and TX queues, links, flows, interrupt token | `command`, `submit`, `send`, worker loop, `wait_activity` | ring indices, late and repeated completions, epochs, key after handshake |
| GPU driver (GM20B) | request queue, pins, address space and translation cache, FIFO, power | `submit`, `enqueue`, `reserve_cpu`, `probe`, `map`, `release` | loss of the device, rollback, late completion |
| SGFX backend | jobs of chunks, fences, wake pipe, resource cache | `enqueue`, `advance`, `retire`, `prepare`, `detach` | failure of one chunk, lost wake-ups, splitting a pass, reused slots |
| Shader compiler and verifier | none (pure passes) | lowering, copy propagation, legalization, barriers, encoding, verification | encodings without room for an operand; six scoreboard barriers; a re-convergence stack |
| Image layout | plan, modifier | create, upload, copy, blit, read back | the layout is derived four times |
| Video decoder (NVDEC) | session, picture slots, DPB, surfaces, lease | open, submit, dequeue, flush, close | isolation may fail with the engine writing |
| Display, audio, CPU frequency, touch, PMIC, RTC, battery, PCIe, RNG, SD | device registers | register programming | mostly straight-line |

Interactions inside the USB host:

```
 GPIO line --> bank handler --> pending, wake --> typec_monitor
                                                    | one pass
     startup worker (recheck) -- port lock --> Type-C policies -- I2C --> BM92T, BQ24193
            |                                       |
            | allow_connection, bound, phy_ready    | role
            v                                       v
      Host flags (AtomicBool)  <-->  PHY gate under the Falcon lock
            ^
            | failed, fault
      mailbox IRQ --> mailbox worker <--> Falcon firmware
```

and on the way of a picture:

```
 client --> prepare, split --> compile --> dispatcher --> GPU queue --> FIFO --> engines
               |                  |           ^  wake pipe    |           |
               v                  v           |               v           v
         resource cache     shader compiler   +-- fences <-- retirement   interrupt
               |                  |
               v                  v
         image layouts      program verifier (kernel)
```

The monitor and the startup worker of the USB host share the port under one
lock, so a pass of one never overlaps a pass of the other; the hardware
overlaps both. Everything else is shared through atomics that are loaded at
several points of one pass. After a pass the monitor sleeps until the GPIO
interrupt, a `wake_one` or the nearest of a few one-shot deadlines; an idle
port is not polled. A forgotten deadline is therefore not a delay but a
standstill. The Wi-Fi worker sleeps in the same way on a deferred interrupt
token, and the dispatcher on a pipe.

What makes each part correct:

- *PD handoff*: a cable change is never consumed by a drain that ignores it; a
  `DONE` completes the command it belongs to; the policy vouches for a contract
  only while the controller still has it; no cable is negotiated with twice; no
  wait lasts for ever.
- *Source policy*: the charger's own mode comes back; boost serves only a
  source port; a fault keeps it off for the attachment; a host is reported only
  on a rail that has settled, and eventually.
- *Charging*: a contract counts as applied only when its registers were
  written; the ramp stays within it and starts from a small ceiling.
- *Host tasks*: the cable is exposed to a published host only; a bound
  controller is never reset; the gate follows the role. *Boot*: memory the
  controller may write is freed only behind isolation; nobody else's clocks or
  lanes are touched.
- *Mailbox*: firmware takes what it waits for; a request is consumed exactly
  once; a hang is reported. *GPIO*: no worker sleeps through a low line;
  nobody storms the CPU. *I2C*: what is reported as done was acknowledged.
  *Cooling*: registered once; without a zone the fan runs and the GPU does not.
- *Wi-Fi*: a ring is a channel; a buffer has one owner; an answer belongs to its
  command; nothing of one association reaches the next; the key follows the
  frames before it; neither work nor the interrupt line is forgotten.
- *GPU*: memory the hardware may touch is not freed; `Ok` means that the work
  ran; CPU access excludes the GPU; power goes off in order.
- *SGFX*: `Ok` covers all earlier work; failure settles every job for good; cut
  passes render the same; storage belongs to its generation.
- *Compiler*: the code computes what TGSI says, has no data hazard, and the
  kernel's verifier accepts it and sees its operands.
- *NVDEC*: one writer per surface, references and leases intact, backing that
  outlives the engine, every picture answered.

## Modules

Most modules are components; their variables, Init, actions and Next come
first, properties after them, and mutated forms next to the definitions they
mutate. A definition whose name ends in `_Something`, under a comment "Mutated
form", is a plausible mistake in the definition that follows it. No
specification uses it; each property has been seen to fail with one.

| Module | Models | Checked in |
| --- | --- | --- |
| `PdPolicy` | `pd.rs` and its calls in `typec.rs`, with the BM92T controller, cable and partner (external) | `pd_policy`, `port_timers` |
| `SourcePolicy` | `SourcePolicy`, `HostPolicy`, `ControllerInit` of `typec.rs`, boost of `charger.rs` | `source_policy`, `port_timers`, `source_fault_lost` |
| `ChargePolicy` | the rest of `charger.rs` | `platform` |
| `XusbHost` | the flags and tasks of `runtime.rs`; composes the effects of the policies | `usb`, `xusb_failure` |
| `XusbBoot` | `xusb.rs` and `xusb_phy.rs` of the SoC, `falcon.rs`, `xusb_supplies.rs`, `Host::start` | `usb` |
| `XusbSingle` | startup and mailbox service in one task, without a second CPU | `usb` |
| `Mailbox` | `mailbox.rs` and its callers in `runtime.rs` | `usb` |
| `GpioIrq` | `gpio_irq.rs`, `GpioInterrupt`, `GpioBankInterrupt`, the service loop | `platform` |
| `I2cBus` | `packet.rs`, `TegraI2c` | `platform` |
| `Thermal` | the four probes and two zones | `platform` |
| `JoyconRail` | one rail: worker, protocol, UART queue, controller | `platform` |
| `Channel` | abstract: a bounded channel that can break and be reopened | refined by `MsgRing` |
| `MsgRing` | one ring of `msgbuf.rs` with both ends | `ownership` |
| `BrcmControl` | `control.rs` and `command()`; uses the rings as channels | `network` |
| `BrcmWorker` | the worker of `runtime.rs` with `data.rs`; uses `command()` as one step | `network`, `ownership` |
| `BrcmActivity` | `activity.rs`, `interrupt.rs`, the shared INTx line | `network` |
| `GpuQueue` | `asynchronous.rs` | `pipeline` |
| `GpuMemory` | `executor.rs`, `gmmu.rs` under the hardware lock | `ownership` |
| `GpuPower` | `probe()`, rollback, drop of `Power` | `pipeline` |
| `GpuFifo` | `fifo.rs`, `completion.rs` | `pipeline` |
| `SgfxDispatch` | `dispatch.rs`, `scheduler.rs` | `pipeline`, `ownership` |
| `SgfxSplit` | `preparation.rs`, the code generator's record counts | `ownership` |
| `SgfxResources` | `resource.rs`, the physical cache, and its two clients in `lib.rs` | `ownership` |
| `ImageLayout` | layout plans of the kernel, the backend, the code generator and the copy engine | `compiler` |
| `Nvdec` | session, DPB, surfaces, engine | `pipeline`, `ownership` |
| `NakIr` | `ir.rs`: values, operations, predicates on them | `compiler` |
| `Sm50` | `sm50.rs`, `legalize.rs`: legalization and encoding | `compiler` |
| `NakPasses` | the passes over blocks and the layout | `compiler` |
| `ShaderCompile` | `alu.rs`, `texture.rs`, `lower.rs` per instruction; straight-line programs through every pass, and what they compute | `compiler` |
| `ShaderFlow` | structured control flow, run by a warp | `compiler` |
| `ProgramVerifier` | the kernel's verifier | `compiler` |

`MCPort`, `MCUsb`, `MCPlatform`, `MCNetwork`, `MCPipeline`, `MCOwnership` and
`MCCompiler` instantiate components for TLC. The components of such a group share
no variables, so the product of their states would say nothing more than each of
them does; a behaviour of the group's specification runs one component, named by
the variable `part`, and leaves the others in one of their initial states. A
property of the group is the conjunction of its parts' properties, each
conditioned on its part where it speaks of states. Where components do interact,
one is modelled with the abstraction of the other: `XusbHost` takes a pass of the
Type-C policies as one step, `BrcmControl` takes the rings as the channels
`MsgRing` is shown to implement, `BrcmWorker` takes `BrcmControl`'s command as a
call that ends, `XusbSingle` takes a transaction of `Mailbox` as one step, and
`SgfxResources` takes from `SgfxDispatch` that nothing is on the device when
nothing is queued.

### PdPolicy

A step is one I2C transaction and the code up to the next one. `pd` is the
record of the fields of `PdPolicy` (`phase`, `side` for the orientation,
`captured`/`held` for the retained alert, `charge` and `saved` for the charging
permission, `settle` and `expired` for the two deadlines, `polls` for the debounce
counter). `at` names the transaction that comes next and `job` the call it belongs
to: `event()` is the pair of steps `ReadAlert` and the snapshot that follows, and
every user of it is a job ("anchor", "send", "wait", "host", ...). `Check` is
`unchanged_contract()`, the two object reads `ReadPdo` and `ReadRdo`.

| Action | Code |
| --- | --- |
| `Drain`, `RawError`, `Recheck`, `StartupRecheck` | the monitor's pass around the policy (`typec.rs`) |
| `PollGone`, `PollTerminal`, `PollActive`, `PollIdle`, `Confirm` | the head of `poll()` by phase |
| `ReadAlert`, `SnapStops`, `CheckFails` | `event()` and its fatal outcomes |
| `Anchor`, `Discover`, `Unchanged`, `SetRdo` | the start of an attempt |
| `WriteCommand`, `CommandDrained`, `CommandChecked` | `command()` |
| `WaitEnds`, `WaitContract`, `WaitDone`, `ReadyChecked`, `SwapChecked`, `SwapTimedOut`, `SwapUnsent` | `wait()` and the phases behind it |
| `HostHandoff`, `HostChecked`, `TerminalPower` | revalidation, and power without a data role |

### SourcePolicy

A step is one I2C transaction; a stable snapshot, or a read-modify-write with
its readback, counts as one. `pass` says who polls (monitor, its trailing
recheck, startup), `view` is the snapshot it acts on, `src` the policy's fields
(the fault latch, `unresolved_fault`, the saved mode), `settle` the settling
interval. `mode` and `rail` are the charger: its mode field and how long VBUS has
been boosted. History variables: `faulty` (cables whose fault was consumed),
`culprit`, `viewed`, and `inherited` (the mode found at probe).

### The other USB modules

`XusbHost`: `mon` and `st` are the positions of `typec_monitor` and the startup
worker. Every load and store of a flag of `Host` is a step of its own; `lock` is
the Falcon lock. `Pass` stands for one call of `TypecPort::monitor`: it may fail,
and it leaves boost and the reported role as they do. `gate` is the electrical PHY
connection, unlike `loc.connected`, what the monitor believes.

`Mailbox`: two servers, the IRQ handler and the worker, and one sender over the
registers `OWNER`, `COMMAND`, `DATA_OUT`, `DATA_IN` and the SMI status. A step is
one access that another actor can see. `handled` counts how often each request
was consumed.

`XusbBoot`: the handshakes of `activate()`, `boot()` and `isolate()` as a list of
steps over one record of the hardware, starting from every state a bootloader
may leave; each handshake may fail, with or without its effect.

`ChargePolicy`: every register update reads the old value, looks at the port
again and writes a value that differs; contract, port, charger status and failures
change between any two.

### Platform services

`GpioIrq`: `sta`, `enb` and `low` are registers and lines as sets of pins; `held`
is the register lock. A rearm is four steps under the lock (acknowledge, check,
enable, check again), with the lines free to fall between them.

`I2cBus`: `mode` and `fifo` are the controller, `held` and `wire` the bus; a polled
wait ends in any status the hardware can show. `acked` and `worn` record what the
devices acknowledged and what a failed transaction left behind.

`Thermal`: a probe publishes its part, looks whether the zone is complete, claims
the registration, and registers; `chip` and `power` are the GPU's sensor and rail.

`JoyconRail`: `Receive`, `Poll` and `Transmit` of the worker with the interrupt
between them; time is the three intervals the code compares.

### Wi-Fi

`MsgRing` has a slot array, both index registers, the driver's own index, and the
operation in progress; `log` and `got` are what was published and what was
taken, the two ends of the channel it implements. `BrcmControl` has the owner of
every buffer implied by the posted sets and both rings. `BrcmWorker` has the
queues, the link with its epoch, the generations of the data port and where
every frame is; the retirement of a link and the installation of keys are the
loops of the code, one command per step. `BrcmActivity` separates reading the
sequence, taking the token, testing the rings and sleeping.

### GPU, SGFX, NVDEC

`GpuQueue` has a request's life (queued, running, retired, delivered) with its
pins; `GpuMemory` the page table, the translation cache, objects, arenas and
queued requests under the hardware lock; `GpuPower` the order of rail, clamps,
resets, firmware pages and interrupt handler; `GpuFifo` the three witnesses of
completion. `SgfxDispatch` has jobs of chunks, the worker's position, callers in
`Operation`s, and the pipe with its flag; `SgfxSplit` runs the planner, the splitter
and the code generator over command buffers and compares what they render with
what was recorded; `SgfxResources` the cache entries, who holds the storage, and the
mappings of its client, which is either `IrResources` (it maps, unmaps and refuses
to release what it mapped) or `MappedTargetSession` (its targets are mapped when it
is created; it imports). `IrResources` may map a held image to the next generation
of a slot while a job of the old one is queued: the jobs then share the image, in
the order of their admission, which is the client's choice; what the cache
promises is that each was given the image mapped to the texture it named.
`Nvdec` has one action per entry point, the engine, and consumers' leases.

### Compiler

A 32-bit or 64-bit word is the set of its one bits. A pass is an operator on
blocks, and a step of `ShaderCompile` or `ShaderFlow` applies one pass.
`ComputesTgsi` runs the final code and compares its outputs with what TGSI
prescribes; `Compiles` says that the only accepted programs that are not compiled
are those of `KnownGap` (see below); `Decodable` that the encoder loses nothing of an
instruction but in the two forms of `KnownLoss`; `NoHazard` follows barriers and delays
through the final code; `ProgramsVerified` gives the code and its metadata to the
modelled verifier; `VerifierSeesOperands` compares, for every encoding, the
registers and buffers the verifier reads off the word with the operands the
encoder put there; `WarpMatchesThreads` runs a warp with the re-convergence stack
against its threads run alone.

## Runs

| Run | Configuration | Properties | Distinct states |
| --- | --- | --- | --- |
| `pd_policy` | `PdPolicy.cfg` | `CableChangeNeverLost` `NoStaleDone` `VerifiedContract` `OneAttemptPerCable` | 2,700,286 |
| `source_policy` | `SourcePolicy.cfg` | `ModeRestored` `BoostJustified` | 3,109,779 |
| `port_timers` | `MCPort.cfg` | `PortServed` | 142,286 |
| `usb` | `MCUsb.cfg` | `ExposedWhenPublished` `GateFollowsRole` `BoundStaysResident` `MailboxSafe` `BootSafe` `UsbServed` | 72,151 |
| `platform` | `MCPlatform.cfg` | `ArmedInSleep` `ThermalSafe` `BusSafe` `RailSafe` `ChargeOrder` `PlatformServed` | 107,988 |
| `network` | `MCNetwork.cfg` | `WifiSafe` `NetworkServed` | 98,552 |
| `pipeline` | `MCPipeline.cfg` | `PipelineSafe` `PipelineServed` | 79,000 |
| `ownership` | `MCOwnership.cfg` | `MemorySafe` `GapsAreFound` `SplitSafe` `WorkerSafe` `RingIsChannel` `DispatchSafe` `ResourcesSafe` `SurfacesSafe` | 1,330,120 |
| `compiler` | `MCCompiler.cfg` | `ComputesTgsi` `Compiles` `NoHazard` `ProgramsVerified` `VerifierSeesOperands` `WarpMatchesThreads` `PixelsKept` `Decodable` | 206,407 |
| `source_fault_lost` | `SourceFaultLost.cfg` | `FaultKeepsBoostOff`, violated | |
| `xusb_failure` | `XusbFailure.cfg` | `FailureWithdraws`, violated | |
| `compiler_const` | `CompilerConst.cfg` | `EveryProgramCompiles`, violated | |

What they show:

- `pd_policy`: with two cables, a partner event and a failing transaction at any
  point, none of the three readers of `ALERT` loses a cable change the policy
  depends on; an old `DONE` never completes a new command (the drain between
  the busy check and the write is what achieves it); the policy at rest never
  vouches for a contract that changed unnoticed; and whatever fails, no cable
  gets a second `SEND_RDO`.
- `source_policy`: the inherited charging mode is never lost, however the
  writes that withdraw boost fail. `BoostJustified` has three parts: boost
  outlives no pass that saw something other than a source; a source-mode host
  is reported only on a rail boosted for the whole enable time, also when
  startup and monitor alternate; and as long as transactions succeed, a consumed
  fault keeps boost off for its attachment.
- `port_timers`: the timers of `next_deadline_ns` are enough for every wait of the
  handoff to end and for a suitable partner to leave Idle; interrupt, back-off,
  one-shot tick and settling deadline bring every pass that withdrawing boost
  and publishing a host need. `PortServed` is `WaitsEnd`, `RevalidationEnds` and
  `SinkServed` of `PdPolicy` and `BoostWithdrawn` and `SourceServed` of
  `SourcePolicy`.
- `usb`: the startup recheck and the monitor may disagree about the role in
  every way three changes allow; the cable stays closed until `start()` has
  published the controller, a bound controller is not reset, and the gate is
  finally reconciled with the connector. Two mailbox requests and a hang
  arrive at any moment of the fast path, the deferred path and `send()`.
  `BootSafe` takes activation and isolation through every inherited state
  and failing handshake: `FreedOnlyIsolated`, `ReplacesInherited`, `LaneRestored`,
  `ClosedUntilBound`, `FailureIsolates`, `PowerOrder`, `RunningPllsKept`,
  `OtherOwnerUntouched`. `UsbServed` is `HostServed` and `RoleLossIsolates`,
  `RequestServed` and `HangReported`, `StartEnds`, and, on a single CPU,
  `StartupDecided` and `RequestsServed`.
- `platform`: two workers and an unowned pin of one bank, with lines falling at
  any point of a rearm and services that fail or leave the line low; the
  charging ramp with a failing transaction and a changing port (`ChargeOrder`:
  `CompleteIsApplied`, `RampWithinContract`, `OpensWithinSmallCeiling`,
  `IdleWritesNothing`); the four cooling probes; I2C transactions of six shapes
  with every wait status; a Joy-Con pulled, plugged, losing replies (`RailSafe`:
  `ReceiveArmed`, `QuietWhenDown`, `NothingHeldWhenDown`). `PlatformServed` is
  `LineServed`, `NoStorm`, `ChargeSettles`, `FanDecided`, `TransactionsEnd`,
  `PulledReleases`, `Connects`.
- `network`: a command and its buffers under repeated, late and failing
  completions (`OneOwner`, `RequestIntact`, `AnswersTheCommand`), the worker's
  queues (`QueueBounded`, `OnePlace`, `CancelsItsOwn`), the shared interrupt line
  (`HoldAccounted`), and that commands and requests end, submissions are
  inspected and the shared line is served.
- `pipeline`: admission, execution and retirement of GPU requests with loss of
  the device (`CpuExclusive`, `PinsFollowTheHardware`, `OkMeansRan`), bring-up and
  rollback (`ReleasedOnKnownRail`, `PagesOutliveDma`, `HandlerFindsPower`,
  `RollbackIsExact`, `RailMovesIsolated`), the FIFO (`PushStable`,
  `CompletedIsRetired`, `NoSleepThroughCompletion`), all in `PipelineSafe`;
  with the liveness of each, of the dispatcher with a failing write to its wake
  pipe, and of the decoder through recovery. No other context competes for the
  device in this run: the Busy retry of `dispatch.rs:317` is exercised in
  `ownership`, for safety only.
- `ownership`, safety only: Wi-Fi links and their frames (`NoCrossing`,
  `RetiredIsClean`, `TxBounded`, `KeyAfterFrames`); the rings of both directions,
  whose every step is a step of `Channel`; GPU memory (`DmaBackingAlive`,
  `TableIsExact`, `RequestsKeepTheirMemory`) and its first fit, which refuses only
  what no gap holds (`GapsAreFound`); splitting
  (`SameRendering`, `ChunksCompile`, `CutsStore`, `RefusedOnlyIfTooLarge`); the
  dispatcher with all kinds of chunks (`OkMeansRetired`, `DetachIsQuiesced`,
  `OwnersOutliveWork`, `DispatchInOrder`, `FailureSettlesAll`, `CpuSeesPrefix`,
  `FailureIsFinal`, `NoLostWake`); the resource cache (`StorageMatchesTexture`,
  `AttachedWhileQueued`, `NoAliases`, `MappingsAgree`, `NotForgotten`); and decoder
  surfaces (`WriterIsAlone`, `ReferencesIntact`, `DpbDistinct`, `DmaBacked`,
  `OwnerStartsFresh`, `LeaseIsImmutable`).
- `compiler`: every operation with every operand shape and modifier through
  all passes, structured programs of up to two levels of nesting, every
  operation of the encoder with every attribute, and images of every format,
  usage and shape, with the properties described under
  [compiler](#compiler).

## Bounds

Every bound is a constant, tested in a guard.

- `MaxCables = 2`: a property about a replaced cable needs an old one and a new
  one, and the policy compares orientation, not identity; a third cable would
  only repeat one of two sides. One cable where a liveness property is about
  timers.
- `MaxNoise`: events a partner starts by itself. One in `pd_policy` (a fault, a
  renegotiation or a role change). Two in `source_policy`, so that a fault on
  each of two cables, or a fault and its end, is possible.
- `MaxErrors`: failing operations. One suffices for the safety properties: after
  the first, the policy is in a state that an error-free run reaches or in a
  failed one. Two where a retry itself should fail once. In `GpioIrq` four, as
  many as `StuckLimit`, so that a line stays low long enough to count as stuck.
- `Settle = 2`: the smallest interval with an interior point; 1 in `port_timers`.
- `XusbHost`: `MaxChanges = 3`: plug, unplug and plug again while the startup worker
  moves. `Mailbox`: two requests, one in service and one that follows it, each
  with its own number, so that a stale `DATA_OUT` shows. `XusbBoot`: two calls of
  `start()`, the second on what the first left. `XusbSingle`: four requests.
- `ChargePolicy`: a table of five limits (`Top = 4`, 500 mA at index 2), so that the
  ramp has steps below and above the floor; one contract, two port changes, one
  failure. `JoyconRail`: a receive queue of two packets, two events.
  `I2cBus`: three transactions, so that one can follow a failed one and its
  recovery, and six shapes, one of them refused.
- Wi-Fi: ring depth 3 (two messages fit, so a batch wraps), batches of up to
  three, five messages, two failing accesses; two receive buffers, two
  transaction identifiers and packet identifiers up to 7 with one reserved, so
  that identifiers wrap; a request queue of one in `network` (full at once) and of
  two in `ownership`; two associations where crossing is the question.
- GPU: three requests of two kinds and one CPU task over a queue of two; two
  probes; two FIFO entries and three sequence numbers, so that a slot is reused;
  three objects in a space of three pages with sizes below and above a page.
- SGFX: two clients and a one-job device in `pipeline`; in `ownership` one client
  with all kinds of chunks, two jobs, two chunks queued at once and another context
  that fills the device once; command buffers of six
  commands with at most four draws and a payload of three records; two slots, one
  of them a presentation target, two generations and two images, so that an image
  can be mapped to a slot again, to the other slot, and compete with storage of
  the session, with two jobs queued.
- NVDEC: one reference and three images, or two references and four.
- Compiler: each operation alone, in chains through copies and shuffles, with
  many loads in flight (more than the six barriers), and with system values;
  three threads in a warp; nine loop programs; thirteen image descriptors with two
  writes each.

`Sides` is the real set of two. The code compares orientations with each other
and with none but never tells them apart, so the safety runs of the two policies
declare them symmetric, which halves their states. The images of `SgfxResources` are
symmetric in `ownership` for the same reason. No run with a liveness property uses
symmetry.

`CHECK_DEADLOCK FALSE` appears where the system really stops: the monitor
returns after a fatal failure (`SourcePolicy`, `XusbHost`), firmware, clients and
partners run out of requests and events, and a compiled program is done. It is
checked in `pd_policy`.

## Fairness

Weak fairness of a task's step says that the kernel schedules the task and that
an I2C transaction returns (the driver bounds each by a timeout). In detail:

- `WF(Wake /\ Drain)` in the policies: a pass starts when `Wake` holds, that is
  when the interrupt is asserted or a deadline of the code is due. An idle
  monitor is *not* assumed to run; this is what makes the timer properties
  meaningful. `WF(Tick)`: time passes.
- No fairness for the environment where it may do nothing for ever: cables,
  partners, lines, an access point.
- `XusbHost`, `XusbBoot`, `XusbSingle`: `WF` for the tasks and interrupt delivery.
  The Falcon lock is contended only by the startup worker's finite boot.
  `Mailbox`: `WF` for interrupt delivery, worker and sender.
- `GpioIrq`: `WF` for the handler; `SF` for each worker, because the register
  lock held by the sibling disables it again and again and the lock is fair
  enough to be granted eventually. `Timer` is not fair; the stuck-line back-off
  is the worker's own step.
- `ChargePolicy`: `WF` for the owner's pass and the passing of the delay, `SF` for
  a due poll, since the port's lock is taken by others in between.
- `Thermal`, `I2cBus`: `WF(Next)`: the probes run, a wait ends at its deadline.
- `JoyconRail`: `WF` for each part of the worker, the interrupt, the timers and a
  connected controller's answers; `SF(Detect(TRUE))`: the detection pin is looked
  at again and again.
- `BrcmControl`: `WF` for the worker and the firmware's fetch, `SF` for its answer.
  `BrcmWorker`: `WF` for a step of a command or its time-out, for sending and
  flow answers; `SF` for taking a request, handling an event and completing a
  transmission, which compete for the one worker. `BrcmActivity`: `WF` for worker,
  handler, doorbell and submitter.
- `GpuQueue`: `WF(Worker)`; `SF` for a caller that polls for admission every
  millisecond; guards are dropped eventually. `GpuPower`: probe and rollback run on,
  a handler leaves. `GpuFifo`: `WF(Submitter)`; nothing is assumed of the hardware.
- `SgfxDispatch`: `WF` for the worker, wake-ups and callers; the GPU retires what
  it runs or is lost, and other contexts drain the device; `SF` for polling a
  retirement.
- `Nvdec`: time passes and the client goes on dequeuing.
- `BoostWithdrawn` and `SourceServed` assume `Operational`: the startup task
  polls finitely often (it does: once per boot attempt and recheck) and no
  fatal failure occurs, since the monitor then stops by design.

In a group's specification, fairness of a component's action becomes fairness of
the disjunction of one action of each part. A behaviour has one part, in which
only one disjunct can ever be enabled, so this asks of each part exactly its own
fairness.

`Latched` in `XusbHost` and `Mailbox` states whether `Waker`, which belongs to
the kernel, remembers a `wake_one` that finds nobody waiting. The runs take it
to be TRUE. With `Latched = FALSE` both fail: in `HostServed` the wake at
`runtime.rs:241` falls between the monitor's load of `allow_connection` and a
wait whose condition is only the interrupt; in the mailbox the wake at
`runtime.rs:268` falls between the end of a service and the wait at line 648,
which has no condition. Hotplug and mailbox service rest on that promise.

## Proofs

Eight modules hold theorems. Their results hold for every value of the
constants that satisfies what the theorem assumes; TLC had confirmed each
inductive invariant on the run's instance before it was proved. Each module states
its invariants, one lemma per action or group of actions, and the theorems.

| Module | Theorems | States the checked property |
| --- | --- | --- |
| `PdPolicyProofs` | `Invariance`, `PolicyTypes`, `CableChanges`, `Completions`, `Contracts`, `Attempts` | `CableChangeNeverLost`, `NoStaleDone`, `VerifiedContract`, `OneAttemptPerCable` |
| `SourcePolicyProofs` | `Invariance`, `RestoresMode`, `Justified` | `ModeRestored`, `BoostJustified` |
| `UsbProofs` | `StartupInvariance`, `Exposure`, `Residence`, `GateFollows`, `MailboxIsSafe`, `BootIsSafe` | `ExposedWhenPublished`, `BoundStaysResident`, `GateFollowsRole`, `MailboxSafe`, `BootSafe` |
| `PlatformProofs` | `RearmInvariance`, `NeverSleepsThrough`, `CoolingIsSafe`, `TransfersAreSafe`, `ChargingIsOrdered`, `RailIsSafe` | `ArmedInSleep`, `ThermalSafe`, `BusSafe`, `ChargeOrder`, `RailSafe` |
| `NetworkProofs` | `WifiIsSafe` | `WifiSafe` |
| `OwnershipProofs` | `SurfacesAreSafe`, `MemoryIsSafe`, `RingsAreChannels`, `DispatchIsSafe`, `ResourcesAreSafe` | `SurfacesSafe`, `MemorySafe`, `RingIsChannel`, `DispatchSafe`, `ResourcesSafe` |
| `PipelineProofs` | `PipelineIsSafe` | `PipelineSafe` |
| `MsgRingProofs` | `RingImplementsChannel` | |

What the theorems assume of the constants is named in the modules and is what
their comments say of them:

- `PdPolicy`, `SourcePolicy`, `XusbHost` (their `ASSUME`s), `MailboxBounds`,
  `Bounds` of the decoder and `DispatchBounds`: bounds are natural numbers, `Settle` is positive,
  `Latched` is TRUE or FALSE; `Sides` is not empty and does not contain the name
  "none"; `Stamps` is finite, as 64-bit numbers are.
- `GpioAssumption`: `Subscribed` is a subset of `Pins`. `BusBounds`: a transaction is
  a sequence of messages. `ChargerTable`: the charger's table has the entries
  `0..Top`, of which `Floor` (500 mA) is one. `ImageAssumption`: no image object is
  the one that stands for none. `RingsAreChannels`: a ring's `Depth` is positive.
  `RingBounds` of `PipelineIsSafe`: the FIFO has at least two entries (512 in the
  code), so that a consumed entry is told from the next. `NetworkAssumption`:
  `QueueLimit` (`QUEUE_LIMIT`) is positive, because the end of the worker leaves
  one event in the queue, and the identifier reserved for commands is a number.
- `BootIsSafe`, `RailIsSafe`, `CoolingIsSafe` and `MemoryIsSafe` assume nothing.

`PdPolicyProofs`, `SourcePolicyProofs` and `MsgRingProofs` extend the component's
module. The others extend the module of the group, so that their theorems speak of
the very specification and property that TLC checks: `PartOfTheRun` and its likes
show that a behaviour of the group, seen through the variables of one part, is a
behaviour of that component. The constants of a proved part are constants of the
group's module, and only its configuration gives them values.

*PdPolicy.* `CableChangeNeverLost` is not inductive. It speaks of a policy that
owns a handoff, but the drain that could lose the notification happens before
a phase says so: `command()` anchors the attachment with a drain that ignores
`PLUGPULL`. `PlugInv` therefore extends it to `Anchored`: from the anchoring
snapshot on, through `discover()`, `SET_RDO` and the first command. The proof that a
read of `ALERT` keeps it uses that a drained `PLUGPULL` always makes the job fail
(`ConsumeFacts`, `EventFacts`). `NoStaleDone` needs `Quiet`: between the last busy
check and the `COMMAND` write no command executes, and once the drain in between
has been done no `DONE` is pending; bits retained from the monitor's drain exist
only until the poll takes them. `Control` ties jobs to phases. On top of that
invariant, `Tracks` carries the other two properties. `Tried` says that a cable
with an attempt behind it keeps the policy out of `Idle`, and keeps its side, so
that no snapshot takes it for a new attachment; `Verified` follows the two object
reads: a difference that the reads did not or will not show is still noted in
`ALERT` or among the captured bits.

*SourcePolicy.* `SInv` relates a pass to what it carries. `Restores` and
`Boosting` say where a saved mode is owed; `Settling` that, as long as the source
session is unbroken, the monitor's clock is no older than the rail;
`Noticed` and `Remembered` that a consumed fault of the attached cable is
unresolved, latched, or in the hands of the pass that will latch it. The last
holds while `errors = 0`; the run `source_fault_lost` shows that it must.

*XusbHost.* `Progress` says which flags the startup worker has set at which
point, `Permitted` that the monitor touches the gate only once a connection was
allowed. The monitor may wait for the Falcon lock with an old decision; that it
cannot expose an unbound controller follows because `allow_connection` is never
withdrawn. `Reconciled` adds what gate and locals say of each other between two
steps of the monitor, from which `GateFollowsRole` follows.

*Mailbox.* `Exclusive` (whoever is inside a transaction is the claim's owner),
`Coherent` (registers, ownership and the posted request agree), `Serving` (a server
about to consume or reply has the request that waits) and `Counted` make
`TakesItsOwn` inductive; `ConsumedOnce` follows.

*Platform services.* `ArmedInSleep` needs `LockInRearm`: the worker inside a
rearm holds the register lock, so the handler cannot mask the pin again unseen,
and between the enabling write and the second check the pin is enabled. An
acknowledgement racing a new low level is the nondeterministic `Ack`. Cooling
needs `OneClaim` (the flag of a zone is set by the one probe that registers it)
and `OnTheWay` (with both parts published and no zone, somebody is still on
the way, or the kernel refused and the fan goes to full duty). The bus needs
`Counting` (the messages before the current one went out, each once), `Cycles`
(a cycle ends with a STOP) and `Released` (the wires are free between
cycles unless the recovery failed).

Charging needs, between two registers, what is left to write: `OpeningLeft` (a
suffix of the writes that open the input, whose first sets a ceiling below
500 mA), `StepLeft` (one step of the ramp) and `FallbackLeft`. With what the charger
holds by then, they say what the next write may do to the limit; `Applied`
says that scheduled work stays within the contract and that a limit counts as
applied only when the charger holds it. The lists are those of the code, the
table of limits is any.

The rail's `RInv` adds to the property where receive is armed: never before the
worker exists, and from then on exactly for a link that expects replies, unless
the error that masked it still waits (`Armed`); only a rail with a controller
talks or holds a button (`Detected`).

*XusbBoot.* `BInv` says which hardware state the steps before the k-th have set up
(`SetUp`), what an inactive controller has been through (`Inactive`: HOST in reset
behind an acknowledged drain, our image gone), what the driver has not touched
(`Owned`), and at which step the gate may be open and the lane is ours
(`Connected`). As every handshake may fail with or without its effect, nothing
else is known of the hardware in between.

*MsgRing.* The refinement maps `Channel` with capacity `Depth - 1`; a ring is broken
for the channel when the driver of a completion ring has failed. The invariant
`RInv` says that what a push staged is in its slots before the index that covers
it is published (`Pushing`), that a pop holds the oldest undelivered message
(`Popping`), that outstanding slots hold what was sent (`OutstandingIntact`) and that
only a drained ring is deleted. `StagedSlots`, `Published` and `Taken` are the modular
arithmetic: a batch may wrap around the end of the ring. `RingsAreChannels` applies
it to the two rings of the run.

*SgfxDispatch.* `Queued` (the queue is exactly the pending jobs in order of
admission), `Held` (what the device runs has a receipt in a queued job), `Handed`
(what was handed over lies before all that waits) and `Woken` (an admission the
worker has not seen has a byte in the pipe, a notifier on its way, or a worker
about to look) carry the properties of the dispatcher; `Woken` holds while no
pipe write has failed, which is what its part `NoLostWake` says.

*SgfxResources.* `SInv` says that an object is attached or explicitly detached
exactly as long as somebody owns it (`CacheOwned`), that the cache lends only attached
storage made for, or last mapped to, the slot's identity, each to one slot (`Lends`),
that a mapping of a live texture is in the cache under that texture's identity while
those of earlier generations never become live again (`Targeted`), and that a queued
job was given the storage of its texture, which stays attached (`Works`). Because the
slot of a live mapping is always a hit (`MappedIsHit`), mapping, importing and creating
storage never displace one. One lemma, `SettleFacts`, says what settling does to every object when
owners come and go, also when a detach fails; each action cites it.

*BrcmControl.* `Lent` binds every buffer the firmware holds, or will find in the
submission ring, to the identifier it was posted under: an identifier is used once,
and one that was returned, however often and late, is used up. `Commanded` says
that the command the firmware holds, or will fetch, is the pending one, with the
input it was submitted with, and that no answer to it was sent before. Both hold
until the port is quarantined.

*BrcmWorker.* `QInv` is about the queues: a token is the number of an accepted
request and in one place (`Placed`); the worker is in the middle of a command
exactly while a request is active (`Engaged`); and a cancellation that the worker
will report is of the active request, whose caller named it (`Cancelling`). Most
actions leave the queues alone, which `ElsewhereKept` settles once.

*BrcmActivity.* `HInv` says that a masked line has one party that will unmask it
(the handler, the worker or a token in the slot; or the failed completion that
nobody retries), and an open one none.

*GpuQueue.* `QInv` counts: a unit of capacity is a pinned request, or about to be
given back by the worker (`Counted`), and pins are the queued and executing
requests and those lost with the device. A guard is granted at zero outstanding
and excludes admission until it is dropped (`Granting`), so under it nothing can be
queued (`Waiting`) or executing (`Executing`).

*GpuPower.* `WInv` says at which stage of `probe()`, of the rollback and of the loss
clamp and reset are set (`Railed`), who owns the pages (`Paged`) and that the
interrupt is enabled only on a powered GPU with its pages (`Handled`). `Order` is
the list of stages. That the rail moves only with the GPU clamped and in reset is
the action property `RailMovesIsolated`, which follows from `Railed`.

*GpuFifo.* `FInv` says that a submission under way is either not yet fetched or
fetched with its witnesses outstanding (`Flying`), that what the submitter has read
and found current it has read of this submission (`Seen`), and that a submission
is notified of at most once, after its reference and its fence (`Notified`). A
submitter that has observed as many events as submissions therefore reads no
stale reference or fence: it sleeps only on `GP_GET` or a lost event. `Seen` is
where a ring of one entry would fail.

*GpuMemory.* `AInv` says that what has a handle, an attachment or a request is
retained, and a request that runs has private arenas nobody else knows (`Known`);
that page table and translations lead only to retained memory (`Reached`); and that
on a healthy device each page belongs to the one retained object that contains
it, in the table and in every translation (`Exact`). `Reached` holds also on a lost
device, whose table and cache may disagree for good: this is why
`DmaBackingAlive` survives a failed invalidation. That two objects never share a
page is part of `Exact`; the proof takes it from the first fit that placed them.

*Nvdec.* `Sound` (a session's slots differ in timestamp, image and DPB index, and the
spare pool has none of their images), `Flying` (the engine works on the picture in
flight, whose image nobody else has, with references from the other slots), `Whole`
(every slot's image holds its picture, but for the one being written) and `Owned`
(without a failure, session and engine belong to the owner) carry the surfaces. A
submission keeps at most as many pictures as it names references, so a DPB entry
and a slot are free (`SlotFree` and its likes, by counting); the entries stay
distinct because the only picture without one is the one decoded last.

## What is only model-checked

- Every liveness property, all of them in `PortServed`, `UsbServed`,
  `PlatformServed`, `NetworkServed` and `PipelineServed`. Liveness under fairness
  is out of the prover's reach.
- What recursive definitions compute, and what is folded over data: `SplitSafe`,
  whose reference interprets command buffers; `GapsAreFound`, which is about every
  list of free extents; and everything about the compiler, the verifier and the
  image layouts. Proving it would need induction over programs or lists.
- `WorkerSafe`. The worker's record has over twenty fields and its commands
  discard, requeue or deliver every kind of packet, so that the invariants that
  bind epochs, keys, flows and generations are as long as the module; they have
  not been written. What `WifiIsSafe` says of the worker is about its queues.

## Where code and documentation disagree

Three runs end in a counterexample. Each compares the code with a sentence of
its own documentation or comments.

1. `source_fault_lost` (`typec.rs:380`). `unresolved_fault` is cleared before the
   fault captured in this pass is latched; a failing status read in between
   loses it, against the comment at `typec.rs:402`.
2. `xusb_failure` (`runtime.rs:509`). A failure flagged by another task in the
   middle of a clean monitor pass makes the monitor return without withdrawing
   boost or closing the gate, against `docs/usb.md:243`.
3. `compiler_const` (`alu.rs:263`). Dividing by a non-zero immediate panics in the
   encoder, against `lib.rs:58` of the front end, which promises to compile every
   supported entry point.

Further disagreements are stated as properties of their modules that no run
lists, because the code does not have them:

- `DetachReleases` (`PdPolicy`): a detach that `event()` notices inside a poll
  fails the handoff; nothing tells the policy afterwards that the connector is
  empty, so Failed outlives the attachment (`docs/usb.md:119` says terminal
  results last "until the old attachment is verifiably gone").
- `SinkServed` with two cables: a cable exchanged for one on the other side
  between two snapshots resets the policy without arming a timer (`pd.rs:658`),
  and an idle port is not polled (`docs/usb.md:166`).
- `CarrierFollowsRadio` (`BrcmWorker`): most commands discard events that arrive
  while they wait, a link-down event included (`runtime.rs:699`).
- `FlowBecomesReady` (`BrcmWorker`): they also discard the answer to a flow's
  creation (`runtime.rs:447`), against `data.rs:180`.
- `CompletionsInspected` (`BrcmActivity`): the token is taken and the sequence
  read in two steps; an interrupt between them is counted as seen while it
  holds the line (`activity.rs:156`, against `activity.rs:41`). What `NetworkServed`
  says of the hazard at that line is its other part: submissions are inspected and
  the line is released.
- `AckedDuringWait` (`XusbSingle`): without a dedicated worker a deferred request
  waits for the task that waits for the mailbox, against the comment in
  `runtime.rs` that it can be acknowledged meanwhile; the wait ends by its
  deadline.
- `KnownGap` and `KnownLoss` of the compiler: a rounding of an immediate, a sum
  with negative zero under a multiplication, the saturation of an addition with a
  long immediate and the negation of a constant-buffer operand of `FSET`
  (`sm50.rs:852`) are refused or lost.

## Assumptions and abstractions

- *BM92T*: completing a command raises `DONE` no later than BUSY clears;
  `CURRENT_PDO` and `CURRENT_RDO` change only with `CONTRACT` or `PDO`; plugging
  and pulling raise `PLUGPULL`. A change of role or power is not assumed to raise
  anything. A failed read leaves `ALERT` alone; a failed write may or may not
  have reached the controller.
- *PdPolicy*: starts with initialisation `Ready`. The source policy's failures
  appear as `RawError`, which ends the pass before the PD poll. `retry` is the
  monitor's 100 ms back-off. The decoding of capabilities in `discover()` is a
  choice between a supported and an unsupported profile, its reads one
  transaction; the input-limit read is merged with the read of `CURRENT_RDO`.
- *SourcePolicy*: the fault bits are one bit; the updates of the charger's timer
  and boost limit are merged with the mode write; the PD poll drains `ALERT`
  only on a sink port, and a fault it consumes there is not counted in `faulty`.
  The hard reset of `ControllerInit` is one write.
- *XusbHost*: the configuration with dedicated CPUs. The Type-C policies are one
  pass. *XusbSingle*: a mailbox transaction is one step. *XusbBoot*: a Falcon reset
  clears the firmware pointer.
- *Mailbox*: `mailbox_ready` holds and registers read as valid values; the
  firmware leaves a posted request alone until it has been answered.
- *GpioIrq*: subscription has happened; the register lock excludes the handler.
- *Thermal*: probes may run on any CPU; temperatures and the kernel's policy are
  external. *I2cBus*: `transfer()` validates the whole transaction before
  anything goes out (`Accepted`). *JoyconRail*: a controller answers within the
  command intervals except for `MaxEvents` lost or delayed packets.
- *BrcmWorker*: a command that the firmware rejects (`runtime.rs:436`) ends like one
  that timed out; the core waits for a retirement it asked for, and, with
  `CoreRetires`, connects only after a completed one.
- *GPU*: the generic core keeps objects while they are attached or pinned; fences
  resolve eventually, by retirement or by loss. *SgfxDispatch*: other contexts
  drain the device; `WaitersReturn` relies on a bounded number of admissions.
- *SgfxSplit*: store operations are ignored by the code generator; a textured
  draw's cap equals the draw cap; the chunks that convert targets of a narrow format
  and the extra clears of multiple render targets are left out. *SgfxResources*: the
  kernel counts attachments; presentation targets are textures of the table; a
  duplicate import is given back at once, its detach does not fail.
- *Nvdec*: isolation may fail at any call; the client goes on dequeuing.
- *Compiler*: registers are assigned first fit with a parallel copy in front of
  every vector operand, in place of `assign_regs.rs`; the scheduling passes keep
  the order; every write of a lane makes a new SSA value, which is what
  `repair_ssa` leaves where control does not join; a texture operation's
  reference meaning is its lowering; the semantics of the re-convergence stack is
  Maxwell's and external. `opt_bar_prop`, `opt_uniform_instrs`, `opt_prmt`, `opt_lop`
  and `opt_out` do nothing for what this front end emits for shader model 5.2, and the
  texture barriers are Kepler's.
- *ImageLayout*: the engines' block-linear addressing and the generic core's
  staging arithmetic are external.

## What is not modelled

`PROJECT.json` lists each component with a reason. In short: display, audio, CPU
frequency, RTC, PMIC, touch, battery, PCIe, random numbers and SD are register
sequences of one caller; the plugin boundary is foreign-function glue. Of the
modelled components: in the USB host the diagnostics, the parsing of the firmware
image and the identification reads at probe; in Wi-Fi the chip reset, the firmware
download and the parsing of information elements; in the GPU driver the method
streams of draws and the validation of submitted records; in the backend scaled,
linear and shader blits, two-plane and shared images, and the encoding of
programmable draws; in the compiler spilling, scheduling and the repair of SSA
form across loops; in NVDEC the words of the picture setup.

## Plan

What a later extension would do first:

1. Proofs of `NoCrossing` and `KeyAfterFrames` (`BrcmWorker`), over the channel that
   `RingsAreChannels` justifies.
2. An abstract specification of a host port (closed, exposed, withdrawn) that
   `XusbHost` implements.
3. The encoding of programmable draws (`programmable.rs`) and register assignment
   (`assign_regs.rs`).
