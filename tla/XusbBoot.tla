------------------------------ MODULE XusbBoot ------------------------------
(* Bringing the Tegra210 XUSB host up and down: the PMIC supplies, the clock  *)
(* and reset controller, the memory controller's drain, the two power         *)
(* partitions and the PHY (XusbPlatform::activate and isolate), and the       *)
(* Falcon's firmware load (Falcon::boot) as Host::start drives them.          *)
(*                                                                            *)
(* The bootloader leaves PLLs and partitions in several states; some belong   *)
(* to PCIe or to the USB device controller as well.  Every hardware handshake *)
(* may fail, before or after its write took effect.                           *)
EXTENDS Integers, Sequences

CONSTANT MaxBoots  \* bound: how often start() is entered
VARIABLES
    hw,     \* the hardware
    lane0,  \* how the UPHY lane was found by the current preparation
    pc,     \* "probe", "idle", "boot", "activate", "rollback", "load",
            \* "recheck", "retire", "bind", "bound", "failed", "absent"
    k,      \* step of the activation
    active, \* Falcon::active
    fw,     \* the firmware pages: "resident", "freed", "leaked"
    isolated, \* history: an isolation of ours was verified
    boots

vars == <<hw, lane0, pc, k, active, fw, isolated, boots>>

\* The inherited hardware.  "bad": running in a configuration not supported.
Inherited ==
    {h \in [devReset : BOOLEAN,               \* the device controller is held in reset
            rst  : {[SS |-> r, HOST |-> r] : r \in BOOLEAN},
            clk  : {[SS |-> c, HOST |-> c] : c \in BOOLEAN},
            pwr  : {[SS |-> p, HOST |-> p] : p \in {"off", "on"}},
            src  : {"fast"},                  \* partition clock sources
            drain : {"none"},                 \* the memory controller's drain
            pllu : {"off", "good", "bad"},
            plle : {"off", "on", "seq"},      \* "seq": under the hardware sequencer
            p0   : {"off", "on", "seq", "bad"},
            lane : {"boot"},                  \* UPHY lane 6: its owner
            gate : {FALSE},                   \* the cable PHY is connected
            iload : {"zero", "stale"},        \* the Falcon's firmware pointer
            cpu  : BOOLEAN] :
        /\ h.cpu => h.iload = "stale" /\ ~h.rst.HOST /\ h.pwr.HOST = "on" /\ h.clk.HOST
        /\ ~h.rst.HOST => h.pwr.HOST = "on"
        /\ h.p0 = "seq" => h.plle = "seq"}

Init ==
    /\ hw \in Inherited
    /\ lane0 = "boot" /\ pc = "probe" /\ k = 1 /\ active = FALSE
    /\ fw = "resident" /\ isolated = FALSE /\ boots = 0

(****************************************************************************)
(* isolate_locked                                                           *)
(****************************************************************************)

InReset(h) == [h EXCEPT !.rst = [p \in {"SS", "HOST"} |-> TRUE], !.cpu = FALSE,
                        !.iload = "zero"]
Isolated(h) == [InReset(h) EXCEPT !.drain = "acked", !.clk = [p \in {"SS", "HOST"} |-> FALSE]]
\* A reset that does not take, a drain not acknowledged, clocks that stay on.
IsolateFailures(h) ==
    {h, [InReset(h) EXCEPT !.drain = "asked"], [InReset(h) EXCEPT !.drain = "acked"]}

(****************************************************************************)
(* activate_locked                                                          *)
(****************************************************************************)

Steps ==
    <<"tracking", "isolate", "pllu", "plle", "utmip", "sources", "shared", "lane", "uphy",
      "usb2", "close", "clocks", "SS.on", "SS.clk", "SS.unclamp", "SS.release", "SS.mbist",
      "HOST.on", "HOST.clk", "HOST.unclamp", "HOST.release", "HOST.mbist", "fast", "undrain",
      "bridge", "gate">>

\* What a step rejects before it writes anything.
Refused(s) ==
    \/ s = "pllu" /\ hw.pllu = "bad"
    \* PLLE is under the sequencer although its consumer was never started.
    \/ s = "lane" /\ hw.p0 = "off" /\ hw.plle = "seq"

Power(h, p, to) == [h EXCEPT !.pwr[p] = to]

\* initialize_uphy: a cold P0 is calibrated, a running one only observed; both
\* PLLs end up under the sequencer, PLLE last.
UphyStarts(h) == IF h.p0 = "bad" THEN h ELSE [h EXCEPT !.p0 = "seq", !.plle = "seq"]

Effect(s, h) ==
    CASE s = "isolate" -> Isolated(h)
      [] s = "pllu" -> [h EXCEPT !.pllu = "good"]
      [] s = "plle" -> [h EXCEPT !.plle = IF @ = "off" THEN "on" ELSE @]
      [] s = "sources" -> [h EXCEPT !.src = "slow"]
      [] s = "lane" -> [h EXCEPT !.lane = "usb"]
      [] s = "uphy" -> UphyStarts(h)
      [] s = "usb2" -> [h EXCEPT !.gate = TRUE]      \* pads up, SS clamps released
      [] s \in {"close", "gate"} -> [h EXCEPT !.gate = FALSE]
      [] s = "clocks" -> [h EXCEPT !.clk = [p \in {"SS", "HOST"} |-> TRUE]]
      [] s = "SS.on" -> Power(h, "SS", IF h.pwr["SS"] = "off" THEN "clamped" ELSE "on")
      [] s = "HOST.on" -> Power(h, "HOST", IF h.pwr["HOST"] = "off" THEN "clamped" ELSE "on")
      [] s = "SS.clk" -> [h EXCEPT !.clk["SS"] = TRUE]
      [] s = "HOST.clk" -> [h EXCEPT !.clk["HOST"] = TRUE]
      [] s = "SS.unclamp" -> Power(h, "SS", "on")
      [] s = "HOST.unclamp" -> Power(h, "HOST", "on")
      [] s = "SS.release" -> [h EXCEPT !.rst["SS"] = FALSE]
      [] s = "HOST.release" -> [h EXCEPT !.rst["HOST"] = FALSE]
      [] s = "fast" -> [h EXCEPT !.src = "fast"]
      [] s = "undrain" -> [h EXCEPT !.drain = "none"]
      [] OTHER -> h  \* tracking, utmip, shared, mbist, bridge: no state kept here

\* Mutant: the lane is not given back.
LaneRollback_None(h) == h

\* prepare_uphy puts the lane back the way it found it.
LaneRollback(h) == [h EXCEPT !.lane = lane0]

\* What a failing step can leave behind.
Failures(s, h) ==
    CASE s = "isolate" -> IsolateFailures(h)
      [] s = "uphy" -> {LaneRollback(h)} \cup (IF h.p0 \in {"on", "seq"}
                                                THEN {LaneRollback(UphyStarts(h))} ELSE {})
      [] s \in {"lane", "usb2"} -> {}                \* plain writes
      [] OTHER -> {h, Effect(s, h)}

ActivateStep ==
    /\ pc = "activate" /\ k <= Len(Steps)
    /\ ~Refused(Steps[k]) /\ ~(Steps[k] = "uphy" /\ hw.p0 = "bad")
    /\ hw' = Effect(Steps[k], hw)
    /\ lane0' = IF Steps[k] = "lane" THEN hw.lane ELSE lane0
    /\ isolated' = (isolated \/ Steps[k] = "isolate")
    /\ k' = k + 1
    /\ UNCHANGED <<pc, active, fw, boots>>

\* The last step is Falcon::boot's own set_host_connection: its failure is no
\* longer rolled back by activate but by start's error path.
ActivateFails ==
    /\ pc = "activate" /\ k <= Len(Steps)
    /\ hw' \in IF Refused(Steps[k]) THEN {hw} ELSE Failures(Steps[k], hw)
    /\ pc' = IF Steps[k] = "gate" THEN "retire" ELSE "rollback"
    /\ UNCHANGED <<lane0, k, active, fw, isolated, boots>>

\* activate isolates what it could not activate.
Rollback ==
    /\ pc = "rollback"
    /\ pc' = "retire"
    /\ \/ hw' = Isolated(hw) /\ isolated' = TRUE
       \/ hw' \in IsolateFailures(hw) /\ UNCHANGED isolated
    /\ UNCHANGED <<lane0, k, active, fw, boots>>

(****************************************************************************)
(* XusbPlatform::new, Falcon and Host::start                                *)
(****************************************************************************)

\* require_device_reset
Owned == hw.devReset

Probe ==
    /\ pc = "probe"
    /\ \/ Owned /\ pc' = "idle"
       \/ pc' = "absent"
    /\ UNCHANGED <<hw, lane0, k, active, fw, isolated, boots>>

\* The cable asks for a host; prepare_xusb_supplies, then Falcon::boot.
\* Its first isolate() finds nothing active: an unbound earlier boot was isolated
\* by start, or start is not entered again.
Start ==
    /\ pc = "idle" /\ boots < MaxBoots
    /\ boots' = boots + 1
    /\ \/ pc' = "boot"
       \/ pc' = "retire"                            \* a supply is not as expected
    /\ UNCHANGED <<hw, lane0, k, active, fw, isolated>>

Boot ==
    /\ pc = "boot"
    /\ active' = TRUE /\ pc' = "activate" /\ k' = 1
    /\ UNCHANGED <<hw, lane0, fw, isolated, boots>>

\* cold_boot accepts only a Falcon whose firmware pointer a reset has cleared.
Cold == hw.iload = "zero"

\* cold_boot: publish the image, wait for its DMA, start the CPU, wait for xHCI.
Load ==
    /\ pc = "activate" /\ k > Len(Steps)
    /\ \/ /\ Cold
          /\ hw' = [hw EXCEPT !.iload = "ours", !.cpu = TRUE]
          /\ pc' = "recheck"
       \/ /\ hw' \in {hw} \cup IF Cold THEN {[hw EXCEPT !.iload = "ours", !.cpu = c] : c \in BOOLEAN}
                               ELSE {}
          /\ pc' = "retire"
    /\ UNCHANGED <<lane0, k, active, fw, isolated, boots>>

\* The role is polled again: gone, the Falcon is isolated and start may be
\* called again; otherwise the interrupt is registered and the host bound.
Recheck ==
    /\ pc = "recheck"
    /\ \/ /\ hw' = Isolated(hw) /\ isolated' = TRUE
          /\ active' = FALSE /\ pc' = "idle"
       \/ /\ hw' \in IsolateFailures(hw)
          /\ pc' = "retire" /\ UNCHANGED <<active, isolated>>
       \/ /\ pc' \in {"bound", "retire"}
          /\ UNCHANGED <<hw, active, isolated>>
    /\ UNCHANGED <<lane0, k, fw, boots>>

\* Once bound the cable PHY follows the role (module XusbHost).
Gate ==
    /\ pc = "bound"
    /\ \E c \in BOOLEAN : hw' = [hw EXCEPT !.gate = c]
    /\ UNCHANGED <<lane0, pc, k, active, fw, isolated, boots>>

\* A Falcon whose isolation failed stays active.
StillActive == active

\* start's error path before binding: isolate what is active, never start again.
Retire ==
    /\ pc = "retire"
    /\ pc' = "failed"
    /\ \/ /\ hw' = IF active THEN Isolated(hw) ELSE hw
          /\ isolated' = (isolated \/ active)
          /\ active' = FALSE
       \/ /\ active /\ hw' \in IsolateFailures(hw)
          /\ active' = StillActive /\ UNCHANGED isolated
    /\ UNCHANGED <<lane0, k, fw, boots>>

\* Falcon::drop forgets the pages of a Falcon it could not isolate.
Kept == "leaked"

DropFalcon ==
    /\ pc \in {"idle", "failed"} /\ fw = "resident"
    /\ \/ /\ hw' = IF active THEN Isolated(hw) ELSE hw
          /\ isolated' = (isolated \/ active)
          /\ active' = FALSE /\ fw' = "freed"
       \/ /\ active /\ hw' \in IsolateFailures(hw)
          /\ fw' = Kept /\ UNCHANGED <<active, isolated>>
    /\ pc' = "absent"
    /\ UNCHANGED <<lane0, k, boots>>

Driver == Probe \/ Boot \/ ActivateStep \/ ActivateFails \/ Rollback \/ Load \/ Recheck \/ Retire
Next == Driver \/ Start \/ Gate \/ DropFalcon

\* The worker task runs on; every handshake has a deadline.
Spec == Init /\ [][Next]_vars /\ WF_vars(Driver)

-----------------------------------------------------------------------------

\* The Falcon's firmware pages are given back only when it can no longer fetch
\* from them (Falcon::drop, isolate).
FreedOnlyIsolated == fw = "freed" => hw.iload # "ours"

\* The host is bound only to a controller whose inherited DMA was drained and whose
\* Falcon was reset before it was given our image (isolate_locked, cold_boot).
ReplacesInherited == pc = "bound" => isolated /\ hw.iload = "ours" /\ hw.drain = "none"

\* A partition leaves reset powered, unclamped and clocked, at the low clock the
\* power-up sequence requires (power_up, activate_locked).
PowerOrder ==
    [][\A p \in {"SS", "HOST"} : hw.rst[p] /\ ~hw'.rst[p] =>
         hw.pwr[p] = "on" /\ hw.clk[p] /\ hw.src = "slow"]_vars

\* A PLL that runs, and may clock PCIe or another USB owner, is never programmed
\* again: it can only be handed to its sequencer, and PLLE only with P0
\* (enable_pllu, enable_plle, prepare_uphy).
RunningPllsKept ==
    [][/\ hw.pllu # "off" => hw'.pllu = hw.pllu
       /\ hw.p0 \in {"on", "seq"} => hw'.p0 \in {hw.p0, "seq"}
       /\ hw.p0 = "bad" => hw'.p0 = "bad"
       /\ hw.plle # "seq" /\ hw'.plle = "seq" => hw'.p0 = "seq"]_vars

\* When the UPHY cannot be prepared the lane is back with the owner it was found
\* with (prepare_uphy).
LaneRestored == (pc = "rollback" /\ Steps[k] = "uphy") => hw.lane = lane0

\* The cable is connected only to a bound host; the one exception is the moment
\* between preparing the pads and closing them (activate_locked, Falcon::boot).
ClosedUntilBound ==
    hw.gate => pc = "bound" \/ (k \in DOMAIN Steps /\ Steps[k] = "close")

\* A USB device controller that may be in use is left alone altogether
\* (require_device_reset): nothing is reset, clocked or powered around it.
OtherOwnerUntouched == [][~hw.devReset => hw' = hw]_vars

\* After a failure before binding the host is out of reset only if its isolation
\* failed too, and is then remembered as active (activate's rollback, start).
FailureIsolates ==
    pc \in {"idle", "failed"} /\ isolated /\ ~active => hw.rst["HOST"] /\ hw.drain = "acked"

\* Every start comes to an end.
StartEnds == pc = "boot" ~> pc \in {"idle", "failed", "bound"}
=============================================================================
