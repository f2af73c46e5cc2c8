----------------------------- MODULE MCPlatform -----------------------------
(***************************************************************************)
(* The board-level services, checked in one run: GPIO interrupts, the      *)
(* charging policy, fan and thermal zones, the I2C controller and the Joy- *)
(* Con rail. They share no state in the models, so a behaviour runs one of *)
(* them, its part; the others stay in one of their initial states.         *)
(***************************************************************************)
EXTENDS GpioIrq, Sequences

CONSTANTS Transactions, MaxCalls,  \* the I2C clients
          Top, Floor,              \* the charger's table, and 500 mA in it
          MaxContracts, MaxPort, MaxFaults,
          Depth, MaxMishaps        \* the rail's receive queue, and what goes wrong on it

\* 500 mA is one of the charger's steps.
ASSUME ChargerTable == Top \in Nat /\ Floor \in 0..Top

VARIABLES
  part, chg, contract, sched, c_pc, todo, step, eligible, port, input, reg,
  known, contracts, changes, faults, t_pc, published, claimed, zones, ready,
  refused, pwm, chip, power, i_at, txn, i, result, mode, fifo, i_held, i_wire,
  acked, worn, calls, j_at, link, due, quiet, detected, uart, half, j_wire,
  inbox, ctl, j_events

charge == <<chg, contract, sched, c_pc, todo, step, eligible, port, input,
            reg, known, contracts, changes, faults>>
fan == <<t_pc, published, claimed, zones, ready, refused, pwm, chip, power>>
bus == <<i_at, txn, i, result, mode, fifo, i_held, i_wire, acked, worn, calls>>
rail == <<j_at, link, due, quiet, detected, uart, half, j_wire, inbox, ctl,
          j_events>>

\* Register reads (write, repeated start, read), single short messages, long
\* blocks, and several STOP-terminated messages in one call; one that leaves the
\* bus open is refused.
Msg(stop, short) == [stop |-> stop, short |-> short]
Conversations ==
  { <<Msg(FALSE, TRUE)>>,
    <<Msg(TRUE, TRUE)>>,
    <<Msg(TRUE, FALSE)>>,
    <<Msg(TRUE, TRUE), Msg(TRUE, TRUE)>>,
    <<Msg(FALSE, TRUE), Msg(TRUE, TRUE)>>,
    <<Msg(FALSE, TRUE), Msg(FALSE, FALSE), Msg(TRUE, FALSE), Msg(TRUE, TRUE)>> }

Charge == INSTANCE ChargePolicy
  WITH pc <- c_pc
Fan == INSTANCE Thermal
  WITH pc <- t_pc
Bus == INSTANCE I2cBus
  WITH at <- i_at, held <- i_held, wire <- i_wire
Rail == INSTANCE JoyconRail
  WITH MaxEvents <- MaxMishaps, at <- j_at, wire <- j_wire, events <- j_events

PlatformInit ==
  /\ part \in {"gpio", "charge", "thermal", "i2c", "joycon"}
  /\ Init /\ (part # "gpio" => low = {})
  /\ Charge!Init
  /\ (part # "charge" => reg = [hiz |-> FALSE, limit |-> Floor, jeita |-> FALSE, mode |-> "charge"])
  /\ Fan!Init /\ (part # "thermal" => chip = {})
  /\ Bus!Init
  /\ Rail!Init /\ (part # "joycon" => ~ctl.present)

\* The part that runs leaves the others alone.
GpioOnly == part = "gpio" /\ UNCHANGED <<part, charge, fan, bus, rail>>
ChargeOnly == part = "charge" /\ UNCHANGED <<part, vars, fan, bus, rail>>
FanOnly == part = "thermal" /\ UNCHANGED <<part, vars, charge, bus, rail>>
BusOnly == part = "i2c" /\ UNCHANGED <<part, vars, charge, fan, rail>>
RailOnly == part = "joycon" /\ UNCHANGED <<part, vars, charge, fan, bus>>

PlatformNext ==
  \/ GpioOnly /\ Next
  \/ ChargeOnly /\ Charge!Next
  \/ FanOnly /\ Fan!Next
  \/ BusOnly /\ Bus!Next
  \/ RailOnly /\ Rail!Next

all == <<part, vars, charge, fan, bus, rail>>

\* The fairness of the part that runs.  A behaviour has one part, so fairness of
\* a disjunction over the parts is the fairness each part asks for.
PlatformSpec ==
  /\ PlatformInit /\ [][PlatformNext]_all
  /\ WF_all(\/ GpioOnly /\ Handler
            \/ ChargeOnly /\ Charge!Owner
            \/ FanOnly /\ Fan!Next
            \/ BusOnly /\ Bus!Next
            \/ RailOnly /\ Rail!Worker)
  /\ WF_all(\/ ChargeOnly /\ Charge!Due
            \/ RailOnly /\ Rail!Initialize)
  /\ WF_all(RailOnly /\ Rail!Due /\ ~Rail!Pending)
  /\ WF_all(RailOnly /\ Rail!Interrupt)
  /\ WF_all(RailOnly /\ Rail!Silence /\ ~ctl.hid)
  /\ WF_all(RailOnly /\ Rail!Answer(FALSE))
  /\ WF_all(RailOnly /\ (Rail!Unheard \/ Rail!Dropped))
  /\ SF_all(\/ GpioOnly /\ Worker("typec")
            \/ ChargeOnly /\ Charge!Monitor /\ chg.due
            \/ RailOnly /\ Rail!Detect(TRUE))
  /\ SF_all(GpioOnly /\ Worker("touch"))

----------------------------------------------------------------------------
(* What the parts promise, by the names their modules give it.              *)

\* The charger is written only while work is scheduled, opens within a ceiling
\* the source can bear, rises by one step within the contract, and is complete
\* only at the target (charger.rs).
ChargeOrder ==
  /\ [](part = "charge" => Charge!CompleteIsApplied)
  /\ Charge!RampWithinContract
  /\ Charge!OpensWithinSmallCeiling
  /\ Charge!IdleWritesNothing

\* One of the racing probes registers the zone and none forgets it; a fan or a
\* GPU without a controlling zone runs at full duty (thermal.rs).
ThermalSafe == part = "thermal" => Fan!ThermalSafe

\* A transaction that returns Ok was put on the wire once, no packet starts
\* behind the rest of a failed one, and the recovery clocks a bus nobody drives
\* (packet.rs, runtime.rs).
BusSafe == part = "i2c" => Bus!BusSafe

\* Receive stays armed whenever the worker waits for data, a rail that is down
\* sends nothing and holds no button (joycon runtime.rs, protocol.rs,
\* uart_rx.rs).
RailSafe ==
  part = "joycon" =>
    /\ Rail!ReceiveArmed
    /\ Rail!QuietWhenDown
    /\ Rail!NothingHeldWhenDown

\* Under fairness: a low line is served and an unowned one quiesced, charging
\* work settles, the fan is decided, transactions end, a pulled controller
\* releases its buttons and an attached one connects.
PlatformServed ==
  /\ part = "gpio" => LineServed /\ NoStorm
  /\ part = "charge" => Charge!ChargeSettles
  /\ part = "thermal" => Fan!FanDecided
  /\ part = "i2c" => Bus!TransactionsEnd
  /\ part = "joycon" => Rail!PulledReleases /\ Rail!Connects
=============================================================================
