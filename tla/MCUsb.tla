------------------------------- MODULE MCUsb -------------------------------
(***************************************************************************)
(* The tasks of the XUSB host, checked in one run: the Type-C monitor with *)
(* the startup worker (XusbHost), the Falcon mailbox, the boot sequence of *)
(* the controller, and the single task of a machine without a second CPU.  *)
(* They share no state in the models, so a behaviour runs one of them, its *)
(* part; the others stay in one of their initial states.                   *)
(***************************************************************************)
EXTENDS XusbHost

CONSTANTS MaxRequests, MaxHangs, \* bounds of the mailbox
          MaxBoots               \* bound: how often the host is started

VARIABLES
  part, owner, command, out, in, smi, posted, hangs, claimed, pending, fault,
  failed, m_wake, pc, msg, status, handled, b_hw, lane0, b_pc, k, b_active,
  fw, isolated, boots, s_owner, request, s_irq, inbox, s_posted, task,
  started, s_failed, s_wake

box == <<owner, command, out, in, smi, posted, hangs, claimed, pending, fault,
         failed, m_wake, pc, msg, status, handled>>
chip == <<b_hw, lane0, b_pc, k, b_active, fw, isolated, boots>>
single == <<s_owner, request, s_irq, inbox, s_posted, task, started, s_failed,
            s_wake>>

Box == INSTANCE Mailbox
  WITH wake <- m_wake
Chip == INSTANCE XusbBoot
  WITH hw <- b_hw, pc <- b_pc, active <- b_active
Single == INSTANCE XusbSingle
  WITH MaxRequests <- 4, owner <- s_owner, irq <- s_irq, posted <- s_posted,
       failed <- s_failed, wake <- s_wake

UsbInit ==
  /\ part \in {"host", "mailbox", "boot", "single"}
  /\ Init /\ (part # "host" => port = "none")
  /\ Box!Init
  /\ Chip!Init /\ (part # "boot" => b_hw = CHOOSE h \in Chip!Inherited : TRUE)
  /\ Single!Init

\* The part that runs leaves the others alone.
HostOnly == part = "host" /\ UNCHANGED <<part, box, chip, single>>
BoxOnly == part = "mailbox" /\ UNCHANGED <<part, vars, chip, single>>
ChipOnly == part = "boot" /\ UNCHANGED <<part, vars, box, single>>
SingleOnly == part = "single" /\ UNCHANGED <<part, vars, box, chip>>

UsbNext ==
  \/ HostOnly /\ Next
  \/ BoxOnly /\ Box!Next
  \/ ChipOnly /\ Chip!Next
  \/ SingleOnly /\ Single!Next

all == <<part, vars, box, chip, single>>

\* The fairness of the part that runs.  A behaviour has one part, so fairness of
\* a disjunction over the parts is the fairness each part asks for.
UsbSpec ==
  /\ UsbInit /\ [][UsbNext]_all
  /\ WF_all(\/ HostOnly /\ Monitor
            \/ BoxOnly /\ Box!Irq
            \/ ChipOnly /\ Chip!Driver
            \/ SingleOnly /\ Single!Accept)
  /\ WF_all(\/ HostOnly /\ Startup
            \/ BoxOnly /\ Box!Worker
            \/ SingleOnly /\ Single!Interrupt)
  /\ WF_all(\/ BoxOnly /\ Box!Sender
            \/ SingleOnly /\ (Single!Send \/ Single!OwnerReleased \/ Single!OwnerTimeout \/ Single!Service \/ Single!Awake))

----------------------------------------------------------------------------
(* What the parts promise, by the names their modules give it.              *)

\* What the firmware is told to take is what it waits for, and no request is
\* consumed twice, whichever of handler, worker and sender holds the claim
\* (mailbox.rs begin_send, service).
MailboxSafe == part = "mailbox" => Box!MailboxSafe

\* Whatever handshake fails: firmware pages are freed only under an isolated
\* Falcon, an inherited image is replaced before the host is bound, the cable
\* stays closed until then, lanes and running PLLs keep their owner, and
\* partitions leave reset in the required order (xusb.rs, falcon.rs).
BootSafe ==
  /\ [](part = "boot" =>
         /\ Chip!FreedOnlyIsolated
         /\ Chip!ReplacesInherited
         /\ Chip!LaneRestored
         /\ Chip!ClosedUntilBound
         /\ Chip!FailureIsolates)
  /\ Chip!PowerOrder
  /\ Chip!RunningPllsKept
  /\ Chip!OtherOwnerUntouched

\* Under fairness: a stable partner or an empty connector is reconciled with
\* the gate, a request and a hang always reach the driver, a start ends, and on
\* one CPU startup is decided and requests are served.
UsbServed ==
  /\ part = "host" => HostServed /\ RoleLossIsolates
  /\ part = "mailbox" => Box!RequestServed /\ Box!HangReported
  /\ part = "boot" => Chip!StartEnds
  /\ part = "single" => Single!StartupDecided /\ Single!RequestsServed
=============================================================================
