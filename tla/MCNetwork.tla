----------------------------- MODULE MCNetwork -----------------------------
(***************************************************************************)
(* The Wi-Fi driver's protocols under fairness, checked in one run:        *)
(* control commands, the request queues of the worker, and the wake-ups of *)
(* the shared interrupt. They share no state in the models, so a behaviour *)
(* runs one of them, its part; the others stay in one of their initial     *)
(* states.                                                                 *)
(***************************************************************************)
EXTENDS Naturals

CONSTANTS
  Buffers, EventBuffers, SubCap, CplCap, MaxPacket, Reserved, MaxTrans,  \* control
  Commands, QueueLimit, TxLimit, TxBuffers, Rx, CoreRetires,             \* the worker
  Cancellable, MaxRequests, MaxLinks, MaxFrames,
  MaxRing, MaxQueue,                                                     \* activity
  MaxFaults                                                              \* each part's faults

VARIABLES
  part, id, next_packet, transaction, pending, input, started, failed, pc,
  sub, cpl, held, job, old, answer, faults, requests, events, active,
  cancelled, w_failed, retire, dirty, count, answered, named, up, epoch, tx,
  sender, w_held, w_pc, sl, then, associated, key, w_pending, flow, asked,
  gen, air, links, joining, w_cpl, rxq, stale, frames, w_faults, worker, seen,
  seq, registered, armed, slot, a_status, mask, intx, irq, a_held, lost,
  other, fw, ring, task, queue, sent, a_asked, a_faults

control == <<id, next_packet, transaction, pending, input, started, failed,
             pc, sub, cpl, held, job, old, answer, faults>>
queues == <<requests, events, active, cancelled, w_failed, retire, dirty,
            count, answered, named, up, epoch, tx, sender, w_held, w_pc, sl,
            then, associated, key, w_pending, flow, asked, gen, air, links,
            joining, w_cpl, rxq, stale, frames, w_faults>>
activity == <<worker, seen, seq, registered, armed, slot, a_status, mask,
              intx, irq, a_held, lost, other, fw, ring, task, queue, sent,
              a_asked, a_faults>>

Control == INSTANCE BrcmControl
  WITH Events <- EventBuffers
Queues == INSTANCE BrcmWorker
  WITH failed <- w_failed, held <- w_held, pc <- w_pc, pending <- w_pending,
       cpl <- w_cpl, faults <- w_faults
Activity == INSTANCE BrcmActivity
  WITH status <- a_status, held <- a_held, asked <- a_asked, faults <- a_faults

\* A queue takes the removal of the radio, identifiers are numbers.
ASSUME NetworkAssumption ==
  /\ QueueLimit \in Nat \ {0}
  /\ Reserved \in Nat

NetworkInit ==
  /\ part \in {"control", "queues", "activity"}
  /\ Control!Init
  /\ Queues!Init
  /\ Activity!Init /\ (part # "activity" => ~a_status /\ ~mask)

\* The part that runs leaves the others alone.
ControlOnly == part = "control" /\ UNCHANGED <<part, queues, activity>>
QueuesOnly == part = "queues" /\ UNCHANGED <<part, control, activity>>
ActivityOnly == part = "activity" /\ UNCHANGED <<part, control, queues>>

NetworkNext ==
  \/ ControlOnly /\ Control!Next
  \/ QueuesOnly /\ Queues!Next
  \/ ActivityOnly /\ Activity!Next

all == <<part, control, queues, activity>>

\* The fairness of the part that runs.  A behaviour has one part, so fairness of
\* a disjunction over the parts is the fairness each part asks for.
NetworkSpec ==
  /\ NetworkInit /\ [][NetworkNext]_all
  /\ WF_all(\/ ControlOnly /\ Control!Worker
            \/ QueuesOnly /\ Queues!Step
            \/ ActivityOnly /\ Activity!Worker)
  /\ WF_all(\/ ControlOnly /\ Control!FwFetch
            \/ QueuesOnly /\ Queues!TimeOut
            \/ ActivityOnly /\ Activity!Handler)
  /\ WF_all(\/ QueuesOnly /\ Queues!SendQueue
            \/ ActivityOnly /\ Activity!FwDoorbell)
  /\ WF_all(\/ QueuesOnly /\ Queues!FwFlow
            \/ ActivityOnly /\ Activity!SubmitNotify)
  /\ WF_all(ActivityOnly /\ Activity!SubmitWake)
  /\ SF_all(\/ ControlOnly /\ Control!FwRespond
            \/ QueuesOnly /\ (Queues!BeginRetire \/ Queues!TakeRequest))
  /\ SF_all(QueuesOnly /\ (Queues!HandleEvent \/ Queues!HandleFlow))
  /\ SF_all(QueuesOnly /\ Queues!CompleteTransmit)
  /\ SF_all(QueuesOnly /\ Queues!FlushDone)

----------------------------------------------------------------------------
(* What the parts promise, by the names their modules give it.              *)

\* A control buffer has one owner, a request is intact until the firmware has
\* taken it and an answer belongs to the command that asked (control.rs);
\* queued requests keep within their limit, in one place, and a cancellation
\* reaches only its own (runtime.rs); a claimed interrupt is accounted for
\* until it is completed (activity.rs).
WifiSafe ==
  /\ part = "control" =>
       /\ Control!OneOwner
       /\ Control!RequestIntact
       /\ Control!AnswersTheCommand
  /\ part = "queues" =>
       /\ Queues!QueueBounded
       /\ Queues!OnePlace
       /\ Queues!CancelsItsOwn
  /\ part = "activity" => Activity!HoldAccounted

\* Under fairness: a control command ends, every request is answered,
\* submissions are inspected without a further event, and the shared level-
\* triggered line is released.
NetworkServed ==
  /\ part = "control" => Control!CommandEnds
  /\ part = "queues" => Queues!RequestsEnd
  /\ part = "activity" => Activity!SubmissionsInspected /\ Activity!SharedLineServed
=============================================================================
