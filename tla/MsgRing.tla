------------------------------ MODULE MsgRing ------------------------------
(***************************************************************************)
(* One ring of msgbuf.rs between the driver and the firmware: the driver   *)
(* is the producer of a submission ring (ToDevice) and the consumer of a   *)
(* completion ring.  Each end reads the other's index register, moves data *)
(* through shared memory and then publishes its own index; the other end   *)
(* runs between any two of these accesses, and each access may fail, with  *)
(* or without having reached the device.                                   *)
(***************************************************************************)
EXTENDS Naturals, Sequences

CONSTANTS
  Message,    \* the messages of the ring
  Zero,       \* what prepare() fills a slot with
  Depth,      \* Ring::depth
  ToDevice,   \* Ring::h2d
  MaxBatch,   \* bound: messages in one push_batch
  MaxSent,    \* bound: messages sent since the ring was prepared
  MaxFaults   \* bound: accesses that fail

VARIABLES
  slot,        \* the ring's memory
  wreg, rreg,  \* the producer's and the consumer's index registers
  index,       \* Ring::index, the driver's own cursor
  configured,  \* Ring::configured
  failed,      \* Ring::failed, while no operation is in progress
  op,          \* the driver's operation in progress
  live,        \* the firmware works on the ring
  log, got,    \* history: the messages sent and delivered since prepare()
  faults

vars == <<slot, wreg, rreg, index, configured, failed, op, live, log, got, faults>>

Slots == 0..Depth - 1

\* Remainder by Depth of a sum of two indices.
Wrap(i) == IF i >= Depth THEN i - Depth ELSE i

Idle == [step |-> "idle", msgs |-> << >>, batch |-> FALSE]

\* The firmware's own cursor is the register it publishes.
Free == Wrap(rreg + Depth - 1 - wreg)
Used == Wrap(wreg + Depth - rreg)

Fault == faults < MaxFaults /\ faults' = faults + 1

----------------------------------------------------------------------------
(* Ring::new and prepare(): the indices must be those of a fresh ring. *)

Init ==
  /\ slot \in {[i \in Slots |-> Zero]}
  /\ wreg = 0 /\ rreg = 0 /\ index = 0
  /\ configured = FALSE /\ failed = FALSE /\ op = Idle
  /\ live = FALSE /\ log = << >> /\ got = << >> /\ faults = 0

Fresh == wreg = 0 /\ rreg = 0

Prepare ==
  /\ ~configured /\ ~failed /\ op = Idle
  /\ \/ /\ Fresh
        /\ slot' = [i \in Slots |-> Zero]
        /\ configured' = TRUE /\ live' = TRUE
        /\ UNCHANGED <<failed, faults>>
     \/ /\ ~Fresh
        /\ failed' = TRUE
        /\ UNCHANGED <<slot, configured, live, faults>>
     \/ /\ Fault
        /\ failed' = TRUE
        /\ UNCHANGED <<slot, configured, live>>
  /\ UNCHANGED <<wreg, rreg, index, op, log, got>>

----------------------------------------------------------------------------
(* push() and push_batch() of a submission ring. *)

Ready == configured /\ ~failed /\ op = Idle

\* The slots between the driver's cursor and the consumer index it read; one
\* slot stays empty, so that a full ring differs from an empty one.
Available(read) == Wrap(read + Depth - index - 1)

\* The consumer index is read and as many messages are admitted as fit;
\* "submission ring full" and an admission of none change nothing.
PushBegin(ms, batch) ==
  /\ ToDevice /\ Ready
  /\ Len(log) + Len(ms) <= MaxSent
  /\ LET count == IF Len(ms) <= Available(rreg) THEN Len(ms) ELSE Available(rreg)
     IN  /\ count > 0
         /\ op' = [step |-> "stage", msgs |-> SubSeq(ms, 1, count), batch |-> batch]
  /\ UNCHANGED <<slot, wreg, rreg, index, configured, failed, live, log, got, faults>>

\* An index outside the ring: the link to the device is gone.
PushUnreadable ==
  /\ ToDevice /\ Ready /\ Fault
  /\ failed' = TRUE
  /\ UNCHANGED <<slot, wreg, rreg, index, configured, op, live, log, got>>

\* The messages, written from the driver's cursor on.
Staged ==
  [i \in Slots |->
     LET k == Wrap(i + Depth - index)
     IN  IF k < Len(op.msgs) THEN op.msgs[k + 1] ELSE slot[i]]

Stage ==
  /\ op.step = "stage"
  /\ slot' = Staged
  /\ op' = [op EXCEPT !.step = "publish"]
  /\ UNCHANGED <<wreg, rreg, index, configured, failed, live, log, got, faults>>

\* A failure of write_dma or sync_for_device: only a batch quarantines.
StageFails ==
  /\ op.step = "stage" /\ Fault
  /\ slot' \in {slot, Staged}
  /\ op' = Idle
  /\ failed' = op.batch
  /\ UNCHANGED <<wreg, rreg, index, configured, live, log, got>>

Advance(count) == Wrap(index + count)

\* Mutated form: the index is published before the data is written.
Publish_Early ==
  /\ op.step \in {"stage", "publish"}
  /\ wreg' = Advance(Len(op.msgs)) /\ index' = Advance(Len(op.msgs))
  /\ log' = log \o op.msgs /\ op' = Idle
  /\ slot' \in {slot, Staged}
  /\ UNCHANGED <<rreg, configured, failed, live, got, faults>>

\* write_tcm of the producer index, then the doorbell.
Publish ==
  /\ op.step = "publish"
  /\ wreg' = Advance(Len(op.msgs)) /\ index' = Advance(Len(op.msgs))
  /\ log' = log \o op.msgs /\ op' = Idle
  /\ UNCHANGED <<slot, rreg, configured, failed, live, got, faults>>

\* The index write or the doorbell fails: the firmware may own the messages.
PublishFails ==
  /\ op.step = "publish" /\ Fault
  /\ op' = Idle /\ failed' = TRUE
  /\ \/ /\ wreg' = Advance(Len(op.msgs)) /\ log' = log \o op.msgs
        /\ index' \in {index, Advance(Len(op.msgs))}
     \/ UNCHANGED <<wreg, log, index>>
  /\ UNCHANGED <<slot, rreg, configured, live, got>>

----------------------------------------------------------------------------
(* pop() of a completion ring. *)

PopBegin ==
  /\ ~ToDevice /\ Ready
  /\ wreg # index
  /\ op' = [op EXCEPT !.step = "read"]
  /\ UNCHANGED <<slot, wreg, rreg, index, configured, failed, live, log, got, faults>>

PopUnreadable ==
  /\ ~ToDevice /\ Ready /\ Fault
  /\ failed' = TRUE
  /\ UNCHANGED <<slot, wreg, rreg, index, configured, op, live, log, got>>

PopRead ==
  /\ op.step = "read"
  /\ op' = [op EXCEPT !.step = "ack", !.msgs = <<slot[index]>>]
  /\ UNCHANGED <<slot, wreg, rreg, index, configured, failed, live, log, got, faults>>

PopReadFails ==
  /\ op.step = "read" /\ Fault
  /\ op' = Idle
  /\ UNCHANGED <<slot, wreg, rreg, index, configured, failed, live, log, got>>

\* write_tcm of the consumer index gives the slot back to the firmware.
PopAck ==
  /\ op.step = "ack"
  /\ rreg' = Advance(1) /\ index' = Advance(1)
  /\ got' = got \o op.msgs
  /\ op' = Idle
  /\ UNCHANGED <<slot, wreg, configured, failed, live, log, faults>>

PopAckFails ==
  /\ op.step = "ack" /\ Fault
  /\ op' = Idle /\ failed' = TRUE
  /\ rreg' \in {rreg, Advance(1)}
  /\ UNCHANGED <<slot, wreg, index, configured, live, log, got>>

----------------------------------------------------------------------------
(* The firmware: the other end of the ring, and the end of a flow ring. *)

FwTake ==
  /\ ToDevice /\ live /\ Used > 0
  /\ got' = Append(got, slot[rreg])
  /\ rreg' = Wrap(rreg + 1)
  /\ UNCHANGED <<slot, wreg, index, configured, failed, op, live, log, faults>>

FwPut(m) ==
  /\ ~ToDevice /\ live /\ Free > 0
  /\ Len(log) < MaxSent
  /\ slot' = [slot EXCEPT ![wreg] = m]
  /\ wreg' = Wrap(wreg + 1)
  /\ log' = Append(log, m)
  /\ UNCHANGED <<rreg, index, configured, failed, op, live, got, faults>>

\* FLOW_RING_DELETE, once every message of the flow was returned.
DeleteFlow ==
  /\ ToDevice /\ live /\ Ready /\ got = log
  /\ op' = [op EXCEPT !.step = "delete"]
  /\ UNCHANGED <<slot, wreg, rreg, index, configured, failed, live, log, got, faults>>

\* The firmware's answer; it may clear its consumer index on the way.
FwDelete ==
  /\ op.step = "delete" /\ live
  /\ live' = FALSE
  /\ rreg' \in {rreg, 0}
  /\ UNCHANGED <<slot, wreg, index, configured, failed, op, log, got, faults>>

\* deleted_flow(): the indices are cleared and this Ring is done with; the next
\* flow of the same identifier is a new Ring on the same memory and registers.
DeletedFlow ==
  /\ op.step = "delete" /\ ~live
  /\ op' = Idle
  /\ \/ /\ wreg' = 0 /\ rreg' = 0
        /\ index' = 0 /\ configured' = FALSE
        /\ log' = << >> /\ got' = << >>
        /\ UNCHANGED <<failed, faults>>
     \/ /\ Fault
        /\ failed' = TRUE /\ wreg' \in {wreg, 0}
        /\ UNCHANGED <<rreg, index, configured, log, got>>
  /\ UNCHANGED <<slot, live>>

----------------------------------------------------------------------------

Batches == UNION {[1..n -> Message] : n \in 1..MaxBatch}

Next ==
  \/ Prepare
  \/ \E m \in Message : PushBegin(<<m>>, FALSE)
  \/ \E ms \in Batches : PushBegin(ms, TRUE)
  \/ PushUnreadable \/ Stage \/ StageFails \/ Publish \/ PublishFails
  \/ PopBegin \/ PopUnreadable \/ PopRead \/ PopReadFails \/ PopAck \/ PopAckFails
  \/ FwTake \/ \E m \in Message : FwPut(m)
  \/ DeleteFlow \/ FwDelete \/ DeletedFlow

Spec == Init /\ [][Next]_vars

----------------------------------------------------------------------------

TypeOK ==
  /\ slot \in [Slots -> Message \cup {Zero}]
  /\ wreg \in Slots /\ rreg \in Slots /\ index \in Slots
  /\ configured \in BOOLEAN /\ failed \in BOOLEAN /\ live \in BOOLEAN
  /\ op.step \in {"idle", "stage", "publish", "read", "ack", "delete"}
  /\ op.msgs \in Seq(Message \cup {Zero}) /\ op.batch \in BOOLEAN
  /\ log \in Seq(Message) /\ got \in Seq(Message) /\ faults \in 0..MaxFaults

\* Every slot between the two index registers holds the message that was sent
\* into it, whatever the driver is staging next to it: a slot is never
\* rewritten before its consumer has given it back.
OutstandingIntact ==
  live /\ (ToDevice \/ ~failed) =>
    /\ Len(log) = Len(got) + Used
    /\ \A i \in 1..Used : slot[Wrap(rreg + i - 1)] = log[Len(got) + i]

\* A ring in use and its registers agree on the driver's cursor; a ring whose
\* cursor may be wrong is quarantined.
CursorPublished ==
  configured /\ ~failed =>
    /\ ToDevice => index = wreg
    /\ ~ToDevice => index = rreg

\* The ring is a bounded channel: in-order delivery, once, of what was sent.
Abstract ==
  INSTANCE Channel WITH Capacity <- Depth - 1, broken <- ~ToDevice /\ failed

ChannelSpec == Abstract!Spec

\* What one side published the other takes once, in order and unchanged, also
\* across failing index accesses and ring deletion (push_batch, pop).
RingIsChannel == [](OutstandingIntact /\ CursorPublished) /\ ChannelSpec
=============================================================================
