--------------------------- MODULE MsgRingProofs ---------------------------
(***************************************************************************)
(* Proofs about MsgRing: a ring of any depth, driven in either direction   *)
(* with any number of failing accesses, implements the abstract Channel.   *)
(***************************************************************************)
EXTENDS MsgRing, SequenceTheorems, TLAPS

\* A ring has a depth and a direction.
RingBounds == Depth \in Nat \ {0} /\ ToDevice \in BOOLEAN

\* The driver's operations in progress.
Ops == [step : {"idle", "stage", "publish", "read", "ack", "delete"},
        msgs : Seq(Message \cup {Zero}), batch : BOOLEAN]

\* The shape of the state.
Shaped ==
  /\ slot \in [Slots -> Message \cup {Zero}]
  /\ wreg \in Slots /\ rreg \in Slots /\ index \in Slots
  /\ configured \in BOOLEAN /\ failed \in BOOLEAN /\ live \in BOOLEAN
  /\ op \in Ops
  /\ log \in Seq(Message) /\ got \in Seq(Message)

\* The firmware works on a ring exactly while the driver has it configured and
\* is not taking it down; an unconfigured ring is a fresh one.
Living ==
  /\ live => configured
  /\ configured /\ ~failed /\ op.step # "delete" => live
  /\ ~configured => /\ log = << >> /\ got = << >> /\ op = Idle
                    /\ wreg = 0 /\ rreg = 0 /\ index = 0

\* An operation runs only on a usable ring of its direction.
Working ==
  /\ op.step # "idle" => configured /\ ~failed
  /\ op.step \in {"stage", "publish", "delete"} => ToDevice
  /\ op.step \in {"read", "ack"} => ~ToDevice

\* What is being pushed still fits, and before it is published it is in place.
Pushing ==
  op.step \in {"stage", "publish"} =>
    /\ op.msgs \in Seq(Message) /\ Len(op.msgs) > 0 /\ Used + Len(op.msgs) < Depth
    /\ op.step = "publish" =>
         \A k \in 1..Len(op.msgs) : slot[Wrap(index + k - 1)] = op.msgs[k]

\* What is being popped was sent and not delivered yet.
Popping ==
  /\ op.step \in {"read", "ack"} => Used > 0
  /\ op.step = "ack" => op.msgs = <<log[Len(got) + 1]>>

\* Only a ring whose messages were all delivered is taken down.
Deleting == op.step = "delete" => got = log

\* The inductive invariant.
RInv == /\ Shaped /\ Living /\ Working /\ Pushing /\ Popping /\ Deleting
        /\ OutstandingIntact /\ CursorPublished

-----------------------------------------------------------------------------
(* Arithmetic of the indices. *)

\* The distance of two indices, and how it grows with the producer's.
LEMMA ProducerMoves ==
  ASSUME RingBounds, NEW w \in Slots, NEW r \in Slots, NEW n \in Nat,
         Wrap(w + Depth - r) + n < Depth
  PROVE  /\ Wrap(w + n) \in Slots
         /\ Wrap(Wrap(w + n) + Depth - r) = Wrap(w + Depth - r) + n
         /\ \A k \in 1..n : Wrap(r + (Wrap(w + Depth - r) + k) - 1) = Wrap(w + k - 1)
BY DEF RingBounds, Slots, Wrap

\* It shrinks as the consumer's index moves on, and the slots keep their place.
LEMMA ConsumerMoves ==
  ASSUME RingBounds, NEW w \in Slots, NEW r \in Slots, Wrap(w + Depth - r) > 0
  PROVE  /\ Wrap(r + 1) \in Slots
         /\ Wrap(w + Depth - Wrap(r + 1)) = Wrap(w + Depth - r) - 1
         /\ \A i \in Nat \ {0} : i < Wrap(w + Depth - r) =>
              Wrap(Wrap(r + 1) + i - 1) = Wrap(r + (i + 1) - 1)
BY DEF RingBounds, Slots, Wrap

\* The distance is below the depth, and what is free is the rest but one.
LEMMA Distance ==
  ASSUME RingBounds, NEW w \in Slots, NEW r \in Slots
  PROVE  /\ Wrap(w + Depth - r) \in 0..Depth - 1
         /\ Wrap(r + Depth - 1 - w) = Depth - 1 - Wrap(w + Depth - r)
         /\ Wrap(r + Depth - w - 1) = Depth - 1 - Wrap(w + Depth - r)
         /\ r = Wrap(r + 1 - 1)
         /\ \A i \in 1..Wrap(w + Depth - r) :
              /\ Wrap(r + i - 1) \in Slots
              /\ Wrap(r + i - 1) # w
         /\ \A i \in 1..Wrap(w + Depth - r) : \A k \in Nat \ {0} :
              Wrap(w + Depth - r) + k < Depth => Wrap(r + i - 1) # Wrap(w + k - 1)
BY DEF RingBounds, Slots, Wrap

\* Staging writes message k to the slot k - 1 after the cursor, and leaves the
\* outstanding slots alone.
LEMMA StagedPlace ==
  ASSUME RingBounds, NEW w \in Slots, NEW i \in Slots, NEW k \in Nat \ {0}, k <= Depth
  PROVE  /\ Wrap(i + Depth - w) \in 0..Depth - 1
         /\ i = Wrap(w + Wrap(i + Depth - w))
         /\ Wrap(w + k - 1) \in Slots
         /\ Wrap(Wrap(w + k - 1) + Depth - w) = k - 1
BY DEF RingBounds, Slots, Wrap

-----------------------------------------------------------------------------
(* The driver's operations. *)

\* An operation goes on to its next step with the messages it holds.
LEMMA OpFields ==
  ASSUME NEW o \in Ops, NEW s \in {"idle", "stage", "publish", "read", "ack", "delete"}
  PROVE  /\ [o EXCEPT !.step = s] \in Ops
         /\ [o EXCEPT !.step = s].step = s
         /\ [o EXCEPT !.step = s].msgs = o.msgs
         /\ [o EXCEPT !.step = s].batch = o.batch
         /\ \A ms \in Seq(Message \cup {Zero}) :
              /\ [o EXCEPT !.step = s, !.msgs = ms] \in Ops
              /\ [o EXCEPT !.step = s, !.msgs = ms].step = s
              /\ [o EXCEPT !.step = s, !.msgs = ms].msgs = ms
BY DEF Ops

\* No operation is in progress.
LEMMA IdleOp ==
  Idle \in Ops /\ Idle.step = "idle"
BY DEF Idle, Ops

-----------------------------------------------------------------------------
(* Every step keeps the invariant and is one of the channel, or none. *)

\* A refused or failing preparation breaks a completion ring for good.
LEMMA PrepareKeeps ==
  ASSUME RingBounds, RInv, Prepare
  PROVE  RInv' /\ [Abstract!Next]_(Abstract!chan)
<1>1. Shaped'
  BY DEF RInv, Shaped, Prepare
<1>2. Living'
  BY DEF RInv, Living, Prepare
<1>3. Working'
  BY DEF Working, Idle, Prepare
<1>4. Pushing'
  BY DEF Pushing, Idle, Prepare
<1>5. Popping'
  BY DEF Popping, Idle, Prepare
<1>6. Deleting'
  BY DEF Deleting, Idle, Prepare
<1>7. OutstandingIntact'
  BY DEF RingBounds, RInv, Shaped, Living, Working, Pushing, OutstandingIntact, Prepare
<1>8. CursorPublished'
  BY DEF RInv, Living, CursorPublished, Prepare
<1>9. [Abstract!Next]_(Abstract!chan)
  BY DEF Prepare, Abstract!chan, Abstract!Next, Abstract!Break
<1>10. QED
  BY <1>1, <1>2, <1>3, <1>4, <1>5, <1>6, <1>7, <1>8, <1>9 DEF RInv

\* A submission ring is only quarantined.
LEMMA PushUnreadableKeeps ==
  ASSUME RingBounds, RInv, PushUnreadable
  PROVE  RInv' /\ [Abstract!Next]_(Abstract!chan)
<1>1. Shaped'
  BY DEF RInv, Shaped, PushUnreadable
<1>2. Living'
  BY DEF Living, PushUnreadable, Ready
<1>3. Working'
  BY DEF Working, Idle, PushUnreadable, Ready
<1>4. Pushing'
  BY DEF Pushing, Idle, PushUnreadable, Ready
<1>5. Popping'
  BY DEF Popping, Idle, PushUnreadable, Ready
<1>6. Deleting'
  BY DEF Deleting, Idle, PushUnreadable, Ready
<1>7. OutstandingIntact'
  BY DEF RInv, OutstandingIntact, Used, PushUnreadable
<1>8. CursorPublished'
  BY DEF CursorPublished, PushUnreadable
<1>9. [Abstract!Next]_(Abstract!chan)
  BY DEF PushUnreadable, Abstract!chan
<1>10. QED
  BY <1>1, <1>2, <1>3, <1>4, <1>5, <1>6, <1>7, <1>8, <1>9 DEF RInv

\* There is something to pop.
LEMMA PopBeginKeeps ==
  ASSUME RingBounds, RInv, PopBegin
  PROVE  RInv' /\ [Abstract!Next]_(Abstract!chan)
<1>0. op' \in Ops /\ op'.step = "read" /\ op'.msgs = op.msgs
  BY OpFields DEF RInv, Shaped, PopBegin
<1>1. Shaped'
  BY <1>0 DEF RInv, Shaped, PopBegin
<1>2. Living'
  BY DEF RInv, Living, Idle, PopBegin, Ready
<1>3. Working'
  BY DEF Working, PopBegin, Ready
<1>4. Pushing'
  BY DEF Pushing, PopBegin
<1>5. Popping'
  <2>1. wreg # rreg /\ wreg \in Slots /\ rreg \in Slots /\ UNCHANGED <<wreg, rreg>>
    BY DEF RInv, Shaped, CursorPublished, PopBegin, Ready
  <2>2. Used > 0
    BY <2>1 DEF RingBounds, Used, Slots, Wrap
  <2>. QED
    BY <1>0, <2>1, <2>2 DEF Popping, Used
<1>6. Deleting'
  BY DEF Deleting, PopBegin
<1>7. OutstandingIntact'
  BY DEF RInv, OutstandingIntact, Used, PopBegin
<1>8. CursorPublished'
  BY DEF RInv, CursorPublished, PopBegin
<1>9. [Abstract!Next]_(Abstract!chan)
  BY DEF PopBegin, Abstract!chan
<1>10. QED
  BY <1>1, <1>2, <1>3, <1>4, <1>5, <1>6, <1>7, <1>8, <1>9 DEF RInv

\* A completion ring that cannot be read delivers nothing more.
LEMMA PopUnreadableKeeps ==
  ASSUME RingBounds, RInv, PopUnreadable
  PROVE  RInv' /\ [Abstract!Next]_(Abstract!chan)
<1>1. Shaped'
  BY DEF RInv, Shaped, PopUnreadable
<1>2. Living'
  BY DEF Living, PopUnreadable, Ready
<1>3. Working'
  BY DEF Working, Idle, PopUnreadable, Ready
<1>4. Pushing'
  BY DEF Pushing, Idle, PopUnreadable, Ready
<1>5. Popping'
  BY DEF Popping, Idle, PopUnreadable, Ready
<1>6. Deleting'
  BY DEF Deleting, Idle, PopUnreadable, Ready
<1>7. OutstandingIntact'
  BY DEF OutstandingIntact, PopUnreadable
<1>8. CursorPublished'
  BY DEF CursorPublished, PopUnreadable
<1>9. [Abstract!Next]_(Abstract!chan)
  BY DEF PopUnreadable, Abstract!Next, Abstract!Break
<1>10. QED
  BY <1>1, <1>2, <1>3, <1>4, <1>5, <1>6, <1>7, <1>8, <1>9 DEF RInv

\* The slot at the cursor holds the oldest outstanding message.
LEMMA PopReadKeeps ==
  ASSUME RingBounds, RInv, PopRead
  PROVE  RInv' /\ [Abstract!Next]_(Abstract!chan)
<1>0. op' \in Ops /\ op'.step = "ack" /\ op'.msgs = <<slot[index]>>
  <2>1. slot[index] \in Message \cup {Zero} /\ op \in Ops
    BY DEF RInv, Shaped
  <2>. DEFINE ms == <<slot[index]>>
  <2>2. ms \in Seq(Message \cup {Zero}) /\ op' = [op EXCEPT !.step = "ack", !.msgs = ms]
    BY <2>1 DEF PopRead
  <2>. HIDE DEF ms
  <2>3. \A z \in Seq(Message \cup {Zero}) :
          /\ [op EXCEPT !.step = "ack", !.msgs = z] \in Ops
          /\ [op EXCEPT !.step = "ack", !.msgs = z].step = "ack"
          /\ [op EXCEPT !.step = "ack", !.msgs = z].msgs = z
    BY <2>1, OpFields
  <2>4. op' \in Ops /\ op'.step = "ack" /\ op'.msgs = ms
    BY <2>2, <2>3, Zenon
  <2>. QED
    BY <2>4 DEF ms
<1>1. Shaped'
  BY <1>0 DEF RInv, Shaped, PopRead
<1>2. Living'
  BY DEF RInv, Living, Idle, PopRead
<1>3. Working'
  BY DEF RInv, Working, PopRead
<1>4. Pushing'
  BY DEF Pushing, PopRead
<1>5. Popping'
  <2>1. /\ Used > 0 /\ index = rreg /\ live /\ ~failed
        /\ UNCHANGED <<slot, wreg, rreg, log, got>>
    BY DEF RInv, Living, Working, Popping, CursorPublished, PopRead
  <2>2. Used \in Nat /\ rreg = Wrap(rreg + 1 - 1)
    BY Distance DEF RInv, Shaped, Used, RingBounds
  <2>3. slot[rreg] = log[Len(got) + 1]
    BY <2>1, <2>2 DEF RInv, OutstandingIntact
  <2>. QED
    BY <1>0, <2>1, <2>3 DEF Popping, Used
<1>6. Deleting'
  BY DEF Deleting, PopRead
<1>7. OutstandingIntact'
  BY DEF RInv, OutstandingIntact, Used, PopRead
<1>8. CursorPublished'
  BY DEF RInv, CursorPublished, PopRead
<1>9. [Abstract!Next]_(Abstract!chan)
  BY DEF PopRead, Abstract!chan
<1>10. QED
  BY <1>1, <1>2, <1>3, <1>4, <1>5, <1>6, <1>7, <1>8, <1>9 DEF RInv

\* A failing read takes nothing.
LEMMA PopReadFailsKeeps ==
  ASSUME RingBounds, RInv, PopReadFails
  PROVE  RInv' /\ [Abstract!Next]_(Abstract!chan)
<1>1. Shaped'
  BY DEF RInv, Shaped, Ops, Idle, PopReadFails
<1>2. Living'
  BY DEF RInv, Living, PopReadFails
<1>3. Working'
  BY DEF Working, Idle, PopReadFails
<1>4. Pushing'
  BY DEF Pushing, Idle, PopReadFails
<1>5. Popping'
  BY DEF Popping, Idle, PopReadFails
<1>6. Deleting'
  BY DEF Deleting, Idle, PopReadFails
<1>7. OutstandingIntact'
  BY DEF RInv, OutstandingIntact, Used, PopReadFails
<1>8. CursorPublished'
  BY DEF RInv, CursorPublished, PopReadFails
<1>9. [Abstract!Next]_(Abstract!chan)
  BY DEF PopReadFails, Abstract!chan
<1>10. QED
  BY <1>1, <1>2, <1>3, <1>4, <1>5, <1>6, <1>7, <1>8, <1>9 DEF RInv

\* Whether the slot was given back is unknown: the ring is broken.
LEMMA PopAckFailsKeeps ==
  ASSUME RingBounds, RInv, PopAckFails
  PROVE  RInv' /\ [Abstract!Next]_(Abstract!chan)
<1>1. Shaped'
  BY DEF RingBounds, RInv, Shaped, Ops, Slots, PopAckFails, Advance, Wrap, Fault
<1>2. Living'
  BY DEF RInv, Living, Idle, PopAckFails
<1>3. Working'
  BY DEF Working, Idle, PopAckFails
<1>4. Pushing'
  BY DEF Pushing, Idle, PopAckFails
<1>5. Popping'
  BY DEF Popping, Idle, PopAckFails
<1>6. Deleting'
  BY DEF Deleting, Idle, PopAckFails
<1>7. OutstandingIntact'
  BY DEF RInv, Working, OutstandingIntact, PopAckFails
<1>8. CursorPublished'
  BY DEF CursorPublished, PopAckFails
<1>9. [Abstract!Next]_(Abstract!chan)
  BY DEF PopAckFails, Abstract!chan, Abstract!Next, Abstract!Break
<1>10. QED
  BY <1>1, <1>2, <1>3, <1>4, <1>5, <1>6, <1>7, <1>8, <1>9 DEF RInv

\* Only an empty flow is taken down.
LEMMA DeleteFlowKeeps ==
  ASSUME RingBounds, RInv, DeleteFlow
  PROVE  RInv' /\ [Abstract!Next]_(Abstract!chan)
<1>0. op' \in Ops /\ op'.step = "delete" /\ op'.msgs = op.msgs
  BY OpFields DEF RInv, Shaped, DeleteFlow
<1>1. Shaped'
  BY <1>0 DEF RInv, Shaped, DeleteFlow
<1>2. Living'
  BY <1>0 DEF RInv, Living, Idle, DeleteFlow, Ready
<1>3. Working'
  BY DEF Working, DeleteFlow, Ready
<1>4. Pushing'
  BY DEF Pushing, DeleteFlow
<1>5. Popping'
  BY DEF Popping, DeleteFlow
<1>6. Deleting'
  BY DEF Deleting, DeleteFlow
<1>7. OutstandingIntact'
  BY DEF RInv, OutstandingIntact, Used, DeleteFlow
<1>8. CursorPublished'
  BY DEF RInv, CursorPublished, DeleteFlow, Ready
<1>9. [Abstract!Next]_(Abstract!chan)
  BY DEF DeleteFlow, Abstract!chan
<1>10. QED
  BY <1>1, <1>2, <1>3, <1>4, <1>5, <1>6, <1>7, <1>8, <1>9 DEF RInv

\* The firmware lets go of the ring.
LEMMA FwDeleteKeeps ==
  ASSUME RingBounds, RInv, FwDelete
  PROVE  RInv' /\ [Abstract!Next]_(Abstract!chan)
<1>1. Shaped'
  <2>1. 0 \in Slots
    BY DEF RingBounds, Slots
  <2>. QED
    BY <2>1 DEF RInv, Shaped, FwDelete
<1>2. Living'
  BY DEF RInv, Living, FwDelete
<1>3. Working'
  BY DEF RInv, Working, FwDelete
<1>4. Pushing'
  BY DEF Pushing, FwDelete
<1>5. Popping'
  BY DEF Popping, FwDelete
<1>6. Deleting'
  BY DEF RInv, Deleting, FwDelete
<1>7. OutstandingIntact'
  BY DEF OutstandingIntact, FwDelete
<1>8. CursorPublished'
  BY DEF RInv, Working, CursorPublished, FwDelete
<1>9. [Abstract!Next]_(Abstract!chan)
  BY DEF FwDelete, Abstract!chan
<1>10. QED
  BY <1>1, <1>2, <1>3, <1>4, <1>5, <1>6, <1>7, <1>8, <1>9 DEF RInv

\* The ring is a fresh one again, or quarantined.
LEMMA DeletedFlowKeeps ==
  ASSUME RingBounds, RInv, DeletedFlow
  PROVE  RInv' /\ [Abstract!Next]_(Abstract!chan)
<1>1. Shaped'
  <2>1. op' \in Ops /\ 0 \in Slots
    BY IdleOp DEF RingBounds, Slots, DeletedFlow
  <2>2. << >> \in Seq(Message)
    OBVIOUS
  <2>. QED
    BY <2>1, <2>2 DEF RInv, Shaped, DeletedFlow
<1>2. Living'
  <2>1. op' = Idle /\ live' = FALSE /\ configured /\ Idle.step = "idle"
    BY IdleOp DEF RInv, Working, DeletedFlow
  <2>2. \/ /\ wreg' = 0 /\ rreg' = 0 /\ index' = 0 /\ configured' = FALSE
           /\ log' = << >> /\ got' = << >>
        \/ failed' = TRUE /\ configured' = configured
    BY DEF DeletedFlow
  <2>. QED
    BY <2>1, <2>2 DEF Living
<1>3. Working'
  BY DEF Working, Idle, DeletedFlow
<1>4. Pushing'
  BY DEF Pushing, Idle, DeletedFlow
<1>5. Popping'
  BY DEF Popping, Idle, DeletedFlow
<1>6. Deleting'
  BY DEF Deleting, Idle, DeletedFlow
<1>7. OutstandingIntact'
  BY DEF OutstandingIntact, DeletedFlow
<1>8. CursorPublished'
  BY DEF CursorPublished, DeletedFlow
<1>9. [Abstract!Next]_(Abstract!chan)
  <2>1. ToDevice /\ ~failed /\ got = log
    BY DEF RInv, Working, Deleting, DeletedFlow
  <2>. QED
    BY <2>1, Zenon DEF DeletedFlow, Abstract!chan, Abstract!Next, Abstract!Reopen
<1>10. QED
  BY <1>1, <1>2, <1>3, <1>4, <1>5, <1>6, <1>7, <1>8, <1>9 DEF RInv

\* What is admitted fits between the driver's cursor and the consumer's index.
LEMMA PushBeginKeeps ==
  ASSUME RingBounds, RInv, NEW ms \in Seq(Message), NEW batch \in BOOLEAN, PushBegin(ms, batch)
  PROVE  RInv' /\ [Abstract!Next]_(Abstract!chan)
<1>. DEFINE count == IF Len(ms) <= Available(rreg) THEN Len(ms) ELSE Available(rreg)
            part == SubSeq(ms, 1, count)
<1>1. /\ ToDevice /\ configured /\ ~failed /\ index = wreg
      /\ wreg \in Slots /\ rreg \in Slots
  BY DEF RInv, Shaped, CursorPublished, PushBegin, Ready
<1>2. Used \in 0..Depth - 1 /\ Available(rreg) = Depth - 1 - Used
  BY <1>1, Distance DEF Used, Available
<1>3. count > 0 /\ op' = [step |-> "stage", msgs |-> part, batch |-> batch]
  BY DEF PushBegin
<1>4. count \in 1..Len(ms) /\ Used + count < Depth
  BY <1>2, <1>3 DEF RingBounds
<1>5. part \in Seq(Message) /\ Len(part) = count /\ part \in Seq(Message \cup {Zero})
  <2>1. part \in Seq(Message) /\ Len(part) = count
    BY <1>4, SubSeqProperties
  <2>. QED
    BY <2>1
<1>. HIDE DEF part, count
<1>6. op' \in Ops /\ op'.step = "stage" /\ op'.msgs = part
  BY <1>3, <1>5 DEF Ops
<1>7. UNCHANGED <<slot, wreg, rreg, index, configured, failed, live, log, got>>
  BY DEF PushBegin
<1>8. Shaped' /\ Living' /\ Working'
  BY <1>1, <1>6, <1>7, IdleOp DEF RInv, Shaped, Living, Working, PushBegin, Ready
<1>9. Pushing'
  BY <1>2, <1>4, <1>5, <1>6, <1>7 DEF Pushing, Used
<1>10. Popping' /\ Deleting'
  BY <1>6 DEF Popping, Deleting
<1>11. OutstandingIntact' /\ CursorPublished'
  BY <1>7 DEF RInv, OutstandingIntact, CursorPublished, Used
<1>12. UNCHANGED Abstract!chan
  BY <1>7 DEF Abstract!chan
<1>. QED
  BY <1>8, <1>9, <1>10, <1>11, <1>12 DEF RInv

\* Staging puts every message into its slot and rewrites no outstanding one.
LEMMA StagedSlots ==
  ASSUME RingBounds, RInv, op.step = "stage"
  PROVE  /\ ToDevice /\ configured /\ ~failed /\ live
         /\ Staged \in [Slots -> Message \cup {Zero}]
         /\ \A k \in 1..Len(op.msgs) : Staged[Wrap(index + k - 1)] = op.msgs[k]
         /\ \A i \in 1..Used : Staged[Wrap(rreg + i - 1)] = slot[Wrap(rreg + i - 1)]
<1>1. /\ ToDevice /\ configured /\ ~failed /\ live /\ index = wreg
      /\ wreg \in Slots /\ rreg \in Slots /\ slot \in [Slots -> Message \cup {Zero}]
  BY DEF RInv, Shaped, Living, Working, CursorPublished
<1>2. op.msgs \in Seq(Message) /\ Len(op.msgs) \in Nat /\ Used + Len(op.msgs) < Depth
  BY DEF RInv, Pushing
<1>3. Used \in 0..Depth - 1
  BY <1>1, Distance DEF Used
<1>4. \A i \in Slots : Wrap(i + Depth - index) \in 0..Depth - 1
                       /\ i = Wrap(index + Wrap(i + Depth - index))
  BY <1>1, StagedPlace DEF RingBounds
<1>5. Staged \in [Slots -> Message \cup {Zero}]
  <2>1. ASSUME NEW i \in Slots
        PROVE  Staged[i] \in Message \cup {Zero}
    <3>. DEFINE k == Wrap(i + Depth - index)
    <3>1. k \in Nat
      BY <1>4
    <3>2. Staged[i] = IF k < Len(op.msgs) THEN op.msgs[k + 1] ELSE slot[i]
      BY DEF Staged
    <3>. HIDE DEF k
    <3>3. k < Len(op.msgs) => op.msgs[k + 1] \in Message
      BY <1>2, <3>1
    <3>. QED
      BY <1>1, <3>2, <3>3
  <2>. QED
    BY <2>1 DEF Staged
<1>6. ASSUME NEW k \in 1..Len(op.msgs)
      PROVE  Staged[Wrap(index + k - 1)] = op.msgs[k]
  <2>. DEFINE j == Wrap(index + k - 1)
  <2>1. k \in Nat \ {0} /\ k <= Depth
    BY <1>2, <1>3 DEF RingBounds
  <2>2. j \in Slots /\ Wrap(j + Depth - index) = k - 1
    BY <1>1, <2>1, StagedPlace
  <2>3. Staged[j] = IF k - 1 < Len(op.msgs) THEN op.msgs[(k - 1) + 1] ELSE slot[j]
    BY <2>2 DEF Staged
  <2>. HIDE DEF j
  <2>4. k - 1 < Len(op.msgs) /\ (k - 1) + 1 = k
    BY <1>2, <2>1
  <2>5. Staged[j] = op.msgs[k]
    BY <2>3, <2>4
  <2>. QED
    BY <2>5 DEF j
<1>7. ASSUME NEW i \in 1..Used
      PROVE  Staged[Wrap(rreg + i - 1)] = slot[Wrap(rreg + i - 1)]
  <2>. DEFINE j == Wrap(rreg + i - 1)
              k == Wrap(j + Depth - index)
  <2>1. j \in Slots
    BY <1>1, Distance DEF Used
  <2>2. k \in 0..Depth - 1 /\ j = Wrap(index + k)
    BY <1>4, <2>1
  <2>3. Staged[j] = IF k < Len(op.msgs) THEN op.msgs[k + 1] ELSE slot[j]
    BY <2>1 DEF Staged
  <2>. HIDE DEF k
  <2>4. ASSUME k < Len(op.msgs)
        PROVE  FALSE
    <3>. DEFINE n == k + 1
    <3>1. n \in Nat \ {0} /\ Used + n < Depth /\ index + n - 1 = index + k
      BY <1>1, <1>2, <1>3, <2>2, <2>4 DEF Slots, RingBounds
    <3>. HIDE DEF n
    <3>2. Wrap(rreg + i - 1) # Wrap(wreg + n - 1)
      BY <1>1, <3>1, Distance DEF Used
    <3>. QED
      BY <1>1, <2>2, <3>1, <3>2
  <2>5. Staged[j] = slot[j]
    BY <2>3, <2>4
  <2>. QED
    BY <2>5
<1>. QED
  BY <1>1, <1>5, <1>6, <1>7

\* The data is in place before the index is published.
LEMMA StageKeeps ==
  ASSUME RingBounds, RInv, Stage
  PROVE  RInv' /\ [Abstract!Next]_(Abstract!chan)
<1>1. /\ slot' = Staged
      /\ UNCHANGED <<wreg, rreg, index, configured, failed, live, log, got>>
  BY DEF Stage
<1>2. op' \in Ops /\ op'.step = "publish" /\ op'.msgs = op.msgs
  BY OpFields DEF RInv, Shaped, Stage
<1>3. /\ ToDevice /\ configured /\ ~failed /\ live
      /\ Staged \in [Slots -> Message \cup {Zero}]
      /\ \A k \in 1..Len(op.msgs) : slot'[Wrap(index + k - 1)] = op.msgs[k]
      /\ \A i \in 1..Used : slot'[Wrap(rreg + i - 1)] = slot[Wrap(rreg + i - 1)]
  BY <1>1, StagedSlots DEF Stage
<1>4. Shaped' /\ Living' /\ Working'
  BY <1>1, <1>2, <1>3 DEF RInv, Shaped, Living, Working
<1>5. Pushing'
  BY <1>1, <1>2, <1>3 DEF RInv, Pushing, Used, Stage
<1>6. Popping' /\ Deleting'
  BY <1>2 DEF Popping, Deleting
<1>7. OutstandingIntact' /\ CursorPublished'
  BY <1>1, <1>3 DEF RInv, OutstandingIntact, CursorPublished, Used
<1>8. UNCHANGED Abstract!chan
  BY <1>1 DEF Abstract!chan
<1>. QED
  BY <1>4, <1>5, <1>6, <1>7, <1>8 DEF RInv

\* A failing write leaves what is outstanding alone.
LEMMA StageFailsKeeps ==
  ASSUME RingBounds, RInv, StageFails
  PROVE  RInv' /\ [Abstract!Next]_(Abstract!chan)
<1>1. /\ slot' \in {slot, Staged} /\ op' = Idle /\ failed' = op.batch
      /\ UNCHANGED <<wreg, rreg, index, configured, live, log, got>>
  BY DEF StageFails
<1>2. op' \in Ops /\ op'.step = "idle"
  BY <1>1, IdleOp
<1>3. /\ ToDevice /\ configured /\ ~failed /\ live
      /\ slot' \in [Slots -> Message \cup {Zero}]
      /\ \A i \in 1..Used : slot'[Wrap(rreg + i - 1)] = slot[Wrap(rreg + i - 1)]
  BY <1>1, StagedSlots DEF RInv, Shaped, StageFails
<1>4. op.batch \in BOOLEAN
  BY DEF RInv, Shaped, Ops
<1>5. Shaped' /\ Living' /\ Working'
  BY <1>1, <1>2, <1>3, <1>4 DEF RInv, Shaped, Living, Working
<1>6. Pushing' /\ Popping' /\ Deleting'
  BY <1>2 DEF Pushing, Popping, Deleting
<1>7. OutstandingIntact' /\ CursorPublished'
  BY <1>1, <1>3 DEF RInv, OutstandingIntact, CursorPublished, Used
<1>8. UNCHANGED Abstract!chan
  BY <1>1, <1>3 DEF Abstract!chan
<1>. QED
  BY <1>5, <1>6, <1>7, <1>8 DEF RInv

\* Publishing the index sends exactly the messages that were staged.
LEMMA Published ==
  ASSUME RingBounds, RInv, op.step = "publish", wreg' = Advance(Len(op.msgs)),
         log' = log \o op.msgs, UNCHANGED <<slot, rreg, got>>
  PROVE  /\ ToDevice /\ configured /\ ~failed /\ live
         /\ wreg' \in Slots /\ log' \in Seq(Message)
         /\ Len(log') = Len(got) + Used' /\ Len(log') > Len(log) /\ Used' <= Depth - 1
         /\ \A i \in 1..Len(log) : log'[i] = log[i]
         /\ \A i \in 1..Used' : slot'[Wrap(rreg' + i - 1)] = log'[Len(got') + i]
<1>. DEFINE n == Len(op.msgs)
<1>1. /\ ToDevice /\ configured /\ ~failed /\ live /\ index = wreg
      /\ wreg \in Slots /\ rreg \in Slots /\ log \in Seq(Message) /\ got \in Seq(Message)
  BY DEF RInv, Shaped, Living, Working, CursorPublished
<1>2. /\ op.msgs \in Seq(Message) /\ n \in Nat /\ n > 0 /\ Used + n < Depth
      /\ \A k \in 1..n : slot[Wrap(wreg + k - 1)] = op.msgs[k]
  BY <1>1 DEF RInv, Pushing
<1>3. /\ wreg' \in Slots /\ Used' = Used + n
      /\ \A k \in 1..n : Wrap(rreg + (Used + k) - 1) = Wrap(wreg + k - 1)
  BY <1>1, <1>2, ProducerMoves DEF Used, Advance
<1>4. /\ Len(log) = Len(got) + Used /\ Used \in Nat
      /\ \A i \in 1..Used : slot[Wrap(rreg + i - 1)] = log[Len(got) + i]
  BY <1>1, Distance DEF RInv, OutstandingIntact, Used
<1>5. /\ log' \in Seq(Message) /\ Len(log') = Len(log) + n
      /\ \A i \in 1..Len(log) : log'[i] = log[i]
      /\ \A k \in 1..n : log'[Len(log) + k] = op.msgs[k]
  BY <1>1, <1>2
<1>. HIDE DEF n
<1>6. Len(log) \in Nat /\ Len(got) \in Nat
  BY <1>1
<1>7. Len(log') = Len(got) + Used' /\ Len(log') > Len(log) /\ Used' <= Depth - 1
  BY <1>2, <1>3, <1>4, <1>5, <1>6 DEF RingBounds
<1>8. ASSUME NEW i \in 1..Used'
      PROVE  slot'[Wrap(rreg' + i - 1)] = log'[Len(got') + i]
  <2>1. CASE i <= Used
    <3>1. Len(got) + i \in 1..Len(log) /\ i \in 1..Used
      BY <1>4, <1>6, <2>1
    <3>. QED
      BY <1>4, <1>5, <3>1
  <2>2. CASE i > Used
    <3>. DEFINE k == i - Used
    <3>1. k \in 1..n /\ i = Used + k /\ Len(got) + i = Len(log) + k
      BY <1>2, <1>3, <1>4, <1>6, <2>2
    <3>. HIDE DEF k
    <3>2. slot[Wrap(rreg + i - 1)] = op.msgs[k]
      BY <1>2, <1>3, <3>1
    <3>. QED
      BY <1>5, <3>1, <3>2
  <2>3. i <= Used \/ i > Used
    BY <1>2, <1>3, <1>4
  <2>. QED
    BY <2>1, <2>2, <2>3
<1>. QED
  BY <1>1, <1>3, <1>5, <1>7, <1>8

\* The index write and the doorbell send the batch.
LEMMA PublishKeeps ==
  ASSUME RingBounds, RInv, Publish
  PROVE  RInv' /\ [Abstract!Next]_(Abstract!chan)
<1>1. /\ op.step = "publish" /\ op' = Idle /\ index' = wreg'
      /\ UNCHANGED <<slot, rreg, configured, failed, live, got>>
  BY DEF Publish
<1>2. /\ ToDevice /\ configured /\ ~failed /\ live
      /\ wreg' \in Slots /\ log' \in Seq(Message)
      /\ Len(log') = Len(got) + Used' /\ Len(log') > Len(log) /\ Used' <= Depth - 1
      /\ \A i \in 1..Len(log) : log'[i] = log[i]
      /\ \A i \in 1..Used' : slot'[Wrap(rreg' + i - 1)] = log'[Len(got') + i]
  BY Published DEF Publish
<1>3. op' \in Ops /\ op'.step = "idle"
  BY <1>1, IdleOp
<1>4. Shaped' /\ Living' /\ Working'
  BY <1>1, <1>2, <1>3 DEF RInv, Shaped, Living, Working
<1>5. Pushing' /\ Popping' /\ Deleting'
  BY <1>3 DEF Pushing, Popping, Deleting
<1>6. OutstandingIntact' /\ CursorPublished'
  BY <1>1, <1>2 DEF RInv, OutstandingIntact, CursorPublished
<1>7. Abstract!Send
  <2>1. Len(log') - Len(got) <= Depth - 1
    <3>1. Used' \in Nat /\ Len(got) \in Nat
      BY <1>1, <1>2, Distance DEF RInv, Shaped, Used
    <3>. QED
      BY <1>2, <3>1 DEF RingBounds
  <2>. QED
    BY <1>1, <1>2, <2>1 DEF Abstract!Send
<1>. QED
  BY <1>4, <1>5, <1>6, <1>7 DEF RInv, Abstract!Next

\* A failing index write or doorbell sends the batch or not; the ring is
\* quarantined, and what was sent is still delivered.
LEMMA PublishFailsKeeps ==
  ASSUME RingBounds, RInv, PublishFails
  PROVE  RInv' /\ [Abstract!Next]_(Abstract!chan)
<1>1. /\ op.step = "publish" /\ op' = Idle /\ failed' = TRUE
      /\ UNCHANGED <<slot, rreg, configured, live, got>>
  BY DEF PublishFails
<1>2. op' \in Ops /\ op'.step = "idle"
  BY <1>1, IdleOp
<1>3. ToDevice /\ configured /\ ~failed /\ live
  BY <1>1 DEF RInv, Living, Working
<1>4. Pushing' /\ Popping' /\ Deleting' /\ CursorPublished'
  BY <1>1, <1>2 DEF Pushing, Popping, Deleting, CursorPublished
<1>5. CASE UNCHANGED <<wreg, log, index>>
  <2>1. Shaped' /\ Living' /\ Working'
    BY <1>1, <1>2, <1>3, <1>5 DEF RInv, Shaped, Living, Working
  <2>2. OutstandingIntact'
    BY <1>1, <1>3, <1>5 DEF RInv, OutstandingIntact, Used
  <2>3. UNCHANGED Abstract!chan
    BY <1>1, <1>3, <1>5 DEF Abstract!chan
  <2>. QED
    BY <1>4, <2>1, <2>2, <2>3 DEF RInv
<1>6. CASE /\ wreg' = Advance(Len(op.msgs)) /\ log' = log \o op.msgs
           /\ index' \in {index, Advance(Len(op.msgs))}
  <2>1. /\ wreg' \in Slots /\ log' \in Seq(Message)
        /\ Len(log') = Len(got) + Used' /\ Len(log') > Len(log) /\ Used' <= Depth - 1
        /\ \A i \in 1..Len(log) : log'[i] = log[i]
        /\ \A i \in 1..Used' : slot'[Wrap(rreg' + i - 1)] = log'[Len(got') + i]
    BY <1>1, <1>6, Published
  <2>2. index' \in Slots
    BY <1>6, <2>1 DEF RInv, Shaped
  <2>3. Shaped' /\ Living' /\ Working'
    BY <1>1, <1>2, <1>3, <2>1, <2>2 DEF RInv, Shaped, Living, Working
  <2>4. OutstandingIntact'
    BY <1>1, <2>1 DEF OutstandingIntact
  <2>5. Abstract!Send
    <3>1. Used' \in Nat /\ Len(got) \in Nat
      BY <1>1, <2>1, Distance DEF RInv, Shaped, Used
    <3>2. Len(log') - Len(got) <= Depth - 1
      BY <2>1, <3>1 DEF RingBounds
    <3>. QED
      BY <1>1, <1>3, <2>1, <3>2 DEF Abstract!Send
  <2>. QED
    BY <1>4, <2>3, <2>4, <2>5 DEF RInv, Abstract!Next
<1>. QED
  BY <1>5, <1>6 DEF PublishFails

\* Moving the consumer's index on delivers the oldest outstanding message.
LEMMA Taken ==
  ASSUME RingBounds, RInv, live, ToDevice \/ ~failed, Used > 0,
         rreg' = Wrap(rreg + 1), got' = Append(got, log[Len(got) + 1]),
         UNCHANGED <<slot, wreg, log>>
  PROVE  /\ slot[rreg] = log[Len(got) + 1] /\ Len(got) < Len(log)
         /\ rreg' \in Slots /\ got' \in Seq(Message)
         /\ Used \in Nat /\ Used' = Used - 1 /\ Len(log) = Len(got) + Used
         /\ OutstandingIntact'
<1>1. /\ wreg \in Slots /\ rreg \in Slots /\ log \in Seq(Message) /\ got \in Seq(Message)
      /\ Len(log) \in Nat /\ Len(got) \in Nat
  BY DEF RInv, Shaped
<1>2. /\ Used \in Nat /\ rreg = Wrap(rreg + 1 - 1)
  BY <1>1, Distance DEF Used
<1>3. /\ Len(log) = Len(got) + Used
      /\ \A i \in 1..Used : slot[Wrap(rreg + i - 1)] = log[Len(got) + i]
  BY DEF RInv, OutstandingIntact
<1>4. slot[rreg] = log[Len(got) + 1] /\ Len(got) + 1 \in 1..Len(log)
  BY <1>1, <1>2, <1>3
<1>5. /\ rreg' \in Slots /\ Used' = Used - 1
      /\ \A i \in Nat \ {0} : i < Used => Wrap(rreg' + i - 1) = Wrap(rreg + (i + 1) - 1)
  BY <1>1, ConsumerMoves DEF Used
<1>6. got' \in Seq(Message) /\ Len(got') = Len(got) + 1
  <2>1. log[Len(got) + 1] \in Message
    BY <1>1, <1>4
  <2>. QED
    BY <1>1, <2>1
<1>7. ASSUME NEW i \in 1..Used'
      PROVE  slot'[Wrap(rreg' + i - 1)] = log'[Len(got') + i]
  <2>1. /\ i \in Nat \ {0} /\ i < Used /\ i + 1 \in 1..Used
        /\ Len(got') + i = Len(got) + (i + 1)
    BY <1>1, <1>2, <1>5, <1>6
  <2>2. slot[Wrap(rreg + (i + 1) - 1)] = log[Len(got) + (i + 1)]
    BY <1>3, <2>1
  <2>. QED
    BY <1>5, <2>1, <2>2
<1>8. Len(log') = Len(got') + Used'
  BY <1>1, <1>2, <1>3, <1>5, <1>6
<1>9. OutstandingIntact'
  BY <1>7, <1>8 DEF OutstandingIntact
<1>. QED
  BY <1>1, <1>2, <1>3, <1>4, <1>5, <1>6, <1>9

\* The firmware takes the oldest message of a submission ring.
LEMMA FwTakeKeeps ==
  ASSUME RingBounds, RInv, FwTake
  PROVE  RInv' /\ [Abstract!Next]_(Abstract!chan)
<1>1. /\ ToDevice /\ live /\ Used > 0 /\ rreg' = Wrap(rreg + 1)
      /\ got' = Append(got, slot[rreg])
      /\ UNCHANGED <<slot, wreg, index, configured, failed, op, live, log>>
  BY DEF FwTake
<1>2. /\ wreg \in Slots /\ rreg \in Slots /\ Used \in Nat /\ rreg = Wrap(rreg + 1 - 1)
  BY Distance DEF RInv, Shaped, Used
<1>3. slot[rreg] = log[Len(got) + 1]
  BY <1>1, <1>2 DEF RInv, OutstandingIntact
<1>4. got' = Append(got, log[Len(got) + 1])
  BY <1>1, <1>3
<1>5. /\ Len(got) < Len(log) /\ rreg' \in Slots /\ got' \in Seq(Message)
      /\ Used' = Used - 1 /\ Len(log) = Len(got) + Used /\ OutstandingIntact'
  BY <1>1, <1>4, Taken
<1>6. Shaped' /\ Living' /\ Working'
  BY <1>1, <1>5 DEF RInv, Shaped, Living, Working
<1>7. Pushing'
  <2>1. op.step \in {"stage", "publish"} => Used' + Len(op.msgs) < Depth
    BY <1>2, <1>5 DEF RInv, Pushing, RingBounds
  <2>. QED
    BY <1>1, <2>1 DEF RInv, Pushing
<1>8. Popping' /\ CursorPublished'
  BY <1>1 DEF RInv, Working, Popping, CursorPublished
<1>9. Deleting'
  <2>1. got # log
    BY <1>5
  <2>. QED
    BY <1>1, <2>1 DEF RInv, Deleting
<1>10. Abstract!Deliver
  BY <1>1, <1>4, <1>5 DEF Abstract!Deliver
<1>. QED
  BY <1>5, <1>6, <1>7, <1>8, <1>9, <1>10 DEF RInv, Abstract!Next

\* Acknowledging delivers the message that was read, which is the oldest one.
LEMMA PopAckKeeps ==
  ASSUME RingBounds, RInv, PopAck
  PROVE  RInv' /\ [Abstract!Next]_(Abstract!chan)
<1>1. /\ op.step = "ack" /\ op' = Idle /\ rreg' = Wrap(index + 1) /\ index' = Wrap(index + 1)
      /\ got' = got \o op.msgs
      /\ UNCHANGED <<slot, wreg, configured, failed, live, log>>
  BY DEF PopAck, Advance
<1>2. /\ ~ToDevice /\ configured /\ ~failed /\ live /\ index = rreg /\ Used > 0
      /\ op.msgs = <<log[Len(got) + 1]>> /\ got \in Seq(Message)
  BY <1>1 DEF RInv, Shaped, Living, Working, Popping, CursorPublished
<1>3. got' = Append(got, log[Len(got) + 1])
  BY <1>1, <1>2
<1>4. /\ Len(got) < Len(log) /\ rreg' \in Slots /\ got' \in Seq(Message) /\ OutstandingIntact'
  BY <1>1, <1>2, <1>3, Taken
<1>5. op' \in Ops /\ op'.step = "idle"
  BY <1>1, IdleOp
<1>6. Shaped' /\ Living' /\ Working'
  BY <1>1, <1>2, <1>4, <1>5 DEF RInv, Shaped, Living, Working
<1>7. Pushing' /\ Popping' /\ Deleting'
  BY <1>5 DEF Pushing, Popping, Deleting
<1>8. CursorPublished'
  BY <1>1, <1>2 DEF CursorPublished
<1>9. Abstract!Deliver
  BY <1>1, <1>2, <1>3, <1>4 DEF Abstract!Deliver
<1>. QED
  BY <1>4, <1>6, <1>7, <1>8, <1>9 DEF RInv, Abstract!Next

\* The firmware puts a message into a completion ring, next to the others.
LEMMA FwPutKeeps ==
  ASSUME RingBounds, RInv, NEW m \in Message, FwPut(m)
  PROVE  RInv' /\ [Abstract!Next]_(Abstract!chan)
<1>1. /\ ~ToDevice /\ live /\ Free > 0 /\ slot' = [slot EXCEPT ![wreg] = m]
      /\ wreg' = Wrap(wreg + 1) /\ log' = Append(log, m)
      /\ UNCHANGED <<rreg, index, configured, failed, op, live, got>>
  BY DEF FwPut
<1>2. /\ wreg \in Slots /\ rreg \in Slots /\ log \in Seq(Message) /\ got \in Seq(Message)
      /\ Len(log) \in Nat /\ Len(got) \in Nat
      /\ slot \in [Slots -> Message \cup {Zero}]
  BY DEF RInv, Shaped
<1>3. /\ Used \in 0..Depth - 1 /\ Free = Depth - 1 - Used
      /\ \A i \in 1..Used : Wrap(rreg + i - 1) \in Slots /\ Wrap(rreg + i - 1) # wreg
  BY <1>2, Distance DEF Used, Free
<1>4. Used + 1 < Depth
  BY <1>1, <1>3 DEF RingBounds
<1>5. wreg' \in Slots /\ Used' = Used + 1 /\ Wrap(rreg + (Used + 1) - 1) = wreg
  <2>1. wreg' \in Slots /\ Used' = Used + 1
    BY <1>1, <1>2, <1>4, ProducerMoves DEF Used
  <2>2. Wrap(rreg + (Used + 1) - 1) = Wrap(wreg + 1 - 1)
    BY <1>2, <1>4, ProducerMoves DEF Used
  <2>3. Wrap(wreg + 1 - 1) = wreg
    BY <1>2, Distance
  <2>. QED
    BY <2>1, <2>2, <2>3
<1>6. /\ slot' \in [Slots -> Message \cup {Zero}] /\ slot'[wreg] = m
      /\ \A j \in Slots : j # wreg => slot'[j] = slot[j]
  BY <1>1, <1>2
<1>7. /\ log' \in Seq(Message) /\ Len(log') = Len(log) + 1 /\ log'[Len(log) + 1] = m
      /\ \A i \in 1..Len(log) : log'[i] = log[i]
  BY <1>1, <1>2
<1>8. Shaped' /\ Living' /\ Working'
  BY <1>1, <1>5, <1>6, <1>7 DEF RInv, Shaped, Living, Working
<1>9. Pushing' /\ Deleting' /\ CursorPublished'
  BY <1>1 DEF RInv, Working, Pushing, Deleting, CursorPublished
<1>10. ~failed => /\ Len(log) = Len(got) + Used
                  /\ \A i \in 1..Used : slot[Wrap(rreg + i - 1)] = log[Len(got) + i]
  BY <1>1 DEF RInv, OutstandingIntact
<1>11. OutstandingIntact'
  <2>. SUFFICES ASSUME ~failed
                PROVE  /\ Len(log') = Len(got) + Used'
                       /\ \A i \in 1..Used' : slot'[Wrap(rreg + i - 1)] = log'[Len(got) + i]
    BY <1>1 DEF OutstandingIntact
  <2>1. Len(log') = Len(got) + Used'
    BY <1>2, <1>3, <1>5, <1>7, <1>10
  <2>2. ASSUME NEW i \in 1..Used'
        PROVE  slot'[Wrap(rreg + i - 1)] = log'[Len(got) + i]
    <3>1. CASE i <= Used
      <4>1. i \in 1..Used /\ Len(got) + i \in 1..Len(log)
        BY <1>2, <1>3, <1>10, <3>1
      <4>. QED
        BY <1>3, <1>6, <1>7, <1>10, <4>1
    <3>2. CASE i = Used + 1
      <4>1. Wrap(rreg + i - 1) = wreg
        BY <1>5, <3>2
      <4>2. Len(got) + i = Len(log) + 1
        BY <1>2, <1>3, <1>10, <3>2
      <4>. QED
        BY <1>6, <1>7, <4>1, <4>2
    <3>. QED
      BY <1>3, <1>5, <3>1, <3>2
  <2>. QED
    BY <2>1, <2>2
<1>12. Popping'
  <2>. SUFFICES ASSUME op.step \in {"read", "ack"}
                PROVE  Used' > 0 /\ (op.step = "ack" => op.msgs = <<log'[Len(got) + 1]>>)
    BY <1>1 DEF Popping
  <2>1. ~failed /\ Used > 0 /\ (op.step = "ack" => op.msgs = <<log[Len(got) + 1]>>)
    BY DEF RInv, Working, Popping
  <2>2. Len(got) + 1 \in 1..Len(log)
    BY <1>2, <1>3, <1>10, <2>1
  <2>3. log'[Len(got) + 1] = log[Len(got) + 1] /\ Used' > 0
    BY <1>3, <1>5, <1>7, <2>1, <2>2
  <2>. QED
    BY <2>1, <2>3
<1>13. Abstract!Send
  <2>1. ~failed => Len(log') - Len(got) <= Depth - 1
    BY <1>2, <1>3, <1>4, <1>7, <1>10 DEF RingBounds
  <2>2. Len(log') > Len(log)
    BY <1>2, <1>7
  <2>. QED
    BY <1>1, <1>7, <2>1, <2>2 DEF Abstract!Send
<1>. QED
  BY <1>8, <1>9, <1>11, <1>12, <1>13 DEF RInv, Abstract!Next

-----------------------------------------------------------------------------
(* The specification. *)

\* Ring::new: an empty ring on cleared registers.
LEMMA InitHolds ==
  ASSUME RingBounds, Init
  PROVE  RInv /\ Abstract!Init
<1>1. 0 \in Slots /\ Used = 0
  BY DEF RingBounds, Init, Slots, Used, Wrap
<1>2. slot \in [Slots -> Message \cup {Zero}] /\ << >> \in Seq(Message)
  BY DEF Init
<1>3. op = Idle /\ op \in Ops /\ op.step = "idle"
  BY IdleOp DEF Init
<1>4. Shaped
  BY <1>1, <1>2, <1>3 DEF Init, Shaped
<1>5. Living /\ Working /\ Pushing /\ Popping /\ Deleting
  BY <1>3 DEF Init, Living, Working, Pushing, Popping, Deleting
<1>6. OutstandingIntact /\ CursorPublished
  BY DEF Init, OutstandingIntact, CursorPublished
<1>7. Abstract!Init
  BY DEF Init, Abstract!Init
<1>. QED
  BY <1>4, <1>5, <1>6, <1>7 DEF RInv

\* Every step keeps the invariant and maps to a step of the channel or none.
LEMMA NextKeeps ==
  ASSUME RingBounds, RInv, [Next]_vars
  PROVE  RInv' /\ [Abstract!Next]_(Abstract!chan)
<1>1. CASE UNCHANGED vars
  <2>1. UNCHANGED <<slot, wreg, rreg, index, configured, failed, op, live, log, got>>
    BY <1>1 DEF vars
  <2>2. Shaped' /\ Living' /\ Working' /\ Pushing'
    BY <2>1 DEF RInv, Shaped, Living, Working, Pushing, Used
  <2>3. Popping' /\ Deleting' /\ OutstandingIntact' /\ CursorPublished'
    BY <2>1 DEF RInv, Popping, Deleting, OutstandingIntact, CursorPublished, Used
  <2>4. UNCHANGED Abstract!chan
    BY <2>1 DEF Abstract!chan
  <2>. QED
    BY <2>2, <2>3, <2>4 DEF RInv
<1>2. CASE \E m \in Message : PushBegin(<<m>>, FALSE)
  <2>1. PICK m \in Message : PushBegin(<<m>>, FALSE)
    BY <1>2
  <2>2. <<m>> \in Seq(Message)
    OBVIOUS
  <2>. QED
    BY <2>1, <2>2, PushBeginKeeps
<1>3. CASE \E ms \in Batches : PushBegin(ms, TRUE)
  <2>1. PICK ms \in Batches : PushBegin(ms, TRUE)
    BY <1>3
  <2>2. ms \in Seq(Message)
    BY DEF Batches
  <2>. QED
    BY <2>1, <2>2, PushBeginKeeps
<1>4. CASE Stage \/ StageFails \/ Publish \/ PublishFails \/ PushUnreadable
  BY <1>4, StageKeeps, StageFailsKeeps, PublishKeeps, PublishFailsKeeps, PushUnreadableKeeps
<1>5. CASE PopBegin \/ PopUnreadable \/ PopRead \/ PopReadFails \/ PopAck \/ PopAckFails
  BY <1>5, PopBeginKeeps, PopUnreadableKeeps, PopReadKeeps, PopReadFailsKeeps, PopAckKeeps,
     PopAckFailsKeeps
<1>6. CASE FwTake \/ (\E m \in Message : FwPut(m))
  BY <1>6, FwTakeKeeps, FwPutKeeps
<1>7. CASE Prepare \/ DeleteFlow \/ FwDelete \/ DeletedFlow
  BY <1>7, PrepareKeeps, DeleteFlowKeeps, FwDeleteKeeps, DeletedFlowKeeps
<1>. QED
  BY <1>1, <1>2, <1>3, <1>4, <1>5, <1>6, <1>7 DEF Next

\* Whatever the depth and however many accesses fail, what one side of a ring
\* published the other takes once, in order and unchanged, and the driver's
\* cursor is the published index (Ring::push, push_batch, pop, deleted_flow).
THEOREM RingImplementsChannel == RingBounds => (Spec => RingIsChannel)
<1>. SUFFICES ASSUME RingBounds
              PROVE  Spec => RingIsChannel
  OBVIOUS
<1>1. Init => RInv /\ Abstract!Init
  BY InitHolds
<1>2. RInv /\ [Next]_vars => RInv' /\ [Abstract!Next]_(Abstract!chan)
  BY NextKeeps
<1>3. RInv => OutstandingIntact /\ CursorPublished
  BY DEF RInv
<1>. QED
  BY <1>1, <1>2, <1>3, PTL DEF Spec, RingIsChannel, ChannelSpec, Abstract!Spec
=============================================================================
