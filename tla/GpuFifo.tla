------------------------------- MODULE GpuFifo ------------------------------
(***************************************************************************)
(* fifo.rs and completion.rs of the GM20B driver: one private pushbuffer   *)
(* behind a ring of entries, the three independent witnesses of completion *)
(* (GP_GET, the reference, the PGRAPH fence), the non-stalling interrupt   *)
(* that only wakes the submitter, and the bounded wait.  The channel was   *)
(* proved with host methods and retired before the first binding.          *)
(***************************************************************************)
EXTENDS Naturals

CONSTANTS
  Entries,   \* GPFIFO_ENTRIES
  MaxSeq,    \* sequence numbers before the counter is exhausted
  MaxPolls   \* iterations of the wait of one submission

VARIABLES
  cpu,       \* step of the submitter
  seq,       \* Graphics::sequence
  push,      \* the sequence the pushbuffer holds
  put,       \* GraphicsChannel::put
  bound,     \* the channel is bound
  done,      \* GraphicsChannel::completed_sequence, 0 for None
  userd,     \* GP_PUT and GP_GET
  ref,       \* USERD_REF
  fence,     \* the word at FENCE_VA
  snap,      \* what the submitter has read of the witnesses
  observed,  \* event generation the submitter has seen
  events,    \* Completion::events
  polls,     \* iterations left
  hw,        \* the sequence in execution and what it has not yet shown
  fault      \* a fault bit of PFIFO, PBDMA or PGRAPH is up

vars == <<cpu, seq, push, put, bound, done, userd, ref, fence, snap, observed, events,
          polls, hw, fault>>

Idle == [seq |-> 0, pending |-> {}]
Nothing == [get |-> 0, ref |-> 0, fence |-> 0]

Init ==
  /\ cpu = "idle" /\ seq = 0 /\ push = 0 /\ put = 0 /\ bound = FALSE /\ done = 0
  /\ userd = [put |-> 2 % Entries, get |-> 2 % Entries]
  /\ ref = 0 /\ fence = 0 /\ snap = Nothing /\ observed = 0 /\ events = 0
  /\ polls = 0 /\ hw = Idle /\ fault = FALSE

Hardware == <<userd, ref, fence, events, hw, fault>>

----------------------------------------------------------------------------
(* execute_with_programs() and graphics(). *)

\* The next sequence number and the encoded words; an exhausted counter loses
\* the device.
Encode ==
  /\ cpu = "idle"
  /\ \/ seq < MaxSeq /\ seq' = seq + 1 /\ push' = seq + 1 /\ cpu' = "channel"
     \/ seq = MaxSeq /\ cpu' = "lost" /\ UNCHANGED <<seq, push>>
  /\ UNCHANGED <<put, bound, done, snap, observed, polls, Hardware>>

\* The first submission clears USERD, the ring and the fence and binds.
Bind ==
  /\ cpu = "channel" /\ ~bound
  /\ userd' = [put |-> 0, get |-> 0] /\ ref' = 0 /\ fence' = 0
  /\ \/ bound' = TRUE /\ put' = 0 /\ done' = 0 /\ UNCHANGED cpu
     \/ cpu' = "lost" /\ UNCHANGED <<bound, put, done>>
  /\ UNCHANGED <<seq, push, snap, observed, polls, events, hw, fault>>

\* The previous entry must be consumed before the next one is published.
Ring ==
  /\ cpu = "channel" /\ bound
  /\ \/ /\ userd.get = put /\ userd.put = put
        /\ put' = (put + 1) % Entries /\ done' = 0 /\ cpu' = "kick"
     \/ /\ ~(userd.get = put /\ userd.put = put)
        /\ cpu' = "lost" /\ UNCHANGED <<put, done>>
  /\ UNCHANGED <<seq, push, bound, snap, observed, polls, Hardware>>

\* The generation is read before the doorbell rings.
Kick ==
  /\ cpu = "kick"
  /\ observed' = events /\ userd' = [userd EXCEPT !.put = put]
  /\ polls' = MaxPolls /\ snap' = Nothing /\ cpu' = "poll"
  /\ UNCHANGED <<seq, push, put, bound, done, ref, fence, events, hw, fault>>

----------------------------------------------------------------------------
(* submit(): three reads, the fault bits, the decision. *)

Poll ==
  /\ \/ cpu = "poll" /\ polls > 0 /\ snap' = [snap EXCEPT !.get = userd.get] /\ cpu' = "ref"
     \/ cpu = "ref" /\ snap' = [snap EXCEPT !.ref = ref] /\ cpu' = "fence"
     \/ cpu = "fence" /\ snap' = [snap EXCEPT !.fence = fence] /\ cpu' = "check"
  /\ UNCHANGED <<seq, push, put, bound, done, observed, polls, Hardware>>

Proved == snap.get = put /\ snap.ref = seq /\ snap.fence = seq

\* Mutated form: the generation is read when the submitter goes to sleep.
Check_Observes ==
  /\ cpu = "check"
  /\ polls' = polls - 1 /\ observed' = events
  /\ cpu' \in IF fault THEN {"lost"} ELSE IF Proved THEN {"flush"} ELSE {"poll", "sleep"}
  /\ UNCHANGED <<seq, push, put, bound, done, snap, Hardware>>

Check ==
  /\ cpu = "check"
  /\ polls' = polls - 1
  /\ cpu' \in IF fault THEN {"lost"}
              ELSE IF Proved THEN {"flush"}
              ELSE {"poll", "sleep"}
  /\ UNCHANGED <<seq, push, put, bound, done, snap, observed, Hardware>>

Expired ==
  /\ cpu = "poll" /\ polls = 0
  /\ cpu' = "lost"
  /\ UNCHANGED <<seq, push, put, bound, done, snap, observed, polls, Hardware>>

\* completion.wait(): an event, or the end of its time slice.
Awake == TRUE

Waited ==
  /\ cpu = "sleep" /\ Awake
  /\ observed' = events /\ cpu' = "poll"
  /\ UNCHANGED <<seq, push, put, bound, done, snap, polls, Hardware>>

\* The writeback after completion, GR idle, check_execution and the LTC flush.
Flush ==
  /\ cpu = "flush"
  /\ \/ ~fault /\ cpu' = "idle" /\ done' = seq
     \/ cpu' = "lost" /\ UNCHANGED done
  /\ UNCHANGED <<seq, push, put, bound, snap, observed, polls, Hardware>>

----------------------------------------------------------------------------
(* The GPU. *)

Cpu == <<cpu, seq, push, put, bound, done, snap, observed, polls>>

Fetch ==
  /\ bound /\ ~fault /\ hw.pending = {} /\ userd.get # userd.put
  /\ hw' = [seq |-> push, pending |-> {"get", "ref", "fence", "notify"}]
  /\ UNCHANGED <<Cpu, userd, ref, fence, events, fault>>

Shown(w) == hw' = [hw EXCEPT !.pending = @ \ {w}]

\* The witnesses appear in any order; GP_GET may trail the notification.
Witness ==
  /\ ~fault
  /\ \/ /\ "get" \in hw.pending /\ Shown("get")
        /\ userd' = [userd EXCEPT !.get = (@ + 1) % Entries] /\ UNCHANGED <<ref, fence>>
     \/ "ref" \in hw.pending /\ Shown("ref") /\ ref' = hw.seq /\ UNCHANGED <<userd, fence>>
     \/ "fence" \in hw.pending /\ Shown("fence") /\ fence' = hw.seq /\ UNCHANGED <<userd, ref>>
  /\ UNCHANGED <<Cpu, events, fault>>

\* The host waits for PGRAPH, then interrupts; claim_interrupt publishes the
\* generation before it wakes the submitter.
Notify ==
  /\ "notify" \in hw.pending /\ hw.pending \cap {"ref", "fence"} = {}
  /\ Shown("notify") /\ events' = events + 1
  /\ UNCHANGED <<Cpu, userd, ref, fence, fault>>

\* The interrupt may also never arrive.
Unnotified ==
  /\ "notify" \in hw.pending /\ hw.pending \cap {"ref", "fence"} = {}
  /\ Shown("notify") /\ UNCHANGED <<Cpu, userd, ref, fence, events, fault>>

Fault ==
  /\ hw.pending # {} /\ ~fault
  /\ fault' = TRUE /\ UNCHANGED <<Cpu, userd, ref, fence, events, hw>>

----------------------------------------------------------------------------

Submitter == Encode \/ Bind \/ Ring \/ Kick \/ Poll \/ Check \/ Expired \/ Waited \/ Flush

Next == Submitter \/ Fetch \/ Witness \/ Notify \/ Unnotified \/ Fault

\* Only the submitter is sure to run: the GPU may stop anywhere.
Spec == Init /\ [][Next]_vars /\ WF_vars(Submitter)

----------------------------------------------------------------------------

TypeOK ==
  /\ cpu \in {"idle", "channel", "kick", "poll", "ref", "fence", "check", "sleep", "flush",
              "lost"}
  /\ seq \in 0..MaxSeq /\ {push, done, ref, fence} \subseteq 0..seq
  /\ {put, userd.put, userd.get} \subseteq 0..Entries - 1
  /\ observed \in 0..events /\ events \in 0..MaxSeq /\ polls \in 0..MaxPolls
  /\ hw.seq \in 0..seq /\ hw.pending \subseteq {"get", "ref", "fence", "notify"}

\* The single pushbuffer is never rewritten while the GPU may read it, also when
\* the ring index wraps and after the submitter has given up on an entry.
PushStable == (hw.pending \cap {"get", "ref", "fence"}) # {} => push = hw.seq

\* A submission returns as completed only when the GPU has nothing left to show
\* of it but the notification; a stale witness of an earlier one is not enough.
CompletedIsRetired ==
  done # 0 => /\ hw.seq = done /\ hw.pending \subseteq {"notify"}
              /\ userd.get = userd.put /\ ref = done /\ fence = done

\* The submitter is never asleep on a generation it took before everything was
\* shown, unless GP_GET trailed the notification.
NoSleepThroughCompletion ==
  cpu = "sleep" /\ events = observed /\ hw.seq = seq /\ hw.pending = {} /\ ~fault =>
    snap.get # put \/ events < seq

\* Every submission ends, whatever the GPU does.
SubmissionEnds == (cpu = "kick") ~> (cpu \in {"idle", "lost"})
=============================================================================
