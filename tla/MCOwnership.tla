---------------------------- MODULE MCOwnership ----------------------------
(***************************************************************************)
(* Who owns memory, buffers and results at any moment, checked in one run  *)
(* without fairness: the Wi-Fi worker's link epochs, the message rings     *)
(* against their abstract channel, GPU memory, the dispatcher's            *)
(* submissions, the splitting of command buffers, resources and the        *)
(* decoder's surfaces. A behaviour runs one of them, its part; the others  *)
(* stay in one of their initial states.                                    *)
(***************************************************************************)
EXTENDS TLC

CONSTANTS
  Message, Zero, Depth, MaxBatch, MaxSent, MaxFaults,          \* the message rings
  Clients, Kinds, MaxChunks, MaxJobs, MaxSubmissions,          \* the dispatcher
  MaxBytes, MaxInFlight, MaxPressure, MaxLost,
  Page, Limit, Sizes, ArenaSize, MaxObjects, MaxQueue,         \* GPU memory
  TableSlots, Present, Objects, MaxGen, MaxQueued, MaxStuck,   \* the image cache
  Images, Refs, MaxSurfaces, Stamps, Geometries, MaxId         \* the decoder

VARIABLES
  part, requests, events, active, cancelled, failed, retire, dirty, count,
  answered, named, up, epoch, tx, sender, held, pc, sl, then, associated, key,
  pending, flow, asked, gen, air, links, joining, cpl, rxq, stale, frames,
  faults, slot, wreg, rreg, index, configured, t_failed, op, live, log, got,
  t_faults, r_slot, r_wreg, r_rreg, r_index, r_configured, r_failed, r_op,
  r_live, r_log, r_got, r_faults, mem, retained, objects, handle, attached,
  prepared, run, pte, tlb, busy, lost, isolated, source, c_pc, at, operations,
  c_pending, after, chunks, jobs, bytes, failure, lock, signal, gpu, bad,
  d_log, pressure, pressed, wpc, progress, seen, flag, pipe, d_lost, cpc,
  closing, d_op, s_live, cache, ident, obj, for, s_held, mapped, s_jobs,
  s_failed, s_faults, life, v_active, hw, session, v_pending, leased, holds, api

worker_vars == <<requests, events, active, cancelled, failed, retire, dirty,
                 count, answered, named, up, epoch, tx, sender, held, pc, sl,
                 then, associated, key, pending, flow, asked, gen, air, links,
                 joining, cpl, rxq, stale, frames, faults>>
push == <<slot, wreg, rreg, index, configured, t_failed, op, live, log, got,
          t_faults>>
pop == <<r_slot, r_wreg, r_rreg, r_index, r_configured, r_failed, r_op,
         r_live, r_log, r_got, r_faults>>
memory == <<mem, retained, objects, handle, attached, prepared, run, pte, tlb,
            busy, lost, isolated>>
split == <<source, c_pc, at, operations, c_pending, after, chunks>>
dispatch == <<jobs, bytes, failure, lock, signal, gpu, bad, d_log, pressure,
              pressed, wpc, progress, seen, flag, pipe, d_lost, cpc, closing,
              d_op>>
resources == <<api, s_live, cache, ident, obj, for, s_held, mapped, s_jobs,
               s_failed, s_faults>>
video == <<life, v_active, hw, session, v_pending, leased, holds>>

Worker == INSTANCE BrcmWorker
  WITH Commands <- {"connect", "install"}, QueueLimit <- 2, TxLimit <- 1,
       TxBuffers <- 1, Rx <- {1}, CoreRetires <- TRUE, Cancellable <- {},
       MaxRequests <- 2, MaxLinks <- 2, MaxFrames <- 3, MaxFaults <- 1
Push == INSTANCE MsgRing
  WITH ToDevice <- TRUE, failed <- t_failed, faults <- t_faults
Pop == INSTANCE MsgRing
  WITH ToDevice <- FALSE, slot <- r_slot, wreg <- r_wreg, rreg <- r_rreg, index <- r_index,
       configured <- r_configured, failed <- r_failed, op <- r_op,
       live <- r_live, log <- r_log, got <- r_got, faults <- r_faults
Memory == INSTANCE GpuMemory
Split == INSTANCE SgfxSplit
  WITH MaxOps <- 6, MaxDraws <- 4, Budget <- 3, pc <- c_pc,
       pending <- c_pending
Dispatch == INSTANCE SgfxDispatch
  WITH log <- d_log, lost <- d_lost, op <- d_op
Resources == INSTANCE SgfxResources
  WITH Slots <- TableSlots, MaxJobs <- MaxQueued, MaxFaults <- MaxStuck,
       live <- s_live, held <- s_held, jobs <- s_jobs, failed <- s_failed,
       faults <- s_faults
\* No image is the absence of one.
ASSUME ImageAssumption == Resources!None \notin Objects
\* The presentation targets are textures of the table.
ASSUME PresentAssumption == Present \subseteq TableSlots
\* The physical images are interchangeable.
ObjectSymmetry == Permutations(Objects)
Video == INSTANCE Nvdec
  WITH active <- v_active, pending <- v_pending

OwnershipInit ==
  /\ part \in {"worker", "push", "pop", "memory", "split", "dispatch", "resources", "nvdec"}
  /\ Worker!Init
  /\ Push!Init
  /\ Pop!Init
  /\ Memory!Init
  /\ Split!Init
  /\ Dispatch!Init
  /\ Resources!Init
  /\ part # "resources" => api = "ir"  \* one initial cache for the other parts
  /\ Video!Init

\* The part that runs leaves the others alone.
WorkerOnly == part = "worker" /\ UNCHANGED <<part, push, pop, memory, split, dispatch, resources, video>>
PushOnly == part = "push" /\ UNCHANGED <<part, worker_vars, pop, memory, split, dispatch, resources, video>>
PopOnly == part = "pop" /\ UNCHANGED <<part, worker_vars, push, memory, split, dispatch, resources, video>>
MemoryOnly == part = "memory" /\ UNCHANGED <<part, worker_vars, push, pop, split, dispatch, resources, video>>
SplitOnly == part = "split" /\ UNCHANGED <<part, worker_vars, push, pop, memory, dispatch, resources, video>>
DispatchOnly == part = "dispatch" /\ UNCHANGED <<part, worker_vars, push, pop, memory, split, resources, video>>
ResourcesOnly == part = "resources" /\ UNCHANGED <<part, worker_vars, push, pop, memory, split, dispatch, video>>
VideoOnly == part = "nvdec" /\ UNCHANGED <<part, worker_vars, push, pop, memory, split, dispatch, resources>>

OwnershipNext ==
  \/ WorkerOnly /\ Worker!Next
  \/ PushOnly /\ Push!Next
  \/ PopOnly /\ Pop!Next
  \/ MemoryOnly /\ Memory!Next
  \/ SplitOnly /\ Split!Next
  \/ DispatchOnly /\ Dispatch!Next
  \/ ResourcesOnly /\ Resources!Next
  \/ VideoOnly /\ Video!Next

all == <<part, worker_vars, push, pop, memory, split, dispatch, resources, video>>

OwnershipSpec == OwnershipInit /\ [][OwnershipNext]_all

----------------------------------------------------------------------------
(* What the parts promise, by the names their modules give it.              *)

\* No frame crosses associations, a finished retirement leaves nothing of the
\* old connection, the TX queue stays within its bound, and a key takes effect
\* after the frames queued before it (runtime.rs).
WorkerSafe ==
  /\ [](part = "worker" =>
         /\ Worker!NoCrossing
         /\ Worker!RetiredIsClean
         /\ Worker!TxBounded)
  /\ Worker!KeyAfterFrames

\* A ring of either direction implements the abstract Channel: what one side
\* published the other takes once, in order and unchanged, also across failing
\* index accesses and ring deletion (msgbuf.rs).
RingIsChannel == Push!RingIsChannel /\ Pop!RingIsChannel

\* What the GPU may still reach is allocated, page table and TLB hold exactly
\* the live mappings, and queued requests keep their memory (executor.rs).
MemorySafe ==
  part = "memory" =>
    /\ Memory!DmaBackingAlive
    /\ Memory!TableIsExact
    /\ Memory!RequestsKeepTheirMemory

\* An allocation is refused only when no gap of the address space fits it
\* (State::allocate).
GapsAreFound == part = "memory" => Memory!NoMissedGap

\* Cut, compiled and replayed chunks render what the recorded commands render,
\* each chunk fits, and only a single operation that cannot fit is refused
\* (preparation.rs, asynchronous.rs).
SplitSafe ==
  part = "split" =>
    /\ Split!SameRendering
    /\ Split!ChunksCompile
    /\ Split!CutsStore
    /\ Split!RefusedOnlyIfTooLarge

\* Ok means that all earlier work has retired, CPU work sees exactly its
\* prefix, nothing is detached or freed under running work, a failure settles
\* every job for good, and no wake-up is lost (scheduler.rs, dispatch.rs).
DispatchSafe == Dispatch!DispatchSafe

\* A job works on storage made for its own texture or mapped to it by the client,
\* storage stays attached while a job uses it, no two textures share storage, the
\* client's mappings and the cache agree, and current storage is not forgotten
\* (resource.rs, lib.rs).
ResourcesSafe ==
  /\ [](part = "resources" =>
         /\ Resources!StorageMatchesTexture
         /\ Resources!AttachedWhileQueued
         /\ Resources!NoAliases
         /\ Resources!MappingsAgree)
  /\ Resources!NotForgotten

\* The decoder writes a surface nobody displays or references, references keep
\* their picture, DPB indices are distinct, a leased picture never changes, what
\* the engine reaches stays backed through failed isolation, and a new owner
\* starts from a fresh engine (h264.rs, submission.rs, lifecycle.rs).
SurfacesSafe ==
  /\ [](part = "nvdec" =>
         /\ Video!WriterIsAlone
         /\ Video!ReferencesIntact
         /\ Video!DpbDistinct
         /\ Video!DmaBacked
         /\ Video!OwnerStartsFresh)
  /\ Video!LeaseIsImmutable
=============================================================================
