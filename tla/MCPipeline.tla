----------------------------- MODULE MCPipeline -----------------------------
(***************************************************************************)
(* The GPU, the SGFX backend and the video decoder under fairness, checked *)
(* in one run: GPU requests, the GPU's power sequence, the command FIFO,   *)
(* the dispatcher's wake-ups and the decoder's pictures. They share no     *)
(* state in the models, so a behaviour runs one of them, its part; the     *)
(* others stay in one of their initial states.                             *)
(***************************************************************************)
CONSTANTS
  AsyncRequests, Callers, CpuTasks, Capacity, \* GPU requests
  MaxProbes,                                  \* GPU power
  Entries, MaxSeq, MaxPolls                   \* the command FIFO

VARIABLES
  part, queue, outstanding, reserved, failure, req, pinned, ran, result, cpu,
  worker, wake, lost, at, before, clamp, reset, rail, dma, inflight, irq, isr,
  probes, f_cpu, seq, push, put, bound, done, userd, ref, fence, snap,
  observed, events, polls, hw, fault, jobs, bytes, d_failure, lock, signal,
  gpu, bad, log, pressure, pressed, wpc, progress, seen, flag, pipe, d_lost,
  cpc, closing, op, life, active, v_hw, session, pending, leased, holds

requests == <<queue, outstanding, reserved, failure, req, pinned, ran, result,
              cpu, worker, wake, lost>>
power == <<at, before, clamp, reset, rail, dma, inflight, irq, isr, probes>>
fifo == <<f_cpu, seq, push, put, bound, done, userd, ref, fence, snap,
          observed, events, polls, hw, fault>>
dispatch == <<jobs, bytes, d_failure, lock, signal, gpu, bad, log, pressure,
              pressed, wpc, progress, seen, flag, pipe, d_lost, cpc, closing,
              op>>
video == <<life, active, v_hw, session, pending, leased, holds>>

Queue == INSTANCE GpuQueue
  WITH Async <- AsyncRequests, Sync <- Callers, Cpu <- CpuTasks
Power == INSTANCE GpuPower
Fifo == INSTANCE GpuFifo
  WITH cpu <- f_cpu
Dispatch == INSTANCE SgfxDispatch
  WITH Clients <- {"c1", "c2"}, Kinds <- {"gpu"}, MaxChunks <- 1,
       MaxJobs <- 2, MaxSubmissions <- 1, MaxBytes <- 2, MaxInFlight <- 1,
       MaxPressure <- 0, MaxLost <- 1, failure <- d_failure, lost <- d_lost
Video == INSTANCE Nvdec
  WITH Images <- {"i1", "i2", "i3"}, Refs <- 1, MaxSurfaces <- 2,
       Stamps <- {1, 2}, Geometries <- {"small"}, MaxId <- 2, hw <- v_hw

PipelineInit ==
  /\ part \in {"queue", "power", "fifo", "dispatch", "nvdec"}
  /\ Queue!Init
  /\ Power!Init /\ (part # "power" => ~before.clamp /\ ~before.reset)
  /\ Fifo!Init
  /\ Dispatch!Init
  /\ Video!Init

\* The part that runs leaves the others alone.
QueueOnly == part = "queue" /\ UNCHANGED <<part, power, fifo, dispatch, video>>
PowerOnly == part = "power" /\ UNCHANGED <<part, requests, fifo, dispatch, video>>
FifoOnly == part = "fifo" /\ UNCHANGED <<part, requests, power, dispatch, video>>
DispatchOnly == part = "dispatch" /\ UNCHANGED <<part, requests, power, fifo, video>>
VideoOnly == part = "nvdec" /\ UNCHANGED <<part, requests, power, fifo, dispatch>>

PipelineNext ==
  \/ QueueOnly /\ Queue!Next
  \/ PowerOnly /\ Power!Next
  \/ FifoOnly /\ Fifo!Next
  \/ DispatchOnly /\ Dispatch!Next
  \/ VideoOnly /\ Video!Next

all == <<part, requests, power, fifo, dispatch, video>>

\* The fairness of the part that runs.  A behaviour has one part, so fairness of
\* a disjunction over the parts is the fairness each part asks for, given that
\* there is a caller and a task for CPU access.
PipelineSpec ==
  /\ PipelineInit /\ [][PipelineNext]_all
  /\ WF_all(\/ QueueOnly /\ Queue!Worker
            \/ PowerOnly /\ Power!Probe
            \/ FifoOnly /\ Fifo!Submitter
            \/ DispatchOnly /\ Dispatch!Worker
            \/ VideoOnly /\ Video!Second)
  /\ \A r \in Callers :
       /\ WF_all(\/ QueueOnly /\ Queue!SubmitReturns(r)
                 \/ PowerOnly /\ Power!Rollback
                 \/ DispatchOnly /\ Dispatch!Wakes
                 \/ VideoOnly /\ (\E id \in Video!Ids, ok \in BOOLEAN : Video!Dequeue(id, ok)))
       /\ SF_all(\/ QueueOnly /\ Queue!Submit(r)
                 \/ PowerOnly /\ Power!DropIrq
                 \/ DispatchOnly /\ Dispatch!AdvancePoll)
  /\ \A c \in CpuTasks :
       /\ WF_all(\/ QueueOnly /\ Queue!Granted(c)
                 \/ PowerOnly /\ Power!IsrLeave
                 \/ DispatchOnly /\ (\E x \in gpu : Dispatch!GpuRetires(x)))
       /\ WF_all(\/ QueueOnly /\ Queue!Refused(c)
                 \/ DispatchOnly /\ Dispatch!OtherContextDrains)
       /\ WF_all(\/ QueueOnly /\ Queue!Release(c)
                 \/ DispatchOnly /\ Dispatch!OpWaited)
       /\ SF_all(\/ QueueOnly /\ Queue!Reserve(c)
                 \/ DispatchOnly /\ (op.at = "again" /\ Dispatch!OpCheck("wait")))
  /\ WF_all(DispatchOnly /\ Dispatch!OpDone)

----------------------------------------------------------------------------
(* What the parts promise, by the names their modules give it.              *)

\* CPU access excludes the GPU, pins last as long as the hardware may use them
\* and Ok means that the request ran (asynchronous.rs); pages outlive DMA, a
\* handler finds power, the rail moves only under an isolated GPU and rollback
\* restores what was found (runtime.rs); the pushbuffer is stable under the GPU
\* and no completion is slept through (fifo.rs).
PipelineSafe ==
  /\ [](part = "queue" =>
         /\ Queue!CpuExclusive
         /\ Queue!PinsFollowTheHardware
         /\ Queue!OkMeansRan)
  /\ [](part = "power" =>
         /\ Power!ReleasedOnKnownRail
         /\ Power!PagesOutliveDma
         /\ Power!HandlerFindsPower
         /\ Power!RollbackIsExact)
  /\ Power!RailMovesIsolated
  /\ [](part = "fifo" =>
         /\ Fifo!PushStable
         /\ Fifo!CompletedIsRetired
         /\ Fifo!NoSleepThroughCompletion)

\* Under fairness: every GPU request, CPU reservation, probe and submission
\* ends, every job of the dispatcher settles, its waiters return and its worker
\* exits, and every picture is answered.
PipelineServed ==
  /\ part = "queue" => Queue!AllSettle /\ Queue!CpuServed
  /\ part = "power" => Power!ProbeEnds
  /\ part = "fifo" => Fifo!SubmissionEnds
  /\ part = "dispatch" => Dispatch!EveryJobSettles /\ Dispatch!WaitersReturn /\ Dispatch!WorkerExits
  /\ part = "nvdec" => Video!PictureAnswered
=============================================================================
