---------------------------- MODULE SgfxDispatch ----------------------------
(* The per-context dispatcher of the SGFX Maxwell backend.  Client threads    *)
(* admit whole logical submissions (jobs of ordered chunks); one worker       *)
(* thread submits the chunks to the kernel queue in admission order, polls    *)
(* their fences, and completes each job's signal; and threads that retire     *)
(* resources run their operation while holding the scheduler's lock, which    *)
(* they may only do when nothing is in flight.                                *)
(*                                                                            *)
(* A chunk is "gpu" (commands), "cpu" (an upload, copy, normalisation or      *)
(* barrier run by the worker itself) or "draw" (a CPU snapshot followed by a  *)
(* native submission).  Its size is one byte.                                 *)
EXTENDS Integers, Sequences, FiniteSets, SequencesExt

CONSTANTS
    Clients,        \* threads that submit
    Kinds,          \* the kinds of chunk clients use
    MaxChunks,      \* bound: chunks in a submission
    MaxJobs,        \* bound: submissions admitted in a behaviour
    MaxSubmissions, \* MAX_SUBMISSIONS
    MaxBytes,       \* MAX_PENDING_BYTES
    MaxInFlight,    \* MAX_NATIVE_IN_FLIGHT
    MaxPressure,    \* bound: times another context fills the device
    MaxLost         \* bound: failed pipe writes

VARIABLES
    jobs,      \* Scheduler.jobs
    bytes,     \* Scheduler.bytes
    failure,   \* Scheduler.failure is set
    lock,      \* the scheduler mutex: "free", "worker" or "op"
    signal,    \* result of each job's signal; "none" before admission
    gpu,       \* native chunks the hardware has not retired
    bad,       \* native chunks whose fence reports a failure
    log,       \* history: chunks accepted by the transport, in order
    pressure,  \* another context fills the device queue
    pressed,   \* bound: times it did
    wpc,       \* the worker's place in run() and advance()
    progress,  \* advance() made progress
    seen,      \* history: jobs admitted when the worker last took the lock
    flag,      \* wake.signalled
    pipe,      \* bytes in the wake pipe
    lost,      \* bound: pipe writes that failed
    cpc,       \* each notifier's place in Event::notify
    closing,   \* the frontend dropped the scheduler
    op         \* the retiring thread: [at, how, job]

vars == <<jobs, bytes, failure, lock, signal, gpu, bad, log, pressure, pressed,
          wpc, progress, seen, flag, pipe, lost, cpc, closing, op>>
sched == <<jobs, bytes, failure, signal>>
hw == <<gpu, bad, log, pressure, pressed>>
wake == <<flag, pipe, lost>>

\* prepare_async: never an empty list of chunks.
Shapes == UNION {[1..n -> Kinds] : n \in 1..MaxChunks}

Dropper == "drop"
Notifiers == Clients \cup {Dropper}
Admitted == Cardinality({j \in 1..MaxJobs : signal[j] # "none"})

Native(kind) == kind # "cpu"
RequiresIdle(kind) == kind # "gpu"
InFlight == UNION {{<<jobs[i].id, k>> : k \in jobs[i].receipts} : i \in DOMAIN jobs}

Init ==
    /\ jobs = <<>> /\ bytes = 0 /\ failure = FALSE /\ lock = "free"
    /\ signal = [j \in 1..MaxJobs |-> "none"]
    /\ gpu = {} /\ bad = {} /\ log = <<>> /\ pressure = FALSE /\ pressed = 0
    /\ wpc = "consume" /\ progress = FALSE /\ seen = 0
    /\ flag = FALSE /\ pipe = 0 /\ lost = 0
    /\ cpc = [c \in Notifiers |-> "idle"]
    /\ closing = FALSE
    /\ op = [at |-> "idle", how |-> "try", job |-> 0]

(****************************************************************************)
(* Admission.  A refused try_lock, a full queue and a failed dispatcher     *)
(* leave everything as it was and tell the caller; only success is a step.  *)
(****************************************************************************)

Admissible(shape) ==
    /\ ~failure
    /\ Len(shape) <= MaxBytes
    /\ Len(jobs) # MaxSubmissions
    /\ bytes + Len(shape) <= MaxBytes

Enqueue(c, shape) ==
    /\ cpc[c] = "idle" /\ ~closing /\ lock = "free"
    /\ Admitted < MaxJobs
    /\ Admissible(shape)
    /\ LET id == Admitted + 1 IN
       /\ jobs' = Append(jobs, [id |-> id, chunks |-> shape, next |-> 1, receipts |-> {}])
       /\ signal' = [signal EXCEPT ![id] = "pending"]
    /\ bytes' = bytes + Len(shape)
    /\ cpc' = [cpc EXCEPT ![c] = "swap"]
    /\ UNCHANGED <<failure, lock, hw, wpc, progress, seen, wake, closing, op>>

\* The last owner is dropped, so no client or retiring thread is inside.
DropScheduler ==
    /\ ~closing
    /\ op.at = "idle"
    /\ \A c \in Clients : cpc[c] = "idle"
    /\ closing' = TRUE
    /\ cpc' = [cpc EXCEPT ![Dropper] = "swap"]
    /\ UNCHANGED <<sched, lock, hw, wpc, progress, seen, wake, op>>

NotifySwap(c) ==
    /\ cpc[c] = "swap"
    /\ flag' = TRUE
    /\ cpc' = [cpc EXCEPT ![c] = IF flag THEN "idle" ELSE "write"]
    /\ UNCHANGED <<sched, lock, hw, wpc, progress, seen, pipe, lost, closing, op>>

NotifyWrite(c) ==
    /\ cpc[c] = "write"
    /\ pipe' = pipe + 1
    /\ cpc' = [cpc EXCEPT ![c] = "idle"]
    /\ UNCHANGED <<sched, lock, hw, wpc, progress, seen, flag, lost, closing, op>>

\* The write reports an error; the byte may have arrived all the same.
NotifyFails(c) ==
    /\ cpc[c] = "write" /\ lost < MaxLost
    /\ lost' = lost + 1
    /\ pipe' \in {pipe, pipe + 1}
    /\ flag' = FALSE
    /\ cpc' = [cpc EXCEPT ![c] = "idle"]
    /\ UNCHANGED <<sched, lock, hw, wpc, progress, seen, closing, op>>

(****************************************************************************)
(* The worker.                                                              *)
(****************************************************************************)

\* Scheduler::fail: every job's signal reports the failure, its owners go.
FailAll ==
    /\ failure' = TRUE
    /\ signal' = [j \in 1..MaxJobs |->
                    IF \E i \in DOMAIN jobs : jobs[i].id = j THEN "failed" ELSE signal[j]]
    /\ jobs' = <<>>
    /\ bytes' = 0

\* Event::consume in two steps: the byte is read, then the flag cleared.
Consume ==
    /\ wpc = "consume"
    /\ IF pipe = 0 THEN wpc' = "lock" /\ pipe' = pipe
                   ELSE wpc' = "clear" /\ pipe' = pipe - 1
    /\ UNCHANGED <<sched, lock, hw, progress, seen, flag, lost, cpc, closing, op>>

ConsumeClear ==
    /\ wpc = "clear"
    /\ flag' = FALSE
    /\ wpc' = "lock"
    /\ UNCHANGED <<sched, lock, hw, progress, seen, pipe, lost, cpc, closing, op>>

\* advance() takes the lock and inspects every receipt of every job.
AdvancePoll ==
    /\ wpc = "lock" /\ lock = "free"
    /\ seen' = Admitted
    /\ IF InFlight \cap bad # {}
       THEN /\ FailAll
            /\ wpc' = "exit" /\ lock' = "free" /\ progress' = TRUE
       ELSE /\ jobs' = [i \in DOMAIN jobs |->
                          [jobs[i] EXCEPT !.receipts =
                              {k \in @ : <<jobs[i].id, k>> \in gpu}]]
            /\ progress' = (InFlight \ gpu # {})
            /\ wpc' = "retire" /\ lock' = "worker"
            /\ UNCHANGED <<bytes, failure, signal>>
    /\ UNCHANGED <<hw, wake, cpc, closing, op>>

FrontFinished ==
    jobs # <<>> /\ Head(jobs).next > Len(Head(jobs).chunks) /\ Head(jobs).receipts = {}

\* The front job's signal completes before the job and its owners are dropped.
RetireFront ==
    /\ wpc = "retire" /\ FrontFinished
    /\ jobs' = Tail(jobs)
    /\ bytes' = bytes - Len(Head(jobs).chunks)
    /\ signal' = [signal EXCEPT ![Head(jobs).id] = "ok"]
    /\ progress' = TRUE
    /\ UNCHANGED <<failure, lock, hw, wpc, seen, wake, cpc, closing, op>>

RetireDone ==
    /\ wpc = "retire" /\ ~FrontFinished
    /\ wpc' = "submit"
    /\ UNCHANGED <<sched, lock, hw, progress, seen, wake, cpc, closing, op>>

\* The first job in order that still has a chunk to hand over.
Waiting == {i \in DOMAIN jobs : jobs[i].next <= Len(jobs[i].chunks)}
First == CHOOSE i \in Waiting : \A k \in Waiting : i <= k
NextChunk == jobs[First].chunks[jobs[First].next]
NextKey == <<jobs[First].id, jobs[First].next>>

\* Mutant: CPU chunks do not wait for the device.
Blocked_NeverIdle == Waiting = {} \/ Cardinality(InFlight) = MaxInFlight

Blocked ==
    \/ Waiting = {}
    \/ Cardinality(InFlight) = MaxInFlight
    \/ InFlight # {} /\ RequiresIdle(NextChunk)

SubmitOk ==
    /\ wpc = "submit" /\ ~Blocked
    /\ Native(NextChunk) => ~pressure
    /\ jobs' = [jobs EXCEPT ![First].next = @ + 1,
                            ![First].receipts = @ \cup {jobs[First].next}]
    /\ gpu' = IF Native(NextChunk) THEN gpu \cup {NextKey} ELSE gpu
    /\ log' = Append(log, NextKey)
    /\ progress' = TRUE
    /\ UNCHANGED <<bytes, failure, signal, lock, bad, pressure, pressed, wpc, seen,
                   wake, cpc, closing, op>>

\* The CPU part failed, or the kernel refused a native chunk or lost the
\* connection: a native chunk may have been accepted and run unseen.
SubmitFails ==
    /\ wpc = "submit" /\ ~Blocked
    /\ FailAll
    /\ gpu' \in IF Native(NextChunk) THEN {gpu, gpu \cup {NextKey}} ELSE {gpu}
    /\ wpc' = "exit" /\ lock' = "free" /\ progress' = TRUE
    /\ UNCHANGED <<bad, log, pressure, pressed, seen, wake, cpc, closing, op>>

\* advance() returns: blocked, or the device is Busy.
AdvanceReturns ==
    /\ wpc = "submit"
    /\ ~Blocked => Native(NextChunk) /\ pressure
    /\ lock' = "free"
    /\ wpc' = CASE jobs = <<>> /\ closing -> "exit"
                [] progress -> "consume"
                [] OTHER -> "sleep"
    /\ UNCHANGED <<sched, hw, progress, seen, wake, cpc, closing, op>>

\* Mutant: poll() without a timeout.
Wakes_NoTimeout ==
    /\ wpc = "sleep"
    /\ pipe > 0 \/ InFlight \ gpu # {} \/ InFlight \cap bad # {}
    /\ wpc' = "consume"
    /\ UNCHANGED <<sched, lock, hw, progress, seen, wake, cpc, closing, op>>

\* poll() returns: the wake pipe, a fence, or the 1 ms / 100 ms timeout.
Wakes ==
    /\ wpc = "sleep"
    /\ wpc' = "consume"
    /\ UNCHANGED <<sched, lock, hw, progress, seen, wake, cpc, closing, op>>

\* A failed reservation, consume() or poll(), or a panic seen by WorkerGuard.
WorkerFaults ==
    /\ wpc \in {"consume", "sleep"} /\ lock = "free"
    /\ FailAll
    /\ wpc' = "exit"
    /\ UNCHANGED <<lock, hw, progress, seen, wake, cpc, closing, op>>

(****************************************************************************)
(* Threads that retire resources: with_idle ("try"), with_idle_wait         *)
(* ("wait") and wait_idle ("drain", which runs nothing under the lock).     *)
(****************************************************************************)

\* A "try" finding the lock taken or jobs pending returns ResourceBusy.
OpCheck(how) ==
    /\ lock = "free"
    /\ \/ op.at = "idle" /\ ~closing
       \/ op.at = "again" /\ op.how = how
    /\ IF failure \/ (jobs = <<>> /\ how = "drain") \/ (jobs # <<>> /\ how = "try")
       THEN op' = [op EXCEPT !.at = "idle", !.how = how] /\ lock' = lock
       ELSE IF jobs = <<>>
       THEN op' = [op EXCEPT !.at = "hold", !.how = how] /\ lock' = "op"
       ELSE op' = [at |-> "wait", how |-> how, job |-> Last(jobs).id] /\ lock' = lock
    /\ UNCHANGED <<sched, hw, wpc, progress, seen, wake, cpc, closing>>

\* The last signal seen resolved; with_idle_wait looks again under the lock.
OpWaited ==
    /\ op.at = "wait" /\ signal[op.job] # "pending"
    /\ op' = [op EXCEPT !.at = IF signal[op.job] = "ok" /\ op.how = "wait"
                               THEN "again" ELSE "idle"]
    /\ UNCHANGED <<sched, lock, hw, wpc, progress, seen, wake, cpc, closing>>

\* The operation (a detach, an unmap) ran and the guard is dropped.
OpDone ==
    /\ op.at = "hold"
    /\ op' = [op EXCEPT !.at = "idle"]
    /\ lock' = "free"
    /\ UNCHANGED <<sched, hw, wpc, progress, seen, wake, cpc, closing>>

(****************************************************************************)
(* The device: fences of one context may be observed in any order.          *)
(****************************************************************************)

GpuRetires(x) ==
    /\ x \in gpu \ bad
    /\ gpu' = gpu \ {x}
    /\ UNCHANGED <<sched, lock, bad, log, pressure, pressed, wpc, progress, seen,
                   wake, cpc, closing, op>>

\* The fence reports a failure; the hardware may still touch the memory.
GpuFails(x) ==
    /\ x \in gpu \ bad
    /\ bad' = bad \cup {x}
    /\ UNCHANGED <<sched, lock, gpu, log, pressure, pressed, wpc, progress, seen,
                   wake, cpc, closing, op>>

OtherContextFills ==
    /\ ~pressure /\ pressed < MaxPressure
    /\ pressure' = TRUE /\ pressed' = pressed + 1
    /\ UNCHANGED <<sched, lock, gpu, bad, log, wpc, progress, seen, wake, cpc, closing, op>>

OtherContextDrains ==
    /\ pressure
    /\ pressure' = FALSE
    /\ UNCHANGED <<sched, lock, gpu, bad, log, pressed, wpc, progress, seen, wake, cpc,
                   closing, op>>

Worker ==
    \/ Consume \/ ConsumeClear \/ AdvancePoll \/ RetireFront \/ RetireDone
    \/ SubmitOk \/ AdvanceReturns

Next ==
    \/ \E c \in Clients, s \in Shapes : Enqueue(c, s)
    \/ DropScheduler
    \/ \E c \in Notifiers : NotifySwap(c) \/ NotifyWrite(c) \/ NotifyFails(c)
    \/ Worker \/ SubmitFails \/ Wakes \/ WorkerFaults
    \/ \E how \in {"try", "wait", "drain"} : OpCheck(how)
    \/ OpWaited \/ OpDone
    \/ \E x \in gpu : GpuRetires(x) \/ GpuFails(x)
    \/ OtherContextFills \/ OtherContextDrains

Spec == Init /\ [][Next]_vars

(****************************************************************************)
(* Fairness: the worker thread and notifiers run, poll() has a timeout, a   *)
(* detach ends, the device retires or fails what it accepted, and other     *)
(* contexts drain.                                                          *)
(****************************************************************************)
Fairness ==
    /\ WF_vars(Worker) /\ SF_vars(AdvancePoll) /\ WF_vars(Wakes)
    /\ WF_vars(\E x \in gpu : GpuRetires(x))
    /\ WF_vars(OtherContextDrains)
    /\ WF_vars(OpWaited) /\ WF_vars(OpDone)
    /\ SF_vars(op.at = "again" /\ OpCheck("wait"))

-----------------------------------------------------------------------------

JobIds == {jobs[i].id : i \in DOMAIN jobs}

\* TypeOK: the state is well typed, jobs are in admission order and exactly the
\* pending ones, and `bytes` is what they hold (Scheduler::enqueue, advance, fail).
TypeOK ==
    /\ signal \in [1..MaxJobs -> {"none", "pending", "ok", "failed"}]
    /\ JobIds = {j \in 1..MaxJobs : signal[j] = "pending"}
    /\ \A i, k \in DOMAIN jobs : i < k => jobs[i].id < jobs[k].id
    /\ \A i \in DOMAIN jobs :
         /\ jobs[i].next \in 1..(Len(jobs[i].chunks) + 1)
         /\ jobs[i].receipts \subseteq 1..(jobs[i].next - 1)
    /\ bytes = FoldSeq(LAMBDA job, n : n + Len(job.chunks), 0, jobs)
    /\ Len(jobs) <= MaxSubmissions /\ bytes <= MaxBytes
    /\ Cardinality(InFlight) <= MaxInFlight
    /\ lock \in {"free", "worker", "op"}
    /\ lock = "worker" <=> wpc \in {"retire", "submit"}
    /\ lock = "op" <=> op.at = "hold"

\* A signal that reports success speaks for the whole ordered prefix: every
\* earlier job succeeded too, and the device holds no chunk of any of them,
\* whichever order the fences were seen in (scheduler.rs, advance).
OkMeansRetired ==
    \A j \in 1..MaxJobs : signal[j] = "ok" =>
        /\ \A i \in 1..j : signal[i] = "ok"
        /\ \A x \in gpu : x[1] > j

\* A thread that detaches or unmaps under the idle guard does so with nothing on
\* the device: not after a failure, whose chunks may still run, and not with a
\* submission admitted since it looked (try_idle, wait_idle_guard).
DetachIsQuiesced == op.at = "hold" => gpu = {} /\ jobs = <<>>

\* What the device runs is kept alive by a job the worker still holds, until the
\* dispatcher has failed and the kernel alone retains it (Transport::Owner).
OwnersOutliveWork == \A x \in gpu : x[1] \in JobIds \/ failure

\* Chunks reach the transport in admission order, each at most once, even when
\* the device was Busy in between (advance: "accepted chunks are never replayed").
DispatchInOrder ==
    \A i, k \in DOMAIN log : i < k =>
        log[i][1] < log[k][1] \/ (log[i][1] = log[k][1] /\ log[i][2] < log[k][2])

\* A failed dispatcher leaves nobody waiting (Scheduler::fail, WorkerGuard).
FailureSettlesAll == failure => \A j \in 1..MaxJobs : signal[j] # "pending"

\* Unless a pipe write failed, a worker asleep on an unready poll() set has a
\* notification on its way for everything admitted since it last looked, and for
\* the scheduler's drop (Event::notify against Event::consume).
NoLostWake ==
    wpc = "sleep" /\ pipe = 0 /\ lost = 0 /\ Admitted > seen =>
        \E c \in Notifiers : cpc[c] \in {"swap", "write"}

\* The worker touches CPU memory of a chunk that requires an idle queue (an
\* upload, a copy, a draw's snapshot) only while the device runs nothing of this
\* context (requires_idle).
CpuSeesPrefix ==
    [][\A j \in 1..MaxJobs : Len(log') > Len(log) /\ Last(log')[1] = j =>
          \A i \in DOMAIN jobs :
             jobs[i].id = j /\ RequiresIdle(jobs[i].chunks[jobs[i].next]) => gpu = {}]_vars

\* Once failed, the dispatcher stays failed: no submission is accepted, nothing
\* more is handed to the device, and no signal changes its verdict.
FailureIsFinal ==
    [][/\ failure => failure' /\ log' = log /\ jobs' = <<>>
       /\ \A j \in 1..MaxJobs : signal[j] \in {"ok", "failed"} => signal'[j] = signal[j]]_vars

\* Ok means that all earlier work has retired, CPU work sees exactly its prefix,
\* nothing is detached or freed under running work, a failure settles every job
\* for good, and no wake-up is lost (scheduler.rs, dispatch.rs).
DispatchSafe ==
    /\ [](/\ OkMeansRetired /\ DetachIsQuiesced /\ OwnersOutliveWork
          /\ DispatchInOrder /\ FailureSettlesAll
          /\ NoLostWake)
    /\ CpuSeesPrefix
    /\ FailureIsFinal

\* Every admitted submission is eventually completed, successfully or not, even
\* when its receipt is dropped and wake-up bytes are lost (worker, poll timeouts).
EveryJobSettles == \A j \in 1..MaxJobs : signal[j] = "pending" ~> signal[j] # "pending"

\* A thread waiting for idleness gets its answer.
WaitersReturn == op.at \in {"wait", "again", "hold"} ~> op.at = "idle"

\* Once the scheduler is dropped the worker exits.
WorkerExits == closing ~> wpc = "exit"

=============================================================================
