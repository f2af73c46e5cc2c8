------------------------------ MODULE GpuQueue ------------------------------
(***************************************************************************)
(* asynchronous.rs of the GM20B driver: admission, the single worker that  *)
(* executes and retires requests, synchronous callers, and the reservation *)
(* that drains the queue for CPU access to an image.                       *)
(***************************************************************************)
EXTENDS Naturals, Sequences, FiniteSets, SequencesExt

CONSTANTS
  Async,     \* requests of enqueue()
  Sync,      \* requests of submit(), one per calling task
  Cpu,       \* tasks that want CPU access
  Capacity   \* CAPACITY

VARIABLES
  queue,        \* PendingState::queue
  outstanding,  \* PendingState::outstanding
  reserved,     \* PendingState::cpu_access
  failure,      \* PendingState::failure is set
  req,          \* where each request is
  pinned,       \* requests whose resources are still pinned
  ran,          \* requests the hardware executed to its fence
  result,       \* what the observer of each request was told
  cpu,          \* step of each CPU-access task
  worker,       \* step of the worker and its request
  wake,         \* WORKER_WAKER was signalled
  lost          \* State::lost

vars == <<queue, outstanding, reserved, failure, req, pinned, ran, result, cpu,
          worker, wake, lost>>

Request == Async \cup Sync
Nobody == [at |-> "scan", who |-> "none", outcome |-> "none"]

Init ==
  /\ queue = << >> /\ outstanding = 0 /\ reserved = FALSE /\ failure = FALSE
  /\ req = [r \in Request |-> "new"] /\ pinned = {} /\ ran = {}
  /\ result = [r \in Request |-> "none"] /\ cpu = [c \in Cpu |-> "idle"]
  /\ worker = Nobody /\ wake = FALSE /\ lost = FALSE

----------------------------------------------------------------------------
(* Admission. *)

Open == ~reserved /\ outstanding < Capacity

Admit(r) ==
  /\ queue' = Append(queue, r) /\ outstanding' = outstanding + 1
  /\ req' = [req EXCEPT ![r] = "queued"] /\ pinned' = pinned \cup {r}
  /\ wake' = TRUE

\* enqueue(): a full or reserved queue, a contended lock and a lost device give
\* the request back unchanged; the caller may try again.
Enqueue(r) ==
  /\ r \in Async /\ req[r] = "new"
  /\ \/ ~failure /\ Open /\ Admit(r)
     \/ /\ failure
        /\ req' = [req EXCEPT ![r] = "rejected"]
        /\ UNCHANGED <<queue, outstanding, pinned, wake>>
  /\ UNCHANGED <<reserved, failure, ran, result, cpu, worker, lost>>

\* submit(): the caller waits for room, then for its result.
Submit(r) ==
  /\ r \in Sync /\ req[r] \in {"new", "waiting"}
  /\ \/ ~failure /\ Open /\ Admit(r)
     \/ /\ ~failure /\ ~Open /\ req[r] = "new"
        /\ req' = [req EXCEPT ![r] = "waiting"]
        /\ UNCHANGED <<queue, outstanding, pinned, wake>>
     \/ /\ failure
        /\ req' = [req EXCEPT ![r] = "rejected"]
        /\ UNCHANGED <<queue, outstanding, pinned, wake>>
  /\ UNCHANGED <<reserved, failure, ran, result, cpu, worker, lost>>

SubmitReturns(r) ==
  /\ r \in Sync /\ req[r] = "settled" /\ result[r] # "none"
  /\ req' = [req EXCEPT ![r] = "returned"]
  /\ UNCHANGED <<queue, outstanding, reserved, failure, pinned, ran, result, cpu,
                 worker, wake, lost>>

----------------------------------------------------------------------------
(* begin_cpu_access() and the drop of its guard. *)

Reserve(c) ==
  /\ cpu[c] = "idle" /\ ~reserved /\ ~failure
  /\ reserved' = TRUE /\ cpu' = [cpu EXCEPT ![c] = "drain"]
  /\ UNCHANGED <<queue, outstanding, failure, req, pinned, ran, result, worker, wake, lost>>

Drained == outstanding = 0

Granted(c) ==
  /\ cpu[c] = "drain" /\ ~failure /\ Drained
  /\ cpu' = [cpu EXCEPT ![c] = "hold"]
  /\ UNCHANGED <<queue, outstanding, reserved, failure, req, pinned, ran, result,
                 worker, wake, lost>>

\* Device lost: without a reservation, or with the guard dropped on the way out.
Refused(c) ==
  /\ cpu[c] \in {"idle", "drain"} /\ failure
  /\ reserved' = (reserved /\ cpu[c] # "drain")
  /\ cpu' = [cpu EXCEPT ![c] = "done"]
  /\ UNCHANGED <<queue, outstanding, failure, req, pinned, ran, result, worker, wake, lost>>

Release(c) ==
  /\ cpu[c] = "hold"
  /\ reserved' = FALSE /\ cpu' = [cpu EXCEPT ![c] = "done"]
  /\ UNCHANGED <<queue, outstanding, failure, req, pinned, ran, result, worker, wake, lost>>

----------------------------------------------------------------------------
(* The worker: process_submission() and its idle wait. *)

Pop ==
  /\ worker.at = "scan" /\ queue # << >>
  /\ queue' = Tail(queue)
  /\ worker' = [at |-> "execute", who |-> Head(queue),
                outcome |-> IF failure THEN "lost" ELSE "none"]
  /\ req' = [req EXCEPT ![Head(queue)] = "executing"]
  /\ UNCHANGED <<outstanding, reserved, failure, pinned, ran, result, cpu, wake, lost>>

\* A signal that came before the wait is kept for it.
Sleep ==
  /\ worker.at = "scan" /\ queue = << >>
  /\ worker' = [worker EXCEPT !.at = "asleep"]
  /\ UNCHANGED <<queue, outstanding, reserved, failure, req, pinned, ran, result, cpu,
                 wake, lost>>

Wake ==
  /\ worker.at = "asleep" /\ wake
  /\ worker' = Nobody /\ wake' = FALSE
  /\ UNCHANGED <<queue, outstanding, reserved, failure, req, pinned, ran, result, cpu, lost>>

\* execute_prepared() under the hardware lock: the fence is reached, the request
\* is refused before it reaches the hardware, or the device is lost.
Execute ==
  /\ worker.at = "execute"
  /\ \/ /\ worker.outcome = "lost" \/ lost
        /\ worker' = [worker EXCEPT !.at = "record", !.outcome = "lost"]
        /\ UNCHANGED <<ran, lost>>
     \/ /\ worker.outcome = "none" /\ ~lost
        /\ \/ /\ worker' = [worker EXCEPT !.at = "record", !.outcome = "ok"]
              /\ ran' = ran \cup {worker.who} /\ UNCHANGED lost
           \/ /\ worker' = [worker EXCEPT !.at = "record", !.outcome = "refused"]
              /\ UNCHANGED <<ran, lost>>
           \/ /\ worker' = [worker EXCEPT !.at = "record", !.outcome = "lost"]
              /\ lost' = TRUE /\ UNCHANGED ran
  /\ UNCHANGED <<queue, outstanding, reserved, failure, req, pinned, result, cpu, wake>>

\* set_frequency_khz(): an unsafe rate change loses the device between requests.
RateFault ==
  /\ ~lost /\ worker.at # "execute"
  /\ lost' = TRUE
  /\ UNCHANGED <<queue, outstanding, reserved, failure, req, pinned, ran, result, cpu,
                 worker, wake>>

Record ==
  /\ worker.at = "record"
  /\ failure' = (failure \/ worker.outcome = "lost")
  /\ worker' = [worker EXCEPT !.at = "settle"]
  /\ UNCHANGED <<queue, outstanding, reserved, req, pinned, ran, result, cpu, wake, lost>>

\* A lost request keeps its pins: the hardware may still use them.
Unpin == IF worker.outcome = "lost" THEN pinned ELSE pinned \ {worker.who}

\* The observer learns the outcome before the capacity is given back.
Settle ==
  /\ worker.at = "settle"
  /\ pinned' = Unpin
  /\ req' = [req EXCEPT ![worker.who] = "settled"]
  /\ result' = [result EXCEPT ![worker.who] = worker.outcome]
  /\ worker' = IF worker.outcome = "lost" THEN Nobody ELSE [worker EXCEPT !.at = "count"]
  /\ UNCHANGED <<queue, outstanding, reserved, failure, ran, cpu, wake, lost>>

Count ==
  /\ worker.at = "count"
  /\ outstanding' = outstanding - 1
  /\ worker' = Nobody
  /\ UNCHANGED <<queue, reserved, failure, req, pinned, ran, result, cpu, wake, lost>>

----------------------------------------------------------------------------

Worker == Pop \/ Sleep \/ Wake \/ Execute \/ Record \/ Settle \/ Count

Next ==
  \/ \E r \in Request : Enqueue(r) \/ Submit(r) \/ SubmitReturns(r)
  \/ \E c \in Cpu : Reserve(c) \/ Granted(c) \/ Refused(c) \/ Release(c)
  \/ Worker \/ RateFault

\* The worker is a task of its own; a caller that waits polls every millisecond;
\* a guard is dropped in the end.
Fairness ==
  /\ WF_vars(Worker)
  /\ \A r \in Sync : SF_vars(Submit(r)) /\ WF_vars(SubmitReturns(r))
  /\ \A c \in Cpu : /\ SF_vars(Reserve(c)) /\ WF_vars(Granted(c))
                    /\ WF_vars(Refused(c)) /\ WF_vars(Release(c))

Spec == Init /\ [][Next]_vars /\ Fairness

----------------------------------------------------------------------------

TypeOK ==
  /\ queue \in Seq(Request) /\ outstanding \in 0..Capacity
  /\ {reserved, failure, wake, lost} \subseteq BOOLEAN
  /\ req \in [Request -> {"new", "waiting", "queued", "executing", "settled", "rejected",
                          "returned"}]
  /\ pinned \subseteq Request /\ ran \subseteq Request
  /\ result \in [Request -> {"none", "ok", "refused", "lost"}]
  /\ cpu \in [Cpu -> {"idle", "drain", "hold", "done"}]
  /\ worker.at \in {"scan", "asleep", "execute", "record", "settle", "count"}

\* CPU access to an image and GPU work never overlap: while a guard is held
\* nothing is queued, executing or about to be retired.
CpuExclusive ==
  (\E c \in Cpu : cpu[c] = "hold") =>
    /\ queue = << >> /\ worker.who = "none"
    /\ Cardinality({c \in Cpu : cpu[c] \in {"hold", "drain"}}) = 1

\* What is pinned is what the hardware may use: everything admitted and not yet
\* retired, and what was in flight or behind it when the device was lost.
PinsFollowTheHardware ==
  pinned = {r \in Request : req[r] \in {"queued", "executing"} \/ result[r] = "lost"}

\* An observer is told "ok" only of work whose fence was reached, and every unit
\* of capacity belongs to a request that is pinned or about to be counted.
OkMeansRan ==
  /\ \A r \in Request : result[r] = "ok" => r \in ran
  /\ outstanding = Cardinality(pinned) + (IF worker.at = "count" THEN 1 ELSE 0)

\* Every admitted request is settled and every caller returns, also when the
\* device is lost while requests wait behind the one that failed.
AllSettle ==
  /\ \A r \in Request : req[r] = "queued" ~> req[r] \in {"settled", "returned"}
  /\ \A r \in Sync : req[r] = "waiting" ~> req[r] \in {"returned", "rejected"}

\* A task that asks for CPU access gets it, or learns that the device is lost.
CpuServed == \A c \in Cpu : cpu[c] = "drain" ~> cpu[c] \in {"hold", "done"}
=============================================================================
