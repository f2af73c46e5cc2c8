--------------------------- MODULE PipelineProofs ---------------------------
(***************************************************************************)
(* Proofs about the GPU driver's request queue, power sequence and command *)
(* FIFO, for any number of requests, callers, probes, sequence numbers and *)
(* ring entries: CPU access excludes the GPU, memory and rail outlive what *)
(* uses them, and a submission that is reported complete is.               *)
(***************************************************************************)
EXTENDS MCPipeline, Integers, Sequences, FiniteSets, FiniteSetTheorems, TLAPS

----------------------------------------------------------------------------
(* Power. *)

\* The stages of probe() in their order, and where they fall.
Powered == {"flush", "identify", "ring", "clock", "allocate", "pfifo", "bar1", "userd", "engine",
            "acr", "fecs", "golden", "ce", "host", "graphics", "verify", "irq", "backend",
            "registered"}
Unowned == {"off", "isolate", "rail", "activate", "flush", "identify", "ring", "clock", "allocate"}
Owning == {"pfifo", "bar1", "userd", "engine", "acr", "fecs", "golden", "ce", "host", "graphics",
           "verify", "irq", "backend", "registered", "fault", "lost"}
Rolling == {"drop", "drop isolate", "drop flush", "drop rail"}
Ended == {"drop platform", "restored", "mismatch"}
\* The rail moves, and stays moved by a half, only on an isolated GPU; everything
\* between the rail and the backend has it up.
Railed ==
  /\ rail = "moving" => clamp /\ reset /\ at \in Rolling \cup {"isolated"}
  /\ at \in {"rail", "drop flush", "drop rail", "isolated"} => clamp /\ reset
  /\ at \in Ended => rail = "before"
  /\ at = "restored" => clamp = before.clamp /\ reset = before.reset

\* The pages belong to Power from the first address the hardware is given until
\* the memory client has drained.
Paged ==
  /\ inflight => dma \in {"owned", "forgotten"}
  /\ at \in Unowned => dma = "none" /\ ~inflight
  /\ at \in Owning => dma = "owned"
  /\ at \in Rolling \ {"drop rail"} => dma \in {"none", "owned"}
  /\ at \in Ended \cup {"drop rail"} => ~inflight

\* The handler runs only between its enabling and its end, on a powered GPU.
Handled ==
  /\ isr => irq
  /\ irq => at \in {"backend", "registered", "drop"} /\ dma = "owned" /\ ~clamp /\ ~reset
  /\ at \in Powered => ~clamp /\ ~reset

\* The invariant of the power sequence.
WInv == Railed /\ Paged /\ Handled /\ irq \in BOOLEAN /\ isr \in BOOLEAN

\* What probe() does next.
LEMMA Order ==
  /\ Power!After("isolate") = "rail" /\ Power!After("rail") = "activate"
  /\ Power!After("activate") = "flush" /\ Power!After("flush") = "identify"
  /\ Power!After("identify") = "ring" /\ Power!After("ring") = "clock"
  /\ Power!After("clock") = "allocate" /\ Power!After("allocate") = "pfifo"
  /\ Power!After("pfifo") = "bar1" /\ Power!After("bar1") = "userd"
  /\ Power!After("userd") = "engine" /\ Power!After("engine") = "acr"
  /\ Power!After("acr") = "fecs" /\ Power!After("fecs") = "golden"
  /\ Power!After("golden") = "ce" /\ Power!After("ce") = "host"
  /\ Power!After("host") = "graphics" /\ Power!After("graphics") = "verify"
  /\ Power!After("verify") = "irq" /\ Power!After("irq") = "backend"
  /\ Power!After("backend") = "registered"
<1>1. Power!Len(Power!Stages) = 22
  BY DEF Power!Stages
<1>2. \A i \in 2..22 :
        /\ Power!Stages[i - 1] = "isolate" <=> i = 2
        /\ Power!Stages[i - 1] = "rail" <=> i = 3
        /\ Power!Stages[i - 1] = "activate" <=> i = 4
        /\ Power!Stages[i - 1] = "flush" <=> i = 5
        /\ Power!Stages[i - 1] = "identify" <=> i = 6
        /\ Power!Stages[i - 1] = "ring" <=> i = 7
        /\ Power!Stages[i - 1] = "clock" <=> i = 8
        /\ Power!Stages[i - 1] = "allocate" <=> i = 9
        /\ Power!Stages[i - 1] = "pfifo" <=> i = 10
        /\ Power!Stages[i - 1] = "bar1" <=> i = 11
        /\ Power!Stages[i - 1] = "userd" <=> i = 12
        /\ Power!Stages[i - 1] = "engine" <=> i = 13
        /\ Power!Stages[i - 1] = "acr" <=> i = 14
        /\ Power!Stages[i - 1] = "fecs" <=> i = 15
        /\ Power!Stages[i - 1] = "golden" <=> i = 16
        /\ Power!Stages[i - 1] = "ce" <=> i = 17
        /\ Power!Stages[i - 1] = "host" <=> i = 18
        /\ Power!Stages[i - 1] = "graphics" <=> i = 19
        /\ Power!Stages[i - 1] = "verify" <=> i = 20
        /\ Power!Stages[i - 1] = "irq" <=> i = 21
        /\ Power!Stages[i - 1] = "backend" <=> i = 22
  BY DEF Power!Stages
<1>. DEFINE Place(s) == CHOOSE i \in 2..22 : Power!Stages[i - 1] = s
<1>3. /\ Place("isolate") = 2
      /\ Place("rail") = 3
      /\ Place("activate") = 4
      /\ Place("flush") = 5
      /\ Place("identify") = 6
      /\ Place("ring") = 7
      /\ Place("clock") = 8
      /\ Place("allocate") = 9
      /\ Place("pfifo") = 10
      /\ Place("bar1") = 11
      /\ Place("userd") = 12
      /\ Place("engine") = 13
      /\ Place("acr") = 14
      /\ Place("fecs") = 15
      /\ Place("golden") = 16
      /\ Place("ce") = 17
      /\ Place("host") = 18
      /\ Place("graphics") = 19
      /\ Place("verify") = 20
      /\ Place("irq") = 21
      /\ Place("backend") = 22
  BY <1>2
<1>4. \A s : Power!After(s) = Power!Stages[Place(s)]
  BY <1>1 DEF Power!After
<1>. HIDE DEF Place
<1>. QED
  BY <1>3, <1>4 DEF Power!Stages

LEMMA PowerInit == Power!Init => WInv
BY DEF Power!Init, WInv, Railed, Paged, Handled, Unowned, Owning, Rolling, Ended, Powered

\* Stages that leave the platform alone, before and after the pages are there.
Plains == {"flush", "identify", "ring", "clock", "pfifo", "engine", "ce", "backend"}
Publishers == {"bar1", "userd", "acr", "fecs", "golden", "host", "graphics", "verify"}

LEMMA PlainKept ==
  ASSUME WInv, NEW s \in Plains, Power!Plain(s)
  PROVE  WInv'
<1>1. /\ at = s /\ at' \in {Power!After(s), "drop"}
      /\ UNCHANGED <<before, clamp, reset, rail, dma, inflight, irq, isr>>
  BY DEF Power!Plain, Power!Done, Power!Failed, Power!platform
<1>2. at' \in {"drop", "identify", "ring", "clock", "allocate", "bar1", "acr", "host", "registered"}
      /\ (at \in Unowned /\ at' # "drop" => at' \in Unowned)
      /\ (at \in Owning => at' \in Owning \cup {"drop"})
      /\ (at \in {"backend"} => at' \in {"registered", "drop"})
  BY <1>1, Order DEF Plains, Unowned, Owning
<1>3. Railed'
  BY <1>1, <1>2 DEF WInv, Railed, Plains, Rolling, Ended
<1>4. Paged'
  BY <1>1, <1>2 DEF WInv, Paged, Plains, Rolling, Ended, Unowned, Owning
<1>5. Handled'
  BY <1>1, <1>2 DEF WInv, Handled, Plains, Powered
<1>. QED
  BY <1>1, <1>3, <1>4, <1>5 DEF WInv

LEMMA PublishingKept ==
  ASSUME WInv, NEW s \in Publishers, Power!Publishing(s)
  PROVE  WInv'
<1>1. /\ at = s /\ at' \in {Power!After(s), "drop"}
      /\ UNCHANGED <<before, clamp, reset, rail, dma, irq, isr>>
  BY DEF Power!Publishing, Power!Done, Power!Failed, Power!platform
<1>2. at' \in {"drop", "userd", "engine", "fecs", "golden", "ce", "graphics", "verify", "irq"}
  BY <1>1, Order DEF Publishers
<1>3. Railed'
  BY <1>1, <1>2 DEF WInv, Railed, Publishers, Rolling, Ended
<1>4. Paged'
  BY <1>1, <1>2 DEF WInv, Paged, Publishers, Rolling, Ended, Unowned, Owning
<1>5. Handled'
  BY <1>1, <1>2 DEF WInv, Handled, Publishers, Powered
<1>. QED
  BY <1>1, <1>3, <1>4, <1>5 DEF WInv

\* The stages that touch the platform, and those around them.
LEMMA BringUpKept ==
  ASSUME WInv, \/ Power!Acquire \/ Power!Isolate \/ Power!RailEnable \/ Power!Activate
               \/ Power!Allocate \/ Power!EnableIrq
  PROVE  WInv' /\ (rail' # rail => clamp /\ reset)
<1>. USE DEF WInv, Railed, Paged, Handled, Unowned, Owning, Rolling, Ended, Powered, Power!Done,
             Power!Failed, Power!platform
<1>1. CASE Power!Acquire
  BY <1>1 DEF Power!Acquire
<1>2. CASE Power!Isolate
  BY <1>2, Order DEF Power!Isolate, Power!isolate
<1>3. CASE Power!RailEnable
  BY <1>3, Order DEF Power!RailEnable
<1>4. CASE Power!Activate
  BY <1>4, Order DEF Power!Activate
<1>5. CASE Power!Allocate
  BY <1>5, Order DEF Power!Allocate
<1>6. CASE Power!EnableIrq
  BY <1>6, Order DEF Power!EnableIrq
<1>. QED
  BY <1>1, <1>2, <1>3, <1>4, <1>5, <1>6

\* The drop of Power, the loss of a registered device, and the handler.
LEMMA RollbackKept ==
  ASSUME WInv, \/ Power!Rollback \/ Power!Retry \/ Power!FaultIrq \/ Power!FaultIsolate
               \/ Power!IsrEnter \/ Power!IsrLeave \/ UNCHANGED Power!vars
  PROVE  WInv' /\ (rail' # rail => clamp /\ reset)
<1>. USE DEF WInv, Railed, Paged, Handled, Unowned, Owning, Rolling, Ended, Powered,
             Power!platform, Power!disable
<1>1. CASE Power!DropIrq
  BY <1>1 DEF Power!DropIrq
<1>2. CASE Power!DropIsolate
  <2>1. /\ at = "drop isolate" /\ at' = (IF clamp' /\ reset' THEN "drop flush" ELSE "stuck")
        /\ clamp' \in {TRUE, clamp} /\ reset' \in {TRUE, reset}
        /\ UNCHANGED <<before, rail, inflight, irq, isr>>
        /\ dma' = IF at' = "stuck" /\ dma = "owned" THEN "forgotten" ELSE dma
    BY <1>2 DEF Power!DropIsolate, Power!isolate
  <2>2. clamp /\ reset => clamp' /\ reset'
    BY <2>1, Zenon
  <2>3. CASE clamp' /\ reset'
    BY <2>1, <2>3
  <2>4. CASE ~(clamp' /\ reset')
    <3>1. at' = "stuck" /\ ~(clamp /\ reset)
      BY <2>1, <2>2, <2>4
    <3>. QED
      BY <2>1, <3>1
  <2>. QED
    BY <2>3, <2>4
<1>3. CASE Power!DropFlush
  <2>1. CASE dma = "none"
    <3>1. /\ at = "drop flush" /\ at' = "drop rail"
          /\ UNCHANGED <<before, clamp, reset, rail, dma, inflight, irq, isr>>
      BY <1>3, <2>1 DEF Power!DropFlush
    <3>2. ~inflight
      BY <2>1
    <3>3. ~inflight'
      BY <3>1, <3>2, Zenon
    <3>. QED
      BY <2>1, <3>1, <3>3
  <2>2. CASE dma = "owned"
    <3>1. /\ at = "drop flush" /\ UNCHANGED <<before, clamp, reset, rail, irq, isr>>
          /\ \/ inflight' = FALSE /\ dma' = "freed" /\ at' = "drop rail"
             \/ dma' = "forgotten" /\ at' = "isolated"
      BY <1>3, <2>2 DEF Power!DropFlush
    <3>2. CASE inflight' = FALSE /\ dma' = "freed" /\ at' = "drop rail"
      <4>1. ~inflight'
        BY <3>2
      <4>. QED
        BY <3>1, <3>2, <4>1
    <3>3. CASE dma' = "forgotten" /\ at' = "isolated"
      BY <3>1, <3>3
    <3>. QED
      BY <3>1, <3>2, <3>3
  <2>. QED
    BY <1>3, <2>1, <2>2 DEF Power!DropFlush
<1>4. CASE Power!DropRail
  BY <1>4 DEF Power!DropRail
<1>5. CASE Power!DropPlatform
  BY <1>5 DEF Power!DropPlatform
<1>6. CASE Power!Retry
  BY <1>6 DEF Power!Retry
<1>7. CASE Power!FaultIrq
  BY <1>7 DEF Power!FaultIrq
<1>8. CASE Power!FaultIsolate
  BY <1>8 DEF Power!FaultIsolate, Power!isolate
<1>9. CASE Power!IsrEnter
  BY <1>9 DEF Power!IsrEnter
<1>10. CASE Power!IsrLeave
  BY <1>10 DEF Power!IsrLeave
<1>11. CASE UNCHANGED Power!vars
  BY <1>11 DEF Power!vars
<1>. QED
  BY <1>1, <1>2, <1>3, <1>4, <1>5, <1>6, <1>7, <1>8, <1>9, <1>10, <1>11 DEF Power!Rollback

LEMMA PowerKept == WInv /\ [Power!Next]_(Power!vars) => WInv' /\ (rail' # rail => clamp /\ reset)
<1>. SUFFICES ASSUME WInv, [Power!Next]_(Power!vars)
              PROVE  WInv' /\ (rail' # rail => clamp /\ reset)
  OBVIOUS
<1>1. CASE \E s \in Plains : Power!Plain(s)
  <2>1. UNCHANGED rail
    BY <1>1 DEF Power!Plain, Power!platform
  <2>. QED
    BY <1>1, <2>1, PlainKept
<1>2. CASE \E s \in Publishers : Power!Publishing(s)
  <2>1. UNCHANGED rail
    BY <1>2 DEF Power!Publishing, Power!platform
  <2>. QED
    BY <1>2, <2>1, PublishingKept
<1>3. CASE Power!Probe
  BY <1>1, <1>2, <1>3, BringUpKept
     DEF Power!Probe, Plains, Publishers, Power!FlushMc, Power!Identify, Power!HardwareInit,
         Power!ClockInit, Power!ResetFifo, Power!GmmuInit, Power!FifoHardware,
         Power!GrRegisters, Power!BootAcr, Power!BootFecs, Power!GoldenContext,
         Power!CopyEngines, Power!ProveHost, Power!BindGraphics, Power!VerifyGraphics,
         Power!Register
<1>4. CASE ~Power!Probe
  BY <1>4, BringUpKept, RollbackKept DEF Power!Next
<1>. QED
  BY <1>3, <1>4

\* What the run says of the power sequence.
LEMMA SafePower ==
  WInv => /\ Power!ReleasedOnKnownRail
          /\ Power!PagesOutliveDma
          /\ Power!HandlerFindsPower
          /\ Power!RollbackIsExact
BY DEF WInv, Railed, Paged, Handled, Ended, Power!ReleasedOnKnownRail, Power!PagesOutliveDma,
   Power!HandlerFindsPower, Power!RollbackIsExact

----------------------------------------------------------------------------
(* Requests. *)

Workers == [at : {"scan", "asleep", "execute", "record", "settle", "count"},
            who : Queue!Request \cup {"none"}, outcome : {"none", "ok", "refused", "lost"}]
Lives == {"new", "waiting", "queued", "executing", "settled", "rejected", "returned"}
Told == {"none", "ok", "refused", "lost"}

\* The shape of the state.
Shaped ==
  /\ queue \in Seq(Queue!Request) /\ outstanding \in Nat /\ reserved \in BOOLEAN
  /\ req \in [Queue!Request -> Lives] /\ result \in [Queue!Request -> Told]
  /\ cpu \in [CpuTasks -> {"idle", "drain", "hold", "done"}] /\ worker \in Workers
  /\ pinned \subseteq Queue!Request /\ IsFiniteSet(pinned)

\* The queue holds each admitted request once.
Waiting ==
  /\ \A i \in 1..Len(queue) : req[queue[i]] = "queued"
  /\ \A i, j \in 1..Len(queue) : queue[i] = queue[j] => i = j
  /\ \A r \in Queue!Request : req[r] = "queued" => \E i \in 1..Len(queue) : queue[i] = r

\* One request executes, the worker's, from the moment it leaves the queue until
\* its observer is told.
Busy == {"execute", "record", "settle"}
Executing ==
  /\ worker.at \in Busy => worker.who \in Queue!Request /\ req[worker.who] = "executing"
  /\ \A r \in Queue!Request : req[r] = "executing" => worker.at \in Busy /\ worker.who = r
  /\ worker.at \in {"scan", "asleep"} => worker.who = "none"
  /\ worker.at \in Busy /\ worker.outcome = "ok" => worker.who \in ran

\* A request is told about once, and only then.
Answered ==
  \A r \in Queue!Request :
    /\ result[r] # "none" => req[r] \in {"settled", "returned"}
    /\ result[r] = "ok" => r \in ran

\* Units of capacity are pinned requests, or about to be given back.
Counted ==
  /\ Queue!PinsFollowTheHardware
  /\ outstanding = Cardinality(pinned) + (IF worker.at = "count" THEN 1 ELSE 0)

\* Whoever has the reservation is alone; it was granted on an idle device, on
\* which nothing is admitted.
Reserving == {"drain", "hold"}
Granting ==
  /\ \A c, d \in CpuTasks : cpu[c] \in Reserving /\ cpu[d] \in Reserving => c = d
  /\ \A c \in CpuTasks : cpu[c] \in Reserving => reserved
  /\ \A c \in CpuTasks : cpu[c] = "hold" => outstanding = 0

\* The invariant of the request queue.
QInv == Shaped /\ Waiting /\ Executing /\ Answered /\ Counted /\ Granting

\* Counting is the same in the module of the requests.
LEMMA Counting == \A S : Queue!Cardinality(S) = Cardinality(S)
BY DEF Queue!Cardinality, Cardinality

LEMMA QueueInit == Queue!Init => QInv
<1>. SUFFICES ASSUME Queue!Init PROVE QInv
  OBVIOUS
<1>. USE DEF Queue!Init, Queue!Nobody
<1>1. Shaped
  <2>1. << >> \in Seq(Queue!Request) /\ IsFiniteSet({})
    BY FS_EmptySet
  <2>2. [at |-> "scan", who |-> "none", outcome |-> "none"] \in Workers
    BY DEF Workers
  <2>. QED
    BY <2>1, <2>2 DEF Shaped, Lives, Told
<1>2. Waiting /\ Executing /\ Answered /\ Granting
  BY DEF Waiting, Executing, Answered, Granting, Busy, Reserving
<1>3. Counted
  BY FS_EmptySet DEF Counted, Queue!PinsFollowTheHardware
<1>. QED
  BY <1>1, <1>2, <1>3 DEF QInv

\* A request that was not admitted yet has nothing pinned and is in no queue.
LEMMA Fresh ==
  ASSUME QInv, NEW r \in Queue!Request, req[r] \in {"new", "waiting"}
  PROVE  r \notin pinned /\ result[r] = "none" /\ \A i \in 1..Len(queue) : queue[i] # r
<1>1. result[r] = "none"
  BY DEF QInv, Answered
<1>2. r \notin pinned
  BY <1>1 DEF QInv, Counted, Queue!PinsFollowTheHardware
<1>. QED
  BY <1>1, <1>2 DEF QInv, Waiting

LEMMA AdmitKept ==
  ASSUME QInv, NEW r \in Queue!Request, req[r] \in {"new", "waiting"}, ~reserved,
         Queue!Admit(r), UNCHANGED <<reserved, failure, ran, result, cpu, worker, lost>>
  PROVE  QInv'
<1>1. /\ queue' = Append(queue, r) /\ outstanding' = outstanding + 1
      /\ req' = [req EXCEPT ![r] = "queued"] /\ pinned' = pinned \cup {r}
      /\ UNCHANGED <<reserved, ran, result, cpu, worker>>
  BY DEF Queue!Admit
<1>2. r \notin pinned /\ result[r] = "none" /\ \A i \in 1..Len(queue) : queue[i] # r
  BY Fresh
<1>3. /\ IsFiniteSet(pinned \cup {r})
      /\ Cardinality(pinned \cup {r}) = Cardinality(pinned) + 1
  BY <1>2, FS_AddElement DEF QInv, Shaped
<1>4. /\ \A q \in Queue!Request : req'[q] = (IF q = r THEN "queued" ELSE req[q])
      /\ req' \in [Queue!Request -> Lives]
  BY <1>1 DEF QInv, Shaped, Lives
<1>5. /\ queue' \in Seq(Queue!Request) /\ Len(queue') = Len(queue) + 1
      /\ \A i \in 1..Len(queue) : queue'[i] = queue[i]
      /\ queue'[Len(queue) + 1] = r
  BY <1>1 DEF QInv, Shaped
<1>6. Shaped'
  <2>1. outstanding' \in Nat
    BY <1>1 DEF QInv, Shaped
  <2>2. pinned' \subseteq Queue!Request
    BY <1>1 DEF QInv, Shaped
  <2>. QED
    BY <1>1, <1>3, <1>4, <1>5, <2>1, <2>2 DEF QInv, Shaped
<1>7. Waiting'
  <2>. DEFINE n == Len(queue) + 1
  <2>1. n \in Nat /\ n = Len(queue') /\ 1..n = 1..Len(queue) \cup {n} /\ n \notin 1..Len(queue)
    BY <1>5 DEF QInv, Shaped
  <2>2. \A i \in 1..n : req'[queue'[i]] = "queued"
    <3>1. \A i \in 1..Len(queue) : queue[i] \in Queue!Request /\ req[queue[i]] = "queued"
      BY DEF QInv, Shaped, Waiting
    <3>. QED
      BY <1>4, <1>5, <2>1, <3>1
  <2>3. \A i, j \in 1..n : queue'[i] = queue'[j] => i = j
    BY <1>2, <1>5, <2>1 DEF QInv, Waiting
  <2>4. \A q \in Queue!Request : req'[q] = "queued" => \E i \in 1..n : queue'[i] = q
    BY <1>4, <1>5, <2>1 DEF QInv, Waiting
  <2>. QED
    BY <2>1, <2>2, <2>3, <2>4 DEF Waiting
<1>8. Executing'
  BY <1>1, <1>4 DEF QInv, Shaped, Executing, Busy
<1>9. Answered'
  BY <1>1, <1>2, <1>4 DEF QInv, Answered
<1>10. Counted'
  <2>1. \A q \in Queue!Request :
          q \in pinned' <=> req'[q] \in {"queued", "executing"} \/ result'[q] = "lost"
    BY <1>1, <1>2, <1>4 DEF QInv, Counted, Queue!PinsFollowTheHardware
  <2>2. pinned' \subseteq Queue!Request
    BY <1>1 DEF QInv, Shaped
  <2>3. Queue!PinsFollowTheHardware'
    BY <2>1, <2>2 DEF Queue!PinsFollowTheHardware
  <2>4. outstanding' = Cardinality(pinned') + (IF worker'.at = "count" THEN 1 ELSE 0)
    BY <1>1, <1>3, FS_CardinalityType DEF QInv, Shaped, Counted
  <2>. QED
    BY <2>3, <2>4 DEF Counted
<1>11. Granting'
  BY <1>1 DEF QInv, Granting, Reserving
<1>. QED
  BY <1>6, <1>7, <1>8, <1>9, <1>10, <1>11 DEF QInv

\* A request that waits, is refused or returns has nothing admitted.
LEMMA CallerKept ==
  ASSUME QInv, NEW r \in Queue!Request, NEW s \in {"waiting", "rejected", "returned"},
         \/ req[r] \in {"new", "waiting"} /\ s \in {"waiting", "rejected"}
         \/ req[r] = "settled" /\ s = "returned",
         req' = [req EXCEPT ![r] = s],
         UNCHANGED <<queue, outstanding, reserved, pinned, ran, result, cpu, worker>>
  PROVE  QInv'
<1>1. /\ \A q \in Queue!Request : req'[q] = (IF q = r THEN s ELSE req[q])
      /\ req' \in [Queue!Request -> Lives]
  BY DEF QInv, Shaped, Lives
<1>2. \A i \in 1..Len(queue) : queue[i] \in Queue!Request
  BY DEF QInv, Shaped
<1>3. Shaped'
  BY <1>1 DEF QInv, Shaped
<1>4. Waiting'
  BY <1>1, <1>2 DEF QInv, Waiting
<1>5. Executing'
  BY <1>1 DEF QInv, Shaped, Executing, Busy
<1>6. Answered'
  BY <1>1, Fresh DEF QInv, Answered
<1>7. Counted'
  BY <1>1, Fresh DEF QInv, Counted, Queue!PinsFollowTheHardware
<1>8. Granting'
  BY DEF QInv, Granting, Reserving
<1>. QED
  BY <1>3, <1>4, <1>5, <1>6, <1>7, <1>8 DEF QInv

\* CPU access.
LEMMA AccessKept ==
  ASSUME QInv, NEW c \in CpuTasks,
         Queue!Reserve(c) \/ Queue!Granted(c) \/ Queue!Refused(c) \/ Queue!Release(c)
  PROVE  QInv'
<1>1. UNCHANGED <<queue, outstanding, req, pinned, ran, result, worker>>
  BY DEF Queue!Reserve, Queue!Granted, Queue!Refused, Queue!Release
<1>2. \E s \in {"drain", "hold", "done"} : cpu' = [cpu EXCEPT ![c] = s]
  BY DEF Queue!Reserve, Queue!Granted, Queue!Refused, Queue!Release
<1>3. Waiting' /\ Executing' /\ Answered' /\ Counted'
  BY <1>1 DEF QInv, Waiting, Executing, Answered, Counted, Queue!PinsFollowTheHardware
<1>4. reserved' \in BOOLEAN
  BY DEF QInv, Shaped, Queue!Reserve, Queue!Granted, Queue!Refused, Queue!Release
<1>5. Shaped'
  BY <1>1, <1>2, <1>4 DEF QInv, Shaped
<1>6. Granting'
  <2>. USE DEF QInv, Shaped, Granting, Reserving
  <2>1. CASE Queue!Reserve(c)
    BY <2>1 DEF Queue!Reserve
  <2>2. CASE Queue!Granted(c)
    BY <2>2 DEF Queue!Granted, Queue!Drained
  <2>3. CASE Queue!Refused(c)
    BY <2>3 DEF Queue!Refused
  <2>4. CASE Queue!Release(c)
    BY <2>4 DEF Queue!Release
  <2>. QED
    BY <2>1, <2>2, <2>3, <2>4
<1>. QED
  BY <1>3, <1>5, <1>6 DEF QInv

\* The worker takes the oldest request.
LEMMA PopKept == QInv /\ Queue!Pop => QInv'
<1>. SUFFICES ASSUME QInv, Queue!Pop PROVE QInv'
  OBVIOUS
<1>. DEFINE r == Head(queue)
<1>1. /\ worker.at = "scan" /\ queue # << >> /\ queue' = Tail(queue)
      /\ req' = [req EXCEPT ![r] = "executing"]
      /\ worker'.at = "execute" /\ worker'.who = r /\ worker'.outcome \in {"lost", "none"}
      /\ UNCHANGED <<outstanding, reserved, pinned, ran, result, cpu>>
  BY DEF Queue!Pop
<1>2. worker' \in [at : {"execute"}, who : {r}, outcome : {"lost", "none"}]
  BY DEF Queue!Pop
<1>3. /\ r = queue[1] /\ 1 \in 1..Len(queue) /\ r \in Queue!Request
      /\ queue' \in Seq(Queue!Request) /\ Len(queue') = Len(queue) - 1
      /\ \A i \in 1..Len(queue') : queue'[i] = queue[i + 1]
      /\ Len(queue) \in Nat
  BY <1>1 DEF QInv, Shaped
<1>. HIDE DEF r
<1>4. req[r] = "queued"
  BY <1>3 DEF QInv, Waiting
<1>5. /\ \A q \in Queue!Request : req'[q] = (IF q = r THEN "executing" ELSE req[q])
      /\ req' \in [Queue!Request -> Lives]
  BY <1>1, <1>3 DEF QInv, Shaped, Lives
<1>6. Shaped'
  <2>1. worker' \in Workers
    BY <1>2, <1>3 DEF Workers
  <2>. QED
    BY <1>1, <1>3, <1>5, <2>1 DEF QInv, Shaped
<1>7. Waiting'
  <2>1. \A i \in 1..Len(queue') :
          /\ i + 1 \in 1..Len(queue) /\ queue[i + 1] # r /\ queue[i + 1] \in Queue!Request
          /\ req[queue[i + 1]] = "queued"
    BY <1>3 DEF QInv, Shaped, Waiting
  <2>2. \A i \in 1..Len(queue') : req'[queue'[i]] = "queued"
    BY <1>3, <1>5, <2>1
  <2>3. \A i, j \in 1..Len(queue') : queue'[i] = queue'[j] => i = j
    BY <1>3, <2>1 DEF QInv, Waiting
  <2>4. ASSUME NEW q \in Queue!Request, req'[q] = "queued"
        PROVE  \E i \in 1..Len(queue') : queue'[i] = q
    <3>1. q # r /\ req[q] = "queued"
      BY <1>5, <2>4
    <3>2. PICK i \in 1..Len(queue) : queue[i] = q
      BY <3>1 DEF QInv, Waiting
    <3>3. i - 1 \in 1..Len(queue') /\ queue'[i - 1] = queue[(i - 1) + 1]
      BY <1>3, <3>1, <3>2
    <3>4. (i - 1) + 1 = i
      BY <3>2
    <3>. QED
      BY <3>2, <3>3, <3>4
  <2>. QED
    BY <2>2, <2>3, <2>4 DEF Waiting
<1>8. Executing'
  BY <1>1, <1>3, <1>5 DEF QInv, Executing, Busy
<1>9. Answered'
  BY <1>1, <1>4, <1>5 DEF QInv, Answered
<1>10. Counted'
  <2>1. Queue!PinsFollowTheHardware'
    BY <1>1, <1>4, <1>5 DEF QInv, Counted, Queue!PinsFollowTheHardware
  <2>. QED
    BY <1>1, <2>1 DEF QInv, Counted
<1>11. Granting'
  BY <1>1 DEF QInv, Granting, Reserving
<1>. QED
  BY <1>6, <1>7, <1>8, <1>9, <1>10, <1>11 DEF QInv

\* Steps of the worker in which no request changes its place.
LEMMA WorkerKept ==
  ASSUME QInv, \/ Queue!Sleep \/ Queue!Wake \/ Queue!Execute \/ Queue!Record \/ Queue!RateFault
               \/ UNCHANGED Queue!vars
  PROVE  QInv'
<1>1. UNCHANGED <<queue, outstanding, reserved, req, pinned, result, cpu>>
  BY DEF Queue!Sleep, Queue!Wake, Queue!Execute, Queue!Record, Queue!RateFault, Queue!vars
<1>2. Waiting' /\ Granting'
  BY <1>1 DEF QInv, Waiting, Granting, Reserving
<1>3. /\ worker' \in Workers /\ (worker'.at = "count" <=> worker.at = "count")
      /\ worker'.at \in Busy <=> worker.at \in Busy
      /\ worker.at \in Busy => worker'.who = worker.who
      /\ worker'.at \in {"scan", "asleep"} => worker'.who = "none"
      /\ ran \subseteq ran'
      /\ worker'.at \in Busy /\ worker'.outcome = "ok" => worker'.who \in ran'
  <2>. USE DEF QInv, Shaped, Workers, Busy, Executing
  <2>1. CASE Queue!Sleep
    BY <2>1 DEF Queue!Sleep
  <2>2. CASE Queue!Wake
    BY <2>2 DEF Queue!Wake, Queue!Nobody
  <2>3. CASE Queue!Execute
    BY <2>3 DEF Queue!Execute
  <2>4. CASE Queue!Record
    BY <2>4 DEF Queue!Record
  <2>5. CASE Queue!RateFault \/ UNCHANGED Queue!vars
    BY <2>5 DEF Queue!RateFault, Queue!vars
  <2>. QED
    BY <2>1, <2>2, <2>3, <2>4, <2>5
<1>4. Shaped'
  BY <1>1, <1>3 DEF QInv, Shaped
<1>5. Executing'
  BY <1>1, <1>3 DEF QInv, Executing
<1>6. Answered'
  BY <1>1, <1>3 DEF QInv, Answered
<1>7. Counted'
  BY <1>1, <1>3 DEF QInv, Counted, Queue!PinsFollowTheHardware
<1>. QED
  BY <1>2, <1>4, <1>5, <1>6, <1>7 DEF QInv

\* The observer is told, and the pins go with the request unless the device is lost.
LEMMA SettleKept == QInv /\ Queue!Settle => QInv'
<1>. SUFFICES ASSUME QInv, Queue!Settle PROVE QInv'
  OBVIOUS
<1>. DEFINE r == worker.who  o == worker.outcome
<1>1. /\ worker.at = "settle" /\ r \in Queue!Request /\ req[r] = "executing" /\ o \in Told
      /\ o = "ok" => r \in ran
  BY DEF Queue!Settle, QInv, Shaped, Executing, Busy, Workers, Told
<1>2. /\ req' = [req EXCEPT ![r] = "settled"] /\ result' = [result EXCEPT ![r] = o]
      /\ pinned' = (IF o = "lost" THEN pinned ELSE pinned \ {r})
      /\ worker' = (IF o = "lost" THEN Queue!Nobody ELSE [worker EXCEPT !.at = "count"])
      /\ UNCHANGED <<queue, outstanding, reserved, ran, cpu>>
  BY DEF Queue!Settle, Queue!Unpin
<1>3. /\ worker' \in Workers /\ worker'.at = (IF o = "lost" THEN "scan" ELSE "count")
      /\ o = "lost" => worker'.who = "none"
  BY <1>1, <1>2 DEF QInv, Shaped, Workers, Queue!Nobody
<1>. HIDE DEF r, o
<1>4. /\ \A q \in Queue!Request : /\ req'[q] = (IF q = r THEN "settled" ELSE req[q])
                                  /\ result'[q] = (IF q = r THEN o ELSE result[q])
      /\ req' \in [Queue!Request -> Lives] /\ result' \in [Queue!Request -> Told]
  BY <1>1, <1>2 DEF QInv, Shaped, Lives
<1>5. r \in pinned
  BY <1>1 DEF QInv, Counted, Queue!PinsFollowTheHardware
<1>6. /\ IsFiniteSet(pinned \ {r}) /\ Cardinality(pinned \ {r}) = Cardinality(pinned) - 1
      /\ Cardinality(pinned) \in Nat
  BY <1>5, FS_RemoveElement, FS_CardinalityType DEF QInv, Shaped
<1>7. Shaped'
  <2>1. IsFiniteSet(pinned') /\ pinned' \subseteq Queue!Request
    BY <1>2, <1>6 DEF QInv, Shaped
  <2>. QED
    BY <1>2, <1>3, <1>4, <2>1 DEF QInv, Shaped
<1>8. Waiting'
  <2>1. \A i \in 1..Len(queue) : queue[i] \in Queue!Request
    BY DEF QInv, Shaped
  <2>. QED
    BY <1>1, <1>2, <1>4, <2>1 DEF QInv, Waiting
<1>9. Executing'
  BY <1>1, <1>2, <1>3, <1>4 DEF QInv, Executing, Busy, r
<1>10. Answered'
  BY <1>1, <1>2, <1>4 DEF QInv, Answered
<1>11. Counted'
  <2>1. \A q \in Queue!Request :
          q \in pinned' <=> req'[q] \in {"queued", "executing"} \/ result'[q] = "lost"
    <3>1. result[r] = "none"
      BY <1>1 DEF QInv, Answered
    <3>. QED
      BY <1>1, <1>2, <1>4, <3>1 DEF QInv, Counted, Queue!PinsFollowTheHardware
  <2>2. Queue!PinsFollowTheHardware'
    BY <1>7, <2>1 DEF Queue!PinsFollowTheHardware, Shaped
  <2>3. outstanding' = Cardinality(pinned') + (IF worker'.at = "count" THEN 1 ELSE 0)
    BY <1>1, <1>2, <1>3, <1>6 DEF QInv, Counted
  <2>. QED
    BY <2>2, <2>3 DEF Counted
<1>12. Granting'
  BY <1>2 DEF QInv, Granting, Reserving
<1>. QED
  BY <1>7, <1>8, <1>9, <1>10, <1>11, <1>12 DEF QInv

\* The capacity is given back.
LEMMA CountKept == QInv /\ Queue!Count => QInv'
<1>. SUFFICES ASSUME QInv, Queue!Count PROVE QInv'
  OBVIOUS
<1>1. /\ worker.at = "count" /\ outstanding' = outstanding - 1 /\ worker' = Queue!Nobody
      /\ UNCHANGED <<queue, reserved, req, pinned, ran, result, cpu>>
  BY DEF Queue!Count
<1>2. worker' \in Workers /\ worker'.at = "scan" /\ worker'.who = "none"
  BY <1>1 DEF Queue!Nobody, Workers
<1>3. outstanding = Cardinality(pinned) + 1 /\ Cardinality(pinned) \in Nat
  BY <1>1, FS_CardinalityType DEF QInv, Shaped, Counted
<1>4. Shaped'
  BY <1>1, <1>2, <1>3 DEF QInv, Shaped
<1>5. Waiting' /\ Answered'
  BY <1>1 DEF QInv, Waiting, Answered
<1>6. Executing'
  BY <1>1, <1>2 DEF QInv, Executing, Busy
<1>7. Counted'
  BY <1>1, <1>2, <1>3 DEF QInv, Counted, Queue!PinsFollowTheHardware
<1>8. Granting'
  BY <1>1, <1>3 DEF QInv, Granting, Reserving
<1>. QED
  BY <1>4, <1>5, <1>6, <1>7, <1>8 DEF QInv

LEMMA QueueKept == QInv /\ [Queue!Next]_(Queue!vars) => QInv'
<1>. SUFFICES ASSUME QInv, [Queue!Next]_(Queue!vars) PROVE QInv'
  OBVIOUS
<1>1. ASSUME NEW r \in Queue!Request, Queue!Enqueue(r) PROVE QInv'
  <2>1. CASE ~failure /\ Queue!Open /\ Queue!Admit(r)
    BY <1>1, <2>1, AdmitKept DEF Queue!Enqueue, Queue!Open
  <2>2. CASE ~(~failure /\ Queue!Open /\ Queue!Admit(r))
    BY <1>1, <2>2, CallerKept DEF Queue!Enqueue
  <2>. QED
    BY <2>1, <2>2
<1>2. ASSUME NEW r \in Queue!Request, Queue!Submit(r) PROVE QInv'
  <2>1. CASE ~failure /\ Queue!Open /\ Queue!Admit(r)
    BY <1>2, <2>1, AdmitKept DEF Queue!Submit, Queue!Open
  <2>2. CASE ~(~failure /\ Queue!Open /\ Queue!Admit(r))
    BY <1>2, <2>2, CallerKept DEF Queue!Submit
  <2>. QED
    BY <2>1, <2>2
<1>3. ASSUME NEW r \in Queue!Request, Queue!SubmitReturns(r) PROVE QInv'
  BY <1>3, CallerKept DEF Queue!SubmitReturns
<1>. QED
  BY <1>1, <1>2, <1>3, AccessKept, PopKept, WorkerKept, SettleKept, CountKept
     DEF Queue!Next, Queue!Worker

\* What the run says of the request queue.
LEMMA SafeQueue ==
  QInv => /\ Queue!CpuExclusive
          /\ Queue!PinsFollowTheHardware
          /\ Queue!OkMeansRan
<1>. SUFFICES ASSUME QInv
              PROVE  /\ Queue!CpuExclusive
                     /\ Queue!PinsFollowTheHardware
                     /\ Queue!OkMeansRan
  OBVIOUS
<1>1. ASSUME NEW c \in CpuTasks, cpu[c] = "hold"
      PROVE  /\ queue = << >> /\ worker.who = "none"
             /\ Cardinality({d \in CpuTasks : cpu[d] \in {"hold", "drain"}}) = 1
  <2>1. outstanding = 0 /\ Cardinality(pinned) \in Nat
    BY <1>1, FS_CardinalityType DEF QInv, Shaped, Granting
  <2>2. worker.at # "count" /\ Cardinality(pinned) = 0
    BY <2>1 DEF QInv, Counted
  <2>3. pinned = {}
    BY <2>2, FS_EmptySet DEF QInv, Shaped
  <2>4. \A r \in Queue!Request : req[r] \notin {"queued", "executing"}
    BY <2>3 DEF QInv, Counted, Queue!PinsFollowTheHardware
  <2>5. worker.at \in {"scan", "asleep"}
    BY <2>2, <2>4 DEF QInv, Shaped, Executing, Busy, Workers
  <2>6. worker.who = "none"
    BY <2>5 DEF QInv, Executing
  <2>7. queue = << >>
    <3>1. queue # << >> => 1 \in 1..Len(queue) /\ queue[1] \in Queue!Request
      BY DEF QInv, Shaped
    <3>. QED
      BY <2>4, <3>1 DEF QInv, Waiting
  <2>8. {d \in CpuTasks : cpu[d] \in {"hold", "drain"}} = {c}
    BY <1>1 DEF QInv, Granting, Reserving
  <2>9. Cardinality({c}) = 1
    BY FS_Singleton
  <2>. QED
    BY <2>6, <2>7, <2>8, <2>9
<1>2. Queue!CpuExclusive
  BY <1>1, Counting DEF Queue!CpuExclusive
<1>3. Queue!OkMeansRan
  BY Counting DEF QInv, Answered, Counted, Queue!OkMeansRan
<1>. QED
  BY <1>2, <1>3 DEF QInv, Counted

----------------------------------------------------------------------------
(* The FIFO. *)

\* GPFIFO_ENTRIES: at least two, so that a consumed entry differs from the next.
RingBounds == Entries \in Nat /\ Entries > 1

Reads == {"ref", "fence", "check", "sleep", "flush"}
Waits == {"poll"} \cup Reads
Witnesses == {"get", "ref", "fence", "notify"}
Following(n) == (n + 1) % Entries

\* The shape of the state.
Filled ==
  /\ f_cpu \in {"idle", "channel", "kick", "lost"} \cup Waits
  /\ seq \in Nat /\ push \in 0..seq /\ put \in 0..Entries - 1 /\ bound \in BOOLEAN
  /\ done \in Nat
  /\ userd \in [put : 0..Entries - 1, get : 0..Entries - 1]
  /\ ref \in 0..seq /\ fence \in 0..seq
  /\ snap \in [get : 0..Entries - 1, ref : Nat, fence : Nat]
  /\ observed \in 0..events /\ events \in Nat
  /\ hw \in [seq : 0..seq, pending : SUBSET Witnesses] /\ fault \in BOOLEAN

\* Before the channel is bound nothing was submitted but the first request.
Unbound ==
  ~bound => /\ f_cpu \in {"idle", "channel", "lost"} /\ hw = Fifo!Idle /\ done = 0 /\ events = 0
            /\ f_cpu = "idle" => seq = 0
            /\ f_cpu = "channel" => seq = 1

\* Between two submissions all that the GPU may have left is the notification of
\* the last one.
Quiet ==
  /\ f_cpu \in {"idle", "channel", "kick"} /\ bound =>
       /\ hw.pending \subseteq {"notify"}
       /\ userd.get = userd.put
       /\ put = (IF f_cpu = "kick" THEN Following(userd.put) ELSE userd.put)
       /\ seq = (IF f_cpu = "idle" THEN hw.seq ELSE hw.seq + 1)
       /\ ref = hw.seq /\ fence = hw.seq
  /\ f_cpu \in {"channel", "kick"} => push = seq
  /\ f_cpu = "kick" => done = 0

\* A submission under way: the GPU has not fetched it, or shows its witnesses.
Unfetched ==
  /\ seq = hw.seq + 1 /\ hw.pending \subseteq {"notify"}
  /\ Following(userd.get) = put /\ ref = hw.seq /\ fence = hw.seq
Fetched ==
  /\ hw.seq = seq
  /\ "get" \in hw.pending => Following(userd.get) = put
  /\ "get" \notin hw.pending => userd.get = put
  /\ "ref" \in hw.pending <=> ref # seq
  /\ "fence" \in hw.pending <=> fence # seq
  /\ "notify" \notin hw.pending => ref = seq /\ fence = seq
Flying ==
  f_cpu \in Waits => userd.put = put /\ push = seq /\ done = 0 /\ (Unfetched \/ Fetched)

\* What the submitter has read, it has read of this submission.
Seen ==
  /\ f_cpu \in Reads /\ snap.get = put => Fetched /\ "get" \notin hw.pending
  /\ f_cpu \in Reads \ {"ref"} /\ snap.ref = seq => ref = seq
  /\ f_cpu \in Reads \ {"ref", "fence"} /\ snap.fence = seq => fence = seq
  /\ f_cpu = "flush" => Fifo!Proved
  /\ f_cpu = "sleep" => ~Fifo!Proved

\* A submission is notified of at most once, after its last witness but GP_GET: a
\* submitter that has observed that many events reads nothing stale any more.
Notified ==
  f_cpu # "lost" =>
    /\ events <= hw.seq /\ ("notify" \in hw.pending => events < hw.seq)
    /\ f_cpu \in {"fence", "check", "sleep"} /\ observed = seq => snap.ref = seq
    /\ f_cpu \in {"check", "sleep"} /\ observed = seq => snap.fence = seq

\* The invariant of the FIFO.
FInv ==
  /\ Filled /\ Unbound /\ Quiet /\ Flying /\ Seen /\ Notified
  /\ Fifo!PushStable /\ Fifo!CompletedIsRetired

LEMMA FifoInit == RingBounds /\ Fifo!Init => FInv
<1>. SUFFICES ASSUME RingBounds, Fifo!Init PROVE FInv
  OBVIOUS
<1>. USE DEF Fifo!Init, Fifo!Idle, Fifo!Nothing, Waits, Reads
<1>1. 2 % Entries \in 0..Entries - 1
  BY DEF RingBounds
<1>2. Filled
  <2>1. userd \in [put : 0..Entries - 1, get : 0..Entries - 1]
    BY <1>1
  <2>2. snap \in [get : 0..Entries - 1, ref : Nat, fence : Nat] /\ put \in 0..Entries - 1
    BY DEF RingBounds
  <2>3. hw \in [seq : 0..seq, pending : SUBSET Witnesses]
    OBVIOUS
  <2>. QED
    BY <2>1, <2>2, <2>3 DEF Filled
<1>3. Unbound /\ Quiet /\ Flying /\ Seen /\ Notified
  BY DEF Unbound, Quiet, Flying, Seen, Notified
<1>4. Fifo!PushStable /\ Fifo!CompletedIsRetired
  BY DEF Fifo!PushStable, Fifo!CompletedIsRetired
<1>. QED
  BY <1>2, <1>3, <1>4 DEF FInv

\* The next entry of the ring is another one.
LEMMA RingFacts ==
  ASSUME RingBounds, NEW n \in 0..Entries - 1
  PROVE  Following(n) \in 0..Entries - 1 /\ Following(n) # n
<1>1. CASE n = Entries - 1
  BY <1>1 DEF RingBounds, Following
<1>2. CASE n < Entries - 1
  BY <1>2 DEF RingBounds, Following
<1>. QED
  BY <1>1, <1>2 DEF RingBounds

\* Steps of the submitter between two submissions.
LEMMA EncodeKept == RingBounds /\ FInv /\ Fifo!Encode => FInv'
<1>. SUFFICES ASSUME RingBounds, FInv, Fifo!Encode PROVE FInv'
  OBVIOUS
<1>1. /\ f_cpu = "idle"
      /\ UNCHANGED <<put, bound, done, snap, observed, polls, userd, ref, fence, events, hw, fault>>
      /\ \/ seq' = seq + 1 /\ push' = seq + 1 /\ f_cpu' = "channel"
         \/ f_cpu' = "lost" /\ UNCHANGED <<seq, push>>
  BY DEF Fifo!Encode, Fifo!Hardware
<1>2. /\ hw.pending \cap {"get", "ref", "fence"} = {}
  BY <1>1 DEF FInv, Quiet, Unbound, Fifo!Idle
<1>3. Filled'
  BY <1>1 DEF FInv, Filled, Waits, Reads
<1>4. Unbound' /\ Quiet' /\ Flying' /\ Seen'
  BY <1>1 DEF FInv, Filled, Unbound, Quiet, Flying, Seen, Waits, Reads, Fifo!Idle
<1>5. Notified'
  BY <1>1 DEF FInv, Notified
<1>6. Fifo!PushStable' /\ Fifo!CompletedIsRetired'
  BY <1>1, <1>2 DEF FInv, Fifo!PushStable, Fifo!CompletedIsRetired
<1>. QED
  BY <1>3, <1>4, <1>5, <1>6 DEF FInv

LEMMA BindKept == RingBounds /\ FInv /\ Fifo!Bind => FInv'
<1>. SUFFICES ASSUME RingBounds, FInv, Fifo!Bind PROVE FInv'
  OBVIOUS
<1>1. /\ f_cpu = "channel" /\ ~bound
      /\ userd' = [put |-> 0, get |-> 0] /\ ref' = 0 /\ fence' = 0
      /\ UNCHANGED <<seq, push, snap, observed, polls, events, hw, fault>>
      /\ \/ bound' = TRUE /\ put' = 0 /\ done' = 0 /\ f_cpu' = f_cpu
         \/ f_cpu' = "lost" /\ UNCHANGED <<bound, put, done>>
  BY DEF Fifo!Bind
<1>2. hw.pending = {} /\ hw.seq = 0 /\ done = 0 /\ events = 0 /\ seq = 1
  BY <1>1 DEF FInv, Unbound, Fifo!Idle
<1>3. Filled'
  <2>1. 0 \in 0..Entries - 1 /\ 0 \in 0..seq
    <3>1. seq \in Nat
      BY DEF FInv, Filled
    <3>. QED
      BY <3>1 DEF RingBounds
  <2>2. userd' \in [put : 0..Entries - 1, get : 0..Entries - 1]
    <3>1. [put |-> 0, get |-> 0] \in [put : 0..Entries - 1, get : 0..Entries - 1]
      BY <2>1
    <3>. QED
      BY <1>1, <3>1
  <2>3. put' \in 0..Entries - 1 /\ bound' \in BOOLEAN /\ done' \in Nat
    <3>1. put \in 0..Entries - 1 /\ bound \in BOOLEAN /\ done \in Nat
      BY DEF FInv, Filled
    <3>2. bound' \in BOOLEAN
      BY <1>1, <3>1, Zenon
    <3>3. put' \in {0, put} /\ done' \in {0, done}
      BY <1>1, Zenon
    <3>. QED
      BY <2>1, <3>1, <3>2, <3>3
  <2>. QED
    BY <1>1, <2>1, <2>2, <2>3 DEF FInv, Filled
<1>4. Unbound' /\ Quiet' /\ Flying' /\ Seen'
  BY <1>1, <1>2 DEF FInv, Filled, Unbound, Quiet, Flying, Seen, Waits, Reads, Fifo!Idle
<1>5. Notified'
  BY <1>1, <1>2 DEF FInv, Notified
<1>6. Fifo!PushStable' /\ Fifo!CompletedIsRetired'
  BY <1>1, <1>2 DEF FInv, Fifo!PushStable, Fifo!CompletedIsRetired
<1>. QED
  BY <1>3, <1>4, <1>5, <1>6 DEF FInv

LEMMA RingKept == RingBounds /\ FInv /\ Fifo!Ring => FInv'
<1>. SUFFICES ASSUME RingBounds, FInv, Fifo!Ring PROVE FInv'
  OBVIOUS
<1>1. /\ f_cpu = "channel" /\ bound
      /\ UNCHANGED <<seq, push, bound, snap, observed, polls, userd, ref, fence, events, hw, fault>>
  BY DEF Fifo!Ring, Fifo!Hardware
<1>2. /\ hw.pending \subseteq {"notify"} /\ userd.get = put /\ userd.put = put
      /\ seq = hw.seq + 1 /\ ref = hw.seq /\ fence = hw.seq /\ push = seq
  BY <1>1 DEF FInv, Quiet
<1>3. put' = Following(put) /\ done' = 0 /\ f_cpu' = "kick"
  BY <1>2 DEF Fifo!Ring, Following
<1>4. Filled'
  BY <1>1, <1>3, RingFacts DEF FInv, Filled, Waits, Reads
<1>5. Unbound' /\ Quiet' /\ Flying' /\ Seen'
  BY <1>1, <1>2, <1>3 DEF FInv, Unbound, Quiet, Flying, Seen, Waits, Reads
<1>6. Notified'
  BY <1>1, <1>3 DEF FInv, Notified
<1>7. Fifo!PushStable' /\ Fifo!CompletedIsRetired'
  BY <1>1, <1>2, <1>3 DEF Fifo!PushStable, Fifo!CompletedIsRetired
<1>. QED
  BY <1>4, <1>5, <1>6, <1>7 DEF FInv

LEMMA KickKept == RingBounds /\ FInv /\ Fifo!Kick => FInv'
<1>. SUFFICES ASSUME RingBounds, FInv, Fifo!Kick PROVE FInv'
  OBVIOUS
<1>1. /\ f_cpu = "kick" /\ observed' = events /\ snap' = Fifo!Nothing /\ f_cpu' = "poll"
      /\ userd' = [userd EXCEPT !.put = put]
      /\ UNCHANGED <<seq, push, put, bound, done, ref, fence, events, hw, fault>>
  BY DEF Fifo!Kick
<1>2. /\ bound /\ hw.pending \subseteq {"notify"} /\ put = Following(userd.get)
      /\ seq = hw.seq + 1 /\ ref = hw.seq /\ fence = hw.seq /\ push = seq /\ done = 0
  BY <1>1 DEF FInv, Quiet, Unbound
<1>3. /\ userd' \in [put : 0..Entries - 1, get : 0..Entries - 1]
      /\ userd'.put = put /\ userd'.get = userd.get
  BY <1>1 DEF FInv, Filled
<1>4. snap' \in [get : 0..Entries - 1, ref : Nat, fence : Nat]
  BY <1>1 DEF Fifo!Nothing, RingBounds
<1>5. Filled'
  BY <1>1, <1>3, <1>4 DEF FInv, Filled, Waits
<1>6. Unbound' /\ Quiet' /\ Flying' /\ Seen'
  BY <1>1, <1>2, <1>3 DEF FInv, Unbound, Quiet, Flying, Seen, Waits, Reads, Unfetched, Following
<1>7. Notified'
  BY <1>1 DEF FInv, Notified
<1>8. Fifo!PushStable' /\ Fifo!CompletedIsRetired'
  BY <1>1, <1>2 DEF Fifo!PushStable, Fifo!CompletedIsRetired
<1>. QED
  BY <1>5, <1>6, <1>7, <1>8 DEF FInv

\* A submission the submitter has observed all events of has shown everything but
\* perhaps GP_GET.
LEMMA Observed ==
  ASSUME FInv, f_cpu \in Waits
  PROVE  /\ bound /\ hw.seq <= seq
         /\ events = seq => ref = seq /\ fence = seq
         /\ observed <= events
<1>1. bound /\ f_cpu # "lost" /\ (Unfetched \/ Fetched) /\ observed <= events
  BY DEF FInv, Unbound, Flying, Waits, Reads, Filled
<1>2. hw.seq \in Nat /\ seq \in Nat /\ events \in Nat /\ hw.seq <= seq
  BY DEF FInv, Filled
<1>3. events = seq => hw.seq = seq /\ "notify" \notin hw.pending
  BY <1>1, <1>2 DEF FInv, Notified
<1>. QED
  BY <1>1, <1>2, <1>3 DEF Unfetched, Fetched

\* Steps of the submitter during the wait.
LEMMA WaitKept ==
  ASSUME RingBounds, FInv, Fifo!Poll \/ Fifo!Check \/ Fifo!Expired \/ Fifo!Waited \/ Fifo!Flush
  PROVE  FInv'
<1>1. /\ f_cpu \in Waits
      /\ UNCHANGED <<seq, push, put, bound, userd, ref, fence, events, hw, fault>>
      /\ f_cpu' \in {"idle", "lost"} \cup Waits
  BY DEF Fifo!Poll, Fifo!Check, Fifo!Expired, Fifo!Waited, Fifo!Flush, Fifo!Hardware, Waits, Reads
<1>2. /\ bound /\ hw.seq <= seq /\ (events = seq => ref = seq /\ fence = seq) /\ observed <= events
      /\ userd.put = put /\ push = seq /\ done = 0 /\ (Unfetched \/ Fetched)
  BY <1>1, Observed DEF FInv, Flying
<1>3. /\ seq \in Nat /\ put \in 0..Entries - 1 /\ userd.get \in 0..Entries - 1
      /\ ref \in Nat /\ fence \in Nat /\ observed \in Nat /\ events \in Nat
      /\ snap \in [get : 0..Entries - 1, ref : Nat, fence : Nat] /\ hw.pending \subseteq Witnesses
  BY DEF FInv, Filled
<1>4. Unfetched' <=> Unfetched
  BY <1>1 DEF Unfetched
<1>5. Fetched' <=> Fetched
  BY <1>1 DEF Fetched
<1>6. userd.get = put => Fetched /\ "get" \notin hw.pending
  BY <1>2, <1>3, RingFacts DEF Unfetched, Fetched
<1>7. Unbound' /\ Fifo!PushStable'
  BY <1>1, <1>2, <1>4, <1>5 DEF FInv, Unbound, Fifo!PushStable
<1>8. CASE Fifo!Poll
  <2>1. /\ UNCHANGED <<done, observed>>
        /\ \/ f_cpu = "poll" /\ snap' = [snap EXCEPT !.get = userd.get] /\ f_cpu' = "ref"
           \/ f_cpu = "ref" /\ snap' = [snap EXCEPT !.ref = ref] /\ f_cpu' = "fence"
           \/ f_cpu = "fence" /\ snap' = [snap EXCEPT !.fence = fence] /\ f_cpu' = "check"
    BY <1>8 DEF Fifo!Poll
  <2>2. /\ snap' \in [get : 0..Entries - 1, ref : Nat, fence : Nat]
        /\ f_cpu = "poll" => snap'.get = userd.get
        /\ f_cpu # "poll" => snap'.get = snap.get
        /\ f_cpu = "ref" => snap'.ref = ref
        /\ f_cpu # "ref" => snap'.ref = snap.ref
        /\ f_cpu = "fence" => snap'.fence = fence
        /\ f_cpu # "fence" => snap'.fence = snap.fence
    BY <1>3, <2>1
  <2>3. Filled'
    BY <1>1, <2>1, <2>2 DEF FInv, Filled
  <2>4. Quiet' /\ Flying'
    BY <1>1, <1>2, <1>4, <1>5, <2>1 DEF Quiet, Flying, Waits, Reads
  <2>5. Seen'
    BY <1>1, <1>5, <1>6, <2>1, <2>2 DEF FInv, Seen, Waits, Reads
  <2>6. Notified'
    <3>1. f_cpu # "lost" /\ events <= hw.seq /\ ("notify" \in hw.pending => events < hw.seq)
      BY <1>1 DEF FInv, Notified, Waits, Reads
    <3>2. observed = seq => ref = seq /\ fence = seq
      BY <1>2, <1>3, <3>1 DEF FInv, Filled
    <3>3. f_cpu = "fence" /\ observed = seq => snap.ref = seq
      BY DEF FInv, Notified
    <3>4. f_cpu' = "fence" /\ observed = seq => snap'.ref = seq
      BY <2>1, <2>2, <3>2
    <3>5. f_cpu' = "check" /\ observed = seq => snap'.ref = seq /\ snap'.fence = seq
      BY <2>1, <2>2, <3>2, <3>3
    <3>6. f_cpu' \in {"ref", "fence", "check"}
      BY <2>1
    <3>. QED
      BY <1>1, <2>1, <3>1, <3>4, <3>5, <3>6 DEF Notified
  <2>7. Fifo!CompletedIsRetired'
    BY <1>2, <2>1 DEF Fifo!CompletedIsRetired
  <2>. QED
    BY <1>7, <2>3, <2>4, <2>5, <2>6, <2>7 DEF FInv
<1>9. CASE Fifo!Check \/ Fifo!Expired \/ Fifo!Waited
  <2>1. /\ UNCHANGED <<done, snap>> /\ observed' \in {observed, events}
        /\ f_cpu' \in {"lost", "flush", "poll", "sleep"}
        /\ f_cpu' = "flush" => f_cpu = "check" /\ Fifo!Proved
        /\ f_cpu' = "sleep" => f_cpu = "check" /\ ~Fifo!Proved /\ observed' = observed
    BY <1>9 DEF Fifo!Check, Fifo!Expired, Fifo!Waited
  <2>2. Fifo!Proved' <=> Fifo!Proved
    BY <1>1, <2>1 DEF Fifo!Proved
  <2>3. Filled'
    BY <1>1, <1>2, <2>1 DEF FInv, Filled
  <2>4. Quiet' /\ Flying'
    BY <1>1, <1>2, <1>4, <1>5, <2>1 DEF Quiet, Flying
  <2>5. Seen'
    BY <1>1, <1>5, <2>1, <2>2 DEF FInv, Seen, Waits, Reads
  <2>6. Notified'
    <3>1. /\ f_cpu # "lost" /\ f_cpu' \notin {"fence", "check"}
          /\ f_cpu' = "sleep" => f_cpu = "check" /\ observed' = observed
      BY <1>1, <2>1 DEF Waits, Reads
    <3>2. events <= hw.seq /\ ("notify" \in hw.pending => events < hw.seq)
      BY <3>1 DEF FInv, Notified
    <3>3. f_cpu = "check" /\ observed = seq => snap.ref = seq /\ snap.fence = seq
      BY DEF FInv, Notified
    <3>. QED
      BY <1>1, <2>1, <3>1, <3>2, <3>3 DEF Notified
  <2>7. Fifo!CompletedIsRetired'
    BY <1>2, <2>1 DEF Fifo!CompletedIsRetired
  <2>. QED
    BY <1>7, <2>3, <2>4, <2>5, <2>6, <2>7 DEF FInv
<1>10. CASE Fifo!Flush
  <2>1. /\ f_cpu = "flush" /\ UNCHANGED <<snap, observed>>
        /\ \/ f_cpu' = "idle" /\ done' = seq
           \/ f_cpu' = "lost" /\ done' = done
    BY <1>10 DEF Fifo!Flush
  <2>2. /\ Fetched /\ "get" \notin hw.pending /\ ref = seq /\ fence = seq
    BY <2>1 DEF FInv, Seen, Reads, Fifo!Proved
  <2>3. hw.pending \subseteq {"notify"} /\ hw.seq = seq /\ userd.get = userd.put
    BY <1>2, <1>3, <2>2 DEF Fetched, Witnesses
  <2>4. Filled'
    BY <1>1, <2>1 DEF FInv, Filled
  <2>5. Quiet' /\ Flying' /\ Seen'
    BY <1>1, <1>2, <2>1, <2>2, <2>3 DEF Quiet, Flying, Seen, Waits, Reads
  <2>6. Notified'
    BY <1>1, <2>1 DEF FInv, Notified
  <2>7. Fifo!CompletedIsRetired'
    BY <1>1, <1>2, <2>1, <2>2, <2>3 DEF Fifo!CompletedIsRetired
  <2>. QED
    BY <1>7, <2>4, <2>5, <2>6, <2>7 DEF FInv
<1>. QED
  BY <1>8, <1>9, <1>10

\* The GPU fetches an entry that was published and not consumed.
LEMMA FetchKept == RingBounds /\ FInv /\ Fifo!Fetch => FInv'
<1>. SUFFICES ASSUME RingBounds, FInv, Fifo!Fetch PROVE FInv'
  OBVIOUS
<1>1. /\ bound /\ hw.pending = {} /\ userd.get # userd.put
      /\ hw' = [seq |-> push, pending |-> {"get", "ref", "fence", "notify"}]
      /\ UNCHANGED <<f_cpu, seq, push, put, bound, done, snap, observed, userd, ref, fence, events,
                     fault>>
  BY DEF Fifo!Fetch, Fifo!Cpu
<1>2. /\ hw'.seq = push /\ hw'.pending = Witnesses
      /\ hw' \in [seq : 0..seq, pending : SUBSET Witnesses]
  BY <1>1 DEF FInv, Filled, Witnesses
<1>3. f_cpu \in {"lost"} \cup Waits /\ done = 0
  BY <1>1 DEF FInv, Quiet, Filled, Fifo!CompletedIsRetired
<1>4. f_cpu \in Waits => Unfetched /\ userd.put = put /\ push = seq
  BY <1>1, <1>3 DEF FInv, Flying, Fetched
<1>5. Filled'
  BY <1>1, <1>2 DEF FInv, Filled
<1>6. Unbound' /\ Quiet'
  BY <1>1, <1>3 DEF Unbound, Quiet, Waits, Reads
<1>7. f_cpu \in Waits => Fetched' /\ hw.seq + 1 = seq
  BY <1>1, <1>2, <1>4 DEF FInv, Filled, Unfetched, Fetched, Witnesses
<1>8. Flying'
  BY <1>1, <1>3, <1>4, <1>7 DEF Flying
<1>9. Seen'
  <2>1. f_cpu \in Reads => snap.get # put
    BY <1>1, <1>4 DEF FInv, Seen, Fetched, Waits
  <2>. QED
    BY <1>1, <2>1 DEF FInv, Seen, Fifo!Proved
<1>10. Notified'
  <2>1. f_cpu \in Waits => events <= hw.seq /\ events < hw'.seq
    BY <1>1, <1>2, <1>4, <1>7 DEF FInv, Notified, Waits, Reads, Filled
  <2>. QED
    BY <1>1, <1>3, <2>1 DEF FInv, Notified, Waits, Reads, Filled
<1>11. Fifo!PushStable' /\ Fifo!CompletedIsRetired'
  BY <1>1, <1>2, <1>3 DEF Fifo!PushStable, Fifo!CompletedIsRetired
<1>. QED
  BY <1>5, <1>6, <1>8, <1>9, <1>10, <1>11 DEF FInv

\* The GPU shows a witness.
LEMMA WitnessKept == RingBounds /\ FInv /\ Fifo!Witness => FInv'
<1>. SUFFICES ASSUME RingBounds, FInv, Fifo!Witness PROVE FInv'
  OBVIOUS
<1>1. PICK w \in {"get", "ref", "fence"} :
        /\ w \in hw.pending /\ hw' = [hw EXCEPT !.pending = hw.pending \ {w}]
        /\ IF w = "get" THEN userd' = [userd EXCEPT !.get = Following(userd.get)] ELSE userd' = userd
        /\ ref' = (IF w = "ref" THEN hw.seq ELSE ref)
        /\ fence' = (IF w = "fence" THEN hw.seq ELSE fence)
        /\ UNCHANGED <<f_cpu, seq, push, put, bound, done, snap, observed, events, fault>>
  <2>1. UNCHANGED <<f_cpu, seq, push, put, bound, done, snap, observed, events, fault>>
    BY DEF Fifo!Witness, Fifo!Cpu
  <2>2. \/ /\ "get" \in hw.pending /\ Fifo!Shown("get") /\ UNCHANGED <<ref, fence>>
           /\ userd' = [userd EXCEPT !.get = Following(userd.get)]
        \/ "ref" \in hw.pending /\ Fifo!Shown("ref") /\ ref' = hw.seq /\ UNCHANGED <<userd, fence>>
        \/ "fence" \in hw.pending /\ Fifo!Shown("fence") /\ fence' = hw.seq /\ UNCHANGED <<userd, ref>>
    BY DEF Fifo!Witness, Following
  <2>. QED
    BY <2>1, <2>2 DEF Fifo!Shown
<1>2. /\ userd \in [put : 0..Entries - 1, get : 0..Entries - 1]
      /\ hw \in [seq : 0..seq, pending : SUBSET Witnesses] /\ seq \in Nat
      /\ ref \in 0..seq /\ fence \in 0..seq
  BY DEF FInv, Filled
<1>3. /\ userd' \in [put : 0..Entries - 1, get : 0..Entries - 1]
      /\ userd'.put = userd.put
      /\ userd'.get = (IF w = "get" THEN Following(userd.get) ELSE userd.get)
  BY <1>1, <1>2, RingFacts
<1>4. /\ hw'.seq = hw.seq /\ hw'.pending = hw.pending \ {w}
      /\ hw' \in [seq : 0..seq, pending : SUBSET Witnesses]
  BY <1>1, <1>2
<1>5. /\ bound /\ f_cpu \in {"lost"} \cup Waits /\ done = 0
  BY <1>1 DEF FInv, Unbound, Quiet, Filled, Fifo!Idle, Fifo!CompletedIsRetired
<1>6. f_cpu \in Waits => Fetched
  BY <1>1 DEF FInv, Flying, Unfetched
<1>7. Filled'
  BY <1>1, <1>2, <1>3, <1>4 DEF FInv, Filled
<1>8. Unbound' /\ Quiet'
  BY <1>1, <1>5 DEF Unbound, Quiet, Waits, Reads
<1>9. f_cpu \in Waits => Fetched'
  <2>. SUFFICES ASSUME f_cpu \in Waits PROVE Fetched'
    OBVIOUS
  <2>1. Fetched
    BY <1>6
  <2>2. ("notify" \in hw.pending /\ "notify" \in hw'.pending) \/ w = "get"
    BY <1>1, <1>4, <2>1 DEF Fetched
  <2>3. hw'.seq = seq'
    BY <1>1, <1>4, <2>1 DEF Fetched
  <2>4. /\ "get" \in hw'.pending => Following(userd'.get) = put'
        /\ "get" \notin hw'.pending => userd'.get = put'
    BY <1>1, <1>3, <1>4, <2>1 DEF Fetched
  <2>5. "ref" \in hw'.pending <=> ref' # seq'
    BY <1>1, <1>4, <2>1 DEF Fetched
  <2>6. "fence" \in hw'.pending <=> fence' # seq'
    BY <1>1, <1>4, <2>1 DEF Fetched
  <2>7. "notify" \notin hw'.pending => ref' = seq' /\ fence' = seq'
    BY <1>1, <1>4, <2>1 DEF Fetched
  <2>8. (Following(userd.get) = put)' <=> Following(userd'.get) = put'
    BY DEF Following
  <2>. QED
    BY <2>3, <2>4, <2>5, <2>6, <2>7, <2>8 DEF Fetched
<1>10. Flying'
  BY <1>1, <1>3, <1>5, <1>9 DEF FInv, Flying
<1>11. Seen'
  <2>1. f_cpu \in Reads => f_cpu \in Waits
    BY DEF Waits
  <2>2. "get" \notin hw.pending => "get" \notin hw'.pending
    BY <1>4
  <2>3. f_cpu \in Waits /\ ref = seq => ref' = seq
    BY <1>1, <1>6 DEF Fetched
  <2>4. f_cpu \in Waits /\ fence = seq => fence' = seq
    BY <1>1, <1>6 DEF Fetched
  <2>5. Fifo!Proved' <=> Fifo!Proved
    BY <1>1 DEF Fifo!Proved
  <2>. QED
    BY <1>1, <1>9, <2>1, <2>2, <2>3, <2>4, <2>5 DEF FInv, Seen
<1>12. Notified'
  BY <1>1, <1>4 DEF FInv, Notified
<1>13. Fifo!PushStable' /\ Fifo!CompletedIsRetired'
  BY <1>1, <1>4, <1>5 DEF FInv, Fifo!PushStable, Fifo!CompletedIsRetired
<1>. QED
  BY <1>7, <1>8, <1>10, <1>11, <1>12, <1>13 DEF FInv

\* The notification comes, or is lost; the device faults.
LEMMA NotifyKept ==
  ASSUME RingBounds, FInv, \/ Fifo!Notify \/ Fifo!Unnotified \/ Fifo!Fault \/ UNCHANGED Fifo!vars
  PROVE  FInv'
<1>1. /\ UNCHANGED <<f_cpu, seq, push, put, bound, done, snap, observed, userd, ref, fence>>
      /\ \/ /\ "notify" \in hw.pending /\ hw.pending \cap {"ref", "fence"} = {}
            /\ hw' = [hw EXCEPT !.pending = hw.pending \ {"notify"}]
            /\ events' \in {events, events + 1} /\ fault' = fault
         \/ hw' = hw /\ events' = events /\ fault' \in {fault, TRUE}
  BY DEF Fifo!Notify, Fifo!Unnotified, Fifo!Fault, Fifo!vars, Fifo!Cpu, Fifo!Shown
<1>2. hw \in [seq : 0..seq, pending : SUBSET Witnesses] /\ seq \in Nat /\ events \in Nat
  BY DEF FInv, Filled
<1>3. /\ hw'.seq = hw.seq
      /\ hw' \in [seq : 0..seq, pending : SUBSET Witnesses]
      /\ events' \in Nat /\ events <= events'
      /\ \A w \in Witnesses \ {"notify"} : w \in hw'.pending <=> w \in hw.pending
      /\ "notify" \in hw'.pending => "notify" \in hw.pending /\ events' = events
      /\ "notify" \notin hw.pending => events' = events
      /\ events' <= events + 1
  <2>1. CASE hw' = hw /\ events' = events
    BY <1>2, <2>1
  <2>2. CASE /\ "notify" \in hw.pending /\ events' \in {events, events + 1}
             /\ hw' = [hw EXCEPT !.pending = hw.pending \ {"notify"}]
    <3>1. /\ hw'.seq = hw.seq /\ hw'.pending = hw.pending \ {"notify"}
          /\ hw' \in [seq : 0..seq, pending : SUBSET Witnesses]
      BY <1>2, <2>2
    <3>2. events' \in Nat /\ events <= events' /\ events' <= events + 1
      BY <1>2, <2>2
    <3>. QED
      BY <2>2, <3>1, <3>2
  <2>. QED
    BY <1>1, <2>1, <2>2
<1>4. /\ \A w \in {"get", "ref", "fence"} : w \in hw'.pending <=> w \in hw.pending
      /\ hw.pending \subseteq {"notify"} => hw'.pending \subseteq {"notify"}
  BY <1>2, <1>3 DEF Witnesses
<1>5. Filled'
  <2>1. fault' \in BOOLEAN
    <3>1. fault \in BOOLEAN
      BY DEF FInv, Filled
    <3>. QED
      BY <1>1, <3>1, Zenon
  <2>2. observed \in 0..events'
    BY <1>2, <1>3 DEF FInv, Filled
  <2>. QED
    BY <1>1, <1>3, <2>1, <2>2 DEF FInv, Filled
<1>6. Unbound'
  <2>1. ~bound => hw = Fifo!Idle /\ hw.pending = {}
    BY DEF FInv, Unbound, Fifo!Idle
  <2>2. ~bound => hw' = hw /\ events' = events
    BY <1>1, <2>1
  <2>. QED
    BY <1>1, <2>2 DEF FInv, Unbound
<1>7. Quiet'
  <2>. HIDE DEF Following
  <2>. QED
    BY <1>1, <1>3, <1>4 DEF FInv, Quiet
<1>8. Unfetched => Unfetched'
  <2>1. Following(userd.get)' = Following(userd.get)
    BY <1>1 DEF Following
  <2>. QED
    BY <1>1, <1>3, <1>4, <2>1 DEF Unfetched
<1>9. Fetched => Fetched'
  <2>1. "notify" \notin hw'.pending => "notify" \notin hw.pending \/ hw.pending \cap {"ref", "fence"} = {}
    BY <1>1
  <2>. QED
    BY <1>1, <1>3, <1>4, <2>1 DEF Fetched, Following
<1>10. Flying'
  BY <1>1, <1>8, <1>9 DEF FInv, Flying
<1>11. Seen'
  BY <1>1, <1>4, <1>9 DEF FInv, Seen, Fifo!Proved
<1>12. Notified'
  <2>1. /\ f_cpu # "lost" => events' <= hw'.seq /\ ("notify" \in hw'.pending => events' < hw'.seq)
    BY <1>1, <1>2, <1>3 DEF FInv, Notified
  <2>. QED
    BY <1>1, <2>1 DEF FInv, Notified
<1>13. Fifo!PushStable' /\ Fifo!CompletedIsRetired'
  <2>1. (hw'.pending \cap {"get", "ref", "fence"}) # {} => (hw.pending \cap {"get", "ref", "fence"}) # {}
    BY <1>4
  <2>. QED
    BY <1>1, <1>3, <1>4, <2>1 DEF FInv, Fifo!PushStable, Fifo!CompletedIsRetired
<1>. QED
  BY <1>5, <1>6, <1>7, <1>10, <1>11, <1>12, <1>13 DEF FInv

LEMMA FifoKept == RingBounds /\ FInv /\ [Fifo!Next]_(Fifo!vars) => FInv'
BY EncodeKept, BindKept, RingKept, KickKept, WaitKept, FetchKept, WitnessKept, NotifyKept
   DEF Fifo!Next, Fifo!Submitter

\* What the run says of the FIFO.
LEMMA SafeFifo ==
  FInv => /\ Fifo!PushStable
          /\ Fifo!CompletedIsRetired
          /\ Fifo!NoSleepThroughCompletion
<1>. SUFFICES ASSUME FInv, f_cpu = "sleep", events = observed, hw.seq = seq
              PROVE  snap.get # put \/ events < seq
  BY DEF FInv, Fifo!NoSleepThroughCompletion
<1>1. events <= seq /\ seq \in Nat /\ events \in Nat
  BY DEF FInv, Notified, Filled
<1>2. observed = seq => snap.ref = seq /\ snap.fence = seq
  BY DEF FInv, Notified
<1>3. ~(snap.get = put /\ snap.ref = seq /\ snap.fence = seq)
  BY DEF FInv, Seen, Fifo!Proved
<1>. QED
  BY <1>1, <1>2, <1>3

----------------------------------------------------------------------------
(* The run. *)

\* A behaviour of the run, seen through the variables of one part, is one of that
\* component: the other parts leave them alone.
LEMMA PartsOfTheRun ==
  PipelineSpec => /\ Queue!Init /\ [][Queue!Next]_(Queue!vars)
                  /\ Power!Init /\ [][Power!Next]_(Power!vars)
                  /\ Fifo!Init /\ [][Fifo!Next]_(Fifo!vars)
<1>1. PipelineInit => Queue!Init /\ Power!Init /\ Fifo!Init
  BY DEF PipelineInit
<1>. USE DEF PipelineNext, all, QueueOnly, PowerOnly, FifoOnly, DispatchOnly, VideoOnly
<1>2. [PipelineNext]_all => [Queue!Next]_(Queue!vars)
  BY DEF requests, Queue!vars
<1>3. [PipelineNext]_all => [Power!Next]_(Power!vars)
  BY DEF power, Power!vars
<1>4. [PipelineNext]_all => [Fifo!Next]_(Fifo!vars)
  BY DEF fifo, Fifo!vars
<1>. QED
  BY <1>1, <1>2, <1>3, <1>4, PTL DEF PipelineSpec

\* However requests, reservations, losses and stages interleave: nothing is queued
\* or executing under a CPU guard, pins last as long as the hardware may use them
\* and Ok means that the request ran (asynchronous.rs); the rail moves only under
\* an isolated GPU, pages outlive DMA, a handler finds power and a rollback says
\* what it restored (runtime.rs); the pushbuffer is stable under the GPU, only
\* retired work completes and no completion is slept through (fifo.rs).
THEOREM PipelineIsSafe ==
  ASSUME RingBounds
  PROVE  PipelineSpec => PipelineSafe
<1>. DEFINE Moves == rail' # rail => clamp /\ reset
<1>1. Queue!Init => QInv
  BY QueueInit
<1>2. QInv /\ [Queue!Next]_(Queue!vars) => QInv'
  BY QueueKept
<1>3. Power!Init => WInv
  BY PowerInit
<1>4. WInv /\ [Power!Next]_(Power!vars) => WInv' /\ Moves
  BY PowerKept
<1>5. Fifo!Init => FInv
  BY FifoInit
<1>6. FInv /\ [Fifo!Next]_(Fifo!vars) => FInv'
  BY FifoKept
<1>7. QInv => (part = "queue" => /\ Queue!CpuExclusive
                                 /\ Queue!PinsFollowTheHardware
                                 /\ Queue!OkMeansRan)
  BY SafeQueue
<1>8. WInv => (part = "power" => /\ Power!ReleasedOnKnownRail
                                 /\ Power!PagesOutliveDma
                                 /\ Power!HandlerFindsPower
                                 /\ Power!RollbackIsExact)
  BY SafePower
<1>9. FInv => (part = "fifo" => /\ Fifo!PushStable
                                /\ Fifo!CompletedIsRetired
                                /\ Fifo!NoSleepThroughCompletion)
  BY SafeFifo
<1>10. PipelineSpec => [][Moves]_(Power!vars)
  <2>. HIDE DEF Moves
  <2>. QED
    BY <1>3, <1>4, PartsOfTheRun, PTL
<1>. QED
  BY <1>1, <1>2, <1>5, <1>6, <1>3, <1>4, <1>7, <1>8, <1>9, <1>10, PartsOfTheRun, PTL
     DEF PipelineSafe, Power!RailMovesIsolated
=============================================================================
