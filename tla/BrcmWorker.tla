----------------------------- MODULE BrcmWorker ----------------------------
(***************************************************************************)
(* The radio worker of brcmfmac/runtime.rs with the Backend its callers    *)
(* use: the request and event queues, the link with its epoch, the TX      *)
(* queue, and the DataPort of data.rs with its generations and flows.      *)
(* Callers run on other CPUs between any two lock acquisitions of the      *)
(* worker; the firmware associates, loses its AP, delivers frames and      *)
(* raises events on its own.  command() is the control port of BrcmControl *)
(* seen from its caller: events that arrive while it waits go to a         *)
(* callback, and most callers pass one that discards them.                 *)
(***************************************************************************)
EXTENDS Naturals, Sequences, FiniteSets

CONSTANTS
  Commands,    \* the commands the core submits
  QueueLimit,  \* QUEUE_LIMIT
  TxLimit,     \* TX_LIMIT
  TxBuffers,   \* TX_COUNT
  Rx,          \* the receive buffers
  CoreRetires, \* the core connects only after a completed retirement
  Cancellable, \* the requests that may be cancelled, by token
  MaxRequests, \* bound: requests submitted
  MaxLinks,    \* bound: associations
  MaxFrames,   \* bound: frames sent and received
  MaxFaults    \* bound: commands that fail or time out

VARIABLES
  requests, events, active, cancelled, failed, retire, dirty,  \* Queues
  count,       \* requests accepted so far; a request's token is its number
  answered,    \* the tokens whose event was polled
  named,       \* the tokens that were cancelled while queued or executed
  up, epoch,   \* Link
  tx,          \* Shared::tx: link token, association, and queued before a key
  sender,      \* the packet send() is about to queue, if any
  held,        \* the packet transmit() has taken from the queue, if any
  pc,          \* where the worker is
  sl,          \* the part of set_link() still to be done
  then,        \* what the worker does after its disconnect()
  associated,  \* Worker::associated
  key,         \* traffic keys in the firmware
  pending,     \* TX buffers the firmware owns
  flow,        \* the flow ring: "none", "creating", "ready"
  asked,       \* firmware: a flow creation it has not answered
  gen,         \* DataPort: the generation of each posted buffer, 0 if not posted
  air,         \* firmware: the association it has, or 0
  links,       \* associations so far
  joining,     \* firmware: a join was requested
  cpl,         \* completions not yet seen by the driver: "up", "down", "flow"
  rxq,         \* firmware: received frames, with the association they are from
  stale,       \* a frame of one association was used in another
  frames, faults

queues == <<requests, events, active, cancelled, failed, retire, dirty, count, answered, named>>
data == <<pending, flow, gen, held>>
radio == <<air, links, joining, asked, cpl, rxq>>
work == <<pc, sl, then, associated, key>>
rest == <<frames, faults>>
vars == <<queues, up, epoch, tx, sender, work, data, radio, stale, rest>>

NoLink == [at |-> "none", on |-> FALSE]
Secures == {"connect", "install", "replace"}
Fault == faults < MaxFaults /\ faults' = faults + 1

Init ==
  /\ requests = << >> /\ events = << >> /\ active = << >> /\ cancelled = FALSE
  /\ failed = FALSE /\ retire = FALSE /\ dirty = FALSE /\ count = 0 /\ answered = {} /\ named = {}
  /\ up = FALSE /\ epoch = 0 /\ tx = << >> /\ sender = << >> /\ held = << >>
  /\ pc = "loop" /\ sl = NoLink /\ then = "none" /\ associated = FALSE /\ key = FALSE
  /\ pending = 0 /\ flow = "none" /\ gen = [b \in Rx |-> 0]
  /\ air = 0 /\ links = 0 /\ joining = FALSE /\ asked = FALSE /\ cpl = << >> /\ rxq = << >>
  /\ stale = FALSE /\ frames = 0 /\ faults = 0

----------------------------------------------------------------------------
(* Backend, called by the core.  The core waits for a retirement it asked   *)
(* for before it submits anything else.                                     *)

Load == Len(requests) + Len(events) + Len(active)

Submit(c) ==
  /\ ~failed /\ ~retire /\ count < MaxRequests
  /\ Load < QueueLimit
  /\ CoreRetires /\ c = "connect" => ~dirty
  /\ count' = count + 1
  /\ requests' = Append(requests, [token |-> count + 1, command |-> c])
  /\ dirty' = (dirty \/ c \in Secures)
  /\ UNCHANGED <<events, active, cancelled, failed, retire, answered, named, up, epoch, tx, sender, work, data, radio, stale, rest>>

Tokens(q) == {q[i].token : i \in 1..Len(q)}

\* retain(): the token is one request's own number.
Without(q, i) == SubSeq(q, 1, i - 1) \o SubSeq(q, i + 1, Len(q))

Cancel(t) ==
  /\ \/ t \notin Tokens(requests) /\ UNCHANGED requests
     \/ \E i \in 1..Len(requests) : requests[i].token = t /\ requests' = Without(requests, i)
  /\ cancelled' = (cancelled \/ t \in Tokens(active))
  /\ named' = named \cup {t}
  /\ requests' # requests \/ cancelled' # cancelled
  /\ UNCHANGED <<events, active, failed, retire, dirty, count, answered, up, epoch, tx, sender, work, data, radio, stale, rest>>

Poll ==
  /\ events # << >>
  /\ events' = Tail(events) /\ answered' = answered \cup {Head(events).token}
  /\ UNCHANGED <<requests, active, cancelled, failed, retire, dirty, count, named, up, epoch, tx, sender, work, data, radio, stale, rest>>

\* retire_security(): the software data path is closed and the request published.
Retire ==
  /\ ~failed /\ dirty /\ ~retire
  /\ requests' = << >> /\ retire' = TRUE
  /\ up' = FALSE /\ epoch' = IF up THEN epoch + 1 ELSE epoch
  /\ tx' = << >>
  /\ UNCHANGED <<events, active, cancelled, failed, dirty, count, answered, named, sender, work, data, radio, stale, rest>>

Installing == \E r \in {requests[i] : i \in 1..Len(requests)} \cup {active[i] : i \in 1..Len(active)} :
                r.command = "install"

\* send(): the link is read under its lock, the packet queued under another.
SendRead ==
  /\ sender = << >> /\ up /\ epoch > 0 /\ frames < MaxFrames
  /\ sender' = <<[epoch |-> epoch, air |-> links, before |-> FALSE]>> /\ frames' = frames + 1
  /\ UNCHANGED <<queues, up, epoch, tx, work, data, radio, stale, faults>>

SendQueue ==
  /\ sender # << >> /\ sender' = << >>
  /\ tx' = IF Len(tx) < TxLimit
             THEN Append(tx, [sender[1] EXCEPT !.before = ~Installing]) ELSE tx
  /\ UNCHANGED <<queues, up, epoch, work, data, radio, stale, rest>>

----------------------------------------------------------------------------
(* set_link() and event(): the flag, the epoch and the queue each under a   *)
(* lock of its own, then refresh_rsn() when the link came up.               *)

Running(place) == pc = place /\ sl = NoLink /\ held = << >> /\ ~failed
Goto(place) == pc' = place

SetLink(on) ==
  /\ up' = on
  /\ sl' = IF up # on THEN [at |-> "epoch", on |-> on] ELSE NoLink

LinkEpoch ==
  /\ sl.at = "epoch" /\ sl' = [sl EXCEPT !.at = "retire"]
  /\ epoch' = epoch + 1
  /\ UNCHANGED <<queues, up, tx, sender, pc, then, associated, key, data, radio, stale, rest>>

\* retire_packets(); then refresh_rsn(), a command, or associated = false.
LinkRetire ==
  /\ sl.at = "retire" /\ sl' = IF sl.on THEN [sl EXCEPT !.at = "rsn"] ELSE NoLink
  /\ tx' = << >>
  /\ associated' = (associated /\ sl.on)
  /\ UNCHANGED <<queues, up, epoch, sender, pc, then, key, data, radio, stale, rest>>

\* The reply to a command is met after every completion that preceded it.
Replied == cpl = << >>

LinkRsn ==
  /\ sl.at = "rsn" /\ Replied /\ sl' = NoLink
  /\ UNCHANGED <<queues, up, epoch, tx, sender, pc, then, associated, key, data, radio, stale, rest>>

\* Places where the control port is polled and link events are handled.
Listening == {"loop", "wait", "flush", "rflush"}

\* command() with a callback that discards events, the scan, the flow deletion.
Commanding == {"scan", "cscan", "prejoin", "disc", "key", "rkeys", "rflows"}

Polled(c) ==
  /\ ~failed /\ held = << >> /\ cpl # << >> /\ Head(cpl) \in c /\ cpl' = Tail(cpl)
  /\ UNCHANGED <<queues, epoch, tx, sender, pc, then, associated, key, pending, gen, held, air, links, joining, asked, rxq, stale, rest>>

\* join() keeps the events of its last command and handles them after it.
HandleEvent ==
  /\ Polled({"up", "down"})
  /\ sl = NoLink /\ pc \in Listening \cup {"join"}
  /\ SetLink(Head(cpl) = "up")
  /\ UNCHANGED flow

HandleFlow ==
  /\ Polled({"flow"})
  /\ sl = NoLink /\ pc \in Listening \cup {"rflows"}
  /\ flow' = "ready"
  /\ UNCHANGED <<up, sl>>

\* Every other completion that a command meets is skipped, flow completions too.
Deaf(places) == sl.at = "rsn" \/ (sl = NoLink /\ pc \in places)

Discard ==
  /\ \/ Polled({"up", "down"}) /\ Deaf(Commanding)
     \/ Polled({"flow"}) /\ Deaf((Commanding \ {"rflows"}) \cup {"join"})
  /\ UNCHANGED <<up, sl, flow>>

----------------------------------------------------------------------------
(* run(): retirement first, then receive buffers, then one request. *)

BeginRetire ==
  /\ Running("loop") /\ retire
  /\ Goto("rflush") /\ tx' = << >>
  /\ UNCHANGED <<queues, up, epoch, sender, sl, then, associated, key, data, radio, stale, rest>>

PostReceive ==
  /\ Running("loop") /\ ~retire /\ up /\ epoch # 0
  /\ \E b \in Rx : gen[b] = 0
  /\ gen' = [b \in Rx |-> IF gen[b] = 0 THEN epoch ELSE gen[b]]
  /\ UNCHANGED <<queues, up, epoch, tx, sender, work, pending, flow, held, radio, stale, rest>>

Starts(c) == CASE c = "scan" -> "scan" [] c = "connect" -> "cscan"
               [] c = "disconnect" -> "disc" [] c = "install" -> "flush"
               [] c = "delete" -> "key" [] OTHER -> "unsupported"

TakeRequest ==
  /\ Running("loop") /\ ~retire /\ requests # << >>
  /\ active' = <<Head(requests)>> /\ requests' = Tail(requests)
  /\ cancelled' = FALSE
  /\ Goto(Starts(Head(requests).command))
  /\ then' = "answer"
  /\ UNCHANGED <<events, failed, retire, dirty, count, answered, named, up, epoch, tx, sender, sl, associated, key, data, radio, stale, rest>>

Answer(result) ==
  /\ events' = Append(events, [token |-> Head(active).token, result |-> result])
  /\ active' = << >> /\ cancelled' = FALSE

\* A request that succeeded.
Done(result) ==
  /\ Answer(result) /\ Goto("loop")
  /\ UNCHANGED <<requests, failed, retire, dirty, count, answered, named, sender, then>>

\* One that failed on a port that still works: answered, then disconnect().
Fails ==
  /\ Answer(IF cancelled THEN "canceled" ELSE "failed") /\ Goto("disc") /\ then' = "loop"
  /\ UNCHANGED <<requests, failed, retire, dirty, count, answered, named, sender>>

Unsupported ==
  /\ Running("unsupported") /\ Fails
  /\ UNCHANGED <<up, epoch, tx, sl, associated, key, data, radio, stale, rest>>

Scanned ==
  /\ Running("scan") /\ Replied /\ Done("ok")
  /\ UNCHANGED <<up, epoch, tx, sl, associated, key, data, radio, stale, rest>>

\* The worker ends: every queue is cleared, the removal is published and the
\* carrier goes down.
Stop ==
  /\ failed' = TRUE
  /\ requests' = << >> /\ active' = << >>
  /\ events' = <<[token |-> 0, result |-> "removed"]>>
  /\ up' = FALSE /\ tx' = << >>
  /\ UNCHANGED <<cancelled, retire, dirty, count, answered, named, epoch, sender, work, data, radio, stale, frames>>

\* A command times out, which quarantines the port.
CommandTimeout ==
  /\ ~failed /\ sl = NoLink /\ pc \in Commanding \cup {"join"} /\ Fault /\ Stop

\* A retirement that cannot flush its frames within two seconds.
RetireTimeout ==
  /\ Running("rflush") /\ Stop /\ UNCHANGED faults

----------------------------------------------------------------------------
(* worker_connect() *)

Drained == rxq = << >>

\* DataPort::begin_generation(): nothing may be left of the last one.
Unused == pending = 0 /\ flow = "none"

BeginGeneration ==
  /\ Running("cscan") /\ Replied
  /\ \/ associated /\ Goto("prejoin") /\ UNCHANGED <<gen, then, queues, sender>>
     \/ /\ ~associated /\ Drained /\ Unused
        /\ gen' = [b \in Rx |-> IF gen[b] = 0 THEN 0 ELSE epoch + 1]
        /\ Goto("prejoin") /\ UNCHANGED <<then, queues, sender>>
     \/ /\ ~associated /\ Drained /\ ~Unused
        /\ Fails /\ UNCHANGED gen
  /\ UNCHANGED <<up, epoch, tx, sl, associated, key, pending, flow, held, radio, stale, rest>>

\* The draining loops throw frames away.
Drain ==
  /\ sl = NoLink /\ ~failed /\ pc \in {"cscan", "rdrain"} /\ rxq # << >>
  /\ rxq' = Tail(rxq) /\ gen' = [gen EXCEPT ![Head(rxq).buffer] = 0]
  /\ UNCHANGED <<queues, up, epoch, tx, sender, work, pending, flow, held, air, links, joining, asked, cpl, stale, rest>>

\* The settings, whose commands discard events, and then "join", which keeps them.
PreJoin ==
  /\ Running("prejoin") /\ Replied /\ Goto("join")
  /\ UNCHANGED <<queues, up, epoch, tx, sender, sl, then, associated, key, data, radio, stale, rest>>

Join ==
  /\ Running("join") /\ Replied /\ Goto("wait")
  /\ joining' = TRUE
  /\ UNCHANGED <<queues, up, epoch, tx, sender, sl, then, associated, key, data, air, links, asked, cpl, rxq, stale, rest>>

Associated ==
  /\ Running("wait") /\ up /\ Done("associated")
  /\ associated' = TRUE
  /\ UNCHANGED <<up, epoch, tx, sl, key, data, radio, stale, rest>>

\* Cancelled, or the caller's timeout.
NotAssociated ==
  /\ Running("wait") /\ ~up
  /\ Fails
  /\ UNCHANGED <<up, epoch, tx, sl, associated, key, data, radio, stale, rest>>

----------------------------------------------------------------------------
(* disconnect(), install_key(), delete_key() *)

\* Command 52, after which the firmware has no association; then set_link().
Disconnect ==
  /\ Running("disc") /\ Replied
  /\ air' = 0 /\ joining' = FALSE
  /\ SetLink(FALSE)
  /\ \/ then = "answer" /\ Done("ok")
     \/ then = "loop" /\ Goto("loop") /\ UNCHANGED <<queues, sender, then>>
     \/ then = "retire" /\ Goto("rkeys") /\ UNCHANGED <<queues, sender, then>>
  /\ UNCHANGED <<epoch, tx, associated, key, data, links, asked, cpl, rxq, stale, rest>>

\* flush_transmit() returns once no packet is queued or owned by the firmware.
Flushed == tx = << >> /\ held = << >> /\ pending = 0

FlushDone ==
  /\ sl = NoLink /\ ~failed /\ pc \in {"flush", "rflush"} /\ Flushed
  /\ IF pc = "flush" THEN Goto("key") /\ UNCHANGED then
                     ELSE Goto("disc") /\ then' = "retire"
  /\ UNCHANGED <<queues, up, epoch, tx, sender, sl, associated, key, data, radio, stale, rest>>

\* The frames did not leave within two seconds.
FlushFails ==
  /\ Running("flush") /\ Fails
  /\ UNCHANGED <<up, epoch, tx, sl, associated, key, data, radio, stale, rest>>

KeyChanged ==
  /\ Running("key") /\ Replied /\ Done("ok")
  /\ key' = (Head(active).command = "install")
  /\ UNCHANGED <<up, epoch, tx, sl, associated, data, radio, stale, rest>>

----------------------------------------------------------------------------
(* retire_security() after flush and disconnect *)

DeleteKeys ==
  /\ Running("rkeys") /\ Replied /\ Goto("rflows")
  /\ key' = FALSE
  /\ UNCHANGED <<queues, up, epoch, tx, sender, sl, then, associated, data, radio, stale, rest>>

DeleteFlows ==
  /\ Running("rflows") /\ ~asked /\ Replied
  /\ flow' = "none" /\ Goto("rdrain")
  /\ UNCHANGED <<queues, up, epoch, tx, sender, sl, then, associated, key, pending, gen, held, radio, stale, rest>>

Retired ==
  /\ Running("rdrain") /\ rxq = << >>
  /\ Goto("loop") /\ associated' = FALSE
  /\ dirty' = FALSE /\ retire' = FALSE
  /\ UNCHANGED <<requests, events, active, cancelled, failed, count, answered, named, up, epoch, tx, sender, sl, then, key, data, radio, stale, rest>>

----------------------------------------------------------------------------
(* transmit(), complete_transmit(), receive() *)

Moving == sl = NoLink /\ ~failed /\ held = << >> /\ pc \in {"loop", "flush", "rflush"}

TransmitPop ==
  /\ Moving /\ tx # << >>
  /\ held' = <<Head(tx)>> /\ tx' = Tail(tx)
  /\ UNCHANGED <<queues, up, epoch, sender, work, pending, flow, gen, radio, stale, rest>>

\* Mutated form: a packet is sent whenever the link is up.
Current_Up(packet) == up

Current(packet) == up /\ packet.epoch = epoch

Spare == pending < TxBuffers

\* A packet of another epoch is dropped; the first one creates the flow; each
\* is put back in front until the flow is ready and a buffer free.
Transmit ==
  /\ ~failed /\ held # << >> /\ held' = << >>
  /\ \/ /\ ~Current(held[1])
        /\ UNCHANGED <<tx, flow, asked, pending, stale>>
     \/ /\ Current(held[1]) /\ flow # "ready"
        /\ flow' = "creating" /\ asked' = (asked \/ flow = "none")
        /\ tx' = held \o tx /\ UNCHANGED <<pending, stale>>
     \/ /\ Current(held[1]) /\ flow = "ready"
        /\ IF Spare
             THEN /\ pending' = pending + 1 /\ UNCHANGED tx
                  /\ stale' = (stale \/ held[1].air # links)
             ELSE tx' = held \o tx /\ UNCHANGED <<pending, stale>>
        /\ UNCHANGED <<flow, asked>>
  /\ UNCHANGED <<queues, up, epoch, sender, work, gen, air, links, joining, cpl, rxq, rest>>

CompleteTransmit ==
  /\ Moving /\ pending > 0 /\ pending' = pending - 1
  /\ UNCHANGED <<queues, up, epoch, tx, sender, work, flow, gen, held, radio, stale, rest>>

Fresh(b) == up /\ gen[b] = epoch

\* A frame posted in another generation is dropped, any other delivered.
Receive ==
  /\ Moving /\ pc = "loop" /\ rxq # << >>
  /\ rxq' = Tail(rxq)
  /\ gen' = [gen EXCEPT ![Head(rxq).buffer] = 0]
  /\ stale' = (stale \/ (Fresh(Head(rxq).buffer) /\ Head(rxq).air # links))
  /\ UNCHANGED <<queues, up, epoch, tx, sender, work, pending, flow, held, air, links, joining, asked, cpl, rest>>

----------------------------------------------------------------------------
(* The firmware: association after a join, loss of the AP, frames. *)

FwAssociate ==
  /\ joining /\ air = 0 /\ links < MaxLinks
  /\ links' = links + 1 /\ air' = links + 1 /\ joining' = FALSE
  /\ cpl' = Append(cpl, "up")
  /\ UNCHANGED <<queues, up, epoch, tx, sender, work, data, asked, rxq, stale, rest>>

FwLose ==
  /\ air # 0 /\ Fault
  /\ air' = 0 /\ cpl' = Append(cpl, "down")
  /\ UNCHANGED <<queues, up, epoch, tx, sender, work, data, links, joining, asked, rxq, stale, frames>>

FwFlow ==
  /\ asked /\ asked' = FALSE
  /\ cpl' = Append(cpl, "flow")
  /\ UNCHANGED <<queues, up, epoch, tx, sender, work, data, air, links, joining, rxq, stale, rest>>

FwReceive ==
  /\ air # 0 /\ frames < MaxFrames /\ frames' = frames + 1
  /\ \E b \in Rx :
       /\ gen[b] # 0 /\ \A i \in 1..Len(rxq) : rxq[i].buffer # b
       /\ rxq' = Append(rxq, [buffer |-> b, air |-> air])
  /\ UNCHANGED <<queues, up, epoch, tx, sender, work, data, air, links, joining, asked, cpl, stale, faults>>

----------------------------------------------------------------------------

Core ==
  \/ \E c \in Commands : Submit(c)
  \/ \E t \in Cancellable \cap 1..count : Cancel(t)
  \/ Poll \/ Retire \/ SendRead \/ SendQueue

\* What the worker does next by itself.
Step ==
  \/ LinkEpoch \/ LinkRetire \/ LinkRsn \/ HandleEvent \/ HandleFlow \/ Discard
  \/ BeginRetire \/ PostReceive \/ TakeRequest \/ Unsupported \/ Scanned
  \/ BeginGeneration \/ Drain \/ PreJoin \/ Join \/ Associated
  \/ Disconnect \/ FlushDone \/ KeyChanged
  \/ DeleteKeys \/ DeleteFlows \/ Retired
  \/ TransmitPop \/ Transmit \/ CompleteTransmit \/ Receive

TimeOut == NotAssociated \/ FlushFails \/ RetireTimeout

Next ==
  \/ Core \/ Step \/ TimeOut \/ CommandTimeout
  \/ FwAssociate \/ FwLose \/ FwFlow \/ FwReceive

\* The worker is a task of its own; each turn of its loop looks at the requests,
\* the frames and the completions, and its waits have deadlines.  The firmware
\* answers a flow creation.
Fairness ==
  /\ WF_vars(Step) /\ WF_vars(TimeOut) /\ WF_vars(SendQueue) /\ WF_vars(FwFlow)
  /\ SF_vars(BeginRetire \/ TakeRequest) /\ SF_vars(HandleEvent \/ HandleFlow)
  /\ SF_vars(CompleteTransmit) /\ SF_vars(FlushDone)

Spec == Init /\ [][Next]_vars /\ Fairness

----------------------------------------------------------------------------

TypeOK ==
  /\ Tokens(requests) \subseteq 1..count /\ Tokens(events) \subseteq 0..count
  /\ Len(active) <= 1
  /\ failed \in BOOLEAN /\ retire \in BOOLEAN /\ dirty \in BOOLEAN /\ cancelled \in BOOLEAN
  /\ up \in BOOLEAN /\ epoch \in Nat
  /\ sl.at \in {"none", "epoch", "retire", "rsn"} /\ then \in {"none", "answer", "loop", "retire"}
  /\ pc \in Listening \cup Commanding \cup {"join", "rdrain", "unsupported"}
  /\ flow \in {"none", "creating", "ready"} /\ pending \in 0..TxBuffers
  /\ gen \in [Rx -> Nat] /\ Len(sender) <= 1 /\ Len(held) <= 1

\* The queues never hold more than QUEUE_LIMIT requests and answers together,
\* although requests turn into events at a worker that takes no permission.
QueueBounded == Load <= QueueLimit

\* A request is in one place only: queued, executing or answered.  It is never
\* answered twice, not even when it is cancelled or the radio fails meanwhile.
OnePlace ==
  /\ Cardinality(Tokens(requests)) = Len(requests)
  /\ Cardinality(Tokens(events)) = Len(events)
  /\ Tokens(requests) \cap (Tokens(active) \cup Tokens(events) \cup answered) = {}
  /\ Tokens(active) \cap (Tokens(events) \cup answered) = {}
  /\ Tokens(events) \cap answered \subseteq {0}

\* A cancellation is only applied to the request it named.
CancelsItsOwn == \A i \in 1..Len(events) : events[i].result = "canceled" => events[i].token \in named

\* No frame crosses associations: a packet admitted under one link epoch is not
\* sent in another, a frame received in one association is not delivered in a
\* later one, however the core retires and the firmware reconnects.
NoCrossing == ~stale

\* What retire_security() reports as done is done: with nothing to retire the
\* firmware has no keys, no association and no flow of the old connection.
RetiredIsClean ==
  ~dirty /\ ~failed => ~key /\ air = 0 /\ flow = "none" /\ \A b \in Rx : ~(up /\ gen[b] = epoch)

\* The TX queue holds at most one packet more than TX_LIMIT: the one transmit()
\* had taken from a full queue and put back after a sender filled the gap.
TxBounded == Len(tx) <= TxLimit + 1 /\ (Len(tx) > TxLimit => held = << >>)

\* A key comes into use only when every frame queued before it was asked for,
\* the last one of the handshake among them, has left the firmware's hands.
KeyAfterFrames ==
  [][~key /\ key' => pending = 0 /\ \A i \in 1..Len(tx) : ~tx[i].before]_vars

\* Every accepted request leaves the queues.
RequestsEnd == \A t \in 1..MaxRequests :
  t \in Tokens(requests) \cup Tokens(active) ~> t \notin Tokens(requests) \cup Tokens(active)

\* When the AP is lost the carrier goes down.
CarrierFollowsRadio == (up /\ air = 0) ~> (~up \/ air # 0)

\* A flow whose creation the firmware has answered carries frames.
FlowBecomesReady == flow = "creating" ~> (flow # "creating" \/ failed)
=============================================================================
