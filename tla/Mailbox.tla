------------------------------ MODULE Mailbox -------------------------------
(***************************************************************************)
(* The Falcon mailbox of mailbox.rs and its users in runtime.rs: the IRQ   *)
(* handler, the deferred worker and the startup task's send().  One claim, *)
(* taken with a compare-and-swap and never waited for, protects the        *)
(* read/consume/reply transactions.  A step is one access to a register or *)
(* an atomic that another actor can see; the firmware is external.         *)
(***************************************************************************)
EXTENDS Naturals

CONSTANTS
  MaxRequests,  \* bound: how many requests the firmware posts
  MaxHangs,     \* bound: how often it reports a hang
  Latched       \* does Waker remember a wake_one() that finds nobody waiting?

VARIABLES
  owner,    \* OWNER: none, fw (1) or sw (2)
  command,  \* the DEST_* bits of COMMAND
  out,      \* DATA_OUT
  in,       \* DATA_IN
  smi,      \* SMI_INTR
  posted,   \* how many requests have been posted
  hangs,    \* how many hangs have been reported
  claimed,  \* Mailbox::claimed, and by whom
  pending,  \* Mailbox::pending
  fault,    \* mailbox_fault
  failed,   \* host.failed
  wake,     \* mailbox_waker has been woken
  pc,       \* where each actor is
  msg,      \* the message each actor serves
  status,   \* the SMI bits the handler has read
  handled   \* history: how often each request was consumed

fw   == <<owner, command, out, in, smi, posted, hangs>>
vars == <<fw, claimed, pending, fault, failed, wake, pc, msg, status, handled>>

\* fixed is answered at once, lfps needs the PHY, quiet (6, ACK, NAK) no answer.
Kinds    == {"fixed", "lfps", "quiet"}
Messages == [id : 0 .. MaxRequests, kind : Kinds \cup {"none", "send", "reply"}]
NoMessage == [id |-> 0, kind |-> "none"]
Servers  == {"irq", "worker"}

----------------------------------------------------------------------------
(* The firmware. *)

Post ==
  /\ owner = "none" /\ posted < MaxRequests
  /\ posted' = posted + 1
  /\ owner' = "fw"
  /\ \E k \in Kinds : out' = [id |-> posted + 1, kind |-> k]
  /\ command' = command \cup {"SMI"}
  /\ smi' = smi \cup {"MSG"}
  /\ UNCHANGED <<in, hangs>>

\* A reply ends the request, a command of ours is accepted.
Accept ==
  /\ "FALCON" \in command
  /\ command' = command \ {"FALCON"}
  /\ owner' = "none"
  /\ UNCHANGED <<out, in, smi, posted, hangs>>

Hang ==
  /\ hangs < MaxHangs
  /\ hangs' = hangs + 1
  /\ smi' = smi \cup {"HANG"}
  /\ UNCHANGED <<owner, command, out, in, posted>>

Firmware ==
  /\ Post \/ Accept \/ Hang
  /\ UNCHANGED <<claimed, pending, fault, failed, wake, pc, msg, status, handled>>

----------------------------------------------------------------------------
(* service(), by the IRQ handler (fast) or the worker (deferred). *)

To(p, step) == pc' = [pc EXCEPT ![p] = step]

\* Where a server goes when service() returns: the handler wakes the worker,
\* the worker waits, for 1 ms if the claim was busy.
Served(p, busy) ==
  To(p, IF p = "irq" THEN "wake" ELSE IF busy THEN "retry" ELSE "wait")

try_claim(p) ==
  /\ pc[p] = "claim"
  /\ \/ claimed = "none" /\ claimed' = p /\ To(p, "read")
     \/ claimed # "none" /\ Served(p, TRUE) /\ UNCHANGED claimed
  /\ UNCHANGED <<fw, pending, fault, failed, wake, msg, status, handled>>

\* Mutated form: a pending SMI is taken to mean that DATA_OUT is fresh.
Fresh_Trusts == TRUE

\* "Pending SMI status never licenses consumption of stale DATA_OUT."
Fresh == "SMI" \in command

\* The handler leaves the slow PHY operations to the worker.
Deferred(p) == p = "irq" /\ out.kind = "lfps"

\* COMMAND, DATA_OUT and OWNER are read, and the claim dropped on an early end.
Read(p) ==
  /\ pc[p] = "read"
  /\ \/ /\ ~Fresh
        /\ claimed' = "none" /\ Served(p, FALSE)
        /\ UNCHANGED <<fault, failed, msg>>
     \/ /\ Fresh /\ owner # "fw"
        /\ claimed' = "none" /\ Served(p, FALSE)
        /\ fault' = (fault \/ p = "irq") /\ failed' = (failed \/ p = "worker")
        /\ UNCHANGED msg
     \/ /\ Fresh /\ owner = "fw" /\ Deferred(p)
        /\ claimed' = "none" /\ Served(p, FALSE)
        /\ UNCHANGED <<fault, failed, msg>>
     \/ /\ Fresh /\ owner = "fw" /\ ~Deferred(p)
        /\ msg' = [msg EXCEPT ![p] = out] /\ To(p, "consume")
        /\ UNCHANGED <<claimed, fault, failed>>
  /\ UNCHANGED <<fw, pending, wake, status, handled>>

\* DEST_SMI is cleared in the COMMAND value that was read.
Consume(p) ==
  /\ pc[p] = "consume" /\ To(p, "reply")
  /\ command' = command \ {"SMI"}
  /\ handled' = [handled EXCEPT ![msg[p].id] = @ + 1]
  /\ UNCHANGED <<owner, out, in, smi, posted, hangs, claimed, pending, fault,
                 failed, wake, msg, status>>

\* The reply, in the firmware's ownership; a quiet message is only released.
Reply(p) ==
  /\ pc[p] = "reply" /\ To(p, "release")
  /\ IF msg[p].kind = "quiet"
     THEN owner' = "none" /\ UNCHANGED <<in, command>>
     ELSE /\ in' = [id |-> msg[p].id, kind |-> "reply"]
          /\ command' = command \cup {"FALCON"}
          /\ UNCHANGED owner
  /\ UNCHANGED <<out, smi, posted, hangs, claimed, pending, fault, failed, wake,
                 msg, status, handled>>

Release(p) ==
  /\ pc[p] = "release"
  /\ claimed' = "none" /\ msg' = [msg EXCEPT ![p] = NoMessage] /\ Served(p, FALSE)
  /\ UNCHANGED <<fw, pending, fault, failed, wake, status, handled>>

Service(p) == try_claim(p) \/ Read(p) \/ Consume(p) \/ Reply(p) \/ Release(p)

----------------------------------------------------------------------------
(* claim_interrupt() and mailbox_worker(). *)

Interrupt ==
  /\ pc["irq"] = "idle" /\ smi # {}
  /\ status' = smi /\ To("irq", "capture")
  /\ UNCHANGED <<fw, claimed, pending, fault, failed, wake, msg, handled>>

\* Every captured status bit is kept for the worker.
Captured == pending \cup status

\* The rest of capture_interrupt(): W1C, then pending.
Capture ==
  /\ pc["irq"] = "capture" /\ To("irq", "claim")
  /\ smi' = smi \ status /\ pending' = Captured /\ status' = {}
  /\ UNCHANGED <<owner, command, out, in, posted, hangs, claimed, fault, failed,
                 wake, msg, handled>>

\* Mutated form: the worker is woken only for a request left to it.
WakeWorker_Deferred ==
  /\ pc["irq"] = "wake" /\ To("irq", "idle")
  /\ wake' = (wake \/ (Fresh /\ claimed = "none"))
  /\ UNCHANGED <<fw, claimed, pending, fault, failed, msg, status, handled>>

\* wake_one(), after every captured interrupt.
WakeWorker ==
  /\ pc["irq"] = "wake" /\ To("irq", "idle")
  /\ wake' = (wake \/ Latched \/ pc["worker"] = "wait")
  /\ UNCHANGED <<fw, claimed, pending, fault, failed, msg, status, handled>>

\* service_mailbox(): a hang or a fast failure comes before the service.
Work ==
  /\ (pc["worker"] = "wait" /\ wake) \/ pc["worker"] = "retry"
  /\ wake' = FALSE
  /\ pending' = {}
  /\ \/ "HANG" \in pending /\ failed' = TRUE /\ To("worker", "wait") /\ UNCHANGED fault
     \/ "HANG" \notin pending /\ fault /\ fault' = FALSE /\ failed' = TRUE
        /\ To("worker", "wait")
     \/ "HANG" \notin pending /\ ~fault /\ To("worker", "claim")
        /\ UNCHANGED <<fault, failed>>
  /\ UNCHANGED <<fw, claimed, msg, status, handled>>

----------------------------------------------------------------------------
(* Host::send with begin_send(), once, from the startup task. *)

\* A busy claim is retried; 250 ms without it, or a busy mailbox, is an error.
SendClaim ==
  /\ pc["sender"] = "claim"
  /\ \/ claimed = "none" /\ claimed' = "sender" /\ To("sender", "owner") /\ UNCHANGED failed
     \/ claimed # "none" /\ failed' = TRUE /\ To("sender", "error") /\ UNCHANGED claimed
  /\ UNCHANGED <<fw, pending, fault, wake, msg, status, handled>>

\* OWNER is read: only a free mailbox is acquired.
SendCheck ==
  /\ pc["sender"] = "owner"
  /\ \/ owner = "none" /\ To("sender", "acquire") /\ UNCHANGED <<claimed, failed>>
     \/ owner # "none" /\ claimed' = "none" /\ failed' = TRUE /\ To("sender", "error")
  /\ UNCHANGED <<fw, pending, fault, wake, msg, status, handled>>

\* The write of OWNER takes effect on a free mailbox only.
SendAcquire ==
  /\ pc["sender"] = "acquire" /\ To("sender", "readback")
  /\ owner' = IF owner = "none" THEN "sw" ELSE owner
  /\ UNCHANGED <<command, out, in, smi, posted, hangs, claimed, pending, fault,
                 failed, wake, msg, status, handled>>

\* The readback of OWNER.
Acquired == owner = "sw"

SendWrite ==
  /\ pc["sender"] = "readback"
  /\ \/ /\ Acquired
        /\ in' = [id |-> 0, kind |-> "send"]
        /\ command' = command \cup {"FALCON"}
        /\ claimed' = "none" /\ To("sender", "owned") /\ UNCHANGED failed
     \/ /\ ~Acquired
        /\ claimed' = "none" /\ failed' = TRUE /\ To("sender", "error")
        /\ UNCHANGED <<in, command>>
  /\ UNCHANGED <<owner, out, smi, posted, hangs, pending, fault, wake, msg, status, handled>>

\* The wait for the firmware to release OWNER.
SendDone ==
  /\ pc["sender"] = "owned"
  /\ \/ owner = "none" /\ To("sender", "done") /\ UNCHANGED failed
     \/ owner # "none" /\ failed' = TRUE /\ To("sender", "error")
  /\ UNCHANGED <<fw, claimed, pending, fault, wake, msg, status, handled>>

Sender == SendClaim \/ SendCheck \/ SendAcquire \/ SendWrite \/ SendDone

----------------------------------------------------------------------------
(* The specification. *)

Init ==
  /\ owner = "none" /\ command = {} /\ out = NoMessage /\ in = NoMessage
  /\ smi = {} /\ posted = 0 /\ hangs = 0
  /\ claimed = "none" /\ pending = {} /\ fault = FALSE /\ failed = FALSE
  /\ wake = FALSE /\ status = {}
  /\ pc = [irq |-> "idle", worker |-> "wait", sender |-> "claim"]
  /\ msg = [p \in Servers |-> NoMessage]
  /\ handled = [n \in 0 .. MaxRequests |-> 0]

Irq    == Interrupt \/ Capture \/ Service("irq") \/ WakeWorker
Worker == Work \/ Service("worker")
Next   == Firmware \/ Irq \/ Worker \/ Sender

\* Interrupts are delivered and the tasks are scheduled.
Fairness == WF_vars(Irq) /\ WF_vars(Worker) /\ WF_vars(Sender)

Spec == Init /\ [][Next]_vars /\ Fairness

----------------------------------------------------------------------------
(* Properties. *)

\* Every variable keeps its type.
TypeOK ==
  /\ owner \in {"none", "fw", "sw"} /\ command \subseteq {"SMI", "FALCON"}
  /\ out \in Messages /\ in \in Messages /\ smi \subseteq {"MSG", "HANG"}
  /\ posted \in 0 .. MaxRequests /\ hangs \in 0 .. MaxHangs
  /\ claimed \in {"none", "irq", "worker", "sender"}
  /\ pending \subseteq {"MSG", "HANG"} /\ status \subseteq {"MSG", "HANG"}
  /\ fault \in BOOLEAN /\ failed \in BOOLEAN /\ wake \in BOOLEAN
  /\ pc["irq"] \in {"idle", "capture", "claim", "read", "consume", "reply", "release", "wake"}
  /\ pc["worker"] \in {"wait", "retry", "claim", "read", "consume", "reply", "release"}
  /\ pc["sender"] \in {"claim", "owner", "acquire", "readback", "owned", "done", "error"}
  /\ msg \in [Servers -> Messages]

\* What the firmware is told to take is what it waits for: the reply to its
\* own request while it owns the mailbox, the command of send() otherwise.
TakesItsOwn ==
  "FALCON" \in command =>
    IF owner = "fw" THEN in = [id |-> out.id, kind |-> "reply"]
    ELSE owner = "sw" /\ in.kind = "send"

\* No request is consumed twice, by two servers or from a stale DATA_OUT.
ConsumedOnce == \A n \in 0 .. MaxRequests : handled[n] <= 1

\* What the firmware is told to take is what it waits for, and no request is
\* consumed twice, whichever of handler, worker and sender holds the claim
\* (begin_send, service).
MailboxSafe == TakesItsOwn /\ ConsumedOnce

\* A request left to the worker, or posted while the claim was busy, is
\* eventually consumed, although nobody spins for the claim.
RequestServed == []~failed => \A n \in 1 .. MaxRequests : (posted >= n) ~> (handled[n] = 1)

\* A reported firmware hang always reaches the host's failure flag, also when
\* it is captured while the claim is held.
HangReported == (hangs > 0) ~> failed
=============================================================================
