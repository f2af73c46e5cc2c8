----------------------------- MODULE XusbSingle -----------------------------
(* The XUSB driver on a machine without a second CPU: worker() runs startup   *)
(* and the deferred mailbox service in one task, so the task that waits for   *)
(* the firmware is the task the firmware may be waiting for.  Module Mailbox  *)
(* has the register protocol of one transaction; here a transaction is one    *)
(* step.  The firmware is external.                                           *)
EXTENDS Naturals

CONSTANT MaxRequests  \* bound: requests the firmware posts
VARIABLES
    owner,   \* OWNER: "none", "fw", "sw"
    request, \* the unserved request in DATA_OUT: "none", "fixed", "quiet", "lfps"
    irq,     \* SMI_INTR raised and not captured
    inbox,   \* a command or reply the Falcon has not read (DEST_FALCON)
    posted,
    task,    \* "start", "owner", "service", "wait"
    started, failed,
    wake     \* startup_waker woken

vars == <<owner, request, irq, inbox, posted, task, started, failed, wake>>

Init ==
    /\ owner = "none" /\ request = "none" /\ irq = FALSE /\ inbox = FALSE /\ posted = 0
    /\ task = "start" /\ started = FALSE /\ failed = FALSE /\ wake = FALSE

Post ==
    /\ owner = "none" /\ posted < MaxRequests
    /\ posted' = posted + 1 /\ owner' = "fw" /\ irq' = TRUE
    /\ request' \in {"fixed", "quiet", "lfps"}
    /\ UNCHANGED <<inbox, task, started, failed, wake>>

Accept ==
    /\ inbox
    /\ inbox' = FALSE /\ owner' = "none"
    /\ UNCHANGED <<request, irq, posted, task, started, failed, wake>>

\* The reply leaves the mailbox with the firmware until it accepts; a request
\* without an answer is released at once.
Served ==
    /\ request' = "none"
    /\ IF request = "quiet" THEN owner' = "none" /\ UNCHANGED inbox
                            ELSE inbox' = TRUE /\ UNCHANGED owner

\* Without a dedicated worker the handler wakes the startup task.
Wakes == TRUE

\* claim_interrupt: everything but the slow PHY requests is answered at once.
Interrupt ==
    /\ irq
    /\ irq' = FALSE
    /\ IF request \in {"none", "lfps"} THEN UNCHANGED <<owner, request, inbox>> ELSE Served
    /\ wake' = (wake \/ Wakes)
    /\ UNCHANGED <<posted, task, started, failed>>

\* start() sends MESSAGES_ENABLED once the host is bound.  begin_send refuses a
\* mailbox in use; nothing is isolated after binding, so the task goes on.
Send ==
    /\ task = "start"
    /\ IF owner = "none"
       THEN owner' = "sw" /\ inbox' = TRUE /\ task' = "owner" /\ UNCHANGED failed
       ELSE failed' = TRUE /\ task' = "service" /\ UNCHANGED <<owner, inbox>>
    /\ UNCHANGED <<request, irq, posted, started, wake>>

OwnerReleased ==
    /\ task = "owner" /\ owner = "none"
    /\ started' = TRUE /\ task' = "service"
    /\ UNCHANGED <<owner, request, irq, inbox, posted, failed, wake>>

\* The 250 ms deadline ends the wait whoever owns the mailbox by then.
OwnerTimeout ==
    /\ task = "owner" /\ owner # "none"
    /\ failed' = TRUE /\ task' = "service"
    /\ UNCHANGED <<owner, request, irq, inbox, posted, started, wake>>

\* service_mailbox_worker; the claim is free, only this task and the handler
\* take it.
Service ==
    /\ task = "service"
    /\ IF request = "none" THEN UNCHANGED <<owner, request, inbox>> ELSE Served
    /\ task' = "wait"
    /\ UNCHANGED <<irq, posted, started, failed, wake>>

\* wait_with_condition; startup is over, so only a wake ends it.
Awake ==
    /\ task = "wait" /\ wake
    /\ wake' = FALSE /\ task' = "service"
    /\ UNCHANGED <<owner, request, irq, inbox, posted, started, failed>>

Next == Post \/ Accept \/ Interrupt \/ Send \/ OwnerReleased \/ OwnerTimeout \/ Service \/ Awake

\* The firmware reads its inbox, interrupts are taken, the task is scheduled and
\* its deadline passes.
Spec ==
    /\ Init /\ [][Next]_vars
    /\ WF_vars(Accept) /\ WF_vars(Interrupt)
    /\ WF_vars(Send \/ OwnerReleased \/ OwnerTimeout \/ Service \/ Awake)

-----------------------------------------------------------------------------

\* Startup is decided: the one task never waits for a request only it can serve
\* without an end (send's deadlines).
StartupDecided == <>(started \/ failed)

\* Every request of the firmware is served, also one that arrives while the task
\* waits for OWNER and also after startup failed: the bound controller keeps its
\* mailbox (service_mailbox_worker).
RequestsServed == request # "none" ~> request = "none"

\* What the comment in send() says of requests that arrive during its wait: the
\* handler acknowledges them.
AckedDuringWait == (task = "owner" /\ request # "none") => irq
=============================================================================
