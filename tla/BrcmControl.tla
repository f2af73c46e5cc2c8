---------------------------- MODULE BrcmControl ----------------------------
(***************************************************************************)
(* ControlPort of control.rs and the command() loop of runtime.rs around   *)
(* it: sixteen receive buffers and one request buffer shared with the      *)
(* firmware, one command outstanding, completions correlated by packet and *)
(* transaction identifiers.  The submission and completion rings are the   *)
(* bounded channels MsgRing implements.  The firmware consumes, answers    *)
(* and raises events at any time; a faulty one repeats itself.             *)
(***************************************************************************)
EXTENDS Naturals, Sequences

CONSTANTS
  Buffers,     \* the indices of ControlPort::buffers
  Events,      \* those posted for events; the others take responses
  SubCap,      \* messages the submission ring holds
  CplCap,      \* messages the completion ring holds
  MaxPacket,   \* the largest packet identifier
  Reserved,    \* 0xfffe, which no posted buffer may have
  MaxTrans,    \* the largest transaction identifier
  MaxFaults    \* bound: failing accesses and repeated completions

VARIABLES
  id,          \* Buffer::id; 0 while the driver owns the buffer
  next_packet, \* ControlPort::next_packet
  transaction, \* ControlPort::transaction
  pending,     \* the transaction of ControlPort::pending, or 0
  input,       \* the transaction whose request is in the request buffer, or 0
  started, failed,
  pc,          \* the worker: "idle", or in start() or poll() at "post" or "pop"
  sub, cpl,    \* the two rings
  held,        \* firmware: the posted buffers, by identifier
  job,         \* firmware: the transaction it executes, or 0
  old,         \* every completion the firmware has sent
  answer,      \* the last response given to the caller
  faults

port == <<id, next_packet, transaction, pending, input, started, failed, pc, answer>>
firmware == <<held, job, old>>
vars == <<port, sub, cpl, firmware, faults>>

Posted(p, b) == [kind |-> "post", id |-> p, buffer |-> b]
Ioctl(t) == [kind |-> "ioctl", id |-> t, buffer |-> 0]
Response(p, t) == [kind |-> "response", id |-> p, transaction |-> t]
Event(p) == [kind |-> "event", id |-> p, transaction |-> 0]
Ack == [kind |-> "ack", id |-> Reserved, transaction |-> 0]

Fault == faults < MaxFaults /\ faults' = faults + 1
Available == started /\ ~failed

Init ==
  /\ id = [b \in Buffers |-> 0] /\ next_packet = 0
  /\ transaction = 0 /\ pending = 0 /\ input = 0
  /\ started = FALSE /\ failed = FALSE /\ pc = "idle"
  /\ sub = << >> /\ cpl = << >>
  /\ held = {} /\ job = 0 /\ old = {} /\ answer = [asked |-> 0, got |-> 0]
  /\ faults = 0

----------------------------------------------------------------------------
(* start(), and the two halves of poll(): post() and one completion. *)

Start ==
  /\ pc = "idle" /\ ~started /\ ~failed
  /\ pc' = "start"
  /\ UNCHANGED <<id, next_packet, transaction, pending, input, started, failed, answer, sub, cpl, firmware, faults>>

\* command() polls while it waits, the worker's loop at any other time.
Poll ==
  /\ pc = "idle" /\ Available
  /\ pc' = "post"
  /\ UNCHANGED <<id, next_packet, transaction, pending, input, started, failed, answer, sub, cpl, firmware, faults>>

Owned == {b \in Buffers : id[b] = 0}

Fresh(b) == IF next_packet + 1 = Reserved THEN next_packet + 2 ELSE next_packet + 1

\* The end of post(): start() is done, poll() goes on to the completion ring.
Posting == pc \in {"start", "post"}
PostDone ==
  /\ Posting
  /\ pc' = IF pc = "start" THEN "idle" ELSE "pop"
  /\ started' = TRUE

PostNone ==
  /\ PostDone /\ Owned = {}
  /\ UNCHANGED <<id, next_packet, transaction, pending, input, failed, answer, sub, cpl, firmware, faults>>

\* The lowest buffer the driver owns gets a fresh identifier.
PostOne ==
  /\ Posting /\ next_packet < MaxPacket
  /\ \E b \in Owned :
       /\ \A c \in Owned : b <= c
       /\ next_packet' = Fresh(b)
       /\ \/ /\ Len(sub) < SubCap
             /\ sub' = Append(sub, Posted(Fresh(b), b))
             /\ id' = [id EXCEPT ![b] = Fresh(b)]
             /\ UNCHANGED <<pc, started>>
          \/ /\ Len(sub) = SubCap
             /\ PostDone
             /\ UNCHANGED <<sub, id>>
  /\ UNCHANGED <<transaction, pending, input, failed, answer, cpl, firmware, faults>>

\* Identifiers exhausted, or the ring failed with or without publishing.
PostFails ==
  /\ Posting /\ Owned # {}
  /\ failed' = TRUE /\ pc' = "idle"
  /\ \/ next_packet = MaxPacket /\ UNCHANGED <<sub, faults>>
     \/ /\ Fault
        /\ \/ UNCHANGED sub
           \/ \E b \in Owned : /\ \A c \in Owned : b <= c
                               /\ Len(sub) < SubCap
                               /\ sub' = Append(sub, Posted(Fresh(b), b))
  /\ UNCHANGED <<id, next_packet, transaction, pending, input, started, answer, cpl, firmware>>

----------------------------------------------------------------------------
(* submit(), and command() giving up after its two seconds. *)

Submit ==
  /\ pc = "idle" /\ Available /\ pending = 0
  /\ transaction < MaxTrans
  /\ transaction' = transaction + 1
  /\ input' = transaction + 1
  /\ \/ /\ Len(sub) < SubCap
        /\ sub' = Append(sub, Ioctl(transaction + 1))
        /\ pending' = transaction + 1
        /\ UNCHANGED <<failed, faults>>
     \/ /\ Len(sub) = SubCap
        /\ UNCHANGED <<sub, pending, failed, faults>>
     \/ /\ Fault
        /\ \/ UNCHANGED sub
           \/ Len(sub) < SubCap /\ sub' = Append(sub, Ioctl(transaction + 1))
        /\ pending' = transaction + 1 /\ failed' = TRUE
  /\ UNCHANGED <<id, next_packet, started, pc, answer, cpl, firmware>>

\* quarantine(): the DMA memory stays with the firmware.
TimeOut ==
  /\ pc = "idle" /\ Available /\ pending # 0
  /\ failed' = TRUE
  /\ UNCHANGED <<id, next_packet, transaction, pending, input, started, pc, answer, sub, cpl, firmware, faults>>

----------------------------------------------------------------------------
(* poll_inner() after post(). *)

First == Head(cpl)

\* copy_buffer(): the buffer the firmware returns, if it is one it was given.
Named == {b \in Buffers : id[b] = First.id /\ (b \in Events) = (First.kind = "event")}

\* Mutated form: a response is taken for whatever is pending.
Correlated_Any == pending # 0

Correlated == pending # 0 /\ First.transaction = pending

PopNone ==
  /\ pc = "pop" /\ cpl = << >>
  /\ pc' = "idle"
  /\ UNCHANGED <<id, next_packet, transaction, pending, input, started, failed, answer, sub, cpl, firmware, faults>>

PopAck ==
  /\ pc = "pop" /\ cpl # << >> /\ First.kind = "ack"
  /\ cpl' = Tail(cpl) /\ pc' = "idle"
  /\ UNCHANGED <<id, next_packet, transaction, pending, input, started, failed, answer, sub, firmware, faults>>

PopEvent ==
  /\ pc = "pop" /\ cpl # << >> /\ First.kind = "event"
  /\ Named # {}
  /\ cpl' = Tail(cpl) /\ pc' = "idle"
  /\ \E b \in Named : id' = [id EXCEPT ![b] = 0]
  /\ UNCHANGED <<next_packet, transaction, pending, input, started, failed, answer, sub, firmware, faults>>

\* The response of the pending command: its buffer returns to the driver, the
\* request is wiped, the caller is answered.
PopResponse ==
  /\ pc = "pop" /\ cpl # << >> /\ First.kind = "response"
  /\ Correlated /\ Named # {}
  /\ cpl' = Tail(cpl) /\ pc' = "idle"
  /\ \E b \in Named : id' = [id EXCEPT ![b] = 0]
  /\ input' = 0 /\ pending' = 0
  /\ answer' = [asked |-> pending, got |-> First.transaction]
  /\ UNCHANGED <<next_packet, transaction, started, failed, sub, firmware, faults>>

\* A completion that correlates with nothing, or a ring that cannot be read.
PopFails ==
  /\ pc = "pop"
  /\ \/ /\ cpl # << >> /\ First.kind # "ack"
        /\ Named # {} => First.kind = "response" /\ ~Correlated
        /\ cpl' = Tail(cpl) /\ UNCHANGED faults
     \/ /\ Fault
        /\ cpl' \in {cpl} \cup {Tail(c) : c \in {cpl} \ {<< >>}}
  /\ failed' = TRUE /\ pc' = "idle"
  /\ UNCHANGED <<id, next_packet, transaction, pending, input, started, answer, sub, firmware>>

----------------------------------------------------------------------------
(* The firmware. *)

FwFetch ==
  /\ sub # << >>
  /\ \/ /\ Head(sub).kind = "post"
        /\ held' = held \cup {[id |-> Head(sub).id, buffer |-> Head(sub).buffer]}
        /\ UNCHANGED <<job, cpl, old>>
     \/ /\ Head(sub).kind = "ioctl" /\ job = 0 /\ Len(cpl) < CplCap
        /\ job' = Head(sub).id
        /\ cpl' = Append(cpl, Ack)
        /\ UNCHANGED <<held, old>>
  /\ sub' = Tail(sub)
  /\ UNCHANGED <<port, faults>>

Complete(h, c) ==
  /\ Len(cpl) < CplCap
  /\ held' = held \ {h} /\ old' = old \cup {c}
  /\ cpl' = Append(cpl, c)
  /\ UNCHANGED <<port, sub, faults>>

FwRespond ==
  /\ job # 0 /\ job' = 0
  /\ \E h \in held : h.buffer \notin Events /\ Complete(h, Response(h.id, job))

FwEvent ==
  /\ UNCHANGED job
  /\ \E h \in held : h.buffer \in Events /\ Complete(h, Event(h.id))

\* A completion that was sent before.
FwRepeat ==
  /\ Fault /\ Len(cpl) < CplCap
  /\ \E c \in old : cpl' = Append(cpl, c)
  /\ UNCHANGED <<port, sub, firmware>>

\* A command that was answered before is answered again, in another buffer.
FwAgain ==
  /\ Fault /\ Len(cpl) < CplCap
  /\ \E h \in held, c \in old :
       /\ h.buffer \notin Events /\ c.kind = "response"
       /\ held' = held \ {h}
       /\ cpl' = Append(cpl, Response(h.id, c.transaction))
  /\ UNCHANGED <<port, sub, job, old>>

----------------------------------------------------------------------------

Worker ==
  \/ Start \/ Poll \/ PostNone \/ PostOne \/ PostFails
  \/ PopNone \/ PopAck \/ PopEvent \/ PopResponse \/ PopFails

Next ==
  \/ Worker \/ Submit \/ TimeOut
  \/ FwFetch \/ FwRespond \/ FwEvent \/ FwRepeat \/ FwAgain

\* The worker is an own task that never stops polling a working port; a working
\* firmware consumes its ring and answers what it was asked.
Fairness == WF_vars(Worker) /\ WF_vars(FwFetch) /\ SF_vars(FwRespond)

Spec == Init /\ [][Next]_vars /\ Fairness

----------------------------------------------------------------------------

TypeOK ==
  /\ id \in [Buffers -> 0..MaxPacket + 1]
  /\ next_packet \in 0..MaxPacket + 1 /\ transaction \in 0..MaxTrans
  /\ pending \in 0..MaxTrans /\ input \in 0..MaxTrans /\ job \in 0..MaxTrans
  /\ started \in BOOLEAN /\ failed \in BOOLEAN
  /\ pc \in {"idle", "start", "post", "pop"}
  /\ Len(sub) <= SubCap /\ Len(cpl) <= CplCap
  /\ \A h \in held : h.id \in 1..MaxPacket + 1 /\ h.buffer \in Buffers

\* What the firmware may still write to: posted buffers, in its hands or queued.
FirmwareOwns ==
  {h.buffer : h \in held}
    \cup {sub[i].buffer : i \in {j \in 1..Len(sub) : sub[j].kind = "post"}}

\* No buffer has two owners: while the port works, a buffer the driver reads or
\* posts is not one the firmware may still write, even if completions repeat.
OneOwner == ~failed => Owned \cap FirmwareOwns = {}

\* The request the firmware fetches or executes is in the request buffer: no
\* later command and no wipe touches it before the correlated response.
RequestIntact ==
  ~failed =>
    /\ job # 0 => input = job
    /\ \A i \in 1..Len(sub) : sub[i].kind = "ioctl" => input = sub[i].id

\* The caller is given the response of the command it submitted.
AnswersTheCommand == answer.asked = answer.got

\* A submitted command is answered, or the port is quarantined.
CommandEnds == pending # 0 ~> pending = 0 \/ failed
=============================================================================
