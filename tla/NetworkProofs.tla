---------------------------- MODULE NetworkProofs ----------------------------
(***************************************************************************)
(* Proofs about the Wi-Fi driver's protocols, for any number of receive    *)
(* buffers, identifiers, requests and faults and rings of any depth: a     *)
(* control buffer has one owner and a request is intact while the firmware *)
(* may fetch it, requests stay within the queues' limit and in one place,  *)
(* and a claimed interrupt is accounted for until it is completed.         *)
(***************************************************************************)
EXTENDS MCNetwork, Integers, Sequences, FiniteSets, FiniteSetTheorems, TLAPS

----------------------------------------------------------------------------
(* Activity: the hold on the shared line. *)

\* The parties that will release the line: the handler, the worker, a token, and
\* the failed completion that nobody retries.
HandlerHolds == irq \in {"claim", "status", "ready"}
WorkerHolds == worker \in {"complete", "release"}

\* The invariant of the line: a masked line has one party, an open one none.
HInv ==
  /\ slot \in BOOLEAN /\ lost \in BOOLEAN /\ a_held \in BOOLEAN /\ armed \in BOOLEAN
  /\ a_status \in BOOLEAN /\ mask \in BOOLEAN
  /\ a_held <=> HandlerHolds \/ WorkerHolds \/ slot \/ lost
  /\ ~(HandlerHolds /\ (WorkerHolds \/ slot \/ lost))
  /\ ~(WorkerHolds /\ (slot \/ lost)) /\ ~(slot /\ lost)

LEMMA HoldInit == Activity!Init => HInv
BY DEF Activity!Init, HInv, HandlerHolds, WorkerHolds

\* The worker and the handler each hand the hold on; everyone else leaves it.
LEMMA HoldKept == HInv /\ [Activity!Next]_(Activity!vars) => HInv'
<1>. SUFFICES ASSUME HInv, [Activity!Next]_(Activity!vars) PROVE HInv'
  OBVIOUS
<1>. USE DEF HInv, HandlerHolds, WorkerHolds, Activity!line, Activity!device, Activity!sides
<1>1. CASE Activity!Worker
  <2>1. CASE Activity!Quiet
    BY <2>1 DEF Activity!Quiet
  <2>2. CASE Activity!Arm
    BY <2>2 DEF Activity!Arm
  <2>3. CASE Activity!Unmask
    BY <2>3 DEF Activity!Unmask
  <2>4. CASE Activity!Acknowledge
    BY <2>4 DEF Activity!Acknowledge
  <2>5. CASE Activity!Take
    BY <2>5 DEF Activity!Take
  <2>6. CASE Activity!Complete
    <3>1. worker = "complete" /\ ~slot /\ ~lost /\ ~HandlerHolds /\ UNCHANGED <<irq, lost, armed, a_status, mask>>
      BY <2>6 DEF Activity!Complete
    <3>2. worker' \in {"seen", "disable"} /\ (worker' = "seen" => a_held' = FALSE /\ slot' = slot)
          /\ (worker' = "disable" => slot' = TRUE /\ a_held' = a_held)
      BY <2>6 DEF Activity!Complete
    <3>3. a_held = TRUE /\ slot = FALSE /\ lost = FALSE
      BY <3>1
    <3>4. CASE worker' = "seen"
      <4>1. slot' = FALSE /\ lost' = FALSE /\ a_held' = FALSE /\ ~HandlerHolds'
        BY <3>1, <3>2, <3>3, <3>4
      <4>. QED
        BY <3>1, <3>4, <4>1
    <3>5. CASE worker' = "disable"
      BY <3>1, <3>2, <3>3, <3>5
    <3>. QED
      BY <3>2, <3>4, <3>5
  <2>7. CASE Activity!Seen
    BY <2>7 DEF Activity!Seen
  <2>8. CASE Activity!InspectRings
    BY <2>8 DEF Activity!InspectRings
  <2>9. CASE Activity!InspectQueue
    BY <2>9 DEF Activity!InspectQueue
  <2>10. CASE Activity!Wait
    BY <2>10 DEF Activity!Wait
  <2>11. CASE Activity!Register
    BY <2>11 DEF Activity!Register
  <2>12. CASE Activity!Recheck
    BY <2>12 DEF Activity!Recheck
  <2>13. CASE Activity!Woken
    BY <2>13 DEF Activity!Woken
  <2>14. CASE Activity!Disable
    BY <2>14 DEF Activity!Disable
  <2>15. CASE Activity!Mask
    BY <2>15 DEF Activity!Mask
  <2>16. CASE Activity!Disarm
    BY <2>16 DEF Activity!Disarm
  <2>17. CASE Activity!Release
    <3>1. worker = "release" /\ worker' = "gone" /\ ~slot /\ ~lost /\ ~HandlerHolds
          /\ UNCHANGED <<irq, slot, armed, a_status, mask>>
      BY <2>17 DEF Activity!Release
    <3>2. (a_held' = FALSE /\ lost' = lost) \/ (lost' = TRUE /\ a_held' = a_held)
      BY <2>17 DEF Activity!Release
    <3>3. a_held = TRUE
      BY <3>1
    <3>4. CASE a_held' = FALSE /\ lost' = lost
      BY <3>1, <3>4
    <3>5. CASE lost' = TRUE /\ a_held' = a_held
      BY <3>1, <3>3, <3>5
    <3>. QED
      BY <3>2, <3>4, <3>5
  <2>. QED
    BY <1>1, <2>1, <2>2, <2>3, <2>4, <2>5, <2>6, <2>7, <2>8, <2>9, <2>10, <2>11, <2>12, <2>13, <2>14, <2>15, <2>16, <2>17 DEF Activity!Worker
<1>2. CASE Activity!Handler
  <2>1. CASE Activity!Interrupt
    BY <2>1 DEF Activity!Interrupt
  <2>2. CASE Activity!ClaimArmed
    BY <2>2 DEF Activity!ClaimArmed
  <2>3. CASE Activity!ClaimStatus
    BY <2>3 DEF Activity!ClaimStatus
  <2>4. CASE Activity!Ready
    <3>1. irq = "ready" /\ ~WorkerHolds /\ ~slot /\ ~lost /\ UNCHANGED <<worker, armed, a_status, mask>>
      BY <2>4 DEF Activity!Ready
    <3>2. \/ irq' = "count" /\ slot' = TRUE /\ a_held' = a_held /\ lost' = lost
          \/ irq' = "idle" /\ slot' = slot /\ a_held' = FALSE /\ lost' = lost
          \/ irq' = "idle" /\ slot' = slot /\ a_held' = a_held /\ lost' = TRUE
      BY <2>4 DEF Activity!Ready
    <3>3. a_held = TRUE
      BY <3>1
    <3>4. CASE irq' = "count" /\ slot' = TRUE /\ a_held' = a_held /\ lost' = lost
      BY <3>1, <3>3, <3>4
    <3>5. CASE irq' = "idle" /\ slot' = slot /\ a_held' = FALSE /\ lost' = lost
      BY <3>1, <3>5
    <3>6. CASE irq' = "idle" /\ slot' = slot /\ a_held' = a_held /\ lost' = TRUE
      BY <3>1, <3>3, <3>6
    <3>. QED
      BY <3>2, <3>4, <3>5, <3>6
  <2>5. CASE Activity!Notify
    BY <2>5 DEF Activity!Notify
  <2>6. CASE Activity!WakeOne
    BY <2>6 DEF Activity!WakeOne
  <2>. QED
    BY <1>2, <2>1, <2>2, <2>3, <2>4, <2>5, <2>6 DEF Activity!Handler
<1>3. CASE \/ Activity!OtherRequests \/ Activity!FwPublish \/ Activity!FwDoorbell
           \/ Activity!Submit \/ Activity!SubmitNotify \/ Activity!SubmitWake
  <2>1. CASE Activity!OtherRequests
    BY <2>1 DEF Activity!OtherRequests
  <2>2. CASE Activity!FwPublish
    BY <2>2 DEF Activity!FwPublish
  <2>3. CASE Activity!FwDoorbell
    BY <2>3 DEF Activity!FwDoorbell
  <2>4. CASE Activity!Submit
    BY <2>4 DEF Activity!Submit
  <2>5. CASE Activity!SubmitNotify
    BY <2>5 DEF Activity!SubmitNotify
  <2>6. CASE Activity!SubmitWake
    BY <2>6 DEF Activity!SubmitWake
  <2>. QED
    BY <1>3, <2>1, <2>2, <2>3, <2>4, <2>5, <2>6
<1>4. CASE UNCHANGED Activity!vars
  BY <1>4 DEF Activity!vars
<1>. QED
  BY <1>1, <1>2, <1>3, <1>4 DEF Activity!Next

LEMMA SafeHold == HInv => Activity!HoldAccounted
BY DEF HInv, HandlerHolds, WorkerHolds, Activity!HoldAccounted
----------------------------------------------------------------------------
(* Control: one command and its buffers. *)

Message == [kind : {"post", "ioctl"}, id : Nat, buffer : Buffers \cup {0}]
Completion == [kind : {"response", "event", "ack"}, id : Nat, transaction : Nat]
Hand == [id : Nat, buffer : Buffers]
Posts == {i \in 1..Len(sub) : sub[i].kind = "post"}
Ioctls == {i \in 1..Len(sub) : sub[i].kind = "ioctl"}

\* Every completion of a buffer that was sent, and may be sent again.
Returns == old \cup {c \in {cpl[i] : i \in 1..Len(cpl)} : c.kind # "ack"}

CTyped ==
  /\ sub \in Seq(Message) /\ cpl \in Seq(Completion)
  /\ held \subseteq Hand /\ old \subseteq Completion
  /\ \A c \in old : c.kind # "ack"
  /\ \A i \in Posts : sub[i].buffer \in Buffers
  /\ id \in [Buffers -> Nat] /\ next_packet \in Nat
  /\ transaction \in Nat /\ pending \in Nat /\ input \in Nat /\ job \in Nat

\* A buffer the firmware has, or will fetch, is posted under its identifier; an
\* identifier is used once, and one that was returned is used up.
Lent ==
  /\ \A h \in held : h.id # 0 /\ id[h.buffer] = h.id
  /\ \A i \in Posts : sub[i].id # 0 /\ id[sub[i].buffer] = sub[i].id
  /\ \A i, j \in Posts : sub[i].id = sub[j].id => i = j
  /\ \A i \in Posts, h \in held : sub[i].id # h.id
  /\ \A b \in Buffers : id[b] <= next_packet
  /\ \A b, c \in Buffers : id[b] = id[c] /\ id[b] # 0 => b = c
  /\ \A c \in Returns :
       /\ c.id \in 1..next_packet
       /\ \A h \in held : h.id # c.id
       /\ \A i \in Posts : sub[i].id # c.id

\* The command the firmware has or will fetch is the pending one, whose answer
\* was not sent yet.
Commanded ==
  /\ pending # 0 => pending = transaction /\ input = pending
  /\ job # 0 => pending = job /\ Ioctls = {} /\ \A c \in Returns : c.transaction # job
  /\ \A i \in Ioctls : /\ sub[i].id = pending /\ pending # 0 /\ job = 0
                       /\ \A j \in Ioctls : i = j
                       /\ \A c \in Returns : c.transaction # pending
  /\ \A c \in Returns : c.transaction <= transaction

\* The invariant of the control port; a quarantined one owns nothing.
CInv ==
  /\ CTyped /\ failed \in BOOLEAN
  /\ ~failed => Lent /\ Commanded
  /\ answer.asked = answer.got

LEMMA TailOf ==
  ASSUME NEW S, NEW s \in Seq(S), s # << >>
  PROVE  /\ Tail(s) \in Seq(S) /\ Len(Tail(s)) = Len(s) - 1 /\ Head(s) = s[1]
         /\ 1 \in 1..Len(s) /\ s[1] \in S
         /\ \A i \in 1..Len(Tail(s)) : i + 1 \in 1..Len(s) /\ Tail(s)[i] = s[i + 1]
OBVIOUS

LEMMA AppendOf ==
  ASSUME NEW S, NEW s \in Seq(S), NEW e \in S
  PROVE  /\ Append(s, e) \in Seq(S) /\ Len(Append(s, e)) = Len(s) + 1
         /\ Append(s, e)[Len(s) + 1] = e
         /\ \A i \in 1..Len(s) : Append(s, e)[i] = s[i]
         /\ 1..Len(Append(s, e)) = 1..Len(s) \cup {Len(s) + 1}
OBVIOUS

LEMMA ControlInit == Control!Init => CInv
<1>. SUFFICES ASSUME Control!Init PROVE CInv
  OBVIOUS
<1>1. sub = << >> /\ cpl = << >> /\ held = {} /\ old = {} /\ id = [b \in Buffers |-> 0]
  BY DEF Control!Init
<1>2. Posts = {} /\ Ioctls = {} /\ Returns = {}
  BY <1>1 DEF Posts, Ioctls, Returns
<1>3. CTyped
  BY <1>1, <1>2 DEF Control!Init, CTyped
<1>4. Lent /\ Commanded
  BY <1>1, <1>2 DEF Control!Init, Lent, Commanded
<1>. QED
  BY <1>3, <1>4 DEF Control!Init, CInv

----------------------------------------------------------------------------
(* What the steps do to the rings, in the words of the invariant. *)

\* A completion that is taken or thrown away leaves no new one.
LEMMA CompletionTaken ==
  ASSUME CTyped, cpl # << >>, cpl' = Tail(cpl), old' = old
  PROVE  cpl' \in Seq(Completion) /\ Returns' \subseteq Returns
BY TailOf DEF CTyped, Returns

LEMMA CompletionFirst ==
  ASSUME CTyped, cpl # << >>, Control!First.kind # "ack"
  PROVE  Control!First \in Returns /\ Control!First \in Completion
BY TailOf DEF CTyped, Returns, Control!First

LEMMA CompletionSent ==
  ASSUME CTyped, NEW c \in Completion, cpl' = Append(cpl, c)
  PROVE  /\ cpl' \in Seq(Completion)
         /\ c.kind = "ack" /\ old' = old => Returns' \subseteq Returns
         /\ old' = old \/ old' = old \cup {c} => Returns' \subseteq Returns \cup {c}
<1>1. cpl' \in Seq(Completion) /\ \A i \in 1..Len(cpl') : cpl'[i] \in {cpl[j] : j \in 1..Len(cpl)} \cup {c}
  BY AppendOf DEF CTyped
<1>. QED
  BY <1>1 DEF Returns

LEMMA MessageFetched ==
  ASSUME CTyped, sub # << >>, sub' = Tail(sub)
  PROVE  /\ sub' \in Seq(Message)
         /\ \A i \in Posts' : i + 1 \in Posts /\ sub'[i] = sub[i + 1] /\ i + 1 # 1
         /\ \A i \in Ioctls' : i + 1 \in Ioctls /\ sub'[i] = sub[i + 1] /\ i + 1 # 1
         /\ Head(sub) = sub[1] /\ sub[1] \in Message
         /\ sub[1].kind = "post" => 1 \in Posts
         /\ sub[1].kind = "ioctl" => 1 \in Ioctls
         /\ Posts' \subseteq Int /\ Ioctls' \subseteq Int
<1>1. sub \in Seq(Message)
  BY DEF CTyped
<1>2. /\ Tail(sub) \in Seq(Message) /\ Len(Tail(sub)) = Len(sub) - 1 /\ Head(sub) = sub[1]
      /\ 1 \in 1..Len(sub) /\ sub[1] \in Message
      /\ \A i \in 1..Len(Tail(sub)) : i + 1 \in 1..Len(sub) /\ Tail(sub)[i] = sub[i + 1]
  BY <1>1, TailOf
<1>. QED
  BY <1>2 DEF Posts, Ioctls

LEMMA MessageSent ==
  ASSUME CTyped, NEW m \in Message, sub' = Append(sub, m)
  PROVE  /\ sub' \in Seq(Message)
         /\ \A i \in 1..Len(sub) : sub'[i] = sub[i]
         /\ sub'[Len(sub) + 1] = m
         /\ Posts' = Posts \cup (IF m.kind = "post" THEN {Len(sub) + 1} ELSE {})
         /\ Ioctls' = Ioctls \cup (IF m.kind = "ioctl" THEN {Len(sub) + 1} ELSE {})
         /\ Posts \subseteq 1..Len(sub) /\ Ioctls \subseteq 1..Len(sub)
<1>1. sub \in Seq(Message)
  BY DEF CTyped
<1>2. /\ Append(sub, m) \in Seq(Message) /\ Len(Append(sub, m)) = Len(sub) + 1
      /\ Append(sub, m)[Len(sub) + 1] = m
      /\ \A i \in 1..Len(sub) : Append(sub, m)[i] = sub[i]
      /\ 1..Len(Append(sub, m)) = 1..Len(sub) \cup {Len(sub) + 1}
  BY <1>1, AppendOf
<1>3. Posts' = {i \in 1..Len(sub) \cup {Len(sub) + 1} : sub'[i].kind = "post"}
  BY <1>2 DEF Posts
<1>4. Ioctls' = {i \in 1..Len(sub) \cup {Len(sub) + 1} : sub'[i].kind = "ioctl"}
  BY <1>2 DEF Ioctls
<1>5. Posts' = Posts \cup (IF m.kind = "post" THEN {Len(sub) + 1} ELSE {})
  BY <1>2, <1>3 DEF Posts
<1>6. Ioctls' = Ioctls \cup (IF m.kind = "ioctl" THEN {Len(sub) + 1} ELSE {})
  BY <1>2, <1>4 DEF Ioctls
<1>. QED
  BY <1>2, <1>5, <1>6 DEF Posts, Ioctls

----------------------------------------------------------------------------
(* Types. *)

\* What the queues hand out, for the typing of the steps.
LEMMA MessageTypes ==
  ASSUME CTyped, NEW b \in Buffers, NEW n \in Nat
  PROVE  /\ Control!Posted(n, b) \in Message /\ Control!Ioctl(n) \in Message
         /\ Control!Posted(n, b).kind = "post" /\ Control!Ioctl(n).kind = "ioctl"
         /\ Control!Posted(n, b).id = n /\ Control!Ioctl(n).id = n
         /\ Control!Posted(n, b).buffer = b
         /\ Control!Fresh(b) \in Nat /\ Control!Fresh(b) > next_packet
BY DEF CTyped, Message, Control!Posted, Control!Ioctl, Control!Fresh

LEMMA PostTyped ==
  ASSUME CTyped, NEW m \in Message, sub' = Append(sub, m),
         m.kind = "post" => m.buffer \in Buffers
  PROVE  sub' \in Seq(Message) /\ \A i \in Posts' : sub'[i].buffer \in Buffers
<1>1. /\ sub' \in Seq(Message)
      /\ \A i \in 1..Len(sub) : sub'[i] = sub[i]
      /\ sub'[Len(sub) + 1] = m
      /\ Posts' = Posts \cup (IF m.kind = "post" THEN {Len(sub) + 1} ELSE {})
      /\ Posts \subseteq 1..Len(sub)
  BY MessageSent
<1>. QED
  BY <1>1 DEF CTyped

LEMMA StepTyped ==
  CInv /\ [Control!Next]_(Control!vars) =>
    CTyped' /\ failed' \in BOOLEAN /\ answer'.asked = answer'.got
<1>. SUFFICES ASSUME CInv, [Control!Next]_(Control!vars)
              PROVE  CTyped' /\ failed' \in BOOLEAN /\ answer'.asked = answer'.got
  OBVIOUS
<1>. USE DEF Control!port, Control!firmware
<1>0. CTyped /\ failed \in BOOLEAN /\ answer.asked = answer.got
  BY DEF CInv
<1>1. CASE Control!Start \/ Control!Poll \/ Control!PostNone \/ Control!TimeOut
           \/ Control!PopNone \/ UNCHANGED Control!vars
  BY <1>0, <1>1 DEF Control!Start, Control!Poll, Control!PostNone, Control!TimeOut, Control!PopNone,
     Control!vars, CTyped, Posts
<1>2. CASE Control!PostOne
  <2>1. PICK b \in Buffers :
          /\ next_packet' = Control!Fresh(b)
          /\ \/ /\ sub' = Append(sub, Control!Posted(Control!Fresh(b), b))
                /\ id' = [id EXCEPT ![b] = Control!Fresh(b)]
             \/ UNCHANGED <<sub, id>>
    BY <1>2 DEF Control!PostOne, Control!Owned
  <2>2. UNCHANGED <<transaction, pending, input, failed, answer, cpl, held, job, old>>
    BY <1>2 DEF Control!PostOne
  <2>3. Control!Fresh(b) \in Nat
    BY <1>0, MessageTypes DEF CTyped
  <2>4. sub' \in Seq(Message) /\ \A i \in Posts' : sub'[i].buffer \in Buffers
    <3>1. CASE UNCHANGED <<sub, id>>
      BY <1>0, <3>1 DEF CTyped, Posts
    <3>2. CASE sub' = Append(sub, Control!Posted(Control!Fresh(b), b))
      <4>1. Control!Posted(Control!Fresh(b), b) \in Message
            /\ Control!Posted(Control!Fresh(b), b).buffer \in Buffers
        BY <1>0, <2>3, MessageTypes
      <4>. QED
        BY <1>0, <3>2, <4>1, PostTyped
    <3>. QED
      BY <2>1, <3>1, <3>2
  <2>5. id' \in [Buffers -> Nat]
    BY <1>0, <2>1, <2>3 DEF CTyped
  <2>. QED
    BY <1>0, <2>1, <2>2, <2>3, <2>4, <2>5 DEF CTyped
<1>3. CASE Control!PostFails
  <2>1. UNCHANGED <<id, next_packet, transaction, pending, input, answer, cpl, held, job, old>> /\ failed' = TRUE
    BY <1>3 DEF Control!PostFails
  <2>2. UNCHANGED sub \/ \E b \in Buffers : sub' = Append(sub, Control!Posted(Control!Fresh(b), b))
    BY <1>3 DEF Control!PostFails, Control!Owned
  <2>3. sub' \in Seq(Message) /\ \A i \in Posts' : sub'[i].buffer \in Buffers
    <3>1. CASE UNCHANGED sub
      BY <1>0, <3>1 DEF CTyped, Posts
    <3>2. ASSUME NEW b \in Buffers, sub' = Append(sub, Control!Posted(Control!Fresh(b), b))
          PROVE  sub' \in Seq(Message) /\ \A i \in Posts' : sub'[i].buffer \in Buffers
      <4>0. Control!Fresh(b) \in Nat
        BY <1>0, MessageTypes DEF CTyped
      <4>1. Control!Posted(Control!Fresh(b), b) \in Message
            /\ Control!Posted(Control!Fresh(b), b).buffer \in Buffers
        BY <1>0, <4>0, MessageTypes
      <4>. QED
        BY <1>0, <3>2, <4>1, PostTyped
    <3>. QED
      BY <2>2, <3>1, <3>2
  <2>. QED
    BY <1>0, <2>1, <2>3 DEF CTyped
<1>4. CASE Control!Submit
  <2>1. /\ transaction' = transaction + 1 /\ input' = transaction + 1
        /\ UNCHANGED <<id, next_packet, answer, cpl, held, job, old>>
        /\ pending' \in {pending, transaction + 1} /\ failed' \in {failed, TRUE}
        /\ UNCHANGED sub \/ sub' = Append(sub, Control!Ioctl(transaction + 1))
    BY <1>4 DEF Control!Submit
  <2>2. transaction + 1 \in Nat
    BY <1>0 DEF CTyped
  <2>3. sub' \in Seq(Message) /\ \A i \in Posts' : sub'[i].buffer \in Buffers
    <3>1. CASE UNCHANGED sub
      BY <1>0, <3>1 DEF CTyped, Posts
    <3>2. CASE sub' = Append(sub, Control!Ioctl(transaction + 1))
      <4>1. Control!Ioctl(transaction + 1) \in Message /\ Control!Ioctl(transaction + 1).kind = "ioctl"
        BY <2>2 DEF Control!Ioctl, Message
      <4>. QED
        BY <1>0, <3>2, <4>1, PostTyped
    <3>. QED
      BY <2>1, <3>1, <3>2
  <2>. QED
    BY <1>0, <2>1, <2>2, <2>3 DEF CTyped
<1>5. CASE Control!PopAck \/ Control!PopEvent \/ Control!PopResponse
  <2>1. cpl # << >> /\ cpl' = Tail(cpl) /\ UNCHANGED <<next_packet, transaction, failed, sub, held, job, old>>
    BY <1>5 DEF Control!PopAck, Control!PopEvent, Control!PopResponse
  <2>2. id' \in [Buffers -> Nat]
    BY <1>0, <1>5 DEF Control!PopAck, Control!PopEvent, Control!PopResponse, CTyped
  <2>3. pending' \in Nat /\ input' \in Nat /\ answer'.asked = answer'.got
    BY <1>0, <1>5 DEF Control!PopAck, Control!PopEvent, Control!PopResponse, Control!Correlated, CTyped
  <2>4. cpl' \in Seq(Completion)
    BY <1>0, <2>1, CompletionTaken
  <2>. QED
    BY <1>0, <2>1, <2>2, <2>3, <2>4 DEF CTyped, Posts
<1>6. CASE Control!PopFails
  <2>1. /\ UNCHANGED <<id, next_packet, transaction, pending, input, answer, sub, held, job, old>>
        /\ failed' = TRUE /\ (cpl' = cpl \/ (cpl # << >> /\ cpl' = Tail(cpl)))
    BY <1>6 DEF Control!PopFails
  <2>2. cpl' \in Seq(Completion)
    BY <1>0, <2>1, CompletionTaken DEF CTyped
  <2>. QED
    BY <1>0, <2>1, <2>2 DEF CTyped, Posts
<1>7. CASE Control!FwFetch
  <2>1. /\ sub # << >> /\ sub' = Tail(sub)
        /\ UNCHANGED <<id, next_packet, transaction, pending, input, failed, answer, old>>
    BY <1>7 DEF Control!FwFetch
  <2>2. /\ sub' \in Seq(Message) /\ Head(sub) = sub[1] /\ sub[1] \in Message
        /\ sub[1].kind = "post" => sub[1].buffer \in Buffers
        /\ \A i \in Posts' : sub'[i].buffer \in Buffers
    BY <1>0, <2>1, MessageFetched DEF CTyped
  <2>3. CASE Head(sub).kind = "post" /\ held' = held \cup {[id |-> Head(sub).id, buffer |-> Head(sub).buffer]}
             /\ UNCHANGED <<job, cpl, old>>
    <3>1. sub[1].id \in Nat /\ sub[1].buffer \in Buffers
      BY <2>2, <2>3 DEF Message
    <3>2. held' \subseteq Hand
      BY <1>0, <2>2, <2>3, <3>1 DEF CTyped, Hand
    <3>. QED
      BY <1>0, <2>1, <2>2, <2>3, <3>2 DEF CTyped
  <2>4. CASE job' = Head(sub).id /\ cpl' = Append(cpl, Control!Ack) /\ UNCHANGED <<held, old>>
    <3>1. Control!Ack \in Completion
      BY NetworkAssumption DEF Control!Ack, Completion
    <3>2. cpl' \in Seq(Completion)
      BY <1>0, <2>4, <3>1, CompletionSent
    <3>. QED
      BY <1>0, <2>1, <2>2, <2>4, <3>2 DEF CTyped, Message
  <2>. QED
    BY <1>7, <2>3, <2>4 DEF Control!FwFetch
<1>8. CASE Control!FwRespond \/ Control!FwEvent \/ Control!FwRepeat \/ Control!FwAgain
  <2>1. /\ UNCHANGED <<id, next_packet, transaction, pending, input, failed, answer, sub>>
        /\ job' \in {job, 0} /\ held' \subseteq held
    BY <1>8 DEF Control!FwRespond, Control!FwEvent, Control!FwRepeat, Control!FwAgain, Control!Complete
  <2>2. \E c \in Completion : c.kind # "ack" /\ cpl' = Append(cpl, c) /\ old' \in {old, old \cup {c}}
    <3>1. CASE Control!FwRespond
      <4>1. PICK h \in held : Control!Complete(h, Control!Response(h.id, job))
        BY <3>1 DEF Control!FwRespond
      <4>. QED
        BY <1>0, <4>1 DEF Control!Complete, Control!Response, CTyped, Hand, Completion
    <3>2. CASE Control!FwEvent
      <4>1. PICK h \in held : Control!Complete(h, Control!Event(h.id))
        BY <3>2 DEF Control!FwEvent
      <4>. QED
        BY <1>0, <4>1 DEF Control!Complete, Control!Event, CTyped, Hand, Completion
    <3>3. CASE Control!FwRepeat
      BY <1>0, <3>3 DEF Control!FwRepeat, CTyped
    <3>4. CASE Control!FwAgain
      <4>1. PICK h \in held, c \in old : cpl' = Append(cpl, Control!Response(h.id, c.transaction))
        BY <3>4 DEF Control!FwAgain
      <4>2. old' = old
        BY <3>4 DEF Control!FwAgain
      <4>. QED
        BY <1>0, <4>1, <4>2 DEF Control!Response, CTyped, Hand, Completion
    <3>. QED
      BY <1>8, <3>1, <3>2, <3>3, <3>4
  <2>3. PICK c \in Completion : c.kind # "ack" /\ cpl' = Append(cpl, c) /\ old' \in {old, old \cup {c}}
    BY <2>2
  <2>4. cpl' \in Seq(Completion)
    BY <1>0, <2>3, CompletionSent
  <2>. QED
    BY <1>0, <2>1, <2>3, <2>4 DEF CTyped, Posts
<1>. QED
  BY <1>1, <1>2, <1>3, <1>4, <1>5, <1>6, <1>7, <1>8 DEF Control!Next, Control!Worker

----------------------------------------------------------------------------
(* The buffers. *)

\* Steps that neither lend nor take back a buffer.
LEMMA LentAlike ==
  ASSUME Lent, UNCHANGED id, held' = held, Returns' \subseteq Returns,
         next_packet \in Nat, next_packet' \in Nat, next_packet' >= next_packet,
         Posts' = Posts, \A i \in Posts : sub'[i] = sub[i], id \in [Buffers -> Nat]
  PROVE  Lent'
BY DEF Lent

\* A buffer that is taken back was returned, and its identifier is used up.
LEMMA LentReturned ==
  ASSUME CTyped, Lent, UNCHANGED <<next_packet, sub, held>>, Returns' \subseteq Returns,
         NEW c \in Returns, NEW b \in Buffers, id[b] = c.id, id' = [id EXCEPT ![b] = 0]
  PROVE  Lent'
<1>1. \A h \in held : h.buffer \in Buffers /\ h.buffer # b
  BY DEF CTyped, Lent, Hand
<1>2. \A i \in Posts : sub[i].buffer \in Buffers /\ sub[i].buffer # b
  BY DEF CTyped, Lent
<1>3. \A a \in Buffers : id'[a] = IF a = b THEN 0 ELSE id[a]
  BY DEF CTyped
<1>4. Posts' = Posts /\ next_packet \in Nat /\ id \in [Buffers -> Nat]
  BY DEF Posts, CTyped
<1>. QED
  BY <1>1, <1>2, <1>3, <1>4 DEF Lent

\* The firmware gives a buffer back.
LEMMA LentSpent ==
  ASSUME CTyped, Lent, UNCHANGED <<next_packet, sub, id>>,
         NEW h \in held, held' = held \ {h},
         NEW c, c.id = h.id, Returns' \subseteq Returns \cup {c}
  PROVE  Lent'
<1>1. h.buffer \in Buffers /\ id[h.buffer] = h.id /\ h.id # 0 /\ h \in Hand
  BY DEF CTyped, Lent, Hand
<1>2. \A g \in held' : g.id # h.id
  <2>1. SUFFICES ASSUME NEW g \in held, g.id = h.id PROVE g = h
    OBVIOUS
  <2>2. g.buffer \in Buffers /\ id[g.buffer] = g.id /\ g \in Hand
    BY DEF CTyped, Lent, Hand
  <2>3. g.buffer = h.buffer
    BY <1>1, <2>1, <2>2 DEF Lent
  <2>. QED
    BY <1>1, <2>1, <2>2, <2>3 DEF Hand
<1>3. \A i \in Posts : sub[i].id # h.id
  BY DEF Lent
<1>4. h.id \in 1..next_packet
  BY <1>1 DEF Lent, CTyped
<1>5. Posts' = Posts /\ held' \subseteq held
  BY DEF Posts
<1>. QED
  BY <1>2, <1>3, <1>4, <1>5 DEF Lent

\* The firmware takes a posted buffer.
LEMMA LentFetched ==
  ASSUME CTyped, Lent, UNCHANGED <<next_packet, id, cpl, old>>,
         sub # << >>, sub' = Tail(sub), sub[1].kind = "post",
         held' = held \cup {[id |-> sub[1].id, buffer |-> sub[1].buffer]}
  PROVE  Lent'
<1>. DEFINE left == sub'
            posts == Posts'
            hands == held'
            g == [id |-> sub[1].id, buffer |-> sub[1].buffer]
<1>1. /\ \A i \in posts : i + 1 \in Posts /\ left[i] = sub[i + 1] /\ i + 1 # 1 /\ i \in Int
      /\ 1 \in Posts
  BY MessageFetched
<1>2. Returns' = Returns
  BY DEF Returns
<1>3. hands = held \cup {g} /\ g.id = sub[1].id /\ g.buffer = sub[1].buffer
  OBVIOUS
<1>. HIDE DEF left, posts, hands, g
<1>4. SUFFICES /\ \A h \in hands : h.id # 0 /\ id[h.buffer] = h.id
               /\ \A i \in posts : left[i].id # 0 /\ id[left[i].buffer] = left[i].id
               /\ \A i, j \in posts : left[i].id = left[j].id => i = j
               /\ \A i \in posts, h \in hands : left[i].id # h.id
               /\ \A c \in Returns :
                    /\ c.id \in 1..next_packet
                    /\ \A h \in hands : h.id # c.id
                    /\ \A i \in posts : left[i].id # c.id
  BY <1>2 DEF Lent, left, posts, hands
<1>5. /\ \A h \in held : h.id # 0 /\ id[h.buffer] = h.id
      /\ \A i \in Posts : sub[i].id # 0 /\ id[sub[i].buffer] = sub[i].id
      /\ \A i, j \in Posts : sub[i].id = sub[j].id => i = j
      /\ \A i \in Posts, h \in held : sub[i].id # h.id
      /\ \A c \in Returns :
           /\ c.id \in 1..next_packet
           /\ \A h \in held : h.id # c.id
           /\ \A i \in Posts : sub[i].id # c.id
  BY DEF Lent
<1>6. ASSUME NEW i \in posts PROVE i + 1 \in Posts /\ left[i] = sub[i + 1] /\ i + 1 # 1 /\ i \in Int
  BY <1>1
<1>7. ASSUME NEW i \in posts PROVE left[i].id # 0 /\ id[left[i].buffer] = left[i].id
  BY <1>5, <1>6
<1>8. ASSUME NEW i \in posts, NEW j \in posts, left[i].id = left[j].id PROVE i = j
  <2>1. i + 1 = j + 1
    BY <1>5, <1>6, <1>8
  <2>. QED
    BY <1>6, <2>1
<1>9. ASSUME NEW i \in posts PROVE \A h \in hands : left[i].id # h.id
  BY <1>1, <1>3, <1>5, <1>6
<1>10. ASSUME NEW c \in Returns PROVE (\A h \in hands : h.id # c.id) /\ \A i \in posts : left[i].id # c.id
  BY <1>1, <1>3, <1>5, <1>6
<1>11. \A h \in hands : h.id # 0 /\ id[h.buffer] = h.id
  BY <1>1, <1>3, <1>5
<1>. QED
  BY <1>5, <1>7, <1>8, <1>9, <1>10, <1>11

\* The driver posts a buffer it owns, under an identifier nobody has seen.
LEMMA LentPosted ==
  ASSUME CTyped, Lent, UNCHANGED <<held, cpl, old>>,
         NEW b \in Buffers, id[b] = 0, NEW n \in Nat, n > next_packet, next_packet' = n,
         id' = [id EXCEPT ![b] = n], sub' = Append(sub, Control!Posted(n, b))
  PROVE  Lent'
<1>. DEFINE mail == sub'
            posts == Posts'
            ids == id'
            k == Len(sub) + 1
<1>1. /\ \A i \in Posts : mail[i] = sub[i]
      /\ mail[k].id = n /\ mail[k].buffer = b
      /\ posts = Posts \cup {k} /\ k \notin Posts
  <2>1. Control!Posted(n, b) \in Message /\ Control!Posted(n, b).kind = "post"
        /\ Control!Posted(n, b).id = n /\ Control!Posted(n, b).buffer = b
    BY MessageTypes
  <2>2. /\ \A i \in 1..Len(sub) : sub'[i] = sub[i]
        /\ sub'[Len(sub) + 1] = Control!Posted(n, b)
        /\ Posts' = Posts \cup {Len(sub) + 1}
        /\ Posts \subseteq 1..Len(sub)
    BY <2>1, MessageSent
  <2>3. Len(sub) \in Nat
    BY DEF CTyped
  <2>. QED
    BY <2>1, <2>2, <2>3
<1>2. \A a \in Buffers : ids[a] = IF a = b THEN n ELSE id[a]
  BY DEF CTyped
<1>3. Returns' = Returns /\ next_packet \in Nat /\ id \in [Buffers -> Nat]
  BY DEF Returns, CTyped
<1>4. /\ \A h \in held : h.buffer \in Buffers
      /\ \A i \in Posts : sub[i].buffer \in Buffers
  BY DEF CTyped, Hand
<1>. HIDE DEF mail, posts, ids, k
<1>5. SUFFICES /\ \A h \in held : h.id # 0 /\ ids[h.buffer] = h.id
               /\ \A i \in posts : mail[i].id # 0 /\ ids[mail[i].buffer] = mail[i].id
               /\ \A i, j \in posts : mail[i].id = mail[j].id => i = j
               /\ \A i \in posts, h \in held : mail[i].id # h.id
               /\ \A a \in Buffers : ids[a] <= n
               /\ \A a, c \in Buffers : ids[a] = ids[c] /\ ids[a] # 0 => a = c
               /\ \A c \in Returns :
                    /\ c.id \in 1..n
                    /\ \A h \in held : h.id # c.id
                    /\ \A i \in posts : mail[i].id # c.id
  BY <1>3 DEF Lent, mail, posts, ids
<1>6. /\ \A h \in held : h.id # 0 /\ id[h.buffer] = h.id
      /\ \A i \in Posts : sub[i].id # 0 /\ id[sub[i].buffer] = sub[i].id
      /\ \A i, j \in Posts : sub[i].id = sub[j].id => i = j
      /\ \A i \in Posts, h \in held : sub[i].id # h.id
      /\ \A a \in Buffers : id[a] <= next_packet
      /\ \A a, c \in Buffers : id[a] = id[c] /\ id[a] # 0 => a = c
      /\ \A c \in Returns :
           /\ c.id \in 1..next_packet
           /\ \A h \in held : h.id # c.id
           /\ \A i \in Posts : sub[i].id # c.id
  BY DEF Lent
<1>7. /\ \A h \in held : h.buffer # b /\ h.id # n
      /\ \A i \in Posts : sub[i].buffer # b /\ sub[i].id # n
      /\ \A a \in Buffers : id[a] # n
      /\ \A c \in Returns : c.id # n
  BY <1>3, <1>4, <1>6
<1>8. \A h \in held : h.id # 0 /\ ids[h.buffer] = h.id
  BY <1>2, <1>4, <1>6, <1>7
<1>9. \A i \in posts : mail[i].id # 0 /\ ids[mail[i].buffer] = mail[i].id
  BY <1>1, <1>2, <1>4, <1>6, <1>7
<1>10. \A i, j \in posts : mail[i].id = mail[j].id => i = j
  BY <1>1, <1>6, <1>7
<1>11. \A i \in posts, h \in held : mail[i].id # h.id
  BY <1>1, <1>6, <1>7
<1>12. \A a \in Buffers : ids[a] <= n
  BY <1>2, <1>3, <1>6
<1>13. \A a, c \in Buffers : ids[a] = ids[c] /\ ids[a] # 0 => a = c
  BY <1>2, <1>3, <1>6, <1>7
<1>14. \A c \in Returns :
         /\ c.id \in 1..n
         /\ \A h \in held : h.id # c.id
         /\ \A i \in posts : mail[i].id # c.id
  BY <1>1, <1>3, <1>6, <1>7
<1>. QED
  BY <1>8, <1>9, <1>10, <1>11, <1>12, <1>13, <1>14

LEMMA LentKept == CInv /\ [Control!Next]_(Control!vars) /\ ~failed' => Lent'
<1>. SUFFICES ASSUME CInv, [Control!Next]_(Control!vars), ~failed' PROVE Lent'
  OBVIOUS
<1>. USE DEF Control!port, Control!firmware
<1>1. ~failed
  <2>1. ~failed \/ failed' = failed \/ failed' = TRUE
    BY DEF Control!Next, Control!Worker, Control!vars, Control!Start, Control!Poll, Control!PostNone,
       Control!PostOne, Control!PostFails, Control!PopNone, Control!PopAck, Control!PopEvent,
       Control!PopResponse, Control!PopFails, Control!Submit, Control!TimeOut, Control!FwFetch,
       Control!FwRespond, Control!FwEvent, Control!FwRepeat, Control!FwAgain, Control!Available,
       Control!Complete
  <2>. QED
    BY <2>1 DEF CInv
<1>2. CTyped /\ Lent /\ Commanded
  BY <1>1 DEF CInv
<1>3. next_packet \in Nat /\ id \in [Buffers -> Nat]
  BY <1>2 DEF CTyped
<1>4. CASE Control!Start \/ Control!Poll \/ Control!PostNone \/ Control!PopNone
           \/ UNCHANGED Control!vars
  <2>1. UNCHANGED <<id, held, next_packet, sub, cpl, old>>
    BY <1>4 DEF Control!Start, Control!Poll, Control!PostNone, Control!PopNone, Control!vars
  <2>. QED
    BY <1>2, <1>3, <2>1, LentAlike DEF Posts, Returns
<1>5. CASE Control!PostOne
  <2>1. PICK b \in Buffers :
          /\ id[b] = 0 /\ next_packet' = Control!Fresh(b)
          /\ \/ /\ sub' = Append(sub, Control!Posted(Control!Fresh(b), b))
                /\ id' = [id EXCEPT ![b] = Control!Fresh(b)]
             \/ UNCHANGED <<sub, id>>
    BY <1>5 DEF Control!PostOne, Control!Owned
  <2>2. UNCHANGED <<held, cpl, old>>
    BY <1>5 DEF Control!PostOne
  <2>3. Control!Fresh(b) \in Nat /\ Control!Fresh(b) > next_packet
    BY <1>2, MessageTypes DEF CTyped
  <2>4. CASE UNCHANGED <<sub, id>>
    BY <1>2, <1>3, <2>1, <2>2, <2>3, <2>4, LentAlike DEF Posts, Returns
  <2>5. CASE /\ sub' = Append(sub, Control!Posted(Control!Fresh(b), b))
             /\ id' = [id EXCEPT ![b] = Control!Fresh(b)]
    BY <1>2, <2>1, <2>2, <2>3, <2>5, LentPosted
  <2>. QED
    BY <2>1, <2>4, <2>5
<1>6. CASE Control!Submit
  <2>1. UNCHANGED <<id, held, next_packet, cpl, old>>
        /\ (sub' = sub \/ sub' = Append(sub, Control!Ioctl(transaction + 1)))
    BY <1>6 DEF Control!Submit
  <2>2. Posts' = Posts /\ \A i \in Posts : sub'[i] = sub[i]
    <3>1. Control!Ioctl(transaction + 1) \in Message /\ Control!Ioctl(transaction + 1).kind = "ioctl"
      BY <1>2 DEF Control!Ioctl, Message, CTyped
    <3>2. CASE sub' = sub
      BY <3>2 DEF Posts
    <3>3. CASE sub' = Append(sub, Control!Ioctl(transaction + 1))
      BY <1>2, <3>1, <3>3, MessageSent
    <3>. QED
      BY <2>1, <3>2, <3>3
  <2>. QED
    BY <1>2, <1>3, <2>1, <2>2, LentAlike DEF Returns
<1>7. CASE Control!PopAck
  <2>1. UNCHANGED <<id, held, next_packet, sub, old>> /\ cpl # << >> /\ cpl' = Tail(cpl)
    BY <1>7 DEF Control!PopAck
  <2>2. Returns' \subseteq Returns
    BY <1>2, <2>1, CompletionTaken
  <2>. QED
    BY <1>2, <1>3, <2>1, <2>2, LentAlike DEF Posts
<1>8. CASE Control!PopEvent \/ Control!PopResponse
  <2>1. UNCHANGED <<held, next_packet, sub, old>> /\ cpl # << >> /\ cpl' = Tail(cpl)
        /\ Control!First.kind # "ack"
        /\ \E b \in Control!Named : id' = [id EXCEPT ![b] = 0]
    BY <1>8 DEF Control!PopEvent, Control!PopResponse
  <2>2. PICK b \in Buffers : id[b] = Control!First.id /\ id' = [id EXCEPT ![b] = 0]
    BY <2>1 DEF Control!Named
  <2>3. Returns' \subseteq Returns /\ Control!First \in Returns
    BY <1>2, <2>1, CompletionTaken, CompletionFirst
  <2>. QED
    BY <1>2, <2>1, <2>2, <2>3, LentReturned
<1>9. CASE Control!FwFetch
  <2>1. /\ sub # << >> /\ sub' = Tail(sub)
        /\ UNCHANGED <<id, next_packet, old>>
    BY <1>9 DEF Control!FwFetch
  <2>2. Head(sub) = sub[1] /\ sub[1] \in Message
    BY <1>2, <2>1, MessageFetched
  <2>3. CASE sub[1].kind = "post" /\ held' = held \cup {[id |-> sub[1].id, buffer |-> sub[1].buffer]}
             /\ UNCHANGED <<job, cpl>>
    BY <1>2, <2>1, <2>3, LentFetched
  <2>4. CASE sub[1].kind = "ioctl" /\ cpl' = Append(cpl, Control!Ack) /\ UNCHANGED held
    <3>1. Control!Ack \in Completion /\ Control!Ack.kind = "ack"
      BY NetworkAssumption DEF Control!Ack, Completion
    <3>2. Returns' \subseteq Returns
      BY <1>2, <2>1, <2>4, <3>1, CompletionSent
    <3>. DEFINE left == sub'
                posts == Posts'
    <3>3. \A i \in posts : i + 1 \in Posts /\ left[i] = sub[i + 1] /\ i \in Int
      BY <1>2, <2>1, MessageFetched
    <3>. HIDE DEF left, posts
    <3>4. SUFFICES /\ \A i \in posts : left[i].id # 0 /\ id[left[i].buffer] = left[i].id
                   /\ \A i, j \in posts : left[i].id = left[j].id => i = j
                   /\ \A i \in posts, h \in held : left[i].id # h.id
                   /\ \A c \in Returns : \A i \in posts : left[i].id # c.id
      BY <1>2, <2>1, <2>4, <3>2 DEF Lent, left, posts
    <3>5. /\ \A i \in Posts : sub[i].id # 0 /\ id[sub[i].buffer] = sub[i].id
          /\ \A i, j \in Posts : sub[i].id = sub[j].id => i = j
          /\ \A i \in Posts, h \in held : sub[i].id # h.id
          /\ \A c \in Returns : \A i \in Posts : sub[i].id # c.id
      BY <1>2 DEF Lent
    <3>6. ASSUME NEW i \in posts, NEW j \in posts, left[i].id = left[j].id PROVE i = j
      <4>1. i + 1 = j + 1
        BY <3>3, <3>5, <3>6
      <4>. QED
        BY <3>3, <4>1
    <3>. QED
      BY <3>3, <3>5, <3>6
  <2>. QED
    BY <1>9, <2>2, <2>3, <2>4 DEF Control!FwFetch
<1>10. CASE Control!FwRespond
  <2>1. PICK h \in held : Control!Complete(h, Control!Response(h.id, job))
    BY <1>10 DEF Control!FwRespond
  <2>. DEFINE c == Control!Response(h.id, job)
  <2>2. c \in Completion /\ c.id = h.id
    BY <1>2 DEF Control!Response, CTyped, Hand, Completion
  <2>3. UNCHANGED <<next_packet, sub, id>> /\ held' = held \ {h} /\ old' = old \cup {c} /\ cpl' = Append(cpl, c)
    BY <2>1 DEF Control!Complete
  <2>. HIDE DEF c
  <2>4. Returns' \subseteq Returns \cup {c}
    BY <1>2, <2>2, <2>3, CompletionSent
  <2>. QED
    BY <1>2, <2>2, <2>3, <2>4, LentSpent
<1>11. CASE Control!FwEvent
  <2>1. PICK h \in held : Control!Complete(h, Control!Event(h.id))
    BY <1>11 DEF Control!FwEvent
  <2>. DEFINE c == Control!Event(h.id)
  <2>2. c \in Completion /\ c.id = h.id
    BY <1>2 DEF Control!Event, CTyped, Hand, Completion
  <2>3. UNCHANGED <<next_packet, sub, id>> /\ held' = held \ {h} /\ old' = old \cup {c} /\ cpl' = Append(cpl, c)
    BY <2>1 DEF Control!Complete
  <2>. HIDE DEF c
  <2>4. Returns' \subseteq Returns \cup {c}
    BY <1>2, <2>2, <2>3, CompletionSent
  <2>. QED
    BY <1>2, <2>2, <2>3, <2>4, LentSpent
<1>12. CASE Control!FwRepeat
  <2>1. PICK c \in old : cpl' = Append(cpl, c)
    BY <1>12 DEF Control!FwRepeat
  <2>2. UNCHANGED <<id, held, next_packet, sub, old>>
    BY <1>12 DEF Control!FwRepeat
  <2>3. c \in Completion /\ c \in Returns
    BY <1>2 DEF CTyped, Returns
  <2>4. Returns' \subseteq Returns
    BY <1>2, <2>1, <2>2, <2>3, CompletionSent
  <2>. QED
    BY <1>2, <1>3, <2>2, <2>4, LentAlike DEF Posts
<1>13. CASE Control!FwAgain
  <2>1. PICK h \in held, a \in old : held' = held \ {h} /\ cpl' = Append(cpl, Control!Response(h.id, a.transaction))
    BY <1>13 DEF Control!FwAgain
  <2>. DEFINE c == Control!Response(h.id, a.transaction)
  <2>2. c \in Completion /\ c.id = h.id
    BY <1>2 DEF Control!Response, CTyped, Hand, Completion
  <2>3. UNCHANGED <<next_packet, sub, id, old>> /\ cpl' = Append(cpl, c)
    BY <1>13, <2>1 DEF Control!FwAgain
  <2>. HIDE DEF c
  <2>4. Returns' \subseteq Returns \cup {c}
    BY <1>2, <2>2, <2>3, CompletionSent
  <2>. QED
    BY <1>2, <2>1, <2>2, <2>3, <2>4, LentSpent
<1>14. CASE Control!PostFails \/ Control!PopFails \/ Control!TimeOut
  BY <1>14 DEF Control!PostFails, Control!PopFails, Control!TimeOut
<1>. QED
  BY <1>4, <1>5, <1>6, <1>7, <1>8, <1>9, <1>10, <1>11, <1>12, <1>13, <1>14
     DEF Control!Next, Control!Worker

----------------------------------------------------------------------------
(* The command. *)

\* Steps that send no new answer and leave the command where it is.
LEMMA CommandedAlike ==
  ASSUME Commanded, Returns' \subseteq Returns, UNCHANGED <<pending, transaction, input, job>>,
         Ioctls' = Ioctls, \A i \in Ioctls : sub'[i] = sub[i]
  PROVE  Commanded'
BY DEF Commanded

\* A completion of a buffer that answers no pending command.
LEMMA CommandedReturned ==
  ASSUME Commanded, CTyped, UNCHANGED <<pending, transaction, input, sub>>, job' \in {job, 0},
         NEW c, Returns' \subseteq Returns \cup {c}, c.transaction \in Nat,
         c.transaction <= transaction,
         job' # 0 => c.transaction # job,
         Ioctls # {} => c.transaction # pending
  PROVE  Commanded'
<1>1. Ioctls' = Ioctls
  BY DEF Ioctls
<1>. QED
  BY <1>1 DEF Commanded, CTyped

\* No command is in the firmware's hands when none is pending or its answer is here.
LEMMA NothingAsked ==
  ASSUME Commanded, CTyped, pending = 0 \/ \E c \in Returns : c.transaction = pending
  PROVE  job = 0 /\ Ioctls = {}
BY DEF Commanded, CTyped

LEMMA CommandedKept == CInv /\ [Control!Next]_(Control!vars) /\ ~failed' => Commanded'
<1>. SUFFICES ASSUME CInv, [Control!Next]_(Control!vars), ~failed' PROVE Commanded'
  OBVIOUS
<1>. USE DEF Control!port, Control!firmware
<1>1. ~failed
  <2>1. ~failed \/ failed' = failed \/ failed' = TRUE
    BY DEF Control!Next, Control!Worker, Control!vars, Control!Start, Control!Poll, Control!PostNone,
       Control!PostOne, Control!PostFails, Control!PopNone, Control!PopAck, Control!PopEvent,
       Control!PopResponse, Control!PopFails, Control!Submit, Control!TimeOut, Control!FwFetch,
       Control!FwRespond, Control!FwEvent, Control!FwRepeat, Control!FwAgain, Control!Available,
       Control!Complete
  <2>. QED
    BY <2>1 DEF CInv
<1>2. CTyped /\ Lent /\ Commanded
  BY <1>1 DEF CInv
<1>3. transaction \in Nat /\ pending \in Nat /\ job \in Nat
  BY <1>2 DEF CTyped
<1>4. CASE Control!Start \/ Control!Poll \/ Control!PostNone \/ Control!PopNone
           \/ UNCHANGED Control!vars
  <2>1. UNCHANGED <<pending, transaction, input, job, sub, cpl, old>>
    BY <1>4 DEF Control!Start, Control!Poll, Control!PostNone, Control!PopNone, Control!vars
  <2>. QED
    BY <1>2, <2>1, CommandedAlike DEF Ioctls, Returns
<1>5. CASE Control!PostOne
  <2>1. PICK b \in Buffers :
          UNCHANGED sub \/ sub' = Append(sub, Control!Posted(Control!Fresh(b), b))
    BY <1>5 DEF Control!PostOne, Control!Owned
  <2>2. UNCHANGED <<pending, transaction, input, job, cpl, old>>
    BY <1>5 DEF Control!PostOne
  <2>3. Ioctls' = Ioctls /\ \A i \in Ioctls : sub'[i] = sub[i]
    <3>1. CASE UNCHANGED sub
      BY <3>1 DEF Ioctls
    <3>2. CASE sub' = Append(sub, Control!Posted(Control!Fresh(b), b))
      <4>1. Control!Fresh(b) \in Nat
        BY <1>2, MessageTypes DEF CTyped
      <4>2. Control!Posted(Control!Fresh(b), b) \in Message
            /\ Control!Posted(Control!Fresh(b), b).kind = "post"
        BY <1>2, <4>1, MessageTypes
      <4>. QED
        BY <1>2, <3>2, <4>2, MessageSent
    <3>. QED
      BY <2>1, <3>1, <3>2
  <2>. QED
    BY <1>2, <2>2, <2>3, CommandedAlike DEF Returns
<1>6. CASE Control!Submit
  <2>1. job = 0 /\ Ioctls = {} /\ pending = 0
    BY <1>2, <1>6, NothingAsked DEF Control!Submit
  <2>2. /\ transaction' = transaction + 1 /\ input' = transaction + 1
        /\ UNCHANGED <<cpl, held, job, old>>
        /\ \/ sub' = Append(sub, Control!Ioctl(transaction + 1)) /\ pending' = transaction + 1
           \/ UNCHANGED <<sub, pending>>
           \/ failed' = TRUE
    BY <1>6 DEF Control!Submit
  <2>3. Returns' = Returns /\ \A c \in Returns : c.transaction \in Nat /\ c.transaction <= transaction
    <3>1. Returns' = Returns
      BY <2>2 DEF Returns
    <3>2. Returns \subseteq Completion
      BY <1>2 DEF Returns, CTyped
    <3>. QED
      BY <1>2, <3>1, <3>2 DEF Commanded, Completion
  <2>4. CASE sub' = Append(sub, Control!Ioctl(transaction + 1)) /\ pending' = transaction + 1
    <3>1. Control!Ioctl(transaction + 1) \in Message /\ Control!Ioctl(transaction + 1).kind = "ioctl"
          /\ Control!Ioctl(transaction + 1).id = transaction + 1
      BY <1>3 DEF Control!Ioctl, Message
    <3>2. Ioctls' = {Len(sub) + 1} /\ sub'[Len(sub) + 1].id = transaction + 1
      BY <1>2, <2>1, <2>4, <3>1, MessageSent
    <3>. QED
      BY <1>3, <2>1, <2>2, <2>3, <2>4, <3>2 DEF Commanded
  <2>5. CASE UNCHANGED <<sub, pending>>
    <3>1. Ioctls' = {}
      BY <2>1, <2>5 DEF Ioctls
    <3>. QED
      BY <1>3, <2>1, <2>2, <2>3, <2>5, <3>1 DEF Commanded
  <2>. QED
    BY <2>2, <2>4, <2>5
<1>7. CASE Control!PopAck \/ Control!PopEvent
  <2>1. UNCHANGED <<pending, transaction, input, job, sub, old>> /\ cpl # << >> /\ cpl' = Tail(cpl)
    BY <1>7 DEF Control!PopAck, Control!PopEvent
  <2>2. Returns' \subseteq Returns
    BY <1>2, <2>1, CompletionTaken
  <2>. QED
    BY <1>2, <2>1, <2>2, CommandedAlike DEF Ioctls
<1>8. CASE Control!PopResponse
  <2>1. /\ UNCHANGED <<transaction, job, sub, old>> /\ cpl # << >> /\ cpl' = Tail(cpl)
        /\ Control!First.kind # "ack" /\ pending' = 0 /\ Control!First.transaction = pending
    BY <1>8 DEF Control!PopResponse, Control!Correlated
  <2>2. Returns' \subseteq Returns /\ Control!First \in Returns
    BY <1>2, <2>1, CompletionTaken, CompletionFirst
  <2>3. job = 0 /\ Ioctls = {}
    BY <1>2, <2>1, <2>2, NothingAsked
  <2>4. Ioctls' = {}
    BY <2>1, <2>3 DEF Ioctls
  <2>. QED
    BY <1>2, <2>1, <2>2, <2>3, <2>4 DEF Commanded
<1>9. CASE Control!FwFetch
  <2>1. /\ sub # << >> /\ sub' = Tail(sub)
        /\ UNCHANGED <<pending, transaction, input, old>>
    BY <1>9 DEF Control!FwFetch
  <2>2. Head(sub) = sub[1] /\ sub[1] \in Message /\ (sub[1].kind = "ioctl" => 1 \in Ioctls)
    BY <1>2, <2>1, MessageFetched
  <2>. DEFINE left == sub'
              ioctls == Ioctls'
  <2>3. \A i \in ioctls : i + 1 \in Ioctls /\ left[i] = sub[i + 1] /\ i \in Int /\ i + 1 # 1
    BY <1>2, <2>1, MessageFetched
  <2>. HIDE DEF left, ioctls
  <2>4. CASE UNCHANGED <<job, cpl>>
    <3>1. Returns' = Returns
      BY <2>1, <2>4 DEF Returns
    <3>2. SUFFICES /\ job # 0 => ioctls = {}
                   /\ \A i \in ioctls : /\ left[i].id = pending /\ pending # 0 /\ job = 0
                                        /\ \A j \in ioctls : i = j
                                        /\ \A c \in Returns : c.transaction # pending
      BY <1>2, <2>1, <2>4, <3>1 DEF Commanded, left, ioctls
    <3>3. /\ job # 0 => Ioctls = {}
          /\ \A i \in Ioctls : /\ sub[i].id = pending /\ pending # 0 /\ job = 0
                               /\ \A j \in Ioctls : i = j
                               /\ \A c \in Returns : c.transaction # pending
      BY <1>2 DEF Commanded
    <3>4. ASSUME NEW i \in ioctls, NEW j \in ioctls PROVE i = j
      <4>1. i + 1 = j + 1
        BY <2>3, <3>3
      <4>. QED
        BY <2>3, <4>1
    <3>. QED
      BY <2>3, <3>3, <3>4
  <2>5. CASE sub[1].kind = "ioctl" /\ job' = sub[1].id /\ cpl' = Append(cpl, Control!Ack)
    <3>1. Control!Ack \in Completion /\ Control!Ack.kind = "ack"
      BY NetworkAssumption DEF Control!Ack, Completion
    <3>2. Returns' \subseteq Returns
      BY <1>2, <2>1, <2>5, <3>1, CompletionSent
    <3>3. /\ sub[1].id = pending /\ pending # 0 /\ job = 0
          /\ \A j \in Ioctls : j = 1
          /\ \A c \in Returns : c.transaction # pending
      BY <1>2, <2>2, <2>5 DEF Commanded
    <3>4. ioctls = {}
      BY <2>3, <3>3
    <3>. QED
      BY <1>2, <2>1, <2>5, <3>2, <3>3, <3>4 DEF Commanded, ioctls
  <2>. QED
    BY <1>9, <2>2, <2>4, <2>5 DEF Control!FwFetch
<1>10. CASE Control!FwRespond
  <2>1. PICK h \in held : Control!Complete(h, Control!Response(h.id, job))
    BY <1>10 DEF Control!FwRespond
  <2>. DEFINE c == Control!Response(h.id, job)
  <2>2. c \in Completion /\ c.transaction = job /\ job # 0 /\ job' = 0
    BY <1>2, <1>10 DEF Control!Response, CTyped, Hand, Completion, Control!FwRespond
  <2>3. UNCHANGED <<pending, transaction, input, sub>> /\ old' = old \cup {c} /\ cpl' = Append(cpl, c)
    BY <2>1 DEF Control!Complete
  <2>. HIDE DEF c
  <2>4. Returns' \subseteq Returns \cup {c}
    BY <1>2, <2>2, <2>3, CompletionSent
  <2>5. job <= transaction /\ Ioctls = {}
    BY <1>2, <1>3, <2>2 DEF Commanded
  <2>. QED
    BY <1>2, <1>3, <2>2, <2>3, <2>4, <2>5, CommandedReturned
<1>11. CASE Control!FwEvent
  <2>1. PICK h \in held : Control!Complete(h, Control!Event(h.id))
    BY <1>11 DEF Control!FwEvent
  <2>. DEFINE c == Control!Event(h.id)
  <2>2. c \in Completion /\ c.transaction = 0 /\ job' = job
    BY <1>2, <1>11 DEF Control!Event, CTyped, Hand, Completion, Control!FwEvent
  <2>3. UNCHANGED <<pending, transaction, input, sub>> /\ old' = old \cup {c} /\ cpl' = Append(cpl, c)
    BY <2>1 DEF Control!Complete
  <2>. HIDE DEF c
  <2>4. Returns' \subseteq Returns \cup {c}
    BY <1>2, <2>2, <2>3, CompletionSent
  <2>5. Ioctls # {} => pending # 0
    BY <1>2 DEF Commanded
  <2>. QED
    BY <1>2, <1>3, <2>2, <2>3, <2>4, <2>5, CommandedReturned
<1>12. CASE Control!FwRepeat
  <2>1. PICK c \in old : cpl' = Append(cpl, c)
    BY <1>12 DEF Control!FwRepeat
  <2>2. UNCHANGED <<pending, transaction, input, job, sub, old>>
    BY <1>12 DEF Control!FwRepeat
  <2>3. c \in Completion /\ c \in Returns
    BY <1>2 DEF CTyped, Returns
  <2>4. Returns' \subseteq Returns
    BY <1>2, <2>1, <2>2, <2>3, CompletionSent
  <2>. QED
    BY <1>2, <2>2, <2>4, CommandedAlike DEF Ioctls
<1>13. CASE Control!FwAgain
  <2>1. PICK h \in held, a \in old : cpl' = Append(cpl, Control!Response(h.id, a.transaction))
    BY <1>13 DEF Control!FwAgain
  <2>. DEFINE c == Control!Response(h.id, a.transaction)
  <2>2. c \in Completion /\ c.transaction = a.transaction /\ a \in Returns /\ a.transaction \in Nat
    BY <1>2 DEF Control!Response, CTyped, Hand, Completion, Returns
  <2>3. UNCHANGED <<pending, transaction, input, job, sub, old>> /\ cpl' = Append(cpl, c)
    BY <1>13, <2>1 DEF Control!FwAgain
  <2>. HIDE DEF c
  <2>4. Returns' \subseteq Returns \cup {c}
    BY <1>2, <2>2, <2>3, CompletionSent
  <2>5. a.transaction <= transaction /\ (job # 0 => a.transaction # job) /\ (Ioctls # {} => a.transaction # pending)
    BY <1>2, <2>2 DEF Commanded
  <2>. QED
    BY <1>2, <1>3, <2>2, <2>3, <2>4, <2>5, CommandedReturned
<1>14. CASE Control!PostFails \/ Control!PopFails \/ Control!TimeOut
  BY <1>14 DEF Control!PostFails, Control!PopFails, Control!TimeOut
<1>. QED
  BY <1>4, <1>5, <1>6, <1>7, <1>8, <1>9, <1>10, <1>11, <1>12, <1>13, <1>14
     DEF Control!Next, Control!Worker

LEMMA ControlKept == CInv /\ [Control!Next]_(Control!vars) => CInv'
BY StepTyped, LentKept, CommandedKept DEF CInv

LEMMA SafeControl == CInv => Control!OneOwner /\ Control!RequestIntact /\ Control!AnswersTheCommand
<1>. SUFFICES ASSUME CInv PROVE Control!OneOwner /\ Control!RequestIntact /\ Control!AnswersTheCommand
  OBVIOUS
<1>1. Control!OneOwner
  <2>. SUFFICES ASSUME ~failed, NEW b \in Control!Owned, b \in Control!FirmwareOwns PROVE FALSE
    BY DEF Control!OneOwner
  <2>1. id[b] = 0 /\ CTyped /\ Lent
    BY DEF Control!Owned, CInv
  <2>2. (\E h \in held : h.buffer = b) \/ (\E i \in Posts : sub[i].buffer = b)
    BY DEF Control!FirmwareOwns, Posts
  <2>. QED
    BY <2>1, <2>2 DEF Lent
<1>2. Control!RequestIntact
  BY DEF Control!RequestIntact, CInv, Commanded, Ioctls
<1>3. Control!AnswersTheCommand
  BY DEF Control!AnswersTheCommand, CInv
<1>. QED
  BY <1>1, <1>2, <1>3
----------------------------------------------------------------------------
(* Queues: a request in one place. *)

Request == [token : Nat, command : Commands]
Result == [token : Nat, result : {"ok", "associated", "canceled", "failed", "removed"}]
Distinct(q) == \A i, j \in 1..Len(q) : q[i].token = q[j].token => i = j

\* Where the worker has a request to answer.
Serving == {"scan", "cscan", "prejoin", "join", "wait", "flush", "key", "unsupported"}
Busy == w_pc \in Serving \/ (w_pc = "disc" /\ then = "answer")

QTyped ==
  /\ requests \in Seq(Request) /\ active \in Seq(Request) /\ events \in Seq(Result)
  /\ count \in Nat /\ Len(active) <= 1
  /\ Len(requests) + Len(events) + Len(active) <= QueueLimit

\* The worker serves a request exactly while one is active.
Engaged ==
  /\ ~w_failed => (Busy <=> active # << >>)
  /\ w_failed => requests = << >> /\ active = << >>

\* A token is the number of an accepted request and in one place only.
Placed ==
  /\ Distinct(requests) /\ Distinct(events)
  /\ \A i \in 1..Len(requests) :
       /\ requests[i].token \in 1..count /\ requests[i].token \notin answered
       /\ \A j \in 1..Len(active) : active[j].token # requests[i].token
       /\ \A j \in 1..Len(events) : events[j].token # requests[i].token
  /\ \A i \in 1..Len(active) :
       /\ active[i].token \in 1..count /\ active[i].token \notin answered
       /\ \A j \in 1..Len(events) : events[j].token # active[i].token
  /\ \A i \in 1..Len(events) :
       /\ events[i].token \in 0..count
       /\ events[i].token \in answered => events[i].token = 0
  /\ answered \subseteq 0..count

\* A cancellation is of the active request.
Cancelling ==
  /\ cancelled => \A i \in 1..Len(active) : active[i].token \in named
  /\ \A i \in 1..Len(events) : events[i].result = "canceled" => events[i].token \in named

\* The invariant of the queues.
QInv == QTyped /\ Engaged /\ Placed /\ Cancelling

LEMMA QueuesInit == Queues!Init => QInv
<1>. SUFFICES ASSUME Queues!Init PROVE QInv
  OBVIOUS
<1>1. /\ requests = << >> /\ events = << >> /\ active = << >> /\ cancelled = FALSE
      /\ w_failed = FALSE /\ count = 0 /\ answered = {} /\ w_pc = "loop"
  BY DEF Queues!Init
<1>2. ~Busy
  BY <1>1 DEF Busy, Serving
<1>. QED
  BY <1>1, <1>2, NetworkAssumption DEF QInv, QTyped, Engaged, Placed, Cancelling, Distinct

LEMMA WithoutOf ==
  ASSUME NEW S, NEW s \in Seq(S), NEW i \in 1..Len(s)
  PROVE  /\ Queues!Without(s, i) \in Seq(S) /\ Len(Queues!Without(s, i)) = Len(s) - 1
         /\ \A j \in 1..Len(s) - 1 :
              Queues!Without(s, i)[j] = IF j < i THEN s[j] ELSE s[j + 1]
<1>1. SubSeq(s, 1, i - 1) \in Seq(S) /\ Len(SubSeq(s, 1, i - 1)) = i - 1
      /\ \A j \in 1..i - 1 : SubSeq(s, 1, i - 1)[j] = s[j]
  OBVIOUS
<1>2. SubSeq(s, i + 1, Len(s)) \in Seq(S) /\ Len(SubSeq(s, i + 1, Len(s))) = Len(s) - i
      /\ \A j \in 1..Len(s) - i : SubSeq(s, i + 1, Len(s))[j] = s[i + j]
  OBVIOUS
<1>. DEFINE a == SubSeq(s, 1, i - 1)
            b == SubSeq(s, i + 1, Len(s))
<1>3. Queues!Without(s, i) = a \o b
  BY DEF Queues!Without
<1>4. a \in Seq(S) /\ b \in Seq(S) /\ Len(a) = i - 1 /\ Len(b) = Len(s) - i
  BY <1>1, <1>2
<1>. HIDE DEF a, b
<1>5. a \o b \in Seq(S) /\ Len(a \o b) = Len(s) - 1
      /\ \A j \in 1..Len(s) - 1 : (a \o b)[j] = IF j <= i - 1 THEN a[j] ELSE b[j - (i - 1)]
  BY <1>4
<1>6. ASSUME NEW j \in 1..Len(s) - 1 PROVE (a \o b)[j] = IF j < i THEN s[j] ELSE s[j + 1]
  <2>1. CASE j < i
    BY <1>1, <1>5, <2>1 DEF a
  <2>2. CASE ~(j < i)
    <3>1. j - (i - 1) \in 1..Len(s) - i /\ i + (j - (i - 1)) = j + 1
      BY <2>2
    <3>. QED
      BY <1>2, <1>5, <2>2, <3>1 DEF b
  <2>. QED
    BY <2>1, <2>2
<1>. QED
  BY <1>3, <1>5, <1>6

\* Different tokens are as many as their requests.
LEMMA TokensOf ==
  ASSUME NEW S, NEW q \in Seq(S), Distinct(q)
  PROVE  Cardinality(Queues!Tokens(q)) = Len(q)
<1>. DEFINE f == [i \in 1..Len(q) |-> q[i].token]
<1>1. f \in Bijection(1..Len(q), Queues!Tokens(q))
  BY DEF Distinct, Queues!Tokens, Bijection, Injection, Surjection, IsInjective
<1>2. ExistsBijection(1..Len(q), Queues!Tokens(q)) /\ Len(q) \in Nat
  BY <1>1 DEF ExistsBijection
<1>. QED
  BY <1>2, FS_CountingElements

LEMMA SafeQueues == QInv => Queues!QueueBounded /\ Queues!OnePlace /\ Queues!CancelsItsOwn
<1>. SUFFICES ASSUME QInv PROVE Queues!QueueBounded /\ Queues!OnePlace /\ Queues!CancelsItsOwn
  OBVIOUS
<1>1. Queues!QueueBounded
  BY DEF QInv, QTyped, Queues!QueueBounded, Queues!Load
<1>2. Cardinality(Queues!Tokens(requests)) = Len(requests) /\ Cardinality(Queues!Tokens(events)) = Len(events)
  BY TokensOf DEF QInv, QTyped, Placed
<1>3. /\ Queues!Tokens(requests) \cap (Queues!Tokens(active) \cup Queues!Tokens(events) \cup answered) = {}
      /\ Queues!Tokens(active) \cap (Queues!Tokens(events) \cup answered) = {}
      /\ Queues!Tokens(events) \cap answered \subseteq {0}
  BY DEF Queues!Tokens, QInv, Placed
<1>5. Queues!OnePlace
  <2>1. \A S : Queues!Cardinality(S) = Cardinality(S)
    BY DEF Queues!Cardinality, Cardinality
  <2>. QED
    BY <1>2, <1>3, <2>1 DEF Queues!OnePlace
<1>4. Queues!CancelsItsOwn
  BY DEF Queues!CancelsItsOwn, QInv, Cancelling
<1>. QED
  BY <1>1, <1>4, <1>5

----------------------------------------------------------------------------
(* What the steps do to the queues, in the words of the invariant. *)

\* A step of the link, the radio or the data path.
Elsewhere ==
  /\ UNCHANGED <<requests, events, active, cancelled, w_failed, count, answered, named>>
  /\ Busy' = Busy

\* The active request becomes an answer.
AnsweredAs(result) ==
  /\ ~w_failed /\ Busy /\ ~Busy'
  /\ result \in {"ok", "associated", "failed"} \/ (result = "canceled" /\ cancelled)
  /\ events' = Append(events, [token |-> Head(active).token, result |-> result])
  /\ active' = << >> /\ cancelled' = FALSE
  /\ UNCHANGED <<requests, w_failed, count, answered, named>>

LEMMA ElsewhereSteps ==
  (\/ Queues!LinkEpoch \/ Queues!LinkRetire \/ Queues!LinkRsn \/ Queues!HandleEvent
   \/ Queues!HandleFlow \/ Queues!Discard \/ Queues!BeginRetire \/ Queues!PostReceive
   \/ Queues!Drain \/ Queues!PreJoin \/ Queues!Join \/ Queues!DeleteKeys
   \/ Queues!DeleteFlows \/ Queues!Retired \/ Queues!FlushDone \/ Queues!TransmitPop
   \/ Queues!Transmit \/ Queues!CompleteTransmit \/ Queues!Receive \/ Queues!SendRead
   \/ Queues!SendQueue \/ Queues!FwAssociate \/ Queues!FwLose \/ Queues!FwFlow
   \/ Queues!FwReceive
   \/ UNCHANGED Queues!vars) => Elsewhere
<1>. USE DEF Queues!queues, Queues!data, Queues!radio, Queues!work, Queues!rest, Elsewhere, Busy, Serving
<1>1. Queues!LinkEpoch => Elsewhere
  BY DEF Queues!LinkEpoch
<1>2. Queues!LinkRetire => Elsewhere
  BY DEF Queues!LinkRetire
<1>3. Queues!LinkRsn => Elsewhere
  BY DEF Queues!LinkRsn
<1>4. Queues!HandleEvent => Elsewhere
  BY DEF Queues!HandleEvent, Queues!Polled
<1>5. Queues!HandleFlow => Elsewhere
  BY DEF Queues!HandleFlow, Queues!Polled
<1>6. Queues!Discard => Elsewhere
  BY DEF Queues!Discard, Queues!Polled
<1>7. Queues!BeginRetire => Elsewhere
  BY DEF Queues!BeginRetire, Queues!Running, Queues!Goto
<1>8. Queues!PostReceive => Elsewhere
  BY DEF Queues!PostReceive
<1>9. Queues!Drain => Elsewhere
  BY DEF Queues!Drain
<1>10. Queues!PreJoin => Elsewhere
  BY DEF Queues!PreJoin, Queues!Running, Queues!Goto
<1>11. Queues!Join => Elsewhere
  BY DEF Queues!Join, Queues!Running, Queues!Goto
<1>12. Queues!DeleteKeys => Elsewhere
  BY DEF Queues!DeleteKeys, Queues!Running, Queues!Goto
<1>13. Queues!DeleteFlows => Elsewhere
  BY DEF Queues!DeleteFlows, Queues!Running, Queues!Goto
<1>14. Queues!Retired => Elsewhere
  BY DEF Queues!Retired, Queues!Running, Queues!Goto
<1>15. Queues!FlushDone => Elsewhere
  BY DEF Queues!FlushDone, Queues!Goto
<1>16. Queues!TransmitPop => Elsewhere
  BY DEF Queues!TransmitPop
<1>17. Queues!Transmit => Elsewhere
  BY DEF Queues!Transmit
<1>18. Queues!CompleteTransmit => Elsewhere
  BY DEF Queues!CompleteTransmit
<1>19. Queues!Receive => Elsewhere
  BY DEF Queues!Receive
<1>20. Queues!SendRead => Elsewhere
  BY DEF Queues!SendRead
<1>21. Queues!SendQueue => Elsewhere
  BY DEF Queues!SendQueue
<1>22. Queues!FwAssociate => Elsewhere
  BY DEF Queues!FwAssociate
<1>23. Queues!FwLose => Elsewhere
  BY DEF Queues!FwLose
<1>24. Queues!FwFlow => Elsewhere
  BY DEF Queues!FwFlow
<1>25. Queues!FwReceive => Elsewhere
  BY DEF Queues!FwReceive
<1>26. UNCHANGED Queues!vars => Elsewhere
  BY DEF Queues!vars
<1>. QED
  BY <1>1, <1>2, <1>3, <1>4, <1>5, <1>6, <1>7, <1>8, <1>9, <1>10, <1>11, <1>12, <1>13, <1>14, <1>15, <1>16, <1>17, <1>18, <1>19, <1>20, <1>21, <1>22, <1>23, <1>24, <1>25, <1>26

\* A failing request is answered on its way to disconnect().
LEMMA FailsSteps ==
  ASSUME QInv, ~w_failed, w_pc \in Serving, Queues!Fails
  PROVE  AnsweredAs(IF cancelled THEN "canceled" ELSE "failed")
<1>1. Busy /\ ~Busy'
  BY DEF Busy, Serving, Queues!Fails, Queues!Goto
<1>. QED
  BY <1>1 DEF AnsweredAs, Queues!Fails, Queues!Answer

LEMMA DoneSteps ==
  ASSUME NEW result \in {"ok", "associated"}, ~w_failed, Busy, Queues!Done(result)
  PROVE  AnsweredAs(result)
<1>1. ~Busy'
  BY DEF Busy, Serving, Queues!Done, Queues!Goto
<1>. QED
  BY <1>1 DEF AnsweredAs, Queues!Done, Queues!Answer

LEMMA ElsewhereKept == QInv /\ Elsewhere => QInv'
<1>. SUFFICES ASSUME QInv, Elsewhere PROVE QInv'
  OBVIOUS
<1>1. QTyped' /\ Placed' /\ Cancelling'
  BY DEF QInv, QTyped, Placed, Cancelling, Distinct, Elsewhere
<1>2. Engaged'
  BY DEF QInv, Engaged, Elsewhere
<1>. QED
  BY <1>1, <1>2 DEF QInv

LEMMA AnsweredKept == ASSUME NEW result, QInv, AnsweredAs(result) PROVE QInv'
<1>1. active # << >> /\ Len(active) = 1 /\ active[1] \in Request /\ Head(active) = active[1]
  <2>1. active # << >>
    BY DEF QInv, Engaged, AnsweredAs
  <2>2. active \in Seq(Request) /\ Len(active) <= 1
    BY DEF QInv, QTyped
  <2>3. 1 \in 1..Len(active) /\ active[1] \in Request /\ Head(active) = active[1]
    BY <2>1, <2>2, TailOf
  <2>4. Len(active) \in Nat
    BY <2>2
  <2>. QED
    BY <2>1, <2>2, <2>3, <2>4
<1>. DEFINE e == [token |-> active[1].token, result |-> result]
<1>2. e \in Result /\ e.token = active[1].token /\ e.result = result
  BY <1>1 DEF AnsweredAs, Request, Result
<1>3. events \in Seq(Result) /\ events' = Append(events, e)
  BY <1>1 DEF QInv, QTyped, AnsweredAs
<1>. HIDE DEF e
<1>4. /\ events' \in Seq(Result) /\ Len(events') = Len(events) + 1
      /\ events'[Len(events) + 1] = e
      /\ \A i \in 1..Len(events) : events'[i] = events[i]
      /\ 1..Len(events') = 1..Len(events) \cup {Len(events) + 1}
  BY <1>2, <1>3, AppendOf
<1>5. active' = << >> /\ requests' = requests /\ Len(active') = 0
  BY DEF AnsweredAs
<1>6. QTyped'
  BY <1>1, <1>4, <1>5 DEF QInv, QTyped, AnsweredAs
<1>7. Engaged'
  BY <1>5 DEF QInv, Engaged, AnsweredAs
<1>8. /\ \A i \in 1..Len(events) : events[i].token # e.token
      /\ e.token \in 1..count /\ e.token \notin answered
      /\ \A i \in 1..Len(requests) : requests[i].token # e.token
  BY <1>1, <1>2 DEF QInv, Placed
<1>. DEFINE news == events'
<1>9. \A i \in 1..Len(news) : i \in 1..Len(events) \/ i = Len(events) + 1
  BY <1>4
<1>10. news[Len(events) + 1] = e /\ \A i \in 1..Len(events) : news[i] = events[i]
  BY <1>4
<1>. HIDE DEF news
<1>12. /\ Distinct(news)
       /\ \A i \in 1..Len(requests) : \A j \in 1..Len(news) : news[j].token # requests[i].token
       /\ \A i \in 1..Len(news) :
            /\ news[i].token \in 0..count
            /\ news[i].token \in answered => news[i].token = 0
  <2>1. Distinct(news)
    BY <1>8, <1>9, <1>10 DEF QInv, Placed, Distinct
  <2>2. \A i \in 1..Len(requests) : \A j \in 1..Len(news) : news[j].token # requests[i].token
    BY <1>8, <1>9, <1>10 DEF QInv, Placed
  <2>3. \A i \in 1..Len(news) :
            /\ news[i].token \in 0..count
            /\ news[i].token \in answered => news[i].token = 0
    BY <1>8, <1>9, <1>10 DEF QInv, Placed
  <2>. QED
    BY <2>1, <2>2, <2>3
<1>13. Placed'
  BY <1>5, <1>12 DEF QInv, Placed, AnsweredAs, news
<1>14. \A i \in 1..Len(news) : news[i].result = "canceled" => news[i].token \in named
  <2>1. e.result = "canceled" => e.token \in named
    BY <1>1, <1>2 DEF QInv, Cancelling, AnsweredAs
  <2>. QED
    BY <2>1, <1>9, <1>10 DEF QInv, Cancelling
<1>15. Cancelling'
  BY <1>5, <1>14 DEF Cancelling, AnsweredAs, news
<1>. QED
  BY <1>6, <1>7, <1>13, <1>15 DEF QInv

LEMMA SubmitKept == ASSUME NEW c \in Commands, QInv, Queues!Submit(c) PROVE QInv'
<1>. DEFINE r == [token |-> count + 1, command |-> c]
<1>1. /\ ~w_failed /\ requests' = Append(requests, r) /\ count' = count + 1
      /\ UNCHANGED <<events, active, cancelled, w_failed, answered, named, w_pc, then>>
      /\ Len(requests) + Len(events) + Len(active) < QueueLimit
  BY DEF Queues!Submit, Queues!work, Queues!Load
<1>2. requests \in Seq(Request) /\ count \in Nat /\ r \in Request /\ r.token = count + 1
  BY DEF QInv, QTyped, Request
<1>. HIDE DEF r
<1>3. /\ requests' \in Seq(Request) /\ Len(requests') = Len(requests) + 1
      /\ requests'[Len(requests) + 1] = r
      /\ \A i \in 1..Len(requests) : requests'[i] = requests[i]
      /\ 1..Len(requests') = 1..Len(requests) \cup {Len(requests) + 1}
  BY <1>1, <1>2, AppendOf
<1>4. QTyped'
  BY <1>1, <1>2, <1>3, NetworkAssumption DEF QInv, QTyped
<1>5. Engaged'
  BY <1>1 DEF QInv, Engaged, Busy
<1>. DEFINE news == requests'
<1>6. \A i \in 1..Len(news) : i \in 1..Len(requests) \/ i = Len(requests) + 1
  BY <1>3
<1>7. news[Len(requests) + 1] = r /\ \A i \in 1..Len(requests) : news[i] = requests[i]
  BY <1>3
<1>. HIDE DEF news
<1>8. /\ \A i \in 1..Len(requests) : requests[i].token # count + 1
      /\ \A i \in 1..Len(active) : active[i].token # count + 1
      /\ \A i \in 1..Len(events) : events[i].token # count + 1
      /\ count + 1 \notin answered /\ count + 1 \in 1..count + 1
      /\ 1..count \subseteq 1..count + 1 /\ 0..count \subseteq 0..count + 1
  BY <1>2 DEF QInv, Placed
<1>9. Distinct(news)
  BY <1>2, <1>6, <1>7, <1>8 DEF QInv, Placed, Distinct
<1>10. \A i \in 1..Len(news) :
         /\ news[i].token \in 1..count + 1 /\ news[i].token \notin answered
         /\ \A j \in 1..Len(active) : active[j].token # news[i].token
         /\ \A j \in 1..Len(events) : events[j].token # news[i].token
  BY <1>2, <1>6, <1>7, <1>8 DEF QInv, Placed
<1>11. Placed'
  BY <1>1, <1>8, <1>9, <1>10 DEF QInv, Placed, news
<1>12. Cancelling'
  BY <1>1 DEF QInv, Cancelling
<1>. QED
  BY <1>4, <1>5, <1>11, <1>12 DEF QInv

LEMMA CancelKept == ASSUME NEW t, QInv, Queues!Cancel(t) PROVE QInv'
<1>1. /\ UNCHANGED <<events, active, w_failed, count, answered, w_pc, then>>
      /\ cancelled' = (cancelled \/ t \in Queues!Tokens(active)) /\ named' = named \cup {t}
      /\ \/ UNCHANGED requests
         \/ \E i \in 1..Len(requests) : requests' = Queues!Without(requests, i)
  BY DEF Queues!Cancel, Queues!work
<1>2. Cancelling'
  <2>1. cancelled' => \A i \in 1..Len(active) : active[i].token \in named \cup {t}
    <3>1. CASE t \in Queues!Tokens(active)
      <4>1. Len(active) <= 1 /\ Len(active) \in Nat
        BY DEF QInv, QTyped
      <4>2. PICK i \in 1..Len(active) : active[i].token = t
        BY <3>1 DEF Queues!Tokens
      <4>. QED
        BY <4>1, <4>2
    <3>2. CASE t \notin Queues!Tokens(active)
      BY <1>1, <3>2 DEF QInv, Cancelling
    <3>. QED
      BY <3>1, <3>2
  <2>. QED
    BY <1>1, <2>1 DEF QInv, Cancelling
<1>3. CASE UNCHANGED requests
  <2>1. QTyped' /\ Engaged' /\ Placed'
    BY <1>1, <1>3 DEF QInv, QTyped, Engaged, Placed, Distinct, Busy
  <2>. QED
    BY <1>2, <2>1 DEF QInv
<1>4. ASSUME NEW i \in 1..Len(requests), requests' = Queues!Without(requests, i) PROVE QInv'
  <2>1. requests \in Seq(Request) /\ Len(requests) \in Nat
    BY DEF QInv, QTyped
  <2>. DEFINE news == requests'
  <2>2. /\ news \in Seq(Request) /\ Len(news) = Len(requests) - 1
        /\ \A j \in 1..Len(requests) - 1 : news[j] = IF j < i THEN requests[j] ELSE requests[j + 1]
    BY <1>4, <2>1, WithoutOf
  <2>3. \A j \in 1..Len(news) : j \in Int /\ (j < i => j \in 1..Len(requests)) /\ j + 1 \in 1..Len(requests)
                                /\ news[j] = IF j < i THEN requests[j] ELSE requests[j + 1]
    BY <2>1, <2>2
  <2>4. w_failed => news = << >>
    BY <2>1, <2>2 DEF QInv, Engaged
  <2>5. QTyped'
    <3>1. Len(events) \in Nat /\ Len(active) \in Nat /\ QueueLimit \in Nat
      BY NetworkAssumption DEF QInv, QTyped
    <3>2. (Len(requests) - 1) + Len(events) + Len(active) <= QueueLimit
      BY <2>1, <3>1 DEF QInv, QTyped
    <3>. QED
      BY <1>1, <2>2, <3>2 DEF QInv, QTyped
  <2>. HIDE DEF news
  <2>6. Engaged'
    BY <1>1, <2>4 DEF QInv, Engaged, Busy, news
  <2>7. Distinct(news)
    <3>. SUFFICES ASSUME NEW j \in 1..Len(news), NEW k \in 1..Len(news), news[j].token = news[k].token PROVE j = k
      BY DEF Distinct
    <3>. DEFINE at(x) == IF x < i THEN x ELSE x + 1
    <3>1. at(j) \in 1..Len(requests) /\ at(k) \in 1..Len(requests) /\ news[j] = requests[at(j)] /\ news[k] = requests[at(k)]
      BY <2>3
    <3>2. at(j) = at(k)
      BY <3>1 DEF QInv, Placed, Distinct
    <3>. QED
      BY <2>3, <3>2
  <2>8. \A j \in 1..Len(news) :
         /\ news[j].token \in 1..count /\ news[j].token \notin answered
         /\ \A k \in 1..Len(active) : active[k].token # news[j].token
         /\ \A k \in 1..Len(events) : events[k].token # news[j].token
    <3>. SUFFICES ASSUME NEW j \in 1..Len(news)
                  PROVE  \E k \in 1..Len(requests) : news[j] = requests[k]
      BY DEF QInv, Placed
    <3>. QED
      BY <2>3
  <2>9. Placed'
    BY <1>1, <2>7, <2>8 DEF QInv, Placed, news
  <2>. QED
    BY <1>2, <2>5, <2>6, <2>9 DEF QInv
<1>. QED
  BY <1>1, <1>3, <1>4

LEMMA PollKept == QInv /\ Queues!Poll => QInv'
<1>. SUFFICES ASSUME QInv, Queues!Poll PROVE QInv'
  OBVIOUS
<1>1. /\ UNCHANGED <<requests, active, cancelled, w_failed, count, named, w_pc, then>>
      /\ events # << >> /\ events' = Tail(events) /\ answered' = answered \cup {Head(events).token}
  BY DEF Queues!Poll, Queues!work
<1>2. events \in Seq(Result)
  BY DEF QInv, QTyped
<1>. DEFINE news == events'
<1>3. /\ news \in Seq(Result) /\ Len(news) = Len(events) - 1 /\ Head(events) = events[1]
      /\ 1 \in 1..Len(events)
      /\ \A i \in 1..Len(news) : i + 1 \in 1..Len(events) /\ news[i] = events[i + 1] /\ i + 1 # 1 /\ i \in Int
  BY <1>1, <1>2, TailOf
<1>4. QTyped' /\ Engaged'
  <2>1. Len(events) \in Nat /\ Len(requests) \in Nat /\ Len(active) \in Nat /\ QueueLimit \in Nat
    BY NetworkAssumption DEF QInv, QTyped
  <2>2. Len(requests) + (Len(events) - 1) + Len(active) <= QueueLimit
    BY <2>1 DEF QInv, QTyped
  <2>3. QTyped'
    BY <1>1, <1>3, <2>2 DEF QInv, QTyped
  <2>. QED
    BY <1>1, <2>3 DEF QInv, Engaged, Busy
<1>. HIDE DEF news
<1>. DEFINE a == events[1].token
<1>5. Distinct(news)
  <2>. SUFFICES ASSUME NEW j \in 1..Len(news), NEW k \in 1..Len(news), news[j].token = news[k].token PROVE j = k
    BY DEF Distinct
  <2>1. events[j + 1].token = events[k + 1].token /\ j + 1 \in 1..Len(events) /\ k + 1 \in 1..Len(events)
    BY <1>3
  <2>2. \A x, y \in 1..Len(events) : events[x].token = events[y].token => x = y
    BY DEF QInv, Placed, Distinct
  <2>3. j + 1 = k + 1
    BY <2>1, <2>2
  <2>. QED
    BY <1>3, <2>3
<1>6. /\ \A i \in 1..Len(requests) : requests[i].token # a
      /\ \A i \in 1..Len(active) : active[i].token # a
      /\ a \in 0..count
  BY <1>3 DEF QInv, Placed
<1>7. \A i \in 1..Len(news) : news[i].token # a /\ news[i] = events[i + 1] /\ i + 1 \in 1..Len(events)
  BY <1>3 DEF QInv, Placed, Distinct
<1>. HIDE DEF a
<1>8. answered' = answered \cup {a}
  BY <1>1, <1>3 DEF a
<1>9. /\ \A i \in 1..Len(requests) : \A j \in 1..Len(news) : news[j].token # requests[i].token
      /\ \A i \in 1..Len(active) : \A j \in 1..Len(news) : news[j].token # active[i].token
      /\ \A i \in 1..Len(news) :
           /\ news[i].token \in 0..count
           /\ news[i].token \in answered => news[i].token = 0
  BY <1>7 DEF QInv, Placed
<1>10. Placed'
  BY <1>1, <1>5, <1>6, <1>7, <1>8, <1>9 DEF QInv, Placed, news
<1>11. Cancelling'
  BY <1>1, <1>7 DEF QInv, Cancelling, news
<1>. QED
  BY <1>4, <1>10, <1>11 DEF QInv

LEMMA RetireKept == QInv /\ Queues!Retire => QInv'
<1>. SUFFICES ASSUME QInv, Queues!Retire PROVE QInv'
  OBVIOUS
<1>1. /\ requests' = << >> /\ Len(requests') = 0 /\ UNCHANGED <<events, active, cancelled, w_failed, count, answered, named, w_pc, then>>
  BY DEF Queues!Retire, Queues!work
<1>2. QTyped' /\ Engaged'
  BY <1>1, NetworkAssumption DEF QInv, QTyped, Engaged, Busy
<1>3. Placed' /\ Cancelling'
  BY <1>1 DEF QInv, Placed, Cancelling, Distinct
<1>. QED
  BY <1>2, <1>3 DEF QInv

LEMMA TakeKept == QInv /\ Queues!TakeRequest => QInv'
<1>. SUFFICES ASSUME QInv, Queues!TakeRequest PROVE QInv'
  OBVIOUS
<1>1. /\ ~w_failed /\ w_pc = "loop" /\ requests # << >> /\ then' = "answer"
      /\ active' = <<Head(requests)>> /\ requests' = Tail(requests) /\ cancelled' = FALSE
      /\ w_pc' = Queues!Starts(Head(requests).command)
      /\ UNCHANGED <<events, w_failed, count, answered, named>>
  BY DEF Queues!TakeRequest, Queues!Running, Queues!Goto
<1>2. requests \in Seq(Request) /\ active = << >>
  BY <1>1 DEF QInv, QTyped, Engaged, Busy, Serving
<1>. DEFINE news == requests'
            r == requests[1]
<1>3. /\ news \in Seq(Request) /\ Len(news) = Len(requests) - 1 /\ Head(requests) = r /\ r \in Request
      /\ 1 \in 1..Len(requests)
      /\ \A i \in 1..Len(news) : i + 1 \in 1..Len(requests) /\ news[i] = requests[i + 1] /\ i + 1 # 1 /\ i \in Int
  BY <1>1, <1>2, TailOf
<1>4. active' = <<r>> /\ Len(active') = 1 /\ active'[1] = r /\ active' \in Seq(Request)
  BY <1>1, <1>3
<1>5. Busy'
  BY <1>1 DEF Busy, Serving, Queues!Starts
<1>6. QTyped'
  BY <1>1, <1>2, <1>3, <1>4 DEF QInv, QTyped
<1>7. Engaged'
  BY <1>1, <1>4, <1>5 DEF Engaged
<1>. HIDE DEF news
<1>8. Distinct(news)
  <2>. SUFFICES ASSUME NEW j \in 1..Len(news), NEW k \in 1..Len(news), news[j].token = news[k].token PROVE j = k
    BY DEF Distinct
  <2>1. requests[j + 1].token = requests[k + 1].token /\ j + 1 \in 1..Len(requests) /\ k + 1 \in 1..Len(requests)
    BY <1>3
  <2>2. \A x, y \in 1..Len(requests) : requests[x].token = requests[y].token => x = y
    BY DEF QInv, Placed, Distinct
  <2>3. j + 1 = k + 1
    BY <2>1, <2>2
  <2>. QED
    BY <1>3, <2>3
<1>9. \A i \in 1..Len(news) : news[i].token # r.token /\ news[i] = requests[i + 1] /\ i + 1 \in 1..Len(requests)
  BY <1>3 DEF QInv, Placed, Distinct
<1>10. /\ r.token \in 1..count /\ r.token \notin answered
       /\ \A j \in 1..Len(events) : events[j].token # r.token
  BY <1>3 DEF QInv, Placed
<1>11. \A i \in 1..Len(news) :
         /\ news[i].token \in 1..count /\ news[i].token \notin answered
         /\ \A j \in 1..Len(events) : events[j].token # news[i].token
  <2>1. \A k \in 1..Len(requests) :
          /\ requests[k].token \in 1..count /\ requests[k].token \notin answered
          /\ \A j \in 1..Len(events) : events[j].token # requests[k].token
    BY DEF QInv, Placed
  <2>. QED
    BY <1>9, <2>1
<1>12. \A i \in 1..Len(active') : active'[i] = r
  BY <1>4
<1>13. Placed'
  BY <1>1, <1>8, <1>9, <1>10, <1>11, <1>12 DEF QInv, Placed, news
<1>14. Cancelling'
  BY <1>1 DEF QInv, Cancelling
<1>. QED
  BY <1>6, <1>7, <1>13, <1>14 DEF QInv

LEMMA StopKept == QInv /\ Queues!Stop => QInv'
<1>. SUFFICES ASSUME QInv, Queues!Stop PROVE QInv'
  OBVIOUS
<1>1. /\ w_failed' = TRUE /\ requests' = << >> /\ active' = << >>
      /\ events' = <<[token |-> 0, result |-> "removed"]>>
      /\ UNCHANGED <<cancelled, count, answered, named>>
  BY DEF Queues!Stop
<1>2. /\ Len(requests') = 0 /\ Len(active') = 0 /\ Len(events') = 1 /\ events'[1].token = 0
      /\ events'[1].result = "removed" /\ events' \in Seq(Result)
  BY <1>1 DEF Result
<1>3. QTyped' /\ Engaged'
  BY <1>1, <1>2, NetworkAssumption DEF QInv, QTyped, Engaged
<1>4. \A i \in 1..Len(events') : i = 1
  BY <1>2
<1>5. Placed'
  BY <1>1, <1>2, <1>4 DEF QInv, QTyped, Placed, Distinct
<1>6. Cancelling'
  BY <1>1, <1>2, <1>4 DEF Cancelling
<1>. QED
  BY <1>3, <1>5, <1>6 DEF QInv

\* The places that answer the active request.
LEMMA AnsweringKept ==
  QInv /\ (\/ Queues!Unsupported \/ Queues!Scanned \/ Queues!BeginGeneration \/ Queues!Associated
           \/ Queues!NotAssociated \/ Queues!Disconnect \/ Queues!FlushFails \/ Queues!KeyChanged) => QInv'
<1>. SUFFICES ASSUME QInv,
                     \/ Queues!Unsupported \/ Queues!Scanned \/ Queues!BeginGeneration \/ Queues!Associated
                     \/ Queues!NotAssociated \/ Queues!Disconnect \/ Queues!FlushFails \/ Queues!KeyChanged
              PROVE  QInv'
  OBVIOUS
<1>1. CASE Queues!Unsupported \/ Queues!NotAssociated \/ Queues!FlushFails
  BY <1>1, FailsSteps, AnsweredKept
     DEF Queues!Unsupported, Queues!NotAssociated, Queues!FlushFails, Queues!Running, Serving
<1>2. CASE Queues!Scanned \/ Queues!Associated \/ Queues!KeyChanged
  BY <1>2, DoneSteps, AnsweredKept
     DEF Queues!Scanned, Queues!Associated, Queues!KeyChanged, Queues!Running, Serving, Busy
<1>3. CASE Queues!BeginGeneration
  <2>1. ~w_failed /\ w_pc = "cscan"
    BY <1>3 DEF Queues!BeginGeneration, Queues!Running
  <2>2. CASE Queues!Fails
    BY <2>1, <2>2, FailsSteps, AnsweredKept DEF Serving
  <2>3. CASE UNCHANGED <<then, Queues!queues>> /\ w_pc' = "prejoin"
    <3>1. Elsewhere
      BY <2>1, <2>3 DEF Elsewhere, Queues!queues, Busy, Serving
    <3>. QED
      BY <3>1, ElsewhereKept
  <2>. QED
    BY <1>3, <2>2, <2>3 DEF Queues!BeginGeneration, Queues!Goto
<1>4. CASE Queues!Disconnect
  <2>1. ~w_failed /\ w_pc = "disc"
    BY <1>4 DEF Queues!Disconnect, Queues!Running
  <2>2. CASE then = "answer" /\ Queues!Done("ok")
    BY <2>1, <2>2, DoneSteps, AnsweredKept DEF Busy
  <2>3. CASE then \in {"loop", "retire"} /\ UNCHANGED <<then, Queues!queues>> /\ w_pc' \in {"loop", "rkeys"}
    <3>1. Elsewhere
      BY <2>1, <2>3 DEF Elsewhere, Queues!queues, Busy, Serving
    <3>. QED
      BY <3>1, ElsewhereKept
  <2>. QED
    BY <1>4, <2>2, <2>3 DEF Queues!Disconnect, Queues!Goto
<1>. QED
  BY <1>1, <1>2, <1>3, <1>4

LEMMA QueuesKept == QInv /\ [Queues!Next]_(Queues!vars) => QInv'
<1>. SUFFICES ASSUME QInv, [Queues!Next]_(Queues!vars) PROVE QInv'
  OBVIOUS
<1>1. CASE Queues!Core
  BY <1>1, SubmitKept, CancelKept, PollKept, RetireKept, ElsewhereSteps, ElsewhereKept DEF Queues!Core
<1>2. CASE Queues!Step
  BY <1>2, TakeKept, AnsweringKept, ElsewhereSteps, ElsewhereKept DEF Queues!Step
<1>3. CASE Queues!TimeOut
  BY <1>3, AnsweringKept, StopKept DEF Queues!TimeOut, Queues!RetireTimeout
<1>4. CASE Queues!CommandTimeout
  BY <1>4, StopKept DEF Queues!CommandTimeout
<1>. QED
  BY <1>1, <1>2, <1>3, <1>4, ElsewhereSteps, ElsewhereKept DEF Queues!Next

----------------------------------------------------------------------------
(* The run. *)

\* A behaviour of the run is a behaviour of each part: the other parts leave it
\* alone.
LEMMA PartsOfTheRun ==
  NetworkSpec => /\ Control!Init /\ [][Control!Next]_(Control!vars)
                 /\ Queues!Init /\ [][Queues!Next]_(Queues!vars)
                 /\ Activity!Init /\ [][Activity!Next]_(Activity!vars)
<1>1. NetworkInit => Control!Init /\ Queues!Init /\ Activity!Init
  BY DEF NetworkInit
<1>. USE DEF NetworkNext, all, ControlOnly, QueuesOnly, ActivityOnly
<1>2. [NetworkNext]_all => [Control!Next]_(Control!vars)
  BY DEF control, Control!vars, Control!port, Control!firmware
<1>3. [NetworkNext]_all => [Queues!Next]_(Queues!vars)
  BY DEF queues, Queues!vars, Queues!queues, Queues!data, Queues!radio, Queues!work, Queues!rest
<1>4. [NetworkNext]_all => [Activity!Next]_(Activity!vars)
  BY DEF activity, Activity!vars
<1>. QED
  BY <1>1, <1>2, <1>3, <1>4, PTL DEF NetworkSpec

\* However commands, completions, faults, cancellations, retirements and
\* interrupts interleave: no control buffer has two owners and the caller gets
\* the answer of its own, undisturbed request (control.rs); requests stay within
\* QUEUE_LIMIT, each in one place, cancelled only by name (runtime.rs); a masked
\* line has exactly one party that will unmask it (activity.rs).
THEOREM WifiIsSafe == NetworkSpec => []WifiSafe
<1>1. CInv /\ QInv /\ HInv => WifiSafe
  BY SafeControl, SafeQueues, SafeHold DEF WifiSafe
<1>2. Control!Init => CInv
  BY ControlInit
<1>3. CInv /\ [Control!Next]_(Control!vars) => CInv'
  BY ControlKept
<1>4. Queues!Init => QInv
  BY QueuesInit
<1>5. QInv /\ [Queues!Next]_(Queues!vars) => QInv'
  BY QueuesKept
<1>6. Activity!Init => HInv
  BY HoldInit
<1>7. HInv /\ [Activity!Next]_(Activity!vars) => HInv'
  BY HoldKept
<1>. QED
  BY <1>1, <1>2, <1>3, <1>4, <1>5, <1>6, <1>7, PartsOfTheRun, PTL

=============================================================================
