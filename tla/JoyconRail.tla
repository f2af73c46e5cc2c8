----------------------------- MODULE JoyconRail -----------------------------
(***************************************************************************)
(* One Joy-Con rail: the worker of input/joycon runtime.rs with its Link   *)
(* (protocol.rs), the rail UART with its receive interrupt and bounded     *)
(* queue (soc/tegra210 uart_rx.rs and TegraUart of runtime.rs), and, as an *)
(* external party, a controller that can be pulled and plugged at any time *)
(* and whose replies can get lost.  The worker takes one loop iteration in *)
(* four steps; the interrupt handler runs between them.                    *)
(*                                                                         *)
(* Time is abstracted to the timers the code compares: whether `due` has   *)
(* passed, and how long no input came (0, past 250 ms, past 1800 ms).      *)
(***************************************************************************)
EXTENDS Naturals, Sequences

CONSTANTS Depth,     \* packets the receive queue holds (512 bytes in the code)
          MaxEvents  \* bound: packets lost, noise, plugs and unplugs

VARIABLES
  at,        \* probe, poll, take (initialize); detect, read, act, sleep (worker)
  link,      \* Link: stage, attempts, fast
  due, quiet,
  detected,
  uart,      \* on: IER; waker: installed; fast: divider; queue, errors: RxQueue
  half,      \* what the event device last showed of this half
  wire,      \* replies on their way to the UART
  inbox,     \* the last command the controller has not handled yet
  ctl,       \* the controller: present, awake, fast, hid
  events

vars == <<at, link, due, quiet, detected, uart, half, wire, inbox, ctl, events>>

Nothing == "nothing"
Neutral == "neutral"
NewLink == [stage |-> "Detached", attempts |-> 0, fast |-> FALSE]
Absent == [present |-> FALSE, awake |-> FALSE, fast |-> FALSE, hid |-> FALSE]

Init ==
  /\ at = "probe" /\ link = NewLink /\ due = TRUE /\ quiet = 0
  /\ detected = FALSE
  /\ uart = [on |-> FALSE, waker |-> FALSE, fast |-> FALSE, queue |-> <<>>, errors |-> FALSE]
  /\ half = Neutral /\ wire = <<>> /\ inbox = Nothing
  /\ ctl \in {[Absent EXCEPT !.present = here]: here \in BOOLEAN} /\ events = 0

---------------------------------------------------------------------------
(* Link                                                                    *)

Failed(l) == [l EXCEPT !.stage = "Backoff", !.fast = FALSE]
Advanced(l, stage) == [l EXCEPT !.stage = stage, !.attempts = 0]
ReceiveEnabled(l) == l.stage \notin {"Detached", "Backoff"}

\* Link::receive: replies are correlated with the stage, input proves a
\* connection from Rate on.
Received(l, p) ==
  IF p \in {"up", "down"}
  THEN IF l.stage \in {"Rate", "VerifyInput"} THEN Advanced(l, "Ready") ELSE l
  ELSE CASE l.stage = "Handshake" /\ p = "handshake" -> Advanced(l, "Info")
         [] l.stage = "Info" /\ p = "info" -> Advanced(l, "Baud")
         [] l.stage = "Baud" /\ p = "baud" -> [Advanced(l, "Disconnect") EXCEPT !.fast = TRUE]
         [] l.stage = "Disconnect" /\ p = "disconnect" -> Advanced(l, "Connect")
         [] l.stage = "Connect" /\ p = "connect" -> Advanced(l, "Rate")
         [] l.stage \in {"Rate", "VerifyInput"} /\ p = "rate" -> Advanced(l, "Ready")
         [] OTHER -> l
\* An input report or the rate reply restarts the input timer; a change of
\* stage makes the next transmission due.
IsReport(l, p) == p \in {"up", "down"} /\ l.stage \in {"Rate", "VerifyInput", "Ready"}

\* Link::next without the dead-link check: <<link', action>>.
Limit(stage) == IF stage = "VerifyInput" THEN 3 ELSE 2   \* 10 polls in the code
Command(stage) ==
  CASE stage = "Handshake" -> "handshake" [] stage = "Info" -> "info"
    [] stage = "Baud" -> "baud" [] stage = "Disconnect" -> "disconnect"
    [] stage = "Connect" -> "connect" [] stage = "Rate" -> "rate"
    [] OTHER -> "poll"
NextAction(l) ==
  IF ~ReceiveEnabled(l)
  THEN <<[Advanced(l, "Handshake") EXCEPT !.attempts = 1], "start">>
  ELSE IF l.fast THEN <<[l EXCEPT !.fast = FALSE], "fast">>
  ELSE LET v == IF l.stage = "Rate" /\ l.attempts >= 2 THEN Advanced(l, "VerifyInput") ELSE l
       IN  IF v.stage # "Ready" /\ v.attempts >= Limit(v.stage)
           THEN <<Failed(v), "none">>
           ELSE <<[v EXCEPT !.attempts = IF v.stage = "Ready" THEN 0 ELSE @ + 1],
                  Command(v.stage)>>

---------------------------------------------------------------------------
(* UART                                                                    *)

\* RxQueue::interrupt: drain the FIFO until it is empty, an error shows, or the
\* queue is full; an error masks the source.
Drained(q, p, noise) ==
  IF noise \/ (Len(q.queue) = Depth)
  THEN [q EXCEPT !.errors = TRUE, !.on = FALSE]
  ELSE [q EXCEPT !.queue = Append(@, p)]
Interrupt ==
  /\ uart.on /\ ~uart.errors /\ wire # <<>>
  /\ uart' = Drained(uart, Head(wire), Head(wire) = "noise")
  /\ wire' = Tail(wire)
  /\ UNCHANGED <<at, link, due, quiet, detected, half, inbox, ctl, events>>

Disabled(u) == [u EXCEPT !.on = FALSE, !.waker = FALSE, !.queue = <<>>, !.errors = FALSE]
\* configure clears FIFOs and queue, and rearms only an installed consumer.
Configured(u, fast) == [u EXCEPT !.fast = fast, !.queue = <<>>, !.errors = FALSE, !.on = u.waker]
Enabled(u) == [u EXCEPT !.waker = TRUE, !.on = TRUE]

\* What a transmission does to the UART and to the controller.
Sent(u, action) ==
  IF action = "start" THEN Configured(u, FALSE)
  ELSE IF action = "fast" THEN Configured(u, TRUE)
  ELSE u
Deliver(action) == IF action \in {"fast", "none"} THEN inbox
                   ELSE IF action = "start" THEN "handshake" ELSE action
\* configure clears the FIFOs.
Line(action) == IF action \in {"start", "fast"} THEN <<>> ELSE wire

---------------------------------------------------------------------------
(* initialize: the first exchange, polled, before the worker exists        *)

Probe ==
  /\ at = "probe"
  /\ detected' = ctl.present
  /\ at' = IF ctl.present THEN "poll" ELSE "take"
  /\ UNCHANGED <<link, due, quiet, uart, half, wire, inbox, ctl, events>>

\* One iteration: a packet from the FIFO, if any, then the next transmission.
\* The first report, a line error and a failed link end the exchange.
PollRead ==
  /\ at = "poll" /\ wire # <<>>
  /\ LET p == Head(wire) IN
       IF p = "noise"
       THEN /\ link' = Failed(link) /\ due' = FALSE /\ wire' = <<>> /\ at' = "take"
            /\ UNCHANGED half
       ELSE /\ link' = Received(link, p) /\ wire' = Tail(wire)
            /\ due' = (due \/ link'.stage # link.stage)
            /\ half' = IF IsReport(link, p) THEN p ELSE half
            /\ at' = IF IsReport(link, p) THEN "take" ELSE "poll"
  /\ UNCHANGED <<quiet, detected, uart, inbox, ctl, events>>
PollSend ==
  /\ at = "poll" /\ due
  /\ LET next == NextAction(link) IN
       /\ link' = next[1] /\ due' = (next[2] = "fast")
       /\ uart' = Sent(uart, next[2])
       /\ inbox' = Deliver(next[2]) /\ wire' = Line(next[2])
       /\ at' = IF next[1].stage = "Backoff" THEN "take" ELSE "poll"
  /\ UNCHANGED <<quiet, detected, half, ctl, events>>
\* A transmission times out, or twelve seconds have passed.
PollStop ==
  /\ at = "poll" /\ events < MaxEvents /\ events' = events + 1
  /\ link' \in {link, Failed(link)} /\ due' = FALSE
  /\ at' = "take"
  /\ UNCHANGED <<quiet, detected, uart, half, wire, inbox, ctl>>

\* The worker takes the rail over with the link as it is.
TakeOver ==
  /\ at = "take"
  /\ uart' = IF detected /\ ReceiveEnabled(link) THEN Enabled(uart) ELSE Disabled(uart)
  /\ quiet' = 0 /\ at' = "detect"
  /\ UNCHANGED <<link, due, detected, half, wire, inbox, ctl, events>>

---------------------------------------------------------------------------
(* The worker                                                              *)

\* Detection: only a rail that is not talking may have its TX pin borrowed.
Detect(check) ==
  /\ at = "detect"
  /\ IF check /\ ~ReceiveEnabled(link) /\ ctl.present # detected
     THEN /\ detected' = ctl.present
          /\ uart' = Disabled(uart)
          /\ link' = NewLink /\ due' = TRUE
          /\ half' = Neutral
     ELSE UNCHANGED <<detected, uart, link, due, half>>
  /\ at' = "read"
  /\ UNCHANGED <<quiet, wire, inbox, ctl, events>>

\* receive_ready and feed_each: the oldest packet.  (A burst is read by
\* several iterations.)  An error hands out the rest and fails the link.
ReadErrorMut == /\ uart' = [uart EXCEPT !.queue = <<>>, !.errors = FALSE]
                /\ UNCHANGED <<link, due>>
ReadError == /\ uart' = Disabled(uart)
             /\ IF detected THEN link' = Failed(link) /\ due' = FALSE
                            ELSE UNCHANGED <<link, due>>
Read ==
  /\ at = "read"
  /\ IF uart.errors
     THEN ReadError /\ wire' = <<>> /\ UNCHANGED <<quiet, half>>   \* recover_rx clears the FIFO
     ELSE IF uart.queue = <<>>
     THEN UNCHANGED <<uart, link, due, quiet, half, wire>>
     ELSE LET p == Head(uart.queue) IN
          /\ uart' = [uart EXCEPT !.queue = Tail(@)]
          /\ UNCHANGED wire
          /\ IF ~detected THEN UNCHANGED <<link, due, quiet, half>>
             ELSE /\ link' = Received(link, p)
                  /\ due' = (due \/ link'.stage # link.stage)
                  /\ quiet' = IF IsReport(link, p) \/ (link'.stage = "Ready" /\ p = "rate")
                              THEN 0 ELSE quiet
                  /\ half' = IF IsReport(link, p) THEN p ELSE half
  /\ at' = IF detected THEN "act" ELSE "sleep"
  /\ UNCHANGED <<detected, inbox, ctl, events>>

\* A link that is not ready, or has been silent for 250 ms, shows no buttons.
Silent(n) == quiet >= n
Stale == link.stage # "Ready" \/ Silent(1)

\* Release, next and transmit, which may time out; a link that is down is masked.
End(l, u) == IF ReceiveEnabled(l) THEN u ELSE Disabled(u)
Act ==
  /\ at = "act"
  /\ LET dead == IF link.stage = "Ready" /\ Silent(2) THEN Failed(link) ELSE link
         shown == IF Stale THEN Neutral ELSE half
     IN  IF ~due \/ dead # link
         THEN /\ link' = dead
              /\ due' = (due /\ dead = link)
              /\ half' = shown
              /\ uart' = End(dead, uart)
              /\ UNCHANGED <<inbox, events, wire>>
         ELSE LET next == NextAction(link)
                  moved == Sent(uart, next[2])
                  sent == IF next[2] = "start" THEN Enabled(moved) ELSE moved
              IN  /\ wire' = Line(next[2])
                  /\ \/ /\ link' = next[1]
                        /\ due' = (next[2] = "fast")
                        /\ half' = shown
                        /\ inbox' = Deliver(next[2])
                        /\ uart' = End(next[1], sent)
                        /\ UNCHANGED events
                     \/ /\ next[2] # "none"            \* TX or drain timeout
                        /\ events < MaxEvents
                        /\ link' = Failed(next[1]) /\ due' = FALSE
                        /\ half' = Neutral
                        /\ uart' = Disabled(sent)
                        /\ events' = events + 1
                        /\ UNCHANGED inbox
  /\ at' = "sleep"
  /\ UNCHANGED <<quiet, detected, ctl>>

\* wait_with_condition: a queue with data, a due transmission or the detection
\* timer ends the wait.
Wake ==
  /\ at = "sleep"
  /\ at' = "detect"
  /\ UNCHANGED <<link, due, quiet, detected, uart, half, wire, inbox, ctl, events>>

---------------------------------------------------------------------------
(* Time and the controller (external)                                      *)

\* A connected controller answers within the interval of a command and within
\* 250 ms of a poll; doing otherwise counts as one of the events.
Pending == inbox # Nothing \/ wire # <<>> \/ uart.queue # <<>>
Slow(unless) == \/ unless /\ UNCHANGED events
                \/ ~unless /\ events < MaxEvents /\ events' = events + 1
Due == /\ ~due /\ due' = TRUE
       /\ Slow(~Pending)
       /\ UNCHANGED <<at, link, quiet, detected, uart, half, wire, inbox, ctl>>
Silence == /\ quiet < 2 /\ link.stage = "Ready" /\ quiet' = quiet + 1
           /\ Slow(~ctl.hid)
           /\ UNCHANGED <<at, link, due, detected, uart, half, wire, inbox, ctl>>

\* The controller answers a command it can hear.  The handshake wakes it at
\* the slow rate; after acknowledging the new rate it talks at the fast one.
Hears == ctl.present /\ inbox # Nothing
         /\ (inbox = "handshake" \/ (ctl.awake /\ ctl.fast = uart.fast))
Answer(lost) ==
  /\ Hears /\ Len(wire) < 2
  /\ inbox' = Nothing
  /\ ctl' = CASE inbox = "handshake" -> [ctl EXCEPT !.awake = TRUE, !.fast = FALSE, !.hid = FALSE]
              [] inbox = "baud" -> [ctl EXCEPT !.fast = TRUE]
              [] inbox = "connect" -> [ctl EXCEPT !.hid = TRUE]
              [] OTHER -> ctl
  /\ IF lost THEN wire' = wire
     ELSE \E p \in IF inbox # "poll" THEN {inbox}
                   ELSE IF ctl.hid THEN {"up", "down"} ELSE {}: wire' = Append(wire, p)
  /\ events' = IF lost THEN events + 1 ELSE events
  /\ lost => events < MaxEvents
  /\ UNCHANGED <<at, link, due, quiet, detected, uart, half>>

\* Plugging and pulling; a floating line makes noise.
Plug == /\ events < MaxEvents /\ events' = events + 1
        /\ ctl' = [Absent EXCEPT !.present = ~ctl.present]
        /\ inbox' = Nothing
        /\ wire' = IF ctl.present /\ Len(wire) < 2 THEN Append(wire, "noise") ELSE <<>>
        /\ UNCHANGED <<at, link, due, quiet, detected, uart, half>>
\* A command nobody can hear is gone.
Unheard == /\ inbox # Nothing /\ ~Hears
           /\ inbox' = Nothing
           /\ UNCHANGED <<at, link, due, quiet, detected, uart, half, wire, ctl, events>>
\* Bytes that arrive while receive is masked are dropped by the next clear.
Dropped == /\ wire # <<>> /\ ~uart.on /\ at # "poll"
           /\ wire' = <<>>
           /\ UNCHANGED <<at, link, due, quiet, detected, uart, half, inbox, ctl, events>>

Initialize == Probe \/ PollRead \/ PollSend \/ TakeOver
Worker == (\E check \in BOOLEAN: Detect(check)) \/ Read \/ Act \/ Wake
Next == \/ Initialize \/ PollStop \/ Worker \/ Interrupt \/ Due \/ Silence \/ Plug \/ Unheard \/ Dropped
        \/ \E lost \in BOOLEAN: Answer(lost)

\* The worker runs and checks detection again and again, timers expire,
\* interrupts are delivered, a connected controller answers.
Fairness ==
  /\ WF_vars(Initialize) /\ WF_vars(Worker) /\ SF_vars(Detect(TRUE)) /\ WF_vars(Due /\ ~Pending) /\ WF_vars(Interrupt)
  /\ WF_vars(Silence /\ ~ctl.hid) /\ WF_vars(Answer(FALSE)) /\ WF_vars(Unheard) /\ WF_vars(Dropped)
Spec == Init /\ [][Next]_vars /\ Fairness

---------------------------------------------------------------------------
(* Properties                                                              *)

\* Whenever the worker sleeps on a link that expects replies, either receive is
\* armed or the error that masked it is waiting in the queue: a link never
\* waits for bytes nobody will deliver.
ReceiveArmed ==
  at = "sleep" /\ ReceiveEnabled(link) => uart.on \/ uart.errors

\* A detached or failed link keeps receive masked through its backoff, so that
\* a floating line cannot storm the interrupt controller.
QuietWhenDown == at = "sleep" /\ ~ReceiveEnabled(link) => ~uart.on

\* No button stays pressed on a link that is down.
NothingHeldWhenDown == at = "sleep" /\ link.stage # "Ready" => half = Neutral

\* No button stays pressed after its controller was pulled.
PulledReleases == ~ctl.present ~> (half = Neutral \/ ctl.present)

\* A controller that stays plugged in connects, whatever was lost before.
Connects == []<>(~ctl.present) \/ []<>(link.stage = "Ready")
=============================================================================
