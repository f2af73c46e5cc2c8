------------------------ MODULE SourcePolicyProofs ------------------------
(***************************************************************************)
(* Proofs about SourcePolicy for any number of cables, disturbances and    *)
(* failing transactions and any settling delay: the inherited charger mode *)
(* is restored whenever no source session is left, and boost is on, and a  *)
(* host reported, only when the port, its faults and the rail justify it.  *)
(* The inductive invariant SInv relates the service's passes to what they  *)
(* carry: the mode saved, the clock of the rail and the faults read.       *)
(***************************************************************************)
EXTENDS SourcePolicy, TLAPS

\* The steps of a pass.
Steps == {"init_stop", "init", "observe", "confirm", "again", "latched", "apply",
          "enable", "boost", "last", "withdraw", "shutdown", "done", "pd"}

\* Which steps a pass of each kind takes, and in which state of the controller.
Positions ==
  /\ at \in Steps \cup {"rest"}
  /\ at = "rest" <=> pass = "none"
  /\ at \in {"init", "pd"} => pass = "monitor"
  /\ at \in {"init_stop", "init"} => init # "Ready"
  /\ at \notin {"init_stop", "init", "rest"} => init = "Ready"
  /\ pass = "monitor" /\ at \in {"init_stop", "init"} => ~was
  /\ at = "init_stop" => pass \in {"monitor", "startup"}
  /\ init # "Ready" => settle = Unsettled

\* The mode saved is the one probe() inherited, and it is saved before boost may be
\* switched on.
Restores ==
  /\ src.saved \in {"none", inherited}
  /\ at \in {"enable", "boost"} => src.saved # "none"
  /\ ModeRestored

\* Once a pass has enabled boost a session means that boost is on, and at the end of a
\* pass boost is on only for a source.
Boosting ==
  /\ at \in {"last", "withdraw", "done", "pd"} /\ src.saved # "none" => mode = "otg"
  /\ at = "done" /\ mode = "otg" => can_source(view)
  /\ at \in {"observe", "confirm", "again", "apply"} /\ was => src.saved # "none"

\* The session has not been interrupted: nothing that runs now takes it away.
Unbroken == src.saved # "none" /\ (pass = "none" \/ was \/ at = "pd") /\ at # "shutdown"

\* While the session is unbroken the monitor's clock is no older than the rail: the
\* delay it waits for was not started before boost was enabled.
Settling ==
  Unbroken =>
    /\ settle.ready # "none" \/ settle.tick => mode = "otg"
    /\ settle.ready # "none" => settle.age <= rail
    /\ settle.ready = "settled" => settle.age = Settle
    /\ settle.ready = "none" /\ settle.tick /\ was /\ pass = "monitor" /\ at # "pd" => since <= rail

\* A FAULT bit the service read is carried by a pass until a confirmed observation.
Noticed ==
  /\ culprit <= cable /\ faulty \subseteq 0 .. cable
  /\ at \in {"init_stop", "init", "observe"} /\ src.unresolved => prior \/ "FAULT" \in hand
  /\ at = "confirm" => ~src.unresolved

\* A fault consumed for the attached cable is unresolved, latched or in the hands of the
\* pass that will latch it, and that pass enables nothing.
Remembered ==
  errors = 0 /\ port.attached /\ cable \in faulty =>
    /\ src.unresolved \/ src.latch = port.side \/ (at = "confirm" /\ "FAULT" \in hand)
    /\ at \notin {"apply", "enable"}
    /\ at = "again" => "FAULT" \in hand

\* The inductive invariant.
SInv == Positions /\ Restores /\ Boosting /\ Settling /\ Noticed /\ Remembered /\ FaultRemembered

-----------------------------------------------------------------------------
(* stop(): the charger goes back to the inherited mode. *)

\* What stop() does when it succeeds ...
Stopped ==
  /\ src' = [src EXCEPT !.saved = "none"]
  /\ mode' = inherited
  /\ rail' \in 0 .. Settle

\* ... and what it may have done when it fails: the session stays.
Attempted ==
  /\ src' = src
  /\ mode' \in {mode, inherited, "off"}
  /\ src.saved = "none" => mode' = mode
  /\ rail' \in 0 .. Settle

\* stop() that succeeds restores the inherited mode and drops the session.
LEMMA StopWorks ==
  ASSUME TypeOK, Restores, stop(TRUE)
  PROVE  Stopped
BY SourceAssumption DEF TypeOK, Restores, ModeRestored, stop, SetMode, Stopped, Sources

\* stop() that fails keeps the session.
LEMMA StopLapses ==
  ASSUME TypeOK, Restores, stop(FALSE)
  PROVE  Attempted
BY SourceAssumption DEF TypeOK, Restores, ModeRestored, stop, SetMode, Attempted, Sources

-----------------------------------------------------------------------------
(* The records of the model. *)

\* The fields of SourceState, one changed at a time.
LEMMA SourceFields ==
  ASSUME NEW s \in Sources
  PROVE  /\ s.saved \in {"none", "off", "charge"}
         /\ s.latch \in Sides \cup {"none"}
         /\ s.unresolved \in BOOLEAN
         /\ [s EXCEPT !.saved = "none"] \in Sources
         /\ \A v \in {"none", "off", "charge"} : [s EXCEPT !.saved = v] \in Sources
         /\ \A v \in Sides \cup {"none"} : [s EXCEPT !.latch = v] \in Sources
         /\ \A b \in BOOLEAN : [s EXCEPT !.unresolved = b] \in Sources
         /\ \A v \in Sides \cup {"none"} : [s EXCEPT !.unresolved = FALSE, !.latch = v] \in Sources
BY DEF Sources

\* The fields of the settling clock.
LEMMA SettleFields ==
  ASSUME NEW s \in Settles
  PROVE  /\ s.tick \in BOOLEAN
         /\ s.ready \in {"none", "run", "settled"}
         /\ s.age \in 0 .. Settle
         /\ [s EXCEPT !.ready = "settled"] \in Settles
         /\ [s EXCEPT !.tick = TRUE] \in Settles
         /\ s.age < Settle => [s EXCEPT !.age = @ + 1] \in Settles
         /\ Unsettled \in Settles
         /\ \A n \in 0 .. Settle : [tick |-> FALSE, ready |-> "run", age |-> n] \in Settles
<1>1. s.tick \in BOOLEAN /\ s.ready \in {"none", "run", "settled"} /\ s.age \in 0 .. Settle
  BY DEF Settles
<1>2. [s EXCEPT !.ready = "settled"] \in Settles /\ [s EXCEPT !.tick = TRUE] \in Settles
  BY DEF Settles
<1>3. s.age < Settle => [s EXCEPT !.age = @ + 1] \in Settles
  <2>. DEFINE n == s.age + 1
  <2>. SUFFICES ASSUME s.age < Settle PROVE [s EXCEPT !.age = n] \in Settles
    OBVIOUS
  <2>1. n \in 0 .. Settle
    BY <1>1, SourceAssumption
  <2>. HIDE DEF n
  <2>. QED
    BY <2>1 DEF Settles
<1>4. 0 \in 0 .. Settle
  BY SourceAssumption
<1>5. /\ Unsettled \in Settles
      /\ \A n \in 0 .. Settle : [tick |-> FALSE, ready |-> "run", age |-> n] \in Settles
  BY <1>4 DEF Settles, Unsettled
<1>. QED
  BY <1>1, <1>2, <1>3, <1>5

\* The fields of a port status.
LEMMA PortFields ==
  ASSUME NEW p \in Ports
  PROVE  /\ p.attached \in BOOLEAN /\ p.side \in Sides
         /\ p.source \in BOOLEAN /\ p.fault \in BOOLEAN
         /\ [p EXCEPT !.attached = FALSE, !.fault = FALSE] \in Ports
         /\ \A b \in BOOLEAN : [p EXCEPT !.fault = b] \in Ports
         /\ [p EXCEPT !.source = ~@] \in Ports
         /\ SideOf(p) \in Sides \cup {"none"}
BY DEF Ports, SideOf

-----------------------------------------------------------------------------
(* How a step or a pass ends. *)

\* A failing monitor pass gives up the settling clock and asks for a retry.
LEMMA MonitorFailing ==
  ASSUME MonitorFails
  PROVE  /\ pass' = "none" /\ at' = "rest" /\ hand' = {} /\ prior' = FALSE /\ was' = FALSE
         /\ since' = 0 /\ settle' = Unsettled /\ host' = FALSE /\ retry' = TRUE /\ failed' = failed
BY DEF MonitorFails, Return

\* So does a failing startup pass.
LEMMA StartupFailing ==
  ASSUME StartupFails
  PROVE  /\ pass' = "none" /\ at' = "rest" /\ hand' = {} /\ prior' = FALSE /\ was' = FALSE
         /\ since' = 0 /\ settle' = Unsettled /\ host' = host /\ retry' = TRUE /\ failed' = TRUE
BY DEF StartupFails, Return

\* The values after stop() succeeded ...
LEMMA StoppedFields ==
  ASSUME TypeOK, Restores, Stopped
  PROVE  /\ src' \in Sources
         /\ src'.saved = "none" /\ src'.latch = src.latch /\ src'.unresolved = src.unresolved
         /\ mode' = inherited /\ mode' \in {"off", "charge"} /\ rail' \in 0 .. Settle
BY DEF TypeOK, Stopped, Sources

\* ... and after it failed.
LEMMA AttemptedFields ==
  ASSUME TypeOK, Restores, Attempted
  PROVE  /\ src' \in Sources /\ src' = src
         /\ mode' \in {"off", "charge", "otg"} /\ rail' \in 0 .. Settle
         /\ src.saved = "none" => mode' = mode
BY DEF TypeOK, Attempted, Sources

\* A step that stops the source goes on, or to where a failure leads.
LEMMA StoppingEnds ==
  ASSUME TypeOK, Restores, NEW ok, NEW bad, Stopping(ok, bad)
  PROVE  /\ UNCHANGED <<pass, hand, prior, was, since>>
         /\ \/ Stopped /\ at' = ok /\ errors' = errors
            \/ Attempted /\ at' = bad /\ errors < MaxErrors /\ errors' = errors + 1
BY StopWorks, StopLapses, Zenon DEF Stopping, Go, Succeed, Lapse

\* In either case the latch and the unresolved mark stay.
LEMMA StopEffect ==
  ASSUME TypeOK, Restores, Stopped \/ Attempted
  PROVE  /\ src' \in Sources /\ src'.latch = src.latch /\ src'.unresolved = src.unresolved
         /\ src'.saved \in {"none", src.saved}
         /\ src'.saved = "none" => mode' = inherited
         /\ mode' \in {"off", "charge", "otg"} /\ rail' \in 0 .. Settle
<1>1. CASE Stopped
  BY <1>1, StoppedFields, SourceFields DEF TypeOK
<1>2. CASE Attempted
  BY <1>2, AttemptedFields, SourceFields DEF TypeOK, Restores, ModeRestored
<1>. QED
  BY <1>1, <1>2

\* The error counter stays within its bound ...
LEMMA Counted ==
  ASSUME TypeOK, errors' = errors \/ (errors < MaxErrors /\ errors' = errors + 1)
  PROVE  errors' \in 0 .. MaxErrors /\ (errors' = errors \/ errors' = errors + 1)
BY SourceAssumption DEF TypeOK

\* ... whether a transaction succeeds or fails.
LEMMA Lapses ==
  ASSUME TypeOK, Succeed \/ Lapse
  PROVE  errors' \in 0 .. MaxErrors /\ (errors' = errors \/ errors' = errors + 1)
BY SourceAssumption DEF TypeOK, Succeed, Lapse

\* The end of a startup pass.
LEMMA StartupEnding ==
  ASSUME TypeOK, NEW isHost \in BOOLEAN, StartupEnds(isHost)
  PROVE  /\ pass' = "none" /\ at' = "rest" /\ hand' = {} /\ prior' = FALSE /\ was' = FALSE
         /\ since' = 0 /\ host' = host /\ failed' = failed /\ retry' \in BOOLEAN
<1>1. retry' \in BOOLEAN
  BY Zenon DEF StartupEnds, TypeOK
<1>. QED
  BY <1>1 DEF StartupEnds, Return

\* Latching the side a FAULT belongs to, and where the pass goes on.
LEMMA GoesOn ==
  ASSUME NEW p \in Ports, NEW s \in Sources, Goes(p, s)
  PROVE  /\ src' \in Sources /\ src'.saved = s.saved /\ src'.unresolved = s.unresolved
         /\ UNCHANGED <<pass, hand, prior, was, since>>
         /\ at' \in {"again", "apply"}
         /\ "FAULT" \in hand => src'.latch = SideOf(p) /\ at' = "again"
         /\ "FAULT" \notin hand => src'.latch = s.latch
<1>1. SideOf(p) \in Sides \cup {"none"}
  BY PortFields
<1>2. src' = IF "FAULT" \in hand THEN [s EXCEPT !.latch = SideOf(p)] ELSE s
  BY DEF Goes
<1>3. /\ src' \in Sources /\ src'.saved = s.saved /\ src'.unresolved = s.unresolved
      /\ "FAULT" \in hand => src'.latch = SideOf(p)
      /\ "FAULT" \notin hand => src'.latch = s.latch
  BY <1>1, <1>2 DEF Sources
<1>4. /\ UNCHANGED <<pass, hand, prior, was, since>>
      /\ at' \in {"again", "apply"}
      /\ "FAULT" \in hand => at' = "again"
  BY DEF Goes, Go
<1>. QED
  BY <1>3, <1>4

\* A failing observation latches the side or counts an error, and shuts down.
LEMMA FailsToObserve ==
  ASSUME TypeOK, ObserveFails
  PROVE  /\ at' = "shutdown" /\ src' \in Sources
         /\ src'.saved = src.saved /\ src'.unresolved = src.unresolved
         /\ \/ errors' = errors + 1 /\ errors < MaxErrors /\ src'.latch = src.latch
            \/ errors' = errors /\ src'.latch = SideOf(port)
         /\ UNCHANGED <<env, power, init, due, settle, view, outcome, faulty, inherited>>
         /\ UNCHANGED <<pass, hand, prior, was, since>>
         /\ viewed' \in {viewed, cable}
<1>1. SideOf(port) \in Sides \cup {"none"}
  BY PortFields DEF TypeOK
<1>2. \/ Lapse /\ UNCHANGED <<src, hist>>
      \/ Succeed /\ src' = [src EXCEPT !.latch = SideOf(port)] /\ Seen
  BY DEF ObserveFails, Latched
<1>3. /\ at' = "shutdown" /\ UNCHANGED <<env, power, init, due, settle, view, outcome>>
      /\ UNCHANGED <<pass, hand, prior, was, since>>
  BY DEF ObserveFails, Go
<1>4. /\ src' \in Sources /\ src'.saved = src.saved /\ src'.unresolved = src.unresolved
      /\ src'.latch = src.latch \/ src'.latch = SideOf(port)
  BY <1>1, <1>2 DEF TypeOK, Sources
<1>5. /\ \/ errors' = errors + 1 /\ errors < MaxErrors /\ src'.latch = src.latch
         \/ errors' = errors /\ src'.latch = SideOf(port)
      /\ UNCHANGED <<faulty, inherited>> /\ viewed' \in {viewed, cable}
  BY <1>1, <1>2 DEF TypeOK, Sources, Lapse, Succeed, Seen, hist
<1>. QED
  BY <1>3, <1>4, <1>5

\* A step of the initialisation ends the pass in a phase or in failure.
LEMMA Phases ==
  ASSUME TypeOK, NEW phase \in Inits, InitTo(phase) \/ InitFails
  PROVE  /\ init' \in {phase, "Failed"} /\ due' \in BOOLEAN
         /\ pass' = "none" /\ at' = "rest" /\ hand' = {} /\ prior' = FALSE /\ was' = FALSE
         /\ since' = 0 /\ settle' \in {settle, Unsettled}
         /\ host' \in BOOLEAN /\ retry' \in BOOLEAN /\ failed' \in BOOLEAN
BY MonitorFailing, Zenon DEF InitTo, InitFails, Return, TypeOK

-----------------------------------------------------------------------------
(* Every step keeps the invariant. *)

\* stop_sourcing() between passes: the settling clock restarts.
LEMMA StopSourcingKeeps ==
  ASSUME TypeOK, SInv, StopSourcing
  PROVE  TypeOK' /\ SInv'
<1>1. Positions /\ Restores /\ Boosting /\ Settling /\ Noticed /\ Remembered /\ FaultRemembered
  BY DEF SInv
<1>2. /\ at = "rest" /\ settle' = Unsettled /\ UNCHANGED <<env, init, due, locals, hist>>
      /\ failed' = TRUE /\ host' = FALSE /\ retry' \in BOOLEAN
      /\ Stopped \/ Attempted
      /\ errors' \in 0 .. MaxErrors /\ (errors' = errors \/ errors' = errors + 1)
  BY <1>1, StopWorks, StopLapses, Lapses DEF StopSourcing, locals
<1>3. /\ src' \in Sources /\ src'.latch = src.latch /\ src'.unresolved = src.unresolved
      /\ src'.saved \in {"none", src.saved}
      /\ src'.saved = "none" => mode' = inherited
      /\ mode' \in {"off", "charge", "otg"} /\ rail' \in 0 .. Settle
  BY <1>1, <1>2, StopEffect
<1>4. Stopped => src'.saved = "none" /\ mode' = inherited /\ mode' # "otg"
  BY <1>1, StoppedFields
<1>5. settle' \in Settles
  BY <1>2, SettleFields DEF TypeOK
<1>6. hand' \subseteq Bits
  BY <1>2 DEF TypeOK, locals
<1>7. since' \in 0 .. Settle
  BY <1>2, SourceAssumption DEF TypeOK, locals
<1>8. TypeOK'
  BY <1>2, <1>3, <1>5, <1>6, <1>7 DEF TypeOK, env, locals, outcome, hist, Positions
<1>9. Positions'
  BY <1>1, <1>2 DEF Positions, Steps, Unsettled, locals
<1>10. Restores'
  BY <1>1, <1>2, <1>3 DEF TypeOK, Restores, ModeRestored, hist, Positions, locals
<1>11. Boosting'
  BY <1>1, <1>2, <1>3, <1>4 DEF TypeOK, Boosting, Positions, locals, can_source
<1>12. Settling'
  BY <1>1, <1>2, <1>3, <1>4 DEF Settling, Unbroken, Unsettled, Boosting, Positions, locals
<1>13. Noticed'
  BY <1>1, <1>2, <1>3 DEF Noticed, env, hist, locals
<1>14. Remembered'
  BY <1>1, <1>2, <1>3 DEF TypeOK, Remembered, env, hist, locals
<1>15. FaultRemembered'
  BY <1>1, <1>2 DEF FaultRemembered, FaultKeepsBoostOff, env, hist, locals
<1>. QED
  BY <1>8, <1>9, <1>10, <1>11, <1>12, <1>13, <1>14, <1>15 DEF SInv

\* Boost off because of a latched fault.
LEMMA StopLatchedKeeps ==
  ASSUME TypeOK, SInv, StopLatched
  PROVE  TypeOK' /\ SInv'
<1>1. Positions /\ Restores /\ Boosting /\ Settling /\ Noticed /\ Remembered /\ FaultRemembered
  BY DEF SInv
<1>2. /\ at = "latched" /\ at' = "shutdown"
      /\ UNCHANGED <<env, init, due, settle, view, outcome, hist>>
      /\ UNCHANGED <<pass, hand, prior, was, since>>
      /\ Stopped \/ Attempted
      /\ errors' \in 0 .. MaxErrors /\ (errors' = errors \/ errors' = errors + 1)
  BY <1>1, StoppingEnds, Counted DEF StopLatched
<1>3. /\ src' \in Sources /\ src'.latch = src.latch /\ src'.unresolved = src.unresolved
      /\ src'.saved \in {"none", src.saved}
      /\ src'.saved = "none" => mode' = inherited
      /\ mode' \in {"off", "charge", "otg"} /\ rail' \in 0 .. Settle
  BY <1>1, <1>2, StopEffect
<1>4. Stopped => src'.saved = "none" /\ mode' = inherited /\ mode' # "otg"
  BY <1>1, StoppedFields
<1>5. settle' \in Settles
  BY <1>2, SettleFields DEF TypeOK
<1>6. hand' \subseteq Bits
  BY <1>2 DEF TypeOK, locals
<1>7. since' \in 0 .. Settle
  BY <1>2, SourceAssumption DEF TypeOK, locals
<1>8. TypeOK'
  BY <1>2, <1>3, <1>5, <1>6, <1>7 DEF TypeOK, env, locals, outcome, hist, Positions
<1>9. Positions'
  BY <1>1, <1>2 DEF Positions, Steps, Unsettled, locals
<1>10. Restores'
  BY <1>1, <1>2, <1>3 DEF TypeOK, Restores, ModeRestored, hist, Positions, locals
<1>11. Boosting'
  BY <1>1, <1>2, <1>3, <1>4 DEF TypeOK, Boosting, Positions, locals, can_source
<1>12. Settling'
  BY <1>1, <1>2, <1>3, <1>4 DEF Settling, Unbroken, Unsettled, Boosting, Positions, locals
<1>13. Noticed'
  BY <1>1, <1>2, <1>3 DEF Noticed, env, hist, locals
<1>14. Remembered'
  BY <1>1, <1>2, <1>3 DEF TypeOK, Remembered, env, hist, locals
<1>15. FaultRemembered'
  BY <1>1, <1>2 DEF FaultRemembered, FaultKeepsBoostOff, env, hist, locals
<1>. QED
  BY <1>8, <1>9, <1>10, <1>11, <1>12, <1>13, <1>14, <1>15 DEF SInv

\* Boost off because the port no longer asks for it.
LEMMA WithdrawKeeps ==
  ASSUME TypeOK, SInv, Withdraw
  PROVE  TypeOK' /\ SInv'
<1>1. Positions /\ Restores /\ Boosting /\ Settling /\ Noticed /\ Remembered /\ FaultRemembered
  BY DEF SInv
<1>2. /\ at = "withdraw" /\ UNCHANGED <<env, init, due, settle, view, outcome, hist>>
      /\ UNCHANGED <<pass, hand, prior, was, since>>
      /\ (Stopped /\ at' = "done") \/ (Attempted /\ at' = "shutdown")
      /\ errors' \in 0 .. MaxErrors /\ (errors' = errors \/ errors' = errors + 1)
  BY <1>1, StoppingEnds, Counted DEF Withdraw
<1>3. /\ src' \in Sources /\ src'.latch = src.latch /\ src'.unresolved = src.unresolved
      /\ src'.saved \in {"none", src.saved}
      /\ src'.saved = "none" => mode' = inherited
      /\ mode' \in {"off", "charge", "otg"} /\ rail' \in 0 .. Settle
  BY <1>1, <1>2, StopEffect
<1>4. Stopped => src'.saved = "none" /\ mode' = inherited /\ mode' # "otg"
  BY <1>1, StoppedFields
<1>5. settle' \in Settles
  BY <1>2, SettleFields DEF TypeOK
<1>6. hand' \subseteq Bits
  BY <1>2 DEF TypeOK, locals
<1>7. since' \in 0 .. Settle
  BY <1>2, SourceAssumption DEF TypeOK, locals
<1>8. TypeOK'
  BY <1>2, <1>3, <1>5, <1>6, <1>7 DEF TypeOK, env, locals, outcome, hist, Positions
<1>9. Positions'
  BY <1>1, <1>2 DEF Positions, Steps, Unsettled, locals
<1>10. Restores'
  BY <1>1, <1>2, <1>3 DEF TypeOK, Restores, ModeRestored, hist, Positions, locals
<1>11. Boosting'
  BY <1>1, <1>2, <1>3, <1>4 DEF TypeOK, Boosting, Positions, locals, can_source
<1>12. Settling'
  BY <1>1, <1>2, <1>3, <1>4 DEF Settling, Unbroken, Unsettled, Boosting, Positions, locals
<1>13. Noticed'
  BY <1>1, <1>2, <1>3 DEF Noticed, env, hist, locals
<1>14. Remembered'
  BY <1>1, <1>2, <1>3 DEF TypeOK, Remembered, env, hist, locals
<1>15. FaultRemembered'
  BY <1>1, <1>2 DEF FaultRemembered, FaultKeepsBoostOff, env, hist, locals
<1>. QED
  BY <1>8, <1>9, <1>10, <1>11, <1>12, <1>13, <1>14, <1>15 DEF SInv

\* Boost off because the pass failed.
LEMMA ShutdownKeeps ==
  ASSUME TypeOK, SInv, Shutdown
  PROVE  TypeOK' /\ SInv'
<1>1. Positions /\ Restores /\ Boosting /\ Settling /\ Noticed /\ Remembered /\ FaultRemembered
  BY DEF SInv
<1>2. /\ at = "shutdown" /\ UNCHANGED <<env, init, due, view, hist>>
      /\ pass' = "none" /\ at' = "rest" /\ hand' = {} /\ prior' = FALSE /\ was' = FALSE
      /\ since' = 0
      /\ settle' = Unsettled /\ host' \in BOOLEAN /\ retry' = TRUE /\ failed' \in BOOLEAN
      /\ Stopped \/ Attempted
      /\ errors' \in 0 .. MaxErrors /\ (errors' = errors \/ errors' = errors + 1)
  BY <1>1, StopWorks, StopLapses, Lapses, MonitorFailing, StartupFailing DEF Shutdown, TypeOK
<1>3. /\ src' \in Sources /\ src'.latch = src.latch /\ src'.unresolved = src.unresolved
      /\ src'.saved \in {"none", src.saved}
      /\ src'.saved = "none" => mode' = inherited
      /\ mode' \in {"off", "charge", "otg"} /\ rail' \in 0 .. Settle
  BY <1>1, <1>2, StopEffect
<1>4. Stopped => src'.saved = "none" /\ mode' = inherited /\ mode' # "otg"
  BY <1>1, StoppedFields
<1>5. settle' \in Settles
  BY <1>2, SettleFields DEF TypeOK
<1>6. hand' \subseteq Bits
  BY <1>2 DEF TypeOK, locals
<1>7. since' \in 0 .. Settle
  BY <1>2, SourceAssumption DEF TypeOK, locals
<1>8. TypeOK'
  BY <1>2, <1>3, <1>5, <1>6, <1>7 DEF TypeOK, env, locals, outcome, hist, Positions
<1>9. Positions'
  BY <1>1, <1>2 DEF Positions, Steps, Unsettled, locals
<1>10. Restores'
  BY <1>1, <1>2, <1>3 DEF TypeOK, Restores, ModeRestored, hist, Positions, locals
<1>11. Boosting'
  BY <1>1, <1>2, <1>3, <1>4 DEF TypeOK, Boosting, Positions, locals, can_source
<1>12. Settling'
  BY <1>1, <1>2, <1>3, <1>4 DEF Settling, Unbroken, Unsettled, Boosting, Positions, locals
<1>13. Noticed'
  BY <1>1, <1>2, <1>3 DEF Noticed, env, hist, locals
<1>14. Remembered'
  BY <1>1, <1>2, <1>3 DEF TypeOK, Remembered, env, hist, locals
<1>15. FaultRemembered'
  BY <1>1, <1>2 DEF FaultRemembered, FaultKeepsBoostOff, env, hist, locals
<1>. QED
  BY <1>8, <1>9, <1>10, <1>11, <1>12, <1>13, <1>14, <1>15 DEF SInv

\* Boost off before the controller is initialised again.
LEMMA InitStopKeeps ==
  ASSUME TypeOK, SInv, InitStop
  PROVE  TypeOK' /\ SInv'
<1>1. Positions /\ Restores /\ Boosting /\ Settling /\ Noticed /\ Remembered /\ FaultRemembered
  BY DEF SInv
<1>2. /\ at = "init_stop" /\ UNCHANGED <<env, init, due, view, hist>>
      /\ settle' = Unsettled /\ host' \in BOOLEAN /\ retry' \in BOOLEAN /\ failed' \in BOOLEAN
      /\ \/ /\ pass = "monitor" /\ at' = "init" /\ Stopped
            /\ UNCHANGED <<pass, hand, prior, was, since>>
         \/ /\ pass' = "none" /\ at' = "rest" /\ hand' = {}
            /\ prior' = FALSE /\ was' = FALSE /\ since' = 0
      /\ Stopped \/ Attempted
      /\ errors' \in 0 .. MaxErrors /\ (errors' = errors \/ errors' = errors + 1)
  BY <1>1, StopWorks, StopLapses, Lapses, MonitorFailing, StartupFailing, StartupEnding
    DEF InitStop, Go, TypeOK, Positions, outcome
<1>3. /\ src' \in Sources /\ src'.latch = src.latch /\ src'.unresolved = src.unresolved
      /\ src'.saved \in {"none", src.saved}
      /\ src'.saved = "none" => mode' = inherited
      /\ mode' \in {"off", "charge", "otg"} /\ rail' \in 0 .. Settle
  BY <1>1, <1>2, StopEffect
<1>4. Stopped => src'.saved = "none" /\ mode' = inherited /\ mode' # "otg"
  BY <1>1, StoppedFields
<1>5. settle' \in Settles
  BY <1>2, SettleFields DEF TypeOK
<1>6. hand' \subseteq Bits
  BY <1>2 DEF TypeOK, locals
<1>7. since' \in 0 .. Settle
  BY <1>2, SourceAssumption DEF TypeOK, locals
<1>8. TypeOK'
  BY <1>2, <1>3, <1>5, <1>6, <1>7 DEF TypeOK, env, locals, outcome, hist, Positions
<1>9. Positions'
  BY <1>1, <1>2 DEF Positions, Steps, Unsettled, locals
<1>10. Restores'
  BY <1>1, <1>2, <1>3 DEF TypeOK, Restores, ModeRestored, hist, Positions, locals
<1>11. Boosting'
  BY <1>1, <1>2, <1>3, <1>4 DEF TypeOK, Boosting, Positions, locals, can_source
<1>12. Settling'
  BY <1>1, <1>2, <1>3, <1>4 DEF Settling, Unbroken, Unsettled, Boosting, Positions, locals
<1>13. Noticed'
  BY <1>1, <1>2, <1>3 DEF Noticed, env, hist, locals
<1>14. Remembered'
  BY <1>1, <1>2, <1>3 DEF TypeOK, Remembered, env, hist, locals
<1>15. FaultRemembered'
  BY <1>1, <1>2 DEF FaultRemembered, FaultKeepsBoostOff, env, hist, locals
<1>. QED
  BY <1>8, <1>9, <1>10, <1>11, <1>12, <1>13, <1>14, <1>15 DEF SInv

\* Draining the alerts, which hands a FAULT bit to the pass.
LEMMA DrainKeeps ==
  ASSUME TypeOK, SInv, Drain
  PROVE  TypeOK' /\ SInv'
<1>1. Positions /\ Restores /\ Boosting /\ Settling /\ Noticed /\ Remembered /\ FaultRemembered
  BY DEF SInv
<1>2. \/ pass' = "monitor" /\ Succeed /\ since' = 0 /\ hand' = alert /\ alert' = {}
         /\ src' = [src EXCEPT !.unresolved = src.unresolved \/ "FAULT" \in alert]
         /\ settle' \in {settle, [settle EXCEPT !.ready = "settled"]}
         /\ prior' = src.unresolved /\ was' = (init = "Ready" /\ src.saved # "none")
         /\ UNCHANGED outcome
      \/ /\ Lapse /\ UNCHANGED <<src, alert>> /\ settle' = Unsettled /\ since' = 0
         /\ pass' = "none" /\ at' = "rest" /\ hand' = {} /\ prior' = FALSE /\ was' = FALSE
         /\ host' = FALSE /\ retry' = TRUE /\ failed' = failed
  BY MonitorFailing, Zenon DEF Drain
<1>3. src' \in Sources /\ settle' \in Settles
  BY <1>2, SourceFields, SettleFields DEF TypeOK
<1>4. /\ prior' \in BOOLEAN /\ was' \in BOOLEAN /\ host' \in BOOLEAN /\ retry' \in BOOLEAN
      /\ failed' \in BOOLEAN
  BY <1>2, SourceFields DEF TypeOK, outcome
<1>5. faulty' \subseteq 0 .. MaxCables
  BY DEF Drain, TypeOK
<1>6. /\ errors' \in 0 .. MaxErrors /\ pass' \in {"none", "monitor"} /\ hand' \subseteq Bits
      /\ alert' \subseteq Bits /\ since' \in 0 .. Settle
  BY <1>2, Lapses, SourceAssumption DEF TypeOK
<1>7. TypeOK'
  BY <1>3, <1>4, <1>5, <1>6 DEF Drain, TypeOK, power
<1>8. Positions'
  BY <1>1 DEF Drain, MonitorFails, Return, Positions, Steps, TypeOK, Unsettled
<1>9. Restores'
  BY <1>1 DEF Drain, MonitorFails, Return, power, Restores, ModeRestored, TypeOK, Sources
<1>10. Boosting'
  BY <1>1 DEF Drain, MonitorFails, Return, Boosting, TypeOK, Sources
<1>11. Settling'
  BY <1>1 DEF Drain, MonitorFails, power, Positions, Settling, Unbroken, TypeOK, Settles, Unsettled
<1>12. Noticed'
  BY <1>1 DEF Drain, MonitorFails, Return, Noticed, TypeOK, Sources
<1>13. Remembered'
  BY <1>1 DEF Drain, Succeed, Lapse, Remembered, TypeOK, Ports, Sources
<1>14. FaultRemembered'
  BY <1>1 DEF Drain, MonitorFails, Return, FaultRemembered, FaultKeepsBoostOff
<1>. QED
  BY <1>7, <1>8, <1>9, <1>10, <1>11, <1>12, <1>13, <1>14 DEF SInv

\* The first observation of a pass.
LEMMA ObserveKeeps ==
  ASSUME TypeOK, SInv, Observe
  PROVE  TypeOK' /\ SInv'
<1>1. Positions /\ Restores /\ Boosting /\ Settling /\ Noticed /\ Remembered /\ FaultRemembered
  BY DEF SInv
<1>. DEFINE place == IF prior THEN SideOf(port) ELSE src.latch
<1>2. /\ Placed \in Sources /\ Placed.saved = src.saved /\ Placed.unresolved = FALSE
      /\ Placed.latch = place
  <2>1. port \in Ports /\ src \in Sources /\ place \in Sides \cup {"none"}
    BY PortFields, SourceFields DEF TypeOK
  <2>2. Placed = [src EXCEPT !.unresolved = FALSE, !.latch = place]
    BY DEF Placed
  <2>. HIDE DEF place
  <2>. QED
    BY <2>1, <2>2 DEF Sources
<1>. HIDE DEF place
<1>3. /\ at = "observe" /\ UNCHANGED <<env, power, init, due, settle, outcome>>
      /\ UNCHANGED <<pass, hand, prior, was, since, faulty, inherited>>
      /\ view' \in {view, port} /\ viewed' \in {viewed, cable}
      /\ src' \in Sources /\ src'.saved = src.saved
      /\ \/ /\ at' = "shutdown" /\ src'.unresolved = src.unresolved
            /\ \/ errors < MaxErrors /\ errors' = errors + 1
               \/ errors' = errors /\ src'.latch = SideOf(port)
         \/ /\ at' \in {"again", "apply"} /\ errors' = errors /\ place = "none" /\ ~src'.unresolved
            /\ "FAULT" \in hand => src'.latch = SideOf(port) /\ at' = "again"
         \/ /\ at' = (IF SideOf(port) = place THEN "latched" ELSE "confirm") /\ errors' = errors
            /\ src'.latch = place /\ ~src'.unresolved
  <2>0. /\ at = "observe" /\ UNCHANGED <<env, power, init, due, settle, outcome>>
    BY Zenon DEF Observe, ObserveFails
  <2>1. CASE ObserveFails
    BY <2>1, FailsToObserve DEF Observe
  <2>2. CASE ObserveOk /\ Placed.latch = "none" /\ Goes(port, Placed)
    BY <2>0, <2>2, <1>2, GoesOn DEF ObserveOk, Seen, Succeed, TypeOK
  <2>3. CASE /\ ObserveOk /\ src' = Placed
             /\ Go(IF SideOf(port) = Placed.latch THEN "latched" ELSE "confirm")
    BY <2>0, <2>3, <1>2 DEF ObserveOk, Seen, Succeed, Go
  <2>. QED
    BY <2>1, <2>2, <2>3 DEF Observe
<1>4. /\ at = "observe"
      /\ UNCHANGED <<env, power, init, due, settle, outcome, pass, hand, prior, was, since>>
      /\ UNCHANGED <<faulty, inherited>>
      /\ view' \in {view, port} /\ viewed' \in {viewed, cable}
      /\ at' \in {"shutdown", "again", "apply", "latched", "confirm"}
      /\ src' \in Sources /\ src'.saved = src.saved
      /\ errors' = errors \/ (errors < MaxErrors /\ errors' = errors + 1)
      /\ (at' = "confirm" => ~src'.unresolved)
  BY <1>3
<1>5. errors' \in 0 .. MaxErrors /\ (errors' = errors \/ errors' = errors + 1)
  BY <1>4, Counted
<1>6. TypeOK'
  BY <1>4, <1>5 DEF TypeOK, env, power, outcome
<1>7. Positions'
  BY <1>1, <1>4 DEF Positions, Steps
<1>8. Restores'
  BY <1>1, <1>4 DEF Restores, ModeRestored, power
<1>9. Boosting'
  BY <1>1, <1>4 DEF Boosting, Positions, power
<1>10. Settling'
  BY <1>1, <1>4 DEF Settling, Unbroken, Positions, power
<1>11. Noticed'
  BY <1>1, <1>4 DEF Noticed, env
<1>12. Remembered'
  BY <1>1, <1>3, SourceAssumption DEF Remembered, Noticed, TypeOK, Ports, SideOf, env, place
<1>13. FaultRemembered'
  BY <1>4 DEF FaultRemembered, FaultKeepsBoostOff
<1>. QED
  BY <1>6, <1>7, <1>8, <1>9, <1>10, <1>11, <1>12, <1>13 DEF SInv

\* The second observation, which confirms or latches.
LEMMA ConfirmKeeps ==
  ASSUME TypeOK, SInv, Confirm
  PROVE  TypeOK' /\ SInv'
<1>1. Positions /\ Restores /\ Boosting /\ Settling /\ Noticed /\ Remembered /\ FaultRemembered
  BY DEF SInv
<1>2. /\ at = "confirm" /\ UNCHANGED <<env, power, init, due, settle, outcome>>
      /\ UNCHANGED <<pass, hand, prior, was, since, faulty, inherited>>
      /\ view' \in {view, port} /\ viewed' \in {viewed, cable}
      /\ src' \in Sources /\ src'.saved = src.saved /\ src'.unresolved = src.unresolved
      /\ \/ /\ at' = "shutdown"
            /\ \/ errors < MaxErrors /\ errors' = errors + 1
               \/ errors' = errors /\ src'.latch = SideOf(port)
         \/ /\ at' \in {"again", "apply"} /\ errors' = errors /\ SideOf(port) # src.latch
            /\ "FAULT" \in hand => src'.latch = SideOf(port) /\ at' = "again"
         \/ at' = "latched" /\ errors' = errors /\ src' = src /\ src.latch = SideOf(port)
  <2>0. /\ at = "confirm" /\ UNCHANGED <<env, power, init, due, settle, outcome>>
    BY Zenon DEF Confirm, ObserveFails
  <2>1. CASE ObserveFails
    BY <2>1, FailsToObserve DEF Confirm
  <2>2. CASE ObserveOk /\ SideOf(port) # src.latch /\ Goes(port, [src EXCEPT !.latch = "none"])
    <3>1. /\ [src EXCEPT !.latch = "none"] \in Sources
          /\ [src EXCEPT !.latch = "none"].saved = src.saved
          /\ [src EXCEPT !.latch = "none"].unresolved = src.unresolved
      BY DEF TypeOK, Sources
    <3>2. port \in Ports
      BY DEF TypeOK
    <3>. DEFINE freed == [src EXCEPT !.latch = "none"]
    <3>3. /\ freed \in Sources /\ freed.saved = src.saved /\ freed.unresolved = src.unresolved
          /\ Goes(port, freed)
      BY <2>2, <3>1
    <3>. HIDE DEF freed
    <3>. QED
      BY <2>0, <2>2, <3>2, <3>3, GoesOn DEF ObserveOk, Seen, Succeed
  <2>3. CASE ObserveOk /\ SideOf(port) = src.latch /\ Go("latched") /\ UNCHANGED src
    BY <2>0, <2>3 DEF ObserveOk, Seen, Succeed, Go, TypeOK
  <2>. QED
    BY <2>1, <2>2, <2>3 DEF Confirm
<1>3. /\ at = "confirm"
      /\ UNCHANGED <<env, power, init, due, settle, outcome, pass, hand, prior, was, since>>
      /\ UNCHANGED <<faulty, inherited>>
      /\ view' \in {view, port} /\ viewed' \in {viewed, cable}
      /\ at' \in {"shutdown", "again", "apply", "latched"}
      /\ src' \in Sources /\ src'.saved = src.saved
      /\ errors' = errors \/ (errors < MaxErrors /\ errors' = errors + 1)
      /\ TRUE
  BY <1>2
<1>4. errors' \in 0 .. MaxErrors /\ (errors' = errors \/ errors' = errors + 1)
  BY <1>3, Counted
<1>5. TypeOK'
  BY <1>3, <1>4 DEF TypeOK, env, power, outcome
<1>6. Positions'
  BY <1>1, <1>3 DEF Positions, Steps
<1>7. Restores'
  BY <1>1, <1>3 DEF Restores, ModeRestored, power
<1>8. Boosting'
  BY <1>1, <1>3 DEF Boosting, Positions, power
<1>9. Settling'
  BY <1>1, <1>3 DEF Settling, Unbroken, Positions, power
<1>10. Noticed'
  BY <1>1, <1>3 DEF Noticed, env
<1>11. Remembered'
  BY <1>1, <1>2, SourceAssumption DEF Remembered, Noticed, TypeOK, Ports, SideOf, env
<1>12. FaultRemembered'
  BY <1>3 DEF FaultRemembered, FaultKeepsBoostOff
<1>. QED
  BY <1>5, <1>6, <1>7, <1>8, <1>9, <1>10, <1>11, <1>12 DEF SInv

\* Reading the alerts once more.
LEMMA AgainKeeps ==
  ASSUME TypeOK, SInv, Again
  PROVE  TypeOK' /\ SInv'
<1>1. Positions /\ Restores /\ Boosting /\ Settling /\ Noticed /\ Remembered /\ FaultRemembered
  BY DEF SInv
<1>2. /\ src' \in Sources /\ view' \in {view, port} /\ viewed' \in {viewed, cable}
     
      /\ UNCHANGED <<env, power, init, due, settle, outcome, pass, hand, prior, was, since>>
      /\ UNCHANGED <<faulty, inherited>>
      /\ errors' = errors \/ (errors < MaxErrors /\ errors' = errors + 1)
  BY FailsToObserve DEF Again, ObserveOk, Succeed, Seen, Go, TypeOK
<1>3. errors' \in 0 .. MaxErrors
  BY <1>2, Counted
<1>4. TypeOK'
  BY <1>2, <1>3 DEF TypeOK, env, power, outcome
<1>5. Positions'
  BY <1>1 DEF Again, ObserveFails, Go, Positions, Steps
<1>6. Restores'
  BY <1>1 DEF Again, ObserveFails, ObserveOk, Go, Seen, Latched, power, hist, Restores,
    ModeRestored, TypeOK, Sources
<1>7. Boosting'
  BY <1>1 DEF Again, ObserveFails, Go, Boosting
<1>8. Settling'
  BY <1>1 DEF Again, ObserveFails, Go, power, Settling, Unbroken
<1>9. Noticed'
  BY <1>1 DEF Again, ObserveFails, ObserveOk, Go, Seen, env, hist, Noticed
<1>10. Remembered'
  BY <1>1 DEF Again, ObserveFails, ObserveOk, Go, Seen, Latched, Succeed, Lapse, SideOf, env,
    Remembered, TypeOK, Sources
<1>11. FaultRemembered'
  BY <1>1 DEF Again, ObserveFails, Go, FaultRemembered, FaultKeepsBoostOff
<1>. QED
  BY <1>4, <1>5, <1>6, <1>7, <1>8, <1>9, <1>10, <1>11 DEF SInv

\* The last look at the port after boost was enabled.
LEMMA LastKeeps ==
  ASSUME TypeOK, SInv, Last
  PROVE  TypeOK' /\ SInv'
<1>1. Positions /\ Restores /\ Boosting /\ Settling /\ Noticed /\ Remembered /\ FaultRemembered
  BY DEF SInv
<1>2. /\ src' \in Sources /\ view' \in {view, port} /\ viewed' \in {viewed, cable}
     
      /\ UNCHANGED <<env, power, init, due, settle, outcome, pass, hand, prior, was, since>>
      /\ UNCHANGED <<faulty, inherited>>
      /\ errors' = errors \/ (errors < MaxErrors /\ errors' = errors + 1)
  BY FailsToObserve DEF Last, ObserveOk, Succeed, Seen, Go, TypeOK
<1>3. errors' \in 0 .. MaxErrors
  BY <1>2, Counted
<1>4. TypeOK'
  BY <1>2, <1>3 DEF TypeOK, env, power, outcome
<1>5. Positions'
  BY <1>1 DEF Last, ObserveFails, Go, Positions, Steps
<1>6. Restores'
  BY <1>1 DEF Last, ObserveFails, ObserveOk, Go, Seen, Latched, power, hist, Restores,
    ModeRestored, TypeOK, Sources
<1>7. Boosting'
  BY <1>1 DEF Last, ObserveFails, ObserveOk, Go, power, Boosting
<1>8. Settling'
  BY <1>1 DEF Last, ObserveFails, Go, power, Settling, Unbroken
<1>9. Noticed'
  BY <1>1 DEF Last, ObserveFails, ObserveOk, Go, Seen, env, hist, Noticed
<1>10. Remembered'
  BY <1>1 DEF Last, ObserveFails, ObserveOk, Go, Seen, Latched, Succeed, Lapse, SideOf, env,
    Remembered, TypeOK, Sources
<1>11. FaultRemembered'
  BY <1>1 DEF Last, ObserveFails, Go, FaultRemembered, FaultKeepsBoostOff
<1>. QED
  BY <1>4, <1>5, <1>6, <1>7, <1>8, <1>9, <1>10, <1>11 DEF SInv

\* Saving the mode; a fault was not consumed for this cable.
LEMMA EnableKeeps ==
  ASSUME TypeOK, SInv, Enable
  PROVE  TypeOK' /\ SInv'
<1>1. Positions /\ Restores /\ Boosting /\ Settling /\ Noticed /\ Remembered /\ FaultRemembered
  BY DEF SInv
<1>2. errors' \in 0 .. MaxErrors
  BY Lapses DEF Enable
<1>3. TypeOK'
  BY <1>2 DEF TypeOK, Enable, Go, env, power, outcome, hist
<1>4. Positions'
  BY <1>1 DEF Enable, Go, Positions, Steps
<1>5. Restores'
  BY <1>1 DEF Enable, Restores, ModeRestored
<1>6. Boosting'
  BY <1>1 DEF Enable, Go, power, Boosting
<1>7. Settling'
  BY <1>1 DEF Enable, Go, power, Settling, Unbroken
<1>8. Noticed'
  BY <1>1 DEF Enable, Go, env, Noticed
<1>9. Remembered'
  BY <1>1 DEF Enable, Succeed, Lapse, env, Remembered, TypeOK
<1>10. FaultRemembered'
  BY <1>1 DEF Enable, Go, Succeed, can_source, Remembered, FaultRemembered, FaultKeepsBoostOff
<1>. QED
  BY <1>3, <1>4, <1>5, <1>6, <1>7, <1>8, <1>9, <1>10 DEF SInv

\* Switching boost on starts the rail, never the clock.
LEMMA BoostKeeps ==
  ASSUME TypeOK, SInv, Boost
  PROVE  TypeOK' /\ SInv'
<1>1. Positions /\ Restores /\ Boosting /\ Settling /\ Noticed /\ Remembered /\ FaultRemembered
  BY DEF SInv
<1>2. errors' \in 0 .. MaxErrors
  BY Lapses DEF Boost
<1>3. rail' \in 0 .. Settle /\ mode' \in {"off", "charge", "otg"}
  BY SourceAssumption DEF Boost, SetMode, TypeOK
<1>4. TypeOK'
  BY <1>2, <1>3 DEF TypeOK, Boost, Go, env, power, outcome, hist
<1>5. Positions'
  BY <1>1 DEF Boost, Go, Positions, Steps
<1>6. Restores'
  BY <1>1 DEF Boost, hist, Restores, ModeRestored
<1>7. Boosting'
  BY <1>1 DEF Boost, Go, SetMode, Boosting
<1>8. Settling'
  BY <1>1 DEF Boost, Go, SetMode, Settling, Unbroken
<1>9. Noticed'
  BY <1>1 DEF Boost, Go, env, hist, Noticed
<1>10. Remembered'
  BY <1>1 DEF Boost, Go, Succeed, Lapse, env, hist, Remembered, TypeOK
<1>11. FaultRemembered'
  BY <1>1 DEF Boost, Go, FaultRemembered, FaultKeepsBoostOff
<1>. QED
  BY <1>4, <1>5, <1>6, <1>7, <1>8, <1>9, <1>10, <1>11 DEF SInv

\* Polling the initialisation.
LEMMA InitPollKeeps ==
  ASSUME TypeOK, SInv, InitPoll
  PROVE  TypeOK' /\ SInv'
<1>1. Positions /\ Restores /\ Boosting /\ Settling /\ Noticed /\ Remembered /\ FaultRemembered
  BY DEF SInv
<1>2. /\ UNCHANGED <<env, power, src, view, hist>> /\ errors' \in 0 .. MaxErrors
      /\ \/ /\ at' = "observe" /\ init' = "Ready"
            /\ UNCHANGED <<pass, hand, prior, was, since, due, settle, outcome>>
         \/ /\ init' \in Inits /\ due' \in BOOLEAN
            /\ pass' = "none" /\ at' = "rest" /\ hand' = {} /\ prior' = FALSE /\ was' = FALSE
            /\ since' = 0 /\ settle' \in {settle, Unsettled}
            /\ host' \in BOOLEAN /\ retry' \in BOOLEAN /\ failed' \in BOOLEAN
  <2>1. errors' \in 0 .. MaxErrors
    BY Lapses DEF InitPoll, InitTo, InitFails
  <2>2. CASE \E phase \in Inits : InitTo(phase) \/ InitFails
    BY <2>1, <2>2, Phases DEF InitPoll, Inits
  <2>3. CASE Go("observe") /\ init' = "Ready" /\ UNCHANGED <<due, settle, outcome>>
    BY <2>1, <2>3 DEF InitPoll, Go
  <2>. QED
    BY <2>2, <2>3 DEF InitPoll, Inits, TypeOK
<1>3. settle' \in Settles
  BY <1>2, SettleFields DEF TypeOK
<1>4. hand' \subseteq Bits
  BY <1>2 DEF TypeOK
<1>5. since' \in 0 .. Settle
  BY <1>2, SourceAssumption DEF TypeOK
<1>6. TypeOK'
  BY <1>2, <1>3, <1>4, <1>5, SourceAssumption DEF TypeOK, env, power, outcome, hist, Inits
<1>7. Positions'
  BY <1>1 DEF InitPoll, InitTo, InitFails, MonitorFails, Return, Go, Positions, Steps
<1>8. Restores'
  BY <1>1 DEF InitPoll, InitTo, InitFails, MonitorFails, Return, Go, power, hist, Restores,
    ModeRestored
<1>9. Boosting'
  BY <1>1 DEF InitPoll, InitTo, InitFails, MonitorFails, Return, Go, Positions, Boosting
<1>10. Settling'
  BY <1>1 DEF InitPoll, InitTo, InitFails, MonitorFails, Positions, Settling, Unsettled
<1>11. Noticed'
  BY <1>1 DEF InitPoll, InitTo, InitFails, MonitorFails, Return, Go, env, hist, Noticed
<1>12. Remembered'
  BY <1>1 DEF InitPoll, InitTo, InitFails, Succeed, Lapse, MonitorFails, Return, Go, env, hist,
    Remembered, TypeOK
<1>13. FaultRemembered'
  BY <1>1 DEF InitPoll, InitTo, InitFails, MonitorFails, Return, Go, FaultRemembered,
    FaultKeepsBoostOff
<1>. QED
  BY <1>6, <1>7, <1>8, <1>9, <1>10, <1>11, <1>12, <1>13 DEF SInv

\* Writing the settings of a controller that was reset.
LEMMA InitResetKeeps ==
  ASSUME TypeOK, SInv, InitReset
  PROVE  TypeOK' /\ SInv'
<1>1. Positions /\ Restores /\ Boosting /\ Settling /\ Noticed /\ Remembered /\ FaultRemembered
  BY DEF SInv
<1>2. /\ UNCHANGED <<cable, port, noise, culprit, power, view, viewed, inherited>>
      /\ errors' \in 0 .. MaxErrors /\ (errors' = errors \/ errors' = errors + 1)
      /\ init' \in Inits /\ init' # "Ready" /\ due' \in BOOLEAN
      /\ pass' = "none" /\ at' = "rest" /\ hand' = {} /\ prior' = FALSE /\ was' = FALSE
      /\ since' = 0 /\ settle' \in {settle, Unsettled}
      /\ host' \in BOOLEAN /\ retry' \in BOOLEAN /\ failed' \in BOOLEAN
  <2>1. errors' \in 0 .. MaxErrors /\ (errors' = errors \/ errors' = errors + 1)
    BY Lapses DEF InitReset, InitTo, InitFails
  <2>2. InitTo("WaitSettle") \/ InitFails
    BY DEF InitReset
  <2>. QED
    BY <2>1, <2>2, Phases DEF InitReset, Inits
<1>3. \/ src' = src /\ alert' = alert /\ faulty' = faulty
      \/ /\ src' = [src EXCEPT !.unresolved = src.unresolved \/ "FAULT" \in alert] /\ alert' = {}
         /\ faulty' = IF "FAULT" \in alert THEN faulty \cup {culprit} ELSE faulty
  BY Zenon DEF InitReset
<1>4. /\ src' \in Sources /\ src'.saved = src.saved /\ src'.latch = src.latch
      /\ src.unresolved => src'.unresolved
      /\ alert' \subseteq Bits /\ faulty' \subseteq 0 .. MaxCables
      /\ faulty' = faulty \/ (src'.unresolved /\ faulty' = faulty \cup {culprit})
  BY <1>3 DEF TypeOK, Sources
<1>5. settle' \in Settles
  BY <1>2, SettleFields DEF TypeOK
<1>6. since' \in 0 .. Settle
  BY <1>2, SourceAssumption
<1>7. TypeOK'
  BY <1>2, <1>4, <1>5, <1>6 DEF TypeOK, power
<1>8. Positions'
  BY <1>1, <1>2 DEF InitReset, Positions, Steps
<1>9. Restores'
  BY <1>1, <1>2, <1>4 DEF Restores, ModeRestored, power
<1>10. Boosting'
  BY <1>1, <1>2, <1>4 DEF Boosting, power
<1>11. Settling'
  BY <1>1, <1>2, <1>4, <1>8 DEF InitReset, Settling, Unbroken, Unsettled, Positions, power
<1>12. Noticed'
  BY <1>1, <1>2, <1>4 DEF Noticed, TypeOK
<1>13. Remembered'
  BY <1>1, <1>2, <1>4 DEF Remembered, TypeOK, InitReset
<1>14. FaultRemembered'
  BY <1>2 DEF FaultRemembered, FaultKeepsBoostOff
<1>. QED
  BY <1>7, <1>8, <1>9, <1>10, <1>11, <1>12, <1>13, <1>14 DEF SInv

\* Deciding what the port asks for.
LEMMA ApplyKeeps ==
  ASSUME TypeOK, SInv, Apply
  PROVE  TypeOK' /\ SInv'
<1>1. Positions /\ Restores /\ Boosting /\ Settling /\ Noticed /\ Remembered /\ FaultRemembered
  BY DEF SInv
<1>2. /\ at = "apply" /\ UNCHANGED <<env, init, due, settle, view, outcome, hist>>
      /\ UNCHANGED <<pass, hand, prior, was, since>>
      /\ errors' \in 0 .. MaxErrors /\ (errors' = errors \/ errors' = errors + 1)
      /\ \/ Stopped /\ at' = "last" /\ ~can_source(view)
         \/ Attempted /\ at' = "shutdown"
         \/ /\ UNCHANGED power /\ at' = "enable" /\ can_source(view)
            /\ src' = [src EXCEPT !.saved = IF src.saved # "none" THEN src.saved
                                            ELSE IF mode = "charge" THEN mode ELSE "off"]
         \/ UNCHANGED <<power, src>> /\ at' = "shutdown"
  <2>1. CASE ~can_source(view) /\ Stopping("last", "shutdown")
    BY <1>1, <2>1, StoppingEnds, Counted DEF Apply
  <2>2. CASE can_source(view)
    BY <2>2, Lapses DEF Apply, Go
  <2>. QED
    BY <2>1, <2>2 DEF Apply
<1>3. /\ src' \in Sources /\ src'.latch = src.latch /\ src'.unresolved = src.unresolved
      /\ src'.saved \in {"none", inherited}
      /\ src'.saved = "none" => mode' = inherited
      /\ at' \in {"enable", "shutdown"} /\ src.saved # "none" => src'.saved = src.saved
      /\ at' = "enable" => src'.saved # "none" /\ mode' = mode /\ rail' = rail
      /\ mode' \in {"off", "charge", "otg"} /\ rail' \in 0 .. Settle
      /\ at' = "last" => src'.saved = "none"
  <2>1. CASE at' = "last"
    BY <1>1, <1>2, <2>1, StoppedFields DEF Restores
  <2>2. CASE Attempted /\ at' = "shutdown"
    BY <1>1, <2>2, AttemptedFields DEF Restores, ModeRestored
  <2>3. CASE at' = "enable"
    BY <1>1, <1>2, <2>3 DEF Restores, ModeRestored, TypeOK, Sources, power
  <2>4. CASE UNCHANGED <<power, src>> /\ at' = "shutdown"
    BY <1>1, <2>4 DEF Restores, ModeRestored, TypeOK, power
  <2>. QED
    BY <1>2, <2>1, <2>2, <2>3, <2>4
<1>4. at' \in {"last", "enable", "shutdown"}
  BY <1>2
<1>5. TypeOK'
  BY <1>2, <1>3 DEF TypeOK, env, outcome, hist
<1>6. Positions'
  BY <1>1, <1>2, <1>4 DEF Positions, Steps
<1>7. Restores'
  BY <1>1, <1>2, <1>3, <1>4 DEF Restores, ModeRestored, hist
<1>8. Boosting'
  BY <1>1, <1>2, <1>3, <1>4 DEF Boosting
<1>9. Settling'
  BY <1>1, <1>2, <1>3, <1>4 DEF Settling, Unbroken, Boosting, Positions
<1>10. Noticed'
  BY <1>1, <1>2, <1>3, <1>4 DEF Noticed, env, hist
<1>11. Remembered'
  BY <1>1, <1>2, <1>3, <1>4 DEF TypeOK, Remembered, env, hist
<1>12. FaultRemembered'
  BY <1>2, <1>4 DEF FaultRemembered, FaultKeepsBoostOff
<1>. QED
  BY <1>5, <1>6, <1>7, <1>8, <1>9, <1>10, <1>11, <1>12 DEF SInv

\* The end of the source part of a monitor pass, where the clock is anchored.
LEMMA MonitorDoneKeeps ==
  ASSUME TypeOK, SInv, MonitorDone
  PROVE  TypeOK' /\ SInv'
<1>1. Positions /\ Restores /\ Boosting /\ Settling /\ Noticed /\ Remembered /\ FaultRemembered
  BY DEF SInv
<1>2. Anchored \in Settles
  <2>1. Unsettled \in Settles /\ settle \in Settles /\ since \in 0 .. Settle
    BY SettleFields DEF TypeOK
  <2>. DEFINE old == IF was THEN settle ELSE Unsettled
  <2>2. old \in Settles
    BY <2>1
  <2>3. Anchored \in {Unsettled, old, [tick |-> FALSE, ready |-> "run", age |-> since],
                         [old EXCEPT !.tick = TRUE]}
    BY DEF Anchored
  <2>. HIDE DEF old
  <2>. QED
    BY <2>1, <2>2, <2>3, SettleFields
<1>3. TypeOK'
  BY <1>2 DEF TypeOK, MonitorDone, Go, env, power, outcome, hist
<1>4. Positions'
  BY <1>1 DEF MonitorDone, Go, Positions, Steps
<1>5. Restores'
  BY <1>1 DEF MonitorDone, Go, power, hist, Restores, ModeRestored
<1>6. Boosting'
  BY <1>1 DEF MonitorDone, Go, power, Boosting
<1>7. Settling'
  BY <1>1 DEF MonitorDone, Anchored, Go, power, Boosting, Settling, Unbroken, Unsettled
<1>8. Noticed'
  BY <1>1 DEF MonitorDone, Go, env, hist, Noticed
<1>9. Remembered'
  BY <1>1 DEF MonitorDone, Go, env, hist, Remembered
<1>10. FaultRemembered'
  BY <1>1 DEF MonitorDone, Go, FaultRemembered, FaultKeepsBoostOff
<1>. QED
  BY <1>3, <1>4, <1>5, <1>6, <1>7, <1>8, <1>9, <1>10 DEF SInv

\* The PD and charging parts of a monitor pass.
LEMMA PdAndChargeKeeps ==
  ASSUME TypeOK, SInv, PdAndCharge
  PROVE  TypeOK' /\ SInv'
<1>1. Positions /\ Restores /\ Boosting /\ Settling /\ Noticed /\ Remembered /\ FaultRemembered
  BY DEF SInv
<1>2. \/ /\ pass' = "recheck" /\ at' = "observe" /\ hand' = {} /\ since' = 0
         /\ prior' = src.unresolved /\ was' = (src.saved # "none") /\ alert' \in {alert, {}}
         /\ Succeed /\ UNCHANGED <<settle, outcome>>
      \/ /\ pass' = "none" /\ at' = "rest" /\ hand' = {} /\ since' = 0
         /\ prior' = FALSE /\ was' = FALSE
         /\ Lapse /\ settle' = Unsettled /\ host' = FALSE /\ retry' = TRUE /\ failed' = failed
         /\ alert' = alert
  BY MonitorFailing, Zenon DEF PdAndCharge
<1>3. /\ prior' \in BOOLEAN /\ was' \in BOOLEAN /\ host' \in BOOLEAN /\ retry' \in BOOLEAN
      /\ failed' \in BOOLEAN
  BY <1>2, SourceFields DEF TypeOK, outcome
<1>4. settle' \in Settles /\ alert' \subseteq Bits
  BY <1>2, SettleFields DEF TypeOK
<1>5. errors' \in 0 .. MaxErrors /\ since' \in 0 .. Settle
  BY <1>2, Lapses, SourceAssumption
<1>6. UNCHANGED <<cable, port, noise, culprit, power, init, due, src, view, hist>>
  BY DEF PdAndCharge
<1>7. TypeOK'
  BY <1>2, <1>3, <1>4, <1>5, <1>6 DEF TypeOK, power, hist
<1>8. Positions'
  BY <1>1 DEF PdAndCharge, MonitorFails, Return, Positions, Steps
<1>9. Restores'
  BY <1>1 DEF PdAndCharge, MonitorFails, Return, power, hist, Restores, ModeRestored
<1>10. Boosting'
  BY <1>1, <1>2, <1>6 DEF Boosting, power
<1>11. Settling'
  BY <1>1 DEF PdAndCharge, MonitorFails, power, Settling, Unbroken, Unsettled
<1>12. Noticed'
  BY <1>1 DEF PdAndCharge, MonitorFails, Return, hist, Noticed
<1>13. Remembered'
  BY <1>1 DEF PdAndCharge, Succeed, Lapse, hist, Remembered, TypeOK
<1>14. FaultRemembered'
  BY <1>1 DEF PdAndCharge, MonitorFails, Return, FaultRemembered, FaultKeepsBoostOff
<1>. QED
  BY <1>7, <1>8, <1>9, <1>10, <1>11, <1>12, <1>13, <1>14 DEF SInv

\* The end of a recheck or startup pass.
LEMMA PollDoneKeeps ==
  ASSUME TypeOK, SInv, PollDone
  PROVE  TypeOK' /\ SInv'
<1>1. Positions /\ Restores /\ Boosting /\ Settling /\ Noticed /\ Remembered /\ FaultRemembered
  BY DEF SInv
<1>2. /\ settle' = Kept /\ pass' = "none" /\ at' = "rest" /\ hand' = {} /\ prior' = FALSE
      /\ was' = FALSE
      /\ since' = 0 /\ host' \in BOOLEAN /\ retry' \in BOOLEAN /\ failed' \in BOOLEAN
  <2>1. SourceHost \in BOOLEAN
    BY Zenon DEF SourceHost
  <2>2. Reported \subseteq BOOLEAN
    BY <2>1 DEF Reported
  <2>3. CASE \E isHost \in BOOLEAN : StartupEnds(isHost)
    BY <2>3, StartupEnding DEF PollDone, TypeOK
  <2>4. CASE Return /\ retry' = FALSE /\ UNCHANGED failed /\ host' \in BOOLEAN
    BY <2>4 DEF PollDone, Return, TypeOK
  <2>. QED
    BY <2>2, <2>3, <2>4 DEF PollDone
<1>3. settle' \in Settles
  BY <1>2, SettleFields DEF TypeOK, Kept
<1>4. since' \in 0 .. Settle
  BY <1>2, SourceAssumption
<1>5. UNCHANGED <<env, power, init, due, src, view, errors, hist>>
  BY DEF PollDone
<1>6. TypeOK'
  BY <1>2, <1>3, <1>4, <1>5 DEF TypeOK, env, power, hist
<1>7. Positions'
  BY <1>1 DEF PollDone, StartupEnds, Return, Positions
<1>8. Restores'
  BY <1>1 DEF PollDone, StartupEnds, Return, power, hist, Restores, ModeRestored
<1>9. Boosting'
  BY <1>1 DEF PollDone, StartupEnds, Return, Boosting
<1>10. Settling'
  BY <1>1 DEF PollDone, Kept, StartupEnds, Return, power, Settling, Unbroken, Unsettled
<1>11. Noticed'
  BY <1>1 DEF PollDone, StartupEnds, Return, env, hist, Noticed
<1>12. Remembered'
  BY <1>1 DEF PollDone, StartupEnds, Return, env, hist, Remembered
<1>13. FaultRemembered'
  BY <1>1 DEF PollDone, StartupEnds, Return, FaultRemembered, FaultKeepsBoostOff
<1>. QED
  BY <1>6, <1>7, <1>8, <1>9, <1>10, <1>11, <1>12, <1>13 DEF SInv

\* Time: the rail and the clock age together.
LEMMA TickKeeps ==
  ASSUME TypeOK, SInv, Tick
  PROVE  TypeOK' /\ SInv'
<1>1. Positions /\ Restores /\ Boosting /\ Settling /\ Noticed /\ Remembered /\ FaultRemembered
  BY DEF SInv
<1>2. settle.ready = "none" => settle' = settle
  BY DEF Tick
<1>3. UNCHANGED <<init, pass, at, was>>
  BY DEF Tick
<1>4. TypeOK'
  BY SourceAssumption DEF Tick, env, outcome, hist, TypeOK, Settles
<1>5. Positions'
  BY <1>1, <1>2, <1>3 DEF Positions, Unsettled
<1>6. Restores'
  BY <1>1 DEF Tick, hist, Restores, ModeRestored
<1>7. Boosting'
  BY <1>1 DEF Tick, Boosting
<1>8. Settling'
  BY <1>1 DEF Tick, Settling, Unbroken, TypeOK, Settles
<1>9. Noticed'
  BY <1>1 DEF Tick, env, hist, Noticed
<1>10. Remembered'
  BY <1>1 DEF Tick, env, hist, Remembered
<1>11. FaultRemembered'
  BY <1>1 DEF Tick, env, hist, FaultRemembered, FaultKeepsBoostOff
<1>. QED
  BY <1>4, <1>5, <1>6, <1>7, <1>8, <1>9, <1>10, <1>11 DEF SInv

\* Cables, faults and the controller, at any moment.
LEMMA EnvironmentKeeps ==
  ASSUME TypeOK, SInv, Environment
  PROVE  TypeOK' /\ SInv'
<1>1. Positions /\ Restores /\ Boosting /\ Settling /\ Noticed /\ Remembered /\ FaultRemembered
  BY DEF SInv
<1>2. /\ UNCHANGED <<power, init, due, src, settle, locals, outcome, errors, hist>>
      /\ cable' \in 0 .. MaxCables /\ noise' \in 0 .. MaxNoise /\ alert' \subseteq Bits
      /\ port' \in Ports
      /\ \/ cable' = cable + 1 /\ culprit' = culprit /\ ~port.attached
         \/ /\ cable' = cable /\ culprit' \in {culprit, cable}
            /\ port'.attached => port.attached /\ port'.side = port.side
  <2>. port \in Ports /\ cable \in 0 .. MaxCables /\ noise \in 0 .. MaxNoise /\ alert \subseteq Bits
    BY DEF TypeOK
  <2>0. UNCHANGED <<power, init, due, src, settle, locals, outcome, errors, hist>>
    BY DEF Environment
  <2>1. CASE Attach
    BY <2>0, <2>1, SourceAssumption DEF Attach, Ports, Bits
  <2>2. CASE Detach
    BY <2>0, <2>2, SourceAssumption DEF Detach, Ports, Bits
  <2>3. CASE Fault
    BY <2>0, <2>3, SourceAssumption DEF Fault, Ports, Bits
  <2>4. CASE FaultEnds
    BY <2>0, <2>4, SourceAssumption DEF FaultEnds, Ports, Bits
  <2>5. CASE RoleChange
    <3>1. port' \in Ports
      BY <2>5, PortFields DEF RoleChange
    <3>2. port'.attached = port.attached /\ port'.side = port.side
      BY <2>5 DEF RoleChange, Ports
    <3>. QED
      BY <2>0, <2>5, <3>1, <3>2, SourceAssumption DEF RoleChange
  <2>. QED
    BY <2>1, <2>2, <2>3, <2>4, <2>5 DEF Environment
<1>3. TypeOK'
  BY <1>2 DEF TypeOK, power, locals, outcome, hist
<1>4. Positions'
  BY <1>1, <1>2 DEF Positions, locals
<1>5. Restores'
  BY <1>1, <1>2 DEF Restores, ModeRestored, power, locals, hist
<1>6. Boosting'
  BY <1>1, <1>2 DEF Boosting, power, locals
<1>7. Settling'
  BY <1>1, <1>2 DEF Settling, Unbroken, power, locals
<1>8. Noticed'
  BY <1>1, <1>2 DEF Noticed, TypeOK, locals, hist
<1>9. Remembered'
  BY <1>1, <1>2 DEF Remembered, Noticed, TypeOK, locals, hist
<1>10. FaultRemembered'
  BY <1>1, <1>2 DEF FaultRemembered, FaultKeepsBoostOff, Noticed, TypeOK, locals, hist
<1>. QED
  BY <1>3, <1>4, <1>5, <1>6, <1>7, <1>8, <1>9, <1>10 DEF SInv

\* The start of a startup or recheck pass.
LEMMA StartupKeeps ==
  ASSUME TypeOK, SInv, Startup
  PROVE  TypeOK' /\ SInv'
<1>1. Positions /\ Restores /\ Boosting /\ Settling /\ Noticed /\ Remembered /\ FaultRemembered
  BY DEF SInv
<1>2. prior' \in BOOLEAN /\ was' \in BOOLEAN /\ pass' \in {"startup"}
  BY SourceFields, Zenon DEF Startup, TypeOK
<1>3. TypeOK'
  BY SourceAssumption DEF Startup, env, power, outcome, hist, TypeOK, Sources
<1>4. Positions'
  BY <1>1 DEF Startup, Positions, Steps
<1>5. Restores'
  BY <1>1 DEF Startup, power, hist, Restores, ModeRestored
<1>6. Boosting'
  BY <1>1 DEF Startup, Boosting
<1>7. Settling'
  BY <1>1 DEF Startup, power, Positions, Settling, Unbroken
<1>8. Noticed'
  BY <1>1 DEF Startup, env, hist, Noticed
<1>9. Remembered'
  BY <1>1 DEF Startup, env, hist, Remembered
<1>10. FaultRemembered'
  BY <1>1 DEF Startup, FaultRemembered, FaultKeepsBoostOff
<1>. QED
  BY <1>3, <1>4, <1>5, <1>6, <1>7, <1>8, <1>9, <1>10 DEF SInv

-----------------------------------------------------------------------------
(* The invariant of the specification. *)

\* The invariant holds of the initial states.
LEMMA InitHolds ==
  ASSUME Init
  PROVE  TypeOK /\ SInv
<1>1. src \in Sources /\ settle \in Settles /\ port \in Ports
  <2>1. settle \in Settles
    BY SourceAssumption DEF Init, Unsettled, Settles
  <2>. QED
    BY <2>1 DEF Init, Sources, Ports
<1>2. TypeOK
  <2>1. /\ 0 \in 0 .. MaxCables /\ 0 \in 0 .. MaxNoise /\ 0 \in 0 .. Settle /\ 0 \in 0 .. MaxErrors
    BY SourceAssumption
  <2>2. /\ alert \subseteq Bits /\ hand \subseteq Bits /\ faulty \subseteq 0 .. MaxCables
        /\ view \in Ports /\ inherited \in {"off", "charge"} /\ mode \in {"off", "charge", "otg"}
        /\ init \in Inits /\ pass \in {"none", "monitor", "recheck", "startup"}
    BY <1>1 DEF Init, Inits
  <2>3. due \in BOOLEAN /\ prior \in BOOLEAN /\ was \in BOOLEAN /\ host \in BOOLEAN
        /\ retry \in BOOLEAN /\ failed \in BOOLEAN
    BY DEF Init
  <2>4. cable = 0 /\ noise = 0 /\ rail = 0 /\ since = 0 /\ errors = 0 /\ culprit = 0 /\ viewed = 0
    BY DEF Init
  <2>. QED
    BY <1>1, <2>1, <2>2, <2>3, <2>4 DEF TypeOK
<1>3. Positions /\ Restores /\ Boosting /\ Noticed /\ Remembered
  BY DEF Init, Positions, Restores, ModeRestored, Boosting, Noticed, Remembered
<1>4. Settling /\ FaultRemembered
  BY DEF Init, Settling, Unbroken, FaultRemembered, FaultKeepsBoostOff
<1>. QED
  BY <1>2, <1>3, <1>4 DEF SInv

\* Every step keeps it.
LEMMA NextKeeps ==
  ASSUME TypeOK, SInv, [Next]_vars
  PROVE  TypeOK' /\ SInv'
<1>1. CASE UNCHANGED vars
  <2>1. UNCHANGED <<env, power, init, due, src, settle, locals, outcome, errors, hist>>
    BY <1>1 DEF vars
  <2>2. TypeOK'
    BY <2>1 DEF TypeOK, env, power, locals, outcome, hist
  <2>3. Positions' /\ Restores' /\ Boosting'
    BY <2>1 DEF SInv, Positions, Restores, ModeRestored, Boosting, power, locals, hist
  <2>4. Settling' /\ Noticed'
    BY <2>1 DEF SInv, Settling, Unbroken, Noticed, env, power, locals, hist
  <2>5. Remembered' /\ FaultRemembered'
    BY <2>1 DEF SInv, Remembered, FaultRemembered, FaultKeepsBoostOff, env, locals, hist
  <2>. QED
    BY <2>2, <2>3, <2>4, <2>5 DEF SInv
<1>2. CASE Drain \/ Startup \/ StopSourcing
  BY <1>2, DrainKeeps, StartupKeeps, StopSourcingKeeps
<1>3. CASE Step
  BY <1>3, InitStopKeeps, InitPollKeeps, InitResetKeeps, ObserveKeeps, ConfirmKeeps, AgainKeeps,
     StopLatchedKeeps, ApplyKeeps, EnableKeeps, BoostKeeps, LastKeeps, WithdrawKeeps, ShutdownKeeps,
     MonitorDoneKeeps, PdAndChargeKeeps, PollDoneKeeps DEF Step
<1>4. CASE Tick \/ Environment
  BY <1>4, TickKeeps, EnvironmentKeeps
<1>. QED
  BY <1>1, <1>2, <1>3, <1>4 DEF Next

\* The inductive invariant holds of every behaviour.
THEOREM Invariance == Spec => [](TypeOK /\ SInv)
<1>1. Init => TypeOK /\ SInv
  BY InitHolds
<1>2. TypeOK /\ SInv /\ [Next]_vars => (TypeOK /\ SInv)'
  BY NextKeeps
<1>. QED
  BY <1>1, <1>2, PTL DEF Spec

-----------------------------------------------------------------------------
(* What the invariant gives. *)

\* Without a source session the charger is in the mode probe() inherited, for
\* any number of cables, faults and failing transactions (source_disable).
THEOREM RestoresMode == Spec => []ModeRestored
<1>1. SInv => ModeRestored
  BY DEF SInv, Restores
<1>. QED
  BY <1>1, Invariance, PTL

\* A reported host has a session that was never interrupted since boost was
\* enabled, so the rail is at least as old as the anchored delay.
LEMMA HostIsSettled ==
  ASSUME TypeOK, SInv
  PROVE  HostOnSettledRail
<1>. SUFFICES ASSUME at = "done", pass # "monitor", SourceHost
              PROVE  mode = "otg" /\ rail = Settle
  BY DEF HostOnSettledRail
<1>1. was /\ src.saved # "none" /\ settle.ready = "settled"
  BY DEF SourceHost, Kept, Unsettled
<1>2. Unbroken
  BY <1>1 DEF Unbroken
<1>3. mode = "otg" /\ settle.age <= rail /\ settle.age = Settle
  BY <1>1, <1>2 DEF SInv, Settling
<1>4. rail \in 0 .. Settle
  BY DEF TypeOK
<1>. QED
  BY <1>3, <1>4, SourceAssumption

\* Boost is on only for a source, is not switched on for a cable whose fault was
\* consumed, and makes a host only on a rail that has settled (poll, ready).
THEOREM Justified == Spec => []BoostJustified
<1>1. TypeOK /\ SInv => BoostJustified
  BY HostIsSettled DEF BoostJustified, SInv, Boosting, BoostOnlyForSource
<1>. QED
  BY <1>1, Invariance, PTL
=============================================================================
