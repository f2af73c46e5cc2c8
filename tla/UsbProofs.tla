------------------------------ MODULE UsbProofs ------------------------------
(***************************************************************************)
(* The tasks of the XUSB host, for any number of connector changes,        *)
(* requests and failing operations: the cable is exposed only to a         *)
(* published host, a bound controller stays resident, the gate follows the *)
(* port's role, the mailbox consumes every request once, and starting and  *)
(* failing to start the controller leaves clocks, power, lane and image as *)
(* every other owner of them needs it.                                     *)
(***************************************************************************)
EXTENDS MCUsb, Sequences, TLAPS

-----------------------------------------------------------------------------
(* The monitor and the startup worker. *)

\* Where the startup worker is says what it has set up so far.
Progress ==
  /\ lock = "startup" => st = "booting"
  /\ st \in {"booting", "recheck", "bind"} => active
  /\ flags.bound => active /\ st \in {"binding", "allow", "fail", "exited"}
  /\ st \in {"binding", "allow"} => flags.bound
  /\ flags.allow_connection => flags.bound /\ st = "exited"

\* The monitor works on the gate only once a connection was allowed.
Permitted ==
  (loc.connected \/ loc.requested \/ gate \/ mon = "lock") => flags.allow_connection

IInv == TypeOK /\ Progress /\ Permitted

\* TypeOK, by the kind of reasoning its conjuncts take.
Counted  == changes \in 0 .. MaxChanges /\ errors \in 0 .. MaxErrors
Switched ==
  /\ irq \in BOOLEAN /\ boost \in BOOLEAN /\ active \in BOOLEAN /\ gate \in BOOLEAN
  /\ wake \in BOOLEAN
Recorded == flags \in [Flags -> BOOLEAN] /\ loc \in Locals
Placed ==
  /\ port \in {"none", "sink", "source"} /\ lock \in {"free", "startup"}
  /\ mon \in {"setup", "load", "pass", "stop", "role", "gate", "lock", "end", "wait",
              "backoff", "exited"}
  /\ st \in {"idle", "boot", "booting", "recheck", "retire", "isolate", "bind",
             "binding", "allow", "fail", "unwind", "exited"}

\* The type invariant, by the kind of its conjuncts.
LEMMA Parts == TypeOK <=> Counted /\ Switched /\ Recorded /\ Placed
BY Zenon DEF TypeOK, Counted, Switched, Recorded, Placed

\* The tasks start with nothing set up.
LEMMA InitInv == Init => IInv
<1> SUFFICES ASSUME Init PROVE IInv
  OBVIOUS
<1>1. Recorded
  BY DEF Init, Locals, Recorded
<1>2. ~flags.bound /\ ~flags.allow_connection
  BY DEF Init, Flags
<1>3. Counted BY HostAssumption DEF Init, Counted
<1>4. Switched BY Zenon DEF Init, Switched
<1>5. Placed BY DEF Init, Placed
<1>6. Progress /\ Permitted BY <1>2 DEF Init, Progress, Permitted
<1> QED BY <1>1, <1>3, <1>4, <1>5, <1>6, Parts DEF IInv

\* Every step keeps the counters within their bounds.
LEMMA Counters ==
  ASSUME TypeOK, Next
  PROVE  Counted'
<1> USE HostAssumption, Parts DEF Counted, Succeed, Fails, StartFails
<1>1. CASE Change BY <1>1 DEF Change
<1>s. CASE Setup BY <1>s DEF Setup
<1>2. CASE LoadFailed BY <1>2 DEF LoadFailed
<1>3. CASE Pass
  <2>1. (Succeed \/ Fails) /\ UNCHANGED changes BY <1>3, Zenon DEF Pass, StartFails
  <2> QED BY <2>1
<1>4. CASE StopSourcing BY <1>4 DEF StopSourcing
<1>5. CASE SwapRole BY <1>5 DEF SwapRole
<1>6. CASE Gate BY <1>6 DEF Gate
<1>7. CASE SetConnection BY <1>7 DEF SetConnection
<1>8. CASE End BY <1>8 DEF End
<1>9. CASE Wait BY <1>9 DEF Wait
<1>10. CASE Start BY <1>10 DEF Start
<1>11. CASE StartupExits BY <1>11 DEF StartupExits
<1>12. CASE Boot BY <1>12 DEF Boot
<1>13. CASE Booted BY <1>13 DEF Booted
<1>14. CASE Recheck
  <2>1. (Succeed \/ Fails) /\ UNCHANGED changes BY <1>14, Zenon DEF Recheck, StartFails
  <2> QED BY <2>1
<1>15. CASE Retire BY <1>15 DEF Retire
<1>16. CASE Isolate BY <1>16 DEF Isolate
<1>17. CASE Bind BY <1>17 DEF Bind
<1>18. CASE Binding BY <1>18 DEF Binding
<1>19. CASE Allow BY <1>19 DEF Allow
<1>20. CASE Fail BY <1>20 DEF Fail
<1>21. CASE Unwind BY <1>21 DEF Unwind
<1>22. CASE MailboxFails BY <1>22 DEF MailboxFails
<1> QED
  BY <1>s, <1>1, <1>2, <1>3, <1>4, <1>5, <1>6, <1>7, <1>8, <1>9, <1>10, <1>11, <1>12,
     <1>13, <1>14, <1>15, <1>16, <1>17, <1>18, <1>19, <1>20, <1>21, <1>22
  DEF Next, Monitor, Startup

\* Every step keeps the switches Boolean.
LEMMA Switches ==
  ASSUME TypeOK, Next
  PROVE  Switched'
<1> USE Parts, HostAssumption DEF Switched, hw, WakeMonitor, Succeed, Fails, StartFails
<1>1. CASE Change BY Zenon, <1>1 DEF Change
<1>s. CASE Setup BY Zenon, <1>s DEF Setup
<1>2. CASE LoadFailed BY Zenon, <1>2 DEF LoadFailed
<1>3. CASE Pass BY Zenon, <1>3 DEF Pass
<1>4. CASE StopSourcing BY Zenon, <1>4 DEF StopSourcing
<1>5. CASE SwapRole BY Zenon, <1>5 DEF SwapRole
<1>6. CASE Gate BY Zenon, <1>6 DEF Gate
<1>7. CASE SetConnection BY Zenon, <1>7 DEF SetConnection
<1>8. CASE End BY Zenon, <1>8 DEF End
<1>9. CASE Wait BY Zenon, <1>9 DEF Wait
<1>10. CASE Start BY Zenon, <1>10 DEF Start
<1>11. CASE StartupExits BY Zenon, <1>11 DEF StartupExits
<1>12. CASE Boot BY Zenon, <1>12 DEF Boot
<1>13. CASE Booted BY Zenon, <1>13 DEF Booted
<1>14. CASE Recheck BY Zenon, <1>14 DEF Recheck
<1>15. CASE Retire BY Zenon, <1>15 DEF Retire
<1>16. CASE Isolate BY Zenon, <1>16 DEF Isolate
<1>17. CASE Bind BY Zenon, <1>17 DEF Bind
<1>18. CASE Binding BY Zenon, <1>18 DEF Binding
<1>19. CASE Allow BY Zenon, <1>19 DEF Allow
<1>20. CASE Fail BY Zenon, <1>20 DEF Fail
<1>21. CASE Unwind BY Zenon, <1>21 DEF Unwind
<1>22. CASE MailboxFails BY Zenon, <1>22 DEF MailboxFails
<1> QED
  BY <1>s, <1>1, <1>2, <1>3, <1>4, <1>5, <1>6, <1>7, <1>8, <1>9, <1>10, <1>11, <1>12,
     <1>13, <1>14, <1>15, <1>16, <1>17, <1>18, <1>19, <1>20, <1>21, <1>22
  DEF Next, Monitor, Startup

\* Every step keeps the shared flags and the monitor's locals records of their fields.
LEMMA Records ==
  ASSUME TypeOK, Next
  PROVE  Recorded'
<1> USE Parts DEF Recorded, Flags, Locals, Switched
<1>1. CASE Change BY <1>1 DEF Change
<1>s. CASE Setup BY <1>s DEF Setup
<1>2. CASE LoadFailed BY <1>2 DEF LoadFailed
<1>3. CASE Pass BY <1>3 DEF Pass
<1>4. CASE StopSourcing BY <1>4 DEF StopSourcing
<1>5. CASE SwapRole BY <1>5 DEF SwapRole
<1>6. CASE Gate BY <1>6 DEF Gate
<1>7. CASE SetConnection BY <1>7 DEF SetConnection
<1>8. CASE End BY <1>8 DEF End
<1>9. CASE Wait BY <1>9 DEF Wait
<1>10. CASE Start BY <1>10 DEF Start
<1>11. CASE StartupExits BY <1>11 DEF StartupExits
<1>12. CASE Boot BY <1>12 DEF Boot
<1>13. CASE Booted BY <1>13 DEF Booted
<1>14. CASE Recheck BY <1>14 DEF Recheck
<1>15. CASE Retire BY <1>15 DEF Retire
<1>16. CASE Isolate BY <1>16 DEF Isolate
<1>17. CASE Bind BY <1>17 DEF Bind
<1>18. CASE Binding BY <1>18 DEF Binding
<1>19. CASE Allow BY <1>19 DEF Allow
<1>20. CASE Fail BY <1>20 DEF Fail
<1>21. CASE Unwind BY <1>21 DEF Unwind
<1>22. CASE MailboxFails BY <1>22 DEF MailboxFails
<1> QED
  BY <1>s, <1>1, <1>2, <1>3, <1>4, <1>5, <1>6, <1>7, <1>8, <1>9, <1>10, <1>11, <1>12,
     <1>13, <1>14, <1>15, <1>16, <1>17, <1>18, <1>19, <1>20, <1>21, <1>22
  DEF Next, Monitor, Startup

\* Every step leaves both tasks at one of their places.
LEMMA Places ==
  ASSUME TypeOK, Next
  PROVE  Placed'
<1> USE Parts DEF Placed, StartFails
<1>1. CASE Change BY <1>1 DEF Change
<1>s. CASE Setup BY <1>s DEF Setup
<1>2. CASE LoadFailed BY <1>2 DEF LoadFailed
<1>3. CASE Pass BY <1>3 DEF Pass
<1>4. CASE StopSourcing BY <1>4 DEF StopSourcing
<1>5. CASE SwapRole BY <1>5 DEF SwapRole
<1>6. CASE Gate BY <1>6 DEF Gate
<1>7. CASE SetConnection BY <1>7 DEF SetConnection
<1>8. CASE End BY <1>8 DEF End
<1>9. CASE Wait BY <1>9 DEF Wait
<1>10. CASE Start BY <1>10 DEF Start
<1>11. CASE StartupExits BY <1>11 DEF StartupExits
<1>12. CASE Boot BY <1>12 DEF Boot
<1>13. CASE Booted BY <1>13 DEF Booted
<1>14. CASE Recheck BY <1>14 DEF Recheck
<1>15. CASE Retire BY <1>15 DEF Retire
<1>16. CASE Isolate BY <1>16 DEF Isolate
<1>17. CASE Bind BY <1>17 DEF Bind
<1>18. CASE Binding BY <1>18 DEF Binding
<1>19. CASE Allow BY <1>19 DEF Allow
<1>20. CASE Fail BY <1>20 DEF Fail
<1>21. CASE Unwind BY <1>21 DEF Unwind
<1>22. CASE MailboxFails BY <1>22 DEF MailboxFails
<1> QED
  BY <1>s, <1>1, <1>2, <1>3, <1>4, <1>5, <1>6, <1>7, <1>8, <1>9, <1>10, <1>11, <1>12,
     <1>13, <1>14, <1>15, <1>16, <1>17, <1>18, <1>19, <1>20, <1>21, <1>22
  DEF Next, Monitor, Startup

\* Every step keeps the types.
LEMMA Types ==
  ASSUME TypeOK, Next
  PROVE  TypeOK'
BY Counters, Switches, Records, Places, Zenon DEF TypeOK, Counted, Switched, Recorded, Placed

\* The monitor never moves the startup worker, nor sets what only it may set.
LEMMA MonitorProgress ==
  ASSUME IInv, Monitor
  PROVE  Progress'
<1> USE DEF IInv, TypeOK, Flags, Progress, Permitted, Locals, Succeed, Fails, StartFails,
            WakeMonitor, Wanted, hw
<1>s. CASE Setup BY <1>s DEF Setup
<1>1. CASE LoadFailed BY <1>1 DEF LoadFailed
<1>2. CASE Pass BY <1>2 DEF Pass
<1>3. CASE StopSourcing BY <1>3 DEF StopSourcing
<1>4. CASE SwapRole BY <1>4 DEF SwapRole
<1>5. CASE Gate BY <1>5 DEF Gate
<1>6. CASE SetConnection BY <1>6 DEF SetConnection
<1>7. CASE End BY <1>7 DEF End
<1>8. CASE Wait BY <1>8 DEF Wait
<1> QED BY <1>s, <1>1, <1>2, <1>3, <1>4, <1>5, <1>6, <1>7, <1>8 DEF Monitor

\* The startup worker sets the flags in the order of its places.
LEMMA StartupProgress ==
  ASSUME IInv, Startup
  PROVE  Progress'
<1> USE DEF IInv, TypeOK, Flags, Progress, Permitted, Locals, Succeed, Fails, StartFails,
            WakeMonitor, Wanted, hw
<1>1. CASE Start BY <1>1 DEF Start
<1>2. CASE StartupExits BY <1>2 DEF StartupExits
<1>3. CASE Boot BY <1>3 DEF Boot
<1>4. CASE Booted BY <1>4 DEF Booted
<1>5. CASE Recheck BY <1>5 DEF Recheck
<1>6. CASE Retire BY <1>6 DEF Retire
<1>7. CASE Isolate BY <1>7 DEF Isolate
<1>8. CASE Bind BY <1>8 DEF Bind
<1>9. CASE Binding BY <1>9 DEF Binding
<1>10. CASE Allow BY <1>10 DEF Allow
<1>11. CASE Fail BY <1>11 DEF Fail
<1>12. CASE Unwind BY <1>12 DEF Unwind
<1> QED BY <1>1, <1>2, <1>3, <1>4, <1>5, <1>6, <1>7, <1>8, <1>9, <1>10, <1>11, <1>12 DEF Startup

\* The monitor begins to work on the gate only under allow_connection.
LEMMA MonitorPermitted ==
  ASSUME IInv, Monitor
  PROVE  Permitted'
<1> USE DEF IInv, TypeOK, Flags, Progress, Permitted, Locals, Succeed, Fails, StartFails,
            WakeMonitor, Wanted, hw
<1>s. CASE Setup BY <1>s DEF Setup
<1>1. CASE LoadFailed BY <1>1 DEF LoadFailed
<1>2. CASE Pass BY <1>2 DEF Pass
<1>3. CASE StopSourcing BY <1>3 DEF StopSourcing
<1>4. CASE SwapRole BY <1>4 DEF SwapRole
<1>5. CASE Gate BY <1>5 DEF Gate
<1>6. CASE SetConnection BY <1>6 DEF SetConnection
<1>7. CASE End BY <1>7 DEF End
<1>8. CASE Wait BY <1>8 DEF Wait
<1> QED BY <1>s, <1>1, <1>2, <1>3, <1>4, <1>5, <1>6, <1>7, <1>8 DEF Monitor

\* The startup worker never takes allow_connection back from a monitor at work.
LEMMA StartupPermitted ==
  ASSUME IInv, Startup
  PROVE  Permitted'
<1> USE DEF IInv, TypeOK, Flags, Progress, Permitted, Locals, Succeed, Fails, StartFails,
            WakeMonitor, Wanted, hw
<1>1. CASE Start BY <1>1 DEF Start
<1>2. CASE StartupExits BY <1>2 DEF StartupExits
<1>3. CASE Boot BY <1>3 DEF Boot
<1>4. CASE Booted BY <1>4 DEF Booted
<1>5. CASE Recheck BY <1>5 DEF Recheck
<1>6. CASE Retire BY <1>6 DEF Retire
<1>7. CASE Isolate BY <1>7 DEF Isolate
<1>8. CASE Bind BY <1>8 DEF Bind
<1>9. CASE Binding BY <1>9 DEF Binding
<1>10. CASE Allow BY <1>10 DEF Allow
<1>11. CASE Fail BY <1>11 DEF Fail
<1>12. CASE Unwind BY <1>12 DEF Unwind
<1> QED BY <1>1, <1>2, <1>3, <1>4, <1>5, <1>6, <1>7, <1>8, <1>9, <1>10, <1>11, <1>12 DEF Startup

\* Every step keeps the invariant.
LEMMA StepInv == IInv /\ [Next]_vars => IInv'
<1> SUFFICES ASSUME IInv, [Next]_vars PROVE IInv'
  OBVIOUS
<1>1. CASE Change
  <2>1. TypeOK' BY <1>1, Types DEF IInv, Next
  <2>2. UNCHANGED <<hw, lock, flags, mon, loc, st>> BY <1>1, Zenon DEF Change
  <2> QED BY <2>1, <2>2 DEF hw, IInv, Progress, Permitted
<1>2. CASE Monitor BY <1>2, Types, MonitorProgress, MonitorPermitted DEF IInv, Next
<1>3. CASE Startup BY <1>3, Types, StartupProgress, StartupPermitted DEF IInv, Next
<1>4. CASE MailboxFails
  <2>1. TypeOK' BY <1>4, Types DEF IInv, Next
  <2>2. Progress' /\ Permitted'
    BY <1>4 DEF MailboxFails, hw, IInv, TypeOK, Flags, Progress, Permitted
  <2> QED BY <2>1, <2>2 DEF IInv
<1>5. CASE UNCHANGED vars
  BY <1>5 DEF vars, hw, IInv, TypeOK, Progress, Permitted
<1> QED BY <1>1, <1>2, <1>3, <1>4, <1>5 DEF Next

\* The invariant of the startup sequence holds in every reachable state.
THEOREM StartupInvariance == Spec => []IInv
BY InitInv, StepInv, PTL DEF Spec

\* The cable is exposed only once start() has published the host, whatever
\* fails and whichever task sees which flag first.
THEOREM Exposure == Spec => []ExposedWhenPublished
<1>1. IInv => ExposedWhenPublished
  BY DEF IInv, Progress, Permitted, ExposedWhenPublished
<1> QED BY <1>1, StartupInvariance, PTL

\* A bound controller is never reset or isolated again.
THEOREM Residence == Spec => []BoundStaysResident
<1>1. IInv => BoundStaysResident
  BY DEF IInv, Progress, BoundStaysResident
<1> QED BY <1>1, StartupInvariance, PTL
\* What the gate and the monitor's locals say of each other between two steps
\* of the monitor: an open gate is a connection the monitor knows of, and once
\* the monitor has acted without an error the last pass saw a host.
Reconciled ==
  /\ st \in {"recheck", "retire", "bind"} \/ flags.bound => flags.phy_ready
  /\ gate => loc.connected
  /\ mon = "lock" => (loc.requested => loc.ready)
  /\ mon = "end" => loc.gate_error \/ (gate => loc.ready)
  /\ mon = "wait" => (gate => loc.ready)

\* The monitor brings the gate and its locals together before it sleeps.
LEMMA MonitorReconciles ==
  ASSUME IInv, Reconciled, Monitor
  PROVE  Reconciled'
<1> USE DEF IInv, TypeOK, Flags, Progress, Permitted, Locals, Reconciled, WakeMonitor, Wanted, hw
<1>s. CASE Setup BY <1>s DEF Setup
<1>1. CASE LoadFailed BY <1>1 DEF LoadFailed
<1>2. CASE Pass BY <1>2 DEF Pass
<1>3. CASE StopSourcing BY <1>3 DEF StopSourcing
<1>4. CASE SwapRole BY <1>4 DEF SwapRole
<1>5. CASE Gate BY <1>5 DEF Gate
<1>6. CASE SetConnection BY <1>6 DEF SetConnection
<1>7. CASE End BY <1>7 DEF End
<1>8. CASE Wait BY <1>8 DEF Wait
<1> QED BY <1>s, <1>1, <1>2, <1>3, <1>4, <1>5, <1>6, <1>7, <1>8 DEF Monitor

\* The startup worker touches neither the gate nor the locals.
LEMMA StartupReconciles ==
  ASSUME IInv, Reconciled, Startup
  PROVE  Reconciled'
<1> USE DEF IInv, TypeOK, Flags, Progress, Permitted, Locals, Reconciled, StartFails, hw
<1>1. CASE Start BY <1>1 DEF Start
<1>2. CASE StartupExits BY <1>2 DEF StartupExits
<1>3. CASE Boot BY <1>3 DEF Boot
<1>4. CASE Booted BY <1>4 DEF Booted
<1>5. CASE Recheck BY <1>5 DEF Recheck
<1>6. CASE Retire BY <1>6 DEF Retire
<1>7. CASE Isolate BY <1>7 DEF Isolate
<1>8. CASE Bind BY <1>8 DEF Bind
<1>9. CASE Binding BY <1>9 DEF Binding
<1>10. CASE Allow BY <1>10 DEF Allow
<1>11. CASE Fail BY <1>11 DEF Fail
<1>12. CASE Unwind BY <1>12 DEF Unwind
<1> QED BY <1>1, <1>2, <1>3, <1>4, <1>5, <1>6, <1>7, <1>8, <1>9, <1>10, <1>11, <1>12 DEF Startup

\* Every step keeps the gate and the locals together.
LEMMA StepReconciles == IInv /\ Reconciled /\ [Next]_vars => Reconciled'
<1> SUFFICES ASSUME IInv, Reconciled, [Next]_vars PROVE Reconciled'
  OBVIOUS
<1>1. CASE Change
  <2>1. UNCHANGED <<hw, lock, flags, mon, loc, st>> BY <1>1, Zenon DEF Change
  <2> QED BY <2>1 DEF hw, Reconciled
<1>2. CASE Monitor BY <1>2, MonitorReconciles
<1>3. CASE Startup BY <1>3, StartupReconciles
<1>4. CASE MailboxFails
  BY <1>4 DEF MailboxFails, hw, IInv, TypeOK, Flags, Reconciled
<1>5. CASE UNCHANGED vars
  BY <1>5 DEF vars, hw, Reconciled
<1> QED BY <1>1, <1>2, <1>3, <1>4, <1>5 DEF Next

\* The monitor never goes to sleep over an open gate that its last pass found
\* no host for.
THEOREM GateFollows == Spec => []GateFollowsRole
<1>1. Init => Reconciled BY DEF Init, Flags, Reconciled
<1>2. Reconciled => GateFollowsRole BY DEF Reconciled, GateFollowsRole
<1> QED BY <1>1, <1>2, StartupInvariance, StepReconciles, PTL DEF Spec

-----------------------------------------------------------------------------
(* The Falcon mailbox. *)

\* Where an actor is while it holds the claim.
Inside == {"read", "consume", "reply", "release"}
Sending == {"owner", "acquire", "readback"}

Actors == Box!Servers \cup {"sender"}
Stages == Inside \cup Sending \cup
          {"idle", "capture", "claim", "wake", "wait", "retry", "owned", "done", "error"}

\* Every actor has a place.
Located == pc \in [Actors -> Stages]

\* One actor at a time is inside the claim, and it is the claim's owner.
Exclusive ==
  /\ \A p \in Box!Servers : pc[p] \in Inside => claimed = p
  /\ pc["sender"] \in Sending => claimed = "sender"

\* DATA_OUT holds the last request; DEST_SMI is set from its posting to its
\* consumption, all of which the firmware owns the mailbox.  A command for the
\* firmware lies in a mailbox that somebody owns.
Coherent ==
  /\ out.id = posted
  /\ "SMI" \in command => owner = "fw" /\ "FALCON" \notin command
  /\ "FALCON" \in command => owner # "none"

\* A server about to consume has the fresh request; one about to reply has
\* consumed the request that DATA_OUT still holds, and nobody has answered.
Serving ==
  \A p \in Box!Servers :
    pc[p] \in {"consume", "reply"} =>
      /\ msg[p] = out /\ owner = "fw" /\ "FALCON" \notin command
      /\ pc[p] = "consume" <=> "SMI" \in command

\* A request is consumed only once DEST_SMI says so, and not before its posting.
Numbered ==
  /\ \A n \in 0 .. MaxRequests : handled[n] \in 0 .. 1
  /\ \A n \in 0 .. MaxRequests : n > posted => handled[n] = 0
  /\ "SMI" \in command => handled[posted] = 0

MInv == Located /\ Exclusive /\ Coherent /\ Serving /\ Numbered /\ Box!TakesItsOwn

\* The bounds of the model are numbers.
MailboxBounds == MaxRequests \in Nat /\ MaxHangs \in Nat /\ Latched \in BOOLEAN

\* Firmware posts a request only in a mailbox it has found free.
LEMMA PostKeeps ==
  ASSUME MailboxBounds, Box!TypeOK, MInv, Box!Post, Box!Firmware
  PROVE  Box!TypeOK' /\ MInv'
<1>1. Box!TypeOK'
  BY SMTT(20)
     DEF MailboxBounds, Box!TypeOK, Located, Actors, Stages, Inside, Sending, MInv, Box!Post,
         Box!Firmware, Box!fw, Box!To, Box!Messages, Box!NoMessage, Box!Servers, Box!Kinds
<1>2. Exclusive'
  BY SMTT(20)
     DEF MailboxBounds, Box!TypeOK, Located, Actors, Stages, Inside, Sending, MInv, Exclusive,
         Box!Post, Box!Firmware, Box!fw, Box!To, Box!Servers
<1>3. Coherent'
  BY SMTT(20)
     DEF MailboxBounds, Box!TypeOK, Located, Actors, Stages, Inside, Sending, MInv, Coherent,
         Serving, Box!Post, Box!Firmware, Box!fw, Box!To, Box!Servers
<1>4. Serving'
  BY SMTT(20)
     DEF MailboxBounds, Box!TypeOK, Located, Actors, Stages, Inside, Sending, MInv, Coherent,
         Serving, Exclusive, Box!Post, Box!Firmware, Box!fw, Box!To, Box!Servers
<1>5. Numbered'
  BY SMTT(20)
     DEF MailboxBounds, Box!TypeOK, Located, Actors, Stages, Inside, Sending, MInv, Coherent,
         Numbered, Serving, Box!Post, Box!Firmware, Box!fw, Box!To, Box!Servers
<1>6. Box!TakesItsOwn'
  BY SMTT(20)
     DEF MailboxBounds, Box!TypeOK, Located, Actors, Stages, Inside, Sending, MInv, Coherent,
         Serving, Box!TakesItsOwn, Box!Post, Box!Firmware, Box!fw, Box!To, Box!Servers
<1>7. Located'
  BY SMTT(20)
     DEF MailboxBounds, Box!TypeOK, Located, Actors, Stages, Inside, Sending, MInv, Box!Post,
         Box!Firmware, Box!fw, Box!To, Box!Servers
<1>. QED
  BY <1>1, <1>2, <1>3, <1>4, <1>5, <1>6, <1>7 DEF MInv

\* Firmware accepts only the command it waits for.
LEMMA AcceptKeeps ==
  ASSUME MailboxBounds, Box!TypeOK, MInv, Box!Accept, Box!Firmware
  PROVE  Box!TypeOK' /\ MInv'
<1>1. Box!TypeOK'
  BY SMTT(20)
     DEF MailboxBounds, Box!TypeOK, Located, Actors, Stages, Inside, Sending, MInv, Box!Accept,
         Box!Firmware, Box!fw, Box!To, Box!Messages, Box!NoMessage, Box!Servers, Box!Kinds
<1>2. Exclusive'
  BY SMTT(20)
     DEF MailboxBounds, Box!TypeOK, Located, Actors, Stages, Inside, Sending, MInv, Exclusive,
         Box!Accept, Box!Firmware, Box!fw, Box!To, Box!Servers
<1>3. Coherent'
  BY SMTT(20)
     DEF MailboxBounds, Box!TypeOK, Located, Actors, Stages, Inside, Sending, MInv, Coherent,
         Serving, Box!Accept, Box!Firmware, Box!fw, Box!To, Box!Servers
<1>4. Serving'
  BY SMTT(20)
     DEF MailboxBounds, Box!TypeOK, Located, Actors, Stages, Inside, Sending, MInv, Coherent,
         Serving, Exclusive, Box!Accept, Box!Firmware, Box!fw, Box!To, Box!Servers
<1>5. Numbered'
  BY SMTT(20)
     DEF MailboxBounds, Box!TypeOK, Located, Actors, Stages, Inside, Sending, MInv, Coherent,
         Numbered, Serving, Box!Accept, Box!Firmware, Box!fw, Box!To, Box!Servers
<1>6. Box!TakesItsOwn'
  BY SMTT(20)
     DEF MailboxBounds, Box!TypeOK, Located, Actors, Stages, Inside, Sending, MInv, Coherent,
         Serving, Box!TakesItsOwn, Box!Accept, Box!Firmware, Box!fw, Box!To, Box!Servers
<1>7. Located'
  BY SMTT(20)
     DEF MailboxBounds, Box!TypeOK, Located, Actors, Stages, Inside, Sending, MInv, Box!Accept,
         Box!Firmware, Box!fw, Box!To, Box!Servers
<1>. QED
  BY <1>1, <1>2, <1>3, <1>4, <1>5, <1>6, <1>7 DEF MInv

\* A hang of the firmware changes none of the mailbox's registers.
LEMMA HangKeeps ==
  ASSUME MailboxBounds, Box!TypeOK, MInv, Box!Hang, Box!Firmware
  PROVE  Box!TypeOK' /\ MInv'
<1>1. Box!TypeOK'
  BY SMTT(20)
     DEF MailboxBounds, Box!TypeOK, Located, Actors, Stages, Inside, Sending, MInv, Box!Hang,
         Box!Firmware, Box!fw, Box!To, Box!Messages, Box!NoMessage, Box!Servers, Box!Kinds
<1>2. Exclusive'
  BY SMTT(20)
     DEF MailboxBounds, Box!TypeOK, Located, Actors, Stages, Inside, Sending, MInv, Exclusive,
         Box!Hang, Box!Firmware, Box!fw, Box!To, Box!Servers
<1>3. Coherent'
  BY SMTT(20)
     DEF MailboxBounds, Box!TypeOK, Located, Actors, Stages, Inside, Sending, MInv, Coherent,
         Serving, Box!Hang, Box!Firmware, Box!fw, Box!To, Box!Servers
<1>4. Serving'
  BY SMTT(20)
     DEF MailboxBounds, Box!TypeOK, Located, Actors, Stages, Inside, Sending, MInv, Coherent,
         Serving, Exclusive, Box!Hang, Box!Firmware, Box!fw, Box!To, Box!Servers
<1>5. Numbered'
  BY SMTT(20)
     DEF MailboxBounds, Box!TypeOK, Located, Actors, Stages, Inside, Sending, MInv, Coherent,
         Numbered, Serving, Box!Hang, Box!Firmware, Box!fw, Box!To, Box!Servers
<1>6. Box!TakesItsOwn'
  BY SMTT(20)
     DEF MailboxBounds, Box!TypeOK, Located, Actors, Stages, Inside, Sending, MInv, Coherent,
         Serving, Box!TakesItsOwn, Box!Hang, Box!Firmware, Box!fw, Box!To, Box!Servers
<1>7. Located'
  BY SMTT(20)
     DEF MailboxBounds, Box!TypeOK, Located, Actors, Stages, Inside, Sending, MInv, Box!Hang,
         Box!Firmware, Box!fw, Box!To, Box!Servers
<1>. QED
  BY <1>1, <1>2, <1>3, <1>4, <1>5, <1>6, <1>7 DEF MInv

\* The claim goes to at most one actor.
LEMMA try_claimKeeps ==
  ASSUME MailboxBounds, Box!TypeOK, MInv, NEW p \in Box!Servers, Box!try_claim(p)
  PROVE  Box!TypeOK' /\ MInv'
<1>1. Box!TypeOK'
  BY SMTT(20)
     DEF MailboxBounds, Box!TypeOK, Located, Actors, Stages, Inside, Sending, MInv,
         Box!try_claim, Box!Served, Box!fw, Box!To, Box!Messages, Box!NoMessage, Box!Servers,
         Box!Kinds
<1>2. Exclusive'
  BY SMTT(20)
     DEF MailboxBounds, Box!TypeOK, Located, Actors, Stages, Inside, Sending, MInv, Exclusive,
         Box!try_claim, Box!Served, Box!fw, Box!To, Box!Servers
<1>3. Coherent'
  BY SMTT(20)
     DEF MailboxBounds, Box!TypeOK, Located, Actors, Stages, Inside, Sending, MInv, Coherent,
         Serving, Box!try_claim, Box!Served, Box!fw, Box!To, Box!Servers
<1>4. Serving'
  BY SMTT(20)
     DEF MailboxBounds, Box!TypeOK, Located, Actors, Stages, Inside, Sending, MInv, Coherent,
         Serving, Exclusive, Box!try_claim, Box!Served, Box!fw, Box!To, Box!Servers
<1>5. Numbered'
  BY SMTT(20)
     DEF MailboxBounds, Box!TypeOK, Located, Actors, Stages, Inside, Sending, MInv, Coherent,
         Numbered, Serving, Box!try_claim, Box!Served, Box!fw, Box!To, Box!Servers
<1>6. Box!TakesItsOwn'
  BY SMTT(20)
     DEF MailboxBounds, Box!TypeOK, Located, Actors, Stages, Inside, Sending, MInv, Coherent,
         Serving, Box!TakesItsOwn, Box!try_claim, Box!Served, Box!fw, Box!To, Box!Servers
<1>7. Located'
  BY SMTT(20)
     DEF MailboxBounds, Box!TypeOK, Located, Actors, Stages, Inside, Sending, MInv,
         Box!try_claim, Box!Served, Box!fw, Box!To, Box!Servers
<1>. QED
  BY <1>1, <1>2, <1>3, <1>4, <1>5, <1>6, <1>7 DEF MInv

\* A server reads DATA_OUT only of a mailbox the firmware owns.
LEMMA ReadKeeps ==
  ASSUME MailboxBounds, Box!TypeOK, MInv, NEW p \in Box!Servers, Box!Read(p)
  PROVE  Box!TypeOK' /\ MInv'
<1>1. Box!TypeOK'
  <2>1. /\ pc'["irq"] \in {"idle", "capture", "claim", "read", "consume", "reply", "release", "wake"}
        /\ pc'["worker"] \in {"wait", "retry", "claim", "read", "consume", "reply", "release"}
        /\ pc'["sender"] \in {"claim", "owner", "acquire", "readback", "owned", "done", "error"}
    BY
       DEF Box!TypeOK, MInv, Located, Actors, Box!Read, Box!Fresh, Box!Deferred, Box!Served,
           Box!To, Box!Servers
  <2>2. fault' \in BOOLEAN /\ failed' \in BOOLEAN /\ m_wake' \in BOOLEAN
    BY DEF Box!TypeOK, Box!Read, Box!Fresh, Box!Deferred, Box!Served, Box!fw
  <2>3. /\ owner' \in {"none", "fw", "sw"} /\ command' \subseteq {"SMI", "FALCON"}
        /\ claimed' \in {"none", "irq", "worker", "sender"} /\ smi' \subseteq {"MSG", "HANG"}
        /\ pending' \subseteq {"MSG", "HANG"} /\ status' \subseteq {"MSG", "HANG"}
    BY DEF Box!TypeOK, Box!Read, Box!Fresh, Box!Deferred, Box!Served, Box!fw, Box!Servers
  <2>4. out' \in Box!Messages /\ in' \in Box!Messages /\ msg' \in [Box!Servers -> Box!Messages]
    BY
       DEF Box!TypeOK, Box!Read, Box!Fresh, Box!Deferred, Box!Served, Box!fw, Box!Messages,
           Box!Kinds
  <2>5. posted' \in 0 .. MaxRequests /\ hangs' \in 0 .. MaxHangs
    BY DEF Box!TypeOK, Box!Read, Box!Fresh, Box!Deferred, Box!Served, Box!fw
  <2>. QED
    BY <2>1, <2>2, <2>3, <2>4, <2>5 DEF Box!TypeOK
<1>2. Exclusive'
  BY SMTT(20)
     DEF MailboxBounds, Box!TypeOK, Located, Actors, Stages, Inside, Sending, MInv, Exclusive,
         Box!Read, Box!Served, Box!Fresh, Box!Deferred, Box!fw, Box!To, Box!Servers
<1>3. Coherent'
  BY SMTT(20)
     DEF MailboxBounds, Box!TypeOK, Located, Actors, Stages, Inside, Sending, MInv, Coherent,
         Serving, Box!Read, Box!Served, Box!Fresh, Box!Deferred, Box!fw, Box!To, Box!Servers
<1>4. Serving'
  BY SMTT(20)
     DEF MailboxBounds, Box!TypeOK, Located, Actors, Stages, Inside, Sending, MInv, Coherent,
         Serving, Exclusive, Box!Read, Box!Served, Box!Fresh, Box!Deferred, Box!fw, Box!To,
         Box!Servers
<1>5. Numbered'
  BY SMTT(20)
     DEF MailboxBounds, Box!TypeOK, Located, Actors, Stages, Inside, Sending, MInv, Coherent,
         Numbered, Serving, Box!Read, Box!Served, Box!Fresh, Box!Deferred, Box!fw, Box!To,
         Box!Servers
<1>6. Box!TakesItsOwn'
  BY SMTT(20)
     DEF MailboxBounds, Box!TypeOK, Located, Actors, Stages, Inside, Sending, MInv, Coherent,
         Serving, Box!TakesItsOwn, Box!Read, Box!Served, Box!Fresh, Box!Deferred, Box!fw,
         Box!To, Box!Servers
<1>7. Located'
  BY SMTT(20)
     DEF MailboxBounds, Box!TypeOK, Located, Actors, Stages, Inside, Sending, MInv, Box!Read,
         Box!Served, Box!Fresh, Box!Deferred, Box!fw, Box!To, Box!Servers
<1>. QED
  BY <1>1, <1>2, <1>3, <1>4, <1>5, <1>6, <1>7 DEF MInv

\* DEST_SMI is cleared by the server that read the request.
LEMMA ConsumeKeeps ==
  ASSUME MailboxBounds, Box!TypeOK, MInv, NEW p \in Box!Servers, Box!Consume(p)
  PROVE  Box!TypeOK' /\ MInv'
<1>1. Box!TypeOK'
  BY SMTT(20)
     DEF MailboxBounds, Box!TypeOK, Located, Actors, Stages, Inside, Sending, MInv,
         Box!Consume, Box!fw, Box!To, Box!Messages, Box!NoMessage, Box!Servers, Box!Kinds
<1>2. Exclusive'
  BY SMTT(20)
     DEF MailboxBounds, Box!TypeOK, Located, Actors, Stages, Inside, Sending, MInv, Exclusive,
         Box!Consume, Box!fw, Box!To, Box!Servers
<1>3. Coherent'
  BY SMTT(20)
     DEF MailboxBounds, Box!TypeOK, Located, Actors, Stages, Inside, Sending, MInv, Coherent,
         Serving, Box!Consume, Box!fw, Box!To, Box!Servers
<1>4. Serving'
  BY SMTT(20)
     DEF MailboxBounds, Box!TypeOK, Located, Actors, Stages, Inside, Sending, MInv, Coherent,
         Serving, Exclusive, Box!Consume, Box!fw, Box!To, Box!Servers
<1>5. Numbered'
  BY SMTT(20)
     DEF MailboxBounds, Box!TypeOK, Located, Actors, Stages, Inside, Sending, MInv, Coherent,
         Numbered, Serving, Box!Consume, Box!fw, Box!To, Box!Servers
<1>6. Box!TakesItsOwn'
  BY SMTT(20)
     DEF MailboxBounds, Box!TypeOK, Located, Actors, Stages, Inside, Sending, MInv, Coherent,
         Serving, Box!TakesItsOwn, Box!Consume, Box!fw, Box!To, Box!Servers
<1>7. Located'
  BY SMTT(20)
     DEF MailboxBounds, Box!TypeOK, Located, Actors, Stages, Inside, Sending, MInv,
         Box!Consume, Box!fw, Box!To, Box!Servers
<1>. QED
  BY <1>1, <1>2, <1>3, <1>4, <1>5, <1>6, <1>7 DEF MInv

\* The reply answers the request that DATA_OUT still holds.
LEMMA ReplyKeeps ==
  ASSUME MailboxBounds, Box!TypeOK, MInv, NEW p \in Box!Servers, Box!Reply(p)
  PROVE  Box!TypeOK' /\ MInv'
<1>1. Box!TypeOK'
  <2>1. /\ pc'["irq"] \in {"idle", "capture", "claim", "read", "consume", "reply", "release", "wake"}
        /\ pc'["worker"] \in {"wait", "retry", "claim", "read", "consume", "reply", "release"}
        /\ pc'["sender"] \in {"claim", "owner", "acquire", "readback", "owned", "done", "error"}
    BY DEF Box!TypeOK, MInv, Located, Actors, Box!Reply, Box!To, Box!Servers
  <2>2. fault' \in BOOLEAN /\ failed' \in BOOLEAN /\ m_wake' \in BOOLEAN
    BY DEF Box!TypeOK, Box!Reply, Box!fw
  <2>3. /\ owner' \in {"none", "fw", "sw"} /\ command' \subseteq {"SMI", "FALCON"}
        /\ claimed' \in {"none", "irq", "worker", "sender"} /\ smi' \subseteq {"MSG", "HANG"}
        /\ pending' \subseteq {"MSG", "HANG"} /\ status' \subseteq {"MSG", "HANG"}
    BY DEF Box!TypeOK, Box!Reply, Box!fw, Box!Servers
  <2>4. out' \in Box!Messages /\ in' \in Box!Messages /\ msg' \in [Box!Servers -> Box!Messages]
    BY DEF Box!TypeOK, Box!Reply, Box!fw, Box!Messages, Box!Kinds
  <2>5. posted' \in 0 .. MaxRequests /\ hangs' \in 0 .. MaxHangs
    BY DEF Box!TypeOK, Box!Reply, Box!fw
  <2>. QED
    BY <2>1, <2>2, <2>3, <2>4, <2>5 DEF Box!TypeOK
<1>2. Exclusive'
  BY SMTT(20)
     DEF MailboxBounds, Box!TypeOK, Located, Actors, Stages, Inside, Sending, MInv, Exclusive,
         Box!Reply, Box!fw, Box!To, Box!Servers
<1>3. Coherent'
  BY SMTT(20)
     DEF MailboxBounds, Box!TypeOK, Located, Actors, Stages, Inside, Sending, MInv, Coherent,
         Serving, Box!Reply, Box!fw, Box!To, Box!Servers
<1>4. Serving'
  BY SMTT(20)
     DEF MailboxBounds, Box!TypeOK, Located, Actors, Stages, Inside, Sending, MInv, Coherent,
         Serving, Exclusive, Box!Reply, Box!fw, Box!To, Box!Servers
<1>5. Numbered'
  BY SMTT(20)
     DEF MailboxBounds, Box!TypeOK, Located, Actors, Stages, Inside, Sending, MInv, Coherent,
         Numbered, Serving, Box!Reply, Box!fw, Box!To, Box!Servers
<1>6. Box!TakesItsOwn'
  BY SMTT(20)
     DEF MailboxBounds, Box!TypeOK, Located, Actors, Stages, Inside, Sending, MInv, Coherent,
         Serving, Box!TakesItsOwn, Box!Reply, Box!fw, Box!To, Box!Servers
<1>7. Located'
  BY SMTT(20)
     DEF MailboxBounds, Box!TypeOK, Located, Actors, Stages, Inside, Sending, MInv, Box!Reply,
         Box!fw, Box!To, Box!Servers
<1>. QED
  BY <1>1, <1>2, <1>3, <1>4, <1>5, <1>6, <1>7 DEF MInv

\* The claim is given back by its owner.
LEMMA ReleaseKeeps ==
  ASSUME MailboxBounds, Box!TypeOK, MInv, NEW p \in Box!Servers, Box!Release(p)
  PROVE  Box!TypeOK' /\ MInv'
<1>1. Box!TypeOK'
  BY SMTT(20)
     DEF MailboxBounds, Box!TypeOK, Located, Actors, Stages, Inside, Sending, MInv,
         Box!Release, Box!Served, Box!fw, Box!To, Box!Messages, Box!NoMessage, Box!Servers,
         Box!Kinds
<1>2. Exclusive'
  BY SMTT(20)
     DEF MailboxBounds, Box!TypeOK, Located, Actors, Stages, Inside, Sending, MInv, Exclusive,
         Box!Release, Box!Served, Box!fw, Box!To, Box!Servers
<1>3. Coherent'
  BY SMTT(20)
     DEF MailboxBounds, Box!TypeOK, Located, Actors, Stages, Inside, Sending, MInv, Coherent,
         Serving, Box!Release, Box!Served, Box!fw, Box!To, Box!Servers
<1>4. Serving'
  BY SMTT(20)
     DEF MailboxBounds, Box!TypeOK, Located, Actors, Stages, Inside, Sending, MInv, Coherent,
         Serving, Exclusive, Box!Release, Box!Served, Box!fw, Box!To, Box!Servers
<1>5. Numbered'
  BY SMTT(20)
     DEF MailboxBounds, Box!TypeOK, Located, Actors, Stages, Inside, Sending, MInv, Coherent,
         Numbered, Serving, Box!Release, Box!Served, Box!fw, Box!To, Box!Servers
<1>6. Box!TakesItsOwn'
  BY SMTT(20)
     DEF MailboxBounds, Box!TypeOK, Located, Actors, Stages, Inside, Sending, MInv, Coherent,
         Serving, Box!TakesItsOwn, Box!Release, Box!Served, Box!fw, Box!To, Box!Servers
<1>7. Located'
  BY SMTT(20)
     DEF MailboxBounds, Box!TypeOK, Located, Actors, Stages, Inside, Sending, MInv,
         Box!Release, Box!Served, Box!fw, Box!To, Box!Servers
<1>. QED
  BY <1>1, <1>2, <1>3, <1>4, <1>5, <1>6, <1>7 DEF MInv

\* The interrupt only latches.
LEMMA InterruptKeeps ==
  ASSUME MailboxBounds, Box!TypeOK, MInv, Box!Interrupt
  PROVE  Box!TypeOK' /\ MInv'
<1>1. Box!TypeOK'
  BY SMTT(20)
     DEF MailboxBounds, Box!TypeOK, Located, Actors, Stages, Inside, Sending, MInv,
         Box!Interrupt, Box!fw, Box!To, Box!Messages, Box!NoMessage, Box!Servers, Box!Kinds
<1>2. Exclusive'
  BY SMTT(20)
     DEF MailboxBounds, Box!TypeOK, Located, Actors, Stages, Inside, Sending, MInv, Exclusive,
         Box!Interrupt, Box!fw, Box!To, Box!Servers
<1>3. Coherent'
  BY SMTT(20)
     DEF MailboxBounds, Box!TypeOK, Located, Actors, Stages, Inside, Sending, MInv, Coherent,
         Serving, Box!Interrupt, Box!fw, Box!To, Box!Servers
<1>4. Serving'
  BY SMTT(20)
     DEF MailboxBounds, Box!TypeOK, Located, Actors, Stages, Inside, Sending, MInv, Coherent,
         Serving, Exclusive, Box!Interrupt, Box!fw, Box!To, Box!Servers
<1>5. Numbered'
  BY SMTT(20)
     DEF MailboxBounds, Box!TypeOK, Located, Actors, Stages, Inside, Sending, MInv, Coherent,
         Numbered, Serving, Box!Interrupt, Box!fw, Box!To, Box!Servers
<1>6. Box!TakesItsOwn'
  BY SMTT(20)
     DEF MailboxBounds, Box!TypeOK, Located, Actors, Stages, Inside, Sending, MInv, Coherent,
         Serving, Box!TakesItsOwn, Box!Interrupt, Box!fw, Box!To, Box!Servers
<1>7. Located'
  BY SMTT(20)
     DEF MailboxBounds, Box!TypeOK, Located, Actors, Stages, Inside, Sending, MInv,
         Box!Interrupt, Box!fw, Box!To, Box!Servers
<1>. QED
  BY <1>1, <1>2, <1>3, <1>4, <1>5, <1>6, <1>7 DEF MInv

\* The handler captures the interrupt without the claim.
LEMMA CaptureKeeps ==
  ASSUME MailboxBounds, Box!TypeOK, MInv, Box!Capture
  PROVE  Box!TypeOK' /\ MInv'
<1>1. Box!TypeOK'
  BY SMTT(20)
     DEF MailboxBounds, Box!TypeOK, Located, Actors, Stages, Inside, Sending, MInv,
         Box!Capture, Box!Captured, Box!fw, Box!To, Box!Messages, Box!NoMessage, Box!Servers,
         Box!Kinds
<1>2. Exclusive'
  BY SMTT(20)
     DEF MailboxBounds, Box!TypeOK, Located, Actors, Stages, Inside, Sending, MInv, Exclusive,
         Box!Capture, Box!Captured, Box!fw, Box!To, Box!Servers
<1>3. Coherent'
  BY SMTT(20)
     DEF MailboxBounds, Box!TypeOK, Located, Actors, Stages, Inside, Sending, MInv, Coherent,
         Serving, Box!Capture, Box!Captured, Box!fw, Box!To, Box!Servers
<1>4. Serving'
  BY SMTT(20)
     DEF MailboxBounds, Box!TypeOK, Located, Actors, Stages, Inside, Sending, MInv, Coherent,
         Serving, Exclusive, Box!Capture, Box!Captured, Box!fw, Box!To, Box!Servers
<1>5. Numbered'
  BY SMTT(20)
     DEF MailboxBounds, Box!TypeOK, Located, Actors, Stages, Inside, Sending, MInv, Coherent,
         Numbered, Serving, Box!Capture, Box!Captured, Box!fw, Box!To, Box!Servers
<1>6. Box!TakesItsOwn'
  BY SMTT(20)
     DEF MailboxBounds, Box!TypeOK, Located, Actors, Stages, Inside, Sending, MInv, Coherent,
         Serving, Box!TakesItsOwn, Box!Capture, Box!Captured, Box!fw, Box!To, Box!Servers
<1>7. Located'
  BY SMTT(20)
     DEF MailboxBounds, Box!TypeOK, Located, Actors, Stages, Inside, Sending, MInv,
         Box!Capture, Box!Captured, Box!fw, Box!To, Box!Servers
<1>. QED
  BY <1>1, <1>2, <1>3, <1>4, <1>5, <1>6, <1>7 DEF MInv

\* The handler wakes the worker after it has latched.
LEMMA WakeWorkerKeeps ==
  ASSUME MailboxBounds, Box!TypeOK, MInv, Box!WakeWorker
  PROVE  Box!TypeOK' /\ MInv'
<1>1. Box!TypeOK'
  BY SMTT(20)
     DEF MailboxBounds, Box!TypeOK, Located, Actors, Stages, Inside, Sending, MInv,
         Box!WakeWorker, Box!fw, Box!To, Box!Messages, Box!NoMessage, Box!Servers, Box!Kinds
<1>2. Exclusive'
  BY SMTT(20)
     DEF MailboxBounds, Box!TypeOK, Located, Actors, Stages, Inside, Sending, MInv, Exclusive,
         Box!WakeWorker, Box!fw, Box!To, Box!Servers
<1>3. Coherent'
  BY SMTT(20)
     DEF MailboxBounds, Box!TypeOK, Located, Actors, Stages, Inside, Sending, MInv, Coherent,
         Serving, Box!WakeWorker, Box!fw, Box!To, Box!Servers
<1>4. Serving'
  BY SMTT(20)
     DEF MailboxBounds, Box!TypeOK, Located, Actors, Stages, Inside, Sending, MInv, Coherent,
         Serving, Exclusive, Box!WakeWorker, Box!fw, Box!To, Box!Servers
<1>5. Numbered'
  BY SMTT(20)
     DEF MailboxBounds, Box!TypeOK, Located, Actors, Stages, Inside, Sending, MInv, Coherent,
         Numbered, Serving, Box!WakeWorker, Box!fw, Box!To, Box!Servers
<1>6. Box!TakesItsOwn'
  BY SMTT(20)
     DEF MailboxBounds, Box!TypeOK, Located, Actors, Stages, Inside, Sending, MInv, Coherent,
         Serving, Box!TakesItsOwn, Box!WakeWorker, Box!fw, Box!To, Box!Servers
<1>7. Located'
  BY SMTT(20)
     DEF MailboxBounds, Box!TypeOK, Located, Actors, Stages, Inside, Sending, MInv,
         Box!WakeWorker, Box!fw, Box!To, Box!Servers
<1>. QED
  BY <1>1, <1>2, <1>3, <1>4, <1>5, <1>6, <1>7 DEF MInv

\* The worker wakes for a latched request or fault.
LEMMA WorkKeeps ==
  ASSUME MailboxBounds, Box!TypeOK, MInv, Box!Work
  PROVE  Box!TypeOK' /\ MInv'
<1>1. Box!TypeOK'
  <2>1. /\ pc'["irq"] \in {"idle", "capture", "claim", "read", "consume", "reply", "release", "wake"}
        /\ pc'["worker"] \in {"wait", "retry", "claim", "read", "consume", "reply", "release"}
        /\ pc'["sender"] \in {"claim", "owner", "acquire", "readback", "owned", "done", "error"}
    BY DEF Box!TypeOK, MInv, Located, Actors, Box!Work, Box!To, Box!Servers
  <2>2. fault' \in BOOLEAN /\ failed' \in BOOLEAN /\ m_wake' \in BOOLEAN
    BY DEF Box!TypeOK, Box!Work, Box!fw
  <2>3. /\ owner' \in {"none", "fw", "sw"} /\ command' \subseteq {"SMI", "FALCON"}
        /\ claimed' \in {"none", "irq", "worker", "sender"} /\ smi' \subseteq {"MSG", "HANG"}
        /\ pending' \subseteq {"MSG", "HANG"} /\ status' \subseteq {"MSG", "HANG"}
    BY DEF Box!TypeOK, Box!Work, Box!fw, Box!Servers
  <2>4. out' \in Box!Messages /\ in' \in Box!Messages /\ msg' \in [Box!Servers -> Box!Messages]
    BY DEF Box!TypeOK, Box!Work, Box!fw, Box!Messages, Box!Kinds
  <2>5. posted' \in 0 .. MaxRequests /\ hangs' \in 0 .. MaxHangs
    BY DEF Box!TypeOK, Box!Work, Box!fw
  <2>. QED
    BY <2>1, <2>2, <2>3, <2>4, <2>5 DEF Box!TypeOK
<1>2. Exclusive'
  BY SMTT(20)
     DEF MailboxBounds, Box!TypeOK, Located, Actors, Stages, Inside, Sending, MInv, Exclusive,
         Box!Work, Box!fw, Box!To, Box!Servers
<1>3. Coherent'
  BY SMTT(20)
     DEF MailboxBounds, Box!TypeOK, Located, Actors, Stages, Inside, Sending, MInv, Coherent,
         Serving, Box!Work, Box!fw, Box!To, Box!Servers
<1>4. Serving'
  BY SMTT(20)
     DEF MailboxBounds, Box!TypeOK, Located, Actors, Stages, Inside, Sending, MInv, Coherent,
         Serving, Exclusive, Box!Work, Box!fw, Box!To, Box!Servers
<1>5. Numbered'
  BY SMTT(20)
     DEF MailboxBounds, Box!TypeOK, Located, Actors, Stages, Inside, Sending, MInv, Coherent,
         Numbered, Serving, Box!Work, Box!fw, Box!To, Box!Servers
<1>6. Box!TakesItsOwn'
  BY SMTT(20)
     DEF MailboxBounds, Box!TypeOK, Located, Actors, Stages, Inside, Sending, MInv, Coherent,
         Serving, Box!TakesItsOwn, Box!Work, Box!fw, Box!To, Box!Servers
<1>7. Located'
  BY SMTT(20)
     DEF MailboxBounds, Box!TypeOK, Located, Actors, Stages, Inside, Sending, MInv, Box!Work,
         Box!fw, Box!To, Box!Servers
<1>. QED
  BY <1>1, <1>2, <1>3, <1>4, <1>5, <1>6, <1>7 DEF MInv

\* send() takes the claim or reports the mailbox busy.
LEMMA SendClaimKeeps ==
  ASSUME MailboxBounds, Box!TypeOK, MInv, Box!SendClaim
  PROVE  Box!TypeOK' /\ MInv'
<1>1. Box!TypeOK'
  <2>1. /\ pc'["irq"] \in {"idle", "capture", "claim", "read", "consume", "reply", "release", "wake"}
        /\ pc'["worker"] \in {"wait", "retry", "claim", "read", "consume", "reply", "release"}
        /\ pc'["sender"] \in {"claim", "owner", "acquire", "readback", "owned", "done", "error"}
    BY DEF Box!TypeOK, MInv, Located, Actors, Box!SendClaim, Box!To, Box!Servers
  <2>2. fault' \in BOOLEAN /\ failed' \in BOOLEAN /\ m_wake' \in BOOLEAN
    BY DEF Box!TypeOK, Box!SendClaim, Box!fw
  <2>3. /\ owner' \in {"none", "fw", "sw"} /\ command' \subseteq {"SMI", "FALCON"}
        /\ claimed' \in {"none", "irq", "worker", "sender"} /\ smi' \subseteq {"MSG", "HANG"}
        /\ pending' \subseteq {"MSG", "HANG"} /\ status' \subseteq {"MSG", "HANG"}
    BY DEF Box!TypeOK, Box!SendClaim, Box!fw, Box!Servers
  <2>4. out' \in Box!Messages /\ in' \in Box!Messages /\ msg' \in [Box!Servers -> Box!Messages]
    BY DEF Box!TypeOK, Box!SendClaim, Box!fw, Box!Messages, Box!Kinds
  <2>5. posted' \in 0 .. MaxRequests /\ hangs' \in 0 .. MaxHangs
    BY DEF Box!TypeOK, Box!SendClaim, Box!fw
  <2>. QED
    BY <2>1, <2>2, <2>3, <2>4, <2>5 DEF Box!TypeOK
<1>2. Exclusive'
  BY SMTT(20)
     DEF MailboxBounds, Box!TypeOK, Located, Actors, Stages, Inside, Sending, MInv, Exclusive,
         Box!SendClaim, Box!fw, Box!To, Box!Servers
<1>3. Coherent'
  BY SMTT(20)
     DEF MailboxBounds, Box!TypeOK, Located, Actors, Stages, Inside, Sending, MInv, Coherent,
         Serving, Box!SendClaim, Box!fw, Box!To, Box!Servers
<1>4. Serving'
  BY SMTT(20)
     DEF MailboxBounds, Box!TypeOK, Located, Actors, Stages, Inside, Sending, MInv, Coherent,
         Serving, Exclusive, Box!SendClaim, Box!fw, Box!To, Box!Servers
<1>5. Numbered'
  BY SMTT(20)
     DEF MailboxBounds, Box!TypeOK, Located, Actors, Stages, Inside, Sending, MInv, Coherent,
         Numbered, Serving, Box!SendClaim, Box!fw, Box!To, Box!Servers
<1>6. Box!TakesItsOwn'
  BY SMTT(20)
     DEF MailboxBounds, Box!TypeOK, Located, Actors, Stages, Inside, Sending, MInv, Coherent,
         Serving, Box!TakesItsOwn, Box!SendClaim, Box!fw, Box!To, Box!Servers
<1>7. Located'
  BY SMTT(20)
     DEF MailboxBounds, Box!TypeOK, Located, Actors, Stages, Inside, Sending, MInv,
         Box!SendClaim, Box!fw, Box!To, Box!Servers
<1>. QED
  BY <1>1, <1>2, <1>3, <1>4, <1>5, <1>6, <1>7 DEF MInv

\* send() goes on only in a mailbox nobody owns.
LEMMA SendCheckKeeps ==
  ASSUME MailboxBounds, Box!TypeOK, MInv, Box!SendCheck
  PROVE  Box!TypeOK' /\ MInv'
<1>1. Box!TypeOK'
  <2>1. /\ pc'["irq"] \in {"idle", "capture", "claim", "read", "consume", "reply", "release", "wake"}
        /\ pc'["worker"] \in {"wait", "retry", "claim", "read", "consume", "reply", "release"}
        /\ pc'["sender"] \in {"claim", "owner", "acquire", "readback", "owned", "done", "error"}
    BY DEF Box!TypeOK, MInv, Located, Actors, Box!SendCheck, Box!To, Box!Servers
  <2>2. fault' \in BOOLEAN /\ failed' \in BOOLEAN /\ m_wake' \in BOOLEAN
    BY DEF Box!TypeOK, Box!SendCheck, Box!fw
  <2>3. /\ owner' \in {"none", "fw", "sw"} /\ command' \subseteq {"SMI", "FALCON"}
        /\ claimed' \in {"none", "irq", "worker", "sender"} /\ smi' \subseteq {"MSG", "HANG"}
        /\ pending' \subseteq {"MSG", "HANG"} /\ status' \subseteq {"MSG", "HANG"}
    BY DEF Box!TypeOK, Box!SendCheck, Box!fw, Box!Servers
  <2>4. out' \in Box!Messages /\ in' \in Box!Messages /\ msg' \in [Box!Servers -> Box!Messages]
    BY DEF Box!TypeOK, Box!SendCheck, Box!fw, Box!Messages, Box!Kinds
  <2>5. posted' \in 0 .. MaxRequests /\ hangs' \in 0 .. MaxHangs
    BY DEF Box!TypeOK, Box!SendCheck, Box!fw
  <2>. QED
    BY <2>1, <2>2, <2>3, <2>4, <2>5 DEF Box!TypeOK
<1>2. Exclusive'
  BY SMTT(20)
     DEF MailboxBounds, Box!TypeOK, Located, Actors, Stages, Inside, Sending, MInv, Exclusive,
         Box!SendCheck, Box!fw, Box!To, Box!Servers
<1>3. Coherent'
  BY SMTT(20)
     DEF MailboxBounds, Box!TypeOK, Located, Actors, Stages, Inside, Sending, MInv, Coherent,
         Serving, Box!SendCheck, Box!fw, Box!To, Box!Servers
<1>4. Serving'
  BY SMTT(20)
     DEF MailboxBounds, Box!TypeOK, Located, Actors, Stages, Inside, Sending, MInv, Coherent,
         Serving, Exclusive, Box!SendCheck, Box!fw, Box!To, Box!Servers
<1>5. Numbered'
  BY SMTT(20)
     DEF MailboxBounds, Box!TypeOK, Located, Actors, Stages, Inside, Sending, MInv, Coherent,
         Numbered, Serving, Box!SendCheck, Box!fw, Box!To, Box!Servers
<1>6. Box!TakesItsOwn'
  BY SMTT(20)
     DEF MailboxBounds, Box!TypeOK, Located, Actors, Stages, Inside, Sending, MInv, Coherent,
         Serving, Box!TakesItsOwn, Box!SendCheck, Box!fw, Box!To, Box!Servers
<1>7. Located'
  BY SMTT(20)
     DEF MailboxBounds, Box!TypeOK, Located, Actors, Stages, Inside, Sending, MInv,
         Box!SendCheck, Box!fw, Box!To, Box!Servers
<1>. QED
  BY <1>1, <1>2, <1>3, <1>4, <1>5, <1>6, <1>7 DEF MInv

\* send() writes OWNER and reads it back.
LEMMA SendAcquireKeeps ==
  ASSUME MailboxBounds, Box!TypeOK, MInv, Box!SendAcquire
  PROVE  Box!TypeOK' /\ MInv'
<1>1. Box!TypeOK'
  BY SMTT(20)
     DEF MailboxBounds, Box!TypeOK, Located, Actors, Stages, Inside, Sending, MInv,
         Box!SendAcquire, Box!fw, Box!To, Box!Messages, Box!NoMessage, Box!Servers, Box!Kinds
<1>2. Exclusive'
  BY SMTT(20)
     DEF MailboxBounds, Box!TypeOK, Located, Actors, Stages, Inside, Sending, MInv, Exclusive,
         Box!SendAcquire, Box!fw, Box!To, Box!Servers
<1>3. Coherent'
  BY SMTT(20)
     DEF MailboxBounds, Box!TypeOK, Located, Actors, Stages, Inside, Sending, MInv, Coherent,
         Serving, Box!SendAcquire, Box!fw, Box!To, Box!Servers
<1>4. Serving'
  BY SMTT(20)
     DEF MailboxBounds, Box!TypeOK, Located, Actors, Stages, Inside, Sending, MInv, Coherent,
         Serving, Exclusive, Box!SendAcquire, Box!fw, Box!To, Box!Servers
<1>5. Numbered'
  BY SMTT(20)
     DEF MailboxBounds, Box!TypeOK, Located, Actors, Stages, Inside, Sending, MInv, Coherent,
         Numbered, Serving, Box!SendAcquire, Box!fw, Box!To, Box!Servers
<1>6. Box!TakesItsOwn'
  BY SMTT(20)
     DEF MailboxBounds, Box!TypeOK, Located, Actors, Stages, Inside, Sending, MInv, Coherent,
         Serving, Box!TakesItsOwn, Box!SendAcquire, Box!fw, Box!To, Box!Servers
<1>7. Located'
  BY SMTT(20)
     DEF MailboxBounds, Box!TypeOK, Located, Actors, Stages, Inside, Sending, MInv,
         Box!SendAcquire, Box!fw, Box!To, Box!Servers
<1>. QED
  BY <1>1, <1>2, <1>3, <1>4, <1>5, <1>6, <1>7 DEF MInv

\* send() hands its command over only as the owner.
LEMMA SendWriteKeeps ==
  ASSUME MailboxBounds, Box!TypeOK, MInv, Box!SendWrite
  PROVE  Box!TypeOK' /\ MInv'
<1>1. Box!TypeOK'
  <2>1. /\ pc'["irq"] \in {"idle", "capture", "claim", "read", "consume", "reply", "release", "wake"}
        /\ pc'["worker"] \in {"wait", "retry", "claim", "read", "consume", "reply", "release"}
        /\ pc'["sender"] \in {"claim", "owner", "acquire", "readback", "owned", "done", "error"}
    BY DEF Box!TypeOK, MInv, Located, Actors, Box!SendWrite, Box!Acquired, Box!To, Box!Servers
  <2>2. fault' \in BOOLEAN /\ failed' \in BOOLEAN /\ m_wake' \in BOOLEAN
    BY DEF Box!TypeOK, Box!SendWrite, Box!Acquired, Box!fw
  <2>3. /\ owner' \in {"none", "fw", "sw"} /\ command' \subseteq {"SMI", "FALCON"}
        /\ claimed' \in {"none", "irq", "worker", "sender"} /\ smi' \subseteq {"MSG", "HANG"}
        /\ pending' \subseteq {"MSG", "HANG"} /\ status' \subseteq {"MSG", "HANG"}
    BY DEF Box!TypeOK, Box!SendWrite, Box!Acquired, Box!fw, Box!Servers
  <2>4. out' \in Box!Messages /\ in' \in Box!Messages /\ msg' \in [Box!Servers -> Box!Messages]
    BY
       DEF MailboxBounds, Box!TypeOK, Box!SendWrite, Box!Acquired, Box!fw, Box!Messages,
           Box!Kinds
  <2>5. posted' \in 0 .. MaxRequests /\ hangs' \in 0 .. MaxHangs
    BY DEF Box!TypeOK, Box!SendWrite, Box!Acquired, Box!fw
  <2>. QED
    BY <2>1, <2>2, <2>3, <2>4, <2>5 DEF Box!TypeOK
<1>2. Exclusive'
  BY SMTT(20)
     DEF MailboxBounds, Box!TypeOK, Located, Actors, Stages, Inside, Sending, MInv, Exclusive,
         Box!SendWrite, Box!Acquired, Box!fw, Box!To, Box!Servers
<1>3. Coherent'
  BY SMTT(20)
     DEF MailboxBounds, Box!TypeOK, Located, Actors, Stages, Inside, Sending, MInv, Coherent,
         Serving, Box!SendWrite, Box!Acquired, Box!fw, Box!To, Box!Servers
<1>4. Serving'
  BY SMTT(20)
     DEF MailboxBounds, Box!TypeOK, Located, Actors, Stages, Inside, Sending, MInv, Coherent,
         Serving, Exclusive, Box!SendWrite, Box!Acquired, Box!fw, Box!To, Box!Servers
<1>5. Numbered'
  BY SMTT(20)
     DEF MailboxBounds, Box!TypeOK, Located, Actors, Stages, Inside, Sending, MInv, Coherent,
         Numbered, Serving, Box!SendWrite, Box!Acquired, Box!fw, Box!To, Box!Servers
<1>6. Box!TakesItsOwn'
  BY SMTT(20)
     DEF MailboxBounds, Box!TypeOK, Located, Actors, Stages, Inside, Sending, MInv, Coherent,
         Serving, Box!TakesItsOwn, Box!SendWrite, Box!Acquired, Box!fw, Box!To, Box!Servers
<1>7. Located'
  BY SMTT(20)
     DEF MailboxBounds, Box!TypeOK, Located, Actors, Stages, Inside, Sending, MInv,
         Box!SendWrite, Box!Acquired, Box!fw, Box!To, Box!Servers
<1>. QED
  BY <1>1, <1>2, <1>3, <1>4, <1>5, <1>6, <1>7 DEF MInv

\* send() gives the claim back.
LEMMA SendDoneKeeps ==
  ASSUME MailboxBounds, Box!TypeOK, MInv, Box!SendDone
  PROVE  Box!TypeOK' /\ MInv'
<1>1. Box!TypeOK'
  <2>1. /\ pc'["irq"] \in {"idle", "capture", "claim", "read", "consume", "reply", "release", "wake"}
        /\ pc'["worker"] \in {"wait", "retry", "claim", "read", "consume", "reply", "release"}
        /\ pc'["sender"] \in {"claim", "owner", "acquire", "readback", "owned", "done", "error"}
    BY DEF Box!TypeOK, MInv, Located, Actors, Box!SendDone, Box!To, Box!Servers
  <2>2. fault' \in BOOLEAN /\ failed' \in BOOLEAN /\ m_wake' \in BOOLEAN
    BY DEF Box!TypeOK, Box!SendDone, Box!fw
  <2>3. /\ owner' \in {"none", "fw", "sw"} /\ command' \subseteq {"SMI", "FALCON"}
        /\ claimed' \in {"none", "irq", "worker", "sender"} /\ smi' \subseteq {"MSG", "HANG"}
        /\ pending' \subseteq {"MSG", "HANG"} /\ status' \subseteq {"MSG", "HANG"}
    BY DEF Box!TypeOK, Box!SendDone, Box!fw, Box!Servers
  <2>4. out' \in Box!Messages /\ in' \in Box!Messages /\ msg' \in [Box!Servers -> Box!Messages]
    BY DEF Box!TypeOK, Box!SendDone, Box!fw, Box!Messages, Box!Kinds
  <2>5. posted' \in 0 .. MaxRequests /\ hangs' \in 0 .. MaxHangs
    BY DEF Box!TypeOK, Box!SendDone, Box!fw
  <2>. QED
    BY <2>1, <2>2, <2>3, <2>4, <2>5 DEF Box!TypeOK
<1>2. Exclusive'
  BY SMTT(20)
     DEF MailboxBounds, Box!TypeOK, Located, Actors, Stages, Inside, Sending, MInv, Exclusive,
         Box!SendDone, Box!fw, Box!To, Box!Servers
<1>3. Coherent'
  BY SMTT(20)
     DEF MailboxBounds, Box!TypeOK, Located, Actors, Stages, Inside, Sending, MInv, Coherent,
         Serving, Box!SendDone, Box!fw, Box!To, Box!Servers
<1>4. Serving'
  BY SMTT(20)
     DEF MailboxBounds, Box!TypeOK, Located, Actors, Stages, Inside, Sending, MInv, Coherent,
         Serving, Exclusive, Box!SendDone, Box!fw, Box!To, Box!Servers
<1>5. Numbered'
  BY SMTT(20)
     DEF MailboxBounds, Box!TypeOK, Located, Actors, Stages, Inside, Sending, MInv, Coherent,
         Numbered, Serving, Box!SendDone, Box!fw, Box!To, Box!Servers
<1>6. Box!TakesItsOwn'
  BY SMTT(20)
     DEF MailboxBounds, Box!TypeOK, Located, Actors, Stages, Inside, Sending, MInv, Coherent,
         Serving, Box!TakesItsOwn, Box!SendDone, Box!fw, Box!To, Box!Servers
<1>7. Located'
  BY SMTT(20)
     DEF MailboxBounds, Box!TypeOK, Located, Actors, Stages, Inside, Sending, MInv,
         Box!SendDone, Box!fw, Box!To, Box!Servers
<1>. QED
  BY <1>1, <1>2, <1>3, <1>4, <1>5, <1>6, <1>7 DEF MInv

\* The initial states satisfy the invariant.
LEMMA MailboxInit ==
  ASSUME MailboxBounds, Box!Init
  PROVE  Box!TypeOK /\ MInv
<1>1. Box!TypeOK
  <2>1. Box!NoMessage \in Box!Messages
    BY DEF MailboxBounds, Box!NoMessage, Box!Messages
  <2>2. out \in Box!Messages /\ in \in Box!Messages /\ msg \in [Box!Servers -> Box!Messages]
    BY <2>1 DEF Box!Init
  <2>3. 0 \in 0 .. MaxRequests /\ 0 \in 0 .. MaxHangs
    BY DEF MailboxBounds
  <2>. QED
    BY <2>2, <2>3 DEF Box!Init, Box!TypeOK
<1>2. Located /\ Exclusive
  BY DEF Box!Init, Located, Exclusive, Actors, Stages, Inside, Sending, Box!Servers
<1>3. Coherent /\ Serving /\ Numbered /\ Box!TakesItsOwn
  BY
     DEF MailboxBounds, Box!Init, Coherent, Serving, Numbered, Box!TakesItsOwn, Box!NoMessage,
         Box!Servers
<1>. QED
  BY <1>1, <1>2, <1>3 DEF MInv

\* Every step of handler, worker, sender and firmware keeps it.
LEMMA MailboxNext ==
  ASSUME MailboxBounds, Box!TypeOK, MInv, [Box!Next]_(Box!vars)
  PROVE  Box!TypeOK' /\ MInv'
<1>1. CASE Box!Firmware
  BY <1>1, PostKeeps, AcceptKeeps, HangKeeps DEF Box!Firmware
<1>2. ASSUME NEW p \in Box!Servers, Box!Service(p)
      PROVE  Box!TypeOK' /\ MInv'
  BY <1>2, try_claimKeeps, ReadKeeps, ConsumeKeeps, ReplyKeeps, ReleaseKeeps DEF Box!Service
<1>3. CASE Box!Irq
  BY <1>2, <1>3, InterruptKeeps, CaptureKeeps, WakeWorkerKeeps DEF Box!Irq, Box!Servers
<1>4. CASE Box!Worker
  BY <1>2, <1>4, WorkKeeps DEF Box!Worker, Box!Servers
<1>5. CASE Box!Sender
  BY <1>5, SendClaimKeeps, SendCheckKeeps, SendAcquireKeeps, SendWriteKeeps, SendDoneKeeps
  DEF Box!Sender
<1>6. CASE UNCHANGED Box!vars
  <2>1. Box!TypeOK'
    BY <1>6 DEF Box!TypeOK, Box!vars, Box!fw
  <2>2. MInv'
    BY <1>6
       DEF MInv, Located, Exclusive, Coherent, Serving, Numbered, Box!TakesItsOwn, Box!vars,
           Box!fw
  <2>. QED
    BY <2>1, <2>2
<1>. QED
  BY <1>1, <1>3, <1>4, <1>5, <1>6 DEF Box!Next

\* The other parts of the run leave the mailbox alone.
LEMMA MailboxPart == UsbSpec => Box!Init /\ [][Box!Next]_(Box!vars)
<1>1. UsbInit => Box!Init
  BY DEF UsbInit
<1>2. [UsbNext]_all => [Box!Next]_(Box!vars)
  <2>1. CASE BoxOnly /\ Box!Next
    BY <2>1
  <2>2. CASE UNCHANGED box
    BY <2>2 DEF box, Box!vars, Box!fw
  <2>. QED
    BY <2>1, <2>2 DEF UsbNext, all, HostOnly, BoxOnly, ChipOnly, SingleOnly
<1>. QED
  BY <1>1, <1>2, PTL DEF UsbSpec

\* For any number of requests and hangs: the firmware is told to take only the
\* answer to its own request or the command of send(), and a request is consumed
\* at most once (mailbox.rs service, begin_send).
THEOREM MailboxIsSafe ==
  ASSUME MailboxBounds
  PROVE  UsbSpec => []MailboxSafe
<1>1. Box!Init => Box!TypeOK /\ MInv
  BY MailboxInit
<1>2. (Box!TypeOK /\ MInv) /\ [Box!Next]_(Box!vars) => (Box!TypeOK /\ MInv)'
  BY MailboxNext
<1>3. Box!TypeOK /\ MInv => Box!MailboxSafe
  <2>. SUFFICES ASSUME Box!TypeOK, MInv PROVE Box!MailboxSafe
    OBVIOUS
  <2>1. Box!ConsumedOnce
    BY DEF MInv, Numbered, Box!ConsumedOnce
  <2>. QED
    BY <2>1 DEF MInv, Box!MailboxSafe
<1>. QED
  BY <1>1, <1>2, <1>3, MailboxPart, PTL DEF MailboxSafe
-----------------------------------------------------------------------------
(* Bringing the controller up and down. *)

\* The controller's hardware, as the driver reads and writes it.
Partitions == {"SS", "HOST"}
Hardware ==
  [devReset : BOOLEAN, rst : [Partitions -> BOOLEAN], clk : [Partitions -> BOOLEAN],
   pwr : [Partitions -> {"off", "clamped", "on"}], src : {"fast", "slow"},
   drain : {"none", "asked", "acked"}, pllu : {"off", "good", "bad"},
   plle : {"off", "on", "seq"}, p0 : {"off", "on", "seq", "bad"}, lane : {"boot", "usb"},
   gate : BOOLEAN, iload : {"zero", "stale", "ours"}, cpu : BOOLEAN]

\* Where the driver is.
Outside == {"probe", "idle", "boot", "retire", "failed", "absent"}
Underway == {"activate", "rollback", "recheck", "bound"}

\* The shape of the state; only a boot that activated the Falcon is under way.
Equipped ==
  /\ b_hw \in Hardware /\ lane0 \in {"boot", "usb"} /\ b_pc \in Outside \cup Underway
  /\ k \in 1..27 /\ b_active \in BOOLEAN /\ isolated \in BOOLEAN
  /\ fw \in {"resident", "freed", "leaked"}
  /\ b_pc \in Underway => b_active
  /\ b_pc = "rollback" => k <= 26

\* A controller that is in use, or that the driver has left, is not touched.
Owned ==
  /\ ~b_hw.devReset => b_pc \in {"probe", "absent"}
  /\ fw # "resident" => b_pc = "absent"

\* What is inactive was isolated, or never ours.
Inactive ==
  /\ ~b_active => b_hw.iload # "ours"
  /\ ~b_active /\ isolated => b_hw.rst["HOST"] /\ b_hw.drain = "acked"
  /\ fw = "freed" => b_hw.iload # "ours"

\* What the steps of the activation before the k-th have set up.
SetUp ==
  /\ b_pc = "activate" =>
       /\ k > 2 => isolated
       /\ k \in 3..24 => b_hw.drain = "acked"
       /\ k > 24 => b_hw.drain = "none"
       /\ k \in 7..23 => b_hw.src = "slow"
       /\ k > 12 => b_hw.clk["SS"] /\ b_hw.clk["HOST"]
       /\ k > 15 => b_hw.pwr["SS"] = "on"
       /\ k > 20 => b_hw.pwr["HOST"] = "on"
  /\ b_pc \in {"recheck", "bound"} => isolated /\ b_hw.iload = "ours" /\ b_hw.drain = "none"

\* The cable and the lane.
Connected ==
  /\ b_hw.gate => b_pc = "bound" \/ (k = 11 /\ b_pc \notin {"probe", "idle", "boot", "recheck"})
  /\ b_pc = "rollback" /\ k = 9 => b_hw.lane = lane0

\* The invariant of the boot.
BInv == Equipped /\ Owned /\ Inactive /\ SetUp /\ Connected

\* The steps of the activation that the invariant speaks of.
LEMMA StepNames ==
  /\ Len(Chip!Steps) = 26
  /\ DOMAIN Chip!Steps = 1..26
  /\ \A j \in 1..26 :
       /\ Chip!Steps[j] = "isolate" <=> j = 2
       /\ Chip!Steps[j] = "pllu" <=> j = 3
       /\ Chip!Steps[j] = "plle" <=> j = 4
       /\ Chip!Steps[j] = "sources" <=> j = 6
       /\ Chip!Steps[j] = "lane" <=> j = 8
       /\ Chip!Steps[j] = "uphy" <=> j = 9
       /\ Chip!Steps[j] = "usb2" <=> j = 10
       /\ Chip!Steps[j] = "close" <=> j = 11
       /\ Chip!Steps[j] = "clocks" <=> j = 12
       /\ Chip!Steps[j] = "SS.unclamp" <=> j = 15
       /\ Chip!Steps[j] = "SS.release" <=> j = 16
       /\ Chip!Steps[j] = "HOST.unclamp" <=> j = 20
       /\ Chip!Steps[j] = "HOST.release" <=> j = 21
       /\ Chip!Steps[j] = "fast" <=> j = 23
       /\ Chip!Steps[j] = "undrain" <=> j = 24
       /\ Chip!Steps[j] = "gate" <=> j = 26
       /\ Chip!Steps[j] = "SS.on" <=> j = 13
       /\ Chip!Steps[j] = "SS.clk" <=> j = 14
       /\ Chip!Steps[j] = "HOST.on" <=> j = 18
       /\ Chip!Steps[j] = "HOST.clk" <=> j = 19
BY DEF Chip!Steps

\* What a reset with the drain and the clocks given leaves behind.
AfterReset(h, d, c) == [Chip!InReset(h) EXCEPT !.drain = d, !.clk = c]
Kept(h, g) ==
  /\ g.gate = h.gate /\ g.devReset = h.devReset /\ g.lane = h.lane
  /\ g.pllu = h.pllu /\ g.plle = h.plle /\ g.p0 = h.p0
  /\ \A p \in Partitions : g.rst[p] \/ g.rst[p] = h.rst[p]
Silent(h, g) ==
  /\ Kept(h, g) /\ g.iload = "zero" /\ g.src = h.src /\ g.pwr = h.pwr
  /\ \A p \in Partitions : g.rst[p]

LEMMA ResetFacts ==
  ASSUME NEW h \in Hardware, NEW d \in {"none", "asked", "acked"},
         NEW c \in [Partitions -> BOOLEAN]
  PROVE  /\ AfterReset(h, d, c) \in Hardware /\ AfterReset(h, d, c).drain = d
         /\ Silent(h, AfterReset(h, d, c))
<1>. DEFINE on == [p \in {"SS", "HOST"} |-> TRUE]
            g == AfterReset(h, d, c)
<1>1. on \in [Partitions -> BOOLEAN] /\ \A p \in Partitions : on[p]
  BY DEF Partitions
<1>2. Chip!InReset(h) = [h EXCEPT !.rst = on, !.cpu = FALSE, !.iload = "zero"]
  BY DEF Chip!InReset
<1>. HIDE DEF on
<1>3. Chip!InReset(h) \in Hardware /\ Chip!InReset(h).iload = "zero" /\ Chip!InReset(h).rst = on
      /\ Chip!InReset(h).gate = h.gate /\ Chip!InReset(h).devReset = h.devReset
      /\ Chip!InReset(h).lane = h.lane /\ Chip!InReset(h).pwr = h.pwr
      /\ Chip!InReset(h).pllu = h.pllu /\ Chip!InReset(h).plle = h.plle
      /\ Chip!InReset(h).p0 = h.p0 /\ Chip!InReset(h).src = h.src
  BY <1>1, <1>2 DEF Hardware
<1>4. g \in Hardware /\ g.drain = d /\ g.iload = "zero" /\ g.rst = on
      /\ g.gate = h.gate /\ g.devReset = h.devReset /\ g.lane = h.lane /\ g.pwr = h.pwr
      /\ g.pllu = h.pllu /\ g.plle = h.plle /\ g.p0 = h.p0 /\ g.src = h.src
  BY <1>3 DEF AfterReset, Hardware
<1>. HIDE DEF g
<1>5. Silent(h, g)
  BY <1>1, <1>4 DEF Silent, Kept
<1>. QED
  BY <1>4, <1>5 DEF g

\* What isolation leaves behind, whether or not it succeeds.
LEMMA IsolationFacts ==
  ASSUME NEW h \in Hardware
  PROVE  /\ Chip!Isolated(h) \in Hardware /\ Chip!Isolated(h).drain = "acked"
         /\ Silent(h, Chip!Isolated(h))
         /\ \A g \in Chip!IsolateFailures(h) : g \in Hardware /\ Kept(h, g)
<1>1. [p \in {"SS", "HOST"} |-> FALSE] \in [Partitions -> BOOLEAN]
  BY DEF Partitions
<1>2. h.clk \in [Partitions -> BOOLEAN]
  BY DEF Hardware
<1>3. \A d \in {"none", "asked", "acked"} :
        [Chip!InReset(h) EXCEPT !.drain = d] = AfterReset(h, d, h.clk)
  BY DEF Hardware, Chip!InReset, AfterReset
<1>4. \A g \in Chip!IsolateFailures(h) :
        g = h \/ \E d \in {"none", "asked", "acked"} : g = AfterReset(h, d, h.clk)
  BY <1>3 DEF Chip!IsolateFailures
<1>5. \A g \in Chip!IsolateFailures(h) : g \in Hardware /\ Kept(h, g)
  <2>1. Kept(h, h)
    BY DEF Kept
  <2>. QED
    BY <1>2, <1>4, <2>1, ResetFacts DEF Silent
<1>6. Chip!Isolated(h) = AfterReset(h, "acked", [p \in {"SS", "HOST"} |-> FALSE])
  BY DEF Chip!Isolated, AfterReset
<1>7. Chip!Isolated(h) \in Hardware /\ Chip!Isolated(h).drain = "acked"
      /\ Silent(h, Chip!Isolated(h))
  <2>. DEFINE c == [p \in {"SS", "HOST"} |-> FALSE]
              d == "acked"
  <2>1. c \in [Partitions -> BOOLEAN] /\ d \in {"none", "asked", "acked"}
        /\ Chip!Isolated(h) = AfterReset(h, d, c)
    BY <1>1, <1>6
  <2>. HIDE DEF c, d
  <2>2. Chip!Isolated(h) \in Hardware /\ Chip!Isolated(h).drain = d
        /\ Silent(h, Chip!Isolated(h))
    BY <2>1, ResetFacts
  <2>. QED
    BY <2>2 DEF d
<1>. QED
  BY <1>5, <1>7

\* What a step of the activation does to the hardware.
Changes(s, h, g) ==
  /\ g \in Hardware /\ g.devReset = h.devReset
  /\ g.drain = IF s = "isolate" THEN "acked" ELSE IF s = "undrain" THEN "none" ELSE h.drain
  /\ g.src = IF s = "sources" THEN "slow" ELSE IF s = "fast" THEN "fast" ELSE h.src
  /\ g.gate = IF s = "usb2" THEN TRUE ELSE IF s \in {"close", "gate"} THEN FALSE ELSE h.gate
  /\ \A p \in Partitions :
       /\ h.rst[p] /\ ~g.rst[p] => s = (IF p = "SS" THEN "SS.release" ELSE "HOST.release")
       /\ h.clk[p] /\ s # "isolate" => g.clk[p]
       /\ s = "clocks" => g.clk[p]
       /\ h.pwr[p] = "on" => g.pwr[p] = "on"
  /\ s = "SS.unclamp" => g.pwr["SS"] = "on"
  /\ s = "HOST.unclamp" => g.pwr["HOST"] = "on"
  /\ s # "pllu" => g.pllu = h.pllu
  /\ s = "pllu" /\ h.pllu = "good" => g.pllu = "good"
  /\ s # "uphy" => g.p0 = h.p0
  /\ s \notin {"uphy", "plle"} => g.plle = h.plle
  /\ s = "plle" => g.plle = IF h.plle = "off" THEN "on" ELSE h.plle
  /\ s = "uphy" => \/ h.p0 = "bad" /\ g = h
                   \/ h.p0 # "bad" /\ g.p0 = "seq" /\ g.plle = "seq"

\* A step that writes one partition's power, clock or reset.
PowerStates == {"off", "clamped", "on"}
PowerTo(h, q, v) == [h EXCEPT !.pwr[q] = v]
ClockOn(h, q) == [h EXCEPT !.clk[q] = TRUE]
ResetOff(h, q) == [h EXCEPT !.rst[q] = FALSE]
Alike(h, g) ==
  /\ g.devReset = h.devReset /\ g.src = h.src /\ g.drain = h.drain /\ g.pllu = h.pllu
  /\ g.plle = h.plle /\ g.p0 = h.p0 /\ g.lane = h.lane /\ g.gate = h.gate

LEMMA PowerFacts ==
  ASSUME NEW h \in Hardware, NEW q \in Partitions, NEW v \in PowerStates
  PROVE  /\ PowerTo(h, q, v) \in Hardware /\ Alike(h, PowerTo(h, q, v))
         /\ PowerTo(h, q, v).rst = h.rst /\ PowerTo(h, q, v).clk = h.clk
         /\ PowerTo(h, q, v).pwr[q] = v
         /\ \A p \in Partitions \ {q} : PowerTo(h, q, v).pwr[p] = h.pwr[p]
<1>. DEFINE f == [h.pwr EXCEPT ![q] = v]
<1>1. h.pwr \in [Partitions -> PowerStates]
  BY DEF Hardware, PowerStates
<1>2. f \in [Partitions -> PowerStates] /\ f[q] = v
      /\ \A p \in Partitions \ {q} : f[p] = h.pwr[p]
  BY <1>1
<1>3. PowerTo(h, q, v) = [h EXCEPT !.pwr = f]
  BY DEF Hardware, PowerTo
<1>. HIDE DEF f
<1>4. [h EXCEPT !.pwr = f] \in Hardware /\ [h EXCEPT !.pwr = f].pwr = f
      /\ [h EXCEPT !.pwr = f].rst = h.rst /\ [h EXCEPT !.pwr = f].clk = h.clk
      /\ Alike(h, [h EXCEPT !.pwr = f])
  BY <1>2 DEF Hardware, Alike, PowerStates
<1>. QED
  BY <1>2, <1>3, <1>4

LEMMA ClockFacts ==
  ASSUME NEW h \in Hardware, NEW q \in Partitions
  PROVE  /\ ClockOn(h, q) \in Hardware /\ Alike(h, ClockOn(h, q))
         /\ ClockOn(h, q).rst = h.rst /\ ClockOn(h, q).pwr = h.pwr
         /\ \A p \in Partitions : h.clk[p] => ClockOn(h, q).clk[p]
<1>. DEFINE f == [h.clk EXCEPT ![q] = TRUE]
<1>1. h.clk \in [Partitions -> BOOLEAN]
  BY DEF Hardware
<1>2. f \in [Partitions -> BOOLEAN] /\ \A p \in Partitions : h.clk[p] => f[p]
  BY <1>1
<1>3. ClockOn(h, q) = [h EXCEPT !.clk = f]
  BY DEF Hardware, ClockOn
<1>. HIDE DEF f
<1>4. [h EXCEPT !.clk = f] \in Hardware /\ [h EXCEPT !.clk = f].clk = f
      /\ [h EXCEPT !.clk = f].rst = h.rst /\ [h EXCEPT !.clk = f].pwr = h.pwr
      /\ Alike(h, [h EXCEPT !.clk = f])
  BY <1>2 DEF Hardware, Alike
<1>. QED
  BY <1>2, <1>3, <1>4

LEMMA ReleaseFacts ==
  ASSUME NEW h \in Hardware, NEW q \in Partitions
  PROVE  /\ ResetOff(h, q) \in Hardware /\ Alike(h, ResetOff(h, q))
         /\ ResetOff(h, q).clk = h.clk /\ ResetOff(h, q).pwr = h.pwr
         /\ \A p \in Partitions \ {q} : ResetOff(h, q).rst[p] = h.rst[p]
<1>. DEFINE f == [h.rst EXCEPT ![q] = FALSE]
<1>1. h.rst \in [Partitions -> BOOLEAN]
  BY DEF Hardware
<1>2. f \in [Partitions -> BOOLEAN] /\ \A p \in Partitions \ {q} : f[p] = h.rst[p]
  BY <1>1
<1>3. ResetOff(h, q) = [h EXCEPT !.rst = f]
  BY DEF Hardware, ResetOff
<1>. HIDE DEF f
<1>4. [h EXCEPT !.rst = f] \in Hardware /\ [h EXCEPT !.rst = f].rst = f
      /\ [h EXCEPT !.rst = f].clk = h.clk /\ [h EXCEPT !.rst = f].pwr = h.pwr
      /\ Alike(h, [h EXCEPT !.rst = f])
  BY <1>2 DEF Hardware, Alike
<1>. QED
  BY <1>2, <1>3, <1>4

LEMMA EffectFacts ==
  ASSUME NEW h \in Hardware, NEW s
  PROVE  Changes(s, h, Chip!Effect(s, h))
<1>. DEFINE g == Chip!Effect(s, h)
<1>1. CASE s = "isolate"
  <2>1. g = Chip!Isolated(h)
    BY <1>1 DEF Chip!Effect
  <2>. HIDE DEF g
  <2>2. g \in Hardware /\ g.drain = "acked" /\ Silent(h, g)
    BY <2>1, IsolationFacts
  <2>3. Changes(s, h, g)
    BY <1>1, <2>2 DEF Changes, Silent, Kept
  <2>. QED
    BY <2>3 DEF g
<1>2. CASE s \in {"pllu", "plle", "sources", "lane", "usb2", "close", "gate", "fast", "undrain"}
  <2>1. CASE s = "pllu"
    <3>1. g = [h EXCEPT !.pllu = "good"]
      BY <2>1 DEF Chip!Effect
    <3>. HIDE DEF g
    <3>2. Changes(s, h, g)
      BY <2>1, <3>1 DEF Changes, Hardware
    <3>. QED
      BY <3>2 DEF g
  <2>2. CASE s = "plle"
    <3>1. g = [h EXCEPT !.plle = IF h.plle = "off" THEN "on" ELSE h.plle]
      BY <2>2 DEF Chip!Effect
    <3>. HIDE DEF g
    <3>2. Changes(s, h, g)
      BY <2>2, <3>1 DEF Changes, Hardware
    <3>. QED
      BY <3>2 DEF g
  <2>3. CASE s = "sources"
    <3>1. g = [h EXCEPT !.src = "slow"]
      BY <2>3 DEF Chip!Effect
    <3>. HIDE DEF g
    <3>2. Changes(s, h, g)
      BY <2>3, <3>1 DEF Changes, Hardware
    <3>. QED
      BY <3>2 DEF g
  <2>4. CASE s = "lane"
    <3>1. g = [h EXCEPT !.lane = "usb"]
      BY <2>4 DEF Chip!Effect
    <3>. HIDE DEF g
    <3>2. Changes(s, h, g)
      BY <2>4, <3>1 DEF Changes, Hardware
    <3>. QED
      BY <3>2 DEF g
  <2>5. CASE s = "usb2"
    <3>1. g = [h EXCEPT !.gate = TRUE]
      BY <2>5 DEF Chip!Effect
    <3>. HIDE DEF g
    <3>2. Changes(s, h, g)
      BY <2>5, <3>1 DEF Changes, Hardware
    <3>. QED
      BY <3>2 DEF g
  <2>6. CASE s = "close"
    <3>1. g = [h EXCEPT !.gate = FALSE]
      BY <2>6 DEF Chip!Effect
    <3>. HIDE DEF g
    <3>2. Changes(s, h, g)
      BY <2>6, <3>1 DEF Changes, Hardware
    <3>. QED
      BY <3>2 DEF g
  <2>7. CASE s = "gate"
    <3>1. g = [h EXCEPT !.gate = FALSE]
      BY <2>7 DEF Chip!Effect
    <3>. HIDE DEF g
    <3>2. Changes(s, h, g)
      BY <2>7, <3>1 DEF Changes, Hardware
    <3>. QED
      BY <3>2 DEF g
  <2>8. CASE s = "fast"
    <3>1. g = [h EXCEPT !.src = "fast"]
      BY <2>8 DEF Chip!Effect
    <3>. HIDE DEF g
    <3>2. Changes(s, h, g)
      BY <2>8, <3>1 DEF Changes, Hardware
    <3>. QED
      BY <3>2 DEF g
  <2>9. CASE s = "undrain"
    <3>1. g = [h EXCEPT !.drain = "none"]
      BY <2>9 DEF Chip!Effect
    <3>. HIDE DEF g
    <3>2. Changes(s, h, g)
      BY <2>9, <3>1 DEF Changes, Hardware
    <3>. QED
      BY <3>2 DEF g
  <2>. QED
    BY <1>2, <2>1, <2>2, <2>3, <2>4, <2>5, <2>6, <2>7, <2>8, <2>9
<1>3. CASE s = "uphy"
  <2>1. g = IF h.p0 = "bad" THEN h ELSE [h EXCEPT !.p0 = "seq", !.plle = "seq"]
    BY <1>3 DEF Chip!Effect, Chip!UphyStarts
  <2>. HIDE DEF g
  <2>2. Changes(s, h, g)
    BY <1>3, <2>1 DEF Changes, Hardware
  <2>. QED
    BY <2>2 DEF g
<1>4. CASE s = "clocks"
  <2>. DEFINE on == [p \in {"SS", "HOST"} |-> TRUE]
  <2>1. g = [h EXCEPT !.clk = on]
    BY <1>4 DEF Chip!Effect
  <2>2. on \in [Partitions -> BOOLEAN] /\ \A p \in Partitions : on[p]
    BY DEF Partitions
  <2>. HIDE DEF g, on
  <2>3. Changes(s, h, g)
    BY <1>4, <2>1, <2>2 DEF Changes, Hardware
  <2>. QED
    BY <2>3 DEF g
<1>5. CASE s \in {"SS.on", "HOST.on", "SS.unclamp", "HOST.unclamp"}
  <2>. DEFINE q == IF s \in {"SS.on", "SS.unclamp"} THEN "SS" ELSE "HOST"
              v == IF s \in {"SS.on", "HOST.on"} /\ h.pwr[q] = "off" THEN "clamped" ELSE "on"
  <2>1. g = PowerTo(h, q, v)
    BY <1>5 DEF Chip!Effect, Chip!Power, Hardware, PowerTo
  <2>2. q \in Partitions /\ v \in {"off", "clamped", "on"} /\ (h.pwr[q] = "on" => v = "on")
    BY DEF Partitions
  <2>3. (s = "SS.unclamp" => q = "SS" /\ v = "on") /\ (s = "HOST.unclamp" => q = "HOST" /\ v = "on")
    OBVIOUS
  <2>. HIDE DEF g, q, v
  <2>4. /\ g \in Hardware /\ Alike(h, g) /\ g.rst = h.rst /\ g.clk = h.clk /\ g.pwr[q] = v
        /\ \A p \in Partitions \ {q} : g.pwr[p] = h.pwr[p]
    <3>2. q \in Partitions /\ v \in PowerStates
      BY <2>2, Zenon DEF PowerStates
    <3>3. /\ PowerTo(h, q, v) \in Hardware /\ Alike(h, PowerTo(h, q, v))
          /\ PowerTo(h, q, v).rst = h.rst /\ PowerTo(h, q, v).clk = h.clk
          /\ PowerTo(h, q, v).pwr[q] = v
          /\ \A p \in Partitions \ {q} : PowerTo(h, q, v).pwr[p] = h.pwr[p]
      BY <3>2, PowerFacts
    <3>. QED
      BY <2>1, <3>3
  <2>5. Changes(s, h, g)
    BY <1>5, <2>2, <2>3, <2>4 DEF Changes, Alike
  <2>. QED
    BY <2>5 DEF g
<1>6. CASE s \in {"SS.clk", "HOST.clk"}
  <2>. DEFINE q == IF s = "SS.clk" THEN "SS" ELSE "HOST"
  <2>1. g = ClockOn(h, q) /\ q \in Partitions
    BY <1>6 DEF Chip!Effect, Partitions, ClockOn
  <2>. HIDE DEF g, q
  <2>2. Changes(s, h, g)
    BY <1>6, <2>1, ClockFacts DEF Changes, Alike
  <2>. QED
    BY <2>2 DEF g
<1>7. CASE s \in {"SS.release", "HOST.release"}
  <2>. DEFINE q == IF s = "SS.release" THEN "SS" ELSE "HOST"
  <2>1. g = ResetOff(h, q) /\ q \in Partitions
    BY <1>7 DEF Chip!Effect, Partitions, ResetOff
  <2>2. s = (IF q = "SS" THEN "SS.release" ELSE "HOST.release")
    BY <1>7
  <2>. HIDE DEF g, q
  <2>3. Changes(s, h, g)
    BY <1>7, <2>1, <2>2, ReleaseFacts DEF Changes, Alike
  <2>. QED
    BY <2>3 DEF g
<1>8. CASE s \notin {"isolate", "pllu", "plle", "sources", "lane", "usb2", "close", "gate", "fast",
                    "undrain", "uphy", "clocks", "SS.on", "HOST.on", "SS.unclamp", "HOST.unclamp",
                    "SS.clk", "HOST.clk", "SS.release", "HOST.release"}
  <2>1. g = h
    BY <1>8 DEF Chip!Effect
  <2>. HIDE DEF g
  <2>2. Changes(s, h, g)
    BY <1>8, <2>1 DEF Changes
  <2>. QED
    BY <2>2 DEF g
<1>. QED
  BY <1>1, <1>2, <1>3, <1>4, <1>5, <1>6, <1>7, <1>8

\* A machine is found without anything of ours.
LEMMA ChipInit ==
  ASSUME Chip!Init PROVE BInv
<1>1. b_hw \in Hardware /\ b_hw.iload # "ours" /\ b_hw.gate = FALSE
  <2>1. b_hw \in Chip!Inherited
    BY DEF Chip!Init
  <2>2. \A r \in BOOLEAN : [SS |-> r, HOST |-> r] \in [Partitions -> BOOLEAN]
    BY DEF Partitions
  <2>3. \A r \in {"off", "on"} : [SS |-> r, HOST |-> r] \in [Partitions -> {"off", "clamped", "on"}]
    BY DEF Partitions
  <2>4. /\ {[SS |-> r, HOST |-> r] : r \in BOOLEAN} \subseteq [Partitions -> BOOLEAN]
        /\ {[SS |-> p, HOST |-> p] : p \in {"off", "on"}}
             \subseteq [Partitions -> {"off", "clamped", "on"}]
    BY <2>2, <2>3
  <2>5. b_hw \in [devReset : BOOLEAN, rst : {[SS |-> r, HOST |-> r] : r \in BOOLEAN},
                  clk : {[SS |-> c, HOST |-> c] : c \in BOOLEAN},
                  pwr : {[SS |-> p, HOST |-> p] : p \in {"off", "on"}}, src : {"fast"},
                  drain : {"none"}, pllu : {"off", "good", "bad"}, plle : {"off", "on", "seq"},
                  p0 : {"off", "on", "seq", "bad"}, lane : {"boot"}, gate : {FALSE},
                  iload : {"zero", "stale"}, cpu : BOOLEAN]
    BY <2>1, Zenon DEF Chip!Inherited
  <2>. DEFINE R == {[SS |-> r, HOST |-> r] : r \in BOOLEAN}
              W == {[SS |-> p, HOST |-> p] : p \in {"off", "on"}}
  <2>. HIDE DEF R, W
  <2>6. b_hw \in [devReset : BOOLEAN, rst : R, clk : R, pwr : W, src : {"fast"},
                  drain : {"none"}, pllu : {"off", "good", "bad"}, plle : {"off", "on", "seq"},
                  p0 : {"off", "on", "seq", "bad"}, lane : {"boot"}, gate : {FALSE},
                  iload : {"zero", "stale"}, cpu : BOOLEAN]
        /\ R \subseteq [Partitions -> BOOLEAN]
        /\ W \subseteq [Partitions -> {"off", "clamped", "on"}]
    BY <2>4, <2>5, Zenon DEF R, W
  <2>. QED
    BY <2>6 DEF Hardware
<1>2. /\ lane0 = "boot" /\ b_pc = "probe" /\ k = 1 /\ b_active = FALSE /\ fw = "resident"
      /\ isolated = FALSE
  BY Zenon DEF Chip!Init
<1>3. Equipped
  <2>1. b_active \in BOOLEAN /\ isolated \in BOOLEAN
    BY <1>2, Zenon
  <2>. QED
    BY <1>1, <1>2, <2>1 DEF Equipped, Outside, Underway
<1>. QED
  BY <1>1, <1>2, <1>3 DEF BInv, Owned, Inactive, SetUp, Connected

\* What holds of every step, successful or not: the PLLs that run, and the resets.
PllsKept(h, g) ==
  /\ h.pllu # "off" => g.pllu = h.pllu
  /\ h.p0 \in {"on", "seq"} => g.p0 \in {h.p0, "seq"}
  /\ h.p0 = "bad" => g.p0 = "bad"
  /\ h.plle # "seq" /\ g.plle = "seq" => g.p0 = "seq"
Ordered(s, h, g) ==
  /\ g \in Hardware /\ g.devReset = h.devReset /\ PllsKept(h, g)
  /\ \A p \in Partitions :
       h.rst[p] /\ ~g.rst[p] => s = (IF p = "SS" THEN "SS.release" ELSE "HOST.release")

LEMMA ChangesOrdered ==
  ASSUME NEW h \in Hardware, NEW s, ~(s = "pllu" /\ h.pllu = "bad")
  PROVE  Ordered(s, h, Chip!Effect(s, h))
<1>. DEFINE g == Chip!Effect(s, h)
<1>1. Changes(s, h, g)
  BY EffectFacts
<1>. HIDE DEF g
<1>2. PllsKept(h, g)
  BY <1>1 DEF Changes, PllsKept, Hardware
<1>3. Ordered(s, h, g)
  BY <1>1, <1>2 DEF Changes, Ordered
<1>. QED
  BY <1>3 DEF g

LEMMA KeptOrdered ==
  ASSUME NEW h \in Hardware, NEW g \in Hardware, Kept(h, g), NEW s
  PROVE  Ordered(s, h, g)
BY DEF Kept, Ordered, PllsKept

LEMMA FailureFacts ==
  ASSUME NEW h \in Hardware, NEW s, NEW g \in Chip!Failures(s, h), lane0 \in {"boot", "usb"},
         ~(s = "pllu" /\ h.pllu = "bad")
  PROVE  Ordered(s, h, g) /\ (g.gate => h.gate) /\ (s = "uphy" => g.lane = lane0)
<1>1. CASE s = "isolate"
  <2>1. g \in Chip!IsolateFailures(h)
    BY <1>1 DEF Chip!Failures
  <2>2. g \in Hardware /\ Kept(h, g)
    BY <2>1, IsolationFacts
  <2>. QED
    BY <1>1, <2>2, KeptOrdered DEF Kept
<1>2. CASE s = "uphy"
  <2>1. \/ g = [h EXCEPT !.lane = lane0]
        \/ /\ h.p0 \in {"on", "seq"}
           /\ g = [[h EXCEPT !.p0 = "seq", !.plle = "seq"] EXCEPT !.lane = lane0]
    BY <1>2 DEF Chip!Failures, Chip!LaneRollback, Chip!UphyStarts
  <2>2. CASE g = [h EXCEPT !.lane = lane0]
    <3>1. /\ g \in Hardware /\ g.devReset = h.devReset /\ g.pllu = h.pllu /\ g.p0 = h.p0
          /\ g.plle = h.plle /\ g.rst = h.rst /\ g.gate = h.gate /\ g.lane = lane0
      BY <2>2 DEF Hardware
    <3>. QED
      BY <1>2, <3>1 DEF Ordered, PllsKept
  <2>3. CASE /\ h.p0 \in {"on", "seq"}
             /\ g = [[h EXCEPT !.p0 = "seq", !.plle = "seq"] EXCEPT !.lane = lane0]
    <3>. DEFINE t == [h EXCEPT !.p0 = "seq", !.plle = "seq"]
    <3>1. /\ t \in Hardware /\ t.devReset = h.devReset /\ t.pllu = h.pllu /\ t.p0 = "seq"
          /\ t.plle = "seq" /\ t.rst = h.rst /\ t.gate = h.gate
      BY DEF Hardware
    <3>. HIDE DEF t
    <3>2. g = [t EXCEPT !.lane = lane0] /\ h.p0 \in {"on", "seq"}
      BY <2>3 DEF t
    <3>3. /\ g \in Hardware /\ g.devReset = h.devReset /\ g.pllu = h.pllu /\ g.p0 = "seq"
          /\ g.plle = "seq" /\ g.rst = h.rst /\ g.gate = h.gate /\ g.lane = lane0
      BY <3>1, <3>2 DEF Hardware
    <3>. QED
      BY <1>2, <3>2, <3>3 DEF Ordered, PllsKept
  <2>. QED
    BY <2>1, <2>2, <2>3
<1>3. CASE s \notin {"isolate", "uphy"}
  <2>1. s \notin {"lane", "usb2"} /\ (g = h \/ g = Chip!Effect(s, h))
    BY <1>3 DEF Chip!Failures
  <2>2. CASE g = h
    <3>1. Kept(h, g)
      BY <2>2 DEF Kept
    <3>. QED
      BY <1>3, <2>2, <3>1, KeptOrdered
  <2>3. CASE g = Chip!Effect(s, h)
    <3>1. Changes(s, h, g) /\ Ordered(s, h, g)
      BY <2>3, EffectFacts, ChangesOrdered
    <3>2. g.gate => h.gate
      BY <2>1, <3>1 DEF Changes
    <3>. QED
      BY <1>3, <3>1, <3>2
  <2>. QED
    BY <2>1, <2>2, <2>3
<1>. QED
  BY <1>1, <1>2, <1>3

\* A step of the activation sets up what the next ones rest on.
LEMMA ActivateKeeps ==
  ASSUME BInv, Chip!ActivateStep
  PROVE  BInv' /\ Ordered(Chip!Steps[k], b_hw, b_hw') /\ k \in 1..26
<1>. DEFINE s == Chip!Steps[k]
<1>1. /\ b_pc = "activate" /\ k \in 1..26 /\ k' = k + 1 /\ b_hw' = Chip!Effect(s, b_hw)
      /\ lane0' = (IF s = "lane" THEN b_hw.lane ELSE lane0)
      /\ isolated' = (isolated \/ s = "isolate")
      /\ UNCHANGED <<b_pc, b_active, fw>>
  BY StepNames DEF BInv, Equipped, Chip!ActivateStep
<1>2. /\ b_hw \in Hardware /\ lane0 \in {"boot", "usb"} /\ b_active /\ b_hw.devReset
      /\ fw = "resident" /\ isolated \in BOOLEAN
  BY <1>1 DEF BInv, Equipped, Owned, Underway
<1>3. Changes(s, b_hw, b_hw')
  BY <1>1, <1>2, EffectFacts
<1>4. /\ s = "isolate" <=> k = 2
      /\ s = "sources" <=> k = 6
      /\ s = "usb2" <=> k = 10
      /\ s = "close" <=> k = 11
      /\ s = "clocks" <=> k = 12
      /\ s = "SS.unclamp" <=> k = 15
      /\ s = "HOST.unclamp" <=> k = 20
      /\ s = "fast" <=> k = 23
      /\ s = "undrain" <=> k = 24
  BY <1>1, StepNames
<1>9. Ordered(s, b_hw, b_hw')
  <2>1. ~(s = "pllu" /\ b_hw.pllu = "bad")
    BY DEF Chip!ActivateStep, Chip!Refused
  <2>. HIDE DEF s
  <2>. QED
    BY <1>1, <1>2, <2>1, ChangesOrdered
<1>. HIDE DEF s
<1>5. Equipped'
  <2>1. lane0' \in {"boot", "usb"} /\ isolated' \in BOOLEAN
    BY <1>1, <1>2 DEF Hardware
  <2>2. b_hw' \in Hardware
    BY <1>3 DEF Changes
  <2>. QED
    BY <1>1, <1>2, <2>1, <2>2 DEF BInv, Equipped, Underway
<1>6. Owned' /\ Inactive'
  BY <1>1, <1>2, <1>3 DEF Owned, Inactive, Changes
<1>7. SetUp'
  <2>1. b_hw'.drain = (IF k = 2 THEN "acked" ELSE IF k = 24 THEN "none" ELSE b_hw.drain)
        /\ b_hw'.src = (IF k = 6 THEN "slow" ELSE IF k = 23 THEN "fast" ELSE b_hw.src)
    BY <1>3, <1>4 DEF Changes
  <2>2. \A p \in Partitions : /\ b_hw.clk[p] /\ k # 2 => b_hw'.clk[p]
                              /\ k = 12 => b_hw'.clk[p]
                              /\ b_hw.pwr[p] = "on" => b_hw'.pwr[p] = "on"
    BY <1>3, <1>4 DEF Changes
  <2>3. (k = 15 => b_hw'.pwr["SS"] = "on") /\ (k = 20 => b_hw'.pwr["HOST"] = "on")
    BY <1>3, <1>4 DEF Changes
  <2>4. k + 1 > 2 => isolated'
    <3>1. k + 1 > 2 => k = 2 \/ k > 2
      BY <1>1
    <3>2. k > 2 => isolated
      BY <1>1 DEF BInv, SetUp
    <3>. QED
      BY <1>1, <1>4, <3>1, <3>2, Zenon
  <2>5. /\ k + 1 \in 3..24 => b_hw'.drain = "acked"
        /\ k + 1 > 24 => b_hw'.drain = "none"
        /\ k + 1 \in 7..23 => b_hw'.src = "slow"
    BY <1>1, <2>1 DEF BInv, SetUp
  <2>6. "SS" \in Partitions /\ "HOST" \in Partitions
    BY DEF Partitions
  <2>7. k + 1 > 12 => b_hw'.clk["SS"] /\ b_hw'.clk["HOST"]
    <3>1. k > 12 => b_hw.clk["SS"] /\ b_hw.clk["HOST"] /\ k # 2
      BY <1>1 DEF BInv, SetUp
    <3>2. k + 1 > 12 => k = 12 \/ k > 12
      BY <1>1
    <3>. QED
      BY <2>2, <2>6, <3>1, <3>2
  <2>8. k + 1 > 15 => b_hw'.pwr["SS"] = "on"
    <3>1. k > 15 => b_hw.pwr["SS"] = "on"
      BY <1>1 DEF BInv, SetUp
    <3>2. k + 1 > 15 => k = 15 \/ k > 15
      BY <1>1
    <3>. QED
      BY <2>2, <2>3, <2>6, <3>1, <3>2
  <2>9. k + 1 > 20 => b_hw'.pwr["HOST"] = "on"
    <3>1. k > 20 => b_hw.pwr["HOST"] = "on"
      BY <1>1 DEF BInv, SetUp
    <3>2. k + 1 > 20 => k = 20 \/ k > 20
      BY <1>1
    <3>. QED
      BY <2>2, <2>3, <2>6, <3>1, <3>2
  <2>10. k' = k + 1 /\ b_pc' = "activate"
    BY <1>1
  <2>. QED
    BY <2>4, <2>5, <2>7, <2>8, <2>9, <2>10 DEF SetUp
<1>8. Connected'
  BY <1>1, <1>3, <1>4 DEF BInv, Connected, Changes
<1>. QED
  BY <1>1, <1>5, <1>6, <1>7, <1>8, <1>9 DEF BInv, s

\* A step that fails leaves the lane with the owner it was found with.
LEMMA FailsKeeps ==
  ASSUME BInv, Chip!ActivateFails
  PROVE  BInv' /\ Ordered(Chip!Steps[k], b_hw, b_hw') /\ k \in 1..26
<1>. DEFINE s == Chip!Steps[k]
<1>1. /\ b_pc = "activate" /\ k \in 1..26 /\ b_pc' \in {"retire", "rollback"}
      /\ UNCHANGED <<lane0, k, b_active, fw, isolated>>
  BY StepNames DEF BInv, Equipped, Chip!ActivateFails
<1>2. /\ b_hw \in Hardware /\ lane0 \in {"boot", "usb"} /\ b_active /\ b_hw.devReset
      /\ fw = "resident"
  BY <1>1 DEF BInv, Equipped, Owned, Underway
<1>3. s = "uphy" <=> k = 9
  BY <1>1, StepNames
<1>4. Ordered(s, b_hw, b_hw') /\ (b_hw'.gate => b_hw.gate) /\ (s = "uphy" => b_hw'.lane = lane0)
  <2>1. CASE Chip!Refused(s)
    <3>1. b_hw' = b_hw /\ s # "uphy"
      BY <2>1 DEF Chip!ActivateFails, Chip!Refused
    <3>2. Kept(b_hw, b_hw')
      BY <3>1 DEF Kept
    <3>. QED
      BY <1>2, <3>1, <3>2, KeptOrdered
  <2>2. CASE ~Chip!Refused(s)
    <3>1. b_hw' \in Chip!Failures(s, b_hw) /\ ~(s = "pllu" /\ b_hw.pllu = "bad")
      BY <2>2 DEF Chip!ActivateFails, Chip!Refused
    <3>. HIDE DEF s
    <3>. QED
      BY <1>2, <3>1, FailureFacts
  <2>. QED
    BY <2>1, <2>2
<1>. HIDE DEF s
<1>5. Equipped' /\ Owned' /\ Inactive' /\ SetUp'
  BY <1>1, <1>2, <1>4 DEF BInv, Equipped, Owned, Inactive, SetUp, Ordered, Outside, Underway
<1>6. Connected'
  BY <1>1, <1>3, <1>4 DEF BInv, Connected
<1>. QED
  BY <1>1, <1>4, <1>5, <1>6 DEF BInv, s

\* Isolation, wherever it is asked for.
LEMMA IsolatingKeeps ==
  ASSUME BInv, Chip!Rollback \/ Chip!Retire \/ Chip!DropFalcon
  PROVE  BInv' /\ b_hw' \in Hardware /\ Kept(b_hw, b_hw')
<1>0. /\ b_hw \in Hardware /\ b_active \in BOOLEAN /\ isolated \in BOOLEAN /\ b_hw.devReset
      /\ fw = "resident"
  BY DEF BInv, Equipped, Owned, Chip!Rollback, Chip!Retire, Chip!DropFalcon
<1>1. /\ Chip!Isolated(b_hw) \in Hardware /\ Chip!Isolated(b_hw).drain = "acked"
      /\ Silent(b_hw, Chip!Isolated(b_hw))
      /\ \A g \in Chip!IsolateFailures(b_hw) : g \in Hardware /\ Kept(b_hw, g)
  BY <1>0, IsolationFacts
<1>2. /\ k' = k /\ lane0' = lane0 /\ isolated' \in BOOLEAN /\ b_active' \in BOOLEAN
      /\ b_pc' \in {"retire", "failed", "absent"} /\ b_pc \in {"rollback", "retire", "idle", "failed"}
      /\ fw' \in {"resident", "freed", "leaked"} /\ (fw' # "resident" => b_pc' = "absent")
  BY <1>0 DEF Chip!Rollback, Chip!Retire, Chip!DropFalcon, Chip!StillActive, Chip!Kept
<1>3. Kept(b_hw, b_hw)
  BY DEF Kept
<1>4. b_hw' \in Hardware /\ Kept(b_hw, b_hw')
  <2>1. b_hw' = b_hw \/ b_hw' = Chip!Isolated(b_hw) \/ b_hw' \in Chip!IsolateFailures(b_hw)
    BY DEF Chip!Rollback, Chip!Retire, Chip!DropFalcon
  <2>. QED
    BY <1>0, <1>1, <1>3, <2>1 DEF Silent
<1>5. Inactive'
  <2>1. b_pc = "rollback" => b_active
    BY DEF BInv, Equipped, Underway
  <2>2. \/ /\ b_active' = b_active /\ b_active /\ fw' # "freed"
        \/ /\ b_hw' = Chip!Isolated(b_hw)
        \/ /\ b_hw' = b_hw /\ ~b_active /\ ~b_active' /\ isolated' = isolated
    BY <1>0, <2>1 DEF Chip!Rollback, Chip!Retire, Chip!DropFalcon, Chip!StillActive, Chip!Kept
  <2>3. CASE b_active' = b_active /\ b_active /\ fw' # "freed"
    BY <2>3 DEF Inactive
  <2>4. CASE b_hw' = Chip!Isolated(b_hw)
    BY <1>1, <2>4 DEF Inactive, Silent, Partitions
  <2>5. CASE b_hw' = b_hw /\ ~b_active /\ ~b_active' /\ isolated' = isolated
    BY <2>5 DEF BInv, Inactive
  <2>. QED
    BY <2>2, <2>3, <2>4, <2>5
<1>6. Equipped' /\ Owned' /\ SetUp'
  BY <1>0, <1>2, <1>4 DEF BInv, Equipped, Owned, SetUp, Outside, Underway, Kept
<1>7. Connected'
  BY <1>2, <1>4 DEF BInv, Connected, Kept
<1>. QED
  BY <1>4, <1>5, <1>6, <1>7 DEF BInv

\* The role is polled again before the host is bound.
LEMMA RecheckKeeps ==
  ASSUME BInv, Chip!Recheck
  PROVE  BInv' /\ b_hw' \in Hardware /\ Kept(b_hw, b_hw')
<1>0. /\ b_hw \in Hardware /\ b_active /\ isolated /\ b_hw.devReset /\ ~b_hw.gate
      /\ fw = "resident" /\ b_pc = "recheck" /\ b_hw.iload = "ours" /\ b_hw.drain = "none"
  BY DEF BInv, Equipped, Owned, SetUp, Connected, Underway, Chip!Recheck
<1>1. /\ Chip!Isolated(b_hw) \in Hardware /\ Chip!Isolated(b_hw).drain = "acked"
      /\ Silent(b_hw, Chip!Isolated(b_hw))
      /\ \A g \in Chip!IsolateFailures(b_hw) : g \in Hardware /\ Kept(b_hw, g)
  BY <1>0, IsolationFacts
<1>2. UNCHANGED <<lane0, k, fw>>
  BY DEF Chip!Recheck
<1>3. CASE b_hw' = Chip!Isolated(b_hw) /\ isolated' = TRUE /\ b_active' = FALSE /\ b_pc' = "idle"
  <2>1. b_hw' \in Hardware /\ Kept(b_hw, b_hw')
    BY <1>1, <1>3 DEF Silent
  <2>2. Equipped' /\ Owned' /\ SetUp' /\ Connected'
    <3>1. b_active' \in BOOLEAN /\ isolated' \in BOOLEAN
      BY <1>3, Zenon
    <3>. QED
      BY <1>0, <1>2, <1>3, <2>1, <3>1
         DEF BInv, Equipped, Owned, SetUp, Connected, Outside, Underway, Kept
  <2>3. Inactive'
    BY <1>0, <1>1, <1>2, <1>3 DEF Inactive, Silent, Partitions
  <2>. QED
    BY <2>1, <2>2, <2>3 DEF BInv
<1>4. CASE /\ b_hw' \in Chip!IsolateFailures(b_hw) /\ b_pc' = "retire"
           /\ UNCHANGED <<b_active, isolated>>
  <2>1. b_hw' \in Hardware /\ Kept(b_hw, b_hw')
    BY <1>1, <1>4
  <2>. QED
    BY <1>0, <1>2, <1>4, <2>1
       DEF BInv, Equipped, Owned, Inactive, SetUp, Connected, Outside, Underway, Kept
<1>5. CASE b_pc' \in {"bound", "retire"} /\ UNCHANGED <<b_hw, b_active, isolated>>
  <2>1. Kept(b_hw, b_hw')
    BY <1>5 DEF Kept
  <2>. QED
    BY <1>0, <1>2, <1>5, <2>1
       DEF BInv, Equipped, Owned, Inactive, SetUp, Connected, Outside, Underway
<1>. QED
  BY <1>3, <1>4, <1>5 DEF Chip!Recheck

\* The image is published and the CPU started, or the cable's gate follows the role.
LEMMA LoadKeeps ==
  ASSUME BInv, Chip!Load \/ Chip!Gate
  PROVE  BInv' /\ b_hw' \in Hardware /\ Kept(b_hw, [b_hw' EXCEPT !.gate = b_hw.gate])
         /\ PllsKept(b_hw, b_hw') /\ b_hw'.rst = b_hw.rst
<1>0. b_hw \in Hardware
  BY DEF BInv, Equipped
<1>1. UNCHANGED <<lane0, k, b_active, fw, isolated>>
  BY DEF Chip!Load, Chip!Gate
<1>2. CASE Chip!Load
  <2>1. /\ b_pc = "activate" /\ k = 27
        /\ \/ b_pc' = "recheck" /\ b_hw' = [b_hw EXCEPT !.iload = "ours", !.cpu = TRUE]
           \/ b_pc' = "retire" /\ b_hw' = b_hw
           \/ b_pc' = "retire" /\ \E c \in BOOLEAN : b_hw' = [b_hw EXCEPT !.iload = "ours", !.cpu = c]
    <3>1. b_pc = "activate" /\ k > 26
      BY <1>2, StepNames DEF Chip!Load
    <3>2. k = 27
      BY <3>1 DEF BInv, Equipped
    <3>. QED
      BY <1>2, <3>1, <3>2, Zenon DEF Chip!Load, Chip!Cold
  <2>2. /\ b_hw' \in Hardware /\ b_hw'.devReset = b_hw.devReset /\ b_hw'.rst = b_hw.rst
        /\ b_hw'.drain = b_hw.drain /\ b_hw'.gate = b_hw.gate /\ PllsKept(b_hw, b_hw')
        /\ Kept(b_hw, [b_hw' EXCEPT !.gate = b_hw.gate])
        /\ b_pc' = "recheck" => b_hw'.iload = "ours"
    <3>1. CASE b_hw' = b_hw /\ b_pc' = "retire"
      <4>1. [b_hw EXCEPT !.gate = b_hw.gate] = b_hw
        BY <1>0 DEF Hardware
      <4>. QED
        BY <1>0, <3>1, <4>1 DEF Kept, PllsKept
    <3>2. CASE \E c \in BOOLEAN : b_hw' = [b_hw EXCEPT !.iload = "ours", !.cpu = c]
      <4>1. PICK c \in BOOLEAN : b_hw' = [b_hw EXCEPT !.iload = "ours", !.cpu = c]
        BY <3>2
      <4>2. [b_hw EXCEPT !.iload = "ours", !.cpu = c] \in Hardware
        BY <1>0 DEF Hardware
      <4>3. /\ b_hw' \in Hardware /\ b_hw'.devReset = b_hw.devReset /\ b_hw'.rst = b_hw.rst
            /\ b_hw'.drain = b_hw.drain /\ b_hw'.gate = b_hw.gate /\ b_hw'.pllu = b_hw.pllu
            /\ b_hw'.plle = b_hw.plle /\ b_hw'.p0 = b_hw.p0 /\ b_hw'.lane = b_hw.lane
            /\ b_hw'.iload = "ours"
        BY <1>0, <4>1, <4>2 DEF Hardware
      <4>4. [b_hw' EXCEPT !.gate = b_hw.gate] = b_hw'
        BY <4>3 DEF Hardware
      <4>. QED
        BY <4>3, <4>4 DEF Kept, PllsKept
    <3>3. TRUE \in BOOLEAN
      OBVIOUS
    <3>. QED
      BY <2>1, <3>1, <3>2, <3>3, Zenon
  <2>3. b_active /\ isolated /\ b_hw.drain = "none" /\ b_hw.devReset /\ ~b_hw.gate /\ fw = "resident"
    <3>1. k > 2 /\ k > 24 /\ k # 11 /\ b_pc = "activate"
      <4>1. k = 27 /\ b_pc = "activate"
        BY <2>1, Zenon
      <4>. QED
        BY <4>1
    <3>2. b_active /\ b_hw.devReset /\ ~b_hw.gate /\ fw = "resident"
      BY <3>1 DEF BInv, Equipped, Owned, Connected, Underway
    <3>. QED
      BY <3>1, <3>2 DEF BInv, SetUp
  <2>4. Equipped' /\ Owned' /\ Inactive' /\ SetUp' /\ Connected'
    BY <1>1, <2>1, <2>2, <2>3
       DEF BInv, Equipped, Owned, Inactive, SetUp, Connected, Outside, Underway
  <2>. QED
    BY <2>2, <2>4 DEF BInv
<1>3. CASE Chip!Gate
  <2>1. PICK c \in BOOLEAN : b_hw' = [b_hw EXCEPT !.gate = c]
    BY <1>3 DEF Chip!Gate
  <2>2. b_pc = "bound" /\ b_pc' = b_pc
    BY <1>3 DEF Chip!Gate
  <2>3. /\ b_hw' \in Hardware /\ b_hw'.devReset = b_hw.devReset /\ b_hw'.rst = b_hw.rst
        /\ b_hw'.drain = b_hw.drain /\ b_hw'.iload = b_hw.iload /\ PllsKept(b_hw, b_hw')
        /\ Kept(b_hw, [b_hw' EXCEPT !.gate = b_hw.gate])
    BY <1>0, <2>1 DEF Hardware, Kept, PllsKept
  <2>4. Equipped' /\ Owned' /\ Inactive' /\ SetUp' /\ Connected'
    BY <1>1, <2>2, <2>3 DEF BInv, Equipped, Owned, Inactive, SetUp, Connected, Outside, Underway
  <2>. QED
    BY <2>3, <2>4 DEF BInv
<1>. QED
  BY <1>2, <1>3

\* Nothing is touched before a boot.
LEMMA StartKeeps ==
  ASSUME BInv, Chip!Probe \/ Chip!Start \/ Chip!Boot \/ UNCHANGED Chip!vars
  PROVE  BInv' /\ b_hw' = b_hw
<1>1. CASE Chip!Probe \/ Chip!Start
  BY <1>1 DEF BInv, Equipped, Owned, Inactive, SetUp, Connected, Outside, Underway, Chip!Probe,
     Chip!Start, Chip!Owned
<1>2. CASE Chip!Boot
  <2>1. /\ b_active' = TRUE /\ b_pc = "boot" /\ b_pc' = "activate" /\ k' = 1
        /\ UNCHANGED <<b_hw, lane0, fw, isolated>>
    BY <1>2 DEF Chip!Boot
  <2>2. b_active' \in BOOLEAN /\ b_active'
    BY <2>1, Zenon
  <2>. QED
    BY <2>1, <2>2 DEF BInv, Equipped, Owned, Inactive, SetUp, Connected, Outside, Underway
<1>3. CASE UNCHANGED Chip!vars
  BY <1>3 DEF BInv, Equipped, Owned, Inactive, SetUp, Connected, Chip!vars
<1>. QED
  BY <1>1, <1>2, <1>3

\* What a step may do to the hardware.
Guarded ==
  /\ \A p \in Partitions :
       b_hw.rst[p] /\ ~b_hw'.rst[p] => b_hw.pwr[p] = "on" /\ b_hw.clk[p] /\ b_hw.src = "slow"
  /\ PllsKept(b_hw, b_hw')
  /\ ~b_hw.devReset => b_hw' = b_hw

\* A step of the activation releases a partition only after it was set up.
LEMMA OrderedGuards ==
  ASSUME BInv, b_pc = "activate", k \in 1..26, Ordered(Chip!Steps[k], b_hw, b_hw')
  PROVE  Guarded
<1>1. b_hw.devReset /\ PllsKept(b_hw, b_hw')
  BY DEF BInv, Owned, Ordered
<1>2. ASSUME NEW p \in Partitions, b_hw.rst[p], ~b_hw'.rst[p]
      PROVE  b_hw.pwr[p] = "on" /\ b_hw.clk[p] /\ b_hw.src = "slow"
  <2>1. Chip!Steps[k] = (IF p = "SS" THEN "SS.release" ELSE "HOST.release")
    BY <1>2 DEF Ordered
  <2>2. (p = "SS" /\ k = 16) \/ (p = "HOST" /\ k = 21)
    BY <2>1, StepNames DEF Partitions
  <2>. QED
    BY <2>2 DEF BInv, SetUp
<1>. QED
  BY <1>1, <1>2 DEF Guarded

LEMMA KeptGuards ==
  ASSUME b_hw.devReset, \A p \in Partitions : b_hw'.rst[p] \/ b_hw'.rst[p] = b_hw.rst[p],
         PllsKept(b_hw, b_hw')
  PROVE  Guarded
BY DEF Guarded

\* Every step keeps the invariant and does to the hardware only what it may.
LEMMA ChipNext ==
  ASSUME BInv, [Chip!Next]_(Chip!vars)
  PROVE  BInv' /\ Guarded
<1>1. CASE Chip!ActivateStep \/ Chip!ActivateFails
  <2>1. b_pc = "activate"
    BY <1>1 DEF Chip!ActivateStep, Chip!ActivateFails
  <2>2. BInv' /\ Ordered(Chip!Steps[k], b_hw, b_hw') /\ k \in 1..26
    BY <1>1, ActivateKeeps, FailsKeeps
  <2>. QED
    BY <2>1, <2>2, OrderedGuards
<1>2. CASE Chip!Rollback \/ Chip!Retire \/ Chip!DropFalcon \/ Chip!Recheck
  <2>1. BInv' /\ Kept(b_hw, b_hw')
    BY <1>2, IsolatingKeeps, RecheckKeeps
  <2>2. b_hw.devReset
    BY <1>2 DEF BInv, Owned, Chip!Rollback, Chip!Retire, Chip!DropFalcon, Chip!Recheck
  <2>3. PllsKept(b_hw, b_hw')
    BY <2>1 DEF Kept, PllsKept
  <2>. QED
    BY <2>1, <2>2, <2>3, KeptGuards DEF Kept
<1>3. CASE Chip!Load \/ Chip!Gate
  <2>1. BInv' /\ PllsKept(b_hw, b_hw') /\ b_hw'.rst = b_hw.rst
    BY <1>3, LoadKeeps
  <2>2. b_hw.devReset
    BY <1>3 DEF BInv, Owned, Chip!Load, Chip!Gate
  <2>. QED
    BY <2>1, <2>2, KeptGuards
<1>4. CASE Chip!Probe \/ Chip!Start \/ Chip!Boot \/ UNCHANGED Chip!vars
  <2>1. BInv' /\ b_hw' = b_hw
    BY <1>4, StartKeeps
  <2>. QED
    BY <2>1 DEF Guarded, PllsKept
<1>. QED
  BY <1>1, <1>2, <1>3, <1>4 DEF Chip!Next, Chip!Driver

\* The other parts of the run leave the controller alone.
LEMMA ChipPart == UsbSpec => Chip!Init /\ [][Chip!Next]_(Chip!vars)
<1>1. UsbInit => Chip!Init
  BY DEF UsbInit
<1>2. [UsbNext]_all => [Chip!Next]_(Chip!vars)
  <2>1. CASE ChipOnly /\ Chip!Next
    BY <2>1
  <2>2. CASE UNCHANGED chip
    BY <2>2 DEF chip, Chip!vars
  <2>. QED
    BY <2>1, <2>2 DEF UsbNext, all, HostOnly, BoxOnly, ChipOnly, SingleOnly
<1>. QED
  BY <1>1, <1>2, PTL DEF UsbSpec

\* Whichever handshake fails and however often the host is started: firmware
\* pages are freed only under an isolated Falcon, the host is bound only over our
\* own image, a lane returns to its owner, the cable stays closed until then, a
\* partition leaves reset powered and at the slow clock, and neither a running
\* PLL nor another owner's controller is touched (xusb.rs, falcon.rs).
THEOREM BootIsSafe == UsbSpec => BootSafe
<1>1. Chip!Init => BInv
  BY ChipInit
<1>2. BInv /\ [Chip!Next]_(Chip!vars) => BInv' /\ Guarded
  BY ChipNext
<1>3. BInv => (part = "boot" => /\ Chip!FreedOnlyIsolated
                                /\ Chip!ReplacesInherited
                                /\ Chip!LaneRestored
                                /\ Chip!ClosedUntilBound
                                /\ Chip!FailureIsolates)
  <2>. SUFFICES ASSUME BInv
                PROVE  /\ Chip!FreedOnlyIsolated /\ Chip!ReplacesInherited /\ Chip!LaneRestored
                       /\ Chip!ClosedUntilBound /\ Chip!FailureIsolates
    OBVIOUS
  <2>1. Chip!FreedOnlyIsolated /\ Chip!ReplacesInherited /\ Chip!FailureIsolates
    BY DEF BInv, Inactive, SetUp, Chip!FreedOnlyIsolated, Chip!ReplacesInherited,
       Chip!FailureIsolates
  <2>2. Chip!LaneRestored
    <3>1. b_pc = "rollback" /\ Chip!Steps[k] = "uphy" => k = 9
      BY StepNames DEF BInv, Equipped
    <3>. QED
      BY <3>1 DEF BInv, Connected, Chip!LaneRestored
  <2>3. Chip!ClosedUntilBound
    BY StepNames DEF BInv, Connected, Chip!ClosedUntilBound
  <2>. QED
    BY <2>1, <2>2, <2>3
<1>4. Guarded => [\A p \in {"SS", "HOST"} : b_hw.rst[p] /\ ~b_hw'.rst[p] =>
                    b_hw.pwr[p] = "on" /\ b_hw.clk[p] /\ b_hw.src = "slow"]_(Chip!vars)
  BY DEF Guarded, Partitions
<1>5. Guarded => [/\ b_hw.pllu # "off" => b_hw'.pllu = b_hw.pllu
                  /\ b_hw.p0 \in {"on", "seq"} => b_hw'.p0 \in {b_hw.p0, "seq"}
                  /\ b_hw.p0 = "bad" => b_hw'.p0 = "bad"
                  /\ b_hw.plle # "seq" /\ b_hw'.plle = "seq" => b_hw'.p0 = "seq"]_(Chip!vars)
  BY DEF Guarded, PllsKept
<1>6. Guarded => [~b_hw.devReset => b_hw' = b_hw]_(Chip!vars)
  BY DEF Guarded
<1>. QED
  BY <1>1, <1>2, <1>3, <1>4, <1>5, <1>6, ChipPart, PTL
     DEF BootSafe, Chip!PowerOrder, Chip!RunningPllsKept, Chip!OtherOwnerUntouched
==============================================================================
