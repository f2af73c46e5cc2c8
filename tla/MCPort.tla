------------------------------- MODULE MCPort -------------------------------
(***************************************************************************)
(* The timers of the Type-C port, checked in one run: the waits of the PD  *)
(* data-role handoff, and the passes that publish and withdraw boost. A    *)
(* behaviour runs one of the two policies, its part; the other stays in    *)
(* one of its initial states.                                              *)
(***************************************************************************)
VARIABLES
  part, cable, port, alert, objs, cmd, noise, pd, at, job, hand, flag, retry,
  errors, session, served, s_cable, s_port, s_alert, s_noise, mode, rail,
  init, due, src, settle, pass, s_at, s_hand, view, prior, was, since, host,
  s_retry, failed, s_errors, culprit, faulty, viewed, inherited

handoff == <<cable, port, alert, objs, cmd, noise, pd, at, job, hand, flag,
             retry, errors, session, served>>
source == <<s_cable, s_port, s_alert, s_noise, mode, rail, init, due, src,
            settle, pass, s_at, s_hand, view, prior, was, since, host,
            s_retry, failed, s_errors, culprit, faulty, viewed, inherited>>

Pd == INSTANCE PdPolicy
  WITH Sides <- {"Cc1", "Cc2"}, MaxCables <- 1, MaxNoise <- 0, MaxErrors <- 1
Source == INSTANCE SourcePolicy
  WITH Sides <- {"Cc1", "Cc2"}, MaxCables <- 1, MaxNoise <- 0, MaxErrors <- 2,
       Settle <- 1, cable <- s_cable, port <- s_port, alert <- s_alert,
       noise <- s_noise, at <- s_at, hand <- s_hand, retry <- s_retry,
       errors <- s_errors

PortInit ==
  /\ part \in {"pd", "source"}
  /\ Pd!Init /\ (part # "pd" => ~port.attached /\ port.side = "Cc1" /\ alert = {})
  /\ Source!Init /\ (part # "source" => s_port.side = "Cc1" /\ inherited = "off")

\* The part that runs leaves the others alone.
PdOnly == part = "pd" /\ UNCHANGED <<part, source>>
SourceOnly == part = "source" /\ UNCHANGED <<part, handoff>>

PortNext ==
  \/ PdOnly /\ Pd!Next
  \/ SourceOnly /\ Source!Next

all == <<part, handoff, source>>

\* The fairness of the part that runs.  A behaviour has one part, so fairness of
\* a disjunction over the parts is the fairness each part asks for.
PortSpec ==
  /\ PortInit /\ [][PortNext]_all
  /\ WF_all(\/ PdOnly /\ Pd!Wake /\ Pd!Drain
            \/ SourceOnly /\ Source!Wake /\ Source!Drain)
  /\ WF_all(\/ PdOnly /\ Pd!Step
            \/ SourceOnly /\ Source!Step)
  /\ WF_all(\/ PdOnly /\ Pd!Tick
            \/ SourceOnly /\ Source!Tick)

----------------------------------------------------------------------------
(* What the parts promise, by the names their modules give it.              *)

\* Under fairness: every wait and revalidation of the PD handoff ends and a
\* stable sink partner is served; an empty connector loses boost and a source-
\* mode partner that stays is reported.
PortServed ==
  /\ part = "pd" => Pd!WaitsEnd /\ Pd!RevalidationEnds /\ Pd!SinkServed
  /\ part = "source" => Source!BoostWithdrawn /\ Source!SourceServed
=============================================================================
