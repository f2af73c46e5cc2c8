------------------------------- MODULE Nvdec -------------------------------
(***************************************************************************)
(* The NVDEC video decoder: one session, one picture in flight, polled by  *)
(* its client (tegra210-nvdec runtime.rs, lifecycle.rs, h264.rs,           *)
(* engine.rs, submission.rs; soc nvdec.rs).  Every entry point runs under  *)
(* the State spin lock and is one action; between them the engine writes   *)
(* pictures by DMA, consumers drop the images they leased, and time        *)
(* passes.  Isolating the engine may fail at any call.                     *)
(*                                                                         *)
(* An image is a DMA surface (Arc<Dma>): it is referenced by the session   *)
(* (a picture slot or the spare pool) and by at most one published lease.  *)
(***************************************************************************)
EXTENDS Naturals, FiniteSets

CONSTANTS Images,      \* the surfaces memory can hold
          Refs,        \* DPB entries (16 in the code); Refs+1 picture slots
          MaxSurfaces, \* the bound on a session's surfaces (40 in the code)
          Stamps,      \* the timestamps a client uses
          Geometries,  \* the picture geometries a client uses
          MaxId        \* bound: session ids handed out

VARIABLES life,     \* Lifecycle: owner, retiring, nextId, recovery, error
          active,   \* Engine.active
          hw,       \* the engine: run, and the picture it writes
          session,  \* Session: id, geometry, frames, spare
          pending,  \* the picture in flight
          leased,   \* images a consumer still holds (NativeImage alive)
          holds     \* what each image's pages hold: a timestamp

vars == <<life, active, hw, session, pending, leased, holds>>

Nobody == 0                     \* no session id
NoStamp == 0
Slots == 0..Refs
NoSession == [id |-> Nobody, geometry |-> "none", frames |-> [s \in {} |-> 0], spare |-> {}]
NoPicture == [slot |-> Refs + 1]
Idle == [run |-> "idle"]
Off == [run |-> "off"]

\* One picture slot in use: its timestamp, DPB index (Refs: none yet), image.
Frame == [stamp: Stamps, dpb: 0..Refs, image: Images]

TypeOK ==
  /\ life \in [owner: 0..MaxId, retiring: 0..MaxId, nextId: 1..MaxId + 1,
               recovery: BOOLEAN, error: BOOLEAN]
  /\ active \in BOOLEAN
  /\ hw.run \in {"off", "idle", "busy", "good", "bad"}
  /\ session.id \in 0..MaxId
  /\ DOMAIN session.frames \subseteq Slots
  /\ \A s \in DOMAIN session.frames: session.frames[s] \in Frame
  /\ session.spare \subseteq Images
  /\ leased \subseteq Images
  /\ holds \in [Images -> Stamps \cup {NoStamp}]

InFrames(s) == {s.frames[k].image: k \in DOMAIN s.frames}
Held(s) == InFrames(s) \cup s.spare

\* Probe created and booted the engine, and registered the backend.
Init ==
  /\ life = [owner |-> Nobody, retiring |-> Nobody, nextId |-> 1,
             recovery |-> FALSE, error |-> FALSE]
  /\ active = TRUE /\ hw = Idle
  /\ session = NoSession /\ pending = NoPicture
  /\ leased = {} /\ holds = [i \in Images |-> NoStamp]

---------------------------------------------------------------------------
(* The engine                                                              *)

\* Engine::isolate: nothing to do when inactive; otherwise reset and drain,
\* which either proves that no memory traffic is left or fails.
Isolate(ok) ==
  IF active /\ ok THEN active' = FALSE /\ hw' = Off
                  ELSE UNCHANGED <<active, hw>>

\* The retire and recover closures free the backing only after isolation.
Retire(ok) ==
  /\ Isolate(ok)
  /\ IF ok THEN session' = NoSession /\ pending' = NoPicture
           ELSE UNCHANGED <<session, pending>>

\* EXECUTE runs: the picture is written, then OP_DONE moves the counter to
\* the reserved threshold.  Status words say whether the picture is whole.
HwDecode ==
  /\ hw.run = "busy"
  /\ \E r \in {"good", "bad"}: hw' = [hw EXCEPT !.run = r]
  /\ holds' = [holds EXCEPT ![hw.image] = hw.stamp]
  /\ UNCHANGED <<life, active, session, pending, leased>>

---------------------------------------------------------------------------
(* Ownership                                                               *)

\* create_session: recover = isolate, release the old backing, boot.  A
\* failed isolation or boot leaves the engine unavailable until the next try.
Open(isolated, booted) ==
  /\ life.owner = Nobody /\ life.nextId <= MaxId
  /\ IF ~life.recovery
     THEN isolated /\ booted /\ UNCHANGED <<active, hw, session, pending>>
     ELSE IF active /\ ~isolated
     THEN ~booted /\ UNCHANGED <<active, hw, session, pending>>
     ELSE /\ session' = NoSession /\ pending' = NoPicture
          /\ active' = TRUE
          /\ hw' = IF booted THEN Idle ELSE Off
  /\ life' = IF booted
             THEN [life EXCEPT !.owner = life.nextId, !.nextId = @ + 1, !.retiring = Nobody,
                               !.recovery = FALSE, !.error = FALSE]
             ELSE [life EXCEPT !.recovery = TRUE, !.error = TRUE]
  /\ UNCHANGED <<leased, holds>>

\* destroy_session: ownership ends even when the engine cannot be retired; the
\* same id may retry until the next open.
MayClose(id) == \/ life.owner = id
                \/ life.owner = Nobody /\ life.retiring = id
Close(id, ok) ==
  /\ MayClose(id)
  /\ life' = [life EXCEPT !.owner = Nobody, !.retiring = id,
                          !.recovery = TRUE, !.error = TRUE]
  /\ Retire(ok)
  /\ UNCHANGED <<leased, holds>>

---------------------------------------------------------------------------
(* Submission                                                              *)

Stamped(frames, ts) == {k \in DOMAIN frames: frames[k].stamp = ts}

\* Pictures that are no longer references leave their slots for the spare pool.
RetireFrames(s, refs) ==
  LET keep == {k \in DOMAIN s.frames: s.frames[k].stamp \in refs}
  IN  [s EXCEPT !.frames = [k \in keep |-> s.frames[k]],
                !.spare = @ \cup {s.frames[k].image: k \in DOMAIN s.frames \ keep}]

Least(S) == CHOOSE x \in S: \A y \in S: x <= y

\* Every remaining picture without a DPB index gets the lowest free one.  At
\* most one lacks it: the picture decoded last.
AssignDpb(s) ==
  LET used == {s.frames[k].dpb: k \in DOMAIN s.frames} \ {Refs}
      free == Least((0..Refs) \ used)
  IN  [s EXCEPT !.frames = [k \in DOMAIN s.frames |->
         IF s.frames[k].dpb = Refs THEN [s.frames[k] EXCEPT !.dpb = free] ELSE s.frames[k]]]

\* Arc::strong_count(image) == 1: only the pool refers to it.
Reusable(s) == s.spare \ leased
\* The pages Dma::new returns: some that nothing refers to, if there are any.
Allocatable(s) == LET free == Images \ (Held(s) \cup leased)
                  IN  IF free = {} THEN {} ELSE {CHOOSE i \in free: TRUE}
Surfaces(s) == Cardinality(s.spare) + Cardinality(DOMAIN s.frames)

\* The image of the new picture: a reusable spare, else a new surface within
\* the bound, else none.
Choice(s) == IF Reusable(s) # {} THEN Reusable(s)
             ELSE IF Surfaces(s) >= MaxSurfaces THEN {} ELSE Allocatable(s)

\* The session a submission works on: a new geometry needs an IDR picture and
\* replaces the session.  Refuses what the code refuses before any change.
Admitted(id, ts, g, idr, refs) ==
  /\ id = life.owner /\ id # Nobody
  /\ pending = NoPicture /\ ~life.error
  /\ session.id = Nobody \/ session.geometry # g => idr
  /\ Cardinality(refs) <= Refs /\ ts \notin refs
Target(id, g) == IF session.id # Nobody /\ session.geometry = g THEN session
                 ELSE [NoSession EXCEPT !.id = id, !.geometry = g]

\* The DPB entries of the picture setup and the slot addresses: for each
\* reference its surface and its DPB index.
References(s, refs) ==
  {[stamp |-> s.frames[k].stamp, image |-> s.frames[k].image, dpb |-> s.frames[k].dpb]:
    k \in {j \in DOMAIN s.frames: s.frames[j].stamp \in refs}}

\* submit_h264_stateless and Session::submit.
Submit(id, ts, g, idr, refs) ==
  /\ Admitted(id, ts, g, idr, refs)
  /\ LET s == Target(id, g)
         kept == AssignDpb(RetireFrames(s, refs))
         slot == Least(Slots \ DOMAIN kept.frames)
     IN  IF \E r \in refs: Stamped(s.frames, r) = {}
         THEN session' = s /\ UNCHANGED <<pending, hw>>
         ELSE IF Choice(kept) = {}
         THEN session' = kept /\ UNCHANGED <<pending, hw>>
         ELSE \E image \in Choice(kept):
              /\ session' = [kept EXCEPT
                   !.spare = @ \ {image},
                   !.frames = [k \in DOMAIN kept.frames \cup {slot} |->
                     IF k = slot THEN [stamp |-> ts, dpb |-> Refs, image |-> image]
                                 ELSE kept.frames[k]]]
              /\ hw' = [run |-> "busy", image |-> image, stamp |-> ts,
                        refs |-> References(kept, refs)]
              /\ \E shared \in BOOLEAN:
                   pending' = [slot |-> slot, shared |-> shared, late |-> FALSE]
  /\ UNCHANGED <<life, active, leased, holds>>

---------------------------------------------------------------------------
(* Completion                                                              *)

\* One second passes since the submission.
Second ==
  /\ pending # NoPicture /\ ~pending.late
  /\ pending' = [pending EXCEPT !.late = TRUE]
  /\ UNCHANGED <<life, active, hw, session, leased, holds>>

\* State::fail: the error is recorded; the backing goes only if the engine
\* could be isolated.
Fail(ok) ==
  /\ life' = [life EXCEPT !.recovery = TRUE, !.error = TRUE]
  /\ Retire(ok)
  /\ UNCHANGED leased

\* The status words and the syncpoint counter say that the picture is done.
CompletedMut == hw.run \in {"busy", "good", "bad"}
Completed == hw.run \in {"good", "bad"}

\* finish: publish the slot's image, or copy it out (shared_output unset).
Publish ==
  /\ hw' = Idle
  /\ leased' = IF pending.shared THEN leased \cup {session.frames[pending.slot].image}
                                 ELSE leased
  /\ pending' = NoPicture
  /\ UNCHANGED <<life, active, session>>

\* dequeue_frame, past its checks: wait, time out, publish or fail.
TimesOut == pending.late
Dequeue(id, ok) ==
  /\ id = life.owner /\ id # Nobody /\ ~life.error
  /\ pending # NoPicture
  /\ IF ~Completed THEN TimesOut /\ Fail(ok)
     ELSE IF hw.run = "bad" THEN Fail(ok)
     ELSE ok /\ Publish
  /\ UNCHANGED holds

\* A consumer drops the last capability of an image.
DropLease(i) ==
  /\ i \in leased
  /\ leased' = leased \ {i}
  /\ UNCHANGED <<life, active, hw, session, pending, holds>>

Ids == 1..MaxId
Next ==
  \/ HwDecode \/ Second
  \/ \E isolated, booted \in BOOLEAN: Open(isolated, booted)
  \/ \E id \in Ids, ok \in BOOLEAN: Close(id, ok) \/ Dequeue(id, ok)
  \/ \E id \in Ids, ts \in Stamps, g \in Geometries, idr \in BOOLEAN, refs \in SUBSET Stamps:
       Submit(id, ts, g, idr, refs)
  \/ \E i \in Images: DropLease(i)

\* Time passes, and a client that owns a session polls it.
Fairness == /\ WF_vars(Second)
            /\ WF_vars(\E id \in Ids, ok \in BOOLEAN: Dequeue(id, ok))
Spec == Init /\ [][Next]_vars /\ Fairness

---------------------------------------------------------------------------
(* Properties                                                              *)

\* What the engine may still read or write.
Engaged == IF hw.run = "busy" THEN {hw.image} \cup {r.image: r \in hw.refs} ELSE {}

\* Pages an engine that was not proved isolated may still touch belong to the
\* session and stay allocated: a failed isolation never frees them (State::fail,
\* the recover and retire closures).
DmaBacked == Engaged \subseteq InFrames(session)

\* No consumer ever holds an image the engine writes, and no picture slot, nor
\* the spare pool, shares its surface (the Arc uniqueness test of submit).
WriterIsAlone ==
  hw.run = "busy" =>
    /\ hw.image \notin leased \cup session.spare
    /\ \A r \in hw.refs: r.image # hw.image

\* A published image never changes under its consumer.
LeaseIsImmutable == [][\A i \in leased \cap leased': holds'[i] = holds[i]]_vars

\* A picture is decoded against whole references: each reference surface still
\* holds the picture of the timestamp the client named.
ReferencesIntact == hw.run = "busy" => \A r \in hw.refs: holds[r.image] = r.stamp

\* The references of one picture have different DPB indices, all of them real
\* entries: the exhaustion errors of submit cannot occur.
DpbDistinct ==
  hw.run = "busy" =>
    /\ \A r \in hw.refs: r.dpb < Refs
    /\ \A r, q \in hw.refs: r.dpb = q.dpb => r = q

\* A session, a pending picture and a running engine always belong to the
\* owner: whatever failed before, the next owner starts from a booted engine
\* and none of its predecessor's pictures.
OwnerStartsFresh ==
  life.owner # Nobody /\ ~life.error =>
    /\ active /\ hw.run # "off"
    /\ session.id \in {Nobody, life.owner}
    /\ hw.run # "idle" <=> pending # NoPicture

\* A picture in flight is always answered: with an image, or with an error
\* after which the client must reopen (the one second frame timeout).
PictureAnswered ==
  (pending # NoPicture /\ ~life.error) ~> (pending = NoPicture \/ life.error)
=============================================================================
