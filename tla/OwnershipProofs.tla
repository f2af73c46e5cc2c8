-------------------------- MODULE OwnershipProofs --------------------------
(***************************************************************************)
(* Proofs about what is owned and lent, for every value of the constants:  *)
(* who may read and write a decoder's surface, what the GPU reaches, that  *)
(* the message rings lose and repeat nothing, what the dispatcher's signals*)
(* promise, and the image cache its jobs use.                              *)
(***************************************************************************)
EXTENDS MCOwnership, Integers, SequencesExt, FiniteSetTheorems, SequenceTheorems,
        WellFoundedInduction, TLAPS

----------------------------------------------------------------------------
(* The video decoder. *)

\* A timestamp is a 64-bit number.
Bounds == Refs \in Nat /\ MaxSurfaces \in Nat /\ MaxId \in Nat /\ IsFiniteSet(Stamps)

Reference == [stamp : Stamps, image : Images, dpb : Nat]
Lives == [owner : Nat, retiring : Nat, nextId : Nat \ {0}, recovery : BOOLEAN,
          error : BOOLEAN]
Engines == [run : {"off", "idle"}]
           \cup [run : {"busy", "good", "bad"}, image : Images, stamp : Stamps,
                 refs : SUBSET Reference]
Pictures == [slot : Video!Slots, shared : BOOLEAN, late : BOOLEAN]

\* The shape of the state.
Shaped ==
  /\ life \in Lives
  /\ v_active \in BOOLEAN
  /\ hw \in Engines
  /\ v_pending \in Pictures \cup {Video!NoPicture}
  /\ leased \subseteq Images
  /\ holds \in [Images -> Stamps \cup {Video!NoStamp}]

Sessions == [id : Nat, geometry : Geometries \cup {"none"},
             frames : UNION {[D -> Video!Frame] : D \in SUBSET Video!Slots}, spare : SUBSET Images]

\* A session's picture slots differ in timestamp, image and DPB index, and the
\* pool has none of their images.
Sound(s) ==
  /\ s \in Sessions
  /\ \A k, l \in DOMAIN s.frames : k # l =>
       /\ s.frames[k].stamp # s.frames[l].stamp
       /\ s.frames[k].image # s.frames[l].image
       /\ s.frames[k].dpb # s.frames[l].dpb
  /\ \A k \in DOMAIN s.frames : s.frames[k].image \notin s.spare

\* The engine works on the picture in flight, with references from the other
\* slots; nobody else has the picture's image.
Running == hw.run \in {"busy", "good", "bad"}
Flying ==
  /\ Running <=> v_pending # Video!NoPicture
  /\ Running =>
       /\ v_active
       /\ v_pending.slot \in DOMAIN session.frames
       /\ session.frames[v_pending.slot] = [stamp |-> hw.stamp, dpb |-> Refs, image |-> hw.image]
       /\ hw.image \notin leased
       /\ \A r \in hw.refs : \E k \in DOMAIN session.frames :
            /\ k # v_pending.slot
            /\ r.stamp = session.frames[k].stamp /\ r.image = session.frames[k].image
            /\ r.dpb = session.frames[k].dpb

\* Every spot's image holds its picture, but for the one being written.
Whole ==
  \A k \in DOMAIN session.frames :
    \/ hw.run = "busy" /\ k = v_pending.slot
    \/ holds[session.frames[k].image] = session.frames[k].stamp

\* An owner without an error has a booted engine and its own session; a free
\* engine that needs no recovery is as after probe.
Owned ==
  /\ life.owner # Video!Nobody /\ ~life.error =>
       v_active /\ hw.run # "off" /\ session.id \in {Video!Nobody, life.owner}
  /\ life.owner = Video!Nobody /\ ~life.recovery =>
       v_active /\ hw = Video!Idle /\ session = Video!NoSession /\ v_pending = Video!NoPicture

NInv == Shaped /\ Sound(session) /\ Flying /\ Whole /\ Owned

-----------------------------------------------------------------------------
(* Lemmas about the operators. *)

\* A nonempty set of naturals has a least element.
LEMMA LeastIs ==
  ASSUME NEW T, T \subseteq Nat, T # {}
  PROVE  Video!Least(T) \in T /\ \A y \in T : Video!Least(T) <= y
<1>. DEFINE F == {0..i : i \in T}
<1>1. F \subseteq FiniteSubsetsOf(Nat) /\ F # {}
  <2>1. \A i \in T : 0..i \subseteq Nat /\ IsFiniteSet(0..i)
    BY FS_Interval
  <2>. QED
    BY <2>1 DEF FiniteSubsetsOf
<1>2. PICK S \in F : \A Q \in F : ~ (<<Q, S>> \in StrictSubsetOrdering(Nat))
  BY <1>1, FS_StrictSubsetOrderingWellFounded, WFMin
<1>3. PICK x \in T : S = 0..x
  OBVIOUS
<1>4. ASSUME NEW y \in T, y < x
      PROVE  FALSE
  <2>1. x \in Nat /\ y \in Nat
    OBVIOUS
  <2>2. 0..y \subseteq 0..x /\ 0..y # 0..x
    <3>1. x \in 0..x /\ x \notin 0..y
      BY <1>4, <2>1
    <3>. QED
      BY <1>4, <2>1, <3>1
  <2>3. <<0..y, 0..x>> \in StrictSubsetOrdering(Nat)
    BY <2>1, <2>2 DEF StrictSubsetOrdering
  <2>. QED
    BY <1>2, <1>3, <2>3
<1>5. \E z \in T : \A y \in T : z <= y
  BY <1>4
<1>. QED
  BY <1>5 DEF Video!Least

\* More distinct timestamps than references do not fit among the references.
LEMMA StampsFit ==
  ASSUME Bounds, NEW refs \in SUBSET Stamps, Cardinality(refs) <= Refs, NEW f \in [0..Refs -> refs]
  PROVE  \E n, m \in 0..Refs : n # m /\ f[n] = f[m]
<1>1. IsFiniteSet(refs) /\ Cardinality(refs) \in Nat
  BY FS_Subset, FS_CardinalityType DEF Bounds
<1>2. IsFiniteSet(0..Refs) /\ Cardinality(0..Refs) = Refs + 1
  BY FS_Interval DEF Bounds
<1>3. Cardinality(refs) < Cardinality(0..Refs)
  BY <1>1, <1>2 DEF Bounds
<1>. QED
  BY <1>1, <1>2, <1>3, FS_PigeonHole

\* retire_frames() keeps the pictures that are still references.
LEMMA Retired ==
  ASSUME Bounds, NEW s, Sound(s), NEW refs \in SUBSET Stamps
  PROVE  /\ Sound(Video!RetireFrames(s, refs))
         /\ Video!RetireFrames(s, refs).id = s.id
         /\ \A k \in DOMAIN Video!RetireFrames(s, refs).frames :
              /\ k \in DOMAIN s.frames /\ s.frames[k].stamp \in refs
              /\ Video!RetireFrames(s, refs).frames[k] = s.frames[k]
<1>. DEFINE keep == {k \in DOMAIN s.frames : s.frames[k].stamp \in refs}
            g == [k \in keep |-> s.frames[k]]
            x == {s.frames[k].image : k \in DOMAIN s.frames \ keep}
<1>1. Video!RetireFrames(s, refs) = [s EXCEPT !.frames = g, !.spare = @ \cup x]
  BY DEF Video!RetireFrames
<1>2. /\ s \in Sessions /\ DOMAIN s.frames \subseteq Video!Slots
      /\ \A k \in DOMAIN s.frames : s.frames[k] \in Video!Frame
  BY DEF Sound, Sessions
<1>3. g \in UNION {[D -> Video!Frame] : D \in SUBSET Video!Slots}
  <2>1. keep \in SUBSET Video!Slots /\ g \in [keep -> Video!Frame]
    BY <1>2
  <2>. QED
    BY <2>1
<1>4. x \subseteq Images
  BY <1>2 DEF Video!Frame
<1>5. \A k \in keep : g[k] = s.frames[k] /\ g[k].image \notin s.spare \cup x
  BY <1>2 DEF Sound
<1>6. \A k, l \in keep : k # l =>
         g[k].stamp # g[l].stamp /\ g[k].image # g[l].image /\ g[k].dpb # g[l].dpb
  BY DEF Sound
<1>7. DOMAIN g = keep /\ \A k \in keep : k \in DOMAIN s.frames /\ s.frames[k].stamp \in refs
  OBVIOUS
<1>. HIDE DEF keep, g, x
<1>8. /\ Video!RetireFrames(s, refs) \in Sessions /\ Video!RetireFrames(s, refs).id = s.id
      /\ Video!RetireFrames(s, refs).frames = g /\ Video!RetireFrames(s, refs).spare = s.spare \cup x
  BY <1>1, <1>2, <1>3, <1>4 DEF Sessions
<1>9. Sound(Video!RetireFrames(s, refs))
  BY <1>5, <1>6, <1>7, <1>8 DEF Sound
<1>. QED
  BY <1>5, <1>7, <1>8, <1>9

\* With a spot that has no DPB index yet, an entry below Refs is free.
LEMMA EntryFree ==
  ASSUME Bounds, NEW s, Sound(s), NEW refs \in SUBSET Stamps, Cardinality(refs) <= Refs,
         \A k \in DOMAIN s.frames : s.frames[k].stamp \in refs,
         NEW l \in DOMAIN s.frames, s.frames[l].dpb = Refs
  PROVE  LET used == {s.frames[k].dpb : k \in DOMAIN s.frames} \ {Refs}
             free == Video!Least((0..Refs) \ used)
         IN  free \in Nat /\ free < Refs /\ free \notin used
<1>. DEFINE dpbs == {s.frames[k].dpb : k \in DOMAIN s.frames}
            used == dpbs \ {Refs}
            free == Video!Least((0..Refs) \ used)
            At(n) == CHOOSE k \in DOMAIN s.frames : s.frames[k].dpb = n
<1>1. \E n \in 0..Refs : n # Refs /\ n \notin used
  <2>1. SUFFICES ASSUME \A n \in 0..Refs : n \in dpbs
                 PROVE  FALSE
    <3>1. Refs \in dpbs
      OBVIOUS
    <3>. QED
      BY <3>1
  <2>2. \A n \in 0..Refs : At(n) \in DOMAIN s.frames /\ s.frames[At(n)].dpb = n
    BY <2>1
  <2>. DEFINE f == [n \in 0..Refs |-> s.frames[At(n)].stamp]
  <2>3. f \in [0..Refs -> refs]
    BY <2>2
  <2>4. PICK n \in 0..Refs, m \in 0..Refs : n # m /\ f[n] = f[m]
    <3>. HIDE DEF f
    <3>. QED
      BY <2>3, StampsFit
  <2>5. s.frames[At(n)].stamp = s.frames[At(m)].stamp
    BY <2>4
  <2>6. At(n) = At(m)
    <3>. HIDE DEF At
    <3>. QED
      BY <2>2, <2>5 DEF Sound
  <2>7. n = m
    <3>. HIDE DEF At
    <3>. QED
      BY <2>2, <2>6
  <2>. QED
    BY <2>4, <2>7
<1>2. (0..Refs) \ used \subseteq Nat /\ (0..Refs) \ used # {}
  BY <1>1 DEF Bounds
<1>3. free \in (0..Refs) \ used /\ \A y \in (0..Refs) \ used : free <= y
  <2>. HIDE DEF used
  <2>. QED
    BY <1>2, LeastIs
<1>4. free < Refs
  <2>. HIDE DEF used, free
  <2>. QED
    BY <1>1, <1>3 DEF Bounds
<1>. HIDE DEF free, dpbs
<1>5. free \in Nat /\ free < Refs /\ free \notin used
  BY <1>3, <1>4
<1>. QED
  BY <1>5 DEF free, dpbs

\* After assign_dpb() every spot has an entry of its own.
LEMMA Assigned ==
  ASSUME Bounds, NEW s, Sound(s), NEW refs \in SUBSET Stamps, Cardinality(refs) <= Refs,
         \A k \in DOMAIN s.frames : s.frames[k].stamp \in refs
  PROVE  /\ Sound(Video!AssignDpb(s))
         /\ Video!AssignDpb(s).id = s.id
         /\ DOMAIN Video!AssignDpb(s).frames = DOMAIN s.frames
         /\ \A k \in DOMAIN s.frames :
              /\ Video!AssignDpb(s).frames[k].stamp = s.frames[k].stamp
              /\ Video!AssignDpb(s).frames[k].image = s.frames[k].image
              /\ Video!AssignDpb(s).frames[k].dpb # Refs
<1>. DEFINE used == {s.frames[k].dpb : k \in DOMAIN s.frames} \ {Refs}
            free == Video!Least((0..Refs) \ used)
            g == [k \in DOMAIN s.frames |->
                    IF s.frames[k].dpb = Refs THEN [s.frames[k] EXCEPT !.dpb = free]
                                              ELSE s.frames[k]]
<1>1. Video!AssignDpb(s) = [s EXCEPT !.frames = g]
  BY DEF Video!AssignDpb
<1>2. \A l \in DOMAIN s.frames : s.frames[l].dpb = Refs =>
         free \in Nat /\ free < Refs /\ free \notin used
  BY EntryFree
<1>3. \A k \in DOMAIN s.frames : s.frames[k].dpb # Refs => s.frames[k].dpb \in used
  OBVIOUS
<1>4. DOMAIN g = DOMAIN s.frames /\ \A k \in DOMAIN s.frames :
         g[k] = IF s.frames[k].dpb = Refs THEN [s.frames[k] EXCEPT !.dpb = free]
                                          ELSE s.frames[k]
  OBVIOUS
<1>. HIDE DEF free, g, used
<1>5. \A k \in DOMAIN s.frames :
        /\ s.frames[k] \in Video!Frame
        /\ g[k].stamp = s.frames[k].stamp /\ g[k].image = s.frames[k].image
        /\ g[k].dpb = IF s.frames[k].dpb = Refs THEN free ELSE s.frames[k].dpb
  BY <1>4 DEF Sound, Sessions, Video!Frame
<1>6. \A k \in DOMAIN s.frames : g[k].dpb \in 0..Refs /\ g[k].dpb # Refs
  BY <1>2, <1>5 DEF Bounds, Video!Frame
<1>7. \A k \in DOMAIN s.frames : g[k] \in Video!Frame
  BY <1>4, <1>5, <1>6 DEF Video!Frame
<1>8. g \in UNION {[D -> Video!Frame] : D \in SUBSET Video!Slots}
  <2>1. g = [k \in DOMAIN s.frames |-> g[k]]
    BY DEF g
  <2>2. DOMAIN s.frames \in SUBSET Video!Slots
    BY DEF Sound, Sessions
  <2>. QED
    BY <1>7, <2>1, <2>2
<1>9. \A k, l \in DOMAIN s.frames : k # l => g[k].dpb # g[l].dpb
  BY <1>2, <1>3, <1>5 DEF Sound
<1>10. \A k, l \in DOMAIN s.frames : k # l =>
         g[k].stamp # g[l].stamp /\ g[k].image # g[l].image
  BY <1>5 DEF Sound
<1>11. \A k \in DOMAIN s.frames : g[k].image \notin s.spare
  BY <1>5 DEF Sound
<1>12. /\ Video!AssignDpb(s) \in Sessions /\ Video!AssignDpb(s).id = s.id
       /\ Video!AssignDpb(s).frames = g /\ Video!AssignDpb(s).spare = s.spare
  BY <1>1, <1>8 DEF Sessions, Sound
<1>13. Sound(Video!AssignDpb(s))
  BY <1>4, <1>9, <1>10, <1>11, <1>12 DEF Sound
<1>. QED
  BY <1>4, <1>5, <1>6, <1>12, <1>13

\* A picture spot is left for the new picture.
LEMMA SlotFree ==
  ASSUME Bounds, NEW s, Sound(s), NEW refs \in SUBSET Stamps, Cardinality(refs) <= Refs,
         \A k \in DOMAIN s.frames : s.frames[k].stamp \in refs
  PROVE  Video!Least(Video!Slots \ DOMAIN s.frames) \in Video!Slots \ DOMAIN s.frames
<1>1. Video!Slots \ DOMAIN s.frames # {}
  <2>1. SUFFICES ASSUME Video!Slots \subseteq DOMAIN s.frames
                 PROVE  FALSE
    OBVIOUS
  <2>. DEFINE f == [n \in 0..Refs |-> s.frames[n].stamp]
  <2>2. f \in [0..Refs -> refs]
    BY <2>1 DEF Video!Slots
  <2>3. PICK n \in 0..Refs, m \in 0..Refs : n # m /\ f[n] = f[m]
    BY <2>2, StampsFit
  <2>4. s.frames[n].stamp = s.frames[m].stamp /\ n \in DOMAIN s.frames /\ m \in DOMAIN s.frames
    BY <2>1, <2>3 DEF Video!Slots
  <2>. QED
    BY <2>3, <2>4 DEF Sound
<1>2. Video!Slots \ DOMAIN s.frames \subseteq Nat
  BY DEF Video!Slots, Bounds
<1>. QED
  BY <1>1, <1>2, LeastIs

\* A session without pictures.
LEMMA EmptySession ==
  ASSUME Bounds, NEW id \in Nat, NEW g \in Geometries \cup {"none"}
  PROVE  LET s == [Video!NoSession EXCEPT !.id = id, !.geometry = g]
         IN  Sound(s) /\ s.id = id /\ DOMAIN s.frames = {}
<1>. DEFINE none == [k \in {} |-> 0]
            s == [Video!NoSession EXCEPT !.id = id, !.geometry = g]
<1>1. none \in [{} -> Video!Frame] /\ DOMAIN none = {}
  OBVIOUS
<1>2. none \in UNION {[D -> Video!Frame] : D \in SUBSET Video!Slots}
  BY <1>1
<1>3. /\ s \in [id : Nat, geometry : Geometries \cup {"none"}, frames : {none}, spare : SUBSET Images]
      /\ s.id = id /\ s.frames = none
  <2>1. Video!NoSession \in [id : Nat, geometry : Geometries \cup {"none"}, frames : {none},
                       spare : SUBSET Images]
    BY DEF Video!NoSession, Video!Nobody
  <2>2. s \in [id : Nat, geometry : Geometries \cup {"none"}, frames : {none},
               spare : SUBSET Images]
    <3>. HIDE DEF none
    <3>. QED
      BY <2>1
  <2>3. s.id = id /\ s.frames = none
    BY <2>1, <2>2
  <2>. QED
    BY <2>2, <2>3
<1>4. s \in Sessions
  <2>. HIDE DEF none, s
  <2>. QED
    BY <1>2, <1>3 DEF Sessions
<1>. HIDE DEF none, s
<1>5. Sound(s)
  BY <1>1, <1>3, <1>4 DEF Sound
<1>6. s.id = id /\ DOMAIN s.frames = {}
  BY <1>1, <1>3
<1>. QED
  BY <1>5, <1>6 DEF s

\* The empty session.
LEMMA FreshSession ==
  ASSUME Bounds
  PROVE  Sound(Video!NoSession) /\ Video!NoSession.id = Video!Nobody /\ DOMAIN Video!NoSession.frames = {}
<1>. DEFINE none == [k \in {} |-> 0]
<1>1. none \in [{} -> Video!Frame] /\ DOMAIN none = {}
  OBVIOUS
<1>2. none \in UNION {[D -> Video!Frame] : D \in SUBSET Video!Slots}
  BY <1>1
<1>3. /\ Video!NoSession = [id |-> 0, geometry |-> "none", frames |-> none, spare |-> {}]
      /\ Video!NoSession.id = 0 /\ Video!NoSession.frames = none
  BY DEF Video!NoSession, Video!Nobody
<1>. HIDE DEF none
<1>4. Video!NoSession \in Sessions
  BY <1>2, <1>3 DEF Sessions
<1>. QED
  BY <1>1, <1>3, <1>4 DEF Sound, Video!Nobody

\* The session a submission works on is the owner's, and its images hold their
\* pictures.
LEMMA TargetFacts ==
  ASSUME Bounds, NInv, NEW id \in Video!Ids, NEW g \in Geometries, NEW ts, NEW idr, NEW refs,
         Video!Admitted(id, ts, g, idr, refs)
  PROVE  /\ Sound(Video!Target(id, g)) /\ Video!Target(id, g).id = id
         /\ \A k \in DOMAIN Video!Target(id, g).frames :
              holds[Video!Target(id, g).frames[k].image] = Video!Target(id, g).frames[k].stamp
<1>1. id \in Nat /\ id = life.owner /\ id # Video!Nobody /\ v_pending = Video!NoPicture /\ ~life.error
  BY DEF Video!Admitted, Video!Ids, Bounds
<1>2. CASE session.id # Video!Nobody /\ session.geometry = g
  <2>1. Video!Target(id, g) = session
    BY <1>2 DEF Video!Target
  <2>2. session.id = id
    BY <1>1, <1>2 DEF NInv, Owned
  <2>3. \A k \in DOMAIN session.frames : holds[session.frames[k].image] = session.frames[k].stamp
    BY <1>1 DEF NInv, Whole, Flying, Running
  <2>4. Sound(session)
    BY DEF NInv
  <2>5. Sound(Video!Target(id, g)) /\ Video!Target(id, g).id = id
    BY <2>1, <2>2, <2>4
  <2>6. \A k \in DOMAIN Video!Target(id, g).frames :
          holds[Video!Target(id, g).frames[k].image] = Video!Target(id, g).frames[k].stamp
    BY <2>1, <2>3
  <2>. QED
    BY <2>5, <2>6
<1>3. CASE ~(session.id # Video!Nobody /\ session.geometry = g)
  <2>. DEFINE s == [Video!NoSession EXCEPT !.id = id, !.geometry = g]
  <2>1. Sound(s) /\ s.id = id /\ DOMAIN s.frames = {}
    BY <1>1, EmptySession
  <2>2. Video!Target(id, g) = s
    BY <1>3 DEF Video!Target
  <2>. HIDE DEF s
  <2>. QED
    BY <2>1, <2>2
<1>. QED
  BY <1>2, <1>3

\* The new picture's image is nobody's.
LEMMA ChosenImage ==
  ASSUME Bounds, NEW s, Sound(s), NEW image \in Video!Choice(s)
  PROVE  image \in Images /\ image \notin Video!InFrames(s) /\ image \notin leased
<1>1. CASE image \in Video!Reusable(s)
  BY <1>1 DEF Video!Reusable, Sound, Sessions, Video!InFrames
<1>2. CASE image \notin Video!Reusable(s)
  <2>1. image \in Video!Allocatable(s)
    BY <1>2 DEF Video!Choice
  <2>2. image \in Images \ (Video!Held(s) \cup leased)
    BY <2>1 DEF Video!Allocatable
  <2>. QED
    BY <2>2 DEF Video!Held
<1>. QED
  BY <1>1, <1>2

-----------------------------------------------------------------------------
(* The actions. *)

\* The engine starts booted and idle.
LEMMA InitHolds == Bounds /\ Video!Init => NInv
<1>. SUFFICES ASSUME Bounds, Video!Init
              PROVE  NInv
  OBVIOUS
<1>1. Shaped
  BY DEF Video!Init, Shaped, Lives, Engines, Video!Idle, Video!Nobody
<1>2. Sound(session) /\ DOMAIN session.frames = {}
  BY FreshSession DEF Video!Init
<1>3. ~Running /\ v_pending = Video!NoPicture
  BY DEF Video!Init, Running, Video!Idle
<1>4. Owned
  BY DEF Video!Init, Owned, Video!Nobody, Video!Idle
<1>. QED
  BY <1>1, <1>2, <1>3, <1>4 DEF NInv, Flying, Whole

\* The engine finishes the picture: its spot's image holds it now, and no other
\* spot has that image.
LEMMA DecodeKeeps ==
  ASSUME Bounds, NInv, Video!HwDecode
  PROVE  NInv'
<1>. USE DEF NInv
<1>1. /\ hw.run = "busy" /\ hw'.run \in {"good", "bad"}
      /\ hw.image \in Images /\ hw.stamp \in Stamps /\ hw.refs \in SUBSET Reference
      /\ hw'.image = hw.image /\ hw'.stamp = hw.stamp /\ hw'.refs = hw.refs
      /\ hw' \in [run : {"busy", "good", "bad"}, image : Images, stamp : Stamps,
                  refs : SUBSET Reference]
  BY DEF Video!HwDecode, Shaped, Engines
<1>2. /\ holds' = [holds EXCEPT ![hw.image] = hw.stamp]
      /\ UNCHANGED <<life, v_active, session, v_pending, leased>>
  BY DEF Video!HwDecode
<1>3. Shaped'
  BY <1>1, <1>2 DEF Shaped, Engines
<1>4. Flying'
  BY <1>1, <1>2 DEF Flying, Running
<1>5. Whole'
  <2>1. SUFFICES ASSUME NEW k \in DOMAIN session.frames
                 PROVE  holds'[session.frames[k].image] = session.frames[k].stamp
    BY <1>2 DEF Whole
  <2>2. session.frames[k].image \in Images
    BY DEF Sound, Sessions, Video!Frame
  <2>3. CASE k = v_pending.slot
    <3>1. session.frames[k].image = hw.image /\ session.frames[k].stamp = hw.stamp
      BY <1>1, <2>3 DEF Flying, Running
    <3>. QED
      BY <1>1, <1>2, <3>1 DEF Shaped
  <2>4. CASE k # v_pending.slot
    <3>1. session.frames[k].image # hw.image
      BY <1>1, <2>4 DEF Flying, Running, Sound
    <3>. QED
      BY <1>2, <2>2, <2>4, <3>1 DEF Shaped, Whole
  <2>. QED
    BY <2>3, <2>4
<1>6. Owned'
  BY <1>1, <1>2 DEF Owned, Video!Idle
<1>. QED
  BY <1>2, <1>3, <1>4, <1>5, <1>6

\* A second passes.
LEMMA SecondKeeps ==
  ASSUME Bounds, NInv, Video!Second
  PROVE  NInv'
<1>. USE DEF NInv
<1>1. /\ v_pending \in Pictures /\ v_pending' \in Pictures /\ v_pending'.slot = v_pending.slot
      /\ v_pending # Video!NoPicture
      /\ UNCHANGED <<life, v_active, hw, session, leased, holds>>
  BY DEF Video!Second, Shaped, Pictures
<1>2. v_pending' # Video!NoPicture
  BY <1>1 DEF Pictures, Video!NoPicture, Video!Slots, Bounds
<1>3. Shaped' /\ Sound(session)'
  BY <1>1 DEF Shaped
<1>4. Flying'
  BY <1>1, <1>2 DEF Flying, Running
<1>5. Whole'
  BY <1>1 DEF Whole
<1>6. Owned'
  BY <1>1 DEF Owned
<1>. QED
  BY <1>3, <1>4, <1>5, <1>6

\* A consumer drops an image.
LEMMA DropLeaseKeeps ==
  ASSUME Bounds, NInv, NEW image \in Images, Video!DropLease(image)
  PROVE  NInv'
<1>. USE DEF NInv
<1>1. leased' \subseteq leased /\ UNCHANGED <<life, v_active, hw, session, v_pending, holds>>
  BY DEF Video!DropLease
<1>2. Shaped' /\ Sound(session)'
  BY <1>1 DEF Shaped
<1>3. Flying'
  BY <1>1 DEF Flying, Running
<1>4. Whole' /\ Owned'
  BY <1>1 DEF Whole, Owned
<1>. QED
  BY <1>2, <1>3, <1>4

\* Retiring the engine takes session and picture from it only after isolation;
\* otherwise nothing has changed.
LEMMA RetireEffect ==
  ASSUME Bounds, NInv, NEW ok \in BOOLEAN, Video!Retire(ok)
  PROVE  /\ v_active' \in BOOLEAN
         /\ \/ UNCHANGED <<v_active, hw, session, v_pending>>
            \/ /\ session' = Video!NoSession /\ v_pending' = Video!NoPicture
               /\ hw' \in {Video!Off, hw} /\ ~Running'
<1>. USE DEF NInv
<1>1. CASE ok
  <2>1. session' = Video!NoSession /\ v_pending' = Video!NoPicture
    BY <1>1 DEF Video!Retire
  <2>2. CASE v_active
    <3>1. v_active' = FALSE /\ hw' = Video!Off /\ hw'.run = "off"
      BY <1>1, <2>2 DEF Video!Retire, Video!Isolate, Video!Off
    <3>. QED
      BY <2>1, <3>1 DEF Running
  <2>3. CASE ~v_active
    <3>1. v_active' = v_active /\ hw' = hw /\ ~Running
      BY <2>3 DEF Video!Retire, Video!Isolate, Flying
    <3>. QED
      BY <2>1, <3>1 DEF Running, Shaped
  <2>. QED
    BY <2>2, <2>3
<1>2. CASE ~ok
  BY <1>2 DEF Video!Retire, Video!Isolate, Shaped
<1>. QED
  BY <1>1, <1>2

\* What follows from such an effect, whoever is the owner afterwards.
LEMMA RetireKeeps ==
  ASSUME Bounds, NInv, NEW ok \in BOOLEAN, Video!Retire(ok), UNCHANGED <<leased, holds>>,
         life' \in Lives,
         life'.recovery /\ life'.error
  PROVE  NInv'
<1>. USE DEF NInv
<1>1. Owned'
  BY DEF Owned
<1>2. CASE UNCHANGED <<v_active, hw, session, v_pending>>
  <2>1. Shaped' /\ Sound(session)'
    BY <1>2 DEF Shaped
  <2>2. Flying' /\ Whole'
    BY <1>2 DEF Flying, Running, Whole
  <2>. QED
    BY <1>1, <2>1, <2>2
<1>3. CASE /\ session' = Video!NoSession /\ v_pending' = Video!NoPicture
           /\ hw' \in {Video!Off, hw} /\ ~Running'
  <2>1. hw' \in Engines
    BY <1>3 DEF Shaped, Engines, Video!Off
  <2>2. Shaped'
    BY <1>3, <2>1, RetireEffect DEF Shaped
  <2>3. Sound(session)' /\ DOMAIN session'.frames = {}
    BY <1>3, FreshSession
  <2>4. Flying' /\ Whole'
    BY <1>3, <2>3 DEF Flying, Whole
  <2>. QED
    BY <1>1, <2>2, <2>3, <2>4
<1>. QED
  BY <1>2, <1>3, RetireEffect

\* A client closes its session.
LEMMA CloseKeeps ==
  ASSUME Bounds, NInv, NEW id \in Video!Ids, NEW ok \in BOOLEAN, Video!Close(id, ok)
  PROVE  NInv'
<1>1. /\ life' \in Lives
      /\ life'.recovery /\ life'.error
  <2>1. life \in Lives /\ id \in Nat
    BY DEF NInv, Shaped, Video!Ids, Bounds
  <2>2. life' = [life EXCEPT !.owner = 0, !.retiring = id, !.recovery = TRUE, !.error = TRUE]
    BY DEF Video!Close, Video!Nobody
  <2>. QED
    BY <2>1, <2>2 DEF Lives
<1>. QED
  BY <1>1, RetireKeeps DEF Video!Close

\* A client opens a session: the engine is as after probe, or was recovered.
LEMMA OpenKeeps ==
  ASSUME Bounds, NInv, NEW drained \in BOOLEAN, NEW booted \in BOOLEAN, Video!Open(drained, booted)
  PROVE  NInv'
<1>. USE DEF NInv
<1>1. life.owner = Video!Nobody /\ life.nextId \in Nat \ {0} /\ UNCHANGED <<leased, holds>>
  BY DEF Video!Open, Shaped, Lives
<1>2. life' \in Lives
  <2>1. life \in Lives /\ life.nextId \in Nat
    BY DEF Shaped, Lives
  <2>2. CASE booted
    <3>1. life' = [life EXCEPT !.owner = life.nextId, !.nextId = life.nextId + 1, !.retiring = 0,
                               !.recovery = FALSE, !.error = FALSE]
      BY <2>2 DEF Video!Open, Video!Nobody
    <3>2. life.nextId + 1 \in Nat \ {0}
      BY <2>1
    <3>. QED
      BY <2>1, <3>1, <3>2 DEF Lives
  <2>3. CASE ~booted
    <3>1. life' = [life EXCEPT !.recovery = TRUE, !.error = TRUE]
      BY <2>3 DEF Video!Open
    <3>. QED
      BY <2>1, <3>1 DEF Lives
  <2>. QED
    BY <2>2, <2>3
<1>3. /\ booted => life'.owner # Video!Nobody
      /\ ~booted => life'.error /\ life'.recovery
  BY <1>1 DEF Video!Open, Shaped, Lives, Video!Nobody
<1>4. CASE UNCHANGED <<v_active, hw, session, v_pending>> /\ (booted => ~life.recovery)
  <2>1. Shaped' /\ Sound(session)'
    BY <1>1, <1>2, <1>4 DEF Shaped
  <2>2. Flying' /\ Whole'
    BY <1>1, <1>4 DEF Flying, Running, Whole
  <2>3. Owned'
    <3>1. CASE booted
      BY <1>1, <1>3, <1>4, <3>1, FreshSession DEF Owned, Video!Idle
    <3>2. CASE ~booted
      BY <1>3, <3>2 DEF Owned
    <3>. QED
      BY <3>1, <3>2
  <2>. QED
    BY <2>1, <2>2, <2>3
<1>5. CASE /\ session' = Video!NoSession /\ v_pending' = Video!NoPicture /\ v_active' = TRUE
           /\ hw' = IF booted THEN Video!Idle ELSE Video!Off
  <2>1. hw' \in Engines /\ ~Running' /\ (booted => hw'.run = "idle")
    BY <1>5 DEF Engines, Video!Idle, Video!Off, Running
  <2>2. Shaped'
    BY <1>1, <1>2, <1>5, <2>1 DEF Shaped
  <2>3. Sound(session)' /\ DOMAIN session'.frames = {} /\ session'.id = Video!Nobody
    BY <1>5, FreshSession
  <2>4. Flying' /\ Whole'
    BY <1>5, <2>1, <2>3 DEF Flying, Whole
  <2>5. Owned'
    BY <1>3, <1>5, <2>1, <2>3 DEF Owned
  <2>. QED
    BY <2>2, <2>3, <2>4, <2>5
<1>. QED
  BY <1>4, <1>5 DEF Video!Open

\* The published image holds its picture and is not being written.
LEMMA DequeueKeeps ==
  ASSUME Bounds, NInv, NEW id \in Video!Ids, NEW ok \in BOOLEAN, Video!Dequeue(id, ok)
  PROVE  NInv'
<1>. USE DEF NInv
<1>1. CASE Video!Fail(ok)
  <2>1. /\ life' \in Lives
        /\ life'.recovery /\ life'.error
    BY <1>1 DEF Video!Fail, Shaped, Lives
  <2>. QED
    BY <1>1, <2>1, RetireKeeps DEF Video!Fail, Video!Dequeue
<1>2. CASE hw.run = "good" /\ Video!Publish
  <2>1. /\ hw' = Video!Idle /\ v_pending' = Video!NoPicture /\ UNCHANGED <<life, v_active, session, holds>>
        /\ v_pending # Video!NoPicture
    BY <1>2 DEF Video!Publish, Video!Dequeue
  <2>2. leased' \subseteq Images
    <3>1. session.frames[v_pending.slot].image \in Images
      BY <1>2 DEF Flying, Running, Sound, Sessions, Video!Frame
    <3>. QED
      BY <1>2, <3>1 DEF Video!Publish, Shaped
  <2>3. hw' \in Engines /\ ~Running' /\ hw'.run = "idle"
    BY <2>1 DEF Engines, Running, Video!Idle
  <2>4. Shaped' /\ Sound(session)'
    BY <2>1, <2>2, <2>3 DEF Shaped
  <2>5. Flying'
    BY <2>1, <2>3 DEF Flying
  <2>6. Whole'
    BY <1>2, <2>1 DEF Whole
  <2>7. Owned'
    BY <2>1, <2>3 DEF Owned
  <2>. QED
    BY <2>4, <2>5, <2>6, <2>7
<1>. QED
  BY <1>1, <1>2 DEF Video!Dequeue, Video!Completed

\* What the submission keeps of the session: references with an entry each, whose
\* images hold their pictures, and a spot for the new picture.
LEMMA KeptFacts ==
  ASSUME Bounds, NInv, NEW id \in Video!Ids, NEW g \in Geometries, NEW ts, NEW idr,
         NEW refs \in SUBSET Stamps, Video!Admitted(id, ts, g, idr, refs),
         NEW s, s = Video!Target(id, g), NEW kept, kept = Video!AssignDpb(Video!RetireFrames(s, refs))
  PROVE  /\ Sound(kept) /\ kept.id = id
         /\ Video!Least(Video!Slots \ DOMAIN kept.frames) \in Video!Slots \ DOMAIN kept.frames
         /\ \A k \in DOMAIN kept.frames :
              /\ kept.frames[k].stamp \in refs /\ kept.frames[k].dpb # Refs
              /\ holds[kept.frames[k].image] = kept.frames[k].stamp
<1>. DEFINE rest == Video!RetireFrames(s, refs)
<1>1. /\ Sound(s) /\ s.id = id
      /\ \A k \in DOMAIN s.frames : holds[s.frames[k].image] = s.frames[k].stamp
  BY TargetFacts
<1>2. Cardinality(refs) <= Refs
  <2>1. Video!Cardinality(refs) = Cardinality(refs)
    BY DEF Video!Cardinality, Cardinality
  <2>. QED
    BY <2>1 DEF Video!Admitted
<1>3. /\ Sound(rest) /\ rest.id = s.id
      /\ \A k \in DOMAIN rest.frames :
           /\ k \in DOMAIN s.frames /\ s.frames[k].stamp \in refs
           /\ rest.frames[k] = s.frames[k]
  BY <1>1, Retired
<1>4. \A k \in DOMAIN rest.frames :
        /\ rest.frames[k].stamp \in refs
        /\ holds[rest.frames[k].image] = rest.frames[k].stamp
  BY <1>1, <1>3
<1>. HIDE DEF rest
<1>5. /\ Sound(kept) /\ kept.id = rest.id /\ DOMAIN kept.frames = DOMAIN rest.frames
      /\ \A k \in DOMAIN rest.frames :
           /\ kept.frames[k].stamp = rest.frames[k].stamp
           /\ kept.frames[k].image = rest.frames[k].image
           /\ kept.frames[k].dpb # Refs
  <2>1. kept = Video!AssignDpb(rest)
    BY DEF rest
  <2>. QED
    BY <1>2, <1>3, <1>4, <2>1, Assigned
<1>6. \A k \in DOMAIN kept.frames :
        /\ kept.frames[k].stamp \in refs /\ kept.frames[k].dpb # Refs
        /\ holds[kept.frames[k].image] = kept.frames[k].stamp
  BY <1>4, <1>5
<1>7. Video!Least(Video!Slots \ DOMAIN kept.frames) \in Video!Slots \ DOMAIN kept.frames
  BY <1>2, <1>5, <1>6, SlotFree
<1>. QED
  BY <1>1, <1>3, <1>5, <1>6, <1>7

\* A refused submission leaves a session of the owner behind, without a picture in
\* flight.
LEMMA ReplaceKeeps ==
  ASSUME Bounds, NInv, NEW s, Sound(s), s.id = life.owner,
         \A k \in DOMAIN s.frames : holds[s.frames[k].image] = s.frames[k].stamp,
         life.owner # Video!Nobody, v_pending = Video!NoPicture,
         session' = s, UNCHANGED <<life, v_active, hw, v_pending, leased, holds>>
  PROVE  NInv'
<1>. USE DEF NInv
<1>1. Shaped' /\ Sound(session)'
  BY DEF Shaped
<1>2. ~Running /\ ~Running'
  BY DEF Flying, Running
<1>3. Flying'
  BY <1>2 DEF Flying
<1>4. Whole'
  BY DEF Whole
<1>5. Owned'
  BY DEF Owned
<1>. QED
  BY <1>1, <1>3, <1>4, <1>5

\* An accepted picture takes a free spot and an image of its own.
LEMMA StartKeeps ==
  ASSUME Bounds, NInv, NEW s, Sound(s), s.id = life.owner,
         NEW ts \in Stamps, NEW refs \in SUBSET Stamps, ts \notin refs,
         \A k \in DOMAIN s.frames :
           /\ s.frames[k].stamp \in refs /\ s.frames[k].dpb # Refs
           /\ holds[s.frames[k].image] = s.frames[k].stamp,
         NEW spot \in Video!Slots \ DOMAIN s.frames, NEW image \in Video!Choice(s), NEW shared \in BOOLEAN,
         life.owner # Video!Nobody, ~life.error, v_pending = Video!NoPicture,
         session' = [s EXCEPT !.spare = @ \ {image},
                              !.frames = [k \in DOMAIN s.frames \cup {spot} |->
                                IF k = spot THEN [stamp |-> ts, dpb |-> Refs, image |-> image]
                                            ELSE s.frames[k]]],
         hw' = [run |-> "busy", image |-> image, stamp |-> ts, refs |-> Video!References(s, refs)],
         v_pending' = [slot |-> spot, shared |-> shared, late |-> FALSE],
         UNCHANGED <<life, v_active, leased, holds>>
  PROVE  NInv'
<1>. USE DEF NInv
<1>. DEFINE new == [stamp |-> ts, dpb |-> Refs, image |-> image]
            f == [k \in DOMAIN s.frames \cup {spot} |-> IF k = spot THEN new ELSE s.frames[k]]
<1>1. image \in Images /\ image \notin Video!InFrames(s) /\ image \notin leased
  BY ChosenImage
<1>2. /\ s \in Sessions /\ DOMAIN s.frames \subseteq Video!Slots
      /\ \A k \in DOMAIN s.frames : s.frames[k] \in Video!Frame
  BY DEF Sound, Sessions
<1>3. new \in Video!Frame /\ new.stamp = ts /\ new.image = image /\ new.dpb = Refs
  BY <1>1 DEF Video!Frame, Bounds
<1>4. /\ DOMAIN f = DOMAIN s.frames \cup {spot} /\ f[spot] = new
      /\ \A k \in DOMAIN s.frames : f[k] = s.frames[k] /\ k # spot
  OBVIOUS
<1>. HIDE DEF new
<1>5. f \in UNION {[D -> Video!Frame] : D \in SUBSET Video!Slots}
  <2>1. DOMAIN s.frames \cup {spot} \in SUBSET Video!Slots
    BY <1>2
  <2>2. f \in [DOMAIN s.frames \cup {spot} -> Video!Frame]
    BY <1>2, <1>3
  <2>. QED
    BY <2>1, <2>2
<1>6. session' = [s EXCEPT !.spare = @ \ {image}, !.frames = f]
  BY DEF new
<1>. HIDE DEF f
<1>7. /\ session' \in Sessions /\ session'.id = s.id
      /\ session'.frames = f /\ session'.spare = s.spare \ {image}
  BY <1>2, <1>5, <1>6 DEF Sessions
<1>8. \A k \in DOMAIN s.frames :
        /\ s.frames[k].image # image /\ s.frames[k].image \notin s.spare
        /\ s.frames[k].stamp # ts /\ s.frames[k].dpb # Refs
  BY <1>1 DEF Video!InFrames, Sound
<1>9. Sound(session)'
  <2>1. \A k, l \in DOMAIN f : k # l =>
          f[k].stamp # f[l].stamp /\ f[k].image # f[l].image /\ f[k].dpb # f[l].dpb
    BY <1>3, <1>4, <1>8 DEF Sound
  <2>2. \A k \in DOMAIN f : f[k].image \notin s.spare \ {image}
    BY <1>3, <1>4, <1>8
  <2>. QED
    BY <1>7, <2>1, <2>2 DEF Sound
<1>10. v_pending' \in Pictures /\ v_pending'.slot = spot /\ v_pending' # Video!NoPicture
  BY DEF Pictures, Video!NoPicture, Video!Slots, Bounds
<1>11. \A r \in Video!References(s, refs) : \E k \in DOMAIN s.frames :
         /\ r = [stamp |-> s.frames[k].stamp, image |-> s.frames[k].image, dpb |-> s.frames[k].dpb]
         /\ r.stamp = s.frames[k].stamp /\ r.image = s.frames[k].image
         /\ r.dpb = s.frames[k].dpb
  BY DEF Video!References
<1>12. Video!References(s, refs) \in SUBSET Reference
  BY <1>2, <1>11 DEF Video!Frame, Reference, Bounds
<1>13. /\ hw' \in Engines /\ hw'.run = "busy" /\ hw'.image = image /\ hw'.stamp = ts
       /\ hw'.refs = Video!References(s, refs)
  BY <1>1, <1>12 DEF Engines
<1>14. Shaped'
  BY <1>10, <1>13 DEF Shaped
<1>15. v_active
  BY DEF Owned
<1>16. Flying'
  <2>1. Running' /\ v_pending' # Video!NoPicture
    BY <1>10, <1>13 DEF Running
  <2>2. /\ v_active' /\ v_pending'.slot \in DOMAIN session'.frames
        /\ session'.frames[v_pending'.slot] = [stamp |-> hw'.stamp, dpb |-> Refs, image |-> hw'.image]
        /\ hw'.image \notin leased'
    BY <1>1, <1>4, <1>7, <1>10, <1>13, <1>15 DEF new
  <2>3. \A r \in hw'.refs : \E k \in DOMAIN session'.frames :
          /\ k # v_pending'.slot
          /\ r.stamp = session'.frames[k].stamp /\ r.image = session'.frames[k].image
          /\ r.dpb = session'.frames[k].dpb
    BY <1>4, <1>7, <1>10, <1>11, <1>13
  <2>. QED
    BY <2>1, <2>2, <2>3 DEF Flying
<1>17. Whole'
  BY <1>4, <1>7, <1>10, <1>13 DEF Whole
<1>18. Owned'
  BY <1>7, <1>13, <1>15 DEF Owned
<1>. QED
  BY <1>9, <1>14, <1>16, <1>17, <1>18

\* A picture is submitted, or refused.
LEMMA SubmitKeeps ==
  ASSUME Bounds, NInv, NEW id \in Video!Ids, NEW ts \in Stamps, NEW g \in Geometries,
         NEW idr \in BOOLEAN, NEW refs \in SUBSET Stamps, Video!Submit(id, ts, g, idr, refs)
  PROVE  NInv'
<1>. DEFINE s == Video!Target(id, g)
            kept == Video!AssignDpb(Video!RetireFrames(s, refs))
            spot == Video!Least(Video!Slots \ DOMAIN kept.frames)
<1>1. Video!Admitted(id, ts, g, idr, refs) /\ UNCHANGED <<life, v_active, leased, holds>>
  BY DEF Video!Submit
<1>2. /\ id = life.owner /\ life.owner # Video!Nobody /\ ~life.error /\ v_pending = Video!NoPicture
      /\ ts \notin refs
  BY <1>1 DEF Video!Admitted
<1>3. /\ Sound(s) /\ s.id = id
      /\ \A k \in DOMAIN s.frames : holds[s.frames[k].image] = s.frames[k].stamp
  BY <1>1, TargetFacts
<1>4. /\ Sound(kept) /\ kept.id = id /\ spot \in Video!Slots \ DOMAIN kept.frames
      /\ \A k \in DOMAIN kept.frames :
           /\ kept.frames[k].stamp \in refs /\ kept.frames[k].dpb # Refs
           /\ holds[kept.frames[k].image] = kept.frames[k].stamp
  <2>1. Video!Admitted(id, ts, g, idr, refs) /\ s = Video!Target(id, g)
        /\ kept = Video!AssignDpb(Video!RetireFrames(s, refs))
    BY <1>1
  <2>. DEFINE free == Video!Least(Video!Slots \ DOMAIN kept.frames)
  <2>. HIDE DEF s, kept
  <2>2. /\ Sound(kept) /\ kept.id = id /\ free \in Video!Slots \ DOMAIN kept.frames
        /\ \A k \in DOMAIN kept.frames :
             /\ kept.frames[k].stamp \in refs /\ kept.frames[k].dpb # Refs
             /\ holds[kept.frames[k].image] = kept.frames[k].stamp
    BY <2>1, KeptFacts
  <2>. QED
    BY <2>2
<1>5. \/ session' = s /\ UNCHANGED <<v_pending, hw>>
      \/ session' = kept /\ UNCHANGED <<v_pending, hw>>
      \/ \E image \in Video!Choice(kept), shared \in BOOLEAN :
           /\ session' = [kept EXCEPT
                !.spare = @ \ {image},
                !.frames = [k \in DOMAIN kept.frames \cup {spot} |->
                  IF k = spot THEN [stamp |-> ts, dpb |-> Refs, image |-> image]
                              ELSE kept.frames[k]]]
           /\ hw' = [run |-> "busy", image |-> image, stamp |-> ts,
                     refs |-> Video!References(kept, refs)]
           /\ v_pending' = [slot |-> spot, shared |-> shared, late |-> FALSE]
  BY Zenon DEF Video!Submit
<1>. HIDE DEF s, kept, spot
<1>6. CASE session' = s /\ UNCHANGED <<v_pending, hw>>
  BY <1>1, <1>2, <1>3, <1>6, ReplaceKeeps
<1>7. CASE session' = kept /\ UNCHANGED <<v_pending, hw>>
  BY <1>1, <1>2, <1>4, <1>7, ReplaceKeeps
<1>8. ASSUME NEW image \in Video!Choice(kept), NEW shared \in BOOLEAN,
             session' = [kept EXCEPT
               !.spare = @ \ {image},
               !.frames = [k \in DOMAIN kept.frames \cup {spot} |->
                 IF k = spot THEN [stamp |-> ts, dpb |-> Refs, image |-> image]
                             ELSE kept.frames[k]]],
             hw' = [run |-> "busy", image |-> image, stamp |-> ts,
                    refs |-> Video!References(kept, refs)],
             v_pending' = [slot |-> spot, shared |-> shared, late |-> FALSE]
      PROVE  NInv'
  BY <1>1, <1>2, <1>4, <1>8, StartKeeps
<1>. QED
  BY <1>5, <1>6, <1>7, <1>8

\* Every step keeps the invariant.
LEMMA NextKeeps ==
  ASSUME Bounds, NInv, [Video!Next]_(Video!vars)
  PROVE  NInv'
<1>1. CASE UNCHANGED Video!vars
  <2>1. Shaped' /\ Sound(session)' /\ Whole' /\ Owned'
    BY <1>1 DEF Video!vars, NInv, Shaped, Whole, Owned
  <2>2. Flying'
    BY <1>1 DEF Video!vars, NInv, Flying, Running
  <2>. QED
    BY <2>1, <2>2 DEF NInv
<1>2. CASE Video!HwDecode \/ Video!Second
  BY <1>2, DecodeKeeps, SecondKeeps
<1>3. CASE \E drained, booted \in BOOLEAN : Video!Open(drained, booted)
  BY <1>3, OpenKeeps
<1>4. CASE \E id \in Video!Ids, ok \in BOOLEAN : Video!Close(id, ok) \/ Video!Dequeue(id, ok)
  BY <1>4, CloseKeeps, DequeueKeeps
<1>5. CASE \E id \in Video!Ids, ts \in Stamps, g \in Geometries, idr \in BOOLEAN,
              refs \in SUBSET Stamps : Video!Submit(id, ts, g, idr, refs)
  BY <1>5, SubmitKeeps
<1>6. CASE \E i \in Images : Video!DropLease(i)
  BY <1>6, DropLeaseKeeps
<1>. QED
  BY <1>1, <1>2, <1>3, <1>4, <1>5, <1>6 DEF Video!Next

-----------------------------------------------------------------------------
(* What the invariant gives. *)

\* The engine's picture and its references are slots of the session, all
\* different, so what it writes nobody else has and what it reads is whole.
LEMMA WriterApart ==
  ASSUME NInv, hw.run = "busy"
  PROVE  /\ hw.image \in Video!InFrames(session) /\ hw.image \notin leased \cup session.spare
         /\ \A r \in hw.refs :
              /\ r.image \in Video!InFrames(session) /\ r.image # hw.image
              /\ holds[r.image] = r.stamp /\ r.dpb # Refs
         /\ \A r, q \in hw.refs : r.dpb = q.dpb => r.stamp = q.stamp /\ r.image = q.image
<1>. USE DEF NInv
<1>1. /\ v_pending.slot \in DOMAIN session.frames /\ hw.image \notin leased
      /\ session.frames[v_pending.slot].image = hw.image
      /\ session.frames[v_pending.slot].dpb = Refs
      /\ \A r \in hw.refs : \E k \in DOMAIN session.frames :
           /\ k # v_pending.slot
           /\ r.stamp = session.frames[k].stamp /\ r.image = session.frames[k].image
           /\ r.dpb = session.frames[k].dpb
  BY DEF Flying, Running
<1>2. hw.image \in Video!InFrames(session) /\ hw.image \notin session.spare
  BY <1>1 DEF Sound, Video!InFrames
<1>3. ASSUME NEW r \in hw.refs
      PROVE  /\ r.image \in Video!InFrames(session) /\ r.image # hw.image
             /\ holds[r.image] = r.stamp /\ r.dpb # Refs
  <2>1. PICK k \in DOMAIN session.frames :
          /\ k # v_pending.slot
          /\ r.stamp = session.frames[k].stamp /\ r.image = session.frames[k].image
          /\ r.dpb = session.frames[k].dpb
    BY <1>1
  <2>2. r.image # hw.image /\ r.dpb # Refs
    BY <1>1, <2>1 DEF Sound
  <2>3. holds[r.image] = r.stamp
    BY <2>1 DEF Whole
  <2>4. r.image \in Video!InFrames(session)
    BY <2>1 DEF Video!InFrames
  <2>. QED
    BY <2>2, <2>3, <2>4
<1>4. \A r, q \in hw.refs : r.dpb = q.dpb => r.stamp = q.stamp /\ r.image = q.image
  BY <1>1 DEF Sound
<1>. QED
  BY <1>1, <1>2, <1>3, <1>4

\* What the invariant promises.
LEMMA SafeState == Bounds /\ NInv =>
  Video!WriterIsAlone /\ Video!ReferencesIntact /\ Video!DpbDistinct /\ Video!DmaBacked /\ Video!OwnerStartsFresh
<1>. SUFFICES ASSUME Bounds, NInv
              PROVE  Video!WriterIsAlone /\ Video!ReferencesIntact /\ Video!DpbDistinct /\ Video!DmaBacked
                     /\ Video!OwnerStartsFresh
  OBVIOUS
<1>1. Video!WriterIsAlone /\ Video!ReferencesIntact /\ Video!DmaBacked
  BY WriterApart DEF Video!WriterIsAlone, Video!ReferencesIntact, Video!DmaBacked, Video!Engaged
<1>2. Video!DpbDistinct
  <2>. SUFFICES ASSUME hw.run = "busy"
                PROVE  /\ \A r \in hw.refs : r.dpb < Refs
                       /\ \A r, q \in hw.refs : r.dpb = q.dpb => r = q
    BY DEF Video!DpbDistinct
  <2>1. \A r \in hw.refs : r \in Reference
    BY DEF NInv, Shaped, Engines
  <2>2. \A r, q \in hw.refs : r.dpb = q.dpb => r = q
    BY <2>1, WriterApart DEF Reference
  <2>3. \A k \in DOMAIN session.frames : session.frames[k].dpb \in 0..Refs
    BY DEF NInv, Sound, Sessions, Video!Frame
  <2>4. \A r \in hw.refs : r.dpb \in 0..Refs /\ r.dpb # Refs
    BY <2>3, WriterApart DEF NInv, Flying, Running
  <2>5. \A r \in hw.refs : r.dpb < Refs
    BY <2>4 DEF Bounds
  <2>. QED
    BY <2>2, <2>5
<1>3. Video!OwnerStartsFresh
  <2>1. hw.run \in {"off", "idle", "busy", "good", "bad"}
    BY DEF NInv, Shaped, Engines
  <2>. QED
    BY <2>1 DEF NInv, Owned, Flying, Running, Video!OwnerStartsFresh
<1>. QED
  BY <1>1, <1>2, <1>3

\* Only the engine writes pages, and never those of a leased image.
LEMMA LeaseStays ==
  ASSUME NInv, [Video!Next]_(Video!vars)
  PROVE  \A i \in leased \cap leased' : holds'[i] = holds[i]
<1>1. CASE Video!HwDecode
  <2>1. hw.image \notin leased /\ holds' = [holds EXCEPT ![hw.image] = hw.stamp]
    BY <1>1, WriterApart DEF Video!HwDecode
  <2>. QED
    BY <2>1 DEF NInv, Shaped
<1>2. CASE ~Video!HwDecode
  <2>1. holds' = holds
    <3>1. CASE UNCHANGED Video!vars \/ Video!Second \/ \E i \in Images : Video!DropLease(i)
      BY <3>1 DEF Video!vars, Video!Second, Video!DropLease
    <3>2. CASE \E drained, booted \in BOOLEAN : Video!Open(drained, booted)
      BY <3>2 DEF Video!Open
    <3>3. CASE \E id \in Video!Ids, ok \in BOOLEAN : Video!Close(id, ok) \/ Video!Dequeue(id, ok)
      BY <3>3 DEF Video!Close, Video!Dequeue
    <3>4. CASE \E id \in Video!Ids, ts \in Stamps, g \in Geometries, idr \in BOOLEAN,
                  refs \in SUBSET Stamps : Video!Submit(id, ts, g, idr, refs)
      <4>. PICK id \in Video!Ids, ts \in Stamps, g \in Geometries, idr \in BOOLEAN,
                refs \in SUBSET Stamps : Video!Submit(id, ts, g, idr, refs)
        BY <3>4
      <4>1. UNCHANGED <<life, v_active, leased, holds>>
        BY Zenon DEF Video!Submit
      <4>. QED
        BY <4>1
    <3>. QED
      BY <1>2, <3>1, <3>2, <3>3, <3>4 DEF Video!Next
  <2>. QED
    BY <2>1
<1>. QED
  BY <1>1, <1>2

\* A behaviour of the run, seen through the variables of this part, is one of
\* the component: the other parts leave them alone.
LEMMA PartOfTheRun ==
  OwnershipSpec => Video!Init /\ [][Video!Next]_(Video!vars)
<1>1. OwnershipInit => Video!Init
  BY DEF OwnershipInit
<1>2. [OwnershipNext]_all => [Video!Next]_(Video!vars)
  BY DEF OwnershipNext, all, video, Video!vars, WorkerOnly, PushOnly, PopOnly, MemoryOnly,
     SplitOnly, DispatchOnly, ResourcesOnly, VideoOnly
<1>. QED
  BY <1>1, <1>2, PTL DEF OwnershipSpec

\* Whatever fails and however long consumers keep their images: the decoder writes
\* a surface nobody displays, spares or refers to; each reference still holds the
\* picture the client named, under an entry of its own; a published picture does
\* not change; an engine that may still run keeps its pages; and a new owner starts
\* from a booted engine (submission.rs, lifecycle.rs, State::fail).
THEOREM SurfacesAreSafe ==
  ASSUME Bounds
  PROVE  OwnershipSpec => SurfacesSafe
<1>. DEFINE State == /\ Video!WriterIsAlone /\ Video!ReferencesIntact /\ Video!DpbDistinct
                     /\ Video!DmaBacked /\ Video!OwnerStartsFresh
            Kept == \A i \in leased \cap leased' : holds'[i] = holds[i]
<1>1. Video!Init => NInv
  BY InitHolds
<1>2. NInv /\ [Video!Next]_(Video!vars) => NInv'
  BY NextKeeps
<1>3. NInv => State
  BY SafeState
<1>4. NInv /\ [Video!Next]_(Video!vars) => [Kept]_(Video!vars)
  BY LeaseStays
<1>. QED
  BY <1>1, <1>2, <1>3, <1>4, PartOfTheRun, PTL DEF SurfacesSafe, Video!LeaseIsImmutable

----------------------------------------------------------------------------
(* GPU memory. *)

Steps == {"idle", "publish", "wait", "retire", "lost"}

\* The shape of the state.
Filed ==
  /\ \E T : mem \in Seq(T)
  /\ prepared \in Seq(SUBSET Nat)
  /\ run \in [step : Steps, uses : SUBSET Nat, arenas : SUBSET Nat]
  /\ DOMAIN tlb = Memory!Pages
  /\ retained \subseteq Memory!Ids

\* What has a handle, an attachment or a request is retained; a request executes
\* with its objects and with private arenas nobody else knows, on a healthy device.
Known ==
  /\ objects \subseteq retained /\ handle \subseteq objects
  /\ attached \subseteq objects
  /\ \A k \in 1..Len(prepared) : prepared[k] \subseteq objects
  /\ run.step = "idle" => run = Memory!NoRun
  /\ run.uses \subseteq objects
  /\ run.arenas \subseteq retained \ objects
  /\ run.step \in {"publish", "wait", "retire"} => ~lost

\* Every entry and every translation leads to retained memory.
Reached ==
  \A p \in Memory!Pages : (pte[p] = 0 \/ pte[p] \in retained) /\ tlb[p] \subseteq retained

\* A healthy device maps every page of the retained memory to it, and nothing else.
Exact ==
  ~lost =>
    \A p \in Memory!Pages :
      /\ \A i \in retained : p \in Memory!PagesOf(i) <=> pte[p] = i
      /\ tlb[p] \subseteq {pte[p]}

\* The invariant of the address space.
AInv == Filed /\ Known /\ Reached /\ Exact

LEMMA MemoryInit == Memory!Init => AInv
<1>. SUFFICES ASSUME Memory!Init PROVE AInv
  OBVIOUS
<1>. USE DEF Memory!Init
<1>1. Filed
  <2>1. << >> \in Seq({}) /\ << >> \in Seq(SUBSET Nat)
    OBVIOUS
  <2>. QED
    BY <2>1 DEF Filed, Memory!NoRun, Steps
<1>2. Known
  BY DEF Known, Memory!NoRun
<1>3. Reached /\ Exact
  BY DEF Reached, Exact
<1>. QED
  BY <1>1, <1>2, <1>3 DEF AInv

\* New memory has the next number; the others keep theirs, and their pages.
LEMMA MemoryGrows ==
  ASSUME Filed, NEW size, NEW align, Memory!Retain(size, align)
  PROVE  /\ \E T : mem' \in Seq(T)
         /\ Len(mem) + 1 \notin Memory!Ids
         /\ Memory!Ids' = Memory!Ids \cup {Len(mem) + 1}
         /\ \A i \in Memory!Ids : Memory!PagesOf(i)' = Memory!PagesOf(i)
         /\ \A n : n = Len(mem) + 1 => Memory!PagesOf(n)' = Memory!Target(size, align)
<1>. DEFINE va == Memory!FirstFit(size, align)
            r == [va |-> va, size |-> size]
<1>0. mem' = Append(mem, r)
  BY DEF Memory!Retain
<1>. HIDE DEF va
<1>1. PICK T : mem \in Seq(T)
  BY DEF Filed
<1>. DEFINE U == T \cup {r}
<1>2. mem \in Seq(U) /\ r \in U
  BY <1>1
<1>3. r.va = va /\ r.size = size
  OBVIOUS
<1>. HIDE DEF r, U
<1>4. Append(mem, r) \in Seq(U)
  BY <1>2
<1>5. /\ Len(mem) \in Nat /\ Len(mem') = Len(mem) + 1
      /\ \A i \in 1..Len(mem) : mem'[i] = mem[i]
      /\ mem'[Len(mem) + 1] = r
  BY <1>0, <1>2
<1>6. ASSUME NEW i \in Memory!Ids PROVE Memory!PagesOf(i)' = Memory!PagesOf(i)
  BY <1>5, <1>6 DEF Memory!PagesOf, Memory!Ids
<1>7. ASSUME NEW n, n = Len(mem) + 1 PROVE Memory!PagesOf(n)' = Memory!Target(size, align)
  BY <1>3, <1>5, <1>7 DEF Memory!PagesOf, Memory!Target, va
<1>8. \E V : mem' \in Seq(V)
  BY <1>0, <1>4
<1>9. Len(mem) + 1 \notin Memory!Ids /\ Memory!Ids' = Memory!Ids \cup {Len(mem) + 1}
  BY <1>5 DEF Memory!Ids
<1>. QED
  BY <1>6, <1>7, <1>8, <1>9

\* New memory is mapped on free pages, all of them or, on a lost device, some.
LEMMA MapKeeps ==
  ASSUME Filed, Reached, Exact, NEW size, NEW align, Memory!Retain(size, align),
         UNCHANGED tlb,
         \/ Memory!MapAll(Memory!Target(size, align)) /\ UNCHANGED lost
         \/ Memory!MapSome(Memory!Target(size, align)) /\ lost'
  PROVE  Reached' /\ Exact' /\ retained' \subseteq Memory!Ids'
<1>. DEFINE ps == Memory!Target(size, align)
<1>. SUFFICES ASSUME NEW n, n = Len(mem) + 1
              PROVE  Reached' /\ Exact' /\ retained' \subseteq Memory!Ids'
  OBVIOUS
<1>1. /\ retained' = retained \cup {n} /\ retained \subseteq Memory!Ids
      /\ n \notin Memory!Ids /\ n # 0 /\ 0 \notin Memory!Ids
  <2>1. Len(mem) \in Nat
    BY DEF Filed
  <2>. QED
    BY <2>1, MemoryGrows DEF Memory!Retain, Filed, Memory!Ids
<1>2. /\ Memory!Ids' = Memory!Ids \cup {n}
      /\ \A i \in Memory!Ids : Memory!PagesOf(i)' = Memory!PagesOf(i)
      /\ Memory!PagesOf(n)' = ps
  BY MemoryGrows
<1>3. Memory!Pages' = Memory!Pages /\ ps \subseteq Memory!Pages
  BY DEF Memory!Pages, Memory!Target
<1>4. \A p \in Memory!Pages :
        \/ pte'[p] = pte[p] /\ (Memory!MapAll(ps) => p \notin ps)
        \/ pte'[p] = n /\ pte[p] = 0 /\ p \in ps
  <2>1. CASE Memory!MapAll(ps)
    BY <2>1, <1>3 DEF Memory!MapAll
  <2>2. CASE Memory!MapSome(ps) /\ ~Memory!MapAll(ps)
    BY <2>2, <1>3 DEF Memory!MapSome
  <2>. QED
    BY <2>1, <2>2
<1>. HIDE DEF ps
<1>5. Reached'
  BY <1>1, <1>3, <1>4 DEF Reached
<1>6. Exact'
  <2>. SUFFICES ASSUME ~lost', NEW p \in Memory!Pages
                PROVE  /\ \A i \in retained' : p \in Memory!PagesOf(i)' <=> pte'[p] = i
                       /\ tlb'[p] \subseteq {pte'[p]}
    BY <1>3 DEF Exact
  <2>0. ~lost /\ Memory!MapAll(ps)
    BY DEF ps
  <2>1. /\ pte[p] = 0 \/ pte[p] \in retained
        /\ \A i \in retained : p \in Memory!PagesOf(i) <=> pte[p] = i
        /\ tlb[p] \subseteq {pte[p]} /\ tlb[p] \subseteq retained
    BY <2>0 DEF Exact, Reached
  <2>2. \A i \in retained : Memory!PagesOf(i)' = Memory!PagesOf(i)
    BY <1>1, <1>2
  <2>3. CASE pte'[p] = pte[p] /\ p \notin ps
    BY <2>1, <2>2, <2>3, <1>1, <1>2
  <2>4. CASE pte'[p] = n /\ pte[p] = 0 /\ p \in ps
    BY <2>1, <2>2, <2>4, <1>1, <1>2
  <2>. QED
    BY <2>0, <2>3, <2>4, <1>4
<1>. QED
  BY <1>1, <1>2, <1>5, <1>6

\* Clearing the entries of some memory, and then every translation, before it is
\* freed.
LEMMA ClearKeeps ==
  ASSUME Filed, Reached, Exact, NEW gone, gone \subseteq retained, UNCHANGED mem,
         pte' = Memory!Cleared(gone),
         \/ Memory!Invalidated /\ retained' = retained \ gone /\ UNCHANGED lost /\ ~lost
         \/ UNCHANGED <<retained, tlb>> /\ lost'
  PROVE  Reached' /\ Exact' /\ retained' \subseteq Memory!Ids'
<1>1. /\ Memory!Pages' = Memory!Pages /\ Memory!Ids' = Memory!Ids
      /\ \A i : Memory!PagesOf(i)' = Memory!PagesOf(i)
  BY DEF Memory!Pages, Memory!Ids, Memory!PagesOf
<1>2. \A p \in Memory!Pages :
        pte'[p] = IF \E i \in gone : p \in Memory!PagesOf(i) THEN 0 ELSE pte[p]
  BY DEF Memory!Cleared
<1>3. retained' \subseteq Memory!Ids' /\ 0 \notin retained'
  <2>1. retained' \subseteq retained /\ retained \subseteq Memory!Ids
    BY DEF Filed
  <2>2. 0 \notin Memory!Ids
    BY DEF Memory!Ids
  <2>. QED
    BY <1>1, <2>1, <2>2
<1>4. CASE lost' /\ UNCHANGED <<retained, tlb>>
  BY <1>1, <1>2, <1>3, <1>4 DEF Reached, Exact
<1>5. CASE Memory!Invalidated /\ retained' = retained \ gone /\ UNCHANGED lost /\ ~lost
  <2>1. \A p \in Memory!Pages : tlb'[p] = {}
    BY <1>5 DEF Memory!Invalidated, Memory!Flushed
  <2>2. \A p \in Memory!Pages : \A i \in retained : p \in Memory!PagesOf(i) <=> pte[p] = i
    BY <1>5 DEF Exact
  <2>3. Reached'
    BY <1>1, <1>2, <1>3, <1>5, <2>1, <2>2 DEF Reached
  <2>4. \A p \in Memory!Pages : \A i \in retained' : p \in Memory!PagesOf(i) <=> pte'[p] = i
    BY <1>2, <1>3, <1>5, <2>2
  <2>. QED
    BY <1>1, <1>3, <2>1, <2>3, <2>4 DEF Exact
<1>. QED
  BY <1>4, <1>5

\* Actions that map or free nothing keep the mapping.
LEMMA StillMapped ==
  ASSUME Filed, Reached, Exact, UNCHANGED <<mem, retained, pte, tlb>>, lost => lost'
  PROVE  Reached' /\ Exact' /\ retained' \subseteq Memory!Ids'
<1>1. /\ Memory!Pages' = Memory!Pages /\ Memory!Ids' = Memory!Ids
      /\ \A i : Memory!PagesOf(i)' = Memory!PagesOf(i)
  BY DEF Memory!Pages, Memory!Ids, Memory!PagesOf
<1>. QED
  BY <1>1 DEF Filed, Reached, Exact

\* The GPU loads a translation the table has.
LEMMA WalkKeeps ==
  ASSUME AInv, Memory!GpuWalk
  PROVE  Reached' /\ Exact' /\ retained' \subseteq Memory!Ids' /\ DOMAIN tlb' = Memory!Pages'
<1>1. /\ Memory!Pages' = Memory!Pages /\ Memory!Ids' = Memory!Ids
      /\ \A i : Memory!PagesOf(i)' = Memory!PagesOf(i)
  BY DEF Memory!Pages, Memory!Ids, Memory!PagesOf, Memory!GpuWalk
<1>2. PICK q \in Memory!Pages : pte[q] # 0 /\ tlb' = [tlb EXCEPT ![q] = @ \cup {pte[q]}]
  BY DEF Memory!GpuWalk, Memory!PagesOf
<1>3. DOMAIN tlb = Memory!Pages /\ Filed /\ Reached /\ Exact /\ UNCHANGED <<retained, pte, lost>>
  BY DEF AInv, Filed, Memory!GpuWalk
<1>4. \A p \in Memory!Pages : tlb'[p] = tlb[p] \/ (pte[p] # 0 /\ tlb'[p] = tlb[p] \cup {pte[p]})
  BY <1>2, <1>3
<1>5. DOMAIN tlb' = Memory!Pages
  BY <1>2, <1>3
<1>6. Reached'
  BY <1>1, <1>3, <1>4 DEF Reached
<1>7. Exact'
  BY <1>1, <1>3, <1>4 DEF Exact
<1>. QED
  BY <1>1, <1>3, <1>5, <1>6, <1>7 DEF Filed

\* The steps of requests and clients keep what they hold retained.
LEMMA CreateKeeps ==
  ASSUME AInv, NEW size, NEW align, Memory!Create(size, align)
  PROVE  AInv'
<1>. USE DEF AInv
<1>1. Memory!Retain(size, align) /\ UNCHANGED <<attached, prepared, run, tlb>>
  BY DEF Memory!Create
<1>2. Reached' /\ Exact' /\ retained' \subseteq Memory!Ids'
  BY <1>1, MapKeeps DEF Memory!Create, Memory!Healthy, Memory!Fault
<1>3. \E T : mem' \in Seq(T)
  BY <1>1, MemoryGrows
<1>4. Filed'
  BY <1>1, <1>2, <1>3 DEF Filed, Memory!Pages
<1>5. run = Memory!NoRun /\ retained' = retained \cup {Len(mem) + 1}
  BY DEF Memory!Create, Memory!Retain
<1>6. \/ objects' = objects \cup {Len(mem) + 1} /\ handle' = handle \cup {Len(mem) + 1}
      \/ UNCHANGED <<objects, handle>>
  BY DEF Memory!Create
<1>7. Known'
  BY <1>1, <1>5, <1>6 DEF Known, Memory!NoRun
<1>. QED
  BY <1>2, <1>4, <1>7

LEMMA ArenaKeeps ==
  ASSUME AInv, Memory!Arena \/ Memory!ArenaLost
  PROVE  AInv'
<1>. USE DEF AInv
<1>1. /\ Memory!Retain(ArenaSize, Page) /\ UNCHANGED <<objects, handle, attached, prepared, tlb>>
      /\ run.step = "publish" /\ run.arenas = {}
      /\ retained' = retained \cup {Len(mem) + 1}
  BY DEF Memory!Arena, Memory!ArenaLost, Memory!Retain
<1>2. Reached' /\ Exact' /\ retained' \subseteq Memory!Ids'
  BY <1>1, MapKeeps DEF Memory!Arena, Memory!ArenaLost, Memory!Fault
<1>3. \E T : mem' \in Seq(T)
  BY <1>1, MemoryGrows
<1>4. Len(mem) + 1 \notin Memory!Ids /\ Len(mem) + 1 \in Nat
  <2>1. Len(mem) \in Nat
    BY DEF Filed
  <2>. QED
    BY <2>1, <1>1, MemoryGrows
<1>5. /\ run' \in [step : Steps, uses : SUBSET Nat, arenas : SUBSET Nat]
      /\ run'.uses = run.uses
      /\ \/ run'.step = "publish" /\ run'.arenas = {Len(mem) + 1} /\ UNCHANGED lost
         \/ run'.step = "lost" /\ run'.arenas = {}
  BY <1>1, <1>4 DEF Filed, Memory!Arena, Memory!ArenaLost, Steps
<1>6. Filed'
  BY <1>1, <1>2, <1>3, <1>5 DEF Filed, Memory!Pages
<1>7. Known'
  <2>1. Len(mem) + 1 \notin objects
    BY <1>4 DEF Known, Filed
  <2>2. /\ objects' \subseteq retained' /\ handle' \subseteq objects' /\ attached' \subseteq objects'
        /\ (\A k \in 1..Len(prepared) : prepared[k] \subseteq objects)'
    BY <1>1 DEF Known
  <2>. QED
    BY <1>1, <1>5, <2>1, <2>2 DEF Known
<1>. QED
  BY <1>2, <1>6, <1>7

LEMMA PinnedBy ==
  ASSUME Filed, NEW i
  PROVE  i \in Memory!Pins <=> i \in run.uses \/ \E k \in 1..Len(prepared) : i \in prepared[k]
<1>1. DOMAIN prepared = 1..Len(prepared)
  BY DEF Filed
<1>. QED
  BY <1>1 DEF Memory!Pins, Memory!ToSet

LEMMA ReleaseMemoryKeeps ==
  ASSUME AInv, NEW i, Memory!Release(i)
  PROVE  AInv'
<1>. USE DEF AInv
<1>1. /\ i \in handle /\ i \notin attached /\ handle' = handle \ {i}
      /\ \A k \in 1..Len(prepared) : i \notin prepared[k]
      /\ i \notin run.uses
      /\ UNCHANGED <<mem, attached, prepared, run, busy>>
  BY PinnedBy DEF Memory!Release, Memory!Held
<1>2. {i} \subseteq retained
  BY <1>1 DEF Known
<1>3. \/ /\ ~lost /\ run = Memory!NoRun /\ UNCHANGED lost
         /\ pte' = Memory!Cleared({i}) /\ Memory!Invalidated
         /\ objects' = objects \ {i} /\ retained' = retained \ {i}
      \/ /\ run = Memory!NoRun /\ pte' = Memory!Cleared({i}) /\ lost'
         /\ UNCHANGED <<objects, retained, tlb>>
      \/ /\ lost
         /\ UNCHANGED <<objects, retained, pte, tlb, lost>>
  BY DEF Memory!Release, Memory!Healthy, Memory!Fault
<1>4. Reached' /\ Exact' /\ retained' \subseteq Memory!Ids'
  <2>. DEFINE gone == {i}
  <2>1. gone \subseteq retained
    BY <1>2
  <2>2. \/ pte' = Memory!Cleared(gone) /\ Memory!Invalidated /\ retained' = retained \ gone
           /\ UNCHANGED lost /\ ~lost
        \/ pte' = Memory!Cleared(gone) /\ UNCHANGED <<retained, tlb>> /\ lost'
        \/ UNCHANGED <<mem, retained, pte, tlb, lost>>
    BY <1>1, <1>3
  <2>. HIDE DEF gone
  <2>. QED
    BY <1>1, <2>1, <2>2, ClearKeeps, StillMapped
<1>5. DOMAIN tlb' = Memory!Pages'
  BY <1>3 DEF Filed, Memory!Pages, Memory!Invalidated, Memory!Flushed
<1>6. Filed'
  BY <1>1, <1>4, <1>5 DEF Filed
<1>7. Known'
  <2>1. CASE objects' = objects \ {i} /\ retained' = retained \ {i} /\ UNCHANGED lost /\ run = Memory!NoRun
    BY <1>1, <2>1 DEF Known, Memory!NoRun
  <2>2. CASE UNCHANGED <<objects, retained>> /\ (run = Memory!NoRun \/ UNCHANGED lost)
    BY <1>1, <2>2 DEF Known, Memory!NoRun
  <2>. QED
    BY <1>3, <2>1, <2>2
<1>. QED
  BY <1>4, <1>6, <1>7

LEMMA RetirePrivateKeeps ==
  ASSUME AInv, Memory!RetirePrivate
  PROVE  AInv'
<1>. USE DEF AInv
<1>1. /\ run.step = "retire" /\ pte' = Memory!Cleared(run.arenas)
      /\ UNCHANGED <<mem, objects, handle, attached, prepared, busy>>
      /\ \/ /\ Memory!Invalidated /\ retained' = retained \ run.arenas /\ run' = Memory!NoRun
            /\ UNCHANGED lost
         \/ /\ lost' /\ run' = [run EXCEPT !.step = "lost"] /\ UNCHANGED <<retained, tlb>>
  BY DEF Memory!RetirePrivate, Memory!Healthy, Memory!Fault
<1>2. ~lost /\ run.arenas \subseteq retained \ objects
  BY <1>1 DEF Known
<1>3. Reached' /\ Exact' /\ retained' \subseteq Memory!Ids'
  <2>. DEFINE gone == run.arenas
  <2>1. /\ gone \subseteq retained /\ pte' = Memory!Cleared(gone)
        /\ \/ Memory!Invalidated /\ retained' = retained \ gone /\ UNCHANGED lost /\ ~lost
           \/ UNCHANGED <<retained, tlb>> /\ lost'
    BY <1>1, <1>2
  <2>. HIDE DEF gone
  <2>. QED
    BY <1>1, <2>1, ClearKeeps
<1>4. /\ DOMAIN tlb' = Memory!Pages'
      /\ run' \in [step : Steps, uses : SUBSET Nat, arenas : SUBSET Nat]
      /\ \/ run' = Memory!NoRun /\ retained' = retained \ run.arenas
         \/ /\ run'.step = "lost" /\ run'.uses = run.uses /\ run'.arenas = run.arenas
            /\ UNCHANGED retained
  BY <1>1 DEF Filed, Memory!Pages, Memory!Invalidated, Memory!Flushed, Memory!NoRun, Steps
<1>5. Filed'
  BY <1>1, <1>3, <1>4 DEF Filed
<1>6. Known'
  BY <1>1, <1>2, <1>4 DEF Known, Memory!NoRun
<1>. QED
  BY <1>3, <1>5, <1>6

\* The steps that neither make nor free memory.
LEMMA OthersKeep ==
  ASSUME AInv,
         \/ \E i \in Memory!Ids : Memory!Attach(i) \/ Memory!Detach(i)
         \/ \E uses \in SUBSET attached : Memory!Prepare(uses)
         \/ Memory!Begin \/ Memory!BeginLost \/ Memory!Reject \/ Memory!Kick
         \/ Memory!Fence \/ Memory!FenceLost \/ Memory!RateFault
  PROVE  AInv'
<1>. USE DEF AInv
<1>1. UNCHANGED <<mem, retained, objects, handle, pte, tlb>> /\ (lost => lost')
  BY DEF Memory!Attach, Memory!Detach, Memory!Prepare, Memory!Begin, Memory!BeginLost,
     Memory!Reject, Memory!Kick, Memory!Fence, Memory!FenceLost, Memory!RateFault, Memory!Fault
<1>2. Reached' /\ Exact' /\ retained' \subseteq Memory!Ids'
  BY <1>1, StillMapped
<1>3. DOMAIN tlb' = Memory!Pages' /\ \E T : mem' \in Seq(T)
  BY <1>1 DEF Filed, Memory!Pages
<1>4. CASE \E i \in Memory!Ids : Memory!Attach(i) \/ Memory!Detach(i)
  <2>1. UNCHANGED <<prepared, run, lost>> /\ attached' \subseteq objects
    BY <1>4 DEF Known, Memory!Attach, Memory!Detach
  <2>. QED
    BY <1>1, <1>2, <1>3, <2>1 DEF Filed, Known
<1>5. CASE \E uses \in SUBSET attached : Memory!Prepare(uses)
  <2>1. PICK uses \in SUBSET attached : Memory!Prepare(uses)
    BY <1>5
  <2>2. prepared' = Append(prepared, uses) /\ UNCHANGED <<attached, run, lost>>
    BY <2>1 DEF Memory!Prepare
  <2>3. uses \subseteq objects /\ uses \in SUBSET Nat
    BY DEF Known, Filed, Memory!Ids
  <2>4. /\ prepared' \in Seq(SUBSET Nat)
        /\ \A k \in 1..Len(prepared') : prepared'[k] \subseteq objects
    <3>1. /\ prepared \in Seq(SUBSET Nat)
          /\ \A k \in 1..Len(prepared) : prepared[k] \subseteq objects
      BY DEF Known, Filed
    <3>2. /\ Append(prepared, uses) \in Seq(SUBSET Nat)
          /\ Len(Append(prepared, uses)) = Len(prepared) + 1
          /\ \A k \in 1..Len(prepared) : Append(prepared, uses)[k] = prepared[k]
          /\ Append(prepared, uses)[Len(prepared) + 1] = uses
          /\ Len(prepared) \in Nat
      BY <2>3, <3>1
    <3>3. ASSUME NEW k \in 1..Len(prepared') PROVE prepared'[k] \subseteq objects
      <4>1. k \in 1..Len(prepared) \/ k = Len(prepared) + 1
        BY <2>2, <3>2
      <4>2. CASE k \in 1..Len(prepared)
        BY <2>2, <3>1, <3>2, <4>2
      <4>3. CASE k = Len(prepared) + 1
        BY <2>2, <2>3, <3>2, <4>3
      <4>. QED
        BY <4>1, <4>2, <4>3
    <3>. QED
      BY <2>2, <3>2, <3>3
  <2>. QED
    BY <1>1, <1>2, <1>3, <2>2, <2>4 DEF Filed, Known
<1>6. CASE Memory!Begin \/ Memory!BeginLost
  <2>1. /\ prepared # << >> /\ prepared' = Tail(prepared) /\ UNCHANGED <<attached, lost>>
        /\ run' = [step |-> run'.step, uses |-> Head(prepared), arenas |-> {}]
        /\ (run'.step = "publish" /\ ~lost) \/ run'.step = "lost"
    BY <1>6 DEF Memory!Begin, Memory!BeginLost
  <2>2. /\ prepared' \in Seq(SUBSET Nat) /\ Head(prepared) \in SUBSET Nat
        /\ Head(prepared) \subseteq objects
        /\ \A k \in 1..Len(prepared') : prepared'[k] \subseteq objects
    <3>1. /\ prepared \in Seq(SUBSET Nat)
          /\ \A k \in 1..Len(prepared) : prepared[k] \subseteq objects
      BY DEF Known, Filed
    <3>2. /\ Tail(prepared) \in Seq(SUBSET Nat) /\ Len(prepared) \in Nat \ {0}
          /\ Len(Tail(prepared)) = Len(prepared) - 1 /\ Head(prepared) = prepared[1]
          /\ \A k \in 1..Len(prepared) - 1 : Tail(prepared)[k] = prepared[k + 1]
      BY <2>1, <3>1
    <3>3. \A k \in 1..Len(prepared') : prepared'[k] \subseteq objects
      BY <2>1, <3>1, <3>2
    <3>. QED
      BY <2>1, <3>1, <3>2, <3>3
  <2>3. run'.uses = Head(prepared) /\ run'.arenas = {} /\ run'.step \in {"publish", "lost"}
    BY <2>1
  <2>4. run' \in [step : Steps, uses : SUBSET Nat, arenas : SUBSET Nat]
    BY <2>1, <2>2, <2>3 DEF Steps
  <2>. QED
    BY <1>1, <1>2, <1>3, <2>1, <2>2, <2>3, <2>4 DEF Filed, Known
<1>7. CASE Memory!Reject \/ Memory!Kick \/ Memory!Fence \/ Memory!FenceLost
  <2>1. /\ UNCHANGED <<attached, prepared>>
        /\ run.step \in {"publish", "wait"}
        /\ \/ UNCHANGED lost /\ \E s \in {"retire", "wait"} : run' = [run EXCEPT !.step = s]
           \/ run' = [run EXCEPT !.step = "lost"]
    BY <1>7 DEF Memory!Reject, Memory!Kick, Memory!Fence, Memory!FenceLost
  <2>2. /\ run' \in [step : Steps, uses : SUBSET Nat, arenas : SUBSET Nat]
        /\ run'.uses = run.uses /\ run'.arenas = run.arenas
        /\ (run'.step \in {"retire", "wait"} /\ UNCHANGED lost) \/ run'.step = "lost"
    BY <2>1 DEF Filed, Steps
  <2>. QED
    BY <1>1, <1>2, <1>3, <2>1, <2>2 DEF Filed, Known
<1>8. CASE Memory!RateFault
  BY <1>1, <1>2, <1>3, <1>8 DEF Filed, Known, Memory!RateFault, Memory!NoRun
<1>. QED
  BY <1>4, <1>5, <1>6, <1>7, <1>8

LEMMA MemoryKept == AInv /\ [Memory!Next]_(Memory!vars) => AInv'
<1>. SUFFICES ASSUME AInv, [Memory!Next]_(Memory!vars) PROVE AInv'
  OBVIOUS
<1>1. CASE Memory!GpuWalk
  <2>1. Filed'
    BY <1>1, WalkKeeps DEF AInv, Filed, Memory!GpuWalk
  <2>2. Known'
    BY <1>1 DEF AInv, Known, Memory!GpuWalk
  <2>. QED
    BY <1>1, <2>1, <2>2, WalkKeeps DEF AInv
<1>2. CASE UNCHANGED Memory!vars
  BY <1>2, StillMapped DEF AInv, Filed, Known, Memory!vars, Memory!Pages
<1>3. CASE Memory!Next /\ ~Memory!GpuWalk
  BY <1>3, CreateKeeps, ArenaKeeps, ReleaseMemoryKeeps, RetirePrivateKeeps, OthersKeep DEF Memory!Next
<1>. QED
  BY <1>1, <1>2, <1>3

LEMMA SafeMemory ==
  AInv => Memory!DmaBackingAlive /\ Memory!TableIsExact /\ Memory!RequestsKeepTheirMemory
<1>. SUFFICES ASSUME AInv
              PROVE  Memory!DmaBackingAlive /\ Memory!TableIsExact /\ Memory!RequestsKeepTheirMemory
  OBVIOUS
<1>. USE DEF AInv
<1>1. Memory!DmaBackingAlive
  BY DEF Reached, Memory!DmaBackingAlive, Memory!Alive
<1>2. Memory!TableIsExact
  <2>. DEFINE S(p) == {i \in retained : p \in Memory!PagesOf(i)}
  <2>1. ASSUME ~lost, NEW p \in Memory!Pages PROVE Cardinality(S(p)) <= 1
    <3>. DEFINE e == pte[p]
                T == S(p)
    <3>1. T \subseteq {e}
      BY <2>1 DEF Exact
    <3>. HIDE DEF e, T
    <3>2. IsFiniteSet({e}) /\ Cardinality({e}) = 1
      BY FS_Singleton
    <3>3. Cardinality(T) \in Nat /\ Cardinality(T) <= 1
      BY <3>1, <3>2, FS_Subset, FS_CardinalityType
    <3>. QED
      BY <3>3 DEF T
  <2>2. 0 \notin retained
    BY DEF Filed, Memory!Ids
  <2>3. ASSUME ~lost, NEW p \in Memory!Pages
        PROVE  /\ pte[p] # 0 => pte[p] \in retained /\ p \in Memory!PagesOf(pte[p])
               /\ tlb[p] \subseteq {pte[p]}
               /\ (\E i \in retained : p \in Memory!PagesOf(i)) => pte[p] # 0
    BY <2>2, <2>3 DEF Reached, Exact
  <2>4. ASSUME ~lost, NEW p \in Memory!Pages
        PROVE  Cardinality({i \in retained : p \in Memory!PagesOf(i)}) <= 1
    BY <2>1, <2>4
  <2>. HIDE DEF S
  <2>5. \A X : Memory!Cardinality(X) = Cardinality(X)
    BY DEF Memory!Cardinality, Cardinality
  <2>. QED
    BY <2>3, <2>4, <2>5, Zenon DEF Memory!TableIsExact
<1>3. Memory!RequestsKeepTheirMemory
  <2>1. Memory!Pins \subseteq retained
    BY PinnedBy DEF Known
  <2>2. \A i : Memory!PagesOf(i) \subseteq Memory!Pages
    BY DEF Memory!PagesOf
  <2>. QED
    BY <2>1, <2>2 DEF Exact, Memory!RequestsKeepTheirMemory
<1>. QED
  BY <1>1, <1>2, <1>3

\* A behaviour of the run, seen through the variables of this part, is one of
\* the component: the other parts leave them alone.
LEMMA MemoryPart ==
  OwnershipSpec => Memory!Init /\ [][Memory!Next]_(Memory!vars)
<1>1. OwnershipInit => Memory!Init
  BY DEF OwnershipInit
<1>2. [OwnershipNext]_all => [Memory!Next]_(Memory!vars)
  BY DEF OwnershipNext, all, memory, Memory!vars, WorkerOnly, PushOnly, PopOnly, MemoryOnly,
     SplitOnly, DispatchOnly, ResourcesOnly, VideoOnly
<1>. QED
  BY <1>1, <1>2, PTL DEF OwnershipSpec

\* Whatever is allocated, imported, released, executed or lost, and however long a
\* request waits: a GPU that still works reaches only memory somebody holds, the
\* table of a healthy device maps exactly the retained memory and its translation
\* cache nothing else, and a request finds its memory where it was checked
\* (executor.rs, gmmu.rs).
THEOREM MemoryIsSafe == OwnershipSpec => []MemorySafe
<1>1. Memory!Init => AInv
  BY MemoryInit
<1>2. AInv /\ [Memory!Next]_(Memory!vars) => AInv'
  BY MemoryKept
<1>3. AInv => MemorySafe
  BY SafeMemory DEF MemorySafe
<1>. QED
  BY <1>1, <1>2, <1>3, MemoryPart, PTL


----------------------------------------------------------------------------
(* The dispatcher: for any number of clients, jobs and chunks. *)

\* The bounds of the model are numbers.
DispatchBounds ==
    MaxChunks \in Nat /\ MaxJobs \in Nat /\ MaxSubmissions \in Nat /\ MaxBytes \in Nat
    /\ MaxInFlight \in Nat /\ MaxPressure \in Nat /\ MaxLost \in Nat

Job == [id : 1..MaxJobs, chunks : Seq(Kinds), next : Nat \ {0}, receipts : SUBSET Nat]

\* The shape of the state.
DispatchShaped ==
    /\ jobs \in Seq(Job)
    /\ signal \in [1..MaxJobs -> {"none", "pending", "ok", "failed"}]
    /\ failure \in BOOLEAN
    /\ gpu \subseteq (1..MaxJobs) \X Nat
    /\ d_log \in Seq((1..MaxJobs) \X Nat)
    /\ wpc \in {"consume", "clear", "lock", "retire", "submit", "sleep", "exit"}
    /\ cpc \in [Dispatch!Notifiers -> {"idle", "swap", "write"}] /\ pipe \in Nat /\ d_lost \in Nat
    /\ d_op \in [at : {"idle", "hold", "wait", "again"}, how : {"try", "wait", "drain"}, job : 0..MaxJobs]

\* The lock has one holder, the worker holds it while it retires and submits, and
\* the owner that drops the scheduler notifies only then.
Locked ==
    /\ closing \/ Dispatch!Dropper \in Clients \/ cpc[Dispatch!Dropper] = "idle"
    /\ wpc \in {"retire", "submit"} => lock = "worker"
    /\ d_op.at = "hold" => lock = "op"

\* Ids are given in order of admission: the admitted ones are a prefix.
Prefix(n) == n \in 0..MaxJobs /\ \A j \in 1..MaxJobs : signal[j] # "none" <=> j <= n
Admits == \E n \in 0..MaxJobs : Prefix(n)

\* The queue holds exactly the pending jobs, in order of admission; after a
\* failure it holds none, and only a failure fails a job.
Queued ==
    /\ \A i, k \in DOMAIN jobs : i < k => jobs[i].id < jobs[k].id
    /\ \A i \in DOMAIN jobs : signal[jobs[i].id] = "pending"
    /\ \A j \in 1..MaxJobs : signal[j] = "pending" => \E i \in DOMAIN jobs : jobs[i].id = j
    /\ failure => jobs = <<>>
    /\ \A j \in 1..MaxJobs : signal[j] = "failed" => failure

\* What the device runs has a receipt in a queued job.
Held == ~failure => \A x \in gpu : \E i \in DOMAIN jobs : x[1] = jobs[i].id /\ x[2] \in jobs[i].receipts

\* What was handed over lies before all that still waits.
Handed ==
    /\ \A e \in DOMAIN d_log : signal[d_log[e][1]] # "none"
    /\ \A e \in DOMAIN d_log, i \in DOMAIN jobs :
         jobs[i].next <= Len(jobs[i].chunks) =>
           d_log[e][1] < jobs[i].id \/ (d_log[e][1] = jobs[i].id /\ d_log[e][2] < jobs[i].next)

\* The flag is set only with a byte in the pipe, on its way, or just taken; and
\* an admission the worker has not seen has a byte, a notifier, or a worker that
\* is about to look.
Woken ==
    d_lost = 0 =>
      /\ flag => pipe > 0 \/ wpc = "clear" \/ \E c \in Dispatch!Notifiers : cpc[c] = "write"
      /\ Dispatch!Admitted > seen =>
           \/ pipe > 0 \/ wpc \in {"clear", "lock", "exit"}
           \/ \E c \in Dispatch!Notifiers : cpc[c] \in {"swap", "write"}

DInv == /\ DispatchShaped /\ Locked /\ Admits /\ Queued /\ Held /\ Handed /\ Woken
        /\ Dispatch!OkMeansRetired /\ Dispatch!DetachIsQuiesced /\ Dispatch!DispatchInOrder

-----------------------------------------------------------------------------
(* Lemmas about the operators. *)

\* A nonempty set of naturals has a least element, so First is one of Waiting.
LEMMA LeastExists ==
  ASSUME NEW T, T \subseteq Nat, T # {}
  PROVE  \E x \in T : \A y \in T : x <= y
<1>. DEFINE F == {0..i : i \in T}
<1>1. F \subseteq FiniteSubsetsOf(Nat) /\ F # {}
  <2>1. \A i \in T : 0..i \subseteq Nat /\ IsFiniteSet(0..i)
    BY FS_Interval
  <2>. QED
    BY <2>1 DEF FiniteSubsetsOf
<1>2. PICK S \in F : \A Q \in F : ~ (<<Q, S>> \in StrictSubsetOrdering(Nat))
  BY <1>1, FS_StrictSubsetOrderingWellFounded, WFMin
<1>3. PICK x \in T : S = 0..x
  OBVIOUS
<1>4. ASSUME NEW y \in T, y < x
      PROVE  FALSE
  <2>1. x \in Nat /\ y \in Nat
    OBVIOUS
  <2>2. 0..y \subseteq 0..x /\ 0..y # 0..x
    <3>1. x \in 0..x /\ x \notin 0..y
      BY <1>4, <2>1
    <3>. QED
      BY <1>4, <2>1, <3>1
  <2>3. <<0..y, 0..x>> \in StrictSubsetOrdering(Nat)
    BY <2>1, <2>2 DEF StrictSubsetOrdering
  <2>. QED
    BY <1>2, <1>3, <2>3
<1>. QED
  BY <1>4

\* The first job with a chunk left is one of the waiting jobs.
LEMMA FirstWaits ==
  ASSUME DispatchShaped, Dispatch!Waiting # {}
  PROVE  /\ Dispatch!First \in DOMAIN jobs
         /\ jobs[Dispatch!First].next <= Len(jobs[Dispatch!First].chunks)
         /\ \A k \in DOMAIN jobs : jobs[k].next <= Len(jobs[k].chunks) => Dispatch!First <= k
<1>1. Dispatch!Waiting \subseteq Nat
  BY DEF Dispatch!Waiting, DispatchShaped
<1>2. \E i \in Dispatch!Waiting : \A k \in Dispatch!Waiting : i <= k
  BY <1>1, LeastExists
<1>3. Dispatch!First \in Dispatch!Waiting /\ \A k \in Dispatch!Waiting : Dispatch!First <= k
  BY <1>2 DEF Dispatch!First
<1>. QED
  BY <1>3 DEF Dispatch!Waiting

\* The dispatcher's Cardinality and Last are the library's.
LEMMA SameCardinality ==
  ASSUME NEW S
  PROVE  Dispatch!Cardinality(S) = Cardinality(S)
BY DEF Dispatch!Cardinality, Cardinality

\* The admitted jobs are counted by the last of them.
LEMMA AdmittedIs ==
  ASSUME DispatchBounds, NEW n, Prefix(n)
  PROVE  Dispatch!Admitted = n
<1>1. n \in Nat
  BY DEF DispatchBounds, Prefix
<1>2. {j \in 1..MaxJobs : signal[j] # "none"} = 1..n
  BY <1>1 DEF DispatchBounds, Prefix
<1>3. Cardinality(1..n) = n
  BY <1>1, FS_Interval
<1>. QED
  BY <1>2, <1>3, SameCardinality DEF Dispatch!Admitted

\* The fields of a queued job.
LEMMA JobFields ==
  ASSUME DispatchShaped, NEW i \in DOMAIN jobs
  PROVE  /\ jobs[i] \in Job /\ jobs[i].id \in 1..MaxJobs /\ jobs[i].chunks \in Seq(Kinds)
         /\ jobs[i].next \in Nat \ {0} /\ jobs[i].receipts \in SUBSET Nat
         /\ i \in Nat /\ i >= 1 /\ Len(jobs) \in Nat /\ i <= Len(jobs) /\ DOMAIN jobs = 1..Len(jobs)
<1>1. jobs[i] \in Job
  BY DEF DispatchShaped
<1>. QED
  BY <1>1 DEF Job, DispatchShaped

\* A step that leaves the queue, the signals and the log alone, and at most
\* retires work of the device, keeps what is said about them.
LEMMA QuietKeeps ==
  ASSUME DInv, UNCHANGED <<jobs, signal, failure, d_log>>, gpu' \subseteq gpu
  PROVE  /\ Admits' /\ Queued' /\ Held' /\ Handed' /\ Dispatch!OkMeansRetired' /\ Dispatch!DispatchInOrder'
         /\ Dispatch!Admitted' = Dispatch!Admitted
<1>1. Admits' /\ Queued' /\ Handed' /\ Dispatch!DispatchInOrder'
  BY DEF DInv, Admits, Prefix, Queued, Handed, Dispatch!DispatchInOrder
<1>2. Held' /\ Dispatch!OkMeansRetired'
  BY DEF DInv, Held, Dispatch!OkMeansRetired
<1>3. Dispatch!Admitted' = Dispatch!Admitted
  BY DEF Dispatch!Admitted
<1>. QED
  BY <1>1, <1>2, <1>3

\* A nonempty queue has a last job.
LEMMA LastJob ==
  ASSUME DispatchShaped, jobs # <<>>
  PROVE  Last(jobs).id \in 0..MaxJobs
<1>1. Len(jobs) \in DOMAIN jobs
  BY DEF DispatchShaped
<1>. QED
  BY <1>1, JobFields DEF Last

\* The scheduler's drop closes the queue and then notifies.
LEMMA DropSchedulerKeeps ==
  ASSUME DispatchBounds, DInv, Dispatch!DropScheduler
  PROVE  DInv'
<1>1. UNCHANGED <<jobs, signal, failure, d_log>> /\ gpu' \subseteq gpu
  BY DEF Dispatch!DropScheduler, Dispatch!sched, Dispatch!hw
<1>2. DispatchShaped'
  BY <1>1
     DEF Dispatch!DropScheduler, Dispatch!wake, Dispatch!hw, DInv, DispatchShaped, DispatchBounds,
         Dispatch!Notifiers
<1>3. Locked'
  BY DEF Dispatch!DropScheduler, DInv, Locked, DispatchShaped, Dispatch!Notifiers, Dispatch!Dropper
<1>4. Woken'
  BY <1>1, QuietKeeps
     DEF Dispatch!DropScheduler, Dispatch!wake, DInv, DispatchShaped, Locked, Woken, Dispatch!Notifiers
<1>5. Dispatch!DetachIsQuiesced'
  BY <1>1
     DEF Dispatch!DropScheduler, Dispatch!sched, Dispatch!hw, DInv, Dispatch!DetachIsQuiesced
<1>. QED
  BY <1>1, <1>2, <1>3, <1>4, <1>5, QuietKeeps DEF DInv

\* A notifier publishes the flag; the first one goes on to write the byte.
LEMMA NotifySwapKeeps ==
  ASSUME DispatchBounds, DInv, NEW c \in Dispatch!Notifiers, Dispatch!NotifySwap(c)
  PROVE  DInv'
<1>1. UNCHANGED <<jobs, signal, failure, d_log>> /\ gpu' \subseteq gpu
  BY DEF Dispatch!NotifySwap, Dispatch!sched, Dispatch!hw
<1>2. DispatchShaped'
  BY <1>1
     DEF Dispatch!NotifySwap, Dispatch!wake, Dispatch!hw, DInv, DispatchShaped, DispatchBounds,
         Dispatch!Notifiers
<1>3. Locked'
  BY DEF Dispatch!NotifySwap, DInv, Locked, DispatchShaped, Dispatch!Notifiers
<1>4. Woken'
  BY <1>1, QuietKeeps
     DEF Dispatch!NotifySwap, Dispatch!wake, DInv, DispatchShaped, Woken, Dispatch!Notifiers
<1>5. Dispatch!DetachIsQuiesced'
  BY <1>1 DEF Dispatch!NotifySwap, Dispatch!sched, Dispatch!hw, DInv, Dispatch!DetachIsQuiesced
<1>. QED
  BY <1>1, <1>2, <1>3, <1>4, <1>5, QuietKeeps DEF DInv

\* The byte makes the worker's pipe readable.
LEMMA NotifyWriteKeeps ==
  ASSUME DispatchBounds, DInv, NEW c \in Dispatch!Notifiers, Dispatch!NotifyWrite(c)
  PROVE  DInv'
<1>1. UNCHANGED <<jobs, signal, failure, d_log>> /\ gpu' \subseteq gpu
  BY DEF Dispatch!NotifyWrite, Dispatch!sched, Dispatch!hw
<1>2. DispatchShaped'
  BY <1>1
     DEF Dispatch!NotifyWrite, Dispatch!wake, Dispatch!hw, DInv, DispatchShaped, DispatchBounds,
         Dispatch!Notifiers
<1>3. Locked'
  BY DEF Dispatch!NotifyWrite, DInv, Locked, DispatchShaped, Dispatch!Notifiers
<1>4. Woken'
  BY <1>1, QuietKeeps
     DEF Dispatch!NotifyWrite, Dispatch!wake, DInv, DispatchShaped, Woken, Dispatch!Notifiers
<1>5. Dispatch!DetachIsQuiesced'
  BY <1>1 DEF Dispatch!NotifyWrite, Dispatch!sched, Dispatch!hw, DInv, Dispatch!DetachIsQuiesced
<1>. QED
  BY <1>1, <1>2, <1>3, <1>4, <1>5, QuietKeeps DEF DInv

\* A failed write is counted, and nothing is promised after it.
LEMMA NotifyFailsKeeps ==
  ASSUME DispatchBounds, DInv, NEW c \in Dispatch!Notifiers, Dispatch!NotifyFails(c)
  PROVE  DInv'
<1>1. UNCHANGED <<jobs, signal, failure, d_log>> /\ gpu' \subseteq gpu
  BY DEF Dispatch!NotifyFails, Dispatch!sched, Dispatch!hw
<1>2. DispatchShaped'
  BY <1>1
     DEF Dispatch!NotifyFails, Dispatch!wake, Dispatch!hw, DInv, DispatchShaped, DispatchBounds,
         Dispatch!Notifiers
<1>3. Locked'
  BY DEF Dispatch!NotifyFails, DInv, Locked, DispatchShaped, Dispatch!Notifiers
<1>4. Woken'
  BY <1>1, QuietKeeps
     DEF Dispatch!NotifyFails, Dispatch!wake, DInv, DispatchShaped, Woken, Dispatch!Notifiers
<1>5. Dispatch!DetachIsQuiesced'
  BY <1>1 DEF Dispatch!NotifyFails, Dispatch!sched, Dispatch!hw, DInv, Dispatch!DetachIsQuiesced
<1>. QED
  BY <1>1, <1>2, <1>3, <1>4, <1>5, QuietKeeps DEF DInv

\* The worker empties the pipe before it clears the flag.
LEMMA ConsumeKeeps ==
  ASSUME DispatchBounds, DInv, Dispatch!Consume
  PROVE  DInv'
<1>1. UNCHANGED <<jobs, signal, failure, d_log>> /\ gpu' \subseteq gpu
  BY DEF Dispatch!Consume, Dispatch!sched, Dispatch!hw
<1>2. DispatchShaped'
  BY <1>1
     DEF Dispatch!Consume, Dispatch!wake, Dispatch!hw, DInv, DispatchShaped, DispatchBounds, Dispatch!Notifiers
<1>3. Locked'
  BY DEF Dispatch!Consume, DInv, Locked
<1>4. Woken'
  BY <1>1, QuietKeeps
     DEF Dispatch!Consume, Dispatch!wake, DInv, DispatchShaped, Woken, Dispatch!Notifiers
<1>5. Dispatch!DetachIsQuiesced'
  BY <1>1 DEF Dispatch!Consume, Dispatch!sched, Dispatch!hw, DInv, Dispatch!DetachIsQuiesced
<1>. QED
  BY <1>1, <1>2, <1>3, <1>4, <1>5, QuietKeeps DEF DInv

\* The worker looks at the queue after it has cleared the flag.
LEMMA ConsumeClearKeeps ==
  ASSUME DispatchBounds, DInv, Dispatch!ConsumeClear
  PROVE  DInv'
<1>1. UNCHANGED <<jobs, signal, failure, d_log>> /\ gpu' \subseteq gpu
  BY DEF Dispatch!ConsumeClear, Dispatch!sched, Dispatch!hw
<1>2. DispatchShaped'
  BY <1>1
     DEF Dispatch!ConsumeClear, Dispatch!wake, Dispatch!hw, DInv, DispatchShaped, DispatchBounds,
         Dispatch!Notifiers
<1>3. Locked'
  BY DEF Dispatch!ConsumeClear, DInv, Locked
<1>4. Woken'
  BY <1>1, QuietKeeps
     DEF Dispatch!ConsumeClear, Dispatch!wake, DInv, DispatchShaped, Woken, Dispatch!Notifiers
<1>5. Dispatch!DetachIsQuiesced'
  BY <1>1
     DEF Dispatch!ConsumeClear, Dispatch!sched, Dispatch!hw, DInv, Dispatch!DetachIsQuiesced
<1>. QED
  BY <1>1, <1>2, <1>3, <1>4, <1>5, QuietKeeps DEF DInv

\* The worker goes on when the front job is not finished.
LEMMA RetireDoneKeeps ==
  ASSUME DispatchBounds, DInv, Dispatch!RetireDone
  PROVE  DInv'
<1>1. UNCHANGED <<jobs, signal, failure, d_log>> /\ gpu' \subseteq gpu
  BY DEF Dispatch!RetireDone, Dispatch!sched, Dispatch!hw
<1>2. DispatchShaped'
  BY <1>1
     DEF Dispatch!RetireDone, Dispatch!wake, Dispatch!hw, DInv, DispatchShaped, DispatchBounds,
         Dispatch!Notifiers
<1>3. Locked'
  BY DEF Dispatch!RetireDone, DInv, Locked
<1>4. Woken'
  BY <1>1, QuietKeeps
     DEF Dispatch!RetireDone, Dispatch!wake, DInv, DispatchShaped, Woken, Dispatch!Notifiers
<1>5. Dispatch!DetachIsQuiesced'
  BY <1>1 DEF Dispatch!RetireDone, Dispatch!sched, Dispatch!hw, DInv, Dispatch!DetachIsQuiesced
<1>. QED
  BY <1>1, <1>2, <1>3, <1>4, <1>5, QuietKeeps DEF DInv

\* The worker leaves the lock with what it has seen.
LEMMA AdvanceReturnsKeeps ==
  ASSUME DispatchBounds, DInv, Dispatch!AdvanceReturns
  PROVE  DInv'
<1>1. UNCHANGED <<jobs, signal, failure, d_log>> /\ gpu' \subseteq gpu
  BY DEF Dispatch!AdvanceReturns, Dispatch!sched, Dispatch!hw
<1>2. DispatchShaped'
  BY <1>1
     DEF Dispatch!AdvanceReturns, Dispatch!wake, Dispatch!hw, DInv, DispatchShaped, DispatchBounds,
         Dispatch!Notifiers
<1>3. Locked'
  BY DEF Dispatch!AdvanceReturns, DInv, Locked
<1>4. Woken'
  BY <1>1, QuietKeeps
     DEF Dispatch!AdvanceReturns, Dispatch!wake, DInv, DispatchShaped, Woken, Dispatch!Notifiers
<1>5. Dispatch!DetachIsQuiesced'
  BY <1>1
     DEF Dispatch!AdvanceReturns, Dispatch!sched, Dispatch!hw, DInv, Dispatch!DetachIsQuiesced
<1>. QED
  BY <1>1, <1>2, <1>3, <1>4, <1>5, QuietKeeps DEF DInv

\* The worker wakes for the pipe, a fence or its time-out.
LEMMA WakesKeeps ==
  ASSUME DispatchBounds, DInv, Dispatch!Wakes
  PROVE  DInv'
<1>1. UNCHANGED <<jobs, signal, failure, d_log>> /\ gpu' \subseteq gpu
  BY DEF Dispatch!Wakes, Dispatch!sched, Dispatch!hw
<1>2. DispatchShaped'
  BY <1>1
     DEF Dispatch!Wakes, Dispatch!wake, Dispatch!hw, DInv, DispatchShaped, DispatchBounds, Dispatch!Notifiers
<1>3. Locked'
  BY DEF Dispatch!Wakes, DInv, Locked
<1>4. Woken'
  BY <1>1, QuietKeeps DEF Dispatch!Wakes, Dispatch!wake, DInv, DispatchShaped, Woken, Dispatch!Notifiers
<1>5. Dispatch!DetachIsQuiesced'
  BY <1>1 DEF Dispatch!Wakes, Dispatch!sched, Dispatch!hw, DInv, Dispatch!DetachIsQuiesced
<1>. QED
  BY <1>1, <1>2, <1>3, <1>4, <1>5, QuietKeeps DEF DInv

\* A waiter goes back to check when its job has settled.
LEMMA OpWaitedKeeps ==
  ASSUME DispatchBounds, DInv, Dispatch!OpWaited
  PROVE  DInv'
<1>1. UNCHANGED <<jobs, signal, failure, d_log>> /\ gpu' \subseteq gpu
  BY DEF Dispatch!OpWaited, Dispatch!sched, Dispatch!hw
<1>2. DispatchShaped'
  BY <1>1
     DEF Dispatch!OpWaited, Dispatch!wake, Dispatch!hw, DInv, DispatchShaped, DispatchBounds, Dispatch!Notifiers
<1>3. Locked'
  BY DEF Dispatch!OpWaited, DInv, Locked
<1>4. Woken'
  BY <1>1, QuietKeeps
     DEF Dispatch!OpWaited, Dispatch!wake, DInv, DispatchShaped, Woken, Dispatch!Notifiers
<1>5. Dispatch!DetachIsQuiesced'
  BY <1>1 DEF Dispatch!OpWaited, Dispatch!sched, Dispatch!hw, DInv, Dispatch!DetachIsQuiesced
<1>. QED
  BY <1>1, <1>2, <1>3, <1>4, <1>5, QuietKeeps DEF DInv

\* A detach gives the lock back.
LEMMA OpDoneKeeps ==
  ASSUME DispatchBounds, DInv, Dispatch!OpDone
  PROVE  DInv'
<1>1. UNCHANGED <<jobs, signal, failure, d_log>> /\ gpu' \subseteq gpu
  BY DEF Dispatch!OpDone, Dispatch!sched, Dispatch!hw
<1>2. DispatchShaped'
  BY <1>1
     DEF Dispatch!OpDone, Dispatch!wake, Dispatch!hw, DInv, DispatchShaped, DispatchBounds, Dispatch!Notifiers
<1>3. Locked'
  BY DEF Dispatch!OpDone, DInv, Locked
<1>4. Woken'
  BY <1>1, QuietKeeps
     DEF Dispatch!OpDone, Dispatch!wake, DInv, DispatchShaped, Woken, Dispatch!Notifiers
<1>5. Dispatch!DetachIsQuiesced'
  BY <1>1 DEF Dispatch!OpDone, Dispatch!sched, Dispatch!hw, DInv, Dispatch!DetachIsQuiesced
<1>. QED
  BY <1>1, <1>2, <1>3, <1>4, <1>5, QuietKeeps DEF DInv

\* Another context fills the device's queue.
LEMMA OtherContextFillsKeeps ==
  ASSUME DispatchBounds, DInv, Dispatch!OtherContextFills
  PROVE  DInv'
<1>1. UNCHANGED <<jobs, signal, failure, d_log>> /\ gpu' \subseteq gpu
  BY DEF Dispatch!OtherContextFills, Dispatch!sched, Dispatch!hw
<1>2. DispatchShaped'
  BY <1>1
     DEF Dispatch!OtherContextFills, Dispatch!wake, Dispatch!hw, DInv, DispatchShaped, DispatchBounds,
         Dispatch!Notifiers
<1>3. Locked'
  BY DEF Dispatch!OtherContextFills, DInv, Locked
<1>4. Woken'
  BY <1>1, QuietKeeps
     DEF Dispatch!OtherContextFills, Dispatch!wake, DInv, DispatchShaped, Woken, Dispatch!Notifiers
<1>5. Dispatch!DetachIsQuiesced'
  BY <1>1
     DEF Dispatch!OtherContextFills, Dispatch!sched, Dispatch!hw, DInv,
         Dispatch!DetachIsQuiesced
<1>. QED
  BY <1>1, <1>2, <1>3, <1>4, <1>5, QuietKeeps DEF DInv

\* Another context's work drains.
LEMMA OtherContextDrainsKeeps ==
  ASSUME DispatchBounds, DInv, Dispatch!OtherContextDrains
  PROVE  DInv'
<1>1. UNCHANGED <<jobs, signal, failure, d_log>> /\ gpu' \subseteq gpu
  BY DEF Dispatch!OtherContextDrains, Dispatch!sched, Dispatch!hw
<1>2. DispatchShaped'
  BY <1>1
     DEF Dispatch!OtherContextDrains, Dispatch!wake, Dispatch!hw, DInv, DispatchShaped, DispatchBounds,
         Dispatch!Notifiers
<1>3. Locked'
  BY DEF Dispatch!OtherContextDrains, DInv, Locked
<1>4. Woken'
  BY <1>1, QuietKeeps
     DEF Dispatch!OtherContextDrains, Dispatch!wake, DInv, DispatchShaped, Woken, Dispatch!Notifiers
<1>5. Dispatch!DetachIsQuiesced'
  BY <1>1
     DEF Dispatch!OtherContextDrains, Dispatch!sched, Dispatch!hw, DInv,
         Dispatch!DetachIsQuiesced
<1>. QED
  BY <1>1, <1>2, <1>3, <1>4, <1>5, QuietKeeps DEF DInv

\* The device retires a handed-over chunk.
LEMMA GpuRetiresKeeps ==
  ASSUME DispatchBounds, DInv, NEW x, Dispatch!GpuRetires(x)
  PROVE  DInv'
<1>1. UNCHANGED <<jobs, signal, failure, d_log>> /\ gpu' \subseteq gpu
  BY DEF Dispatch!GpuRetires, Dispatch!sched, Dispatch!hw
<1>2. DispatchShaped'
  BY <1>1
     DEF Dispatch!GpuRetires, Dispatch!wake, Dispatch!hw, DInv, DispatchShaped, DispatchBounds,
         Dispatch!Notifiers
<1>3. Locked'
  BY DEF Dispatch!GpuRetires, DInv, Locked
<1>4. Woken'
  BY <1>1, QuietKeeps
     DEF Dispatch!GpuRetires, Dispatch!wake, DInv, DispatchShaped, Woken, Dispatch!Notifiers
<1>5. Dispatch!DetachIsQuiesced'
  BY <1>1 DEF Dispatch!GpuRetires, Dispatch!sched, Dispatch!hw, DInv, Dispatch!DetachIsQuiesced
<1>. QED
  BY <1>1, <1>2, <1>3, <1>4, <1>5, QuietKeeps DEF DInv

\* The device loses a handed-over chunk.
LEMMA GpuFailsKeeps ==
  ASSUME DispatchBounds, DInv, NEW x, Dispatch!GpuFails(x)
  PROVE  DInv'
<1>1. UNCHANGED <<jobs, signal, failure, d_log>> /\ gpu' \subseteq gpu
  BY DEF Dispatch!GpuFails, Dispatch!sched, Dispatch!hw
<1>2. DispatchShaped'
  BY <1>1
     DEF Dispatch!GpuFails, Dispatch!wake, Dispatch!hw, DInv, DispatchShaped, DispatchBounds, Dispatch!Notifiers
<1>3. Locked'
  BY DEF Dispatch!GpuFails, DInv, Locked
<1>4. Woken'
  BY <1>1, QuietKeeps
     DEF Dispatch!GpuFails, Dispatch!wake, DInv, DispatchShaped, Woken, Dispatch!Notifiers
<1>5. Dispatch!DetachIsQuiesced'
  BY <1>1 DEF Dispatch!GpuFails, Dispatch!sched, Dispatch!hw, DInv, Dispatch!DetachIsQuiesced
<1>. QED
  BY <1>1, <1>2, <1>3, <1>4, <1>5, QuietKeeps DEF DInv

\* An operation that needs an idle queue finds it idle, fails, or waits for the last job.
LEMMA OpCheckKeeps ==
  ASSUME DispatchBounds, DInv, NEW how \in {"try", "wait", "drain"}, Dispatch!OpCheck(how)
  PROVE  DInv'
<1>1. UNCHANGED <<jobs, signal, failure, d_log, gpu, wpc, closing, cpc, Dispatch!wake, seen>>
  BY DEF Dispatch!OpCheck, Dispatch!sched, Dispatch!hw
<1>2. /\ lock = "free" /\ d_op.at \in {"idle", "again"}
      /\ \/ d_op' = [d_op EXCEPT !.at = "idle", !.how = how] /\ lock' = lock
         \/ d_op' = [d_op EXCEPT !.at = "hold", !.how = how] /\ lock' = "op" /\ jobs = <<>> /\ ~failure
         \/ jobs # <<>> /\ d_op' = [at |-> "wait", how |-> how, job |-> Last(jobs).id] /\ lock' = lock
  BY DEF Dispatch!OpCheck, Dispatch!Last, Last
<1>3. /\ d_op' \in [at : {"idle", "hold", "wait", "again"}, how : {"try", "wait", "drain"}, job : 0..MaxJobs]
      /\ d_op'.at = "hold" => lock' = "op" /\ jobs = <<>> /\ ~failure
      /\ lock' \in {lock, "op"}
  <2>. d_op \in [at : {"idle", "hold", "wait", "again"}, how : {"try", "wait", "drain"}, job : 0..MaxJobs]
    BY DEF DInv, DispatchShaped
  <2>1. CASE jobs # <<>> /\ d_op' = [at |-> "wait", how |-> how, job |-> Last(jobs).id] /\ lock' = lock
    BY <2>1, LastJob DEF DInv
  <2>. QED
    BY <1>2, <2>1
<1>4. DispatchShaped'
  BY <1>1, <1>3 DEF DInv, DispatchShaped, Dispatch!wake
<1>5. Locked'
  BY <1>1, <1>2, <1>3 DEF DInv, Locked
<1>6. Woken'
  BY <1>1, QuietKeeps DEF Dispatch!wake, DInv, Woken
<1>7. Dispatch!DetachIsQuiesced'
  BY <1>1, <1>3 DEF DInv, Dispatch!DetachIsQuiesced, Held
<1>. QED
  BY <1>1, <1>4, <1>5, <1>6, <1>7, QuietKeeps DEF DInv

-----------------------------------------------------------------------------
(* Steps that change the queue: admission, retirement, submission, failure.  *)

\* What a client appends is a job of its own.
LEMMA EnqueueKeeps ==
  ASSUME DispatchBounds, DInv, NEW c \in Clients, NEW shape \in Dispatch!Shapes, Dispatch!Enqueue(c, shape)
  PROVE  DInv'
<1>. DEFINE id == Dispatch!Admitted + 1
<1>. DEFINE job == [id |-> id, chunks |-> shape, next |-> 1, receipts |-> {}]
<1>1. PICK n \in 0..MaxJobs : Prefix(n)
  BY DEF DInv, Admits
<1>2. Dispatch!Admitted = n /\ n \in Nat /\ MaxJobs \in Nat
  BY <1>1, AdmittedIs DEF DispatchBounds
<1>3. /\ jobs' = Append(jobs, job) /\ signal' = [signal EXCEPT ![id] = "pending"]
      /\ lock = "free" /\ n < MaxJobs /\ ~failure /\ failure' = failure /\ d_log' = d_log /\ gpu' = gpu
      /\ UNCHANGED <<lock, wpc, d_op, closing, seen, flag, pipe, d_lost>>
      /\ cpc' = [cpc EXCEPT ![c] = "swap"]
  BY <1>2 DEF Dispatch!Enqueue, Dispatch!Admissible, Dispatch!hw, Dispatch!wake
<1>4. id = n + 1 /\ id \in 1..MaxJobs
  BY <1>2, <1>3
<1>. HIDE DEF id
<1>5. job \in Job /\ job.id = id /\ job.next = 1 /\ job.receipts = {}
  <2>1. shape \in Seq(Kinds)
    BY SeqDef DEF Dispatch!Shapes, DispatchBounds
  <2>. QED
    BY <1>4, <2>1 DEF Job
<1>. HIDE DEF job
<1>6. jobs \in Seq(Job) /\ Len(jobs) \in Nat /\ DOMAIN jobs = 1..Len(jobs)
  BY DEF DInv, DispatchShaped
<1>7. /\ jobs' \in Seq(Job) /\ DOMAIN jobs' = 1..(Len(jobs) + 1)
      /\ \A i \in DOMAIN jobs : jobs'[i] = jobs[i]
      /\ jobs'[Len(jobs) + 1] = job
      /\ \A i \in DOMAIN jobs' : i \in DOMAIN jobs \/ i = Len(jobs) + 1
  BY <1>3, <1>5, <1>6, AppendProperties
<1>8. \A j \in 1..MaxJobs : signal'[j] = IF j = id THEN "pending" ELSE signal[j]
  BY <1>3 DEF DInv, DispatchShaped
<1>9. \A i \in DOMAIN jobs : jobs[i].id \in 1..MaxJobs /\ jobs[i].id < id
  BY <1>1, <1>2, <1>4, JobFields DEF DInv, Queued, Prefix
<1>10. DispatchShaped'
  BY <1>3, <1>4, <1>7 DEF DInv, DispatchShaped, Dispatch!Notifiers
<1>11. Locked'
  BY <1>3 DEF DInv, Locked, DispatchShaped, Dispatch!Notifiers
<1>12. Admits'
  <2>1. n + 1 \in 0..MaxJobs
    BY <1>2, <1>3
  <2>2. \A j \in 1..MaxJobs : signal'[j] # "none" <=> j <= n + 1
    BY <1>1, <1>2, <1>4, <1>8 DEF Prefix
  <2>. QED
    BY <2>1, <2>2 DEF Admits, Prefix
<1>13. Queued'
  <2>1. \A i, k \in DOMAIN jobs' : i < k => jobs'[i].id < jobs'[k].id
    BY <1>5, <1>6, <1>7, <1>9 DEF DInv, Queued
  <2>2. \A i \in DOMAIN jobs' : signal'[jobs'[i].id] = "pending"
    BY <1>4, <1>5, <1>7, <1>8, <1>9 DEF DInv, Queued
  <2>3. \A j \in 1..MaxJobs : signal'[j] = "pending" => \E i \in DOMAIN jobs' : jobs'[i].id = j
    BY <1>5, <1>6, <1>7, <1>8 DEF DInv, Queued
  <2>4. ~failure' /\ \A j \in 1..MaxJobs : signal'[j] # "failed"
    BY <1>3, <1>8 DEF DInv, Queued
  <2>. QED
    BY <2>1, <2>2, <2>3, <2>4 DEF Queued
<1>14. Held'
  BY <1>3, <1>6, <1>7 DEF DInv, Held
<1>15. Handed'
  <2>1. \A e \in DOMAIN d_log : d_log[e][1] \in 1..MaxJobs
    BY DEF DInv, DispatchShaped
  <2>2. \A e \in DOMAIN d_log : d_log[e][1] < id
    BY <1>1, <1>2, <1>4, <2>1 DEF DInv, Handed, Prefix
  <2>3. \A e \in DOMAIN d_log' : signal'[d_log'[e][1]] # "none"
    BY <1>3, <1>8, <2>1 DEF DInv, Handed
  <2>4. \A e \in DOMAIN d_log', i \in DOMAIN jobs' :
          jobs'[i].next <= Len(jobs'[i].chunks) =>
            d_log'[e][1] < jobs'[i].id \/ (d_log'[e][1] = jobs'[i].id /\ d_log'[e][2] < jobs'[i].next)
    BY <1>3, <1>5, <1>7, <2>2 DEF DInv, Handed
  <2>. QED
    BY <2>3, <2>4 DEF Handed
<1>16. Woken'
  <2>1. cpc'[c] = "swap" /\ c \in Dispatch!Notifiers
    BY <1>3 DEF DInv, DispatchShaped, Dispatch!Notifiers
  <2>2. flag /\ d_lost = 0 => pipe > 0 \/ wpc = "clear" \/ \E d \in Dispatch!Notifiers : cpc'[d] = "write"
    <3>. SUFFICES ASSUME NEW d \in Dispatch!Notifiers, cpc[d] = "write" PROVE cpc'[d] = "write"
      BY DEF DInv, Woken
    <3>1. cpc[c] = "idle"
      BY DEF Dispatch!Enqueue
    <3>. QED
      BY <1>3, <3>1 DEF DInv, DispatchShaped
  <2>. QED
    BY <1>3, <2>1, <2>2 DEF Woken
<1>17. Dispatch!OkMeansRetired'
  <2>. SUFFICES ASSUME NEW j \in 1..MaxJobs, signal'[j] = "ok"
                PROVE  (\A i \in 1..j : signal'[i] = "ok") /\ (\A x \in gpu' : x[1] > j)
    BY DEF Dispatch!OkMeansRetired
  <2>1. signal[j] = "ok" /\ j # id
    BY <1>8
  <2>2. j <= n
    BY <1>1, <2>1 DEF Prefix
  <2>3. \A i \in 1..j : i \in 1..MaxJobs /\ i # id
    BY <1>2, <1>4, <2>2
  <2>. QED
    BY <1>3, <1>8, <2>1, <2>3 DEF DInv, Dispatch!OkMeansRetired
<1>18. Dispatch!DetachIsQuiesced' /\ Dispatch!DispatchInOrder'
  BY <1>3 DEF DInv, Dispatch!DetachIsQuiesced, Dispatch!DispatchInOrder, Locked
<1>. QED
  BY <1>10, <1>11, <1>12, <1>13, <1>14, <1>15, <1>16, <1>17, <1>18 DEF DInv

\* Scheduler::fail settles every pending job and empties the queue, whatever the
\* device still runs of the queued jobs.
LEMMA FailureKeeps ==
  ASSUME DispatchBounds, DInv, Dispatch!FailAll, d_log' = d_log, wpc' = "exit", lock' = "free" \/ lock' = lock,
         UNCHANGED <<Dispatch!wake, cpc, closing, d_op>>, d_op.at # "hold" \/ lock' = lock, lock = "op" => lock' = "op",
         wpc # "clear",
         gpu' \subseteq (1..MaxJobs) \X Nat,
         \A x \in gpu' : x \in gpu \/ \E i \in DOMAIN jobs : x[1] = jobs[i].id,
         d_op.at = "hold" => gpu' = gpu
  PROVE  DInv'
<1>1. /\ failure' = TRUE /\ jobs' = <<>>
      /\ signal' \in [1..MaxJobs -> {"none", "pending", "ok", "failed"}]
      /\ \A j \in 1..MaxJobs :
           signal'[j] = IF \E i \in DOMAIN jobs : jobs[i].id = j THEN "failed" ELSE signal[j]
  BY DEF Dispatch!FailAll, DInv, DispatchShaped
<1>2. \A j \in 1..MaxJobs :
        signal'[j] = IF signal[j] = "pending" THEN "failed" ELSE signal[j]
  BY <1>1, JobFields DEF DInv, Queued
<1>3. DispatchShaped'
  BY <1>1, EmptySeq DEF DInv, DispatchShaped, Dispatch!wake
<1>4. Locked'
  BY DEF DInv, Locked
<1>5. Admits'
  BY <1>2 DEF DInv, Admits, Prefix
<1>6. Queued' /\ Held'
  BY <1>1, <1>2 DEF DInv, Queued, Held
<1>7. Handed'
  <2>1. \A e \in DOMAIN d_log : d_log[e][1] \in 1..MaxJobs
    BY DEF DInv, DispatchShaped
  <2>. QED
    BY <1>1, <1>2, <2>1 DEF DInv, Handed
<1>8. Woken'
  BY DEF DInv, Woken, Dispatch!wake
<1>9. Dispatch!OkMeansRetired'
  <2>. SUFFICES ASSUME NEW j \in 1..MaxJobs, signal'[j] = "ok"
                PROVE  (\A i \in 1..j : signal'[i] = "ok") /\ (\A x \in gpu' : x[1] > j)
    BY DEF Dispatch!OkMeansRetired
  <2>1. signal[j] = "ok" /\ (\A i \in 1..j : signal[i] = "ok") /\ (\A x \in gpu : x[1] > j)
    BY <1>2 DEF DInv, Dispatch!OkMeansRetired
  <2>2. \A i \in 1..j : i \in 1..MaxJobs
    BY DEF DispatchBounds
  <2>3. \A i \in DOMAIN jobs : jobs[i].id > j
    BY <2>1, JobFields DEF DInv, Queued, DispatchBounds
  <2>. QED
    BY <1>2, <2>1, <2>2, <2>3
<1>10. Dispatch!DetachIsQuiesced' /\ Dispatch!DispatchInOrder'
  BY <1>1 DEF DInv, Dispatch!DetachIsQuiesced, Dispatch!DispatchInOrder
<1>. QED
  BY <1>3, <1>4, <1>5, <1>6, <1>7, <1>8, <1>9, <1>10 DEF DInv

\* A worker that unwinds fails the dispatcher.
LEMMA WorkerFaultsKeeps ==
  ASSUME DispatchBounds, DInv, Dispatch!WorkerFaults
  PROVE  DInv'
<1>1. gpu' = gpu /\ d_log' = d_log /\ Dispatch!FailAll /\ wpc' = "exit" /\ lock' = lock /\ wpc # "clear"
  BY DEF Dispatch!WorkerFaults, Dispatch!hw
<1>2. UNCHANGED <<Dispatch!wake, cpc, closing, d_op>>
  BY DEF Dispatch!WorkerFaults
<1>3. gpu \subseteq (1..MaxJobs) \X Nat
  BY DEF DInv, DispatchShaped
<1>. QED
  BY <1>1, <1>2, <1>3, FailureKeeps

\* The next chunk belongs to a queued job.
LEMMA NextIsQueued ==
  ASSUME DInv, ~Dispatch!Blocked
  PROVE  /\ Dispatch!First \in DOMAIN jobs
         /\ jobs[Dispatch!First].next <= Len(jobs[Dispatch!First].chunks)
         /\ \A k \in DOMAIN jobs : jobs[k].next <= Len(jobs[k].chunks) => Dispatch!First <= k
         /\ Dispatch!NextKey = <<jobs[Dispatch!First].id, jobs[Dispatch!First].next>>
         /\ Dispatch!NextKey \in (1..MaxJobs) \X Nat
<1>1. Dispatch!Waiting # {}
  BY DEF Dispatch!Blocked
<1>2. /\ Dispatch!First \in DOMAIN jobs
      /\ jobs[Dispatch!First].next <= Len(jobs[Dispatch!First].chunks)
      /\ \A k \in DOMAIN jobs : jobs[k].next <= Len(jobs[k].chunks) => Dispatch!First <= k
  BY <1>1, FirstWaits DEF DInv
<1>3. jobs[Dispatch!First].id \in 1..MaxJobs /\ jobs[Dispatch!First].next \in Nat
  BY <1>2, JobFields DEF DInv
<1>. QED
  BY <1>2, <1>3 DEF Dispatch!NextKey

\* A refused chunk fails the dispatcher.
LEMMA SubmitFailsKeeps ==
  ASSUME DispatchBounds, DInv, Dispatch!SubmitFails
  PROVE  DInv'
<1>1. d_log' = d_log /\ Dispatch!FailAll /\ wpc' = "exit" /\ lock' = "free" /\ wpc = "submit"
  BY DEF Dispatch!SubmitFails
<1>2. UNCHANGED <<Dispatch!wake, cpc, closing, d_op>> /\ gpu' \in {gpu, gpu \cup {Dispatch!NextKey}} /\ ~Dispatch!Blocked
  BY DEF Dispatch!SubmitFails
<1>3. lock = "worker" /\ d_op.at # "hold"
  BY <1>1 DEF DInv, Locked
<1>4. gpu' \subseteq (1..MaxJobs) \X Nat
  BY <1>2, NextIsQueued DEF DInv, DispatchShaped
<1>5. \A x \in gpu' : x \in gpu \/ \E i \in DOMAIN jobs : x[1] = jobs[i].id
  BY <1>2, NextIsQueued
<1>. QED
  BY <1>1, <1>2, <1>3, <1>4, <1>5, FailureKeeps

\* advance() drops the receipts whose work has retired, and no other.
LEMMA AdvancePollKeeps ==
  ASSUME DispatchBounds, DInv, Dispatch!AdvancePoll
  PROVE  DInv'
<1>1. wpc = "lock" /\ lock = "free" /\ UNCHANGED <<gpu, d_log, Dispatch!wake, cpc, closing, d_op>> /\ seen' = Dispatch!Admitted
  BY DEF Dispatch!AdvancePoll, Dispatch!hw
<1>2. gpu \subseteq (1..MaxJobs) \X Nat /\ d_op.at # "hold"
  BY <1>1 DEF DInv, DispatchShaped, Locked
<1>3. CASE Dispatch!FailAll /\ wpc' = "exit" /\ lock' = "free"
  BY <1>1, <1>2, <1>3, FailureKeeps
<1>4. CASE /\ jobs' = [i \in DOMAIN jobs |->
                        [jobs[i] EXCEPT !.receipts = {k \in @ : <<jobs[i].id, k>> \in gpu}]]
           /\ wpc' = "retire" /\ lock' = "worker" /\ UNCHANGED <<bytes, failure, signal>>
  <2>1. jobs \in Seq(Job) /\ Len(jobs) \in Nat /\ DOMAIN jobs = 1..Len(jobs)
    BY DEF DInv, DispatchShaped
  <2>2. \A i \in DOMAIN jobs :
          /\ jobs'[i] \in Job /\ jobs'[i].id = jobs[i].id /\ jobs'[i].chunks = jobs[i].chunks
          /\ jobs'[i].next = jobs[i].next
          /\ jobs'[i].receipts = {k \in jobs[i].receipts : <<jobs[i].id, k>> \in gpu}
    <3>. SUFFICES ASSUME NEW i \in DOMAIN jobs
         PROVE  /\ jobs'[i] \in Job /\ jobs'[i].id = jobs[i].id /\ jobs'[i].chunks = jobs[i].chunks
                /\ jobs'[i].next = jobs[i].next
                /\ jobs'[i].receipts = {k \in jobs[i].receipts : <<jobs[i].id, k>> \in gpu}
      OBVIOUS
    <3>. DEFINE left == {k \in jobs[i].receipts : <<jobs[i].id, k>> \in gpu}
    <3>1. left \subseteq Nat /\ jobs[i] \in Job
      BY JobFields DEF DInv
    <3>2. jobs'[i] = [jobs[i] EXCEPT !.receipts = left]
      BY <1>4
    <3>. HIDE DEF left
    <3>3. /\ jobs'[i] \in Job /\ jobs'[i].id = jobs[i].id /\ jobs'[i].chunks = jobs[i].chunks
          /\ jobs'[i].next = jobs[i].next /\ jobs'[i].receipts = left
      BY <3>1, <3>2 DEF Job
    <3>. QED
      BY <3>3 DEF left
  <2>3. jobs' \in Seq(Job) /\ DOMAIN jobs' = DOMAIN jobs
    <3>. DEFINE q == [i \in 1..Len(jobs) |-> jobs'[i]]
    <3>1. jobs' = q
      BY <1>4, <2>1
    <3>2. \A i \in 1..Len(jobs) : jobs'[i] \in Job
      BY <2>1, <2>2
    <3>3. q \in Seq(Job)
      BY <2>1, <3>2, IsASeq
    <3>4. DOMAIN jobs' = DOMAIN jobs
      BY <1>4
    <3>. HIDE DEF q
    <3>. QED
      BY <3>1, <3>3, <3>4
  <2>4. Dispatch!Admitted' = Dispatch!Admitted
    BY <1>4 DEF Dispatch!Admitted
  <2>5. DispatchShaped'
    BY <1>1, <1>4, <2>3 DEF DInv, DispatchShaped, Dispatch!wake
  <2>6. Locked'
    BY <1>1, <1>2, <1>4 DEF DInv, Locked
  <2>7. Admits' /\ Dispatch!OkMeansRetired' /\ Dispatch!DispatchInOrder'
    BY <1>1, <1>4 DEF DInv, Admits, Prefix, Dispatch!OkMeansRetired, Dispatch!DispatchInOrder
  <2>8. Queued'
    <3>1. \A i, k \in DOMAIN jobs' : i < k => jobs'[i].id < jobs'[k].id
      BY <2>2, <2>3 DEF DInv, Queued
    <3>2. \A i \in DOMAIN jobs' : signal'[jobs'[i].id] = "pending"
      BY <1>4, <2>2, <2>3 DEF DInv, Queued
    <3>3. \A j \in 1..MaxJobs : signal'[j] = "pending" => \E i \in DOMAIN jobs' : jobs'[i].id = j
      <4>. SUFFICES ASSUME NEW j \in 1..MaxJobs, signal[j] = "pending"
                    PROVE  \E i \in DOMAIN jobs : jobs'[i].id = j
        BY <1>4, <2>3
      <4>1. PICK i \in DOMAIN jobs : jobs[i].id = j
        BY DEF DInv, Queued
      <4>. QED
        BY <2>2, <4>1
    <3>4. failure' => jobs' = <<>>
      BY <1>4 DEF DInv, Queued
    <3>5. \A j \in 1..MaxJobs : signal'[j] = "failed" => failure'
      BY <1>4 DEF DInv, Queued
    <3>. QED
      BY <3>1, <3>2, <3>3, <3>4, <3>5 DEF Queued
  <2>9. Held'
    <3>. SUFFICES ASSUME ~failure, NEW x \in gpu
         PROVE  \E i \in DOMAIN jobs : x[1] = jobs'[i].id /\ x[2] \in jobs'[i].receipts
      BY <1>1, <1>4, <2>3 DEF Held
    <3>1. PICK i \in DOMAIN jobs : x[1] = jobs[i].id /\ x[2] \in jobs[i].receipts
      BY DEF DInv, Held
    <3>2. x = <<jobs[i].id, x[2]>>
      BY <1>2, <3>1
    <3>. QED
      BY <2>2, <3>1, <3>2
  <2>10. Handed'
    <3>1. \A e \in DOMAIN d_log' : signal'[d_log'[e][1]] # "none"
      BY <1>1, <1>4 DEF DInv, Handed
    <3>2. ASSUME NEW e \in DOMAIN d_log', NEW i \in DOMAIN jobs', jobs'[i].next <= Len(jobs'[i].chunks)
          PROVE  d_log'[e][1] < jobs'[i].id \/ (d_log'[e][1] = jobs'[i].id /\ d_log'[e][2] < jobs'[i].next)
      <4>1. i \in DOMAIN jobs /\ e \in DOMAIN d_log /\ d_log' = d_log
        BY <1>1, <2>3
      <4>2. jobs'[i].id = jobs[i].id /\ jobs'[i].chunks = jobs[i].chunks /\ jobs'[i].next = jobs[i].next
        BY <2>2, <4>1
      <4>3. jobs[i].next <= Len(jobs[i].chunks)
        BY <3>2, <4>2
      <4>4. d_log[e][1] < jobs[i].id \/ (d_log[e][1] = jobs[i].id /\ d_log[e][2] < jobs[i].next)
        BY <4>1, <4>3 DEF DInv, Handed
      <4>. QED
        BY <4>1, <4>2, <4>4
    <3>. QED
      BY <3>1, <3>2 DEF Handed
  <2>11. Woken'
    <3>1. Dispatch!Admitted \in Nat
      BY AdmittedIs DEF DInv, Admits, DispatchBounds
    <3>. QED
      BY <1>1, <1>4, <2>4, <3>1 DEF DInv, Woken, Dispatch!wake
  <2>12. Dispatch!DetachIsQuiesced'
    BY <1>1, <1>2 DEF Dispatch!DetachIsQuiesced
  <2>. QED
    BY <2>5, <2>6, <2>7, <2>8, <2>9, <2>10, <2>11, <2>12 DEF DInv
<1>. QED
  BY <1>3, <1>4 DEF Dispatch!AdvancePoll

\* The front job reports success: every earlier one has, and the device holds
\* nothing of it, for its receipts are gone.
LEMMA RetireFrontKeeps ==
  ASSUME DispatchBounds, DInv, Dispatch!RetireFront
  PROVE  DInv'
<1>. DEFINE h == jobs[1].id
<1>1. /\ jobs' = Tail(jobs) /\ jobs # <<>> /\ Head(jobs).receipts = {} /\ wpc = "retire"
      /\ signal' = [signal EXCEPT ![Head(jobs).id] = "ok"]
      /\ UNCHANGED <<failure, lock, gpu, d_log, wpc, seen, Dispatch!wake, cpc, closing, d_op>>
  BY DEF Dispatch!RetireFront, Dispatch!FrontFinished, Dispatch!hw
<1>2. /\ jobs \in Seq(Job) /\ Len(jobs) \in Nat /\ Len(jobs) >= 1 /\ DOMAIN jobs = 1..Len(jobs)
      /\ Head(jobs) = jobs[1] /\ 1 \in DOMAIN jobs
  BY <1>1, HeadTailProperties DEF DInv, DispatchShaped
<1>3. /\ jobs' \in Seq(Job) /\ DOMAIN jobs' = 1..(Len(jobs) - 1)
      /\ \A i \in DOMAIN jobs' : i + 1 \in DOMAIN jobs /\ jobs'[i] = jobs[i + 1]
      /\ \A i \in DOMAIN jobs : i # 1 => i - 1 \in DOMAIN jobs' /\ jobs'[i - 1] = jobs[i]
  <2>1. jobs' \in Seq(Job) /\ Len(jobs') = Len(jobs) - 1
    BY <1>1, <1>2, HeadTailProperties
  <2>2. \A i \in 1..(Len(jobs) - 1) : jobs'[i] = jobs[i + 1]
    BY <1>1, <1>2, HeadTailProperties
  <2>. QED
    BY <1>2, <2>1, <2>2
<1>4. h \in 1..MaxJobs /\ signal[h] = "pending" /\ jobs[1].receipts = {} /\ ~failure
  BY <1>1, <1>2, JobFields DEF DInv, Queued
<1>5. \A i \in DOMAIN jobs : i # 1 => jobs[i].id > h
  BY <1>2, JobFields DEF DInv, Queued
<1>6. \A j \in 1..MaxJobs : signal'[j] = IF j = h THEN "ok" ELSE signal[j]
  BY <1>1, <1>2 DEF DInv, DispatchShaped
<1>. HIDE DEF h
<1>7. \A i \in DOMAIN jobs : jobs[i].id \in 1..MaxJobs
  BY JobFields DEF DInv
<1>8. DispatchShaped'
  <2>1. signal' \in [1..MaxJobs -> {"none", "pending", "ok", "failed"}]
    BY <1>1 DEF DInv, DispatchShaped
  <2>. QED
    BY <1>1, <1>3, <2>1 DEF DInv, DispatchShaped, Dispatch!wake
<1>9. Locked'
  BY <1>1 DEF DInv, Locked
<1>10. Admits'
  BY <1>4, <1>6 DEF DInv, Admits, Prefix
<1>11. Queued'
  <2>1. \A i, k \in DOMAIN jobs' : i < k => jobs'[i].id < jobs'[k].id
    BY <1>2, <1>3 DEF DInv, Queued
  <2>2. \A i \in DOMAIN jobs' : signal'[jobs'[i].id] = "pending"
    <3>. SUFFICES ASSUME NEW i \in DOMAIN jobs' PROVE signal'[jobs'[i].id] = "pending"
      OBVIOUS
    <3>1. i + 1 \in DOMAIN jobs /\ i + 1 # 1 /\ jobs'[i] = jobs[i + 1]
      BY <1>2, <1>3
    <3>2. jobs[i + 1].id \in 1..MaxJobs /\ jobs[i + 1].id > h /\ signal[jobs[i + 1].id] = "pending"
      BY <1>5, <1>7, <3>1 DEF DInv, Queued
    <3>. QED
      BY <1>4, <1>6, <3>1, <3>2
  <2>3. ASSUME NEW j \in 1..MaxJobs, signal'[j] = "pending"
        PROVE  \E i \in DOMAIN jobs' : jobs'[i].id = j
    <3>1. j # h /\ signal[j] = "pending"
      BY <1>6, <2>3
    <3>2. PICK i \in DOMAIN jobs : jobs[i].id = j
      BY <3>1 DEF DInv, Queued
    <3>3. i # 1
      BY <3>1, <3>2 DEF h
    <3>. QED
      BY <1>3, <3>2, <3>3
  <2>4. ~failure' /\ \A j \in 1..MaxJobs : signal'[j] # "failed"
    BY <1>1, <1>4, <1>6 DEF DInv, Queued
  <2>. QED
    BY <2>1, <2>2, <2>3, <2>4 DEF Queued
<1>12. ASSUME NEW x \in gpu
       PROVE  \E i \in DOMAIN jobs' : x[1] = jobs'[i].id /\ x[2] \in jobs'[i].receipts
  <2>1. PICK i \in DOMAIN jobs : x[1] = jobs[i].id /\ x[2] \in jobs[i].receipts
    BY <1>4 DEF DInv, Held
  <2>2. i # 1
    BY <1>4, <2>1
  <2>. QED
    BY <1>3, <2>1, <2>2
<1>13. Held'
  BY <1>1, <1>12 DEF Held
<1>14. Handed'
  <2>1. \A e \in DOMAIN d_log : d_log[e][1] \in 1..MaxJobs
    BY DEF DInv, DispatchShaped
  <2>2. \A e \in DOMAIN d_log' : signal'[d_log'[e][1]] # "none"
    BY <1>1, <1>6, <2>1 DEF DInv, Handed
  <2>3. \A e \in DOMAIN d_log, i \in DOMAIN jobs :
          jobs[i].next <= Len(jobs[i].chunks) =>
            d_log[e][1] < jobs[i].id \/ (d_log[e][1] = jobs[i].id /\ d_log[e][2] < jobs[i].next)
    BY DEF DInv, Handed
  <2>. QED
    BY <1>1, <1>3, <2>2, <2>3 DEF Handed
<1>15. Woken'
  <2>1. {j \in 1..MaxJobs : signal'[j] # "none"} = {j \in 1..MaxJobs : signal[j] # "none"}
    BY <1>4, <1>6
  <2>2. Dispatch!Admitted' = Dispatch!Admitted
    BY <2>1 DEF Dispatch!Admitted
  <2>. QED
    BY <1>1, <2>2 DEF DInv, Woken, Dispatch!wake
<1>16. Dispatch!OkMeansRetired'
  <2>1. \A x \in gpu : x[1] > h
    <3>. SUFFICES ASSUME NEW x \in gpu PROVE x[1] > h
      OBVIOUS
    <3>1. PICK i \in DOMAIN jobs' : x[1] = jobs'[i].id
      BY <1>12
    <3>2. i + 1 \in DOMAIN jobs /\ i + 1 # 1 /\ jobs'[i] = jobs[i + 1]
      BY <1>2, <1>3
    <3>. QED
      BY <1>5, <3>1, <3>2
  <2>2. \A i \in 1..MaxJobs : i < h => signal[i] = "ok"
    <3>. SUFFICES ASSUME NEW i \in 1..MaxJobs, i < h PROVE signal[i] = "ok"
      OBVIOUS
    <3>1. signal[i] # "none"
      <4>1. PICK n \in 0..MaxJobs : Prefix(n)
        BY DEF DInv, Admits
      <4>2. h <= n
        BY <1>4, <4>1 DEF Prefix
      <4>. QED
        BY <1>4, <4>1, <4>2 DEF Prefix, DispatchBounds
    <3>2. signal[i] # "failed"
      BY <1>4 DEF DInv, Queued
    <3>3. signal[i] # "pending"
      <4>. SUFFICES ASSUME NEW k \in DOMAIN jobs, jobs[k].id = i PROVE FALSE
        BY DEF DInv, Queued
      <4>1. CASE k = 1
        BY <1>4, <4>1 DEF h
      <4>2. CASE k # 1
        BY <1>4, <1>5, <4>2
      <4>. QED
        BY <4>1, <4>2
    <3>. QED
      BY <3>1, <3>2, <3>3 DEF DInv, DispatchShaped
  <2>. SUFFICES ASSUME NEW j \in 1..MaxJobs, signal'[j] = "ok"
                PROVE  (\A i \in 1..j : signal'[i] = "ok") /\ (\A x \in gpu' : x[1] > j)
    BY DEF Dispatch!OkMeansRetired
  <2>3. \A i \in 1..j : i \in 1..MaxJobs
    BY DEF DispatchBounds
  <2>4. CASE j = h
    BY <1>1, <1>4, <1>6, <2>1, <2>2, <2>3, <2>4
  <2>5. CASE j # h
    BY <1>1, <1>4, <1>6, <2>3, <2>5 DEF DInv, Dispatch!OkMeansRetired
  <2>. QED
    BY <2>4, <2>5
<1>17. Dispatch!DetachIsQuiesced' /\ Dispatch!DispatchInOrder'
  BY <1>1 DEF DInv, Dispatch!DetachIsQuiesced, Dispatch!DispatchInOrder
<1>. QED
  BY <1>8, <1>9, <1>10, <1>11, <1>13, <1>14, <1>15, <1>16, <1>17 DEF DInv

\* The next chunk in order is handed over, and its receipt kept.
LEMMA SubmitOkKeeps ==
  ASSUME DispatchBounds, DInv, Dispatch!SubmitOk
  PROVE  DInv'
<1>. DEFINE f == Dispatch!First
<1>. DEFINE entry == <<jobs[f].id, jobs[f].next>>
<1>1. /\ f \in DOMAIN jobs /\ jobs[f].next <= Len(jobs[f].chunks)
      /\ \A k \in DOMAIN jobs : jobs[k].next <= Len(jobs[k].chunks) => f <= k
      /\ Dispatch!NextKey = entry /\ entry \in (1..MaxJobs) \X Nat
  BY NextIsQueued DEF Dispatch!SubmitOk
<1>2. /\ jobs' = [jobs EXCEPT ![f].next = @ + 1, ![f].receipts = @ \cup {jobs[f].next}]
      /\ gpu' \in {gpu, gpu \cup {entry}} /\ d_log' = Append(d_log, entry)
      /\ UNCHANGED <<failure, signal, lock, wpc, seen, Dispatch!wake, cpc, closing, d_op>> /\ wpc = "submit"
  BY <1>1 DEF Dispatch!SubmitOk
<1>. HIDE DEF f
<1>3. /\ jobs \in Seq(Job) /\ Len(jobs) \in Nat /\ DOMAIN jobs = 1..Len(jobs)
      /\ \A i \in DOMAIN jobs : /\ jobs[i] \in Job /\ jobs[i].id \in 1..MaxJobs
                                /\ jobs[i].next \in Nat \ {0} /\ jobs[i].receipts \in SUBSET Nat
  BY JobFields DEF DInv, DispatchShaped
<1>4. /\ jobs' \in Seq(Job) /\ DOMAIN jobs' = DOMAIN jobs
      /\ \A i \in DOMAIN jobs : i # f => jobs'[i] = jobs[i]
      /\ jobs'[f].id = jobs[f].id /\ jobs'[f].chunks = jobs[f].chunks
      /\ jobs'[f].next = jobs[f].next + 1
      /\ jobs'[f].receipts = jobs[f].receipts \cup {jobs[f].next}
  <2>. DEFINE n == jobs[f].next + 1
  <2>. DEFINE r == jobs[f].receipts \cup {jobs[f].next}
  <2>. DEFINE job == [jobs[f] EXCEPT !.next = n, !.receipts = r]
  <2>1. n \in Nat \ {0} /\ r \in SUBSET Nat /\ jobs[f] \in Job
    BY <1>1, <1>3
  <2>2. jobs' = [jobs EXCEPT ![f] = job]
    BY <1>1, <1>2
  <2>. HIDE DEF n, r
  <2>3. job \in Job /\ job.id = jobs[f].id /\ job.chunks = jobs[f].chunks /\ job.next = n /\ job.receipts = r
    BY <2>1 DEF Job
  <2>. HIDE DEF job
  <2>4. jobs' \in Seq(Job) /\ DOMAIN jobs' = DOMAIN jobs
    BY <1>1, <1>3, <2>2, <2>3, ExceptSeq
  <2>5. jobs'[f] = job /\ \A i \in DOMAIN jobs : i # f => jobs'[i] = jobs[i]
    BY <1>1, <1>3, <2>2
  <2>. QED
    BY <2>3, <2>4, <2>5 DEF n, r
<1>5. \A i \in DOMAIN jobs : jobs'[i].id = jobs[i].id /\ jobs'[i].chunks = jobs[i].chunks
  BY <1>4
<1>6. signal[entry[1]] = "pending" /\ ~failure /\ entry[1] = jobs[f].id /\ entry[2] = jobs[f].next
  BY <1>1, <1>3 DEF DInv, Queued
<1>. HIDE DEF entry
<1>7. /\ d_log' \in Seq((1..MaxJobs) \X Nat) /\ d_log \in Seq((1..MaxJobs) \X Nat) /\ Len(d_log) \in Nat
      /\ DOMAIN d_log = 1..Len(d_log) /\ DOMAIN d_log' = 1..(Len(d_log) + 1)
      /\ \A e \in DOMAIN d_log : d_log'[e] = d_log[e]
      /\ d_log'[Len(d_log) + 1] = entry
      /\ \A e \in DOMAIN d_log' : e \in DOMAIN d_log \/ e = Len(d_log) + 1
  <2>1. d_log \in Seq((1..MaxJobs) \X Nat) /\ entry \in (1..MaxJobs) \X Nat
    BY <1>1 DEF DInv, DispatchShaped
  <2>2. d_log' = Append(d_log, entry)
    BY <1>2
  <2>. QED
    BY <2>1, <2>2, AppendProperties
<1>8. \A e \in DOMAIN d_log : d_log[e][1] < entry[1] \/ (d_log[e][1] = entry[1] /\ d_log[e][2] < entry[2])
  BY <1>1, <1>6 DEF DInv, Handed
<1>9. DispatchShaped'
  BY <1>1, <1>2, <1>4, <1>7 DEF DInv, DispatchShaped, Dispatch!wake
<1>10. Locked'
  BY <1>2 DEF DInv, Locked
<1>11. Admits' /\ Dispatch!Admitted' = Dispatch!Admitted
  BY <1>2 DEF DInv, Admits, Prefix, Dispatch!Admitted
<1>12. Queued'
  <2>1. \A i, k \in DOMAIN jobs' : i < k => jobs'[i].id < jobs'[k].id
    BY <1>4, <1>5 DEF DInv, Queued
  <2>2. \A i \in DOMAIN jobs' : signal'[jobs'[i].id] = "pending"
    BY <1>2, <1>4, <1>5 DEF DInv, Queued
  <2>3. \A j \in 1..MaxJobs : signal'[j] = "pending" => \E i \in DOMAIN jobs' : jobs'[i].id = j
    BY <1>2, <1>4, <1>5 DEF DInv, Queued
  <2>4. ~failure' /\ \A j \in 1..MaxJobs : signal'[j] # "failed"
    BY <1>2, <1>6 DEF DInv, Queued
  <2>. QED
    BY <2>1, <2>2, <2>3, <2>4 DEF Queued
<1>13. Held'
  <2>. SUFFICES ASSUME NEW x \in gpu'
       PROVE  \E i \in DOMAIN jobs' : x[1] = jobs'[i].id /\ x[2] \in jobs'[i].receipts
    BY DEF Held
  <2>1. CASE x = entry
    BY <1>1, <1>4, <1>6, <2>1
  <2>2. CASE x \in gpu
    <3>1. PICK i \in DOMAIN jobs : x[1] = jobs[i].id /\ x[2] \in jobs[i].receipts
      BY <1>6, <2>2 DEF DInv, Held
    <3>2. jobs'[i].id = jobs[i].id /\ x[2] \in jobs'[i].receipts
      BY <1>4, <3>1
    <3>. QED
      BY <1>4, <3>1, <3>2
  <2>. QED
    BY <1>2, <2>1, <2>2
<1>14. Handed'
  <2>1. \A e \in DOMAIN d_log' : signal'[d_log'[e][1]] # "none"
    BY <1>2, <1>6, <1>7 DEF DInv, Handed
  <2>2. ASSUME NEW e \in DOMAIN d_log', NEW i \in DOMAIN jobs', jobs'[i].next <= Len(jobs'[i].chunks)
        PROVE  d_log'[e][1] < jobs'[i].id \/ (d_log'[e][1] = jobs'[i].id /\ d_log'[e][2] < jobs'[i].next)
    <3>1. i \in DOMAIN jobs /\ f \in DOMAIN jobs /\ jobs[f].next \in Nat
      BY <1>1, <1>3, <1>4
    <3>2. jobs[i].next <= Len(jobs[i].chunks) /\ f <= i
      <4>1. CASE i = f
        BY <1>1, <1>3, <4>1
      <4>2. CASE i # f
        BY <1>1, <1>4, <2>2, <3>1, <4>2
      <4>. QED
        BY <4>1, <4>2
    <3>3. CASE e \in DOMAIN d_log
      <4>1. d_log'[e] = d_log[e]
        BY <1>7, <3>3
      <4>2. d_log[e][1] < jobs[i].id \/ (d_log[e][1] = jobs[i].id /\ d_log[e][2] < jobs[i].next)
        BY <3>1, <3>2, <3>3 DEF DInv, Handed
      <4>3. CASE i = f
        <5>1. d_log[e] \in (1..MaxJobs) \X Nat
          BY <1>7, <3>3
        <5>. QED
          BY <1>4, <3>1, <4>1, <4>2, <4>3, <5>1
      <4>4. CASE i # f
        BY <1>4, <3>1, <4>1, <4>2, <4>4
      <4>. QED
        BY <4>3, <4>4
    <3>4. CASE e = Len(d_log) + 1
      <4>1. d_log'[e] = entry
        BY <1>7, <3>4
      <4>2. CASE i = f
        BY <1>4, <1>6, <3>1, <4>1, <4>2
      <4>3. CASE i # f
        <5>1. f < i
          BY <1>3, <3>1, <3>2, <4>3
        <5>2. jobs[f].id < jobs[i].id
          BY <3>1, <5>1 DEF DInv, Queued
        <5>. QED
          BY <1>4, <1>6, <3>1, <4>1, <4>3, <5>2
      <4>. QED
        BY <4>2, <4>3
    <3>. QED
      BY <1>7, <3>3, <3>4
  <2>. QED
    BY <2>1, <2>2 DEF Handed
<1>15. Woken'
  BY <1>2, <1>11 DEF DInv, Woken, Dispatch!wake
<1>16. Dispatch!OkMeansRetired'
  <2>. SUFFICES ASSUME NEW j \in 1..MaxJobs, signal[j] = "ok"
                PROVE  (\A i \in 1..j : signal[i] = "ok") /\ (\A x \in gpu' : x[1] > j)
    BY <1>2 DEF Dispatch!OkMeansRetired
  <2>1. (\A i \in 1..j : signal[i] = "ok") /\ \A x \in gpu : x[1] > j
    BY DEF DInv, Dispatch!OkMeansRetired
  <2>2. entry[1] > j
    <3>1. entry[1] \in 1..MaxJobs /\ entry[1] \notin 1..j
      BY <1>1, <1>6, <2>1
    <3>. QED
      BY <3>1 DEF DispatchBounds
  <2>. QED
    BY <1>2, <2>1, <2>2
<1>17. Dispatch!DetachIsQuiesced'
  BY <1>2 DEF DInv, Dispatch!DetachIsQuiesced, Locked
<1>18. Dispatch!DispatchInOrder'
  <2>. SUFFICES ASSUME NEW i \in DOMAIN d_log', NEW k \in DOMAIN d_log', i < k
                PROVE  d_log'[i][1] < d_log'[k][1] \/ (d_log'[i][1] = d_log'[k][1] /\ d_log'[i][2] < d_log'[k][2])
    BY DEF Dispatch!DispatchInOrder
  <2>1. i \in DOMAIN d_log /\ d_log'[i] = d_log[i]
    <3>. DEFINE l == Len(d_log)
    <3>1. l \in Nat /\ i \in 1..(l + 1) /\ k \in 1..(l + 1)
      BY <1>7
    <3>. HIDE DEF l
    <3>2. i \in 1..l
      BY <3>1
    <3>. USE DEF l
    <3>3. i \in 1..Len(d_log)
      BY <3>2
    <3>. QED
      BY <1>7, <3>3
  <2>2. CASE k \in DOMAIN d_log
    <3>1. d_log'[k] = d_log[k]
      BY <1>7, <2>2
    <3>2. d_log[i][1] < d_log[k][1] \/ (d_log[i][1] = d_log[k][1] /\ d_log[i][2] < d_log[k][2])
      BY <2>1, <2>2 DEF DInv, Dispatch!DispatchInOrder
    <3>. QED
      BY <2>1, <3>1, <3>2
  <2>3. CASE k = Len(d_log) + 1
    BY <1>7, <1>8, <2>1, <2>3
  <2>. QED
    BY <1>7, <2>2, <2>3
<1>. QED
  BY <1>9, <1>10, <1>11, <1>12, <1>13, <1>14, <1>15, <1>16, <1>17, <1>18 DEF DInv

-----------------------------------------------------------------------------
(* The invariant of the specification. *)

\* The dispatcher starts with an empty queue.
LEMMA DispatchInit ==
  ASSUME DispatchBounds, Dispatch!Init
  PROVE  DInv
<1>1. jobs \in Seq(Job) /\ d_log \in Seq((1..MaxJobs) \X Nat) /\ Len(jobs) = 0 /\ Len(d_log) = 0
  BY EmptySeq DEF Dispatch!Init
<1>2. DispatchShaped
  <2>1. /\ signal \in [1..MaxJobs -> {"none", "pending", "ok", "failed"}]
        /\ cpc \in [Dispatch!Notifiers -> {"idle", "swap", "write"}]
    BY DEF Dispatch!Init
  <2>2. d_op \in [at : {"idle", "hold", "wait", "again"}, how : {"try", "wait", "drain"}, job : 0..MaxJobs]
    BY DEF Dispatch!Init, DispatchBounds
  <2>3. failure \in BOOLEAN /\ gpu \subseteq (1..MaxJobs) \X Nat /\ pipe \in Nat /\ d_lost \in Nat
        /\ wpc \in {"consume", "clear", "lock", "retire", "submit", "sleep", "exit"}
    BY DEF Dispatch!Init
  <2>. QED
    BY <1>1, <2>1, <2>2, <2>3 DEF DispatchShaped
<1>3. Locked /\ Queued /\ Held /\ Handed /\ Dispatch!OkMeansRetired /\ Dispatch!DetachIsQuiesced /\ Dispatch!DispatchInOrder
  BY
     DEF Dispatch!Init, Locked, Queued, Held, Handed, Dispatch!OkMeansRetired,
         Dispatch!DetachIsQuiesced, Dispatch!DispatchInOrder,
         Dispatch!Notifiers, Dispatch!Dropper
<1>4. Prefix(0)
  BY DEF Dispatch!Init, Prefix, DispatchBounds
<1>5. Admits
  BY <1>4 DEF Admits, Prefix
<1>6. Woken
  BY <1>4, AdmittedIs DEF Dispatch!Init, Woken
<1>. QED
  BY <1>2, <1>3, <1>5, <1>6 DEF DInv

\* Every step keeps the invariant.
LEMMA DispatchNext ==
  ASSUME DispatchBounds, DInv, [Dispatch!Next]_(Dispatch!vars)
  PROVE  DInv'
<1>1. CASE UNCHANGED Dispatch!vars
  <2>1. /\ UNCHANGED <<jobs, signal, failure, d_log, gpu>>
        /\ UNCHANGED <<wpc, lock, cpc, pipe, d_lost, flag, d_op, closing, seen>>
    BY <1>1 DEF Dispatch!vars
  <2>2. DispatchShaped' /\ Locked' /\ Dispatch!DetachIsQuiesced'
    BY <2>1 DEF DInv, DispatchShaped, Locked, Dispatch!DetachIsQuiesced
  <2>3. Woken'
    BY <2>1, QuietKeeps DEF DInv, Woken
  <2>. QED
    BY <2>1, <2>2, <2>3, QuietKeeps DEF DInv
<1>2. CASE \E c \in Clients, s \in Dispatch!Shapes : Dispatch!Enqueue(c, s)
  BY <1>2, EnqueueKeeps
<1>3. CASE Dispatch!DropScheduler
  BY <1>3, DropSchedulerKeeps
<1>4. CASE \E c \in Dispatch!Notifiers : Dispatch!NotifySwap(c) \/ Dispatch!NotifyWrite(c) \/ Dispatch!NotifyFails(c)
  BY <1>4, NotifySwapKeeps, NotifyWriteKeeps, NotifyFailsKeeps
<1>5. CASE Dispatch!Worker
  BY <1>5, ConsumeKeeps, ConsumeClearKeeps, AdvancePollKeeps, RetireFrontKeeps, RetireDoneKeeps,
     SubmitOkKeeps, AdvanceReturnsKeeps DEF Dispatch!Worker
<1>6. CASE Dispatch!SubmitFails \/ Dispatch!Wakes \/ Dispatch!WorkerFaults
  BY <1>6, SubmitFailsKeeps, WakesKeeps, WorkerFaultsKeeps
<1>7. CASE \E how \in {"try", "wait", "drain"} : Dispatch!OpCheck(how)
  BY <1>7, OpCheckKeeps
<1>8. CASE Dispatch!OpWaited \/ Dispatch!OpDone
  BY <1>8, OpWaitedKeeps, OpDoneKeeps
<1>9. CASE \E x \in gpu : Dispatch!GpuRetires(x) \/ Dispatch!GpuFails(x)
  BY <1>9, GpuRetiresKeeps, GpuFailsKeeps
<1>10. CASE Dispatch!OtherContextFills \/ Dispatch!OtherContextDrains
  BY <1>10, OtherContextFillsKeeps, OtherContextDrainsKeeps
<1>. QED
  BY <1>1, <1>2, <1>3, <1>4, <1>5, <1>6, <1>7, <1>8, <1>9, <1>10 DEF Dispatch!Next

\* A behaviour of the run, seen through the variables of this part, is one of
\* the component: the other parts leave them alone.
LEMMA DispatchPart ==
  OwnershipSpec => Dispatch!Init /\ [][Dispatch!Next]_(Dispatch!vars)
<1>1. OwnershipInit => Dispatch!Init
  BY DEF OwnershipInit
<1>2. [OwnershipNext]_all => [Dispatch!Next]_(Dispatch!vars)
  BY DEF OwnershipNext, all, dispatch, Dispatch!vars, WorkerOnly, PushOnly, PopOnly, MemoryOnly,
     SplitOnly, DispatchOnly, ResourcesOnly, VideoOnly
<1>. QED
  BY <1>1, <1>2, PTL DEF OwnershipSpec

\* Every reachable state satisfies the invariant.
LEMMA Invariance ==
  ASSUME DispatchBounds
  PROVE  OwnershipSpec => []DInv
<1>1. Dispatch!Init => DInv
  BY DispatchInit
<1>2. DInv /\ [Dispatch!Next]_(Dispatch!vars) => DInv'
  BY DispatchNext
<1>. QED
  BY <1>1, <1>2, DispatchPart, PTL

-----------------------------------------------------------------------------
(* What the invariant gives. *)

\* A worker that sleeps on an empty pipe has seen every admission, or a notifier
\* is about to write: the sleeping state is none of the places Woken allows.
LEMMA NoWakeIsLost ==
  DInv => Dispatch!NoLostWake
<1>. SUFFICES ASSUME DInv, wpc = "sleep", pipe = 0, d_lost = 0, Dispatch!Admitted > seen
              PROVE  \E c \in Dispatch!Notifiers : cpc[c] \in {"swap", "write"}
  BY DEF Dispatch!NoLostWake
<1>. QED
  BY DEF DInv, Woken

\* Device work has its owner in the queue until a failure, and a failure leaves
\* nothing pending.
LEMMA OwnedAndSettled ==
  ASSUME DInv
  PROVE  Dispatch!OwnersOutliveWork /\ Dispatch!FailureSettlesAll
<1>1. Dispatch!OwnersOutliveWork
  BY DEF DInv, Held, Dispatch!OwnersOutliveWork, Dispatch!JobIds
<1>2. Dispatch!FailureSettlesAll
  BY DEF DInv, Queued, Dispatch!FailureSettlesAll
<1>. QED
  BY <1>1, <1>2

\* Nothing is in flight exactly when no queued job has a receipt; then, short of
\* a failure, the device is idle.
LEMMA IdleDevice ==
  ASSUME DInv, Dispatch!InFlight = {}, ~failure
  PROVE  gpu = {}
<1>. SUFFICES ASSUME NEW x \in gpu
              PROVE  FALSE
  OBVIOUS
<1>1. PICK i \in DOMAIN jobs : x[2] \in jobs[i].receipts
  BY DEF DInv, Held
<1>2. <<jobs[i].id, x[2]>> \in Dispatch!InFlight
  BY <1>1 DEF Dispatch!InFlight
<1>. QED
  BY <1>2

\* The log grows only in SubmitOk.
LEMMA OnlySubmitLogs ==
  ASSUME [Dispatch!Next]_(Dispatch!vars), d_log' # d_log
  PROVE  Dispatch!SubmitOk
<1>. QED
  BY
     DEF Dispatch!Next, Dispatch!vars, Dispatch!hw, Dispatch!Worker, Dispatch!Enqueue,
         Dispatch!DropScheduler, Dispatch!NotifySwap, Dispatch!NotifyWrite,
         Dispatch!NotifyFails,
         Dispatch!Consume, Dispatch!ConsumeClear, Dispatch!AdvancePoll, Dispatch!RetireFront,
         Dispatch!RetireDone, Dispatch!AdvanceReturns, Dispatch!SubmitFails,
         Dispatch!Wakes, Dispatch!WorkerFaults, Dispatch!OpCheck, Dispatch!OpWaited,
         Dispatch!OpDone, Dispatch!GpuRetires, Dispatch!GpuFails, Dispatch!OtherContextFills,
         Dispatch!OtherContextDrains

\* The chunk handed over belongs to exactly one job; if it needs an idle queue,
\* nothing was in flight, so the device ran nothing.
LEMMA SubmitSeesPrefix ==
  ASSUME DispatchBounds, DInv, Dispatch!SubmitOk,
         NEW i \in DOMAIN jobs, jobs[i].id = Last(d_log')[1],
         Dispatch!RequiresIdle(jobs[i].chunks[jobs[i].next])
  PROVE  gpu = {}
<1>1. /\ Dispatch!First \in DOMAIN jobs /\ Dispatch!NextKey = <<jobs[Dispatch!First].id, jobs[Dispatch!First].next>>
      /\ Dispatch!NextKey \in (1..MaxJobs) \X Nat /\ jobs[Dispatch!First].next <= Len(jobs[Dispatch!First].chunks)
  BY NextIsQueued DEF Dispatch!SubmitOk
<1>2. d_log' = Append(d_log, Dispatch!NextKey) /\ d_log \in Seq((1..MaxJobs) \X Nat) /\ ~Dispatch!Blocked
  BY DEF Dispatch!SubmitOk, DInv, DispatchShaped
<1>3. Last(d_log') = Dispatch!NextKey
  <2>1. Len(d_log') = Len(d_log) + 1 /\ d_log'[Len(d_log) + 1] = Dispatch!NextKey
    BY <1>1, <1>2, AppendProperties
  <2>. QED
    BY <2>1 DEF Last
<1>4. i = Dispatch!First
  <2>1. jobs[i].id = jobs[Dispatch!First].id
    BY <1>1, <1>3
  <2>2. i \in Nat /\ Dispatch!First \in Nat /\ jobs[i].id \in Nat
    BY <1>1, JobFields DEF DInv
  <2>3. ~(i < Dispatch!First) /\ ~(Dispatch!First < i)
    BY <1>1, <2>1, <2>2 DEF DInv, Queued
  <2>. QED
    BY <2>2, <2>3
<1>5. Dispatch!InFlight = {}
  BY <1>2, <1>4 DEF Dispatch!Blocked, Dispatch!NextChunk
<1>6. ~failure
  BY <1>1 DEF DInv, Queued
<1>. QED
  BY <1>5, <1>6, IdleDevice

\* A failed dispatcher has an empty queue, so nothing is submitted or retired.
LEMMA FailureStays ==
  ASSUME DispatchBounds, DInv, [Dispatch!Next]_(Dispatch!vars), failure
  PROVE  failure' /\ d_log' = d_log /\ jobs' = <<>> /\ signal' = signal
<1>1. jobs = <<>> /\ signal \in [1..MaxJobs -> {"none", "pending", "ok", "failed"}]
  BY DEF DInv, Queued, DispatchShaped
<1>2. Len(jobs) = 0 /\ DOMAIN jobs = {}
  BY <1>1
<1>3. ~Dispatch!RetireFront
  BY <1>1 DEF Dispatch!RetireFront, Dispatch!FrontFinished
<1>4. ~Dispatch!SubmitOk /\ ~Dispatch!SubmitFails
  BY <1>2, NextIsQueued DEF Dispatch!SubmitOk, Dispatch!SubmitFails
<1>5. \A c \in Clients, s \in Dispatch!Shapes : ~Dispatch!Enqueue(c, s)
  BY DEF Dispatch!Enqueue, Dispatch!Admissible
<1>6. Dispatch!FailAll => failure' /\ jobs' = <<>> /\ signal' = signal
  BY <1>1, <1>2 DEF Dispatch!FailAll
<1>7. d_log' = d_log
  BY <1>4, OnlySubmitLogs
<1>8. failure' /\ jobs' = <<>> /\ signal' = signal
  <2>1. CASE Dispatch!AdvancePoll
    <3>1. CASE Dispatch!FailAll
      BY <1>6, <3>1
    <3>2. CASE /\ jobs' = [i \in DOMAIN jobs |->
                             [jobs[i] EXCEPT !.receipts = {k \in @ : <<jobs[i].id, k>> \in gpu}]]
               /\ UNCHANGED <<failure, signal>>
      BY <1>2, <3>2
    <3>. QED
      BY <2>1, <3>1, <3>2 DEF Dispatch!AdvancePoll
  <2>2. CASE Dispatch!WorkerFaults
    BY <1>6, <2>2 DEF Dispatch!WorkerFaults
  <2>3. CASE ~Dispatch!AdvancePoll /\ ~Dispatch!WorkerFaults
    BY <1>1, <1>3, <1>4, <1>5, <2>3
    DEF Dispatch!Next, Dispatch!vars, Dispatch!sched, Dispatch!Worker, Dispatch!DropScheduler,
        Dispatch!NotifySwap, Dispatch!NotifyWrite, Dispatch!NotifyFails,
        Dispatch!Consume, Dispatch!ConsumeClear, Dispatch!RetireDone, Dispatch!AdvanceReturns,
        Dispatch!Wakes, Dispatch!OpCheck, Dispatch!OpWaited, Dispatch!OpDone,
        Dispatch!GpuRetires, Dispatch!GpuFails, Dispatch!OtherContextFills,
        Dispatch!OtherContextDrains
  <2>. QED
    BY <2>1, <2>2, <2>3
<1>. QED
  BY <1>7, <1>8

\* A verdict is final: an admission writes the signal of a job not admitted
\* before, and a retirement or a failure that of a pending one.
LEMMA VerdictStays ==
  ASSUME DispatchBounds, DInv, [Dispatch!Next]_(Dispatch!vars), NEW j \in 1..MaxJobs, signal[j] \in {"ok", "failed"}
  PROVE  signal'[j] = signal[j]
<1>1. signal \in [1..MaxJobs -> {"none", "pending", "ok", "failed"}]
  BY DEF DInv, DispatchShaped
<1>2. Dispatch!FailAll => signal'[j] = signal[j]
  BY DEF Dispatch!FailAll, DInv, Queued
<1>3. ASSUME NEW c \in Clients, NEW s \in Dispatch!Shapes, Dispatch!Enqueue(c, s)
      PROVE  signal'[j] = signal[j]
  <2>1. PICK n \in 0..MaxJobs : Prefix(n)
    BY DEF DInv, Admits
  <2>2. Dispatch!Admitted + 1 # j
    BY <2>1, AdmittedIs DEF Prefix
  <2>. QED
    BY <1>1, <1>3, <2>2 DEF Dispatch!Enqueue
<1>4. CASE Dispatch!RetireFront
  <2>1. jobs \in Seq(Job) /\ jobs # <<>> /\ signal' = [signal EXCEPT ![Head(jobs).id] = "ok"]
    BY <1>4 DEF Dispatch!RetireFront, Dispatch!FrontFinished, DInv, DispatchShaped
  <2>2. Head(jobs) = jobs[1] /\ 1 \in DOMAIN jobs
    BY <2>1, HeadTailProperties
  <2>3. jobs[1].id # j
    BY <2>2 DEF DInv, Queued
  <2>. QED
    BY <1>1, <2>1, <2>2, <2>3
<1>5. CASE Dispatch!AdvancePoll \/ Dispatch!SubmitFails \/ Dispatch!WorkerFaults
  BY <1>2, <1>5 DEF Dispatch!AdvancePoll, Dispatch!SubmitFails, Dispatch!WorkerFaults
<1>6. CASE signal' = signal
  BY <1>6
<1>. QED
  BY <1>3, <1>4, <1>5, <1>6
  DEF Dispatch!Next, Dispatch!vars, Dispatch!sched, Dispatch!Worker, Dispatch!DropScheduler,
      Dispatch!NotifySwap, Dispatch!NotifyWrite, Dispatch!NotifyFails,
      Dispatch!Consume, Dispatch!ConsumeClear, Dispatch!RetireDone, Dispatch!SubmitOk,
      Dispatch!AdvanceReturns, Dispatch!Wakes, Dispatch!OpCheck, Dispatch!OpWaited,
      Dispatch!OpDone,
      Dispatch!GpuRetires, Dispatch!GpuFails, Dispatch!OtherContextFills,
      Dispatch!OtherContextDrains

\* Whatever the number of clients, jobs and chunks, and whatever order the fences
\* are observed in: success speaks for the whole prefix, a detach runs with an
\* idle device, owners outlive the work, chunks are handed over in order and CPU
\* work sees exactly its prefix, and a failure settles every job for good.
THEOREM DispatchIsSafe ==
  ASSUME DispatchBounds
  PROVE  OwnershipSpec => DispatchSafe
<1>. DEFINE State == /\ Dispatch!OkMeansRetired /\ Dispatch!DetachIsQuiesced /\ Dispatch!OwnersOutliveWork
                     /\ Dispatch!DispatchInOrder /\ Dispatch!FailureSettlesAll
                     /\ Dispatch!NoLostWake
<1>. DEFINE Sees == \A j \in 1..MaxJobs : Len(d_log') > Len(d_log) /\ Dispatch!Last(d_log')[1] = j =>
                      \A i \in DOMAIN jobs :
                        jobs[i].id = j /\ Dispatch!RequiresIdle(jobs[i].chunks[jobs[i].next]) => gpu = {}
<1>. DEFINE Final == /\ failure => failure' /\ d_log' = d_log /\ jobs' = <<>>
                     /\ \A j \in 1..MaxJobs :
                          signal[j] \in {"ok", "failed"} => signal'[j] = signal[j]
<1>1. DInv => State
  BY OwnedAndSettled, NoWakeIsLost DEF DInv
<1>2. DInv /\ [Dispatch!Next]_(Dispatch!vars) => [Sees]_(Dispatch!vars)
  <2>. SUFFICES ASSUME DInv, [Dispatch!Next]_(Dispatch!vars) PROVE Sees
    OBVIOUS
  <2>. Dispatch!Last(d_log') = Last(d_log')
    BY DEF Dispatch!Last, Last
  <2>. SUFFICES ASSUME NEW i \in DOMAIN jobs, Len(d_log') > Len(d_log), jobs[i].id = Last(d_log')[1],
                       Dispatch!RequiresIdle(jobs[i].chunks[jobs[i].next])
                PROVE  gpu = {}
    OBVIOUS
  <2>1. d_log' # d_log
    BY DEF DInv, DispatchShaped
  <2>2. Dispatch!SubmitOk
    BY <2>1, OnlySubmitLogs
  <2>. QED
    BY <2>2, SubmitSeesPrefix
<1>3. DInv /\ [Dispatch!Next]_(Dispatch!vars) => [Final]_(Dispatch!vars)
  BY FailureStays, VerdictStays
<1>. QED
  BY <1>1, <1>2, <1>3, Invariance, DispatchPart, PTL
     DEF DispatchSafe, Dispatch!DispatchSafe, Dispatch!CpuSeesPrefix, Dispatch!FailureIsFinal

-----------------------------------------------------------------------------
(* The image cache of a session. *)

\* An object somebody still holds.
Owns(o) == Resources!Owners(o, cache, s_jobs, s_held, mapped)

\* The shape of the state.
Stored ==
    /\ s_live \in [TableSlots -> Nat \ {0}] /\ cache \in [TableSlots -> Objects \cup {Resources!None}]
    /\ DOMAIN ident = TableSlots /\ DOMAIN for = Objects
    /\ obj \in [Objects -> {"free", "attached", "detached", "stuck"}]
    /\ s_held \subseteq Objects
    /\ mapped \subseteq [slot : TableSlots, gen : Nat, img : Objects]
    /\ \A j \in s_jobs : j.uses \in j.retains /\ j.retains \subseteq Objects

\* What has an owner is attached, or was detached under it.
CacheOwned == \A o \in Objects : obj[o] \in {"attached", "detached"} <=> Owns(o)

\* The cache lends only attached storage that was made for, or last mapped to, the
\* slot's identity, each to one slot.
Lends ==
    /\ \A s \in TableSlots : cache[s] # Resources!None =>
         obj[cache[s]] = "attached" /\ for[cache[s]] = <<s, ident[s]>>
    /\ Resources!NoAliases

\* A mapping of a live texture is in the cache under that texture's identity; the
\* others are of earlier generations, which never come back.
Targeted ==
    \A m \in mapped :
      /\ m.gen <= s_live[m.slot]
      /\ m.gen = s_live[m.slot] => cache[m.slot] = m.img /\ ident[m.slot] = s_live[m.slot]

\* A queued job was given the storage of its texture, and what it retains stays
\* attached.
Works ==
    \A j \in s_jobs :
      /\ j.for = j.tex
      /\ \A o \in j.retains : obj[o] = "attached"

\* The invariant of the image cache.
SInv == Stored /\ CacheOwned /\ Lends /\ Targeted /\ Works

\* What settling does to the objects: an owner keeps its attachment, the last
\* owner's object is let go, and what is detached explicitly is not attached.
LEMMA SettleFacts ==
  ASSUME obj \in [Objects -> {"free", "attached", "detached", "stuck"}], CacheOwned,
         NEW new \in SUBSET Objects, NEW off \in SUBSET Objects,
         Resources!Settle(new, off),
         \A o \in Objects : Owns(o)' => Owns(o) \/ o \in new,
         \A o \in new : Owns(o)' /\ obj[o] = "free" /\ o \notin off,
         \A o \in off : Owns(o)
  PROVE  /\ obj' \in [Objects -> {"free", "attached", "detached", "stuck"}]
         /\ CacheOwned'
         /\ \A o \in Objects : Owns(o)' /\ o \notin off /\ obj[o] = "attached" => obj'[o] = "attached"
         /\ \A o \in new : obj'[o] = "attached"
         /\ \A o \in off : obj'[o] # "attached"
<1>. DEFINE orphans == {o \in Objects : Resources!Orphan(o)}
<1>1. PICK stuck \in SUBSET {o \in orphans \ off : obj[o] = "attached"} :
        obj' = [o \in Objects |-> IF o \in stuck THEN "stuck"
                                  ELSE IF o \in orphans THEN "free"
                                  ELSE IF o \in off THEN "detached"
                                  ELSE IF o \in new THEN "attached" ELSE obj[o]]
  BY DEF Resources!Settle
<1>2. \A o \in Objects : o \in orphans <=> obj[o] \in {"attached", "detached"} /\ ~Owns(o)'
  BY DEF Resources!Orphan, Owns
<1>. HIDE DEF orphans
<1>3. \A o \in Objects : /\ o \in stuck => o \in orphans /\ o \notin off
                         /\ o \in stuck => obj'[o] = "stuck"
                         /\ o \in orphans /\ o \notin stuck => obj'[o] = "free"
                         /\ o \notin orphans /\ o \in off => obj'[o] = "detached"
                         /\ o \notin orphans /\ o \notin off /\ o \in new => obj'[o] = "attached"
                         /\ o \notin orphans /\ o \notin off /\ o \notin new => obj'[o] = obj[o]
  BY <1>1
<1>4. obj' \in [Objects -> {"free", "attached", "detached", "stuck"}]
  BY <1>1
<1>5. ASSUME NEW o \in Objects
      PROVE  obj'[o] \in {"attached", "detached"} <=> Owns(o)'
  <2>1. obj[o] \in {"attached", "detached"} <=> Owns(o)
    BY DEF CacheOwned
  <2>. QED
    BY <1>2, <1>3, <2>1
<1>6. CacheOwned'
  BY <1>5 DEF CacheOwned
<1>. QED
  BY <1>2, <1>3, <1>4, <1>6

\* A step that adds no owner.
LEMMA SettleDrops ==
  ASSUME SInv, Resources!Settle({}, {}), \A o \in Objects : Owns(o)' => Owns(o)
  PROVE  /\ obj' \in [Objects -> {"free", "attached", "detached", "stuck"}] /\ CacheOwned'
         /\ \A o \in Objects : Owns(o)' /\ obj[o] = "attached" => obj'[o] = "attached"
<1>. DEFINE none == {}
<1>1. /\ none \in SUBSET Objects /\ obj \in [Objects -> {"free", "attached", "detached", "stuck"}]
      /\ CacheOwned /\ Resources!Settle(none, none) /\ \A o : o \notin none
  BY DEF SInv, Stored
<1>. HIDE DEF none
<1>. QED
  BY <1>1, SettleFacts

\* A step that adds an owner to a free object.
LEMMA SettleTakes ==
  ASSUME SInv, NEW n \in Objects, obj[n] = "free", Resources!Settle({n}, {}), Owns(n)',
         \A o \in Objects : Owns(o)' => Owns(o) \/ o = n
  PROVE  /\ obj' \in [Objects -> {"free", "attached", "detached", "stuck"}] /\ CacheOwned'
         /\ \A o \in Objects : Owns(o)' /\ obj[o] = "attached" => obj'[o] = "attached"
         /\ obj'[n] = "attached"
<1>. DEFINE none == {}
            new == {n}
<1>1. /\ none \in SUBSET Objects /\ obj \in [Objects -> {"free", "attached", "detached", "stuck"}]
      /\ CacheOwned /\ Resources!Settle(new, none) /\ \A o : o \notin none
      /\ new \in SUBSET Objects /\ \A o : o \in new <=> o = n
  BY DEF SInv, Stored
<1>. HIDE DEF none, new
<1>2. /\ \A o \in Objects : Owns(o)' => Owns(o) \/ o \in new
      /\ \A o \in none : Owns(o)
  BY <1>1
<1>3. \A o \in new : Owns(o)' /\ obj[o] = "free" /\ o \notin none
  BY <1>1
<1>4. /\ obj' \in [Objects -> {"free", "attached", "detached", "stuck"}] /\ CacheOwned'
      /\ \A o \in Objects : Owns(o)' /\ o \notin none /\ obj[o] = "attached" => obj'[o] = "attached"
      /\ \A o \in new : obj'[o] = "attached"
  BY <1>1, <1>2, <1>3, SettleFacts
<1>. QED
  BY <1>1, <1>4

\* Owners, spelled out.
LEMMA OwnsIs ==
  \A o : Owns(o) <=> \/ \E s \in TableSlots : cache[s] = o
                     \/ \E m \in mapped : m.img = o
                     \/ \E x \in s_jobs : o \in x.retains
                     \/ o \in s_held
BY DEF Owns, Resources!Owners

\* A free object is nobody's.
LEMMA FreeIsUnused ==
  ASSUME SInv, NEW o \in Objects, obj[o] = "free"
  PROVE  /\ o # Resources!None /\ o \notin s_held
         /\ \A s \in TableSlots : cache[s] # o
         /\ \A m \in mapped : m.img # o
         /\ \A j \in s_jobs : o \notin j.retains /\ o # j.uses
<1>1. ~Owns(o)
  BY DEF SInv, CacheOwned
<1>. QED
  BY <1>1, OwnsIs, ImageAssumption DEF SInv, Stored

\* A slot whose texture is mapped has current storage.
LEMMA MappedIsHit ==
  ASSUME SInv, NEW s \in TableSlots,
         ~Resources!Hit(s) \/ Resources!Refreshed(s) = Resources!None
  PROVE  \A m \in mapped : m.slot = s => m.gen # s_live[s]
<1>. SUFFICES ASSUME NEW m \in mapped, m.slot = s, m.gen = s_live[s] PROVE FALSE
  OBVIOUS
<1>1. cache[s] = m.img /\ ident[s] = s_live[s]
  BY DEF SInv, Targeted
<1>2. m.img # Resources!None
  BY ImageAssumption DEF SInv, Stored
<1>. QED
  BY <1>1, <1>2 DEF Resources!Hit, Resources!Refreshed

LEMMA ResourcesInit ==
  ASSUME Resources!Init PROVE SInv
<1>. DEFINE Targets == IF api = "targets" THEN Present ELSE {}
<1>. DEFINE Mapped(targets, image) ==
           /\ \A s, x \in targets : image[s] = image[x] => s = x
           /\ cache = [s \in TableSlots |-> IF s \in targets THEN image[s] ELSE Resources!None]
           /\ ident = [s \in TableSlots |-> IF s \in targets THEN 1 ELSE Resources!None]
           /\ obj = [o \in Objects |-> IF \E s \in targets : image[s] = o
                                        THEN "attached" ELSE "free"]
           /\ for = [o \in Objects |-> IF \E s \in targets : image[s] = o
                                        THEN <<CHOOSE s \in targets : image[s] = o, 1>>
                                        ELSE <<>>]
           /\ mapped = {[slot |-> s, gen |-> 1, img |-> image[s]] : s \in targets}
<1>1. PICK targets \in SUBSET Targets : \E image \in [targets -> Objects] : Mapped(targets, image)
  BY DEF Resources!Init
<1>2. PICK image \in [targets -> Objects] : Mapped(targets, image)
  BY <1>1
<1>3. /\ s_live = [s \in TableSlots |-> 1] /\ s_held = {} /\ s_jobs = {}
      /\ \A s \in targets : s \in TableSlots /\ image[s] \in Objects
  BY PresentAssumption DEF Resources!Init
<1>4. \A m \in mapped : m.slot \in targets /\ m.gen = 1 /\ m.img = image[m.slot]
  BY <1>2
<1>5. Stored
  <2>1. mapped \subseteq [slot : TableSlots, gen : Nat, img : Objects]
    BY <1>2, <1>3
  <2>. QED
    BY <1>2, <1>3, <2>1 DEF Stored
<1>6. Lends
  <2>1. ASSUME NEW s \in targets
        PROVE  obj[image[s]] = "attached" /\ for[image[s]] = <<s, 1>>
    <3>1. (CHOOSE x \in targets : image[x] = image[s]) = s
      BY <1>2
    <3>. QED
      BY <1>2, <1>3, <3>1
  <2>. QED
    BY <1>2, <1>3, <2>1 DEF Lends, Resources!NoAliases
<1>7. Targeted
  BY <1>2, <1>3, <1>4 DEF Targeted
<1>8. Works
  BY <1>3 DEF Works
<1>9. CacheOwned
  <2>1. \A o \in Objects : Owns(o) <=> \E s \in targets : image[s] = o
    <3>1. \A o \in Objects : Owns(o) => \E s \in targets : image[s] = o
      BY OwnsIs, ImageAssumption, <1>2, <1>3, <1>4
    <3>2. \A s \in targets : cache[s] = image[s]
      BY <1>2, <1>3
    <3>. QED
      BY OwnsIs, <1>3, <3>1, <3>2
  <2>. QED
    BY <1>2, <2>1 DEF CacheOwned
<1>. QED
  BY <1>5, <1>6, <1>7, <1>8, <1>9 DEF SInv

\* The client replaces a texture's metadata.
LEMMA ReplaceImageKeeps ==
  ASSUME SInv, NEW s \in TableSlots, Resources!ReplaceTexture(s)
  PROVE  SInv'
<1>1. /\ s_live' = [s_live EXCEPT ![s] = @ + 1]
      /\ UNCHANGED <<cache, ident, obj, for, s_held, mapped, s_jobs>>
  BY DEF Resources!ReplaceTexture
<1>2. s_live' \in [TableSlots -> Nat \ {0}] /\ \A x \in TableSlots : s_live'[x] = s_live[x] \/ (x = s /\ s_live'[x] = s_live[x] + 1)
  BY <1>1 DEF SInv, Stored
<1>3. Stored'
  BY <1>1, <1>2 DEF SInv, Stored
<1>4. CacheOwned' /\ Lends' /\ Works'
  BY <1>1 DEF SInv, CacheOwned, Owns, Lends, Works, Resources!NoAliases
<1>5. Targeted'
  <2>1. \A m \in mapped : m.slot \in TableSlots /\ m.gen \in Nat /\ s_live[m.slot] \in Nat
    BY DEF SInv, Stored
  <2>. QED
    BY <1>1, <1>2, <2>1 DEF SInv, Targeted
<1>. QED
  BY <1>3, <1>4, <1>5 DEF SInv

\* Owners only go away: the parts of the invariant that no owner's leaving breaks.
LEMMA SameCacheKeeps ==
  ASSUME SInv, Resources!Settle({}, {}), UNCHANGED <<s_live, cache, for, mapped>>,
         DOMAIN ident' = TableSlots, \A x \in TableSlots : ident'[x] = ident[x],
         s_held' \subseteq s_held, s_jobs' \subseteq s_jobs
  PROVE  SInv'
<1>1. \A o \in Objects : Owns(o)' => Owns(o)
  BY DEF Owns, Resources!Owners
<1>2. /\ obj' \in [Objects -> {"free", "attached", "detached", "stuck"}] /\ CacheOwned'
      /\ \A o \in Objects : Owns(o)' /\ obj[o] = "attached" => obj'[o] = "attached"
  BY <1>1, SettleDrops
<1>3. Stored'
  BY <1>2 DEF SInv, Stored
<1>4. \A o \in Objects : (\E s \in TableSlots : cache[s] = o) \/ (\E x \in s_jobs' : o \in x.retains) => Owns(o)'
  BY DEF Owns, Resources!Owners
<1>5. Lends'
  BY <1>2, <1>4 DEF SInv, Stored, Lends, Resources!NoAliases
<1>6. Targeted'
  BY DEF SInv, Stored, Targeted
<1>7. Works'
  BY <1>2, <1>4 DEF SInv, Stored, Works
<1>. QED
  BY <1>2, <1>3, <1>5, <1>6, <1>7 DEF SInv

LEMMA DropsKeep ==
  ASSUME SInv,
         \/ Resources!DispatchFails
         \/ \E j \in s_jobs : Resources!Retire(j)
         \/ \E o \in Objects : Resources!DropImage(o)
  PROVE  SInv' /\ cache' = cache
<1>1. CASE Resources!DispatchFails
  BY <1>1, SameCacheKeeps DEF Resources!DispatchFails, SInv, Stored
<1>2. ASSUME NEW j \in s_jobs, Resources!Retire(j) PROVE SInv' /\ cache' = cache
  BY <1>2, SameCacheKeeps DEF Resources!Retire, SInv, Stored
<1>3. ASSUME NEW o \in Objects, Resources!DropImage(o) PROVE SInv' /\ cache' = cache
  BY <1>3, SameCacheKeeps DEF Resources!DropImage, SInv, Stored
<1>. QED
  BY <1>1, <1>2, <1>3

\* The client makes an image of its own.
LEMMA CreateImageKeeps ==
  ASSUME SInv, NEW o \in Objects, Resources!CreateImage(o)
  PROVE  SInv'
<1>1. /\ obj[o] = "free" /\ s_held' = s_held \cup {o} /\ for' = [for EXCEPT ![o] = <<>>]
      /\ obj' = [obj EXCEPT ![o] = "attached"]
      /\ UNCHANGED <<s_live, cache, ident, mapped, s_jobs>>
  BY DEF Resources!CreateImage
<1>2. /\ o # Resources!None /\ \A s \in TableSlots : cache[s] # o
      /\ \A j \in s_jobs : o \notin j.retains /\ o # j.uses
  BY <1>1, FreeIsUnused
<1>3. \A p \in Objects : p # o => for'[p] = for[p] /\ obj'[p] = obj[p]
  BY <1>1 DEF SInv, Stored
<1>4. Stored'
  BY <1>1 DEF SInv, Stored
<1>5. CacheOwned'
  <2>1. \A p \in Objects : Owns(p)' <=> Owns(p) \/ p = o
    BY <1>1 DEF Owns, Resources!Owners
  <2>2. obj'[o] = "attached"
    BY <1>1 DEF SInv, Stored
  <2>. QED
    BY <1>3, <2>1, <2>2 DEF SInv, CacheOwned
<1>6. Lends'
  BY <1>1, <1>2, <1>3 DEF SInv, Stored, Lends, Resources!NoAliases
<1>7. Targeted'
  BY <1>1 DEF SInv, Targeted
<1>8. Works'
  <2>1. \A j \in s_jobs : j.uses \in Objects /\ j.retains \subseteq Objects
    BY DEF SInv, Stored
  <2>. QED
    BY <1>1, <1>2, <1>3, <2>1 DEF SInv, Works
<1>. QED
  BY <1>4, <1>5, <1>6, <1>7, <1>8 DEF SInv

\* New storage is made for a texture that has none, for the cache alone or for a job
\* as well.
LEMMA TakesKeeps ==
  ASSUME SInv, NEW s \in TableSlots, NEW o \in Objects, obj[o] = "free",
         ~Resources!Hit(s) \/ Resources!Refreshed(s) = Resources!None,
         cache' = [cache EXCEPT ![s] = o], ident' = [ident EXCEPT ![s] = s_live[s]],
         for' = [for EXCEPT ![o] = <<s, s_live[s]>>],
         Resources!Settle({o}, {}), UNCHANGED <<s_live, s_held, mapped>>,
         NEW J, s_jobs' = s_jobs \cup J,
         \A r \in J : /\ r.uses = o /\ r.tex = <<s, s_live[s]>> /\ r.for = r.tex
                      /\ r.retains = {cache'[x] : x \in TableSlots} \ {Resources!None}
  PROVE  SInv'
<1>1. /\ o # Resources!None /\ o \notin s_held
      /\ \A x \in TableSlots : cache[x] # o
      /\ \A j \in s_jobs : o \notin j.retains /\ o # j.uses
  BY FreeIsUnused
<1>2. /\ cache' \in [TableSlots -> Objects \cup {Resources!None}] /\ cache'[s] = o
      /\ \A x \in TableSlots : x # s => cache'[x] = cache[x]
      /\ DOMAIN ident' = TableSlots /\ ident'[s] = s_live[s]
      /\ \A x \in TableSlots : x # s => ident'[x] = ident[x]
      /\ DOMAIN for' = Objects /\ for'[o] = <<s, s_live[s]>>
      /\ \A p \in Objects : p # o => for'[p] = for[p]
  BY DEF SInv, Stored
<1>3. \A r \in J : \A p : p \in r.retains <=> p # Resources!None /\ \E x \in TableSlots : cache'[x] = p
  OBVIOUS
<1>4. \A p \in Objects : (\E x \in TableSlots : cache'[x] = p) \/ (\E j \in s_jobs' : p \in j.retains)
                         => Owns(p)'
  BY DEF Owns, Resources!Owners
<1>5. \A p \in Objects : Owns(p)' => Owns(p) \/ p = o
  <2>. SUFFICES ASSUME NEW p \in Objects, Owns(p)', p # o PROVE Owns(p)
    OBVIOUS
  <2>1. \/ \E x \in TableSlots : cache'[x] = p
        \/ \E m \in mapped : m.img = p
        \/ \E j \in s_jobs \cup J : p \in j.retains
        \/ p \in s_held
    BY DEF Owns, Resources!Owners
  <2>2. (\E x \in TableSlots : cache'[x] = p) => \E x \in TableSlots : cache[x] = p
    BY <1>2
  <2>3. (\E j \in J : p \in j.retains) => \E x \in TableSlots : cache[x] = p
    BY <1>3, <2>2
  <2>4. \/ \E x \in TableSlots : cache[x] = p
        \/ \E m \in mapped : m.img = p
        \/ \E j \in s_jobs : p \in j.retains
        \/ p \in s_held
    BY <2>1, <2>2, <2>3
  <2>. QED
    BY <2>4, OwnsIs
<1>6. /\ obj' \in [Objects -> {"free", "attached", "detached", "stuck"}] /\ CacheOwned'
      /\ \A p \in Objects : Owns(p)' /\ obj[p] = "attached" => obj'[p] = "attached"
      /\ obj'[o] = "attached"
  BY <1>2, <1>4, <1>5, SettleTakes
<1>7. Stored'
  <2>1. \A j \in s_jobs' : j.uses \in j.retains /\ j.retains \subseteq Objects
    BY <1>1, <1>2, <1>3 DEF SInv, Stored
  <2>. QED
    BY <1>2, <1>6, <2>1 DEF SInv, Stored
<1>8. Lends'
  <2>1. \A x \in TableSlots : cache[x] # Resources!None => cache[x] \in Objects
    BY DEF SInv, Stored
  <2>2. ASSUME NEW x \in TableSlots, cache'[x] # Resources!None
        PROVE  obj'[cache'[x]] = "attached" /\ for'[cache'[x]] = <<x, ident'[x]>>
    <3>1. CASE x = s
      BY <1>1, <1>2, <1>6, <3>1
    <3>2. CASE x # s
      <4>1. cache'[x] = cache[x] /\ cache[x] # o /\ cache[x] \in Objects
        BY <1>1, <1>2, <2>1, <2>2, <3>2
      <4>2. obj[cache[x]] = "attached" /\ for[cache[x]] = <<x, ident[x]>>
        BY <2>2, <4>1 DEF SInv, Lends
      <4>. QED
        BY <1>2, <1>4, <1>6, <3>2, <4>1, <4>2
    <3>. QED
      BY <3>1, <3>2
  <2>3. Resources!NoAliases'
    BY <1>1, <1>2 DEF SInv, Lends, Resources!NoAliases
  <2>. QED
    BY <2>2, <2>3 DEF Lends
<1>9. Targeted'
  <2>1. \A m \in mapped : m.slot = s => m.gen # s_live[s]
    BY MappedIsHit
  <2>2. \A m \in mapped : m.slot \in TableSlots
    BY DEF SInv, Stored
  <2>. QED
    BY <1>2, <2>1, <2>2 DEF SInv, Targeted
<1>10. Works'
  <2>1. ASSUME NEW j \in s_jobs
        PROVE  j.for = j.tex /\ \A p \in j.retains : obj'[p] = "attached"
    <3>1. j.retains \subseteq Objects
      BY DEF SInv, Stored
    <3>. QED
      BY <1>4, <1>6, <3>1 DEF SInv, Works
  <2>2. ASSUME NEW r \in J
        PROVE  r.for = r.tex /\ \A p \in r.retains : obj'[p] = "attached"
    BY <1>2, <1>3, <1>8 DEF Lends
  <2>. QED
    BY <2>1, <2>2 DEF Works
<1>. QED
  BY <1>6, <1>7, <1>8, <1>9, <1>10 DEF SInv

\* A submission uses what the cache holds, or has new storage made.
LEMMA SubmitImageKeeps ==
  ASSUME SInv, NEW s \in TableSlots, NEW o \in Objects, Resources!Submit(s, o)
  PROVE  SInv' /\ (Resources!Hit(s) => cache' = cache) /\ \A x \in TableSlots \ {s} : cache'[x] = cache[x]
<1>. DEFINE r == [tex |-> <<s, s_live[s]>>, uses |-> o, for |-> for'[o],
                  retains |-> {cache'[x] : x \in TableSlots} \ {Resources!None}]
<1>1. /\ s_jobs' = s_jobs \cup {r} \/ s_jobs' = s_jobs
      /\ UNCHANGED <<s_live, s_held, mapped>>
      /\ Resources!Settle({o} \ {cache[x] : x \in TableSlots}, {})
  BY DEF Resources!Submit
<1>2. /\ r.uses = o /\ r.tex = <<s, s_live[s]>> /\ r.for = for'[o]
      /\ r.retains = {cache'[x] : x \in TableSlots} \ {Resources!None}
  OBVIOUS
<1>. HIDE DEF r
<1>. DEFINE J == IF s_jobs' = s_jobs THEN {} ELSE {r}
<1>3. s_jobs' = s_jobs \cup J /\ \A q \in J : q = r
  BY <1>1
<1>. HIDE DEF J
<1>4. CASE Resources!Hit(s) /\ o = cache[s] /\ UNCHANGED <<cache, ident, for>>
  <2>1. \A p : p \in r.retains <=> p # Resources!None /\ \E x \in TableSlots : cache[x] = p
    BY <1>2, <1>4
  <2>2. \A p \in Objects : Owns(p)' <=> Owns(p)
    BY <1>1, <1>3, <1>4, <2>1 DEF Owns, Resources!Owners
  <2>3. Resources!Settle({}, {})
    <3>1. {o} \ {cache[x] : x \in TableSlots} = {}
      BY <1>4
    <3>. QED
      BY <1>1, <3>1
  <2>4. /\ obj' \in [Objects -> {"free", "attached", "detached", "stuck"}] /\ CacheOwned'
        /\ \A p \in Objects : Owns(p) /\ obj[p] = "attached" => obj'[p] = "attached"
    BY <2>2, <2>3, SettleDrops
  <2>5. Stored'
    <3>1. o \in r.retains /\ r.retains \subseteq Objects
      BY <1>4, <2>1 DEF Resources!Hit, SInv, Stored
    <3>2. \A j \in s_jobs' : j.uses \in j.retains /\ j.retains \subseteq Objects
      BY <1>2, <1>3, <3>1 DEF SInv, Stored
    <3>. QED
      BY <1>1, <1>4, <2>4, <3>2 DEF SInv, Stored
  <2>6. \A x \in TableSlots : cache[x] # Resources!None => obj'[cache[x]] = "attached"
    BY <2>4, OwnsIs DEF SInv, Stored, Lends
  <2>7. Lends'
    BY <1>1, <1>4, <2>6 DEF SInv, Lends, Resources!NoAliases
  <2>8. Targeted'
    BY <1>1, <1>4 DEF SInv, Targeted
  <2>9. Works'
    <3>1. \A j \in s_jobs : \A p \in j.retains : obj'[p] = "attached"
      BY <2>4, OwnsIs DEF SInv, Stored, Works
    <3>2. r.for = r.tex
      BY <1>2, <1>4 DEF SInv, Lends, Resources!Hit
    <3>3. \A p \in r.retains : obj'[p] = "attached"
      BY <2>1, <2>6
    <3>. QED
      BY <1>3, <3>1, <3>2, <3>3 DEF SInv, Works
  <2>. QED
    BY <1>4, <2>4, <2>5, <2>7, <2>8, <2>9 DEF SInv
<1>5. CASE /\ ~Resources!Hit(s) /\ s \notin Present /\ obj[o] = "free"
           /\ cache' = [cache EXCEPT ![s] = o] /\ ident' = [ident EXCEPT ![s] = s_live[s]]
           /\ for' = [for EXCEPT ![o] = <<s, s_live[s]>>]
  <2>1. {o} \ {cache[x] : x \in TableSlots} = {o}
    BY <1>5, FreeIsUnused
  <2>2. Resources!Settle({o}, {})
    BY <1>1, <2>1
  <2>3. \A q \in J : /\ q.uses = o /\ q.tex = <<s, s_live[s]>> /\ q.for = q.tex
                     /\ q.retains = {cache'[x] : x \in TableSlots} \ {Resources!None}
    <3>1. for'[o] = <<s, s_live[s]>>
      BY <1>5 DEF SInv, Stored
    <3>. QED
      BY <1>2, <1>3, <3>1
  <2>4. /\ s_jobs' = s_jobs \cup J
        /\ UNCHANGED <<s_live, s_held, mapped>>
        /\ ~Resources!Hit(s) \/ Resources!Refreshed(s) = Resources!None
        /\ obj[o] = "free" /\ cache' = [cache EXCEPT ![s] = o]
        /\ ident' = [ident EXCEPT ![s] = s_live[s]]
        /\ for' = [for EXCEPT ![o] = <<s, s_live[s]>>]
    BY <1>1, <1>3, <1>5
  <2>5. SInv'
    BY <2>2, <2>3, <2>4, TakesKeeps
  <2>. QED
    BY <1>5, <2>5 DEF SInv, Stored
<1>. QED
  BY <1>4, <1>5 DEF Resources!Submit, Resources!Materialize

\* A refused map or import only lets go of storage of another generation.
LEMMA RefreshKeeps ==
  ASSUME SInv, NEW s \in TableSlots, cache' = [cache EXCEPT ![s] = Resources!Refreshed(s)],
         ident' = [ident EXCEPT ![s] = s_live[s]],
         UNCHANGED <<s_live, for, mapped, s_held, s_jobs>>, Resources!Settle({}, {})
  PROVE  SInv' /\ (Resources!Hit(s) => cache' = cache) /\ \A x \in TableSlots \ {s} : cache'[x] = cache[x]
<1>1. \A x \in TableSlots \ {s} : cache'[x] = cache[x] /\ ident'[x] = ident[x]
  BY DEF SInv, Stored
<1>2. cache'[s] = Resources!Refreshed(s) /\ ident'[s] = s_live[s]
  BY DEF SInv, Stored
<1>3. CASE ident[s] = s_live[s]
  <2>1. /\ cache' = cache /\ DOMAIN ident' = TableSlots
        /\ \A x \in TableSlots : ident'[x] = ident[x]
    BY <1>1, <1>2, <1>3 DEF SInv, Stored, Resources!Refreshed
  <2>. QED
    BY <2>1, SameCacheKeeps
<1>4. CASE ident[s] # s_live[s]
  <2>1. cache'[s] = Resources!None /\ ~Resources!Hit(s)
    BY <1>2, <1>4 DEF Resources!Refreshed, Resources!Hit
  <2>2. \A o \in Objects : Owns(o)' => Owns(o)
    BY <1>1, <2>1, ImageAssumption DEF Owns, Resources!Owners
  <2>3. /\ obj' \in [Objects -> {"free", "attached", "detached", "stuck"}] /\ CacheOwned'
        /\ \A o \in Objects : Owns(o)' /\ obj[o] = "attached" => obj'[o] = "attached"
    BY <2>2, SettleDrops
  <2>4. \A o \in Objects : (\E x \in TableSlots : cache'[x] = o) \/ (\E j \in s_jobs : o \in j.retains) => Owns(o)'
    BY DEF Owns, Resources!Owners
  <2>5. Stored'
    <3>1. /\ cache' \in [TableSlots -> Objects \cup {Resources!None}]
          /\ DOMAIN ident' = TableSlots
      BY <1>4 DEF SInv, Stored, Resources!Refreshed
    <3>. QED
      BY <2>3, <3>1 DEF SInv, Stored
  <2>6. Lends'
    BY <1>1, <2>1, <2>3, <2>4 DEF SInv, Stored, Lends, Resources!NoAliases
  <2>7. Targeted'
    <3>1. \A m \in mapped : m.slot = s => m.gen # s_live[s]
      BY <2>1, MappedIsHit
    <3>2. \A m \in mapped : m.slot \in TableSlots
      BY DEF SInv, Stored
    <3>. QED
      BY <1>1, <3>1, <3>2 DEF SInv, Targeted
  <2>8. Works'
    BY <2>3, <2>4 DEF SInv, Stored, Works
  <2>. QED
    BY <1>1, <2>1, <2>3, <2>5, <2>6, <2>7, <2>8 DEF SInv
<1>. QED
  BY <1>3, <1>4

\* A shared image is imported, or refused.
LEMMA ImportKeeps ==
  ASSUME SInv, NEW s \in TableSlots, NEW o \in Objects, Resources!Import(s, o)
  PROVE  SInv' /\ (Resources!Hit(s) => cache' = cache) /\ \A x \in TableSlots \ {s} : cache'[x] = cache[x]
<1>1. /\ ident' = [ident EXCEPT ![s] = s_live[s]]
      /\ UNCHANGED <<s_live, s_held, mapped, s_jobs>>
  BY DEF Resources!Import
<1>2. CASE /\ Resources!Refreshed(s) = Resources!None /\ obj[o] = "free"
           /\ cache' = [cache EXCEPT ![s] = o] /\ for' = [for EXCEPT ![o] = <<s, s_live[s]>>]
           /\ Resources!Settle({o}, {})
  <2>1. SInv'
    <3>. DEFINE J == {}
    <3>1. s_jobs' = s_jobs \cup J /\ \A r \in J : FALSE
      BY <1>1
    <3>. HIDE DEF J
    <3>. QED
      BY <1>1, <1>2, <3>1, TakesKeeps
  <2>2. ~Resources!Hit(s)
    BY <1>2 DEF Resources!Refreshed, Resources!Hit
  <2>. QED
    BY <1>2, <2>1, <2>2 DEF SInv, Stored
<1>3. CASE /\ cache' = [cache EXCEPT ![s] = Resources!Refreshed(s)] /\ for' = for
           /\ Resources!Settle({}, {})
  BY <1>1, <1>3, RefreshKeeps
<1>. QED
  BY <1>2, <1>3 DEF Resources!Import

\* The client maps an image it holds to a texture without storage. The image may
\* have been mapped to an earlier generation that queued jobs still name.
LEMMA MapImageKeeps ==
  ASSUME SInv, NEW s \in TableSlots, NEW o \in Objects, Resources!MapImage(s, o)
  PROVE  SInv' /\ (Resources!Hit(s) => cache' = cache) /\ \A x \in TableSlots \ {s} : cache'[x] = cache[x]
<1>1. /\ o \in s_held /\ obj[o] = "attached"
      /\ ident' = [ident EXCEPT ![s] = s_live[s]] /\ UNCHANGED <<s_live, s_held, s_jobs>>
      /\ Resources!Settle({}, {})
  BY DEF Resources!MapImage
<1>2. CASE Resources!Mappable(s, o)
  <2>. DEFINE m == [slot |-> s, gen |-> s_live[s], img |-> o]
  <2>1. /\ cache' = [cache EXCEPT ![s] = o] /\ mapped' = mapped \cup {m}
        /\ for' = [for EXCEPT ![o] = <<s, s_live[s]>>]
    BY <1>2 DEF Resources!MapImage
  <2>2. /\ m.slot = s /\ m.gen = s_live[s] /\ m.img = o
        /\ m \in [slot : TableSlots, gen : Nat, img : Objects]
    BY DEF SInv, Stored
  <2>. HIDE DEF m
  <2>3. /\ cache' \in [TableSlots -> Objects \cup {Resources!None}] /\ cache'[s] = o
        /\ \A x \in TableSlots : x # s => cache'[x] = cache[x] /\ cache[x] # o
        /\ DOMAIN ident' = TableSlots /\ ident'[s] = s_live[s]
        /\ \A x \in TableSlots : x # s => ident'[x] = ident[x]
        /\ DOMAIN for' = Objects /\ for'[o] = <<s, s_live[s]>>
        /\ \A p \in Objects : p # o => for'[p] = for[p]
    BY <1>1, <1>2, <2>1 DEF SInv, Stored, Resources!Mappable
  <2>4. Resources!Refreshed(s) = Resources!None /\ ~Resources!Hit(s)
    BY <1>2 DEF Resources!Mappable, Resources!Refreshed, Resources!Hit
  <2>5. \A p \in Objects : Owns(p)' => Owns(p)
    <3>1. \A p \in Objects : Owns(p)' => Owns(p) \/ p = o
      BY <1>1, <2>1, <2>2, <2>3 DEF Owns, Resources!Owners
    <3>2. Owns(o)
      BY <1>1, OwnsIs
    <3>. QED
      BY <3>1, <3>2
  <2>6. \A p \in Objects : (\E x \in TableSlots : cache'[x] = p) \/ (\E j \in s_jobs : p \in j.retains)
                           => Owns(p)'
    BY <1>1 DEF Owns, Resources!Owners
  <2>7. /\ obj' \in [Objects -> {"free", "attached", "detached", "stuck"}] /\ CacheOwned'
        /\ \A p \in Objects : Owns(p)' /\ obj[p] = "attached" => obj'[p] = "attached"
    BY <1>1, <2>5, SettleDrops
  <2>8. Stored'
    <3>1. mapped' \subseteq [slot : TableSlots, gen : Nat, img : Objects]
      BY <2>1, <2>2 DEF SInv, Stored
    <3>. QED
      BY <1>1, <2>3, <2>7, <3>1 DEF SInv, Stored
  <2>9. Lends'
    <3>1. \A x \in TableSlots : cache[x] # Resources!None => cache[x] \in Objects
      BY DEF SInv, Stored
    <3>2. obj'[o] = "attached"
      BY <1>1, <2>3, <2>6, <2>7
    <3>3. ASSUME NEW x \in TableSlots, x # s, cache[x] # Resources!None
          PROVE  obj'[cache[x]] = "attached" /\ for'[cache[x]] = <<x, ident'[x]>>
      <4>1. obj[cache[x]] = "attached" /\ for[cache[x]] = <<x, ident[x]>>
        BY <3>3 DEF SInv, Lends
      <4>. QED
        BY <2>3, <2>6, <2>7, <3>1, <3>3, <4>1
    <3>4. Resources!NoAliases'
      BY <2>3 DEF SInv, Lends, Resources!NoAliases
    <3>. QED
      BY <2>3, <3>2, <3>3, <3>4 DEF Lends
  <2>10. Targeted'
    <3>1. \A n \in mapped : n.slot = s => n.gen # s_live[s]
      BY <2>4, MappedIsHit
    <3>2. s_live[s] \in Nat /\ \A n \in mapped : n.slot \in TableSlots
      BY DEF SInv, Stored
    <3>3. ASSUME NEW n \in mapped
          PROVE  /\ n.gen <= s_live'[n.slot]
                 /\ n.gen = s_live'[n.slot] => cache'[n.slot] = n.img /\ ident'[n.slot] = s_live'[n.slot]
      BY <1>1, <2>3, <3>1, <3>2 DEF SInv, Targeted
    <3>4. /\ m.gen <= s_live'[m.slot] /\ cache'[m.slot] = m.img /\ ident'[m.slot] = s_live'[m.slot]
      BY <1>1, <2>2, <2>3, <3>2
    <3>. QED
      BY <2>1, <3>3, <3>4 DEF Targeted
  <2>11. Works'
    BY <1>1, <2>6, <2>7 DEF SInv, Stored, Works
  <2>. QED
    BY <2>3, <2>4, <2>7, <2>8, <2>9, <2>10, <2>11 DEF SInv
<1>3. CASE ~Resources!Mappable(s, o)
  <2>1. cache' = [cache EXCEPT ![s] = Resources!Refreshed(s)] /\ UNCHANGED <<mapped, for>>
    BY <1>3 DEF Resources!MapImage
  <2>. QED
    BY <1>1, <2>1, RefreshKeeps
<1>. QED
  BY <1>2, <1>3

\* Storage leaves the cache while no job is queued.
LEMMA LeavesKeep ==
  ASSUME SInv, NEW s \in TableSlots, s_jobs = {}, cache' = [cache EXCEPT ![s] = Resources!None],
         UNCHANGED <<s_live, for, s_held, s_jobs>>,
         DOMAIN ident' = TableSlots, \A x \in TableSlots : x # s => ident'[x] = ident[x],
         mapped' \subseteq mapped, \A m \in mapped' : m.slot = s => m.gen # s_live[s],
         NEW off, off \subseteq {cache[s]} \ {Resources!None}, Resources!Settle({}, off)
  PROVE  SInv' /\ \A o \in off : obj'[o] # "attached"
<1>1. /\ cache' \in [TableSlots -> Objects \cup {Resources!None}] /\ cache'[s] = Resources!None
      /\ \A x \in TableSlots : x # s => cache'[x] = cache[x]
  BY DEF SInv, Stored
<1>4. off \in SUBSET Objects /\ (\A o \in off : Owns(o)) /\ {} \in SUBSET Objects
  BY OwnsIs DEF SInv, Stored
<1>5. \A o \in Objects : Owns(o)' => Owns(o)
  BY <1>1, ImageAssumption DEF Owns, Resources!Owners
<1>6. /\ obj' \in [Objects -> {"free", "attached", "detached", "stuck"}] /\ CacheOwned'
      /\ \A o \in Objects : Owns(o)' /\ o \notin off /\ obj[o] = "attached" => obj'[o] = "attached"
      /\ \A o \in off : obj'[o] # "attached"
  <2>1. obj \in [Objects -> {"free", "attached", "detached", "stuck"}] /\ CacheOwned
    BY DEF SInv, Stored
  <2>. QED
    BY <1>4, <1>5, <2>1, SettleFacts
<1>7. Stored'
  BY <1>1, <1>6 DEF SInv, Stored
<1>8. Lends'
  <2>1. ASSUME NEW x \in TableSlots, x # s, cache[x] # Resources!None
        PROVE  obj'[cache[x]] = "attached"
    <3>1. cache[x] \in Objects /\ obj[cache[x]] = "attached" /\ cache[x] # cache[s]
      BY <2>1 DEF SInv, Stored, Lends, Resources!NoAliases
    <3>2. Owns(cache[x])'
      BY <1>1, <2>1 DEF Owns, Resources!Owners
    <3>. QED
      BY <1>6, <3>1, <3>2
  <2>2. Resources!NoAliases'
    BY <1>1 DEF SInv, Lends, Resources!NoAliases
  <2>. QED
    BY <1>1, <2>1, <2>2 DEF SInv, Lends
<1>9. Targeted'
  <2>1. \A m \in mapped : m.slot \in TableSlots
    BY DEF SInv, Stored
  <2>. QED
    BY <1>1, <2>1 DEF SInv, Targeted
<1>10. Works'
  BY DEF Works
<1>. QED
  BY <1>6, <1>7, <1>8, <1>9, <1>10 DEF SInv

\* A mapping is undone.
LEMMA UnmapKeeps ==
  ASSUME SInv, NEW s \in TableSlots, Resources!UnmapImage(s)
  PROVE  /\ SInv' /\ \E m \in mapped \ mapped' : m.slot = s /\ m.img = cache[s]
         /\ \A x \in TableSlots \ {s} : cache'[x] = cache[x]
<1>1. PICK m \in Resources!Mappings(s) : cache[s] = m.img /\ mapped' = mapped \ {m}
  BY DEF Resources!UnmapImage
<1>2. /\ s_jobs = {} /\ cache' = [cache EXCEPT ![s] = Resources!None]
      /\ UNCHANGED <<s_live, ident, for, s_held, s_jobs>> /\ Resources!Settle({}, {})
  BY DEF Resources!UnmapImage, Resources!Idle
<1>3. m \in mapped /\ m.slot = s /\ m.gen = s_live[s]
  BY DEF Resources!Mappings
<1>4. \A n \in mapped' : n.slot = s => n.gen # s_live[s]
  <2>. SUFFICES ASSUME NEW n \in mapped, n # m, n.slot = s, n.gen = s_live[s] PROVE FALSE
    BY <1>1
  <2>1. n.img = m.img
    BY <1>1 DEF SInv, Targeted
  <2>2. /\ n \in [slot : TableSlots, gen : Nat, img : Objects]
        /\ m \in [slot : TableSlots, gen : Nat, img : Objects]
    BY <1>3 DEF SInv, Stored
  <2>. QED
    BY <1>3, <2>1, <2>2
<1>5. DOMAIN ident' = TableSlots
  BY <1>2 DEF SInv, Stored
<1>6. SInv'
  BY <1>1, <1>2, <1>4, <1>5, LeavesKeep
<1>. QED
  BY <1>1, <1>2, <1>3, <1>6 DEF SInv, Stored

\* A texture is released: detached and forgotten, or kept when that fails.
LEMMA ReleaseKeeps ==
  ASSUME SInv, NEW s \in TableSlots, Resources!ReleaseTexture(s)
  PROVE  /\ SInv' /\ (Resources!Hit(s) => obj'[cache[s]] # "attached")
         /\ \A x \in TableSlots \ {s} : cache'[x] = cache[x]
<1>. DEFINE off == IF Resources!Refreshed(s) = Resources!None THEN {} ELSE {cache[s]}
<1>1. /\ s_jobs = {} /\ cache' = [cache EXCEPT ![s] = Resources!None]
      /\ ident' = [ident EXCEPT ![s] = Resources!None]
      /\ UNCHANGED <<s_live, for, s_held, s_jobs>> /\ Resources!Settle({}, off)
      /\ \/ mapped' = mapped \ Resources!Mappings(s)
         \/ mapped' = mapped /\ Resources!Mappings(s) = {}
  BY DEF Resources!ReleaseTexture, Resources!ReleaseGuard, Resources!Idle
<1>2. off \subseteq {cache[s]} \ {Resources!None} /\ (Resources!Hit(s) => cache[s] \in off)
  BY DEF Resources!Refreshed, Resources!Hit
<1>3. DOMAIN ident' = TableSlots /\ \A x \in TableSlots : x # s => ident'[x] = ident[x]
  BY <1>1 DEF SInv, Stored
<1>. HIDE DEF off
<1>4. mapped' \subseteq mapped /\ \A m \in mapped' : m.slot = s => m.gen # s_live[s]
  BY <1>1 DEF Resources!Mappings
<1>5. SInv' /\ \A o \in off : obj'[o] # "attached"
  BY <1>1, <1>2, <1>3, <1>4, LeavesKeep
<1>. QED
  BY <1>1, <1>2, <1>5 DEF SInv, Stored

LEMMA ReleaseFailKeeps ==
  ASSUME SInv, NEW s \in TableSlots, Resources!ReleaseFails(s)
  PROVE  SInv' /\ cache' = cache
<1>1. cache' = cache
  BY DEF SInv, Stored, Resources!ReleaseFails, Resources!Kept
<1>2. UNCHANGED <<s_live, ident, obj, for, s_held, mapped, s_jobs>>
  BY DEF Resources!ReleaseFails
<1>. QED
  BY <1>1, <1>2 DEF SInv, Stored, CacheOwned, Owns, Lends, Targeted, Works, Resources!NoAliases

\* What a step may take out of the cache.
Forgets ==
  \A s \in TableSlots : Resources!Hit(s) /\ cache'[s] # cache[s] =>
                     \/ obj'[cache[s]] # "attached"
                     \/ \E m \in mapped \ mapped' : m.slot = s /\ m.img = cache[s]

\* Every step keeps the invariant and forgets no attached storage.
LEMMA ResourcesNext ==
  ASSUME SInv, [Resources!Next]_(Resources!vars)
  PROVE  SInv' /\ Forgets
<1>1. CASE \/ Resources!DispatchFails
           \/ \E j \in s_jobs : Resources!Retire(j)
           \/ \E o \in Objects : Resources!DropImage(o)
  BY <1>1, DropsKeep DEF Forgets
<1>2. ASSUME NEW o \in Objects, Resources!CreateImage(o) PROVE SInv' /\ Forgets
  BY <1>2, CreateImageKeeps DEF Forgets, Resources!CreateImage
<1>3. ASSUME NEW s \in TableSlots, Resources!ReplaceTexture(s) PROVE SInv' /\ Forgets
  BY <1>3, ReplaceImageKeeps DEF Forgets, Resources!ReplaceTexture
<1>4. ASSUME NEW s \in TableSlots, Resources!UnmapImage(s) PROVE SInv' /\ Forgets
  BY <1>4, UnmapKeeps DEF Forgets
<1>5. ASSUME NEW s \in TableSlots, Resources!ReleaseTexture(s) PROVE SInv' /\ Forgets
  BY <1>5, ReleaseKeeps DEF Forgets
<1>6. ASSUME NEW s \in TableSlots, Resources!ReleaseFails(s) PROVE SInv' /\ Forgets
  BY <1>6, ReleaseFailKeeps DEF Forgets
<1>7. ASSUME NEW s \in TableSlots, NEW o \in Objects,
             Resources!Submit(s, o) \/ Resources!MapImage(s, o) \/ Resources!Import(s, o)
      PROVE  SInv' /\ Forgets
  BY <1>7, SubmitImageKeeps, MapImageKeeps, ImportKeeps DEF Forgets
<1>8. CASE UNCHANGED Resources!vars
  BY <1>8 DEF Resources!vars, SInv, Stored, CacheOwned, Owns, Lends, Targeted, Works,
     Resources!NoAliases, Forgets
<1>. QED
  BY <1>1, <1>2, <1>3, <1>4, <1>5, <1>6, <1>7, <1>8 DEF Resources!Next

\* The other parts of the run leave the image cache alone.
LEMMA ResourcesPart == OwnershipSpec => Resources!Init /\ [][Resources!Next]_(Resources!vars)
<1>1. OwnershipInit => Resources!Init
  BY DEF OwnershipInit
<1>2. [OwnershipNext]_all => [Resources!Next]_(Resources!vars)
  <2>1. CASE ResourcesOnly /\ Resources!Next
    BY <2>1
  <2>2. CASE UNCHANGED resources
    BY <2>2 DEF resources, Resources!vars
  <2>. QED
    BY <2>1, <2>2 DEF OwnershipNext, all, WorkerOnly, PushOnly, PopOnly, MemoryOnly, SplitOnly,
       DispatchOnly, ResourcesOnly, VideoOnly
<1>. QED
  BY <1>1, <1>2, PTL DEF OwnershipSpec

\* For any number of slots, generations, images, jobs and failing detaches, whatever
\* images the client maps while jobs are queued: a job was given the storage made
\* for, or last mapped to, the texture it names, which stays attached until the job
\* retires, no two textures share storage, the client's mappings of live textures
\* and the cache agree, and current storage never leaves the cache attached unless
\* its mapping is removed (resource.rs, lib.rs).
THEOREM ResourcesAreSafe == OwnershipSpec => ResourcesSafe
<1>1. SInv => (part = "resources" => /\ Resources!StorageMatchesTexture
                                     /\ Resources!AttachedWhileQueued
                                     /\ Resources!NoAliases
                                     /\ Resources!MappingsAgree)
  BY DEF SInv, Stored, Lends, Targeted, Works, Resources!StorageMatchesTexture,
     Resources!AttachedWhileQueued, Resources!MappingsAgree
<1>2. Forgets => [\A s \in TableSlots : Resources!Hit(s) /\ cache'[s] # cache[s] =>
                    \/ obj'[cache[s]] # "attached"
                    \/ \E m \in mapped \ mapped' : m.slot = s /\ m.img = cache[s]]_(Resources!vars)
  BY DEF Forgets
<1>. QED
  BY <1>1, <1>2, ResourcesInit, ResourcesNext, ResourcesPart, PTL
     DEF ResourcesSafe, Resources!NotForgotten

----------------------------------------------------------------------------
(* The message rings. *)

Pushing == INSTANCE MsgRingProofs
  WITH ToDevice <- TRUE, failed <- t_failed, faults <- t_faults
Popping == INSTANCE MsgRingProofs
  WITH ToDevice <- FALSE, slot <- r_slot, wreg <- r_wreg, rreg <- r_rreg, index <- r_index,
       configured <- r_configured, failed <- r_failed, op <- r_op,
       live <- r_live, log <- r_log, got <- r_got, faults <- r_faults

\* The submission ring of the run is the one whose proofs MsgRingProofs has.
LEMMA PushSame ==
  /\ Push!Init => Pushing!Init
  /\ [Push!Next]_(Push!vars) => [Pushing!Next]_(Pushing!vars)
  /\ Pushing!OutstandingIntact => Push!OutstandingIntact
  /\ Pushing!CursorPublished => Push!CursorPublished
<1>1. Push!Init => Pushing!Init
  BY DEF Push!Init, Push!Slots, Push!Idle, Pushing!Init, Pushing!Slots, Pushing!Idle
<1>2. Push!Next => Pushing!Next
  BY DEF Push!Next, Push!Prepare, Push!PushBegin, Push!PushUnreadable, Push!Stage, Push!StageFails,
     Push!Publish, Push!PublishFails, Push!PopBegin, Push!PopUnreadable, Push!PopRead,
     Push!PopReadFails, Push!PopAck, Push!PopAckFails, Push!FwTake, Push!FwPut, Push!DeleteFlow,
     Push!FwDelete, Push!DeletedFlow, Push!Batches, Push!Fresh, Push!Ready, Push!Idle,
     Push!Fault, Push!Slots, Push!Wrap, Push!Available, Push!Staged, Push!Advance, Push!Used,
     Push!Free,
     Pushing!Next, Pushing!Prepare, Pushing!PushBegin, Pushing!PushUnreadable, Pushing!Stage,
     Pushing!StageFails, Pushing!Publish, Pushing!PublishFails, Pushing!PopBegin,
     Pushing!PopUnreadable, Pushing!PopRead, Pushing!PopReadFails, Pushing!PopAck,
     Pushing!PopAckFails, Pushing!FwTake, Pushing!FwPut, Pushing!DeleteFlow, Pushing!FwDelete,
     Pushing!DeletedFlow, Pushing!Batches, Pushing!Fresh, Pushing!Ready, Pushing!Idle,
     Pushing!Fault, Pushing!Slots, Pushing!Wrap, Pushing!Available, Pushing!Staged,
     Pushing!Advance, Pushing!Used, Pushing!Free
<1>3. UNCHANGED Push!vars => UNCHANGED Pushing!vars
  BY DEF Push!vars, Pushing!vars
<1>4. Pushing!OutstandingIntact => Push!OutstandingIntact
  BY DEF Push!OutstandingIntact, Push!Used, Push!Wrap,
     Pushing!OutstandingIntact, Pushing!Used, Pushing!Wrap
<1>5. Pushing!CursorPublished => Push!CursorPublished
  BY DEF Push!CursorPublished, Pushing!CursorPublished
<1>. QED
  BY <1>1, <1>2, <1>3, <1>4, <1>5

LEMMA PushChannel ==
  /\ Pushing!Abstract!Init => Push!Abstract!Init
  /\ [Pushing!Abstract!Next]_(Pushing!Abstract!chan) => [Push!Abstract!Next]_(Push!Abstract!chan)
BY DEF Push!Abstract!Init, Push!Abstract!Next, Push!Abstract!Send, Push!Abstract!Deliver,
   Push!Abstract!Break, Push!Abstract!Reopen, Push!Abstract!chan, Pushing!Abstract!Init,
   Pushing!Abstract!Next, Pushing!Abstract!Send, Pushing!Abstract!Deliver, Pushing!Abstract!Break,
   Pushing!Abstract!Reopen, Pushing!Abstract!chan

LEMMA PushIsChannel ==
  ASSUME Depth \in Nat \ {0}
  PROVE  Push!Init /\ [][Push!Next]_(Push!vars) => Push!RingIsChannel
<1>0. Pushing!RingBounds
  BY DEF Pushing!RingBounds
<1>1. Push!Init => Pushing!RInv /\ Push!Abstract!Init
  BY <1>0, Pushing!InitHolds, PushSame, PushChannel
<1>2. Pushing!RInv /\ [Push!Next]_(Push!vars)
        => Pushing!RInv' /\ [Push!Abstract!Next]_(Push!Abstract!chan)
  BY <1>0, Pushing!NextKeeps, PushSame, PushChannel
<1>3. Pushing!RInv => Push!OutstandingIntact /\ Push!CursorPublished
  BY PushSame DEF Pushing!RInv
<1>. QED
  BY <1>1, <1>2, <1>3, PTL DEF Push!RingIsChannel, Push!ChannelSpec, Push!Abstract!Spec

LEMMA PushPart ==
  OwnershipSpec => Push!Init /\ [][Push!Next]_(Push!vars)
<1>1. OwnershipInit => Push!Init
  BY DEF OwnershipInit
<1>2. [OwnershipNext]_all => [Push!Next]_(Push!vars)
  BY DEF OwnershipNext, all, push, Push!vars, WorkerOnly, PushOnly, PopOnly, MemoryOnly,
     SplitOnly, DispatchOnly, ResourcesOnly, VideoOnly
<1>. QED
  BY <1>1, <1>2, PTL DEF OwnershipSpec

\* The completion ring of the run is the one whose proofs MsgRingProofs has.
LEMMA PopSame ==
  /\ Pop!Init => Popping!Init
  /\ [Pop!Next]_(Pop!vars) => [Popping!Next]_(Popping!vars)
  /\ Popping!OutstandingIntact => Pop!OutstandingIntact
  /\ Popping!CursorPublished => Pop!CursorPublished
<1>1. Pop!Init => Popping!Init
  BY DEF Pop!Init, Pop!Slots, Pop!Idle, Popping!Init, Popping!Slots, Popping!Idle
<1>2. Pop!Next => Popping!Next
  BY DEF Pop!Next, Pop!Prepare, Pop!PushBegin, Pop!PushUnreadable, Pop!Stage, Pop!StageFails,
     Pop!Publish, Pop!PublishFails, Pop!PopBegin, Pop!PopUnreadable, Pop!PopRead,
     Pop!PopReadFails, Pop!PopAck, Pop!PopAckFails, Pop!FwTake, Pop!FwPut, Pop!DeleteFlow,
     Pop!FwDelete, Pop!DeletedFlow, Pop!Batches, Pop!Fresh, Pop!Ready, Pop!Idle, Pop!Fault,
     Pop!Slots, Pop!Wrap, Pop!Available, Pop!Staged, Pop!Advance, Pop!Used, Pop!Free,
     Popping!Next, Popping!Prepare, Popping!PushBegin, Popping!PushUnreadable, Popping!Stage,
     Popping!StageFails, Popping!Publish, Popping!PublishFails, Popping!PopBegin,
     Popping!PopUnreadable, Popping!PopRead, Popping!PopReadFails, Popping!PopAck,
     Popping!PopAckFails, Popping!FwTake, Popping!FwPut, Popping!DeleteFlow, Popping!FwDelete,
     Popping!DeletedFlow, Popping!Batches, Popping!Fresh, Popping!Ready, Popping!Idle,
     Popping!Fault, Popping!Slots, Popping!Wrap, Popping!Available, Popping!Staged,
     Popping!Advance, Popping!Used, Popping!Free
<1>3. UNCHANGED Pop!vars => UNCHANGED Popping!vars
  BY DEF Pop!vars, Popping!vars
<1>4. Popping!OutstandingIntact => Pop!OutstandingIntact
  BY DEF Pop!OutstandingIntact, Pop!Used, Pop!Wrap,
     Popping!OutstandingIntact, Popping!Used, Popping!Wrap
<1>5. Popping!CursorPublished => Pop!CursorPublished
  BY DEF Pop!CursorPublished, Popping!CursorPublished
<1>. QED
  BY <1>1, <1>2, <1>3, <1>4, <1>5

LEMMA PopChannel ==
  /\ Popping!Abstract!Init => Pop!Abstract!Init
  /\ [Popping!Abstract!Next]_(Popping!Abstract!chan) => [Pop!Abstract!Next]_(Pop!Abstract!chan)
BY DEF Pop!Abstract!Init, Pop!Abstract!Next, Pop!Abstract!Send, Pop!Abstract!Deliver,
   Pop!Abstract!Break, Pop!Abstract!Reopen, Pop!Abstract!chan, Popping!Abstract!Init,
   Popping!Abstract!Next, Popping!Abstract!Send, Popping!Abstract!Deliver, Popping!Abstract!Break,
   Popping!Abstract!Reopen, Popping!Abstract!chan

LEMMA PopIsChannel ==
  ASSUME Depth \in Nat \ {0}
  PROVE  Pop!Init /\ [][Pop!Next]_(Pop!vars) => Pop!RingIsChannel
<1>0. Popping!RingBounds
  BY DEF Popping!RingBounds
<1>1. Pop!Init => Popping!RInv /\ Pop!Abstract!Init
  BY <1>0, Popping!InitHolds, PopSame, PopChannel
<1>2. Popping!RInv /\ [Pop!Next]_(Pop!vars)
        => Popping!RInv' /\ [Pop!Abstract!Next]_(Pop!Abstract!chan)
  BY <1>0, Popping!NextKeeps, PopSame, PopChannel
<1>3. Popping!RInv => Pop!OutstandingIntact /\ Pop!CursorPublished
  BY PopSame DEF Popping!RInv
<1>. QED
  BY <1>1, <1>2, <1>3, PTL DEF Pop!RingIsChannel, Pop!ChannelSpec, Pop!Abstract!Spec

LEMMA PopPart ==
  OwnershipSpec => Pop!Init /\ [][Pop!Next]_(Pop!vars)
<1>1. OwnershipInit => Pop!Init
  BY DEF OwnershipInit
<1>2. [OwnershipNext]_all => [Pop!Next]_(Pop!vars)
  BY DEF OwnershipNext, all, pop, Pop!vars, WorkerOnly, PushOnly, PopOnly, MemoryOnly,
     SplitOnly, DispatchOnly, ResourcesOnly, VideoOnly
<1>. QED
  BY <1>1, <1>2, PTL DEF OwnershipSpec

\* Whatever the depth of the rings and however many accesses fail: what one side of
\* a ring published the other takes once, in order and unchanged, until the ring is
\* given up or taken down (Ring::push, push_batch, pop, deleted_flow).
THEOREM RingsAreChannels ==
  ASSUME Depth \in Nat \ {0}
  PROVE  OwnershipSpec => RingIsChannel
BY PushIsChannel, PopIsChannel, PushPart, PopPart, PTL DEF RingIsChannel
=============================================================================
