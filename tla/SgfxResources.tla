--------------------------- MODULE SgfxResources ---------------------------
(* The physical image cache of one SGFX Maxwell session.  Logical textures    *)
(* (a slot and a generation of the shared resource table) get storage when a  *)
(* submission first uses them, when an image is mapped to them, or when a     *)
(* shared image is imported.  Storage is attached to the GPU context while    *)
(* any owner holds it: the cache, a queued job, or the client.  Buffers       *)
(* follow the same protocol without mapping and import.                       *)
(*                                                                            *)
(* Two clients use the cache (api).  IrResources maps and unmaps images of    *)
(* its own as it likes: a held image may be mapped to a slot's next           *)
(* generation while a job on the old one is queued.  MappedTargetSession maps *)
(* an image to each of its targets once, when it is created, and imports.     *)
(*                                                                            *)
(* A job is queued until the dispatcher retires it; an operation that needs   *)
(* an idle dispatcher runs with no job queued (module SgfxDispatch shows that *)
(* nothing is on the device then).                                            *)
EXTENDS Integers, FiniteSets

CONSTANTS
    Slots,     \* slots of the resource table
    Present,   \* the slots whose textures are presentation targets
    Objects,   \* physical images
    MaxGen,    \* bound: generations of a slot
    MaxJobs,   \* bound: jobs queued at once
    MaxFaults  \* bound: detach calls that fail

None == 0  \* no generation, no object
VARIABLES
    api,     \* the cache's client: "ir" (IrResources), "targets" (MappedTargetSession)
    live,    \* the generation the table resolves each slot to
    cache,   \* images: each slot's storage
    ident,   \* image_identities: the generation it belongs to
    obj,     \* each object: "free", "attached", "detached", "stuck"
    for,     \* history: the texture an object was made for or last mapped to
    held,    \* objects the client created and still holds
    mapped,  \* mapped_images, images: the mappings [slot, gen, img] of the client
    jobs,    \* queued jobs: [tex, uses, for, retains], for at its submission
    failed,  \* the dispatcher failed
    faults   \* bound: failed detach calls

vars == <<api, live, cache, ident, obj, for, held, mapped, jobs, failed, faults>>

\* A mapped-target session starts with an image of its own for every target.
Init ==
    /\ api \in {"ir", "targets"}
    /\ live = [s \in Slots |-> 1]
    /\ \E targets \in SUBSET (IF api = "targets" THEN Present ELSE {}) :
         \E image \in [targets -> Objects] :
           /\ \A s, x \in targets : image[s] = image[x] => s = x
           /\ cache = [s \in Slots |-> IF s \in targets THEN image[s] ELSE None]
           /\ ident = [s \in Slots |-> IF s \in targets THEN 1 ELSE None]
           /\ obj = [o \in Objects |-> IF \E s \in targets : image[s] = o
                                        THEN "attached" ELSE "free"]
           /\ for = [o \in Objects |-> IF \E s \in targets : image[s] = o
                                        THEN <<CHOOSE s \in targets : image[s] = o, 1>>
                                        ELSE <<>>]
           /\ mapped = {[slot |-> s, gen |-> 1, img |-> image[s]] : s \in targets}
    /\ held = {} /\ jobs = {} /\ failed = FALSE /\ faults = 0

Owners(o, c, j, h, m) ==
    \/ \E s \in Slots : c[s] = o
    \/ \E x \in m : x.img = o
    \/ \E x \in j : o \in x.retains
    \/ o \in h

\* The mappings of the texture a slot resolves to; those of earlier generations
\* stay in the client's list for ever.
Mappings(s) == {m \in mapped : m.slot = s /\ m.gen = live[s]}

\* An object this step takes the last owner from.
Orphan(o) ==
    /\ obj[o] \in {"attached", "detached"}
    /\ ~Owners(o, cache', jobs', held', mapped')

\* Objects that lost their last owner are detached by Drop; a failing detach
\* leaves the attachment behind.  `new` are attached by this step and `off`
\* were detached by it explicitly.
Settle(new, off) ==
    LET orphans == {o \in Objects : Orphan(o)}
    IN \E bad \in SUBSET {o \in orphans \ off : obj[o] = "attached"} :
         /\ faults + Cardinality(bad) <= MaxFaults
         /\ faults' = faults + Cardinality(bad)
         /\ obj' = [o \in Objects |->
                     IF o \in bad THEN "stuck"
                     ELSE IF o \in orphans THEN "free"
                     ELSE IF o \in off THEN "detached"
                     ELSE IF o \in new THEN "attached" ELSE obj[o]]

Idle == jobs = {} /\ ~failed

\* The client replaces a texture's metadata, with or without retiring it first.
ReplaceTexture(s) ==
    /\ live[s] < MaxGen
    /\ live' = [live EXCEPT ![s] = @ + 1]
    /\ UNCHANGED <<api, cache, ident, obj, for, held, mapped, jobs, failed, faults>>

\* validated_texture_entry: storage counts only under the current identity.
Hit(s) == cache[s] # None /\ ident[s] = live[s]

\* texture(): the storage a submission uses, created if it is missing.  A
\* presentation target must have been mapped.
Materialize(s, o) ==
    \/ /\ Hit(s) /\ o = cache[s]
       /\ UNCHANGED <<cache, ident, for>>
    \/ /\ ~Hit(s) /\ s \notin Present
       /\ obj[o] = "free"
       /\ cache' = [cache EXCEPT ![s] = o]
       /\ ident' = [ident EXCEPT ![s] = live[s]]
       /\ for' = [for EXCEPT ![o] = <<s, live[s]>>]

\* submit_async: the job keeps every cached image until it retires.  Storage
\* made for a submission that is then refused (Busy, rejected) stays cached.
Submit(s, o) ==
    /\ Materialize(s, o)
    /\ \/ /\ ~failed /\ Cardinality(jobs) < MaxJobs
          /\ jobs' = jobs \cup {[tex |-> <<s, live[s]>>, uses |-> o, for |-> for'[o],
                                 retains |-> {cache'[x] : x \in Slots} \ {None}]}
       \/ jobs' = jobs
    /\ UNCHANGED <<api, live, held, mapped, failed>>
    /\ Settle({o} \ {cache[x] : x \in Slots}, {})

Retire(j) ==
    /\ jobs' = jobs \ {j}
    /\ UNCHANGED <<api, live, cache, ident, for, held, mapped, failed>>
    /\ Settle({}, {})

\* Scheduler::fail drops every job and its owners.
DispatchFails ==
    /\ ~failed
    /\ failed' = TRUE /\ jobs' = {}
    /\ UNCHANGED <<api, live, cache, ident, for, held, mapped>>
    /\ Settle({}, {})

\* refresh_cache_identity: storage of another generation leaves the cache.
Refreshed(s) == IF ident[s] = live[s] THEN cache[s] ELSE None

CreateImage(o) ==
    /\ api = "ir" /\ obj[o] = "free"
    /\ held' = held \cup {o}
    /\ for' = [for EXCEPT ![o] = <<>>]
    /\ obj' = [obj EXCEPT ![o] = "attached"]
    /\ UNCHANGED <<api, live, cache, ident, mapped, jobs, failed, faults>>

DropImage(o) ==
    /\ o \in held
    /\ held' = held \ {o}
    /\ UNCHANGED <<api, live, cache, ident, for, mapped, jobs, failed>>
    /\ Settle({}, {})

Mappable(s, o) ==
    /\ Refreshed(s) = None                          \* TextureAlreadyMapped
    /\ \A x \in Slots \ {s} : cache[x] # o          \* ImageAlreadyMapped

\* IrResources::map_image: refreshed even when the mapping is then refused.
MapImage(s, o) ==
    /\ o \in held
    /\ obj[o] = "attached"                          \* validate_mapped_image
    /\ ident' = [ident EXCEPT ![s] = live[s]]
    /\ IF Mappable(s, o)
       THEN /\ cache' = [cache EXCEPT ![s] = o]
            /\ mapped' = mapped \cup {[slot |-> s, gen |-> live[s], img |-> o]}
            /\ for' = [for EXCEPT ![o] = <<s, live[s]>>]
       ELSE /\ cache' = [cache EXCEPT ![s] = Refreshed(s)]
            /\ UNCHANGED <<mapped, for>>
    /\ UNCHANGED <<api, live, held, jobs, failed>>
    /\ Settle({}, {})

UnmapImage(s) ==
    /\ api = "ir"
    /\ \E m \in Mappings(s) :
         /\ cache[s] = m.img
         /\ mapped' = mapped \ {m}
    /\ Idle
    /\ cache' = [cache EXCEPT ![s] = None]
    /\ UNCHANGED <<api, live, ident, for, held, jobs, failed>>
    /\ Settle({}, {})

\* import_sampled_image, import_ycbcr_image: refreshed, then the image is taken,
\* or refused (mapped already, not importable, or given back as a duplicate).
Import(s, o) ==
    /\ api = "targets"
    /\ UNCHANGED <<api, live, held, mapped, jobs, failed>>
    /\ ident' = [ident EXCEPT ![s] = live[s]]
    /\ \/ /\ Refreshed(s) = None /\ s \notin Present /\ obj[o] = "free"
          /\ cache' = [cache EXCEPT ![s] = o]
          /\ for' = [for EXCEPT ![o] = <<s, live[s]>>]
          /\ Settle({o}, {})
       \/ /\ cache' = [cache EXCEPT ![s] = Refreshed(s)]
          /\ for' = for
          /\ Settle({}, {})

\* Mutant: retirement without the idle guard.
ReleaseGuard_None(s) == ~failed

\* release_texture, release_imported_texture: only with an idle dispatcher, and
\* IrResources refuses a texture it has mapped.
ReleaseGuard(s) == Idle /\ (api = "ir" => Mappings(s) = {})

\* A mapped-target session also forgets its target's image.
ReleaseTexture(s) ==
    /\ ReleaseGuard(s)
    /\ cache' = [cache EXCEPT ![s] = None]
    /\ ident' = [ident EXCEPT ![s] = None]
    /\ mapped' = IF api = "ir" THEN mapped ELSE mapped \ Mappings(s)
    /\ UNCHANGED <<api, live, for, held, jobs, failed>>
    /\ Settle({}, IF Refreshed(s) = None THEN {} ELSE {cache[s]})

\* What a release that cannot detach leaves in the slot.
Kept(s) == cache[s]

ReleaseFails(s) ==
    /\ ReleaseGuard(s) /\ Refreshed(s) # None /\ obj[cache[s]] = "attached"
    /\ faults < MaxFaults
    /\ faults' = faults + 1
    /\ cache' = [cache EXCEPT ![s] = Kept(s)]
    /\ UNCHANGED <<api, live, ident, obj, for, held, mapped, jobs, failed>>

Next ==
    \/ DispatchFails
    \/ \E j \in jobs : Retire(j)
    \/ \E s \in Slots : ReplaceTexture(s) \/ UnmapImage(s) \/ ReleaseTexture(s) \/ ReleaseFails(s)
    \/ \E o \in Objects : CreateImage(o) \/ DropImage(o)
    \/ \E s \in Slots, o \in Objects : Submit(s, o) \/ MapImage(s, o) \/ Import(s, o)

Spec == Init /\ [][Next]_vars

-----------------------------------------------------------------------------

\* TypeOK: besides types, an attached object always has an owner that will detach
\* it (RawImage::drop), so only a failed detach leaves an attachment behind.
TypeOK ==
    /\ cache \in [Slots -> Objects \cup {None}] /\ ident \in [Slots -> 0..MaxGen]
    /\ obj \in [Objects -> {"free", "attached", "detached", "stuck"}]
    /\ \A o \in Objects : obj[o] \in {"attached", "detached"} <=>
                            Owners(o, cache, jobs, held, mapped)
    /\ Cardinality({o \in Objects : obj[o] = "stuck"}) <= faults

\* A job is submitted with the storage that was made for exactly the texture it
\* names, or that the client last mapped to it: a slot reused by a later generation
\* never lends its old storage, nor the reverse (validated_texture_entry,
\* refresh_cache_identity).
StorageMatchesTexture == \A j \in jobs : j.for = j.tex

\* Storage a queued job uses stays attached until the job retires, whatever the
\* session does to its cache meanwhile (with_idle, RetainedResources).
AttachedWhileQueued == \A j \in jobs : obj[j.uses] = "attached"

\* One physical image backs at most one texture of a session.
NoAliases == \A s, x \in Slots : cache[s] # None /\ cache[s] = cache[x] => s = x

\* The client's list of mappings and the cache agree about every texture whose
\* identity is still live, so IrResources can unmap it and a session's image()
\* is the image its jobs draw to.
MappingsAgree ==
    \A m \in mapped : m.gen = live[m.slot] =>
        cache[m.slot] = m.img /\ ident[m.slot] = live[m.slot]

\* Storage leaves the cache by being detached, by its texture's replacement or by
\* its mapping being removed: never attached, current and forgotten (release_slot).
NotForgotten ==
    [][\A s \in Slots : Hit(s) /\ cache'[s] # cache[s] =>
          \/ obj'[cache[s]] # "attached"
          \/ \E m \in mapped \ mapped' : m.slot = s /\ m.img = cache[s]]_vars
=============================================================================
