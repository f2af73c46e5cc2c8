------------------------------ MODULE GpuMemory -----------------------------
(***************************************************************************)
(* executor.rs, gmmu.rs and fifo.rs of the GM20B driver under the hardware *)
(* lock: which memory the GPU address space maps, what its translation     *)
(* cache may still hold, and what may be freed, through allocation, import,*)
(* execution with private program arenas, release, loss and isolation of   *)
(* the device.                                                             *)
(***************************************************************************)
EXTENDS Integers, Sequences, FiniteSets, SequencesExt, FiniteSetsExt

CONSTANTS
  Page,       \* units per page
  Limit,      \* end of the public address space, from unit 0
  Sizes,      \* sizes of objects in units
  ArenaSize,  \* size of a private program arena
  MaxObjects, \* bound: next_object
  MaxQueue    \* bound: prepared requests that wait

VARIABLES
  mem,       \* sequence of every Memory made: va and size
  retained,  \* Gmmu::retained
  objects,   \* Gmmu::objects
  handle,    \* objects whose Buffer or Image exists
  attached,  \* attachments of the context
  prepared,  \* requests that wait, each the objects it pins
  run,       \* the request under execution, its arenas and its step
  pte,       \* valid page-table entries: page number to memory
  tlb,       \* translations the GPU may hold for each page
  busy,      \* memory the GPU is working on
  lost,      \* State::lost
  isolated   \* the platform has isolated the GPU's DMA

vars == <<mem, retained, objects, handle, attached, prepared, run, pte, tlb, busy,
          lost, isolated>>

Ids == 1..Len(mem)
Pages == 0..Limit \div Page - 1
NoRun == [step |-> "idle", uses |-> {}, arenas |-> {}]

roundUp(n, a) == ((n + a - 1) \div a) * a

\* Page numbers of a memory.
PagesOf(i) == {p \in Pages : /\ p >= mem[i].va \div Page
                             /\ p < (mem[i].va + roundUp(mem[i].size, Page)) \div Page}

Init ==
  /\ mem = << >> /\ retained = {} /\ objects = {} /\ handle = {} /\ attached = {}
  /\ prepared = << >> /\ run = NoRun
  /\ pte = [p \in Pages |-> 0] /\ tlb = [p \in Pages |-> {}] /\ busy = {}
  /\ lost = FALSE /\ isolated = FALSE

----------------------------------------------------------------------------
(* State::allocate and import_image. *)

\* Mutated form: the search starts after the last mapping and misses the gaps.
FirstFit_Last(size, align) ==
  roundUp(Max({0} \cup {mem[i].va + mem[i].size : i \in retained}), align)

\* The lowest address after the private surfaces, over the sorted mappings.
FirstFit(size, align) ==
  LET count == roundUp(size, Page)
      order == SetToSortSeq(retained, LAMBDA i, j : mem[i].va < mem[j].va)
      step(acc, i) ==
        LET va == roundUp(acc.va, align)
        IN  IF acc.stop \/ va + count <= mem[i].va THEN [va |-> acc.va, stop |-> TRUE]
            ELSE [va |-> IF va >= mem[i].va + mem[i].size THEN va ELSE mem[i].va + mem[i].size,
                  stop |-> FALSE]
  IN  roundUp(FoldLeft(step, [va |-> 0, stop |-> FALSE], order).va, align)

\* The device is lost: DMA is isolated if the platform can.
Fault ==
  /\ lost' = TRUE
  /\ isolated' \in BOOLEAN

Healthy == UNCHANGED <<lost, isolated>>

\* The memory is retained before its entries are published.
Retain(size, align) ==
  LET va == FirstFit(size, align)
  IN  /\ Len(mem) < MaxObjects
      /\ va + roundUp(size, Page) <= Limit
      /\ mem' = Append(mem, [va |-> va, size |-> size])
      /\ retained' = retained \cup {Len(mem) + 1}

Target(size, align) ==
  LET va == FirstFit(size, align)
  IN  {p \in Pages : p >= va \div Page /\ p < (va + roundUp(size, Page)) \div Page}

\* map_private_with_cache and map_shared refuse to replace a valid entry.
MapAll(ps) ==
  /\ \A p \in ps : pte[p] = 0
  /\ pte' = [p \in Pages |-> IF p \in ps THEN Len(mem) + 1 ELSE pte[p]]

MapSome(ps) ==
  \E done \in SUBSET ps :
    pte' = [p \in Pages |-> IF p \in done /\ pte[p] = 0 THEN Len(mem) + 1 ELSE pte[p]]

\* create_buffer, create_image_with_layout and import_shared_image; a failure
\* after the memory was retained loses the device.
Create(size, align) ==
  /\ ~lost /\ run = NoRun
  /\ Retain(size, align)
  /\ \/ /\ MapAll(Target(size, align))
        /\ objects' = objects \cup {Len(mem) + 1} /\ handle' = handle \cup {Len(mem) + 1}
        /\ Healthy
     \/ /\ MapSome(Target(size, align))
        /\ Fault /\ UNCHANGED <<objects, handle>>
  /\ UNCHANGED <<attached, prepared, run, tlb, busy>>

----------------------------------------------------------------------------
(* Attachments and requests. *)

Attach(i) ==
  /\ ~lost /\ i \in (objects \cap handle) \ attached
  /\ attached' = attached \cup {i}
  /\ UNCHANGED <<mem, retained, objects, handle, prepared, run, pte, tlb, busy, lost, isolated>>

Detach(i) ==
  /\ i \in attached
  /\ attached' = attached \ {i}
  /\ UNCHANGED <<mem, retained, objects, handle, prepared, run, pte, tlb, busy, lost, isolated>>

\* Prepared::prepare resolves attachment tokens once; the request keeps the
\* memory and the generic objects behind it until it is retired.
Prepare(uses) ==
  /\ uses \subseteq attached /\ Len(prepared) < MaxQueue
  /\ prepared' = Append(prepared, uses)
  /\ UNCHANGED <<mem, retained, objects, handle, attached, run, pte, tlb, busy, lost, isolated>>

Pins == (UNION ToSet(prepared)) \cup run.uses

----------------------------------------------------------------------------
(* unmap(): entries are cleared, then every engine's translations. *)

Cleared(is) == [p \in Pages |-> IF \E i \in is : p \in PagesOf(i) THEN 0 ELSE pte[p]]

Flushed == [p \in Pages |-> {}]

\* invalidate_all, with no DMA in progress.
Invalidated == tlb' = Flushed

\* Mutated form: a memory is released while a request that waits pins it.
Held_Attached(i) == i \in attached \cup run.uses

\* The generic object lives while it is attached or pinned by a request.
Held(i) == i \in attached \cup Pins

\* Shared::release on the drop of a Buffer or Image, with its generic object.
Release(i) ==
  /\ i \in handle /\ ~Held(i)
  /\ handle' = handle \ {i}
  /\ \/ /\ ~lost /\ run = NoRun
        /\ pte' = Cleared({i}) /\ Invalidated
        /\ objects' = objects \ {i} /\ retained' = retained \ {i}
        /\ Healthy
     \/ /\ ~lost /\ run = NoRun
        /\ pte' = Cleared({i}) /\ Fault
        /\ UNCHANGED <<objects, retained, tlb>>
     \/ /\ lost
        /\ UNCHANGED <<objects, retained, pte, tlb, lost, isolated>>
  /\ UNCHANGED <<mem, attached, prepared, run, busy>>

----------------------------------------------------------------------------
(* execute_prepared(). *)

Begin ==
  /\ ~lost /\ run = NoRun /\ prepared # << >>
  /\ run' = [step |-> "publish", uses |-> Head(prepared), arenas |-> {}]
  /\ prepared' = Tail(prepared)
  /\ UNCHANGED <<mem, retained, objects, handle, attached, pte, tlb, busy, lost, isolated>>

\* A request popped after the loss is not executed; its pins are forgotten.
BeginLost ==
  /\ lost /\ run = NoRun /\ prepared # << >>
  /\ run' = [step |-> "lost", uses |-> Head(prepared), arenas |-> {}]
  /\ prepared' = Tail(prepared)
  /\ UNCHANGED <<mem, retained, objects, handle, attached, pte, tlb, busy, lost, isolated>>

\* A private arena per programmable draw; it has no public identity.
Arena ==
  /\ run.step = "publish" /\ run.arenas = {}
  /\ Retain(ArenaSize, Page)
  /\ run' = [run EXCEPT !.arenas = @ \cup {Len(mem) + 1}]
  /\ MapAll(Target(ArenaSize, Page))
  /\ UNCHANGED <<objects, handle, attached, prepared, tlb, busy, lost, isolated>>

ArenaLost ==
  /\ run.step = "publish" /\ run.arenas = {}
  /\ Retain(ArenaSize, Page)
  /\ MapSome(Target(ArenaSize, Page)) /\ Fault
  /\ run' = [run EXCEPT !.step = "lost"]
  /\ UNCHANGED <<objects, handle, attached, prepared, tlb, busy>>

\* No room, or a program that cannot be published: rejected before submission.
Reject ==
  /\ run.step = "publish"
  /\ run' = [run EXCEPT !.step = "retire"]
  /\ UNCHANGED <<mem, retained, objects, handle, attached, prepared, pte, tlb, busy, lost,
                 isolated>>

Kick ==
  /\ run.step = "publish"
  /\ busy' = run.uses \cup run.arenas
  /\ run' = [run EXCEPT !.step = "wait"]
  /\ UNCHANGED <<mem, retained, objects, handle, attached, prepared, pte, tlb, lost, isolated>>

\* The GPU walks the table for a page of the memory its commands name.
GpuWalk ==
  /\ ~isolated
  /\ \E i \in busy : \E p \in PagesOf(i) :
       /\ pte[p] # 0 /\ pte[p] \notin tlb[p]
       /\ tlb' = [tlb EXCEPT ![p] = @ \cup {pte[p]}]
  /\ UNCHANGED <<mem, retained, objects, handle, attached, prepared, run, pte, busy, lost,
                 isolated>>

\* GP_GET, the reference and the PGRAPH fence together prove retirement.
Fence ==
  /\ run.step = "wait"
  /\ busy' = {} /\ run' = [run EXCEPT !.step = "retire"]
  /\ UNCHANGED <<mem, retained, objects, handle, attached, prepared, pte, tlb, lost, isolated>>

\* A timeout or a fault bit proves nothing: the GPU may still be working.
FenceLost ==
  /\ run.step = "wait"
  /\ run' = [run EXCEPT !.step = "lost"] /\ Fault
  /\ UNCHANGED <<mem, retained, objects, handle, attached, prepared, pte, tlb, busy>>

\* retire_private(), then the writable ranges are copied back.
RetirePrivate ==
  /\ run.step = "retire"
  /\ pte' = Cleared(run.arenas)
  /\ \/ Invalidated /\ retained' = retained \ run.arenas /\ run' = NoRun /\ Healthy
     \/ Fault /\ run' = [run EXCEPT !.step = "lost"] /\ UNCHANGED <<retained, tlb>>
  /\ UNCHANGED <<mem, objects, handle, attached, prepared, busy>>

\* set_frequency_khz() on an idle device: an unsafe rate change.
RateFault ==
  /\ ~lost /\ run = NoRun
  /\ Fault
  /\ UNCHANGED <<mem, retained, objects, handle, attached, prepared, run, pte, tlb, busy>>

----------------------------------------------------------------------------

Next ==
  \/ \E size \in Sizes : \E align \in {Page, 2 * Page} : Create(size, align)
  \/ \E i \in Ids : Attach(i) \/ Detach(i) \/ Release(i)
  \/ \E uses \in SUBSET attached : Prepare(uses)
  \/ Begin \/ BeginLost \/ Arena \/ ArenaLost \/ Reject \/ Kick \/ GpuWalk \/ Fence
  \/ FenceLost \/ RetirePrivate \/ RateFault

Spec == Init /\ [][Next]_vars

----------------------------------------------------------------------------

TypeOK ==
  /\ Len(mem) <= MaxObjects
  /\ \A i \in Ids : mem[i].va + roundUp(mem[i].size, Page) <= Limit /\ mem[i].size \in Sizes \cup {ArenaSize}
  /\ {retained, objects, handle, attached, busy} \subseteq SUBSET Ids
  /\ ToSet(prepared) \subseteq SUBSET Ids
  /\ pte \in [Pages -> 0..Len(mem)] /\ tlb \in [Pages -> SUBSET Ids]
  /\ run.step \in {"idle", "publish", "wait", "retire", "lost"}
  /\ lost \in BOOLEAN /\ isolated \in BOOLEAN

\* A memory is freed once nothing refers to it.
Alive == retained \cup handle \cup attached \cup Pins

\* Whatever fails, a GPU that is not isolated reaches only memory that is alive,
\* through the table or through a translation it still holds.
DmaBackingAlive ==
  ~isolated => \A p \in Pages : tlb[p] \cup ({pte[p]} \ {0}) \subseteq Alive

\* A healthy device maps exactly the retained memory, page by page, and holds no
\* translation that the table does not have.
TableIsExact ==
  ~lost => \A p \in Pages :
             /\ pte[p] # 0 => pte[p] \in retained /\ p \in PagesOf(pte[p])
             /\ tlb[p] \subseteq {pte[p]}
             /\ Cardinality({i \in retained : p \in PagesOf(i)}) <= 1
             /\ (\E i \in retained : p \in PagesOf(i)) => pte[p] # 0

\* A request finds the memory it was prepared with at the addresses it was
\* checked against, however long it waited and whatever was detached meanwhile.
RequestsKeepTheirMemory ==
  ~lost => \A i \in Pins : \A p \in PagesOf(i) : pte[p] = i

\* FirstFit never misses a gap: when it finds no room, no aligned address has any.
NoMissedGap ==
  \A size \in Sizes :
    FirstFit(size, Page) + roundUp(size, Page) > Limit =>
      \A p \in Pages :
        p * Page + roundUp(size, Page) <= Limit =>
          \E q \in p..(p + roundUp(size, Page) \div Page - 1), i \in retained : q \in PagesOf(i)
=============================================================================
