------------------------------ MODULE SgfxSplit ------------------------------
(* How the SGFX Maxwell backend turns one recorded command buffer into the    *)
(* ordered chunks of a submission (prepare_async, append_render_chunks), how  *)
(* it cuts a render pass that does not fit a native payload into several      *)
(* (split_submission_operations), and what the code generator emits for each  *)
(* (compile): one record for a clear, one to three for a draw.                *)
(*                                                                            *)
(* Draws, passes, uploads and programmable draws carry the position of their  *)
(* command as identity.  Of the pass-local state, three registers stand for   *)
(* the nine: the viewport and the colour mask, which decide a draw's record   *)
(* count (a pipeline's blending counts like the mask), and the scissor, which *)
(* can be unset.  A client never asks for a pass's result to be stored.       *)
(* The limit on textured draws equals the limit on draws and never bites.     *)
EXTENDS Integers, Sequences, SequencesExt

CONSTANTS
    MaxOps,    \* bound: commands in a buffer
    MaxDraws,  \* records per chunk the planner aims for (512)
    Budget     \* records that fit a native payload

VARIABLES
    source,     \* the recorded command buffer
    pc,         \* "record", "prepare", "flush", "done", "error"
    at,         \* next command to prepare
    operations, \* operations collected for the next native chunks
    pending,    \* pieces of them still to compile, first one first
    after,      \* what follows the flush: <<>>, or a programmable draw
    chunks      \* the submission

vars == <<source, pc, at, operations, pending, after, chunks>>

Registers == {"viewport", "mask", "scissor"}
Fresh == [viewport |-> 0, mask |-> 15, scissor |-> 0]

Begin(id, clear, store, cont) ==
    [op |-> "begin", id |-> id, clear |-> clear, store |-> store, cont |-> cont]
End == [op |-> "end"]
Set(f, v) == [op |-> "set", f |-> f, v |-> v]
Draw(id) == [op |-> "draw", id |-> id]
PDraw(id) == [op |-> "pdraw", id |-> id]
Write(id) == [op |-> "write", id |-> id]

Sets == {Set("viewport", 1), Set("mask", 1), Set("mask", 15), Set("scissor", 1),
         Set("scissor", 0)}

(****************************************************************************)
(* The code generator.                                                      *)
(****************************************************************************)

\* Records emitted before and for a draw: blend, viewport, draw.
RecordCost(st) ==
    1 + (IF st.viewport # 0 THEN 1 ELSE 0)
      + (IF st.mask # 15 THEN 1 ELSE 0)

\* One operation of `compile`: pass-local state is reset at both ends of a pass.
CompileOne(c, o) ==
    CASE o.op = "begin" ->
           [c EXCEPT !.pass = o.id, !.st = Fresh, !.ok = @ /\ c.pass = 0,
                     !.words = @ + (IF o.clear THEN 1 ELSE 0),
                     !.out = IF o.clear THEN Append(@, <<"clear", o.id>>) ELSE @]
      [] o.op = "end" -> [c EXCEPT !.pass = 0, !.st = Fresh, !.ok = @ /\ c.pass # 0]
      [] o.op = "set" -> [c EXCEPT !.st[o.f] = o.v, !.ok = @ /\ c.pass # 0]
      [] o.op = "draw" ->
           [c EXCEPT !.out = Append(@, <<"draw", o.id, c.pass, c.st>>),
                     !.words = @ + RecordCost(c.st), !.ok = @ /\ c.pass # 0]

Compile(ops) ==
    FoldLeft(CompileOne, [pass |-> 0, st |-> Fresh, words |-> 0, out |-> <<>>, ok |-> TRUE], ops)

(****************************************************************************)
(* The planner.                                                             *)
(****************************************************************************)

\* Mutant: the scissor is forgotten.
Replay_NoScissor(st) ==
    SelectSeq(<<Set("viewport", st.viewport), Set("mask", st.mask)>>, LAMBDA o : o.v # 0)

\* RenderReplayState::append: what is set is set again; an unset scissor or
\* viewport is not, and the colour mask always is.
Replay(st) ==
    SelectSeq(<<Set("scissor", st.scissor), Set("viewport", st.viewport),
                Set("mask", st.mask)>>,
              LAMBDA o : o.v # 0)

\* force_active_pass_store: the last pass begun keeps what it drew.
ForceStore(ops) ==
    LET last == SelectLastInSeq(ops, LAMBDA o : o.op = "begin")
    IN [ops EXCEPT ![last].store = TRUE]

Cut(p) ==
    [p EXCEPT !.chunks = Append(@, Append(ForceStore(p.current), End)),
              !.current = <<[p.pass EXCEPT !.clear = FALSE, !.cont = TRUE]>> \o Replay(p.st),
              !.draws = 0, !.records = 0]

\* One operation of split_submission_operations.
SplitOne(p, o, max) ==
    CASE o.op = "begin" ->
           LET q == IF p.records >= max /\ p.current # <<>>
                    THEN [p EXCEPT !.chunks = Append(@, p.current), !.current = <<>>,
                                   !.draws = 0, !.records = 0]
                    ELSE p
           IN [q EXCEPT !.pass = o, !.st = Fresh, !.current = Append(@, o)]
      [] o.op = "end" -> [p EXCEPT !.current = Append(@, o), !.st = Fresh]
      [] o.op = "set" -> [p EXCEPT !.st[o.f] = o.v, !.current = Append(@, o)]
      [] o.op = "draw" ->
           LET cost == RecordCost(p.st)
               q == IF p.draws # 0 /\ p.records + cost > max THEN Cut(p) ELSE p
           IN [q EXCEPT !.current = Append(@, o), !.draws = @ + 1, !.records = @ + cost]

Split(ops, max) ==
    LET p == FoldLeft(LAMBDA q, o : SplitOne(q, o, max),
                      [chunks |-> <<>>, current |-> <<>>, pass |-> End, st |-> Fresh,
                       draws |-> 0, records |-> 0], ops)
    IN IF p.current = <<>> THEN p.chunks ELSE Append(p.chunks, p.current)

(****************************************************************************)
(* Recording (by the client, through sgfx-core) and preparation.            *)
(****************************************************************************)

Init ==
    /\ source = <<>> /\ pc = "record" /\ at = 1
    /\ operations = <<>> /\ pending = <<>> /\ after = <<>> /\ chunks = <<>>

InPass == LET b == SelectLastInSeq(source, LAMBDA o : o.op \in {"begin", "end"})
          IN b # 0 /\ source[b].op = "begin"

Record(o) ==
    /\ pc = "record" /\ Len(source) < MaxOps
    /\ IF o.op \in {"begin", "write"} THEN ~InPass ELSE InPass
    /\ source' = Append(source, o)
    /\ UNCHANGED <<pc, at, operations, pending, after, chunks>>

Here == Len(source) + 1
RecordAny ==
    \/ \E clear \in BOOLEAN : Record(Begin(Here, clear, FALSE, FALSE))
    \/ \E o \in Sets \cup {End, Draw(Here), PDraw(Here), Write(Here)} : Record(o)

Submit ==
    /\ pc = "record" /\ ~InPass
    /\ pc' = "prepare"
    /\ UNCHANGED <<source, at, operations, pending, after, chunks>>

Command == source[at]

\* append_render_chunks on `ops`, then the chunk `then`, then collect `rest`.
Flush(ops, then, rest) ==
    /\ pending' = Split(ops, MaxDraws)
    /\ after' = then
    /\ operations' = rest
    /\ pc' = "flush"
    /\ UNCHANGED chunks

Collect ==
    /\ pc = "prepare" /\ at <= Len(source)
    /\ Command.op \in {"begin", "set", "draw"}
    /\ operations' = Append(operations, Command)
    /\ at' = at + 1
    /\ UNCHANGED <<source, pc, pending, after, chunks>>

EndRenderPass ==
    /\ pc = "prepare" /\ at <= Len(source) /\ Command.op = "end"
    /\ Flush(Append(operations, End), <<>>, <<>>)
    /\ at' = at + 1
    /\ UNCHANGED source

\* The pass is closed around a programmable draw and reopened with its state.
ProgrammableDraw ==
    /\ pc = "prepare" /\ at <= Len(source) /\ Command.op = "pdraw"
    /\ LET begin == [operations[1] EXCEPT !.clear = FALSE, !.cont = FALSE]
           replay == SelectSeq(operations, LAMBDA o : o.op = "set")
       IN Flush(Append(operations, End), <<[kind |-> "pdraw", id |-> Command.id]>>,
                <<begin>> \o replay)
    /\ at' = at + 1
    /\ UNCHANGED source

\* Uploads and copies run on the CPU between native chunks.
WriteChunk ==
    /\ pc = "prepare" /\ at <= Len(source) /\ Command.op = "write"
    /\ chunks' = Append(chunks, [kind |-> "cpu", id |-> Command.id])
    /\ at' = at + 1
    /\ UNCHANGED <<source, pc, operations, pending, after>>

Draws(ops) == Len(SelectSeq(ops, LAMBDA o : o.op = "draw"))

\* One piece is compiled.  One that does not fit is cut again; one that emits
\* nothing is dropped.
CompilePiece ==
    /\ pc = "flush" /\ pending # <<>>
    /\ LET ops == Head(pending)
           c == Compile(ops)
           retry == Split(ops, Draws(ops) \div 2)
       IN \/ /\ c.words <= Budget
             /\ pending' = Tail(pending)
             /\ chunks' = IF c.words = 0 THEN chunks
                          ELSE Append(chunks, [kind |-> "gpu", ops |-> ops])
             /\ UNCHANGED pc
          \/ /\ c.words > Budget /\ Draws(ops) > 1 /\ Len(retry) > 1
             /\ pending' = retry \o Tail(pending)
             /\ UNCHANGED <<pc, chunks>>
          \/ /\ c.words > Budget /\ (Draws(ops) <= 1 \/ Len(retry) <= 1)
             /\ pc' = "error"
             /\ UNCHANGED <<pending, chunks>>
    /\ UNCHANGED <<source, at, operations, after>>

FlushDone ==
    /\ pc = "flush" /\ pending = <<>>
    /\ chunks' = chunks \o after
    /\ after' = <<>>
    /\ pc' = "prepare"
    /\ UNCHANGED <<source, at, operations, pending>>

\* An empty stream still takes its place in the queue.
Finish ==
    /\ pc = "prepare" /\ at > Len(source)
    /\ chunks' = IF chunks = <<>> THEN <<[kind |-> "gpu", ops |-> <<>>]>> ELSE chunks
    /\ pc' = "done"
    /\ UNCHANGED <<source, at, operations, pending, after>>

Prepare == Collect \/ EndRenderPass \/ ProgrammableDraw \/ WriteChunk \/ CompilePiece
           \/ FlushDone \/ Finish
Next == RecordAny \/ Submit \/ Prepare

Spec == Init /\ [][Next]_vars /\ WF_vars(Prepare)

-----------------------------------------------------------------------------
(* What the client asked for, read off the command buffer directly. *)

PassOf(i) == CHOOSE b \in 1..i : /\ source[b].op = "begin"
                                 /\ \A k \in (b + 1)..i : source[k].op # "begin"
\* The value of a register at command i: its last setting since the pass began.
ValueAt(f, i) ==
    LET ks == {k \in PassOf(i)..i : source[k].op = "set" /\ source[k].f = f}
    IN IF ks = {} THEN Fresh[f] ELSE source[CHOOSE k \in ks : \A j \in ks : j <= k].v
StateAt(i) == [f \in Registers |-> ValueAt(f, i)]

Effect(i) ==
    CASE source[i].op = "begin" -> IF source[i].clear THEN <<<<"clear", i>>>> ELSE <<>>
      [] source[i].op = "draw" -> <<<<"draw", i, PassOf(i), StateAt(i)>>>>
      [] source[i].op \in {"pdraw", "write"} -> <<<<source[i].op, i>>>>
      [] OTHER -> <<>>

Requested == FlattenSeq([i \in DOMAIN source |-> Effect(i)])

Executed(chunk) ==
    CASE chunk.kind = "gpu" -> Compile(chunk.ops).out
      [] chunk.kind = "cpu" -> <<<<"write", chunk.id>>>>
      [] chunk.kind = "pdraw" -> <<<<"pdraw", chunk.id>>>>

\* The chunks of a prepared submission, run in order, do exactly what the command
\* buffer asked for: the same clears once, the same draws with the same state in
\* the same passes, and the same uploads and programmable draws between them,
\* wherever the planner cut (split_submission_operations, prepare_async).
SameRendering ==
    pc = "done" =>
        FlattenSeq([i \in DOMAIN chunks |-> Executed(chunks[i])]) = Requested

\* Every native chunk fits a payload and stands alone: it opens and closes its
\* passes itself, so `compile` accepts it (Emitter::record's budget).
ChunksCompile ==
    \A i \in DOMAIN chunks : chunks[i].kind = "gpu" =>
        LET c == Compile(chunks[i].ops) IN c.words <= Budget /\ c.ok /\ c.pass = 0

\* A pass the planner continues in the next chunk stored what it drew so far
\* (force_active_pass_store); otherwise the continuation would load garbage.
CutsStore ==
    \A i, k \in DOMAIN chunks :
        chunks[i].kind = "gpu" /\ chunks[k].kind = "gpu" /\ i < k =>
            \A a \in DOMAIN chunks[i].ops, b \in DOMAIN chunks[k].ops :
                LET x == chunks[i].ops[a] y == chunks[k].ops[b] IN
                x.op = "begin" /\ y.op = "begin" /\ y.cont /\ x.id = y.id /\ k = i + 1
                    => x.store

\* A submission is refused as too large only when one draw, with the clear its
\* pass opens with, exceeds a payload by itself: halving always gets that far.
RefusedOnlyIfTooLarge ==
    pc = "error" =>
        \E i \in DOMAIN source :
            /\ source[i].op = "draw"
            /\ RecordCost(StateAt(i)) + (IF source[PassOf(i)].clear THEN 1 ELSE 0) > Budget

\* TypeOK: the pieces still to compile and the chunks emitted never outnumber the
\* commands they came from.
TypeOK ==
    /\ pc \in {"record", "prepare", "flush", "done", "error"}
    /\ at \in 1..(MaxOps + 1)
    /\ operations # <<>> => operations[1].op = "begin"
    /\ source # <<>> => Len(chunks) + Len(pending) + Len(after) <= Len(source)
=============================================================================
