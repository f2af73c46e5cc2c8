---------------------------- MODULE ShaderFlow -----------------------------
(***************************************************************************)
(* Structured control flow: from TGSI's UIF/ELSE/ENDIF and loops to blocks *)
(* that push and pop Maxwell's re-convergence stack                        *)
(* (userspace/sgfx-shader-maxwell/src/lower.rs), their order in memory     *)
(* (shared/sgfx-nak/vendor/compiler/src/cfg.rs), and a warp that executes  *)
(* the code while each of its threads follows the program on its own.      *)
(*                                                                         *)
(* A program is the sequence of its opcodes; ALU stands for any operation  *)
(* without control.  What a condition is for a thread is free.             *)
(***************************************************************************)
EXTENDS NakPasses, ProgramVerifier

CONSTANTS FlowPrograms, \* The programs, without their END
          Threads       \* The threads of the warp

VARIABLES flow,   \* The program, how far it is compiled, its blocks and their keys
          at,     \* The instruction the warp executes: a block and an index
          active, \* The threads that execute it
          stack,  \* The re-convergence stack
          tpc     \* Where each thread is in the program, 0 when it has ended

flow_vars == <<flow, at, active, stack, tpc>>

(***************************************************************************)
(* Scopes (control).                                                       *)
(***************************************************************************)
MaxCrsDepth == 16
NoControl == [err |-> "None", scopes |-> <<>>, if_else |-> none, if_end |-> none,
              else_end |-> none, loop_end |-> none, jump_loop |-> none, depth |-> 0]
Scope(k, start) == [k |-> k, start |-> start, otherwise |-> 0]
InnermostLoop(scopes) == SelectLastInSeq(scopes, LAMBDA s : s.k = "Loop")
scope_op(c, i, op) ==
  LET top == IF c.scopes = <<>> THEN Scope("None", 0) ELSE Last(c.scopes)
      Fail(e) == [c EXCEPT !.err = e]
      Pop(r) == [r EXCEPT !.scopes = Front(@)]
      loop == InnermostLoop(c.scopes)
  IN  CASE op = "UIF" -> [c EXCEPT !.scopes = Append(@, Scope("If", i))]
        [] op = "BGNLOOP" -> [c EXCEPT !.scopes = Append(@, Scope("Loop", i))]
        [] op = "ELSE" ->
             IF top.k # "If" \/ top.otherwise # 0 THEN Fail("malformed ELSE")
             ELSE [c EXCEPT !.scopes[Len(c.scopes)].otherwise = i,
                            !.if_else = (top.start :> i) @@ @]
        [] op = "ENDIF" ->
             IF top.k # "If" THEN Fail("malformed ENDIF")
             ELSE Pop([c EXCEPT !.if_end = (top.start :> i) @@ @,
                                !.else_end = IF top.otherwise = 0 THEN @
                                             ELSE (top.otherwise :> i) @@ @])
        [] op = "ENDLOOP" ->
             IF top.k # "Loop" THEN Fail("malformed ENDLOOP")
             ELSE Pop([c EXCEPT !.loop_end = (top.start :> i) @@ @,
                                !.jump_loop = (i :> top.start) @@ @])
        [] op \in {"BRK", "CONT"} ->
             IF loop = 0 THEN Fail("loop jump outside loop")
             ELSE [c EXCEPT !.jump_loop = (i :> c.scopes[loop].start) @@ @]
        [] OTHER -> c
Depth(scopes) == Len(scopes) + Len(SelectSeq(scopes, LAMBDA s : s.k = "Loop"))
control(ops) ==
  LET Go(c, i) ==
        LET r == scope_op(c, i, ops[i])
            d == AtLeast(r.depth, {Depth(r.scopes)})
        IN  IF c.err # "None" THEN c
            ELSE [r EXCEPT !.depth = d,
                           !.err = IF @ = "None" /\ d > MaxCrsDepth THEN "stack" ELSE @]
      all == Through(Go, NoControl, [i \in DOMAIN ops |-> i])
  IN  IF all.err = "None" /\ all.scopes # <<>> THEN [all EXCEPT !.err = "unterminated"] ELSE all

(***************************************************************************)
(* Blocks.  The keys are 0 for the prolog, the instruction's index, and    *)
(* two more for the arms of a UIF, which are blocks of their own.          *)
(***************************************************************************)
Jump(op, target) == Instr(op, <<>>, <<>>, [target |-> target])
bra(target, pred) == [Instr("Bra", <<>>, <<True>>, [target |-> target]) EXCEPT !.pred = pred]
P0 == Reg("Pred", 0, 1)
R1 == Reg("GPR", 1, 1)
ThenKey(ops, i) == Len(ops) + 2 * i - 1
ElseKey(ops, i) == Len(ops) + 2 * i
Otherwise(c, i) == IF i \in DOMAIN c.if_else THEN c.if_else[i] + 1 ELSE c.if_end[i]
test == Instr("ISetP", <<P0>>, <<R1, Zero, True, True>>,
              [set_op |-> "And", cmp_op |-> "Ne", cmp_type |-> "U32", ex |-> FALSE])
work == Instr("IAdd2", <<R1, DstNone>>, <<R1, Imm32({0})>>, <<>>)
body(ops, c, i) ==
  CASE ops[i] = "UIF" -> <<test, Jump("SSy", c.if_end[i] + 1),
                           bra(ElseKey(ops, i), [P0 EXCEPT !.mod = "BNot"])>>
    [] ops[i] = "ELSE" -> <<Jump("Sync", c.else_end[i] + 1)>>
    [] ops[i] = "ENDIF" -> <<Jump("Sync", i + 1)>>
    [] ops[i] = "BGNLOOP" -> <<Jump("PBk", c.loop_end[i] + 1)>>
    [] ops[i] \in {"ENDLOOP", "CONT"} -> <<Jump("Cont", c.jump_loop[i] + 1)>>
    [] ops[i] = "BRK" -> <<Jump("Brk", c.loop_end[c.jump_loop[i]] + 1)>>
    [] ops[i] = "KILL" -> <<Instr("Kill", <<>>, <<>>, <<>>)>>
    [] ops[i] = "END" -> <<Instr("Exit", <<>>, <<>>, <<>>)>>
    [] OTHER -> <<work>>
\* A loop's first block pushes the target of its continues, on every iteration.
lower_block(ops, c, key) ==
  CASE key = 0 -> <<Instr("Nop", <<>>, <<>>, <<>>)>>
    [] key \in DOMAIN ops ->
         (IF key - 1 \in DOMAIN c.loop_end THEN <<Jump("PCnt", key)>> ELSE <<>>)
         \o body(ops, c, key)
    [] OTHER -> LET i == (key - Len(ops) + 1) \div 2 IN
                <<bra(IF key = ThenKey(ops, i) THEN i + 1 ELSE Otherwise(c, i), True)>>
edges(ops, c, key) ==
  CASE key = 0 -> <<1>>
    [] key > Len(ops) -> LET i == (key - Len(ops) + 1) \div 2 IN
                         <<IF key = ThenKey(ops, i) THEN i + 1 ELSE Otherwise(c, i)>>
    [] ops[key] = "UIF" -> <<ThenKey(ops, key), ElseKey(ops, key)>>
    [] ops[key] = "ELSE" -> <<c.else_end[key] + 1>>
    [] ops[key] \in {"ENDLOOP", "CONT"} -> <<c.jump_loop[key] + 1>>
    [] ops[key] = "BRK" -> <<c.loop_end[c.jump_loop[key]] + 1>>
    [] ops[key] = "END" -> <<>>
    [] OTHER -> <<key + 1>>

\* Mutated form: the successors from the first to the last: the else arm follows the branch.
RECURSIVE dfs_forward(_, _, _, _)
dfs_forward(ops, c, st, key) ==
  IF key \in st.seen THEN st
  ELSE LET Child(s, k) == dfs_forward(ops, c, s, k)
           r == FoldLeft(Child, [st EXCEPT !.seen = @ \cup {key}], edges(ops, c, key))
       IN  [r EXCEPT !.post = Append(@, key)]
\* Reverse post-order, the successors of a block from the last to the first;
\* what cannot be reached is left out.
RECURSIVE dfs(_, _, _, _)
dfs(ops, c, st, key) ==
  IF key \in st.seen THEN st
  ELSE LET Child(s, k) == dfs(ops, c, s, k)
           r == FoldLeft(Child, [st EXCEPT !.seen = @ \cup {key}], Reverse(edges(ops, c, key)))
       IN  [r EXCEPT !.post = Append(@, key)]
as_cfg(ops, c) == Reverse(dfs(ops, c, [seen |-> {}, post |-> <<>>], 0).post)
\* The blocks in that order; a target is the place of its block, 0 if it is gone.
place(keys, key) == SelectInSeq(keys, LAMBDA k : k = key)
lower_flow(ops, c, keys) ==
  LET At2(i) == IF "target" \in DOMAIN i.a THEN [i EXCEPT !.a.target = place(keys, @)] ELSE i
  IN  [b \in DOMAIN keys |-> LET block == lower_block(ops, c, keys[b]) IN
                             [k \in DOMAIN block |-> At2(block[k])]]
succ_indices(ops, c, keys) ==
  [b \in DOMAIN keys |-> {place(keys, k) : k \in ToSet(edges(ops, c, keys[b]))}]

(***************************************************************************)
(* The warp.  An entry of the stack has the threads that wait for it.  A   *)
(* branch that only some threads take leaves the others on the stack; a    *)
(* break or a continue takes its threads out of the entries above the one  *)
(* it unwinds to; with no thread left the topmost entry that has some goes *)
(* on.  A killed or finished thread leaves every entry.                    *)
(***************************************************************************)
Entry2(kind, target, mask) == [kind |-> kind, target |-> target, mask |-> mask]
Without(st, from, ts) ==
  [k \in DOMAIN st |-> IF k > from THEN [st[k] EXCEPT !.mask = @ \ ts] ELSE st[k]]
RECURSIVE Resume(_)
Resume(st) ==
  CASE st = <<>> -> [at |-> <<0, 1>>, active |-> {}, stack |-> <<>>]
    [] st # <<>> /\ Last(st).mask = {} -> Resume(Front(st))
    [] OTHER -> [at |-> Last(st).target, active |-> Last(st).mask, stack |-> Front(st)]
PopKind == [Sync |-> "SSy", Brk |-> "PBk", Cont |-> "PCnt"]
\* The place of the entry a pop unwinds to, 0 if there is none.  A Sync takes
\* the topmost one: the other side of the branch runs before the join.
EntryOf(op) ==
  IF op # "Sync" THEN SelectLastInSeq(stack, LAMBDA e : e.kind = PopKind[op])
  ELSE IF stack # <<>> /\ Last(stack).kind \in {"SSy", "Div"} THEN Len(stack) ELSE 0
Go(r) == at' = r.at /\ active' = r.active /\ stack' = r.stack
Instr2 == flow.blocks[at[1]][at[2]]
Running == flow.stage = "run" /\ active # {}
\* The end of a block goes on with the next one in memory.
RECURSIVE Norm(_, _)
Norm(blocks, p) == IF p[2] <= Len(blocks[p[1]]) \/ p[1] = Len(blocks) THEN p
                   ELSE Norm(blocks, <<p[1] + 1, 1>>)
Settle(r) == [r EXCEPT !.at = IF @[1] = 0 THEN @ ELSE Norm(flow.blocks, @)]
FallOn == Settle([at |-> <<at[1], at[2] + 1>>, active |-> active, stack |-> stack])
JumpTo(b, mask, st) == Settle([at |-> <<b, 1>>, active |-> mask, stack |-> st])

(***************************************************************************)
(* The program as one thread sees it; the marks without effect are passed. *)
(***************************************************************************)
RECURSIVE Seek(_, _)
Seek(ops, i) == IF ops[i] = "BGNLOOP" THEN Seek(ops, i + 1) ELSE i
thread_next(ops, c, i, cond) ==
  CASE ops[i] = "UIF" -> Seek(ops, IF cond THEN i + 1 ELSE Otherwise(c, i))
    [] ops[i] = "ELSE" -> Seek(ops, c.else_end[i] + 1)
    [] ops[i] \in {"ENDLOOP", "CONT"} -> Seek(ops, c.jump_loop[i] + 1)
    [] ops[i] = "BRK" -> Seek(ops, c.loop_end[c.jump_loop[i]] + 1)
    [] ops[i] \in {"KILL", "END"} -> 0
    [] OTHER -> Seek(ops, i + 1)
Advance(ts, taken) ==
  [t \in Threads |-> IF t \in ts /\ tpc[t] # 0
                     THEN thread_next(flow.ops, flow.c, tpc[t], t \notin taken) ELSE tpc[t]]

(***************************************************************************)
(* The machine: compile, then run.                                         *)
(***************************************************************************)
Source(ops) == [stage |-> "source", ops |-> Append(ops, "END"), c |-> NoControl, keys |-> <<>>,
                blocks |-> <<>>]
FlowInit ==
  /\ \E ops \in FlowPrograms : flow = Source(ops)
  /\ at = <<1, 1>> /\ active = Threads /\ stack = <<>>
  /\ tpc = [t \in Threads |-> 1]
FlowReject ==
  /\ flow.stage = "source" /\ control(flow.ops).err # "None"
  /\ flow' = [flow EXCEPT !.stage = "rejected"]
  /\ UNCHANGED <<at, active, stack, tpc>>
FlowLower ==
  /\ flow.stage = "source"
  /\ \E c \in {control(flow.ops)} :
       /\ c.err = "None"
       /\ \E keys \in {as_cfg(flow.ops, c)} :
            flow' = [flow EXCEPT !.stage = "deps", !.c = c, !.keys = keys,
                                 !.blocks = opt_crs(lower_flow(flow.ops, c, keys))]
  /\ UNCHANGED <<at, active, stack, tpc>>
FlowDeps ==
  /\ flow.stage = "deps"
  /\ \E blocks \in {calc_instr_deps(flow.blocks, succ_indices(flow.ops, flow.c, flow.keys))} :
       flow' = [flow EXCEPT !.stage = "encode", !.blocks = blocks]
  /\ UNCHANGED <<at, active, stack, tpc>>
FlowStart ==
  /\ flow.stage = "encode"
  /\ flow' = [flow EXCEPT !.stage = "run"]
  /\ at' = Norm(flow.blocks, <<1, 1>>)
  /\ tpc' = [t \in Threads |-> Seek(flow.ops, 1)]
  /\ UNCHANGED <<active, stack>>

Plain ==
  /\ Running /\ Instr2.op \in {"Nop", "ISetP", "IAdd2"}
  /\ Go(FallOn)
  /\ tpc' = IF Instr2.op = "IAdd2" THEN Advance(active, {}) ELSE tpc
  /\ UNCHANGED flow
PushTarget ==
  /\ Running /\ Instr2.op \in {"SSy", "PBk", "PCnt"}
  /\ Go([FallOn EXCEPT !.stack = Append(@, Entry2(Instr2.op, <<Instr2.a.target, 1>>, active))])
  /\ UNCHANGED <<flow, tpc>>
Branch ==
  /\ Running /\ Instr2.op = "Bra" /\ Instr2.pred = True
  /\ Go(JumpTo(Instr2.a.target, active, stack))
  /\ UNCHANGED <<flow, tpc>>
\* Some threads take the branch; either side may go first.
Diverge ==
  /\ Running /\ Instr2.op = "Bra" /\ Instr2.pred # True
  /\ \E taken \in SUBSET active :
       /\ tpc' = Advance(active, taken)
       /\ \/ taken = {} /\ Go(FallOn)
          \/ taken = active /\ Go(JumpTo(Instr2.a.target, active, stack))
          \/ /\ taken \notin {{}, active}
             /\ \/ Go([FallOn EXCEPT !.active = active \ taken, !.stack =
                         Append(@, Entry2("Div", <<Instr2.a.target, 1>>, taken))])
                \/ Go(JumpTo(Instr2.a.target, taken,
                             Append(stack, Entry2("Div", FallOn.at, active \ taken))))
  /\ UNCHANGED flow
Pop ==
  /\ Running /\ Instr2.op \in {"Sync", "Brk", "Cont"} /\ EntryOf(Instr2.op) # 0
  /\ tpc' = Advance(active, {})
  /\ Go(Settle(Resume(Without(stack, EntryOf(Instr2.op), active))))
  /\ UNCHANGED flow
Leave ==
  /\ Running /\ Instr2.op \in {"Kill", "Exit"}
  /\ tpc' = Advance(active, {})
  /\ Go(Settle(Resume(Without(stack, 0, active))))
  /\ UNCHANGED flow
FlowNext == FlowReject \/ FlowLower \/ FlowDeps \/ FlowStart \/ Plain \/ PushTarget
            \/ Branch \/ Diverge \/ Pop \/ Leave

(***************************************************************************)
(* Properties.                                                             *)
(***************************************************************************)
HasEffect(i) == i.op \in {"IAdd2", "Sync", "Brk", "Cont", "Kill", "Exit"}
                \/ (i.op = "Bra" /\ i.pred # True)
\* Whatever the threads of a warp decide, and whichever side of a branch goes
\* first, each one executes exactly the operations of its own way through the
\* program: the pushes and pops of lower.rs, what opt_crs drops of them and the
\* order of the blocks (cfg.rs), with the blocks a thread falls through, never
\* lose a thread or take it along a path that is not its own; and at the end
\* all threads that are left are together again.
WarpMatchesThreads ==
  flow.stage = "run" =>
    /\ active = {} => \A t \in Threads : tpc[t] = 0
    /\ active # {} /\ HasEffect(Instr2) =>
         /\ \A t \in active : tpc[t] = flow.keys[at[1]]
         /\ Instr2.op \in DOMAIN PopKind => EntryOf(Instr2.op) # 0
         /\ Instr2.op = "Exit" => active = {t \in Threads : tpc[t] # 0}

FlowMeta == [stage |-> "Fragment", gprs |-> 4, flags |-> {"KILL"}, resources |-> {},
             cb_sizes |-> [b \in 0..31 |-> 0], ins |-> {\h7c}, outs |-> {}, store |-> <<0, 0>>,
             imap |-> none, colors |-> {}]
FlowLimits == [cb_sizes |-> [b \in 0..31 |-> 0], resources |-> {}]
FlowWords(ws) == [k \in DOMAIN ws |-> Word(ws[k])]
\* Every structured program lower.rs accepts is encoded without a label that is
\* gone, the verifier (verify.rs) proves its control flow, and the depth it
\* finds is within the one the compiler declared.
FlowVerified ==
  flow.stage = "encode" =>
    /\ \A b \in DOMAIN flow.blocks : \A k \in DOMAIN flow.blocks[b] :
         "target" \in DOMAIN flow.blocks[b][k].a => flow.blocks[b][k].a.target # 0
    /\ \A ws \in {encode_sm50_shader(flow.blocks)} :
         /\ \A k \in DOMAIN ws : Encodes(ws[k])
         /\ \A v \in {validate(FlowMeta, FlowWords(ws), FlowLimits)} :
              v.err = "None" /\ v.depth <= flow.c.depth
=============================================================================
