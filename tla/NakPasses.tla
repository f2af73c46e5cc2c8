----------------------------- MODULE NakPasses -----------------------------
(***************************************************************************)
(* The passes of the NAK compiler over the blocks of a shader              *)
(* (shared/sgfx-nak/src: opt_copy_prop.rs, opt_dce.rs, legalize.rs,        *)
(* lower_par_copies.rs, lower_copy_swap.rs, opt_crs.rs,                    *)
(* calc_instr_deps.rs), with the latencies they use, and the layout of     *)
(* the program that follows them (sm50.rs).  A pass is a function from a   *)
(* sequence of blocks, which are sequences of instructions, to another.    *)
(*                                                                         *)
(* The entries of the copy propagation are those of the operations that    *)
(* the TGSI front end and the legalizer of this shader model emit: no      *)
(* permutes, no three-input logic, no half floats or doubles and no        *)
(* uniform registers.                                                      *)
(***************************************************************************)
EXTENDS Sm50

Values(s) == IF s.k = "SSA" THEN {Comp(s, c) : c \in 0..(s.n - 1)} ELSE {}
UsesOf(i) == UNION {Values(i.srcs[k]) : k \in DOMAIN i.srcs}
             \cup {[x EXCEPT !.mod = "None"] : x \in {p \in {i.pred} : p.k = "SSA"}}
DefsOf(i) == UNION {Values(i.dsts[k]) : k \in DOMAIN i.dsts}

(***************************************************************************)
(* Copy propagation.  A value that another one can stand for has an entry: *)
(* a copy, with the type its modifier is read in, or the conversion of a   *)
(* predicate to an integer.                                                *)
(***************************************************************************)
Entry(k, ty, src, z) == [k |-> k, ty |-> ty, src |-> src, ftz |-> z]
add_copy(d, ty, src, z) == d :> Entry("Copy", ty, src, z)
none == [d \in {} |-> d]

\* Adding negative zero is a copy, adding zero is not.
add_fadd(i) ==
  LET d == i.dsts[1] IN
  CASE i.a.saturate -> none
    [] is_fneg_zero(i.srcs[1], "F32") -> add_copy(d, "F32", i.srcs[2], i.a.ftz)
    [] is_fneg_zero(i.srcs[2], "F32") -> add_copy(d, "F32", i.srcs[1], i.a.ftz)
    [] OTHER -> none
is_nonzero(s) == s.k = "Imm32" /\ s.v # {}
add_b2i(i) ==
  LET c == i.srcs[1]  x == i.srcs[2]  y == i.srcs[3] IN
  CASE is_zero(x) /\ is_nonzero(y) ->
         i.dsts[1] :> Entry("ConvBoolToInt", "Pred", [c EXCEPT !.mod = bnot(@)], FALSE)
    [] is_zero(y) /\ is_nonzero(x) ->
         i.dsts[1] :> Entry("ConvBoolToInt", "Pred", c, FALSE)
    [] OTHER -> none
\* A comparison with zero of such a conversion is the predicate again.
add_i2b(i, m) ==
  LET x == IF is_zero(i.srcs[1]) THEN i.srcs[2] ELSE i.srcs[1]
      v == [x EXCEPT !.mod = "None"]
      src == [m[v].src EXCEPT !.mod = modify(@, x.mod)]
  IN  IF /\ is_trivial(i.a.set_op, i.srcs[3])
         /\ is_zero(i.srcs[1]) \/ is_zero(i.srcs[2])
         /\ x.mod \in {"None", "INeg"} /\ i.a.cmp_op \in {"Eq", "Ne"}
         /\ v \in DOMAIN m /\ m[v].k = "ConvBoolToInt"
      THEN add_copy(i.dsts[1], "Pred",
                    IF i.a.cmp_op = "Eq" THEN [src EXCEPT !.mod = bnot(@)] ELSE src, FALSE)
      ELSE none
add_iadd2(i) ==
  CASE is_zero(i.srcs[1]) -> add_copy(i.dsts[1], "I32", i.srcs[2], FALSE)
    [] is_zero(i.srcs[2]) -> add_copy(i.dsts[1], "I32", i.srcs[1], FALSE)
    [] OTHER -> none
try_add_instr(i, m) ==
  CASE i.op = "FAdd" -> add_fadd(i)
    [] i.op = "Sel" -> add_b2i(i)
    [] i.op = "ISetP" -> add_i2b(i, m)
    [] i.op = "IAdd2" -> add_iadd2(i)
    [] i.op = "Copy" -> add_copy(i.dsts[1], "GPR", i.srcs[1], FALSE)
    [] OTHER -> none

has_copy(m, v) == v \in DOMAIN m /\ m[v].k = "Copy"
RECURSIVE prop_to_pred(_, _)
prop_to_pred(m, p) ==
  LET v == [p EXCEPT !.mod = "None"]
      s == m[v].src
  IN  IF p.k # "SSA" \/ ~has_copy(m, v) \/ s.k \notin {"True", "False", "SSA"} THEN p
      ELSE LET inv == (p.mod = "BNot") # (s.mod = "BNot") IN
           IF s.k = "SSA" THEN prop_to_pred(m, [s EXCEPT !.mod = IF inv THEN "BNot" ELSE "None"])
           ELSE Bool((s.k = "True") # inv)
\* A component stands for itself unless it copies another value as it is.
RECURSIVE prop_to_ssa_value(_, _)
prop_to_ssa_value(m, v) ==
  IF has_copy(m, v) /\ ~m[v].ftz /\ is_unmodified(m[v].src) /\ m[v].src.k = "SSA"
  THEN prop_to_ssa_value(m, m[v].src) ELSE v
prop_to_ssa_src(m, s) ==
  IF s.k # "SSA" THEN s
  ELSE [SSAVec(s.f, [c \in 1..s.n |->
          CHOOSE x \in prop_to_ssa_value(m, Comp(s, c - 1)).v : TRUE]) EXCEPT !.mod = s.mod]
\* A register source may become the zero register when every component is a
\* copy of zero.
prop_to_gpr_src(m, s) ==
  LET p == prop_to_ssa_src(m, s) IN
  IF p.k = "SSA" /\ \A v \in Values(p) : has_copy(m, v) /\ m[v].src.k = "Zero"
  THEN [Zero EXCEPT !.mod = s.mod] ELSE p
\* A modifier moves with its source only into the type it was meant in, and a
\* source that flushes denormals only where they are flushed anyway.
RECURSIVE prop_to_scalar_src(_, _, _, _)
prop_to_scalar_src(m, ty, s, z) ==
  LET e == m[[s EXCEPT !.mod = "None"]] IN
  IF \/ s.k # "SSA" \/ ~has_copy(m, [s EXCEPT !.mod = "None"])
     \/ e.ftz /\ ~z
     \/ (e.src.mod # "None" \/ e.ftz) /\ ~eq_ftz_mod(e.ty, ty)
  THEN s
  ELSE prop_to_scalar_src(m, ty, [e.src EXCEPT !.mod = modify(@, s.mod)], z)
prop_to_src(m, ty, s, z) ==
  CASE ty = "SSA" -> prop_to_ssa_src(m, s)
    [] ty = "GPR" -> prop_to_gpr_src(m, s)
    [] ty \in {"ALU", "F32", "I32", "B32", "Pred"} -> prop_to_scalar_src(m, ty, s, z)
    [] OTHER -> s
\* A carry goes wrong with a negated operand.
writes_carry(i) == i.op \in {"IAdd2", "IAdd2X"} /\ i.dsts[2].k # "None"
prop_type(i, k) == LET ty == src_types(i)[k] IN
                   IF writes_carry(i) /\ ty \in {"B32", "I32"} THEN "ALU" ELSE ty
prop_instr(m, i) ==
  [i EXCEPT !.pred = prop_to_pred(m, @),
            !.srcs = [k \in DOMAIN @ |-> prop_to_src(m, prop_type(i, k), @[k], ftz(i))]]
opt_copy_prop(blocks) ==
  LET m == Through(LAMBDA e, i : try_add_instr(i, e) @@ e, none, Join(blocks))
  IN  [b \in DOMAIN blocks |-> [k \in DOMAIN blocks[b] |-> prop_instr(m, blocks[b][k])]]

(***************************************************************************)
(* Dead code: an instruction stays if it has an effect or a value of it is *)
(* used by one that stays.  Without loops one walk from the end marks all. *)
(***************************************************************************)
is_instr_live(i, live) ==
  /\ i.pred # False /\ i.pred # [True EXCEPT !.mod = "BNot"]
  /\ ~can_eliminate(i) \/ DefsOf(i) \cap live # {}
live_ssa(code) ==
  Through(LAMBDA live, i : IF is_instr_live(i, live) THEN live \cup UsesOf(i) ELSE live,
          {}, Reverse(code))
opt_dce(blocks) ==
  LET live == live_ssa(Join(blocks))
  IN  [b \in DOMAIN blocks |-> SelectSeq(blocks[b], LAMBDA i : is_instr_live(i, live))]

(***************************************************************************)
(* Legalization, with the constants that copies have put in values so far. *)
(***************************************************************************)
\* A modifier on an immediate is folded into its word; zero stays the zero
\* register.
FoldImm(s, ty) == IF s.k = "Imm32" /\ as_u32(s, ty) # {}
                  THEN Imm32(CHOOSE v \in as_u32(s, ty) : TRUE) ELSE s
\* A value that two different vectors of one instruction share, or that one
\* vector has twice, is copied, since a register holds one component; a vector
\* that comes again becomes what it became before.
dedup(l) ==
  LET Put(acc, val) ==
        IF val \notin acc.seen
        THEN [acc EXCEPT !.seen = @ \cup {val}, !.out = Append(@, val)]
        ELSE LET new == SSA(val.f, acc.l.n, 1) IN
             [acc EXCEPT !.l = copy_to([@ EXCEPT !.n = @ + 1], new, val),
                         !.out = Append(@, new)]
      Gather(vals) == SSAVec(vals[1].f, [c \in DOMAIN vals |-> CHOOSE x \in vals[c].v : TRUE])
      Source(acc, k) ==
        LET s == acc.l.s[k]
            old == {p \in acc.done : p[1] = s}
            r == Through(Put, [acc EXCEPT !.out = <<>>], [c \in 1..s.n |-> Comp(s, c - 1)])
            vec == IF old # {} THEN (CHOOSE p \in old : TRUE)[2] ELSE Gather(r.out)
            to == IF old # {} THEN acc ELSE r
        IN  IF s.k # "SSA" \/ s.n = 1 THEN acc
            ELSE [to EXCEPT !.l.s[k] = vec, !.done = @ \cup {<<s, vec>>}]
  IN  Through(Source, [l |-> l, seen |-> {}, done |-> {}, out |-> <<>>],
               [k \in DOMAIN l.s |-> k]).l

\* The instructions the legalizer leaves alone, and the rest: immediates are
\* folded first, then the operation is legalized.  The result is the sequence
\* that takes the instruction's place.
LegalAsIs == {"Annotate", "Undef", "PhiSrcs", "PhiDsts", "Pin", "Unpin", "RegOut",
              "Copy", "SrcBar"}
Folded(i) == [i EXCEPT !.srcs = [k \in DOMAIN i.srcs |-> FoldImm(i.srcs[k], src_types(i)[k])]]
Replaced(i, l) == [ok |-> l.ok, n |-> l.n, code |-> Append(l.new, [i EXCEPT !.srcs = l.s, !.a = l.a])]
legalize_folded(i, n, consts) == Replaced(i, dedup(legalize_op(i.op, Builder(i, n, consts))))
legalize_instr(i, n, consts) ==
  IF i.op \in LegalAsIs THEN [ok |-> TRUE, code |-> <<i>>, n |-> n]
  ELSE legalize_folded(Folded(i), n, consts)

is_const(s) == s.k \in {"Zero", "True", "False", "Imm32", "CBuf"}
Noted(acc, i) == IF i.op = "Copy" /\ is_const(i.srcs[1])
                 THEN [acc EXCEPT !.consts = @ \cup {<<i.dsts[1], i.srcs[1]>>}] ELSE acc
Extended(acc, r) == [acc EXCEPT !.ok = @ /\ r.ok, !.code = @ \o r.code, !.n = r.n]
legalize_next(acc, i) == Extended(acc, legalize_instr(i, acc.n, acc.consts))
\* The blocks so far, and behind them the code of r.
AsBlock(blocks, r) == [r EXCEPT !.code = Append(blocks, r.code)]
legalize(blocks, n) ==
  Through(LAMBDA acc, b :
            AsBlock(acc.code, Through(LAMBDA x, i : legalize_next(Noted(x, i), i),
                                      [acc EXCEPT !.code = <<>>], b)),
          [ok |-> TRUE, code |-> <<>>, n |-> n, consts |-> {}], blocks)

(***************************************************************************)
(* Parallel copies.  An edge is a pair of a destination and the value it   *)
(* takes; a destination that nothing reads any more is written, and what   *)
(* is left are cycles.                                                     *)
(***************************************************************************)
copy_to_reg(d, s) == Instr("Copy", <<d>>, <<s>>, <<>>)
copy_needs_tmp(d, s) ==
  IF s.k = "Reg" THEN \/ d.f = "Mem" /\ s.f # "GPR"
                      \/ d.f = "Bar" /\ s.f = "Bar"
  ELSE d.f = "Mem"
cycle_use_swap(tmp, file) == file \notin {"Bar", "Mem"} /\ (file = "GPR" => tmp.k = "None")
TmpComp(tmp, c) == Reg("GPR", Number(tmp.v, 8) + c, 1)
num_reads(E, r) == Cardinality({e \in E : e[2] = r})
SrcEdge(E, d) == CHOOSE e \in E : e[1] = d
HasSrc(E, d) == \E e \in E : e[1] = d

\* The last destination that became ready is written first.
RECURSIVE drain(_, _, _, _)
drain(E, ready, tmp, out) ==
  IF ready = <<>> THEN [E |-> E, out |-> out]
  ELSE LET d == Last(ready)  rest == Front(ready) IN
       IF ~HasSrc(E, d) THEN drain(E, rest, tmp, out)
       ELSE LET e == SrcEdge(E, d)  s == e[2]  E2 == E \ {e} IN
            drain(E2, IF s.k = "Reg" /\ num_reads(E2, s) = 0 THEN Append(rest, s) ELSE rest,
                  tmp, out \o (IF copy_needs_tmp(d, s)
                               THEN <<copy_to_reg(TmpComp(tmp, 0), s),
                                      copy_to_reg(d, TmpComp(tmp, 0))>>
                               ELSE <<copy_to_reg(d, s)>>))
swap(x, y) == Instr("Swap", <<x, y>>, <<y, x>>, <<>>)
RECURSIVE swap_cycle(_, _, _)
swap_cycle(E, d, out) ==
  LET j == SrcEdge(E, d)[2]
      k == SrcEdge(E, j)[2]
      E2 == E \ {<<d, j>>, <<j, k>>}
      more == Append(out, swap(j, k))
  IN  IF d = k THEN [E |-> E2, out |-> more] ELSE swap_cycle(E2 \cup {<<d, k>>}, d, more)
\* Through a temporary: the first register is saved, each one then takes its
\* source, and the last one the saved value.
RECURSIVE tmp_cycle(_, _, _, _, _)
tmp_cycle(E, d, p, tmp, out) ==
  LET j == SrcEdge(E, p)[2] IN
  IF j = d THEN [E |-> E \ {<<p, j>>}, out |-> Append(out, copy_to_reg(p, TmpComp(tmp, 0)))]
  ELSE tmp_cycle(E \ {<<p, j>>}, d, j, tmp,
                 out \o (IF d.f \in {"Bar", "Mem"}
                         THEN <<copy_to_reg(TmpComp(tmp, 1), j), copy_to_reg(p, TmpComp(tmp, 1))>>
                         ELSE <<copy_to_reg(p, j)>>))
lower_par_copy(i) ==
  LET ds == i.dsts
      edges == {<<ds[k], i.srcs[k]>> : k \in {q \in DOMAIN ds : ds[q] # i.srcs[q]}}
      tmp == i.a.tmp
      acyclic == drain(edges, SelectSeq(ds, LAMBDA d : num_reads(edges, d) = 0), tmp, <<>>)
      Break(acc, d) ==
        IF ~HasSrc(acc.E, d) THEN acc
        ELSE LET r == IF cycle_use_swap(tmp, d.f) THEN swap_cycle(acc.E, d, <<>>)
                      ELSE tmp_cycle(acc.E, d, d, tmp, <<copy_to_reg(TmpComp(tmp, 0), d)>>)
             IN  [E |-> r.E, out |-> acc.out \o r.out]
  IN  Through(Break, acyclic, ds).out
lower_par_copies(blocks) ==
  [b \in DOMAIN blocks |-> Join([k \in DOMAIN blocks[b] |->
     IF blocks[b][k].op = "ParCopy" THEN lower_par_copy(blocks[b][k]) ELSE <<blocks[b][k]>>])]

(***************************************************************************)
(* Copies and swaps of registers.  A copy to or from the Mem file is an    *)
(* access to local memory from slm on.                                     *)
(***************************************************************************)
lop2_to(d, op, x, y) ==
  IF d.f # "Pred" THEN Instr("Lop2", <<d>>, <<x, y>>, [op |-> op])
  ELSE Instr("PSetP", <<d, DstNone>>,
             IF op = "PassB" THEN <<True, y, True>> ELSE <<x, y, True>>,
             [ops |-> <<IF op = "PassB" THEN "And" ELSE op, "And">>])
local(slm, r) == [offset |-> slm + 4 * Number(r.v, 8), stride |-> "X1", mem_type |-> "B32",
                  space |-> "Local", order |-> "StrongCTA", eviction_priority |-> "Normal"]
\* The sequence a copy becomes; none for a copy that panics.
lower_copy(i, slm) ==
  LET d == i.dsts[1]  s == i.srcs[1] IN
  CASE ~is_unmodified(s) -> {}
    [] d.f = "GPR" /\ (s.k \in {"Zero", "Imm32", "CBuf"} \/ (s.k = "Reg" /\ s.f = "GPR")) ->
         {<<Instr("Mov", <<d>>, <<s>>, [quad_lanes |-> 15])>>}
    [] d.f = "GPR" /\ s.k = "Reg" /\ s.f = "Mem" ->
         {<<Instr("Ld", <<d>>, <<Zero, Zero, True>>, local(slm, s))>>}
    [] d.f = "Mem" /\ s.k = "Reg" /\ s.f = "GPR" ->
         {<<Instr("St", <<>>, <<Zero, s, Zero>>, local(slm, d))>>}
    [] d.f = "Pred" /\ (s.k \in {"True", "False"} \/ (s.k = "Reg" /\ s.f = "Pred")) ->
         {<<lop2_to(d, "PassB", True, s)>>}
    [] OTHER -> {}
lower_swap(i) ==
  LET x == i.dsts[1]  y == i.dsts[2] IN
  IF x = y THEN <<>>
  ELSE <<lop2_to(x, "Xor", x, y), lop2_to(y, "Xor", x, y), lop2_to(x, "Xor", x, y)>>
lower_copy_swap(blocks, slm) ==
  LET Go(acc, i) ==
        CASE i.op = "Copy" -> LET c == lower_copy(i, slm) IN
               [ok |-> acc.ok /\ c # {}, code |-> acc.code \o (IF c = {} THEN <<i>>
                                                               ELSE CHOOSE x \in c : TRUE)]
          [] i.op = "Swap" -> [acc EXCEPT !.code = @ \o lower_swap(i)]
          [] OTHER -> [acc EXCEPT !.code = Append(@, i)]
      Block(acc, b) == AsBlock(acc.code, Through(Go, [acc EXCEPT !.code = <<>>], b))
  IN  Through(Block, [ok |-> TRUE, code |-> <<>>], blocks)

(***************************************************************************)
(* A push on the re-convergence stack whose target no block pops to at its *)
(* end is dropped.                                                         *)
(***************************************************************************)
\* Mutated form: only the targets of joins counted.
opt_crs_sync(blocks) ==
  LET pops == {k \in DOMAIN blocks : blocks[k] # <<>> /\ Last(blocks[k]).op = "Sync"}
      live_targets == {Last(blocks[k]).a.target : k \in pops}
      Keep(i) == i.op \in {"SSy", "PBk", "PCnt"} => i.a.target \in live_targets
  IN  [k \in DOMAIN blocks |-> SelectSeq(blocks[k], Keep)]
opt_crs(blocks) ==
  LET pops == {k \in DOMAIN blocks : /\ blocks[k] # <<>>
                                     /\ Last(blocks[k]).op \in {"Sync", "Brk", "Cont"}}
      live_targets == {Last(blocks[k]).a.target : k \in pops}
      Keep(i) == i.op \in {"SSy", "PBk", "PCnt"} => i.a.target \in live_targets
  IN  [k \in DOMAIN blocks |-> SelectSeq(blocks[k], Keep)]

(***************************************************************************)
(* Dependencies (calc_instr_deps.rs).  Barriers: an operation of variable  *)
(* latency signals one dependency when it has read its sources and one     *)
(* when it has written its destinations, numbered 2j and 2j + 1; a later   *)
(* operation that would disturb them waits.  A position is a pair of block *)
(* and instruction.                                                        *)
(***************************************************************************)
NoDeps == [delay |-> 0, yld |-> FALSE, wr |-> 7, rd |-> 7, wt |-> {}, reuse |-> {}]
RegsOf(s) == IF s.k = "Reg" THEN {<<s.f, Number(s.v, 8) + c>> : c \in 0..(s.n - 1)} ELSE {}
SrcRegs(i) == UNION {RegsOf(i.srcs[k]) : k \in DOMAIN i.srcs}
DstRegs(i) == UNION {RegsOf(i.dsts[k]) : k \in DOMAIN i.dsts}
needs_scoreboard(op) == ~no_scoreboard(op) /\ ~has_fixed_latency(op)
Positions(blocks) ==
  Join([b \in DOMAIN blocks |-> [k \in DOMAIN blocks[b] |-> <<b, k>>]])
After(p, q) == p[1] > q[1] \/ (p[1] = q[1] /\ p[2] > q[2])

\* What is known of a register: nothing, an unfinished write, unfinished reads.
RegUse(k, deps) == [k |-> k, deps |-> deps]
NoUse == RegUse("None", {})
UseAt(uses, r) == IF r \in DOMAIN uses THEN uses[r] ELSE NoUse
Written(uses, rs) == UNION {UseAt(uses, r).deps : r \in {q \in rs : UseAt(uses, q).k = "Write"}}
Pending(uses, rs) == UNION {UseAt(uses, r).deps : r \in rs}
clear_write(uses, rs) ==
  [r \in rs |-> IF UseAt(uses, r).k = "Write" THEN NoUse ELSE UseAt(uses, r)] @@ uses
add_read(uses, rs, dep) ==
  [r \in rs |-> RegUse("Reads", {dep} \cup IF UseAt(uses, r).k = "Reads"
                                           THEN UseAt(uses, r).deps ELSE {})] @@ uses

\* A wait on a write covers the read of the same instruction; only the first
\* wait on a dependency that was signalled counts.
add_waits(g, pos, waits) ==
  LET active == g.active \ {d - 1 : d \in {w \in waits : w % 2 = 1}}
      kept == waits \cap active
  IN  [g EXCEPT !.active = active \ kept, !.first = [d \in kept |-> pos] @@ @,
                !.waits = (pos :> kept) @@ @]
dep_graph_instr(g, pos, i) ==
  LET rd == g.next  wr == g.next + 1
      pred == RegsOf(i.pred)  rs == SrcRegs(i)  ds == DstRegs(i)
      u1 == clear_write(g.uses, pred)
      u2 == add_read(u1, rs, rd)
      signals == (IF rs # {} THEN {rd} ELSE {}) \cup (IF ds # {} THEN {wr} ELSE {})
      early == Written(g.uses, pred) \cup Written(u1, rs)
  IN  CASE is_branch(i) -> add_waits(g, pos, g.active)
        [] ~is_branch(i) /\ needs_scoreboard(i.op) ->
             add_waits([g EXCEPT !.uses = [r \in ds |-> RegUse("Write", {wr})] @@ u2,
                                 !.next = @ + 2, !.active = @ \cup signals,
                                 !.own = (pos :> rd) @@ @],
                       pos, early \cup (Pending(u2, ds) \ {rd}))
        [] OTHER ->
             LET u == clear_write(u1, rs) IN
             add_waits([g EXCEPT !.uses = [r \in ds |-> NoUse] @@ u], pos,
                       early \cup Pending(u, ds))
dep_graph(blocks) ==
  Through(LAMBDA g, p : dep_graph_instr(g, p, blocks[p[1]][p[2]]),
           [uses |-> none, next |-> 0, active |-> {}, first |-> none, waits |-> none,
            own |-> none], Positions(blocks))

\* Six barriers, each with the dependency it stands for; a full set gives up
\* the oldest, and the instruction that takes it waits.
Bars == 0..5
NoDep == 1000000
Oldest(bars) == CHOOSE b \in Bars : \A c \in Bars : bars[b] < bars[c] \/ (bars[b] = bars[c] /\ b <= c)
\* Mutated form: the oldest barrier taken over without a wait for what it stood for.
take_bar_busy(s, dep, waited) ==
  LET free == {b \in Bars : s.bars[b] = NoDep}
      bar == IF free # {} THEN CHOOSE b \in free : \A c \in free : b <= c ELSE Oldest(s.bars)
  IN  IF ~waited THEN [s EXCEPT !.got = 7] ELSE [s EXCEPT !.bars[bar] = dep, !.got = bar]
take_bar(s, dep, waited) ==
  LET free == {b \in Bars : s.bars[b] = NoDep}
      bar == IF free # {} THEN CHOOSE b \in free : \A c \in free : b <= c ELSE Oldest(s.bars)
  IN  IF ~waited THEN [s EXCEPT !.got = 7]
      ELSE [s EXCEPT !.bars[bar] = dep, !.got = bar,
                     !.wt = IF free = {} THEN @ \cup {bar} ELSE @]
Waited(g, dep, pos) == dep \in DOMAIN g.first /\ After(g.first[dep], pos)
\* The instruction's own barriers, that of its reads first.
take_read_bar(g, pos, s) == take_bar(s, g.own[pos], Waited(g, g.own[pos], pos))
take_write_bar(g, pos, s) == take_bar(s, g.own[pos] + 1, Waited(g, g.own[pos] + 1, pos))
Barred(deps, pos, d, s) ==
  [bars |-> s.bars, deps |-> (pos :> [d EXCEPT !.wt = s.wt, !.wr = s.got]) @@ deps]
BarredBoth(g, deps, pos, d, s) == Barred(deps, pos, [d EXCEPT !.rd = s.got], take_write_bar(g, pos, s))
assign_bars(g, acc, pos, i) ==
  LET wt == {b \in Bars : acc.bars[b] \in g.waits[pos]}
      s == [bars |-> [b \in Bars |-> IF b \in wt THEN NoDep ELSE acc.bars[b]], wt |-> wt, got |-> 7]
      d == [NoDeps EXCEPT !.yld = needs_yield(i)]
  IN  IF ~needs_scoreboard(i.op) THEN Barred(acc.deps, pos, d, s)
      ELSE BarredBoth(g, acc.deps, pos, d, take_read_bar(g, pos, s))
barriers(blocks, g) ==
  Through(LAMBDA acc, pos : assign_bars(g, acc, pos, blocks[pos[1]][pos[2]]),
          [bars |-> [b \in Bars |-> NoDep], deps |-> none], Positions(blocks))
with_deps(blocks, deps) ==
  [b \in DOMAIN blocks |-> [k \in DOMAIN blocks[b] |->
     [x \in DOMAIN blocks[b][k] \cup {"deps"} |->
        IF x = "deps" THEN deps[<<b, k>>] ELSE blocks[b][k][x]]]]
assign_barriers(blocks) == with_deps(blocks, barriers(blocks, dep_graph(blocks)).deps)

(***************************************************************************)
(* Latencies.                                                              *)
(***************************************************************************)
WideLatencyOps == {"DAdd", "DFma", "DMnMx", "DMul", "DSetP", "HAdd2", "HFma2", "HMul2",
                   "HSet2", "HSetP2", "HMnMx2"}
instr_latency(op, d) ==
  CASE d.k = "None" -> 0
    [] d.k # "None" /\ d.f = "GPR" -> IF op \in WideLatencyOps THEN 13 ELSE 6
    [] d.k # "None" /\ d.f = "Pred" -> IF op \in WideLatencyOps THEN 14 ELSE 13
    [] d.k # "None" /\ d.f = "Carry" -> 6
    [] OTHER -> 0
exec_latency(op) ==
  IF op \in {"CCtl", "MemBar", "Bra", "SSy", "Sync", "Brk", "PBk", "Cont", "PCnt",
             "Exit", "Bar", "Kill", "OutFinal"} THEN 13 ELSE 1
raw_latency(w, d) == instr_latency(w, d)
war_latency == 4
waw_latency(w, d) == instr_latency(w, d)
paw_latency == 13
max_instr_delay == 15

(***************************************************************************)
(* Delays: cycles are counted from the end of a block, backwards.  An      *)
(* access to a register is remembered with its position, the operand it is *)
(* (Exec for the predicate) and the cycles between the end of the block    *)
(* and it.                                                                 *)
(***************************************************************************)
Exec == 0
Access(rw, pos, x, delay) == [rw |-> rw, pos |-> pos, x |-> x, delay |-> delay]
latency_upper_bound == 14
AtLeast(d, xs) == Max(xs \cup {d})
Seen(uses, r, rw) == IF r \in DOMAIN uses THEN {a \in uses[r] : a.rw = rw} ELSE {}
dependency_to_cycle(st, pos, a, latency) ==
  IF a.pos[1] = pos[1] /\ a.pos[2] > pos[2] THEN st.cycles[a.pos[2]] + latency
  ELSE AtLeast(0, {latency - a.delay})
process_instr(st, pos, i) ==
  LET To(a, latency) == dependency_to_cycle(st, pos, a, latency)
      WriteLat(a, k) == IF a.rw = "R" /\ a.x = Exec THEN paw_latency
                        ELSE IF a.rw = "R" THEN raw_latency(i.op, i.dsts[k])
                        ELSE waw_latency(i.op, i.dsts[k])
      bars == {st.bars[b] + 2 : b \in {i.deps.rd, i.deps.wr} \ {7}}
      writes == UNION {UNION {{To(a, WriteLat(a, k)) : a \in Seen(st.uses, r, "W")
                                                          \cup Seen(st.uses, r, "R")} :
                              r \in RegsOf(i.dsts[k])} : k \in DOMAIN i.dsts}
      DstOf(r) == CHOOSE k \in DOMAIN i.dsts : r \in RegsOf(i.dsts[k])
      u1 == [r \in DstRegs(i) |-> {Access("W", pos, DstOf(r), 0)}] @@ st.uses
      Reads(r) == {Access("R", pos, Exec, 0) : q \in {p \in RegsOf(i.pred) : p = r}}
                  \cup {Access("R", pos, k, 0) : k \in {j \in DOMAIN i.srcs :
                                                          r \in RegsOf(i.srcs[j])}}
      Old(r) == IF r \in DOMAIN u1 THEN {a \in u1[r] : ~(a.rw = "R" /\ a.pos = pos)} ELSE {}
      reads == UNION {{To(a, war_latency) : a \in Seen(u1, r, "W")} : r \in SrcRegs(i)}
      start == AtLeast(st.current + exec_latency(i.op), bars \cup writes \cup reads)
  IN  [uses |-> [r \in SrcRegs(i) \cup RegsOf(i.pred) |-> Old(r) \cup Reads(r)] @@ u1,
       cycles |-> [st.cycles EXCEPT ![pos[2]] = start],
       bars |-> [b \in Bars |-> IF b \in i.deps.wt THEN start ELSE st.bars[b]],
       current |-> start]
\* Of several ways to an access the shortest one counts.
merge_with(u, v) ==
  LET Both(r) == UNION {f[r] : f \in {g \in {u, v} : r \in DOMAIN g}}
      Same(a, b) == [a EXCEPT !.delay = 0] = [b EXCEPT !.delay = 0]
  IN  [r \in DOMAIN u \cup DOMAIN v |->
         {a \in Both(r) : \A b \in Both(r) : Same(a, b) => a.delay <= b.delay}]
\* A block from its end: the cycles of its instructions, and the accesses its
\* predecessors must keep clear of.
at_entry(b, st) ==
  LET Later(a) == [a EXCEPT !.delay = @ + st.current
                                      - IF a.pos[1] = b THEN st.cycles[a.pos[2]] ELSE 0]
      near == [r \in DOMAIN st.uses |-> {a \in {Later(x) : x \in st.uses[r]} :
                                            a.delay <= latency_upper_bound}]
  IN  [cycles |-> st.cycles,
       uses |-> [r \in {q \in DOMAIN near : near[q] # {}} |-> near[r]]]
transfer(b, block, out) ==
  at_entry(b, Through(LAMBDA s, k : process_instr(s, <<b, k>>, block[k]),
                      [uses |-> out, cycles |-> [k \in DOMAIN block |-> 0],
                       bars |-> [x \in Bars |-> 0], current |-> 0],
                      Reverse([k \in DOMAIN block |-> k])))
\* Rounds over the blocks, last one first, until no block's entry changes.
solved(s, b, out, t) == [s EXCEPT !.in[b] = t.uses, !.out[b] = out, !.cycles[b] = t.cycles]
solve_block(s, b, block, out) == solved(s, b, out, transfer(b, block, out))
solve_round(blocks, succ, st) ==
  Through(LAMBDA s, b : solve_block(s, b, blocks[b],
                                    Through(merge_with, s.out[b], SetToSeq({s.in[x] : x \in succ[b]}))),
          st, Reverse([b \in DOMAIN blocks |-> b]))
RECURSIVE solve(_, _, _, _)
solve(blocks, succ, before, st) ==
  IF st.in = before.in THEN st.cycles ELSE solve(blocks, succ, st, solve_round(blocks, succ, st))
instr_cycles(blocks, succ) ==
  LET start == [in |-> [b \in DOMAIN blocks |-> none], out |-> [b \in DOMAIN blocks |-> none],
                cycles |-> [b \in DOMAIN blocks |-> <<>>]]
  IN  solve(blocks, succ, start, solve_round(blocks, succ, start))

nop(delay) == [op |-> "Nop", dsts |-> <<>>, srcs |-> <<>>, a |-> <<>>, pred |-> True,
               deps |-> [NoDeps EXCEPT !.delay = delay]]
RECURSIVE nops(_)
nops(delay) == IF delay <= max_instr_delay THEN <<nop(delay)>>
               ELSE <<nop(max_instr_delay)>> \o nops(delay - max_instr_delay)
\* A delay that does not fit its field goes on in no-operations, and one
\* follows every operation that blocks the pipeline.
set_delay(i, delay) ==
  CASE delay > max_instr_delay ->
         <<[i EXCEPT !.deps.delay = max_instr_delay]>> \o nops(delay - max_instr_delay)
    [] delay <= max_instr_delay /\ exec_latency(i.op) > 1 ->
         <<[i EXCEPT !.deps.delay = delay], nop(2)>>
    [] OTHER -> <<[i EXCEPT !.deps.delay = delay]>>
with_delays(blocks, cycles) ==
  LET At2(b, k) == IF k \in DOMAIN cycles[b] THEN cycles[b][k] ELSE 0
  IN  [b \in DOMAIN blocks |-> Join([k \in DOMAIN blocks[b] |->
         set_delay(blocks[b][k], AtLeast(1, {At2(b, k) - At2(b, k + 1)}))])]
calc_delays(blocks, succ) == with_delays(blocks, instr_cycles(blocks, succ))
calc_instr_deps(blocks, succ) == calc_delays(assign_barriers(blocks), succ)

(***************************************************************************)
(* The program: groups of three instructions behind the word that          *)
(* schedules them; a short group ends in no-operations.                    *)
(***************************************************************************)
set_instr_deps(d) ==
  N(0, 4, d.delay) \o B(4, d.yld) \o N(5, 8, d.wr) \o N(8, 11, d.rd) \o F(11, 17, d.wt)
  \o F(17, 21, d.reuse)
encode_instr(i, e) == encode_op(i, e) \o set_pred(i.pred)
Groups(b) == (Len(b) + 2) \div 3
\* The byte address of block k's first instruction: behind its schedule word.
LabelOf(blocks, k) ==
  8 + 32 * Through(LAMBDA s, b : s + Groups(b), 0, SubSeq(blocks, 1, k - 1))
encode_sm50_shader(blocks) ==
  LET labels == [k \in 1..Len(blocks) |-> LabelOf(blocks, k)]
      Slot(b, g, s) == IF 3 * g + s <= Len(b) THEN b[3 * g + s]
                       ELSE [op |-> "Nop", pred |-> True, deps |-> NoDeps]
      Ip(k, g, s) == labels[k] + 32 * g + 8 * (s - 1)
      Group(k, g) == [s \in 1..3 |-> encode_instr(Slot(blocks[k], g, s),
                                       [ip |-> Ip(k, g, s), labels |-> labels])]
      Sched(k, g) == FlattenSeq([s \in 1..3 |->
                       F(21 * (s - 1), 21 * s, Word(set_instr_deps(Slot(blocks[k], g, s).deps)))])
      Put(k, out, h) == out \o <<Sched(k, h - 1)>> \o Group(k, h - 1)
  IN  Through(LAMBDA out, k : Through(LAMBDA o, h : Put(k, o, h), out,
                                      [h \in 1..Groups(blocks[k]) |-> h]),
              <<>>, [k \in 1..Len(blocks) |-> k])
=============================================================================
