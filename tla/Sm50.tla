------------------------------- MODULE Sm50 --------------------------------
(***************************************************************************)
(* The Maxwell back end of the NAK compiler (shared/sgfx-nak/src/sm50.rs): *)
(* how each operation is legalized (leg_X) and encoded in 64 bits (enc_X). *)
(*                                                                         *)
(* An encoder is the sequence of its writes, in the order of the code: a   *)
(* later write of the same bits wins, and a write whose value does not fit *)
(* its field, or an assertion that fails, makes the encoding panic.        *)
(***************************************************************************)
EXTENDS NakIr, SequencesExt

CONSTANT SM    \* The shader model, 50..69; programs for the GM20B are compiled for a 52

(***************************************************************************)
(* The helpers of the legalizer (shared/sgfx-nak/src/legalize.rs).  The    *)
(* builder is a value: the instruction's sources s and attributes a, the   *)
(* instructions new pushed in front of it, the next free SSA value n, the  *)
(* constants the tracker knows (const_tracker.rs) and whether an assertion *)
(* has failed (ok).  Maxwell has no uniform registers, so the helpers that *)
(* leave the uniform files have nothing to do.                             *)
(***************************************************************************)
Builder(i, n, consts) ==
  [s |-> i.srcs, a |-> i.a, dsts |-> i.dsts, new |-> <<>>, n |-> n,
   consts |-> consts, ok |-> TRUE]
Require(l, c) == [l EXCEPT !.ok = @ /\ c]

src_is_reg(s, file) ==
  s.k \in {"Zero", "True", "False"} \/ (s.k = "SSA" /\ s.f = file)
src_is_imm(s) == s.k = "Imm32"

swapped(l, x, y) == ~src_is_reg(l.s[x], "GPR") /\ src_is_reg(l.s[y], "GPR")
swap_srcs_if_not_reg(l, x, y) ==
  IF swapped(l, x, y) THEN [l EXCEPT !.s[x] = l.s[y], !.s[y] = l.s[x]] ELSE l

\* A copy of a value the tracker knows to be constant copies the constant.
copy_to(l, dst, src) ==
  LET known == {c \in l.consts : c[1] = src}
      from == IF known = {} THEN src ELSE (CHOOSE c \in known : TRUE)[2]
  IN  [l EXCEPT !.new = Append(@, Instr("Copy", <<dst>>, <<from>>, <<>>))]

SrcOf(s) == [s EXCEPT !.mod = "None"]
\* The source becomes a fresh value that a copy of its reference defines: its
\* modifier stays where it was.  A double takes two values; an immediate fills
\* the upper one.
copy_alu_src(l, k, ty) ==
  LET old == SrcOf(l.s[k])
      w == IF ty = "F64" THEN 2 ELSE 1
      val == SSA("GPR", l.n, w)
      m == [l EXCEPT !.s[k] = [val EXCEPT !.mod = l.s[k].mod], !.n = @ + w]
  IN  CASE w = 1 -> copy_to(m, val, old)
        [] w = 2 /\ old.k = "Imm32" ->
             copy_to(copy_to(m, Comp(val, 0), Zero), Comp(val, 1), old)
        [] w = 2 /\ old.k = "CBuf" ->
             copy_to(copy_to(m, Comp(val, 0), old), Comp(val, 1),
                     CBuf(old.n, Add(old.v, {2})))
        [] w = 2 /\ old.k = "SSA" ->
             copy_to(copy_to(Require(m, old.n = 2), Comp(val, 0), Comp(old, 0)),
                     Comp(val, 1), Comp(old, 1))
        [] OTHER -> Require(m, FALSE)
CopyIf(l, k, ty, c) == IF c THEN copy_alu_src(l, k, ty) ELSE l

copy_alu_src_if_not_reg(l, k, ty) ==
  CopyIf(l, k, ty, ~src_is_reg(l.s[k], "GPR"))
copy_alu_src_if_not_reg_or_imm(l, k, ty) ==
  CopyIf(l, k, ty, ~src_is_reg(l.s[k], "GPR") /\ ~src_is_imm(l.s[k]))
copy_alu_src_if_imm(l, k, ty) == CopyIf(l, k, ty, src_is_imm(l.s[k]))
copy_alu_src_if_ineg_imm(l, k) ==
  CopyIf(l, k, "I32", src_is_imm(l.s[k]) /\ l.s[k].mod = "INeg")
copy_alu_src_if_i20_overflow(l, k, ty) ==
  CopyIf(Require(l, imm_unmodified(l.s[k])), k, ty, as_imm_not_i20(l.s[k]))
\* Mutated form: without a copy of the immediates that are too long.
copy_alu_src_if_f20_kept(l, k, ty) == l
copy_alu_src_if_f20_overflow(l, k, ty) ==
  CopyIf(Require(l, imm_unmodified(l.s[k])), k, ty, as_imm_not_f20(l.s[k]))

NegZero == [Zero EXCEPT !.mod = "FNeg"]
\* An operand modifier the operation has no bit for is applied by adding the
\* source to negative zero.
copy_alu_src_and_lower_fmod(l, k, ty) ==
  LET w == IF ty = "F64" THEN 2 ELSE 1
      val == SSA("GPR", l.n, w)
      add == IF ty = "F64"
             THEN Instr("DAdd", <<val>>, <<NegZero, l.s[k]>>,
                        [rnd_mode |-> "NearestEven"])
             ELSE Instr("FAdd", <<val>>, <<NegZero, l.s[k]>>,
                        [saturate |-> FALSE, rnd_mode |-> "NearestEven",
                         ftz |-> FALSE])
  IN  [l EXCEPT !.s[k] = val, !.n = @ + w, !.new = Append(@, add)]
copy_alu_src_and_lower_ineg(l, k) ==
  LET val == SSA("GPR", l.n, 1)
  IN  [l EXCEPT !.s[k] = val, !.n = @ + 1,
                !.new = Append(@, Instr("IAdd2", <<val, DstNone>>,
                                        <<Zero, l.s[k]>>, <<>>))]
copy_alu_src_if_fabs(l, k, ty) ==
  IF has_fabs(l.s[k].mod) THEN copy_alu_src_and_lower_fmod(l, k, ty) ELSE l

\* Operations of the load/store and texture units take registers only.
legalize_ext_instr(l, types) ==
  Require(l, \A k \in DOMAIN l.s :
               CASE types[k] = "SSA" -> l.s[k].k = "SSA"
                 [] types[k] = "GPR" -> src_is_reg(l.s[k], "GPR")
                 [] types[k] = "Pred" -> src_is_reg(l.s[k], "Pred")
                 [] OTHER -> FALSE)

(***************************************************************************)
(* Writes.                                                                 *)
(***************************************************************************)
F(lo, hi, v) == <<[lo |-> lo, hi |-> hi, v |-> v, ok |-> \A b \in v : b < hi - lo]>>
N(lo, hi, n) == F(lo, hi, Bits(n))
B(bit, b) == F(bit, bit + 1, IF b THEN {0} ELSE {})
Must(c) == <<[lo |-> 0, hi |-> 0, v |-> {}, ok |-> c]>>
Panic == Must(FALSE)
\* The value of a field given by a table; a missing entry panics.
T(lo, hi, table, key) ==
  IF key \in DOMAIN table THEN N(lo, hi, table[key]) ELSE Panic

Encodes(ws) == \A k \in DOMAIN ws : ws[k].ok
Word(ws) == Through(LAMBDA w, x : (w \ x.lo..(x.hi - 1)) \cup {x.lo + b : b \in x.v},
                     {}, ws)

set_opcode(n) == N(48, 64, n)
set_pred_reg(lo, f, v) == Must(f = "Pred") \o F(lo, lo + 3, v)
\* The predicate of the instruction; True is the seventh register.
set_pred(p) ==
  Must(p # False)
  \o set_pred_reg(16, "Pred", IF p.k = "Reg" THEN p.v ELSE Bits(7))
  \o Must(p.k \in {"True", "Reg"}) \o B(19, p.mod = "BNot")
set_reg(lo, r) == Must(r.f = "GPR") \o F(lo, lo + 8, r.v)
set_reg_src_ref(lo, s) ==
  CASE s.k = "Zero" -> N(lo, lo + 8, 255)
    [] s.k = "Reg" -> set_reg(lo, s)
    [] OTHER -> Panic
set_reg_src(lo, s) == Must(is_unmodified(s)) \o set_reg_src_ref(lo, s)
set_reg_fmod_src(lo, abs, neg, s) ==
  set_reg_src_ref(lo, s) \o B(abs, has_fabs(s.mod)) \o B(neg, has_fneg(s.mod))
set_reg_ineg_src(lo, neg, s) == set_reg_src_ref(lo, s) \o B(neg, s.mod = "INeg")
set_reg_bnot_src(lo, not, s) == set_reg_src_ref(lo, s) \o B(not, s.mod = "BNot")
set_pred_dst(lo, d) ==
  IF d.k = "None" THEN N(lo, lo + 3, 7)
  ELSE Must(d.k = "Reg") \o set_pred_reg(lo, d.f, d.v)
set_pred_src(lo, not, s) ==
  (IF s.k \in {"True", "False"} THEN N(lo, lo + 3, 7)
   ELSE Must(s.k = "Reg") \o set_pred_reg(lo, s.f, s.v))
  \o B(not, (s.k = "False") # (s.mod = "BNot"))
set_dst(d) == IF d.k = "None" THEN N(0, 8, 255)
              ELSE Must(d.k = "Reg") \o set_reg(0, d)
set_src_imm32(lo, v) == F(lo, lo + 32, v)
set_src_imm_i20(lo, sign, v) ==
  Must(v \cap 19..31 \in {{}, 19..31}) \o F(lo, lo + 19, v \cap 0..18)
  \o B(sign, 19 \in v)
set_src_imm_f20(lo, sign, v) ==
  Must(v \cap 0..11 = {}) \o F(lo, lo + 19, {b - 12 : b \in v \cap 12..30})
  \o B(sign, 31 \in v)
\* A bound constant buffer: 14 bits of word offset and 5 of buffer index.
set_src_cb(lo, s) ==
  Must(s.k = "CBuf" /\ s.v \cap {0, 1} = {})
  \o F(lo, lo + 14, {b - 2 : b \in s.v \ {0, 1}}) \o N(lo + 14, lo + 19, s.n)
set_cb_fmod_src(lo, abs, neg, s) ==
  set_src_cb(lo, s) \o B(abs, has_fabs(s.mod)) \o B(neg, has_fneg(s.mod))
set_cb_ineg_src(lo, neg, s) == set_src_cb(lo, s) \o B(neg, s.mod = "INeg")
set_cb_bnot_src(lo, not, s) == set_src_cb(lo, s) \o B(not, s.mod = "BNot")

\* The three forms most operations have: the last source in a register, as a
\* short immediate or in a constant buffer.
Form(s, reg, imm, cb) ==
  CASE s.k \in {"Zero", "Reg"} -> reg
    [] s.k = "Imm32" -> imm
    [] s.k = "CBuf" -> cb
    [] OTHER -> Panic
\* The same with the opcodes op, and float or plain source modifiers.
FForm(s, op, abs, neg) ==
  Form(s, set_opcode(op[1]) \o set_reg_fmod_src(20, abs, neg, s),
       set_opcode(op[2]) \o set_src_imm_f20(20, 56, s.v) \o Must(is_unmodified(s)),
       set_opcode(op[3]) \o set_cb_fmod_src(20, abs, neg, s))
\* Operand and opcode of a form without modifiers of its own.
RForm(s, op, imm) ==
  Form(s, set_opcode(op[1]) \o set_reg_src_ref(20, s), set_opcode(op[2]) \o imm,
       set_opcode(op[3]) \o set_src_cb(20, s))
f20(s) == set_src_imm_f20(20, 56, s.v)
i20(s) == set_src_imm_i20(20, 56, s.v)
unmod(l, k, ty) == copy_alu_src_if_not_reg(l, k, ty)

(***************************************************************************)
(* Floating point.                                                         *)
(***************************************************************************)
\* Mutated form: two modes in one number.
set_rnd_mode_shared(lo, m) ==
  T(lo, lo + 2, [NearestEven |-> 0, NegInf |-> 1, PosInf |-> 1, Zero |-> 3], m)
set_rnd_mode(lo, m) ==
  T(lo, lo + 2, [NearestEven |-> 0, NegInf |-> 1, PosInf |-> 2, Zero |-> 3], m)
\* A long immediate leaves no room for a rounding mode.
LongImm(l, k) ==
  CopyIf(Require(l, imm_unmodified(l.s[k])), k, "F32",
         as_imm_not_f20(l.s[k]) /\ l.a.rnd_mode # "NearestEven")
RegFirst(l, ty) == copy_alu_src_if_not_reg(swap_srcs_if_not_reg(l, 1, 2), 1, ty)
NoFabs(l, n, ty) ==
  Through(LAMBDA m, k : copy_alu_src_if_fabs(m, k, ty), l, [k \in 1..n |-> k])
HasFabs(i, n) == \E k \in 1..n : has_fabs(i.srcs[k].mod)
FNegMul(i) == has_fneg(i.srcs[1].mod) # has_fneg(i.srcs[2].mod)
FlipIfSwapped(l, flip(_)) ==
  IF swapped(l, 1, 2) THEN [l EXCEPT !.a.cmp_op = flip(@)] ELSE l

leg_FAdd(l) == LongImm(RegFirst(l, "F32"), 2)
enc_FAdd(i) ==
  LET x == i.srcs[1]  y == i.srcs[2] IN
  IF as_imm_not_f20(y)
  THEN Must(is_unmodified(y) /\ i.a.rnd_mode = "NearestEven")
       \o set_opcode(\h0800) \o set_dst(i.dsts[1]) \o set_reg_fmod_src(8, 54, 56, x)
       \o set_src_imm32(20, y.v) \o B(55, i.a.ftz)
  ELSE FForm(y, <<\h5c58, \h3858, \h4c58>>, 49, 45)
       \o set_dst(i.dsts[1]) \o set_reg_fmod_src(8, 46, 48, x)
       \o set_rnd_mode(39, i.a.rnd_mode) \o B(44, i.a.ftz) \o B(50, i.a.saturate)

leg_Fma(l, ty) ==
  LET m == copy_alu_src_if_f20_overflow(RegFirst(NoFabs(l, 3, ty), ty), 2, ty)
  IN  IF src_is_reg(m.s[2], "GPR") THEN copy_alu_src_if_imm(m, 3, ty)
                                   ELSE copy_alu_src_if_not_reg(m, 3, ty)
\* Multiply-add takes its constant buffer in the second or the third source.
FmaForm(i, op, cb) ==
  LET y == i.srcs[2]  z == i.srcs[3] IN
  Must(~HasFabs(i, 3))
  \o Form(z, RForm(y, op, f20(y)) \o set_reg_src_ref(39, z), Panic,
          set_opcode(cb) \o set_src_cb(20, z) \o set_reg_src_ref(39, y))
  \o set_dst(i.dsts[1]) \o set_reg_src_ref(8, i.srcs[1])
  \o B(48, FNegMul(i)) \o B(49, has_fneg(z.mod))
leg_FFma(l) == leg_Fma(l, "F32")
enc_FFma(i) ==
  FmaForm(i, <<\h5980, \h3280, \h4980>>, \h5180) \o B(50, i.a.saturate)
  \o set_rnd_mode(51, i.a.rnd_mode) \o B(53, i.a.ftz) \o B(54, i.a.dnz)

leg_FMnMx(l) == copy_alu_src_if_f20_overflow(RegFirst(l, "F32"), 2, "F32")
enc_FMnMx(i) ==
  FForm(i.srcs[2], <<\h5c60, \h3860, \h4c60>>, 49, 45)
  \o set_reg_fmod_src(8, 46, 48, i.srcs[1]) \o set_dst(i.dsts[1])
  \o set_pred_src(39, 42, i.srcs[3]) \o B(44, i.a.ftz)

leg_FMul(l) == LongImm(RegFirst(NoFabs(l, 2, "F32"), "F32"), 2)
enc_FMul(i) ==
  LET y == i.srcs[2] IN
  Must(~HasFabs(i, 2) /\ imm_unmodified(y))
  \o (IF as_imm_not_f20(y)
      THEN set_opcode(\h1e00) \o B(53, i.a.ftz) \o B(54, i.a.dnz) \o B(55, i.a.saturate)
           \o Must(i.a.rnd_mode = "NearestEven")
           \o set_src_imm32(20, IF FNegMul(i) THEN Xor2(y.v, {31}) ELSE y.v)
      ELSE Form(y, set_opcode(\h5c68) \o set_reg_src(20, y),
                set_opcode(\h3868) \o f20(y), set_opcode(\h4c68) \o set_src_cb(20, y))
           \o set_rnd_mode(39, i.a.rnd_mode) \o N(41, 44, 0) \o B(44, i.a.ftz)
           \o B(45, i.a.dnz) \o B(48, FNegMul(i)) \o B(50, i.a.saturate))
  \o set_reg_src_ref(8, i.srcs[1]) \o set_dst(i.dsts[1])

leg_Rro(l) == copy_alu_src_if_f20_overflow(l, 1, "F32")
enc_Rro(i) ==
  FForm(i.srcs[1], <<\h5c90, \h3890, \h4c90>>, 49, 45) \o set_dst(i.dsts[1])
  \o T(39, 40, [SinCos |-> 0, Exp2 |-> 1], i.a.op)

leg_MuFu(l) == copy_alu_src_if_not_reg(l, 1, "GPR")
enc_MuFu(i) ==
  set_opcode(\h5080) \o set_dst(i.dsts[1]) \o set_reg_fmod_src(8, 46, 48, i.srcs[1])
  \o T(20, 24, [Cos |-> 0, Sin |-> 1, Exp2 |-> 2, Log2 |-> 3, Rcp |-> 4, Rsq |-> 5,
                Rcp64H |-> 6, Rsq64H |-> 7, Sqrt |-> 8], i.a.op)
  \o Must(i.a.op = "Sqrt" => SM >= 52)

set_float_cmp_op(lo, c) ==
  T(lo, lo + 4, [OrdLt |-> 1, OrdEq |-> 2, OrdLe |-> 3, OrdGt |-> 4, OrdNe |-> 5,
                 OrdGe |-> 6, UnordLt |-> 9, UnordEq |-> 10, UnordLe |-> 11,
                 UnordGt |-> 12, UnordNe |-> 13, UnordGe |-> 14, IsNum |-> 7,
                 IsNan |-> 8], c)
set_pred_set_op(lo, op) == T(lo, lo + 2, [And |-> 0, Or |-> 1, Xor |-> 2], op)
set_int_cmp_op(lo, c) ==
  T(lo, lo + 3, [False |-> 0, Lt |-> 1, Eq |-> 2, Le |-> 3, Gt |-> 4, Ne |-> 5,
                 Ge |-> 6, True |-> 7], c)

leg_FSet(l) == leg_FMnMx(FlipIfSwapped(l, float_flip))
enc_FSet(i) ==
  LET y == i.srcs[2] IN
  Form(y, set_opcode(\h5800) \o set_reg_fmod_src(20, 44, 53, y),
       set_opcode(\h3000) \o f20(y) \o Must(is_unmodified(y)),
       set_opcode(\h4800) \o set_cb_fmod_src(20, 44, 6, y))
  \o set_reg_fmod_src(8, 54, 43, i.srcs[1]) \o set_pred_src(39, 42, True)
  \o set_float_cmp_op(48, i.a.cmp_op) \o B(52, TRUE) \o B(55, i.a.ftz)
  \o set_dst(i.dsts[1])

leg_FSetP(l) == leg_FMnMx(FlipIfSwapped(l, float_flip))
enc_FSetP(i) ==
  FForm(i.srcs[2], <<\h5bb0, \h36b0, \h4bb0>>, 44, 6)
  \o set_pred_dst(3, i.dsts[1]) \o set_pred_dst(0, DstNone)
  \o set_reg_fmod_src(8, 7, 43, i.srcs[1]) \o set_pred_src(39, 42, i.srcs[3])
  \o set_pred_set_op(45, i.a.set_op) \o B(47, i.a.ftz)
  \o set_float_cmp_op(48, i.a.cmp_op)

leg_FSwzAdd(l) == unmod(unmod(l, 1, "GPR"), 2, "GPR")
set_tex_ndv(bit, mode) ==
  Must(mode \in {"Auto", "NonDivergent"}) \o B(bit, mode = "NonDivergent")
enc_FSwzAdd(i) ==
  set_opcode(\h50f8) \o set_dst(i.dsts[1]) \o set_reg_src(8, i.srcs[1])
  \o set_reg_src(20, i.srcs[2]) \o set_rnd_mode(39, i.a.rnd_mode)
  \o FlattenSeq([k \in 1..4 |->
       T(26 + 2 * k, 28 + 2 * k,
         [Add |-> 0, SubLeft |-> 1, SubRight |-> 2, MoveLeft |-> 3], i.a.ops[k])])
  \o set_tex_ndv(38, i.a.deriv_mode) \o B(44, i.a.ftz) \o B(47, FALSE)

leg_DAdd(l) == copy_alu_src_if_f20_overflow(RegFirst(l, "F64"), 2, "F64")
enc_DAdd(i) ==
  FForm(i.srcs[2], <<\h5c70, \h3870, \h4c70>>, 49, 45) \o set_dst(i.dsts[1])
  \o set_reg_fmod_src(8, 46, 48, i.srcs[1]) \o set_rnd_mode(39, i.a.rnd_mode)

leg_DFma(l) == leg_Fma(l, "F64")
enc_DFma(i) == FmaForm(i, <<\h5b70, \h3670, \h4b70>>, \h5370)
               \o set_rnd_mode(50, i.a.rnd_mode)

leg_DMnMx(l) == leg_DAdd(l)
enc_DMnMx(i) ==
  FForm(i.srcs[2], <<\h5c50, \h3850, \h4c50>>, 49, 45)
  \o set_reg_fmod_src(8, 46, 48, i.srcs[1]) \o set_dst(i.dsts[1])
  \o set_pred_src(39, 42, i.srcs[3])

leg_DMul(l) ==
  copy_alu_src_if_f20_overflow(RegFirst(NoFabs(l, 2, "F64"), "F64"), 2, "F64")
enc_DMul(i) ==
  Must(~HasFabs(i, 2)) \o RForm(i.srcs[2], <<\h5c80, \h3880, \h4c80>>, f20(i.srcs[2]))
  \o set_dst(i.dsts[1]) \o set_reg_src_ref(8, i.srcs[1])
  \o set_rnd_mode(39, i.a.rnd_mode) \o B(48, FNegMul(i))

leg_DSetP(l) == leg_DAdd(FlipIfSwapped(l, float_flip))
\* The constant buffer form writes the buffer as a register, which panics.
enc_DSetP(i) ==
  LET y == i.srcs[2] IN
  Form(y, set_opcode(\h5b80) \o set_reg_fmod_src(20, 44, 6, y),
       set_opcode(\h3680) \o f20(y) \o Must(is_unmodified(y)),
       set_opcode(\h4b80) \o set_reg_fmod_src(20, 44, 6, y))
  \o set_pred_dst(3, i.dsts[1]) \o set_pred_dst(0, DstNone)
  \o set_pred_src(39, 42, i.srcs[3]) \o set_pred_set_op(45, i.a.set_op)
  \o set_float_cmp_op(48, i.a.cmp_op) \o set_reg_fmod_src(8, 7, 43, i.srcs[1])

(***************************************************************************)
(* Integers.                                                               *)
(***************************************************************************)
leg_Bfe(l) == copy_alu_src_if_not_reg(l, 1, "ALU")
enc_Bfe(i) ==
  LET y == i.srcs[2] IN
  Form(y, set_opcode(\h5c00) \o set_reg_src(20, y),
       set_opcode(\h3800) \o set_src_imm_i20(20, 56, y.v \cap 0..15),
       set_opcode(\h4c00) \o set_src_cb(20, y))
  \o (IF i.a.signed THEN B(48, TRUE) ELSE <<>>)
  \o (IF i.a.reverse THEN B(40, TRUE) ELSE <<>>)
  \o set_reg_src(8, i.srcs[1]) \o set_dst(i.dsts[1])

leg_Flo(l) == copy_alu_src_if_i20_overflow(l, 1, "ALU")
enc_Flo(i) ==
  RForm(i.srcs[1], <<\h5c30, \h3830, \h4c30>>,
        i20(i.srcs[1]) \o Must(is_unmodified(i.srcs[1])))
  \o set_dst(i.dsts[1]) \o B(40, i.srcs[1].mod = "BNot") \o B(48, i.a.signed)
  \o B(41, i.a.return_shift_amount) \o B(47, FALSE)

\* Both operands negated would encode as "plus one": the first is negated by
\* an addition of its own.
leg_IAdd2(l) ==
  LET m == swap_srcs_if_not_reg(l, 1, 2)
      both == m.s[1].mod = "INeg" /\ m.s[2].mod = "INeg"
      carry == m.dsts[2].k # "None"
      n == IF both THEN copy_alu_src_and_lower_ineg(Require(m, ~carry), 1) ELSE m
      p == copy_alu_src_if_not_reg(n, 1, "I32")
  IN  IF carry THEN copy_alu_src_if_ineg_imm(p, 2) ELSE p
CarryOut(d) == Must(d.k = "None" \/ (d.k = "Reg" /\ d.f = "Carry"))
\* IADD and IADD.X have the same layout; the modifier bits mean a negation in
\* one and a complement in the other.
IAddForm(i, x, m) ==
  LET p == i.srcs[1]  y == i.srcs[2]
      carry == i.dsts[2].k = "Reg"
  IN  CarryOut(i.dsts[2]) \o Must(imm_unmodified(y))
      \o (IF as_imm_not_i20(y)
          THEN set_opcode(\h1c00) \o set_dst(i.dsts[1]) \o set_reg_src_ref(8, p)
               \o B(56, p.mod = m) \o set_src_imm32(20, y.v) \o B(52, carry) \o B(53, x)
          ELSE RForm(y, <<\h5c10, \h3810, \h4c10>>, i20(y) \o Must(is_unmodified(y)))
               \o (IF y.k = "Imm32" THEN <<>> ELSE B(48, y.mod = m))
               \o set_dst(i.dsts[1]) \o set_reg_src_ref(8, p) \o B(49, p.mod = m)
               \o B(43, x) \o B(47, carry))
enc_IAdd2(i) ==
  Must(is_unmodified(i.srcs[1]) \/ is_unmodified(i.srcs[2]))
  \o IAddForm(i, FALSE, "INeg")

leg_IAdd2X(l) == RegFirst(l, "I32")
enc_IAdd2X(i) == Must(i.srcs[3].k = "Reg" /\ i.srcs[3].f = "Carry")
                 \o IAddForm(i, TRUE, "BNot")

leg_IMad(l) ==
  LET m == copy_alu_src_if_i20_overflow(RegFirst(l, "ALU"), 2, "ALU")
  IN  IF src_is_reg(m.s[2], "GPR") THEN copy_alu_src_if_imm(m, 3, "ALU")
                                   ELSE copy_alu_src_if_not_reg(m, 3, "ALU")
enc_IMad(i) ==
  LET y == i.srcs[2]  z == i.srcs[3] IN
  Form(z, RForm(y, <<\h5a00, \h3400, \h4a00>>, i20(y)) \o set_reg_src_ref(39, z), Panic,
       set_opcode(\h5200) \o set_src_cb(20, z) \o set_reg_src_ref(39, y))
  \o set_dst(i.dsts[1]) \o set_reg_src(8, i.srcs[1]) \o B(48, i.a.signed)
  \o B(51, (i.srcs[1].mod = "INeg") # (y.mod = "INeg")) \o B(52, z.mod = "INeg")
  \o B(53, i.a.signed)

leg_IMul(l) ==
  RegFirst(IF swapped(l, 1, 2)
           THEN [l EXCEPT !.a.signed = <<@[2], @[1]>>] ELSE l, "ALU")
enc_IMul(i) ==
  LET y == i.srcs[2] IN
  Must(is_unmodified(i.srcs[1]) /\ is_unmodified(y))
  \o (IF as_imm_not_i20(y)
      THEN set_opcode(\h1fc0) \o set_src_imm32(20, y.v) \o B(53, i.a.high)
           \o B(54, i.a.signed[1]) \o B(55, i.a.signed[2])
      ELSE RForm(y, <<\h5c38, \h3838, \h4c38>>, i20(y)) \o B(39, i.a.high)
           \o B(40, i.a.signed[1]) \o B(41, i.a.signed[2]))
  \o set_dst(i.dsts[1]) \o set_reg_src(8, i.srcs[1])

leg_IMnMx(l) == copy_alu_src_if_i20_overflow(RegFirst(l, "ALU"), 2, "ALU")
\* The integer forms whose last source takes no modifier in a register.
IForm(y, op) ==
  Form(y, set_opcode(op[1]) \o set_reg_src(20, y),
       set_opcode(op[2]) \o i20(y) \o Must(is_unmodified(y)),
       set_opcode(op[3]) \o set_src_cb(20, y))
enc_IMnMx(i) ==
  IForm(i.srcs[2], <<\h5c20, \h3820, \h4c20>>) \o set_dst(i.dsts[1])
  \o set_reg_src(8, i.srcs[1]) \o set_pred_src(39, 42, i.srcs[3]) \o B(47, FALSE)
  \o B(48, i.a.cmp_type = "I32")

leg_ISetP(l) == leg_IMnMx(FlipIfSwapped(l, int_flip))
enc_ISetP(i) ==
  IForm(i.srcs[2], <<\h5b60, \h3660, \h4b60>>)
  \o set_pred_dst(0, DstNone) \o set_pred_dst(3, i.dsts[1])
  \o set_reg_src(8, i.srcs[1]) \o set_pred_src(39, 42, i.srcs[3])
  \o Must(~i.a.ex) \o B(43, i.a.ex) \o set_pred_set_op(45, i.a.set_op)
  \o B(48, i.a.cmp_type = "I32") \o set_int_cmp_op(49, i.a.cmp_op)

leg_Lop2(l) ==
  IF l.a.op = "PassB"
  THEN copy_alu_src_if_i20_overflow([l EXCEPT !.s[1] = Zero], 2, "ALU")
  ELSE RegFirst(l, "ALU")
enc_Lop2(i) ==
  LET x == i.srcs[1]  y == i.srcs[2] IN
  Must(imm_unmodified(y))
  \o (IF as_imm_not_i20(y)
      THEN set_opcode(\h0400) \o set_dst(i.dsts[1]) \o set_reg_bnot_src(8, 55, x)
           \o set_src_imm32(20, y.v) \o T(53, 55, [And |-> 0, Or |-> 1, Xor |-> 2], i.a.op)
           \o B(56, y.mod = "BNot")
      ELSE Form(y, set_opcode(\h5c40) \o set_reg_bnot_src(20, 40, y),
                set_opcode(\h3840) \o i20(y) \o Must(is_unmodified(y)),
                set_opcode(\h4c40) \o set_cb_bnot_src(20, 40, y))
           \o set_dst(i.dsts[1]) \o set_reg_bnot_src(8, 39, x)
           \o T(41, 43, [And |-> 0, Or |-> 1, Xor |-> 2, PassB |-> 3], i.a.op)
           \o set_pred_dst(48, DstNone))

leg_PopC(l) == copy_alu_src_if_i20_overflow(l, 1, "ALU")
enc_PopC(i) ==
  LET x == i.srcs[1] IN
  RForm(x, <<\h5c08, \h3808, \h4c08>>, i20(x)) \o B(40, x.mod = "BNot")
  \o set_dst(i.dsts[1])

\* Shifts wrap or saturate at the width; so does an immediate amount.
ReduceShift(l, k, wrap, bits) ==
  LET s == l.s[k]
      v == IF wrap THEN s.v \cap 0..(IF bits = 64 THEN 5 ELSE 4)
           ELSE IF LessU(s.v, Bits(bits)) THEN s.v ELSE Bits(bits)
  IN  IF s.k = "Imm32" THEN [Require(l, is_unmodified(s)) EXCEPT !.s[k].v = v] ELSE l

leg_Shf(l) ==
  ReduceShift(copy_alu_src_if_not_reg_or_imm(
                copy_alu_src_if_not_reg(copy_alu_src_if_not_reg(l, 2, "ALU"), 1, "GPR"),
                3, "GPR"),
              3, l.a.wrap, type_bits(l.a.data_type))
enc_Shf(i) ==
  LET sh == i.srcs[3] IN
  Form(sh, set_opcode(IF i.a.right THEN \h5cf8 ELSE \h5bf8) \o set_reg_src(20, sh),
       set_opcode(IF i.a.right THEN \h38f8 ELSE \h36f8) \o i20(sh)
       \o Must(is_unmodified(sh)), Panic)
  \o T(37, 39, [I32 |-> 0, U32 |-> 0, U64 |-> 2, I64 |-> 3], i.a.data_type)
  \o set_dst(i.dsts[1]) \o set_reg_src(8, i.srcs[1]) \o set_reg_src(39, i.srcs[2])
  \o B(47, FALSE) \o Must(i.a.right \/ i.a.dst_high)
  \o B(48, i.a.dst_high /\ i.a.right) \o B(49, FALSE) \o B(50, i.a.wrap)

ShiftForm(i, op) ==
  LET sh == i.srcs[2] IN
  set_dst(i.dsts[1]) \o set_reg_src(8, i.srcs[1])
  \o Form(sh, set_opcode(op[1]) \o set_reg_src(20, sh), set_opcode(op[2]) \o i20(sh),
          set_opcode(op[3]) \o set_src_cb(20, sh))
  \o B(39, i.a.wrap)
leg_Shl(l) == ReduceShift(copy_alu_src_if_not_reg(l, 1, "GPR"), 2, l.a.wrap, 32)
enc_Shl(i) == ShiftForm(i, <<\h5c48, \h3848, \h4c48>>)
leg_Shr(l) == ReduceShift(copy_alu_src_if_not_reg(l, 1, "GPR"), 2, l.a.wrap, 32)
enc_Shr(i) == ShiftForm(i, <<\h5c28, \h3828, \h4c28>>) \o B(48, i.a.signed)

(***************************************************************************)
(* Conversions and moves.                                                  *)
(***************************************************************************)
Log2Bytes(t) == CASE type_bits(t) = 8 -> 0 [] type_bits(t) = 16 -> 1
                  [] type_bits(t) = 32 -> 2 [] type_bits(t) = 64 -> 3
\* No conversion between 16 and 64 bits.
set_types(i) ==
  LET d == type_bits(i.a.dst_type)  s == type_bits(i.a.src_type) IN
  Must((d <= 32 /\ s <= 32) \/ (d >= 32 /\ s >= 32))
  \o N(8, 10, Log2Bytes(i.a.dst_type)) \o N(10, 12, Log2Bytes(i.a.src_type))

leg_F2F(l) == copy_alu_src_if_f20_overflow(l, 1, "ALU")
\* The immediate is checked as a short float and written as a short integer.
enc_F2F(i) ==
  LET x == i.srcs[1] IN
  Form(x, set_opcode(\h5ca8) \o set_reg_fmod_src(20, 49, 45, x),
       set_opcode(\h38a8) \o i20(x) \o Must(is_unmodified(x)),
       set_opcode(\h4ca8) \o set_cb_fmod_src(20, 49, 45, x))
  \o set_types(i) \o set_rnd_mode(39, i.a.rnd_mode) \o B(41, FALSE)
  \o B(42, i.a.integer_rnd) \o B(44, i.a.ftz) \o B(50, FALSE) \o set_dst(i.dsts[1])

leg_F2I(l) == copy_alu_src_if_f20_overflow(l, 1, "ALU")
enc_F2I(i) ==
  FForm(i.srcs[1], <<\h5cb0, \h38b0, \h4cb0>>, 49, 45) \o set_dst(i.dsts[1])
  \o set_types(i) \o B(12, is_signed(i.a.dst_type)) \o set_rnd_mode(39, i.a.rnd_mode)
  \o B(41, FALSE) \o B(44, i.a.ftz) \o B(47, FALSE)

leg_I2F(l) == copy_alu_src_if_i20_overflow(l, 1, "ALU")
enc_I2F(i) ==
  LET x == i.srcs[1] IN
  Form(x, set_opcode(\h5cb8) \o set_reg_ineg_src(20, 45, x),
       set_opcode(\h38b8) \o i20(x) \o Must(is_unmodified(x)),
       set_opcode(\h4cb8) \o set_cb_ineg_src(20, 45, x))
  \o set_dst(i.dsts[1]) \o set_types(i) \o B(13, is_signed(i.a.src_type))
  \o set_rnd_mode(39, i.a.rnd_mode) \o N(41, 43, 0) \o B(49, FALSE)

leg_I2I(l) == copy_alu_src_if_i20_overflow(l, 1, "ALU")
enc_I2I(i) ==
  LET x == i.srcs[1] IN
  Form(x, set_opcode(\h5ce0) \o set_reg_src(20, x), set_opcode(\h38e0) \o i20(x),
       set_opcode(\h4ce0) \o set_src_cb(20, x))
  \o set_dst(i.dsts[1]) \o set_types(i) \o B(12, is_signed(i.a.dst_type))
  \o B(13, is_signed(i.a.src_type)) \o N(41, 43, 0) \o B(45, i.a.neg) \o B(47, FALSE)
  \o B(49, i.a.abs) \o B(50, i.a.saturate)

leg_Mov(l) == l
enc_Mov(i) ==
  LET x == i.srcs[1]  q == i.a.quad_lanes IN
  Form(x, set_opcode(\h5c98) \o set_reg_src(20, x) \o N(39, 43, q),
       set_opcode(\h0100) \o set_src_imm32(20, x.v) \o N(12, 16, q),
       set_opcode(\h4c98) \o set_src_cb(20, x) \o N(39, 43, q))
  \o set_dst(i.dsts[1])

reduce_sel_imm(l) ==
  IF l.s[3].k = "Imm32"
  THEN [Require(l, is_unmodified(l.s[3])) EXCEPT !.s[3].v = @ \cap 0..15] ELSE l
leg_Prmt(l) == reduce_sel_imm(unmod(unmod(l, 1, "GPR"), 2, "GPR"))
enc_Prmt(i) ==
  LET sel == i.srcs[3] IN
  Form(sel, set_opcode(\h5bc0) \o set_reg_src(20, sel), set_opcode(\h36c0) \o i20(sel),
       set_opcode(\h4bc0) \o set_src_cb(20, sel))
  \o set_dst(i.dsts[1]) \o set_reg_src(8, i.srcs[1]) \o set_reg_src(39, i.srcs[2])
  \o T(48, 51, [Index |-> 0, Forward4Extract |-> 1, Backward4Extract |-> 2,
                Replicate8 |-> 3, EdgeClampLeft |-> 4, EdgeClampRight |-> 5,
                Replicate16 |-> 6], i.a.mode)

\* Exchanging the operands of a select inverts its condition.
leg_Sel(l) ==
  LET m == IF swapped(l, 2, 3)
           THEN [swap_srcs_if_not_reg(l, 2, 3) EXCEPT !.s[1].mod = bnot(@)] ELSE l
  IN  copy_alu_src_if_i20_overflow(copy_alu_src_if_not_reg(m, 2, "ALU"), 3, "ALU")
enc_Sel(i) ==
  RForm(i.srcs[3], <<\h5ca0, \h38a0, \h4ca0>>, i20(i.srcs[3])) \o set_dst(i.dsts[1])
  \o set_reg_src(8, i.srcs[2]) \o set_pred_src(39, 42, i.srcs[1])

reduce_lane_c_imm(l) ==
  LET Keep(s, bits) == IF s.k = "Imm32" THEN [s EXCEPT !.v = @ \cap bits] ELSE s
  IN  [Require(l, is_unmodified(l.s[2]) /\ is_unmodified(l.s[3]))
         EXCEPT !.s[2] = Keep(@, 0..4), !.s[3] = Keep(@, 0..4 \cup 8..12)]
leg_Shfl(l) ==
  reduce_lane_c_imm(copy_alu_src_if_not_reg_or_imm(
    copy_alu_src_if_not_reg_or_imm(unmod(l, 1, "GPR"), 2, "ALU"), 3, "ALU"))
enc_Shfl(i) ==
  LET lane == i.srcs[2]  c == i.srcs[3] IN
  set_opcode(\hef10) \o set_dst(i.dsts[1]) \o set_pred_dst(48, i.dsts[2])
  \o set_reg_src(8, i.srcs[1])
  \o Form(lane, B(28, FALSE) \o set_reg_src(20, lane), B(28, TRUE) \o F(20, 25, lane.v), Panic)
  \o Form(c, B(29, FALSE) \o set_reg_src(39, c), B(29, TRUE) \o F(34, 47, c.v), Panic)
  \o T(30, 32, [Idx |-> 0, Up |-> 1, Down |-> 2, Bfly |-> 3], i.a.op)

leg_PSetP(l) == l
enc_PSetP(i) ==
  set_opcode(\h5090) \o set_pred_dst(3, i.dsts[1]) \o set_pred_dst(0, i.dsts[2])
  \o set_pred_src(12, 15, i.srcs[1]) \o set_pred_src(29, 32, i.srcs[2])
  \o set_pred_src(39, 42, i.srcs[3]) \o set_pred_set_op(24, i.a.ops[1])
  \o set_pred_set_op(45, i.a.ops[2])

(***************************************************************************)
(* Textures and images.                                                    *)
(***************************************************************************)
set_tex_dim(lo, d) ==
  T(lo, lo + 3, [_1D |-> 0, Array1D |-> 1, _2D |-> 2, Array2D |-> 3, _3D |-> 4,
                 Cube |-> 6, ArrayCube |-> 7], d)
set_tex_lod_mode(lo, m) ==
  T(lo, lo + 2, [Auto |-> 0, Zero |-> 1, Bias |-> 2, Lod |-> 3], m)
set_tex_channel_mask(lo, mask) == F(lo, lo + 4, mask)
\* The second source is optional: the zero register stands for none.
legalize_tex_instr(l) ==
  Require(l, /\ l.s[1].k = "SSA"
             /\ Len(l.s) > 1 => l.s[2].k \in {"SSA", "Zero"})
\* A bound texture has an index, a bindless one a handle in the sources.
TexForm(t, op, bound, bindless) ==
  CASE t.k = "Bound" -> set_opcode(op[1]) \o F(36, 49, t.v) \o bound
    [] t.k = "Bindless" -> set_opcode(op[2]) \o bindless
    [] t.k = "CBuf" -> Panic
TexOperands(i) ==
  set_dst(i.dsts[1]) \o Must(\A k \in 2..Len(i.dsts) : i.dsts[k].k = "None")
  \o set_reg_src(8, i.srcs[1])
  \o (IF Len(i.srcs) > 1 THEN set_reg_src(20, i.srcs[2]) ELSE <<>>)
Off(i) == i.a.offset_mode = "AddOffI"

leg_Tex(l) == legalize_tex_instr(l)
enc_Tex(i) ==
  TexForm(i.a.tex, <<\hc038, \hdeb8>>, B(54, Off(i)) \o set_tex_lod_mode(55, i.a.lod_mode),
          B(36, Off(i)) \o set_tex_lod_mode(37, i.a.lod_mode))
  \o TexOperands(i) \o set_tex_dim(28, i.a.dim)
  \o set_tex_channel_mask(31, i.a.channel_mask) \o set_tex_ndv(35, i.a.deriv_mode)
  \o B(49, i.a.nodep) \o B(50, i.a.z_cmpr)

leg_Tld(l) == legalize_tex_instr(l)
enc_Tld(i) ==
  TexForm(i.a.tex, <<\hdc38, \hdd38>>, <<>>, <<>>) \o TexOperands(i)
  \o set_tex_dim(28, i.a.dim) \o set_tex_channel_mask(31, i.a.channel_mask)
  \o B(35, Off(i)) \o B(49, i.a.nodep) \o B(50, i.a.is_ms)
  \o Must(i.a.lod_mode \in {"Zero", "Lod"}) \o B(55, i.a.lod_mode = "Lod")

leg_Tld4(l) == legalize_tex_instr(l)
enc_Tld4(i) ==
  LET Offset(lo) == T(lo, lo + 2, [None |-> 0, AddOffI |-> 1, PerPx |-> 2], i.a.offset_mode)
  IN  TexForm(i.a.tex, <<\hc838, \hdef8>>, Offset(54) \o N(56, 58, i.a.comp),
              Offset(36) \o N(38, 40, i.a.comp))
      \o TexOperands(i) \o set_tex_dim(28, i.a.dim)
      \o set_tex_channel_mask(31, i.a.channel_mask) \o B(35, FALSE)
      \o B(49, i.a.nodep) \o B(50, i.a.z_cmpr)

leg_Tmml(l) == legalize_tex_instr(l)
enc_Tmml(i) ==
  TexForm(i.a.tex, <<\hdf58, \hdf60>>, <<>>, <<>>) \o TexOperands(i)
  \o set_tex_dim(28, i.a.dim) \o set_tex_channel_mask(31, i.a.channel_mask)
  \o set_tex_ndv(35, i.a.deriv_mode) \o B(49, i.a.nodep)

leg_Txd(l) == legalize_tex_instr(l)
enc_Txd(i) ==
  TexForm(i.a.tex, <<\hde38, \hde78>>, <<>>, <<>>) \o TexOperands(i)
  \o set_tex_dim(28, i.a.dim) \o set_tex_channel_mask(31, i.a.channel_mask)
  \o B(35, Off(i)) \o B(49, i.a.nodep)

leg_Txq(l) == legalize_tex_instr(l)
enc_Txq(i) ==
  TexForm(i.a.tex, <<\hdf48, \hdf50>>, <<>>, <<>>) \o TexOperands(i)
  \o T(22, 28, [Dimension |-> 1, TextureType |-> 2, SamplerPos |-> 5], i.a.query)
  \o set_tex_channel_mask(31, i.a.channel_mask) \o B(49, i.a.nodep)

(***************************************************************************)
(* Memory.                                                                 *)
(***************************************************************************)
\* A signed value in two's complement.
S(lo, hi, n) ==
  IF n >= 0 THEN F(lo, hi, Bits(n)) \o Must(n < 2^(hi - lo - 1))
  ELSE <<[lo |-> lo, hi |-> hi, v |-> (0..(hi - lo - 1)) \ Bits(-n - 1),
          ok |-> -n <= 2^(hi - lo - 1)]>>
set_mem_type(lo, t) ==
  T(lo, lo + 3, [U8 |-> 0, I8 |-> 1, U16 |-> 2, I16 |-> 3, B32 |-> 4, B64 |-> 5,
                 B128 |-> 6], t)
set_mem_access(i) == B(45, i.a.space = "GlobalA64") \o set_mem_type(48, i.a.mem_type)
set_ld_cache_op(lo, op) ==
  T(lo, lo + 2, [CacheAll |-> 0, CacheGlobal |-> 1, CacheIncoherent |-> 2,
                 CacheInvalidate |-> 3], op)
set_st_cache_op(lo, op) ==
  T(lo, lo + 2, [WriteBack |-> 0, CacheGlobal |-> 1, CacheStreaming |-> 2,
                 WriteThrough |-> 3], op)
set_image_dim(lo, d) ==
  T(lo, lo + 3, [_1D |-> 0, _1DBuffer |-> 1, _1DArray |-> 2, _2D |-> 3,
                 _2DArray |-> 4, _3D |-> 5], d)
set_image_access(x) ==
  B(52, x.k = "Binary")
  \o (IF x.k = "Binary" THEN set_mem_type(20, x.t)
      ELSE Must(x.m \in {{0}, {0, 1}, 0..3}) \o F(20, 24, x.m))

leg_SuLd(l) == legalize_ext_instr(l, OpSuLd.srcs)
enc_SuLd(i) ==
  set_opcode(\heb00) \o set_image_access(i.a.image_access) \o set_image_dim(33, i.a.image_dim)
  \o set_ld_cache_op(24, ld_cache_op("GlobalA64", i.a.mem_order)) \o set_dst(i.dsts[1])
  \o set_reg_src(8, i.srcs[2]) \o set_reg_src(39, i.srcs[1])

leg_SuSt(l) == legalize_ext_instr(l, OpSuSt.srcs)
enc_SuSt(i) ==
  set_opcode(\heb20) \o set_image_access(i.a.image_access)
  \o set_reg_src(8, i.srcs[2]) \o set_reg_src(0, i.srcs[3]) \o set_reg_src(39, i.srcs[1])
  \o set_st_cache_op(24, st_cache_op("GlobalA64", i.a.mem_order))
  \o set_image_dim(33, i.a.image_dim)

AtomOps == [Add |-> 0, Min |-> 1, Max |-> 2, Inc |-> 3, Dec |-> 4, And |-> 5, Or |-> 6,
            Xor |-> 7, Exch |-> 8]
set_atom_op(lo, hi, op) == T(lo, hi, AtomOps, op)
AtomTypes == [U32 |-> 0, I32 |-> 1, U64 |-> 2, F32 |-> 3, I64 |-> 5]
is_cmp_exch(op) == op \in {"CmpExchSeparate", "CmpExchPacked"}

leg_SuAtom(l) == legalize_ext_instr(l, OpSuAtom.srcs)
enc_SuAtom(i) ==
  (IF is_cmp_exch(i.a.atom_op)
   THEN set_opcode(\heac0) \o Must(i.a.atom_op = "CmpExchPacked")
   ELSE set_opcode(\hea60) \o set_atom_op(29, 33, i.a.atom_op))
  \o set_image_dim(33, i.a.image_dim) \o T(36, 39, AtomTypes, i.a.atom_type)
  \o B(52, TRUE) \o set_dst(i.dsts[1]) \o set_reg_src(20, i.srcs[3])
  \o set_reg_src(8, i.srcs[2]) \o set_reg_src(39, i.srcs[1])

Space(s, global, local, shared) ==
  set_opcode(CASE s = "Local" -> local [] s = "Shared" -> shared [] OTHER -> global)
leg_Ld(l) == legalize_ext_instr(l, OpLd.srcs)
enc_Ld(i) ==
  Must(i.a.stride = "X1" /\ as_bool(i.srcs[3]) = {TRUE})
  \o Space(i.a.space, \heed0, \hef40, \hef48) \o set_dst(i.dsts[1])
  \o set_reg_src(8, i.srcs[1]) \o S(20, 44, i.a.offset) \o set_mem_access(i)
  \o set_ld_cache_op(46, ld_cache_op(i.a.space, i.a.order))

leg_Ldc(l) == copy_alu_src_if_not_reg(l, 2, "GPR")
enc_Ldc(i) ==
  LET cb == i.srcs[1] IN
  Must(is_unmodified(cb) /\ cb.k = "CBuf") \o set_opcode(\hef90) \o set_dst(i.dsts[1])
  \o set_reg_src(8, i.srcs[2]) \o F(20, 36, cb.v) \o N(36, 41, cb.n)
  \o T(44, 46, [Indexed |-> 0, IndexedLinear |-> 1, IndexedSegmented |-> 2,
                IndexedSegmentedLinear |-> 3], i.a.mode)
  \o set_mem_type(48, i.a.mem_type)

leg_St(l) == legalize_ext_instr(l, OpSt.srcs)
enc_St(i) ==
  Must(i.a.stride = "X1") \o Space(i.a.space, \heed8, \hef50, \hef58)
  \o set_reg_src(0, i.srcs[2]) \o set_reg_src(8, i.srcs[1]) \o S(20, 44, i.a.offset)
  \o set_mem_access(i) \o set_st_cache_op(46, st_cache_op(i.a.space, i.a.order))

\* The operand of a compare and exchange: constants become zero values.
atom_src_as_ssa(l, k) ==
  LET w == IF type_bits(l.a.atom_type) = 32 THEN 1 ELSE 2
      val == SSA("GPR", l.n, w)
      m == copy_to([l EXCEPT !.s[k] = val, !.n = @ + w], Comp(val, 0), Zero)
  IN  IF l.s[k].k = "SSA" THEN l
      ELSE IF w = 1 THEN m ELSE copy_to(m, Comp(val, 1), Zero)
\* Compare and data are packed in one vector, whose components the model names
\* by the first.
leg_Atom(l) ==
  LET m == atom_src_as_ssa(atom_src_as_ssa(l, 3), 4)
      packed == [m EXCEPT !.s[4] = [m.s[3] EXCEPT !.n = @ + m.s[4].n], !.s[3] = Zero,
                          !.a.atom_op = "CmpExchPacked"]
  IN  legalize_ext_instr(IF l.a.atom_op = "CmpExchSeparate" THEN packed ELSE l, OpAtom.srcs)
GlobalAtom(i) ==
  (CASE i.dsts[1].k = "None" ->
          set_opcode(\hebf8) \o set_reg_src(0, i.srcs[4]) \o T(20, 23, AtomTypes, i.a.atom_type)
          \o set_atom_op(23, 26, i.a.atom_op)
     [] i.dsts[1].k # "None" /\ is_cmp_exch(i.a.atom_op) ->
          set_opcode(\hee00) \o set_dst(i.dsts[1])
          \o (CASE i.a.atom_op = "CmpExchPacked" -> set_reg_src(20, i.srcs[4]) \o N(50, 52, 0)
                [] is_zero(i.srcs[4]) -> set_reg_src(20, i.srcs[3]) \o N(50, 52, 1)
                [] OTHER -> Must(is_zero(i.srcs[3])) \o set_reg_src(20, i.srcs[4])
                            \o N(50, 52, 2))
          \o T(49, 50, [U32 |-> 0, U64 |-> 1], i.a.atom_type) \o N(52, 56, 15)
     [] OTHER ->
          set_opcode(\hed00) \o set_dst(i.dsts[1]) \o set_reg_src(20, i.srcs[4])
          \o T(49, 52, AtomTypes, i.a.atom_type) \o set_atom_op(52, 56, i.a.atom_op))
  \o set_reg_src(8, i.srcs[1]) \o S(28, 48, i.a.addr_offset)
  \o B(48, i.a.mem_space = "GlobalA64")
SharedAtom(i) ==
  (IF is_cmp_exch(i.a.atom_op)
   THEN set_opcode(\hee00) \o Must(i.a.atom_op = "CmpExchPacked" /\ is_zero(i.srcs[3]))
        \o set_reg_src(20, i.srcs[4]) \o T(52, 56, [U32 |-> 4, U64 |-> 5], i.a.atom_type)
   ELSE set_opcode(\hec00) \o set_reg_src(20, i.srcs[4])
        \o T(28, 30, [U32 |-> 0, I32 |-> 1, U64 |-> 2, I64 |-> 3], i.a.atom_type)
        \o Must(i.a.atom_type = "U64" => i.a.atom_op = "Exch")
        \o set_atom_op(52, 56, i.a.atom_op))
  \o set_dst(i.dsts[1]) \o set_reg_src(8, i.srcs[1]) \o Must(i.a.addr_offset % 4 = 0)
  \o S(30, 52, i.a.addr_offset \div 4)
enc_Atom(i) ==
  Must(i.a.addr_stride = "X1")
  \o (CASE i.a.mem_space = "Local" -> Panic [] i.a.mem_space = "Shared" -> SharedAtom(i)
        [] OTHER -> GlobalAtom(i))

leg_AL2P(l) == legalize_ext_instr(l, OpAL2P.srcs)
enc_AL2P(i) ==
  set_opcode(\hefa0) \o set_dst(i.dsts[1]) \o set_reg_src(8, i.srcs[1])
  \o N(20, 31, i.a.addr) \o B(32, i.a.output) \o N(47, 49, 0) \o set_pred_dst(44, DstNone)

leg_ALd(l) == legalize_ext_instr(l, OpALd.srcs)
enc_ALd(i) ==
  set_opcode(\hefd8) \o set_dst(i.dsts[1])
  \o Must(IF i.a.phys THEN ~i.a.patch /\ i.srcs[2].k = "Reg"
            ELSE i.a.patch \/ is_zero(i.srcs[2]))
  \o set_reg_src(8, i.srcs[2]) \o set_reg_src(39, i.srcs[1]) \o N(20, 30, i.a.addr)
  \o B(31, i.a.patch) \o B(32, i.a.output) \o N(47, 49, i.a.comps - 1)

leg_ASt(l) == legalize_ext_instr(l, OpASt.srcs)
enc_ASt(i) ==
  set_opcode(\heff0) \o set_reg_src(0, i.srcs[3]) \o set_reg_src(8, i.srcs[2])
  \o set_reg_src(39, i.srcs[1]) \o Must(~i.a.phys) \o N(20, 30, i.a.addr)
  \o B(31, i.a.patch) \o B(32, TRUE) \o N(47, 49, i.a.comps - 1)

leg_Ipa(l) == legalize_ext_instr(l, OpIpa.srcs)
enc_Ipa(i) ==
  set_opcode(\he000) \o set_dst(i.dsts[1]) \o set_reg_src(8, Zero)
  \o set_reg_src(20, i.srcs[1]) \o set_reg_src(39, i.srcs[2])
  \o Must(i.a.addr % 4 = 0) \o N(28, 38, i.a.addr) \o B(38, FALSE)
  \o set_pred_dst(47, DstNone) \o B(51, FALSE)
  \o T(52, 54, [Default |-> 0, Centroid |-> 1, Offset |-> 2], i.a.loc)
  \o T(54, 56, [Pass |-> 0, PassMulW |-> 1, Constant |-> 2, State |-> 3], i.a.freq)

leg_CCtl(l) == legalize_ext_instr(l, OpCCtl.srcs)
enc_CCtl(i) ==
  (CASE i.a.mem_space = "Local" -> Panic
     [] i.a.mem_space = "Shared" -> set_opcode(\hef80) \o S(22, 44, i.a.addr_offset \div 4)
     [] OTHER -> set_opcode(\hef60) \o S(22, 52, i.a.addr_offset \div 4)
                 \o B(52, i.a.mem_space = "GlobalA64"))
  \o Must(i.a.addr_offset % 4 = 0)
  \o T(0, 4, [Qry1 |-> 0, PF1 |-> 1, PF1_5 |-> 2, PF2 |-> 3, WB |-> 4, IV |-> 5,
              IVAll |-> 6, RS |-> 7, RSLB |-> 7], i.a.op)
  \o set_reg_src(8, i.srcs[1])

leg_MemBar(l) == l
enc_MemBar(i) ==
  set_opcode(\hef98) \o T(8, 10, [CTA |-> 0, GPU |-> 1, System |-> 2], i.a.scope)

(***************************************************************************)
(* Control flow.  e holds the address of the instruction and the addresses *)
(* of the labels.                                                          *)
(***************************************************************************)
set_rel_offset(e, target) == S(20, 44, e.labels[target] - e.ip - 8)
CcTrue == N(0, 5, 15)
enc_Bra(i, e) == set_opcode(\he240) \o set_rel_offset(e, i.a.target) \o CcTrue
enc_SSy(i, e) == set_opcode(\he290) \o set_rel_offset(e, i.a.target) \o CcTrue
enc_Sync(i) == set_opcode(\hf0f8) \o CcTrue
enc_Brk(i) == set_opcode(\he340) \o CcTrue
enc_PBk(i, e) == set_opcode(\he2a0) \o set_rel_offset(e, i.a.target) \o CcTrue
enc_Cont(i) == set_opcode(\he350) \o CcTrue
enc_PCnt(i, e) == set_opcode(\he2b0) \o set_rel_offset(e, i.a.target) \o CcTrue
enc_Exit(i) == set_opcode(\he300) \o N(0, 4, 15)
enc_Kill(i) == set_opcode(\he330) \o CcTrue
enc_Nop(i) == set_opcode(\h50b0) \o N(8, 12, 15)

enc_Bar(i) == set_opcode(\hf0a8) \o set_reg_src(8, Zero) \o N(35, 37, 0) \o N(32, 35, 0)
              \o set_pred_src(39, 42, True)
enc_CS2R(i) == set_opcode(\h50c8) \o set_dst(i.dsts[1]) \o N(20, 28, i.a.idx)
enc_S2R(i) == set_opcode(\hf0c8) \o set_dst(i.dsts[1]) \o N(20, 28, i.a.idx)
enc_Isberd(i) ==
  Must(i.a.access_type = "Map" /\ i.a.imm_offset = 0)
  \o set_opcode(\hefd0) \o set_dst(i.dsts[1]) \o set_reg_src(8, i.srcs[1])
enc_PixLd(i) ==
  set_opcode(\hefe8) \o set_dst(i.dsts[1]) \o set_reg_src(8, Zero)
  \o T(31, 34, [CovMask |-> 1, Covered |-> 2, Offset |-> 3, CentroidOffset |-> 4,
                MyIndex |-> 5], i.a.val)
  \o set_pred_dst(45, DstNone)
enc_Vote(i) ==
  set_opcode(\h50d8) \o set_dst(i.dsts[1]) \o set_pred_dst(45, i.dsts[2])
  \o set_pred_src(39, 42, i.srcs[1])
  \o T(48, 50, [All |-> 0, Any |-> 1, Eq |-> 2], i.a.op)
leg_Out(l) ==
  copy_alu_src_if_i20_overflow(copy_alu_src_if_not_reg(l, 1, "GPR"), 2, "ALU")
enc_Out(i) ==
  LET s == i.srcs[2] IN
  Form(s, set_opcode(\hfbe0) \o set_reg_src(20, s), set_opcode(\hf6e0) \o i20(s),
       set_opcode(\hebe0) \o set_src_cb(20, s))
  \o T(39, 41, [Emit |-> 1, Cut |-> 2, EmitThenCut |-> 3], i.a.out_type)
  \o set_reg_src(8, i.srcs[1]) \o set_dst(i.dsts[1])

(***************************************************************************)
(* Every operation the back end knows; any other panics in both passes.    *)
(***************************************************************************)
legalize_op(op, l) ==
  CASE op = "FAdd" -> leg_FAdd(l) [] op = "FFma" -> leg_FFma(l)
    [] op = "FMnMx" -> leg_FMnMx(l) [] op = "FMul" -> leg_FMul(l)
    [] op = "Rro" -> leg_Rro(l) [] op = "MuFu" -> leg_MuFu(l)
    [] op = "FSet" -> leg_FSet(l) [] op = "FSetP" -> leg_FSetP(l)
    [] op = "FSwzAdd" -> leg_FSwzAdd(l) [] op = "DAdd" -> leg_DAdd(l)
    [] op = "DFma" -> leg_DFma(l) [] op = "DMnMx" -> leg_DMnMx(l)
    [] op = "DMul" -> leg_DMul(l) [] op = "DSetP" -> leg_DSetP(l)
    [] op = "Bfe" -> leg_Bfe(l) [] op = "Flo" -> leg_Flo(l)
    [] op = "IAdd2" -> leg_IAdd2(l) [] op = "IAdd2X" -> leg_IAdd2X(l)
    [] op = "IMad" -> leg_IMad(l) [] op = "IMul" -> leg_IMul(l)
    [] op = "IMnMx" -> leg_IMnMx(l) [] op = "ISetP" -> leg_ISetP(l)
    [] op = "Lop2" -> leg_Lop2(l) [] op = "PopC" -> leg_PopC(l)
    [] op = "Shf" -> leg_Shf(l) [] op = "Shl" -> leg_Shl(l)
    [] op = "Shr" -> leg_Shr(l) [] op = "F2F" -> leg_F2F(l)
    [] op = "F2I" -> leg_F2I(l) [] op = "I2F" -> leg_I2F(l)
    [] op = "I2I" -> leg_I2I(l) [] op = "Mov" -> leg_Mov(l)
    [] op = "Prmt" -> leg_Prmt(l) [] op = "Sel" -> leg_Sel(l)
    [] op = "Shfl" -> leg_Shfl(l) [] op = "PSetP" -> leg_PSetP(l)
    [] op = "Tex" -> leg_Tex(l) [] op = "Tld" -> leg_Tld(l)
    [] op = "Tld4" -> leg_Tld4(l) [] op = "Tmml" -> leg_Tmml(l)
    [] op = "Txd" -> leg_Txd(l) [] op = "Txq" -> leg_Txq(l)
    [] op = "SuLd" -> leg_SuLd(l) [] op = "SuSt" -> leg_SuSt(l)
    [] op = "SuAtom" -> leg_SuAtom(l) [] op = "Ld" -> leg_Ld(l)
    [] op = "Ldc" -> leg_Ldc(l) [] op = "St" -> leg_St(l)
    [] op = "Atom" -> leg_Atom(l) [] op = "AL2P" -> leg_AL2P(l)
    [] op = "ALd" -> leg_ALd(l) [] op = "ASt" -> leg_ASt(l)
    [] op = "Ipa" -> leg_Ipa(l) [] op = "CCtl" -> leg_CCtl(l)
    [] op = "MemBar" -> leg_MemBar(l) [] op = "Out" -> leg_Out(l)
    [] op \in {"Bra", "SSy", "Sync", "Brk", "PBk", "Cont", "PCnt", "Exit", "Kill",
               "Nop", "Bar", "CS2R", "S2R", "Isberd", "PixLd", "Vote"} -> l
    [] OTHER -> Require(l, FALSE)
encode_op(i, e) ==
  CASE i.op = "FAdd" -> enc_FAdd(i) [] i.op = "FFma" -> enc_FFma(i)
    [] i.op = "FMnMx" -> enc_FMnMx(i) [] i.op = "FMul" -> enc_FMul(i)
    [] i.op = "Rro" -> enc_Rro(i) [] i.op = "MuFu" -> enc_MuFu(i)
    [] i.op = "FSet" -> enc_FSet(i) [] i.op = "FSetP" -> enc_FSetP(i)
    [] i.op = "FSwzAdd" -> enc_FSwzAdd(i) [] i.op = "DAdd" -> enc_DAdd(i)
    [] i.op = "DFma" -> enc_DFma(i) [] i.op = "DMnMx" -> enc_DMnMx(i)
    [] i.op = "DMul" -> enc_DMul(i) [] i.op = "DSetP" -> enc_DSetP(i)
    [] i.op = "Bfe" -> enc_Bfe(i) [] i.op = "Flo" -> enc_Flo(i)
    [] i.op = "IAdd2" -> enc_IAdd2(i) [] i.op = "IAdd2X" -> enc_IAdd2X(i)
    [] i.op = "IMad" -> enc_IMad(i) [] i.op = "IMul" -> enc_IMul(i)
    [] i.op = "IMnMx" -> enc_IMnMx(i) [] i.op = "ISetP" -> enc_ISetP(i)
    [] i.op = "Lop2" -> enc_Lop2(i) [] i.op = "PopC" -> enc_PopC(i)
    [] i.op = "Shf" -> enc_Shf(i) [] i.op = "Shl" -> enc_Shl(i)
    [] i.op = "Shr" -> enc_Shr(i) [] i.op = "F2F" -> enc_F2F(i)
    [] i.op = "F2I" -> enc_F2I(i) [] i.op = "I2F" -> enc_I2F(i)
    [] i.op = "I2I" -> enc_I2I(i) [] i.op = "Mov" -> enc_Mov(i)
    [] i.op = "Prmt" -> enc_Prmt(i) [] i.op = "Sel" -> enc_Sel(i)
    [] i.op = "Shfl" -> enc_Shfl(i) [] i.op = "PSetP" -> enc_PSetP(i)
    [] i.op = "Tex" -> enc_Tex(i) [] i.op = "Tld" -> enc_Tld(i)
    [] i.op = "Tld4" -> enc_Tld4(i) [] i.op = "Tmml" -> enc_Tmml(i)
    [] i.op = "Txd" -> enc_Txd(i) [] i.op = "Txq" -> enc_Txq(i)
    [] i.op = "SuLd" -> enc_SuLd(i) [] i.op = "SuSt" -> enc_SuSt(i)
    [] i.op = "SuAtom" -> enc_SuAtom(i) [] i.op = "Ld" -> enc_Ld(i)
    [] i.op = "Ldc" -> enc_Ldc(i) [] i.op = "St" -> enc_St(i)
    [] i.op = "Atom" -> enc_Atom(i) [] i.op = "AL2P" -> enc_AL2P(i)
    [] i.op = "ALd" -> enc_ALd(i) [] i.op = "ASt" -> enc_ASt(i)
    [] i.op = "Ipa" -> enc_Ipa(i) [] i.op = "CCtl" -> enc_CCtl(i)
    [] i.op = "MemBar" -> enc_MemBar(i) [] i.op = "Bra" -> enc_Bra(i, e)
    [] i.op = "SSy" -> enc_SSy(i, e) [] i.op = "Sync" -> enc_Sync(i)
    [] i.op = "Brk" -> enc_Brk(i) [] i.op = "PBk" -> enc_PBk(i, e)
    [] i.op = "Cont" -> enc_Cont(i) [] i.op = "PCnt" -> enc_PCnt(i, e)
    [] i.op = "Exit" -> enc_Exit(i) [] i.op = "Kill" -> enc_Kill(i)
    [] i.op = "Nop" -> enc_Nop(i) [] i.op = "Bar" -> enc_Bar(i)
    [] i.op = "CS2R" -> enc_CS2R(i) [] i.op = "S2R" -> enc_S2R(i)
    [] i.op = "Isberd" -> enc_Isberd(i) [] i.op = "PixLd" -> enc_PixLd(i)
    [] i.op = "Vote" -> enc_Vote(i) [] i.op = "Out" -> enc_Out(i)
    [] OTHER -> Panic
=============================================================================
