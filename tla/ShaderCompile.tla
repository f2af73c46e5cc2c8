--------------------------- MODULE ShaderCompile ---------------------------
(***************************************************************************)
(* A shader on its way from TGSI to Maxwell code: the lowering of          *)
(* userspace/sgfx-shader-maxwell/src/lower.rs for programs without         *)
(* branches, the passes of shared/sgfx-nak/src/api.rs in their order, one  *)
(* step each, and the metadata the kernel's verifier is given.             *)
(*                                                                         *)
(* A program has a stage, declarations and instructions.  Lanes are        *)
(* triples of a register file, an index and a component; every write of a  *)
(* lane makes a new SSA value, which is what repair_ssa leaves where       *)
(* control does not join.  Two things are not the source's: registers are  *)
(* given out first fit, with a parallel copy in front of every vector      *)
(* operand, and the two scheduling passes keep the order they are given.   *)
(***************************************************************************)
EXTENDS NakPasses, ProgramVerifier

(***************************************************************************)
(* From a TGSI instruction to the compiler's (alu.rs, texture.rs, lower.rs *)
(* and the helpers of shared/sgfx-nak/src/builder.rs below shader model    *)
(* 70).  Every call of a builder helper takes one fresh SSA value and      *)
(* pushes one instruction, so a lowering is a sequence of steps: the k-th  *)
(* defines the k-th fresh value, later steps name it V(k), and the result  *)
(* is the value of the last one.                                           *)
(***************************************************************************)
Step(op, f, srcs, a) == [op |-> op, f |-> f, srcs |-> srcs, a |-> a]
V(k) == SrcRef("Step", "GPR", {}, k)

\* The instructions of the steps, whose values are n, n+1, ...
push_op(n, steps) ==
  LET Val(k) == SSA(steps[k].f, n + k - 1, 1)
      Resolve(s) == IF s.k = "Step" THEN [Val(s.n) EXCEPT !.mod = s.mod] ELSE s
      Dsts(k) == IF steps[k].op \in {"IAdd2", "PSetP"} THEN <<Val(k), DstNone>> ELSE <<Val(k)>>
  IN  [k \in DOMAIN steps |->
         Instr(steps[k].op, Dsts(k), [j \in DOMAIN steps[k].srcs |-> Resolve(steps[k].srcs[j])],
               steps[k].a)]

With(s, m(_)) == [s EXCEPT !.mod = m(@)]

(***************************************************************************)
(* The builder.                                                            *)
(***************************************************************************)
lop2(op, x, y) == Step("Lop2", "GPR", <<x, y>>, [op |-> op])
lop2_pred(op, x, y) == Step("PSetP", "Pred", <<x, y, True>>, [ops |-> <<op, "And">>])
fadd(x, y) == Step("FAdd", "GPR", <<x, y>>,
                   [saturate |-> FALSE, rnd_mode |-> "NearestEven", ftz |-> FALSE])
fmul(x, y) == Step("FMul", "GPR", <<x, y>>,
                   [saturate |-> FALSE, rnd_mode |-> "NearestEven", ftz |-> FALSE,
                    dnz |-> FALSE])
fmnmx(x, y, min) == Step("FMnMx", "GPR", <<x, y, Bool(min)>>, [ftz |-> FALSE])
fset(c, x, y) == Step("FSet", "GPR", <<x, y>>, [cmp_op |-> c, ftz |-> FALSE])
fsetp(c, x, y) == Step("FSetP", "Pred", <<x, y, True>>,
                       [set_op |-> "And", cmp_op |-> c, ftz |-> FALSE])
isetp_to(ty, c, x, y, op, accum) ==
  Step("ISetP", "Pred", <<x, y, accum, True>>,
       [set_op |-> op, cmp_op |-> c, cmp_type |-> ty, ex |-> FALSE])
isetp(ty, c, x, y) == isetp_to(ty, c, x, y, "And", True)
mufu(op, x) == Step("MuFu", "GPR", <<x>>, [op |-> op, op_type |-> "F32"])
rro(op, x) == Step("Rro", "GPR", <<x>>, [op |-> op])
iadd(x, y) == Step("IAdd2", "GPR", <<x, y>>, <<>>)
iabs(x) == Step("I2I", "GPR", <<x>>, [src_type |-> "I32", dst_type |-> "I32",
                                      saturate |-> FALSE, abs |-> TRUE, neg |-> FALSE])
imul(x, y) == Step("IMul", "GPR", <<x, y>>, [signed |-> <<FALSE, FALSE>>, high |-> FALSE])
imnmx(ty, x, y, min) == Step("IMnMx", "GPR", <<x, y, Bool(min)>>, [cmp_type |-> ty])
shl(x, y) == Step("Shl", "GPR", <<x, y>>, [wrap |-> TRUE])
shr(x, y, signed) == Step("Shr", "GPR", <<x, y>>, [wrap |-> TRUE, signed |-> signed])
sel(p, x, y) == Step("Sel", "GPR", <<p, x, y>>, <<>>)
copy(x) == Step("Copy", "GPR", <<x>>, <<>>)
neg_of(x) == iadd(Zero, With(x, ineg))
round(x, mode) == Step("F2F", "GPR", <<x>>,
                       [src_type |-> "F32", dst_type |-> "F32", rnd_mode |-> mode,
                        ftz |-> FALSE, integer_rnd |-> TRUE])
f2i(x, ty) == Step("F2I", "GPR", <<x>>,
                   [src_type |-> "F32", dst_type |-> ty, rnd_mode |-> "Zero", ftz |-> FALSE])
i2f(x, ty) == Step("I2F", "GPR", <<x>>,
                   [src_type |-> ty, dst_type |-> "F32", rnd_mode |-> "NearestEven"])

(***************************************************************************)
(* Scalar operations (alu.rs).  p steps come before those of the           *)
(* operation.                                                              *)
(***************************************************************************)
Ones == Imm32(Word32)
SignBit == Imm32({31})
Magnitude == Imm32(0..30)

\* SEL and the bitwise operations take no float modifier: a source that has
\* one becomes a value of its own, without floating point arithmetic.
unmodify(s, p) ==
  LET raw == [s EXCEPT !.mod = "None"] IN
  CASE s.mod = "None" -> <<>>
    [] s.mod = "FAbs" -> <<lop2("And", raw, Magnitude)>>
    [] s.mod = "FNeg" -> <<lop2("Xor", raw, SignBit)>>
    [] s.mod = "FNegAbs" -> <<lop2("And", raw, Magnitude), lop2("Or", V(p + 1), SignBit)>>
    [] s.mod = "INeg" -> <<neg_of(raw)>>
    [] s.mod = "BNot" -> <<lop2("PassB", Zero, With(raw, bnot))>>

bool_bits(p) == sel(p, Ones, Zero)

\* Operands beyond the range of RCP are scaled before the division.
fdiv(p, x, y) ==
  LET mag == [y EXCEPT !.mod = fabs(@)]
      quarter == Imm32(Bits(\h3e800000))
      two24 == Imm32(Bits(\h4b800000))
  IN  <<fsetp("OrdGt", mag, Imm32(Bits(\h7e800000))),
        fsetp("OrdLt", mag, Imm32(Bits(\h00800000))),
        fmul(x, quarter), fmul(y, quarter), fmul(x, two24), fmul(y, two24),
        sel(V(p + 2), V(p + 5), x), sel(V(p + 2), V(p + 6), y),
        sel(V(p + 1), V(p + 3), V(p + 7)), sel(V(p + 1), V(p + 4), V(p + 8)),
        mufu("Rcp", V(p + 10)), fmul(V(p + 9), V(p + 11))>>

\* Restoring division, ten steps for each bit from the highest: the eighth is
\* the remainder so far and the tenth the quotient so far.  The sign of the
\* remainder is the 33rd bit of its double.
divrem_bit(p, nn, d, b) ==
  LET at == p + 10 * (31 - b)
      r == IF b = 31 THEN Zero ELSE V(at - 2)
      q == IF b = 31 THEN Zero ELSE V(at)
  IN  <<isetp("I32", "Lt", r, Zero), shl(r, Imm32({0})), shr(nn, Imm32(Bits(b)), FALSE),
        lop2("And", V(at + 3), Imm32({0})), lop2("Or", V(at + 2), V(at + 4)),
        isetp_to("U32", "Ge", V(at + 5), d, "Or", V(at + 1)),
        iadd(V(at + 5), With(d, ineg)), sel(V(at + 6), V(at + 7), V(at + 5)),
        sel(V(at + 6), Imm32({b}), Zero), lop2("Or", q, V(at + 9))>>
unsigned_divrem(p, nn, d) ==
  FlattenSeq([k \in 1..32 |-> divrem_bit(p, nn, d, 32 - k)])

\* Division by zero gives all ones unsigned and zero signed.
divrem(p, nn, d, signed, rem) ==
  LET base == IF signed THEN p + 5 ELSE p + 1
      found == V(base + IF rem THEN 318 ELSE 320)
  IN  <<isetp("U32", "Eq", d, Zero)>>
      \o (IF ~signed
          THEN unsigned_divrem(base, nn, d) \o <<sel(V(p + 1), Ones, found)>>
          ELSE <<isetp("I32", "Lt", nn, Zero), isetp("I32", "Lt", d, Zero),
                 iabs(nn), iabs(d)>>
               \o unsigned_divrem(base, V(p + 4), V(p + 5))
               \o (IF rem
                   THEN <<neg_of(found), sel(V(p + 2), V(base + 321), found),
                          sel(V(p + 1), Zero, V(base + 322))>>
                   ELSE <<lop2_pred("Xor", [V(p + 2) EXCEPT !.f = "Pred"],
                                    [V(p + 3) EXCEPT !.f = "Pred"]),
                          neg_of(found), sel(V(base + 321), V(base + 322), found),
                          sel(V(p + 1), Zero, V(base + 323))>>))

Unary == {"MOV", "ABS", "EX2", "LG2", "SIN", "COS", "RSQ", "SQRT", "FRC", "CEIL", "FLR",
          "ROUND", "TRUNC", "NOT", "INEG", "IABS", "F2I", "F2U", "I2F", "U2F"}
Binary == {"ADD", "SUB", "MUL", "DIV", "POW", "MIN", "MAX", "FSEQ", "FSNE", "FSGE",
           "FSLT", "SGE", "USEQ", "USNE", "ISGE", "ISLT", "USGE", "USLT", "AND", "OR",
           "XOR", "UADD", "UMUL", "IMIN", "IMAX", "UMIN", "UMAX", "SHL", "ISHR", "USHR",
           "IDIV", "IMOD", "UDIV", "UMOD"}
Ternary == {"UCMP", "CMP"}

unary(op, p, x) ==
  CASE op = "MOV" -> <<copy(x)>>
    [] op = "ABS" -> <<lop2("And", x, Magnitude)>>
    [] op = "EX2" -> <<rro("Exp2", x), mufu("Exp2", V(p + 1))>>
    [] op = "LG2" -> <<mufu("Log2", x)>>
    [] op = "SIN" -> <<rro("SinCos", x), mufu("Sin", V(p + 1))>>
    [] op = "COS" -> <<rro("SinCos", x), mufu("Cos", V(p + 1))>>
    [] op = "RSQ" -> <<mufu("Rsq", x)>>
    [] op = "SQRT" -> <<mufu("Sqrt", x)>>
    [] op = "CEIL" -> <<round(x, "PosInf")>>
    [] op = "FLR" -> <<round(x, "NegInf")>>
    [] op = "ROUND" -> <<round(x, "NearestEven")>>
    [] op = "TRUNC" -> <<round(x, "Zero")>>
    [] op = "FRC" -> <<round(x, "NegInf"), fadd(x, With(V(p + 1), fneg))>>
    [] op = "NOT" -> <<lop2("PassB", Zero, With(x, bnot))>>
    [] op = "INEG" -> <<neg_of(x)>>
    [] op = "IABS" -> <<iabs(x)>>
    [] op = "F2I" -> <<f2i(x, "I32")>>
    [] op = "F2U" -> <<f2i(x, "U32")>>
    [] op = "I2F" -> <<i2f(x, "I32")>>
    [] op = "U2F" -> <<i2f(x, "U32")>>

float_cmp == [FSEQ |-> "OrdEq", FSNE |-> "UnordNe", FSGE |-> "OrdGe", FSLT |-> "OrdLt"]
int_cmp == [USEQ |-> "Eq", USNE |-> "Ne", ISGE |-> "Ge", ISLT |-> "Lt", USGE |-> "Ge",
            USLT |-> "Lt"]
SignedOps == {"ISGE", "ISLT", "IMIN", "IMAX", "IDIV", "IMOD"}
type_of(op) == IF op \in SignedOps THEN "I32" ELSE "U32"

binary(op, p, x, y) ==
  CASE op = "ADD" -> <<fadd(x, y)>>
    [] op = "SUB" -> <<fadd(x, With(y, fneg))>>
    [] op = "MUL" -> <<fmul(x, y)>>
    [] op = "DIV" -> fdiv(p, x, y)
    [] op = "POW" -> <<mufu("Log2", x), fmul(V(p + 1), y), rro("Exp2", V(p + 2)),
                       mufu("Exp2", V(p + 3))>>
    [] op \in {"MIN", "MAX"} -> <<fmnmx(x, y, op = "MIN")>>
    [] op \in DOMAIN float_cmp -> <<fsetp(float_cmp[op], x, y), bool_bits(V(p + 1))>>
    [] op = "SGE" -> <<fset("OrdGe", x, y)>>
    [] op \in DOMAIN int_cmp ->
         <<isetp(type_of(op), int_cmp[op], x, y), bool_bits(V(p + 1))>>
    [] op = "AND" -> <<lop2("And", x, y)>>
    [] op = "OR" -> <<lop2("Or", x, y)>>
    [] op = "XOR" -> <<lop2("Xor", x, y)>>
    [] op = "UADD" -> <<iadd(x, y)>>
    [] op = "UMUL" -> <<imul(x, y)>>
    [] op \in {"IMIN", "IMAX", "UMIN", "UMAX"} ->
         <<imnmx(type_of(op), x, y, op \in {"IMIN", "UMIN"})>>
    [] op = "SHL" -> <<shl(x, y)>>
    [] op \in {"ISHR", "USHR"} -> <<shr(x, y, op = "ISHR")>>
    [] op \in {"UDIV", "UMOD", "IDIV", "IMOD"} ->
         divrem(p, x, y, op \in SignedOps, op \in {"UMOD", "IMOD"})

ternary(op, p, x, y, z) ==
  <<IF op = "UCMP" THEN isetp("U32", "Ne", x, Zero) ELSE fsetp("OrdLt", x, Zero),
    sel(V(p + 1), y, z)>>

\* One scalar operation: an opcode that is not in the tables, or a wrong number
\* of sources, is an error of the shader.
supported(op, n) == CASE n = 1 -> op \in Unary [] n = 2 -> op \in Binary
                      [] n = 3 -> op \in Ternary [] OTHER -> FALSE
scalar_op(op, p, x) ==
  CASE op \in Unary -> unary(op, p, x[1])
    [] op \in Binary -> binary(op, p, x[1], x[2])
    [] op \in Ternary -> ternary(op, p, x[1], x[2], x[3])
with_arg(acc, s, u) ==
  [steps |-> acc.steps \o u,
   args |-> Append(acc.args, IF u = <<>> THEN s ELSE V(Len(acc.steps) + Len(u)))]
unmodified(srcs) ==
  Through(LAMBDA acc, s : with_arg(acc, s, unmodify(s, Len(acc.steps))),
          [steps |-> <<>>, args |-> <<>>], srcs)
lower_over(op, pre) == pre.steps \o scalar_op(op, Len(pre.steps), pre.args)
lower(op, srcs) == lower_over(op, unmodified(srcs))

(***************************************************************************)
(* Textures (texture.rs).  A target has a hardware dimension, a number of  *)
(* spatial components, and the components (from 1, 0 for none) of the      *)
(* layer and of the comparison value; a one-dimensional image is stored as *)
(* a two-dimensional one of height one.                                    *)
(***************************************************************************)
Tgt(dim, n, layer, cmp, promote) ==
  [dim |-> dim, n |-> n, layer |-> layer, cmp |-> cmp, promote |-> promote]
Target ==
  [t1D |-> Tgt("_2D", 2, 0, 0, TRUE), t1D_ARRAY |-> Tgt("Array2D", 2, 2, 0, TRUE),
   SHADOW1D |-> Tgt("_2D", 2, 0, 3, TRUE), SHADOW1D_ARRAY |-> Tgt("Array2D", 2, 2, 3, TRUE),
   t2D |-> Tgt("_2D", 2, 0, 0, FALSE), RECT |-> Tgt("_2D", 2, 0, 0, FALSE),
   t2D_ARRAY |-> Tgt("Array2D", 2, 3, 0, FALSE), SHADOW2D |-> Tgt("_2D", 2, 0, 3, FALSE),
   SHADOWRECT |-> Tgt("_2D", 2, 0, 3, FALSE),
   SHADOW2D_ARRAY |-> Tgt("Array2D", 2, 3, 4, FALSE), t3D |-> Tgt("_3D", 3, 0, 0, FALSE),
   CUBE |-> Tgt("Cube", 3, 0, 0, FALSE), CUBE_ARRAY |-> Tgt("ArrayCube", 3, 4, 0, FALSE),
   SHADOWCUBE |-> Tgt("Cube", 3, 0, 4, FALSE), BUFFER |-> Tgt("_1D", 1, 0, 0, FALSE)]
TexOps == {"TEX", "TXB", "TXL", "TXF", "TXQ"}
cube(t) == t.dim \in {"Cube", "ArrayCube"}

\* The combinations that are refused before anything is emitted.
texture_ok(op, name, slot) ==
  LET t == Target[name] IN
  /\ op \in TexOps /\ slot < 8192
  /\ op # "TXQ" =>
       /\ name = "BUFFER" => op = "TXF"
       /\ op = "TXF" => ~cube(t) /\ t.cmp = 0
       /\ op \in {"TXB", "TXL"} => /\ t.layer # 4 /\ t.cmp # 4
                                   /\ name \notin {"RECT", "SHADOWRECT"}

\* The largest component of a cube direction becomes one.
normalize(c) ==
  LET mag(s) == [s EXCEPT !.mod = fabs(@)] IN
  <<fmnmx(mag(c[1]), mag(c[2]), FALSE), fmnmx(V(1), mag(c[3]), FALSE), mufu("Rcp", V(2)),
    fmul(c[1], V(3)), fmul(c[2], V(3)), fmul(c[3], V(3))>>
\* A sampled layer is rounded and clamped, a fetched one only clamped.
array_layer(p, layer, fetch) ==
  LET clamp(x) == imnmx("U32", x, Imm32(0..15), TRUE) IN
  IF fetch THEN <<clamp(layer)>>
  ELSE <<fadd(layer, Imm32(Bits(\h3f000000))), fmnmx(V(p + 1), Zero, FALSE),
         f2i(V(p + 2), "U32"), clamp(V(p + 3))>>

\* What comes before the lookup itself: a direction made a face, and the layer.
normalized(op, t, c) == IF cube(t) /\ op # "TXQ" THEN normalize(c) ELSE <<>>
layered(op, t) == t.layer # 0 /\ op # "TXQ"
with_layer(op, t, c, pre) ==
  pre \o (IF layered(op, t) THEN array_layer(Len(pre), c[t.layer], op = "TXF") ELSE <<>>)
lod_mode(op, name) ==
  CASE op = "TEX" -> "Auto" [] op = "TXB" -> "Bias" [] op = "TXL" -> "Lod"
    [] op = "TXF" /\ name \in {"BUFFER", "RECT"} -> "Zero" [] OTHER -> "Lod"
\* The two vectors a lookup reads: the layer (the p-th step) and coordinates;
\* the level or its bias, and the value to compare with.
coordinates(op, t, c, p) ==
  IF op = "TXQ" THEN <<c[1]>>
  ELSE (IF layered(op, t) THEN <<V(p)>> ELSE <<>>)
       \o [k \in 1..t.n |-> CASE cube(t) -> V(3 + k) [] t.promote /\ k = 2 -> Zero
                              [] OTHER -> c[k]]
modifiers(op, name, t, c) ==
  IF op = "TXQ" THEN <<>>
  ELSE (IF lod_mode(op, name) \in {"Bias", "Lod"} THEN <<c[4]>> ELSE <<>>)
       \o (IF t.cmp = 0 THEN <<>> ELSE <<c[t.cmp]>>)
lookup(op, name, t, slot, dst, srcs) ==
  LET opts == [tex |-> [k |-> "Bound", v |-> Bits(slot)], nodep |-> FALSE, channel_mask |-> 0..3]
      dsts == <<SSA("GPR", dst, 4), DstNone, DstNone>>
      samp == [dim |-> t.dim, lod_mode |-> lod_mode(op, name), offset_mode |-> "None",
               mem_eviction_priority |-> "Normal", scalar |-> FALSE] @@ opts
  IN  CASE op = "TXQ" -> Instr("Txq", SubSeq(dsts, 1, 2), <<srcs[1]>>,
                               [query |-> "Dimension"] @@ opts)
        [] op = "TXF" -> Instr("Tld", dsts, srcs, [is_ms |-> FALSE] @@ samp)
        [] OTHER -> Instr("Tex", dsts, srcs, [deriv_mode |-> "Auto", z_cmpr |-> t.cmp # 0] @@ samp)
texture_code(n, op, name, t, slot, steps, src0, src1) ==
  LET vec(b, s) == IF s = <<>> THEN Zero ELSE SSA("GPR", b, Len(s))
      at == n + Len(steps)
      dst == at + Len(src0) + Len(src1)
      all == src0 \o src1
  IN  [code |-> push_op(n, steps \o [k \in DOMAIN all |-> copy(all[k])])
                \o <<lookup(op, name, t, slot, dst, <<vec(at, src0), vec(at + Len(src0), src1)>>)>>,
       n |-> dst + 4,
       res |-> [k \in 1..4 |-> SSA("GPR", IF /\ op = "TXQ" /\ t.promote /\ t.layer # 0 /\ k = 2
                                          THEN dst + 2 ELSE dst + k - 1, 1)]]
build_lookup(n, op, name, t, slot, c, steps) ==
  texture_code(n, op, name, t, slot, steps, coordinates(op, t, c, Len(steps)), modifiers(op, name, t, c))
build_target(n, op, name, t, slot, c) ==
  build_lookup(n, op, name, t, slot, c, with_layer(op, t, c, normalized(op, t, c)))
\* The instructions of a texture operation over the coordinates c, the fresh
\* values it takes from n on, and the value of its four components.
build_texture(n, op, name, slot, c) == build_target(n, op, name, Target[name], slot, c)

(***************************************************************************)
(* Compilation.                                                            *)
(***************************************************************************)

CONSTANTS Programs, \* The programs that are compiled
          Inputs    \* Words for the inputs and constants, by byte address

VARIABLES prog, pass, code, next, word

compile_vars == <<prog, pass, code, next, word>>

Decl(file, idx, sem, loc, interp) ==
  [file |-> file, idx |-> idx, sem |-> sem, loc |-> loc, interp |-> interp]
Arg(file, idx, swizzle, neg, abs) ==
  [file |-> file, idx |-> idx, swizzle |-> swizzle, neg |-> neg, abs |-> abs]
Tgsi(op, file, idx, mask, srcs) ==
  [op |-> op, file |-> file, idx |-> idx, mask |-> mask, srcs |-> srcs, target |-> "t2D"]

(***************************************************************************)
(* Lowering.  A builder has the lanes, the next SSA value and the          *)
(* instructions of the block so far.                                       *)
(***************************************************************************)
Val(n) == SSA("GPR", n, 1)
Push(b, steps) == [b EXCEPT !.n = @ + Len(steps), !.code = @ \o push_op(b.n, steps)]
copy_lane(b, lane, s) == [Push(b, <<copy(s)>>) EXCEPT !.lanes = (lane :> Val(b.n)) @@ @]

with_mods(s, arg) ==
  LET m == IF arg.abs THEN fabs(s.mod) ELSE s.mod IN
  [s EXCEPT !.mod = IF arg.neg THEN fneg(m) ELSE m]
source(arg, c, lanes) ==
  with_mods(CASE arg.file = "IMM" -> Imm32(arg.idx)
              [] arg.file = "CONST" -> CBuf(0, Bits(16 * arg.idx + 4 * arg.swizzle[c + 1]))
              [] OTHER -> lanes[<<arg.file, arg.idx, arg.swizzle[c + 1]>>], arg)

input_addr(stage, d, c) ==
  4 * c + CASE d.sem = "None" -> \h80 + 16 * d.idx
            [] d.sem = "Generic" -> \h80 + 16 * d.loc
            [] d.sem = "Position" -> \h70
            [] d.sem = "VertexId" -> \h2fc
            [] d.sem = "InstanceId" -> \h2f8
            [] d.sem = "Face" -> \h3fc
input_ok(stage, d, c) ==
  /\ d.sem \in IF stage = "Vertex" THEN {"None", "Generic", "Position", "VertexId", "InstanceId"}
               ELSE {"Generic", "Position", "Face"}
  /\ d.sem \in {"VertexId", "InstanceId", "Face"} => c = 0
consumed(p) ==
  UNION {UNION {{<<p.code[k].srcs[j].file, p.code[k].srcs[j].idx, c>> :
                   c \in ToSet(p.code[k].srcs[j].swizzle)} : j \in DOMAIN p.code[k].srcs} :
         k \in DOMAIN p.code}
InputDecls(p) == {d \in ToSet(p.decls) : d.file \in {"IN", "SV"}}
written(p, idx) ==
  UNION {ToSet(p.code[k].mask) : k \in {j \in DOMAIN p.code :
                                          p.code[j].file = "OUT" /\ p.code[j].idx = idx}}

Freq == [Constant |-> "Constant", Linear |-> "Pass", Perspective |-> "PassMulW"]
Ipa(b, addr, freq, inv) ==
  [b EXCEPT !.n = @ + 1,
            !.code = Append(@, Instr("Ipa", <<Val(b.n)>>, <<inv, Zero>>,
                                     [addr |-> addr, freq |-> freq, loc |-> "Default"]))]
One == Imm32(Bits(\h3f800000))
MinusOne == Imm32(Bits(\h3f800000) \cup {31})
\* The reciprocal of w is computed once, for the first perspective input.
keep_inv_w(b) == [b EXCEPT !.inv_w = Val(b.n - 1)]
with_inv_w(b) ==
  IF b.inv_w # Zero THEN b
  ELSE keep_inv_w(Push(Ipa(b, \h7c, "Pass", Zero), lower("DIV", <<One, Val(b.n)>>)))
\* The face is one or minus one.
interpolate(b, d, addr, inv) ==
  LET i == Ipa(b, addr, Freq[d.interp], inv) IN
  IF d.sem # "Face" THEN i
  ELSE Push(i, <<isetp("U32", "Ne", Val(b.n), Zero), sel(V(1), One, MinusOne), copy(V(2))>>)
perspective(b, d, addr) == interpolate(b, d, addr, b.inv_w)
fragment_input(b, d, addr) ==
  IF d.interp = "Perspective" THEN perspective(with_inv_w(b), d, addr)
  ELSE interpolate(b, d, addr, Zero)
vertex_input(b, addr) ==
  [b EXCEPT !.n = @ + 1,
            !.code = Append(@, Instr("ALd", <<Val(b.n)>>, <<Zero, Zero>>,
                                     [addr |-> addr, comps |-> 1, patch |-> FALSE,
                                      output |-> FALSE, phys |-> FALSE]))]
load_input(stage, b, d, addr) ==
  IF stage = "Vertex" THEN vertex_input(b, addr) ELSE fragment_input(b, d, addr)
\* The lane is the value made last.
set_lane(b, lane) == [b EXCEPT !.lanes = (lane :> Val(b.n - 1)) @@ @]
prolog_lane(p, b, d, c) ==
  LET lane == <<d.file, d.idx, c>> IN
  CASE d.file \in {"TEMP", "OUT"} -> copy_lane(b, lane, Zero)
    [] d.file \in {"IN", "SV"} /\ lane \in consumed(p) ->
         set_lane(load_input(p.stage, b, d, input_addr(p.stage, d, c)), lane)
    [] OTHER -> b
prolog(p) ==
  Through(LAMBDA b, d : Through(LAMBDA x, c : prolog_lane(p, x, d, c), b, <<0, 1, 2, 3>>),
          [lanes |-> none, n |-> 0, code |-> <<>>, inv_w |-> Zero], p.decls)

\* One lane of an operation, over the lanes given.
alu_lane(b, i, c, lanes) ==
  Push(b, lower(i.op, [k \in DOMAIN i.srcs |-> source(i.srcs[k], c, lanes)]))
\* Mutated form: lanes written one by one, so that a later lane reads an earlier one's result.
copy_last(b, lane) == copy_lane(b, lane, Val(b.n - 1))
alu_instr_in_place(b, i) ==
  Through(LAMBDA x, c : copy_last(alu_lane(x, i, c, x.lanes), <<i.file, i.idx, c>>), b, i.mask)
\* All sources of a vector are read before one of its lanes is written.
with_value(acc, b) == [b |-> b, vals |-> Append(acc.vals, Val(b.n - 1))]
write_lanes(i, all) ==
  Through(LAMBDA x, k : copy_lane(x, <<i.file, i.idx, i.mask[k]>>, all.vals[k]), all.b,
          [k \in DOMAIN i.mask |-> k])
alu_instr(b, i) ==
  write_lanes(i, Through(LAMBDA acc, c : with_value(acc, alu_lane(acc.b, i, c, b.lanes)),
                         [b |-> b, vals |-> <<>>], i.mask))
write_texel(b, i, t) ==
  Through(LAMBDA x, c : copy_lane(x, <<i.file, i.idx, c>>, t.res[c + 1]),
          [b EXCEPT !.n = t.n, !.code = @ \o t.code], i.mask)
tex_instr(b, i) ==
  write_texel(b, i, build_texture(b.n, i.op, i.target, i.srcs[2].idx + 8,
                                  [c \in 1..4 |-> source(i.srcs[1], c - 1, b.lanes)]))

output_addr(d, c) == 4 * c + CASE d.sem = "Position" -> \h70 [] d.sem = "PointSize" -> \h6c
                               [] OTHER -> \h80 + 16 * d.loc
OutDecls(p) == SelectSeq(p.decls, LAMBDA d : d.file = "OUT")
output_ok(stage, d) ==
  IF stage = "Vertex" THEN d.sem \in {"Position", "PointSize", "Generic"}
  ELSE d.sem = "Color" => d.loc < 8
\* Vertex outputs in the order of their declarations, colours in that of their targets.
Outputs(p) ==
  LET outs == SelectSeq(OutDecls(p), LAMBDA d : written(p, d.idx) # {})
      colors == SelectSeq(outs, LAMBDA d : d.sem = "Color")
      Before(a, b) == a.loc < b.loc \/ (a.loc = b.loc /\ a.idx < b.idx)
  IN  IF p.stage = "Vertex" THEN outs ELSE SortSeq(colors, Before)
ast(addr, data) == Instr("ASt", <<>>, <<Zero, Zero, data>>,
                         [addr |-> addr, comps |-> 1, patch |-> FALSE, phys |-> FALSE])
emit_outputs(p, lanes) ==
  LET Stores(d) == [k \in 1..Cardinality(written(p, d.idx)) |->
                      LET c == SetToSortSeq(written(p, d.idx), LAMBDA x, y : x < y)[k]
                      IN  ast(output_addr(d, c), lanes[<<"OUT", d.idx, c>>])]
      outs == Outputs(p)
      colors == Join([k \in DOMAIN outs |->
                              [c \in 1..4 |-> lanes[<<"OUT", outs[k].idx, c - 1>>]]])
  IN  IF p.stage = "Vertex" THEN Join([k \in DOMAIN outs |-> Stores(outs[k])])
      ELSE IF colors = <<>> THEN <<>> ELSE <<Instr("RegOut", <<>>, colors, <<>>)>>

kill == Instr("Kill", <<>>, <<>>, <<>>)
exit == Instr("Exit", <<>>, <<>>, <<>>)
lower_instr(p, b, i) ==
  CASE i.op = "KILL" -> [b EXCEPT !.code = <<kill>>]
    [] i.op = "END" -> [b EXCEPT !.code = Append(emit_outputs(p, b.lanes), exit)]
    [] i.op \in TexOps -> tex_instr(b, i)
    [] OTHER -> alu_instr(b, i)
\* One block for the prolog, one for every instruction.
with_block(blocks, b) == [b |-> b, blocks |-> Append(blocks, b.code)]
start_block(b) == with_block(<<>>, IF b.code # <<>> THEN b
                                   ELSE [b EXCEPT !.code = <<Instr("Nop", <<>>, <<>>, <<>>)>>])
lowered(all) == [code |-> all.blocks, n |-> all.b.n]
lower_program(p) ==
  lowered(Through(LAMBDA acc, i : with_block(acc.blocks, lower_instr(p, [acc.b EXCEPT !.code = <<>>], i)),
                  start_block(prolog(p)), p.code))

\* What the lowering refuses: an input or output without a place in the
\* attribute space, discard in a vertex shader, an operation it does not know,
\* and a lane that nothing declares.
declared(p, a) ==
  a.file \in {"IMM", "CONST"}
  \/ \E d \in ToSet(p.decls) : d.file = a.file /\ d.idx = a.idx
instr_ok(p, i) ==
  CASE i.op = "KILL" -> p.stage = "Fragment"
    [] i.op = "END" -> TRUE
    [] i.op \in TexOps -> texture_ok(i.op, i.target, i.srcs[2].idx + 8)
    [] OTHER -> /\ supported(i.op, Len(i.srcs))
                /\ \A k \in DOMAIN i.srcs : declared(p, i.srcs[k])
                /\ i.file \in {"TEMP", "OUT"} /\ declared(p, i)
accepted(p) ==
  /\ \A d \in InputDecls(p), c \in 0..3 :
       <<d.file, d.idx, c>> \in consumed(p) => input_ok(p.stage, d, c)
  /\ \A d \in ToSet(OutDecls(p)) : output_ok(p.stage, d)
  /\ \A i \in ToSet(p.code) : instr_ok(p, i)

(***************************************************************************)
(* What the lowering notes of the inputs and outputs: the lanes read and   *)
(* written, the range of the stores, how a fragment input is interpolated, *)
(* the colour targets, and whether fragments are discarded.                *)
(***************************************************************************)
Imap == [Constant |-> 1, Perspective |-> 2, Linear |-> 3]
InputAddrs(p, d) == {input_addr(p.stage, d, c) :
                       c \in {x \in 0..3 : <<d.file, d.idx, x>> \in consumed(p)}}
io_info(p) ==
  LET vertex == p.stage = "Vertex"
      generic == {d \in InputDecls(p) : ~vertex /\ d.sem = "Generic"}
      stored == UNION {{output_addr(d, c) : c \in written(p, d.idx)} : d \in ToSet(Outputs(p))}
      outs == IF vertex THEN stored ELSE {}
  IN  [ins |-> (UNION {InputAddrs(p, d) : d \in InputDecls(p) \ generic} \ {\h3fc})
               \cup (IF vertex THEN {} ELSE {\h7c}),
       outs |-> outs,
       store |-> IF vertex THEN <<Min({255} \cup {a \div 4 : a \in outs}),
                                  Max({0} \cup {a \div 4 : a \in outs})>> ELSE <<0, 0>>,
       imap |-> [a \in UNION {InputAddrs(p, d) : d \in generic} |->
                   Imap[(CHOOSE d \in generic : a \in InputAddrs(p, d)).interp]],
       colors |-> IF vertex THEN {}
                  ELSE UNION {{4 * d.loc + c : c \in written(p, d.idx)} : d \in ToSet(Outputs(p))},
       flags |-> IF \E i \in ToSet(p.code) : i.op = "KILL" THEN {"KILL"} ELSE {}]

(***************************************************************************)
(* The back end's own look at the program it is given: it must not touch   *)
(* an attribute or an output that the header will not have.                *)
(***************************************************************************)
validate_io(stage, io, i) ==
  LET vertex == stage = "Vertex"
      addrs == {i.a.addr + 4 * c : c \in 0..(i.a.comps - 1)}
      placed == ~i.a.patch /\ ~i.a.phys /\ i.srcs[2].k = "Zero" /\ i.a.addr % 4 = 0
  IN  CASE i.op = "ALd" -> vertex /\ placed /\ ~i.a.output /\ addrs \subseteq io.ins
        [] i.op = "ASt" -> /\ vertex /\ placed /\ addrs \subseteq io.outs
                           /\ \A x \in addrs : x \div 4 \in io.store[1]..io.store[2]
        [] i.op = "Ipa" -> /\ ~vertex /\ i.a.addr % 4 = 0
                           /\ \/ i.a.addr = \h3fc /\ i.a.freq = "Constant"
                              \/ i.a.addr \in io.ins \cup DOMAIN io.imap
        [] i.op = "RegOut" -> ~vertex /\ Len(i.srcs) = 4 * Cardinality({b \div 4 : b \in io.colors})
        [] i.op = "Kill" -> ~vertex /\ "KILL" \in io.flags
        [] OTHER -> TRUE
valid_ir(p, blocks) ==
  /\ SM \in {50, 52}
  /\ \A b \in ToSet(blocks) : b # <<>>
  /\ \A io \in {io_info(p)}, i \in ToSet(Join(blocks)) : validate_io(p.stage, io, i)

(***************************************************************************)
(* Registers: the lowest free ones, in the order of the code.  A value     *)
(* holds its register to its last use.                                     *)
(***************************************************************************)
MaxGpr == 63
FirstFit(used, n) ==
  LET align == CASE n = 1 -> 1 [] n = 2 -> 2 [] OTHER -> 4 IN
  CHOOSE r \in 0..MaxGpr : /\ r % align = 0 /\ used \cap r..(r + n - 1) = {}
                           /\ \A q \in 0..(r - 1) : q % align = 0 => used \cap q..(q + n - 1) # {}
Used(env, f) == {env[v] : v \in {x \in DOMAIN env : x.f = f}}
ParCopy(dsts, srcs) == Instr("ParCopy", dsts, srcs, [tmp |-> DstNone])
AtReg(env, s) ==
  IF s.k # "SSA" THEN s ELSE [Reg(s.f, env[Comp(s, 0)], 1) EXCEPT !.mod = s.mod]
\* The instruction with registers: vectors are gathered in a block of their own.
assign_instr(st, i, live) ==
  LET Gather(acc, k) ==
        LET s == i.srcs[k]
            to == FirstFit(acc.used, s.n)
        IN  IF s.k # "SSA" \/ s.n = 1
            THEN [acc EXCEPT !.srcs = Append(@, AtReg(st.env, s))]
            ELSE [used |-> acc.used \cup to..(to + s.n - 1),
                  srcs |-> Append(acc.srcs, [Reg("GPR", to, s.n) EXCEPT !.mod = s.mod]),
                  d |-> acc.d \o [c \in 1..s.n |-> Reg("GPR", to + c - 1, 1)],
                  s |-> acc.s \o [c \in 1..s.n |-> AtReg(st.env, Comp(s, c - 1))]]
      g == Through(Gather, [used |-> Used(st.env, "GPR"), srcs |-> <<>>, d |-> <<>>, s |-> <<>>],
                   [k \in DOMAIN i.srcs |-> k])
      kept == [v \in DOMAIN st.env \cap live |-> st.env[v]]
      Place(acc, d) ==
        LET at == FirstFit(Used(acc.env, d.f), d.n) IN
        IF d.k = "None" THEN [acc EXCEPT !.dsts = Append(@, d)]
        ELSE [env |-> [v \in Values(d) |-> at + CHOOSE c \in 0..(d.n - 1) : v = Comp(d, c)]
                        @@ acc.env,
              dsts |-> Append(acc.dsts, Reg(d.f, at, d.n))]
      p == Through(Place, [env |-> kept, dsts |-> <<>>], i.dsts)
      move == IF g.d = <<>> THEN <<>> ELSE <<ParCopy(g.d, g.s)>>
      outs == [k \in DOMAIN i.srcs |-> Reg("GPR", k - 1, 1)]
  IN  [env |-> [v \in DOMAIN p.env \cap live |-> p.env[v]],
       code |-> st.code \o (IF i.op = "RegOut" THEN <<ParCopy(outs, g.srcs)>>
                            ELSE Append(move, [i EXCEPT !.srcs = g.srcs, !.dsts = p.dsts,
                                                        !.pred = AtReg(st.env, @)]))]
\* The values in use behind each instruction.
LiveAfter(flat) ==
  Tail(Reverse(Through(LAMBDA acc, i : Append(acc, (Last(acc) \ DefsOf(i)) \cup UsesOf(i)),
                       <<{}>>, Reverse(flat))))
first_fit(blocks) ==
  LET live == LiveAfter(Join(blocks))
      Block(acc, b) ==
        AsBlock(acc.code, Through(LAMBDA x, i : [at |-> x.at + 1] @@ assign_instr(x, i, live[x.at]),
                                  [acc EXCEPT !.code = <<>>], b))
  IN  Through(Block, [at |-> 1, env |-> none, code |-> <<>>], blocks).code

(***************************************************************************)
(* The machine: one step for every pass.  A pass that panics ends the      *)
(* compilation with an error.                                              *)
(***************************************************************************)
Passes == <<"lower", "validate", "copy_prop", "copy_prop2", "dce", "legalize", "dce2", "assign_regs",
            "lower_par_copies", "lower_copy_swap", "opt_crs", "calc_instr_deps", "encode",
            "done">>
Following(p) == Passes[1 + CHOOSE k \in DOMAIN Passes : Passes[k] = p]
To(c) == /\ code' = c /\ pass' = Following(pass)
         /\ UNCHANGED <<prog, next, word>>

CompileInit ==
  /\ prog \in Programs
  /\ pass = "lower" /\ code = <<>> /\ next = 0 /\ word = <<>>

Lower ==
  /\ pass = "lower" /\ accepted(prog)
  /\ \E r \in {lower_program(prog)} : code' = r.code /\ next' = r.n
  /\ pass' = Following(pass)
  /\ UNCHANGED <<prog, word>>
Unsupported ==
  /\ pass = "lower" /\ ~accepted(prog)
  /\ pass' = "unsupported"
  /\ UNCHANGED <<prog, code, next, word>>
Validate == pass = "validate" /\ valid_ir(prog, code) /\ To(code)
InvalidIr ==
  /\ pass = "validate" /\ ~valid_ir(prog, code)
  /\ pass' = "invalid"
  /\ UNCHANGED <<prog, code, next, word>>
CopyProp == pass \in {"copy_prop", "copy_prop2"} /\ To(opt_copy_prop(code))
Dce == pass \in {"dce", "dce2"} /\ To(opt_dce(code))
Legalize ==
  /\ pass = "legalize"
  /\ \E r \in {legalize(code, next)} :
     /\ code' = r.code /\ next' = r.n
     /\ pass' = IF r.ok THEN Following(pass) ELSE "panic"
  /\ UNCHANGED <<prog, word>>
AssignRegs == pass = "assign_regs" /\ To(first_fit(code))
LowerParCopies == pass = "lower_par_copies" /\ To(lower_par_copies(code))
LowerCopySwap ==
  /\ pass = "lower_copy_swap"
  /\ \E r \in {lower_copy_swap(code, 0)} :
     code' = r.code /\ pass' = IF r.ok THEN Following(pass) ELSE "panic"
  /\ UNCHANGED <<prog, next, word>>
OptCrs == pass = "opt_crs" /\ To(opt_crs(code))
\* Every block falls through to the next one.
FallThrough(blocks) == [b \in DOMAIN blocks |-> {b + 1} \cap DOMAIN blocks]
CalcInstrDeps == pass = "calc_instr_deps" /\ To(calc_instr_deps(code, FallThrough(code)))
Encode ==
  /\ pass = "encode"
  /\ \E ws \in {encode_sm50_shader(code)} :
       LET ok == \A k \in DOMAIN ws : Encodes(ws[k]) IN
       /\ word' = IF ok THEN [k \in DOMAIN ws |-> Word(ws[k])] ELSE <<>>
       /\ pass' = IF ok THEN "done" ELSE "panic"
  /\ UNCHANGED <<prog, code, next>>
CompileNext ==
  \/ Lower \/ Unsupported \/ Validate \/ InvalidIr \/ CopyProp \/ Dce \/ Legalize \/ AssignRegs
  \/ LowerParCopies \/ LowerCopySwap \/ OptCrs \/ CalcInstrDeps \/ Encode

(***************************************************************************)
(* The shader header (sph.rs), as the set of its bits, and what the        *)
(* backend reads out of it for the kernel.  Local memory and a stack in    *)
(* memory are refused, so their sizes stay zero.                           *)
(***************************************************************************)
ShaderProgramHeader(stage) ==
  At(0, IF stage = "Vertex" THEN 1 ELSE 2) \cup At(5, 3)
  \cup At(10, IF stage = "Vertex" THEN 1 ELSE 5)
encode_vtg_io(io) ==
  set_mask(io.ins, AB, 160) \cup set_mask(io.ins, C, 336) \cup set_mask(io.ins, D, 392)
  \cup set_mask(io.ins, ATTR, 192) \cup set_mask(io.outs, ATTR, 432)
  \cup At(140, io.store[1]) \cup At(152, io.store[2])
  \cup set_mask(io.outs, AB, 400) \cup set_mask(io.outs, C, 576) \cup set_mask(io.outs, D, 632)
encode_fragment_io(io) ==
  set_mask(io.ins, AB, 160) \cup set_mask(io.ins, C, 464) \cup set_imap(io.imap, D, 560, 2)
  \cup set_imap(io.imap, ATTR, 192, 2) \cup {14} \cup {576 + b : b \in io.colors}
\* Inputs and outputs may share space if nothing is loaded after a store.
can_isbe_space_sharing_be_enabled(instrs) ==
  \A i, j \in DOMAIN instrs : instrs[i].op = "ASt" /\ instrs[j].op = "ALd" => j < i
gather_info(instrs) ==
  [uses_global_mem |-> \E k \in DOMAIN instrs : uses_global_mem(instrs[k]),
   writes_global_mem |-> \E k \in DOMAIN instrs : writes_global_mem(instrs[k]),
   uses_fp64 |-> \E k \in DOMAIN instrs : is_fp64(instrs[k]),
   isbe |-> can_isbe_space_sharing_be_enabled(instrs)]
encode_header(p, blocks) ==
  LET io == io_info(p)
      info == gather_info(Join(blocks))
      If(c, bit) == IF c THEN {bit} ELSE {}
  IN  ShaderProgramHeader(p.stage) \cup At(17, 1) \cup If(info.uses_global_mem, 26)
      \cup If(info.writes_global_mem, 16) \cup If(info.uses_fp64, 27)
      \cup IF p.stage = "Vertex" THEN encode_vtg_io(io) \cup If(info.isbe, 25)
            ELSE encode_fragment_io(io) \cup If("KILL" \in io.flags, 15)

\* With the header goes what it does not say: the texture slots, the constant
\* bank their handles are in, and the registers in use.
encode_program(p, blocks, h) ==
  LET regs == UNION {DstRegs(i) \cup SrcRegs(i) : i \in ToSet(Join(blocks))}
      slots == {i.srcs[2].idx : i \in {x \in ToSet(p.code) : x.op \in TexOps}}
      vertex == p.stage = "Vertex"
      If(bit, flag) == IF bit \in h THEN {flag} ELSE {}
  IN  [stage |-> p.stage, gprs |-> Max({4} \cup {r[2] + 1 : r \in {x \in regs : x[1] = "GPR"}}),
       resources |-> slots,
       cb_sizes |-> [b \in 0..31 |-> CASE b = 0 -> 64
                                       [] b = 15 -> Max({0} \cup {32 + 4 * (k + 1) : k \in slots})
                                       [] OTHER -> 0],
       flags |-> If(27, "FP64") \cup IF vertex THEN {}
                 ELSE If(15, "KILL") \cup If(608, "SAMPLE_MASK") \cup If(609, "DEPTH"),
       store |-> IF vertex THEN <<field(h, 140, 8), field(h, 152, 8)>> ELSE <<0, 0>>,
       ins |-> get_mask(h, AB, 160)
               \cup IF vertex THEN get_mask(h, ATTR, 192) \cup get_mask(h, C, 336) \cup get_mask(h, D, 392)
                    ELSE get_mask(h, C, 464),
       outs |-> IF vertex THEN get_mask(h, ATTR, 432) \cup get_mask(h, AB, 400)
                               \cup get_mask(h, C, 576) \cup get_mask(h, D, 632)
                ELSE {},
       imap |-> IF vertex THEN none ELSE get_imap(h, ATTR, 192, 2) @@ get_imap(h, D, 560, 2),
       colors |-> IF vertex THEN {} ELSE {b \in 0..31 : 576 + b \in h}]

(***************************************************************************)
(* The meaning of the operations.  A value is a word, or a term over words *)
(* for what the arithmetic units compute, with its sign and magnitude in   *)
(* front so that sign operations cancel.                                   *)
(***************************************************************************)
W(bits) == <<"W", FALSE, FALSE, bits>>
Term(op, args) == <<"T", FALSE, FALSE, <<op, args>>>>
IsWord(x) == x[1] = "W"
vabs(x) == IF IsWord(x) THEN W(x[4] \ {31}) ELSE <<"T", FALSE, TRUE, x[4]>>
vneg(x) == IF IsWord(x) THEN W(Xor2(x[4], {31})) ELSE <<"T", ~x[2], x[3], x[4]>>
Negative(x) == IF IsWord(x) THEN 31 \in x[4] ELSE x[2]
vmod(x, m) ==
  CASE m = "None" -> x [] m = "FAbs" -> vabs(x) [] m = "FNeg" -> vneg(x)
    [] m = "FNegAbs" -> vneg(vabs(x))
    [] m = "INeg" -> IF IsWord(x) THEN W(Neg(x[4])) ELSE Term("ineg", {x})
    [] m = "BNot" -> IF IsWord(x) THEN W(BitNot(x[4])) ELSE Term("not", {x})

vfadd(x, y) == CASE x = W({31}) -> y [] y = W({31}) -> x [] OTHER -> Term("fadd", {x, y})
Unsigned(x) == IF Negative(x) THEN vneg(x) ELSE x
vfmul(x, y) == LET t == Term("fmul", {Unsigned(x), Unsigned(y)}) IN
               IF Negative(x) # Negative(y) THEN vneg(t) ELSE t
vfmnmx(x, y, min) == Term(IF min THEN "fmin" ELSE "fmax", {x, y})
IsNan(b) == 23..30 \subseteq b /\ b \cap 0..22 # {}
FloatLess(a, b) ==
  CASE a \cup b \subseteq {31} -> FALSE
    [] (31 \in a) # (31 \in b) -> 31 \in a
    [] 31 \in a -> LessU(b, a)
    [] OTHER -> LessU(a, b)
FloatSame(a, b) == a = b \/ a \cup b \subseteq {31}
FloatCompare(c, x, y) ==
  LET a == x[4]  b == y[4]
      nan == IsNan(a) \/ IsNan(b)
  IN  CASE c = "OrdEq" -> ~nan /\ FloatSame(a, b)
        [] c = "UnordNe" -> nan \/ ~FloatSame(a, b)
        [] c = "OrdLt" -> ~nan /\ FloatLess(a, b)
        [] c = "OrdGt" -> ~nan /\ FloatLess(b, a)
        [] c = "OrdLe" -> ~nan /\ (FloatLess(a, b) \/ FloatSame(a, b))
        [] c = "OrdGe" -> ~nan /\ (FloatLess(b, a) \/ FloatSame(a, b))
IntLess(ty, a, b) == IF ty = "I32" THEN LessS(a, b) ELSE LessU(a, b)
IntCompare(c, ty, x, y) ==
  LET a == x[4]  b == y[4] IN
  CASE c = "Eq" -> a = b [] c = "Ne" -> a # b [] c = "Lt" -> IntLess(ty, a, b)
    [] c = "Gt" -> IntLess(ty, b, a) [] c = "Le" -> ~IntLess(ty, b, a)
    [] c = "Ge" -> ~IntLess(ty, a, b)
viadd(x, y) ==
  CASE x = W({}) -> y [] y = W({}) -> x
    [] IsWord(x) /\ IsWord(y) -> W(Add(x[4], y[4]))
    [] OTHER -> Term("iadd", {x, y})
vimul(x, y) ==
  IF IsWord(x) /\ IsWord(y)
  THEN W(Through(LAMBDA s, b : IF b \in y[4] THEN Add(s, Shift(x[4], b)) ELSE s, {},
                 [k \in 1..32 |-> k - 1]))
  ELSE Term("imul", {x, y})
vimnmx(ty, x, y, min) ==
  IF IsWord(x) /\ IsWord(y) THEN IF IntLess(ty, x[4], y[4]) = min THEN x ELSE y
  ELSE Term(IF min THEN "imin" ELSE "imax", {x, y})
\* Exclusive or over terms: what is added twice cancels.
XorParts(x) ==
  LET u == IF x[2] THEN vneg(x) ELSE x
      sum == ~x[3] /\ x[4][1] = "Xor"
      bits == IF sum THEN x[4][2].word ELSE {}
  IN  IF IsWord(x) THEN [terms |-> {}, word |-> x[4]]
      ELSE [terms |-> IF sum THEN x[4][2].terms ELSE {u},
            word |-> IF x[2] THEN Xor2(bits, {31}) ELSE bits]
vxor(x, y) ==
  LET terms == Xor2(XorParts(x).terms, XorParts(y).terms)
      bits == Xor2(XorParts(x).word, XorParts(y).word)
      one == CHOOSE t \in terms : TRUE
  IN  CASE terms = {} -> W(bits)
        [] Cardinality(terms) = 1 /\ bits = {} -> one
        [] Cardinality(terms) = 1 /\ bits = {31} -> vneg(one)
        [] OTHER -> Term("Xor", [terms |-> terms, word |-> bits])
vlogic(op, x, y) ==
  CASE op = "PassB" -> y
    [] IsWord(x) /\ IsWord(y) ->
         W(CASE op = "And" -> x[4] \cap y[4] [] op = "Or" -> x[4] \cup y[4]
             [] op = "Xor" -> Xor2(x[4], y[4]))
    [] op = "And" /\ y = W(0..30) -> vabs(x)
    [] op = "Xor" -> vxor(x, y)
    [] op = "Or" /\ y = W({31}) -> vneg(vabs(x))
    [] OTHER -> Term(op, {x, y})
vshl(x, y) == W(Shift(x[4], Number(y[4], 5)))
vshr(x, y, signed) ==
  LET k == Number(y[4], 5) IN
  W({b - k : b \in {c \in x[4] : c >= k}}
    \cup (IF signed /\ 31 \in x[4] THEN (32 - k)..31 ELSE {}))
viabs(x) == IF 31 \in x[4] THEN W(Neg(x[4])) ELSE x
FloatOne(c) == IF c THEN W(Bits(\h3f800000)) ELSE W({})
AllOnes(c) == IF c THEN W(Word32) ELSE W({})
Interpolate(in, addr, freq, inv) ==
  CASE freq = "PassMulW" -> Term("perspective", <<W(Bits(addr)), inv>>)
    [] freq = "Pass" /\ addr # \h7c -> Term("linear", <<W(Bits(addr))>>)
    [] OTHER -> W(in[1 + ((addr \div 4 + addr \div 16) % 4)])
Constant(in, offset) == W(in[1 + ((Number(offset, 16) \div 4 + 2) % 4)])

\* The machine: cells are registers or SSA values, and the stores.
Cell(s, c) == IF s.k = "SSA" THEN <<"SSA", s.f, CHOOSE x \in Comp(s, c).v : TRUE>>
              ELSE <<"Reg", s.f, Number(s.v, 8) + c>>
Store(addr) == <<"Attr", "GPR", addr>>
ReadComp(env, in, s, c) ==
  CASE s.k \in {"Zero", "Imm32"} -> W(s.v)
    [] s.k = "CBuf" -> Constant(in, s.v)
    [] s.k \in {"True", "False"} -> s.k = "True"
    [] OTHER -> IF Cell(s, c) \in DOMAIN env THEN env[Cell(s, c)] ELSE Term("undefined", <<>>)
Read(env, in, s) ==
  LET x == ReadComp(env, in, s, 0) IN
  IF s.f = "Pred" THEN x # (s.mod = "BNot") ELSE vmod(x, s.mod)
Compute(i, x, env, in) ==
  LET a == i.a IN
  CASE i.op = "FAdd" -> vfadd(x[1], x[2])
    [] i.op = "FMul" -> vfmul(x[1], x[2])
    [] i.op = "FMnMx" -> vfmnmx(x[1], x[2], x[3])
    [] i.op = "FSet" -> FloatOne(FloatCompare(a.cmp_op, x[1], x[2]))
    [] i.op = "FSetP" -> pred_eval(a.set_op, FloatCompare(a.cmp_op, x[1], x[2]), x[3])
    [] i.op = "ISetP" -> pred_eval(a.set_op, IntCompare(a.cmp_op, a.cmp_type, x[1], x[2]), x[3])
    [] i.op = "PSetP" -> pred_eval(a.ops[2], pred_eval(a.ops[1], x[1], x[2]), x[3])
    [] i.op = "Sel" -> IF x[1] THEN x[2] ELSE x[3]
    [] i.op = "MuFu" -> Term(a.op, <<x[1]>>)
    [] i.op = "Rro" -> Term("rro", <<a.op, x[1]>>)
    [] i.op = "F2F" -> Term("round", <<a.rnd_mode, x[1]>>)
    [] i.op = "F2I" -> Term("f2i", <<a.dst_type, x[1]>>)
    [] i.op = "I2F" -> Term("i2f", <<a.src_type, x[1]>>)
    [] i.op = "I2I" -> viabs(x[1])
    [] i.op = "IAdd2" -> viadd(x[1], x[2])
    [] i.op = "IMul" -> vimul(x[1], x[2])
    [] i.op = "IMnMx" -> vimnmx(a.cmp_type, x[1], x[2], x[3])
    [] i.op = "Lop2" -> vlogic(a.op, x[1], x[2])
    [] i.op = "Shl" -> vshl(x[1], x[2])
    [] i.op = "Shr" -> vshr(x[1], x[2], a.signed)
    [] i.op \in {"Mov", "Copy"} -> x[1]
    [] i.op = "ALd" -> Interpolate(in, a.addr, "Constant", x[1])
    [] i.op = "Ipa" -> Interpolate(in, a.addr, a.freq, x[1])
Samples == {"Tex", "Tld", "Txq"}
All(env, in, s) == [c \in 1..s.n |-> ReadComp(env, in, s, c - 1)]
execute(env, in, i) ==
  LET x == [k \in DOMAIN i.srcs |-> Read(env, in, i.srcs[k])]
      sample == [k \in DOMAIN i.srcs |-> All(env, in, i.srcs[k])]
  IN  CASE i.op \in {"Nop", "Exit", "Kill"} -> env
        [] i.op = "ASt" -> (Store(i.a.addr) :> x[3]) @@ env
        [] i.op \in Samples ->
             [cell \in {Cell(i.dsts[1], c) : c \in 0..3} |->
                LET c == CHOOSE d \in 0..3 : cell = Cell(i.dsts[1], d)
                IN  Term("sample", <<i.op, i.a, c, sample>>)] @@ env
        [] OTHER -> (Cell(i.dsts[1], 0) :> Compute(i, x, env, in)) @@ env
run(blocks, in) == Through(LAMBDA env, i : execute(env, in, i), none, Join(blocks))

(***************************************************************************)
(* The meaning of TGSI: lanes, written all at once by an instruction.      *)
(***************************************************************************)
\* Schoolbook division, highest bit first; the remainder has room to grow.
QuotRem(a, d) ==
  LET Bit(acc, b) ==
        LET r == {c + 1 : c \in acc.r} \cup (IF b \in a THEN {0} ELSE {})
            fits == ~(\E i \in d \ r : \A j \in (i + 1)..32 : (j \in r) <=> (j \in d))
        IN  IF fits THEN [q |-> acc.q \cup {b}, r |-> Add(r \ {32}, Neg(d))]
            ELSE [acc EXCEPT !.r = r]
  IN  Through(Bit, [q |-> {}, r |-> {}], [k \in 1..32 |-> 32 - k])
Magnitude32(v) == IF 31 \in v THEN Neg(v) ELSE v
tgsi_divrem(op, a, d) ==
  LET signed == op \in {"IDIV", "IMOD"}
      u == IF signed THEN QuotRem(Magnitude32(a), Magnitude32(d)) ELSE QuotRem(a, d)
      flip == IF op = "IDIV" THEN (31 \in a) # (31 \in d) ELSE 31 \in a
      v == IF op \in {"IDIV", "UDIV"} THEN u.q ELSE u.r
  IN  CASE d = {} -> IF signed THEN {} ELSE Word32
        [] signed /\ flip -> Neg(v)
        [] OTHER -> v
tgsi_div(x, y) ==
  LET m == y[4] \ {31}
      Scaled(s) == vfmul(vfmul(x, W(Bits(s))), Term("Rcp", <<vfmul(y, W(Bits(s)))>>))
  IN  CASE ~IsNan(m) /\ LessU(Bits(\h7e800000), m) -> Scaled(\h3e800000)
        [] LessU(m, Bits(\h00800000)) -> Scaled(\h4b800000)
        [] OTHER -> vfmul(x, Term("Rcp", <<y>>))
Exp2(x) == Term("Exp2", <<Term("rro", <<"Exp2", x>>)>>)
Floor(x) == Term("round", <<"NegInf", x>>)
tgsi_unary(op, x) ==
  CASE op = "MOV" -> x [] op = "ABS" -> vabs(x) [] op = "EX2" -> Exp2(x)
    [] op = "LG2" -> Term("Log2", <<x>>)
    [] op = "SIN" -> Term("Sin", <<Term("rro", <<"SinCos", x>>)>>)
    [] op = "COS" -> Term("Cos", <<Term("rro", <<"SinCos", x>>)>>)
    [] op = "RSQ" -> Term("Rsq", <<x>>) [] op = "SQRT" -> Term("Sqrt", <<x>>)
    [] op = "CEIL" -> Term("round", <<"PosInf", x>>) [] op = "FLR" -> Floor(x)
    [] op = "ROUND" -> Term("round", <<"NearestEven", x>>)
    [] op = "TRUNC" -> Term("round", <<"Zero", x>>)
    [] op = "FRC" -> vfadd(x, vneg(Floor(x)))
    [] op = "NOT" -> vmod(x, "BNot") [] op = "INEG" -> vmod(x, "INeg")
    [] op = "IABS" -> viabs(x)
    [] op = "F2I" -> Term("f2i", <<"I32", x>>) [] op = "F2U" -> Term("f2i", <<"U32", x>>)
    [] op = "I2F" -> Term("i2f", <<"I32", x>>) [] op = "U2F" -> Term("i2f", <<"U32", x>>)
tgsi_binary(op, x, y) ==
  CASE op = "ADD" -> vfadd(x, y) [] op = "SUB" -> vfadd(x, vneg(y))
    [] op = "MUL" -> vfmul(x, y) [] op = "DIV" -> tgsi_div(x, y)
    [] op = "POW" -> Exp2(vfmul(Term("Log2", <<x>>), y))
    [] op \in {"MIN", "MAX"} -> vfmnmx(x, y, op = "MIN")
    [] op = "FSEQ" -> AllOnes(FloatCompare("OrdEq", x, y))
    [] op = "FSNE" -> AllOnes(~FloatCompare("OrdEq", x, y))
    [] op = "FSGE" -> AllOnes(FloatCompare("OrdGe", x, y))
    [] op = "FSLT" -> AllOnes(FloatCompare("OrdLt", x, y))
    [] op = "SGE" -> FloatOne(FloatCompare("OrdGe", x, y))
    [] op = "USEQ" -> AllOnes(x = y) [] op = "USNE" -> AllOnes(x # y)
    [] op = "ISGE" -> AllOnes(~LessS(x[4], y[4])) [] op = "ISLT" -> AllOnes(LessS(x[4], y[4]))
    [] op = "USGE" -> AllOnes(~LessU(x[4], y[4])) [] op = "USLT" -> AllOnes(LessU(x[4], y[4]))
    [] op = "AND" -> vlogic("And", x, y) [] op = "OR" -> vlogic("Or", x, y)
    [] op = "XOR" -> vlogic("Xor", x, y)
    [] op = "UADD" -> viadd(x, y) [] op = "UMUL" -> vimul(x, y)
    [] op \in {"IMIN", "IMAX"} -> vimnmx("I32", x, y, op = "IMIN")
    [] op \in {"UMIN", "UMAX"} -> vimnmx("U32", x, y, op = "UMIN")
    [] op = "SHL" -> vshl(x, y) [] op = "ISHR" -> vshr(x, y, TRUE)
    [] op = "USHR" -> vshr(x, y, FALSE)
    [] OTHER -> W(tgsi_divrem(op, x[4], y[4]))
tgsi_ternary(op, x, y, z) ==
  IF (op = "UCMP" /\ x # W({})) \/ (op = "CMP" /\ FloatCompare("OrdLt", x, W({})))
  THEN y ELSE z

tgsi_source(arg, c, lanes, in) ==
  LET x == CASE arg.file = "IMM" -> W(arg.idx)
             [] arg.file = "CONST" -> Constant(in, Bits(16 * arg.idx + 4 * arg.swizzle[c + 1]))
             [] OTHER -> lanes[<<arg.file, arg.idx, arg.swizzle[c + 1]>>]
      m == IF arg.abs THEN vabs(x) ELSE x
  IN  IF arg.neg THEN vneg(m) ELSE m
\* A texture operation is what its lowering computes.
tgsi_texture(i, lanes, in) ==
  LET c == [k \in 1..4 |-> source(i.srcs[1], k - 1,
                                  [l \in DOMAIN lanes |-> SSA("GPR", 4000 + 4 * l[2] + l[3], 1)])]
      t == build_texture(0, i.op, i.target, i.srcs[2].idx + 8, c)
      env == [cell \in {<<"SSA", "GPR", 4000 + 4 * l[2] + l[3]>> :
                          l \in {x \in DOMAIN lanes : x[1] = i.srcs[1].file}} |->
                lanes[<<i.srcs[1].file, (cell[3] - 4000) \div 4, cell[3] % 4>>]]
      after == Through(LAMBDA e, x : execute(e, in, x), env, t.code)
  IN  [k \in 1..4 |-> after[Cell(t.res[k], 0)]]
tgsi_instr(lanes, i, in) ==
  LET X(k, c) == tgsi_source(i.srcs[k], c, lanes, in)
      Lane(c) == CASE Len(i.srcs) = 1 -> tgsi_unary(i.op, X(1, c))
                   [] Len(i.srcs) = 2 -> tgsi_binary(i.op, X(1, c), X(2, c))
                   [] Len(i.srcs) = 3 -> tgsi_ternary(i.op, X(1, c), X(2, c), X(3, c))
      LaneOf(l) == IF i.op \in TexOps THEN tgsi_texture(i, lanes, in)[l[3] + 1] ELSE Lane(l[3])
  IN  IF i.op \in {"KILL", "END"} THEN lanes
      ELSE [l \in {<<i.file, i.idx, c>> : c \in ToSet(i.mask)} |-> LaneOf(l)] @@ lanes
tgsi_input(p, d, c, in) ==
  LET addr == input_addr(p.stage, d, c)
      w == Interpolate(in, \h7c, "Pass", W({}))
  IN  CASE p.stage = "Vertex" -> Interpolate(in, addr, "Constant", W({}))
        [] d.sem = "Face" -> IF Interpolate(in, addr, "Constant", W({})) = W({})
                             THEN vneg(FloatOne(TRUE)) ELSE FloatOne(TRUE)
        [] OTHER -> Interpolate(in, addr, Freq[d.interp], tgsi_div(FloatOne(TRUE), w))
tgsi_run(p, in) ==
  LET lanes == {<<k, c>> : k \in DOMAIN p.decls, c \in 0..3}
      Name(x) == <<p.decls[x[1]].file, p.decls[x[1]].idx, x[2]>>
      First(l) == LET x == CHOOSE y \in lanes : Name(y) = l
                      d == p.decls[x[1]]
                  IN  IF d.file \in {"IN", "SV"} THEN tgsi_input(p, d, x[2], in) ELSE W({})
      used == {Name(x) : x \in lanes} \cap (consumed(p) \cup {l \in {Name(x) : x \in lanes} :
                                                                 l[1] \in {"TEMP", "OUT"}})
  IN  Through(LAMBDA e, i : tgsi_instr(e, i, in), [l \in used |-> First(l)], p.code)

(***************************************************************************)
(* The hardware's demands on the schedule: a fixed-latency result is read  *)
(* no earlier than it is there, and the accesses of a variable-latency     *)
(* operation are waited for by a barrier, which shows two cycles after the *)
(* operation that raises it.                                               *)
(***************************************************************************)
Issue(i) == IF i.deps.delay = 0 THEN 1 ELSE i.deps.delay
ReadsOf(i) == SrcRegs(i) \cup RegsOf(i.pred)
HazardFree(h, i) ==
  LET pending == {a \in h.open : a.bars \cap i.deps.wt = {}} IN
  /\ \A a \in h.open : a.bars \cap i.deps.wt # {} => h.t >= a.t + 2
  /\ \A a \in pending : a.reg \notin DstRegs(i) /\ (a.rw = "W" => a.reg \notin ReadsOf(i))
  /\ \A a \in h.fixed :
       /\ a.rw = "W" /\ a.reg \in ReadsOf(i) \cup DstRegs(i) => h.t >= a.t + a.lat
       /\ a.rw = "R" /\ a.reg \in DstRegs(i) => h.t >= a.t + war_latency
Access1(rw, r, bars, t, lat) == [rw |-> rw, reg |-> r, bars |-> bars, t |-> t, lat |-> lat]
Latency(i, r) ==
  instr_latency(i.op, i.dsts[CHOOSE k \in DOMAIN i.dsts : r \in RegsOf(i.dsts[k])])
schedule_step(h, i) ==
  LET pending == {a \in h.open : a.bars \cap i.deps.wt = {}}
      old == {a \in h.fixed : h.t < a.t + latency_upper_bound /\ a.reg \notin DstRegs(i)}
  IN  [ok |-> h.ok /\ HazardFree(h, i), t |-> h.t + Issue(i),
       open |-> IF ~needs_scoreboard(i.op) THEN pending
                ELSE pending
                     \cup {Access1("R", r, {i.deps.rd, i.deps.wr}, h.t, 0) : r \in SrcRegs(i)}
                     \cup {Access1("W", r, {i.deps.wr}, h.t, 0) : r \in DstRegs(i)},
       fixed |-> IF needs_scoreboard(i.op) THEN old
                 ELSE old \cup {Access1("R", r, {}, h.t, 0) : r \in ReadsOf(i)}
                          \cup {Access1("W", r, {}, h.t, Latency(i, r)) : r \in DstRegs(i)}]
hazard_free(blocks) ==
  Through(schedule_step, [ok |-> TRUE, t |-> 0, open |-> {}, fixed |-> {}],
          Join(blocks)).ok

(***************************************************************************)
(* Properties.                                                             *)
(***************************************************************************)
\* What the registers and stores hold at the end of the program.
Result(p, d, k, c, env) ==
  IF p.stage = "Vertex" THEN env[Store(output_addr(d, c))]
  ELSE env[<<"Reg", "GPR", 4 * (k - 1) + c>>]
AgreesOn(p, blocks, in) ==
  \A env \in {run(blocks, in)}, lanes \in {tgsi_run(p, in)} :
    LET outs == Outputs(p) IN
    \A k \in DOMAIN outs : \A c \in IF p.stage = "Vertex" THEN written(p, outs[k].idx) ELSE 0..3 :
      Result(p, outs[k], k, c, env) = lanes[<<"OUT", outs[k].idx, c>>]
\* The code that comes out of all passes (lower.rs, alu.rs, api.rs) leaves in
\* every output what the TGSI program says, whatever the inputs: copies of
\* modified operands, shared vector components, swapped operands and division
\* keep their meaning.
ComputesTgsi ==
  pass = "done" => \A in \in Inputs : AgreesOn(prog, code, in)

\* The scheduled code (calc_instr_deps.rs) has no data hazard: no operation
\* reads a result that is not there, or overwrites an operand still to be read.
NoHazard == pass = "done" => hazard_free(code)

\* The kernel's verifier (verify.rs) accepts every program the compiler makes,
\* with the metadata the backend reads out of the compiler's header; and the
\* header it makes of them, from the package, is the compiler's, but for the
\* sharing of input and output space, which the kernel leaves disabled.
Limits == [cb_sizes |-> [b \in 0..31 |-> MAX_CB_SIZE], resources |-> 0..63]
VerifierAccepts ==
  pass = "done" =>
    \A h \in {encode_header(prog, code)} :
      \A q \in {parse(encode_into(encode_program(prog, code, h), word))} :
        /\ q.ok /\ validate(q.m, word, Limits).err = "None"
        /\ header(q.m) = h \ {25}

\* The programs that are lost in the back end.  A negated immediate integer is
\* taken for one the encoder can hold; the operand of a rounding is checked as
\* a short float where the encoder wants a short integer; and a sum with
\* negative zero is propagated as a sign change into the second operand of a
\* multiplication, which has no bit for it.
Rounding == {"CEIL", "FLR", "ROUND", "TRUNC", "FRC"}
Defs(p, s) == {i \in ToSet(p.code) : i.file = s.file /\ i.idx = s.idx}
Immediate(p, s) ==
  s.file = "IMM" \/ \E i \in Defs(p, s) : i.op = "MOV" /\ i.srcs[1].file = "IMM"
SignChange(p, s) ==
  \E i \in Defs(p, s) : /\ i.op \in {"ADD", "SUB"}
                        /\ \E x \in ToSet(i.srcs) : x.file = "IMM" /\ x.idx = {31}
KnownGap(p) ==
  \E i \in ToSet(p.code) :
    \/ /\ i.op \in Rounding \cup {"INEG", "IDIV", "IMOD", "UDIV", "UMOD"}
       /\ \E x \in ToSet(i.srcs) : Immediate(p, x)
    \/ i.op = "MUL" /\ SignChange(p, i.srcs[2])
\* Every program the front end accepts is compiled: legalize.rs leaves each
\* operation with operands and modifiers that sm50.rs can encode and asserts
\* nothing about that does not hold, but for the operations above.  The back
\* end's validation refuses only what two outputs for one colour target are.
SharedTarget(p) ==
  \E k, l \in DOMAIN Outputs(p) : k # l /\ Outputs(p)[k].loc = Outputs(p)[l].loc
Compiles == /\ pass = "panic" => KnownGap(prog)
            /\ pass = "invalid" => prog.stage = "Fragment" /\ SharedTarget(prog)
\* The same without exceptions: "Compile an arbitrary supported graphics entry
\* point" (userspace/sgfx-shader-maxwell/src/lib.rs).
EveryProgramCompiles == pass # "panic"
=============================================================================
