------------------------------- MODULE NakIr -------------------------------
(***************************************************************************)
(* The intermediate representation of the NAK shader compiler              *)
(* (shared/sgfx-nak/src/ir.rs): the values, sources and destinations an    *)
(* instruction is made of, the table of its operations, and the predicates *)
(* the passes ask of an operation.                                         *)
(*                                                                         *)
(* A 32-bit word is the set of its one bits, so that immediates, register  *)
(* numbers and constant buffer offsets keep their width.  A source is a    *)
(* record of its reference (kind k, register file f, word or number v,     *)
(* components or buffer index n) and its modifier; a destination has the   *)
(* same form without a modifier.  Half-float swizzles belong to operations *)
(* that this shader model does not encode and are left out.                *)
(***************************************************************************)
EXTENDS Integers, Sequences, FiniteSets

(***************************************************************************)
(* The fold of op over a sequence from its front, in runs of sixteen       *)
(* elements: the programs are long, and a run ends with its value.         *)
(***************************************************************************)
Through(op(_, _), base, s) ==
  LET Run(acc, lo) ==
        LET g[i \in (lo - 1)..Len(s)] ==
              IF i < lo THEN acc ELSE CHOOSE x \in {op(a, s[i]) : a \in {g[i - 1]}} : TRUE
        IN  g[IF lo + 15 < Len(s) THEN lo + 15 ELSE Len(s)]
      f[c \in 0..(Len(s) \div 16)] ==
        CHOOSE x \in {Run(a, 16 * c + 1) : a \in {IF c = 0 THEN base ELSE f[c - 1]}} : TRUE
  IN  f[Len(s) \div 16]
\* The sequences of a sequence, one after the other.
Join(ss) == Through(LAMBDA acc, s : acc \o s, <<>>, ss)

(***************************************************************************)
(* Words.                                                                  *)
(***************************************************************************)
Pow2 == [i \in 0..30 |-> 2^i]
Bits(n) == {i \in 0..30 : (n \div Pow2[i]) % 2 = 1}
Word32 == 0..31
\* The words of the first 2^w numbers.
Number(v, w) == LET p[i \in 0..w] == IF i = 0 THEN 0
                                     ELSE p[i-1] + IF (i-1) \in v THEN 2^(i-1) ELSE 0
                IN  p[w]

BitNot(v) == Word32 \ v
Xor2(a, b) == (a \cup b) \ (a \cap b)
\* Addition: the carries move up until none is left.
RECURSIVE Ripple(_, _)
Ripple(a, b) ==
  IF b = {} THEN a ELSE Ripple(Xor2(a, b), {i + 1 : i \in (a \cap b) \ {31}})
Add(a, b) == Ripple(a, b)
Neg(v) == Ripple(BitNot(v), {0})
Shift(v, k) == {i + k : i \in v} \cap Word32
LessU(a, b) == \E i \in b \ a : \A j \in (i+1)..31 : (j \in a) <=> (j \in b)
LessS(a, b) == LessU(Xor2(a, {31}), Xor2(b, {31}))

(***************************************************************************)
(* Sources and destinations.                                               *)
(***************************************************************************)
SrcRef(k, f, v, n) == [k |-> k, f |-> f, v |-> v, n |-> n, mod |-> "None"]
Zero == SrcRef("Zero", "GPR", {}, 1)
True == SrcRef("True", "Pred", {}, 1)
False == SrcRef("False", "Pred", {}, 1)
Imm32(v) == IF v = {} THEN Zero ELSE SrcRef("Imm32", "GPR", v, 1)
CBuf(b, v) == SrcRef("CBuf", "GPR", v, b)
\* A vector of SSA values has their numbers, 4096 apart for each component.
SSAVec(f, ids) == SrcRef("SSA", f, {4096 * (c - 1) + ids[c] : c \in DOMAIN ids}, Len(ids))
SSA(f, i, n) == SSAVec(f, [c \in 1..n |-> i + c - 1])
\* The value of component c, from 0.
Comp(s, c) == SrcRef("SSA", s.f, {x - 4096 * c : x \in {y \in s.v : y \div 4096 = c}}, 1)
Reg(f, i, n) == SrcRef("Reg", f, Bits(i), n)
DstNone == SrcRef("None", "GPR", {}, 0)
Bool(b) == IF b THEN True ELSE False

is_alu(s) == \/ s.k \in {"Zero", "Imm32", "CBuf"}
             \/ s.k \in {"SSA", "Reg"} /\ s.f = "GPR"
is_predicate(s) == \/ s.k \in {"True", "False"}
                   \/ s.k \in {"SSA", "Reg"} /\ s.f = "Pred"
is_unmodified(s) == s.mod = "None"

FMods == {"None", "FAbs", "FNeg", "FNegAbs"}
\* Modifiers compose; a modifier of another kind panics.
fabs(m) == IF m \in FMods THEN "FAbs" ELSE "panic"
fneg(m) == CASE m = "None" -> "FNeg" [] m = "FAbs" -> "FNegAbs"
             [] m = "FNeg" -> "None" [] m = "FNegAbs" -> "FAbs" [] OTHER -> "panic"
ineg(m) == CASE m = "None" -> "INeg" [] m = "INeg" -> "None" [] OTHER -> "panic"
bnot(m) == CASE m = "None" -> "BNot" [] m = "BNot" -> "None" [] OTHER -> "panic"
modify(m, other) ==
  CASE other = "None" -> m
    [] other = "FAbs" -> fabs(m)
    [] other = "FNeg" -> fneg(m)
    [] other = "FNegAbs" -> fneg(fabs(m))
    [] other = "INeg" -> ineg(m)
    [] other = "BNot" -> bnot(m)
has_fneg(m) == m \in {"FNeg", "FNegAbs"}
has_fabs(m) == m \in {"FAbs", "FNegAbs"}

\* The word of an immediate source of type ty, as a set of at most one word: a
\* negated integer immediate has none, its negation may need a 33rd bit.
as_u32(s, ty) ==
  IF s.k \notin {"Zero", "Imm32"} \/ (ty = "I32" /\ ~is_unmodified(s)) THEN {}
  ELSE CASE s.mod = "None" -> {s.v}
         [] s.mod = "FAbs" -> {s.v \ {31}}
         [] s.mod = "FNeg" -> {Xor2(s.v, {31})}
         [] s.mod = "FNegAbs" -> {s.v \cup {31}}
         [] s.mod = "BNot" -> {BitNot(s.v)}
         [] OTHER -> {}
as_bool(s) == CASE s.k = "True" -> {s.mod # "BNot"}
                [] s.k = "False" -> {s.mod = "BNot"}
                [] OTHER -> {}
\* The immediates the 20-bit forms cannot hold: a sign-extended integer, and
\* the top of a float.
as_imm_not_i20(s) == s.k = "Imm32" /\ s.v \cap 19..31 \notin {{}, 19..31}
as_imm_not_f20(s) == s.k = "Imm32" /\ s.v \cap 0..11 # {}
\* What both helpers assert of the source they are given.
imm_unmodified(s) == s.k = "Imm32" => is_unmodified(s)
is_zero(s) == s.k \in {"Zero", "Imm32"} /\ s.v = {} /\ s.mod \in {"None", "FAbs"}
is_fneg_zero(s, ty) == ty \in {"F32", "F64"} /\ as_u32(s, ty) = {{31}}

is_fp16(ty) == ty \in {"F16", "F16v2"}
eq_ftz_mod(a, b) == a = b \/ (is_fp16(a) /\ is_fp16(b))

(***************************************************************************)
(* The values of the attributes.  The sets stand for the enums of the      *)
(* source; a payload (a texture slot, a scope) is part of the name or a    *)
(* field of a record.                                                      *)
(***************************************************************************)
PredSetOp == {"And", "Or", "Xor"}
FloatCmpOp == {"OrdEq", "OrdNe", "OrdLt", "OrdLe", "OrdGt", "OrdGe",
               "UnordEq", "UnordNe", "UnordLt", "UnordLe", "UnordGt",
               "UnordGe", "IsNum", "IsNan"}
IntCmpOp == {"False", "True", "Eq", "Ne", "Lt", "Le", "Gt", "Ge"}
IntCmpType == {"U32", "I32"}
LogicOp2 == {"And", "Or", "Xor", "PassB"}
FloatType == {"F16", "F32", "F64"}
FRndMode == {"NearestEven", "NegInf", "PosInf", "Zero"}
TexRef == {[k |-> "Bound", v |-> {}], [k |-> "Bound", v |-> {0, 12}],
           [k |-> "CBuf", v |-> {3}], [k |-> "Bindless", v |-> {}]}
TexDim == {"_1D", "Array1D", "_2D", "Array2D", "_3D", "Cube", "ArrayCube"}
TexLodMode == {"Auto", "Zero", "Bias", "Lod", "Clamp", "BiasClamp"}
TexDerivMode == {"Auto", "NonDivergent", "ForceDivergent", "DerivXY"}
TexOffsetMode == {"None", "AddOffI", "PerPx"}
TexQuery == {"Dimension", "TextureType", "SamplerPos"}
ImageDim == {"_1D", "_1DBuffer", "_1DArray", "_2D", "_2DArray", "_3D"}
IntType == {"U8", "I8", "U16", "I16", "U32", "I32", "U64", "I64"}
MemType == {"U8", "I8", "U16", "I16", "B32", "B64", "B128"}
MemOrder == {"Constant", "Weak", "StrongCTA", "StrongGPU", "StrongSystem"}
MemScope == {"CTA", "GPU", "System"}
MemSpace == {"GlobalA32", "GlobalA64", "Local", "Shared"}
MemEvictionPriority == {"First", "Normal", "Last", "LastUse", "Unchanged",
                        "NoAllocate"}
LdCacheOp == {"CacheAll", "CacheGlobal", "CacheIncoherent", "CacheStreaming",
              "CacheInvalidate"}
StCacheOp == {"WriteBack", "CacheGlobal", "CacheStreaming", "WriteThrough"}
AtomType == {"F16v2", "U32", "I32", "F32", "U64", "I64", "F64"}
AtomOp == {"Add", "Min", "Max", "Inc", "Dec", "And", "Or", "Xor", "Exch",
           "CmpExchSeparate", "CmpExchPacked"}
InterpFreq == {"Pass", "PassMulW", "Constant", "State"}
InterpLoc == {"Default", "Centroid", "Offset"}
FSwzAddOp == {"Add", "SubRight", "SubLeft", "MoveLeft"}
FSwzShuffle == {"Quad0", "Quad1", "Quad2", "Quad3", "SwapHorizontal",
                "SwapVertical"}
RroOp == {"SinCos", "Exp2"}
MuFuOp == {"Cos", "Sin", "Exp2", "Log2", "Rcp", "Rsq", "Rcp64H", "Rsq64H",
           "Sqrt", "Tanh"}
ImmaSize == {"M8N8K16", "M8N8K32", "M16N8K16", "M16N8K32", "M16N8K64"}
HmmaSize == {"M16N8K16", "M16N8K8", "M16N8K4"}
ShflOp == {"Idx", "Up", "Down", "Bfly"}
PrmtMode == {"Index", "Forward4Extract", "Backward4Extract", "Replicate8",
             "EdgeClampLeft", "EdgeClampRight", "Replicate16"}
ReduxOp == {"And", "Or", "Xor", "Sum", "MinU32", "MinI32", "MaxU32", "MaxI32"}
ImageAccess == {[k |-> "Binary", t |-> t, m |-> {}] : t \in MemType}
                 \cup {[k |-> "Formatted", t |-> "B32", m |-> m] : m \in {{0}, {0, 1}, 0..3}}
SuClampMode == {"StoredInDescriptor", "PitchLinear", "BlockLinear"}
SuClampRound == {"R1", "R2", "R4", "R8", "R16"}
IMadSpMode == {"FromSrc1"} \cup {"ExplicitU32", "ExplicitS24"}
SuGaOffsetMode == {"U32", "S32", "U8", "S8"}
OffsetStride == {"X1", "X4", "X8", "X16"}
LdcMode == {"Indexed", "IndexedLinear", "IndexedSegmented",
            "IndexedSegmentedLinear"}
LdsmSize == {"M8N8", "MT8N8"}
CCtlOp == {"Qry1", "PF1", "PF1_5", "PF2", "WB", "IV", "IVAll", "RS", "RSLB",
           "IVAllP", "WBAll", "WBAllP"}
IsbeAccessType == {"Map", "Patch", "Primitive", "Attribute"}
PixVal == {"MsCount", "CovMask", "Covered", "Offset", "CentroidOffset",
           "MyIndex", "InnerCoverage"}
VoteOp == {"Any", "All", "Eq"}
MatchOp == {"All", "Any"}
OutType == {"Emit", "Cut", "EmitThenCut"}
LogicOp3 == SUBSET (0..7)
ChannelMask == {{0}, {1, 3}, {0, 1, 2}, 0..3}
FSwzAddOps == {[l \in 1..4 |-> o] : o \in FSwzAddOp}
                \cup {<<"Add", "SubLeft", "SubRight", "MoveLeft">>}
Label == {0, 1}

FloatFlip == [OrdLt |-> "OrdGt", OrdLe |-> "OrdGe", OrdGt |-> "OrdLt",
              OrdGe |-> "OrdLe", UnordLt |-> "UnordGt", UnordLe |-> "UnordGe",
              UnordGt |-> "UnordLt", UnordGe |-> "UnordLe"]
IntFlip == [Lt |-> "Gt", Le |-> "Ge", Gt |-> "Lt", Ge |-> "Le"]
float_flip(c) == IF c \in DOMAIN FloatFlip THEN FloatFlip[c] ELSE c
int_flip(c) == IF c \in DOMAIN IntFlip THEN IntFlip[c] ELSE c
\* The accumulator of a comparison that leaves its result alone.
is_trivial(op, accum) == as_bool(accum) = {op = "And"}
pred_eval(op, a, b) ==
  CASE op = "And" -> a /\ b [] op = "Or" -> a \/ b [] op = "Xor" -> a # b
type_bits(t) == CASE t \in {"U8", "I8"} -> 8 [] t \in {"U16", "I16", "F16"} -> 16
                  [] t \in {"U32", "I32", "F32", "B32", "F16v2"} -> 32
                  [] t = "B128" -> 128 [] OTHER -> 64
is_signed(t) == t \in {"I8", "I16", "I32", "I64"}
\* Cache operations of shader models from 50 on.
ld_cache_op(space, order) ==
  CASE space \in {"Local", "Shared"} -> "CacheAll"
    [] order = "Constant" -> "CacheIncoherent"
    [] order = "StrongSystem" -> "CacheInvalidate"
    [] OTHER -> "CacheAll"
st_cache_op(space, order) ==
  IF space \notin {"Local", "Shared"} /\ order = "StrongSystem"
  THEN "WriteThrough" ELSE "WriteBack"
(***************************************************************************)
(* The operations: the types of the sources and of the destinations in     *)
(* the order of the slices the passes walk, and the values of the          *)
(* attributes.  Operations with a list of operands (phis, parallel copies, *)
(* RegOut) carry it in the instruction.                                    *)
(***************************************************************************)
Op(srcs, dsts, attrs) == [srcs |-> srcs, dsts |-> dsts, attrs |-> attrs]

OpFAdd == Op(<<"F32", "F32">>, <<"F32">>,
       [saturate |-> BOOLEAN, rnd_mode |-> FRndMode, ftz |-> BOOLEAN])
OpFFma == Op(<<"F32", "F32", "F32">>, <<"F32">>,
       [saturate |-> BOOLEAN, rnd_mode |-> FRndMode, ftz |-> BOOLEAN,
        dnz |-> BOOLEAN])
OpFMnMx == Op(<<"F32", "F32", "Pred">>, <<"F32">>, [ftz |-> BOOLEAN])
OpFMul == Op(<<"F32", "F32">>, <<"F32">>,
       [saturate |-> BOOLEAN, rnd_mode |-> FRndMode, ftz |-> BOOLEAN,
        dnz |-> BOOLEAN])
OpFSet == Op(<<"F32", "F32">>, <<"F32">>,
       [cmp_op |-> FloatCmpOp, ftz |-> BOOLEAN])
OpFSetP == Op(<<"F32", "F32", "Pred">>, <<"Pred">>,
       [set_op |-> PredSetOp, cmp_op |-> FloatCmpOp, ftz |-> BOOLEAN])
OpFSwzAdd == Op(<<"GPR", "GPR">>, <<"F32">>,
       [rnd_mode |-> FRndMode, ftz |-> BOOLEAN, deriv_mode |-> TexDerivMode,
        ops |-> FSwzAddOps])
OpFSwz == Op(<<"GPR", "GPR">>, <<"F32">>,
       [rnd_mode |-> FRndMode, ftz |-> BOOLEAN, deriv_mode |-> TexDerivMode,
        shuffle |-> FSwzShuffle, ops |-> FSwzAddOps])
OpRro == Op(<<"F32">>, <<"F32">>, [op |-> RroOp])
OpMuFu == Op(<<"GPR">>, <<"F32">>, [op |-> MuFuOp, op_type |-> FloatType])
OpDAdd == Op(<<"F64", "F64">>, <<"F64">>, [rnd_mode |-> FRndMode])
OpDMul == Op(<<"F64", "F64">>, <<"F64">>, [rnd_mode |-> FRndMode])
OpDFma == Op(<<"F64", "F64", "F64">>, <<"F64">>, [rnd_mode |-> FRndMode])
OpDMnMx == Op(<<"F64", "F64", "Pred">>, <<"F64">>, <<>>)
OpDSetP == Op(<<"F64", "F64", "Pred">>, <<"Pred">>,
       [set_op |-> PredSetOp, cmp_op |-> FloatCmpOp])
OpHAdd2 == Op(<<"F16v2", "F16v2">>, <<"F16v2">>,
       [saturate |-> BOOLEAN, ftz |-> BOOLEAN, f32 |-> BOOLEAN])
OpHSet2 == Op(<<"F16v2", "F16v2", "Pred">>, <<"F16v2">>,
       [set_op |-> PredSetOp, cmp_op |-> FloatCmpOp, ftz |-> BOOLEAN])
OpHSetP2 == Op(<<"F16v2", "F16v2", "Pred">>, <<"Pred", "Pred">>,
       [set_op |-> PredSetOp, cmp_op |-> FloatCmpOp, ftz |-> BOOLEAN,
        horizontal |-> BOOLEAN])
OpHMul2 == Op(<<"F16v2", "F16v2">>, <<"F16v2">>,
       [saturate |-> BOOLEAN, ftz |-> BOOLEAN, dnz |-> BOOLEAN])
OpImma == Op(<<"SSA", "SSA", "SSA">>, <<"Vec">>,
       [mat_size |-> ImmaSize, src_types |-> IntType \X IntType,
        saturate |-> BOOLEAN])
OpHmma == Op(<<"SSA", "SSA", "SSA">>, <<"Vec">>,
       [mat_size |-> HmmaSize, src_type |-> FloatType,
        dst_type |-> FloatType])
OpHFma2 == Op(<<"F16v2", "F16v2", "F16v2">>, <<"F16v2">>,
       [saturate |-> BOOLEAN, ftz |-> BOOLEAN, dnz |-> BOOLEAN,
        f32 |-> BOOLEAN])
OpHMnMx2 == Op(<<"F16v2", "F16v2", "Pred">>, <<"F16v2">>, [ftz |-> BOOLEAN])
OpBMsk == Op(<<"ALU", "ALU">>, <<"GPR">>, [wrap |-> BOOLEAN])
OpBRev == Op(<<"ALU">>, <<"GPR">>, <<>>)
OpBfe == Op(<<"ALU", "ALU">>, <<"GPR">>,
       [signed |-> BOOLEAN, reverse |-> BOOLEAN])
OpFlo == Op(<<"ALU">>, <<"GPR">>,
       [signed |-> BOOLEAN, return_shift_amount |-> BOOLEAN])
OpIAbs == Op(<<"ALU">>, <<"GPR">>, <<>>)
OpIAdd2 == Op(<<"I32", "I32">>, <<"GPR", "Carry">>, <<>>)
OpIAdd2X == Op(<<"B32", "B32", "Carry">>, <<"GPR", "Carry">>, <<>>)
OpIAdd3 == Op(<<"I32", "I32", "I32">>, <<"GPR", "Pred", "Pred">>, <<>>)
OpIAdd3X == Op(<<"B32", "B32", "B32", "Pred", "Pred">>,
               <<"GPR", "Pred", "Pred">>, <<>>)
OpIDp4 == Op(<<"I32", "I32", "I32">>, <<"GPR">>,
       [src_types |-> IntType \X IntType])
OpIMad == Op(<<"ALU", "ALU", "ALU">>, <<"GPR">>, [signed |-> BOOLEAN])
OpIMul == Op(<<"ALU", "ALU">>, <<"GPR">>,
       [signed |-> BOOLEAN \X BOOLEAN, high |-> BOOLEAN])
OpIMad64 == Op(<<"ALU", "ALU", "ALU">>, <<"Vec">>, [signed |-> BOOLEAN])
OpIMnMx == Op(<<"ALU", "ALU", "Pred">>, <<"GPR">>, [cmp_type |-> IntCmpType])
OpISetP == Op(<<"ALU", "ALU", "Pred", "Pred">>, <<"Pred">>,
       [set_op |-> PredSetOp, cmp_op |-> IntCmpOp, cmp_type |-> IntCmpType,
        ex |-> BOOLEAN])
OpLea == Op(<<"ALU", "I32">>, <<"GPR", "Pred">>,
       [shift |-> 0..3, dst_high |-> BOOLEAN])
OpLeaX == Op(<<"ALU", "B32", "Pred">>, <<"GPR", "Pred">>,
       [shift |-> 0..3, dst_high |-> BOOLEAN])
OpLop2 == Op(<<"B32", "B32">>, <<"GPR">>, [op |-> LogicOp2])
OpLop3 == Op(<<"ALU", "ALU", "ALU">>, <<"GPR">>, [op |-> LogicOp3])
OpShf == Op(<<"GPR", "ALU", "ALU">>, <<"GPR">>,
       [right |-> BOOLEAN, wrap |-> BOOLEAN, data_type |-> IntType,
        dst_high |-> BOOLEAN])
OpShl == Op(<<"GPR", "ALU">>, <<"GPR">>, [wrap |-> BOOLEAN])
OpShr == Op(<<"GPR", "ALU">>, <<"GPR">>,
       [wrap |-> BOOLEAN, signed |-> BOOLEAN])
OpF2F == Op(<<"GPR">>, <<"Vec">>,
       [src_type |-> FloatType, dst_type |-> FloatType,
        rnd_mode |-> FRndMode, ftz |-> BOOLEAN, integer_rnd |-> BOOLEAN])
OpF2FP == Op(<<"ALU", "ALU">>, <<"GPR">>, [rnd_mode |-> FRndMode])
OpF2I == Op(<<"GPR">>, <<"GPR">>,
       [src_type |-> FloatType, dst_type |-> IntType, rnd_mode |-> FRndMode,
        ftz |-> BOOLEAN])
OpI2F == Op(<<"GPR">>, <<"Vec">>,
       [dst_type |-> FloatType, src_type |-> IntType, rnd_mode |-> FRndMode])
OpI2I == Op(<<"ALU">>, <<"GPR">>,
       [src_type |-> IntType, dst_type |-> IntType, saturate |-> BOOLEAN,
        abs |-> BOOLEAN, neg |-> BOOLEAN])
OpFRnd == Op(<<"GPR">>, <<"F32">>,
       [dst_type |-> FloatType, src_type |-> FloatType,
        rnd_mode |-> FRndMode, ftz |-> BOOLEAN])
OpMov == Op(<<"ALU">>, <<"GPR">>, [quad_lanes |-> 0..3])
OpMovm == Op(<<"GPR">>, <<"Vec">>, <<>>)
OpPrmt == Op(<<"ALU", "ALU", "ALU">>, <<"GPR">>, [mode |-> PrmtMode])
OpSel == Op(<<"Pred", "ALU", "ALU">>, <<"GPR">>, <<>>)
OpSgxt == Op(<<"ALU", "ALU">>, <<"GPR">>, [signed |-> BOOLEAN])
OpShfl == Op(<<"SSA", "ALU", "ALU">>, <<"GPR", "Pred">>, [op |-> ShflOp])
OpPLop3 == Op(<<"Pred", "Pred", "Pred">>, <<"Pred", "Pred">>,
       [ops |-> LogicOp3 \X LogicOp3])
OpPSetP == Op(<<"Pred", "Pred", "Pred">>, <<"Pred", "Pred">>,
       [ops |-> PredSetOp \X PredSetOp])
OpPopC == Op(<<"B32">>, <<"GPR">>, <<>>)
OpR2UR == Op(<<"GPR">>, <<"GPR">>, <<>>)
OpRedux == Op(<<"GPR">>, <<"GPR">>, [op |-> ReduxOp])
OpTex == Op(<<"SSA", "SSA">>, <<"Vec", "Vec", "Vec">>,
       [tex |-> TexRef, dim |-> TexDim, lod_mode |-> TexLodMode,
        deriv_mode |-> TexDerivMode, z_cmpr |-> BOOLEAN,
        offset_mode |-> TexOffsetMode,
        mem_eviction_priority |-> MemEvictionPriority, nodep |-> BOOLEAN,
        channel_mask |-> ChannelMask, scalar |-> BOOLEAN])
OpTld == Op(<<"SSA", "SSA">>, <<"Vec", "Vec", "Vec">>,
       [tex |-> TexRef, dim |-> TexDim, is_ms |-> BOOLEAN,
        lod_mode |-> TexLodMode, offset_mode |-> TexOffsetMode,
        mem_eviction_priority |-> MemEvictionPriority, nodep |-> BOOLEAN,
        channel_mask |-> ChannelMask, scalar |-> BOOLEAN])
OpTld4 == Op(<<"SSA", "SSA">>, <<"Vec", "Vec", "Vec">>,
       [tex |-> TexRef, dim |-> TexDim, comp |-> 0..3,
        offset_mode |-> TexOffsetMode, z_cmpr |-> BOOLEAN,
        mem_eviction_priority |-> MemEvictionPriority, nodep |-> BOOLEAN,
        channel_mask |-> ChannelMask, scalar |-> BOOLEAN])
OpTmml == Op(<<"SSA", "SSA">>, <<"Vec", "Vec">>,
       [tex |-> TexRef, dim |-> TexDim, deriv_mode |-> TexDerivMode,
        nodep |-> BOOLEAN, channel_mask |-> ChannelMask])
OpTxd == Op(<<"SSA", "SSA">>, <<"Vec", "Vec", "Vec">>,
       [tex |-> TexRef, dim |-> TexDim, offset_mode |-> TexOffsetMode,
        mem_eviction_priority |-> MemEvictionPriority, nodep |-> BOOLEAN,
        channel_mask |-> ChannelMask])
OpTxq == Op(<<"SSA">>, <<"Vec", "Vec">>,
       [tex |-> TexRef, query |-> TexQuery, nodep |-> BOOLEAN,
        channel_mask |-> ChannelMask])
OpSuLd == Op(<<"SSA", "SSA">>, <<"Vec", "Vec">>,
       [image_access |-> ImageAccess, image_dim |-> ImageDim,
        mem_order |-> MemOrder,
        mem_eviction_priority |-> MemEvictionPriority])
OpSuSt == Op(<<"SSA", "SSA", "SSA">>, <<>>,
       [image_access |-> ImageAccess, image_dim |-> ImageDim,
        mem_order |-> MemOrder,
        mem_eviction_priority |-> MemEvictionPriority])
OpSuAtom == Op(<<"SSA", "SSA", "SSA">>, <<"Vec", "Vec">>,
       [image_dim |-> ImageDim, atom_op |-> AtomOp, atom_type |-> AtomType,
        mem_order |-> MemOrder,
        mem_eviction_priority |-> MemEvictionPriority])
OpSuClamp == Op(<<"GPR", "ALU">>, <<"GPR", "Pred">>,
       [mode |-> SuClampMode, round |-> SuClampRound, is_s32 |-> BOOLEAN,
        is_2d |-> BOOLEAN, imm |-> 0..1])
OpSuBfm == Op(<<"ALU", "ALU", "ALU">>, <<"GPR", "Pred">>, [is_3d |-> BOOLEAN])
OpSuEau == Op(<<"GPR", "ALU", "GPR">>, <<"GPR">>, <<>>)
OpIMadSp == Op(<<"ALU", "ALU", "ALU">>, <<"GPR">>, [mode |-> IMadSpMode])
OpSuLdGa == Op(<<"GPR", "SSA", "Pred">>, <<"Vec">>,
       [mem_type |-> MemType, offset_mode |-> SuGaOffsetMode,
        cache_op |-> LdCacheOp])
OpSuStGa == Op(<<"GPR", "SSA", "SSA", "Pred">>, <<>>,
       [image_access |-> ImageAccess, offset_mode |-> SuGaOffsetMode,
        cache_op |-> StCacheOp])
OpLd == Op(<<"GPR", "GPR", "Pred">>, <<"Vec">>,
       [offset |-> {0, 16}, stride |-> OffsetStride, mem_type |-> MemType, space |-> MemSpace,
        order |-> MemOrder, eviction_priority |-> MemEvictionPriority])
OpLdc == Op(<<"ALU", "GPR">>, <<"Vec">>,
       [mode |-> LdcMode, mem_type |-> MemType])
OpLdcg == Op(<<"GPR", "Pred">>, <<"Vec">>,
       [offset |-> {0, 16}, mem_type |-> MemType])
OpLdsm == Op(<<"SSA", "SSA">>, <<"Vec">>,
       [mat_size |-> LdsmSize, mat_count |-> 0..3, offset |-> {0, 16}])
OpLdSharedLock == Op(<<"GPR">>, <<"Vec", "Pred">>,
       [offset |-> {0, 16}, mem_type |-> MemType])
OpSt == Op(<<"GPR", "SSA", "GPR">>, <<>>,
       [offset |-> {0, 16}, stride |-> OffsetStride, mem_type |-> MemType, space |-> MemSpace,
        order |-> MemOrder, eviction_priority |-> MemEvictionPriority])
OpStSCheckUnlock == Op(<<"GPR", "SSA">>, <<"Pred">>,
       [offset |-> {0, 16}, mem_type |-> MemType])
OpAtom == Op(<<"GPR", "GPR", "GPR", "SSA">>, <<"Vec">>,
       [atom_op |-> AtomOp, atom_type |-> AtomType, addr_offset |-> {0, 16},
        addr_stride |-> OffsetStride, mem_space |-> MemSpace,
        mem_order |-> MemOrder,
        mem_eviction_priority |-> MemEvictionPriority])
OpAL2P == Op(<<"GPR">>, <<"Vec">>,
       [addr |-> {0, 128}, comps |-> 1..4, output |-> BOOLEAN])
OpALd == Op(<<"GPR", "GPR">>, <<"Vec">>,
       [addr |-> {0, 128}, comps |-> 1..4, patch |-> BOOLEAN,
        output |-> BOOLEAN, phys |-> BOOLEAN])
OpASt == Op(<<"GPR", "GPR", "SSA">>, <<>>,
       [addr |-> {0, 128}, comps |-> 1..4, patch |-> BOOLEAN,
        phys |-> BOOLEAN])
OpIpa == Op(<<"GPR", "GPR">>, <<"Vec">>,
       [addr |-> {0, 128}, freq |-> InterpFreq, loc |-> InterpLoc])
OpLdTram == Op(<<>>, <<"Vec">>, [addr |-> {0, 128}, use_c |-> BOOLEAN])
OpCCtl == Op(<<"GPR">>, <<>>,
       [op |-> CCtlOp, mem_space |-> MemSpace, addr_offset |-> {0, 16}])
OpMemBar == Op(<<>>, <<>>, [scope |-> MemScope])
OpBClear == Op(<<>>, <<"Vec">>, <<>>)
OpBMov == Op(<<"GPR">>, <<"Vec">>, [clear |-> BOOLEAN])
OpBreak == Op(<<"Bar", "Pred">>, <<"Bar">>, <<>>)
OpBSSy == Op(<<"Pred", "Pred">>, <<"Bar">>, [target |-> Label])
OpBSync == Op(<<"Bar", "Pred">>, <<>>, <<>>)
OpBra == Op(<<"Pred">>, <<>>, [target |-> Label])
OpSSy == Op(<<>>, <<>>, [target |-> Label])
OpSync == Op(<<>>, <<>>, [target |-> Label])
OpBrk == Op(<<>>, <<>>, [target |-> Label])
OpPBk == Op(<<>>, <<>>, [target |-> Label])
OpCont == Op(<<>>, <<>>, [target |-> Label])
OpPCnt == Op(<<>>, <<>>, [target |-> Label])
OpExit == Op(<<>>, <<>>, <<>>)
OpWarpSync == Op(<<>>, <<>>, [mask |-> {0, 1}])
OpBar == Op(<<>>, <<>>, <<>>)
OpTexDepBar == Op(<<>>, <<>>, [textures_left |-> 0..3])
OpCS2R == Op(<<>>, <<"Vec">>, [idx |-> 0..3])
OpIsberd == Op(<<"GPR">>, <<"GPR">>,
       [imm_offset |-> {0, 128}, mem_type |-> MemType,
        access_type |-> IsbeAccessType, output |-> BOOLEAN, skew |-> BOOLEAN])
OpIsbewr == Op(<<"GPR", "GPR">>, <<>>,
       [imm_offset |-> {0, 128}, mem_type |-> MemType,
        access_type |-> IsbeAccessType, output |-> BOOLEAN, skew |-> BOOLEAN])
OpViLd == Op(<<"SSA">>, <<"GPR">>, [off |-> 0..1])
OpKill == Op(<<>>, <<>>, <<>>)
OpNop == Op(<<>>, <<>>, [label |-> Label])
OpPixLd == Op(<<>>, <<"Vec">>, [val |-> PixVal])
OpS2R == Op(<<>>, <<"Vec">>, [idx |-> 0..3])
OpVote == Op(<<"Pred">>, <<"GPR", "Pred">>, [op |-> VoteOp])
OpMatch == Op(<<"GPR">>, <<"Pred", "GPR">>, [op |-> MatchOp, u64 |-> BOOLEAN])
OpUndef == Op(<<>>, <<"Vec">>, <<>>)
OpSrcBar == Op(<<"GPR">>, <<>>, <<>>)
OpPhiSrcs == Op(<<>>, <<>>, <<>>)
OpPhiDsts == Op(<<>>, <<>>, <<>>)
OpCopy == Op(<<"GPR">>, <<"Vec">>, <<>>)
OpPin == Op(<<"SSA">>, <<"Vec">>, <<>>)
OpUnpin == Op(<<"SSA">>, <<"Vec">>, <<>>)
OpSwap == Op(<<"GPR", "GPR">>, <<"Vec", "Vec">>, <<>>)
OpParCopy == Op(<<>>, <<>>, <<>>)
OpRegOut == Op(<<>>, <<>>, <<>>)
OpOut == Op(<<"SSA", "ALU">>, <<"Vec">>, [out_type |-> OutType])
OpOutFinal == Op(<<"SSA">>, <<>>, <<>>)
OpNanosleep == Op(<<"SSA">>, <<>>, <<>>)
OpAnnotate == Op(<<>>, <<>>, [annotation |-> {0}])

\* The operation an instruction names.
OpTable ==
  [FAdd |-> OpFAdd, FFma |-> OpFFma, FMnMx |-> OpFMnMx, FMul |-> OpFMul,
   FSet |-> OpFSet, FSetP |-> OpFSetP, FSwzAdd |-> OpFSwzAdd,
   FSwz |-> OpFSwz, Rro |-> OpRro, MuFu |-> OpMuFu, DAdd |-> OpDAdd,
   DMul |-> OpDMul, DFma |-> OpDFma, DMnMx |-> OpDMnMx, DSetP |-> OpDSetP,
   HAdd2 |-> OpHAdd2, HSet2 |-> OpHSet2, HSetP2 |-> OpHSetP2,
   HMul2 |-> OpHMul2, Imma |-> OpImma, Hmma |-> OpHmma, HFma2 |-> OpHFma2,
   HMnMx2 |-> OpHMnMx2, BMsk |-> OpBMsk, BRev |-> OpBRev, Bfe |-> OpBfe,
   Flo |-> OpFlo, IAbs |-> OpIAbs, IAdd2 |-> OpIAdd2, IAdd2X |-> OpIAdd2X,
   IAdd3 |-> OpIAdd3, IAdd3X |-> OpIAdd3X, IDp4 |-> OpIDp4, IMad |-> OpIMad,
   IMul |-> OpIMul, IMad64 |-> OpIMad64, IMnMx |-> OpIMnMx,
   ISetP |-> OpISetP, Lea |-> OpLea, LeaX |-> OpLeaX, Lop2 |-> OpLop2,
   Lop3 |-> OpLop3, Shf |-> OpShf, Shl |-> OpShl, Shr |-> OpShr,
   F2F |-> OpF2F, F2FP |-> OpF2FP, F2I |-> OpF2I, I2F |-> OpI2F,
   I2I |-> OpI2I, FRnd |-> OpFRnd, Mov |-> OpMov, Movm |-> OpMovm,
   Prmt |-> OpPrmt, Sel |-> OpSel, Sgxt |-> OpSgxt, Shfl |-> OpShfl,
   PLop3 |-> OpPLop3, PSetP |-> OpPSetP, PopC |-> OpPopC, R2UR |-> OpR2UR,
   Redux |-> OpRedux, Tex |-> OpTex, Tld |-> OpTld, Tld4 |-> OpTld4,
   Tmml |-> OpTmml, Txd |-> OpTxd, Txq |-> OpTxq, SuLd |-> OpSuLd,
   SuSt |-> OpSuSt, SuAtom |-> OpSuAtom, SuClamp |-> OpSuClamp,
   SuBfm |-> OpSuBfm, SuEau |-> OpSuEau, IMadSp |-> OpIMadSp,
   SuLdGa |-> OpSuLdGa, SuStGa |-> OpSuStGa, Ld |-> OpLd, Ldc |-> OpLdc,
   Ldcg |-> OpLdcg, Ldsm |-> OpLdsm, LdSharedLock |-> OpLdSharedLock,
   St |-> OpSt, StSCheckUnlock |-> OpStSCheckUnlock, Atom |-> OpAtom,
   AL2P |-> OpAL2P, ALd |-> OpALd, ASt |-> OpASt, Ipa |-> OpIpa,
   LdTram |-> OpLdTram, CCtl |-> OpCCtl, MemBar |-> OpMemBar,
   BClear |-> OpBClear, BMov |-> OpBMov, Break |-> OpBreak, BSSy |-> OpBSSy,
   BSync |-> OpBSync, Bra |-> OpBra, SSy |-> OpSSy, Sync |-> OpSync,
   Brk |-> OpBrk, PBk |-> OpPBk, Cont |-> OpCont, PCnt |-> OpPCnt,
   Exit |-> OpExit, WarpSync |-> OpWarpSync, Bar |-> OpBar,
   TexDepBar |-> OpTexDepBar, CS2R |-> OpCS2R, Isberd |-> OpIsberd,
   Isbewr |-> OpIsbewr, ViLd |-> OpViLd, Kill |-> OpKill, Nop |-> OpNop,
   PixLd |-> OpPixLd, S2R |-> OpS2R, Vote |-> OpVote, Match |-> OpMatch,
   Undef |-> OpUndef, SrcBar |-> OpSrcBar, PhiSrcs |-> OpPhiSrcs,
   PhiDsts |-> OpPhiDsts, Copy |-> OpCopy, Pin |-> OpPin, Unpin |-> OpUnpin,
   Swap |-> OpSwap, ParCopy |-> OpParCopy, RegOut |-> OpRegOut,
   Out |-> OpOut, OutFinal |-> OpOutFinal, Nanosleep |-> OpNanosleep,
   Annotate |-> OpAnnotate]
(***************************************************************************)
(* What the passes ask of an instruction.                                  *)
(***************************************************************************)
Instr(op, dsts, srcs, a) ==
  [op |-> op, dsts |-> dsts, srcs |-> srcs, a |-> a, pred |-> True]

\* The conversions and MUFU take their operand types from an attribute.
src_types(i) ==
  CASE i.op = "MuFu" -> <<i.a.op_type>>
    [] i.op \in {"F2F", "F2I", "FRnd"} -> <<i.a.src_type>>
    [] i.op = "I2F" -> <<IF type_bits(i.a.src_type) <= 32 THEN "ALU" ELSE "GPR">>
    [] i.op = "RegOut" -> [k \in DOMAIN i.srcs |-> "GPR"]
    [] OTHER -> OpTable[i.op].srcs

is_branch(i) == i.op \in {"Bra", "Sync", "Brk", "Cont", "Exit"}
is_fp64(i) ==
  CASE i.op = "MuFu" -> i.a.op \in {"Rcp64H", "Rsq64H"}
    [] i.op \in {"F2F", "F2I", "I2F", "FRnd"} ->
         64 \in {type_bits(i.a.src_type), type_bits(i.a.dst_type)}
    [] OTHER -> i.op \in {"DAdd", "DFma", "DMnMx", "DMul", "DSetP"}
\* Below shader model 70, where the multiplications are variable too.
FixedLatencyOps ==
  {"F2FP", "FAdd", "FFma", "FMnMx", "FMul", "FSet", "FSetP", "HAdd2", "HFma2",
   "HMul2", "HSet2", "HSetP2", "HMnMx2", "FSwz", "FSwzAdd", "BMsk", "IAbs",
   "IAdd2", "IAdd2X", "IAdd3", "IAdd3X", "IDp4", "IMad64", "IMnMx", "ISetP",
   "Lea", "LeaX", "Lop2", "Lop3", "SuClamp", "SuBfm", "SuEau", "IMadSp", "Shf",
   "Shl", "Shr", "Bfe", "Mov", "Prmt", "Sel", "Sgxt", "PLop3", "PSetP", "Nop",
   "Vote"}
has_fixed_latency(op) == op \in FixedLatencyOps
no_scoreboard(op) ==
  op \in {"BClear", "Break", "BSSy", "BSync", "SSy", "Sync", "Brk", "PBk",
          "Cont", "PCnt", "Bra", "Nanosleep", "Exit"}
uses_global_mem(i) ==
  CASE i.op = "Atom" -> i.a.mem_space # "Local"
    [] i.op \in {"Ld", "St"} -> i.a.space # "Local"
    [] OTHER -> i.op \in {"SuAtom", "SuLd", "SuSt", "SuLdGa", "SuStGa"}
writes_global_mem(i) ==
  CASE i.op = "Atom" -> i.a.mem_space \in {"GlobalA32", "GlobalA64"}
    [] i.op = "St" -> i.a.space \in {"GlobalA32", "GlobalA64"}
    [] OTHER -> i.op \in {"SuAtom", "SuSt", "SuStGa"}
can_eliminate(i) ==
  /\ i.op \notin {"ASt", "SuSt", "SuStGa", "SuAtom", "LdSharedLock", "St",
                  "StSCheckUnlock", "Atom", "CCtl", "MemBar", "Kill", "Nop",
                  "BSync", "Bra", "SSy", "Sync", "Brk", "PBk", "Cont", "PCnt",
                  "Exit", "WarpSync", "Bar", "TexDepBar", "RegOut", "Out",
                  "OutFinal", "Isbewr", "Nanosleep", "Annotate"}
  /\ i.op = "BMov" => ~i.a.clear
needs_yield(i) == i.op \in {"Bar", "BSync", "Nanosleep"}
ftz(i) == IF i.op = "MuFu" THEN i.a.op_type = "F32" /\ i.a.op # "Tanh"
          ELSE "ftz" \in DOMAIN i.a /\ i.a.ftz
=============================================================================
