----------------------------- MODULE MCCompiler -----------------------------
(***************************************************************************)
(* What the GPU is given to work on, checked in one run: programs and      *)
(* images.  A behaviour compiles a program without branches                *)
(* (ShaderCompile), compiles and runs a structured one (ShaderFlow),       *)
(* changes a single instruction, or creates and writes images              *)
(* (ImageLayout); the parts it does not run stay as they are.              *)
(***************************************************************************)
EXTENDS ShaderCompile, ShaderFlow

VARIABLES part, device, img, mem, want, writes, verdict

(***************************************************************************)
(* Operands: inputs, constants, and immediates of each shape the encodings *)
(* tell apart, with every modifier.                                        *)
(***************************************************************************)
Straight == <<0, 1, 2, 3>>
Of(file, idx) == Arg(file, idx, Straight, FALSE, FALSE)
In(k) == Of("IN", k)
Const(k) == Of("CONST", k)
Temp == Of("TEMP", 0)
Imm(v) == Of("IMM", v)
FOne == Bits(\h3f800000)
FPi == Bits(\h40490fdb)
Modified(a) == {[a EXCEPT !.neg = n, !.abs = b] : n \in BOOLEAN, b \in BOOLEAN}
Fixed == Modified(Const(0)) \cup UNION {Modified(Imm(v)) : v \in {{}, FOne, Bits(5), FPi}}

(***************************************************************************)
(* Vertex programs.                                                        *)
(***************************************************************************)
Ended(cs) == Append(cs, Tgsi("END", "NONE", 0, <<>>, <<>>))
VertexDecls == <<Decl("IN", 0, "None", 0, "None"), Decl("IN", 1, "None", 0, "None"),
                 Decl("TEMP", 0, "None", 0, "None"), Decl("OUT", 0, "Position", 0, "None")>>
Vertex(cs) == [stage |-> "Vertex", decls |-> VertexDecls, code |-> Ended(cs)]
ToOut(op, srcs) == Tgsi(op, "OUT", 0, <<0>>, srcs)
ToTemp(op, srcs) == Tgsi(op, "TEMP", 0, <<0>>, srcs)

Division == {"IDIV", "IMOD", "UDIV", "UMOD"}
Simple == Binary \ Division
\* Every operation with every operand, alone.
Single ==
  {<<ToOut(op, <<x>>)>> : op \in Unary, x \in Modified(In(0)) \cup Fixed}
  \cup {<<ToOut(op, <<x, In(1)>>)>> : op \in Simple, x \in Modified(In(0)) \cup Fixed}
  \cup {<<ToOut(op, <<In(0), x>>)>> : op \in Simple, x \in Fixed}
  \cup {<<ToOut(op, <<x, y>>)>> : op \in Simple, x \in {Const(0), Imm(FPi)},
                                  y \in {Const(1), Imm(Bits(5)), Imm(FPi)}}
  \cup {<<ToOut(op, <<x, y, z>>)>> : op \in Ternary, x \in {In(0), Const(0)},
                                     y \in {In(1), Imm(FOne)}, z \in Modified(Const(1))}
  \cup {<<ToOut(op, <<In(0), In(1)>>)>> : op \in Division}
\* What copy propagation takes a value through, and what then reads it.
Copies ==
  {ToTemp("MOV", <<x>>) : x \in Modified(In(0)) \cup {Imm(FOne), Imm(Bits(5)), Const(0)}}
  \cup {ToTemp("INEG", <<In(0)>>), ToTemp("NOT", <<In(0)>>), ToTemp("ABS", <<In(0)>>),
        ToTemp("UADD", <<In(0), Imm({})>>), ToTemp("ADD", <<In(0), Imm({31})>>),
        ToTemp("SUB", <<Imm({31}), In(0)>>), ToTemp("FSLT", <<In(0), In(1)>>),
        ToTemp("USLT", <<In(0), In(1)>>)}
Readers(t) ==
  {ToOut(op, <<t>>) : op \in {"MOV", "ABS", "FLR", "F2I", "I2F", "NOT", "INEG", "IABS"}}
  \cup UNION {{ToOut(op, <<t, In(1)>>), ToOut(op, <<In(1), t>>)} :
                op \in {"ADD", "MUL", "MIN", "FSLT", "SGE", "USLT", "AND", "UADD", "UMUL",
                        "IMIN", "ISHR"}}
  \cup {ToOut("UCMP", <<t, In(0), In(1)>>), ToOut("UCMP", <<In(1), t, In(0)>>),
        ToOut("CMP", <<t, In(0), In(1)>>)}
Chained == {<<x, y>> : x \in Copies, y \in UNION {Readers(t) : t \in Modified(Temp)}}
\* Vectors whose lanes move among themselves.
Swizzled(s) == Arg("TEMP", 0, s, FALSE, FALSE)
Shuffles ==
  {<<Tgsi("MOV", "TEMP", 0, <<0, 1, 2>>, <<In(0)>>), Tgsi("MOV", "TEMP", 0, <<0, 1, 2>>, <<Swizzled(s)>>),
     Tgsi("MOV", "OUT", 0, <<0, 1, 2>>, <<Swizzled(r)>>)>> :
     s \in {<<1, 0, 2, 3>>, <<1, 2, 0, 3>>, <<0, 0, 1, 3>>}, r \in {<<2, 1, 0, 3>>, <<1, 1, 0, 3>>}}

(***************************************************************************)
(* Fragment programs: interpolation, textures, discard, and colours that   *)
(* must end in given registers.                                            *)
(***************************************************************************)
FragmentDecls(interp) ==
  <<Decl("IN", 0, "Generic", 3, interp), Decl("IN", 1, "Generic", 1, "Perspective"),
    Decl("IN", 2, "Face", 0, "Constant"), Decl("TEMP", 0, "None", 0, "None"),
    Decl("OUT", 0, "Color", 1, "None"), Decl("OUT", 1, "Color", 0, "None")>>
Fragment(interp, cs) ==
  [stage |-> "Fragment", decls |-> FragmentDecls(interp), code |-> Ended(cs)]
Colour(k, s) == Tgsi("MOV", "OUT", k, Straight, <<s>>)
Turned(f, k, s) == Arg(f, k, s, FALSE, FALSE)
Sample(op, target, s) ==
  [Tgsi(op, "TEMP", 0, Straight, <<Turned("IN", 1, s), Of("SAMP", 0)>>) EXCEPT !.target = target]
Fragments ==
  {Fragment(i, <<Colour(0, Turned("IN", 0, s)), Colour(1, Turned("IN", 1, t))>>) :
     i \in DOMAIN Freq, s \in {Straight, <<3, 2, 1, 0>>}, t \in {Straight, <<1, 1, 2, 0>>}}
  \cup {Fragment("Linear", <<Tgsi("KILL", "NONE", 0, <<>>, <<>>),
                             Colour(0, Turned("IN", 2, <<0, 0, 0, 0>>))>>)}
  \cup {Fragment("Linear", <<Sample(op, t, s), Colour(0, Swizzled(r))>>) :
          op \in TexOps, t \in DOMAIN Target, s \in {Straight, <<1, 1, 0, 2>>},
          r \in {<<2, 1, 0, 3>>}}

\* Eight loads in flight and more: the barriers are fewer.
ManyDecls == [k \in 1..8 |-> Decl("IN", k - 1, "None", 0, "None")]
             \o <<Decl("OUT", 0, "Position", 0, "None"), Decl("OUT", 1, "Generic", 1, "None")>>
Many == [stage |-> "Vertex", decls |-> ManyDecls,
         code |-> Ended([k \in 1..8 |-> Tgsi(IF k % 2 = 0 THEN "MOV" ELSE "EX2", "OUT", k \div 5,
                                             <<(k - 1) % 4>>, <<In(8 - k)>>)])]
\* System values, and an output at a location that is not its index.
SystemDecls == <<Decl("SV", 0, "VertexId", 0, "None"), Decl("SV", 1, "InstanceId", 0, "None"),
                 Decl("IN", 0, "None", 0, "None"), Decl("OUT", 0, "Position", 0, "None"),
                 Decl("OUT", 1, "Generic", 5, "None"), Decl("OUT", 2, "PointSize", 0, "None")>>
First(f, k) == Arg(f, k, <<0, 0, 0, 0>>, FALSE, FALSE)
System == [stage |-> "Vertex", decls |-> SystemDecls,
           code |-> Ended(<<Tgsi("MOV", "OUT", 0, Straight, <<In(0)>>),
                            Tgsi("UADD", "OUT", 1, <<1>>, <<First("SV", 0), First("SV", 1)>>),
                            Tgsi("MOV", "OUT", 2, <<0>>, <<In(0)>>)>>)]
\* Programs with something the compiler has no place for.
Declaring(p, d) == [p EXCEPT !.decls = Append(@, d)]
PlainVertex == Vertex(<<ToOut("MOV", <<In(0)>>)>>)
Shade(s) == Fragment("Linear", <<Colour(0, s), Colour(2, In(1))>>)
Refused ==
  {Vertex(<<Tgsi("KILL", "NONE", 0, <<>>, <<>>)>>), Vertex(<<ToOut("LIT", <<In(0)>>)>>),
   Vertex(<<ToOut("MOV", <<In(2)>>)>>), Vertex(<<Tgsi("MOV", "IN", 0, <<0>>, <<In(1)>>)>>),
   Declaring(PlainVertex, Decl("OUT", 1, "Color", 0, "None")),
   Declaring(Vertex(<<ToOut("MOV", <<In(2)>>)>>), Decl("IN", 2, "Face", 0, "None")),
   Declaring(Shade(In(0)), Decl("OUT", 2, "Color", 8, "None")),
   Declaring(Shade(In(2)), Decl("OUT", 2, "Color", 2, "None"))}
Doubled == {Declaring(Shade(In(0)), Decl("OUT", 2, "Color", k, "None")) : k \in {1, 2}}

AllPrograms == {Vertex(cs) : cs \in Single \cup Chained \cup Shuffles} \cup Fragments
               \cup {Many, System} \cup Refused \cup Doubled
\* Floats of both signs, signed zero and not-a-number; small and large integers.
AllInputs == {<<Bits(\h40200000), Bits(\h40400000) \cup {31}, Bits(\h3f000000), {31}>>,
              <<{31}, 0..31, 22..30, {0}>>,
              <<Bits(5), {}, Bits(\h7f000000), {2}>>}
\* Operations on an immediate that the legalizer cannot place.
ByConstant == {Vertex(<<ToOut(op, <<In(0), Imm(Bits(3))>>)>>) : op \in {"UDIV", "UMOD"}}
              \cup {Vertex(<<ToOut("MOV", <<In(0)>>)>>)}

(***************************************************************************)
(* Structured programs, well formed or not.                                *)
(***************************************************************************)
Leaves == {<<>>, <<"ALU">>, <<"BRK">>, <<"CONT">>, <<"KILL">>}
Ifs(bs) == {<<"UIF">> \o b \o <<"ENDIF">> : b \in bs}
           \cup {<<"UIF">> \o b \o <<"ELSE">> \o d \o <<"ENDIF">> : b \in bs, d \in bs}
Loops(bs) == {<<"BGNLOOP">> \o b \o <<"ENDLOOP">> : b \in bs}
Nest(n, op) == [k \in 1..n |-> op]
Flat == Leaves \cup Ifs(Leaves)
Followed == Flat \cup {b \o <<"ALU">> : b \in Flat}
Flows == Followed \cup Loops(Followed) \cup Loops(Loops(Leaves))
         \cup Ifs(Loops(Ifs({<<"BRK">>, <<"ALU">>})))
         \cup Ifs(Ifs({<<"ALU">>, <<>>})) \cup Loops(Ifs(Ifs({<<"BRK">>, <<"ALU">>})))
         \cup {Nest(n, "BGNLOOP") \o <<"BRK">> \o Nest(n, "ENDLOOP") : n \in {8, 9}}
         \cup {<<"ELSE">>, <<"ENDIF">>, <<"UIF">>, <<"BGNLOOP", "ENDIF">>, <<"UIF", "ENDLOOP">>}

(***************************************************************************)
(* One instruction at a time: an operation of the encoder whose            *)
(* attributes, operands and predicate are changed one by one.  The         *)
(* properties relate the words of the encoder (Sm50) before and after such *)
(* a change, and the word to what the kernel's verifier reads from it      *)
(* (ProgramVerifier).                                                      *)
(***************************************************************************)
CONSTANT MaxChanges    \* Changes from the first form of an operation

VARIABLES ins,         \* The instruction
          changes      \* Changes made so far
table_vars == <<ins, changes>>

\* Two labels, and an instruction between them.
Here == [ip |-> 16, labels |-> [l \in 0..1 |-> 8 + 32 * l]]
image(i) == encode_instr(i, Here)

(***************************************************************************)
(* The forms of an operand of each type.                                   *)
(***************************************************************************)
Mods(ty) == CASE ty \in {"F32", "F64"} -> FMods
              [] ty = "I32" -> {"None", "INeg"}
              [] ty = "B32" -> {"None", "BNot"}
              [] OTHER -> {"None"}
P1 == Reg("Pred", 1, 1)
Sources(ty) ==
  CASE ty = "Pred" -> {True, False, P1, [P1 EXCEPT !.mod = "BNot"]}
    [] ty = "Carry" -> {Reg("Carry", 0, 1)}
    [] ty \in {"GPR", "SSA"} -> {Zero, Reg("GPR", 4, 1), Reg("GPR", 8, 1)}
    [] OTHER -> {Zero, Imm32({30}), Imm32({0, 1}), Imm32({0, 30})}
                \cup {[s EXCEPT !.mod = m] : m \in Mods(ty),
                        s \in {Reg("GPR", 4, 1), Reg("GPR", 8, 1), CBuf(1, {4})}}
Destinations(ty) ==
  CASE ty = "Pred" -> {DstNone, Reg("Pred", 2, 1), Reg("Pred", 3, 1)}
    [] ty = "Carry" -> {DstNone, Reg("Carry", 0, 1)}
    [] OTHER -> {DstNone, Reg("GPR", 12, 1), Reg("GPR", 16, 1)}

(***************************************************************************)
(* The first form of an operation has registers for operands, and          *)
(* attributes the encoder has a word for.                                  *)
(***************************************************************************)
Usual == [tex |-> [k |-> "Bound", v |-> {}], dst_high |-> TRUE, patch |-> TRUE,
          rnd_mode |-> "NearestEven"]
FirstOperand(ty) == CASE ty = "Pred" -> True
                      [] ty = "Carry" -> Reg("Carry", 0, 1)
                      [] OTHER -> Reg("GPR", 4, 1)
FirstForm(op) ==
  LET o == OpTable[op] IN
  Instr(op,
        [k \in DOMAIN o.dsts |-> CASE k > 1 -> DstNone
                                   [] k = 1 /\ o.dsts[1] = "Pred" -> Reg("Pred", 2, 1)
                                   [] OTHER -> Reg("GPR", 12, 1)],
        [k \in DOMAIN o.srcs |-> IF op = "Ldc" /\ k = 1 THEN CBuf(1, {4})
                                 ELSE FirstOperand(o.srcs[k])],
        [x \in DOMAIN o.attrs |-> IF x \in DOMAIN Usual THEN Usual[x]
                                  ELSE CHOOSE v \in o.attrs[x] : TRUE])
Encoded == {op \in DOMAIN OpTable : encode_op(FirstForm(op), Here) # Panic}

TableInit == /\ \E op \in Encoded : ins = FirstForm(op)
             /\ changes = 0

Change(i) == /\ changes < MaxChanges
             /\ ins' = i
             /\ i # ins
             /\ changes' = changes + 1
ChangeAttribute ==
  \E x \in DOMAIN ins.a : \E v \in OpTable[ins.op].attrs[x] :
    Change([ins EXCEPT !.a[x] = v])
ChangeSource ==
  \E k \in DOMAIN ins.srcs : \E s \in Sources(src_types(ins)[k]) :
    Change([ins EXCEPT !.srcs[k] = s])
ChangeDestination ==
  \E k \in DOMAIN ins.dsts : \E d \in Destinations(OpTable[ins.op].dsts[k]) :
    Change([ins EXCEPT !.dsts[k] = d])
ChangePredicate == \E p \in Sources("Pred") \ {False} : Change([ins EXCEPT !.pred = p])
TableNext == ChangeAttribute \/ ChangeSource \/ ChangeDestination \/ ChangePredicate

(***************************************************************************)
(* What a word is meant to hold: the instruction without the parts that    *)
(* Maxwell has no bits for, or that the front end never sets.              *)
(***************************************************************************)
Unencoded(op) ==
  {"mem_eviction_priority", "eviction_priority", "scalar"}
  \cup (CASE op \in {"Sync", "Brk", "Cont"} -> {"target"}
          [] op \in {"Atom", "SuAtom"} -> {"mem_order"}
          [] op = "AL2P" -> {"comps"}
          [] op = "MuFu" -> {"op_type"}
          [] op = "Nop" -> {"label"}
          [] op = "Isberd" -> {"mem_type", "output", "skew"}
          [] OTHER -> {})
\* A uniform address, a branch condition other than the predicate, and the
\* lower half of a 64-bit comparison.
UnencodedSources(i) ==
  CASE i.op = "Bra" -> {1} [] i.op = "ISetP" -> {4} [] i.op = "Ld" -> {2} [] i.op = "St" -> {3}
    [] i.op = "Atom" -> {2} \cup (IF is_cmp_exch(i.a.atom_op) THEN {} ELSE {3})
    [] OTHER -> {}
\* Attributes that share a word: memory orders with one cache operation,
\* offsets that are not immediate, the signs of a 32-bit funnel shift.
Meant(i, x) ==
  LET space == IF "space" \in DOMAIN i.a THEN i.a.space ELSE "GlobalA64" IN
  CASE x \in {"order", "mem_order"} ->
         <<IF i.dsts = <<>> THEN st_cache_op(space, i.a[x]) ELSE ld_cache_op(space, i.a[x])>>
    [] x = "offset_mode" /\ i.op # "Tld4" -> <<Off(i)>>
    [] x = "data_type" /\ i.op = "Shf" -> <<i.a[x] \in {"I32", "U32"}, i.a[x] = "I64">>
    [] x = "op" /\ i.op = "CCtl" -> <<IF i.a[x] = "RSLB" THEN "RS" ELSE i.a[x]>>
    [] OTHER -> <<i.a[x]>>
Meaning(i) ==
  [a |-> [x \in DOMAIN i.a \ Unencoded(i.op) |-> Meant(i, x)], pred |-> i.pred,
   dsts |-> IF i.op \in {"SuLd", "SuAtom"} THEN <<i.dsts[1]>> ELSE i.dsts,
   srcs |-> [k \in DOMAIN i.srcs \ UnencodedSources(i) |-> i.srcs[k]]]
\* The two forms whose word loses something: FADD with a long immediate has no
\* saturation, and FSET writes the negation of a constant buffer operand to a
\* bit that its destination then overwrites.
KnownLoss(i) == \/ i.op = "FAdd" /\ as_imm_not_f20(i.srcs[2])
                \/ i.op = "FSet" /\ i.srcs[2].k = "CBuf"

\* Instructions that differ in something the hardware can be told are encoded
\* by different words: no field of an encoder overlaps another, falls outside
\* its range or is left out, whatever the form of the operands.
Decodable ==
  [][\/ Meaning(ins) = Meaning(ins')
     \/ KnownLoss(ins) \/ KnownLoss(ins')
     \/ \E p \in {image(ins)}, q \in {image(ins')} :
          Encodes(p) /\ Encodes(q) => Word(p) # Word(q)]_table_vars

(***************************************************************************)
(* The registers and constants an instruction touches.                     *)
(***************************************************************************)
Computational ==
  {"FAdd", "FFma", "FMnMx", "FMul", "Rro", "MuFu", "FSet", "FSetP", "FSwzAdd", "DAdd", "DFma",
   "DMnMx", "DMul", "DSetP", "Bfe", "Flo", "IAdd2", "IAdd2X", "IMad", "IMul", "IMnMx", "ISetP",
   "Lop2", "PopC", "Shf", "Shl", "Shr", "F2F", "F2I", "I2F", "I2I", "Mov", "Prmt", "Sel", "Shfl",
   "PSetP"}
Pairs(ty) == IF ty \in {"F64", "I64", "U64"} THEN 2 ELSE 1
SourceWidth(i, k) ==
  CASE i.op \in {"F2F", "F2I", "I2F", "I2I"} -> Pairs(i.a.src_type)
    [] OTHER -> Pairs(OpTable[i.op].srcs[k])
DestinationWidth(i, k) ==
  CASE i.op \in {"F2F", "F2I", "I2F", "I2I"} -> Pairs(i.a.dst_type)
    [] OTHER -> Pairs(OpTable[i.op].dsts[k])
Touched(i) ==
  {<<i.srcs[k], SourceWidth(i, k)>> : k \in DOMAIN i.srcs}
  \cup {<<i.dsts[k], DestinationWidth(i, k)>> : k \in DOMAIN i.dsts}

\* The instructions the legalizer leaves alone; before the allocation their
\* registers are SSA values.
Virtual(s) == IF s.k = "Reg" THEN [s EXCEPT !.k = "SSA"] ELSE s
Unchanged(i, l) == l.ok /\ l.new = <<>> /\ l.s = i.srcs /\ l.a = i.a
LegalAsItIs(i) == Unchanged(i, legalize_op(i.op, Builder(i, 1, {})))
Legal(i) == LegalAsItIs([i EXCEPT !.srcs = [k \in DOMAIN i.srcs |-> Virtual(i.srcs[k])]])

\* The verifier's table has a form for every legal computational instruction
\* the encoder has a word for, and that form bounds each register the
\* instruction reads or writes at its full width, and each constant buffer word
\* it reads: the check of the declared registers and buffers overlooks none.
VerifierSeesOperands ==
  ins.op \in Computational /\ Legal(ins) =>
    \A p \in {image(ins)} : Encodes(p) =>
      \A w \in {Word(p)} : \A n \in {find_alu_encoding(w)} :
        /\ n # 0
        /\ \A t \in Touched(ins) :
             /\ (t[1].k = "Reg" /\ t[1].f = "GPR") =>
                  \E r \in ALU_ENCODINGS[n].regs :
                    field(w, r[1], 8) = Number(t[1].v, 8) /\ r[2] >= t[2]
             /\ t[1].k = "CBuf" => ALU_ENCODINGS[n].cb >= 4 * t[2]

(***************************************************************************)
(* Images: every format and usage, chains, layers, cubes and strips, and   *)
(* the screen; plain ones as the other side of a copy.  Writes go to the   *)
(* first and the last pixels of a level and across a tile's corner.        *)
(***************************************************************************)
CONSTANTS ImageSlots, MaxWrites
Image(f, u, w, h, mips, layers) ==
  [format |-> f, usage |-> u, width |-> w, height |-> h, mips |-> mips, layers |-> layers,
   cube |-> FALSE, one_d |-> FALSE]
AnyUse == {"attachment", "sampled", "copy_src", "copy_dst"}
Copyable(f) == Image(f, {"copy_src", "copy_dst"}, 5, 9, 1, 1)
ManyImages ==
  {Copyable("bgra"), Copyable("r8"), Image("bgra", AnyUse, 18, 10, 1, 1),
   Image("rgba", AnyUse, 18, 34, 3, 1), Image("rgba", AnyUse, 5, 66, 2, 2),
   [Image("bgra", {"sampled", "copy_dst"}, 9, 9, 2, 6) EXCEPT !.cube = TRUE],
   [Image("rg8", {"sampled", "copy_dst"}, 20, 1, 1, 1) EXCEPT !.one_d = TRUE],
   Image("rgba_srgb", {"sampled", "copy_dst", "copy_src"}, 17, 3, 1, 1),
   Image("bgra", {"attachment"}, 5, 9, 1, 1), Image("depth", {"attachment"}, 5, 9, 1, 1),
   Image("depth", {"attachment", "sampled"}, 5, 65, 1, 1)}
  \cup {Image("bgra", {"attachment", "present"} \cup u, 1280, 720, 1, 1) : u \in {{}, {"sampled"}}}
Partners == {Copyable("bgra"), Copyable("r8"), Image("rgba", {"attachment", "copy_dst"}, 18, 10, 1, 1)}
CornerRects(w, h) ==
  LET a == Min({w, 3})
      b == Min({h, 2})
      rect(x, y) == [x |-> x, y |-> y, w |-> a, h |-> b]
  IN {rect(0, 0), rect(w - a, h - b)} \cup (IF w >= 18 /\ h >= 10 THEN {rect(15, 7)} ELSE {})
\* A kernel without the extended commands and the depth buffers, and one with both.
Capable == {[extended |-> b, depth |-> b] : b \in BOOLEAN}
Images == INSTANCE ImageLayout WITH
            Slots <- ImageSlots, Descriptors <- [i \in ImageSlots |-> IF i = 1 THEN ManyImages ELSE Partners],
            Devices <- Capable, RectsOf <- CornerRects, Paddings <- {3}, MaxUpload <- 16

(***************************************************************************)
(* The four parts.                                                         *)
(***************************************************************************)
image_vars == <<device, img, mem, want, writes, verdict>>
IdleCompile == prog = Many /\ pass = "idle" /\ code = <<>> /\ next = 0 /\ word = <<>>
IdleFlow == /\ flow = [Source(<<>>) EXCEPT !.stage = "idle"]
            /\ at = <<1, 1>> /\ active = {} /\ stack = <<>> /\ tpc = <<>>
IdleTable == ins = FirstForm("Nop") /\ changes = MaxChanges
IdleImages == /\ device = [extended |-> FALSE, depth |-> FALSE] /\ writes = 0 /\ verdict = "done"
              /\ img = <<>> /\ mem = <<>> /\ want = <<>>
CompilerInit ==
  \/ part = "compile" /\ CompileInit /\ IdleFlow /\ IdleTable /\ IdleImages
  \/ part = "flow" /\ FlowInit /\ IdleCompile /\ IdleTable /\ IdleImages
  \/ part = "table" /\ TableInit /\ IdleCompile /\ IdleFlow /\ IdleImages
  \/ part = "images" /\ Images!ImageInit /\ IdleCompile /\ IdleFlow /\ IdleTable
CompilerNext ==
  \/ part = "compile" /\ CompileNext /\ UNCHANGED <<part, flow_vars, table_vars, image_vars>>
  \/ part = "flow" /\ FlowNext /\ UNCHANGED <<part, compile_vars, table_vars, image_vars>>
  \/ part = "table" /\ TableNext /\ UNCHANGED <<part, compile_vars, flow_vars, image_vars>>
  \/ part = "images" /\ Images!ImageNext /\ UNCHANGED <<part, compile_vars, flow_vars, table_vars>>
CompilerSpec ==
  CompilerInit /\ [][CompilerNext]_<<part, compile_vars, flow_vars, table_vars, image_vars>>

\* See VerifierAccepts (programs without branches) and FlowVerified (structured ones): the kernel's
\* verifier accepts what the compiler packs, and proves its control flow.
ProgramsVerified == VerifierAccepts /\ FlowVerified
\* See ImageLayout: whichever engine writes a pixel, every engine that may read it finds it.
PixelsKept == part = "images" => Images!PixelsKept
=============================================================================
