-------------------------- MODULE ProgramVerifier --------------------------
(***************************************************************************)
(* The kernel's verifier of Maxwell programs                               *)
(* (shared/maxwell-program-wire/src: opcodes.rs, verify.rs, lib.rs).       *)
(*                                                                         *)
(* A 64-bit word is the set of its one bits.  The table of computational   *)
(* instructions gives for each form the bits that are fixed, the bits that *)
(* are operands, the register fields with their widths and the constant    *)
(* buffer access; a word that no form and no other rule matches exactly is *)
(* refused.                                                                *)
(*                                                                         *)
(* The declared metadata is a record: the stage, the number of registers,  *)
(* the flags, the resources, the sizes of the constant buffers, the        *)
(* addresses of the attributes a vertex program reads (ins) and writes     *)
(* (outs), the range of words it must store (store), the interpolation a   *)
(* fragment program declares for each address (imap), and the components   *)
(* of its colours (colors).  A program travels in a package, whose header  *)
(* is also a set of bits, and the kernel makes the hardware's shader       *)
(* header from the metadata it reads there.                                *)
(***************************************************************************)
EXTENDS NakIr, SequencesExt

At(lo, n) == {lo + i : i \in {j \in 0..16 : (n \div 2^j) % 2 = 1}}
field(w, lo, len) ==
  LET sum[i \in 0..len] == IF i = 0 THEN 0
                           ELSE sum[i-1] + IF (lo + i - 1) \in w THEN 2^(i-1) ELSE 0
  IN  sum[len]

PRED == 16..19
DST == 0..7
SRC0 == 8..15
REG1 == 20..27
REG2 == 39..46
IMM20 == (20..38) \cup {56}
CB20 == 20..38
IMM32 == 20..51

(***************************************************************************)
(* The table (opcodes.rs).                                                 *)
(***************************************************************************)
\* A field written after the opcode clears the opcode bits it covers.
push(opcode, mask, clear, set, cb, regs, fp64) ==
  LET m == mask \cup PRED IN
  <<[fixed |-> (At(48, opcode) \ (m \cup clear)) \cup set, mask |-> m, cb |-> cb,
     regs |-> regs, fp64 |-> fp64]>>
Wide(fields, w) == {<<f, w>> : f \in fields}
word_binary(mask) ==
  [mask |-> mask \cup DST \cup SRC0, src_mod |-> {}, imm |-> IMM20, clear |-> {}, set |-> {},
   cb |-> 4, regs_r |-> Wide({0, 8, 20}, 1), regs_ic |-> Wide({0, 8}, 1), fp64 |-> FALSE]
\* Mutated form: doubles bounded as if they were words.
double_binary_single(mask) == [word_binary(mask) EXCEPT !.cb = 8, !.fp64 = TRUE]
double_binary(mask) ==
  [word_binary(mask) EXCEPT !.cb = 8, !.regs_r = Wide({0, 8, 20}, 2),
                            !.regs_ic = Wide({0, 8}, 2), !.fp64 = TRUE]
\* A source in a register, as an immediate and in a constant buffer.
triple(ops, f) ==
  push(ops[1], f.mask \cup REG1 \cup f.src_mod, f.clear, f.set, 0, f.regs_r, f.fp64)
  \o push(ops[2], f.mask \cup f.imm, f.clear, f.set, 0, f.regs_ic, f.fp64)
  \o push(ops[3], f.mask \cup CB20 \cup f.src_mod, f.clear, f.set, f.cb, f.regs_ic, f.fp64)
With3(f, w) == [f EXCEPT !.regs_r = Wide({0, 8, 20, 39}, w), !.regs_ic = Wide({0, 8, 39}, w)]
NoSrc0(f) == [f EXCEPT !.mask = @ \ SRC0, !.regs_r = Wide({0, 20}, 1), !.regs_ic = Wide({0}, 1)]
PredDst(f, bits) == [f EXCEPT !.mask = (@ \ DST) \cup bits, !.regs_r = Wide({8, 20}, 1),
                              !.regs_ic = Wide({8}, 1)]
S0 == Wide({0, 8}, 1)

float_encodings ==
  triple(<<\h5c58, \h3858, \h4c58>>,
         [word_binary({39, 40, 44, 46, 48, 50}) EXCEPT !.src_mod = {45, 49}])
  \o push(\h0800, DST \cup SRC0 \cup IMM32 \cup {54, 55, 56}, {}, {}, 0, S0, FALSE)
  \o LET f == With3(word_binary(REG2 \cup 48..54), 1) IN
     triple(<<\h5980, \h3280, \h4980>>, f)
     \o push(\h5180, f.mask \cup CB20, {}, {}, 4, f.regs_ic, FALSE)
  \o triple(<<\h5c60, \h3860, \h4c60>>,
            [word_binary((39..42) \cup {44, 46, 48}) EXCEPT !.src_mod = {45, 49}])
  \o triple(<<\h5c68, \h3868, \h4c68>>, word_binary({39, 40, 44, 45, 48, 50}))
  \o push(\h1e00, DST \cup SRC0 \cup IMM32 \cup 53..55, {}, {}, 0, S0, FALSE)
  \o triple(<<\h5c90, \h3890, \h4c90>>,
            [NoSrc0(word_binary({39})) EXCEPT !.src_mod = {45, 49}])
  \o FlattenSeq([k \in 1..9 |->
       push(\h5080, DST \cup SRC0 \cup {46, 48}, 20..23, At(20, k - 1), 0, S0, k \in {7, 8})])

float_compare(c) ==
  LET set == At(48, c) \cup {52} \cup At(39, 7)
      mask == DST \cup SRC0 \cup {43, 54, 55}
      f(op) == [PredDst(word_binary((39..43) \cup {47}), {3, 4, 5, 7})
                EXCEPT !.src_mod = {6, 44}, !.clear = {45, 46} \cup 48..51,
                       !.set = {0, 1, 2} \cup At(45, op) \cup At(48, c)]
      d(op) == [f(op) EXCEPT !.mask = @ \ {47}]
  IN  push(\h5800, mask \cup REG1 \cup {44, 53}, 48..52, set, 0, Wide({0, 8, 20}, 1), FALSE)
      \o push(\h3000, mask \cup IMM20, 48..52, set, 0, S0, FALSE)
      \o push(\h4800, mask \cup CB20 \cup {44}, 48..52, set, 4, S0, FALSE)
      \o FlattenSeq([k \in 1..3 |->
           triple(<<\h5bb0, \h36b0, \h4bb0>>, f(k - 1))
           \o push(\h5b80, d(k - 1).mask \cup REG1 \cup {6, 44}, d(k - 1).clear, d(k - 1).set,
                   0, Wide({8, 20}, 2), TRUE)
           \o push(\h3680, d(k - 1).mask \cup IMM20, d(k - 1).clear, d(k - 1).set,
                   0, Wide({8}, 2), TRUE)])

double_encodings ==
  push(\h50f8, DST \cup SRC0 \cup REG1 \cup (28..35) \cup {38, 39, 40, 44}, {47}, {}, 0,
       Wide({0, 8, 20}, 1), FALSE)
  \o triple(<<\h5c70, \h3870, \h4c70>>,
            [double_binary({39, 40, 46, 48}) EXCEPT !.src_mod = {45, 49}])
  \o LET f == With3(double_binary(REG2 \cup 48..51), 2) IN
     triple(<<\h5b70, \h3670, \h4b70>>, f)
     \o push(\h5370, f.mask \cup CB20, {}, {}, 8, f.regs_ic, TRUE)
  \o triple(<<\h5c50, \h3850, \h4c50>>,
            [double_binary((39..42) \cup {46, 48}) EXCEPT !.src_mod = {45, 49}])
  \o triple(<<\h5c80, \h3880, \h4c80>>, double_binary({39, 40, 48}))

\* A plain addition with both operands negated is not an instruction.
iadd_encodings(ex) ==
  LET mask == DST \cup SRC0 \cup {47}
      set(n) == At(43, ex) \cup At(49, n % 2) \cup At(48, n \div 2)
      neg(n) == IF ex = 0 /\ n = 3 THEN <<>>
                ELSE push(\h5c10, mask \cup REG1, {43, 48, 49}, set(n), 0,
                          Wide({0, 8, 20}, 1), FALSE)
                     \o push(\h4c10, mask \cup CB20, {43, 48, 49}, set(n), 4, S0, FALSE)
  IN  FlattenSeq([n \in 1..4 |-> neg(n - 1)])
      \o push(\h3810, mask \cup IMM20 \cup {49}, {43}, At(43, ex), 0, S0, FALSE)
      \o push(\h1c00, DST \cup SRC0 \cup IMM32 \cup {52, 56}, {53}, At(53, ex), 0, S0, FALSE)
imad_encodings(signed) ==
  LET f == [With3(word_binary(REG2 \cup {51, 52}), 1)
            EXCEPT !.clear = {48, 53}, !.set = At(48, signed) \cup At(53, signed)]
  IN  triple(<<\h5a00, \h3400, \h4a00>>, f)
      \o push(\h5200, f.mask \cup CB20, f.clear, f.set, 4, f.regs_ic, FALSE)
isetp_encodings(op) ==
  triple(<<\h5b60, \h3660, \h4b60>>,
         [PredDst(word_binary((39..42) \cup 48..51), 3..5)
          EXCEPT !.clear = {43, 45, 46}, !.set = {0, 1, 2} \cup At(45, op)])
shf_encodings(right, ty) ==
  LET mask == DST \cup SRC0 \cup REG2 \cup {50} \cup (IF right THEN {48} ELSE {})
      clear == {37, 38, 47, 49} \cup (IF right THEN {} ELSE {48})
      n == IF ty = 0 THEN 5 ELSE 6
      op(x, y) == IF right THEN x ELSE y
      ic == Wide({0, 8, 39}, 1)
  IN  push(op(\h5cf8, \h5bf8), mask \cup REG1, clear, At(37, ty), 0,
           Wide({0, 8, 20, 39}, 1), FALSE)
      \o push(op(\h38f8, \h36f8), mask \cup 20..(19 + n), clear, At(37, ty), 0, ic, FALSE)
      \o push(op(\h38f8, \h36f8), mask \ {50}, clear \cup {50}, At(37, ty) \cup {20 + n},
              0, ic, FALSE)
shift_encodings(ops, extra) ==
  LET f == [word_binary({39} \cup extra) EXCEPT !.imm = 20..24] IN
  triple(ops, f) \o push(ops[2], f.mask \ {39}, {39}, {25}, 0, S0, FALSE)
int_encodings ==
  triple(<<\h5c00, \h3800, \h4c00>>, [word_binary({40, 48}) EXCEPT !.imm = 20..35])
  \o LET f == NoSrc0(word_binary({40, 41, 48})) IN
     push(\h5c30, f.mask \cup REG1, {47}, {}, 0, f.regs_r, FALSE)
     \o push(\h3830, (f.mask \ {40}) \cup IMM20, {40, 47}, {}, 0, f.regs_ic, FALSE)
     \o push(\h4c30, f.mask \cup CB20, {47}, {}, 4, f.regs_ic, FALSE)
  \o iadd_encodings(0) \o iadd_encodings(1) \o imad_encodings(0) \o imad_encodings(1)
  \o triple(<<\h5c38, \h3838, \h4c38>>, word_binary(39..41))
  \o push(\h1fc0, DST \cup SRC0 \cup IMM32 \cup 53..55, {}, {}, 0, S0, FALSE)
  \o triple(<<\h5c20, \h3820, \h4c20>>, [word_binary((39..42) \cup {48}) EXCEPT !.clear = {47}])
  \o isetp_encodings(0) \o isetp_encodings(1) \o isetp_encodings(2)
  \o triple(<<\h5c40, \h3840, \h4c40>>,
            [word_binary({39, 41, 42}) EXCEPT !.src_mod = {40}, !.clear = 48..50,
                                              !.set = 48..50])
  \o FlattenSeq([k \in 1..3 |->
       push(\h0400, DST \cup SRC0 \cup IMM32 \cup {55, 56}, {53, 54}, At(53, k - 1), 0, S0, FALSE)])
  \o triple(<<\h5c08, \h3808, \h4c08>>, NoSrc0(word_binary({40})))
  \o FlattenSeq([k \in 1..6 |-> shf_encodings(k > 3, <<0, 2, 3>>[((k - 1) % 3) + 1])])
  \o shift_encodings(<<\h5c48, \h3848, \h4c48>>, {})
  \o shift_encodings(<<\h5c28, \h3828, \h4c28>>, {48})

\* Conversions: a type is the logarithm of its bytes; an eight-byte type never
\* meets one of one or two bytes.
conversion(kind, dt, st) ==
  LET dw == IF dt = 3 THEN 2 ELSE 1
      sw == IF st = 3 THEN 2 ELSE 1
      f == [word_binary({}) EXCEPT
              !.mask = DST \cup (CASE kind = 0 -> (39..42) \cup {44}
                                   [] kind = 1 -> {12, 39, 40, 41, 44}
                                   [] kind = 2 -> {13, 39, 40}
                                   [] kind = 3 -> {12, 13, 45, 49, 50}),
              !.src_mod = CASE kind \in {0, 1} -> {45, 49} [] kind = 2 -> {45} [] OTHER -> {},
              !.imm = IF kind = 0 THEN (32..38) \cup {56} ELSE @,
              !.clear = (8..11) \cup (CASE kind = 0 -> {50} [] kind = 1 -> {47}
                                        [] kind = 2 -> {41, 42, 49} [] kind = 3 -> {41, 42, 47}),
              !.set = At(8, dt) \cup At(10, st), !.cb = 4 * sw,
              !.regs_r = {<<0, dw>>, <<20, sw>>}, !.regs_ic = {<<0, dw>>},
              !.fp64 = (kind \in {0, 2} /\ dt = 3) \/ (kind \in {0, 1} /\ st = 3)]
      ops == <<<<\h5ca8, \h38a8, \h4ca8>>, <<\h5cb0, \h38b0, \h4cb0>>,
               <<\h5cb8, \h38b8, \h4cb8>>, <<\h5ce0, \h38e0, \h4ce0>>>>
  IN  IF \/ dt = 3 /\ st < 2
         \/ st = 3 /\ dt < 2
         \/ kind \in {0, 2} /\ dt = 0
         \/ kind \in {0, 1} /\ st = 0
      THEN <<>> ELSE triple(ops[kind + 1], f)

other_encodings ==
  push(\h5c98, DST \cup REG1 \cup 39..42, {}, {}, 0, Wide({0, 20}, 1), FALSE)
  \o push(\h4c98, DST \cup CB20 \cup 39..42, {}, {}, 4, Wide({0}, 1), FALSE)
  \o push(\h0100, DST \cup IMM32 \cup 12..15, {}, {}, 0, Wide({0}, 1), FALSE)
  \o FlattenSeq([k \in 1..7 |->
       triple(<<\h5bc0, \h36c0, \h4bc0>>,
              [With3(word_binary(REG2), 1) EXCEPT !.clear = 48..50, !.set = At(48, k - 1),
                                                  !.imm = 20..35])])
  \o triple(<<\h5ca0, \h38a0, \h4ca0>>, word_binary(39..42))
  \o FlattenSeq([k \in 1..4 |->
       LET lane == k > 2  c == k % 2 = 0 IN
       push(\hef10, DST \cup SRC0 \cup {30, 31} \cup (48..50)
                    \cup (IF lane THEN 20..24 ELSE REG1)
                    \cup (IF c THEN (34..38) \cup 42..46 ELSE REG2),
            {28, 29}, (IF lane THEN {28} ELSE {}) \cup (IF c THEN {29} ELSE {}), 0,
            Wide({0, 8} \cup (IF lane THEN {} ELSE {20}) \cup (IF c THEN {} ELSE {39}), 1),
            FALSE)])
  \o FlattenSeq([k \in 1..9 |->
       push(\h5090, (0..5) \cup (12..15) \cup (29..32) \cup 39..42, {24, 25, 45, 46},
            At(24, (k - 1) \div 3) \cup At(45, (k - 1) % 3), 0, {}, FALSE)])

ALU_ENCODINGS ==
  float_encodings \o FlattenSeq([c \in 1..14 |-> float_compare(c)]) \o double_encodings
  \o int_encodings
  \o FlattenSeq([k \in 1..64 |-> conversion((k - 1) \div 16, ((k - 1) \div 4) % 4, (k - 1) % 4)])
  \o other_encodings
matches(e, w) == e.fixed \subseteq w /\ (w \ e.fixed) \subseteq e.mask
find_alu_encoding(w) == SelectInSeq(ALU_ENCODINGS, LAMBDA e : matches(e, w))

(***************************************************************************)
(* One instruction (verify.rs).  The result is the error, or how control   *)
(* goes on.                                                                *)
(***************************************************************************)
Flow(k, kind, to) == [err |-> "None", k |-> k, kind |-> kind, to |-> to]
NextFlow == Flow("Next", 0, 0)
Err(e) == [err |-> e, k |-> "Next", kind |-> 0, to |-> 0]
OrErr(c, e, r) == IF c THEN r ELSE Err(e)

exact(w, opcode, variables, low) == w \ variables = (At(48, opcode) \cup low) \ variables
reg_ok(w, bit, width, m) ==
  LET r == field(w, bit, 8) IN r = 255 \/ r + width <= m.gprs
cb_ok(w, width, m, limits) ==
  LET bank == field(w, 34, 5)
      end == 4 * field(w, 20, 14) + width
  IN  end <= m.cb_sizes[bank] /\ end <= limits.cb_sizes[bank]
resource_ok(w, m, limits) ==
  LET r == field(w, 36, 13) - 8 IN
  r \in 0..63 /\ r \in m.resources /\ r \in limits.resources
Components(w) == Len(SelectSeq(<<31, 32, 33, 34>>, LAMBDA b : b \in w))

\* Whether the metadata declares an attribute; a fragment input is declared
\* with its interpolation, 1 constant, 2 and 3 interpolated.
attribute(m, addr, write, freq) ==
  IF m.stage = "Vertex" THEN addr \in IF write THEN m.outs ELSE m.ins
  ELSE /\ ~write
       /\ CASE addr = \h3fc -> freq = 2
            [] addr < \h80 \/ addr \in \h2c0..\h2ff -> addr \in m.ins
            [] OTHER -> /\ addr \in DOMAIN m.imap
                        /\ m.imap[addr] \in IF freq = 2 THEN {1} ELSE {2, 3}

alu(w, e, m, limits) ==
  CASE \E f \in e.regs : ~reg_ok(w, f[1], f[2], m) -> Err("Register")
    [] e.fp64 /\ "FP64" \notin m.flags -> Err("Metadata")
    [] e.cb # 0 /\ ~cb_ok(w, e.cb, m, limits) -> Err("ConstantBuffer")
    [] OTHER -> NextFlow

Branches == <<[op |-> \he240, kind |-> 0], [op |-> \he290, kind |-> 1],
              [op |-> \he2a0, kind |-> 2], [op |-> \he2b0, kind |-> 3]>>
Pops == <<[op |-> \hf0f8, kind |-> 1], [op |-> \he340, kind |-> 2], [op |-> \he350, kind |-> 3]>>
\* The branch's target is the index of an instruction: offsets count from the
\* next word, and no target may be a schedule word.
branch(w, kind, ip, size) ==
  LET raw == field(w, 20, 24)
      to == ip + 8 + IF raw >= 2^23 THEN raw - 2^24 ELSE raw
      index == (to \div 32) * 3 + (to % 32) \div 8 - 1
  IN  IF to < 8 \/ to >= size \/ to % 8 # 0 \/ to % 32 = 0 THEN Err("Branch")
      ELSE Flow(IF kind = 0 THEN "Branch" ELSE "Push", kind, index)

TexCommon == PRED \cup (0..15) \cup (20..34) \cup 36..50
Textures == <<[op |-> \hc038, v |-> TexCommon \cup {35, 54, 55, 56}],
              [op |-> \hdc38, v |-> TexCommon \cup {35, 55}],
              [op |-> \hc838, v |-> TexCommon \cup 54..57],
              [op |-> \hdf58, v |-> (TexCommon \ {50}) \cup {35}],
              [op |-> \hde38, v |-> (TexCommon \ {50}) \cup {35}]>>
texture(w, op, m, limits) ==
  CASE ~resource_ok(w, m, limits) -> Err("Resource")
    [] \/ field(w, 28, 3) = 5 \/ field(w, 31, 4) = 0
       \/ op = \hc838 /\ field(w, 54, 2) = 3 -> Err("Instruction")
    [] OTHER -> OrErr(/\ reg_ok(w, 0, Components(w), m) /\ reg_ok(w, 8, 1, m)
                      /\ reg_ok(w, 20, 1, m), "Register", NextFlow)
TxqVariables == PRED \cup (0..15) \cup (22..27) \cup (31..34) \cup 36..49
txq(w, m, limits) ==
  CASE field(w, 22, 6) \notin {1, 2, 5} \/ field(w, 31, 4) = 0 -> Err("Instruction")
    [] ~resource_ok(w, m, limits) -> Err("Resource")
    [] OTHER -> OrErr(reg_ok(w, 0, Components(w), m) /\ reg_ok(w, 8, 1, m), "Register", NextFlow)
IoVariables == PRED \cup (0..7) \cup (20..29) \cup {47, 48}
IoFixed(write) == SRC0 \cup REG2 \cup (IF write THEN {32} ELSE {})
attribute_io(w, write, m) ==
  LET addr == field(w, 20, 10)
      comps == field(w, 47, 2) + 1
      Declared(a) == /\ attribute(m, a, write, 0)
                     /\ write => a \div 4 \in m.store[1]..m.store[2]
  IN  CASE m.stage # "Vertex" -> Err("Attribute")
        [] ~reg_ok(w, 0, comps, m) -> Err("Register")
        [] OTHER -> OrErr(\A i \in 0..(comps - 1) : Declared(addr + 4 * i), "Attribute", NextFlow)
IpaVariables == PRED \cup (0..7) \cup (20..37) \cup 52..55
IpaFixed == SRC0 \cup REG2 \cup 47..49
ipa(w, m) ==
  CASE \/ m.stage # "Fragment" \/ field(w, 52, 2) = 3
       \/ ~attribute(m, field(w, 28, 10), FALSE, field(w, 54, 2)) -> Err("Attribute")
    [] OTHER -> OrErr(reg_ok(w, 0, 1, m) /\ reg_ok(w, 20, 1, m), "Register", NextFlow)
\* Scalar reads: allowed says whether the selector is one a program may use.
scalar(w, allowed, m) ==
  IF ~allowed THEN Err("Instruction") ELSE OrErr(reg_ok(w, 0, 1, m), "Register", NextFlow)

Low4 == 0..3
decode_as(k, w, ip, size, m, limits) ==
  LET Is(t, v, low) == SelectInSeq(t, LAMBDA e : exact(w, e.op, v, low))
      br == Is(Branches, PRED \cup 20..43, Low4)
      pop == Is(Pops, PRED, Low4)
      tex == SelectInSeq(Textures, LAMBDA e : exact(w, e.op, e.v, {}))
  IN  CASE k # 0 -> alu(w, ALU_ENCODINGS[k], m, limits)
        [] exact(w, \h50b0, PRED, 8..11) -> NextFlow
        [] exact(w, \he300, PRED, Low4) -> Flow("Exit", 0, 0)
        [] br # 0 -> branch(w, Branches[br].kind, ip, size)
        [] pop # 0 -> Flow("Pop", Pops[pop].kind, 0)
        [] exact(w, \he330, PRED, Low4) ->
             OrErr(m.stage = "Fragment" /\ "KILL" \in m.flags, "Metadata", NextFlow)
        [] tex # 0 -> texture(w, Textures[tex].op, m, limits)
        [] exact(w, \hdf48, TxqVariables, {}) -> txq(w, m, limits)
        [] exact(w, \hefd8, IoVariables, IoFixed(FALSE)) -> attribute_io(w, FALSE, m)
        [] exact(w, \heff0, IoVariables, IoFixed(TRUE)) -> attribute_io(w, TRUE, m)
        [] exact(w, \he000, IpaVariables, IpaFixed) -> ipa(w, m)
        [] exact(w, \hf0c8, PRED \cup (0..7) \cup 20..27, {}) ->
             scalar(w, field(w, 20, 8) \in {0, 16, 17, 19} \cup 56..60, m)
        [] exact(w, \hefe8, PRED \cup (0..7) \cup 31..33, SRC0 \cup 45..47) ->
             scalar(w, m.stage = "Fragment" /\ field(w, 31, 3) \in 1..5, m)
        [] exact(w, \h50d8, PRED \cup (0..7) \cup (39..42) \cup 45..49, {}) ->
             scalar(w, field(w, 48, 2) <= 2, m)
        [] OTHER -> Err("Instruction")
decode(w, ip, size, m, limits) == decode_as(find_alu_encoding(w), w, ip, size, m, limits)

(***************************************************************************)
(* Control: every instruction is reached with one stack of pushed targets. *)
(***************************************************************************)
Conditional(w) == field(w, 16, 3) # 7
Never(w) == field(w, 16, 4) = 15
MaxStack == 16
\* The target a pop of this kind finds and the stack it leaves; none if it
\* would unwind a scope it must not leave.
RECURSIVE pop_to(_, _)
pop_to(stack, kind) ==
  IF stack = <<>> THEN {}
  ELSE LET ty == Last(stack)[1] IN
       CASE ty = kind -> {[to |-> Last(stack)[2], stack |-> Front(stack)]}
         [] kind = 1 \/ (kind = 3 /\ ty # 1) \/ (kind = 2 /\ ty = 2) -> {}
         [] OTHER -> pop_to(Front(stack), kind)
\* The successors of an instruction with their stacks, as a set of at most one
\* sequence in the order of their propagation.
successors(ip, stack, w, f) ==
  LET fall == IF Conditional(w) \/ Never(w) THEN <<<<ip + 1, stack>>>> ELSE <<>> IN
  CASE Never(w) -> {fall}
    [] f.k = "Next" -> {IF Conditional(w) THEN fall ELSE <<<<ip + 1, stack>>>>}
    [] f.k = "Exit" -> {fall}
    [] f.k = "Branch" -> {Append(fall, <<f.to, stack>>)}
    [] f.k = "Push" -> IF Len(stack) = MaxStack THEN {}
                       ELSE {Append(fall, <<ip + 1, Append(stack, <<f.kind, f.to>>)>>)}
    [] f.k = "Pop" -> {Append(fall, <<p.to, p.stack>>) : p \in pop_to(stack, f.kind)}
propagate(st, s) ==
  CASE st.err # "None" -> st
    [] s[1] >= st.size -> [st EXCEPT !.err = "Fallthrough"]
    [] s[1] \in DOMAIN st.states -> IF st.states[s[1]] = s[2] THEN st
                                    ELSE [st EXCEPT !.err = "ControlStack"]
    [] OTHER -> [st EXCEPT !.states = (s[1] :> s[2]) @@ @, !.work = Append(@, s[1]),
                           !.depth = IF Len(s[2]) > @ THEN Len(s[2]) ELSE @]
visit(st, words, flows) ==
  IF st.err # "None" \/ st.work = <<>> THEN st
  ELSE LET ip == Last(st.work)
           next == successors(ip, st.states[ip], words[ip], flows[ip])
           popped == [st EXCEPT !.work = Front(@)]
       IN  IF next = {} THEN [st EXCEPT !.err = "ControlStack"]
           ELSE FoldLeft(propagate, popped, CHOOSE s \in next : TRUE)
\* Every instruction is put on the work list at most once.
prove_control(words, flows, size) ==
  Through(LAMBDA st, k : visit(st, words, flows),
          [err |-> "None", size |-> size, states |-> (0 :> <<>>), work |-> <<0>>, depth |-> 0],
          [k \in 1..size |-> k])

(***************************************************************************)
(* Attribute addresses are kept in four banks of one bit, or one           *)
(* interpolation, a word.                                                  *)
(***************************************************************************)
AB == <<0, \h80>>
ATTR == <<\h80, \h280>>
C == <<\h2c0, \h300>>
D == <<\h3a0, \h3c0>>
Index(bank, a) == (a - bank[1]) \div 4
Addresses(bank) == {bank[1] + 4 * i : i \in 0..(Index(bank, bank[2]) - 1)}
set_mask(addrs, bank, at) == {at + Index(bank, a) : a \in addrs \cap Addresses(bank)}
get_mask(bits, bank, at) == {a \in Addresses(bank) : at + Index(bank, a) \in bits}
set_imap(imap, bank, at, width) ==
  UNION {At(at + width * Index(bank, a), imap[a]) : a \in DOMAIN imap \cap Addresses(bank)}
get_imap(bits, bank, at, width) ==
  LET Value(a) == field(bits, at + width * Index(bank, a), width) IN
  [a \in {x \in Addresses(bank) : Value(x) # 0} |-> Value(a)]

(***************************************************************************)
(* A program (verify.rs, lib.rs).                                          *)
(***************************************************************************)
MAX_CB_SIZE == 65536
MaxCodeWords == 8192
check(m) ==
  /\ m.gprs >= 4
  /\ \A b \in DOMAIN m.cb_sizes : m.cb_sizes[b] <= MAX_CB_SIZE /\ m.cb_sizes[b] % 4 = 0
  /\ IF m.stage = "Vertex"
     THEN /\ m.flags \cap {"DEPTH", "SAMPLE_MASK", "KILL"} = {} /\ m.colors = {} /\ DOMAIN m.imap = {}
          /\ m.store[1] <= m.store[2]
     ELSE /\ m.outs = {} /\ m.ins \cap (Addresses(ATTR) \cup Addresses(D)) = {}
          /\ m.store = <<0, 0>> /\ \h7c \in m.ins
          /\ \A a \in DOMAIN m.imap : m.imap[a] \in 0..3

\* The hardware's header.
header(m) ==
  At(0, IF m.stage = "Vertex" THEN 1 ELSE 2) \cup At(5, 3)
  \cup At(10, IF m.stage = "Vertex" THEN 1 ELSE 5) \cup At(17, 1)
  \cup (IF "FP64" \in m.flags THEN {27} ELSE {}) \cup set_mask(m.ins, AB, 160)
  \cup IF m.stage = "Vertex"
        THEN At(140, m.store[1]) \cup At(152, m.store[2])
             \cup set_mask(m.ins, ATTR, 192) \cup set_mask(m.outs, ATTR, 432)
             \cup set_mask(m.ins, C, 336) \cup set_mask(m.ins, D, 392)
             \cup set_mask(m.outs, AB, 400) \cup set_mask(m.outs, C, 576)
             \cup set_mask(m.outs, D, 632)
        ELSE {14} \cup (IF "KILL" \in m.flags THEN {15} ELSE {})
             \cup set_imap(m.imap, ATTR, 192, 2) \cup set_mask(m.ins, C, 464)
             \cup set_imap(m.imap, D, 560, 2) \cup {576 + b : b \in m.colors}
             \cup (IF "SAMPLE_MASK" \in m.flags THEN {608} ELSE {})
             \cup (IF "DEPTH" \in m.flags THEN {609} ELSE {})

\* The package: the bits of its header, eight to the byte, and the code.
FLAGS == <<"DEPTH", "SAMPLE_MASK", "KILL", "FP64">>
MAGIC == "MXPROG01"
VERSION == 1
HEADER_SIZE == 512
Reserved == (8 * 20)..(8 * 24 - 1) \cup (8 * 348)..(8 * HEADER_SIZE - 1)
encode_into(m, code) ==
  [magic |-> MAGIC, code |-> code,
   bits |-> At(8 * 8, VERSION) \cup At(8 * 10, HEADER_SIZE) \cup At(8 * 12, 8 * Len(code))
            \cup At(8 * 16, IF m.stage = "Vertex" THEN 0 ELSE 1) \cup At(8 * 17, m.gprs)
            \cup {8 * 18 + k - 1 : k \in {x \in DOMAIN FLAGS : FLAGS[x] \in m.flags}}
            \cup {8 * 24 + r : r \in m.resources}
            \cup UNION {At(8 * (32 + 4 * b), m.cb_sizes[b]) : b \in 0..31}
            \cup set_mask(IF m.stage = "Vertex" THEN m.ins ELSE {}, ATTR, 8 * 160)
            \cup set_mask(m.outs, ATTR, 8 * 176)
            \cup set_mask(m.ins, AB, 8 * 192) \cup set_mask(m.outs, AB, 8 * 196)
            \cup set_mask(m.ins, C, 8 * 200) \cup set_mask(m.outs, C, 8 * 202)
            \cup set_mask(m.ins, D, 8 * 204) \cup set_mask(m.outs, D, 8 * 205)
            \cup At(8 * 206, m.store[1]) \cup At(8 * 207, m.store[2])
            \cup set_imap(m.imap, ATTR, 8 * 208, 8) \cup set_imap(m.imap, D, 8 * 336, 8)
            \cup {8 * 344 + b : b \in m.colors}]
parse(p) ==
  LET b == p.bits
      Byte(n) == field(b, 8 * n, 8)
  IN  [ok |-> /\ p.magic = MAGIC /\ field(b, 64, 16) = VERSION /\ field(b, 80, 16) = HEADER_SIZE
              /\ field(b, 96, 32) = 8 * Len(p.code) /\ Byte(16) \in {0, 1}
              /\ b \cap Reserved = {},
       m |-> [stage |-> IF Byte(16) = 0 THEN "Vertex" ELSE "Fragment", gprs |-> Byte(17),
              flags |-> {FLAGS[k] : k \in {x \in DOMAIN FLAGS : 8 * 18 + x - 1 \in b}},
              resources |-> {r \in 0..63 : 8 * 24 + r \in b},
              cb_sizes |-> [k \in 0..31 |-> field(b, 8 * (32 + 4 * k), 32)],
              ins |-> get_mask(b, ATTR, 8 * 160) \cup get_mask(b, AB, 8 * 192)
                      \cup get_mask(b, C, 8 * 200) \cup get_mask(b, D, 8 * 204),
              outs |-> get_mask(b, ATTR, 8 * 176) \cup get_mask(b, AB, 8 * 196)
                       \cup get_mask(b, C, 8 * 202) \cup get_mask(b, D, 8 * 205),
              store |-> <<Byte(206), Byte(207)>>,
              imap |-> get_imap(b, ATTR, 8 * 208, 8) @@ get_imap(b, D, 8 * 336, 8),
              colors |-> {k \in 0..31 : 8 * 344 + k \in b}]]

\* The barrier fields of the three lanes of a schedule word.
schedule_ok(w) ==
  /\ 63 \notin w
  /\ \A lane \in 0..2 : 6 \notin {field(w, 21 * lane + 5, 3), field(w, 21 * lane + 8, 3)}
\* The error of the first instruction that has one.
FirstError(flows) ==
  LET k == SelectInSeq(flows, LAMBDA f : f.err # "None") IN
  IF k = 0 THEN "None" ELSE flows[k].err
\* code is the sequence of the program's words, and flows what control does
\* behind each instruction.
Count(code) == (Len(code) \div 4) * 3
At4(i) == (i \div 3) * 4 + (i % 3) + 2
validate_flows(m, code, limits, flows) ==
  LET n == Count(code)
      first == FirstError([i \in 1..n |-> flows[i - 1]])
      proof == prove_control([i \in 0..(n - 1) |-> code[At4(i)]], flows, n)
      Fail(e) == [err |-> e, depth |-> 0]
  IN  CASE ~check(m) -> Fail("Metadata")
        [] code = <<>> \/ Len(code) > MaxCodeWords \/ Len(code) % 4 # 0 -> Fail("Size")
        [] \/ ~(m.resources \subseteq limits.resources)
           \/ \E b \in DOMAIN m.cb_sizes : m.cb_sizes[b] > limits.cb_sizes[b] -> Fail("Resource")
        [] \E g \in 0..(Len(code) \div 4 - 1) : ~schedule_ok(code[4 * g + 1]) -> Fail("Scheduling")
        [] first # "None" -> Fail(first)
        [] OTHER -> [err |-> proof.err, depth |-> proof.depth]
validate(m, code, limits) ==
  validate_flows(m, code, limits,
                 [i \in 0..(Count(code) - 1) |->
                    decode(code[At4(i)], 8 * (At4(i) - 1), 8 * Len(code), m, limits)])
=============================================================================
