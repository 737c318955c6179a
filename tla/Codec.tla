------------------------------- MODULE Codec -------------------------------
(***************************************************************************)
(* The instruction codec (inscodec/codec.c, encode.inc, disas.c): decoding *)
(* a word by a tree of look-up tables, the template word of each operation *)
(* found by walking the same tree, and the text of an instruction, which   *)
(* disas prints and as reads back.                                         *)
(*                                                                         *)
(* A word is a record of its fields as the R format cuts it; the 16 bits   *)
(* of an immediate, the 26 of a jump and the 20 of a code lie over several *)
(* of them.  An instruction is the record instr_t, its opcode a name of    *)
(* opnm.h or "none" for -1.  A line of text is the name and the value of   *)
(* each operand: names of registers and digits stand for the same values   *)
(* when printed and when read.                                             *)
(***************************************************************************)
EXTENDS Integers, Sequences, FiniteSets

CONSTANT
  Stray   (* the names a table read beyond its end may give *)

R == "RESERVED"

ASSUME StrayAssumption == Stray \subseteq STRING /\ R \in Stray

Dense(row) == [i \in 0 .. Len(row) - 1 |-> row[i + 1]]

Sparse(n, entries) ==
  [i \in 0 .. n - 1 |->
     IF \E e \in entries : e[1] = i THEN (CHOOSE e \in entries : e[1] = i)[2] ELSE R]
-----------------------------------------------------------------------------
PrimaryOpcodeLookUpTable == Dense(<<
    "SPECIAL", "REGIMM", "J", "JAL", "BEQ", "BNE", "BLEZ", "BGTZ", "ADDI",
    "ADDIU", "SLTI", "SLTIU", "ANDI", "ORI", "XORI", "LUI", "COP0", "COP1", R,
    R, "BEQL", "BNEL", "BLEZL", "BGTZL", "DADDI", "DADDIU", "LDL", "LDR",
    "MMI", R, "LQ", "SQ", "LB", "LH", "LWL", "LW", "LBU", "LHU", "LWR", "LWU",
    "SB", "SH", "SWL", "SW", "SDL", "SDR", "SWR", "CACHE", R, "LWC1", R,
    "PREF", R, "LDC1", R, "LD", R, "SWC1", R, R, R, "SDC1", R, "SD">>)

SpecialOpcodeLookUpTable == Dense(<<
    "SLL", R, "SRL", "SRA", "SLLV", R, "SRLV", "SRAV", "JR", "JALR", "MOVZ",
    "MOVN", "SYSCALL", "BREAK", R, "SYNC", "MFHI", "MTHI", "MFLO", "MTLO",
    "DSLLV", R, "DSRLV", "DSRAV", "MULT", "MULTU", "DIV", "DIVU", R, R, R, R,
    "ADD", "ADDU", "SUB", "SUBU", "AND", "OR", "XOR", "NOR", "MFSA", "MTSA",
    "SLT", "SLTU", "DADD", "DADDU", "DSUB", "DSUBU", "TGE", "TGEU", "TLT",
    "TLTU", "TEQ", R, "TNE", R, "DSLL", R, "DSRL", "DSRA", "DSLL32", R,
    "DSRL32", "DSRA32">>)

RegImmOpcodeLookUpTable == Dense(<<
    "BLTZ", "BGEZ", "BLTZL", "BGEZL", R, R, R, R, "TGEI", "TGEIU", "TLTI",
    "TLTIU", "TEQI", R, "TNEI", R, "BLTZAL", "BGEZAL", "BLTZALL", "BGEZALL",
    R, R, R, R, "MTSAB", "MTSAH", R, R, R, R, R, R>>)

MMIOpcodeLookUpTable == Sparse(64, {
    <<0, "MADD">>, <<1, "MADDU">>, <<4, "PLZCW">>, <<8, "MMI0">>,
    <<9, "MMI2">>, <<16, "MFHI1">>, <<17, "MTHI1">>, <<18, "MFLO1">>,
    <<19, "MTLO1">>, <<24, "MULT1">>, <<25, "MULTU1">>, <<26, "DIV1">>,
    <<27, "DIVU1">>, <<32, "MADD1">>, <<33, "MADDU1">>, <<40, "MMI1">>,
    <<41, "MMI3">>, <<48, "PMFHL">>, <<49, "PMTHL_LW">>, <<52, "PSLLH">>,
    <<54, "PSRLH">>, <<55, "PSRAH">>, <<60, "PSLLW">>, <<62, "PSRLW">>,
    <<63, "PSRAW">>})

PMFHLOpcodeLookUpTable == Dense(<<
    "PMFHL_LW", "PMFHL_UW", "PMFHL_SLW", "PMFHL_LH", "PMFHL_SH">>)

MMI0OpcodeLookUpTable == Dense(<<
    "PADDW", "PSUBW", "PCGTW", "PMAXW", "PADDH", "PSUBH", "PCGTH", "PMAXH",
    "PADDB", "PSUBB", "PCGTB", R, R, R, R, R, "PADDSW", "PSUBSW", "PEXTLW",
    "PPACW", "PADDSH", "PSUBSH", "PEXTLH", "PPACH", "PADDSB", "PSUBSB",
    "PEXTLB", "PPACB", R, R, "PEXT5", "PPAC5">>)

MMI1OpcodeLookUpTable == Dense(<<
    R, "PABSW", "PCEQW", "PMINW", "PADSBH", "PABSH", "PCEQH", "PMINH", R, R,
    "PCEQB", R, R, R, R, R, "PADDUW", "PSUBUW", "PEXTUW", R, "PADDUH",
    "PSUBUH", "PEXTUH", R, "PADDUB", "PSUBUB", "PEXTUB", "QFSRV", R, R, R,
    R>>)

MMI2OpcodeLookUpTable == Dense(<<
    "PMADDW", R, "PSLLVW", "PSRLVW", "PMSUBW", R, R, R, "PMFHI", "PMFLO",
    "PINTH", R, "PMULTW", "PDIVW", "PCPYLD", R, "PMADDH", "PHMADH", "PAND",
    "PXOR", "PMSUBH", "PHMSBH", R, R, R, R, "PEXEH", "PREVH", "PMULTH",
    "PDIVBW", "PEXEW", "PROT3W">>)

MMI3OpcodeLookUpTable == Sparse(32, {
    <<0, "PMADDUW">>, <<3, "PSRAVW">>, <<8, "PMTHI">>, <<9, "PMTLO">>,
    <<10, "PINTEH">>, <<12, "PMULTUW">>, <<13, "PDIVUW">>, <<14, "PCPYUD">>,
    <<18, "POR">>, <<19, "PNOR">>, <<26, "PEXCH">>, <<27, "PCPYH">>,
    <<30, "PEXCW">>})

COP0OpcodeLookUpTable == Sparse(32, {
    <<0, "MF0">>, <<4, "MT0">>, <<8, "BC0">>, <<16, "C0">>})

MF0OpcodeLookUpTable ==
  [rd \in 0 .. 31 |-> CASE rd = 24 -> "MF0DBG" [] rd = 25 -> "MF0PREF" [] OTHER -> "MFC0"]

MT0OpcodeLookUpTable ==
  [rd \in 0 .. 31 |-> CASE rd = 24 -> "MT0DBG" [] rd = 25 -> "MT0PREF" [] OTHER -> "MTC0"]

MF0DebugOpcodeLookUpTable == Dense(<<
    "MFBPC", R, "MFIAB", "MFIABM", "MFDAB", "MFDABM", "MFDVB", "MFDVBM">>)

MT0DebugOpcodeLookUpTable == Dense(<<
    "MTBPC", R, "MTIAB", "MTIABM", "MTDAB", "MTDABM", "MTDVB", "MTDVBM">>)

MF0PrefOpcodeLookUpTable == Dense(<<
    "MFPS", "MFPC">>)

MT0PrefOpcodeLookUpTable == Dense(<<
    "MTPS", "MTPC">>)

BC0OpcodeLookUpTable == Dense(<<
    "BC0F", "BC0T", "BC0FL", "BC0TL">>)

C0OpcodeLookUpTable == Sparse(64, {
    <<1, "TLBR">>, <<2, "TLBWI">>, <<6, "TLBWR">>, <<8, "TLBP">>,
    <<24, "ERET">>, <<56, "EI">>, <<57, "DI">>})

COP1OpcodeLookUpTable == Sparse(32, {
    <<0, "MFC1">>, <<1, "DMFC1">>, <<2, "CFC1">>, <<4, "MTC1">>,
    <<5, "DMTC1">>, <<6, "CTC1">>, <<8, "BC1">>, <<16, "S">>, <<17, "D">>,
    <<20, "W">>, <<21, "L">>})

BC1OpcodeLookUpTable == Dense(<<
    "BC1F", "BC1T">>)

SOpcodeLookUpTable == Dense(<<
    "ADD_S", "SUB_S", "MUL_S", "DIV_S", "SQRT_S", "ABS_S", "MOV_S", "NEG_S",
    "ROUND_L_S", "TRUNC_L_S", "CEIL_L_S", "FLOOR_L_S", "ROUND_W_S",
    "TRUNC_W_S", "CEIL_W_S", "FLOOR_W_S", R, R, R, R, R, R, R, R, "ADDA_S", R,
    R, R, R, R, R, R, R, "CVT_D_S", R, R, "CVT_W_S", "CVT_L_S", R, R, R, R, R,
    R, R, R, R, R, "C_F_S", "C_UN_S", "C_EQ_S", "C_UEQ_S", "C_OLT_S",
    "C_ULT_S", "C_OLE_S", "C_ULE_S", "C_SF_S", "C_NGLE_S", "C_SEQ_S",
    "C_NGL_S", "C_LT_S", "C_NGE_S", "C_LE_S", "C_NGE_S">>)

DOpcodeLookUpTable == Dense(<<
    "ADD_D", "SUB_D", "MUL_D", "DIV_D", "SQRT_D", "ABS_D", "MOV_D", "NEG_D",
    "ROUND_L_D", "TRUNC_L_D", "CEIL_L_D", "FLOOR_L_D", "ROUND_W_D",
    "TRUNC_W_D", "CEIL_W_D", "FLOOR_W_D", R, R, R, R, R, R, R, R, R, R, R, R,
    R, R, R, R, "CVT_S_D", R, R, R, "CVT_W_D", "CVT_L_D", R, R, R, R, R, R, R,
    R, R, R, "C_F_D", "C_UN_D", "C_EQ_D", "C_UEQ_D", "C_OLT_D", "C_ULT_D",
    "C_OLE_D", "C_ULE_D", "C_SF_D", "C_NGLE_D", "C_SEQ_D", "C_NGL_D",
    "C_LT_D", "C_NGE_D", "C_LE_D", "C_NGE_D">>)

WOpcodeLookUpTable == Sparse(64, {
    <<32, "CVT_S_W">>, <<33, "CVT_D_W">>})

LOpcodeLookUpTable == Sparse(64, {
    <<32, "CVT_S_L">>, <<33, "CVT_D_L">>})
-----------------------------------------------------------------------------
(* The tables a name leads to, and the field that indexes each.  Those of  *)
(* the debug and performance registers are filled in but never looked at:  *)
(* LookUpMF0 and LookUpMT0 compare the number of a register with them.     *)
Inner ==
  [table \in {"SPECIAL", "REGIMM", "MMI", "PMFHL", "MMI0", "MMI1", "MMI2",
               "MMI3", "COP0", "MF0", "MT0", "BC0", "C0", "COP1", "BC1",
               "S", "D", "W", "L"} |->
     CASE table = "SPECIAL" -> SpecialOpcodeLookUpTable
       [] table = "REGIMM"  -> RegImmOpcodeLookUpTable
       [] table = "MMI"     -> MMIOpcodeLookUpTable
       [] table = "PMFHL"   -> PMFHLOpcodeLookUpTable
       [] table = "MMI0"    -> MMI0OpcodeLookUpTable
       [] table = "MMI1"    -> MMI1OpcodeLookUpTable
       [] table = "MMI2"    -> MMI2OpcodeLookUpTable
       [] table = "MMI3"    -> MMI3OpcodeLookUpTable
       [] table = "COP0"    -> COP0OpcodeLookUpTable
       [] table = "MF0"     -> MF0OpcodeLookUpTable
       [] table = "MT0"     -> MT0OpcodeLookUpTable
       [] table = "BC0"     -> BC0OpcodeLookUpTable
       [] table = "C0"      -> C0OpcodeLookUpTable
       [] table = "COP1"    -> COP1OpcodeLookUpTable
       [] table = "BC1"     -> BC1OpcodeLookUpTable
       [] table = "S"       -> SOpcodeLookUpTable
       [] table = "D"       -> DOpcodeLookUpTable
       [] table = "W"       -> WOpcodeLookUpTable
       [] table = "L"       -> LOpcodeLookUpTable]

IndexField(table) ==
  CASE table \in {"REGIMM", "BC0", "BC1"} -> "rt"
    [] table \in {"COP0", "COP1"}         -> "rs"
    [] table \in {"MF0", "MT0"}           -> "rd"
    [] table \in {"PMFHL", "MMI0", "MMI1", "MMI2", "MMI3"} -> "sa"
    [] OTHER -> "funct"

(* One look-up: the names a name may lead to in a word.                    *)
LookUp(name, word) ==
  IF name \notin DOMAIN Inner THEN {name}
  ELSE LET i == word[IndexField(name)]
       IN  IF i \in DOMAIN Inner[name] THEN {Inner[name][i]} ELSE Stray

LookUpOpcode(word) ==
  UNION {LookUp(n, word) : n \in LookUp(PrimaryOpcodeLookUpTable[word.opcode], word)}
-----------------------------------------------------------------------------
ZeroWord == [opcode |-> 0, rs |-> 0, rt |-> 0, rd |-> 0, sa |-> 0, funct |-> 0]

(* The entries of a table, each with the word that leads to it from word.  *)
Entries(table, field, word) ==
  {<<table[i], [word EXCEPT ![field] = i]>> : i \in {j \in DOMAIN table : table[j] # R}}

(* PrepareMF0 and PrepareMT0: only here are the debug and performance      *)
(* registers reached.                                                      *)
MovePlaces(plain, debug, pref, word) ==
  {<<plain, word>>} \cup Entries(debug, "funct", [word EXCEPT !.rd = 24])
                    \cup Entries(pref, "funct", [word EXCEPT !.rd = 25])

Places(name, word) ==
  CASE name = "MF0" -> MovePlaces("MFC0", MF0DebugOpcodeLookUpTable,
                                  MF0PrefOpcodeLookUpTable, word)
    [] name = "MT0" -> MovePlaces("MTC0", MT0DebugOpcodeLookUpTable,
                                  MT0PrefOpcodeLookUpTable, word)
    [] name \in DOMAIN Inner \ {"MF0", "MT0"} ->
         Entries(Inner[name], IndexField(name), word)
    [] OTHER -> {<<name, word>>}

(* PrepareOpcodeBuffer walks the tables three deep.                        *)
Prepared ==
  LET primary == Entries(PrimaryOpcodeLookUpTable, "opcode", ZeroWord)
      second  == UNION {Places(p[1], p[2]) : p \in primary}
  IN  UNION {Places(p[1], p[2]) : p \in second}

Opcodes == {p[1] : p \in Prepared} \cup {"NOP", "C_NGT_S", "C_NGT_D"}

(* The last entry that a name has is the one that stays (C.NGE has two);   *)
(* a name without one keeps the zero of a static array (C.NGT has none).   *)
opcode_buffer ==
  [op \in Opcodes |->
     LET words == {p[2] : p \in {q \in Prepared : q[1] = op}}
     IN  IF words = {} THEN ZeroWord
         ELSE CHOOSE w \in words : \A v \in words : v.funct <= w.funct]
-----------------------------------------------------------------------------
Named(table) == {table[i] : i \in DOMAIN table} \ {R}

DebugMoves ==
  Named(MF0DebugOpcodeLookUpTable) \cup Named(MT0DebugOpcodeLookUpTable) \cup
  Named(MF0PrefOpcodeLookUpTable) \cup Named(MT0PrefOpcodeLookUpTable)

Compares ==
  {SOpcodeLookUpTable[i] : i \in 48 .. 63} \cup {DOpcodeLookUpTable[i] : i \in 48 .. 63}
  \cup {"C_NGT_S", "C_NGT_D"}

FloatArithmetic ==
  {"ADD_S", "ADD_D", "SUB_S", "SUB_D", "MUL_S", "MUL_D", "DIV_S", "DIV_D", "ADDA_S"}

FloatUnary ==
  (Named(SOpcodeLookUpTable) \cup Named(DOpcodeLookUpTable)
   \cup Named(WOpcodeLookUpTable) \cup Named(LOpcodeLookUpTable))
  \ (Compares \cup FloatArithmetic)

(* instructions[]: the type of each operation and the operands its pattern *)
(* names.  The letter says how an operand is written, the rest which field *)
(* it is kept in.                                                          *)
Form(op) ==
  LET Is(t, p) == [type |-> t, para |-> p]
  IN  CASE op \in {"ADDI", "ADDIU", "DADDI", "DADDIU", "SLTI"} ->
             Is("imm", {"$rt", "$rs", "#im"})
        [] op \in {"ANDI", "ORI", "SLTIU", "XORI"} -> Is("immu", {"$rt", "$rs", "%im"})
        [] op = "LUI" -> Is("immu", {"$rt", "%im"})
        [] op \in {"BEQ", "BEQL", "BNE", "BNEL"} -> Is("imma", {"$rs", "$rt", "&im"})
        [] op \in {"BGEZ", "BGEZAL", "BGEZALL", "BGEZL", "BGTZ", "BGTZL", "BLEZ",
                   "BLEZL", "BLTZ", "BLTZAL", "BLTZALL", "BLTZL"} ->
             Is("imma", {"$rs", "&im"})
        [] op \in {"BC1F", "BC1T"} -> Is("imma", {"&im"})
        [] op \in {"BC0F", "BC0FL", "BC0T", "BC0TL"} -> Is("imma", {"%im"})
        [] op = "CACHE" -> Is("imma", {"$rt", "%im", "$rs"})
        [] op \in {"BREAK", "SYSCALL"} -> Is("code", {"!im"})
        [] op \in {"J", "JAL"} -> Is("jump", {"*im"})
        [] op \in {"DIV", "DIVU", "MULTU", "TEQ", "TGE", "TGEU", "TLT", "TLTU", "TNE",
                   "DIV1", "DIVU1", "MULT1", "MULTU1", "PDIVBW", "PDIVUW", "PDIVW"} ->
             Is("reg", {"$rs", "$rt"})
        [] op \in {"DSLL", "DSLL32", "DSRA", "DSRA32", "DSRL", "DSRL32", "SLL", "SRA",
                   "SRL", "PSLLH", "PSLLW", "PSRAH", "PSRAW", "PSRLH", "PSRLW"} ->
             Is("reg", {"$rd", "$rt", "%sa"})
        [] op \in {"JALR", "PLZCW"} -> Is("reg", {"$rd", "$rs"})
        [] op \in {"JR", "MTHI", "MTLO", "MTHI1", "MTLO1", "MTSA", "PMTHI", "PMTHL_LW"} ->
             Is("reg", {"$rs"})
        [] op \in {"LB", "LBU", "LD", "LDL", "LDR", "LH", "LHU", "LW", "LWL", "LWR",
                   "LWU", "PREF", "SB", "SD", "SDL", "SDR", "SH", "SW", "SWL", "SWR",
                   "LQ", "SQ"} -> Is("imm", {"$rt", "#im", "$rs"})
        [] op \in {"LDC1", "LWC1", "SDC1", "SWC1"} -> Is("imm", {"@rt", "#im", "$rs"})
        [] op \in {"TEQI", "TGEI", "TGEIU", "TLTI", "TLTIU", "TNEI", "MTSAB", "MTSAH"} ->
             Is("imm", {"$rs", "#im"})
        [] op \in {"MFHI", "MFLO", "MFHI1", "MFLO1", "MFSA", "PMFHI", "PMFHL_LW",
                   "PMFHL_UW", "PMFHL_SLW", "PMFHL_LH", "PMFHL_SH", "PMFLO"} ->
             Is("reg", {"$rd"})
        [] op = "SYNC" -> Is("reg", {"!sa"})
        [] op \in {"PABSH", "PABSW", "PEXCH", "PEXCW", "PEXEH", "PEXEW", "PEXT5",
                   "PPAC5", "PREVH", "PROT3W", "QFSRV"} -> Is("reg", {"$rd", "$rt"})
        [] op \in {"DI", "EI", "ERET", "TLBP", "TLBR", "TLBWI", "TLBWR"} -> Is("reg", {})
        [] op \in DebugMoves -> Is("reg", {"$rt"})
        [] op \in {"MFC0", "MTC0", "CFC1", "CTC1"} -> Is("reg", {"$rt", "^rd"})
        [] op \in {"DMFC1", "DMTC1", "MFC1", "MTC1"} -> Is("reg", {"$rt", "@rd"})
        [] op \in FloatArithmetic -> Is("regf", {"@fd", "@fs", "@ft"})
        [] op \in Compares -> Is("regf", {"@fs", "@ft"})
        [] op \in FloatUnary -> Is("regf", {"@fd", "@fs"})
        [] op = "NOP" -> Is("nop", {})
        [] OTHER -> Is("reg", {"$rd", "$rs", "$rt"})

instructions == [op \in Opcodes |-> Form(op)]

Type(op) == instructions[op].type

(* _get_target_: where the value of an operand is kept. *)
Target(operand) ==
  CASE operand \in {"$rs"} -> "rs"
    [] operand \in {"$rt", "@rt", "@ft"} -> "rt"
    [] operand \in {"$rd", "@rd", "^rd", "@fs"} -> "rd"
    [] operand \in {"%sa", "!sa", "@fd"} -> "sa"
    [] operand \in {"#im", "%im", "&im", "*im", "!im"} -> "imm"

Operands(op) == {Target(o) : o \in instructions[op].para}

(* The offsets of loads and stores among them, which may be negative.      *)
Unsigned_Offsets(op) ==
  {Target(o) : o \in instructions[op].para \cap {"#im", "%im", "%sa", "*im"}}

(* The operands whose value must not be negative.                          *)
Unsigned(op) == {Target(o) : o \in instructions[op].para \cap {"%im", "%sa", "*im"}}
-----------------------------------------------------------------------------
Immediate(word) == word.rd * 2048 + word.sa * 64 + word.funct

WithImmediate(word, n) ==
  [word EXCEPT !.rd = (n \div 2048) % 32, !.sa = (n \div 64) % 32, !.funct = n % 64]

SignExtend(n) == IF n >= 2^15 THEN n - 2^16 ELSE n

(* The immediate operand that each type of instruction carries. *)
ImmediateOf(type, word) ==
  CASE type = "code" -> ((word.rs * 32 + word.rt) * 32 + word.rd) * 32 + word.sa
    [] type = "imm"  -> SignExtend(Immediate(word))
    [] type = "immu" -> Immediate(word)
    [] type = "imma" -> 4 * SignExtend(Immediate(word))
    [] type = "jump" -> 4 * ((word.rs * 32 + word.rt) * 2^16 + Immediate(word))
    [] OTHER -> 0

NoInstruction == [opcode |-> "none", rs |-> 0, rt |-> 0, rd |-> 0, sa |-> 0, imm |-> 0]

(* What DecodeInstruction returns when its look-up gave name. *)
Decoded(name, word) ==
  IF word = ZeroWord THEN [NoInstruction EXCEPT !.opcode = "NOP"]
  ELSE IF name \notin Opcodes \/ name = "NOP" THEN NoInstruction
  ELSE LET type == Type(name)
           kept == CASE type = "reg"  -> {"rs", "rt", "rd", "sa"}
                     [] type = "regf" -> {"rt", "rd", "sa"}
                     [] type \in {"imm", "immu", "imma"} -> {"rs", "rt"}
                     [] OTHER -> {}
       IN  [f \in DOMAIN NoInstruction |->
              CASE f = "opcode" -> name
                [] f = "imm"    -> ImmediateOf(type, word)
                [] OTHER        -> IF f \in kept THEN word[f] ELSE 0]

DecodeInstruction(word) == {Decoded(name, word) : name \in LookUpOpcode(word)}
-----------------------------------------------------------------------------
QuadShifts == {"PSLLH", "PSLLW", "PSRAH", "PSRAW", "PSRLH", "PSRLW"}
ControlMoves == {"MFC0", "MTC0", "CFC1", "CTC1"}
LateCompares == {"C_LT_S", "C_LT_D", "C_NGE_S", "C_NGE_D", "C_LE_S", "C_LE_D",
                 "C_NGT_S", "C_NGT_D"}

(* encode.inc: the cases fill in the fields their patterns name, except    *)
(* that the shifts of packed words fill rs in place of rd, the moves to    *)
(* and from control registers fill rt alone, and ADDA.S has no case.       *)
Filled(op) ==
  CASE op \in QuadShifts   -> {"rs", "rt", "sa"}
    [] op \in ControlMoves -> {"rt"}
    [] op = "ADDA_S"       -> {}
    [] OTHER               -> Operands(op)

(* The upper ten bits of a jump's target left out. *)
PutImmediate_Low(type, word, n) ==
  IF type \in {"imma", "jump"} THEN WithImmediate(word, n \div 4)
  ELSE WithImmediate(word, n)

PutImmediate(type, word, n) ==
  CASE type = "imma" -> WithImmediate(word, n \div 4)
    [] type = "jump" -> [WithImmediate(word, n \div 4) EXCEPT
                           !.rs = (n \div 2^23) % 32, !.rt = (n \div 2^18) % 32]
    [] type = "code" -> [word EXCEPT !.rs = (n \div 2^15) % 32, !.rt = (n \div 2^10) % 32,
                                     !.rd = (n \div 32) % 32, !.sa = n % 32]
    [] OTHER -> WithImmediate(word, n)

(* The sa of an instruction stored whether or not it has one. *)
EncodeInstruction_AnySa(ins) ==
  [f \in DOMAIN ZeroWord |->
     IF f \in Filled(ins.opcode) \cup {"sa"} THEN ins[f] % 32
     ELSE opcode_buffer[ins.opcode][f]]

EncodeInstruction(ins) ==
  LET op     == ins.opcode
      filled == Filled(op)
      fields == [f \in DOMAIN ZeroWord |->
                   IF f \in filled THEN ins[f] % 32 ELSE opcode_buffer[op][f]]
  IN  CASE op = "NOP"           -> ZeroWord
        [] op \in LateCompares  -> [opcode_buffer[op] EXCEPT !.rs = ins.rd, !.rt = ins.rt]
        [] "imm" \in filled     -> PutImmediate(Type(op), fields, ins.imm)
        [] OTHER                -> fields
-----------------------------------------------------------------------------
(* disas: the target of a branch is printed as an address. *)
Disas(ins, offset) ==
  [op |-> ins.opcode,
   args |-> [f \in Operands(ins.opcode) |->
               IF f = "imm" /\ Type(ins.opcode) = "imma" THEN ins.imm + offset + 4
               ELSE ins[f]]]

Readable(text) == \A f \in Unsigned(text.op) : text.args[f] >= 0

(* as, for a line that is Readable; sa keeps what it held before unless    *)
(* it is among the operands.                                               *)
As(text, offset, sa) ==
  [f \in DOMAIN NoInstruction |->
     CASE f = "opcode" -> text.op
       [] f = "imm" -> (IF f \in DOMAIN text.args THEN text.args[f] ELSE 0)
                       - (IF Type(text.op) = "imma" THEN offset + 4 ELSE 0)
       [] OTHER -> IF f \in DOMAIN text.args THEN text.args[f]
                   ELSE IF f = "sa" THEN sa ELSE 0]
=============================================================================
