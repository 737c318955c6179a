-------------------------- MODULE AssemblerProofs --------------------------
(***************************************************************************)
(* Facts about the assembler for every script, every option and every      *)
(* width of the addresses.  First the two passes, which agree, so that the *)
(* labels and the exported symbols are the addresses of the code; then the *)
(* delay slots; then the output file: what a write does to it, what mkasm  *)
(* and the directives put there, the types, the bytes of the finished      *)
(* patch and where its branches lead.                                      *)
(***************************************************************************)
EXTENDS Assembler, SequenceLemmas

(* What a line's expressions may refer to, from the labels and structures  *)
(* known at some later time.                                               *)
EnvAt(l, c, lab, str) ==
  [loc |-> c.loc, vma |-> Vma(c), scope |-> Entered(l, c).scope,
   labels |-> lab, structs |-> str]

Moving == {"loc", "bloc", "vma"}

Width(l) == l.chars + (IF l.zero THEN 1 ELSE 0)

(* The cursor after a line that is no error, in either pass.               *)
After(l, c, lab, str) ==
  IF l.op = "blank" THEN c
  ELSE IF l.op = "data" THEN Moved(Entered(l, c), l.width * Len(l.items))
  ELSE IF l.op = "space"
  THEN Moved(Entered(l, c), ExprValue(l.arg, EnvAt(l, c, lab, str)))
  ELSE IF l.op = "text" THEN Padded(Moved(Entered(l, c), Width(l)))
  ELSE IF l.op = "galign" THEN Aligning(Entered(l, c), l.arg - 1)
  ELSE IF l.op = "align" THEN Aligned(Entered(l, c), (l.arg - 1) % AddrMod)
  ELSE IF l.op = "offset"
  THEN At(Entered(l, c).loc, l.arg, Entered(l, c).warn, Entered(l, c).galign,
          Entered(l, c).stack, Entered(l, c).scope)
  ELSE IF l.op \in Moving THEN Located(l, Entered(l, c))
  ELSE IF l.op = "pushloc"
  THEN Restacked(Entered(l, c), Entered(l, c).loc,
                 <<Entered(l, c).loc>> \o Entered(l, c).stack)
  ELSE IF l.op = "poploc"
  THEN Restacked(Entered(l, c), Head(Entered(l, c).stack), Tail(Entered(l, c).stack))
  ELSE IF l.op = "insn" THEN Moved(Entered(l, c), AsmLen(l, str))
  ELSE Entered(l, c)

(* The size of the line is known. *)
Sized(l, c, lab, str) ==
  /\ l.op = "space" => Evaluates(l.arg, EnvAt(l, c, lab, str))
  /\ l.op = "insn" => AsmLen(l, str) # -1

(* The number of lines laid out. *)
Laid == IF pass = 1 THEN pc - 1 ELSE Len(script)

Defines(i) == Labelled(script[i])
DefinesGlobal(i) == Defines(i) /\ ~Local(script[i].label)
NameOf(i) == FullName(script[i], layout[i])

IsSequence(s) == s = [i \in 1 .. Len(s) |-> s[i]]

(* No structure has an empty name. *)
Nameless(str) == "" \notin DOMAIN str

(* The shape of the layout and what it has to do with the cursor. *)
Layout ==
  /\ script \in Scripts
  /\ pass \in {1, 2}
  /\ pc \in 1 .. Len(script) + 1
  /\ errors \in Nat
  /\ IsSequence(layout)
  /\ Len(layout) = Laid + 1
  /\ layout[1] = Start
  /\ pass = 1 => cur = layout[pc]
  /\ Nameless(structs)

(* Each line leads from its cursor to the next one's. *)
Chained ==
  Sound => \A i \in 1 .. Laid :
             /\ Sized(script[i], layout[i], labels, structs)
             /\ layout[i + 1] = After(script[i], layout[i], labels, structs)

(* The labels are those of the lines laid out, each with the address of    *)
(* the first line that defines it.                                         *)
Named ==
  /\ \A i \in 1 .. Laid : Defines(i) => NameOf(i) \in DOMAIN labels
  /\ \A n \in DOMAIN labels : \E i \in 1 .. Laid :
       /\ Defines(i) /\ NameOf(i) = n /\ ~DefinedBefore(i, n)
       /\ labels[n] = Vma(layout[i])
  /\ \A i \in 1 .. Laid : DefinesGlobal(i) => script[i].label \in globals
  /\ \A n \in globals : \E i \in 1 .. Laid : DefinesGlobal(i) /\ script[i].label = n

Exported ==
  status = "done" => /\ pass = 2
                     /\ errors = 0
                     /\ symbols = {<<n, labels[n] % Full>> : n \in globals}

(* get_asm_len and mkasm choose the short forms for the same operands.     *)
LEMMA LiFillsRoom ==
  ASSUME NEW v \in Int
  PROVE  4 * Len(LiCode(v)) = LiSize(v)
<1> USE HalfAssumption
<1>1. Imm32(v) \in Int
  BY DEF Imm32, SignedFull, Full
<1> DEFINE s == Imm32(v)
<1>2. CASE s % Half = 0
  BY <1>2 DEF LiCode, LiSize
<1>3. CASE s % Half # 0
  BY <1>1, <1>3 DEF LiCode, LiSize, Wide, AddiuPair
<1>4. QED
  BY <1>2, <1>3

IInv == Layout /\ Chained /\ PassesAgree /\ Named /\ Exported
-----------------------------------------------------------------------------
(* Appending to a sequence of anything.                                    *)
LEMMA AppendAny ==
  ASSUME NEW s, IsSequence(s), Len(s) \in Nat, NEW e
  PROVE  /\ IsSequence(Append(s, e))
         /\ Len(Append(s, e)) = Len(s) + 1
         /\ \A i \in 1 .. Len(s) : Append(s, e)[i] = s[i]
         /\ Append(s, e)[Len(s) + 1] = e
<1> DEFINE S == {s[i] : i \in 1 .. Len(s)} \cup {e}
<1>1. \A i \in 1 .. Len(s) : s[i] \in S
  OBVIOUS
<1>2. e \in S
  OBVIOUS
<1> HIDE DEF S
<1>3. s \in Seq(S)
  BY <1>1, IsASeq DEF IsSequence
<1> DEFINE t == Append(s, e)
<1>4. /\ t \in Seq(S)
      /\ Len(t) = Len(s) + 1
      /\ \A i \in 1 .. Len(s) : t[i] = s[i]
      /\ t[Len(s) + 1] = e
  BY <1>2, <1>3, AppendProperties
<1> HIDE DEF t
<1>5. IsSequence(t)
  BY <1>4, LenProperties DEF IsSequence
<1>6. QED
  BY <1>4, <1>5 DEF t
-----------------------------------------------------------------------------
(* What was known once stays known. *)
Extends(f, g) == \A x \in DOMAIN f : x \in DOMAIN g /\ g[x] = f[x]

NoShadow(lab, str) == \A n \in DOMAIN lab : FieldsNamed(n, str) = {}

(* A name keeps its value when labels and structures are added, unless a   *)
(* new label hides the field of a structure.                               *)
LEMMA NameStable ==
  ASSUME NEW env, NEW env2, NEW name,
         env2.loc = env.loc, env2.vma = env.vma, env2.scope = env.scope,
         Extends(env.labels, env2.labels), Extends(env.structs, env2.structs),
         Nameless(env.structs), NoShadow(env2.labels, env2.structs),
         Known(name, env)
  PROVE  /\ Known(name, env2)
         /\ LabelValue(name, env2) = LabelValue(name, env)
<1> DEFINE full == Compose(name, env.scope)
<1>1. \/ name \in {LOC, VMA}
      \/ full \in DOMAIN env.labels
      \/ FieldsNamed(name, env.structs) # {}
  BY DEF Known
<1>2. CASE name \in {LOC, VMA}
  BY <1>2 DEF Known, LabelValue
<1>3. CASE name \notin {LOC, VMA} /\ full \in DOMAIN env.labels
  <2>1. full \in DOMAIN env2.labels /\ env2.labels[full] = env.labels[full]
    BY <1>3 DEF Extends
  <2>2. QED
    BY <1>3, <2>1 DEF Known, LabelValue
<1>4. CASE name \notin {LOC, VMA} /\ full \notin DOMAIN env.labels
  <2> DEFINE str  == env.structs
             str2 == env2.structs
  <2>1. FieldsNamed(name, str) # {}
    BY <1>1, <1>4
  <2>2. Len(name) > 1 /\ name[1] \in DOMAIN str
    BY <2>1 DEF FieldsNamed
  <2>3. str2[name[1]] = str[name[1]] /\ name[1] \in DOMAIN str2
    BY <2>2 DEF Extends
  <2>4. FieldsNamed(name, str2) = FieldsNamed(name, str)
    BY <2>2, <2>3 DEF FieldsNamed
  <2>5. FieldOffset(name, str2) = FieldOffset(name, str)
    BY <2>3, <2>4 DEF FieldOffset
  <2>6. full = name
    BY <2>2 DEF Compose, Local, Nameless
  <2>7. full \notin DOMAIN env2.labels
    BY <2>1, <2>4, <2>6 DEF NoShadow
  <2>8. LabelValue(name, env) = FieldOffset(name, str)
        /\ LabelValue(name, env2) = FieldOffset(name, str2)
    BY <1>4, <2>7 DEF LabelValue
  <2>9. Known(name, env2)
    BY <2>1, <2>4 DEF Known
  <2>10. QED
    BY <2>5, <2>8, <2>9
<1>5. QED
  BY <1>2, <1>3, <1>4

(* So do the lines laid out before. *)
LEMMA LineStable ==
  ASSUME NEW l, NEW c, NEW lab, NEW lab2, NEW str, NEW str2,
         Extends(lab, lab2), Extends(str, str2), Nameless(str),
         NoShadow(lab2, str2), Sized(l, c, lab, str)
  PROVE  /\ Sized(l, c, lab2, str2)
         /\ After(l, c, lab2, str2) = After(l, c, lab, str)
<1> DEFINE env  == EnvAt(l, c, lab, str)
           env2 == EnvAt(l, c, lab2, str2)
<1>1. ASSUME Evaluates(l.arg, env)
      PROVE  Evaluates(l.arg, env2) /\ ExprValue(l.arg, env2) = ExprValue(l.arg, env)
  <2>1. CASE l.arg.ref = NoName
    BY <1>1, <2>1 DEF Evaluates, ExprValue
  <2>2. CASE l.arg.ref # NoName
    <3>1. Known(l.arg.ref, env) /\ l.arg.wf
      BY <1>1, <2>2 DEF Evaluates
    <3>2. /\ Known(l.arg.ref, env2)
          /\ LabelValue(l.arg.ref, env2) = LabelValue(l.arg.ref, env)
      <4>1. /\ env2.loc = env.loc /\ env2.vma = env.vma /\ env2.scope = env.scope
            /\ env.labels = lab /\ env2.labels = lab2
            /\ env.structs = str /\ env2.structs = str2
        BY DEF EnvAt
      <4> HIDE DEF env, env2
      <4>2. QED
        BY <3>1, <4>1, NameStable
    <3> HIDE DEF env, env2
    <3>3. QED
      BY <2>2, <3>1, <3>2 DEF Evaluates, ExprValue
  <2>3. QED
    BY <2>1, <2>2
<1>2. ASSUME AsmLen(l, str) # -1
      PROVE  AsmLen(l, str2) = AsmLen(l, str)
  <2>1. CASE l.ins = "struct"
    <3>1. l.name \in DOMAIN str
      BY Zenon, <1>2, <2>1 DEF AsmLen
    <3>2. l.name \in DOMAIN str2 /\ str2[l.name] = str[l.name]
      BY <3>1 DEF Extends
    <3>3. AsmLen(l, str) = TotalSize(str[l.name])
          /\ AsmLen(l, str2) = TotalSize(str2[l.name])
      BY Zenon, <2>1, <3>1, <3>2 DEF AsmLen
    <3>4. QED
      BY <3>2, <3>3
  <2>2. CASE l.ins # "struct"
    BY Zenon, <2>2 DEF AsmLen
  <2>3. QED
    BY <2>1, <2>2
<1> HIDE DEF env, env2
<1>3. Sized(l, c, lab2, str2)
  BY <1>1, <1>2 DEF Sized, env, env2
<1>4. CASE l.op = "space"
  <2>1. Evaluates(l.arg, env)
    BY <1>4 DEF Sized, env
  <2>2. /\ After(l, c, lab, str) = Moved(Entered(l, c), ExprValue(l.arg, env))
        /\ After(l, c, lab2, str2) = Moved(Entered(l, c), ExprValue(l.arg, env2))
    BY Zenon, <1>4 DEF After, env, env2
  <2>3. QED
    BY <1>1, <1>3, <2>1, <2>2
<1>5. CASE l.op = "insn"
  BY <1>2, <1>5 DEF Sized, After
<1>6. CASE l.op \notin {"space", "insn"}
  BY Zenon, <1>3, <1>6 DEF After
<1>7. QED
  BY <1>3, <1>4, <1>5, <1>6
-----------------------------------------------------------------------------
(* What the assumption says of the script and the line being read.         *)
LEMMA ScriptLength == script \in Scripts => Len(script) \in Nat
<1>1. \A s \in Scripts : Len(s) \in Nat
  BY Zenon, AssemblerAssumption
<1>2. QED
  BY <1>1

LEMMA LineIsOK ==
  ASSUME script \in Scripts, pc \in 1 .. Len(script)
  PROVE  LineOK(line)
<1>1. \A s \in Scripts : \A i \in 1 .. Len(s) : LineOK(s[i])
  BY Zenon, AssemblerAssumption
<1>2. QED
  BY Zenon, <1>1 DEF line

-----------------------------------------------------------------------------
(* What mkasm returns for an instruction: what get_asm_len reserved, or -1. *)
LEMMA AcceptedReturns ==
  ASSUME NEW res, NEW size, NEW s
  PROVE  Accepted(res, size, s).ret \in {-1, size}
  BY DEF Accepted, Rejected

LEMMA WordReturns ==
  ASSUME NEW w, NEW s
  PROVE  EmitWord(w, s).ret \in {-1, 4}
  BY AcceptedReturns DEF EmitWord

LEMMA PairReturns ==
  ASSUME NEW w1, NEW w2, NEW taken
  PROVE  EmitPair(w1, w2, taken).ret \in {-1, 8}
<1>1. \/ \E res : EmitPair(w1, w2, taken) = Accepted(res, 8, slot)
      \/ EmitPair(w1, w2, taken) = Rejected(image, slot)
  <2>1. CASE slot = 0
    BY Zenon, <2>1 DEF EmitPair
  <2>2. CASE slot # 0 /\ ~Exchanges
    BY Zenon, <2>2 DEF EmitPair
  <2>3. CASE slot # 0 /\ Exchanges
    <3> DEFINE moved  == WriteBytes(image, cur.loc, Lowered(Before, taken))
               first  == AndThen(moved, cur.loc - 4, WordBytes(w1))
               second == AndThen(first, (cur.loc + 4) % AddrMod, WordBytes(w2))
    <3>1. EmitPair(w1, w2, taken) = Accepted(second, 8, slot)
      BY Zenon, <2>3 DEF EmitPair
    <3>2. QED
      BY Zenon, <3>1
  <2>4. QED
    BY <2>1, <2>2, <2>3
<1>2. Rejected(image, slot).ret = -1
  BY DEF Rejected
<1>3. QED
  BY <1>1, <1>2, AcceptedReturns

LEMMA ExpansionReturns ==
  ASSUME NEW code, NEW taken, Len(code) \in {1, 2}
  PROVE  Expansion(code, taken).ret \in {-1, 4 * Len(code)}
<1>1. CASE Len(code) = 1
  <2>1. Expansion(code, taken) = EmitWord(Code(code[1].op, code[1].imm), slot)
    BY <1>1 DEF Expansion
  <2>2. QED
    BY <1>1, <2>1, WordReturns
<1>2. CASE Len(code) = 2
  <2>1. Expansion(code, taken) = EmitPair(Code(code[1].op, code[1].imm),
                                   Code(code[2].op, code[2].imm), taken)
    BY <1>2 DEF Expansion
  <2>2. Expansion(code, taken).ret \in {-1, 8}
    BY <2>1, PairReturns
  <2>3. QED
    BY <1>2, <2>2
<1>3. QED
  BY <1>1, <1>2

LEMMA TransferReturns ==
  ASSUME line.ins \in {"branch", "jump", "jumpreg", "b"}
  PROVE  Transfer.ret \in {-1, 4}
<1>1. \/ \E s : Transfer = Rejected(image, s)
      \/ \E w, s : Transfer = EmitWord(w, s)
  BY Zenon DEF Transfer
<1>2. \A s : Rejected(image, s).ret = -1
  BY DEF Rejected
<1>3. QED
  BY <1>1, <1>2, WordReturns

LEMMA StructReturns == StructValues.ret \in {-1, TotalSize(structs[line.name])}
<1>1. \/ \E img : StructValues = Rejected(img, slot)
      \/ \E res : StructValues = Accepted(res, TotalSize(structs[line.name]), slot)
  BY Zenon DEF StructValues
<1>2. \A img : Rejected(img, slot).ret = -1
  BY DEF Rejected
<1>3. QED
  BY <1>1, <1>2, AcceptedReturns

LEMMA MkasmReturns ==
  ASSUME script \in Scripts, pc \in 1 .. Len(script), line.op = "insn",
         AsmLen(line, structs) # -1, NEW g, NEW taken
  PROVE  Mkasm(g, taken).ret \in {-1, AsmLen(line, structs)}
<1>0. \A img : Rejected(img, slot).ret = -1
  BY DEF Rejected
<1>1. CASE line.ins \in {"branch", "jump", "jumpreg", "b"}
  <2>1. Mkasm(g, taken) = Transfer /\ AsmLen(line, structs) = 4
    BY Zenon, <1>1 DEF Mkasm, AsmLen
  <2>2. QED
    BY <1>1, <2>1, TransferReturns
<1>2. CASE line.ins = "la"
  <2>1. Mkasm(g, taken) = LoadAddress(g, taken) /\ AsmLen(line, structs) = 8
    BY Zenon, <1>2 DEF Mkasm, AsmLen
  <2> DEFINE v == IF line.wf THEN ExprValue(line.arg, Env(cur.loc)) ELSE g
  <2>2. \/ LoadAddress(g, taken) = Rejected(image, slot)
        \/ LoadAddress(g, taken) = Expansion(LaCode(v), taken)
    BY Zenon DEF LoadAddress
  <2> HIDE DEF v
  <2>3. Len(LaCode(v)) = 2
    BY DEF LaCode, AddiuPair
  <2>4. Expansion(LaCode(v), taken).ret \in {-1, 8}
    <3> DEFINE code == LaCode(v)
    <3>1. Len(code) \in {1, 2} /\ 4 * Len(code) = 8
      BY <2>3
    <3> HIDE DEF code
    <3>2. Expansion(code, taken).ret \in {-1, 4 * Len(code)}
      BY <3>1, ExpansionReturns
    <3>3. QED
      BY <3>1, <3>2 DEF code
  <2>5. QED
    BY <1>0, <2>1, <2>2, <2>4
<1>3. CASE line.ins = "li"
  <2>1. line.arg.ref = NoName /\ AsmLen(line, structs) = LiSize(line.arg.add)
    BY Zenon, <1>3 DEF AsmLen
  <2>2. ExprValue(line.arg, Env(cur.loc)) = line.arg.add
    BY <2>1 DEF ExprValue
  <2>3. line.arg.add \in Int
    BY LineIsOK DEF LineOK, ExprSet
  <2> DEFINE code == LiCode(line.arg.add)
  <2>4. \/ Mkasm(g, taken) = Rejected(image, slot)
        \/ Mkasm(g, taken) = Expansion(code, taken)
    BY Zenon, <1>3, <2>2 DEF Mkasm, LiWords
  <2>5. Len(code) \in {1, 2}
    BY DEF LiCode, AddiuPair
  <2>6. 4 * Len(code) = LiSize(line.arg.add)
    BY <2>3, LiFillsRoom
  <2> HIDE DEF code
  <2>7. QED
    BY <1>0, <2>1, <2>4, <2>5, <2>6, ExpansionReturns
<1>4. CASE line.ins = "struct"
  <2>1. line.name \in DOMAIN structs /\ AsmLen(line, structs) = TotalSize(structs[line.name])
    BY Zenon, <1>4 DEF AsmLen
  <2>2. Mkasm(g, taken) = StructValues \/ Mkasm(g, taken) = Rejected(image, slot)
    BY Zenon, <1>4, <2>1 DEF Mkasm
  <2>3. QED
    BY <1>0, <2>1, <2>2, StructReturns
<1>5. CASE line.ins \in {"plain", "move"}
  <2>1. AsmLen(line, structs) = 4
    BY Zenon, <1>5 DEF AsmLen
  <2>2. \/ Mkasm(g, taken) = Rejected(image, slot)
        \/ \E w : Mkasm(g, taken) = EmitWord(w, slot)
    BY Zenon, <1>5 DEF Mkasm
  <2>3. QED
    BY <1>0, <2>1, <2>2, WordReturns
<1>6. CASE line.ins \notin {"branch", "jump", "jumpreg", "b", "la", "li", "struct",
                            "plain", "move"}
  <2>1. line.ins # "nojump"
    BY Zenon DEF AsmLen
  <2>2. Mkasm(g, taken) = Rejected(image, slot)
    BY Zenon, <1>6, <2>1 DEF Mkasm
  <2>3. QED
    BY <1>0, <2>2
<1>7. QED
  BY <1>1, <1>2, <1>3, <1>4, <1>5, <1>6
-----------------------------------------------------------------------------
(* A step that reads a line to its end. *)
Fits ==
  errors' = 0 /\ NoShadow(labels', structs') =>
    /\ pass = 1 => /\ Sized(line, cur, labels', structs')
                   /\ cur' = After(line, cur, labels', structs')
    /\ pass = 2 /\ Sized(line, cur, labels, structs)
         => cur' = After(line, cur, labels, structs)

Advances ==
  /\ pc' = pc + 1 /\ script' = script /\ pass' = pass
  /\ labels' = LabelsAt(line, cur)
  /\ globals' = GlobalsAt(line, cur)
  /\ layout' = IF pass = 1 THEN Append(layout, cur') ELSE layout
  /\ errors' \in Nat /\ errors' >= errors
  /\ status' # "done"
  /\ Extends(structs, structs') /\ Nameless(structs')
  /\ Fits

(* A step in which the program ends in the middle of a line. *)
Gives_up ==
  /\ status' \notin {"running", "done"}
  /\ UNCHANGED <<script, pass, pc, cur, layout, labels, globals, structs, errors, symbols>>

LEMMA LabelsGrow == Extends(labels, LabelsAt(line, cur))
  BY DEF Extends, LabelsAt

LEMMA SoundBefore ==
  ASSUME NEW lab, NEW lab2, NEW str, NEW str2,
         Extends(lab, lab2), Extends(str, str2), NoShadow(lab2, str2)
  PROVE  NoShadow(lab, str)
<1> SUFFICES ASSUME NEW n \in DOMAIN lab PROVE FieldsNamed(n, str) = {}
  BY DEF NoShadow
<1>1. FieldsNamed(n, str2) = {}
  BY DEF NoShadow, Extends
<1>2. CASE Len(n) > 1 /\ n[1] \in DOMAIN str
  BY <1>1, <1>2 DEF Extends, FieldsNamed
<1>3. CASE ~(Len(n) > 1 /\ n[1] \in DOMAIN str)
  BY <1>3 DEF FieldsNamed
<1>4. QED
  BY <1>2, <1>3

(* The facts about a step of the first pass over line pc, and what both    *)
(* passes have in common.                                                  *)
LEMMA AdvanceBasics ==
  ASSUME IInv, Reading, Advances
  PROVE  /\ Len(script) \in Nat /\ pc \in 1 .. Len(script)
         /\ Laid \in Nat /\ Laid <= Len(script)
         /\ Laid' = IF pass = 1 THEN Laid + 1 ELSE Laid
         /\ pass = 1 => Laid + 1 = pc
         /\ pass = 2 => Laid = Len(script)
         /\ \A i \in 1 .. Laid + 1 : layout'[i] = layout[i]
         /\ Layout'
<1>1. Len(script) \in Nat /\ pc \in 1 .. Len(script) /\ pass \in {1, 2}
      /\ errors \in Nat
  <2>1. /\ script \in Scripts /\ pass \in {1, 2}
        /\ pc \in 1 .. Len(script) + 1 /\ errors \in Nat
    BY Zenon DEF IInv, Layout
  <2>2. pc <= Len(script)
    BY DEF Reading
  <2>3. QED
    BY <2>1, <2>2, ScriptLength
<1>2. pc' = pc + 1 /\ script' = script /\ pass' = pass
  BY Zenon DEF Advances
<1>2a. errors' \in Nat /\ Nameless(structs')
  BY Zenon DEF Advances
<1>3. Laid \in Nat /\ Laid <= Len(script) /\ (pass = 1 => Laid + 1 = pc)
      /\ (pass = 2 => Laid = Len(script))
  BY <1>1 DEF Laid
<1>4. Laid' = IF pass = 1 THEN Laid + 1 ELSE Laid
  BY <1>1, <1>2 DEF Laid
<1>5. /\ Len(layout) = Laid + 1 /\ IsSequence(layout) /\ layout[1] = Start
      /\ script \in Scripts
  BY DEF IInv, Layout
<1> HIDE DEF Laid
<1>6. /\ IsSequence(layout')
      /\ Len(layout') = IF pass = 1 THEN Laid + 2 ELSE Laid + 1
      /\ \A i \in 1 .. Laid + 1 : layout'[i] = layout[i]
      /\ pass = 1 => layout'[Laid + 2] = cur'
  <2>1. CASE pass = 1
    <3> DEFINE t == Append(layout, cur')
    <3>1. Len(layout) \in Nat
      BY <1>3, <1>5
    <3>2. /\ IsSequence(t)
          /\ Len(t) = Len(layout) + 1
          /\ \A i \in 1 .. Len(layout) : t[i] = layout[i]
          /\ t[Len(layout) + 1] = cur'
      BY <1>5, <3>1, AppendAny
    <3>3. layout' = t
      BY Zenon, <2>1 DEF Advances
    <3> HIDE DEF t
    <3>4. QED
      BY <1>3, <1>5, <2>1, <3>2, <3>3
  <2>2. CASE pass = 2
    <3>1. pass # 1
      BY <2>2
    <3>2. layout' = layout
      BY Zenon, <3>1 DEF Advances
    <3>3. QED
      BY <1>5, <2>2, <3>2
  <2>3. QED
    BY <1>1, <2>1, <2>2
<1>7. pc' \in 1 .. Len(script') + 1
  BY <1>1, <1>2
<1>8. Len(layout') = Laid' + 1 /\ layout'[1] = Start
  BY <1>3, <1>4, <1>5, <1>6
<1>9. pass' = 1 => cur' = layout'[pc']
  BY <1>1, <1>2, <1>3, <1>6
<1>10. Layout'
  BY <1>1, <1>2, <1>2a, <1>5, <1>6, <1>7, <1>8, <1>9 DEF Layout
<1>11. QED
  BY <1>1, <1>3, <1>4, <1>6, <1>10

LEMMA SoundStays ==
  ASSUME IInv, Advances, Sound'
  PROVE  /\ Sound
         /\ Extends(labels, labels') /\ Extends(structs, structs')
         /\ NoShadow(labels', structs') /\ Nameless(structs)
         /\ errors' = 0
<1>1. errors' = 0 /\ NoShadow(labels', structs')
  BY Zenon DEF Sound, NoFieldShadowed, NoShadow
<1>2. Extends(labels, labels') /\ Extends(structs, structs')
  BY Zenon, LabelsGrow DEF Advances
<1>3. errors = 0
  <2>1. errors \in Nat /\ errors' >= errors
    BY Zenon DEF IInv, Layout, Advances
  <2>2. QED
    BY <1>1, <2>1
<1>4. NoShadow(labels, structs)
  BY <1>1, <1>2, SoundBefore
<1>5. Nameless(structs)
  BY Zenon DEF IInv, Layout
<1>6. QED
  BY Zenon, <1>1, <1>2, <1>3, <1>4, <1>5 DEF Sound, NoFieldShadowed, NoShadow

LEMMA ChainAdvances ==
  ASSUME IInv, Reading, Advances
  PROVE  Chained'
<1> SUFFICES ASSUME Sound', NEW i \in 1 .. Laid'
             PROVE  /\ Sized(script'[i], layout'[i], labels', structs')
                    /\ layout'[i + 1] = After(script'[i], layout'[i], labels', structs')
  BY DEF Chained
<1>1. /\ Len(script) \in Nat /\ pc \in 1 .. Len(script)
      /\ Laid \in Nat /\ Laid <= Len(script)
      /\ Laid' = IF pass = 1 THEN Laid + 1 ELSE Laid
      /\ pass = 1 => Laid + 1 = pc
      /\ \A j \in 1 .. Laid + 1 : layout'[j] = layout[j]
  BY AdvanceBasics
<1>2. /\ Sound
      /\ Extends(labels, labels') /\ Extends(structs, structs')
      /\ NoShadow(labels', structs') /\ Nameless(structs)
      /\ errors' = 0
  BY SoundStays
<1>3. script' = script
  BY Zenon DEF Advances
<1> HIDE DEF Laid
<1>4. CASE i \in 1 .. Laid
  <2>1. /\ Sized(script[i], layout[i], labels, structs)
        /\ layout[i + 1] = After(script[i], layout[i], labels, structs)
    BY Zenon, <1>2, <1>4 DEF IInv, Chained
  <2>2. /\ Sized(script[i], layout[i], labels', structs')
        /\ After(script[i], layout[i], labels', structs')
             = After(script[i], layout[i], labels, structs)
    <3>1. Sized(script[i], layout[i], labels, structs)
      BY Zenon, <2>1
    <3>2. /\ Extends(labels, labels') /\ Extends(structs, structs')
          /\ NoShadow(labels', structs') /\ Nameless(structs)
      BY Zenon, <1>2
    <3> DEFINE l == script[i]
               c == layout[i]
               lab2 == labels'
               str2 == structs'
    <3>3. /\ Extends(labels, lab2) /\ Extends(structs, str2)
          /\ NoShadow(lab2, str2) /\ Nameless(structs)
          /\ Sized(l, c, labels, structs)
      BY <3>1, <3>2
    <3> HIDE DEF l, c, lab2, str2
    <3>4. /\ Sized(l, c, lab2, str2)
          /\ After(l, c, lab2, str2) = After(l, c, labels, structs)
      BY ONLY <3>3, LineStable
    <3>5. QED
      BY Zenon, <3>4 DEF l, c, lab2, str2
  <2>3. layout'[i] = layout[i] /\ layout'[i + 1] = layout[i + 1]
    <3>1. i \in 1 .. Laid + 1 /\ i + 1 \in 1 .. Laid + 1
      <4>1. Laid \in Nat
        BY <1>1
      <4>2. QED
        BY ONLY <1>4, <4>1
    <3>2. QED
      BY Zenon, <1>1, <3>1
  <2>4. QED
    BY Zenon, <1>3, <2>1, <2>2, <2>3
<1>5. CASE i \notin 1 .. Laid
  <2>1. pass = 1 /\ i = pc /\ i = Laid + 1
    BY <1>1, <1>5
  <2>2. layout[i] = cur /\ layout'[i] = layout[i]
    <3>1. pass = 1 => cur = layout[pc]
      BY Zenon DEF IInv, Layout
    <3>2. QED
      BY <1>1, <2>1, <3>1
  <2>3. layout'[i + 1] = cur'
    <3>1. pc' = pc + 1 /\ pass' = pass
      BY Zenon DEF Advances
    <3>2. pass' = 1 => cur' = layout'[pc']
      BY AdvanceBasics DEF Layout
    <3>3. QED
      BY <2>1, <3>1, <3>2
  <2>4. /\ Sized(line, cur, labels', structs')
        /\ cur' = After(line, cur, labels', structs')
    BY Zenon, <1>2, <2>1 DEF Advances, Fits
  <2>5. script[i] = line
    BY Zenon, <2>1 DEF line
  <2>6. QED
    BY Zenon, <1>3, <2>2, <2>3, <2>4, <2>5
<1>6. QED
  BY <1>4, <1>5

LEMMA AgreeAdvances ==
  ASSUME IInv, Reading, Advances
  PROVE  PassesAgree'
<1> SUFFICES ASSUME pass' = 2, Sound'
             PROVE  cur' = layout'[pc']
  BY DEF PassesAgree
<1>1. /\ Len(script) \in Nat /\ pc \in 1 .. Len(script)
      /\ pass = 2 => Laid = Len(script)
  BY AdvanceBasics
<1>2. pass = 2 /\ pc' = pc + 1
  BY Zenon DEF Advances
<1>3. Sound
  BY SoundStays
<1>4. cur = layout[pc]
  BY Zenon, <1>2, <1>3 DEF IInv, PassesAgree, Reading
<1>5. pc \in 1 .. Laid
  BY <1>1, <1>2
<1>6. /\ Sized(script[pc], layout[pc], labels, structs)
      /\ layout[pc + 1] = After(script[pc], layout[pc], labels, structs)
  BY Zenon, <1>3, <1>5 DEF IInv, Chained
<1>7. errors' = 0 /\ NoShadow(labels', structs')
  BY SoundStays
<1>8. cur' = After(line, cur, labels, structs)
  BY Zenon, <1>2, <1>4, <1>6, <1>7 DEF Advances, Fits, line
<1>9. layout' = layout
  <2>1. pass # 1
    BY <1>2
  <2>2. QED
    BY Zenon, <2>1 DEF Advances
<1>10. QED
  BY Zenon, <1>2, <1>4, <1>6, <1>8, <1>9 DEF line

LEMMA GlobalName ==
  ASSUME NEW l, NEW c, ~Local(l.label)
  PROVE  FullName(l, c) = l.label
  BY DEF FullName, Compose

LEMMA NamedAdvances ==
  ASSUME IInv, Reading, Advances
  PROVE  Named'
<1>1. /\ Len(script) \in Nat /\ pc \in 1 .. Len(script) /\ Laid \in Nat
      /\ Laid' = IF pass = 1 THEN Laid + 1 ELSE Laid
      /\ pass = 1 => Laid + 1 = pc
      /\ \A j \in 1 .. Laid + 1 : layout'[j] = layout[j]
  BY AdvanceBasics
<1>2. /\ script' = script
      /\ labels' = LabelsAt(line, cur)
      /\ globals' = GlobalsAt(line, cur)
  BY Zenon DEF Advances
<1>3. /\ \A i \in 1 .. Laid : Defines(i) => NameOf(i) \in DOMAIN labels
      /\ \A n \in DOMAIN labels : \E i \in 1 .. Laid :
           /\ Defines(i) /\ NameOf(i) = n /\ ~DefinedBefore(i, n)
           /\ labels[n] = Vma(layout[i])
      /\ \A i \in 1 .. Laid : DefinesGlobal(i) => script[i].label \in globals
      /\ \A n \in globals : \E i \in 1 .. Laid : DefinesGlobal(i) /\ script[i].label = n
  BY Zenon DEF IInv, Named
<1>4. pass = 1 => cur = layout[pc]
  BY Zenon DEF IInv, Layout
<1>5. pass \in {1, 2}
  BY Zenon DEF IInv, Layout
<1> HIDE DEF Laid
<1>6. \A i : /\ Defines(i)' <=> Defines(i)
             /\ DefinesGlobal(i)' <=> DefinesGlobal(i)
  BY Zenon, <1>2 DEF Defines, DefinesGlobal
<1>7. \A i \in 1 .. Laid + 1 : NameOf(i)' = NameOf(i)
  BY Zenon, <1>1, <1>2 DEF NameOf
<1>8. \A i \in 1 .. Laid + 1 : \A n : DefinedBefore(i, n)' <=> DefinedBefore(i, n)
  <2> SUFFICES ASSUME NEW i \in 1 .. Laid + 1, NEW n
               PROVE  DefinedBefore(i, n)' <=> DefinedBefore(i, n)
    BY Zenon
  <2>1. \A j \in 1 .. i - 1 : layout'[j] = layout[j]
    BY <1>1
  <2>2. QED
    BY Zenon, <1>2, <2>1 DEF DefinedBefore
<1>9. Extends(labels, labels')
  BY Zenon, <1>2, LabelsGrow
<1>10. 1 .. Laid \subseteq 1 .. Laid + 1 /\ 1 .. Laid \subseteq 1 .. Laid'
  BY <1>1
<1>11. \A i \in 1 .. Laid' : i \in 1 .. Laid \/ (pass = 1 /\ i = pc)
  BY <1>1, <1>5
<1>12. pass = 1 => pc \in 1 .. Laid' /\ pc \in 1 .. Laid + 1
  BY <1>1
<1>12a. pass = 1 => /\ script[pc] = line
                   /\ NameOf(pc) = FullName(line, cur)
                   /\ layout'[pc] = cur
                   /\ (Defines(pc) <=> Labelled(line))
  BY Zenon, <1>1, <1>4, <1>12 DEF NameOf, Defines, line
<1>13. ASSUME NEW i \in 1 .. Laid', Defines(i)'
       PROVE  NameOf(i)' \in DOMAIN labels'
  <2>1. CASE i \in 1 .. Laid
    BY Zenon, <1>3, <1>6, <1>7, <1>9, <1>10, <1>13, <2>1 DEF Extends
  <2>2. CASE pass = 1 /\ i = pc
    <3>1. Labelled(line) /\ NameOf(i)' = FullName(line, cur)
      <4>1. Defines(i)
        BY Zenon, <1>6, <1>13
      <4>2. i = pc /\ i \in 1 .. Laid + 1
        BY <1>12, <2>2
      <4>3. NameOf(i)' = NameOf(i)
        BY Zenon, <1>7, <4>2
      <4>4. Defines(pc) /\ NameOf(i) = NameOf(pc)
        BY <4>1, <4>2
      <4>5. pass = 1
        BY <2>2
      <4>6. (Defines(pc) <=> Labelled(line)) /\ NameOf(pc) = FullName(line, cur)
        BY Zenon, <1>12a, <4>5
      <4>7. QED
        BY Zenon, <4>3, <4>4, <4>6
    <3>2. FullName(line, cur) \in DOMAIN LabelsAt(line, cur)
      BY <2>2, <3>1 DEF LabelsAt
    <3>3. QED
      BY Zenon, <1>2, <3>1, <3>2
  <2>3. QED
    BY Zenon, <1>11, <2>1, <2>2
<1>14. ASSUME NEW n \in DOMAIN labels'
       PROVE  \E i \in 1 .. Laid' :
                /\ Defines(i)' /\ NameOf(i)' = n /\ ~DefinedBefore(i, n)'
                /\ labels'[n] = Vma(layout'[i])
  <2>1. CASE n \in DOMAIN labels
    <3>1. PICK i \in 1 .. Laid : /\ Defines(i) /\ NameOf(i) = n /\ ~DefinedBefore(i, n)
                                 /\ labels[n] = Vma(layout[i])
      BY Zenon, <1>3, <2>1
    <3>2. i \in 1 .. Laid' /\ i \in 1 .. Laid + 1
      BY Zenon, <1>10
    <3>3. labels'[n] = labels[n]
      BY Zenon, <1>9, <2>1 DEF Extends
    <3>4. layout'[i] = layout[i]
      BY Zenon, <1>1, <3>2
    <3>5. QED
      BY Zenon, <1>6, <1>7, <1>8, <3>1, <3>2, <3>3, <3>4
  <2>2. CASE n \notin DOMAIN labels
    <3>1. n \in DOMAIN LabelsAt(line, cur)
      BY Zenon, <1>2
    <3>2. /\ pass = 1 /\ Labelled(line) /\ n = FullName(line, cur)
          /\ LabelsAt(line, cur)[n] = Vma(cur)
      BY <2>2, <3>1 DEF LabelsAt
    <3>3. ~DefinedBefore(pc, n)
      <4> SUFFICES ASSUME NEW j \in 1 .. pc - 1, Defines(j), NameOf(j) = n
                   PROVE  FALSE
        BY Zenon DEF DefinedBefore, Defines, NameOf
      <4>1. j \in 1 .. Laid
        BY <1>1, <3>2
      <4>2. QED
        BY Zenon, <1>3, <2>2, <4>1
    <3>4. QED
      BY Zenon, <1>2, <1>6, <1>7, <1>8, <1>12, <1>12a, <3>2, <3>3
  <2>3. QED
    BY <2>1, <2>2
<1>15. ASSUME NEW i \in 1 .. Laid', DefinesGlobal(i)'
       PROVE  script'[i].label \in globals'
  <2>1. CASE i \in 1 .. Laid
    <3>1. script[i].label \in globals
      BY Zenon, <1>3, <1>6, <1>15, <2>1
    <3>2. globals \subseteq GlobalsAt(line, cur)
      BY DEF GlobalsAt
    <3>3. QED
      BY Zenon, <1>2, <3>1, <3>2
  <2>2. CASE pass = 1 /\ i = pc
    <3>1. Labelled(line) /\ ~Local(line.label)
      <4>1. Defines(i) /\ ~Local(script[i].label)
        BY Zenon, <1>6, <1>15 DEF DefinesGlobal
      <4>2. Defines(pc) /\ ~Local(script[pc].label)
        BY <2>2, <4>1
      <4>3. pass = 1
        BY <2>2
      <4>4. script[pc] = line /\ (Defines(pc) <=> Labelled(line))
        BY Zenon, <1>12a, <4>3
      <4>5. QED
        BY Zenon, <4>2, <4>4
    <3>2. FullName(line, cur) \in GlobalsAt(line, cur)
      BY <2>2, <3>1 DEF GlobalsAt
    <3>3. QED
      BY Zenon, <1>2, <1>12a, <2>2, <3>1, <3>2, GlobalName
  <2>3. QED
    BY Zenon, <1>11, <2>1, <2>2
<1>16. ASSUME NEW n \in globals'
       PROVE  \E i \in 1 .. Laid' : DefinesGlobal(i)' /\ script'[i].label = n
  <2>1. CASE n \in globals
    BY Zenon, <1>2, <1>3, <1>6, <1>10, <2>1
  <2>2. CASE n \notin globals
    <3>1. /\ pass = 1 /\ Labelled(line) /\ ~Local(line.label)
          /\ n = FullName(line, cur)
      BY <1>2, <2>2 DEF GlobalsAt
    <3>2. n = line.label
      BY Zenon, <3>1, GlobalName
    <3>3. QED
      BY Zenon, <1>2, <1>6, <1>12, <1>12a, <3>1, <3>2 DEF DefinesGlobal
  <2>3. QED
    BY <2>1, <2>2
<1>17. QED
  BY Zenon, <1>13, <1>14, <1>15, <1>16 DEF Named

LEMMA AdvancePreserves ==
  ASSUME IInv, Reading, Advances
  PROVE  IInv'
<1>1. Layout'
  BY Zenon, AdvanceBasics
<1>2. Chained' /\ PassesAgree' /\ Named'
  BY Zenon, ChainAdvances, AgreeAdvances, NamedAdvances
<1>3. Exported'
  BY Zenon DEF Advances, Exported
<1>4. QED
  BY Zenon, <1>1, <1>2, <1>3 DEF IInv
-----------------------------------------------------------------------------
(* The steps that read no line.                                            *)
LEMMA Framed ==
  ASSUME script' = script, layout' = layout, labels' = labels, globals' = globals,
         structs' = structs, errors' = errors, Laid' = Laid
  PROVE  /\ Sound' <=> Sound
         /\ Chained' <=> Chained
         /\ Named' <=> Named
<1> HIDE DEF Laid
<1>1. Sound' <=> Sound
  BY Zenon DEF Sound, NoFieldShadowed
<1>2. Chained' <=> Chained
  BY Zenon, <1>1 DEF Chained
<1>3. \A i : /\ Defines(i)' <=> Defines(i)
             /\ DefinesGlobal(i)' <=> DefinesGlobal(i)
             /\ NameOf(i)' = NameOf(i)
             /\ \A n : DefinedBefore(i, n)' <=> DefinedBefore(i, n)
  BY Zenon DEF Defines, DefinesGlobal, NameOf, DefinedBefore
<1>4. Named' <=> Named
  BY <1>3 DEF Named
<1>5. QED
  BY Zenon, <1>1, <1>2, <1>4

LEMMA GivesUpPreserves ==
  ASSUME IInv, Gives_up
  PROVE  IInv'
<1>1. /\ script' = script /\ layout' = layout /\ labels' = labels /\ globals' = globals
      /\ structs' = structs /\ errors' = errors /\ pass' = pass /\ pc' = pc /\ cur' = cur
      /\ status' \notin {"running", "done"}
  BY DEF Gives_up
<1>2. Laid' = Laid
  BY Zenon, <1>1 DEF Laid
<1>3. Layout /\ Chained /\ Named
  BY Zenon DEF IInv
<1>4. Layout'
  BY Zenon, <1>1, <1>2, <1>3 DEF Layout
<1>5. Chained' /\ Named'
  BY Zenon, <1>1, <1>2, <1>3, Framed
<1>6. PassesAgree' /\ Exported'
  BY Zenon, <1>1 DEF PassesAgree, Exported
<1>7. QED
  BY Zenon, <1>4, <1>5, <1>6 DEF IInv

LEMMA StutterPreserves ==
  ASSUME IInv, UNCHANGED vars
  PROVE  IInv'
<1>1. /\ script' = script /\ layout' = layout /\ labels' = labels /\ globals' = globals
      /\ structs' = structs /\ errors' = errors /\ pass' = pass /\ pc' = pc /\ cur' = cur
      /\ status' = status /\ symbols' = symbols
  BY DEF vars, inputs, reading, naming, result
<1>2. Laid' = Laid
  BY Zenon, <1>1 DEF Laid
<1>3. Layout /\ Chained /\ Named /\ PassesAgree /\ Exported
  BY Zenon DEF IInv
<1>4. Layout'
  BY Zenon, <1>1, <1>2, <1>3 DEF Layout
<1>5. Chained' /\ Named' /\ (Sound' <=> Sound)
  BY Zenon, <1>1, <1>2, <1>3, Framed
<1>6. PassesAgree' /\ Exported'
  BY Zenon, <1>1, <1>3, <1>5 DEF PassesAgree, Exported
<1>7. QED
  BY Zenon, <1>4, <1>5, <1>6 DEF IInv

LEMMA SecondPassStarts ==
  ASSUME IInv, StartPass2
  PROVE  IInv'
<1>1. /\ script' = script /\ layout' = layout /\ labels' = labels /\ globals' = globals
      /\ structs' = structs /\ errors' = errors /\ status' = status
      /\ status = "running" /\ pass = 1 /\ pass' = 2
      /\ pc = Len(script) + 1 /\ pc' = 1 /\ cur' = Start
  BY DEF StartPass2, inputs, naming, result
<1>2. Layout /\ Chained /\ Named
  BY Zenon DEF IInv
<1>3. /\ script \in Scripts /\ errors \in Nat /\ IsSequence(layout)
      /\ Len(layout) = Laid + 1 /\ layout[1] = Start /\ Nameless(structs)
  BY Zenon, <1>2 DEF Layout
<1>4. Len(script) \in Nat
  BY <1>3, ScriptLength
<1>5. Laid' = Laid
  BY <1>1, <1>4 DEF Laid
<1>6. Layout'
  <2>1. pc' \in 1 .. Len(script') + 1 /\ pass' \in {1, 2} /\ pass' # 1
    BY <1>1, <1>4
  <2>2. QED
    BY Zenon, <1>1, <1>3, <1>5, <2>1 DEF Layout
<1>7. Chained' /\ Named'
  BY Zenon, <1>1, <1>2, <1>5, Framed
<1>8. PassesAgree'
  BY Zenon, <1>1, <1>3 DEF PassesAgree
<1>9. Exported'
  <2>1. status' # "done"
    BY <1>1
  <2>2. QED
    BY Zenon, <2>1 DEF Exported
<1>10. QED
  BY Zenon, <1>6, <1>7, <1>8, <1>9 DEF IInv

LEMMA FinishPreserves ==
  ASSUME IInv, Finish
  PROVE  IInv'
<1>1. /\ script' = script /\ layout' = layout /\ labels' = labels /\ globals' = globals
      /\ structs' = structs /\ errors' = errors /\ pass' = pass /\ pc' = pc /\ cur' = cur
      /\ pass = 2
      /\ status' = IF errors = 0 THEN "done" ELSE "failed"
      /\ symbols' = IF errors = 0 THEN {<<n, labels[n] % Full>> : n \in globals} ELSE {}
  BY Zenon DEF Finish, inputs, reading, naming
<1>2. Laid' = Laid
  BY Zenon, <1>1 DEF Laid
<1>3. Layout /\ Chained /\ Named
  BY Zenon DEF IInv
<1>4. Layout'
  BY Zenon, <1>1, <1>2, <1>3 DEF Layout
<1>5. Chained' /\ Named'
  BY Zenon, <1>1, <1>2, <1>3, Framed
<1>6. PassesAgree'
  <2>1. status' # "running"
    BY <1>1
  <2>2. QED
    BY Zenon, <2>1 DEF PassesAgree
<1>7. Exported'
  <2>1. ASSUME status' = "done" PROVE errors = 0
    BY <1>1, <2>1
  <2>2. QED
    BY Zenon, <1>1, <2>1 DEF Exported
<1>8. QED
  BY Zenon, <1>4, <1>5, <1>6, <1>7 DEF IInv
-----------------------------------------------------------------------------
(* What a line that is no error has to do to the cursor, when the          *)
(* structures known after it are str.                                      *)
Correct(c, str) ==
  LET lab == LabelsAt(line, cur)
  IN  /\ pass = 1 => Sized(line, cur, lab, str) /\ c = After(line, cur, lab, str)
      /\ pass = 2 /\ Sized(line, cur, lab, str) => c = After(line, cur, lab, str)

(* The two ways a step that reads a line can end.                          *)
Reads == Advances \/ Gives_up

LEMMA ExtendsItself == \A f : Extends(f, f)
  BY DEF Extends

LEMMA TotalErrors == PreludeErrors(line, cur) \in Nat
  BY DEF PreludeErrors

(* EndLine makes the step advance. *)
LEMMA LineEnds ==
  ASSUME IInv, Reading, NEW c, NEW e \in Nat, NEW w, EndLine(c, e, w),
         Extends(structs, structs'), Nameless(structs'),
         pass = 1 \/ structs' = structs,
         e = 0 => Correct(c, structs')
  PROVE  Reads
<1> DEFINE total == PreludeErrors(line, cur) + e
<1>1. /\ labels' = LabelsAt(line, cur) /\ globals' = GlobalsAt(line, cur)
      /\ errors' = errors + total /\ cur' = c /\ pc' = pc + 1
      /\ status' = IF opts.stopFirst /\ total > 0 THEN "stopped" ELSE status
      /\ layout' = IF pass = 1 THEN Append(layout, c) ELSE layout
      /\ script' = script /\ pass' = pass
  BY DEF EndLine, inputs
<1>2. errors \in Nat /\ PreludeErrors(line, cur) \in Nat /\ status = "running"
  BY Zenon, TotalErrors DEF IInv, Layout, Reading
<1>3. errors' \in Nat /\ errors' >= errors /\ (errors' = 0 => e = 0)
  <2>1. errors' = errors + (PreludeErrors(line, cur) + e)
    BY Zenon, <1>1
  <2>2. QED
    BY ONLY <1>2, <2>1, e \in Nat
<1>4. status' # "done"
  <2>1. status' \in {"stopped", "running"}
    BY Zenon, <1>1, <1>2
  <2>2. QED
    BY ONLY <2>1
<1> HIDE DEF total
<1>5. Fits
  <2> SUFFICES ASSUME errors' = 0, NoShadow(labels', structs')
               PROVE  /\ pass = 1 => /\ Sized(line, cur, labels', structs')
                                     /\ cur' = After(line, cur, labels', structs')
                      /\ pass = 2 /\ Sized(line, cur, labels, structs)
                           => cur' = After(line, cur, labels, structs)
    BY Zenon DEF Fits
  <2>1. Correct(c, structs')
    BY Zenon, <1>3
  <2>2. pass = 1 => /\ Sized(line, cur, labels', structs')
                    /\ cur' = After(line, cur, labels', structs')
    BY Zenon, <1>1, <2>1 DEF Correct
  <2>3. ASSUME pass = 2, Sized(line, cur, labels, structs)
        PROVE  cur' = After(line, cur, labels, structs)
    <3>1. pass # 1
      BY <2>3
    <3>2. labels = LabelsAt(line, cur) /\ structs' = structs
      BY Zenon, <3>1 DEF LabelsAt
    <3>3. QED
      BY Zenon, <1>1, <2>1, <2>3, <3>2 DEF Correct
  <2>4. QED
    BY Zenon, <2>2, <2>3
<1>6. layout' = IF pass = 1 THEN Append(layout, cur') ELSE layout
  BY Zenon, <1>1
<1>7. QED
  BY Zenon, <1>1, <1>3, <1>4, <1>5, <1>6 DEF Reads, Advances

LEMMA LineEndsPlainly ==
  ASSUME IInv, Reading, NEW c, NEW e \in Nat, NEW w, EndLine(c, e, w),
         structs' = structs, e = 0 => Correct(c, structs)
  PROVE  Reads
<1>1. Nameless(structs')
  BY Zenon DEF IInv, Layout
<1>2. Extends(structs, structs')
  BY Zenon, ExtendsItself
<1>3. QED
  BY Zenon, <1>1, <1>2, LineEnds

LEMMA AbortReads ==
  ASSUME NEW how \in {"stopped", "crashed"}, NEW img, Abort(how, img)
  PROVE  Reads
<1>1. status' \notin {"running", "done"}
  BY DEF Abort
<1>2. UNCHANGED <<script, pass, pc, cur, layout, labels, globals, structs, errors, symbols>>
  BY Zenon DEF Abort, inputs, reading, naming
<1>3. QED
  BY Zenon, <1>1, <1>2 DEF Reads, Gives_up

LEMMA EmitReads ==
  ASSUME IInv, Reading, NEW n, NEW unit, NEW e \in Nat, NEW c,
         EmitBytes(n, unit, e, c), e = 0 => Correct(c, structs)
  PROVE  Reads
<1>1. PICK res : \/ EndLine(c, e, {}) /\ structs' = structs
                 \/ Abort("stopped", res.img)
  BY Zenon DEF EmitBytes
<1>2. QED
  BY Zenon, <1>1, LineEndsPlainly, AbortReads
-----------------------------------------------------------------------------
(* The steps that read a line, one by one.                                 *)
LEMMA BlankReads ==
  ASSUME IInv, ReadBlank
  PROVE  Reads
<1>1. /\ Reading /\ line.op = "blank" /\ pc' = pc + 1
      /\ script' = script /\ pass' = pass /\ cur' = cur /\ labels' = labels
      /\ globals' = globals /\ structs' = structs /\ errors' = errors
      /\ status' = status
      /\ layout' = IF pass = 1 THEN Append(layout, cur) ELSE layout
  BY DEF ReadBlank, inputs, naming, result
<1>2. line.label = NoName
  <2>1. script \in Scripts /\ pc \in 1 .. Len(script) + 1
    BY Zenon DEF IInv, Layout
  <2>2. pc \in 1 .. Len(script)
    BY <1>1, <2>1, ScriptLength DEF Reading
  <2>3. QED
    BY Zenon, <1>1, <2>1, <2>2, LineIsOK DEF LineOK
<1>3. LabelsAt(line, cur) = labels /\ GlobalsAt(line, cur) = globals
  BY Zenon, <1>2 DEF LabelsAt, GlobalsAt, Labelled
<1>4. errors \in Nat /\ Nameless(structs) /\ status = "running"
  BY Zenon, <1>1 DEF IInv, Layout, Reading
<1>5. \A lab, str : Sized(line, cur, lab, str) /\ After(line, cur, lab, str) = cur
  BY <1>1 DEF Sized, After
<1>6. Fits
  BY Zenon, <1>1, <1>5 DEF Fits
<1>7. errors' \in Nat /\ errors' >= errors /\ status' # "done"
  BY ONLY <1>1, <1>4
<1>8. QED
  BY Zenon, <1>1, <1>3, <1>4, <1>6, <1>7, ExtendsItself DEF Reads, Advances

LEMMA NothingReads ==
  ASSUME IInv, ReadNothing
  PROVE  Reads
<1>1. Reading /\ line.op = "none" /\ EndLine(here, 0, {}) /\ structs' = structs
  BY Zenon DEF ReadNothing, Handle
<1>2. Correct(here, structs)
  BY <1>1 DEF Correct, Sized, After, Moving, here
<1>3. QED
  BY Zenon, <1>1, <1>2, LineEndsPlainly, 0 \in Nat

LEMMA UnknownReads ==
  ASSUME IInv, ReadUnknownDirective
  PROVE  Reads
<1>1. Reading /\ EndLine(here, 1, {}) /\ structs' = structs
  BY Zenon DEF ReadUnknownDirective, Handle
<1>2. 1 \in Nat /\ 1 # 0
  OBVIOUS
<1>3. QED
  BY Zenon, <1>1, <1>2, LineEndsPlainly

LEMMA DataReads ==
  ASSUME IInv, ReadData
  PROVE  Reads
<1>1. Reading /\ line.op = "data"
  BY Zenon DEF ReadData, Handle
<1>2. Correct(Moved(here, line.width * Len(line.items)), structs)
  BY <1>1 DEF Correct, Sized, After, here
<1>3. CASE pass = 1
  <2>1. /\ EndLine(Moved(here, line.width * Len(line.items)), 0, {})
        /\ structs' = structs
    BY Zenon, <1>3 DEF ReadData
  <2>2. QED
    BY Zenon, <1>1, <1>2, <2>1, LineEndsPlainly, 0 \in Nat
<1>4. CASE pass # 1
  <2>1. PICK good : EmitBytes(line.width * good, line.width,
                              IF good = Len(line.items) THEN 0 ELSE 1,
                              Moved(here, line.width * good))
    BY Zenon, <1>4 DEF ReadData
  <2> DEFINE e == IF good = Len(line.items) THEN 0 ELSE 1
             c == Moved(here, line.width * good)
  <2>2. e \in Nat /\ (e = 0 => good = Len(line.items))
    OBVIOUS
  <2>3. e = 0 => Correct(c, structs)
    BY Zenon, <1>2, <2>2
  <2>4. EmitBytes(line.width * good, line.width, e, c)
    BY Zenon, <2>1
  <2> HIDE DEF e, c
  <2>5. QED
    BY Zenon, <1>1, <2>2, <2>3, <2>4, EmitReads
<1>5. QED
  BY <1>3, <1>4

LEMMA SpaceReads ==
  ASSUME IInv, ReadSpace
  PROVE  Reads
<1> DEFINE env == Env(cur.loc)
           n   == ExprValue(line.arg, env)
<1>1. Reading /\ line.op = "space"
  BY Zenon DEF ReadSpace, Handle
<1>2. env = EnvAt(line, cur, LabelsAt(line, cur), structs)
  BY DEF Env, EnvAt, here, Vma
<1> HIDE DEF env
<1>3. Evaluates(line.arg, env) => Correct(Moved(here, n), structs)
  BY <1>1, <1>2 DEF Correct, Sized, After, here
<1>4. \/ EndLine(here, 1, {}) /\ structs' = structs
      \/ /\ Evaluates(line.arg, env)
         /\ \/ EndLine(Moved(here, n), 0, {}) /\ structs' = structs
            \/ EmitBytes(n, Chunk, 0, Moved(here, n))
  BY Zenon DEF ReadSpace, env
<1>5. 0 \in Nat /\ 1 \in Nat /\ 1 # 0
  OBVIOUS
<1> HIDE DEF n
<1>6. QED
  BY Zenon, <1>1, <1>3, <1>4, <1>5, LineEndsPlainly, EmitReads

LEMMA TextReads ==
  ASSUME IInv, ReadText
  PROVE  Reads
<1> DEFINE n == line.chars + (IF line.zero THEN 1 ELSE 0)
           c == Padded(Moved(here, n))
<1>1. Reading /\ line.op = "text"
  BY Zenon DEF ReadText, Handle
<1>2. Correct(c, structs)
  BY <1>1 DEF Correct, Sized, After, here, Width
<1>3. \/ EndLine(c, line.faults, {}) /\ structs' = structs
      \/ EmitBytes(n, 1, line.faults, c)
  BY Zenon DEF ReadText
<1>4. line.faults \in Nat
  <2>1. script \in Scripts /\ pc \in 1 .. Len(script) + 1
    BY Zenon DEF IInv, Layout
  <2>2. pc \in 1 .. Len(script)
    BY <1>1, <2>1, ScriptLength DEF Reading
  <2>3. QED
    BY Zenon, <1>1, <2>1, <2>2, LineIsOK DEF LineOK
<1> HIDE DEF n, c
<1>5. QED
  BY Zenon, <1>1, <1>2, <1>3, <1>4, LineEndsPlainly, EmitReads

LEMMA GalignReads ==
  ASSUME IInv, ReadGalign
  PROVE  Reads
<1>1. Reading /\ line.op = "galign"
  BY Zenon DEF ReadGalign, Handle
<1>2. Correct(Aligning(here, line.arg - 1), structs)
  BY <1>1 DEF Correct, Sized, After, here
<1>3. \/ Abort("stopped", image)
      \/ EndLine(Aligning(here, line.arg - 1), 0, {}) /\ structs' = structs
      \/ EndLine(here, 1, {}) /\ structs' = structs
  BY Zenon DEF ReadGalign
<1>4. 0 \in Nat /\ 1 \in Nat /\ 1 # 0
  OBVIOUS
<1>5. QED
  BY Zenon, <1>1, <1>2, <1>3, <1>4, LineEndsPlainly, AbortReads

LEMMA StructReads ==
  ASSUME IInv, ReadStruct
  PROVE  Reads
<1> DEFINE e == (IF line.badtype THEN 1 ELSE 0) + (IF line.fields = <<>> THEN 1 ELSE 0)
<1>1. Reading /\ line.op = "struct"
  BY Zenon DEF ReadStruct, Handle
<1>2. \A str : Correct(here, str)
  BY <1>1 DEF Correct, Sized, After, Moving, here
<1>3. 0 \in Nat /\ 1 \in Nat /\ 1 # 0 /\ e \in Nat
  OBVIOUS
<1>4. \/ EndLine(here, 0, {}) /\ structs' = structs
      \/ EndLine(here, 1, {}) /\ structs' = structs
      \/ /\ pass # 2 /\ line.name # "" /\ line.name \notin DOMAIN structs
         /\ EndLine(here, e, {})
         /\ structs' = IF line.fields = <<>> THEN structs
                       ELSE [s \in DOMAIN structs \cup {line.name} |->
                               IF s = line.name THEN line.fields ELSE structs[s]]
  BY Zenon DEF ReadStruct
<1> HIDE DEF e
<1>5. CASE structs' = structs /\ (EndLine(here, 0, {}) \/ EndLine(here, 1, {}))
  BY Zenon, <1>1, <1>2, <1>3, <1>5, LineEndsPlainly
<1>6. CASE /\ pass # 2 /\ line.name # "" /\ line.name \notin DOMAIN structs
           /\ EndLine(here, e, {})
           /\ structs' = IF line.fields = <<>> THEN structs
                         ELSE [s \in DOMAIN structs \cup {line.name} |->
                                 IF s = line.name THEN line.fields ELSE structs[s]]
  <2>1. Extends(structs, structs')
    BY <1>6 DEF Extends
  <2>2. Nameless(structs')
    <3>1. Nameless(structs)
      BY Zenon DEF IInv, Layout
    <3>2. QED
      BY <1>6, <3>1 DEF Nameless
  <2>3. pass = 1
    <3>1. pass \in {1, 2}
      BY Zenon DEF IInv, Layout
    <3>2. QED
      BY <1>6, <3>1
  <2>4. QED
    BY Zenon, <1>1, <1>2, <1>3, <1>6, <2>1, <2>2, <2>3, LineEnds
<1>7. QED
  BY Zenon, <1>4, <1>5, <1>6

LEMMA RelocateReads ==
  ASSUME IInv, Reading, NEW c, NEW e \in Nat, Relocate(c, e),
         e = 0 => Correct(c, structs)
  PROVE  Reads
<1> DEFINE w == IF slot > 0 THEN {4120} ELSE {}
<1>1. EndLine(c, e, w) /\ structs' = structs
  BY DEF Relocate
<1> HIDE DEF w
<1>2. QED
  BY Zenon, <1>1, LineEndsPlainly

LEMMA AlignReads ==
  ASSUME IInv, ReadAlign
  PROVE  Reads
<1> DEFINE a == IF line.ok THEN line.arg ELSE 0
           e == (IF line.ok THEN 0 ELSE 1) + (IF a = 0 \/ AndNot(a, a - 1) # a THEN 1 ELSE 0)
           c == Aligned(here, (a - 1) % AddrMod)
<1>1. Reading /\ line.op = "align"
  BY Zenon DEF ReadAlign, Handle
<1>2. Relocate(c, e)
  BY Zenon DEF ReadAlign
<1>3. e \in Nat /\ (e = 0 => line.ok)
  OBVIOUS
<1>4. line.ok => c = Aligned(here, (line.arg - 1) % AddrMod)
  BY Zenon
<1> HIDE DEF e, c
<1>5. line.ok => Correct(c, structs)
  BY <1>1, <1>4 DEF Correct, Sized, After, here
<1>6. QED
  BY Zenon, <1>1, <1>2, <1>3, <1>5, RelocateReads

LEMMA OffsetReads ==
  ASSUME IInv, ReadOffset
  PROVE  Reads
<1> DEFINE c == At(here.loc, line.arg, here.warn, here.galign, here.stack, here.scope)
<1>1. Reading /\ line.op = "offset"
  BY Zenon DEF ReadOffset, Handle
<1>2. Correct(c, structs)
  BY <1>1 DEF Correct, Sized, After, here
<1>3. \/ EndLine(c, 0, {}) /\ structs' = structs
      \/ EndLine(here, 1, {}) /\ structs' = structs
  BY Zenon DEF ReadOffset
<1>4. 0 \in Nat /\ 1 \in Nat /\ 1 # 0
  OBVIOUS
<1> HIDE DEF c
<1>5. QED
  BY Zenon, <1>1, <1>2, <1>3, <1>4, LineEndsPlainly

LEMMA LocationReads ==
  ASSUME IInv, ReadLocation
  PROVE  Reads
<1>1. Reading /\ line.op \in Moving
  BY DEF ReadLocation, Handle, Moving
<1>2. Correct(Located(line, here), structs)
  <2>1. line.op \in {"loc", "bloc", "vma"}
    BY <1>1 DEF Moving
  <2>2. \A lab : /\ Sized(line, cur, lab, structs)
                 /\ After(line, cur, lab, structs) = Located(line, Entered(line, cur))
    BY <2>1 DEF Sized, After, Moving
  <2>3. QED
    BY Zenon, <2>2 DEF Correct, here
<1>3. Relocate(Located(line, here), 0) \/ Relocate(here, 1)
  BY Zenon DEF ReadLocation
<1>4. 0 \in Nat /\ 1 \in Nat /\ 1 # 0
  OBVIOUS
<1>5. QED
  BY Zenon, <1>1, <1>2, <1>3, <1>4, RelocateReads

LEMMA PushLocReads ==
  ASSUME IInv, ReadPushLoc
  PROVE  Reads
<1> DEFINE c == Restacked(here, here.loc, <<here.loc>> \o here.stack)
<1>1. Reading /\ line.op = "pushloc" /\ EndLine(c, 0, {}) /\ structs' = structs
  BY Zenon DEF ReadPushLoc, Handle
<1>2. Correct(c, structs)
  <2>1. \A lab : /\ Sized(line, cur, lab, structs)
                 /\ After(line, cur, lab, structs)
                      = Restacked(Entered(line, cur), Entered(line, cur).loc,
                                  <<Entered(line, cur).loc>> \o Entered(line, cur).stack)
    BY <1>1 DEF Sized, After, Moving
  <2>2. QED
    BY Zenon, <2>1 DEF Correct, here
<1> HIDE DEF c
<1>3. QED
  BY Zenon, <1>1, <1>2, LineEndsPlainly, 0 \in Nat

LEMMA PopLocReads ==
  ASSUME IInv, ReadPopLoc
  PROVE  Reads
<1> DEFINE c == Restacked(here, Head(here.stack), Tail(here.stack))
<1>1. Reading /\ line.op = "poploc"
  BY Zenon DEF ReadPopLoc, Handle
<1>2. Correct(c, structs)
  <2>1. \A lab : /\ Sized(line, cur, lab, structs)
                 /\ After(line, cur, lab, structs)
                      = Restacked(Entered(line, cur), Head(Entered(line, cur).stack),
                                  Tail(Entered(line, cur).stack))
    BY <1>1 DEF Sized, After, Moving
  <2>2. QED
    BY Zenon, <2>1 DEF Correct, here
<1>3. Relocate(here, 1) \/ Relocate(c, 0)
  BY Zenon DEF ReadPopLoc
<1> HIDE DEF c
<1>4. 0 \in Nat /\ 1 \in Nat /\ 1 # 0
  OBVIOUS
<1>5. QED
  BY Zenon, <1>1, <1>2, <1>3, <1>4, RelocateReads

LEMMA ReserveReads ==
  ASSUME IInv, ReserveInstruction
  PROVE  Reads
<1>1. Reading /\ line.op = "insn" /\ pass = 1
  BY Zenon DEF ReserveInstruction, Handle
<1>2. AsmLen(line, structs) # -1 => Correct(Moved(here, AsmLen(line, structs)), structs)
  BY <1>1 DEF Correct, Sized, After, Moving, here
<1>3. \/ EndLine(here, 1, {}) /\ structs' = structs
      \/ /\ AsmLen(line, structs) # -1
         /\ EndLine(Moved(here, AsmLen(line, structs)), 0, {}) /\ structs' = structs
  BY Zenon DEF ReserveInstruction
<1>4. 0 \in Nat /\ 1 \in Nat /\ 1 # 0
  OBVIOUS
<1>5. QED
  BY Zenon, <1>1, <1>2, <1>3, <1>4, LineEndsPlainly

LEMMA EmitInstructionReads ==
  ASSUME IInv, EmitInstruction
  PROVE  Reads
<1>1. Reading /\ line.op = "insn" /\ pass = 2
  BY Zenon DEF EmitInstruction, Handle
<1>2. script \in Scripts /\ pc \in 1 .. Len(script)
  <2>1. script \in Scripts /\ pc \in 1 .. Len(script) + 1
    BY Zenon DEF IInv, Layout
  <2>2. QED
    BY <1>1, <2>1, ScriptLength DEF Reading
<1>3. PICK g, taken :
        \E r \in {Mkasm(g, taken)} : /\ structs' = structs
                                     /\ IF r.ret = -1
                                        THEN EndLine(here, 1, {})
                                        ELSE EndLine(Moved(here, r.ret), 0, {})
  BY Zenon DEF EmitInstruction
<1>3a. \/ EndLine(here, 1, {}) /\ structs' = structs
      \/ /\ Mkasm(g, taken).ret # -1
         /\ EndLine(Moved(here, Mkasm(g, taken).ret), 0, {}) /\ structs' = structs
  BY Zenon, <1>3
<1>4. 0 \in Nat /\ 1 \in Nat /\ 1 # 0
  OBVIOUS
<1>5. ASSUME Mkasm(g, taken).ret # -1 PROVE Correct(Moved(here, Mkasm(g, taken).ret), structs)
  <2>1. pass # 1
    BY <1>1
  <2> SUFFICES ASSUME NEW lab, Sized(line, cur, lab, structs)
               PROVE  Moved(here, Mkasm(g, taken).ret) = After(line, cur, lab, structs)
    BY Zenon, <2>1 DEF Correct
  <2>2. AsmLen(line, structs) # -1
    BY Zenon, <1>1 DEF Sized
  <2>3. Mkasm(g, taken).ret \in {-1, AsmLen(line, structs)}
    BY Zenon, <1>1, <1>2, <2>2, MkasmReturns
  <2>4. Mkasm(g, taken).ret = AsmLen(line, structs)
    BY Zenon, <1>5, <2>3
  <2>5. After(line, cur, lab, structs) = Moved(Entered(line, cur), AsmLen(line, structs))
    BY <1>1 DEF After, Moving
  <2>6. QED
    BY Zenon, <2>4, <2>5 DEF here
<1>6. QED
  BY Zenon, <1>1, <1>3a, <1>4, <1>5, LineEndsPlainly
-----------------------------------------------------------------------------
(* Every step keeps the invariant. *)
LEMMA ReadsPreserves ==
  ASSUME IInv, Reading, Reads
  PROVE  IInv'
BY Zenon, AdvancePreserves, GivesUpPreserves DEF Reads

LEMMA AbortPreserves ==
  ASSUME IInv, NEW how \in {"stopped", "crashed"}, NEW img, Abort(how, img)
  PROVE  IInv'
<1>1. status' \notin {"running", "done"}
  BY DEF Abort
<1>2. UNCHANGED <<script, pass, pc, cur, layout, labels, globals, structs, errors, symbols>>
  BY Zenon DEF Abort, inputs, reading, naming
<1>3. QED
  BY Zenon, <1>1, <1>2, GivesUpPreserves DEF Gives_up

LEMMA InitHolds == Init => IInv
<1> SUFFICES ASSUME Init PROVE IInv
  OBVIOUS
<1>1. /\ script \in Scripts /\ pass = 1 /\ pc = 1 /\ cur = Start /\ layout = <<Start>>
      /\ globals = {} /\ errors = 0 /\ status = "running"
      /\ labels = [n \in {} |-> 0] /\ structs = [s \in {} |-> <<>>]
  BY Zenon DEF Init
<1>2. Len(script) \in Nat
  BY <1>1, ScriptLength
<1>3. Laid = 0
  BY <1>1 DEF Laid
<1>4. IsSequence(layout) /\ Len(layout) = 1 /\ layout[1] = Start
  BY <1>1 DEF IsSequence
<1>5. Layout
  <2>1. Nameless(structs)
    BY <1>1 DEF Nameless
  <2>2. QED
    BY <1>1, <1>2, <1>3, <1>4, <2>1 DEF Layout
<1>6. Chained
  BY <1>3 DEF Chained
<1>7. Named
  BY <1>1, <1>3 DEF Named
<1>8. PassesAgree /\ Exported
  BY <1>1 DEF PassesAgree, Exported
<1>9. QED
  BY <1>5, <1>6, <1>7, <1>8 DEF IInv

LEMMA NextPreserves == IInv /\ [Next]_vars => IInv'
<1> SUFFICES ASSUME IInv, [Next]_vars PROVE IInv'
  OBVIOUS
<1>1. CASE ReadBlank
  BY Zenon, <1>1, BlankReads, ReadsPreserves DEF ReadBlank
<1>2. CASE StopInPrelude \/ ReadQword \/ RefuseInstruction
  <2>1. Abort("stopped", image)
    BY Zenon, <1>2 DEF StopInPrelude, ReadQword, RefuseInstruction
  <2>2. QED
    BY Zenon, <2>1, AbortPreserves
<1>3. CASE ReadNothing \/ ReadUnknownDirective \/ ReadData \/ ReadSpace \/ ReadText
           \/ ReadGalign \/ ReadStruct
  <2>1. Reading
    BY Zenon, <1>3 DEF ReadNothing, ReadUnknownDirective, ReadData, ReadSpace, ReadText,
                       ReadGalign, ReadStruct, Handle
  <2>2. QED
    BY Zenon, <1>3, <2>1, NothingReads, UnknownReads, DataReads, SpaceReads, TextReads,
       GalignReads, StructReads, ReadsPreserves
<1>4. CASE ReadAlign \/ ReadOffset \/ ReadLocation \/ ReadPushLoc \/ ReadPopLoc
  <2>1. Reading
    BY Zenon, <1>4 DEF ReadAlign, ReadOffset, ReadLocation, ReadPushLoc, ReadPopLoc, Handle
  <2>2. QED
    BY Zenon, <1>4, <2>1, AlignReads, OffsetReads, LocationReads, PushLocReads,
       PopLocReads, ReadsPreserves
<1>5. CASE ReadTextWithoutQuote
  <2>1. PICK how \in {"stopped", "crashed"} : Abort(how, image)
    BY Zenon, <1>5 DEF ReadTextWithoutQuote
  <2>2. QED
    BY Zenon, <2>1, AbortPreserves
<1>6. CASE ReserveInstruction \/ EmitInstruction
  <2>1. Reading
    BY Zenon, <1>6 DEF ReserveInstruction, EmitInstruction, Handle
  <2>2. QED
    BY Zenon, <1>6, <2>1, ReserveReads, EmitInstructionReads, ReadsPreserves
<1>6a. CASE CrashInExchange
  <2>1. PICK img : Abort("crashed", img)
    BY Zenon, <1>6a DEF CrashInExchange
  <2>2. QED
    BY Zenon, <2>1, AbortPreserves
<1>7. CASE StartPass2 \/ Finish
  BY Zenon, <1>7, SecondPassStarts, FinishPreserves
<1>8. CASE Stopped \/ UNCHANGED vars
  BY Zenon, <1>8, StutterPreserves DEF Stopped
<1>9. QED
  BY Zenon, <1>1, <1>2, <1>3, <1>4, <1>5, <1>6, <1>6a, <1>7, <1>8 DEF Next

(* The layout of pass 1 determines what pass 2 does, at every state.       *)
THEOREM InductiveInvariant == Spec => []IInv
BY InitHolds, NextPreserves, PTL DEF Spec

(* Pass 2 (genasm after check_only) reaches every line as pass 1 did: what *)
(* get_asm_len and the directives reserve is what mkasm and they write.    *)
THEOREM PassesAlwaysAgree == Spec => []PassesAgree
<1>1. IInv => PassesAgree
  BY DEF IInv
<1>2. QED
  BY <1>1, InductiveInvariant, PTL
-----------------------------------------------------------------------------
(* Line i is the first to define name n.                                   *)
First(i, n) == Defines(i) /\ NameOf(i) = n /\ ~DefinedBefore(i, n)

LEMMA FirstIsUnique ==
  ASSUME NEW i \in Nat, NEW j \in Nat, i >= 1, j >= 1, NEW n, First(i, n), First(j, n)
  PROVE  i = j
<1>1. ASSUME NEW a \in Nat, NEW b \in Nat, a >= 1, a < b, First(a, n)
      PROVE  DefinedBefore(b, n)
  <2>1. a \in 1 .. b - 1
    BY <1>1
  <2>2. QED
    BY Zenon, <1>1, <2>1 DEF First, DefinedBefore, Defines, NameOf
<1>2. ~(i < j) /\ ~(j < i)
  BY Zenon, <1>1 DEF First
<1>3. QED
  BY <1>2

(* In the second pass the labels hold what the first definers have.        *)
LEMMA LabelOfFirst ==
  ASSUME Layout, Named, pass = 2, NEW i \in 1 .. Len(script), NEW n, First(i, n)
  PROVE  n \in DOMAIN labels /\ labels[n] = Vma(layout[i])
<1>1. Len(script) \in Nat /\ Laid = Len(script)
  <2>1. script \in Scripts
    BY Zenon DEF Layout
  <2>2. QED
    BY <2>1, ScriptLength DEF Laid
<1>2. n \in DOMAIN labels
  BY Zenon, <1>1 DEF Named, First
<1>3. PICK j \in 1 .. Laid : First(j, n) /\ labels[n] = Vma(layout[j])
  BY Zenon, <1>2 DEF Named, First
<1>4. i \in Nat /\ i >= 1 /\ j \in Nat /\ j >= 1
  BY <1>1
<1>5. i = j
  BY Zenon, <1>3, <1>4, FirstIsUnique
<1>6. QED
  BY <1>2, <1>3, <1>5

(* The address every use of a label has been given is the address at which *)
(* pass 2 puts the code of the labelled line.                              *)
THEOREM LabelsAreAddresses == Spec => []LabelsMatchCode
<1>1. IInv => LabelsMatchCode
  <2> SUFFICES ASSUME IInv, pass = 2, status = "running", Sound, pc <= Len(script),
                      Labelled(line), ~DefinedBefore(pc, FullName(line, cur))
               PROVE  labels[FullName(line, cur)] = Vma(cur)
    BY Zenon DEF LabelsMatchCode
  <2>1. Layout /\ Named /\ cur = layout[pc]
    BY Zenon DEF IInv, PassesAgree
  <2>2. pc \in 1 .. Len(script)
    <3>1. script \in Scripts /\ pc \in 1 .. Len(script) + 1
      BY Zenon, <2>1 DEF Layout
    <3>2. QED
      BY <3>1, ScriptLength
  <2>3. First(pc, FullName(line, cur))
    BY Zenon, <2>1 DEF First, Defines, NameOf, line
  <2>4. QED
    BY Zenon, <2>1, <2>2, <2>3, LabelOfFirst
<1>2. QED
  BY <1>1, InductiveInvariant, PTL

(* export_sym_file writes the global labels, each with the address of the  *)
(* first line that defines the name, and nothing else.                     *)
THEOREM SymbolsAreAddresses == Spec => []SymbolsMatchCode
<1>1. IInv => SymbolsMatchCode
  <2> DEFINE global == {i \in 1 .. Len(script) :
                          Labelled(script[i]) /\ ~Local(script[i].label)}
             first  == {i \in 1 .. Len(script) :
                          /\ Labelled(script[i])
                          /\ ~DefinedBefore(i, FullName(script[i], layout[i]))
                          /\ \E j \in global :
                               script[j].label = FullName(script[i], layout[i])}
             entry(i) == <<FullName(script[i], layout[i]), Vma(layout[i]) % Full>>
  <2> SUFFICES ASSUME IInv, status = "done"
               PROVE  symbols = {entry(i) : i \in first}
    BY Zenon DEF SymbolsMatchCode
  <2>1. /\ pass = 2 /\ Layout /\ Named
        /\ symbols = {<<n, labels[n] % Full>> : n \in globals}
    BY Zenon DEF IInv, Exported
  <2>2. Laid = Len(script)
    BY <2>1 DEF Laid
  <2>3. /\ \A i \in 1 .. Len(script) : DefinesGlobal(i) => script[i].label \in globals
        /\ \A n \in globals : \E i \in 1 .. Len(script) :
             DefinesGlobal(i) /\ script[i].label = n
        /\ \A i \in 1 .. Len(script) : Defines(i) => NameOf(i) \in DOMAIN labels
        /\ \A n \in DOMAIN labels : \E i \in 1 .. Len(script) : First(i, n)
    BY Zenon, <2>1, <2>2 DEF Named, First
  <2>4. \A i : i \in global <=> i \in 1 .. Len(script) /\ DefinesGlobal(i)
    BY Zenon DEF DefinesGlobal, Defines
  <2>5. \A i : i \in first <=> /\ i \in 1 .. Len(script) /\ First(i, NameOf(i))
                               /\ \E j \in global : script[j].label = NameOf(i)
    BY Zenon DEF First, Defines, NameOf
  <2>6. \A i \in 1 .. Len(script) : \A n : First(i, n) =>
          entry(i) = <<n, labels[n] % Full>>
    BY Zenon, <2>1, LabelOfFirst DEF First, NameOf
  <2> HIDE DEF global, first, entry
  <2>7. ASSUME NEW n \in globals
        PROVE  \E i \in first : entry(i) = <<n, labels[n] % Full>>
    <3>1. PICK j \in 1 .. Len(script) : DefinesGlobal(j) /\ script[j].label = n
      BY Zenon, <2>3
    <3>2. NameOf(j) = n /\ Defines(j)
      BY Zenon, <3>1, GlobalName DEF NameOf, DefinesGlobal
    <3>3. PICK i \in 1 .. Len(script) : First(i, n)
      BY Zenon, <2>3, <3>2
    <3>4. i \in first
      BY Zenon, <2>4, <2>5, <3>1, <3>3 DEF First
    <3>5. QED
      BY Zenon, <2>6, <3>3, <3>4
  <2>8. ASSUME NEW i \in first
        PROVE  \E n \in globals : entry(i) = <<n, labels[n] % Full>>
    <3>1. PICK j \in global : script[j].label = NameOf(i)
      BY Zenon, <2>5
    <3>2. NameOf(i) \in globals
      BY Zenon, <2>3, <2>4, <3>1
    <3>3. i \in 1 .. Len(script) /\ First(i, NameOf(i))
      BY Zenon, <2>5
    <3>4. entry(i) = <<NameOf(i), labels[NameOf(i)] % Full>>
      BY Zenon, <2>6, <3>3
    <3>5. QED
      BY Zenon, <3>2, <3>4
  <2>9. QED
    BY <2>1, <2>7, <2>8
<1>2. QED
  BY <1>1, InductiveInvariant, PTL
-----------------------------------------------------------------------------
(* Delay slots.  The directives and instructions that end the wait for the *)
(* instruction in one.                                                     *)
Ending == {"insn", "align", "loc", "bloc", "vma", "poploc"}

(* What get_asm_len reserved: for an LI, which has no label, by its        *)
(* operand; for what is neither LI, LA nor a structure one word.           *)
Reserved(l, c, next) ==
  /\ l.ins = "li" =>
       l.arg.ref = NoName /\ next.loc = (c.loc + LiSize(l.arg.add)) % AddrMod
  /\ l.ins \notin {"li", "la", "struct"} => next.loc = (c.loc + 4) % AddrMod

RoomReserved ==
  errors = 0 => \A j \in 1 .. Laid :
    script[j].op = "insn" => Reserved(script[j], layout[j], layout[j + 1])

(* The slot of transfer i was ended by line j, as it should be. *)
EndedBy(i, j) ==
  /\ \A k \in SlotEnds(i) : j <= k
  /\ IF script[j].op = "insn"
     THEN /\ j \notin Transfers
          /\ script[j].ins # "struct" =>
               layout[j + 1].loc = (layout[j].loc + 4) % AddrMod
     ELSE 4120 \in warned

SlotEnded(i) == \E j \in SlotEnds(i) : j < pc /\ EndedBy(i, j)

(* is_delayslot still counts. *)
SlotWaits(i) == slot = 1 /\ \A j \in SlotEnds(i) : j >= pc

(* A wait is over after one instruction. *)
SlotCount == (pass = 1 => slot = 0) /\ (errors = 0 => slot \in {0, 1})

SlotsFollowed ==
  pass = 2 /\ errors = 0 /\ opts.large =>
    \A i \in Transfers : i < pc => SlotEnded(i) \/ SlotWaits(i)

SlotInv == IInv /\ RoomReserved /\ SlotCount /\ SlotsFollowed /\ SlotDiscipline

(* What a line does to is_delayslot in the second pass. *)
Skips == slot' = slot /\ line.op \notin Ending

Forgets ==
  /\ line.op \in Ending \ {"insn"}
  /\ slot' = 0 /\ (slot > 0 => 4120 \in warned')

Takes ==
  /\ line.op = "insn"
  /\ IF pc \in Transfers THEN slot = 0 /\ slot' = 1
     ELSE slot' = 0
  /\ slot > 0 /\ opts.large =>
       /\ line.ins # "la"
       /\ line.ins = "li" /\ line.arg.ref = NoName => LiSize(line.arg.add) = 4

RoomLaid ==
  pass = 1 /\ errors' = 0 /\ line.op = "insn" => Reserved(line, cur, cur')

SlotLine ==
  /\ Advances /\ opts' = opts /\ warned \subseteq warned'
  /\ RoomLaid
  /\ pass = 1 => slot' \in {0, slot}
  /\ pass = 2 /\ errors' = 0 => Skips \/ Forgets \/ Takes

SlotGivesUp == Gives_up /\ UNCHANGED <<opts, slot, warned>>

SlotStep == SlotLine \/ SlotGivesUp

LEMMA ZeroBelow ==
  ASSUME NEW m \in Nat, NEW n, n = 0, n >= m
  PROVE  m = 0
  OBVIOUS

LEMMA AtALine ==
  ASSUME IInv
  PROVE  /\ script \in Scripts /\ Len(script) \in Nat /\ pass \in {1, 2}
         /\ pc \in Nat /\ errors \in Nat
         /\ Reading => pc \in 1 .. Len(script)
<1>1. /\ script \in Scripts /\ pc \in 1 .. Len(script) + 1 /\ pass \in {1, 2}
      /\ errors \in Nat
  BY Zenon DEF IInv, Layout
<1>2. Len(script) \in Nat
  BY <1>1, ScriptLength
<1>3. QED
  BY <1>1, <1>2 DEF Reading

LEMMA EndLineAdvances ==
  ASSUME IInv, Reads, NEW c, NEW e, NEW w, EndLine(c, e, w)
  PROVE  /\ Advances /\ opts' = opts /\ warned \subseteq warned' /\ w \subseteq warned'
         /\ cur' = c
<1>1. /\ pc' = pc + 1 /\ opts' = opts /\ cur' = c
      /\ warned' = warned \cup w \cup (IF Overline(cur) THEN {4900} ELSE {})
  BY DEF EndLine, inputs
<1>2. pc \in Nat
  BY AtALine
<1>3. ~Gives_up
  BY <1>1, <1>2 DEF Gives_up
<1>4. QED
  BY <1>1, <1>3 DEF Reads

LEMMA AbortSlot ==
  ASSUME NEW how \in {"stopped", "crashed"}, NEW img, Abort(how, img)
  PROVE  SlotStep
<1>1. status' \notin {"running", "done"}
  BY DEF Abort
<1>2. UNCHANGED <<script, pass, pc, cur, layout, labels, globals, structs, errors, symbols>>
  BY Zenon DEF Abort, inputs, reading, naming
<1>3. UNCHANGED <<opts, slot, warned>>
  BY Zenon DEF Abort, inputs
<1>4. QED
  BY Zenon, <1>1, <1>2, <1>3 DEF SlotStep, SlotGivesUp, Gives_up

LEMMA SkipSlot ==
  ASSUME IInv, Reads, line.op \notin Ending,
         \/ \E c, e, w : EndLine(c, e, w) /\ slot' = slot
         \/ \E img : Abort("stopped", img)
  PROVE  SlotStep
<1>1. ASSUME NEW c, NEW e, NEW w, EndLine(c, e, w), slot' = slot
      PROVE  SlotStep
  <2>1. Advances /\ opts' = opts /\ warned \subseteq warned'
    BY Zenon, <1>1, EndLineAdvances
  <2>2. RoomLaid
    BY DEF RoomLaid, Ending
  <2>3. Skips
    BY <1>1 DEF Skips
  <2>4. QED
    BY <2>1, <2>2, <2>3 DEF SlotStep, SlotLine, Skips
<1>2. QED
  BY <1>1, AbortSlot

LEMMA RelocateSlot ==
  ASSUME IInv, Reads, line.op \in Ending \ {"insn"}, NEW c, NEW e, Relocate(c, e)
  PROVE  SlotStep
<1> DEFINE w == IF slot > 0 THEN {4120} ELSE {}
<1>1. EndLine(c, e, w) /\ slot' = 0
  BY DEF Relocate
<1> HIDE DEF w
<1>2. Advances /\ opts' = opts /\ warned \subseteq warned' /\ w \subseteq warned'
  BY Zenon, <1>1, EndLineAdvances
<1>3. RoomLaid
  BY DEF RoomLaid
<1>4. Forgets
  BY <1>1, <1>2 DEF Forgets, w
<1>5. QED
  BY <1>2, <1>3, <1>4 DEF SlotStep, SlotLine, Forgets

LEMMA EmitSkips ==
  ASSUME NEW n, NEW unit, NEW e, NEW c, EmitBytes(n, unit, e, c)
  PROVE  \/ \E w : EndLine(c, e, w) /\ slot' = slot
         \/ \E img : Abort("stopped", img)
  BY Zenon DEF EmitBytes

LEMMA BlankSlot ==
  ASSUME IInv, ReadBlank
  PROVE  SlotStep
<1>1. line.op = "blank" /\ pc' = pc + 1 /\ opts' = opts /\ warned' = warned /\ slot' = slot
  BY DEF ReadBlank, inputs, result
<1>2. pc \in Nat
  BY AtALine
<1>3. ~Gives_up
  BY <1>1, <1>2 DEF Gives_up
<1>4. Advances
  BY Zenon, <1>3, BlankReads DEF Reads
<1>5. RoomLaid /\ Skips
  BY <1>1 DEF RoomLaid, Skips, Ending
<1>6. QED
  BY <1>1, <1>4, <1>5 DEF SlotStep, SlotLine, Skips

LEMMA DirectiveSlot ==
  ASSUME IInv, \/ ReadNothing \/ ReadUnknownDirective \/ ReadData \/ ReadSpace \/ ReadText
               \/ ReadGalign \/ ReadStruct \/ ReadOffset \/ ReadPushLoc
  PROVE  SlotStep
<1>1. Reads
  BY Zenon, NothingReads, UnknownReads, DataReads, SpaceReads, TextReads, GalignReads,
     StructReads, OffsetReads, PushLocReads
<1>2. line.op \in {"none", "unknown", "data", "space", "text", "galign", "struct",
                   "offset", "pushloc"}
  BY Zenon DEF ReadNothing, ReadUnknownDirective, ReadData, ReadSpace, ReadText,
               ReadGalign, ReadStruct, ReadOffset, ReadPushLoc, Handle
<1>3. line.op \notin Ending
  BY <1>2 DEF Ending
<1> DEFINE goal == \/ \E c, e, w : EndLine(c, e, w) /\ slot' = slot
                   \/ \E img : Abort("stopped", img)
<1>4. ReadNothing => goal
  BY Zenon DEF ReadNothing
<1>5. ReadUnknownDirective => goal
  BY Zenon DEF ReadUnknownDirective
<1>6. ReadData => goal
  BY Zenon, EmitSkips DEF ReadData
<1>7. ReadSpace => goal
  BY Zenon, EmitSkips DEF ReadSpace
<1>8. ReadText => goal
  BY Zenon, EmitSkips DEF ReadText
<1>9. ReadGalign => goal
  BY Zenon DEF ReadGalign
<1>10. ReadStruct => goal
  BY Zenon DEF ReadStruct
<1>11. ReadOffset => goal
  BY Zenon DEF ReadOffset
<1>12. ReadPushLoc => goal
  BY Zenon DEF ReadPushLoc
<1>13. goal
  BY Zenon, <1>4, <1>5, <1>6, <1>7, <1>8, <1>9, <1>10, <1>11, <1>12
<1>14. QED
  BY Zenon, <1>1, <1>3, <1>13, SkipSlot

LEMMA MovingSlot ==
  ASSUME IInv, ReadAlign \/ ReadLocation \/ ReadPopLoc
  PROVE  SlotStep
<1>1. Reads
  BY Zenon, AlignReads, LocationReads, PopLocReads
<1>2. line.op \in {"align", "loc", "bloc", "vma", "poploc"}
  BY Zenon DEF ReadAlign, ReadLocation, ReadPopLoc, Handle
<1>3. line.op \in Ending \ {"insn"}
  BY <1>2 DEF Ending
<1>4. \E c, e : Relocate(c, e)
  BY Zenon DEF ReadAlign, ReadLocation, ReadPopLoc
<1>5. QED
  BY Zenon, <1>1, <1>3, <1>4, RelocateSlot

(* What mkasm leaves in is_delayslot. *)
LEMMA AcceptedSlot ==
  ASSUME NEW res, NEW size, NEW s \in {0, 1, 2}, Accepted(res, size, s).ret # -1
  PROVE  Accepted(res, size, s).slot = IF s = 0 THEN 0 ELSE s - 1
  BY DEF Accepted, Rejected

LEMMA TransferSlot ==
  ASSUME line.ins \in {"branch", "jump", "jumpreg", "b"}, Transfer.ret # -1
  PROVE  ~ (slot > 0) /\ Transfer.slot = 1
<1>1. \A img, s : Rejected(img, s).ret = -1
  BY DEF Rejected
<1>2. ~ (slot > 0)
  BY Zenon, <1>1 DEF Transfer
<1>3. \/ \E s : Transfer = Rejected(image, s)
      \/ \E w : Transfer = EmitWord(w, 2)
  BY Zenon DEF Transfer
<1>4. PICK w : Transfer = EmitWord(w, 2)
  BY Zenon, <1>1, <1>3
<1>5. PICK res : Transfer = Accepted(res, 4, 2)
  BY Zenon, <1>4 DEF EmitWord
<1>6. Transfer.slot = 1
  BY <1>5, AcceptedSlot
<1>7. QED
  BY <1>2, <1>6

(* Two words in a delay slot are refused. *)
LEMMA PairSlot ==
  ASSUME slot \in {0, 1}, NEW w1, NEW w2, NEW taken,
         EmitPair(w1, w2, taken).ret # -1
  PROVE  /\ EmitPair(w1, w2, taken).slot = 0
         /\ ~ (slot > 0 /\ opts.large)
<1>1. \A img, s : Rejected(img, s).ret = -1
  BY DEF Rejected
<1>2. CASE slot = 0
  <2>1. PICK res : EmitPair(w1, w2, taken) = Accepted(res, 8, slot)
    BY Zenon, <1>2 DEF EmitPair
  <2>2. EmitPair(w1, w2, taken).slot = 0
    BY <1>2, <2>1, AcceptedSlot
  <2>3. QED
    BY <1>2, <2>2
<1>3. CASE slot = 1
  <2>1. slot # 0
    BY <1>3
  <2>2. ~opts.large
    BY Zenon, <1>1, <2>1 DEF EmitPair, Exchanges
  <2>3. \/ EmitPair(w1, w2, taken) = Rejected(image, slot)
        \/ \E res : EmitPair(w1, w2, taken) = Accepted(res, 8, slot)
    BY Zenon, <2>1 DEF EmitPair
  <2>4. PICK res : EmitPair(w1, w2, taken) = Accepted(res, 8, slot)
    BY Zenon, <1>1, <2>3
  <2>5. EmitPair(w1, w2, taken).slot = 0
    BY <1>3, <2>4, AcceptedSlot
  <2>6. QED
    BY <2>2, <2>5
<1>4. QED
  BY <1>2, <1>3

LEMMA WordSlot ==
  ASSUME slot \in {0, 1}, NEW w, EmitWord(w, slot).ret # -1
  PROVE  EmitWord(w, slot).slot = 0
<1>1. PICK res : EmitWord(w, slot) = Accepted(res, 4, slot)
  BY Zenon DEF EmitWord
<1>2. QED
  BY <1>1, AcceptedSlot

LEMMA ExpansionSlot ==
  ASSUME slot \in {0, 1}, NEW code, NEW taken, Len(code) \in {1, 2},
         Expansion(code, taken).ret # -1
  PROVE  /\ Expansion(code, taken).slot = 0
         /\ slot > 0 /\ opts.large => Len(code) = 1
<1>1. CASE Len(code) = 1
  <2>1. Expansion(code, taken) = EmitWord(Code(code[1].op, code[1].imm), slot)
    BY <1>1 DEF Expansion
  <2>2. QED
    BY <1>1, <2>1, WordSlot
<1>2. CASE Len(code) = 2
  <2>1. Expansion(code, taken) = EmitPair(Code(code[1].op, code[1].imm),
                                   Code(code[2].op, code[2].imm), taken)
    BY <1>2 DEF Expansion
  <2>2. QED
    BY <2>1, PairSlot
<1>3. QED
  BY <1>1, <1>2

LEMMA StructSlot ==
  ASSUME slot \in {0, 1}, StructValues.ret # -1
  PROVE  StructValues.slot = 0
<1>1. \A img, s : Rejected(img, s).ret = -1
  BY DEF Rejected
<1>2. \/ \E img : StructValues = Rejected(img, slot)
      \/ \E res : StructValues = Accepted(res, TotalSize(structs[line.name]), slot)
  BY Zenon DEF StructValues
<1>3. PICK res : StructValues = Accepted(res, TotalSize(structs[line.name]), slot)
  BY Zenon, <1>1, <1>2
<1>4. QED
  BY <1>3, AcceptedSlot

LEMMA MkasmSlot ==
  ASSUME script \in Scripts, pc \in 1 .. Len(script), line.op = "insn",
         slot \in {0, 1}, NEW g, NEW taken, Mkasm(g, taken).ret # -1
  PROVE  /\ IF line.ins \in {"branch", "jump", "jumpreg", "b"}
            THEN slot = 0 /\ Mkasm(g, taken).slot = 1
            ELSE Mkasm(g, taken).slot = 0
         /\ slot > 0 /\ opts.large =>
              /\ line.ins # "la"
              /\ line.ins = "li" /\ line.arg.ref = NoName => LiSize(line.arg.add) = 4
<1>0. \A img : Rejected(img, slot).ret = -1
  BY DEF Rejected
<1>1. CASE line.ins \in {"branch", "jump", "jumpreg", "b"}
  <2>1. Mkasm(g, taken) = Transfer
    BY Zenon, <1>1 DEF Mkasm
  <2>2. QED
    BY <1>1, <2>1, TransferSlot
<1>2. CASE line.ins = "la"
  <2>1. Mkasm(g, taken) = LoadAddress(g, taken)
    BY Zenon, <1>2 DEF Mkasm
  <2> DEFINE v == IF line.wf THEN ExprValue(line.arg, Env(cur.loc)) ELSE g
  <2>2. /\ LoadAddress(g, taken) = Expansion(LaCode(v), taken)
        /\ ~ (slot > 0 /\ opts.large)
    BY Zenon, <1>0, <2>1 DEF LoadAddress
  <2> HIDE DEF v
  <2> DEFINE code == LaCode(v)
  <2>3. Len(code) \in {1, 2}
    BY DEF LaCode, AddiuPair
  <2> HIDE DEF code
  <2>4. Mkasm(g, taken) = Expansion(code, taken)
    BY <2>1, <2>2 DEF code
  <2>5. Mkasm(g, taken).slot = 0
    BY <2>3, <2>4, ExpansionSlot
  <2>6. QED
    BY <1>2, <2>2, <2>5
<1>3. CASE line.ins = "li"
  <2>1. Mkasm(g, taken) = Expansion(LiCode(ExprValue(line.arg, Env(cur.loc))), taken)
    BY Zenon, <1>0, <1>3 DEF Mkasm, LiWords
  <2> DEFINE v == ExprValue(line.arg, Env(cur.loc))
             code == LiCode(v)
  <2>2. Len(code) \in {1, 2}
    <3> HIDE DEF v
    <3>1. QED
      BY DEF LiCode, AddiuPair
  <2>3. Mkasm(g, taken) = Expansion(code, taken)
    BY <2>1
  <2>4. line.arg.ref = NoName => v = line.arg.add
    BY DEF ExprValue
  <2> HIDE DEF code, v
  <2>5. Mkasm(g, taken).slot = 0 /\ (slot > 0 /\ opts.large => Len(code) = 1)
    BY <2>2, <2>3, ExpansionSlot
  <2>6. ASSUME slot > 0, opts.large, line.arg.ref = NoName
        PROVE  LiSize(line.arg.add) = 4
    <3>1. line.arg.add \in Int
      BY LineIsOK DEF LineOK, ExprSet
    <3>2. LiSize(line.arg.add) = 4 * Len(LiCode(line.arg.add))
      BY <3>1, LiFillsRoom
    <3>3. code = LiCode(line.arg.add)
      BY <2>4, <2>6 DEF code
    <3> DEFINE n == Len(code)
    <3>4. n = 1 /\ LiSize(line.arg.add) = 4 * n
      BY <2>5, <2>6, <3>2, <3>3
    <3> HIDE DEF n
    <3>5. QED
      BY <3>4
  <2>7. QED
    BY <1>3, <2>5, <2>6
<1>4. CASE line.ins = "struct"
  <2>1. Mkasm(g, taken) = StructValues
    BY Zenon, <1>0, <1>4 DEF Mkasm
  <2>2. QED
    BY <1>4, <2>1, StructSlot
<1>5. CASE line.ins \in {"plain", "move"}
  <2>1. PICK w : Mkasm(g, taken) = EmitWord(w, slot)
    BY Zenon, <1>0, <1>5 DEF Mkasm
  <2>2. QED
    BY <1>5, <2>1, WordSlot
<1>6. CASE line.ins = "nojump"
  <2>1. Mkasm(g, taken) = Transfer /\ line.ins \notin {"branch", "b", "jump", "jumpreg"}
    BY Zenon, <1>6 DEF Mkasm
  <2>2. \E s : Transfer = Rejected(image, s)
    BY Zenon, <1>6 DEF Transfer
  <2>3. Mkasm(g, taken).ret = -1
    BY <2>1, <2>2 DEF Rejected
  <2>4. QED
    BY <2>3
<1>7. CASE line.ins \notin {"branch", "jump", "jumpreg", "b", "la", "li", "struct",
                            "plain", "move", "nojump"}
  BY Zenon, <1>0, <1>7 DEF Mkasm
<1>8. QED
  BY <1>1, <1>2, <1>3, <1>4, <1>5, <1>6, <1>7

LEMMA EmitInstructionSlot ==
  ASSUME SlotInv, EmitInstruction
  PROVE  SlotStep
<1>1. IInv /\ SlotCount
  BY DEF SlotInv
<1>2. Reading /\ line.op = "insn" /\ pass = 2
  BY Zenon DEF EmitInstruction, Handle
<1>3. /\ script \in Scripts /\ Len(script) \in Nat /\ errors \in Nat
      /\ pc \in 1 .. Len(script)
  BY <1>1, <1>2, AtALine
<1>4. PICK g, taken : \E r \in {Mkasm(g, taken)} :
                 /\ IF r.ret = -1 THEN EndLine(here, 1, {})
                    ELSE EndLine(Moved(here, r.ret), 0, {})
                 /\ slot' = r.slot
  BY Zenon DEF EmitInstruction
<1>5. PICK c, e : /\ EndLine(c, e, {}) /\ slot' = Mkasm(g, taken).slot
                  /\ Mkasm(g, taken).ret = -1 => e = 1
  <2>1. /\ IF Mkasm(g, taken).ret = -1 THEN EndLine(here, 1, {})
           ELSE EndLine(Moved(here, Mkasm(g, taken).ret), 0, {})
        /\ slot' = Mkasm(g, taken).slot
    BY Zenon, <1>4
  <2>2. CASE Mkasm(g, taken).ret = -1
    BY Zenon, <2>1, <2>2
  <2>3. CASE Mkasm(g, taken).ret # -1
    BY Zenon, <2>1, <2>3
  <2>4. QED
    BY <2>2, <2>3
<1>6. Reads
  BY <1>1, EmitInstructionReads
<1>7. Advances /\ opts' = opts /\ warned \subseteq warned'
  BY Zenon, <1>1, <1>5, <1>6, EndLineAdvances
<1>8. RoomLaid
  BY <1>2 DEF RoomLaid
<1>9. ASSUME errors' = 0
      PROVE  Takes
  <2>1. errors' = errors + (PreludeErrors(line, cur) + e)
    BY Zenon, <1>5 DEF EndLine
  <2>2. errors = 0 /\ Mkasm(g, taken).ret # -1
    <3>1. PreludeErrors(line, cur) \in Nat
      BY TotalErrors
    <3>2. errors = 0
      BY Zenon, <1>3, <1>7, <1>9, ZeroBelow DEF Advances
    <3>3. e # 1
      BY ONLY <1>3, <1>9, <2>1, <3>1
    <3>4. QED
      BY <1>5, <3>2, <3>3
  <2>3. slot \in {0, 1}
    BY <1>1, <2>2 DEF SlotCount
  <2>4. /\ IF line.ins \in {"branch", "jump", "jumpreg", "b"}
           THEN slot = 0 /\ Mkasm(g, taken).slot = 1
           ELSE Mkasm(g, taken).slot = 0
        /\ slot > 0 /\ opts.large =>
              /\ line.ins # "la"
              /\ line.ins = "li" /\ line.arg.ref = NoName => LiSize(line.arg.add) = 4
    BY Zenon, <1>2, <1>3, <2>2, <2>3, MkasmSlot
  <2>5. pc \in Transfers <=> line.ins \in {"branch", "jump", "jumpreg", "b"}
    BY <1>2, <1>3 DEF Transfers, line
  <2>6. QED
    BY Zenon, <1>2, <1>5, <2>4, <2>5 DEF Takes
<1>10. pass # 1
  BY <1>2
<1>11. QED
  BY Zenon, <1>7, <1>8, <1>9, <1>10 DEF SlotStep, SlotLine

LEMMA ReserveSlot ==
  ASSUME IInv, ReserveInstruction
  PROVE  SlotStep
<1>1. Reading /\ line.op = "insn" /\ pass = 1 /\ slot' = slot
  BY Zenon DEF ReserveInstruction, Handle
<1>2. PICK c, e : /\ EndLine(c, e, {})
                  /\ \/ e = 1
                     \/ AsmLen(line, structs) # -1 /\ c = Moved(here, AsmLen(line, structs))
  BY Zenon DEF ReserveInstruction
<1>3. Reads
  BY ReserveReads
<1>4. Advances /\ opts' = opts /\ warned \subseteq warned' /\ cur' = c
  BY Zenon, <1>2, <1>3, EndLineAdvances
<1>5. RoomLaid
  <2> SUFFICES ASSUME errors' = 0
               PROVE  Reserved(line, cur, cur')
    BY DEF RoomLaid
  <2>1. e # 1
    <3>1. errors' = errors + (PreludeErrors(line, cur) + e)
      BY Zenon, <1>2 DEF EndLine
    <3>2. PreludeErrors(line, cur) \in Nat /\ errors \in Nat
      BY TotalErrors, AtALine
    <3>3. QED
      BY ONLY <3>1, <3>2, errors' = 0
  <2>2. AsmLen(line, structs) # -1 /\ c = Moved(here, AsmLen(line, structs))
    BY <1>2, <2>1
  <2>3. cur'.loc = (cur.loc + AsmLen(line, structs)) % AddrMod
    BY <1>4, <2>2 DEF Moved, here, Entered, At
  <2>4. line.ins = "li" =>
          line.arg.ref = NoName /\ AsmLen(line, structs) = LiSize(line.arg.add)
    BY Zenon, <2>2 DEF AsmLen
  <2>5. line.ins \notin {"li", "la", "struct"} => AsmLen(line, structs) = 4
    <3>1. line.ins \notin {"unknown", "nojump"}
      BY Zenon, <2>2 DEF AsmLen
    <3>2. QED
      BY Zenon, <3>1 DEF AsmLen
  <2>6. QED
    BY <2>3, <2>4, <2>5 DEF Reserved
<1>6. pass # 2
  BY <1>1
<1>7. QED
  BY <1>1, <1>4, <1>5, <1>6 DEF SlotStep, SlotLine
-----------------------------------------------------------------------------
(* A line keeps what is known of the delay slots. *)
LEMMA SlotLineReserved ==
  ASSUME IInv, Reading, RoomReserved, SlotLine
  PROVE  RoomReserved'
<1>1. /\ Len(script) \in Nat /\ pc \in 1 .. Len(script)
      /\ Laid \in Nat /\ Laid' = IF pass = 1 THEN Laid + 1 ELSE Laid
      /\ pass = 1 => Laid + 1 = pc
      /\ \A i \in 1 .. Laid + 1 : layout'[i] = layout[i]
      /\ Layout' /\ Layout
  BY Zenon, AdvanceBasics DEF SlotLine, IInv
<1>2. /\ script' = script /\ pass' = pass /\ pc' = pc + 1
      /\ errors' >= errors /\ errors \in Nat
  BY Zenon, AtALine DEF SlotLine, Advances
<1> HIDE DEF Laid
<1> SUFFICES ASSUME errors' = 0, NEW j \in 1 .. Laid',
                    script[j].op = "insn"
             PROVE  Reserved(script[j], layout'[j], layout'[j + 1])
  BY <1>2 DEF RoomReserved
<1>3. errors = 0
  BY Zenon, <1>2, ZeroBelow
<1>4. CASE j \in 1 .. Laid
  <2>1. Reserved(script[j], layout[j], layout[j + 1])
    BY <1>3, <1>4 DEF RoomReserved
  <2>2. j \in 1 .. Laid + 1 /\ j + 1 \in 1 .. Laid + 1
    BY <1>1, <1>4
  <2>3. layout'[j] = layout[j] /\ layout'[j + 1] = layout[j + 1]
    BY <1>1, <2>2
  <2>4. QED
    BY <2>1, <2>3
<1>5. CASE j \notin 1 .. Laid
  <2>1. pass = 1 /\ j = pc /\ pc \in 1 .. Laid + 1 /\ pc' = j + 1
    BY <1>1, <1>2, <1>5
  <2>2. layout[pc] = cur /\ layout'[pc'] = cur'
    BY <1>1, <1>2, <2>1 DEF Layout
  <2>3. layout'[pc] = layout[pc]
    BY <1>1, <2>1
  <2>4. Reserved(line, cur, cur')
    BY <2>1 DEF SlotLine, RoomLaid, line
  <2>5. line = script[j]
    BY <2>1 DEF line
  <2>6. QED
    BY <2>1, <2>2, <2>3, <2>4, <2>5
<1>6. QED
  BY <1>4, <1>5

LEMMA SlotLineCounts ==
  ASSUME IInv, Reading, SlotCount, SlotLine
  PROVE  SlotCount'
<1>1. /\ pass \in {1, 2} /\ pass' = pass /\ errors' >= errors /\ errors \in Nat
  BY Zenon, AtALine DEF SlotLine, Advances
<1>2. pass = 1 => slot' = 0
  BY DEF SlotLine, SlotCount
<1>3. ASSUME errors' = 0 PROVE slot' \in {0, 1}
  <2>1. errors = 0
    BY Zenon, <1>1, <1>3, ZeroBelow
  <2>2. slot \in {0, 1}
    BY <2>1 DEF SlotCount
  <2>3. CASE pass = 1
    BY <1>2, <2>3
  <2>4. CASE pass = 2
    <3>1. Skips \/ Forgets \/ Takes
      BY <1>3, <2>4 DEF SlotLine
    <3>2. Skips => slot' = slot
      BY DEF Skips
    <3>3. Forgets => slot' = 0
      BY DEF Forgets
    <3>4. Takes => slot' \in {0, 1}
      BY DEF Takes
    <3>5. QED
      BY <2>2, <3>1, <3>2, <3>3, <3>4
  <2>5. QED
    BY <1>1, <2>3, <2>4
<1>4. QED
  BY <1>1, <1>2, <1>3 DEF SlotCount

LEMMA SlotLineFollows ==
  ASSUME SlotInv, Reading, SlotLine
  PROVE  SlotsFollowed'
<1>1. /\ script' = script /\ pass' = pass /\ pc' = pc + 1 /\ opts' = opts
      /\ errors' >= errors /\ errors \in Nat /\ warned \subseteq warned'
  BY Zenon, AtALine DEF SlotLine, Advances, SlotInv
<1>2. Len(script) \in Nat /\ pc \in 1 .. Len(script)
  BY AtALine DEF SlotInv
<1> SUFFICES ASSUME pass = 2, errors' = 0, opts.large, NEW i \in Transfers, i < pc + 1
             PROVE  SlotEnded(i)' \/ SlotWaits(i)'
  BY <1>1 DEF SlotsFollowed, Transfers
<1>3. errors = 0
  BY Zenon, <1>1, ZeroBelow
<1>4. layout' = layout
  BY DEF SlotLine, Advances
<1>5. Transfers' = Transfers /\ SlotEnds(i)' = SlotEnds(i)
  BY <1>1 DEF Transfers, SlotEnds
<1>6. i \in 1 .. Len(script) /\ SlotEnds(i) \subseteq i + 1 .. Len(script)
  BY DEF Transfers, SlotEnds
<1>7. Skips \/ Forgets \/ Takes
  BY DEF SlotLine
<1>8. CASE i = pc
  <2>1. line.op = "insn"
    BY <1>8 DEF Transfers, line
  <2>2. Takes
    BY <1>7, <2>1 DEF Skips, Forgets, Ending
  <2>3. slot' = 1
    BY <1>8, <2>2 DEF Takes
  <2>4. \A j \in SlotEnds(i) : j >= pc + 1
    BY <1>2, <1>6, <1>8
  <2>5. QED
    BY <1>1, <1>5, <2>3, <2>4 DEF SlotWaits
<1>9. CASE i # pc
  <2>1. i < pc
    BY <1>2, <1>6, <1>9
  <2>2. SlotEnded(i) \/ SlotWaits(i)
    BY <1>3, <2>1 DEF SlotInv, SlotsFollowed
  <2>3. CASE SlotEnded(i)
    <3>1. PICK j \in SlotEnds(i) : j < pc /\ EndedBy(i, j)
      BY <2>3 DEF SlotEnded
    <3>2. EndedBy(i, j)'
      BY <1>1, <1>4, <1>5, <3>1 DEF EndedBy
    <3>3. j < pc'
      BY <1>1, <1>2, <1>6, <3>1
    <3>4. QED
      BY <1>5, <3>1, <3>2, <3>3 DEF SlotEnded
  <2>4. CASE SlotWaits(i)
    <3>1. slot = 1 /\ \A j \in SlotEnds(i) : j >= pc
      BY <2>4 DEF SlotWaits
    <3>2. CASE Skips
      <4>1. pc \notin SlotEnds(i) /\ slot' = 1
        BY <3>1, <3>2 DEF Skips, SlotEnds, Ending, line
      <4>2. \A j \in SlotEnds(i) : j >= pc + 1
        BY <1>2, <1>6, <3>1, <4>1
      <4>3. QED
        BY <1>1, <1>5, <4>1, <4>2 DEF SlotWaits
    <3>3. CASE Forgets \/ Takes
      <4>0. PICK p : p = pc
        OBVIOUS
      <4>1. pc \in SlotEnds(i)
        <5>1. line.op \in Ending
          BY <3>3 DEF Forgets, Takes, Ending
        <5>2. pc \in i + 1 .. Len(script)
          BY <1>2, <1>6, <2>1
        <5>3. QED
          BY <5>1, <5>2 DEF SlotEnds, Ending, line
      <4>2. ASSUME Forgets
            PROVE  EndedBy(i, p)'
        <5>1. script[pc].op # "insn"
          BY <4>2 DEF Forgets, line
        <5>2. 4120 \in warned'
          BY <3>1, <4>2 DEF Forgets
        <5>3. QED
          BY <1>1, <1>5, <3>1, <4>0, <5>1, <5>2 DEF EndedBy
      <4>3. ASSUME Takes
            PROVE  EndedBy(i, p)'
        <5>1. pc \notin Transfers
          BY <3>1, <4>3 DEF Takes
        <5>2. script[pc].op = "insn"
          BY <4>3 DEF Takes, line
        <5>3. ASSUME script[pc].ins # "struct"
              PROVE  layout[pc + 1].loc = (layout[pc].loc + 4) % AddrMod
          <6>1. line.ins \notin {"la", "struct"}
            BY <3>1, <4>3, <5>3 DEF Takes, line
          <6>2. Laid = Len(script)
            BY DEF Laid
          <6>3. Reserved(line, layout[pc], layout[pc + 1])
            BY <1>2, <1>3, <5>2, <6>2 DEF SlotInv, RoomReserved, line
          <6>4. line.ins = "li" => LiSize(line.arg.add) = 4
            BY <3>1, <4>3, <6>3 DEF Takes, Reserved
          <6>5. QED
            BY <6>1, <6>3, <6>4 DEF Reserved
        <5>4. QED
          BY <1>1, <1>4, <1>5, <3>1, <4>0, <5>1, <5>2, <5>3 DEF EndedBy
      <4>4. EndedBy(i, p)' /\ p < pc'
        BY <1>1, <1>2, <3>3, <4>0, <4>2, <4>3
      <4>5. QED
        BY <1>5, <4>0, <4>1, <4>4 DEF SlotEnded
    <3>4. QED
      BY <1>7, <3>2, <3>3
  <2>5. QED
    BY <2>2, <2>3, <2>4
<1>10. QED
  BY <1>8, <1>9

LEMMA SlotFrame ==
  ASSUME script' = script, pass' = pass, pc' = pc, layout' = layout, errors' = errors,
         opts' = opts, slot' = slot, warned' = warned, RoomReserved, SlotCount, SlotsFollowed
  PROVE  RoomReserved' /\ SlotCount' /\ SlotsFollowed'
<1>1. Laid' = Laid
  BY Zenon DEF Laid
<1>2. RoomReserved'
  BY Zenon, <1>1 DEF RoomReserved
<1>3. SlotCount'
  BY Zenon DEF SlotCount
<1>4. Transfers' = Transfers
  BY DEF Transfers
<1>5. \A i : SlotEnds(i)' = SlotEnds(i)
  BY DEF SlotEnds
<1>6. \A i, j : EndedBy(i, j)' <=> EndedBy(i, j)
  BY <1>4, <1>5 DEF EndedBy
<1>7. \A i : (SlotEnded(i)' <=> SlotEnded(i)) /\ (SlotWaits(i)' <=> SlotWaits(i))
  BY Zenon, <1>5, <1>6 DEF SlotEnded, SlotWaits
<1>8. SlotsFollowed'
  BY Zenon, <1>4, <1>7 DEF SlotsFollowed
<1>9. QED
  BY <1>2, <1>3, <1>8

LEMMA SlotStepKeeps ==
  ASSUME SlotInv, Reading, SlotStep
  PROVE  SlotInv'
<1>1. CASE SlotLine
  <2>1. IInv'
    BY Zenon, <1>1, AdvancePreserves DEF SlotLine, SlotInv
  <2>2. RoomReserved' /\ SlotCount' /\ SlotsFollowed'
    BY Zenon, <1>1, SlotLineReserved, SlotLineCounts, SlotLineFollows DEF SlotInv
  <2>3. SlotDiscipline'
    BY Zenon, <1>1 DEF SlotLine, Advances, SlotDiscipline
  <2>4. QED
    BY Zenon, <2>1, <2>2, <2>3 DEF SlotInv
<1>2. CASE SlotGivesUp
  <2>1. IInv'
    BY Zenon, <1>2, GivesUpPreserves DEF SlotGivesUp, SlotInv
  <2>2. /\ script' = script /\ pass' = pass /\ pc' = pc /\ layout' = layout
        /\ errors' = errors /\ opts' = opts /\ slot' = slot /\ warned' = warned
        /\ status' \notin {"running", "done"}
    BY <1>2 DEF SlotGivesUp, Gives_up
  <2>3. RoomReserved' /\ SlotCount' /\ SlotsFollowed'
    BY <2>2, SlotFrame DEF SlotInv
  <2>4. SlotDiscipline'
    BY <2>2 DEF SlotDiscipline
  <2>5. QED
    BY <2>1, <2>3, <2>4 DEF SlotInv
<1>3. QED
  BY <1>1, <1>2 DEF SlotStep

LEMMA FinishSlot ==
  ASSUME SlotInv, Finish
  PROVE  SlotInv'
<1>1. IInv'
  BY Zenon, FinishPreserves DEF SlotInv
<1>2. /\ script' = script /\ pass' = pass /\ pc' = pc /\ layout' = layout
      /\ errors' = errors /\ opts' = opts /\ slot' = slot
      /\ warned' = IF slot > 0 THEN warned \cup {4121} ELSE warned
      /\ status' = IF errors = 0 THEN "done" ELSE "failed"
      /\ pass = 2 /\ pc = Len(script) + 1
  BY Zenon DEF Finish, inputs, reading
<1>3. Len(script) \in Nat
  BY AtALine DEF SlotInv
<1>4. Laid' = Laid
  BY Zenon, <1>2 DEF Laid
<1>5. RoomReserved' /\ SlotCount'
  BY Zenon, <1>2, <1>4 DEF SlotInv, RoomReserved, SlotCount
<1>6. Transfers' = Transfers /\ \A i : SlotEnds(i)' = SlotEnds(i)
  BY <1>2 DEF Transfers, SlotEnds
<1>7. \A i, j : EndedBy(i, j) => EndedBy(i, j)'
  <2>1. warned \subseteq warned'
    BY <1>2
  <2>2. QED
    BY <1>2, <1>6, <2>1 DEF EndedBy
<1>8. SlotsFollowed'
  <2>1. \A i : SlotEnded(i) => SlotEnded(i)'
    BY Zenon, <1>2, <1>6, <1>7 DEF SlotEnded
  <2>2. \A i : SlotWaits(i) => SlotWaits(i)'
    BY Zenon, <1>2, <1>6 DEF SlotWaits
  <2>3. QED
    BY Zenon, <1>2, <1>6, <2>1, <2>2 DEF SlotsFollowed, SlotInv
<1>9. SlotDiscipline'
  <2> SUFFICES ASSUME errors = 0, opts.large, NEW i \in Transfers
               PROVE  \/ SlotEnds(i) = {} /\ 4121 \in warned'
                      \/ \E j \in SlotEnds(i) : EndedBy(i, j)'
    <3>1. status' = "done" => errors = 0
      BY <1>2
    <3>2. QED
      BY <1>2, <1>6, <3>1 DEF SlotDiscipline, EndedBy
  <2>1. i \in 1 .. Len(script) /\ SlotEnds(i) \subseteq i + 1 .. Len(script)
    BY DEF Transfers, SlotEnds
  <2>2. SlotEnded(i) \/ SlotWaits(i)
    BY <1>2, <1>3, <2>1 DEF SlotInv, SlotsFollowed
  <2>3. CASE SlotEnded(i)
    BY <1>7, <2>3 DEF SlotEnded
  <2>4. CASE SlotWaits(i)
    <3>1. slot = 1 /\ \A j \in SlotEnds(i) : j >= Len(script) + 1
      BY <1>2, <2>4 DEF SlotWaits
    <3>2. SlotEnds(i) = {}
      BY <1>3, <2>1, <3>1
    <3>3. 4121 \in warned'
      BY <1>2, <3>1
    <3>4. QED
      BY <3>2, <3>3
  <2>5. QED
    BY <2>2, <2>3, <2>4
<1>10. QED
  BY <1>1, <1>5, <1>8, <1>9 DEF SlotInv

LEMMA SecondPassSlot ==
  ASSUME SlotInv, StartPass2
  PROVE  SlotInv'
<1>1. IInv'
  BY Zenon, SecondPassStarts DEF SlotInv
<1>2. /\ script' = script /\ pass = 1 /\ pass' = 2 /\ layout' = layout /\ errors' = errors
      /\ slot' = slot /\ status = "running" /\ status' = status
      /\ pc = Len(script) + 1 /\ pc' = 1
  BY DEF StartPass2, inputs, naming, result
<1>3. Len(script) \in Nat
  BY AtALine DEF SlotInv
<1>4. Laid' = Laid
  BY <1>2, <1>3 DEF Laid
<1>5. RoomReserved'
  BY Zenon, <1>2, <1>4 DEF SlotInv, RoomReserved
<1>6. SlotCount'
  BY <1>2 DEF SlotInv, SlotCount
<1>7. SlotsFollowed'
  <2>1. \A i \in Transfers' : i \in 1 .. Len(script')
    BY DEF Transfers
  <2>2. \A i \in Transfers' : ~ (i < pc')
    BY <1>2, <1>3, <2>1
  <2>3. QED
    BY <2>2 DEF SlotsFollowed
<1>8. SlotDiscipline'
  BY <1>2 DEF SlotDiscipline
<1>9. QED
  BY <1>1, <1>5, <1>6, <1>7, <1>8 DEF SlotInv

LEMMA SlotStutters ==
  ASSUME SlotInv, UNCHANGED vars
  PROVE  SlotInv'
<1>1. IInv'
  BY Zenon, StutterPreserves DEF SlotInv
<1>2. /\ script' = script /\ pass' = pass /\ pc' = pc /\ layout' = layout
      /\ errors' = errors /\ opts' = opts /\ slot' = slot /\ warned' = warned
      /\ status' = status
  BY DEF vars, inputs, reading, result
<1>3. RoomReserved' /\ SlotCount' /\ SlotsFollowed'
  BY <1>2, SlotFrame DEF SlotInv
<1>4. Transfers' = Transfers /\ \A i : SlotEnds(i)' = SlotEnds(i)
  BY <1>2 DEF Transfers, SlotEnds
<1>5. SlotDiscipline'
  BY <1>2, <1>4 DEF SlotInv, SlotDiscipline
<1>6. QED
  BY <1>1, <1>3, <1>5 DEF SlotInv

LEMMA InitSlot == Init => SlotInv
<1> SUFFICES ASSUME Init PROVE SlotInv
  OBVIOUS
<1>1. pass = 1 /\ pc = 1 /\ slot = 0 /\ status = "running"
  BY DEF Init
<1>2. IInv
  BY InitHolds
<1>3. RoomReserved
  BY <1>1 DEF RoomReserved, Laid
<1>4. SlotCount /\ SlotsFollowed /\ SlotDiscipline
  BY <1>1 DEF SlotCount, SlotsFollowed, SlotDiscipline
<1>5. QED
  BY <1>2, <1>3, <1>4 DEF SlotInv

LEMMA NextSlot == SlotInv /\ [Next]_vars => SlotInv'
<1> SUFFICES ASSUME SlotInv, [Next]_vars PROVE SlotInv'
  OBVIOUS
<1>0. IInv
  BY DEF SlotInv
<1>1. CASE ReadBlank
  BY Zenon, <1>0, <1>1, BlankSlot, SlotStepKeeps DEF ReadBlank
<1>2. CASE StopInPrelude \/ ReadQword \/ RefuseInstruction
  <2>1. Reading /\ Abort("stopped", image)
    BY Zenon, <1>2 DEF StopInPrelude, ReadQword, RefuseInstruction, Handle
  <2>2. QED
    BY Zenon, <2>1, AbortSlot, SlotStepKeeps
<1>3. CASE \/ ReadNothing \/ ReadUnknownDirective \/ ReadData \/ ReadSpace \/ ReadText
           \/ ReadGalign \/ ReadStruct \/ ReadOffset \/ ReadPushLoc
  <2>1. Reading
    BY Zenon, <1>3 DEF ReadNothing, ReadUnknownDirective, ReadData, ReadSpace, ReadText,
                       ReadGalign, ReadStruct, ReadOffset, ReadPushLoc, Handle
  <2>2. QED
    BY Zenon, <1>0, <1>3, <2>1, DirectiveSlot, SlotStepKeeps
<1>4. CASE ReadAlign \/ ReadLocation \/ ReadPopLoc
  <2>1. Reading
    BY Zenon, <1>4 DEF ReadAlign, ReadLocation, ReadPopLoc, Handle
  <2>2. QED
    BY Zenon, <1>0, <1>4, <2>1, MovingSlot, SlotStepKeeps
<1>5. CASE ReadTextWithoutQuote
  <2>1. PICK how \in {"stopped", "crashed"} : Reading /\ Abort(how, image)
    BY Zenon, <1>5 DEF ReadTextWithoutQuote, Handle
  <2>2. QED
    BY Zenon, <2>1, AbortSlot, SlotStepKeeps
<1>6. CASE ReserveInstruction \/ EmitInstruction
  <2>1. Reading
    BY Zenon, <1>6 DEF ReserveInstruction, EmitInstruction, Handle
  <2>2. QED
    BY Zenon, <1>0, <1>6, <2>1, ReserveSlot, EmitInstructionSlot, SlotStepKeeps
<1>6a. CASE CrashInExchange
  <2>1. PICK img : Reading /\ Abort("crashed", img)
    BY Zenon, <1>6a DEF CrashInExchange, Handle
  <2>2. QED
    BY Zenon, <2>1, AbortSlot, SlotStepKeeps
<1>7. CASE StartPass2 \/ Finish
  BY Zenon, <1>7, SecondPassSlot, FinishSlot
<1>8. CASE Stopped \/ UNCHANGED vars
  BY Zenon, <1>8, SlotStutters DEF Stopped
<1>9. QED
  BY Zenon, <1>1, <1>2, <1>3, <1>4, <1>5, <1>6, <1>6a, <1>7, <1>8 DEF Next

(* In a script that assembles, the first line after each branch and jump   *)
(* that counts its delay slot down is no branch or jump itself, and, but   *)
(* for an instance of a structure, pass 1 has reserved one word for it; or *)
(* a warning was given.                                                    *)
THEOREM SlotsAreFilled == Spec => []SlotDiscipline
<1>1. SlotInv => SlotDiscipline
  BY DEF SlotInv
<1>2. QED
  BY InitSlot, NextSlot, <1>1, PTL DEF Spec
-----------------------------------------------------------------------------
(* The output file.  It is as long as the sink thinks, or longer where the *)
(* disk got full, and a block the assembler writes is no longer than half  *)
(* the address range, so that its end does not wrap around.                *)
SinkOK(img) ==
  img \in ImageSet /\ img.size <= Len(img.file) /\ Len(img.file) <= DiskMax

Block == {b \in Seq(CodeByte) : Len(b) > 0 /\ 2 * Len(b) <= AddrMod}

(* The bytes of data's span and no others are data's. *)
WrittenAs(img, off, data, r) ==
  /\ SinkOK(r.img) /\ r.rc \in {0, -1, -2}
  /\ Len(img.file) <= Len(r.img.file)
  /\ r.rc = 0 =>
       /\ off + Len(data) <= Len(r.img.file)
       /\ \A i \in 1 .. Len(r.img.file) :
            r.img.file[i] = IF i \in off + 1 .. off + Len(data) THEN data[i - off]
                            ELSE IF i <= Len(img.file) THEN img.file[i] ELSE ZeroByte

LEMMA ZeroIsByte == ZeroByte \in CodeByte
  BY DEF ZeroByte, CodeByte, InputWord, Word, Ops

LEMMA SinkFacts ==
  ASSUME NEW img, SinkOK(img)
  PROVE  /\ img.file \in Seq(CodeByte) /\ Len(img.file) \in Nat /\ img.size \in Nat
         /\ img = [file |-> img.file, size |-> img.size]
         /\ img.size <= Len(img.file) /\ Len(img.file) <= DiskMax /\ DiskMax \in Nat
  BY LenProperties, AssemblerAssumption DEF SinkOK, ImageSet

LEMMA SinkMade ==
  ASSUME NEW f \in Seq(CodeByte), NEW n \in Nat, n <= Len(f), Len(f) <= DiskMax
  PROVE  SinkOK([file |-> f, size |-> n])
  BY DEF SinkOK, ImageSet

LEMMA OverlayBytes ==
  ASSUME NEW f \in Seq(CodeByte), NEW data \in Seq(CodeByte), NEW off \in 0 .. Len(f)
  PROVE  LET n == IF Len(f) >= off + Len(data) THEN Len(f) ELSE off + Len(data)
         IN  /\ Overlay(f, off, data) \in Seq(CodeByte)
             /\ Len(Overlay(f, off, data)) = n
             /\ \A i \in 1 .. n :
                  Overlay(f, off, data)[i] =
                    IF i \in off + 1 .. off + Len(data) THEN data[i - off] ELSE f[i]
<1> DEFINE t == SubSeq(f, 1, off) \o data \o SubSeq(f, off + Len(data) + 1, Len(f))
           n == IF Len(f) >= off + Len(data) THEN Len(f) ELSE off + Len(data)
<1>1. /\ t \in Seq(CodeByte) /\ Len(t) = n
      /\ \A i \in 1 .. n :
           t[i] = IF i \in off + 1 .. off + Len(data) THEN data[i - off] ELSE f[i]
  BY Zenon, Overwritten
<1>2. Overlay(f, off, data) = t
  BY DEF Overlay
<1> HIDE DEF t
<1>3. QED
  BY Zenon, <1>1, <1>2

LEMMA ExtendEffect ==
  ASSUME NEW img, SinkOK(img), NEW off \in Offset
  PROVE  LET ext == ImageExtendToOffset(img, off)
         IN  /\ SinkOK(ext.img)
             /\ Len(img.file) <= Len(ext.img.file)
             /\ \A i \in 1 .. Len(ext.img.file) :
                  ext.img.file[i] = IF i <= Len(img.file) THEN img.file[i] ELSE ZeroByte
             /\ ext.rc \in {0, -1}
             /\ ext.rc = 0 => off <= ext.img.size
<1> DEFINE ext == ImageExtendToOffset(img, off)
           f   == img.file
<1>1. /\ f \in Seq(CodeByte) /\ Len(f) \in Nat /\ img.size \in Nat
      /\ img.size <= Len(f) /\ Len(f) <= DiskMax /\ DiskMax \in Nat /\ off \in Nat
  BY SinkFacts DEF Offset
<1>2. CASE off <= img.size
  <2>1. ext = [rc |-> 0, img |-> img]
    BY <1>2 DEF ImageExtendToOffset
  <2>2. QED
    BY <1>1, <1>2, <2>1
<1>3. ASSUME NEW upto \in Nat, upto <= DiskMax
      PROVE  LET g == ZeroFill(f, upto)
             IN  /\ g \in Seq(CodeByte) /\ Len(g) \in Nat
                 /\ Len(g) >= Len(f) /\ Len(g) >= upto /\ Len(g) <= DiskMax
                 /\ \A i \in 1 .. Len(g) : g[i] = IF i <= Len(f) THEN f[i] ELSE ZeroByte
  <2> DEFINE n == Larger(0, upto - Len(f))
             g == f \o [i \in 1 .. n |-> ZeroByte]
  <2>1. n \in Nat /\ Len(f) + n >= upto /\ Len(f) + n <= DiskMax
    <3> DEFINE k == Len(f)
    <3>1. k \in Nat /\ k <= DiskMax /\ DiskMax \in Nat
      BY <1>1
    <3> HIDE DEF k
    <3>2. Larger(0, upto - k) = IF 0 >= upto - k THEN 0 ELSE upto - k
      BY DEF Larger
    <3>3. QED
      BY <1>3, <3>1, <3>2 DEF k
  <2> HIDE DEF n
  <2>2. /\ g \in Seq(CodeByte) /\ Len(g) = Len(f) + n
        /\ \A i \in 1 .. Len(f) + n : g[i] = IF i <= Len(f) THEN f[i] ELSE ZeroByte
    BY <1>1, <2>1, ZeroIsByte, Continued
  <2>3. ZeroFill(f, upto) = g
    BY DEF ZeroFill, n
  <2> HIDE DEF g, f
  <2>4. QED
    BY <1>1, <2>1, <2>2, <2>3
<1>4. CASE ~ (off <= img.size)
  <2> DEFINE upto == IF off > DiskMax THEN DiskMax ELSE off
             g    == ZeroFill(f, upto)
             size == IF off > DiskMax THEN img.size ELSE off
             rc   == IF off > DiskMax THEN -1 ELSE 0
  <2>1. ext = [rc |-> rc, img |-> [file |-> g, size |-> size]]
    BY <1>4 DEF ImageExtendToOffset
  <2>2. upto \in Nat /\ upto <= DiskMax
    BY <1>1
  <2> HIDE DEF upto
  <2>3. /\ g \in Seq(CodeByte) /\ Len(g) \in Nat
        /\ Len(g) >= Len(f) /\ Len(g) >= upto /\ Len(g) <= DiskMax
        /\ \A i \in 1 .. Len(g) : g[i] = IF i <= Len(f) THEN f[i] ELSE ZeroByte
    BY <1>3, <2>2
  <2> HIDE DEF g, f, ext
  <2>4. size \in Nat /\ size <= Len(g) /\ rc \in {0, -1} /\ (rc = 0 => off <= size)
    BY <1>1, <2>3 DEF upto
  <2> HIDE DEF size, rc
  <2>5. SinkOK([file |-> g, size |-> size])
    BY <2>3, <2>4, SinkMade
  <2>6. QED
    BY <2>1, <2>3, <2>4, <2>5 DEF ext, f
<1>5. QED
  BY <1>2, <1>4

(* Only a seekable offset gets as far as the file, and there the end of a  *)
(* block has not wrapped around.                                           *)
LEMMA NoWrap ==
  ASSUME NEW off \in Offset, NEW n \in Nat, 2 * n <= AddrMod, Seekable(off)
  PROVE  (off + n) % AddrMod = off + n
<1> DEFINE e == off + n
<1>1. AddrMod \in Nat \ {0} /\ e \in 0 .. AddrMod - 1
  BY AssemblerAssumption DEF Offset, Seekable
<1> HIDE DEF e
<1>2. e % AddrMod = e
  BY <1>1
<1>3. QED
  BY <1>2 DEF e

LEMMA FittingBlock ==
  ASSUME NEW data \in Seq(CodeByte), NEW off \in 0 .. DiskMax, off + Len(data) > DiskMax
  PROVE  Fitting(data, off) \in Seq(CodeByte) /\ Len(Fitting(data, off)) = DiskMax - off
<1> DEFINE n == Larger(0, DiskMax - off)
<1>1. n = DiskMax - off /\ n \in 0 .. Len(data)
  BY LenProperties, AssemblerAssumption DEF Larger
<1>2. Fitting(data, off) = SubSeq(data, 1, n)
  BY DEF Fitting
<1> HIDE DEF n
<1>3. QED
  BY <1>1, <1>2, Beginning

LEMMA WriteEffect ==
  ASSUME NEW img, SinkOK(img), NEW off \in Offset, NEW data \in Block, NEW allow
  PROVE  WrittenAs(img, off, data, ImageWriteBytes(img, off, data, allow))
<1> DEFINE r    == ImageWriteBytes(img, off, data, allow)
           d    == Len(data)
           end  == (off + d) % AddrMod
           past == PastEnd(img, off, d)
           ext  == IF past THEN ImageExtendToOffset(img, off) ELSE [rc |-> 0, img |-> img]
           f    == ext.img.file
           s    == ext.img.size
           n    == Len(img.file)
<1>1. /\ n \in Nat /\ off \in Nat /\ DiskMax \in Nat /\ n <= DiskMax
      /\ data \in Seq(CodeByte) /\ d \in Nat \ {0} /\ 2 * d <= AddrMod
      /\ img.size <= n /\ img.size \in Nat
  BY SinkFacts, LenProperties DEF Block, Offset
<1>2. /\ SinkOK(ext.img) /\ n <= Len(f) /\ ext.rc \in {0, -1}
      /\ \A i \in 1 .. Len(f) : f[i] = IF i <= n THEN img.file[i] ELSE ZeroByte
      /\ ext.rc = 0 /\ past => off <= s
      /\ ~past => ext.img = img
  <2>1. CASE past
    BY <2>1, ExtendEffect
  <2>2. CASE ~past
    BY <1>1, <2>2
  <2>3. QED
    BY <2>1, <2>2
<1>3. f \in Seq(CodeByte) /\ s \in Nat /\ Len(f) \in Nat /\ s <= Len(f) /\ Len(f) <= DiskMax
  BY <1>2, SinkFacts
<1>4. r = IF past /\ ~allow THEN [rc |-> -2, img |-> img]
          ELSE IF ext.rc # 0 \/ ~Seekable(off) THEN [rc |-> -1, img |-> ext.img]
          ELSE IF off + d > DiskMax
          THEN [rc |-> -1, img |-> [file |-> Overlay(f, off, Fitting(data, off)), size |-> s]]
          ELSE [rc |-> 0, img |-> [file |-> Overlay(f, off, data),
                                   size |-> SizeAfter(ext.img, end)]]
  BY Zenon DEF ImageWriteBytes
<1>5. end = off + d \/ ~Seekable(off)
  BY <1>1, NoWrap
<1>6. ~past => end <= img.size
  BY <1>1, AssemblerAssumption DEF PastEnd
<1> HIDE DEF r, ext, past, end
<1>7. CASE past /\ ~allow
  <2>1. r = [rc |-> -2, img |-> img]
    BY <1>4, <1>7
  <2>2. QED
    BY <1>1, <2>1 DEF WrittenAs, r
<1>8. CASE ~(past /\ ~allow) /\ (ext.rc # 0 \/ ~Seekable(off))
  <2>1. r = [rc |-> -1, img |-> ext.img]
    BY <1>4, <1>8
  <2>2. QED
    BY <1>2, <2>1 DEF WrittenAs, r
<1>9. CASE ~(past /\ ~allow) /\ ext.rc = 0 /\ Seekable(off)
  <2>1. off \in 0 .. Len(f)
    <3>1. CASE past
      BY <1>1, <1>2, <1>3, <1>9, <3>1
    <3>2. CASE ~past
      BY <1>1, <1>2, <1>5, <1>6, <1>9, <3>2
    <3>3. QED
      BY <3>1, <3>2
  <2> HIDE DEF f, s, n, d
  <2>2. CASE off + d > DiskMax
    <3> DEFINE part == Fitting(data, off)
               g == Overlay(f, off, part)
    <3>1. part \in Seq(CodeByte) /\ Len(part) = DiskMax - off
      BY <1>1, <1>3, <2>1, <2>2, FittingBlock DEF d
    <3>2. r = [rc |-> -1, img |-> [file |-> g, size |-> s]]
      BY <1>4, <1>9, <2>2
    <3> HIDE DEF part
    <3>3. /\ g \in Seq(CodeByte)
          /\ Len(g) = IF Len(f) >= off + Len(part) THEN Len(f) ELSE off + Len(part)
      BY <1>3, <2>1, <3>1, OverlayBytes
    <3>4. Len(g) = DiskMax
      BY <1>1, <1>3, <2>1, <3>1, <3>3
    <3> HIDE DEF g
    <3>5. SinkOK([file |-> g, size |-> s])
      BY <1>1, <1>3, <3>3, <3>4, SinkMade
    <3>6. QED
      BY <1>1, <3>2, <3>4, <3>5 DEF WrittenAs, r, n
  <2>3. CASE ~(off + d > DiskMax)
    <3> DEFINE g == Overlay(f, off, data)
               m == SizeAfter(ext.img, end)
               top == IF Len(f) >= off + d THEN Len(f) ELSE off + d
    <3>1. /\ g \in Seq(CodeByte) /\ Len(g) = top
          /\ \A i \in 1 .. top :
               g[i] = IF i \in off + 1 .. off + d THEN data[i - off] ELSE f[i]
      BY <1>1, <1>3, <2>1, OverlayBytes DEF d
    <3>2. r = [rc |-> 0, img |-> [file |-> g, size |-> m]]
      BY <1>4, <1>9, <2>3
    <3>3. m = IF s >= off + d THEN s ELSE off + d
      BY <1>5, <1>9 DEF SizeAfter, Larger, s
    <3> HIDE DEF g, m
    <3>4. /\ m \in Nat /\ m <= Len(g) /\ Len(g) <= DiskMax /\ Len(g) \in Nat
          /\ off + d <= Len(g) /\ Len(f) <= Len(g)
      BY <1>1, <1>3, <2>3, <3>1, <3>3
    <3>5. SinkOK([file |-> g, size |-> m])
      BY <3>1, <3>4, SinkMade
    <3>6. ASSUME NEW i \in 1 .. Len(g)
          PROVE  g[i] = IF i \in off + 1 .. off + d THEN data[i - off]
                        ELSE IF i <= n THEN img.file[i] ELSE ZeroByte
      <4>1. g[i] = IF i \in off + 1 .. off + d THEN data[i - off] ELSE f[i]
        BY <3>1
      <4>2. i \notin off + 1 .. off + d => i \in 1 .. Len(f)
        BY <1>1, <1>3, <2>1, <3>1
      <4>3. i \in 1 .. Len(f) => f[i] = IF i <= n THEN img.file[i] ELSE ZeroByte
        BY <1>2 DEF f, n
      <4>4. QED
        BY <4>1, <4>2, <4>3
    <3>7. n <= Len(g)
      BY <1>1, <1>2, <1>3, <3>4 DEF f, n
    <3>8. QED
      BY <3>2, <3>4, <3>5, <3>6, <3>7 DEF WrittenAs, r, n, d
  <2>4. QED
    BY <2>2, <2>3
<1>10. QED
  BY <1>2, <1>7, <1>8, <1>9
-----------------------------------------------------------------------------
(* The function Offsets is defined by, on the first n fields. *)
IsEnds(e, fields, n) ==
  e = [i \in 0 .. n |-> IF i = 0 THEN 0 ELSE e[i - 1] + fields[i].size]

LEMMA EndsStep ==
  ASSUME NEW e, NEW fields, NEW n \in Nat, IsEnds(e, fields, n), NEW i \in 0 .. n
  PROVE  e[i] = IF i = 0 THEN 0 ELSE e[i - 1] + fields[i].size
<1> DEFINE v(j) == IF j = 0 THEN 0 ELSE e[j - 1] + fields[j].size
<1>1. e = [j \in 0 .. n |-> v(j)]
  BY DEF IsEnds
<1> HIDE DEF v
<1>2. e[i] = v(i)
  BY <1>1
<1>3. QED
  BY <1>2 DEF v

LEMMA EndsExist ==
  ASSUME NEW fields
  PROVE  \A n \in Nat : \E e : IsEnds(e, fields, n)
<1> DEFINE S == {n \in Nat : \E e : IsEnds(e, fields, n)}
<1>1. 0 \in S
  <2>1. IsEnds([i \in 0 .. 0 |-> 0], fields, 0)
    BY DEF IsEnds
  <2>2. QED
    BY <2>1
<1>2. ASSUME NEW n \in Nat, n \in S
      PROVE  n + 1 \in S
  <2>1. PICK e : IsEnds(e, fields, n)
    BY <1>2
  <2> DEFINE d == [i \in 0 .. n + 1 |-> IF i <= n THEN e[i] ELSE e[n] + fields[n + 1].size]
  <2>2. \A i \in 0 .. n : e[i] = IF i = 0 THEN 0 ELSE e[i - 1] + fields[i].size
    BY <2>1, EndsStep
  <2>3. \A i \in 0 .. n + 1 : d[i] = IF i = 0 THEN 0 ELSE d[i - 1] + fields[i].size
    <3> TAKE i \in 0 .. n + 1
    <3>1. CASE i = 0
      BY <2>2, <3>1
    <3>2. CASE i \in 1 .. n
      <4>1. d[i] = e[i] /\ d[i - 1] = e[i - 1] /\ i # 0
        BY <3>2
      <4>2. e[i] = e[i - 1] + fields[i].size
        BY <2>2, <3>2
      <4> HIDE DEF d
      <4>3. QED
        BY <4>1, <4>2
    <3>3. CASE i = n + 1
      <4>1. d[i] = e[n] + fields[n + 1].size /\ d[i - 1] = e[n] /\ i # 0
        BY <3>3
      <4> HIDE DEF d
      <4>2. QED
        BY <3>3, <4>1
    <3>4. QED
      BY <3>1, <3>2, <3>3
  <2>4. IsEnds(d, fields, n + 1)
    <3>1. d = [i \in 0 .. n + 1 |-> d[i]]
      OBVIOUS
    <3> HIDE DEF d
    <3>2. QED
      BY Zenon, <2>3, <3>1 DEF IsEnds
  <2>5. QED
    BY <2>4
<1>3. Nat \subseteq S
  BY <1>1, <1>2, Induction
<1>4. QED
  BY <1>3

FieldSeq == Seq([name : NameSet, size : Nat])

(* The fields of a structure lie one behind the other. *)
LEMMA OffsetsStep ==
  ASSUME NEW fields \in FieldSeq, NEW i \in 0 .. Len(fields)
  PROVE  Offsets(fields)[i] = IF i = 0 THEN 0 ELSE Offsets(fields)[i - 1] + fields[i].size
<1>1. Len(fields) \in Nat
  BY LenProperties DEF FieldSeq
<1> DEFINE e == CHOOSE d : IsEnds(d, fields, Len(fields))
<1>2. Offsets(fields) = e
  BY Zenon DEF Offsets, IsEnds
<1>3. IsEnds(e, fields, Len(fields))
  BY <1>1, EndsExist
<1> HIDE DEF e
<1>4. QED
  BY <1>1, <1>2, <1>3, EndsStep

LEMMA OffsetsGrow ==
  ASSUME NEW fields \in FieldSeq
  PROVE  /\ \A i \in 0 .. Len(fields) : Offsets(fields)[i] \in Nat
         /\ \A j \in 0 .. Len(fields) : \A i \in 0 .. j :
              Offsets(fields)[i] <= Offsets(fields)[j]
<1> DEFINE e == Offsets(fields)
           n == Len(fields)
           S == {j \in Nat : j <= n => \A i \in 0 .. j : e[i] \in Nat /\ e[i] <= e[j]}
<1>1. n \in Nat /\ \A i \in 1 .. n : fields[i].size \in Nat
  <2>1. n \in Nat /\ \A i \in 1 .. n : fields[i] \in [name : NameSet, size : Nat]
    BY LenProperties, ElementOfSeq DEF FieldSeq
  <2>2. QED
    BY <2>1
<1>2. \A i \in 0 .. n : e[i] = IF i = 0 THEN 0 ELSE e[i - 1] + fields[i].size
  BY OffsetsStep
<1> HIDE DEF e, n
<1>3. 0 \in S
  BY <1>1, <1>2
<1>4. ASSUME NEW j \in Nat, j \in S
      PROVE  j + 1 \in S
  <2> SUFFICES ASSUME j + 1 <= n
               PROVE  \A i \in 0 .. j + 1 : e[i] \in Nat /\ e[i] <= e[j + 1]
    OBVIOUS
  <2>1. e[j] \in Nat /\ \A i \in 0 .. j : e[i] \in Nat /\ e[i] <= e[j]
    BY <1>1, <1>4
  <2>2. j + 1 \in 1 .. n /\ j + 1 # 0 /\ j + 1 \in 0 .. n
    BY <1>1
  <2>3. e[j + 1] = e[j] + fields[j + 1].size /\ fields[j + 1].size \in Nat
    <3>1. j + 1 - 1 = j
      OBVIOUS
    <3>2. QED
      BY <1>1, <1>2, <2>2, <3>1
  <2>4. \A i \in 0 .. j + 1 : i \in 0 .. j \/ i = j + 1
    OBVIOUS
  <2>5. e[j + 1] \in Nat /\ e[j] <= e[j + 1]
    BY <2>1, <2>3
  <2>6. QED
    BY <2>1, <2>3, <2>4, <2>5
<1>5. Nat \subseteq S
  BY <1>3, <1>4, Induction
<1>6. QED
  BY <1>1, <1>5 DEF e, n
-----------------------------------------------------------------------------
(* What expressions evaluate to, from names whose values are known. *)
StructuresOK(str) == \A s \in DOMAIN str : str[s] \in Structure

EnvOK(env) ==
  /\ env.loc \in Offset /\ env.vma \in Offset
  /\ \A n \in DOMAIN env.labels : env.labels[n] \in Offset
  /\ StructuresOK(env.structs)

LEMMA LowestIn ==
  ASSUME NEW S, S \subseteq Nat, S # {}
  PROVE  Lowest(S) \in S
<1>1. \E i \in S : \A j \in S : i <= j
  BY Least
<1>2. QED
  BY <1>1 DEF Lowest

LEMMA ValueIsInt ==
  ASSUME NEW env, EnvOK(env), NEW e \in ExprSet, Evaluates(e, env)
  PROVE  ExprValue(e, env) \in Int
<1>1. e.add \in Int /\ e.ref \in NameSet
  BY DEF ExprSet
<1>2. CASE e.ref = NoName
  BY <1>1, <1>2 DEF ExprValue
<1>3. CASE e.ref # NoName
  <2> DEFINE name == e.ref
             full == Compose(name, env.scope)
  <2>1. Known(name, env)
    BY <1>3 DEF Evaluates
  <2>2. LabelValue(name, env) \in Int
    <3>1. Offset \subseteq Int
      BY DEF Offset
    <3>2. CASE name \in {LOC, VMA} \/ full \in DOMAIN env.labels
      BY <3>1, <3>2 DEF LabelValue, EnvOK
    <3>3. CASE name \notin {LOC, VMA} /\ full \notin DOMAIN env.labels
      <4> DEFINE named  == FieldsNamed(name, env.structs)
                 fields == env.structs[name[1]]
      <4>1. named # {}
        BY <2>1, <3>3 DEF Known
      <4>2. name[1] \in DOMAIN env.structs /\ named \subseteq DOMAIN fields
        BY <4>1 DEF FieldsNamed
      <4>3. fields \in FieldSeq
        BY <4>2 DEF EnvOK, StructuresOK, Structure, FieldSeq
      <4>4. DOMAIN fields = 1 .. Len(fields) /\ Len(fields) \in Nat
        BY <4>3, LenProperties DEF FieldSeq
      <4>5. LabelValue(name, env) = Offsets(fields)[Lowest(named) - 1]
        BY <3>3 DEF LabelValue, FieldOffset
      <4> HIDE DEF named, fields
      <4>6. Lowest(named) \in 1 .. Len(fields)
        BY <4>1, <4>2, <4>4, LowestIn
      <4>7. Lowest(named) - 1 \in 0 .. Len(fields)
        BY <4>4, <4>6
      <4>8. QED
        BY <4>3, <4>5, <4>7, OffsetsGrow
    <3>4. QED
      BY <3>2, <3>3
  <2>3. ExprValue(e, env) = LabelValue(name, env) + e.add
    BY <1>3 DEF ExprValue
  <2>4. QED
    BY <1>1, <2>2, <2>3
<1>4. QED
  BY <1>2, <1>3

(* There is a first one that does not evaluate, or all do. *)
LEMMA FirstOutside ==
  ASSUME NEW n \in Nat, NEW E
  PROVE  \E k \in 0 .. n : (\A i \in 1 .. k : i \in E) /\ (k < n => k + 1 \notin E)
<1> DEFINE T == {k \in 0 .. n : k < n => k + 1 \notin E}
<1>1. n \in T
  OBVIOUS
<1>2. T \subseteq Nat /\ T # {}
  BY <1>1
<1>3. PICK k \in T : \A j \in T : k <= j
  BY <1>2, Least
<1>4. ASSUME NEW i \in 1 .. k, i \notin E
      PROVE  FALSE
  <2>1. k \in 0 .. n
    OBVIOUS
  <2>2. i - 1 \in 0 .. n /\ i - 1 + 1 = i /\ ~ (k <= i - 1)
    BY <2>1
  <2>3. i - 1 \in T
    BY <1>4, <2>2
  <2>4. QED
    BY <1>3, <2>2, <2>3
<1>5. QED
  BY <1>4

LEMMA LeadingOnes ==
  ASSUME NEW vals \in Seq(ExprSet), NEW locOf
  PROVE  Leading(vals, locOf) \in 0 .. Len(vals)
<1> DEFINE n == Len(vals)
           P(i) == Evaluates(vals[i], Env(locOf[i]))
           E == {i \in 1 .. n : P(i)}
           Q(k) == (\A i \in 1 .. k : P(i)) /\ (k < n => ~P(k + 1))
<1>1. n \in Nat
  BY LenProperties
<1>2. Leading(vals, locOf) = CHOOSE k \in 0 .. n : Q(k)
  BY Zenon DEF Leading
<1> HIDE DEF P, n
<1>3. PICK k \in 0 .. n : (\A i \in 1 .. k : i \in E) /\ (k < n => k + 1 \notin E)
  BY <1>1, FirstOutside
<1>4. \A i \in 1 .. k : P(i)
  BY <1>1, <1>3
<1>5. k < n => ~P(k + 1)
  BY <1>1, <1>3
<1>6. Q(k)
  BY <1>4, <1>5
<1> HIDE DEF Q
<1>7. QED
  BY <1>2, <1>6 DEF n

(* What get_asm_len reserves. *)
LEMMA TotalIsNat ==
  ASSUME NEW fields \in Structure
  PROVE  /\ fields \in FieldSeq /\ Len(fields) \in Nat
         /\ TotalSize(fields) \in Nat /\ 2 * TotalSize(fields) <= AddrMod
         /\ \A i \in 0 .. Len(fields) :
              Offsets(fields)[i] \in Nat /\ Offsets(fields)[i] <= TotalSize(fields)
<1>1. fields \in FieldSeq /\ 2 * TotalSize(fields) <= AddrMod
  BY DEF Structure, FieldSeq
<1>2. Len(fields) \in Nat
  BY <1>1, LenProperties DEF FieldSeq
<1> DEFINE n == Len(fields)
<1>3. n \in 0 .. n
  BY <1>2
<1>4. \A i \in 0 .. n : Offsets(fields)[i] \in Nat /\ Offsets(fields)[i] <= Offsets(fields)[n]
  BY <1>1, <1>3, OffsetsGrow
<1>5. TotalSize(fields) = Offsets(fields)[n]
  BY DEF TotalSize
<1>6. QED
  BY <1>1, <1>2, <1>3, <1>4, <1>5

LEMMA AsmLenIs ==
  ASSUME NEW l, NEW str, StructuresOK(str)
  PROVE  AsmLen(l, str) \in Nat \cup {-1}
<1>1. CASE l.ins = "li"
  <2>1. AsmLen(l, str) \in {LiSize(l.arg.add), -1}
    BY Zenon, <1>1 DEF AsmLen
  <2>2. LiSize(l.arg.add) \in {4, 8}
    BY Zenon DEF LiSize
  <2>3. QED
    BY <2>1, <2>2
<1>2. CASE l.ins = "struct"
  <2>1. CASE l.name \in DOMAIN str
    <3>1. AsmLen(l, str) = TotalSize(str[l.name])
      BY Zenon, <1>2, <2>1 DEF AsmLen
    <3>2. str[l.name] \in Structure
      BY <2>1 DEF StructuresOK
    <3>3. QED
      BY <3>1, <3>2, TotalIsNat
  <2>2. CASE l.name \notin DOMAIN str
    <3>1. AsmLen(l, str) = -1
      BY Zenon, <1>2, <2>2 DEF AsmLen
    <3>2. QED
      BY <3>1
  <2>3. QED
    BY <2>1, <2>2
<1>3. CASE l.ins \notin {"li", "struct"}
  <2>1. AsmLen(l, str) \in {8, -1, 4}
    BY Zenon, <1>3 DEF AsmLen
  <2>2. QED
    BY <2>1
<1>4. QED
  BY <1>1, <1>2, <1>3
-----------------------------------------------------------------------------
(* What a line puts into the file.  The word of a branch or jump lies at   *)
(* the line's location and leads where the line says.                      *)
TransferWord(w) ==
  LET target == ExprValue(line.arg, Env(cur.loc))
  IN  /\ line.op = "insn"
      /\ \/ line.ins = "b" /\ w.op = "branch"
         \/ /\ line.ins = "branch" /\ w.op = "branch" /\ Evaluates(line.arg, Env(cur.loc))
            /\ w.arg = Displacement(target, Vma(cur))
         \/ /\ line.ins = "jump" /\ w.op = "jump" /\ Evaluates(line.arg, Env(cur.loc))
            /\ target >= 0 /\ w.arg = (target \div 4) % JumpMod

MineAt(b, i) ==
  /\ b.word.line = pc
  /\ b.word.op \in {"branch", "jump"} => i = cur.loc + b.k /\ TransferWord(b.word)

(* The n bytes at off are the line's, and all others what they were. *)
LaidBy(img, off, n, new) ==
  /\ Len(img.file) <= Len(new.file)
  /\ n > 0 => off + n <= Len(new.file)
  /\ \A i \in 1 .. Len(new.file) :
       IF i \in off + 1 .. off + n THEN MineAt(new.file[i], i)
       ELSE new.file[i] = IF i <= Len(img.file) THEN img.file[i] ELSE ZeroByte

Written(img, off, n, res) ==
  SinkOK(res.img) /\ (res.rc = 0 => LaidBy(img, off, n, res.img))

(* All four bytes of a branch or jump. *)
TransferOp == {"branch", "jump"}

Whole(img, p, w) ==
  /\ p \in Nat /\ p + 4 <= Len(img.file) /\ w.op \in TransferOp
  /\ \A j \in 1 .. 4 : img.file[p + j] = [word |-> w, k |-> j]

(* The word before the location has been moved to it, and no other has     *)
(* come into being.                                                        *)
Down(w) == IF w.op = "branch" THEN [w EXCEPT !.arg = (@ - 1) % DispMod] ELSE w

Exchanged(new) ==
  \A p, w : Whole(new, p, w) =>
    \/ Whole(image, p, w)
    \/ p = cur.loc /\ \E v : Whole(image, p - 4, v) /\ w = Down(v)

(* What mkasm leaves behind. *)
ResultOK(r) ==
  /\ SinkOK(r.img) /\ r.slot \in 0 .. 2 /\ r.ret \in Nat \cup {-1}
  /\ r.ret # -1 => \/ LaidBy(image, cur.loc, r.ret, r.img)
                   \/ ~opts.large /\ Exchanged(r.img)

LEMMA BlockWritten ==
  ASSUME NEW img, SinkOK(img), NEW off \in Offset, NEW data \in Block,
         \A j \in 1 .. Len(data) : MineAt(data[j], off + j)
  PROVE  Written(img, off, Len(data), WriteBytes(img, off, data))
<1> DEFINE r == WriteBytes(img, off, data)
           d == Len(data)
<1>1. WrittenAs(img, off, data, r)
  BY WriteEffect DEF WriteBytes
<1>2. off \in Nat /\ d \in Nat
  BY LenProperties DEF Offset, Block
<1> HIDE DEF r
<1>3. SinkOK(r.img)
  BY <1>1 DEF WrittenAs
<1>4. ASSUME r.rc = 0
      PROVE  LaidBy(img, off, d, r.img)
  <2>1. /\ Len(img.file) <= Len(r.img.file) /\ off + d <= Len(r.img.file)
        /\ \A i \in 1 .. Len(r.img.file) :
             r.img.file[i] = IF i \in off + 1 .. off + d THEN data[i - off]
                             ELSE IF i <= Len(img.file) THEN img.file[i] ELSE ZeroByte
    BY <1>1, <1>4 DEF WrittenAs
  <2>2. ASSUME NEW i \in off + 1 .. off + d
        PROVE  MineAt(data[i - off], i)
    <3>1. i - off \in 1 .. d /\ off + (i - off) = i
      BY <1>2
    <3>2. MineAt(data[i - off], off + (i - off))
      BY <3>1
    <3>3. QED
      BY <3>1, <3>2
  <2>3. QED
    BY <2>1, <2>2 DEF LaidBy
<1>5. QED
  BY <1>3, <1>4 DEF Written, r

LEMMA NothingLaid ==
  ASSUME NEW img, SinkOK(img), NEW off \in Offset
  PROVE  LaidBy(img, off, 0, img)
<1>1. Len(img.file) \in Nat /\ off \in Nat
  BY SinkFacts DEF Offset
<1>2. \A i \in 1 .. Len(img.file) : i \notin off + 1 .. off + 0
  BY <1>1
<1>3. QED
  BY <1>1, <1>2 DEF LaidBy

(* One block behind the other. *)
LEMMA LaidTwice ==
  ASSUME NEW img, NEW mid, NEW new, NEW off \in Offset, NEW m \in Nat, NEW n \in Nat,
         SinkOK(img), SinkOK(mid), SinkOK(new), m > 0, n > 0,
         LaidBy(img, off, m, mid), LaidBy(mid, off + m, n, new)
  PROVE  LaidBy(img, off, m + n, new)
<1> DEFINE a == Len(img.file)
           b == Len(mid.file)
           c == Len(new.file)
<1>1. a \in Nat /\ b \in Nat /\ c \in Nat /\ off \in Nat
  BY SinkFacts DEF Offset
<1>2. /\ a <= b /\ off + m <= b
      /\ \A i \in 1 .. b :
           IF i \in off + 1 .. off + m THEN MineAt(mid.file[i], i)
           ELSE mid.file[i] = IF i <= a THEN img.file[i] ELSE ZeroByte
  BY DEF LaidBy
<1>3. /\ b <= c /\ off + m + n <= c
      /\ \A i \in 1 .. c :
           IF i \in off + m + 1 .. off + m + n THEN MineAt(new.file[i], i)
           ELSE new.file[i] = IF i <= b THEN mid.file[i] ELSE ZeroByte
  BY DEF LaidBy
<1> HIDE DEF a, b, c
<1>4. ASSUME NEW i \in 1 .. c
      PROVE  IF i \in off + 1 .. off + (m + n) THEN MineAt(new.file[i], i)
             ELSE new.file[i] = IF i <= a THEN img.file[i] ELSE ZeroByte
  <2>1. CASE i \in off + m + 1 .. off + m + n
    <3>1. i \in off + 1 .. off + (m + n)
      BY <1>1, <2>1
    <3>2. QED
      BY <1>3, <2>1, <3>1
  <2>2. CASE i \notin off + m + 1 .. off + m + n /\ i <= b
    <3>1. i \in off + 1 .. off + (m + n) <=> i \in off + 1 .. off + m
      BY <1>1, <2>2
    <3>2. new.file[i] = mid.file[i] /\ i \in 1 .. b
      BY <1>1, <1>3, <2>2
    <3>3. QED
      BY <1>2, <3>1, <3>2
  <2>3. CASE i \notin off + m + 1 .. off + m + n /\ ~ (i <= b)
    <3>1. i \notin off + 1 .. off + (m + n) /\ ~ (i <= a)
      BY <1>1, <1>2, <2>3
    <3>2. QED
      BY <1>3, <2>3, <3>1
  <2>4. QED
    BY <2>1, <2>2, <2>3
<1>5. a <= c /\ off + (m + n) <= c
  BY <1>1, <1>2, <1>3
<1>6. QED
  BY <1>4, <1>5 DEF LaidBy, a, c
-----------------------------------------------------------------------------
(* What pass 2 is given at a line. *)
Prepared ==
  /\ SinkOK(image) /\ cur.loc \in Offset /\ slot \in 0 .. 2
  /\ pc \in Nat /\ LineOK(line) /\ EnvOK(Env(cur.loc))
  /\ StructuresOK(structs)

LEMMA RejectedOK ==
  ASSUME NEW img, SinkOK(img), NEW s \in 0 .. 2
  PROVE  ResultOK(Rejected(img, s))
  BY DEF ResultOK, Rejected

LEMMA AcceptedOK ==
  ASSUME NEW res, NEW size \in Nat, NEW s \in 0 .. 2, SinkOK(res.img),
         res.rc = 0 => \/ LaidBy(image, cur.loc, size, res.img)
                       \/ ~opts.large /\ Exchanged(res.img)
  PROVE  ResultOK(Accepted(res, size, s))
<1>1. CASE res.rc # 0
  <2>1. Accepted(res, size, s) = Rejected(res.img, s)
    BY <1>1 DEF Accepted
  <2>2. QED
    BY <2>1, RejectedOK
<1>2. CASE res.rc = 0
  <2> DEFINE next == IF s > 0 THEN s - 1 ELSE 0
  <2>1. Accepted(res, size, s) = [ret |-> size, img |-> res.img, slot |-> next]
    BY <1>2 DEF Accepted
  <2>2. next \in 0 .. 2
    OBVIOUS
  <2> HIDE DEF next
  <2>3. QED
    BY <1>2, <2>1, <2>2 DEF ResultOK
<1>3. QED
  BY <1>1, <1>2

LEMMA FourBytes ==
  ASSUME NEW b, b = [k \in 1 .. 4 |-> b[k]], \A k \in 1 .. 4 : b[k] \in CodeByte
  PROVE  b \in Block /\ Len(b) = 4
<1> DEFINE n == 4
<1>1. n \in Nat /\ b = [k \in 1 .. n |-> b[k]] /\ \A k \in 1 .. n : b[k] \in CodeByte
  OBVIOUS
<1> HIDE DEF n
<1>2. b \in Seq(CodeByte) /\ Len(b) = n
  BY <1>1, MapSeq
<1>3. AddrMod \in Nat /\ AddrMod >= 8
  BY AssemblerAssumption
<1>4. QED
  BY <1>2, <1>3 DEF Block, n

LEMMA WordIsBlock ==
  ASSUME NEW w \in Word
  PROVE  /\ WordBytes(w) \in Block /\ Len(WordBytes(w)) = 4
         /\ \A k \in 1 .. 4 : WordBytes(w)[k] = [word |-> w, k |-> k]
<1> DEFINE b == WordBytes(w)
<1>1. b = [k \in 1 .. 4 |-> b[k]] /\ \A k \in 1 .. 4 : b[k] = [word |-> w, k |-> k]
  BY DEF WordBytes
<1> HIDE DEF b
<1>2. \A k \in 1 .. 4 : b[k] \in CodeByte
  BY <1>1 DEF CodeByte
<1>3. b \in Block /\ Len(b) = 4
  BY <1>1, <1>2, FourBytes
<1>4. QED
  BY <1>1, <1>3 DEF b

(* A word of the line at off: a branch or jump only at its location. *)
LEMMA WordWritten ==
  ASSUME NEW img, SinkOK(img), NEW off \in Offset, NEW w \in Word, w.line = pc,
         w.op \in {"branch", "jump"} => off = cur.loc /\ TransferWord(w)
  PROVE  Written(img, off, 4, WriteBytes(img, off, WordBytes(w)))
<1> DEFINE b == WordBytes(w)
<1>1. b \in Block /\ Len(b) = 4 /\ \A k \in 1 .. 4 : b[k] = [word |-> w, k |-> k]
  BY WordIsBlock
<1> HIDE DEF b
<1>2. \A k \in 1 .. 4 : MineAt(b[k], off + k)
  <2> TAKE k \in 1 .. 4
  <2>1. b[k].word = w /\ b[k].k = k
    BY <1>1
  <2>2. QED
    BY <2>1 DEF MineAt
<1>3. \A k \in 1 .. Len(b) : MineAt(b[k], off + k)
  BY <1>1, <1>2
<1>4. Written(img, off, Len(b), WriteBytes(img, off, b))
  BY <1>1, <1>3, BlockWritten
<1>5. QED
  BY <1>1, <1>4 DEF b

LEMMA EmitWordOK ==
  ASSUME Prepared, NEW w \in Word, NEW s \in 0 .. 2, w.line = pc,
         w.op \in {"branch", "jump"} => TransferWord(w)
  PROVE  ResultOK(EmitWord(w, s))
<1> DEFINE res == WriteBytes(image, cur.loc, WordBytes(w))
<1>1. Written(image, cur.loc, 4, res)
  BY WordWritten DEF Prepared
<1> HIDE DEF res
<1>2. ResultOK(Accepted(res, 4, s))
  BY <1>1, AcceptedOK DEF Written
<1>3. QED
  BY <1>2 DEF EmitWord, res

LEMMA Widths ==
  /\ AddrMod \in Nat /\ AddrMod >= 8
  /\ DiskMax \in Nat /\ 2 * (DiskMax + 1) <= AddrMod
  /\ DispMod \in Nat \ {0} /\ JumpMod \in Nat \ {0} /\ Chunk \in Nat \ {0}
  /\ Garbage \subseteq Int
  BY Zenon, AssemblerAssumption

PairOp == {"lui", "addiu", "ori"}

(* The byte positions stay below the end of the address range. *)
LEMMA BelowEnd ==
  ASSUME NEW new, SinkOK(new), NEW off \in Offset, off + 4 <= Len(new.file)
  PROVE  (off + 4) % AddrMod = off + 4 /\ off + 4 \in Offset
<1> DEFINE e == off + 4
<1>1. Len(new.file) \in Nat /\ Len(new.file) <= DiskMax /\ e <= Len(new.file)
  BY SinkFacts
<1>2. AddrMod \in Nat \ {0} /\ e \in 0 .. AddrMod - 1
  BY <1>1, Widths DEF Offset
<1> HIDE DEF e
<1>3. e % AddrMod = e
  BY <1>2
<1>4. QED
  BY <1>2, <1>3 DEF e, Offset

LEMMA AnyOffset == \A n \in Int : n % AddrMod \in Offset
<1>1. AddrMod \in Nat /\ AddrMod > 0
  BY AssemblerAssumption
<1>2. QED
  BY <1>1 DEF Offset

LEMMA PairApart ==
  ASSUME Prepared, NEW w1 \in Word, NEW w2 \in Word, w1.line = pc, w2.line = pc,
         w1.op \in PairOp, w2.op \in PairOp
  PROVE  Written(image, cur.loc, 8,
                 AndThen(WriteBytes(image, cur.loc, WordBytes(w1)),
                         (cur.loc + 4) % AddrMod, WordBytes(w2)))
<1> DEFINE one == WriteBytes(image, cur.loc, WordBytes(w1))
           off == (cur.loc + 4) % AddrMod
           two == WriteBytes(one.img, off, WordBytes(w2))
<1>1. SinkOK(image) /\ cur.loc \in Offset /\ cur.loc \in Nat
  BY DEF Prepared, Offset
<1>2. Written(image, cur.loc, 4, one)
  BY <1>1, WordWritten DEF PairOp
<1>3. off \in Offset
  BY <1>1, AnyOffset
<1> HIDE DEF one, off
<1>4. Written(one.img, off, 4, two)
  BY <1>2, <1>3, WordWritten DEF PairOp, Written
<1> HIDE DEF two
<1>5. CASE one.rc # 0
  <2>1. AndThen(one, off, WordBytes(w2)) = one
    BY <1>5 DEF AndThen
  <2>2. QED
    BY <1>2, <1>5, <2>1 DEF Written, one, off
<1>6. CASE one.rc = 0
  <2>1. AndThen(one, off, WordBytes(w2)) = two
    BY <1>6 DEF AndThen, two
  <2>2. SinkOK(one.img) /\ LaidBy(image, cur.loc, 4, one.img)
    BY <1>2, <1>6 DEF Written
  <2>3. off = cur.loc + 4
    <3>1. cur.loc + 4 <= Len(one.img.file)
      BY <2>2 DEF LaidBy
    <3>2. QED
      BY <1>1, <2>2, <3>1, BelowEnd DEF off
  <2>4. SinkOK(two.img) /\ (two.rc = 0 => LaidBy(one.img, cur.loc + 4, 4, two.img))
    BY <1>4, <2>3 DEF Written
  <2>5. two.rc = 0 => LaidBy(image, cur.loc, 4 + 4, two.img)
    BY <1>1, <2>2, <2>4, LaidTwice
  <2>6. Written(image, cur.loc, 8, two)
    BY <2>4, <2>5 DEF Written
  <2>7. QED
    BY <2>1, <2>6 DEF one, off
<1>7. QED
  BY <1>5, <1>6

(* The word before the location, and the branch it may be lowered. *)
LEMMA WordBefore ==
  ASSUME Prepared, cur.loc >= 4, ImageReadable(image, cur.loc - 4, 4), NEW taken
  PROVE  /\ Before \in Block
         /\ Lowered(Before, taken) \in Block
         /\ Len(Lowered(Before, taken)) = 4
<1> DEFINE b   == Before
           off == cur.loc - 4
           d   == Code("data", 1)
<1>1. /\ off \in Nat /\ off + 4 <= Len(image.file)
      /\ image.file \in Seq(CodeByte) /\ Len(image.file) \in Nat
  BY SinkFacts DEF Prepared, Offset, ImageReadable
<1>2. b = [i \in 1 .. 4 |-> image.file[off + i]]
  BY DEF ImageRead, Before
<1> HIDE DEF off
<1>3. \A i \in 1 .. 4 : image.file[off + i] \in CodeByte
  <2> TAKE i \in 1 .. 4
  <2>1. off + i \in 1 .. Len(image.file)
    BY <1>1
  <2>2. QED
    BY <1>1, <2>1, ElementOfSeq
<1>4. b = [i \in 1 .. 4 |-> b[i]] /\ \A i \in 1 .. 4 : b[i] \in CodeByte
  BY <1>2, <1>3
<1> HIDE DEF b
<1>5. b \in Block /\ Len(b) = 4
  BY <1>4, FourBytes
<1>6. b[1].word \in Word
  BY <1>4 DEF CodeByte
<1> DEFINE w == [b[1].word EXCEPT !.arg = (@ - 1) % DispMod]
<1>7. w \in Word
  <2>1. b[1].word.arg \in Int /\ DispMod \in Nat \ {0}
    BY <1>6, AssemblerAssumption DEF Word
  <2>2. (b[1].word.arg - 1) % DispMod \in Int
    BY <2>1
  <2>3. QED
    BY <1>6, <2>2 DEF Word
<1> HIDE DEF w
<1>8. WordBytes(w) \in Block /\ Len(WordBytes(w)) = 4
  BY <1>7, WordIsBlock
<1>8a. WordBytes(d) \in Block /\ Len(WordBytes(d)) = 4
  <2>1. d \in Word
    BY DEF Prepared, Code, Word, Ops
  <2>2. QED
    BY <2>1, WordIsBlock
<1> HIDE DEF d
<1>9. Lowered(b, taken) \in {b, WordBytes(w), WordBytes(d)}
  BY Zenon DEF Lowered, w, d
<1>10. QED
  BY <1>5, <1>8, <1>8a, <1>9 DEF b

LEMMA SinkAfter ==
  ASSUME NEW img, SinkOK(img), NEW off \in Offset, NEW data \in Block
  PROVE  SinkOK(WriteBytes(img, off, data).img)
  BY WriteEffect DEF WrittenAs, WriteBytes

(* A word that is no branch or jump makes none whole, and none survives    *)
(* where it is written.                                                    *)
LEMMA PairKeeps ==
  ASSUME NEW img, SinkOK(img), NEW off \in Offset, NEW w \in Word, w.op \in PairOp,
         NEW r, r = WriteBytes(img, off, WordBytes(w)), r.rc = 0,
         NEW p, NEW v, Whole(r.img, p, v)
  PROVE  Whole(img, p, v) /\ (p + 4 <= off \/ off + 4 <= p)
<1> DEFINE b == WordBytes(w)
<1>1. b \in Block /\ Len(b) = 4 /\ \A j \in 1 .. 4 : b[j] = [word |-> w, k |-> j]
  BY WordIsBlock
<1> HIDE DEF b
<1>2. WrittenAs(img, off, b, r)
  BY <1>1, WriteEffect DEF WriteBytes, b
<1>3. /\ off \in Nat /\ Len(img.file) \in Nat /\ Len(r.img.file) \in Nat
      /\ off + 4 <= Len(r.img.file)
      /\ \A i \in 1 .. Len(r.img.file) :
           r.img.file[i] = IF i \in off + 1 .. off + 4 THEN b[i - off]
                           ELSE IF i <= Len(img.file) THEN img.file[i] ELSE ZeroByte
  BY <1>1, <1>2, SinkFacts DEF WrittenAs, Offset
<1>4. /\ p \in Nat /\ p + 4 <= Len(r.img.file) /\ v.op \in TransferOp
      /\ \A j \in 1 .. 4 : r.img.file[p + j] = [word |-> v, k |-> j]
  BY DEF Whole
<1>5. ASSUME NEW j \in 1 .. 4
      PROVE  p + j \notin off + 1 .. off + 4 /\ img.file[p + j] = [word |-> v, k |-> j]
             /\ p + j <= Len(img.file)
  <2> DEFINE i == p + j
  <2>1. i \in 1 .. Len(r.img.file) /\ r.img.file[i] = [word |-> v, k |-> j]
    <3>1. p \in Nat /\ Len(r.img.file) \in Nat /\ p + 4 <= Len(r.img.file)
      BY <1>3, <1>4
    <3>2. i \in 1 .. Len(r.img.file)
      BY <3>1
    <3>3. QED
      BY <1>4, <3>2
  <2> HIDE DEF i
  <2>2. v.op # "zero" /\ v.op \notin PairOp
    BY <1>4 DEF TransferOp, PairOp
  <2>3. i \notin off + 1 .. off + 4
    <3>1. SUFFICES ASSUME i \in off + 1 .. off + 4
                   PROVE  FALSE
      OBVIOUS
    <3>2. i - off \in 1 .. 4
      BY <1>3, <3>1
    <3>3. r.img.file[i] = [word |-> w, k |-> i - off]
      <4>1. r.img.file[i] = b[i - off]
        BY <1>3, <2>1, <3>1
      <4>2. b[i - off] = [word |-> w, k |-> i - off]
        BY <1>1, <3>2
      <4>3. QED
        BY <4>1, <4>2
    <3>4. v = w
      BY <2>1, <3>3
    <3>5. QED
      BY <2>2, <3>4
  <2>4. i <= Len(img.file)
    <3>1. SUFFICES ASSUME ~ (i <= Len(img.file))
                   PROVE  FALSE
      OBVIOUS
    <3>2. r.img.file[i] = ZeroByte
      BY <1>3, <2>1, <2>3, <3>1
    <3>3. ZeroByte.word.op = "zero"
      BY DEF ZeroByte, InputWord
    <3>4. r.img.file[i].word = v
      BY <2>1
    <3>5. QED
      BY <2>2, <3>2, <3>3, <3>4
  <2>5. img.file[i] = [word |-> v, k |-> j]
    BY <1>3, <2>1, <2>3, <2>4
  <2>6. QED
    BY <2>3, <2>4, <2>5 DEF i
<1>6. 1 \in 1 .. 4 /\ 4 \in 1 .. 4
  OBVIOUS
<1>7. p + 4 <= Len(img.file) /\ p + 1 \notin off + 1 .. off + 4
      /\ p + 4 \notin off + 1 .. off + 4
  BY <1>5, <1>6
<1>8. p + 4 <= off \/ off + 4 <= p
  BY <1>3, <1>4, <1>7
<1>9. QED
  BY <1>4, <1>5, <1>7, <1>8 DEF Whole

(* The word moved out of the delay slot's way is lowered if it is a branch. *)
LEMMA MovedWord ==
  ASSUME Prepared, cur.loc >= 4, ImageReadable(image, cur.loc - 4, 4), NEW taken,
         NEW r, r = WriteBytes(image, cur.loc, Lowered(Before, taken)),
         r.rc = 0, NEW p, NEW w, Whole(r.img, p, w),
         p + 4 <= cur.loc - 4 \/ cur.loc <= p, p + 4 <= cur.loc + 4 \/ cur.loc + 8 <= p
  PROVE  \/ Whole(image, p, w)
         \/ p = cur.loc /\ \E v : Whole(image, p - 4, v) /\ w = Down(v)
<1> DEFINE off    == cur.loc
           before == Before
           b      == Lowered(before, taken)
<1>1. SinkOK(image) /\ off \in Offset /\ off \in Nat /\ off - 4 \in Nat
      /\ off <= Len(image.file) /\ Len(image.file) \in Nat
  BY SinkFacts DEF Prepared, Offset, ImageReadable
<1>2. b \in Block /\ Len(b) = 4
  BY WordBefore
<1>3. before = [i \in 1 .. 4 |-> image.file[off - 4 + i]]
  BY DEF ImageRead, Before
<1> HIDE DEF before
<1> HIDE DEF b
<1>6. WrittenAs(image, off, b, r)
  BY <1>1, <1>2, WriteEffect DEF WriteBytes, b, before
<1>7. /\ Len(r.img.file) \in Nat /\ off + 4 <= Len(r.img.file)
      /\ \A i \in 1 .. Len(r.img.file) :
           r.img.file[i] = IF i \in off + 1 .. off + 4 THEN b[i - off]
                           ELSE IF i <= Len(image.file) THEN image.file[i] ELSE ZeroByte
  BY <1>2, <1>6, SinkFacts DEF WrittenAs
<1>8. /\ p \in Nat /\ p + 4 <= Len(r.img.file) /\ w.op \in TransferOp
      /\ \A j \in 1 .. 4 : r.img.file[p + j] = [word |-> w, k |-> j]
  BY DEF Whole
<1>9. p + 4 <= off \/ off + 4 <= p \/ p = off
  BY <1>1, <1>8
<1>10. CASE p + 4 <= off \/ off + 4 <= p
  <2>1. ASSUME NEW j \in 1 .. 4
        PROVE  p + j <= Len(image.file) /\ image.file[p + j] = [word |-> w, k |-> j]
    <3>1. p + j \in 1 .. Len(r.img.file) /\ p + j \notin off + 1 .. off + 4
          /\ r.img.file[p + j] = [word |-> w, k |-> j]
      <4>1. /\ p \in Nat /\ Len(r.img.file) \in Nat /\ p + 4 <= Len(r.img.file)
            /\ off \in Nat
        BY <1>1, <1>7, <1>8
      <4>2. p + j \in 1 .. Len(r.img.file) /\ p + j \notin off + 1 .. off + 4
        BY <1>10, <4>1
      <4>3. QED
        BY <1>8, <4>2
    <3>2. p + j <= Len(image.file)
      <4>1. SUFFICES ASSUME ~ (p + j <= Len(image.file))
                     PROVE  FALSE
        OBVIOUS
      <4>2. r.img.file[p + j] = ZeroByte
        BY <1>7, <3>1, <4>1
      <4>3. ZeroByte.word.op = "zero" /\ w.op # "zero"
        BY <1>8 DEF ZeroByte, InputWord, TransferOp
      <4>4. r.img.file[p + j].word = w
        BY <3>1
      <4>5. QED
        BY <4>2, <4>3, <4>4
    <3>3. QED
      BY <1>7, <3>1, <3>2
  <2>2. 4 \in 1 .. 4
    OBVIOUS
  <2>3. QED
    BY <1>8, <2>1, <2>2 DEF Whole
<1>11. CASE p = off
  <2>1. \A j \in 1 .. 4 : b[j] = [word |-> w, k |-> j]
    <3> TAKE j \in 1 .. 4
    <3> DEFINE i == off + j
    <3>1. i \in 1 .. Len(r.img.file) /\ i \in off + 1 .. off + 4 /\ i - off = j
      BY <1>1, <1>7
    <3> HIDE DEF i
    <3>2. r.img.file[i] = b[j]
      BY <1>7, <3>1
    <3>3. r.img.file[p + j] = [word |-> w, k |-> j]
      BY <1>8
    <3>4. QED
      BY <1>11, <3>2, <3>3 DEF i
  <2>2. b[1].word = w
    BY <2>1
  <2>3. \/ /\ before[1].word.op = "branch" /\ before = WordBytes(before[1].word)
           /\ b = WordBytes([before[1].word EXCEPT !.arg = (@ - 1) % DispMod])
        \/ /\ ~ (before[1].word.op = "branch" /\ before = WordBytes(before[1].word))
           /\ b \in {before, WordBytes(Code("data", 1))}
    BY Zenon DEF Lowered, b, before
  <2>4. CASE before[1].word.op = "branch" /\ before = WordBytes(before[1].word)
             /\ b = WordBytes([before[1].word EXCEPT !.arg = (@ - 1) % DispMod])
    <3> DEFINE v == before[1].word
    <3>1. \A j \in 1 .. 4 : before[j] = [word |-> v, k |-> j]
      BY <2>4 DEF WordBytes
    <3>2. b[1].word = Down(v)
      BY <2>4 DEF WordBytes, Down
    <3>3. v.op \in TransferOp
      BY <2>4 DEF TransferOp
    <3> HIDE DEF v
    <3>4. \A j \in 1 .. 4 : image.file[off - 4 + j] = [word |-> v, k |-> j]
      BY <1>3, <3>1
    <3>5. Whole(image, off - 4, v)
      BY <1>1, <3>3, <3>4 DEF Whole
    <3>6. QED
      BY <1>11, <2>2, <3>2, <3>5
  <2>5. CASE ~ (before[1].word.op = "branch" /\ before = WordBytes(before[1].word))
             /\ b = before
    <3>1. \A j \in 1 .. 4 : before[j] = [word |-> w, k |-> j]
      BY <2>1, <2>5
    <3>2. before = WordBytes(w)
      BY <1>3, <3>1 DEF WordBytes
    <3>3. w.op # "branch"
      BY <2>2, <2>5, <3>2
    <3>4. \A j \in 1 .. 4 : image.file[off - 4 + j] = [word |-> w, k |-> j]
      BY <1>3, <3>1
    <3>5. Whole(image, off - 4, w) /\ w = Down(w)
      BY <1>1, <1>8, <3>3, <3>4 DEF Whole, Down
    <3>6. QED
      BY <1>11, <3>5
  <2>6. CASE b = WordBytes(Code("data", 1))
    <3>1. w.op = "data"
      BY <2>2, <2>6 DEF WordBytes, Code
    <3>2. QED
      BY <1>8, <3>1 DEF TransferOp
  <2>7. QED
    BY <2>3, <2>4, <2>5, <2>6
<1>12. QED
  BY <1>9, <1>10, <1>11

LEMMA PairOK ==
  ASSUME Prepared, opts.large \in BOOLEAN, NEW taken,
         NEW w1 \in Word, NEW w2 \in Word, w1.line = pc, w2.line = pc,
         w1.op \in PairOp, w2.op \in PairOp
  PROVE  ResultOK(EmitPair(w1, w2, taken))
<1>1. /\ SinkOK(image) /\ cur.loc \in Offset /\ cur.loc \in Nat /\ slot \in 0 .. 2
      /\ WordBytes(w1) \in Block /\ WordBytes(w2) \in Block
  <2>1. WordBytes(w1) \in Block /\ WordBytes(w2) \in Block
    BY WordIsBlock
  <2>2. QED
    BY <2>1 DEF Prepared, Offset
<1>2. CASE slot = 0
  <2> DEFINE res == AndThen(WriteBytes(image, cur.loc, WordBytes(w1)),
                            (cur.loc + 4) % AddrMod, WordBytes(w2))
  <2>1. Written(image, cur.loc, 8, res)
    BY PairApart
  <2>2. EmitPair(w1, w2, taken) = Accepted(res, 8, slot)
    BY Zenon, <1>2 DEF EmitPair
  <2> HIDE DEF res
  <2>3. ResultOK(Accepted(res, 8, slot))
    BY <1>1, <2>1, AcceptedOK DEF Written
  <2>4. QED
    BY <2>2, <2>3
<1>3. CASE slot # 0 /\ ~Exchanges
  <2>1. EmitPair(w1, w2, taken) = Rejected(image, slot)
    BY Zenon, <1>3 DEF EmitPair
  <2>2. QED
    BY <1>1, <2>1, RejectedOK
<1>4. CASE slot # 0 /\ Exchanges
  <2> DEFINE moved  == WriteBytes(image, cur.loc, Lowered(Before, taken))
             first  == AndThen(moved, cur.loc - 4, WordBytes(w1))
             second == AndThen(first, (cur.loc + 4) % AddrMod, WordBytes(w2))
  <2>1. EmitPair(w1, w2, taken) = Accepted(second, 8, slot)
    BY Zenon, <1>4 DEF EmitPair
  <2>2. ~ (cur.loc < 4) /\ ImageReadable(image, cur.loc - 4, 4) /\ ~opts.large
    BY <1>1, <1>4 DEF Exchanges
  <2>3. cur.loc - 4 \in Offset /\ cur.loc >= 4 /\ (cur.loc + 4) % AddrMod \in Offset
    <3>1. cur.loc - 4 \in Offset /\ cur.loc >= 4
      BY <1>1, <2>2, Widths DEF Offset
    <3>2. cur.loc + 4 \in Int
      BY <1>1
    <3>3. QED
      BY <3>1, <3>2, AnyOffset
  <2>4. SinkOK(moved.img) /\ (moved.rc = 0 => cur.loc + 4 <= Len(moved.img.file))
    <3> DEFINE b == Lowered(Before, taken)
    <3>1. b \in Block /\ Len(b) = 4
      BY <2>2, <2>3, WordBefore
    <3> HIDE DEF b
    <3>2. WrittenAs(image, cur.loc, b, moved)
      BY <1>1, <3>1, WriteEffect DEF WriteBytes, b
    <3> HIDE DEF moved
    <3>3. QED
      BY <3>1, <3>2 DEF WrittenAs
  <2> HIDE DEF moved
  <2>5. SinkOK(first.img)
    BY <1>1, <2>3, <2>4, SinkAfter DEF AndThen
  <2> HIDE DEF first
  <2>6. SinkOK(second.img)
    BY <1>1, <2>3, <2>5, SinkAfter DEF AndThen
  <2> HIDE DEF second
  <2>7. ASSUME second.rc = 0
        PROVE  Exchanged(second.img)
    <3>1. first.rc = 0 /\ second = WriteBytes(first.img, (cur.loc + 4) % AddrMod, WordBytes(w2))
      BY <2>7 DEF AndThen, second
    <3>2. moved.rc = 0 /\ first = WriteBytes(moved.img, cur.loc - 4, WordBytes(w1))
      BY <3>1 DEF AndThen, first
    <3>3. (cur.loc + 4) % AddrMod = cur.loc + 4
      BY <1>1, <2>4, <3>2, BelowEnd
    <3> SUFFICES ASSUME NEW p, NEW w, Whole(second.img, p, w)
                 PROVE  \/ Whole(image, p, w)
                        \/ p = cur.loc /\ \E v : Whole(image, p - 4, v) /\ w = Down(v)
      BY DEF Exchanged
    <3>4. /\ Whole(first.img, p, w)
          /\ p + 4 <= cur.loc + 4 \/ cur.loc + 4 + 4 <= p
      BY <2>3, <2>5, <2>7, <3>1, <3>3, PairKeeps
    <3>5. /\ Whole(moved.img, p, w)
          /\ p + 4 <= cur.loc - 4 \/ cur.loc - 4 + 4 <= p
      BY <2>3, <2>4, <3>1, <3>2, <3>4, PairKeeps
    <3>6. p \in Nat
      BY <3>5 DEF Whole
    <3>7. /\ p + 4 <= cur.loc - 4 \/ cur.loc <= p
          /\ p + 4 <= cur.loc + 4 \/ cur.loc + 8 <= p
      BY <1>1, <3>4, <3>5, <3>6
    <3>8. QED
      BY <2>2, <2>3, <3>2, <3>5, <3>7, MovedWord DEF moved
  <2>8. ResultOK(Accepted(second, 8, slot))
    BY <1>1, <2>2, <2>6, <2>7, AcceptedOK
  <2>9. QED
    BY <2>1, <2>8
<1>5. QED
  BY <1>2, <1>3, <1>4
-----------------------------------------------------------------------------
(* What mkasm makes of branches, jumps, LI and LA. *)
LEMMA CodeIsWord ==
  ASSUME NEW op \in Ops, NEW arg \in Int, pc \in Nat
  PROVE  Code(op, arg) \in Word /\ Code(op, arg).line = pc /\ Code(op, arg).op = op
         /\ Code(op, arg).arg = arg
  BY DEF Code, Word

PairCode(code) ==
  Len(code) \in {1, 2} /\ \A i \in 1 .. Len(code) : code[i].op \in PairOp /\ code[i].imm \in Int

LEMMA ExpansionOK ==
  ASSUME Prepared, opts.large \in BOOLEAN, NEW code, NEW taken, PairCode(code)
  PROVE  ResultOK(Expansion(code, taken))
<1> DEFINE w(i) == Code(code[i].op, code[i].imm)
<1>1. ASSUME NEW i \in 1 .. Len(code)
      PROVE  w(i) \in Word /\ w(i).line = pc /\ w(i).op \in PairOp
  <2>1. code[i].op \in PairOp /\ code[i].imm \in Int /\ pc \in Nat
    BY DEF PairCode, Prepared
  <2>2. code[i].op \in Ops
    BY <2>1 DEF PairOp, Ops
  <2>3. QED
    BY <2>1, <2>2, CodeIsWord
<1>2. slot \in 0 .. 2
  BY DEF Prepared
<1>3. CASE Len(code) = 1
  <2>1. w(1) \in Word /\ w(1).line = pc /\ w(1).op \in PairOp
    BY <1>1, <1>3
  <2>2. Expansion(code, taken) = EmitWord(w(1), slot)
    BY <1>3 DEF Expansion
  <2> HIDE DEF w
  <2>3. ResultOK(EmitWord(w(1), slot))
    BY <1>2, <2>1, EmitWordOK DEF PairOp
  <2>4. QED
    BY <2>2, <2>3
<1>4. CASE Len(code) = 2
  <2>1. /\ w(1) \in Word /\ w(1).line = pc /\ w(1).op \in PairOp
        /\ w(2) \in Word /\ w(2).line = pc /\ w(2).op \in PairOp
    <3>1. 1 \in 1 .. Len(code) /\ 2 \in 1 .. Len(code)
      BY <1>4
    <3>2. QED
      BY <1>1, <3>1
  <2>2. Expansion(code, taken) = EmitPair(w(1), w(2), taken)
    BY <1>4 DEF Expansion
  <2> HIDE DEF w
  <2>3. ResultOK(EmitPair(w(1), w(2), taken))
    BY <2>1, PairOK
  <2>4. QED
    BY <2>2, <2>3
<1>5. QED
  BY <1>3, <1>4 DEF PairCode

LEMMA HalfInt ==
  ASSUME NEW v \in Int
  PROVE  v % Half \in Int /\ v \div Half \in Int /\ v % Full \in Int /\ Half \in Int
<1>1. Half \in Nat /\ Half > 0
  BY HalfAssumption
<1>2. Full \in Nat /\ Full > 0
  BY <1>1 DEF Full
<1>3. QED
  BY <1>1, <1>2

LEMMA InsnInt ==
  ASSUME NEW op, NEW v \in Int
  PROVE  Insn(op, v).op = op /\ Insn(op, v).imm \in Int
  BY HalfInt DEF Insn

LEMMA AddiuPairCode ==
  ASSUME NEW v \in Int
  PROVE  PairCode(AddiuPair(v))
<1> DEFINE a == Insn("lui", (v \div Half) + Carry(v))
           b == Insn("addiu", Low(v))
<1>1. (v \div Half) + Carry(v) \in Int /\ Low(v) \in Int
  BY HalfInt DEF Carry, Low
<1>2. a.op = "lui" /\ a.imm \in Int /\ b.op = "addiu" /\ b.imm \in Int
  BY <1>1, InsnInt
<1>3. AddiuPair(v) = <<a, b>>
  BY DEF AddiuPair
<1> HIDE DEF a, b
<1>4. QED
  BY <1>2, <1>3 DEF PairCode, PairOp

LEMMA LiPairCode ==
  ASSUME NEW v \in Int
  PROVE  PairCode(LiCode(v))
<1> DEFINE u == v % Full
           a == Insn("lui", u \div Half)
           b == Insn("ori", u % Half)
           c == Insn("addiu", v)
<1>1. u \in Int /\ u \div Half \in Int /\ u % Half \in Int
  <2>1. u \in Int
    BY HalfInt
  <2> HIDE DEF u
  <2>2. QED
    BY <2>1, HalfInt
<1>2. a.op = "lui" /\ a.imm \in Int /\ b.op = "ori" /\ b.imm \in Int
      /\ c.op = "addiu" /\ c.imm \in Int
  BY <1>1, InsnInt
<1>3. LiCode(v) \in {<<a>>, AddiuPair(u), <<a, b>>, <<c>>}
  BY Zenon DEF LiCode
<1>4. PairCode(AddiuPair(u))
  BY <1>1, AddiuPairCode
<1> HIDE DEF a, b, c, u
<1>5. PairCode(<<a>>) /\ PairCode(<<c>>) /\ PairCode(<<a, b>>)
  BY <1>2 DEF PairCode, PairOp
<1>6. QED
  BY <1>3, <1>4, <1>5

LEMMA TransferOK ==
  ASSUME Prepared, line.op = "insn",
         line.ins \in {"branch", "jump", "jumpreg", "b", "nojump"}
  PROVE  ResultOK(Transfer)
<1> DEFINE env    == Env(cur.loc)
           target == ExprValue(line.arg, env)
           d == Displacement(target, Vma(cur))
           j == (target \div 4) % JumpMod
           b == (target \div 4) % DispMod
<1>1. SinkOK(image) /\ slot \in 0 .. 2 /\ pc \in Nat /\ 2 \in 0 .. 2
  BY DEF Prepared
<1>2. \/ Transfer = Rejected(image, slot)
      \/ Transfer = Rejected(image, 2)
      \/ line.ins = "branch" /\ Evaluates(line.arg, env)
         /\ Transfer = EmitWord(Code("branch", d), 2)
      \/ line.ins = "b" /\ Evaluates(line.arg, env)
         /\ Transfer = EmitWord(Code("branch", b), 2)
      \/ line.ins = "jump" /\ Evaluates(line.arg, env) /\ ~ (target < 0)
         /\ Transfer = EmitWord(Code("jump", j), 2)
      \/ line.ins = "jumpreg" /\ Transfer = EmitWord(Code("jumpreg", 0), 2)
  <2> HIDE DEF env, target
  <2>1. CASE slot > 0 \/ (line.ins # "jumpreg" /\ ~Evaluates(line.arg, env))
    BY Zenon, <2>1 DEF Transfer, env
  <2>2. CASE /\ ~ (slot > 0 \/ (line.ins # "jumpreg" /\ ~Evaluates(line.arg, env)))
             /\ ~line.wf \/ line.ins = "nojump" \/ (line.ins = "jump" /\ target < 0)
    BY Zenon, <2>2 DEF Transfer, env, target
  <2>3. CASE /\ ~ (slot > 0 \/ (line.ins # "jumpreg" /\ ~Evaluates(line.arg, env)))
             /\ ~ (~line.wf \/ line.ins = "nojump" \/ (line.ins = "jump" /\ target < 0))
    <3>1. Transfer = CASE line.ins = "branch"  -> EmitWord(Code("branch", d), 2)
                       [] line.ins = "b"       -> EmitWord(Code("branch", b), 2)
                       [] line.ins = "jump"    -> EmitWord(Code("jump", j), 2)
                       [] line.ins = "jumpreg" -> EmitWord(Code("jumpreg", 0), 2)
      BY Zenon, <2>3 DEF Transfer, env, target
    <3> HIDE DEF d, b, j
    <3>2. QED
      BY <2>3, <3>1
  <2>4. QED
    BY Zenon, <2>1, <2>2, <2>3
<1>3. ASSUME Evaluates(line.arg, env), line.ins # "jumpreg"
      PROVE  target \in Int /\ d \in Int /\ b \in Int /\ j \in Int
  <2>1. EnvOK(env) /\ line.arg \in ExprSet /\ cur.loc \in Offset
    BY DEF Prepared, LineOK
  <2>2. target \in Int
    BY <1>3, <2>1, ValueIsInt
  <2>3. Vma(cur) \in Int
    <3>1. Vma(cur) = env.vma
      BY DEF Vma, Env
    <3>2. QED
      BY <2>1, <3>1 DEF EnvOK, Offset
  <2> HIDE DEF target
  <2>4. target \div 4 \in Int /\ (target - (Vma(cur) + 4)) \div 4 \in Int
    BY <2>2, <2>3
  <2>5. QED
    BY <2>2, <2>4, Widths DEF Displacement
<1>4. CASE Transfer = Rejected(image, slot) \/ Transfer = Rejected(image, 2)
  BY <1>1, <1>4, RejectedOK
<1>5. CASE /\ line.ins = "branch" /\ Evaluates(line.arg, env)
           /\ Transfer = EmitWord(Code("branch", d), 2)
  <2> HIDE DEF d
  <2>1. d \in Int
    BY <1>3, <1>5
  <2>2. /\ Code("branch", d) \in Word /\ Code("branch", d).line = pc
        /\ Code("branch", d).op = "branch" /\ Code("branch", d).arg = d
    BY <1>1, <2>1, CodeIsWord DEF Ops
  <2>3. TransferWord(Code("branch", d))
    BY <1>5, <2>2 DEF TransferWord, d
  <2>4. QED
    BY <1>1, <1>5, <2>2, <2>3, EmitWordOK
<1>6. CASE /\ line.ins = "b" /\ Evaluates(line.arg, env)
           /\ Transfer = EmitWord(Code("branch", b), 2)
  <2> HIDE DEF b
  <2>1. b \in Int
    BY <1>3, <1>6
  <2>2. /\ Code("branch", b) \in Word /\ Code("branch", b).line = pc
        /\ Code("branch", b).op = "branch"
    BY <1>1, <2>1, CodeIsWord DEF Ops
  <2>3. TransferWord(Code("branch", b))
    BY <1>6, <2>2 DEF TransferWord
  <2>4. QED
    BY <1>1, <1>6, <2>2, <2>3, EmitWordOK
<1>7. CASE /\ line.ins = "jump" /\ Evaluates(line.arg, env) /\ ~ (target < 0)
           /\ Transfer = EmitWord(Code("jump", j), 2)
  <2>0. target >= 0
    <3>1. target \in Int
      BY <1>3, <1>7
    <3> HIDE DEF target
    <3>2. QED
      BY <1>7, <3>1
  <2> HIDE DEF j
  <2>1. j \in Int
    BY <1>3, <1>7
  <2>2. /\ Code("jump", j) \in Word /\ Code("jump", j).line = pc
        /\ Code("jump", j).op = "jump" /\ Code("jump", j).arg = j
    BY <1>1, <2>1, CodeIsWord DEF Ops
  <2>3. TransferWord(Code("jump", j))
    BY <1>7, <2>0, <2>2 DEF TransferWord, j
  <2>4. QED
    BY <1>1, <1>7, <2>2, <2>3, EmitWordOK
<1>8. CASE line.ins = "jumpreg" /\ Transfer = EmitWord(Code("jumpreg", 0), 2)
  <2>1. /\ Code("jumpreg", 0) \in Word /\ Code("jumpreg", 0).line = pc
        /\ Code("jumpreg", 0).op = "jumpreg"
    BY <1>1, CodeIsWord DEF Ops
  <2>2. QED
    BY <1>1, <1>8, <2>1, EmitWordOK
<1>9. QED
  BY Zenon, <1>2, <1>4, <1>5, <1>6, <1>7, <1>8
-----------------------------------------------------------------------------
(* Data, structures and the rest of mkasm. *)
LEMMA BytesAre ==
  ASSUME pc \in Nat, NEW n \in Nat
  PROVE  /\ Bytes(n) \in Seq(CodeByte) /\ Len(Bytes(n)) = n
         /\ \A i : \A j \in 1 .. n : MineAt(Bytes(n)[j], i)
<1> DEFINE b == Bytes(n)
           w == [op |-> "data", line |-> pc, arg |-> 0]
<1>1. /\ b = [j \in 1 .. n |-> b[j]]
      /\ \A j \in 1 .. n : b[j] = [word |-> w, k |-> ((j - 1) % 4) + 1]
  BY DEF Bytes
<1>2. w \in Word /\ w.op = "data" /\ w.line = pc
  BY DEF Word, Ops
<1> HIDE DEF b, w
<1>3. ASSUME NEW j \in 1 .. n
      PROVE  b[j] \in CodeByte /\ b[j].word = w
  <2>1. ((j - 1) % 4) + 1 \in 1 .. 4
    OBVIOUS
  <2>2. QED
    BY <1>1, <1>2, <2>1 DEF CodeByte
<1>4. b \in Seq(CodeByte) /\ Len(b) = n
  BY <1>1, <1>3, MapSeq
<1>5. \A i : \A j \in 1 .. n : MineAt(b[j], i)
  BY <1>2, <1>3 DEF MineAt
<1>6. QED
  BY <1>4, <1>5 DEF b

LEMMA DataWritten ==
  ASSUME Prepared, NEW n \in Nat, n > 0, 2 * n <= AddrMod
  PROVE  Written(image, cur.loc, n, WriteBytes(image, cur.loc, Bytes(n)))
<1> DEFINE b == Bytes(n)
<1>1. SinkOK(image) /\ cur.loc \in Offset /\ pc \in Nat
  BY DEF Prepared
<1>2. /\ b \in Seq(CodeByte) /\ Len(b) = n
      /\ \A i : \A j \in 1 .. n : MineAt(b[j], i)
  BY <1>1, BytesAre
<1> HIDE DEF b
<1>3. b \in Block /\ \A j \in 1 .. Len(b) : MineAt(b[j], cur.loc + j)
  BY <1>2 DEF Block
<1>4. Written(image, cur.loc, Len(b), WriteBytes(image, cur.loc, b))
  BY <1>1, <1>3, BlockWritten
<1>5. QED
  BY <1>2, <1>4 DEF b

LEMMA StructOK ==
  ASSUME Prepared, line.op = "insn", line.ins = "struct", line.name \in DOMAIN structs
  PROVE  ResultOK(StructValues)
<1> DEFINE fields == structs[line.name]
           n      == Len(fields)
           top    == IF Len(line.vals) < n THEN Len(line.vals) ELSE n
           vals   == SubSeq(line.vals, 1, top)
           locOf  == [i \in 1 .. Len(vals) |-> cur.loc]
           good   == Leading(vals, locOf)
           size   == Offsets(fields)[good]
           data   == Bytes(size)
           res    == IF data = <<>> THEN [rc |-> 0, img |-> image]
                     ELSE WriteBytes(image, cur.loc, data)
<1>1. SinkOK(image) /\ cur.loc \in Offset /\ pc \in Nat /\ slot \in 0 .. 2
  BY DEF Prepared
<1>2. /\ n \in Nat /\ TotalSize(fields) \in Nat /\ 2 * TotalSize(fields) <= AddrMod
      /\ \A i \in 0 .. n : Offsets(fields)[i] \in Nat /\ Offsets(fields)[i] <= TotalSize(fields)
  <2>1. fields \in Structure
    BY DEF Prepared, StructuresOK
  <2> HIDE DEF fields
  <2>2. QED
    BY <2>1, TotalIsNat
<1>3. good \in 0 .. n
  <2>1. line.vals \in Seq(ExprSet) /\ Len(line.vals) \in Nat
    BY LenProperties DEF Prepared, LineOK
  <2>2. top \in 0 .. Len(line.vals) /\ top <= n
    BY <1>2, <2>1
  <2> HIDE DEF top, n
  <2>3. vals \in Seq(ExprSet) /\ Len(vals) = top
    BY <2>1, <2>2, Beginning
  <2> HIDE DEF vals, locOf
  <2>4. good \in 0 .. top
    BY <2>3, LeadingOnes
  <2>5. QED
    BY <1>2, <2>1, <2>2, <2>4
<1>4. size \in Nat /\ 2 * size <= AddrMod /\ (good = n => size = TotalSize(fields))
  <2>1. size \in Nat /\ size <= TotalSize(fields)
    BY <1>2, <1>3
  <2>2. good = n => size = TotalSize(fields)
    BY DEF TotalSize
  <2> HIDE DEF size
  <2>3. QED
    BY <1>2, <2>1, <2>2, Widths
<1>5. StructValues = IF good < n \/ Len(line.vals) # n \/ ~line.wf
                     THEN Rejected(res.img, slot)
                     ELSE Accepted(res, TotalSize(fields), slot)
  BY Zenon DEF StructValues
<1> HIDE DEF size
<1>6. data \in Seq(CodeByte) /\ Len(data) = size
  BY <1>1, <1>4, BytesAre
<1>7. data = <<>> <=> size = 0
  <2> HIDE DEF data
  <2>1. QED
    BY <1>6, EmptySeq
<1>8. Written(image, cur.loc, size, res)
  <2>1. CASE size = 0
    <3>1. res = [rc |-> 0, img |-> image]
      BY <1>7, <2>1
    <3> HIDE DEF res
    <3>2. QED
      BY <1>1, <2>1, <3>1, NothingLaid DEF Written
  <2>2. CASE size # 0
    <3>1. res = WriteBytes(image, cur.loc, data)
      BY <1>7, <2>2
    <3> HIDE DEF res
    <3>2. QED
      BY <1>4, <2>2, <3>1, DataWritten
  <2>3. QED
    BY <2>1, <2>2
<1> HIDE DEF res, good, n, fields
<1>9. CASE good < n \/ Len(line.vals) # n \/ ~line.wf
  <2>1. StructValues = Rejected(res.img, slot)
    BY Zenon, <1>5, <1>9
  <2>2. QED
    BY <1>1, <1>8, <2>1, RejectedOK DEF Written
<1>10. CASE ~ (good < n \/ Len(line.vals) # n \/ ~line.wf)
  <2>1. StructValues = Accepted(res, TotalSize(fields), slot)
    BY Zenon, <1>5, <1>10
  <2>2. good = n
    BY <1>2, <1>3, <1>10
  <2>3. size = TotalSize(fields)
    BY <1>4, <2>2
  <2>4. ResultOK(Accepted(res, size, slot))
    BY <1>1, <1>4, <1>8, AcceptedOK DEF Written
  <2>5. QED
    BY <2>1, <2>3, <2>4
<1>11. QED
  BY <1>9, <1>10

LEMMA LoadAddressOK ==
  ASSUME Prepared, opts.large \in BOOLEAN, line.op = "insn", NEW g \in Int, NEW taken
  PROVE  ResultOK(LoadAddress(g, taken))
<1> DEFINE v == IF line.wf THEN ExprValue(line.arg, Env(cur.loc)) ELSE g
<1>1. \/ LoadAddress(g, taken) = Rejected(image, slot)
      \/ Evaluates(line.arg, Env(cur.loc)) /\ LoadAddress(g, taken) = Expansion(LaCode(v), taken)
  BY Zenon DEF LoadAddress, NamesLabel
<1>2. CASE LoadAddress(g, taken) = Rejected(image, slot)
  BY <1>2, RejectedOK DEF Prepared
<1>3. CASE Evaluates(line.arg, Env(cur.loc)) /\ LoadAddress(g, taken) = Expansion(LaCode(v), taken)
  <2>1. ExprValue(line.arg, Env(cur.loc)) \in Int
    BY <1>3, ValueIsInt DEF Prepared, LineOK
  <2>2. v \in Int
    BY <2>1
  <2> HIDE DEF v
  <2>3. PairCode(LaCode(v))
    BY <2>2, AddiuPairCode DEF LaCode
  <2>4. QED
    BY <1>3, <2>3, ExpansionOK
<1>4. QED
  BY <1>1, <1>2, <1>3

LEMMA MkasmOK ==
  ASSUME Prepared, opts.large \in BOOLEAN, line.op = "insn", NEW g \in Int, NEW taken
  PROVE  ResultOK(Mkasm(g, taken))
<1>0. SinkOK(image) /\ slot \in 0 .. 2 /\ pc \in Nat
  BY DEF Prepared
<1>1. ResultOK(Rejected(image, slot))
  BY <1>0, RejectedOK
<1>2. CASE line.ins \in {"branch", "jump", "jumpreg", "b", "nojump"}
  <2>1. Mkasm(g, taken) = Transfer
    BY Zenon, <1>2 DEF Mkasm
  <2>2. QED
    BY <1>2, <2>1, TransferOK
<1>3. CASE line.ins = "la"
  <2>1. Mkasm(g, taken) = LoadAddress(g, taken)
    BY Zenon, <1>3 DEF Mkasm
  <2>2. QED
    BY <2>1, LoadAddressOK
<1>4. CASE line.ins = "li"
  <2> DEFINE v == ExprValue(line.arg, Env(cur.loc))
  <2>1. \/ Mkasm(g, taken) = Rejected(image, slot)
        \/ Evaluates(line.arg, Env(cur.loc)) /\ Mkasm(g, taken) = Expansion(LiCode(v), taken)
    BY Zenon, <1>4 DEF Mkasm, LiWords, LoadsNumber
  <2>2. CASE Evaluates(line.arg, Env(cur.loc)) /\ Mkasm(g, taken) = Expansion(LiCode(v), taken)
    <3>1. v \in Int
      BY <2>2, ValueIsInt DEF Prepared, LineOK
    <3> HIDE DEF v
    <3>2. PairCode(LiCode(v))
      BY <3>1, LiPairCode
    <3>3. QED
      BY <2>2, <3>2, ExpansionOK
  <2>3. QED
    BY <1>1, <2>1, <2>2
<1>5. CASE line.ins = "struct"
  <2>1. CASE line.name \in DOMAIN structs /\ AllNamed(line.vals)
    <3>1. Mkasm(g, taken) = StructValues
      BY Zenon, <1>5, <2>1 DEF Mkasm
    <3>2. QED
      BY <1>5, <2>1, <3>1, StructOK
  <2>2. CASE ~ (line.name \in DOMAIN structs /\ AllNamed(line.vals))
    <3>1. Mkasm(g, taken) = Rejected(image, slot)
      BY Zenon, <1>5, <2>2 DEF Mkasm
    <3>2. QED
      BY <1>1, <3>1
  <2>3. QED
    BY <2>1, <2>2
<1>6. CASE line.ins \in {"plain", "move"}
  <2>1. \/ Mkasm(g, taken) = Rejected(image, slot)
        \/ Mkasm(g, taken) = EmitWord(Code("plain", 0), slot)
    BY Zenon, <1>6 DEF Mkasm
  <2>2. /\ Code("plain", 0) \in Word /\ Code("plain", 0).line = pc
        /\ Code("plain", 0).op = "plain"
    BY <1>0, CodeIsWord DEF Ops
  <2>3. ResultOK(EmitWord(Code("plain", 0), slot))
    BY <1>0, <2>2, EmitWordOK
  <2>4. QED
    BY <1>1, <2>1, <2>3
<1>7. CASE line.ins \notin {"branch", "jump", "jumpreg", "b", "la", "li", "struct",
                            "plain", "move", "nojump"}
  <2>1. Mkasm(g, taken) = Rejected(image, slot)
    BY Zenon, <1>7 DEF Mkasm
  <2>2. QED
    BY <1>1, <2>1
<1>8. QED
  BY <1>2, <1>3, <1>4, <1>5, <1>6, <1>7

(* What a directive stores. *)
LEMMA StoreOK ==
  ASSUME Prepared, opts.past \in BOOLEAN, NEW n \in Nat, NEW unit \in Nat \ {0}
  PROVE  Written(image, cur.loc, n, Store(cur.loc, n, unit))
<1> DEFINE room == Larger(0, image.size - cur.loc)
           fits == IF opts.past \/ n <= room THEN n ELSE unit * (room \div unit)
           len  == IF fits > DiskMax THEN DiskMax + 1 ELSE fits
           res  == WriteBytes(image, cur.loc, Bytes(len))
           st   == Store(cur.loc, n, unit)
<1>1. SinkOK(image) /\ cur.loc \in Offset /\ cur.loc \in Nat /\ image.size \in Nat
  BY SinkFacts DEF Prepared, Offset
<1>2. room \in Nat
  BY <1>1 DEF Larger
<1>3. fits \in Nat
  <2> HIDE DEF room
  <2>1. room \div unit \in Nat
    BY <1>2
  <2> DEFINE q == room \div unit
  <2> HIDE DEF q
  <2>2. q \in Nat => unit * q \in Nat
    OBVIOUS
  <2>3. QED
    BY <2>1, <2>2 DEF q
<1>4. st = IF fits = 0 THEN [rc |-> IF n = 0 THEN 0 ELSE -2, img |-> image]
           ELSE [rc |-> IF fits = n THEN res.rc ELSE -2, img |-> res.img]
  BY Zenon DEF Store, WriteBytes
<1> HIDE DEF st, fits
<1>5. CASE fits = 0
  <2>1. st = [rc |-> IF n = 0 THEN 0 ELSE -2, img |-> image]
    BY <1>4, <1>5
  <2>2. st.rc = 0 => n = 0
    BY <2>1
  <2>3. QED
    BY <1>1, <2>1, <2>2, NothingLaid DEF Written, st
<1>6. CASE fits # 0
  <2>1. len \in Nat /\ len > 0 /\ len <= DiskMax + 1 /\ 2 * len <= AddrMod
    BY <1>3, <1>6, Widths
  <2> HIDE DEF len
  <2>2. Written(image, cur.loc, len, res)
    BY <2>1, DataWritten
  <2> HIDE DEF res
  <2>3. st = [rc |-> IF fits = n THEN res.rc ELSE -2, img |-> res.img]
    BY <1>4, <1>6
  <2>4. ASSUME st.rc = 0
        PROVE  LaidBy(image, cur.loc, n, st.img)
    <3>1. fits = n /\ res.rc = 0
      BY <2>3, <2>4
    <3>2. LaidBy(image, cur.loc, len, res.img) /\ SinkOK(res.img)
      BY <2>2, <3>1 DEF Written
    <3>3. cur.loc + len <= Len(res.img.file)
      BY <2>1, <3>2 DEF LaidBy
    <3>4. Len(res.img.file) \in Nat /\ Len(res.img.file) <= DiskMax
      BY <3>2, SinkFacts
    <3>5. len <= DiskMax
      BY <1>1, <2>1, <3>3, <3>4, Widths
    <3>6. len = n
      BY <1>3, <3>1, <3>5, Widths DEF len
    <3>7. QED
      BY <2>3, <3>2, <3>6
  <2>5. QED
    BY <2>2, <2>3, <2>4 DEF Written, st
<1>7. QED
  BY <1>5, <1>6
-----------------------------------------------------------------------------
(* The types, as an invariant: TypeOK except for what IInv says already,   *)
(* the structures, and the size of the file.                               *)
Typed ==
  /\ opts \in Options
  /\ cur \in CursorSet
  /\ layout \in Seq(CursorSet)
  /\ \A n \in DOMAIN labels : labels[n] \in Offset
  /\ StructuresOK(structs)
  /\ slot \in 0 .. 2
  /\ SinkOK(image)
  /\ warned \subseteq {4120, 4121, 4900}
  /\ status \in {"running", "done", "failed", "stopped", "crashed"}

LEMMA Switches ==
  ASSUME opts \in Options
  PROVE  opts.large \in BOOLEAN /\ opts.past \in BOOLEAN
<1>1. \A o \in Options : {o.stopOver, o.stopFirst, o.large, o.past} \subseteq BOOLEAN
  BY Zenon, AssemblerAssumption
<1>2. QED
  BY <1>1

LEMMA CursorFacts ==
  ASSUME NEW c \in CursorSet
  PROVE  /\ c.loc \in Offset /\ c.offset \in Offset /\ c.warn \in Offset
         /\ c.galign \in Offset /\ c.stack \in Seq(Offset) /\ c.scope \in NameSet
         /\ c.loc \in Nat /\ c.offset \in Nat
  BY DEF CursorSet, NameSet, Offset

LEMMA CursorMade ==
  ASSUME NEW loc \in Offset, NEW offset \in Offset, NEW warn \in Offset,
         NEW galign \in Offset, NEW stack \in Seq(Offset), NEW scope \in NameSet
  PROVE  At(loc, offset, warn, galign, stack, scope) \in CursorSet
  BY DEF At, CursorSet, NameSet

LEMMA ZeroOffset == 0 \in Offset /\ NoBound \in Offset
  BY Widths DEF Offset, NoBound

LEMMA VmaOffset ==
  ASSUME NEW c \in CursorSet
  PROVE  Vma(c) \in Offset
<1>1. c.loc + c.offset \in Int
  BY CursorFacts
<1>2. QED
  BY <1>1, AnyOffset DEF Vma

LEMMA HereTyped ==
  ASSUME Typed, LineOK(line)
  PROVE  here \in CursorSet /\ here.loc = cur.loc
<1> DEFINE warn  == IF Overline(cur) THEN NoBound ELSE cur.warn
           scope == IF Labelled(line) /\ ~Local(line.label) THEN line.label ELSE cur.scope
<1>1. cur \in CursorSet /\ line.label \in NameSet
  BY DEF Typed, LineOK
<1>2. warn \in Offset /\ scope \in NameSet
  BY <1>1, CursorFacts, ZeroOffset
<1>3. here = At(cur.loc, cur.offset, warn, cur.galign, cur.stack, scope)
  BY DEF here, Entered
<1> HIDE DEF warn, scope
<1>4. here \in CursorSet
  BY <1>1, <1>2, <1>3, CursorFacts, CursorMade
<1>5. here.loc = cur.loc
  BY <1>3 DEF At
<1>6. QED
  BY <1>4, <1>5

LEMMA MovedTyped ==
  ASSUME NEW c \in CursorSet, NEW n \in Int
  PROVE  Moved(c, n) \in CursorSet /\ Moved(c, n).loc = (c.loc + n) % AddrMod
<1>1. c.loc + n \in Int
  BY CursorFacts
<1>2. (c.loc + n) % AddrMod \in Offset
  BY <1>1, AnyOffset
<1>3. Moved(c, n) \in CursorSet
  BY <1>2, CursorFacts, CursorMade DEF Moved
<1>4. QED
  BY <1>3 DEF Moved, At

LEMMA AlignedTyped ==
  ASSUME NEW c \in CursorSet, NEW mask \in Offset
  PROVE  Aligned(c, mask) \in CursorSet
<1>1. c.loc + mask \in Int
  BY CursorFacts DEF Offset
<1>2. (c.loc + mask) % AddrMod \in Offset
  BY <1>1, AnyOffset
<1>3. \A x, m \in Offset : AndNot(x, m) \in Offset
  BY Zenon, AssemblerAssumption
<1>4. AndNot((c.loc + mask) % AddrMod, mask) \in Offset
  BY <1>2, <1>3
<1>5. QED
  BY <1>4, CursorFacts, CursorMade DEF Aligned

LEMMA PaddedTyped ==
  ASSUME NEW c \in CursorSet
  PROVE  Padded(c) \in CursorSet
  BY AlignedTyped, CursorFacts DEF Padded

LEMMA AligningTyped ==
  ASSUME NEW c \in CursorSet, NEW mask \in Offset
  PROVE  Aligning(c, mask) \in CursorSet
  BY CursorFacts, CursorMade DEF Aligning

LEMMA RestackedTyped ==
  ASSUME NEW c \in CursorSet, NEW loc \in Offset, NEW stack \in Seq(Offset)
  PROVE  Restacked(c, loc, stack) \in CursorSet
  BY CursorFacts, CursorMade DEF Restacked

LEMMA LocatedTyped ==
  ASSUME NEW l, LineOK(l), l.op \in Moving, NEW c \in CursorSet, LocationOk(l)
  PROVE  Located(l, c) \in CursorSet
<1> DEFINE loc  == IF l.op = "vma" THEN (l.arg - c.offset) % AddrMod ELSE l.arg
           warn == IF ~l.bounded THEN NoBound
                   ELSE CASE l.op = "loc"  -> l.bound
                          [] l.op = "bloc" -> (l.arg + l.bound) % AddrMod
                          [] l.op = "vma"  -> (l.bound - c.offset) % AddrMod
<1>1. l.bounded \in BOOLEAN /\ l.arg \in Offset /\ l.bound \in Offset
      /\ l.arg \in Int /\ l.bound \in Int /\ c.offset \in Int
  BY CursorFacts DEF LineOK, Moving, Offset
<1>2. /\ (l.arg - c.offset) % AddrMod \in Offset
      /\ (l.arg + l.bound) % AddrMod \in Offset
      /\ (l.bound - c.offset) % AddrMod \in Offset
  <2>1. l.arg - c.offset \in Int /\ l.arg + l.bound \in Int /\ l.bound - c.offset \in Int
    BY <1>1
  <2>2. QED
    BY <2>1, AnyOffset
<1>3. loc \in Offset
  BY <1>1, <1>2
<1>4. warn \in Offset
  <2>1. CASE ~l.bounded
    BY <2>1, ZeroOffset
  <2>2. CASE l.bounded /\ l.op = "loc"
    BY <1>1, <2>2
  <2>3. CASE l.bounded /\ l.op = "bloc"
    BY <1>2, <2>3
  <2>4. CASE l.bounded /\ l.op = "vma"
    BY <1>2, <2>4
  <2>5. QED
    BY <1>1, <2>1, <2>2, <2>3, <2>4 DEF Moving
<1>5. Located(l, c) = At(loc, c.offset, warn, c.galign, c.stack, c.scope)
  BY DEF Located
<1> HIDE DEF loc, warn
<1>6. QED
  BY <1>3, <1>4, <1>5, CursorFacts, CursorMade

LEMMA LabelsTyped ==
  ASSUME Typed
  PROVE  \A n \in DOMAIN LabelsAt(line, cur) : LabelsAt(line, cur)[n] \in Offset
  BY VmaOffset DEF Typed, LabelsAt

LEMMA IsPrepared ==
  ASSUME IInv, Typed, Reading
  PROVE  /\ Prepared /\ opts.large \in BOOLEAN /\ opts.past \in BOOLEAN
         /\ pass \in {1, 2} /\ here \in CursorSet /\ here.loc = cur.loc
<1>1. script \in Scripts /\ pc \in 1 .. Len(script) /\ pc \in Nat /\ pass \in {1, 2}
  BY AtALine
<1>2. LineOK(line)
  BY <1>1, LineIsOK
<1>3. cur \in CursorSet /\ cur.loc \in Offset /\ cur.loc + cur.offset \in Int
  BY CursorFacts DEF Typed
<1> DEFINE env == Env(cur.loc)
<1>4. /\ env.loc = cur.loc /\ env.vma = (cur.loc + cur.offset) % AddrMod
      /\ env.labels = LabelsAt(line, cur) /\ env.structs = structs
  BY DEF Env
<1> HIDE DEF env
<1>5. EnvOK(env)
  BY <1>3, <1>4, AnyOffset, LabelsTyped DEF EnvOK, Typed
<1>6. Prepared
  BY <1>1, <1>2, <1>3, <1>5 DEF Prepared, Typed, env
<1>7. QED
  BY <1>1, <1>2, <1>6, HereTyped, Switches DEF Typed
-----------------------------------------------------------------------------
(* How a line ends in either pass: to its end, when n bytes of its own lie *)
(* at its location unless it was an error, or given up.                    *)
FootLen(n) ==
  IF line.op = "text" THEN n = Width(line)
  ELSE IF line.op \in {"data", "space", "insn"}
  THEN cur'.loc = (cur.loc + n) % AddrMod
  ELSE n = 0

LaysFile ==
  pass # 1 =>
    \E n \in Nat : /\ FootLen(n)
                   /\ \/ LaidBy(image, cur.loc, n, image')
                      \/ ~opts.large /\ Exchanged(image')

Lays ==
  \/ /\ \E c \in CursorSet, e \in Nat, ws \in SUBSET {4120} :
          EndLine(c, e, ws) /\ (e = 0 => LaysFile)
     /\ SinkOK(image') /\ slot' \in 0 .. 2 /\ StructuresOK(structs')
     /\ IF pass = 1 THEN image' = image ELSE structs' = structs
  \/ \E how \in {"stopped", "crashed"} : \E img : SinkOK(img) /\ Abort(how, img)

(* A line that writes nothing. *)
LEMMA PlainLays ==
  ASSUME IInv, Typed, Reading, NEW c \in CursorSet, NEW e \in Nat, NEW ws \in SUBSET {4120},
         EndLine(c, e, ws), image' = image, slot' \in 0 .. 2, StructuresOK(structs'),
         pass # 1 => structs' = structs,
         e = 0 => pass = 1 \/ line.op \notin {"text", "data", "space", "insn"}
  PROVE  Lays
<1>1. SinkOK(image') /\ SinkOK(image) /\ cur.loc \in Offset
  BY CursorFacts DEF Typed
<1>2. ASSUME e = 0
      PROVE  LaysFile
  <2>1. CASE pass = 1
    BY <2>1 DEF LaysFile
  <2>2. CASE pass # 1
    <3>1. FootLen(0)
      BY <1>2, <2>2 DEF FootLen
    <3>2. LaidBy(image, cur.loc, 0, image')
      BY <1>1, NothingLaid
    <3>3. QED
      BY <2>2, <3>1, <3>2 DEF LaysFile
  <2>3. QED
    BY <2>1, <2>2
<1>3. QED
  BY <1>1, <1>2 DEF Lays

LEMMA AbortLays ==
  ASSUME Typed, NEW how \in {"stopped", "crashed"}, Abort(how, image)
  PROVE  Lays
  BY DEF Lays, Typed

(* A directive that writes n bytes in pass 2. *)
LEMMA EmitLays ==
  ASSUME IInv, Typed, Reading, pass = 2, NEW n \in Nat, NEW unit \in Nat \ {0},
         NEW e \in Nat, NEW c \in CursorSet, EmitBytes(n, unit, e, c),
         \/ line.op = "text" /\ n = Width(line)
         \/ line.op \in {"data", "space"} /\ c.loc = (cur.loc + n) % AddrMod
  PROVE  Lays
<1> DEFINE res == Store(cur.loc, n, unit)
<1>1. Prepared /\ opts.past \in BOOLEAN
  BY IsPrepared
<1>2. Written(image, cur.loc, n, res)
  BY <1>1, StoreOK
<1>3. \/ res.rc = 0 /\ EndLine(c, e, {}) /\ image' = res.img /\ structs' = structs /\ slot' = slot
      \/ res.rc # 0 /\ Abort("stopped", res.img)
  BY Zenon DEF EmitBytes
<1> HIDE DEF res
<1>4. CASE res.rc = 0 /\ EndLine(c, e, {}) /\ image' = res.img /\ structs' = structs /\ slot' = slot
  <2>1. cur' = c
    BY <1>4 DEF EndLine
  <2>2. FootLen(n)
    BY <2>1 DEF FootLen
  <2>3. LaysFile
    BY <1>2, <1>4, <2>2 DEF LaysFile, Written
  <2>4. SinkOK(image') /\ slot' \in 0 .. 2 /\ StructuresOK(structs') /\ structs' = structs
    BY <1>2, <1>4 DEF Written, Typed
  <2>5. {} \in SUBSET {4120}
    OBVIOUS
  <2>6. QED
    BY <1>4, <2>3, <2>4, <2>5 DEF Lays
<1>5. CASE res.rc # 0 /\ Abort("stopped", res.img)
  <2>1. SinkOK(res.img)
    BY <1>2 DEF Written
  <2>2. QED
    BY <1>5, <2>1 DEF Lays
<1>6. QED
  BY <1>3, <1>4, <1>5

LEMMA DataLays ==
  ASSUME IInv, Typed, ReadData
  PROVE  Lays
<1>1. Reading /\ line.op = "data"
  BY Zenon DEF ReadData, Handle
<1>2. Prepared /\ here \in CursorSet /\ here.loc = cur.loc /\ pass \in {1, 2}
  BY <1>1, IsPrepared
<1>3. line.width \in Nat \ {0} /\ line.items \in Seq(ExprSet) /\ Len(line.items) \in Nat
  BY <1>1, <1>2, LenProperties DEF Prepared, LineOK
<1>4. slot \in 0 .. 2 /\ StructuresOK(structs)
  BY DEF Typed
<1>5. CASE pass = 1
  <2> DEFINE n == line.width * Len(line.items)
  <2>1. EndLine(Moved(here, n), 0, {}) /\ UNCHANGED <<structs, slot, image>>
    BY Zenon, <1>5 DEF ReadData
  <2>2. n \in Int
    BY <1>3
  <2> HIDE DEF n
  <2>3. Moved(here, n) \in CursorSet /\ {} \in SUBSET {4120} /\ 0 \in Nat
    BY <1>2, <2>2, MovedTyped
  <2>4. QED
    BY <1>1, <1>4, <1>5, <2>1, <2>3, PlainLays
<1>6. CASE pass = 2
  <2> DEFINE len   == Len(line.items)
             locOf == [i \in 1 .. len |-> (cur.loc + (i - 1) * line.width) % AddrMod]
             good  == Leading(line.items, locOf)
             n     == line.width * good
             e     == IF good = len THEN 0 ELSE 1
  <2>1. EmitBytes(n, line.width, e, Moved(here, n))
    <3>1. pass # 1
      BY <1>6
    <3>2. QED
      BY Zenon, <3>1 DEF ReadData
  <2> HIDE DEF locOf
  <2>2. good \in Nat
    BY <1>3, LeadingOnes
  <2> HIDE DEF good
  <2>3. n \in Nat /\ e \in Nat
    BY <1>3, <2>2
  <2> HIDE DEF n, e
  <2>4. Moved(here, n) \in CursorSet /\ Moved(here, n).loc = (cur.loc + n) % AddrMod
    BY <1>2, <2>3, MovedTyped
  <2>5. QED
    BY <1>1, <1>3, <1>6, <2>1, <2>3, <2>4, EmitLays
<1>7. QED
  BY <1>2, <1>5, <1>6

LEMMA SpaceLays ==
  ASSUME IInv, Typed, ReadSpace
  PROVE  Lays
<1> DEFINE env == Env(cur.loc)
           n   == ExprValue(line.arg, env)
<1>1. Reading /\ line.op = "space"
  BY Zenon DEF ReadSpace, Handle
<1>2. Prepared /\ here \in CursorSet /\ here.loc = cur.loc /\ pass \in {1, 2}
  BY <1>1, IsPrepared
<1>3. slot \in 0 .. 2 /\ StructuresOK(structs) /\ {} \in SUBSET {4120} /\ 0 \in Nat /\ 1 \in Nat
  BY DEF Typed
<1>4. \/ EndLine(here, 1, {}) /\ UNCHANGED <<structs, slot, image>>
      \/ /\ Evaluates(line.arg, env) /\ ~ (n < 0)
         /\ \/ pass = 1 /\ EndLine(Moved(here, n), 0, {}) /\ UNCHANGED <<structs, slot, image>>
            \/ pass # 1 /\ EmitBytes(n, Chunk, 0, Moved(here, n))
  BY Zenon DEF ReadSpace
<1>5. CASE EndLine(here, 1, {}) /\ UNCHANGED <<structs, slot, image>>
  <2>1. 1 # 0
    OBVIOUS
  <2>2. QED
    BY <1>1, <1>2, <1>3, <1>5, <2>1, PlainLays
<1>6. ASSUME Evaluates(line.arg, env), ~ (n < 0)
      PROVE  n \in Nat
  <2>1. line.arg \in ExprSet /\ EnvOK(env)
    BY <1>1, <1>2 DEF Prepared, LineOK
  <2>2. n \in Int
    BY <1>6, <2>1, ValueIsInt
  <2> HIDE DEF n
  <2>3. QED
    BY <1>6, <2>2
<1> HIDE DEF n
<1>7. CASE /\ Evaluates(line.arg, env) /\ ~ (n < 0)
           /\ \/ pass = 1 /\ EndLine(Moved(here, n), 0, {}) /\ UNCHANGED <<structs, slot, image>>
              \/ pass # 1 /\ EmitBytes(n, Chunk, 0, Moved(here, n))
  <2>1. n \in Nat /\ n \in Int
    BY <1>6, <1>7
  <2>2. Moved(here, n) \in CursorSet /\ Moved(here, n).loc = (cur.loc + n) % AddrMod
    BY <1>2, <2>1, MovedTyped
  <2>3. Chunk \in Nat \ {0}
    BY Widths
  <2>4. CASE pass = 1 /\ EndLine(Moved(here, n), 0, {}) /\ UNCHANGED <<structs, slot, image>>
    BY <1>1, <1>3, <2>2, <2>4, PlainLays
  <2>5. CASE pass # 1 /\ EmitBytes(n, Chunk, 0, Moved(here, n))
    BY <1>1, <1>2, <1>3, <2>1, <2>2, <2>3, <2>5, EmitLays
  <2>6. QED
    BY <1>7, <2>4, <2>5
<1>8. QED
  BY <1>4, <1>5, <1>7

LEMMA TextLays ==
  ASSUME IInv, Typed, ReadText
  PROVE  Lays
<1> DEFINE n == line.chars + (IF line.zero THEN 1 ELSE 0)
           c == Padded(Moved(here, n))
<1>1. Reading /\ line.op = "text"
  BY Zenon DEF ReadText, Handle
<1>2. Prepared /\ here \in CursorSet /\ pass \in {1, 2}
  BY <1>1, IsPrepared
<1>3. slot \in 0 .. 2 /\ StructuresOK(structs) /\ {} \in SUBSET {4120} /\ 1 \in Nat \ {0}
  BY DEF Typed
<1>4. n \in Nat /\ line.faults \in Nat /\ n = Width(line)
  BY <1>1, <1>2 DEF Prepared, LineOK, Width
<1>5. \/ pass = 1 /\ EndLine(c, line.faults, {}) /\ UNCHANGED <<structs, slot, image>>
      \/ pass # 1 /\ EmitBytes(n, 1, line.faults, c)
  BY Zenon DEF ReadText
<1> HIDE DEF n
<1>6. c \in CursorSet
  <2>1. Moved(here, n) \in CursorSet
    BY <1>2, <1>4, MovedTyped
  <2>2. QED
    BY <2>1, PaddedTyped
<1> HIDE DEF c
<1>7. CASE pass = 1 /\ EndLine(c, line.faults, {}) /\ UNCHANGED <<structs, slot, image>>
  BY <1>1, <1>3, <1>4, <1>6, <1>7, PlainLays
<1>8. CASE pass # 1 /\ EmitBytes(n, 1, line.faults, c)
  BY <1>1, <1>2, <1>3, <1>4, <1>6, <1>8, EmitLays
<1>9. QED
  BY <1>5, <1>7, <1>8
LEMMA NothingLays ==
  ASSUME IInv, Typed, \/ ReadNothing \/ ReadUnknownDirective \/ ReadQword
                      \/ StopInPrelude \/ ReadTextWithoutQuote \/ RefuseInstruction
  PROVE  Lays
<1>1. CASE ReadNothing
  <2>1. /\ Reading /\ line.op = "none" /\ EndLine(here, 0, {})
        /\ image' = image /\ slot' = slot /\ structs' = structs
    BY Zenon, <1>1 DEF ReadNothing, Handle
  <2>2. here \in CursorSet /\ slot \in 0 .. 2 /\ StructuresOK(structs)
    BY <2>1, IsPrepared DEF Typed
  <2>3. {} \in SUBSET {4120} /\ 0 \in Nat /\ line.op \notin {"text", "data", "space", "insn"}
    BY <2>1
  <2>4. QED
    BY <2>1, <2>2, <2>3, PlainLays
<1>2. CASE ReadUnknownDirective
  <2>1. /\ Reading /\ EndLine(here, 1, {})
        /\ image' = image /\ slot' = slot /\ structs' = structs
    BY Zenon, <1>2 DEF ReadUnknownDirective, Handle
  <2>2. here \in CursorSet /\ slot \in 0 .. 2 /\ StructuresOK(structs)
    BY <2>1, IsPrepared DEF Typed
  <2>3. {} \in SUBSET {4120} /\ 1 \in Nat /\ 1 # 0
    OBVIOUS
  <2>4. QED
    BY <2>1, <2>2, <2>3, PlainLays
<1>3. CASE ReadQword \/ StopInPrelude \/ ReadTextWithoutQuote \/ RefuseInstruction
  <2>1. Abort("stopped", image) \/ Abort("crashed", image)
    BY Zenon, <1>3 DEF ReadQword, StopInPrelude, ReadTextWithoutQuote, RefuseInstruction
  <2>2. QED
    BY <2>1, AbortLays
<1>4. QED
  BY <1>1, <1>2, <1>3

LEMMA GalignLays ==
  ASSUME IInv, Typed, ReadGalign
  PROVE  Lays
<1>1. Reading /\ line.op = "galign"
  BY Zenon DEF ReadGalign, Handle
<1>2. here \in CursorSet /\ line.arg \in Offset
  BY <1>1, IsPrepared DEF Prepared, LineOK
<1>3. /\ slot \in 0 .. 2 /\ StructuresOK(structs) /\ {} \in SUBSET {4120}
      /\ line.op \notin {"text", "data", "space", "insn"} /\ 0 \in Nat /\ 1 \in Nat
  BY <1>1 DEF Typed
<1>4. \/ Abort("stopped", image)
      \/ /\ line.arg # 0 /\ EndLine(Aligning(here, line.arg - 1), 0, {})
         /\ image' = image /\ slot' = slot /\ structs' = structs
      \/ /\ EndLine(here, 1, {})
         /\ image' = image /\ slot' = slot /\ structs' = structs
  BY Zenon DEF ReadGalign
<1>5. ASSUME line.arg # 0
      PROVE  Aligning(here, line.arg - 1) \in CursorSet
  <2>1. line.arg - 1 \in Offset
    BY <1>2, <1>5, Widths DEF Offset
  <2>2. QED
    BY <1>2, <2>1, AligningTyped
<1>6. QED
  BY <1>1, <1>2, <1>3, <1>4, <1>5, AbortLays, PlainLays

LEMMA StructLays ==
  ASSUME IInv, Typed, ReadStruct
  PROVE  Lays
<1> DEFINE e == (IF line.badtype THEN 1 ELSE 0) + (IF line.fields = <<>> THEN 1 ELSE 0)
           new == [s \in DOMAIN structs \cup {line.name} |->
                     IF s = line.name THEN line.fields ELSE structs[s]]
<1>1. Reading /\ line.op = "struct" /\ image' = image /\ slot' = slot
  BY Zenon DEF ReadStruct, Handle
<1>2. here \in CursorSet /\ line.fields \in Structure
  BY <1>1, IsPrepared DEF Prepared, LineOK
<1>3. /\ slot \in 0 .. 2 /\ StructuresOK(structs) /\ {} \in SUBSET {4120}
      /\ line.op \notin {"text", "data", "space", "insn"} /\ 0 \in Nat /\ 1 \in Nat /\ e \in Nat
  BY <1>1 DEF Typed
<1>4. StructuresOK(new)
  BY <1>2, <1>3 DEF StructuresOK
<1>5. \/ EndLine(here, 0, {}) /\ structs' = structs
      \/ EndLine(here, 1, {}) /\ structs' = structs
      \/ EndLine(here, e, {}) /\ (structs' = structs \/ structs' = new)
  BY Zenon DEF ReadStruct
<1>6. StructuresOK(structs')
  BY <1>3, <1>4, <1>5
<1>7. pass # 1 => structs' = structs
  <2>1. pass \in {1, 2}
    BY <1>1, AtALine
  <2>2. pass = 2 => structs' = structs
    BY Zenon DEF ReadStruct
  <2>3. QED
    BY <2>1, <2>2
<1> HIDE DEF e, new
<1>8. QED
  BY <1>1, <1>2, <1>3, <1>5, <1>6, <1>7, PlainLays

LEMMA RelocateLays ==
  ASSUME IInv, Typed, Reading, line.op \notin {"text", "data", "space", "insn"},
         NEW c \in CursorSet, NEW e \in Nat, Relocate(c, e)
  PROVE  Lays
<1> DEFINE ws == IF slot > 0 THEN {4120} ELSE {}
<1>1. EndLine(c, e, ws) /\ slot' = 0 /\ structs' = structs /\ image' = image
  BY Zenon DEF Relocate
<1>2. ws \in SUBSET {4120}
  OBVIOUS
<1> HIDE DEF ws
<1>3. slot' \in 0 .. 2 /\ StructuresOK(structs')
  BY <1>1 DEF Typed
<1>4. QED
  BY <1>1, <1>2, <1>3, PlainLays

LEMMA AlignLays ==
  ASSUME IInv, Typed, ReadAlign
  PROVE  Lays
<1> DEFINE a == IF line.ok THEN line.arg ELSE 0
           e == (IF line.ok THEN 0 ELSE 1) + (IF a = 0 \/ AndNot(a, a - 1) # a THEN 1 ELSE 0)
<1>1. Reading /\ line.op = "align" /\ Relocate(Aligned(here, (a - 1) % AddrMod), e)
  BY Zenon DEF ReadAlign, Handle
<1>2. here \in CursorSet /\ line.arg \in Offset
  BY <1>1, IsPrepared DEF Prepared, LineOK
<1>3. a - 1 \in Int
  BY <1>2 DEF Offset
<1>4. (a - 1) % AddrMod \in Offset
  BY <1>3, AnyOffset
<1>5. Aligned(here, (a - 1) % AddrMod) \in CursorSet
  BY <1>2, <1>4, AlignedTyped
<1>6. e \in Nat
  OBVIOUS
<1> HIDE DEF a, e
<1>7. line.op \notin {"text", "data", "space", "insn"}
  BY <1>1
<1>8. QED
  BY <1>1, <1>5, <1>6, <1>7, RelocateLays

LEMMA OffsetLays ==
  ASSUME IInv, Typed, ReadOffset
  PROVE  Lays
<1> DEFINE c == At(here.loc, line.arg, here.warn, here.galign, here.stack, here.scope)
<1>1. /\ Reading /\ line.op = "offset" /\ image' = image /\ slot' = slot /\ structs' = structs
      /\ EndLine(c, 0, {}) \/ EndLine(here, 1, {})
  BY Zenon DEF ReadOffset, Handle
<1>2. here \in CursorSet /\ line.arg \in Offset
  BY <1>1, IsPrepared DEF Prepared, LineOK
<1>3. c \in CursorSet
  BY <1>2, CursorFacts, CursorMade
<1> HIDE DEF c
<1>4. /\ slot \in 0 .. 2 /\ StructuresOK(structs) /\ {} \in SUBSET {4120}
      /\ line.op \notin {"text", "data", "space", "insn"} /\ 0 \in Nat /\ 1 \in Nat
  BY <1>1 DEF Typed
<1>5. QED
  BY <1>1, <1>2, <1>3, <1>4, PlainLays

LEMMA LocationLays ==
  ASSUME IInv, Typed, ReadLocation
  PROVE  Lays
<1>1. /\ Reading /\ line.op \in Moving
      /\ \/ LocationOk(line) /\ Relocate(Located(line, here), 0)
         \/ Relocate(here, 1)
  BY Zenon DEF ReadLocation, Handle, Moving
<1>2. here \in CursorSet /\ LineOK(line)
  BY <1>1, IsPrepared DEF Prepared
<1>3. line.op \notin {"text", "data", "space", "insn"} /\ 0 \in Nat /\ 1 \in Nat
  BY <1>1 DEF Moving
<1>4. QED
  BY <1>1, <1>2, <1>3, LocatedTyped, RelocateLays

LEMMA PushLocLays ==
  ASSUME IInv, Typed, ReadPushLoc
  PROVE  Lays
<1> DEFINE stack == <<here.loc>> \o here.stack
           c     == Restacked(here, here.loc, stack)
<1>1. /\ Reading /\ line.op = "pushloc" /\ EndLine(c, 0, {})
      /\ image' = image /\ slot' = slot /\ structs' = structs
  BY Zenon DEF ReadPushLoc, Handle
<1>2. here \in CursorSet
  BY <1>1, IsPrepared
<1>3. here.loc \in Offset /\ here.stack \in Seq(Offset)
  BY <1>2, CursorFacts
<1>4. <<here.loc>> \in Seq(Offset)
  BY <1>3
<1>5. stack \in Seq(Offset)
  BY <1>3, <1>4, ConcatProperties
<1> HIDE DEF stack
<1>6. c \in CursorSet
  BY <1>2, <1>3, <1>5, RestackedTyped
<1> HIDE DEF c
<1>7. /\ slot \in 0 .. 2 /\ StructuresOK(structs) /\ {} \in SUBSET {4120}
      /\ line.op \notin {"text", "data", "space", "insn"} /\ 0 \in Nat
  BY <1>1 DEF Typed
<1>8. QED
  BY <1>1, <1>6, <1>7, PlainLays

LEMMA PopLocLays ==
  ASSUME IInv, Typed, ReadPopLoc
  PROVE  Lays
<1> DEFINE stack == here.stack
           c     == Restacked(here, Head(stack), Tail(stack))
<1>1. /\ Reading /\ line.op = "poploc"
      /\ \/ Relocate(here, 1)
         \/ stack # <<>> /\ Relocate(c, 0)
  BY Zenon DEF ReadPopLoc, Handle
<1>2. here \in CursorSet
  BY <1>1, IsPrepared
<1>3. stack \in Seq(Offset)
  BY <1>2, CursorFacts
<1> HIDE DEF stack
<1>4. ASSUME stack # <<>>
      PROVE  c \in CursorSet
  <2>1. Head(stack) \in Offset /\ Tail(stack) \in Seq(Offset)
    BY <1>3, <1>4, HeadTailProperties
  <2>2. QED
    BY <1>2, <2>1, RestackedTyped
<1> HIDE DEF c
<1>5. line.op \notin {"text", "data", "space", "insn"} /\ 0 \in Nat /\ 1 \in Nat
  BY <1>1
<1>6. QED
  BY <1>1, <1>2, <1>4, <1>5, RelocateLays

LEMMA ReserveLays ==
  ASSUME IInv, Typed, ReserveInstruction
  PROVE  Lays
<1> DEFINE n == AsmLen(line, structs)
<1>1. /\ Reading /\ pass = 1 /\ image' = image /\ slot' = slot /\ structs' = structs
      /\ \/ EndLine(here, 1, {})
         \/ n # -1 /\ EndLine(Moved(here, n), 0, {})
  BY Zenon DEF ReserveInstruction, Handle
<1>2. here \in CursorSet
  BY <1>1, IsPrepared
<1>3. slot \in 0 .. 2 /\ StructuresOK(structs) /\ {} \in SUBSET {4120} /\ 0 \in Nat /\ 1 \in Nat
  BY DEF Typed
<1>4. n \in Nat \cup {-1}
  BY <1>3, AsmLenIs
<1> HIDE DEF n
<1>5. n \in Int
  BY <1>4
<1>6. Moved(here, n) \in CursorSet
  BY <1>2, <1>5, MovedTyped
<1>7. QED
  BY <1>1, <1>2, <1>3, <1>6, PlainLays

LEMMA EmitInstructionLays ==
  ASSUME IInv, Typed, EmitInstruction
  PROVE  Lays
<1>1. Reading /\ line.op = "insn" /\ pass = 2
  BY Zenon DEF EmitInstruction, Handle
<1>2. /\ Prepared /\ opts.large \in BOOLEAN /\ here \in CursorSet /\ here.loc = cur.loc
      /\ cur.loc \in Offset
  BY <1>1, IsPrepared DEF Prepared
<1>3. PICK g \in (IF line.wf THEN {0} ELSE Garbage), taken \in BOOLEAN :
        /\ \/ Mkasm(g, taken).ret = -1 /\ EndLine(here, 1, {})
           \/ Mkasm(g, taken).ret # -1 /\ EndLine(Moved(here, Mkasm(g, taken).ret), 0, {})
        /\ image' = Mkasm(g, taken).img /\ slot' = Mkasm(g, taken).slot /\ structs' = structs
  BY Zenon DEF EmitInstruction
<1>4. g \in Int
  BY Widths
<1> DEFINE r == Mkasm(g, taken)
<1>5. ResultOK(r)
  BY <1>1, <1>2, <1>4, MkasmOK
<1> HIDE DEF r
<1>6. SinkOK(image') /\ slot' \in 0 .. 2 /\ StructuresOK(structs') /\ structs' = structs
  BY <1>3, <1>5 DEF ResultOK, Typed, r
<1>7. {} \in SUBSET {4120} /\ 0 \in Nat /\ 1 \in Nat /\ 1 # 0
  OBVIOUS
<1>8. CASE EndLine(here, 1, {})
  BY <1>1, <1>2, <1>6, <1>7, <1>8 DEF Lays
<1>9. CASE r.ret # -1 /\ EndLine(Moved(here, r.ret), 0, {})
  <2>1. r.ret \in Nat /\ r.ret \in Int
    BY <1>5, <1>9 DEF ResultOK
  <2>2. /\ Moved(here, r.ret) \in CursorSet
        /\ Moved(here, r.ret).loc = (cur.loc + r.ret) % AddrMod
    BY <1>2, <2>1, MovedTyped
  <2>3. cur' = Moved(here, r.ret)
    BY <1>9 DEF EndLine
  <2>4. FootLen(r.ret)
    BY <1>1, <2>2, <2>3 DEF FootLen
  <2>5. \/ LaidBy(image, cur.loc, r.ret, image')
        \/ ~opts.large /\ Exchanged(image')
    BY <1>3, <1>5, <1>9 DEF ResultOK, r
  <2>6. LaysFile
    BY <1>1, <2>1, <2>4, <2>5 DEF LaysFile
  <2>7. QED
    BY <1>1, <1>6, <1>7, <1>9, <2>2, <2>6 DEF Lays
<1>10. QED
  BY <1>3, <1>8, <1>9 DEF r

(* The word moved before a crash is the one before the slot, as it is.     *)
LEMMA CrashLays ==
  ASSUME IInv, Typed, CrashInExchange
  PROVE  Lays
<1>1. Reading /\ Exchanges
  BY Zenon DEF CrashInExchange, Handle
<1>2. Prepared
  BY <1>1, IsPrepared
<1>3. SinkOK(image) /\ cur.loc \in Offset
  BY <1>2 DEF Prepared
<1>4. cur.loc >= 4 /\ ImageReadable(image, cur.loc - 4, 4)
  BY <1>1 DEF Exchanges
<1> DEFINE b == Before
<1>5. b \in Block
  BY Zenon, <1>2, <1>4, WordBefore
<1>6. PICK moved \in {WriteBytes(image, cur.loc, b)} : Abort("crashed", moved.img)
  BY Zenon DEF CrashInExchange
<1> HIDE DEF b
<1>7. SinkOK(moved.img)
  BY <1>3, <1>5, <1>6, SinkAfter
<1>8. QED
  BY <1>6, <1>7 DEF Lays

-----------------------------------------------------------------------------
(* Every step but the five below is one of those. *)
LEMMA LinesLay ==
  ASSUME IInv, Typed, Next
  PROVE  (Reading /\ Lays) \/ ReadBlank \/ StartPass2 \/ Finish \/ Stopped
<1> DEFINE Quiet == \/ ReadNothing \/ ReadUnknownDirective \/ ReadQword
                    \/ StopInPrelude \/ ReadTextWithoutQuote \/ RefuseInstruction
           Other == \/ ReadData \/ ReadSpace \/ ReadText \/ ReadGalign \/ ReadStruct
                    \/ ReadAlign \/ ReadOffset \/ ReadLocation \/ ReadPushLoc \/ ReadPopLoc
                    \/ ReserveInstruction \/ EmitInstruction \/ CrashInExchange
<1>1. Quiet \/ Other \/ ReadBlank \/ StartPass2 \/ Finish \/ Stopped
  BY Zenon DEF Next
<1>2. CASE Quiet
  <2>1. Lays
    BY Zenon, <1>2, NothingLays
  <2>2. Reading
    BY Zenon, <1>2 DEF ReadNothing, ReadUnknownDirective, ReadQword, StopInPrelude,
                       ReadTextWithoutQuote, RefuseInstruction, Handle
  <2>3. QED
    BY <2>1, <2>2
<1>3. CASE Other
  <2>1. Lays
    BY Zenon, <1>3, DataLays, SpaceLays, TextLays, GalignLays, StructLays, AlignLays,
       OffsetLays, LocationLays, PushLocLays, PopLocLays, ReserveLays, EmitInstructionLays,
       CrashLays
  <2>2. Reading
    BY Zenon, <1>3 DEF ReadData, ReadSpace, ReadText, ReadGalign, ReadStruct, ReadAlign,
       ReadOffset, ReadLocation, ReadPushLoc, ReadPopLoc, ReserveInstruction,
       EmitInstruction, CrashInExchange, Handle
  <2>3. QED
    BY <2>1, <2>2
<1> HIDE DEF Quiet, Other
<1>4. QED
  BY <1>1, <1>2, <1>3

LEMMA LineTyped ==
  ASSUME Typed, Reading, Lays
  PROVE  Typed'
<1>1. CASE /\ \E c \in CursorSet, e \in Nat, ws \in SUBSET {4120} :
                EndLine(c, e, ws) /\ (e = 0 => LaysFile)
           /\ SinkOK(image') /\ slot' \in 0 .. 2 /\ StructuresOK(structs')
           /\ IF pass = 1 THEN image' = image ELSE structs' = structs
  <2>1. PICK c \in CursorSet, e \in Nat, ws \in SUBSET {4120} : EndLine(c, e, ws)
    BY <1>1
  <2>2. opts' = opts /\ cur' = c
    BY <2>1 DEF EndLine, inputs
  <2>3. layout' \in Seq(CursorSet)
    <3>1. layout' = IF pass = 1 THEN Append(layout, c) ELSE layout
      BY <2>1 DEF EndLine
    <3>2. layout \in Seq(CursorSet)
      BY DEF Typed
    <3>3. Append(layout, c) \in Seq(CursorSet)
      BY <3>2, AppendProperties
    <3>4. QED
      BY <3>1, <3>2, <3>3
  <2>4. \A n \in DOMAIN labels' : labels'[n] \in Offset
    <3>1. labels' = LabelsAt(line, cur)
      BY <2>1 DEF EndLine
    <3>2. QED
      BY <3>1, LabelsTyped
  <2>5. warned' \subseteq {4120, 4121, 4900}
    <3>1. warned' = warned \cup ws \cup (IF Overline(cur) THEN {4900} ELSE {})
      BY <2>1 DEF EndLine
    <3>2. warned \subseteq {4120, 4121, 4900}
      BY DEF Typed
    <3>3. QED
      BY <3>1, <3>2
  <2>6. status' \in {"running", "stopped"}
    <3>1. status' = "stopped" \/ status' = status
      BY <2>1 DEF EndLine
    <3>2. QED
      BY <3>1 DEF Reading
  <2>7. QED
    BY <1>1, <2>2, <2>3, <2>4, <2>5, <2>6 DEF Typed
<1>2. CASE \E how \in {"stopped", "crashed"} : \E img : SinkOK(img) /\ Abort(how, img)
  <2>1. PICK how \in {"stopped", "crashed"} : \E img : SinkOK(img) /\ Abort(how, img)
    BY <1>2
  <2>2. PICK img : SinkOK(img) /\ Abort(how, img)
    BY <2>1
  <2>3. /\ status' = how /\ image' = img /\ opts' = opts /\ cur' = cur /\ layout' = layout
        /\ labels' = labels /\ structs' = structs /\ slot' = slot /\ warned' = warned
    BY <2>2 DEF Abort, inputs, reading, naming
  <2>4. QED
    BY <2>2, <2>3 DEF Typed
<1>3. QED
  BY <1>1, <1>2 DEF Lays

LEMMA OpenedTyped ==
  ASSUME Init
  PROVE  SinkOK(image) /\ Len(image.file) = inputLen /\ inputLen \in Nat
         /\ \A i \in 1 .. inputLen : image.file[i].word.op = "input"
<1> DEFINE file == [i \in 1 .. inputLen |-> [word |-> InputWord, k |-> ((i - 1) % 4) + 1]]
<1>1. InputLens \subseteq 0 .. DiskMax /\ DiskMax \in Nat
  BY Zenon, AssemblerAssumption
<1>2. image = Opened(file) /\ inputLen \in 0 .. DiskMax /\ inputLen \in Nat
  BY <1>1 DEF Init
<1>3. \A i \in 1 .. inputLen : file[i] \in CodeByte
  <2> TAKE i \in 1 .. inputLen
  <2>1. i - 1 \in Int /\ 4 \in Nat /\ 4 > 0
    BY <1>2
  <2>2. ((i - 1) % 4) + 1 \in 1 .. 4
    BY <2>1
  <2>3. InputWord \in Word
    BY DEF InputWord, Word, Ops
  <2>4. QED
    BY <2>2, <2>3 DEF CodeByte
<1>4. \A i \in 1 .. inputLen : file[i].word.op = "input"
  BY DEF InputWord
<1>5. file = [i \in 1 .. inputLen |-> file[i]]
  OBVIOUS
<1> HIDE DEF file
<1>6. file \in Seq(CodeByte) /\ Len(file) = inputLen
  BY <1>2, <1>3, <1>5, IsASeq
<1>7. image.file = file /\ SinkOK(image)
  BY <1>1, <1>2, <1>6 DEF Opened, SinkOK, ImageSet
<1>8. QED
  BY <1>2, <1>4, <1>6, <1>7

LEMMA InitTyped == Init => Typed
<1> SUFFICES ASSUME Init
             PROVE  Typed
  OBVIOUS
<1>1. SinkOK(image)
  BY OpenedTyped
<1>2. Start \in CursorSet
  <2>1. <<>> \in Seq(Offset) /\ NoName \in NameSet
    BY DEF NoName, NameSet
  <2>2. QED
    BY <2>1, ZeroOffset, CursorMade DEF Start
<1>3. cur \in CursorSet /\ layout \in Seq(CursorSet)
  BY <1>2 DEF Init
<1>4. \A n \in DOMAIN labels : labels[n] \in Offset
  BY DEF Init
<1>5. StructuresOK(structs)
  BY DEF Init, StructuresOK
<1>6. QED
  BY <1>1, <1>3, <1>4, <1>5 DEF Init, Typed

LEMMA NextTyped == IInv /\ Typed /\ [Next]_vars => Typed'
<1> SUFFICES ASSUME IInv, Typed, [Next]_vars
             PROVE  Typed'
  OBVIOUS
<1>1. CASE UNCHANGED vars
  BY <1>1 DEF Typed, vars, inputs, reading, naming, result
<1>2. CASE Reading /\ Lays
  BY <1>2, LineTyped
<1>3. CASE ReadBlank
  <2>1. /\ opts' = opts /\ cur' = cur /\ labels' = labels /\ structs' = structs
        /\ slot' = slot /\ image' = image /\ warned' = warned /\ status' = status
        /\ layout' = IF pass = 1 THEN Append(layout, cur) ELSE layout
    BY <1>3 DEF ReadBlank, inputs, naming, result
  <2>2. layout \in Seq(CursorSet) /\ cur \in CursorSet
    BY DEF Typed
  <2>3. layout' \in Seq(CursorSet)
    BY <2>1, <2>2, AppendProperties
  <2>4. QED
    BY <2>1, <2>3 DEF Typed
<1>4. CASE StartPass2
  <2>1. /\ opts' = opts /\ cur' = Start /\ labels' = labels /\ structs' = structs
        /\ slot' = slot /\ image' = image /\ warned' = warned /\ status' = status
        /\ layout' = layout
    BY <1>4 DEF StartPass2, inputs, naming, result
  <2>2. Start \in CursorSet
    <3>1. <<>> \in Seq(Offset) /\ NoName \in NameSet
      BY DEF NoName, NameSet
    <3>2. QED
      BY <3>1, ZeroOffset, CursorMade DEF Start
  <2>3. QED
    BY <2>1, <2>2 DEF Typed
<1>5. CASE Finish
  <2>1. /\ opts' = opts /\ cur' = cur /\ labels' = labels /\ structs' = structs
        /\ slot' = slot /\ image' = image /\ layout' = layout
        /\ warned' = (IF slot > 0 THEN warned \cup {4121} ELSE warned)
        /\ status' \in {"done", "failed"}
    BY <1>5 DEF Finish, inputs, reading, naming
  <2>2. warned' \subseteq {4120, 4121, 4900}
    BY <2>1 DEF Typed
  <2>3. QED
    BY <2>1, <2>2 DEF Typed
<1>6. CASE Stopped
  BY <1>6 DEF Stopped, Typed, vars, inputs, reading, naming, result
<1>7. QED
  BY <1>1, <1>2, <1>3, <1>4, <1>5, <1>6, LinesLay

LEMMA TypesFollow == IInv /\ Typed => TypeOK
<1> SUFFICES ASSUME IInv, Typed
             PROVE  TypeOK
  OBVIOUS
<1>1. pass \in {1, 2} /\ pc \in 1 .. Len(script) + 1 /\ errors \in Nat
  BY DEF IInv, Layout
<1>2. globals \subseteq DOMAIN labels
  <2> SUFFICES ASSUME NEW n \in globals
               PROVE  n \in DOMAIN labels
    OBVIOUS
  <2>1. PICK i \in 1 .. Laid : DefinesGlobal(i) /\ script[i].label = n
    BY Zenon DEF IInv, Named
  <2>2. Defines(i) /\ NameOf(i) = n
    <3>1. Defines(i) /\ ~Local(script[i].label)
      BY <2>1 DEF DefinesGlobal
    <3>2. FullName(script[i], layout[i]) = script[i].label
      BY <3>1, GlobalName
    <3>3. QED
      BY <2>1, <3>1, <3>2 DEF NameOf
  <2>3. QED
    BY Zenon, <2>2 DEF IInv, Named
<1>3. image \in ImageSet
  BY DEF Typed, SinkOK
<1>4. QED
  BY <1>1, <1>2, <1>3 DEF Typed, TypeOK

(* Every variable keeps the type it is declared with: the cursor's parts   *)
(* and the labels are addresses, the image is a well-formed sink, and the  *)
(* exported names have a label.                                            *)
THEOREM TypeCorrect == Spec => []TypeOK
<1>1. Init => IInv /\ Typed
  BY InitHolds, InitTyped
<1>2. (IInv /\ Typed) /\ [Next]_vars => (IInv /\ Typed)'
  BY NextPreserves, NextTyped
<1>3. IInv /\ Typed => TypeOK
  BY TypesFollow
<1>4. QED
  BY <1>1, <1>2, <1>3, PTL DEF Spec
-----------------------------------------------------------------------------
(* The file after the first m lines of the second pass: the last line that *)
(* covers a byte has put it there, and no line has changed the others.     *)
AsLaid(k, b, m) ==
  \/ \E i \in 1 .. m : /\ k \in Footprint(i) /\ b.word.line = i
                       /\ \A j \in i + 1 .. m : k \notin Footprint(j)
  \/ /\ \A j \in 1 .. m : k \notin Footprint(j)
     /\ b.word.op = IF k < inputLen THEN "input" ELSE "zero"

PatchedBy(img, m) ==
  /\ inputLen <= Len(img.file)
  /\ \A i \in 1 .. m : Footprint(i) \subseteq 0 .. Len(img.file) - 1
  /\ \A k \in 0 .. Len(img.file) - 1 : AsLaid(k, img.file[k + 1], m)

Filled == IF pass = 1 THEN 0 ELSE pc - 1

FileAsLaid ==
  /\ inputLen \in Nat
  /\ status = "done" => pc = Len(script) + 1
  /\ pass = 1 /\ status = "running" => PatchedBy(image, 0)
  /\ status \in {"running", "done"} /\ Sound /\ opts.large => PatchedBy(image, Filled)

LEMMA LinePatches ==
  ASSUME NEW img, NEW new, SinkOK(img), SinkOK(new), NEW off \in Offset, NEW n \in Nat,
         pc \in Nat \ {0}, inputLen \in Nat, LaidBy(img, off, n, new),
         Footprint(pc) = off .. off + n - 1, PatchedBy(img, pc - 1)
  PROVE  PatchedBy(new, pc)
<1> DEFINE a == Len(img.file)
           b == Len(new.file)
<1>1. a \in Nat /\ b \in Nat /\ off \in Nat /\ pc \in Nat /\ pc > 0
  BY SinkFacts DEF Offset
<1>2. /\ a <= b /\ (n > 0 => off + n <= b)
      /\ \A i \in 1 .. b : IF i \in off + 1 .. off + n THEN MineAt(new.file[i], i)
                           ELSE new.file[i] = IF i <= a THEN img.file[i] ELSE ZeroByte
  BY DEF LaidBy
<1>3. /\ inputLen <= a
      /\ \A i \in 1 .. pc - 1 : Footprint(i) \subseteq 0 .. a - 1
      /\ \A k \in 0 .. a - 1 : AsLaid(k, img.file[k + 1], pc - 1)
  BY DEF PatchedBy
<1> HIDE DEF a, b
<1>4. inputLen <= b
  BY <1>1, <1>2, <1>3
<1>5. ASSUME NEW i \in 1 .. pc
      PROVE  Footprint(i) \subseteq 0 .. b - 1
  <2>1. CASE i = pc
    BY <1>1, <1>2, <2>1
  <2>2. CASE i # pc
    <3>1. i \in 1 .. pc - 1
      BY <1>1, <2>2
    <3>2. Footprint(i) \subseteq 0 .. a - 1
      BY <1>3, <3>1
    <3>3. 0 .. a - 1 \subseteq 0 .. b - 1
      BY <1>1, <1>2
    <3>4. QED
      BY <3>2, <3>3
  <2>3. QED
    BY <2>1, <2>2
<1>6. ASSUME NEW k \in 0 .. b - 1
      PROVE  AsLaid(k, new.file[k + 1], pc)
  <2> DEFINE x == new.file[k + 1]
  <2>1. k + 1 \in 1 .. b /\ k \in Nat
    BY <1>1
  <2>2. CASE k \in Footprint(pc)
    <3>1. k + 1 \in off + 1 .. off + n
      BY <1>1, <2>1, <2>2
    <3>2. x.word.line = pc
      BY <1>2, <2>1, <3>1 DEF MineAt
    <3>3. pc \in 1 .. pc /\ \A j \in pc + 1 .. pc : k \notin Footprint(j)
      BY <1>1
    <3> HIDE DEF x
    <3>4. AsLaid(k, x, pc)
      BY <2>2, <3>2, <3>3 DEF AsLaid
    <3>5. QED
      BY <3>4 DEF x
  <2>3. CASE k \notin Footprint(pc) /\ k < a
    <3>1. k + 1 \notin off + 1 .. off + n /\ k + 1 <= a /\ k \in 0 .. a - 1
      BY <1>1, <2>1, <2>3
    <3>2. x = img.file[k + 1]
      BY <1>2, <2>1, <3>1
    <3>3. AsLaid(k, x, pc - 1)
      BY <1>3, <3>1, <3>2
    <3> HIDE DEF x
    <3>4. CASE \E i \in 1 .. pc - 1 : /\ k \in Footprint(i) /\ x.word.line = i
                                      /\ \A j \in i + 1 .. pc - 1 : k \notin Footprint(j)
      <4>1. PICK i \in 1 .. pc - 1 : /\ k \in Footprint(i) /\ x.word.line = i
                                     /\ \A j \in i + 1 .. pc - 1 : k \notin Footprint(j)
        BY <3>4
      <4>2. i \in 1 .. pc
        BY <1>1
      <4>3. \A j \in i + 1 .. pc : j \in i + 1 .. pc - 1 \/ j = pc
        BY <1>1
      <4>4. \A j \in i + 1 .. pc : k \notin Footprint(j)
        BY Zenon, <2>3, <4>1, <4>3
      <4>5. QED
        BY <4>1, <4>2, <4>4 DEF AsLaid, x
    <3>5. CASE /\ \A j \in 1 .. pc - 1 : k \notin Footprint(j)
               /\ x.word.op = IF k < inputLen THEN "input" ELSE "zero"
      <4>1. \A j \in 1 .. pc : j \in 1 .. pc - 1 \/ j = pc
        BY <1>1
      <4>2. \A j \in 1 .. pc : k \notin Footprint(j)
        BY Zenon, <2>3, <3>5, <4>1
      <4>3. QED
        BY <3>5, <4>2 DEF AsLaid, x
    <3>6. QED
      BY <3>3, <3>4, <3>5 DEF AsLaid
  <2>4. CASE k \notin Footprint(pc) /\ ~ (k < a)
    <3>1. k + 1 \notin off + 1 .. off + n /\ ~ (k + 1 <= a) /\ k \notin 0 .. a - 1
      BY <1>1, <2>1, <2>4
    <3>2. x = ZeroByte
      BY <1>2, <2>1, <3>1
    <3>3. x.word.op = "zero" /\ ~ (k < inputLen)
      BY <1>1, <1>3, <2>1, <2>4, <3>2 DEF ZeroByte, InputWord
    <3>4. \A j \in 1 .. pc : j \in 1 .. pc - 1 \/ j = pc
      BY <1>1
    <3>5. \A j \in 1 .. pc : k \notin Footprint(j)
      BY <1>3, <2>4, <3>1, <3>4
    <3> HIDE DEF x
    <3>6. AsLaid(k, x, pc)
      BY <3>3, <3>5 DEF AsLaid
    <3>7. QED
      BY <3>6 DEF x
  <2>5. QED
    BY <2>2, <2>3, <2>4
<1>7. QED
  BY <1>4, <1>5, <1>6 DEF PatchedBy, b

(* The footprint by the layout is the bytes the second pass writes.        *)
LEMMA FootprintIs ==
  ASSUME NEW n \in Nat, NEW new, FootLen(n), SinkOK(new), LaidBy(image, cur.loc, n, new),
         cur.loc \in Offset, layout[pc] = cur, layout[pc + 1] = cur'
  PROVE  Footprint(pc) = cur.loc .. cur.loc + n - 1
<1> DEFINE m == CASE line.op = "text" -> line.chars + (IF line.zero THEN 1 ELSE 0)
                  [] line.op \in {"data", "space", "insn"} ->
                       (cur'.loc - cur.loc) % AddrMod
                  [] OTHER -> 0
<1>1. Footprint(pc) = cur.loc .. cur.loc + m - 1
  BY DEF Footprint, line
<1>2. m = n
  <2>1. CASE line.op = "text"
    BY <2>1 DEF FootLen, Width
  <2>2. CASE line.op \in {"data", "space", "insn"}
    <3>1. m = (cur'.loc - cur.loc) % AddrMod /\ cur'.loc = (cur.loc + n) % AddrMod
      BY <2>2 DEF FootLen
    <3>2. cur.loc \in Nat /\ cur.loc + n \in Nat /\ cur.loc + n < AddrMod
      <4>1. Len(new.file) \in Nat /\ Len(new.file) <= DiskMax
        BY SinkFacts DEF SinkOK
      <4>2. n > 0 => cur.loc + n <= Len(new.file)
        BY DEF LaidBy
      <4>3. QED
        BY <4>1, <4>2, Widths DEF Offset
    <3>3. cur'.loc = cur.loc + n
      BY <3>1, <3>2, Widths
    <3>4. cur'.loc - cur.loc = n /\ n \in 0 .. AddrMod - 1
      BY <3>2, <3>3, Widths
    <3>5. n % AddrMod = n
      BY <3>4, Widths
    <3> HIDE DEF m
    <3>6. QED
      BY <3>1, <3>4, <3>5
  <2>3. CASE line.op \notin {"text", "data", "space", "insn"}
    <3>1. m = 0
      BY Zenon, <2>3
    <3> HIDE DEF m
    <3>2. QED
      BY <2>3, <3>1 DEF FootLen
  <2>4. QED
    BY <2>1, <2>2, <2>3
<1>3. QED
  BY <1>1, <1>2

LEMMA LineLaid ==
  ASSUME IInv, IInv', Typed, FileAsLaid, Reading, Lays
  PROVE  FileAsLaid'
<1>1. CASE \E how \in {"stopped", "crashed"} : \E img : SinkOK(img) /\ Abort(how, img)
  <2>1. status' \in {"stopped", "crashed"} /\ inputLen' = inputLen
    BY <1>1 DEF Abort, inputs
  <2>2. QED
    BY <2>1 DEF FileAsLaid
<1>2. CASE /\ \E c \in CursorSet, e \in Nat, ws \in SUBSET {4120} :
                EndLine(c, e, ws) /\ (e = 0 => LaysFile)
           /\ SinkOK(image')
           /\ IF pass = 1 THEN image' = image ELSE structs' = structs
  <2>1. PICK c \in CursorSet, e \in Nat, ws \in SUBSET {4120} :
          EndLine(c, e, ws) /\ (e = 0 => LaysFile)
    BY <1>2
  <2>2. /\ script' = script /\ opts' = opts /\ inputLen' = inputLen /\ pass' = pass
        /\ pc' = pc + 1 /\ errors' = errors + (PreludeErrors(line, cur) + e)
        /\ labels' = LabelsAt(line, cur)
        /\ layout' = IF pass = 1 THEN Append(layout, c) ELSE layout
    BY <2>1 DEF EndLine, inputs
  <2>3. status' \in {"running", "stopped"}
    <3>1. status' = "stopped" \/ status' = status
      BY <2>1 DEF EndLine
    <3>2. QED
      BY <3>1 DEF Reading
  <2>4. pass \in {1, 2} /\ pc \in Nat /\ pc > 0
    BY AtALine
  <2>5. CASE pass = 1
    <3>1. PatchedBy(image, 0) /\ image' = image /\ Filled' = 0
      BY <1>2, <2>2, <2>5 DEF FileAsLaid, Reading, Filled
    <3>2. PatchedBy(image, 0)'
      BY <2>2, <3>1 DEF PatchedBy, AsLaid
    <3>3. QED
      BY <2>2, <2>3, <3>1, <3>2 DEF FileAsLaid
  <2>6. CASE pass = 2
    <3> SUFFICES ASSUME status' = "running", Sound', opts'.large
                 PROVE  PatchedBy(image, Filled)'
      BY <2>2, <2>3, <2>6 DEF FileAsLaid
    <3>1. structs' = structs /\ labels' = labels /\ layout' = layout
      BY <1>2, <2>2, <2>6 DEF LabelsAt
    <3>2. errors = 0 /\ e = 0 /\ Sound
      <4>1. errors \in Nat /\ PreludeErrors(line, cur) \in Nat
        BY TotalErrors DEF IInv, Layout
      <4>2. errors' = 0 /\ NoFieldShadowed'
        BY DEF Sound
      <4>3. NoFieldShadowed
        BY <3>1, <4>2 DEF NoFieldShadowed
      <4>4. QED
        BY <2>2, <4>1, <4>2, <4>3 DEF Sound
    <3>3. PICK n \in Nat : FootLen(n) /\ LaidBy(image, cur.loc, n, image')
      BY <2>1, <2>2, <2>6, <3>2 DEF LaysFile
    <3>4. cur = layout[pc] /\ cur' = layout[pc + 1]
      <4>1. PassesAgree /\ PassesAgree'
        BY DEF IInv
      <4>2. cur = layout[pc]
        BY <2>6, <3>2, <4>1 DEF PassesAgree, Reading
      <4>3. cur' = layout'[pc']
        BY <2>2, <2>6, <4>1 DEF PassesAgree
      <4>4. QED
        BY <2>2, <3>1, <4>2, <4>3
    <3>5. SinkOK(image) /\ cur.loc \in Offset
      BY CursorFacts DEF Typed
    <3>6. Footprint(pc) = cur.loc .. cur.loc + n - 1
      BY <1>2, <3>3, <3>4, <3>5, FootprintIs
    <3>7. PatchedBy(image, pc - 1) /\ inputLen \in Nat
      BY <2>2, <2>6, <3>2 DEF FileAsLaid, Reading, Filled
    <3>8. PatchedBy(image', pc)
      BY <1>2, <2>4, <3>3, <3>5, <3>6, <3>7, LinePatches
    <3>9. Filled' = pc /\ inputLen' = inputLen /\ \A i : Footprint(i)' = Footprint(i)
      BY <2>2, <2>4, <2>6, <3>1 DEF Filled, Footprint
    <3>10. QED
      BY <3>8, <3>9 DEF PatchedBy, AsLaid
  <2>7. QED
    BY <2>4, <2>5, <2>6
<1>3. QED
  BY <1>1, <1>2 DEF Lays

LEMMA BlankLaid ==
  ASSUME IInv, Typed, FileAsLaid, ReadBlank
  PROVE  FileAsLaid'
<1>1. /\ Reading /\ line.op = "blank" /\ pc' = pc + 1
      /\ script' = script /\ opts' = opts /\ inputLen' = inputLen /\ pass' = pass
      /\ labels' = labels /\ structs' = structs /\ errors' = errors /\ status' = status
      /\ image' = image /\ layout' = IF pass = 1 THEN Append(layout, cur) ELSE layout
  BY DEF ReadBlank, inputs, naming, result
<1>2. pass \in {1, 2} /\ pc \in Nat /\ pc > 0
  BY <1>1, AtALine
<1>3. CASE pass = 1
  <2>1. PatchedBy(image, 0) /\ Filled' = 0
    BY <1>1, <1>3 DEF FileAsLaid, Reading, Filled
  <2>2. PatchedBy(image, 0)'
    BY <1>1, <2>1 DEF PatchedBy, AsLaid
  <2>3. QED
    BY <1>1, <2>1, <2>2 DEF FileAsLaid, Reading
<1>4. CASE pass = 2
  <2> SUFFICES ASSUME Sound', opts'.large
               PROVE  PatchedBy(image, Filled)'
    BY <1>1, <1>4 DEF FileAsLaid, Reading
  <2>1. Sound
    BY <1>1 DEF Sound, NoFieldShadowed
  <2>2. PatchedBy(image, pc - 1) /\ inputLen \in Nat
    BY <1>1, <1>4, <2>1 DEF FileAsLaid, Reading, Filled
  <2>3. SinkOK(image) /\ cur.loc \in Offset /\ cur.loc \in Nat
    BY CursorFacts DEF Typed
  <2>4. layout[pc] = cur
    BY <1>1, <1>4, <2>1 DEF IInv, PassesAgree, Reading
  <2>5. Footprint(pc) = cur.loc .. cur.loc + 0 - 1
    <3> DEFINE n == CASE line.op = "text" -> line.chars + (IF line.zero THEN 1 ELSE 0)
                      [] line.op \in {"data", "space", "insn"} ->
                           (layout[pc + 1].loc - layout[pc].loc) % AddrMod
                      [] OTHER -> 0
    <3>1. Footprint(pc) = cur.loc .. cur.loc + n - 1
      BY <2>4 DEF Footprint, line
    <3>2. line.op \notin {"text", "data", "space", "insn"}
      BY <1>1
    <3>3. n = 0
      BY Zenon, <3>2
    <3> HIDE DEF n
    <3>4. QED
      BY <3>1, <3>3
  <2>6. LaidBy(image, cur.loc, 0, image)
    BY <2>3, NothingLaid
  <2>7. PatchedBy(image, pc)
    BY <1>2, <2>2, <2>3, <2>5, <2>6, LinePatches
  <2>8. Filled' = pc /\ \A i : Footprint(i)' = Footprint(i)
    BY <1>1, <1>2, <1>4 DEF Filled, Footprint
  <2>9. QED
    BY <1>1, <2>7, <2>8 DEF PatchedBy, AsLaid
<1>5. QED
  BY <1>2, <1>3, <1>4

LEMMA FileFrame ==
  ASSUME FileAsLaid,
         UNCHANGED <<script, opts, inputLen, pass, pc, layout, labels, structs, image, errors>>,
         status' = "done" => pc = Len(script) + 1 /\ pass # 1,
         status' \in {"running", "done"} => status \in {"running", "done"},
         status' = "running" => status = "running"
  PROVE  FileAsLaid'
<1>1. /\ script' = script /\ opts' = opts /\ inputLen' = inputLen /\ pass' = pass /\ pc' = pc
      /\ layout' = layout /\ labels' = labels /\ structs' = structs /\ image' = image
      /\ errors' = errors
  OBVIOUS
<1>2. (Sound' <=> Sound) /\ Filled' = Filled
  BY <1>1 DEF Sound, NoFieldShadowed, Filled
<1>3. ASSUME status' \in {"running", "done"}, Sound', opts'.large
      PROVE  PatchedBy(image, Filled)'
  <2>1. PatchedBy(image, Filled)
    BY <1>1, <1>2, <1>3 DEF FileAsLaid
  <2>2. QED
    BY <1>1, <1>2, <2>1 DEF PatchedBy, AsLaid, Footprint
<1>4. ASSUME pass' = 1, status' = "running"
      PROVE  PatchedBy(image, 0)'
  <2>1. PatchedBy(image, 0)
    BY <1>1, <1>4 DEF FileAsLaid
  <2>2. QED
    BY <1>1, <2>1 DEF PatchedBy, AsLaid
<1>5. QED
  BY <1>1, <1>3, <1>4 DEF FileAsLaid

LEMMA InitLaid == Init => FileAsLaid
<1> SUFFICES ASSUME Init
             PROVE  FileAsLaid
  OBVIOUS
<1>1. /\ Len(image.file) = inputLen /\ inputLen \in Nat
      /\ \A i \in 1 .. inputLen : image.file[i].word.op = "input"
  BY OpenedTyped
<1>2. pass = 1 /\ status = "running"
  BY DEF Init
<1>3. ASSUME NEW k \in 0 .. inputLen - 1
      PROVE  AsLaid(k, image.file[k + 1], 0)
  <2>1. k + 1 \in 1 .. inputLen /\ k < inputLen
    BY <1>1
  <2>2. image.file[k + 1].word.op = "input"
    BY <1>1, <2>1
  <2>3. QED
    BY <2>1, <2>2 DEF AsLaid
<1>4. PatchedBy(image, 0)
  BY <1>1, <1>3 DEF PatchedBy
<1>5. QED
  BY <1>1, <1>2, <1>4 DEF FileAsLaid, Filled

LEMMA NextLaid == IInv /\ Typed /\ FileAsLaid /\ [Next]_vars /\ IInv' => FileAsLaid'
<1> SUFFICES ASSUME IInv, Typed, FileAsLaid, [Next]_vars, IInv'
             PROVE  FileAsLaid'
  OBVIOUS
<1>1. CASE UNCHANGED vars \/ Stopped
  <2>1. UNCHANGED <<script, opts, inputLen, pass, pc, layout, labels, structs, image, errors>>
        /\ status' = status
    BY <1>1 DEF Stopped, vars, inputs, reading, naming, result
  <2>2. status = "done" => pc = Len(script) + 1 /\ pass # 1
    BY DEF FileAsLaid, IInv, Exported
  <2>3. QED
    BY <2>1, <2>2, FileFrame
<1>2. CASE Reading /\ Lays
  BY <1>2, LineLaid
<1>3. CASE ReadBlank
  BY <1>3, BlankLaid
<1>4. CASE StartPass2
  <2>1. /\ script' = script /\ opts' = opts /\ inputLen' = inputLen /\ pass' = 2 /\ pc' = 1
        /\ layout' = layout /\ image' = image /\ status' = status
        /\ status = "running" /\ pass = 1
    BY <1>4 DEF StartPass2, inputs, result
  <2>2. PatchedBy(image, 0) /\ Filled' = 0
    BY <2>1 DEF FileAsLaid, Filled
  <2>3. PatchedBy(image, 0)'
    BY <2>1, <2>2 DEF PatchedBy, AsLaid
  <2>4. QED
    BY <2>1, <2>2, <2>3 DEF FileAsLaid
<1>5. CASE Finish
  <2>1. /\ UNCHANGED <<script, opts, inputLen, pass, pc, layout, labels, structs, image, errors>>
        /\ status = "running" /\ pass = 2 /\ pc = Len(script) + 1
        /\ status' \in {"done", "failed"}
    BY <1>5 DEF Finish, inputs, reading, naming
  <2>2. QED
    BY <2>1, FileFrame
<1>6. QED
  BY <1>1, <1>2, <1>3, <1>4, <1>5, LinesLay

LEMMA LaidIsExact == IInv /\ FileAsLaid => PatchExact
<1> SUFFICES ASSUME IInv, FileAsLaid, status = "done", Sound, opts.large
             PROVE  /\ \A i \in 1 .. Len(script) : \A k \in Footprint(i) :
                         k < Len(image.file)
                    /\ \A k \in 0 .. Len(image.file) - 1 : LastOver(k, Len(script))
  BY Zenon DEF PatchExact
<1> DEFINE m == Len(script)
<1>1. m \in Nat /\ pass = 2 /\ pc = m + 1
  BY ScriptLength DEF IInv, Layout, Exported, FileAsLaid
<1>2. PatchedBy(image, m)
  BY <1>1 DEF FileAsLaid, Filled
<1> HIDE DEF m
<1>3. ASSUME NEW i \in 1 .. m, NEW k \in Footprint(i)
      PROVE  k < Len(image.file)
  <2>1. k \in 0 .. Len(image.file) - 1
    BY <1>2 DEF PatchedBy
  <2>2. QED
    BY <2>1
<1>4. ASSUME NEW k \in 0 .. Len(image.file) - 1
      PROVE  LastOver(k, m)
  <2> DEFINE over == {i \in 1 .. m : k \in Footprint(i)}
             b    == image.file[k + 1]
  <2>1. AsLaid(k, b, m)
    BY <1>2 DEF PatchedBy
  <2> HIDE DEF b
  <2>2. CASE \E i \in 1 .. m : /\ k \in Footprint(i) /\ b.word.line = i
                               /\ \A j \in i + 1 .. m : k \notin Footprint(j)
    <3>1. PICK i \in 1 .. m : /\ k \in Footprint(i) /\ b.word.line = i
                              /\ \A j \in i + 1 .. m : k \notin Footprint(j)
      BY <2>2
    <3>2. i \in over
      BY <3>1
    <3>3. ASSUME NEW j \in over
          PROVE  j <= i
      <4>1. j \in 1 .. m /\ k \in Footprint(j)
        OBVIOUS
      <4>2. j \notin i + 1 .. m
        BY <3>1, <4>1
      <4>3. QED
        BY <1>1, <4>1, <4>2
    <3>4. over # {} /\ \E x \in over : b.word.line = x /\ \A j \in over : j <= x
      BY <3>1, <3>2, <3>3
    <3> HIDE DEF over
    <3>5. QED
      BY Zenon, <3>4 DEF LastOver, over, b
  <2>3. CASE /\ \A j \in 1 .. m : k \notin Footprint(j)
             /\ b.word.op = IF k < inputLen THEN "input" ELSE "zero"
    <3>1. over = {}
      BY <2>3
    <3> HIDE DEF over
    <3>2. QED
      BY Zenon, <2>3, <3>1 DEF LastOver, over, b
  <2>4. QED
    BY <2>1, <2>2, <2>3 DEF AsLaid
<1>5. QED
  BY <1>3, <1>4 DEF m

(* The patched file is the input except where the layout of pass 1 puts a  *)
(* line's bytes, and there it holds the last such line's: the write in     *)
(* genasm of data, text and space and in mkasm of code is at the address   *)
(* and of the length reserved, and never past the end of the file.         *)
THEOREM PatchIsExact == Spec => []PatchExact
<1>1. Init => IInv /\ Typed /\ FileAsLaid
  BY InitHolds, InitTyped, InitLaid
<1>2. (IInv /\ Typed /\ FileAsLaid) /\ [Next]_vars => (IInv /\ Typed /\ FileAsLaid)'
  BY NextPreserves, NextTyped, NextLaid
<1>3. IInv /\ Typed /\ FileAsLaid => PatchExact
  BY LaidIsExact
<1>4. QED
  BY <1>1, <1>2, <1>3, PTL DEF Spec
-----------------------------------------------------------------------------
(* Where a word with a displacement or a target leads, modulo the width of *)
(* the addresses.                                                          *)
LEMMA Quotient ==
  ASSUME NEW m \in Nat \ {0}, NEW v \in Int
  PROVE  \E q \in Int : v = m * q + (v % m)
<1>1. v \div m \in Int /\ v = m * (v \div m) + (v % m)
  OBVIOUS
<1>2. QED
  BY <1>1

LEMMA BranchLeads ==
  ASSUME NEW d \in Nat \ {0}, NEW w \in Nat \ {0}, w % (4 * d) = 0,
         NEW v \in Int, NEW q \in Int, NEW s \in Int, NEW a \in 0 .. d - 1,
         v = w * q + 4 * s, s = a \/ s = a - d
  PROVE  (v \div 4) % d = a
<1>1. PICK m \in Int : w = 4 * d * m
  <2>1. 4 * d \in Nat \ {0} /\ w \in Int
    OBVIOUS
  <2>2. \E m \in Int : w = (4 * d) * m + (w % (4 * d))
    BY <2>1, Quotient
  <2>3. QED
    BY <2>2
<1>2. PICK e \in {0, 1} : s = a - d * e
  <2>1. CASE s = a
    <3>1. s = a - d * 0
      BY <2>1
    <3>2. QED
      BY <3>1
  <2>2. CASE s = a - d
    <3>1. s = a - d * 1
      BY <2>2
    <3>2. QED
      BY <3>1
  <2>3. QED
    BY <2>1, <2>2
<1>3. PICK p \in Int : p = m * q - e
  OBVIOUS
<1>4. d * m * q - d * e = d * p
  BY <1>3
<1>5. PICK u \in Int : u = d * p + a
  OBVIOUS
<1>6. v = 4 * u + 0
  <2>1. v = 4 * (d * m * q) + 4 * (a - d * e)
    BY <1>1, <1>2
  <2>2. d * m * q \in Int /\ d * e \in Int
    BY <1>1
  <2>3. QED
    BY <1>4, <1>5, <2>1, <2>2
<1>7. v \div 4 = u
  <2>1. 4 \in Nat \ {0} /\ 0 \in 0 .. 4 - 1
    OBVIOUS
  <2>2. QED
    BY <1>6, <2>1, DivisionUnique
<1>8. u % d = a
  BY <1>5, DivisionUnique
<1>9. QED
  BY <1>7, <1>8

LEMMA JumpLeads ==
  ASSUME NEW j \in Nat \ {0}, NEW w \in Nat \ {0}, w % (4 * j) = 0,
         NEW v \in Int, NEW q \in Int, NEW r \in Int, NEW a \in 0 .. j - 1,
         v = w * q + 4 * j * r + 4 * a
  PROVE  (v \div 4) % j = a
<1>1. PICK m \in Int : w = 4 * j * m
  <2>1. 4 * j \in Nat \ {0} /\ w \in Int
    OBVIOUS
  <2>2. \E m \in Int : w = (4 * j) * m + (w % (4 * j))
    BY <2>1, Quotient
  <2>3. QED
    BY <2>2
<1>2. PICK p \in Int : p = m * q + r
  OBVIOUS
<1>3. j * m * q + j * r = j * p
  BY <1>2
<1>4. PICK u \in Int : u = j * p + a
  OBVIOUS
<1>5. v = 4 * u + 0
  <2>1. v = 4 * (j * m * q) + 4 * (j * r) + 4 * a
    BY <1>1
  <2>2. j * m * q \in Int /\ j * r \in Int
    BY <1>1
  <2>3. QED
    BY <1>3, <1>4, <2>1, <2>2
<1>6. v \div 4 = u
  <2>1. 4 \in Nat \ {0} /\ 0 \in 0 .. 4 - 1
    OBVIOUS
  <2>2. QED
    BY <1>5, <2>1, DivisionUnique
<1>7. u % j = a
  BY <1>4, DivisionUnique
<1>8. QED
  BY <1>6, <1>7

LEMMA Moduli ==
  /\ AddrMod \in Nat \ {0} /\ DispMod \in Nat \ {0} /\ JumpMod \in Nat \ {0}
  /\ AddrMod % (4 * DispMod) = 0 /\ AddrMod % (4 * JumpMod) = 0
<1>1. /\ AddrMod \in Nat /\ AddrMod >= 8 /\ DispMod \in Nat \ {0} /\ JumpMod \in Nat \ {0}
      /\ AddrMod % (4 * DispMod) = 0 /\ AddrMod % (4 * JumpMod) = 0
  BY Zenon, AssemblerAssumption
<1>2. QED
  BY <1>1

(* If any displacement leads to t, the one that is computed does.          *)
LEMMA DisplacementLeads ==
  ASSUME NEW t \in Int, NEW n \in Int, NEW a \in 0 .. DispMod - 1,
         Landing("branch", a, (n + 4) % AddrMod) = t % AddrMod
  PROVE  Displacement(t, n % AddrMod) = a
<1> DEFINE s    == Signed(a)
           vma  == n % AddrMod
           next == (n + 4) % AddrMod
           to   == t % AddrMod
           v    == t - (vma + 4)
<1>1. AddrMod \in Nat \ {0} /\ DispMod \in Nat \ {0} /\ AddrMod % (4 * DispMod) = 0
  BY Moduli
<1>2. s \in Int /\ (s = a \/ s = a - DispMod)
  BY <1>1 DEF Signed
<1>3. (next + 4 * s) % AddrMod = to
  BY DEF Landing
<1> HIDE DEF s
<1>4. vma \in Int /\ next \in Int /\ to \in Int
  BY <1>1
<1>5. PICK q0 \in Int : n = AddrMod * q0 + vma
  BY <1>1, Quotient
<1>6. PICK q1 \in Int : n + 4 = AddrMod * q1 + next
  <2>1. n + 4 \in Int
    OBVIOUS
  <2>2. QED
    BY <1>1, <2>1, Quotient
<1>7. PICK q2 \in Int : next + 4 * s = AddrMod * q2 + to
  <2>1. next + 4 * s \in Int
    BY <1>2, <1>4
  <2>2. \E q \in Int : next + 4 * s = AddrMod * q + ((next + 4 * s) % AddrMod)
    BY <1>1, <2>1, Quotient
  <2>3. QED
    BY <1>3, <2>2
<1>8. PICK q3 \in Int : t = AddrMod * q3 + to
  BY <1>1, Quotient
<1> HIDE DEF vma, next, to
<1>9. PICK q \in Int : q = q3 - q2 - q1 + q0
  OBVIOUS
<1>10. v = AddrMod * q + 4 * s
  <2>1. AddrMod * q = AddrMod * q3 - AddrMod * q2 - AddrMod * q1 + AddrMod * q0
    BY <1>1, <1>9
  <2>2. /\ AddrMod * q3 \in Int /\ AddrMod * q2 \in Int
        /\ AddrMod * q1 \in Int /\ AddrMod * q0 \in Int
    BY <1>1
  <2>3. QED
    BY <1>2, <1>4, <1>5, <1>6, <1>7, <1>8, <2>1, <2>2
<1>11. v \in Int
  BY <1>4
<1> HIDE DEF v
<1>12. (v \div 4) % DispMod = a
  BY <1>1, <1>2, <1>10, <1>11, BranchLeads
<1>13. QED
  BY <1>12 DEF Displacement, v, vma

LEMMA TargetLeads ==
  ASSUME NEW t \in Int, NEW next \in Int, NEW a \in 0 .. JumpMod - 1,
         Landing("jump", a, next) = t % AddrMod
  PROVE  (t \div 4) % JumpMod = a
<1> DEFINE region == 4 * JumpMod
           low    == next % region
           to     == t % AddrMod
<1>1. /\ AddrMod \in Nat \ {0} /\ JumpMod \in Nat \ {0} /\ AddrMod % region = 0
      /\ region \in Nat \ {0}
  BY Moduli
<1>2. next - low + 4 * a = to
  BY DEF Landing
<1>3. low \in Int /\ to \in Int
  BY <1>1
<1>4. PICK q1 \in Int : next = region * q1 + low
  BY <1>1, Quotient
<1>5. PICK q \in Int : t = AddrMod * q + to
  BY <1>1, Quotient
<1> HIDE DEF low, to
<1>6. t = AddrMod * q + 4 * JumpMod * q1 + 4 * a
  <2>1. region * q1 \in Int /\ AddrMod * q \in Int
    BY <1>1
  <2>2. to = region * q1 + 4 * a
    BY <1>2, <1>3, <1>4, <2>1
  <2>3. QED
    BY <1>5, <2>1, <2>2
<1>7. QED
  BY <1>1, <1>6, JumpLeads

(* The displacement of a branch that lies a word further down. *)
LEMMA NextDisplacement ==
  ASSUME NEW t \in Int, NEW n \in Int
  PROVE  Displacement(t, (n + 4) % AddrMod)
           = (Displacement(t, n % AddrMod) - 1) % DispMod
<1> DEFINE vma  == n % AddrMod
           next == (n + 4) % AddrMod
           v    == t - (vma + 4)
           u    == v \div 4
           a    == u % DispMod
           b    == (a - 1) % DispMod
<1>1. AddrMod \in Nat \ {0} /\ DispMod \in Nat \ {0} /\ AddrMod % (4 * DispMod) = 0
  BY Moduli
<1>2. PICK m \in Int : AddrMod = 4 * DispMod * m
  <2>1. 4 * DispMod \in Nat \ {0} /\ AddrMod \in Int
    BY <1>1
  <2>2. \E m \in Int : AddrMod = (4 * DispMod) * m + (AddrMod % (4 * DispMod))
    BY <2>1, Quotient
  <2>3. QED
    BY <1>1, <2>2
<1>3. PICK q0 \in Int : n = AddrMod * q0 + vma
  BY <1>1, Quotient
<1>4. PICK q1 \in Int : n + 4 = AddrMod * q1 + next
  <2>1. n + 4 \in Int
    OBVIOUS
  <2>2. QED
    BY <1>1, <2>1, Quotient
<1>5. vma \in Int /\ next \in Int
  BY <1>1
<1> HIDE DEF vma, next
<1>6. v \in Int
  BY <1>5
<1>7. u \in Int /\ \E r \in 0 .. 3 : v = 4 * u + r
  <2> HIDE DEF v
  <2>1. v \div 4 \in Int /\ v % 4 \in 0 .. 3 /\ v = 4 * (v \div 4) + (v % 4)
    BY <1>6
  <2>2. QED
    BY <2>1
<1>8. PICK r \in 0 .. 3 : v = 4 * u + r
  BY <1>7
<1> HIDE DEF u
<1>9. PICK q2 \in Int : u = DispMod * q2 + a
  BY <1>1, <1>7, Quotient
<1>10. a \in Int /\ a - 1 \in Int
  BY <1>1, <1>7
<1> HIDE DEF a
<1>11. PICK q3 \in Int : a - 1 = DispMod * q3 + b
  BY <1>1, <1>10, Quotient
<1>12. b \in 0 .. DispMod - 1
  BY <1>1, <1>10
<1> HIDE DEF b
<1>13. PICK p \in Int : p = q2 + q3 + m * (q1 - q0)
  OBVIOUS
<1>14. PICK w \in Int : w = DispMod * p + b
  BY <1>1, <1>12
<1>15. t - (next + 4) = 4 * w + r
  <2> DEFINE x == DispMod * m * (q1 - q0)
             y == DispMod * q2
             z == DispMod * q3
             k == DispMod * p
             f == AddrMod * q0
             g == AddrMod * q1
  <2>1. k = y + z + x /\ g - f = 4 * x
    BY <1>1, <1>2, <1>13
  <2>2. {x, y, z, k, f, g} \subseteq Int
    BY <1>1
  <2>3. /\ u = y + a /\ a - 1 = z + b /\ w = k + b
        /\ n = f + vma /\ n + 4 = g + next
    BY <1>3, <1>4, <1>9, <1>11, <1>14
  <2>4. t - (vma + 4) = 4 * u + r
    BY <1>8 DEF v
  <2> HIDE DEF x, y, z, k, f, g
  <2>5. b \in Int /\ r \in Int
    BY <1>8, <1>12
  <2>6. w = u - 1 + x
    BY <1>7, <1>10, <2>1, <2>2, <2>3, <2>5
  <2>7. vma + 4 - next = 4 * x
    <3>1. n = f + vma /\ n + 4 = g + next /\ f \in Int /\ g \in Int
      BY <2>2, <2>3
    <3>2. vma + 4 - next = g - f
      BY <1>5, <3>1
    <3>3. QED
      BY <2>1, <3>2
  <2>8. QED
    BY <1>5, <1>7, <2>2, <2>4, <2>5, <2>6, <2>7
<1>16. (t - (next + 4)) \div 4 = w
  <2>1. 4 \in Nat \ {0} /\ r \in 0 .. 4 - 1
    BY <1>8
  <2>2. t - (next + 4) \in Int
    BY <1>5
  <2>3. QED
    BY <1>15, <2>1, <2>2, DivisionUnique
<1>17. w % DispMod = b
  BY <1>1, <1>12, <1>14, DivisionUnique
<1>18. QED
  BY <1>16, <1>17 DEF Displacement, vma, next, v, u, a, b
-----------------------------------------------------------------------------
(* A branch or jump that lies at p leads where its line says, by the       *)
(* labels and the structures as they are now.                              *)
Leads(w, p) ==
  LET l      == script[w.line]
      c      == layout[w.line]
      env    == EnvAt(l, c, labels, structs)
      target == ExprValue(l.arg, env)
  IN  /\ l.op = "insn"
      /\ \/ l.ins = "b" /\ w.op = "branch"
         \/ /\ l.ins = "branch" /\ w.op = "branch" /\ Evaluates(l.arg, env)
            /\ w.arg = Displacement(target, (p + c.offset) % AddrMod)
         \/ /\ l.ins = "jump" /\ w.op = "jump" /\ Evaluates(l.arg, env)
            /\ target >= 0 /\ w.arg = (target \div 4) % JumpMod

AllLead(img) ==
  \A p, w : Whole(img, p, w) => w.line \in 1 .. Len(script) /\ Leads(w, p)

(* Every whole branch or jump in the file leads right, also one that has   *)
(* been moved out of the way of a large LI or LA.                          *)
TransfersLead ==
  /\ pass = 1 /\ status = "running" =>
       \A i \in 1 .. Len(image.file) : image.file[i].word.op \notin TransferOp
  /\ status \in {"running", "done"} /\ Sound => AllLead(image)

LEMMA NoneInFile ==
  ASSUME NEW img, SinkOK(img),
         \A i \in 1 .. Len(img.file) : img.file[i].word.op \notin TransferOp
  PROVE  \A p, w : ~Whole(img, p, w)
<1> SUFFICES ASSUME NEW p, NEW w, Whole(img, p, w)
             PROVE  FALSE
  OBVIOUS
<1>1. Len(img.file) \in Nat
  BY SinkFacts
<1>2. /\ p \in Nat /\ p + 4 <= Len(img.file) /\ w.op \in TransferOp
      /\ img.file[p + 1] = [word |-> w, k |-> 1]
  BY DEF Whole
<1>3. p + 1 \in 1 .. Len(img.file)
  BY <1>1, <1>2
<1>4. img.file[p + 1].word = w
  BY <1>2
<1>5. QED
  BY <1>2, <1>3, <1>4

(* Where there is none, all of them lead right, before and after a step. *)
LEMMA NoneWhole ==
  ASSUME SinkOK(image'),
         \A i \in 1 .. Len(image'.file) : image'.file[i].word.op \notin TransferOp
  PROVE  AllLead(image)'
<1>1. \A p, w : ~Whole(image', p, w)
  BY NoneInFile
<1>2. QED
  BY <1>1 DEF AllLead, Whole

(* What leads right does while nothing it depends on changes. *)
LEMMA LeadFrame ==
  ASSUME UNCHANGED <<script, layout, labels, structs>>
  PROVE  AllLead(image)' <=> AllLead(image')
<1>1. script' = script /\ layout' = layout /\ labels' = labels /\ structs' = structs
  OBVIOUS
<1>2. \A w, p : Leads(w, p)' <=> Leads(w, p)
  BY <1>1 DEF Leads
<1>3. QED
  BY <1>1, <1>2 DEF AllLead, Whole

LEMMA MineLeads ==
  ASSUME pass = 2, pc \in 1 .. Len(script), cur = layout[pc], cur.loc \in Nat,
         NEW p \in Nat, NEW j \in 1 .. 4, NEW w, w.op \in TransferOp,
         MineAt([word |-> w, k |-> j], p + j)
  PROVE  p = cur.loc /\ w.line \in 1 .. Len(script) /\ Leads(w, p)
<1> DEFINE b == [word |-> w, k |-> j]
<1>1. b.word = w /\ b.k = j
  OBVIOUS
<1> HIDE DEF b
<1>2. w.line = pc /\ p + j = cur.loc + j /\ TransferWord(w)
  BY <1>1 DEF MineAt, TransferOp, b
<1>3. p = cur.loc
  BY <1>2
<1>4. Env(cur.loc) = EnvAt(line, cur, labels, structs)
  BY DEF Env, EnvAt, Vma, here, LabelsAt
<1>5. Leads(w, p)
  BY <1>2, <1>3, <1>4 DEF Leads, TransferWord, line, Vma
<1>6. QED
  BY <1>2, <1>3, <1>5

LEMMA LineLeads ==
  ASSUME NEW img, NEW new, SinkOK(img), SinkOK(new), NEW n \in Nat,
         LaidBy(img, cur.loc, n, new), pass = 2, pc \in 1 .. Len(script),
         cur = layout[pc], cur.loc \in Nat, AllLead(img)
  PROVE  AllLead(new)
<1> SUFFICES ASSUME NEW p, NEW w, Whole(new, p, w)
             PROVE  w.line \in 1 .. Len(script) /\ Leads(w, p)
  BY DEF AllLead
<1> DEFINE a == Len(img.file)
           c == Len(new.file)
           mine == cur.loc + 1 .. cur.loc + n
<1>1. a \in Nat /\ c \in Nat
  BY SinkFacts
<1>2. \A i \in 1 .. c : IF i \in mine THEN MineAt(new.file[i], i)
                        ELSE new.file[i] = IF i <= a THEN img.file[i] ELSE ZeroByte
  BY DEF LaidBy
<1>3. /\ p \in Nat /\ p + 4 <= c /\ w.op \in TransferOp
      /\ \A j \in 1 .. 4 : new.file[p + j] = [word |-> w, k |-> j]
  BY DEF Whole
<1> HIDE DEF a, c, mine
<1>4. CASE \E j \in 1 .. 4 : p + j \in mine
  <2>1. PICK j \in 1 .. 4 : p + j \in mine
    BY <1>4
  <2>2. p + j \in 1 .. c
    BY <1>1, <1>3
  <2>3. MineAt([word |-> w, k |-> j], p + j)
    BY <1>2, <1>3, <2>1, <2>2
  <2>4. QED
    BY <1>3, <2>3, MineLeads
<1>5. CASE \A j \in 1 .. 4 : p + j \notin mine
  <2>1. ASSUME NEW j \in 1 .. 4
        PROVE  p + j <= a /\ img.file[p + j] = [word |-> w, k |-> j]
    <3> DEFINE i == p + j
    <3>1. i \in 1 .. c /\ i \notin mine
      BY <1>1, <1>3, <1>5
    <3>2. new.file[i] = [word |-> w, k |-> j]
      BY <1>3
    <3> HIDE DEF i
    <3>3. new.file[i] = IF i <= a THEN img.file[i] ELSE ZeroByte
      BY <1>2, <3>1
    <3>4. new.file[i] # ZeroByte
      <4>1. ZeroByte.word.op = "zero" /\ w.op # "zero" /\ new.file[i].word = w
        BY <1>3, <3>2 DEF ZeroByte, InputWord, TransferOp
      <4>2. QED
        BY <4>1
    <3>5. QED
      BY <3>2, <3>3, <3>4 DEF i
  <2>2. 4 \in 1 .. 4
    OBVIOUS
  <2>3. Whole(img, p, w)
    BY <1>3, <2>1, <2>2 DEF Whole, a
  <2>4. QED
    BY <2>3 DEF AllLead
<1>6. QED
  BY <1>4, <1>5

LEMMA TargetIsInt ==
  ASSUME IInv, Typed, pass = 2, NEW i \in 1 .. Len(script), script[i].op = "insn",
         Evaluates(script[i].arg, EnvAt(script[i], layout[i], labels, structs))
  PROVE  /\ ExprValue(script[i].arg, EnvAt(script[i], layout[i], labels, structs)) \in Int
         /\ layout[i].offset \in Nat
<1> DEFINE l   == script[i]
           c   == layout[i]
           env == EnvAt(l, c, labels, structs)
<1>1. /\ script \in Scripts /\ Len(script) \in Nat /\ Len(layout) = Len(script) + 1
  BY ScriptLength DEF IInv, Layout, Laid
<1>2. c \in CursorSet
  <2>1. layout \in Seq(CursorSet) /\ i \in 1 .. Len(layout)
    BY <1>1 DEF Typed
  <2>2. QED
    BY <2>1
<1>3. LineOK(l)
  <2>1. \A s \in Scripts : \A j \in 1 .. Len(s) : LineOK(s[j])
    BY Zenon, AssemblerAssumption
  <2>2. QED
    BY <1>1, <2>1
<1>4. l.arg \in ExprSet
  BY <1>3 DEF LineOK
<1> HIDE DEF l, c
<1>5. env.loc = c.loc /\ env.vma = Vma(c) /\ env.labels = labels /\ env.structs = structs
  BY DEF EnvAt
<1>6. c.loc \in Offset /\ c.offset \in Nat /\ Vma(c) \in Offset
  BY <1>2, CursorFacts, VmaOffset
<1>7. Evaluates(l.arg, env)
  BY DEF l, c
<1> HIDE DEF env
<1>8. EnvOK(env)
  BY <1>5, <1>6 DEF EnvOK, Typed
<1>9. ExprValue(l.arg, env) \in Int
  BY <1>4, <1>7, <1>8, ValueIsInt
<1>10. QED
  BY <1>6, <1>9 DEF l, c, env

(* A word that has been moved down leads where it led.                     *)
LEMMA DownLeads ==
  ASSUME IInv, Typed, pass = 2, NEW p \in Nat, p >= 4, NEW v \in Word,
         v.op \in TransferOp, v.line \in 1 .. Len(script), Leads(v, p - 4)
  PROVE  Leads(Down(v), p)
<1> DEFINE l   == script[v.line]
           c   == layout[v.line]
           env == EnvAt(l, c, labels, structs)
           t   == ExprValue(l.arg, env)
           w   == Down(v)
<1>1. /\ l.op = "insn"
      /\ \/ l.ins = "b" /\ v.op = "branch"
         \/ /\ l.ins = "branch" /\ v.op = "branch" /\ Evaluates(l.arg, env)
            /\ v.arg = Displacement(t, (p - 4 + c.offset) % AddrMod)
         \/ /\ l.ins = "jump" /\ v.op = "jump" /\ Evaluates(l.arg, env)
            /\ t >= 0 /\ v.arg = (t \div 4) % JumpMod
  BY DEF Leads
<1>2. /\ w.line = v.line /\ w.op = v.op
      /\ w.arg = IF v.op = "branch" THEN (v.arg - 1) % DispMod ELSE v.arg
  BY DEF Down, Word
<1>3. ASSUME v.op = "branch", Evaluates(l.arg, env),
             v.arg = Displacement(t, (p - 4 + c.offset) % AddrMod)
      PROVE  w.arg = Displacement(t, (p + c.offset) % AddrMod)
  <2>1. t \in Int /\ c.offset \in Nat
    BY <1>1, <1>3, TargetIsInt
  <2> DEFINE n == p - 4 + c.offset
  <2>2. n \in Int /\ n + 4 = p + c.offset
    BY <2>1
  <2> HIDE DEF n, t, c, w
  <2>3. Displacement(t, (n + 4) % AddrMod) = (Displacement(t, n % AddrMod) - 1) % DispMod
    BY <2>1, <2>2, NextDisplacement
  <2>4. v.arg = Displacement(t, n % AddrMod)
    BY <1>3 DEF n
  <2>5. QED
    BY <1>2, <1>3, <2>2, <2>3, <2>4
<1> HIDE DEF w
<1>4. QED
  BY <1>1, <1>2, <1>3 DEF Leads, w

LEMMA ExchangeLeads ==
  ASSUME IInv, Typed, pass = 2, AllLead(image), NEW new, Exchanged(new)
  PROVE  AllLead(new)
<1> SUFFICES ASSUME NEW p, NEW w, Whole(new, p, w)
             PROVE  w.line \in 1 .. Len(script) /\ Leads(w, p)
  BY DEF AllLead
<1>1. CASE Whole(image, p, w)
  BY <1>1 DEF AllLead
<1>2. ASSUME NEW v, Whole(image, p - 4, v), w = Down(v)
      PROVE  w.line \in 1 .. Len(script) /\ Leads(w, p)
  <2>1. v.line \in 1 .. Len(script) /\ Leads(v, p - 4)
    BY <1>2 DEF AllLead
  <2>2. /\ p - 4 \in Nat /\ p - 4 + 4 <= Len(image.file) /\ v.op \in TransferOp
        /\ image.file[p - 4 + 1] = [word |-> v, k |-> 1]
    BY <1>2 DEF Whole
  <2>3. p \in Nat
    BY DEF Whole
  <2>4. v \in Word
    <3>1. image.file \in Seq(CodeByte) /\ Len(image.file) \in Nat
      BY SinkFacts DEF Typed, SinkOK, ImageSet
    <3>2. p - 4 + 1 \in 1 .. Len(image.file)
      BY <2>2, <2>3, <3>1
    <3>3. image.file[p - 4 + 1] \in CodeByte
      BY <3>1, <3>2, ElementOfSeq
    <3>4. [word |-> v, k |-> 1] \in CodeByte
      BY <2>2, <3>3
    <3>5. [word |-> v, k |-> 1].word \in Word
      BY <3>4 DEF CodeByte
    <3>6. QED
      BY <3>5
  <2>5. p >= 4
    BY <2>2, <2>3
  <2>6. Leads(Down(v), p)
    BY <2>1, <2>2, <2>3, <2>4, <2>5, DownLeads
  <2>7. Down(v).line = v.line
    BY <2>4 DEF Down, Word
  <2>8. QED
    BY <1>2, <2>1, <2>6, <2>7
<1>3. QED
  BY <1>1, <1>2 DEF Exchanged

LEMMA LineKeepsLead ==
  ASSUME IInv, Typed, TransfersLead, Reading, Lays
  PROVE  TransfersLead'
<1>1. CASE \E how \in {"stopped", "crashed"} : \E img : SinkOK(img) /\ Abort(how, img)
  <2>1. status' \in {"stopped", "crashed"}
    BY <1>1 DEF Abort
  <2>2. QED
    BY <2>1 DEF TransfersLead
<1>2. CASE /\ \E c \in CursorSet, e \in Nat, ws \in SUBSET {4120} :
                EndLine(c, e, ws) /\ (e = 0 => LaysFile)
           /\ SinkOK(image')
           /\ IF pass = 1 THEN image' = image ELSE structs' = structs
  <2>1. PICK c \in CursorSet, e \in Nat, ws \in SUBSET {4120} :
          EndLine(c, e, ws) /\ (e = 0 => LaysFile)
    BY <1>2
  <2>2. /\ script' = script /\ opts' = opts /\ pass' = pass
        /\ errors' = errors + (PreludeErrors(line, cur) + e)
        /\ labels' = LabelsAt(line, cur)
        /\ layout' = IF pass = 1 THEN Append(layout, c) ELSE layout
    BY <2>1 DEF EndLine, inputs
  <2>3. status' \in {"running", "stopped"}
    <3>1. status' = "stopped" \/ status' = status
      BY <2>1 DEF EndLine
    <3>2. QED
      BY <3>1 DEF Reading
  <2>4. pass \in {1, 2} /\ pc \in 1 .. Len(script)
    BY AtALine
  <2>5. CASE pass = 1
    <3>1. /\ image' = image
          /\ \A i \in 1 .. Len(image.file) : image.file[i].word.op \notin TransferOp
      BY <1>2, <2>5 DEF TransfersLead, Reading
    <3>2. AllLead(image)'
      BY <1>2, <3>1, NoneWhole
    <3>3. QED
      BY <2>2, <2>5, <3>1, <3>2 DEF TransfersLead
  <2>6. CASE pass = 2
    <3> SUFFICES ASSUME status' = "running", Sound'
                 PROVE  AllLead(image)'
      BY <2>2, <2>3, <2>6 DEF TransfersLead
    <3>1. structs' = structs /\ labels' = labels /\ layout' = layout
      BY <1>2, <2>2, <2>6 DEF LabelsAt
    <3>2. e = 0 /\ Sound
      <4>1. errors \in Nat /\ PreludeErrors(line, cur) \in Nat
        BY TotalErrors DEF IInv, Layout
      <4>2. errors' = 0 /\ NoFieldShadowed'
        BY DEF Sound
      <4>3. NoFieldShadowed
        BY <3>1, <4>2 DEF NoFieldShadowed
      <4>4. QED
        BY <2>2, <4>1, <4>2, <4>3 DEF Sound
    <3>3. cur = layout[pc]
      BY <2>6, <3>2 DEF IInv, PassesAgree, Reading
    <3>4. SinkOK(image) /\ cur.loc \in Nat
      BY CursorFacts DEF Typed
    <3>5. AllLead(image)
      BY <3>2 DEF TransfersLead, Reading
    <3>6. PICK n \in Nat : \/ LaidBy(image, cur.loc, n, image')
                           \/ Exchanged(image')
      BY <2>1, <2>6, <3>2 DEF LaysFile
    <3>7. CASE LaidBy(image, cur.loc, n, image')
      <4>1. AllLead(image')
        BY <1>2, <2>4, <2>6, <3>3, <3>4, <3>5, <3>7, LineLeads
      <4>2. QED
        BY <2>2, <3>1, <4>1, LeadFrame
    <3>8. CASE Exchanged(image')
      <4>1. AllLead(image')
        BY <2>6, <3>5, <3>8, ExchangeLeads
      <4>2. QED
        BY <2>2, <3>1, <4>1, LeadFrame
    <3>9. QED
      BY <3>6, <3>7, <3>8
  <2>7. QED
    BY <2>4, <2>5, <2>6
<1>3. QED
  BY <1>1, <1>2 DEF Lays

LEMMA InitLead == Init => TransfersLead
<1> SUFFICES ASSUME Init
             PROVE  TransfersLead
  OBVIOUS
<1>1. /\ SinkOK(image) /\ Len(image.file) = inputLen
      /\ \A i \in 1 .. inputLen : image.file[i].word.op = "input"
  BY OpenedTyped
<1>2. \A i \in 1 .. Len(image.file) : image.file[i].word.op \notin TransferOp
  BY <1>1 DEF TransferOp
<1>3. AllLead(image)
  BY <1>1, <1>2, NoneInFile DEF AllLead
<1>4. QED
  BY <1>2, <1>3 DEF TransfersLead

LEMMA NextLead == IInv /\ Typed /\ TransfersLead /\ [Next]_vars => TransfersLead'
<1> SUFFICES ASSUME IInv, Typed, TransfersLead, [Next]_vars
             PROVE  TransfersLead'
  OBVIOUS
<1>1. CASE UNCHANGED vars \/ Stopped \/ Finish
  <2>1. /\ UNCHANGED <<script, opts, pass, layout, labels, structs, image, errors>>
        /\ status' = status \/ status = "running"
        /\ status' = "running" => status = "running"
        /\ status' = "done" => status \in {"running", "done"}
    BY <1>1 DEF Finish, Stopped, vars, inputs, reading, naming, result
  <2>2. AllLead(image)' <=> AllLead(image)
    BY <2>1, LeadFrame
  <2>3. Sound' <=> Sound
    BY <2>1 DEF Sound, NoFieldShadowed
  <2>4. QED
    BY <2>1, <2>2, <2>3 DEF TransfersLead
<1>2. CASE Reading /\ Lays
  BY <1>2, LineKeepsLead
<1>3. CASE ReadBlank
  <2>1. /\ UNCHANGED <<script, opts, pass, labels, structs, image, errors, status>>
        /\ layout' = IF pass = 1 THEN Append(layout, cur) ELSE layout
        /\ status = "running"
    BY <1>3 DEF ReadBlank, Reading, inputs, naming, result
  <2>2. CASE pass = 1
    <3>1. \A i \in 1 .. Len(image.file) : image.file[i].word.op \notin TransferOp
      BY <2>1, <2>2 DEF TransfersLead
    <3>2. SinkOK(image')
      BY <2>1 DEF Typed
    <3>3. AllLead(image)'
      BY <2>1, <3>1, <3>2, NoneWhole
    <3>4. QED
      BY <2>1, <3>1, <3>3 DEF TransfersLead
  <2>3. CASE pass # 1
    <3>1. layout' = layout
      BY <2>1, <2>3
    <3>2. AllLead(image)' <=> AllLead(image)
      BY <2>1, <3>1, LeadFrame
    <3>3. Sound' <=> Sound
      BY <2>1 DEF Sound, NoFieldShadowed
    <3>4. QED
      BY <2>1, <2>3, <3>2, <3>3 DEF TransfersLead
  <2>4. QED
    BY <2>2, <2>3
<1>4. CASE StartPass2
  <2>1. /\ image' = image /\ pass' = 2 /\ pass = 1 /\ status = "running"
    BY <1>4 DEF StartPass2, result
  <2>2. SinkOK(image') /\ \A i \in 1 .. Len(image'.file) : image'.file[i].word.op \notin TransferOp
    BY <2>1 DEF TransfersLead, Typed
  <2>3. AllLead(image)'
    BY <2>2, NoneWhole
  <2>4. QED
    BY <2>1, <2>3 DEF TransfersLead
<1>5. QED
  BY <1>1, <1>2, <1>3, <1>4, LinesLay

LEMMA LeadingLands ==
  ASSUME IInv, Typed, TransfersLead, status = "done", Sound,
         NEW k \in 0 .. Len(image.file) - 4,
         HoldsWord(k, "branch") \/ HoldsWord(k, "jump"),
         script[image.file[k + 1].word.line].ins # "b"
  PROVE  Lands(k)
<1> DEFINE b    == image.file[k + 1]
           w    == b.word
           i    == w.line
           l    == script[i]
           c    == layout[i]
           name == Compose(l.arg.ref, layout[i + 1].scope)
           next == (k + c.offset + 4) % AddrMod
           t    == labels[name] + l.arg.add
           to   == t % AddrMod
           args == 0 .. (IF w.op = "branch" THEN DispMod ELSE JumpMod) - 1
<1>1. SinkOK(image) /\ Len(image.file) \in Nat /\ image.file \in Seq(CodeByte)
  BY SinkFacts DEF Typed, SinkOK, ImageSet
<1>2. k \in Nat /\ k + 1 \in 1 .. Len(image.file) /\ k + 4 <= Len(image.file)
  BY <1>1
<1>3. w.op \in TransferOp /\ Whole(image, k, w)
  <2>1. w.op \in TransferOp /\ SubSeq(image.file, k + 1, k + 4) = WordBytes(w)
    BY DEF HoldsWord, TransferOp
  <2>2. \A j \in 1 .. 4 : SubSeq(image.file, k + 1, k + 4)[j] = image.file[k + j]
    <3> TAKE j \in 1 .. 4
    <3>1. j \in 1 .. k + 4 - (k + 1) + 1 /\ k + 1 + j - 1 = k + j
      BY <1>2
    <3>2. QED
      BY <1>1, <1>2, <3>1
  <2>3. \A j \in 1 .. 4 : WordBytes(w)[j] = [word |-> w, k |-> j]
    BY DEF WordBytes
  <2> HIDE DEF w
  <2>4. QED
    BY <1>2, <2>1, <2>2, <2>3 DEF Whole
<1>4. i \in 1 .. Len(script) /\ Leads(w, k)
  BY <1>3 DEF TransfersLead, AllLead
<1>5. /\ script \in Scripts /\ Len(script) \in Nat /\ pass = 2
      /\ Len(layout) = Len(script) + 1
  BY ScriptLength DEF IInv, Layout, Exported, Laid
<1>6. c.offset \in Nat
  <2>1. layout \in Seq(CursorSet) /\ i \in 1 .. Len(layout)
    BY <1>4, <1>5 DEF Typed
  <2>2. c \in CursorSet
    BY <2>1
  <2> HIDE DEF c
  <2>3. QED
    BY <2>2, CursorFacts
<1> DEFINE env == EnvAt(l, c, labels, structs)
           tv  == ExprValue(l.arg, env)
<1>7. /\ l.op = "insn"
      /\ \/ w.op = "branch" /\ w.arg = Displacement(tv, (k + c.offset) % AddrMod)
         \/ w.op = "jump" /\ w.arg = (tv \div 4) % JumpMod
  BY <1>4 DEF Leads
<1>8. layout[i + 1].scope = env.scope
  <2>1. layout[i + 1] = After(l, c, labels, structs)
    BY <1>4, <1>5 DEF IInv, Chained, Laid
  <2>2. After(l, c, labels, structs) = Moved(Entered(l, c), AsmLen(l, structs))
    <3>1. l.op = "insn"
      BY <1>7
    <3> HIDE DEF l, c
    <3>2. QED
      BY <3>1 DEF After, Moving
  <2>3. Moved(Entered(l, c), AsmLen(l, structs)).scope = Entered(l, c).scope
    BY DEF Moved, At
  <2>4. env.scope = Entered(l, c).scope
    BY DEF EnvAt
  <2>5. QED
    BY <2>1, <2>2, <2>3, <2>4
<1>9. ASSUME l.arg.ref \notin {NoName, LOC, VMA}, name \in DOMAIN labels,
             \E a \in args : Landing(w.op, a, next) = to
      PROVE  Landing(w.op, w.arg, next) = to
  <2>1. PICK a \in args : Landing(w.op, a, next) = to
    BY <1>9
  <2>2. tv = t
    <3>1. name = Compose(l.arg.ref, env.scope) /\ env.labels = labels
      BY <1>8 DEF EnvAt
    <3> HIDE DEF env, name
    <3>2. QED
      BY <1>9, <3>1 DEF ExprValue, LabelValue
  <2>3. t \in Int
    <3>1. labels[name] \in Offset
      <4>1. \A n \in DOMAIN labels : labels[n] \in Offset
        BY DEF Typed
      <4> HIDE DEF name
      <4>2. QED
        BY <1>9, <4>1
    <3>2. LineOK(l)
      <4>1. \A s \in Scripts : \A j \in 1 .. Len(s) : LineOK(s[j])
        BY Zenon, AssemblerAssumption
      <4>2. QED
        BY <1>4, <1>5, <4>1
    <3>3. l.arg.add \in Int
      BY <1>7, <3>2 DEF LineOK, ExprSet
    <3> HIDE DEF l, name
    <3>4. labels[name] \in Int
      BY <3>1 DEF Offset
    <3>5. QED
      BY <3>3, <3>4
  <2> HIDE DEF t, tv, name, args, b
  <2>4. CASE w.op = "branch" /\ w.arg = Displacement(tv, (k + c.offset) % AddrMod)
    <3> DEFINE n == k + c.offset
    <3>1. n \in Int /\ (k + c.offset) % AddrMod = n % AddrMod /\ next = (n + 4) % AddrMod
      BY <1>2, <1>6
    <3>2. a \in 0 .. DispMod - 1
      BY <2>1, <2>4 DEF args
    <3>3. Landing("branch", a, (n + 4) % AddrMod) = t % AddrMod
      BY <2>1, <2>4, <3>1
    <3> HIDE DEF n
    <3>4. Displacement(t, n % AddrMod) = a
      BY <2>3, <3>1, <3>2, <3>3, DisplacementLeads
    <3>5. w.arg = a
      BY <2>2, <2>4, <3>1, <3>4
    <3>6. QED
      BY <2>1, <3>5
  <2>5. CASE w.op = "jump" /\ w.arg = (tv \div 4) % JumpMod
    <3>1. next \in Int
      <4>1. k + c.offset + 4 \in Int
        BY <1>2, <1>6
      <4>2. QED
        BY <4>1, Moduli
    <3>2. a \in 0 .. JumpMod - 1
      BY <2>1, <2>5 DEF args
    <3>3. Landing("jump", a, next) = t % AddrMod
      BY <2>1, <2>5
    <3> HIDE DEF next
    <3>4. (t \div 4) % JumpMod = a
      BY <2>3, <3>1, <3>2, <3>3, TargetLeads
    <3>5. w.arg = a
      BY <2>2, <2>5, <3>4
    <3>6. QED
      BY <2>1, <3>5
  <2>6. QED
    BY <1>7, <2>4, <2>5
<1>10. QED
  BY Zenon, <1>9 DEF Lands

(* Every whole branch or jump in the patched file leads to the label its   *)
(* line names, as long as any displacement or target does, also where a    *)
(* large LI or LA in its delay slot has moved it: mkasm computes it with   *)
(* the labels of pass 1 for the address where pass 2 writes the word, no   *)
(* other line can put such bytes there, and what is moved is lowered.      *)
THEOREM BranchesLead == Spec => []BranchesLand
<1>1. Init => IInv /\ Typed /\ TransfersLead
  BY InitHolds, InitTyped, InitLead
<1>2. (IInv /\ Typed /\ TransfersLead) /\ [Next]_vars
        => (IInv /\ Typed /\ TransfersLead)'
  BY NextPreserves, NextTyped, NextLead
<1>3. IInv /\ Typed /\ TransfersLead => BranchesLand
  BY LeadingLands DEF BranchesLand
<1>4. QED
  BY <1>1, <1>2, <1>3, PTL DEF Spec
=============================================================================
