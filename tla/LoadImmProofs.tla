--------------------------- MODULE LoadImmProofs ---------------------------
(***************************************************************************)
(* The expansion of LI and LA is right, for every operand and every width  *)
(* of the halves, the 16 bits of the R5900 included, from the first pass   *)
(* to the running program.                                                 *)
(***************************************************************************)
EXTENDS LoadImmExec, SequenceLemmas

(* An integer by its low half, its high half and the rest.                 *)
LEMMA Halves ==
  ASSUME NEW v \in Int
  PROVE  \E q \in Int, h \in 0 .. Half - 1, l \in 0 .. Half - 1 :
           v = Half * (Half * q + h) + l
<1> USE HalfAssumption
<1> DEFINE w == v \div Half
<1>1. v = Half * w + (v % Half) /\ v % Half \in 0 .. Half - 1 /\ w \in Int
  OBVIOUS
<1> HIDE DEF w
<1>2. w = Half * (w \div Half) + (w % Half) /\ w % Half \in 0 .. Half - 1
      /\ w \div Half \in Int
  BY <1>1
<1>3. QED
  BY <1>1, <1>2

(* What the divisions of LoadImm make of an integer given by its halves.   *)
LEMMA HalvesOf ==
  ASSUME NEW q \in Int, NEW h \in 0 .. Half - 1, NEW l \in 0 .. Half - 1,
         NEW v \in Int, v = Half * (Half * q + h) + l
  PROVE  /\ v % Half = l
         /\ v \div Half = Half * q + h
         /\ (v \div Half) % Half = h
         /\ Half * h + l \in 0 .. Full - 1
         /\ v % Full = Half * h + l
<1> USE HalfAssumption
<1>1. Half * q + h \in Int
  OBVIOUS
<1>2. v % Half = l /\ v \div Half = Half * q + h
  BY <1>1, DivisionUnique
<1> DEFINE w == v \div Half
<1>3. w % Half = h
  <2>1. w = Half * q + h /\ w \in Int
    BY <1>1, <1>2
  <2> HIDE DEF w
  <2>2. Half \in Nat \ {0}
    OBVIOUS
  <2>3. QED
    BY ONLY <2>1, <2>2, DivisionUnique, q \in Int, h \in 0 .. Half - 1
<1>4. Half * h <= Half * (Half - 1) /\ Half * h \in Nat
  OBVIOUS
<1>5. Half * h + l \in 0 .. Full - 1 /\ Full \in Nat \ {0}
  BY <1>4 DEF Full
<1> DEFINE n == Half * h + l
<1>6. v = Full * q + n
  BY DEF Full
<1>7. v % Full = n
  <2> HIDE DEF n
  <2>1. n \in 0 .. Full - 1 /\ Full \in Nat \ {0}
    BY <1>5 DEF n
  <2>2. QED
    BY <1>6, <2>1, DivisionUnique
<1>8. QED
  BY <1>2, <1>3, <1>5, <1>7

LEMMA ByHalves ==
  ASSUME NEW v \in Int
  PROVE  \E q \in Int, h \in 0 .. Half - 1, l \in 0 .. Half - 1 :
           /\ v % Half = l
           /\ v \div Half = Half * q + h
           /\ (v \div Half) % Half = h
           /\ Half * h + l \in 0 .. Full - 1
           /\ v % Full = Half * h + l
<1>1. PICK q \in Int, h \in 0 .. Half - 1, l \in 0 .. Half - 1 :
        v = Half * (Half * q + h) + l
  BY Halves
<1>2. /\ v % Half = l
      /\ v \div Half = Half * q + h
      /\ (v \div Half) % Half = h
      /\ Half * h + l \in 0 .. Full - 1
      /\ v % Full = Half * h + l
  BY <1>1, HalvesOf
<1>3. QED
  BY <1>2

(* LUI followed by ADDIU: the carry into the upper half undoes the sign    *)
(* extension of the lower one.                                             *)
LEMMA AddiuPairLoads ==
  ASSUME NEW v \in Int
  PROVE  Loaded(AddiuPair(v)) = Imm32(v)
<1> USE HalfAssumption
<1>1. PICK q \in Int, h \in 0 .. Half - 1, l \in 0 .. Half - 1 :
           /\ v % Half = l
           /\ v \div Half = Half * q + h
           /\ (v \div Half) % Half = h
           /\ Half * h + l \in 0 .. Full - 1
           /\ v % Full = Half * h + l
  BY ByHalves
<1>2. PICK g \in Nat : Half = 2 * g
  <2>1. Half = 2 * (Half \div 2) + (Half % 2) /\ Half \div 2 \in Int
    OBVIOUS
  <2> DEFINE g == Half \div 2
  <2>2. Half = 2 * g /\ g \in Nat
    BY <2>1
  <2> HIDE DEF g
  <2>3. QED
    BY <2>2
<1>3. Full \in Nat \ {0} /\ Half * Half = Full
  BY DEF Full
<1> DEFINE n == Half * h + l
<1>4. n \in 0 .. Full - 1 /\ Imm32(v) = SignedFull(n)
  BY <1>1 DEF Imm32
<1>5. CASE 2 * l >= Half
  <2>1. Carry(v) = 1 /\ Low(v) = l - Half
    BY <1>1, <1>2, <1>5 DEF Carry, Low
  <2>2. (l - Half) % Half = l
    <3>1. l - Half = Half * (-1) + l /\ l - Half \in Int
      OBVIOUS
    <3>2. QED
      BY <3>1, DivisionUnique
  <2>3. SignedHalf(l) = l - Half
    BY <1>5 DEF SignedHalf
  <2> DEFINE hi == (Half * q + h + 1) % Half
  <2>4. \E k \in {0, 1} : hi = h + 1 - Half * k /\ hi \in 0 .. Half - 1
    <3>1. CASE h + 1 < Half
      <4>1. h + 1 \in 0 .. Half - 1 /\ Half * q + h + 1 = Half * q + (h + 1)
            /\ Half * q + h + 1 \in Int
        BY <3>1
      <4> DEFINE x == Half * q + h + 1
      <4>2. x % Half = h + 1
        <5>1. x = Half * q + (h + 1) /\ x \in Int /\ Half \in Nat \ {0}
          BY <4>1
        <5> HIDE DEF x
        <5>2. QED
          BY ONLY <4>1, <5>1, DivisionUnique, q \in Int
      <4>3. hi = h + 1
        BY <4>2
      <4>4. QED
        BY <4>1, <4>3
    <3>2. CASE h + 1 = Half
      <4>1. Half * q + h + 1 = Half * (q + 1) + 0 /\ q + 1 \in Int
        BY <3>2
      <4>2. Half * q + h + 1 \in Int /\ 0 \in 0 .. Half - 1
        OBVIOUS
      <4>3. hi = 0
        BY <4>1, <4>2, DivisionUnique
      <4>4. QED
        BY <3>2, <4>3
    <3>3. QED
      BY <3>1, <3>2
  <2> DEFINE r1 == SignedFull(hi * Half)
  <2>5. \E k \in Int : r1 + (l - Half) = Full * k + n /\ r1 \in Int
    <3>1. PICK k \in {0, 1} : hi = h + 1 - Half * k /\ hi \in 0 .. Half - 1
      BY <2>4
    <3> HIDE DEF hi
    <3>2. hi * Half = Half * h + Half - Full * k /\ hi * Half \in Int
      BY <3>1, <1>3
    <3>3. PICK j \in {0, 1} : r1 = hi * Half - Full * j
      BY <1>3, <3>2 DEF SignedFull
    <3>4. r1 + (l - Half) = Full * (- k - j) + n /\ - k - j \in Int /\ r1 \in Int
      BY <1>3, <3>2, <3>3
    <3>5. QED
      BY <3>4
  <2>6. (r1 + (l - Half)) % Full = n
    <3>1. PICK k \in Int : r1 + (l - Half) = Full * k + n /\ r1 \in Int
      BY <2>5
    <3> DEFINE x == r1 + (l - Half)
    <3>2. x = Full * k + n /\ x \in Int /\ n \in 0 .. Full - 1
          /\ Full \in Nat \ {0}
      BY <1>3, <1>4, <3>1
    <3>3. x % Full = n
      <4> HIDE DEF x, n
      <4>1. QED
        BY ONLY <3>2, DivisionUnique, k \in Int
    <3>4. QED
      BY <3>3
  <2>7. AddiuPair(v) = << [op |-> "lui", imm |-> hi], [op |-> "addiu", imm |-> l] >>
    BY <1>1, <2>1, <2>2 DEF AddiuPair, Insn
  <2>8. Loaded(AddiuPair(v)) = SignedFull((r1 + (l - Half)) % Full)
    <3> HIDE DEF hi
    <3>1. QED
      BY <2>3, <2>7 DEF Loaded, Executed
  <2>9. QED
    BY <1>4, <2>6, <2>8
<1>6. CASE 2 * l < Half
  <2>1. Carry(v) = 0 /\ Low(v) = l
    BY <1>1, <1>2, <1>6 DEF Carry, Low
  <2>2. l % Half = l
    <3>1. l = Half * 0 + l /\ l \in Int
      OBVIOUS
    <3>2. QED
      BY <3>1, DivisionUnique
  <2>3. SignedHalf(l) = l
    BY <1>6 DEF SignedHalf
  <2> DEFINE r1 == SignedFull(h * Half)
  <2>4. \E k \in Int : r1 + l = Full * k + n /\ r1 \in Int
    <3>1. PICK j \in {0, 1} : r1 = h * Half - Full * j
      BY <1>3 DEF SignedFull
    <3>2. r1 + l = Full * (- j) + n /\ - j \in Int /\ r1 \in Int
      BY <1>3, <3>1
    <3>3. QED
      BY <3>2
  <2>5. (r1 + l) % Full = n
    <3>1. PICK k \in Int : r1 + l = Full * k + n /\ r1 \in Int
      BY <2>4
    <3> DEFINE x == r1 + l
    <3>2. x = Full * k + n /\ x \in Int /\ n \in 0 .. Full - 1
          /\ Full \in Nat \ {0}
      BY <1>3, <1>4, <3>1
    <3>3. x % Full = n
      <4> HIDE DEF x, n
      <4>1. QED
        BY ONLY <3>2, DivisionUnique, k \in Int
    <3>4. QED
      BY <3>3
  <2>6. AddiuPair(v) = << [op |-> "lui", imm |-> h], [op |-> "addiu", imm |-> l] >>
    BY <1>1, <2>1, <2>2 DEF AddiuPair, Insn
  <2>7. Loaded(AddiuPair(v)) = SignedFull((r1 + l) % Full)
    BY <2>3, <2>6 DEF Loaded, Executed
  <2>8. QED
    BY <1>4, <2>5, <2>7
<1>7. QED
  BY <1>5, <1>6

LEMMA LiCodeLoads ==
  ASSUME NEW v \in Int
  PROVE  Loaded(LiCode(v)) = Imm32(v)
<1> USE HalfAssumption
<1>1. PICK q \in Int, h \in 0 .. Half - 1, l \in 0 .. Half - 1 :
           /\ v % Half = l
           /\ v \div Half = Half * q + h
           /\ (v \div Half) % Half = h
           /\ Half * h + l \in 0 .. Full - 1
           /\ v % Full = Half * h + l
  BY ByHalves
<1> DEFINE u == Half * h + l
           s == SignedFull(u)
<1>2. Imm32(v) = s /\ v % Full = u
  BY <1>1 DEF Imm32
<1>3. Full \in Nat \ {0} /\ Half * Half = Full
  BY DEF Full
<1>4. u % Half = l /\ u \div Half = h /\ h % Half = h /\ l % Half = l
  <2>1. u = Half * h + l /\ u \in Int /\ h \in Int /\ Half \in Nat \ {0}
    OBVIOUS
  <2>2. u % Half = l /\ u \div Half = h
    <3> HIDE DEF u
    <3>1. QED
      BY ONLY <2>1, DivisionUnique, l \in 0 .. Half - 1
  <2>3. h = Half * 0 + h /\ l = Half * 0 + l /\ l \in Int /\ 0 \in Int
    OBVIOUS
  <2>4. h % Half = h
    BY ONLY <2>1, <2>3, DivisionUnique, h \in 0 .. Half - 1
  <2>5. l % Half = l
    BY ONLY <2>1, <2>3, DivisionUnique, l \in 0 .. Half - 1
  <2>6. QED
    BY <2>2, <2>4, <2>5
<1>5. \E j \in {0, 1} : s = u - Full * j
  BY <1>1, <1>3 DEF SignedFull
<1>6. s \in Int /\ s % Half = l
  <2>1. PICK j \in {0, 1} : s = u - Full * j
    BY <1>5
  <2>2. s = Half * (h - Half * j) + l /\ h - Half * j \in Int /\ s \in Int
        /\ Half \in Nat \ {0}
    BY <1>3, <2>1
  <2>3. s % Half = l
    <3> DEFINE y == h - Half * j
    <3>1. s = Half * y + l /\ y \in Int
      BY <2>2
    <3> HIDE DEF s, y
    <3>2. QED
      BY ONLY <2>2, <3>1, DivisionUnique, l \in 0 .. Half - 1
  <2>4. QED
    BY <2>2, <2>3
<1>7. CASE l = 0
  <2>1. LiCode(v) = << [op |-> "lui", imm |-> h] >>
    BY <1>2, <1>4, <1>6, <1>7 DEF LiCode, Insn
  <2>2. Loaded(LiCode(v)) = SignedFull(h * Half)
    BY <2>1 DEF Loaded, Executed
  <2>3. QED
    BY <1>2, <1>7, <2>2
<1>8. CASE l # 0 /\ 2 * s > Half - 2
  <2>1. LiCode(v) = AddiuPair(u)
    BY <1>2, <1>6, <1>8 DEF LiCode
  <2>2. Loaded(LiCode(v)) = Imm32(u)
    BY <2>1, AddiuPairLoads
  <2>3. u % Full = u
    <3>1. u = Full * 0 + u /\ u \in 0 .. Full - 1 /\ u \in Int /\ 0 \in Int
      BY <1>1, <1>3
    <3> HIDE DEF u
    <3>2. QED
      BY ONLY <1>3, <3>1, DivisionUnique
  <2>4. QED
    BY <1>2, <2>2, <2>3 DEF Imm32
<1>9. CASE l # 0 /\ ~(2 * s > Half - 2) /\ 2 * s < -Half
  <2>1. LiCode(v) = << [op |-> "lui", imm |-> h], [op |-> "ori", imm |-> l] >>
    BY <1>2, <1>4, <1>6, <1>9 DEF LiCode, Insn
  <2>2. Loaded(LiCode(v)) = SignedFull(h * Half) + l
    BY <2>1 DEF Loaded, Executed
  <2>3. 2 * u >= Full
    BY <1>1, <1>3, <1>9 DEF SignedFull
  <2>4. 2 * (h * Half) >= Full
    <3>1. PICK g \in Nat : Half = 2 * g
      <4>1. Half = 2 * (Half \div 2) + (Half % 2) /\ Half \div 2 \in Int
        OBVIOUS
      <4> DEFINE g == Half \div 2
      <4>2. Half = 2 * g /\ g \in Nat
        BY <4>1
      <4> HIDE DEF g
      <4>3. QED
        BY <4>2
    <3>2. SUFFICES ASSUME 2 * (h * Half) < Full PROVE FALSE
      BY <1>3
    <3>3. h < g
      BY <1>3, <3>1, <3>2
    <3>4. Half * h <= Half * (g - 1)
      BY <3>1, <3>3
    <3>5. 2 * (Half * (g - 1)) = Full - 2 * Half
      BY <1>3, <3>1
    <3> DEFINE a == Half * h
               b == Half * (g - 1)
    <3>6. 2 * (a + l) >= Full /\ a <= b /\ 2 * b = Full - 2 * Half
          /\ a \in Int /\ b \in Int /\ Full \in Int
      BY <1>3, <2>3, <3>4, <3>5
    <3>7. QED
      <4> HIDE DEF a, b
      <4>1. QED
        BY ONLY <3>6, HalfAssumption, l \in 0 .. Half - 1
  <2>5. QED
    BY <1>2, <1>3, <2>2, <2>3, <2>4 DEF SignedFull
<1>10. CASE l # 0 /\ ~(2 * s > Half - 2) /\ ~(2 * s < -Half)
  <2>1. LiCode(v) = << [op |-> "addiu", imm |-> l] >>
    BY <1>1, <1>2, <1>6, <1>10 DEF LiCode, Insn
  <2>2. Loaded(LiCode(v)) = SignedFull((0 + SignedHalf(l)) % Full)
    BY <2>1 DEF Loaded, Executed
  <2>3. PICK j \in {0, 1} : s = u - Full * j
    BY <1>5
  <2>4. SignedHalf(l) = s
    BY <1>1, <1>3, <1>6, <1>10, <2>3 DEF SignedHalf, SignedFull
  <2>5. s % Full = u
    <3>1. s = Full * (- j) + u /\ - j \in Int /\ u \in 0 .. Full - 1
      BY <1>1, <1>3, <2>3
    <3> DEFINE y == - j
    <3>2. s = Full * y + u /\ y \in Int /\ s \in Int /\ u \in 0 .. Full - 1
          /\ Full \in Nat \ {0}
      BY <1>3, <1>6, <3>1
    <3> HIDE DEF s, u, y
    <3>3. QED
      BY ONLY <3>2, DivisionUnique
  <2>6. (0 + SignedHalf(l)) % Full = u
    BY <1>6, <2>4, <2>5
  <2>7. QED
    BY <1>2, <2>2, <2>6
<1>11. QED
  BY <1>7, <1>8, <1>9, <1>10

(* get_asm_len and mkasm choose the short forms for the same operands.     *)
LEMMA LiSizeIsCodeSize ==
  ASSUME NEW v \in Int
  PROVE  4 * Len(LiCode(v)) = LiSize(v)
<1> USE HalfAssumption
<1>1. Imm32(v) \in Int
  BY DEF Imm32, SignedFull, Full
<1> DEFINE s == Imm32(v)
<1>2. CASE s % Half = 0
  BY <1>2 DEF LiCode, LiSize
<1>3. CASE s % Half # 0
  BY <1>1, <1>3 DEF LiCode, LiSize, Wide, AddiuPair
<1>4. QED
  BY <1>2, <1>3

(* The forms LI and LA can take. *)
LEMMA CodeType ==
  ASSUME NEW v \in Int
  PROVE  /\ LiCode(v) \in Seq([op : {"lui", "addiu", "ori"}, imm : 0 .. Half - 1])
         /\ LaCode(v) \in Seq([op : {"lui", "addiu", "ori"}, imm : 0 .. Half - 1])
<1> USE HalfAssumption
<1> DEFINE Word == [op : {"lui", "addiu", "ori"}, imm : 0 .. Half - 1]
<1>1. \A i \in Int : i % Half \in 0 .. Half - 1
  OBVIOUS
<1>2. \A i \in Int : /\ Insn("lui", i) \in Word
                     /\ Insn("addiu", i) \in Word
                     /\ Insn("ori", i) \in Word
  BY <1>1 DEF Insn
<1>3. Full \in Nat \ {0}
  BY DEF Full
<1>4. \A i \in Int : i % Full \in Int
  BY <1>3
<1>5. \A i \in Int : i \div Half \in Int /\ Carry(i) \in Int /\ Low(i) \in Int
  BY DEF Carry, Low
<1> HIDE DEF Word
<1>6. \A i \in Int : AddiuPair(i) \in Seq(Word)
  BY <1>2, <1>5 DEF AddiuPair
<1>7. LaCode(v) \in Seq(Word)
  BY <1>6 DEF LaCode
<1>8. LiCode(v) \in Seq(Word)
  <2> DEFINE u == v % Full
  <2>1. u \in Int /\ u \div Half \in Int /\ u % Half \in Int
    BY <1>4
  <2> HIDE DEF u
  <2>2. /\ << Insn("lui", u \div Half) >> \in Seq(Word)
        /\ AddiuPair(u) \in Seq(Word)
        /\ << Insn("lui", u \div Half), Insn("ori", u % Half) >> \in Seq(Word)
        /\ << Insn("addiu", v) >> \in Seq(Word)
    BY <1>2, <1>6, <2>1
  <2>3. \/ LiCode(v) = << Insn("lui", u \div Half) >>
        \/ LiCode(v) = AddiuPair(u)
        \/ LiCode(v) = << Insn("lui", u \div Half), Insn("ori", u % Half) >>
        \/ LiCode(v) = << Insn("addiu", v) >>
    BY Zenon DEF LiCode, u
  <2>4. QED
    BY <2>2, <2>3
<1>9. QED
  BY <1>7, <1>8 DEF Word

(* What the expansions leave in the register is a number. *)
LEMMA RegType ==
  ASSUME NEW v \in Int
  PROVE  Loaded(LiCode(v)) \in Int /\ Loaded(LaCode(v)) \in Int
<1>1. Imm32(v) \in Int
  BY HalfAssumption DEF Imm32, SignedFull, Full
<1>2. QED
  BY <1>1, LiCodeLoads, AddiuPairLoads DEF LaCode
-----------------------------------------------------------------------------
(* What the phases know of each other: the code is the expansion of the    *)
(* operand, and the room reserved for it was computed from the operand too. *)
Expanded ==
  /\ phase = "reserved" =>
       reserved = IF pseudo = "li" THEN LiSize(operand) ELSE 8
  /\ phase \in {"emitted", "run"} =>
       /\ code = IF pseudo = "li" THEN LiCode(operand) ELSE LaCode(operand)
       /\ reserved = IF pseudo = "li" THEN LiSize(operand) ELSE 8
  /\ phase = "run" => reg = Loaded(code)

IInv == TypeOK /\ Expanded

(* The assembler and the patched program keep the phases in step.          *)
THEOREM InductiveInvariant == Spec => []IInv
<1>1. Init => IInv
  BY OperandAssumption DEF Init, IInv, TypeOK, Expanded
<1>2. IInv /\ [Next]_vars => IInv'
  <2> SUFFICES ASSUME IInv, [Next]_vars PROVE IInv'
    OBVIOUS
  <2> USE DEF IInv, TypeOK, Expanded
  <2>1. CASE Reserve
    <3>1. LiSize(operand) \in {4, 8}
      BY DEF LiSize
    <3>2. QED
      BY <2>1, <3>1 DEF Reserve
  <2>2. CASE Expand
    BY <2>2, CodeType DEF Expand
  <2>3. CASE Run
    BY <2>3, RegType DEF Run
  <2>4. CASE UNCHANGED vars
    BY <2>4 DEF vars
  <2>5. QED
    BY <2>1, <2>2, <2>3, <2>4 DEF Next
<1>3. QED
  BY <1>1, <1>2, PTL DEF Spec

(* The variables keep their types.                                         *)
THEOREM TypeCorrect == Spec => []TypeOK
<1>1. IInv => TypeOK
  BY DEF IInv
<1>2. QED
  BY <1>1, InductiveInvariant, PTL

(* get_asm_len reserves exactly what mkasm emits.                          *)
THEOREM SizesAgree == Spec => []ExpansionFillsReservation
<1>1. IInv => ExpansionFillsReservation
  <2> SUFFICES ASSUME IInv, phase \in {"emitted", "run"}
               PROVE  4 * Len(code) = reserved
    BY DEF ExpansionFillsReservation
  <2>1. CASE pseudo = "li"
    BY <2>1, LiSizeIsCodeSize DEF IInv, TypeOK, Expanded
  <2>2. CASE pseudo = "la"
    <3>1. Len(code) = 2
      BY <2>2 DEF IInv, Expanded, LaCode, AddiuPair
    <3>2. QED
      BY <2>2, <3>1 DEF IInv, Expanded
  <2>3. QED
    BY <2>1, <2>2 DEF IInv, TypeOK
<1>2. QED
  BY <1>1, InductiveInvariant, PTL

(* The expansion of LI or LA loads its operand.                            *)
THEOREM ExpansionLoadsOperand == Spec => []RegisterGetsOperand
<1>1. IInv => RegisterGetsOperand
  BY LiCodeLoads, AddiuPairLoads
  DEF IInv, TypeOK, Expanded, RegisterGetsOperand, LaCode
<1>2. QED
  BY <1>1, InductiveInvariant, PTL
=============================================================================
