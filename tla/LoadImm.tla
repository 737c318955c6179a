------------------------------ MODULE LoadImm ------------------------------
(***************************************************************************)
(* How prtasm.cpp expands the pseudo instructions LI and LA into LUI,      *)
(* ADDIU and ORI, as arithmetic: what get_asm_len promises in the first    *)
(* pass, what mkasm emits in the second, and what the R5900 makes of it.   *)
(***************************************************************************)
EXTENDS Integers, Sequences

CONSTANT Half   (* 2^16: the values of a 16-bit immediate *)

ASSUME HalfAssumption == Half \in Nat /\ Half > 0 /\ Half % 2 = 0

Full == Half * Half

SignedFull(u) == IF 2 * u >= Full THEN u - Full ELSE u
SignedHalf(u) == IF 2 * u >= Half THEN u - Half ELSE u

(* imm_s32: the low 32 bits of the operand, sign-extended.                 *)
Imm32(v) == SignedFull(v % Full)

(* A name with _ is a mistake that could be made where the definition      *)
(* after it stands; no definition uses it.  Here: >= for >.                *)
Wide_OffByOne(s) == 2 * s >= Half - 2 \/ 2 * s < -Half

Wide(s) == 2 * s > Half - 2 \/ 2 * s < -Half

(* The LI branch of get_asm_len.                                           *)
LiSize(v) ==
  IF Imm32(v) % Half = 0 THEN 4 ELSE IF Wide(Imm32(v)) THEN 8 ELSE 4

(* The immediate not cut to its field. *)
Insn_Unmasked(op, imm) == [op |-> op, imm |-> imm]

Insn(op, imm) == [op |-> op, imm |-> imm % Half]

(* LUI/ADDIU: ADDIU sign-extends, so a low half with its top bit set       *)
(* borrows one from the upper half.                                        *)
Carry_Never(v) == 0

Carry(v) == IF 2 * (v % Half) > Half - 2 THEN 1 ELSE 0
Low(v) == IF 2 * (v % Half) > Half - 2 THEN (v % Half) - Half ELSE v % Half

AddiuPair(v) ==
  << Insn("lui", (v \div Half) + Carry(v)), Insn("addiu", Low(v)) >>

(* The LI branch of mkasm.                                                 *)
LiCode(v) ==
  LET s == Imm32(v)
      u == v % Full
  IN  IF s % Half = 0 THEN << Insn("lui", u \div Half) >>
      ELSE IF 2 * s > Half - 2 THEN AddiuPair(u)
      ELSE IF 2 * s < -Half
      THEN << Insn("lui", u \div Half), Insn("ori", u % Half) >>
      ELSE << Insn("addiu", v) >>

(* The LA branch of mkasm: always two words, v is the label's address.     *)
LaCode(v) == AddiuPair(v)

(* What one instruction leaves in the target register, whose old value is  *)
(* r (external: the R5900 keeps 32-bit results sign-extended).  The LUI    *)
(* before an ORI has cleared the low half, so OR is addition.              *)
Executed(i, r) ==
  CASE i.op = "lui"   -> SignedFull(i.imm * Half)
    [] i.op = "addiu" -> SignedFull((r + SignedHalf(i.imm)) % Full)
    [] i.op = "ori"   -> r + i.imm

(* The single ADDIU of LI adds to register zero; a pair to the LUI.        *)
Loaded(code) ==
  IF Len(code) = 1 THEN Executed(code[1], 0)
  ELSE Executed(code[2], Executed(code[1], 0))
=============================================================================
