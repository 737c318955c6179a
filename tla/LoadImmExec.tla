---------------------------- MODULE LoadImmExec ----------------------------
(***************************************************************************)
(* An LI or LA line of a script followed through the assembler: pass 1     *)
(* reserves room, pass 2 emits code, the patched program runs it.          *)
(***************************************************************************)
EXTENDS LoadImm

CONSTANT Operands   (* the operand values tried *)

ASSUME OperandAssumption == Operands \subseteq Int

VARIABLES phase, pseudo, operand, reserved, code, reg

vars == <<phase, pseudo, operand, reserved, code, reg>>

TypeOK ==
  /\ phase \in {"read", "reserved", "emitted", "run"}
  /\ pseudo \in {"li", "la"}
  /\ operand \in Int
  /\ reserved \in {0, 4, 8}
  /\ code \in Seq([op : {"lui", "addiu", "ori"}, imm : 0 .. Half - 1])
  /\ reg \in Int

(* A label's address, the operand of LA, is unsigned.                      *)
Init ==
  /\ phase = "read"
  /\ pseudo \in {"li", "la"}
  /\ operand \in {v \in Operands : pseudo = "la" => v >= 0}
  /\ reserved = 0
  /\ code = <<>>
  /\ reg = 0

(* Pass 1: get_asm_len. *)
Reserve ==
  /\ phase = "read"
  /\ phase' = "reserved"
  /\ reserved' = IF pseudo = "li" THEN LiSize(operand) ELSE 8
  /\ UNCHANGED <<pseudo, operand, code, reg>>

(* Pass 2: mkasm. *)
Expand ==
  /\ phase = "reserved"
  /\ phase' = "emitted"
  /\ code' = IF pseudo = "li" THEN LiCode(operand) ELSE LaCode(operand)
  /\ UNCHANGED <<pseudo, operand, reserved, reg>>

(* The patched program executes the expansion. *)
Run ==
  /\ phase = "emitted"
  /\ phase' = "run"
  /\ reg' = Loaded(code)
  /\ UNCHANGED <<pseudo, operand, reserved, code>>

Next == Reserve \/ Expand \/ Run

Spec == Init /\ [][Next]_vars
-----------------------------------------------------------------------------
(* The two passes agree on the size of the expansion: a disagreement moves *)
(* every later label away from the code it names.                          *)
ExpansionFillsReservation ==
  phase \in {"emitted", "run"} => 4 * Len(code) = reserved

(* Running the expansion leaves the operand, as a sign-extended 32-bit     *)
(* value, in the register, whichever of the four forms was chosen.         *)
RegisterGetsOperand == phase = "run" => reg = Imm32(operand)
=============================================================================
