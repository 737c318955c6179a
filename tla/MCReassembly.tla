---------------------------- MODULE MCReassembly ----------------------------
(***************************************************************************)
(* Small files for Reassembly: every entry of every table by itself with a *)
(* few operands, and every three words of an alphabet of transfers, data   *)
(* and plain instructions.                                                 *)
(***************************************************************************)
EXTENDS Reassembly

Word(opcode, rs, rt, rd, sa, funct) ==
  [opcode |-> opcode, rs |-> rs, rt |-> rt, rd |-> rd, sa |-> sa, funct |-> funct]

(* Each word decides one table's entry and has something in every field.   *)
PrimaryWords ==
  {Word(op, rs, 18, rd, 5, 6) : op \in 0 .. 63, rs \in {0, 9}, rd \in {0, 7, 25}}
SpecialWords ==
  {Word(0, rs, 18, rd, sa, f) : f \in 0 .. 63, rs \in {0, 9}, rd \in {0, 24}, sa \in {0, 3}}
RegImmWords == {Word(1, 9, rt, rd, 31, 60) : rt \in 0 .. 31, rd \in {3, 31}}
MMIWords ==
  {Word(28, rs, 18, rd, 3, f) : f \in 0 .. 63, rs \in {0, 9}, rd \in {0, 24}}
  \cup {Word(28, 9, 18, 24, sa, f) : f \in {8, 9, 40, 41, 48}, sa \in 0 .. 31}
COP0Words == {Word(16, rs, rt, rd, 0, f) :
                rs \in {0, 4, 8, 12, 16}, rt \in {0, 3, 11}, rd \in {0, 12, 24, 25},
                f \in 0 .. 8 \cup {24, 56, 57}}
COP1Words == {Word(17, rs, rt, rd, 5, f) :
                rs \in 0 .. 31, rt \in {1, 2}, rd \in {7, 16}, f \in 0 .. 63}

(* sll zero, zero, 0 with a bit in rs, which no operand holds.             *)
ShiftOfZero == Word(0, 9, 0, 0, 0, 0)

Lone == {BytesOf(w) : w \in PrimaryWords \cup SpecialWords \cup RegImmWords
                             \cup MMIWords \cup COP0Words \cup COP1Words
                             \cup {ShiftOfZero}}

(* bne, bc0f far backwards, jr, a word of the vector unit, addiu, mtc1.    *)
Mixed ==
  { Word(5, 9, 18, 0, 0, 1), Word(16, 8, 0, 31, 31, 60), Word(0, 31, 0, 0, 0, 8),
    Word(18, 9, 18, 7, 5, 6), Word(9, 9, 18, 31, 31, 63), Word(17, 4, 18, 7, 0, 0) }

Triples == {BytesOf(a) \o BytesOf(b) \o BytesOf(c) : a, b, c \in Mixed}

(* Three bytes more than a word, and a start between two words. *)
Ragged == {BytesOf(a) \o BytesOf(b) \o <<1, 2, 3>> : a, b \in Mixed}

AllFiles == Lone \cup Triples \cup Ragged

WholeFile == {<<0, 100>>}

AllLimits == {<<0, 100>>, <<2, 9>>}

(* mfc0 t0, Status; psllh t0, t1, 3; adda.s f1, f2. *)
LostFiles == {BytesOf(Word(16, 0, 8, 12, 0, 0)), BytesOf(Word(28, 0, 9, 8, 3, 52)),
              BytesOf(Word(17, 16, 2, 1, 0, 24))}
=============================================================================
