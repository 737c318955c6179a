----------------------------- MODULE Reassembly -----------------------------
(***************************************************************************)
(* Taking code apart and putting it together again: the disassembler mode  *)
(* of prtasm (main, MODE_SDISASM) writes a file's words as a script, and   *)
(* genasm assembles that script onto a blank file of the same length.      *)
(*                                                                         *)
(* The script has no labels, so that only the second pass of genasm can    *)
(* tell; Assembler models both, and everything else a script may hold.     *)
(***************************************************************************)
EXTENDS Codec

CONSTANTS
  Files,   (* the files to take apart: sequences of bytes *)
  Limits,  (* --limits: <<dasm_sta, dasm_end>> *)
  Modes,   (* --auto-conv: how many bytes a line of data holds *)
  Invalid, (* --invalid-ops: the values of do_invalid *)
  Junk     (* what instr_t.sa may hold before as() leaves it alone *)

ASSUME ReassemblyAssumption ==
  /\ Files \subseteq Seq(0 .. 255)
  /\ Limits \subseteq Nat \X Nat
  /\ Modes \subseteq {1, 2, 4}
  /\ Invalid \subseteq BOOLEAN
  /\ Junk \subseteq Nat

VARIABLES
  file, limits, dmode, do_invalid,
  at,      (* the offset of the next word to take apart *)
  text,    (* the script after its .loc line; at is each line's offset in file *)
  pc,      (* the line being assembled *)
  loc,     (* now_loc *)
  slot,    (* is_delayslot *)
  image,   (* the file assembled onto *)
  refused, (* the lines given up with an error *)
  status   (* "dasm", "asm", then "done" or "failed" *)

inputs == <<file, limits, dmode, do_invalid>>
vars == <<inputs, at, text, pc, loc, slot, image, refused, status>>

dasm_sta == limits[1]
dasm_end == IF limits[2] < Len(file) THEN limits[2] ELSE Len(file)

(* The four bytes of a word, the lowest first, and the word at an offset.  *)
BytesOf(w) ==
  <<w.funct + 64 * (w.sa % 4), w.sa \div 4 + 8 * w.rd,
    w.rt + 32 * (w.rs % 8), w.rs \div 8 + 4 * w.opcode>>

WordAt(bytes, p) ==
  LET b(k) == bytes[p + k]
  IN  [funct |-> b(1) % 64, sa |-> b(1) \div 64 + 4 * (b(2) % 8), rd |-> b(2) \div 8,
       rt |-> b(3) % 32, rs |-> b(3) \div 32 + 8 * (b(4) % 4), opcode |-> b(4) \div 4]

Init ==
  /\ file \in Files
  /\ limits \in Limits
  /\ dmode \in Modes
  /\ do_invalid \in Invalid
  /\ at = dasm_sta
  /\ text = <<>>
  /\ pc = 1
  /\ loc = dasm_sta
  /\ slot = 0
  /\ image = [n \in 1 .. Len(file) |-> 0]
  /\ refused = {}
  /\ status = "dasm"
-----------------------------------------------------------------------------
(* A whole word is there to be read: the fread of one cut short ends it.   *)
Readable4 == at < dasm_end /\ at + 4 <= Len(file)

Instruction(ins) == <<[kind |-> "insn", at |-> at, asm |-> Disas(ins, at)]>>

(* The halves of a word in the order they are written on paper. *)
DataLines_HighFirst(bytes) ==
  [n \in 1 .. 4 \div dmode |->
     [kind |-> "data", at |-> at,
      bytes |-> SubSeq(bytes, 5 - n * dmode, 4 - (n - 1) * dmode)]]

DataLines(bytes) ==
  [n \in 1 .. 4 \div dmode |->
     [kind |-> "data", at |-> at,
      bytes |-> SubSeq(bytes, (n - 1) * dmode + 1, n * dmode)]]

(* One turn of the loop over the words. *)
TakeApart ==
  /\ status = "dasm"
  /\ Readable4
  /\ \E ins \in DecodeInstruction(WordAt(file, at)) :
        text' = text \o (CASE ins.opcode # "none" -> Instruction(ins)
                           [] ins.opcode = "none" /\ do_invalid ->
                                <<[kind |-> "invalid", at |-> at]>>
                           [] OTHER -> DataLines(SubSeq(file, at + 1, at + 4)))
  /\ at' = at + 4
  /\ UNCHANGED <<inputs, pc, loc, slot, image, refused, status>>

StartAssembling ==
  /\ status = "dasm"
  /\ ~Readable4
  /\ status' = "asm"
  /\ UNCHANGED <<inputs, at, text, pc, loc, slot, image, refused>>
-----------------------------------------------------------------------------
line == text[pc]

Reading == status = "asm" /\ pc <= Len(text)

(* is_lbinst: the names in B or J, but for BREAK. *)
Transfer(op) ==
  \/ op \in {"J", "JAL", "JR", "JALR"}
  \/ Type(op) = "imma" /\ op # "CACHE"

Put(bytes) ==
  image' = [n \in DOMAIN image |-> IF n \in loc + 1 .. loc + Len(bytes)
                                   THEN bytes[n - loc] ELSE image[n]]

(* .byte, .half and .word leave is_delayslot alone. *)
AssembleData ==
  /\ Reading
  /\ line.kind = "data"
  /\ Put(line.bytes)
  /\ loc' = loc + Len(line.bytes)
  /\ pc' = pc + 1
  /\ UNCHANGED <<inputs, at, text, slot, refused, status>>

(* An assembler that looks for no delay slot. *)
Accepts_NoSlot(l) == l.kind = "insn" /\ Readable(l.asm)

Accepts(l) ==
  l.kind = "insn" /\ Readable(l.asm) /\ (Transfer(l.asm.op) => slot = 0)

AssembleInstruction ==
  /\ Reading
  /\ Accepts(line)
  /\ \E sa \in Junk : Put(BytesOf(EncodeInstruction(As(line.asm, loc, sa))))
  /\ loc' = loc + 4
  /\ slot' = IF Transfer(line.asm.op) THEN 1 ELSE IF slot > 0 THEN slot - 1 ELSE 0
  /\ pc' = pc + 1
  /\ UNCHANGED <<inputs, at, text, refused, status>>

(* A line in error moves nothing; INVALID is no mnemonic.  A transfer whose *)
(* operand is refused has already asked for a slot, and for one too many.  *)
RefuseLine ==
  /\ Reading
  /\ line.kind # "data"
  /\ ~Accepts(line)
  /\ refused' = refused \cup {pc}
  /\ slot' = IF line.kind = "insn" /\ Transfer(line.asm.op) /\ slot = 0 THEN 2 ELSE slot
  /\ pc' = pc + 1
  /\ UNCHANGED <<inputs, at, text, loc, image, status>>

Finish ==
  /\ status = "asm"
  /\ pc = Len(text) + 1
  /\ status' = IF refused = {} THEN "done" ELSE "failed"
  /\ UNCHANGED <<inputs, at, text, pc, loc, slot, image, refused>>

Ended == status \in {"done", "failed"} /\ UNCHANGED vars

Next ==
  \/ TakeApart \/ StartAssembling
  \/ AssembleData \/ AssembleInstruction \/ RefuseLine \/ Finish \/ Ended

Spec == Init /\ [][Next]_vars
-----------------------------------------------------------------------------
(* Operations whose encoding loses an operand (see Filled), or, for the    *)
(* late compares, puts one where the format belongs.                       *)
Lossy == QuadShifts \cup ControlMoves \cup LateCompares \cup {"ADDA_S"}

Done == status = "done"

Instructions == {n \in DOMAIN text : text[n].kind = "insn"}

(* What the disassembler would now print for the word of a line. *)
PrintedAgain(l) ==
  {Disas(ins, l.at) :
     ins \in {i \in DecodeInstruction(WordAt(image, l.at)) : i.opcode # "none"}}

(* NOP is an alias of SLL zero, zero, 0, and what a word that says so with *)
(* something in the bits no operand holds comes back as.                   *)
NopLine == Disas([NoInstruction EXCEPT !.opcode = "NOP"], 0)

Meaning(l) ==
  IF l.op = "SLL" /\ \A f \in DOMAIN l.args : l.args[f] = 0 THEN NopLine ELSE l

(* Code taken apart and put together means what it meant: the disassembler *)
(* prints the same line for the new word as for the old, whatever the      *)
(* operation, its operands and its place.  A Lossy operation at least stays *)
(* the operation it was, but for the compares whose format is overwritten. *)
(* The moves of debug and performance registers are not decoded: only what *)
(* was read beyond a table is ever printed as one.                         *)
MeaningKept ==
  Done => \A n \in Instructions :
            LET op    == text[n].asm.op
                again == PrintedAgain(text[n])
            IN  op \notin DebugMoves =>
                  /\ op \notin Lossy =>
                       {Meaning(l) : l \in again} = {Meaning(text[n].asm)}
                  /\ op \in Lossy \ LateCompares => \E l \in again : l.op = op

(* The bits of a word that neither its operation nor an operand of its     *)
(* pattern accounts for are as in the template.                            *)
Canonical(word, op) ==
  \A f \in DOMAIN word \ {"opcode"} :
    \/ f \in Operands(op)
    \/ /\ "imm" \in Operands(op)
       /\ CASE Type(op) = "jump" -> TRUE
            [] Type(op) = "code" -> f # "funct"
            [] OTHER             -> f \in {"rd", "sa", "funct"}
    \/ word[f] = opcode_buffer[op][f]

(* Code as the assembler writes it, in which no such bit is set, comes     *)
(* back bit for bit.                                                       *)
CanonicalKept ==
  Done => \A n \in Instructions :
            LET word == WordAt(file, text[n].at)
            IN  text[n].asm.op \notin Lossy /\ word.opcode = opcode_buffer[text[n].asm.op].opcode
                /\ Canonical(word, text[n].asm.op) => WordAt(image, text[n].at) = word

(* Words that are no instruction come back byte for byte, whichever way    *)
(* they are dumped, and nothing is written outside what was taken apart.   *)
DataExact ==
  Done => \A n \in DOMAIN file :
            LET mine == {m \in DOMAIN text : text[m].at < n /\ n <= text[m].at + 4}
            IN  IF mine = {} THEN image[n] = 0
                ELSE (\E m \in mine : text[m].kind = "data") => image[n] = file[n]

(* The assembler refuses a line of the disassembler's only if it says      *)
(* INVALID, if it jumps to before the start of memory with a pattern that  *)
(* wants no sign, or if it is a transfer with too few instructions, data   *)
(* not counted, between it and the one before.                             *)
Refusals ==
  \A n \in refused :
    \/ text[n].kind = "invalid"
    \/ /\ text[n].asm.op \in {"BC0F", "BC0FL", "BC0T", "BC0TL", "CACHE"}
       /\ text[n].asm.args["imm"] < 0
    \/ /\ Transfer(text[n].asm.op)
       /\ \E m \in Instructions :
            /\ m < n
            /\ Transfer(text[m].asm.op)
            /\ Cardinality((m + 1 .. n - 1) \cap (Instructions \ refused))
                 <= IF m \in refused THEN 1 ELSE 0

(* No transfer is put in the slot of another.                              *)
SlotsFilled ==
  \A n \in 1 .. pc - 1 :
    n \in Instructions \ refused /\ Transfer(text[n].asm.op) =>
      \A m \in n + 1 .. pc - 1 :
        m \in Instructions \ refused /\ Transfer(text[m].asm.op) =>
          (n + 1 .. m - 1) \cap (Instructions \ refused) # {}
-----------------------------------------------------------------------------
(* The pattern of every operation in instructions[] promises that the      *)
(* operands in it are read into the instruction.                           *)
OperandsKept ==
  Done => \A n \in Instructions : text[n].asm \in PrintedAgain(text[n])
=============================================================================
