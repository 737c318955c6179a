----------------------------- MODULE Assembler -----------------------------
(***************************************************************************)
(* genasm of prtasm.cpp, the two-pass assembler that patches a copy of an  *)
(* executable.  Pass 1 lays the script out: it gives every label an        *)
(* address.  Pass 2 reads the script again from the start and writes code  *)
(* and data into the image.  Nothing but the labels and the structures is  *)
(* handed from one to the other, so that the addresses are right only if   *)
(* the two passes move the location counter in the same way.               *)
(*                                                                         *)
(* A step is one line of the script.  A line is a record whose field op is *)
(* its directive, or "insn", and whose field label is the label before it. *)
(***************************************************************************)
EXTENDS Symbols, LoadImm, FiniteSets

CONSTANTS
  Scripts,      (* the scripts: sequences of lines                         *)
  InputLens,    (* the lengths of the input file                           *)
  Options,      (* the command lines: records of switches                  *)
  AddrMod,      (* 2^64, the width of an address                           *)
  DiskMax,      (* the length at which the disk is full                    *)
  DispMod,      (* 2^16, the width of a branch displacement                *)
  JumpMod,      (* 2^26, the width of a jump target                        *)
  Chunk,        (* 4096, the zero bytes .space writes at a time            *)
  Garbage,      (* what an uninitialised immediate may hold                *)
  AndNot(_, _)  (* x & ~mask *)

(* A word of machine code by the operation, the line that emitted it and   *)
(* the argument: a displacement, a target or an immediate.  A byte is its  *)
(* word and the place in it.                                               *)
Ops == {"input", "zero", "data", "plain", "branch", "jump", "jumpreg",
        "lui", "addiu", "ori"}
Word == [op : Ops, line : Nat, arg : Int]
CodeByte == [word : Word, k : 1 .. 4]
InputWord == [op |-> "input", line |-> 0, arg |-> 0]
ZeroByte == [word |-> [InputWord EXCEPT !.op = "zero"], k |-> 1]

INSTANCE Image WITH Byte <- CodeByte, Zero <- ZeroByte

(* What the parsers make of a line.  A structure is an object in memory,   *)
(* and no longer than half of it.                                          *)
NameSet == Seq(STRING)
ExprSet == [ref : NameSet, add : Int, wf : BOOLEAN]
Structure == {f \in Seq([name : NameSet, size : Nat]) : 2 * TotalSize(f) <= AddrMod}

LineOK(l) ==
  /\ l.label \in NameSet
  /\ l.op = "blank" => l.label = NoName
  /\ l.op = "data" => l.width \in Nat \ {0} /\ l.items \in Seq(ExprSet)
  /\ l.op = "space" => l.arg \in ExprSet
  /\ l.op = "text" => l.chars \in Nat /\ l.zero \in BOOLEAN /\ l.faults \in Nat
  /\ l.op \in {"galign", "align", "offset"} => l.ok \in BOOLEAN /\ l.arg \in Offset
  /\ l.op \in {"loc", "bloc", "vma"} =>
       {l.ok, l.bounded} \subseteq BOOLEAN /\ {l.arg, l.bound} \subseteq Offset
  /\ l.op = "struct" => l.fields \in Structure
  /\ l.op = "insn" => l.arg \in ExprSet
  /\ l.op = "insn" /\ l.ins = "struct" => l.vals \in Seq(ExprSet)

ASSUME AssemblerAssumption ==
  /\ AddrMod \in Nat /\ AddrMod >= 8
  /\ DiskMax \in Nat /\ 2 * (DiskMax + 1) <= AddrMod
  /\ DispMod \in Nat \ {0} /\ AddrMod % (4 * DispMod) = 0
  /\ JumpMod \in Nat \ {0} /\ AddrMod % (4 * JumpMod) = 0 /\ Chunk \in Nat \ {0}
  /\ InputLens \subseteq 0 .. DiskMax
  /\ Garbage \subseteq Int
  /\ \A x, mask \in Offset : AndNot(x, mask) \in Offset
  /\ \A s \in Scripts : Len(s) \in Nat /\ \A i \in 1 .. Len(s) : LineOK(s[i])
  /\ \A o \in Options : {o.stopOver, o.stopFirst, o.large, o.past} \subseteq BOOLEAN

VARIABLES
  script, opts, inputLen,
  pass,     (* 1 while check_only, then 2 *)
  pc,       (* script_line_idx + 1 *)
  cur,      (* now_loc, offset, warn_loc, galign, loc_stack, current_global_label *)
  labels,   (* tag_vma_map *)
  globals,  (* global_label_set *)
  structs,  (* struct_defs *)
  slot,     (* is_delayslot *)
  image,    (* g_image_sink *)
  errors,   (* cerror *)
  warned,   (* the codes of the warnings given *)
  status,   (* "running", then "done", "failed" (errors, so that the output
               is removed), "stopped" (exit) or "crashed" *)
  symbols,  (* the entries of the exported symbol file *)
  layout    (* history: cur at the start of each line in pass 1 *)

inputs  == <<script, opts, inputLen>>
reading == <<pass, pc, cur, layout>>
naming  == <<labels, globals>>
result  == <<errors, warned, status, symbols>>
vars == <<inputs, reading, naming, structs, slot, image, result>>

NoBound == AddrMod - 1   (* ~0 *)

At(loc, offset, warn, galign, stack, scope) ==
  [loc |-> loc, offset |-> offset, warn |-> warn, galign |-> galign,
   stack |-> stack, scope |-> scope]

Start == At(0, 0, NoBound, 0, <<>>, NoName)

(* A name with _ is a mistake that could be made where the definition      *)
(* after it stands; no definition uses it.  Here: a sum that does not wrap. *)
Vma_Unwrapped(c) == c.loc + c.offset

Vma(c) == (c.loc + c.offset) % AddrMod

Init ==
  /\ script \in Scripts
  /\ opts \in Options
  /\ inputLen \in InputLens
  /\ pass = 1
  /\ pc = 1
  /\ cur = Start
  /\ layout = <<Start>>
  /\ labels = [n \in {} |-> 0]
  /\ globals = {}
  /\ structs = [s \in {} |-> <<>>]
  /\ slot = 0
  /\ image = Opened([i \in 1 .. inputLen |->
                       [word |-> InputWord, k |-> ((i - 1) % 4) + 1]])
  /\ errors = 0
  /\ warned = {}
  /\ status = "running"
  /\ symbols = {}
-----------------------------------------------------------------------------
(* The part of a line every directive shares: the bound set by .loc, .bloc *)
(* or .vma, then the strings, then the label.                              *)
line == script[pc]

Reading == status = "running" /\ pc <= Len(script)

Overline(c) == c.loc >= c.warn

Labelled(l) == l.label # NoName

NoScope(l, c) == Labelled(l) /\ Local(l.label) /\ c.scope = NoName

PreludeErrors(l, c) ==
  (IF l.flaw \in {"string", "spaced"} THEN 1 ELSE 0) + (IF NoScope(l, c) THEN 1 ELSE 0)

PreludeStops(l, c) ==
  \/ Overline(c) /\ opts.stopOver
  \/ l.flaw = "toolong"
  \/ opts.stopFirst /\ PreludeErrors(l, c) > 0

(* The cursor when the directive itself is reached. *)
Entered(l, c) ==
  At(c.loc, c.offset, IF Overline(c) THEN NoBound ELSE c.warn, c.galign, c.stack,
     IF Labelled(l) /\ ~Local(l.label) THEN l.label ELSE c.scope)

here == Entered(line, cur)

FullName(l, c) == Compose(l.label, c.scope)

(* A second definition replaces the first. *)
LabelsAt_LastWins(l, c) ==
  IF pass = 1 /\ Labelled(l)
  THEN [n \in DOMAIN labels \cup {FullName(l, c)} |->
          IF n = FullName(l, c) THEN Vma(c) ELSE labels[n]]
  ELSE labels

(* Only the first pass defines labels, and a label once defined stays.     *)
LabelsAt(l, c) ==
  IF pass = 1 /\ Labelled(l)
  THEN [n \in DOMAIN labels \cup {FullName(l, c)} |->
          IF n \in DOMAIN labels THEN labels[n] ELSE Vma(c)]
  ELSE labels

(* Local labels taken for global ones. *)
GlobalsAt_LocalToo(l, c) ==
  IF pass = 1 /\ Labelled(l) THEN globals \cup {FullName(l, c)} ELSE globals

GlobalsAt(l, c) ==
  IF pass = 1 /\ Labelled(l) /\ ~Local(l.label)
  THEN globals \cup {FullName(l, c)} ELSE globals

(* error() exits at once under --stop-at-first-error. *)
EndLine(c, e, warnings) ==
  LET total == PreludeErrors(line, cur) + e
  IN  /\ labels' = LabelsAt(line, cur)
      /\ globals' = GlobalsAt(line, cur)
      /\ warned' = warned \cup warnings \cup (IF Overline(cur) THEN {4900} ELSE {})
      /\ errors' = errors + total
      /\ status' = IF opts.stopFirst /\ total > 0 THEN "stopped" ELSE status
      /\ cur' = c
      /\ pc' = pc + 1
      /\ layout' = IF pass = 1 THEN Append(layout, c) ELSE layout
      /\ UNCHANGED <<inputs, pass, symbols>>

(* A null pointer is followed, or fatal() exits, in the middle of a line,  *)
(* leaving the image as img.                                               *)
Abort(how, img) ==
  /\ status' = how
  /\ image' = img
  /\ UNCHANGED <<inputs, reading, naming, structs, slot, errors, warned, symbols>>

Moved(c, n) ==
  At((c.loc + n) % AddrMod, c.offset, c.warn, c.galign, c.stack, c.scope)

Handle(op) == Reading /\ line.op = op /\ ~PreludeStops(line, cur)

(* What an expression evaluated for location loc may refer to. *)
Env(loc) ==
  [loc |-> loc, vma |-> (loc + cur.offset) % AddrMod, scope |-> here.scope,
   labels |-> LabelsAt(line, cur), structs |-> structs]
-----------------------------------------------------------------------------
(* An empty line is skipped before anything else is looked at. *)
ReadBlank ==
  /\ Reading
  /\ line.op = "blank"
  /\ pc' = pc + 1
  /\ layout' = IF pass = 1 THEN Append(layout, cur) ELSE layout
  /\ UNCHANGED <<inputs, pass, cur, naming, structs, slot, image, result>>

StopInPrelude ==
  /\ Reading
  /\ line.op # "blank"
  /\ PreludeStops(line, cur)
  /\ Abort("stopped", image)

(* A label or a comment alone, an empty directive or .file. *)
ReadNothing ==
  /\ Handle("none")
  /\ EndLine(here, 0, {})
  /\ UNCHANGED <<structs, slot, image>>

ReadUnknownDirective ==
  /\ Handle("unknown")
  /\ EndLine(here, 1, {})
  /\ UNCHANGED <<structs, slot, image>>

ReadQword == Handle("qword") /\ Abort("stopped", image)
-----------------------------------------------------------------------------
Bytes(n) ==
  [i \in 1 .. n |-> [word |-> [op |-> "data", line |-> pc, arg |-> 0],
                     k |-> ((i - 1) % 4) + 1]]

(* The last unit written whole, however little of it is left. *)
Store_WholeUnits(loc, n, unit) ==
  LET res == ImageWriteBytes(image, loc, Bytes(unit * ((n + unit - 1) \div unit)), opts.past)
  IN  IF n = 0 THEN [rc |-> 0, img |-> image] ELSE [rc |-> res.rc, img |-> res.img]

(* Data is written unit bytes at a time: without --allow-write-past-eof    *)
(* what would cross the end of the file is refused, and everything before  *)
(* it is already in the file.  More than fits on the disk fills the disk.  *)
Store(loc, n, unit) ==
  LET room == Larger(0, image.size - loc)
      fits == IF opts.past \/ n <= room THEN n ELSE unit * (room \div unit)
      data == Bytes(IF fits > DiskMax THEN DiskMax + 1 ELSE fits)
      res  == ImageWriteBytes(image, loc, data, opts.past)
  IN  IF fits = 0
      THEN [rc |-> IF n = 0 THEN 0 ELSE -2, img |-> image]
      ELSE [rc |-> IF fits = n THEN res.rc ELSE -2, img |-> res.img]

(* Pass 2 of a directive that emits n bytes in units, n of them before an  *)
(* error of its own if e > 0.                                              *)
EmitBytes(n, unit, e, c) ==
  \E res \in {Store(cur.loc, n, unit)} :
      \/ /\ res.rc = 0
         /\ EndLine(c, e, {})
         /\ image' = res.img
         /\ UNCHANGED <<structs, slot>>
      \/ res.rc # 0 /\ Abort("stopped", res.img)

(* How many leading expressions of vals evaluate, the i-th of them for     *)
(* location locOf[i].                                                      *)
Leading(vals, locOf) ==
  CHOOSE k \in 0 .. Len(vals) :
    /\ \A i \in 1 .. k : Evaluates(vals[i], Env(locOf[i]))
    /\ k < Len(vals) => ~Evaluates(vals[k + 1], Env(locOf[k + 1]))

(* .byte, .half, .word and .dword: pass 1 counts the items, pass 2         *)
(* evaluates each at its own location and gives up at the first bad one.   *)
ReadData ==
  /\ Handle("data")
  /\ LET n    == Len(line.items)
         good == Leading(line.items,
                         [i \in 1 .. n |-> (cur.loc + (i - 1) * line.width) % AddrMod])
     IN  IF pass = 1
         THEN /\ EndLine(Moved(here, line.width * n), 0, {})
              /\ UNCHANGED <<structs, slot, image>>
         ELSE EmitBytes(line.width * good, line.width, IF good = n THEN 0 ELSE 1,
                        Moved(here, line.width * good))

(* .space evaluates its argument in both passes. *)
ReadSpace ==
  /\ Handle("space")
  /\ LET env == Env(cur.loc)
         n   == ExprValue(line.arg, env)
     IN  IF ~Evaluates(line.arg, env) \/ n < 0
         THEN EndLine(here, 1, {}) /\ UNCHANGED <<structs, slot, image>>
         ELSE IF pass = 1
         THEN EndLine(Moved(here, n), 0, {}) /\ UNCHANGED <<structs, slot, image>>
         ELSE EmitBytes(n, Chunk, 0, Moved(here, n))

Aligned(c, mask) ==
  At(AndNot((c.loc + mask) % AddrMod, mask), c.offset, c.warn, c.galign, c.stack, c.scope)

(* .ascii and .asciiz: the characters up to the closing quote or the first *)
(* bad escape, the terminator if there is one, and the padding .galign     *)
(* asks for, which is skipped over and not written.                        *)
Padded(c) == IF c.galign > 0 THEN Aligned(c, c.galign) ELSE c

ReadText ==
  /\ Handle("text")
  /\ LET n == line.chars + (IF line.zero THEN 1 ELSE 0)
         c == Padded(Moved(here, n))
     IN  IF pass = 1
         THEN EndLine(c, line.faults, {}) /\ UNCHANGED <<structs, slot, image>>
         ELSE EmitBytes(n, 1, line.faults, c)

(* Without an opening quote the error is counted and sta == NULL followed. *)
ReadTextWithoutQuote ==
  Handle("noquote") /\ Abort(IF opts.stopFirst THEN "stopped" ELSE "crashed", image)

Aligning(c, mask) == At(c.loc, c.offset, c.warn, mask, c.stack, c.scope)

(* .galign: only zero is refused; 4199 is fatal. *)
ReadGalign ==
  /\ Handle("galign")
  /\ \/ /\ line.ok /\ line.arg = 0
        /\ Abort("stopped", image)
     \/ /\ line.ok /\ line.arg # 0
        /\ EndLine(Aligning(here, line.arg - 1), 0, {})
        /\ UNCHANGED <<structs, slot, image>>
     \/ /\ ~line.ok
        /\ EndLine(here, 1, {})
        /\ UNCHANGED <<structs, slot, image>>
-----------------------------------------------------------------------------
(* .struct is only looked at in the first pass: a name that is empty or    *)
(* taken is refused, and the fields before a bad type are kept.            *)
ReadStruct ==
  /\ Handle("struct")
  /\ UNCHANGED <<slot, image>>
  /\ IF pass = 2
     THEN EndLine(here, 0, {}) /\ UNCHANGED structs
     ELSE IF line.name = "" \/ line.name \in DOMAIN structs
     THEN EndLine(here, 1, {}) /\ UNCHANGED structs
     ELSE /\ EndLine(here, (IF line.badtype THEN 1 ELSE 0)
                           + (IF line.fields = <<>> THEN 1 ELSE 0), {})
          /\ structs' = IF line.fields = <<>> THEN structs
                        ELSE [s \in DOMAIN structs \cup {line.name} |->
                                IF s = line.name THEN line.fields ELSE structs[s]]
-----------------------------------------------------------------------------
(* Moving the cursor while a delay slot waits for its instruction is       *)
(* warned of, and the slot is forgotten.                                   *)
Relocate(c, e) ==
  /\ EndLine(c, e, IF slot > 0 THEN {4120} ELSE {})
  /\ slot' = 0
  /\ UNCHANGED <<structs, image>>

(* .align: a missing argument counts as zero, which is no power of two     *)
(* either, but the cursor is moved all the same.                           *)
ReadAlign ==
  /\ Handle("align")
  /\ LET a == IF line.ok THEN line.arg ELSE 0
     IN  Relocate(Aligned(here, (a - 1) % AddrMod),
                  (IF line.ok THEN 0 ELSE 1)
                  + (IF a = 0 \/ AndNot(a, a - 1) # a THEN 1 ELSE 0))

ReadOffset ==
  /\ Handle("offset")
  /\ IF line.ok
     THEN EndLine(At(here.loc, line.arg, here.warn, here.galign, here.stack, here.scope),
                  0, {})
     ELSE EndLine(here, 1, {})
  /\ UNCHANGED <<structs, slot, image>>

(* .loc, .bloc and .vma set the location and the bound: as an address in   *)
(* the file, as a length, or as an address in memory.  bounded says        *)
(* whether there is a second argument, which .bloc needs.                  *)
LocationOk(l) == l.ok /\ (l.op = "bloc" => l.bounded)

Located(l, c) ==
  LET loc  == IF l.op = "vma" THEN (l.arg - c.offset) % AddrMod ELSE l.arg
      warn == IF ~l.bounded THEN NoBound
              ELSE CASE l.op = "loc"  -> l.bound
                     [] l.op = "bloc" -> (l.arg + l.bound) % AddrMod
                     [] l.op = "vma"  -> (l.bound - c.offset) % AddrMod
  IN  At(loc, c.offset, warn, c.galign, c.stack, c.scope)

ReadLocation ==
  /\ Handle("loc") \/ Handle("bloc") \/ Handle("vma")
  /\ IF LocationOk(line) THEN Relocate(Located(line, here), 0) ELSE Relocate(here, 1)

Restacked(c, loc, stack) == At(loc, c.offset, c.warn, c.galign, stack, c.scope)

ReadPushLoc ==
  /\ Handle("pushloc")
  /\ EndLine(Restacked(here, here.loc, <<here.loc>> \o here.stack), 0, {})
  /\ UNCHANGED <<structs, slot, image>>

ReadPopLoc ==
  /\ Handle("poploc")
  /\ IF here.stack = <<>>
     THEN Relocate(here, 1)
     ELSE Relocate(Restacked(here, Head(here.stack), Tail(here.stack)), 0)
-----------------------------------------------------------------------------
(* Instructions.  line.ins is the mnemonic's class: "plain" for those with *)
(* neither a delay slot nor an expansion, "branch", "jump" (to a label),   *)
(* "jumpreg", the pseudo instructions, "struct", "unknown", or "nojump",   *)
(* which is unknown but taken for a transfer, since it begins with B or J; *)
(* line.arg is the label or immediate operand, and line.wf says whether    *)
(* the others parse.                                                       *)

(* LI reserved as one word, whatever its operand. *)
AsmLen_ShortLi(l, defs) ==
  CASE l.ins = "la"      -> 8
    [] l.ins = "struct"  -> IF l.name \in DOMAIN defs
                              THEN TotalSize(defs[l.name]) ELSE -1
    [] l.ins \in {"unknown", "nojump"} -> -1
    [] OTHER -> 4

(* get_asm_len with the structures defined so far, -1 for an error. *)
AsmLen(l, defs) ==
  CASE l.ins = "li"      -> IF l.wf /\ l.arg.wf /\ l.arg.ref = NoName
                              THEN LiSize(l.arg.add) ELSE -1
    [] l.ins = "la"      -> 8
    [] l.ins = "struct"  -> IF l.name \in DOMAIN defs
                              THEN TotalSize(defs[l.name]) ELSE -1
    [] l.ins \in {"unknown", "nojump"} -> -1
    [] OTHER -> 4

(* What mkasm returns, with the image and is_delayslot it leaves behind.   *)
Rejected(img, s) == [ret |-> -1, img |-> img, slot |-> s]

(* Any instruction ends the wait for the one in the delay slot at once. *)
Accepted_SlotDone(res, size, s) ==
  IF res.rc # 0 THEN Rejected(res.img, s) ELSE [ret |-> size, img |-> res.img, slot |-> 0]

Accepted(res, size, s) ==
  IF res.rc # 0 THEN Rejected(res.img, s)
  ELSE [ret |-> size, img |-> res.img, slot |-> IF s > 0 THEN s - 1 ELSE 0]

Code(op, arg) == [op |-> op, line |-> pc, arg |-> arg]

WordBytes(w) == [k \in 1 .. 4 |-> [word |-> w, k |-> k]]

WriteBytes(img, loc, data) == ImageWriteBytes(img, loc, data, opts.past)

(* A write that happens only if the one before it succeeded. *)
AndThen(res, loc, data) == IF res.rc # 0 THEN res ELSE WriteBytes(res.img, loc, data)

EmitWord(w, s) == Accepted(WriteBytes(image, cur.loc, WordBytes(w)), 4, s)

(* The branch moved without looking at its displacement. *)
Lowered_AsItWas(data, taken) == data

(* A word is decoded as the operation it was emitted as; what data, the    *)
(* input, instructions whose registers do not decode (debug and            *)
(* performance), or the bytes of two words make is not known.              *)
Decodes(data) ==
  \/ data = [k \in 1 .. 4 |-> ZeroByte]
  \/ /\ data = WordBytes(data[1].word)
     /\ data[1].word.op \notin {"input", "zero", "data", "plain"}

(* The branch moved one word down reaches its target with one less.  A     *)
(* word not known may be a branch too; of one that is no instruction at    *)
(* all the name before the first of instructions[] is looked at, and may   *)
(* be taken for a branch's.                                                *)
Lowered(data, taken) ==
  IF data[1].word.op = "branch" /\ data = WordBytes(data[1].word)
  THEN WordBytes([data[1].word EXCEPT !.arg = (@ - 1) % DispMod])
  ELSE IF taken /\ ~Decodes(data)
  THEN WordBytes(Code("data", 1))
  ELSE data

(* What lies before an expansion in a delay slot is moved, and looked at   *)
(* for that.                                                               *)
Before == ImageRead(image, cur.loc - 4, 4)

Exchanges ==
  slot > 0 /\ ~opts.large /\ cur.loc >= 4 /\ ImageReadable(image, cur.loc - 4, 4)

(* The second word one word too far. *)
EmitPair_Gap(w1, w2, taken) ==
  Accepted(AndThen(WriteBytes(image, cur.loc, WordBytes(w1)),
                   (cur.loc + 8) % AddrMod, WordBytes(w2)), 8, slot)

(* The two words of a large LI or LA.  In a delay slot (allowed by         *)
(* --enable-delay-slot-large-li-la) whatever lies before them, the branch, *)
(* is moved between the two.  It is written as it is and, if it is to be   *)
(* lowered, once more at the same place, where it cannot fail then.        *)
EmitPair(w1, w2, taken) ==
  IF slot = 0
  THEN Accepted(AndThen(WriteBytes(image, cur.loc, WordBytes(w1)),
                        (cur.loc + 4) % AddrMod, WordBytes(w2)), 8, slot)
  ELSE IF ~Exchanges
  THEN Rejected(image, slot)
  ELSE LET moved  == WriteBytes(image, cur.loc, Lowered(Before, taken))
           first  == AndThen(moved, cur.loc - 4, WordBytes(w1))
           second == AndThen(first, (cur.loc + 4) % AddrMod, WordBytes(w2))
       IN  Accepted(second, 8, slot)

Expansion(code, taken) ==
  IF Len(code) = 1
  THEN EmitWord(Code(code[1].op, code[1].imm), slot)
  ELSE EmitPair(Code(code[1].op, code[1].imm), Code(code[2].op, code[2].imm), taken)

(* A branch to a label, relative to the instruction after it; the bits     *)
(* that do not fit are dropped without a word.                             *)
Displacement(target, vma) == ((target - (vma + 4)) \div 4) % DispMod

(* The mkasm of what has a delay slot or looks like it.  is_delayslot is set *)
(* to 2 before the rest of the line is looked at.  B has no relocation:    *)
(* its operand is encoded as it stands.                                    *)
Transfer ==
  LET env    == Env(cur.loc)
      target == ExprValue(line.arg, env)
  IN  IF slot > 0 \/ (line.ins # "jumpreg" /\ ~Evaluates(line.arg, env))
      THEN Rejected(image, slot)
      ELSE IF ~line.wf \/ line.ins = "nojump" \/ (line.ins = "jump" /\ target < 0)
      THEN Rejected(image, 2)
      ELSE CASE line.ins = "branch"  ->
                  EmitWord(Code("branch", Displacement(target, Vma(cur))), 2)
             [] line.ins = "b"       ->
                  EmitWord(Code("branch", (target \div 4) % DispMod), 2)
             [] line.ins = "jump"    ->
                  EmitWord(Code("jump", (target \div 4) % JumpMod), 2)
             [] line.ins = "jumpreg" -> EmitWord(Code("jumpreg", 0), 2)

(* LA takes the bare name of a label.  That its register failed to parse   *)
(* goes unnoticed, and the immediate g it then uses was never set.         *)
NamesLabel(e) == e.add = 0 /\ e.ref # NoName /\ Evaluates(e, Env(cur.loc))

LoadAddress(g, taken) ==
  IF (slot > 0 /\ opts.large) \/ ~NamesLabel(line.arg)
  THEN Rejected(image, slot)
  ELSE Expansion(LaCode(IF line.wf THEN ExprValue(line.arg, Env(cur.loc)) ELSE g), taken)

(* The values of a structure: every name in the line is replaced before    *)
(* the first is written, also __LOC__ and __VMA__, by what they are at the *)
(* start of the line.  Then they are written while they parse; the line is *)
(* an error unless there is one for every field.                           *)
AllNamed(vals) ==
  \A i \in DOMAIN vals : vals[i].ref = NoName \/ Known(vals[i].ref, Env(cur.loc))

StructValues ==
  LET fields == structs[line.name]
      n      == Len(fields)
      vals   == SubSeq(line.vals, 1, IF Len(line.vals) < n THEN Len(line.vals) ELSE n)
      good   == Leading(vals, [i \in 1 .. Len(vals) |-> cur.loc])
      data   == Bytes(Offsets(fields)[good])
      res    == IF data = <<>> THEN [rc |-> 0, img |-> image]
                ELSE WriteBytes(image, cur.loc, data)
  IN  IF good < n \/ Len(line.vals) # n \/ ~line.wf
      THEN Rejected(res.img, slot)
      ELSE Accepted(res, TotalSize(fields), slot)

(* LI has no labels by now: they have been replaced by numbers in the text.*)
LoadsNumber == line.wf /\ Evaluates(line.arg, Env(cur.loc))

LiWords == LiCode(ExprValue(line.arg, Env(cur.loc)))

Mkasm(g, taken) ==
  CASE line.ins \in {"branch", "jump", "jumpreg", "b", "nojump"} -> Transfer
    [] line.ins = "la" -> LoadAddress(g, taken)
    [] line.ins = "li" ->
         IF LoadsNumber THEN Expansion(LiWords, taken) ELSE Rejected(image, slot)
    [] line.ins = "struct" ->
         IF line.name \in DOMAIN structs /\ AllNamed(line.vals)
         THEN StructValues ELSE Rejected(image, slot)
    [] line.ins \in {"plain", "move"} ->
         IF line.wf /\ Evaluates(line.arg, Env(cur.loc))
         THEN EmitWord(Code("plain", 0), slot)
         ELSE Rejected(image, slot)
    [] OTHER -> Rejected(image, slot)   (* DMOVE's operands never parse *)

OutOfFile ==
  /\ ~opts.past
  /\ \/ AsmLen(line, structs) > 0 /\ (cur.loc + AsmLen(line, structs)) % AddrMod > inputLen
     \/ cur.loc >= inputLen

ReserveInstruction ==
  /\ Handle("insn")
  /\ pass = 1
  /\ IF AsmLen(line, structs) = -1
     THEN EndLine(here, 1, {})
     ELSE EndLine(Moved(here, AsmLen(line, structs)), 0, {})
  /\ UNCHANGED <<structs, slot, image>>

EmitInstruction ==
  /\ Handle("insn")
  /\ pass = 2
  /\ ~OutOfFile
  /\ \E g \in IF line.wf THEN {0} ELSE Garbage :
     \E taken \in BOOLEAN : \E r \in {Mkasm(g, taken)} :
         /\ IF r.ret = -1
            THEN EndLine(here, 1, {})
            ELSE EndLine(Moved(here, r.ret), 0, {})
         /\ image' = r.img
         /\ slot' = r.slot
         /\ UNCHANGED structs

(* The name looked at for a word that is no instruction lies nowhere: the  *)
(* word has been moved, and nothing else been written yet.                 *)
CrashInExchange ==
  /\ Handle("insn")
  /\ pass = 2
  /\ ~OutOfFile
  /\ \/ line.ins = "la" /\ NamesLabel(line.arg)
     \/ line.ins = "li" /\ LoadsNumber /\ Len(LiWords) = 2
  /\ Exchanges /\ ~Decodes(Before)
  /\ \E moved \in {WriteBytes(image, cur.loc, Before)} :
       moved.rc = 0 /\ Abort("crashed", moved.img)

RefuseInstruction ==
  /\ Handle("insn")
  /\ pass = 2
  /\ OutOfFile
  /\ Abort("stopped", image)
-----------------------------------------------------------------------------
(* The end of the first genasm and the start of the second. *)
StartPass2 ==
  /\ status = "running"
  /\ pass = 1
  /\ pc = Len(script) + 1
  /\ pass' = 2
  /\ pc' = 1
  /\ cur' = Start
  /\ UNCHANGED <<inputs, layout, naming, structs, slot, image, result>>

(* The end of the second: the output is removed if there were errors, and  *)
(* otherwise the global labels are exported (the command line has --sym),  *)
(* each with the low 32 bits of its address.                               *)
Finish ==
  /\ status = "running"
  /\ pass = 2
  /\ pc = Len(script) + 1
  /\ status' = IF errors = 0 THEN "done" ELSE "failed"
  /\ warned' = IF slot > 0 THEN warned \cup {4121} ELSE warned
  /\ symbols' = IF errors = 0 THEN {<<n, labels[n] % Full>> : n \in globals} ELSE {}
  /\ UNCHANGED <<inputs, reading, naming, structs, slot, image, errors>>

Stopped == status # "running" /\ UNCHANGED vars

Next ==
  \/ ReadBlank \/ StopInPrelude \/ ReadNothing \/ ReadUnknownDirective \/ ReadQword
  \/ ReadData \/ ReadSpace \/ ReadText \/ ReadTextWithoutQuote \/ ReadGalign
  \/ ReadStruct \/ ReadAlign \/ ReadOffset \/ ReadLocation
  \/ ReadPushLoc \/ ReadPopLoc
  \/ ReserveInstruction \/ EmitInstruction \/ CrashInExchange \/ RefuseInstruction
  \/ StartPass2 \/ Finish \/ Stopped

Spec == Init /\ [][Next]_vars
-----------------------------------------------------------------------------
CursorSet ==
  [loc : Offset, offset : Offset, warn : Offset, galign : Offset,
   stack : Seq(Offset), scope : Seq(STRING)]

TypeOK ==
  /\ pass \in {1, 2}
  /\ pc \in 1 .. Len(script) + 1
  /\ cur \in CursorSet
  /\ layout \in Seq(CursorSet)
  /\ \A n \in DOMAIN labels : labels[n] \in Offset
  /\ globals \subseteq DOMAIN labels
  /\ slot \in 0 .. 2
  /\ image \in ImageSet
  /\ errors \in Nat
  /\ warned \subseteq {4120, 4121, 4900}
  /\ status \in {"running", "done", "failed", "stopped", "crashed"}

(* No label is written like a field of a structure: A.x in an expression   *)
(* is the label if there is one and the field otherwise, which is not the  *)
(* same before and after the label is defined.                             *)
NoFieldShadowed ==
  \A n \in DOMAIN labels : FieldsNamed(n, structs) = {}

Sound == errors = 0 /\ NoFieldShadowed

(* Pass 2 reaches every line with the location, bound, alignment, stack    *)
(* and scope pass 1 reached it with, as long as no error has been          *)
(* reported: what get_asm_len and the directives reserve is what mkasm and *)
(* the directives write.                                                   *)
PassesAgree == pass = 2 /\ status = "running" /\ Sound => cur = layout[pc]

DefinedBefore(i, name) ==
  \E j \in 1 .. i - 1 :
    Labelled(script[j]) /\ FullName(script[j], layout[j]) = name

(* When pass 2 reaches a labelled line, the address every use of the label *)
(* has been given is the address where the line's code goes.               *)
LabelsMatchCode ==
  pass = 2 /\ status = "running" /\ Sound /\ pc <= Len(script) =>
    (Labelled(line) /\ ~DefinedBefore(pc, FullName(line, cur))
       => labels[FullName(line, cur)] = Vma(cur))

(* The exported symbols are the names of the script's global labels, each  *)
(* at the address of the first line that defines the name.                 *)
SymbolsMatchCode ==
  status = "done" /\ Sound =>
    LET global == {i \in 1 .. Len(script) : Labelled(script[i]) /\ ~Local(script[i].label)}
        first  == {i \in 1 .. Len(script) :
                     /\ Labelled(script[i])
                     /\ ~DefinedBefore(i, FullName(script[i], layout[i]))
                     /\ \E j \in global : script[j].label = FullName(script[i], layout[i])}
    IN  symbols = {<<FullName(script[i], layout[i]), Vma(layout[i]) % Full>> : i \in first}

Transfers ==
  {i \in 1 .. Len(script) :
     script[i].op = "insn" /\ script[i].ins \in {"branch", "jump", "jumpreg", "b"}}

(* The lines that end the wait for the instruction of line i's delay slot. *)
SlotEnds(i) ==
  {j \in i + 1 .. Len(script) :
     script[j].op \in {"insn", "align", "loc", "bloc", "vma", "poploc"}}

(* A script that assembles has something to fill the slot of every branch  *)
(* and jump, unless a warning said that the location was changed or the    *)
(* script ended before it: the first line that counts the slot down is     *)
(* itself no branch or jump, and takes one word.  An instance of a         *)
(* structure is the exception: mkasm counts down for it as for an          *)
(* instruction, whatever its size.                                         *)
SlotDiscipline ==
  status = "done" /\ opts.large =>
    \A i \in Transfers :
      \/ SlotEnds(i) = {} /\ 4121 \in warned
      \/ \E j \in SlotEnds(i) :
           /\ \A k \in SlotEnds(i) : j <= k
           /\ IF script[j].op = "insn"
              THEN /\ j \notin Transfers
                   /\ script[j].ins # "struct" =>
                        layout[j + 1].loc = (layout[j].loc + 4) % AddrMod
              ELSE 4120 \in warned

HoldsWord(k, op) ==
  /\ image.file[k + 1].word.op = op
  /\ SubSeq(image.file, k + 1, k + 4) = WordBytes(image.file[k + 1].word)

Signed(d) == IF 2 * d >= DispMod THEN d - DispMod ELSE d

(* Where the transfer word leads when the word after it has the address    *)
(* next (external: a jump stays in the region of its delay slot).          *)
Landing(op, arg, next) ==
  IF op = "branch" THEN (next + 4 * Signed(arg)) % AddrMod
  ELSE next - (next % (4 * JumpMod)) + 4 * arg

(* The word of a transfer at file position k leads to the label its line   *)
(* names, if any argument of a word at that place would.                   *)
Lands(k) ==
  LET word   == image.file[k + 1].word
      l      == script[word.line]
      name   == Compose(l.arg.ref, layout[word.line + 1].scope)
      next   == (k + layout[word.line].offset + 4) % AddrMod
      target == (labels[name] + l.arg.add) % AddrMod
      args   == 0 .. (IF word.op = "branch" THEN DispMod ELSE JumpMod) - 1
  IN  /\ l.arg.ref \notin {NoName, LOC, VMA} /\ name \in DOMAIN labels
      /\ \E a \in args : Landing(word.op, a, next) = target
      => Landing(word.op, word.arg, next) = target

(* Wherever a branch or jump has come to lie in the patched file, also     *)
(* moved by a large LI or LA in its delay slot, it leads to the label the  *)
(* script names.  The pseudo instruction B does not (see below).           *)
BranchesLand ==
  status = "done" /\ Sound =>
    \A k \in 0 .. Len(image.file) - 4 :
      /\ HoldsWord(k, "branch") \/ HoldsWord(k, "jump")
      /\ script[image.file[k + 1].word.line].ins # "b"
      => Lands(k)

(* The bytes line i puts into the file, by the layout of pass 1.  What     *)
(* .galign skips behind a string is not among them.                        *)
Footprint(i) ==
  LET l == script[i]
      n == CASE l.op = "text" -> l.chars + (IF l.zero THEN 1 ELSE 0)
             [] l.op \in {"data", "space", "insn"} ->
                  (layout[i + 1].loc - layout[i].loc) % AddrMod
             [] OTHER -> 0
  IN  layout[i].loc .. layout[i].loc + n - 1

(* Byte k of the file is the last line's among the first m whose footprint *)
(* it is in, and the input's, or zero where the file has grown, if there   *)
(* is none.                                                                *)
LastOver(k, m) ==
  LET over == {i \in 1 .. m : k \in Footprint(i)}
  IN  IF over # {}
      THEN \E i \in over : image.file[k + 1].word.line = i /\ \A j \in over : j <= i
      ELSE image.file[k + 1].word.op = IF k < inputLen THEN "input" ELSE "zero"

(* The patched file is the input except for what the layout of pass 1      *)
(* gives to the lines; there it holds the last line's bytes.  The padding  *)
(* of .galign stays the input's (see below).                               *)
PatchExact ==
  status = "done" /\ Sound /\ opts.large =>
    /\ \A i \in 1 .. Len(script) : \A k \in Footprint(i) : k < Len(image.file)
    /\ \A k \in 0 .. Len(image.file) - 1 : LastOver(k, Len(script))

(* fatal() and a crash leave the output behind, unlike errors: at every    *)
(* moment of pass 2 it is patched exactly up to the line being read, and   *)
(* of that line at most bytes of its own footprint have been changed.      *)
PartialPatch ==
  pass = 2 /\ status # "failed" /\ Sound /\ opts.large =>
    /\ \A i \in 1 .. pc - 1 : \A k \in Footprint(i) : k < Len(image.file)
    /\ \A k \in 0 .. Len(image.file) - 1 :
         \/ LastOver(k, pc - 1)
         \/ /\ status \in {"stopped", "crashed"} /\ pc <= Len(script)
            /\ k \in Footprint(pc) /\ image.file[k + 1].word.line = pc

-----------------------------------------------------------------------------
(* What the repository says of the program and the program does not do.    *)

(* README.md of .galign: strings from there on are padded with zeros up to *)
(* the alignment.  So nothing of the input is left in the padding.         *)
PaddingIsZero ==
  status = "done" /\ Sound /\ opts.large =>
    \A i \in 1 .. Len(script) : script[i].op = "text" /\ layout[i].galign > 0 =>
      LET end == layout[i].loc + script[i].chars + (IF script[i].zero THEN 1 ELSE 0)
      IN  \A k \in end .. layout[i + 1].loc - 1 :
            k < Len(image.file) => image.file[k + 1].word.op # "input"

(* The comment in mkasm: B is BEQ zero, zero to its label.                 *)
PseudoBranchLands ==
  status = "done" /\ Sound =>
    \A k \in 0 .. Len(image.file) - 4 :
      /\ HoldsWord(k, "branch")
      /\ script[image.file[k + 1].word.line].ins = "b"
      => Lands(k)
=============================================================================
