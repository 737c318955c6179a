# A verification project for InnnaSyec

InnnaSyec is a MIPS R5900 (PlayStation 2) patching assembler.  It takes an
executable and a script, copies the executable and overwrites parts of the copy
with assembled code and data.  Beside the assembler (`prtasm`) the repository
holds a control-flow analyser (`r5900.c`, `book.c`, `fragcov.c`) with its shell
(`isy`) and the instruction codec all of them use.

This directory holds TLA+ modules that model the parts of the program whose
correctness depends on more than one step, TLC configurations that check them,
and proofs of what matters most for every value of the constants.

    tlc -config MCAssemble.cfg MCAssembler  one of the runs
    tlapm AssemblerProofs.tla               one of the proof modules

## 1. Inventory

Everything is single-threaded and sequential.  What makes the system hard is
not concurrency but state that outlives a step: two passes over the same script
that must move a cursor alike, instructions that look at and rewrite the
instruction before them, a file whose remembered size and true size can drift apart when a
write fails, tables with keys that are silently refused, loops that call each other and share a
counter, and hand-written tables that must agree entry by entry.

| Component | Source | State it keeps | Operations | Talks to |
|---|---|---|---|---|
| two-pass assembler | `prtasm.cpp` `genasm`, `mkasm`, `get_asm_len` | location, offset, bound, alignment, location stack, scope (locals of `genasm`); `is_delayslot`, `cerror`, `check_only` (globals) | one per directive and pseudo instruction | reads and defines labels and structures, emits through the image sink, encodes with the codec |
| labels, scopes, structures, expressions | `prtasm.cpp` 480-860 | `tag_vma_map`, `global_label_set`, `struct_defs` | define, look up, evaluate | used by every directive with an argument |
| image sink | `prtasm.cpp` 40-240 | the `FILE *`, `size`, `allow_write_past_eof` | extend, write bytes/u32/chunk, read u32 | the output file |
| LI/LA expansion | `prtasm.cpp` 996-1160, 1330-1400 | none | size in pass 1, words in pass 2 | R5900 arithmetic |
| symbol export | `prtasm.cpp` 2400-2460 | none | write one line per global label | the label table |
| command line | `prtasm.cpp` `main`, `liteopt.h` | option globals | parse switches, copy the input, run the passes, remove the output on errors | all of the above |
| instruction codec | `inscodec/codec.c`, `encode.inc`, `disas.c` | the templates of the operations, made once from the opcode tables | `DecodeInstruction`, `EncodeInstruction`, `parse_param`, `as`, `disas` | called by `mkasm`, the disassembler and the analyser |
| macro preprocessor | `preprocessor.cpp` | macros, symbols, a line number for each open file; on the call stack the files and blocks that are open | `%define`, `%macro`, `%if`..., `%include`, expansion of a call | produces the script, and `.file` lines for the assembler's messages |
| character tables and string search | `isy-str.c`, `bst.c` | a search tree from characters to codes | load a table, encode, search, guess | used by the analyser for strings |
| analyser shell | `isy.c` | the program counter | analyze, jump, query, disas | the analyser, the symbol book |
| fragment note book | `fragcov.c` | array of fragments, count, capacity | register, remove, query, merge, compact | used by the analyser |
| analyser and symbol book | `r5900.c`, `book.c` | emulated registers, delay slot, call stack, tables of functions, symbols, control flows | step, bookmark, suspend and resume control flow | the fragment note book, a SQLite database through `book.c` |
| disassembler mode | `prtasm.cpp` `main` | the offset | print a word as an instruction or as data | the codec; its output is a script for the assembler |
| expressions | `inscodec/xyutils.h` `eval_int_expr` | the pointer its functions hand each other | evaluate | every number of a script |
| text helpers | `xyutils.c`, `inscodec/xyutils.h` | none | scan, convert | everything |

What makes each of them correct:

* **assembler**: pass 2 reaches every line with the cursor pass 1 reached it
  with; labels are the addresses of the code behind them; every branch is
  followed by exactly one instruction (or by the instance of a structure, which
  counts as one); a branch leads where the script says, also after an expansion
  in its delay slot has moved it; the patched file differs from the input only
  where a line was laid out, also when the run is broken off in the middle.
* **image sink**: the file is the input with the successful writes laid over it,
  whatever failed in between; without `--allow-write-past-eof` the file never
  changes its length.
* **LI/LA**: both passes agree on the size; the code loads the operand.
* **note book**: removing, compacting and merging fragments never changes what
  is covered by the others; a query finds what is covered.
* **analyser**: every function that is found and gets its row is analysed; control flow that
  is suspended is resumed with the state it was suspended in; it terminates.
* **character tables**: a query answers the code the table gives the character, and
  the tree stays a search tree while it is rotated.
* **preprocessor**: a line comes out exactly when all conditions around it hold, with the macros
  and symbols defined by then; the `.file` lines printed lead back to the file and the line that was read; it ends.
* **codec and disassembler**: what is printed for a word assembles to a word that prints the same;
  code as the assembler writes it comes back bit for bit, and data byte for byte.
* **expressions**: precedence, grouping and the place where an expression ends are those of C.

The hard behaviours (listed one by one, each with its line and the properties
that watch it, in `PROJECT.json` under `hazards`): pass 1 and pass 2 deciding
differently on the size of one line; state that survives from pass 1 to pass 2;
labels defined twice or under several scopes; a delay slot pending across
relocations, errors and the end of the script; four writes that exchange a
branch with an expansion; offsets that wrap around in 64 bits; a disk that fills
up between two writes; fatal errors in the middle of pass 2; skipped blocks that are counted and
live ones that recurse; two hundred operations whose patterns, templates and encodings are
written by hand in three places.

## 2. Modules

    Symbols    names, scopes, structures, expressions          (operators)
    LoadImm    LI/LA as arithmetic                             (operators)
    Image      the image sink's pure operations                (operators)
       |
       +-- ImageSink      the sink as a state machine       -- ImageSinkProofs
       |     +-- MCImageSink
       +-- Assembler      genasm (EXTENDS Symbols, LoadImm;
             |            INSTANCE Image)                   -- AssemblerProofs
             +-- MCAssembler
    Frag       fragments of the address space                  (operators)
       +-- FragBook       the note book as a state machine  -- FragBookProofs
             |            (INSTANCE Coverage)
             +-- Coverage what a note book promises
       +-- Analyser       the control-flow analyser (EXTENDS Frag)
             |                                              -- AnalyserProofs
             +-- MCAnalyser
    LoadImm -- LoadImmExec  an LI/LA line through both passes
             |              and the processor               -- LoadImmProofs
             +-- MCLoadImm
    Codec      words, instructions, their text                 (operators)
       +-- Reassembly     disassembler, then assembler      -- ReassemblyProofs
             +-- MCReassembly
    Macros     what a line means to the preprocessor           (operators)
       +-- Conditional    what a preprocessor promises
       +-- Preprocessor   what this one does (INSTANCE Conditional)
             |                                              -- PreprocessorProofs
             +-- MCPreprocessor
    Expr       eval_int_expr
       +-- MCExpr
    SequenceLemmas   induction, what FlattenSeq and Front compute, division
                     (for all but FragBookProofs)

A definition whose name has an underscore in it (`Vma_Unwrapped`,
`Overlay_Append`) is a mistake that could plausibly be made where the definition
after it stands.  No definition uses it; replacing the right one by it shows
which property notices (`mutants` in `PROJECT.json`).

### Image and ImageSink

`g_image_sink` is the record `[file, size]`: what the `FILE *` holds and the
`size` member kept beside it.  `ImageWriteBytes` is `image_write_bytes` with its
order of steps kept: the end of the write is computed modulo 2^64 (`AddrMod`),
compared with `size`, the gap is zeroed (`ImageExtendToOffset`), `fseek` fails for
offsets that are negative as a `long`, `fwrite` fails part way when the disk is
full (`DiskMax`), and only then is `size` raised.  `ImageSink` lets any sequence
of calls happen and records, as history, what the caller has been told.

`file` is what the `FILE *` holds, not what has reached the disk: stdio may take a
write into its buffer and find the disk full later, at the next `fseek` or at
`fclose`, whose result nothing looks at.  The model reports the failure with the write that
does not fit, which is the earliest moment; what a later one loses is below `file`.

### LoadImm and LoadImmExec

`LiSize` is the LI branch of `get_asm_len`, `LiCode` and `LaCode` are the LI and LA
branches of `mkasm`, and `Executed` is the processor (external to the
repository).  An operand is any integer: `Imm32` is the cast to `int32_t`.

### Symbols

A label is the sequence of its dot-separated parts.  `Compose` is
`compose_label_name`, `Known`/`LabelValue` are `find_label_value` with its order
(`__LOC__`, `__VMA__`, label, field of a structure).  An expression is a name, or
nothing, plus a number; the arithmetic of `eval_int_expr` is folded into that
number.

### Assembler

One step is one line of the script; a line is a record whose `op` is its
directive.  The part all lines share (bound check, string literal, label) is
`Entered`, `LabelsAt`, `GlobalsAt`, `PreludeStops`; the actions are the branches of
the chain of `if`s in `genasm`:

| Action | Code |
|---|---|
| `ReadBlank`, `ReadNothing`, `ReadUnknownDirective`, `ReadQword` | lines without an effect of their own, unknown directives, `.qword` |
| `StopInPrelude` | `--stop-at-overline`, `--stop-at-first-error`, an over-long line |
| `ReadData`, `ReadSpace`, `ReadText`, `ReadTextWithoutQuote` | `.byte` to `.dword`, `.space`, `.ascii`, `.asciiz` |
| `ReadAlign`, `ReadGalign`, `ReadOffset`, `ReadLocation`, `ReadPushLoc`, `ReadPopLoc` | the cursor |
| `ReadStruct` | `.struct` |
| `ReserveInstruction` | an instruction in pass 1: `get_asm_len` |
| `EmitInstruction`, `RefuseInstruction` | an instruction in pass 2: `mkasm`, or the write past the end that is fatal |
| `CrashInExchange` | an exchange looks up the name of a word that is no instruction |
| `StartPass2`, `Finish` | the second `genasm`, the end of `main` |

`cur` holds the locals of `genasm` that say where the next byte goes.  `slot` is
`is_delayslot`: `mkasm` sets it to 2 at a branch or jump, before it has parsed the
rest of the line (also at an unknown mnemonic that begins with B or J, `nojump`), and
counts it down after each instruction, and each instance of a structure, that was accepted.
`EmitPair` is the exchange of a branch with a two-word LI or LA in its delay slot,
word by word.  `errors` is `cerror`; `status` is how the process ended.
`layout` is a history variable: the cursor at the start of each line in pass 1.

A word of machine code is represented by what it is (`op`), the line that emitted
it and its argument; a byte is a word and a place in it.  So `PatchExact` can say
which line a byte of the output came from and `BranchesLand` can decode it, while
the encodings of the ordinary instructions, which do not touch any state, stay out.

Undefined behaviour: LA ignores the result of `parse_param`, so that with a bad
register the immediate was never set.  The model lets it be any value of
`Garbage`.  The exchange decodes the word before the expansion without asking whether it is an
instruction; if it is none (`Decodes`), the name is read from in front of `instructions[]`, which
crashes (`CrashInExchange`) or takes the word for a branch or not (`taken`).

### Frag, FragBook and Coverage

`frags` is the array up to `frag_count`; a slot is `[live, begin, end]`, `live` standing
for `_sta = 0`.  The calls that touch one slot are one step (`Reg`, `Rm`, `Upd`, the
last being what `book.c` does through the pointer `frag_lget` returns).  The two loops are
taken one iteration at a time: `RegFull`, `FindGap`, `ArranSkip`, `ArranMove`, `ArranDone`
are `frag_reg` on a full book with `frag_arran` in it, with its two indices `p` (`dst`) and
`q` (`src`); `Defrag`, `DefragNext`, `DefragMerge`, `DefragDone` are `fragbook_defrag`.
`Overlap` is asymmetric as in the code.

`Coverage` is the abstract specification: a set of notes, of which a call adds, drops or
changes one, or joins some so that the same addresses stay covered and every note remains
inside one.  `FragBook` implements it with `notes` mapped to the live slots: no
iteration of either loop shows as anything but a join or a stutter.

### Analyser

The analyser's two recursions are two stacks.  `emu_anal_ctrlflow` calls itself for a
branch whose target is new: `flows` holds the `emu_status` of each activation with the
counter it has `left`; `flows[1]` is the shell's own `emu_status`, which lives on from one
function to the next.  `emu_anal_instr` calls itself for a delay slot and drops the
result: `slots` holds the transfers whose slot is being analysed, so a transfer takes
effect (bookmark, row of the table, result) only after everything its slot did.  `phase` and `ret` say
which call has just returned what.

| Action | Code |
|---|---|
| `Beyond`, `Plain`, `Syscall`, `EnterSlot` | the start of `emu_anal_instr` |
| `MarkFails`, `MarkKnown`, `JumpAnalysed`, `BranchAnalysed`, `CallAnalysed`, `SwitchAnalysed`, `ReturnAnalysed` | its cases after the slot: the bookmark cannot be made, exists, is new |
| `FlowEnds`, `FlowGoesOn`, `FlowSuspended`, `FlowResumed`, `FlowKilled`, `Crash` | the loop of `emu_anal_ctrlflow`; each begins with `book_anal_ctrlf_upd` |
| `FunctionConfirmed`, `NextFunction`, `AllAnalysed` | `book_anal_ctrlf_cnf`, the loop of `emu_anal` |
| `AnalyzeAll`, `AnalyzeFunc`, `Jump`, `Quit`, `CommandFails` | the commands of `isy.c` |

The tables are sequences in the order of insertion, which is the order in which `SELECT`
without an index finds rows.  A bookmark's name is its kind and its address: the instruction
at an address never changes, so the target in the name adds nothing.  A second insert of a
name is refused, a renaming to a name that is taken is refused too (`Renamed`).  Besides, the
database may refuse `FailMax` rows (`Refused`): a bookmark, which the code notices
(`MarkFails`), the row of a function (`List`) or its confirmation (`FunctionConfirmed`), which it does not.
`lost` records, as history, the functions whose row was refused.  That a bookmark cannot be renamed
for another reason than its name, or that a query fails, is left out.
Left out are the emulated registers and the bookmarks of constants and data made from
them: `emu_anal_instr` ignores the result of `emu_anal_exec`, and nothing reads them.
`cfg_emu_anal_ignore_bmerr` is never set and taken as 0.

### Codec and Reassembly

`Codec` holds the opcode tables as the code has them, the look-ups through them
(`LookUpOpcode`), the walk that makes the templates (`Prepared`, `opcode_buffer`), the operands each
pattern of `instructions[]` names (`Form`), and Decode, Encode, `disas` and `as` as operators.  A word is the
record of its R-format fields; `Immediate`, `PutImmediate` and `ImmediateOf` lay 16, 20 and 26
bits over several of them, as the union does.  `Filled` is `encode.inc`: the fields its two hundred
cases store, which are the operands of the pattern except where the operators before it say.
Three tables are shorter than the bits that index them (`PMFHL`, `BC0`, `BC1`); what a read behind
them gives is any name of `Stray`.

`Reassembly` composes the disassembler mode with the assembler: `TakeApart` is the loop of
`MODE_SDISASM`, one word a step; `AssembleData`, `AssembleInstruction` and `RefuseLine` are what
`genasm` does in pass 2 with a script that has no labels, onto a blank file.  `slot` is `is_delayslot`
again: a disassembly contains transfers and data in every order, so it reaches states that a
compiler's output does not.  `instr_t.sa` is not set by `as` unless it is an operand: it is `Junk`.

`MeaningKept` compares lines by their `Meaning`, which is the line itself but for `SLL zero, zero, 0`: that
is what the disassembler prints for a word of `NOP`'s fields with something in its unused bits, and what the
assembler makes a word of zeroes of, which is printed as `NOP`.  It leaves out `DebugMoves`, which the
decoder never finds: only a read beyond a table can print one.

### Macros, Conditional and Preprocessor

A line is a record: what it begins with, its operands, and the `%` mark it merely mentions (`note`),
because a block's loop looks for marks anywhere in a line.  `Macros` says what lines mean:
conditions (a number too large for an `int`, `TooLarge`, makes `stoi` throw what nobody catches), symbols
(substituted once), macros (told apart by name and number of parameters, their bodies not expanded again). Arguments
replace placeholders one after the other, so that a placeholder in an argument is replaced, too (`Replaced`).

`Conditional` is the abstract specification: each open file has a stack of *sides*, and a line counts
when all are on.  `Preprocessor` is the code: `stack` holds the calls of `process_input`, each with its
`line_no` and the calls of `handle_directive` inside it.  A live block calls `process_line`, and through
it other blocks; a block that is skipped calls nothing and counts a `depth`.

| Action | Code |
|---|---|
| `Pass`, `ParseInstruction` | `parse_instruction` on a directive, an empty line or one with a colon in its comment, on an instruction or a macro call |
| `Define`, `DefineMacro`, `OpenBlock`, `Include`, `Throw` | `handle_directive` |
| `Else`, `ElseAgain`, `EndLive`, `Skip` | the loop of a block |
| `EndOfFile` | the end of `process_input`, which ends the blocks left open |

`Promise` maps a call of `process_input` to its file, and a block with `depth` *d* to its side and
*d - 1* dead ones.  `misread` records that a block took a line for something it is not; from then
on nothing is promised.  `Blamed` is the assembler's side of the `.file` lines (`genasm` sets its name
and number by them and counts the lines in between).

### Expr

`calls` is the C stack: the functions from `parse_or` to `parse_primary` that are active, each with its
left operand and the operator it has read; `p` is the pointer they pass on, `status` whether the innermost
function is being called or has returned.  `Values` is the reference: the values a piece of the text has
at a level of the grammar, defined by splitting it at every operator, without a scanner or a stack.

## 3. Runs

| Run | Question | Properties |
|---|---|---|
| `image_sink` | any sequence of writes and reads | `TypeOK`, `FileIsInputPlusWrites`, `SizeCoversWrites`, `NoGrowthUnlessAllowed` |
| `load_imm` | every operand through both passes and the processor | `TypeOK`, `ExpansionFillsReservation`, `RegisterGetsOperand` |
| `assemble` | code, data and directives, and every refused or fatal kind of line | `TypeOK`, `PassesAgree`, `SlotDiscipline`, `BranchesLand`, `LabelsMatchCode`, `SymbolsMatchCode`, `PatchExact`, `PartialPatch` |
| `frag_book` | any sequence of calls on a book of three slots | `TypeOK`, `ArranAssertion`, `CompactionKeepsOrder`, `IsCoverage`, `CallsReturn` |
| `analyse` | commands on the same tables, with the note book, the counter and the database at their limits and below | `TypeOK`, `FlowsNoted`, `CalledAnalysed`, `ExtentHoldsFlow`, `AnalysisEnds` |
| `codec` | every entry of every table, and every order of transfers, data and code, through the disassembler and the assembler | `MeaningKept`, `CanonicalKept`, `DataExact`, `Refusals`, `SlotsFilled` |
| `macros` | every short script with blocks, macros and included files | `Numbered`, `Attribution`, `Selects`, `Terminates` |
| `expr` | expressions with any two operators, and every short string | `ValueRight`, `NoneRefused`, `Terminates` |
| `pseudo_b`, `galign_fill`, `operands_lost`, `octal_hang` | what a document, a comment or a table says and the code does not do | one each |

Bounds, and why they are enough:

* `ImageSink`: addresses modulo 12, a disk of 5 bytes, inputs and blocks of up to
  a few bytes.  A write can start inside and end outside the file, at its end,
  beyond it, at the top of the address range so that its end wraps, and at
  offsets that `fseek` refuses; gaps can fill the disk, and so can data.
* `LoadImm`: halves of 4 bits, so that 2^16 becomes 16 and 2^32 becomes 256.
  Operands run over all 8-bit images of a word and beyond it on both sides, so
  each of the four expansions, each boundary between them and the casts of
  operands with excess high bits occur.
* `Assembler`: addresses of 6 bits, displacements and jump targets of 3 bits
  (`DispMod`, `JumpMod`), an input of 20 bytes (five words), a disk of 28 bytes,
  so that branches fall out of reach, jumps leave their region, `.vma` wraps
  around and writes pass the end.  Scripts are *all* sequences of up to four lines
  over an alphabet of code, over one of data and directives and over one of transfers, structures of one and of
  two words and an expansion, and of up to two (three of a few) over one of lines that are refused: four lines hold a label, a
  transfer, a line in its slot and a line that moves the cursor, which is the
  longest interplay in the code; `is_delayslot` never exceeds 2 and the other
  state is carried from line to line only through the cursor.
  `Chunk` is 4 instead of 4096 so that `.space` needs several chunks.
* `FragBook`: three slots, since the loops relate two slots and what is between, before or
  behind them: every pattern of live and dead slots around a move, and a pair whose
  fragment grows after it was passed.  Three addresses give all ways in which two
  fragments can overlap, touch or miss each other, with open ones (end before
  beginning) among them.
* `Analyser`: memories of five words, with two instructions of any kind or three branches, calls and returns,
  anywhere: two flows that cross, a function between
  two others, a backward branch before the function's beginning, transfers in delay slots.
  The entry is in the middle, so there is code before it.  `FragMax` and `CounterMax`
  stand for 128 and 100000: three fragments are enough for two branches and not for three that
  lead to three new places, and four instructions for any flow but one through all the memory, so the limits are
  met and most programs stay below them.  `CommandMax` is 2, a jump or an analysis and then an
  analysis, so that tables of before are met again, and `FailMax` is 1: the database refuses
  one row, of bookmarks or of functions, any one, or a confirmation.
* `Reassembly`: `codec` has 3,700 files.  Words by themselves have every value of every field that indexes a
  table (with what lies around it fixed, or one of a few values, zero and not zero): an
  operation's fate depends on its tables and on its own fields only.  Three words in a row of six
  (two branches, one of them leading to before the start of memory, a jump, plain code, data and a move) give
  each order of transfers around data and refused lines.  Starts between words, an end in
  the middle of a word, all ways to dump data.
* `Preprocessor`: all scripts of five lines of blocks (`%ifdef`, `%ifndef`, `%if`, `%else`, `%endif`, a
  definition, a call), all of three lines of anything, and files and macros inside blocks.
  Five lines hold a block in a block with an `%else` for either.  `OpenMax` is 3, so that a file that includes
  itself runs into the limit.  The included file leaves a block open.
* `Expr`: a long long has 16 bits instead of 64, which is visible only in overflows.  Two operators
  are every pair of precedences in both orders; three signs, both places for parentheses, all
  prefixes of literals, and all strings of three of twelve characters, most of which are refused.

The properties about a finished patch are stated for scripts without errors, since
with errors the output is removed, and under `NoFieldShadowed`: a label `A.x` and a
field `x` of a structure `A` share one name, and which is meant depends on whether
the label is defined yet.  `SlotDiscipline` and `PatchExact` are stated for the default
that refuses a two-word expansion in a delay slot (`opts.large`): with
`--enable-delay-slot-large-li-la` the exchange writes a word before the line's own location,
and `BranchesLand` (which covers that case) says what is then right.

Fairness: `FairSpec` of `Preprocessor` and `Expr` adds `WF_vars(Next)`.  The program is one thread,
reads files, and nothing in it waits; weak fairness of the whole
next-state relation says no more than that it keeps running.  `Assembler` needs none: that its `for` loop over the
lines ends is no question, unless a literal hangs it, which is `Expr`'s.  In `FragBook` it is weak
fairness of the loops' iterations only (`Loop`): a call that has begun goes on, while
nothing says that the caller makes another.  In `Analyser` it is weak fairness of
`Analyse`, the steps of a command being run; the user need not type another.

Deadlock is checked everywhere but in `load_imm`, where an operand is assembled and
executed once.  A finished assembler stutters (`Stopped`).

### Findings

* `pseudo_b`: `B label` is documented in `mkasm` as `BEQ zero, zero, label`.  It is encoded
  without the relocation of the other branches, so its operand's address becomes the
  displacement.
* `galign_fill`: README.md says that `.galign` fills with 0 up to the alignment.  The cursor is only moved over the
  padding, so the bytes of the input stay there.  `PatchExact` has it the code's way: padding is no line's.
* `operands_lost`: the pattern of MFC0, `$rt, ^rd`, has two operands and its case in `encode.inc` stores one:
  `mfc0 t0, Status` assembles to `mfc0 t0, Index`.  MTC0, CFC1 and CTC1 are the same; PSLLH, PSLLW, PSRAH, PSRAW,
  PSRLH and PSRLW store `rs` in place of `rd`; ADDA.S has no case.  These, and the compares LT, NGE, LE and
  NGT, which store an operand where the format belongs, are `Lossy`; `MeaningKept` says that there are no others.
* `octal_hang`: the comments at `parse_int` say that a prefix 0 is supported.  The loop over octal digits does
  not advance, so a script with `010` in it is never finished with.  `Terminates` of `Expr` says that nothing
  else hangs.

Known behaviours the models have and no run is spent on:

* The bound of a location is compared when a line is read, so code of the last line passes
  WARN_ADDR without the warning README.md promises "as soon as" the address touches it.
* A data directive between a branch and the next instruction takes the delay slot without
  a warning; `SlotDiscipline` counts instructions, as `is_delayslot` does.
* An instance of a structure counts `is_delayslot` down once, whatever its size: the first word of its values is in
  the slot, the others are behind it.  `SlotDiscipline` says one word of everything else only.
* An error in pass 2 removes the output, `fatal` and a crash leave it as it is by then (`PartialPatch`).
* A note book that was full once refuses every fragment, however many are removed:
  `frag_arran` frees slots at the end of the array and nobody lowers `frag_count`.
* One pass of `fragbook_defrag` may leave overlapping fragments apart, since it does not return to a
  pair whose first fragment has grown.  `IsCoverage` says what it does guarantee.
* A function with more new branch targets than the note book holds makes
  `book_anal_ctrlf_upd` follow a null pointer: `frag_reg`'s refusal is ignored (`Crash`).
* A flow that comes to a jump which another flow has bookmarked goes on behind it (`MarkKnown`): whether an
  unconditional jump ends a flow depends on which flow came first.
* A branch to the address just behind a flow that ended is taken as covered and not followed, since the
  end of a note is that address.
* A function whose row the database refuses is never analysed, and nobody is told: its bookmark exists, so no later call
  lists it (`CalledAnalysed` names the exception).  One whose confirmation is refused is begun again.
* Only `%ifdef` and `%ifndef` are counted among skipped lines: a `%if` in a skipped block takes the outer block's
  `%else` and `%endif`.  A mark anywhere in a line, also in a comment or a string, is taken for the directive.
  `Selects` promises nothing after either (`misread`).
* The `.file` line at the beginning of a block is printed after the line was counted, so it is one too high; nothing is
  printed behind a block, so numbers behind lines that were skipped are too low up to the next `.file` line
  (`Attribution` says how far).
* `__LINE__` is one too high everywhere (`TextLines`): `line_no + 1`, right for a `.file` line, is handed to
  `replace_magic_macros` as well, whose comment says that it is the current line's number, and
  `test_magic_macros.asm` uses it so.  `Numbered` is about the counter and the `.file` lines only.
* A symbol whose value is no number makes `%if` throw what `main` does not catch, and a number too large for an `int`
  does the same; what was printed before stays.
* A colon in a comment makes everything before it the label, the instruction too: no symbol is replaced in the line and
  no macro expanded.  A placeholder in an argument of a macro is replaced by a later argument.
* A body is not expanded again, so a macro cannot call another one, and expansion always ends.
* `SLL zero, zero, 0` is `NOP`: a word that differs from 0 in bits `SLL` does not use is printed as the first and
  comes back as the second (`Meaning`).
* The moves from and to debug and performance registers assemble, but the decoder compares the number of the
  register (24 or 25) with the name of the table, finds neither, and prints the word as INVALID or as data.  C.NGT
  has no template.
* A disassembly may not assemble: a branch to before address 0 with a pattern for unsigned values, and a transfer
  in the slot of another, are refused (`Refusals`).
* `0x` alone is 0, `1&&2` stops before the second `&`, a quotient by 0 is 0, and the least long long divided
  by -1 kills the process (`Trap`).
* One `emu_status` serves all functions and its assumed end is never reset, so a return in one
  function can rename the jump that ended the function before.

## 4. Proofs

All proofs are about the constants as declared, under the `ASSUME`s named in the
modules that declare them; every one of these is evaluated by a passing run.

**ImageSinkProofs** (`SinkAssumption`, `ImageAssumption`: a disk smaller than half the
address range, blocks no longer than half of it).  `TypeCorrect`, `FileCorrect`,
`SizeCorrect` and `LengthKept` are the four properties of the run.  They are proved from one
inductive invariant: the type, the two properties about file and size, and that a
file whose growth is not allowed still has the input's length.  The wrap of
`off + bytes` is the core: a write whose end wraps would pass the bounds check, but its
offset is at least half the address range, since a block is no longer than that, and
`fseek` refuses it.

**LoadImmProofs** (`HalfAssumption`: the width of a half is even).
`LiSizeIsCodeSize` and `ExpansionLoadsOperand` hold for *every* integer operand
and every width.  The argument is a case split on the four forms; the
lemmas say how `%` and `\div` by `Half` split a word into halves and how the borrow
of ADDIU is undone.

**AssemblerProofs** (`AssemblerAssumption`: every line is what the parsers can make of one, an
address has at least 8 values, a file that fills the disk is shorter than half of the
address range, and four times the width of a displacement or a jump target divides it).
`PassesAlwaysAgree`, `LabelsAreAddresses`, `SymbolsAreAddresses`, `SlotsAreFilled`, `TypeCorrect`,
`PatchIsExact` and `BranchesLead` are proved for scripts of any length and any options; `SlotDiscipline` and
`PatchExact` themselves speak of the default only, which refuses a large LI or LA in a delay slot.  None of the
properties is inductive.  The invariant of the first three is

    IInv == Layout /\ Chained /\ PassesAgree /\ Named /\ Exported

* `Layout`: pass 1 has recorded a cursor for every line it has reached and is at the last;
* `Chained`: each recorded cursor is the one the line before leads to, as a function of the
  script, the labels and the structures *that are defined now*.  That is the
  strengthening everything hangs on: a size that was computed with the labels
  of the moment is still the size when more labels have been added, because a
  label once defined stays, a structure once defined stays, and a label never
  hides a field;
* `Named`: a label's value is the address of the first line that defines it;
* `Exported`: the global labels are those the script has.

Pass 2 then computes, from the same cursor, the same next cursor: for each
directive directly, for instructions by `LiFillsRoom` and by the lengths
`mkasm` returns.  For `SlotsAreFilled` it is extended to

    SlotInv == IInv /\ RoomReserved /\ SlotCount /\ SlotsFollowed /\ SlotDiscipline

* `RoomReserved`: the layout gives an LI the length of its expansion and any other instruction but LA and
  the instance of a structure one word, which is how a fact about the words pass 2 emits becomes one about the layout;
* `SlotCount`: pass 1 leaves `is_delayslot` alone, and after a line of pass 2 that was
  no error it is 0 or 1, although `mkasm` sets it to 2 in the middle of one;
* `SlotsFollowed`: every transfer already read either waits with `is_delayslot` at 1 and nothing
  since has ended the wait, or its wait has been ended by one word, by a structure or by a warning.

The last three theorems speak of values and of the file, and rest on `IInv` and three more parts:

* `Typed`: the types, with a file never longer than the disk and never shorter than its `size` field,
  and structures no longer than half the address range.  That everything a line can write is of such
  a length is what keeps the end of a write from wrapping around (`NoWrap`);
* `FileAsLaid`: after the first *m* lines of pass 2, every byte is that of the last of these lines whose
  bytes the layout of *pass 1* puts there, and otherwise the input's, or zero where the file has grown;
* `TransfersLead`: the argument of every *whole* branch or jump, wherever it lies in the file, is the one
  the labels give for that place.  Single bytes may lie anywhere: an exchange may move half a
  branch, when data has been written since `is_delayslot` was set.

One lemma per directive (`Lays`) says that a line of pass 2 that is no error puts its bytes
at the location, as many as it moves the location by, and changes no other byte; it goes through everything `mkasm`
can return (`MkasmOK`) and through data, space and text (`StoreOK`).  `PassesAgree` then
turns the location into the layout's.  The exchange of a large LI or LA with what lies before it is the one
exception (`Exchanged`): the moved four bytes lie between two words of the expansion, so that no
half of a word moved can be completed by what was there; if they were a whole branch, `NextDisplacement` says that
a displacement lowered by one leads to the same place from one word further down.  `BranchLeads` and `JumpLeads` are the arithmetic: a displacement
that is computed from numbers that have wrapped around, and shortened to its field, is the one that
leads to the label whenever one does.

**FragBookProofs** (`AddrAssumption`, `FragMaxAssumption`), for every capacity and
set of addresses: `TypeCorrect`, `AssertionHolds` (the `assert` in `frag_arran`) and
`ImplementsCoverage` (the refinement).  The invariant is

    IInv == TypeOK /\ Looking /\ Gap /\ Ahead

`Looking`: the search for the first gap stays in the array; `Gap`: while slots are moved, those
from `dst` up to `src` are dead, and if there is none yet, `src` itself is (so the next live
slot has a dead one to go to); `Ahead`: in `fragbook_defrag` `j` stays ahead of `i`, so that a slot is
never merged into itself, which would lose it.  That merging covers the same addresses
is a lemma about two overlapping fragments, one of which may be open.

**SequenceLemmas.**  The library's induction theorems take an operator, which the provers
cannot instantiate.  `Induction` states it with a set instead (a set that holds 0, and n + 1 if it
holds n, holds all naturals; from `Least`), and a claim is proved by defining the set of
the numbers it is true of.  With it, what `FlattenSeq` and the merging of notes (a recursive
function) compute is proved for every length.  `Beginning`, `Continued` and `Overwritten` say what the
file consists of after a write.

**PreprocessorProofs** (`MacrosAssumption`), for every set of files, any bound on open files and any
nesting: `TypeCorrect`, `LinesNumbered` (the counter never drifts), `SelectsRightly` and `LinesAttributed`.  The invariant of the first three is

    IInv == TypeOK /\ files \in Files /\ Counted /\ OneMore

`Counted` is the first half of `Numbered`, and `OneMore` the stronger form of the other (about hints and `__LINE__`, too): between two lines an open file's `line_no` is the number of the
next line, but one less while one of its blocks is open or while it waits for the file it includes,
since `handle_directive` counts at the top of its loop and `process_input` at the bottom.
For `SelectsRightly` each action of the code is shown to be a step of `Conditional` under `Promise` or
to leave it as it is.  The mapping turns a block with `depth` *d* into *d* sides, so the proof needs what
flattening a sequence of sequences does when its last element changes, and that a line is
printed by the code, where only the innermost block is looked at, exactly when *all* sides
are on, which is what `Conditional` asks.  A block is only opened where lines count and those around it
wait meanwhile, so `TypeOK` says that all blocks but the innermost are on their true side (`BlocksSet`).

`LinesAttributed` rests on `IInv` and on

    Traced == /\ Started(output) /\ Attributed(output, files)
              /\ outcome = "running" =>
                   Heading(output, files, top.name, top.next, Live) /\ Resumable

* `Attributed` is the property, of any output;
* `Heading` is what makes it inductive: the same claim about the line *to be read next*, and that, as long as
  no line since the last `.file` line was one of which nothing is printed, lines count (so what is
  skipped need not be looked at);
* `Resumable`: a file that waits for another one goes on where lines count, so that the `.file` line of its
  return, too, is followed by a line that is printed.

Three lemmas carry it on: one for a `.file` line (`FileLineHeads`), one for lines of text (`TextHeads`), and one for a line of
which nothing is printed (`SilentHeads`); each action is one or two of them behind the hint (`HintHeads`).
Run on the instance of `macros`, TLC agrees that `Traced` is an invariant.

**AnalyserProofs** (`AnalyserAssumption`), for every program, every size of the note book, every
counter and every number of rows the database refuses: `TypeCorrect`, `FlowsAreNoted`,
`CalledAreAnalysed` and the action property `ExtentHolds`.  The invariant is

    IInv == TypeOK /\ CommandOK /\ (InAnalysis => Following) /\ RowsSeen /\ CallsIn(marks, rows, lost)
    Following == CountersOK /\ NotesOK /\ EndsOK /\ SettledOK /\ TopSeen

* `CommandOK`: which commands the phases belong to, and when no delay slot is under way;
* `CountersOK`: a flow that waits, or has an instruction behind it, has some of its counter left
  (this is why a flow whose counter is spent cannot find itself suspended);
* `NotesOK`: beginnings are distinct among flows and among notes, the first note is the first
  flow's, and every flow has one, except the newest when the book is full.  It holds
  because a note is registered only where `frag_query` found nothing and a flow only follows
  a branch whose target is not in a note;
* `EndsOK`: the note ends where its flow goes on, unless it is the newest flow's and an instruction is under way;
* `SettledOK`, `TopSeen`: what is noted is not open any more, and its beginning has been visited.
  An open note would be found by no query, so its flow could be begun twice, and
  `NotesOK` would not be inductive;
* `RowsSeen`: a row is done only when its beginning has been visited, also one
  that is confirmed because an extent happens to begin there;
* `CallsIn`: what a bookmark calls has a row, or its row was refused (`Kept`), since the row is inserted by the step
  that makes the bookmark.

`ExtentHolds` follows from the first note being the first flow's (`NotesOK`), its end
(`EndsOK`), and `ExtentFacts`: merging into slot 0 never lowers its end.

**ReassemblyProofs** (`ReassemblyAssumption`: files are bytes, and what the options allow), for files of any
length, any limits, every way to dump data, whatever `Junk` and whatever a read beyond a
table finds: `TypeCorrect`, `DataIsExact`, `CanonicalIsKept`, `MeaningIsKept`, `SlotsAreFilled` and
`RefusalsExplained`, all properties of the run `codec`.  That run tries a few operands with every entry of the
tables; the theorems are about every word.  The invariant of the machine is

    IInv == Typed /\ InOrder /\ Placed /\ RefusedLines

* `InOrder`: nothing is assembled before all is taken apart;
* `Placed`: there are places in the file, one for each line, such that the script is `Laid` out on them from
  `dasm_sta` without gaps, each line saying what its place holds (`Fits`); and, *while nothing has been
  refused*, such that each line assembled stands at its place and the rest is blank (`Written`).  A refused
  line moves nothing, so what is assembled after it lies too low; an instruction is only then known to be
  read at the address it was printed for, on which the text of a branch depends;
* `RefusedLines`: data is never refused.

`Placed` at the end is `DataExact`.  The two properties about instructions need facts about the codec, each by
cases over the kinds of operations, with the tables held name by name:

* `ImmediateBack`, `SameImmediate`: an immediate is taken from the bits it was put into, over several fields
  and with either sign, and nothing else is changed;
* `Encoded`: every field of the word that an instruction is encoded to is an operand's, or the template's;
* `FoundAgain`: no operation writes a field by which it is found, in any of the tables, so the word is decoded
  as the operation it was encoded from (`FunctUntouched`, `SaUntouched`, `RegImmUntouched`, `FloatUntouched` and
  `CoprocessorUntouched` say so of each kind of table);
* `CanonicalBack`, `PrintsBack`: with these, the word is the same, or prints the same.

Delay slots rest on `IInv` and on

    Slots == SlotTaken /\ SlotAsked /\ SlotsFilled /\ Refusals

* `SlotTaken`: as long as nothing follows a transfer in the file, its slot is asked for;
* `SlotAsked`: a slot that is asked for has been asked for by a transfer, with nothing between; by a refused
  one twice, so then one instruction may lie between.

`Unreadable` is the other half of `Refusals`: the only lines of its own that `as` cannot read are those with a
negative number for a pattern that has no sign.  The proof of `MeaningIsKept` is where the alias of `NOP` came up:
a word of zeroes but for bits no operand holds is printed as `SLL` and comes back as `NOP`.

What is model-checked only: `FragBook`'s `CompactionKeepsOrder` (`SelectSeq` is a `RECURSIVE`
operator of the standard modules) and `CallsReturn` (liveness); `Analyser`'s
`AnalysisEnds` and `Preprocessor`'s `Terminates` (liveness); `Assembler`'s `PartialPatch` (the lemmas about
the file speak of lines that are no error, and one that is broken off is); `Expr`'s `ValueRight` and `NoneRefused` (an induction over the pieces of a text and the levels of the
grammar at once is needed, for a reference that is itself recursive), and the findings.  Out of the prover's reach altogether: liveness under fairness,
`ENABLED`, and anything about `RECURSIVE` operators, which the modules with theorems therefore do not use.

## 5. Not modelled, and why

* Parsing of lines, identifiers, string escapes: character-level scanning that
  keeps no state between lines.  A line record carries what the scanner finds out: its
  arguments and whether it is well formed.  Likewise the scanner that replaces names in an
  expression by their values before `eval_int_expr` sees it.
* In the preprocessor: the characters of a line (commas inside parentheses, placeholders
  that are part of a word, `__DATE__` and its kin) and its warning variable `prev_is_branch`, which nothing reads.
* Command-line parsing, help texts, logging, the progress messages.
* A failing `fopen`, and the order of lines in the symbol file.
* The ELF loader and the emulated registers of `r5900.c`: the first is input, the second is read
  by nothing that decides where the analysis goes.
* The character tables (`isy-str.c`, `bst.c`): README.md says of everything but `prtasm` and `inscodec`
  that it is an unfinished analyser.  The parts of it that decide where an analysis goes are
  modelled; the tables serve its string search only, and half of their functions do not return what
  their header says.
* `disasm_gen.c` and `permblk.hpp`, which nothing builds or includes; `xyutils.c`, the text helpers of `isy`.

## 6. Plan

Left: `PartialPatch` of `Assembler` for every script, which needs lemmas about what a line that is broken off has
written; `ValueRight` and `NoneRefused` of `Expr`, which `expr` checks for short texts only, for every text.
