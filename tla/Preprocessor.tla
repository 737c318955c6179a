---------------------------- MODULE Preprocessor ----------------------------
(***************************************************************************)
(* preprocessor.cpp: %define, %macro, %if and %include on the way to the   *)
(* assembler, with the .file lines by which prtasm knows where a line came *)
(* from.  process_input reads a file; a block's handle_directive reads on  *)
(* by itself up to its %endif, and what it skips it only counts.           *)
(*                                                                         *)
(* A step is one line (a whole %macro), or the end of a file.              *)
(***************************************************************************)
EXTENDS Macros, FiniteSets

VARIABLES
  files,
  stack,    (* the calls of process_input: filename, the next line, line_no and
               the calls of handle_directive for blocks inside *)
  symbols, macros,
  output,   (* what is printed *)
  outcome,  (* "running", "done", "error" (exit 1) or "aborted" *)
  misread   (* history: a block took a line for something else *)

vars == <<files, stack, symbols, macros, output, outcome, misread>>

Input(name) == [name |-> name, next |-> 1, line_no |-> 1, ifs |-> <<>>]

If(condition) == [condition |-> condition, depth |-> 1, hasElse |-> FALSE, hinted |-> FALSE]

(* .file name n, printed while line at is read, or before it (a hint).     *)
FileLine(name, n, at, hint) ==
  [kind |-> "file", name |-> name, n |-> n, at |-> at, hint |-> hint]

Init ==
  /\ files \in Files
  /\ stack = <<Input(Main)>>
  /\ symbols = [s \in {} |-> ""]
  /\ macros = [k \in {} |-> <<>>]
  /\ output = <<FileLine(Main, 1, 0, FALSE)>>
  /\ outcome = "running"
  /\ misread = FALSE
-----------------------------------------------------------------------------
top == Last(stack)
source == files[top.name]
line == source[top.next]

Reading == outcome = "running" /\ top.next <= Len(source)

InBlock == top.ifs # <<>>
block == Last(top.ifs)
Live == InBlock => block.condition

(* line_no while the line is handled: a block counts before it handles,    *)
(* process_input after.                                                    *)
LineNo == IF InBlock THEN top.line_no + 1 ELSE top.line_no

(* What the block takes the line for: find sees a mark anywhere in it, but *)
(* looks for no %if in what it skips.                                      *)
Found ==
  IF line.note = "" \/ (Live /\ line.note \in Conditions) THEN line.op ELSE line.note

(* The block around the line after its hint. *)
Hint == IF InBlock /\ Live /\ ~block.hinted
        THEN <<FileLine(top.name, LineNo + 1, top.next, TRUE)>> ELSE <<>>

Hinted == IF InBlock /\ Live
          THEN Append(Front(top.ifs), [block EXCEPT !.hinted = TRUE]) ELSE top.ifs

(* The line of an %endif not counted. *)
Onward_NoEnd(more, ifs) ==
  stack' = Front(stack) \o
             <<[top EXCEPT !.next = @ + 1 + more, !.ifs = ifs,
                           !.line_no = LineNo + more + IF InBlock THEN 0 ELSE 1]>>

(* The reader of the next line, more lines later, in the blocks ifs.       *)
Onward(more, ifs) ==
  stack' = Front(stack) \o
             <<[top EXCEPT !.next = @ + 1 + more, !.ifs = ifs,
                           !.line_no = LineNo + more + IF ifs = <<>> THEN 1 ELSE 0]>>

Prints(lines) == output' = output \o Hint \o lines

Confused == Found # line.op \/ (~Live /\ line.op = "if")

Noted == misread' = (misread \/ (InBlock /\ Confused))

(* A line of text, with the number __LINE__ is replaced by: the next one's.*)
TextLines(lines) ==
  [k \in DOMAIN lines |-> [kind |-> "line", name |-> top.name, at |-> top.next,
                           k |-> k - 1, n |-> LineNo + 1, text |-> lines[k]]]

ThisFile(n) == <<FileLine(top.name, n, top.next, FALSE)>>
-----------------------------------------------------------------------------
(* process_line and what it calls.                                         *)
Handles(ops) ==
  /\ Reading /\ Live
  /\ line.op \in ops
  /\ InBlock => Found \notin {"else", "endif"}
  /\ Noted
  /\ UNCHANGED files

(* What is printed as it is.  A colon in a comment makes everything before *)
(* it a label, the instruction too.                                        *)
Pass ==
  /\ Handles({"colon", "dot", "blank"})
  /\ Prints(TextLines(<<line>>))
  /\ Onward(0, Hinted)
  /\ UNCHANGED <<symbols, macros, outcome>>

(* A call's body is followed by the place to go on from. *)
ParseInstruction ==
  /\ Handles({"insn"})
  /\ Prints(TextLines(Expansion(line, symbols, macros)) \o
            IF MacroKey(line) \in DOMAIN macros THEN ThisFile(LineNo + 1) ELSE <<>>)
  /\ Onward(0, Hinted)
  /\ UNCHANGED <<symbols, macros, outcome>>

Define ==
  /\ Handles({"define"})
  /\ symbols' = Defined(symbols, line)
  /\ Prints(ThisFile(LineNo + 1))
  /\ Onward(0, Hinted)
  /\ UNCHANGED <<macros, outcome>>

DefineMacro ==
  /\ Handles({"macro"})
  /\ LET body == MacroBody(source, top.next + 1)
         more == Len(body) + 1
     IN  /\ macros' = WithMacro(macros, line, body)
         /\ Prints(<<FileLine(top.name, LineNo + more + 1, top.next + more, FALSE)>>)
         /\ Onward(more, Hinted)
  /\ UNCHANGED <<symbols, outcome>>

OpenBlock ==
  /\ Handles(Conditions)
  /\ Condition(line, symbols) \in {"true", "false"}
  /\ Prints(<<>>)
  /\ Onward(0, Append(Hinted, If(Condition(line, symbols) = "true")))
  /\ UNCHANGED <<symbols, macros, outcome>>

CanOpen == line.name \in DOMAIN files /\ Len(stack) < OpenMax

(* The includer goes on when the file is read; see EndOfFile.              *)
Include ==
  /\ Handles({"include"})
  /\ CanOpen
  /\ Prints(<<FileLine(line.name, 1, 0, FALSE)>>)
  /\ stack' = Front(stack) \o
                <<[top EXCEPT !.next = @ + 1, !.line_no = LineNo, !.ifs = Hinted],
                  Input(line.name)>>
  /\ UNCHANGED <<symbols, macros, outcome>>

(* What was printed before stays printed.                                  *)
Throw ==
  /\ Handles(Conditions \cup {"include", "else", "endif", "endmacro", "unknown"})
  /\ outcome' = CASE line.op \in Conditions -> Condition(line, symbols)
                  [] line.op \notin Conditions -> "error"
  /\ line.op \in Conditions => outcome' \in {"error", "aborted"}
  /\ line.op = "include" => ~CanOpen
  /\ Prints(<<>>)
  /\ UNCHANGED <<stack, symbols, macros>>
-----------------------------------------------------------------------------
(* The loop of a block.                                                    *)
InLoop(marks) ==
  /\ Reading /\ InBlock
  /\ Found \in marks
  /\ Noted
  /\ UNCHANGED <<files, symbols, macros>>

(* Nested blocks not counted. *)
Depth_Flat(found) == IF found = "endif" THEN 0 ELSE block.depth

Depth(found) ==
  IF found \in {"ifdef", "ifndef"} THEN block.depth + 1
  ELSE IF found = "endif" THEN block.depth - 1 ELSE block.depth

(* The side of the block behind a %else: only the first one counts.        *)
ElseAgain ==
  /\ InLoop({"else"})
  /\ ~Live => block.depth = 1
  /\ block.hasElse
  /\ outcome' = "error"
  /\ Prints(<<>>)
  /\ UNCHANGED stack

Else ==
  /\ InLoop({"else"})
  /\ ~Live => block.depth = 1
  /\ ~block.hasElse
  /\ Prints(<<>>)
  /\ Onward(0, Append(Front(top.ifs),
                      [Last(Hinted) EXCEPT !.hasElse = TRUE, !.condition = ~Live]))
  /\ UNCHANGED outcome

EndLive ==
  /\ InLoop({"endif"})
  /\ Live
  /\ Prints(<<>>)
  /\ Onward(0, Front(top.ifs))
  /\ UNCHANGED outcome

Skip ==
  /\ InLoop({Found})
  /\ ~Live
  /\ Found = "else" => block.depth > 1
  /\ Prints(<<>>)
  /\ Onward(0, IF Depth(Found) = 0 THEN Front(top.ifs)
               ELSE Append(Front(top.ifs), [block EXCEPT !.depth = Depth(Found)]))
  /\ UNCHANGED outcome

(* An includer that does not say where it goes on, and one that does. *)
Resumed_Silent(above) == <<>>

Resumed(above) == <<FileLine(above.name, above.line_no + 1, above.next - 1, FALSE)>>

(* A block that waits for its %endif, and one that ends with its file.     *)
LastRead_Open == IF InBlock THEN outcome ELSE "done"

LastRead == "done"

(* The end of a file ends the loops of all its blocks; the includer goes   *)
(* on in process_input or in a block of its own.                           *)
EndOfFile ==
  /\ outcome = "running"
  /\ top.next > Len(source)
  /\ IF Len(stack) = 1
     THEN outcome' = LastRead /\ UNCHANGED <<stack, output>>
     ELSE LET above == stack[Len(stack) - 1]
          IN  /\ stack' = Append(SubSeq(stack, 1, Len(stack) - 2),
                                 [above EXCEPT !.line_no = IF above.ifs = <<>> THEN @ + 1 ELSE @])
              /\ output' = output \o Resumed(above)
              /\ UNCHANGED outcome
  /\ UNCHANGED <<files, symbols, macros, misread>>

Ended == outcome # "running" /\ UNCHANGED vars

Next ==
  \/ Pass \/ ParseInstruction \/ Define \/ DefineMacro \/ OpenBlock \/ Include \/ Throw
  \/ ElseAgain \/ Else \/ EndLive \/ Skip
  \/ EndOfFile \/ Ended

Spec == Init /\ [][Next]_vars
FairSpec == Spec /\ WF_vars(Next)
-----------------------------------------------------------------------------
BlockSet ==
  {b \in [condition : BOOLEAN, depth : Nat \ {0}, hasElse : BOOLEAN, hinted : BOOLEAN] :
     b.condition => b.depth = 1}

(* A block begins only where lines count. *)
BlocksSet == {ifs \in Seq(BlockSet) : \A n \in 1 .. Len(ifs) - 1 : ifs[n].condition}

CallSet ==
  [name : STRING, next : Nat \ {0}, line_no : Nat \ {0}, ifs : BlocksSet]

PrintedSet ==
  [kind : {"file"}, name : STRING, n : Nat, at : Nat, hint : BOOLEAN]
    \cup [kind : {"line"}, name : STRING, at : Nat, k : Nat, n : Nat, text : LineSet]

(* A loop that skips counts blocks, one that does not is the block's own.  *)
TypeOK ==
  /\ \A name \in DOMAIN files : files[name] \in Seq(LineSet)
  /\ stack \in Seq(CallSet)
  /\ Len(stack) \in 1 .. OpenMax
  /\ \A d \in 1 .. Len(stack) : stack[d].name \in DOMAIN files
  /\ \A s \in DOMAIN symbols : symbols[s] \in STRING
  /\ \A k \in DOMAIN macros : macros[k] \in Seq(LineSet)
  /\ output \in Seq(PrintedSet)
  /\ outcome \in {"running", "done", "error", "aborted"}
  /\ misread \in BOOLEAN

(* The sides of the blocks around a line: those a skipping loop counts are *)
(* dead.                                                                   *)
SideOf(b) ==
  <<IF b.hasElse THEN IF b.condition THEN "then" ELSE "over"
    ELSE IF b.condition THEN "on" ELSE "off">> \o [n \in 1 .. b.depth - 1 |-> "dead"]

Sides(ifs) == FlattenSeq([n \in DOMAIN ifs |-> SideOf(ifs[n])])

TextOf(o) == IF o.kind = "line" THEN <<o.text>> ELSE <<>>

Texts(lines) == FlattenSeq([n \in DOMAIN lines |-> TextOf(lines[n])])

View(call) == [name |-> call.name, next |-> call.next, sides |-> Sides(call.ifs)]

Promise == INSTANCE Conditional WITH
  reading <- [n \in DOMAIN stack |-> View(stack[n])],
  emitted <- Texts(output)

(* Loops that count and call each other select exactly the lines whose     *)
(* blocks are all on their true side, expand them with what is defined by  *)
(* then, and stop on the same mistakes, as long as no block misreads a     *)
(* line (a mark inside a text, or a %if among what is skipped).            *)
Selects == Promise!Start /\ [][misread' \/ Promise!Next]_(Promise!vars)

(* The one counter that process_input, the loops of blocks and %macro all  *)
(* advance, each at its own moment, never drifts from the line that is     *)
(* read: between two lines it is the number of the next line in            *)
(* process_input, and of the last one in a block and in a file that waits  *)
(* for another.                                                            *)
Counted ==
  \A d \in 1 .. Len(stack) :
    stack[d].line_no + (IF d < Len(stack) \/ stack[d].ifs # <<>> THEN 1 ELSE 0)
      = stack[d].next

(* So every .file line printed says the number of the line after the one   *)
(* being read, whatever blocks, macros and files came before; but not the  *)
(* one at the beginning of a block, which Attribution is about.            *)
Numbered ==
  /\ Counted
  /\ \A n \in DOMAIN output :
       output[n].kind = "file" /\ ~output[n].hint => output[n].n = output[n].at + 1

(* Where prtasm believes a line to come from: a .file line sets the name   *)
(* and the number, every line read counts.                                 *)
Since(n) == CHOOSE m \in 1 .. n :
              /\ output[m].kind = "file"
              /\ \A o \in m + 1 .. n : output[o].kind # "file"

Blamed(n) == output[Since(n)].n + n - Since(n) - 1

Silent(l) == l.op \in Conditions \cup {"else", "endif"} \/ l.note # ""

(* An error in a line is reported for that line, in its file, unless a     *)
(* block began or ended since the last .file line: then the number may be  *)
(* too low, and never more than one too high.  It is one too high at the   *)
(* beginning of a block, whose .file line comes before the line it is for. *)
Attribution ==
  \A n \in DOMAIN output :
    LET o == output[n]
        m == output[Since(n)]
    IN  o.kind = "line" =>
          /\ m.name = o.name
          /\ Blamed(n) <= o.at + o.k + 1
          /\ (\A p \in m.at + (IF m.hint THEN 0 ELSE 1) .. o.at - 1 :
                 ~Silent(files[o.name][p])) =>
                Blamed(n) = o.at + o.k + IF m.hint THEN 1 ELSE 0

(* A script that includes itself runs out of files instead of going on for *)
(* ever, and nothing else keeps the loops from ending.                     *)
Terminates == <>(outcome # "running")
=============================================================================
