------------------------------- MODULE Macros -------------------------------
(***************************************************************************)
(* What preprocessor.cpp reads: the lines of a script before expansion,    *)
(* and what a line by itself means.  A line is a record:                   *)
(*   op    what it begins with: "insn" (an instruction or a macro call),   *)
(*         "dot" (a directive of the assembler), "blank", or the name of a *)
(*         % directive; "colon" is an instruction with a colon in the      *)
(*         comment behind it                                               *)
(*   name  the mnemonic, or the first word of a directive                  *)
(*   args  the operands of an instruction, the value of %define, the       *)
(*         formal parameters of %macro                                     *)
(*   note  the % directive the line merely mentions, as in a comment       *)
(***************************************************************************)
EXTENDS Integers, Sequences, SequencesExt

CONSTANTS
  Files,    (* the readable files: functions from names to sequences of lines *)
  Main,     (* argv[1]                                                        *)
  OpenMax,  (* how many files a process may have open                         *)
  Numbers,  (* the words stoi accepts, with their values                      *)
  TooLarge  (* the words that are numbers an int cannot hold                  *)

Conditions == {"ifdef", "ifndef", "if"}

Directives ==
  {"define", "macro", "include", "else", "endif", "endmacro"} \cup Conditions

LineSet ==
  [op : {"insn", "colon", "dot", "blank", "unknown"} \cup Directives,
   name : STRING, args : Seq(STRING), note : STRING]

ASSUME MacrosAssumption ==
  /\ \A f \in Files : Main \in DOMAIN f /\ DOMAIN f \subseteq STRING
  /\ \A f \in Files : \A name \in DOMAIN f :
       /\ f[name] \in Seq(LineSet)
       /\ \A n \in DOMAIN f[name] :
            f[name][n].op = "define" => Len(f[name][n].args) = 1
  /\ OpenMax \in Nat \ {0}
  /\ \A w \in DOMAIN Numbers : Numbers[w] \in Int /\ w \notin TooLarge

(* A word that names a symbol stands for its value; the value is not looked *)
(* at again.                                                                *)
Substituted(args, symbols) ==
  [n \in DOMAIN args |-> IF args[n] \in DOMAIN symbols THEN symbols[args[n]] ELSE args[n]]

(* The condition of a block: a truth value, or the exception it throws.  A   *)
(* word that is no number must be a symbol whose value is one.  Of stoi's    *)
(* exceptions only that for such a word is caught: a number too large, or a  *)
(* value that is no number, ends the program.                                *)
Condition(l, symbols) ==
  LET defined == l.name \in DOMAIN symbols
      truth(v) == IF v = 0 THEN "false" ELSE "true"
  IN  CASE l.op = "ifdef"  -> IF defined THEN "true" ELSE "false"
        [] l.op = "ifndef" -> IF defined THEN "false" ELSE "true"
        [] l.op = "if" /\ l.name = "" -> "false"
        [] l.op = "if" /\ l.name \in DOMAIN Numbers -> truth(Numbers[l.name])
        [] l.op = "if" /\ l.name \in TooLarge -> "aborted"
        [] l.op = "if" /\ l.name \notin DOMAIN Numbers \cup TooLarge \cup {""} ->
             IF ~defined THEN "error"
             ELSE IF symbols[l.name] \in DOMAIN Numbers
                  THEN truth(Numbers[symbols[l.name]]) ELSE "aborted"

Defined(symbols, l) ==
  [s \in DOMAIN symbols \cup {l.name} |-> IF s = l.name THEN l.args[1] ELSE symbols[s]]

(* Macros are told apart by their name and the number of their parameters. *)
MacroKey(l) == <<l.name, Len(l.args)>>

(* The lines after a %macro up to %endmacro, or to the end of the file.    *)
MacroBody(src, first) ==
  LET ends == {n \in first .. Len(src) : src[n].op = "endmacro"}
      last == IF ends = {} THEN Len(src) ELSE (CHOOSE n \in ends : \A m \in ends : n <= m) - 1
  IN  SubSeq(src, first, last)

WithMacro(macros, l, body) ==
  [k \in DOMAIN macros \cup {MacroKey(l)} |-> IF k = MacroKey(l) THEN body ELSE macros[k]]

(* The operands are put where %1, %2 ... stand, one after the other: a %2  *)
(* inside the first operand is replaced again.                             *)
Parameters == <<"%1", "%2">>

Replaced(word, args) ==
  LET after[k \in 0 .. Len(args)] ==
        IF k = 0 THEN word
        ELSE IF after[k - 1] = Parameters[k] THEN args[k] ELSE after[k - 1]
  IN  after[Len(args)]

Instantiated(l, args) ==
  [l EXCEPT !.args = [n \in DOMAIN l.args |-> Replaced(l.args[n], args)]]

(* What an instruction's line becomes: the body of the macro it calls, its *)
(* own lines not looked at again, or itself.                               *)
Expansion(l, symbols, macros) ==
  LET args == Substituted(l.args, symbols)
  IN  IF MacroKey(l) \in DOMAIN macros
      THEN [n \in DOMAIN macros[MacroKey(l)] |-> Instantiated(macros[MacroKey(l)][n], args)]
      ELSE <<[l EXCEPT !.args = args]>>
=============================================================================
