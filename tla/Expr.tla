-------------------------------- MODULE Expr --------------------------------
(***************************************************************************)
(* eval_int_expr of xyutils.h, which computes every number in a script: a  *)
(* parser by recursive descent with a function for each level of           *)
(* precedence, and a scanner for literals.  A step is a character of a     *)
(* literal, a sign or parenthesis, or a return to the calling function.    *)
(***************************************************************************)
EXTENDS Integers, Sequences, SequencesExt

CONSTANTS
  Texts,  (* sequences of characters *)
  Width   (* 64, the bits of a long long *)

ASSUME ExprAssumption ==
  /\ Width \in Nat \ {0}
  /\ \A t \in Texts : Len(t) \in Nat

VARIABLES
  text,
  p,       (* the place in text, the pointers of all active calls *)
  calls,   (* the active calls, the innermost last *)
  base,    (* of the literal being scanned *)
  value,   (* *out of the innermost call, or the literal so far *)
  status   (* "operand": a function is called; "scan": a literal; "return";
              then "done", "failed" (-1) or "crashed" (a signal) *)

vars == <<text, p, calls, base, value, status>>

Char(n) == IF n \in 1 .. Len(text) THEN text[n] ELSE "end"

Digits == <<"0", "1", "2", "3", "4", "5", "6", "7", "8", "9", "A", "B", "C", "D", "E", "F">>

(* dechex, limited to the digits of a base. *)
DigitsOf(b) == {Digits[d] : d \in 1 .. b}
DigitValue(c) == (CHOOSE d \in 1 .. 16 : Digits[d] = c) - 1

(* Blanks are not skipped. *)
SkipWs_Not(n) == n

SkipWs(n) == CHOOSE m \in n .. Len(text) + 1 :
               Char(m) # " " /\ \A k \in n .. m - 1 : Char(k) = " "
-----------------------------------------------------------------------------
(* Arithmetic on long long: what does not fit is cut off.                  *)
Signed(v) == LET u == v % 2^Width IN IF u >= 2^(Width - 1) THEN u - 2^Width ELSE u

(* The places of the ones in v, and the number with ones in those places.  *)
Ones(v) == {k \in 0 .. Width - 1 : (v \div 2^k) % 2 = 1}

Bits(places) == Signed(MapThenSumSet(LAMBDA k : 2^k, places))

(* C's division goes towards zero. *)
Abs(v) == IF v < 0 THEN -v ELSE v
Quotient(a, b) == IF (a < 0) = (b < 0) THEN Abs(a) \div Abs(b) ELSE -(Abs(a) \div Abs(b))

(* A shift looks at the low bits of its count only. *)
Apply(op, a, b) ==
  CASE op = "|" -> Bits(Ones(a) \cup Ones(b))
    [] op = "^" -> Bits((Ones(a) \cup Ones(b)) \ (Ones(a) \cap Ones(b)))
    [] op = "&" -> Bits(Ones(a) \cap Ones(b))
    [] op = "<<" -> Signed(a * 2^(b % Width))
    [] op = ">>" -> a \div 2^(b % Width)
    [] op = "+" -> Signed(a + b)
    [] op = "-" -> Signed(a - b)
    [] op = "*" -> Signed(a * b)
    [] op = "/" -> IF b = 0 THEN 0 ELSE Quotient(a, b)
    [] op = "%" -> IF b = 0 THEN 0 ELSE a - b * Quotient(a, b)

(* The quotient that has no place in a long long is a fault of the processor. *)
Traps(op, a, b) == op \in {"/", "%"} /\ b = -1 /\ a = -(2^(Width - 1))

ApplyUnary(op, a) ==
  CASE op = "+" -> a [] op = "-" -> Signed(-a) [] op = "~" -> -a - 1
-----------------------------------------------------------------------------
(* parse_or is level 1, parse_xor 2, parse_and 3, parse_shift 4, parse_add *)
(* 5 and parse_mul 6; parse_unary 7 and parse_primary 8 call each other.   *)
Level == <<{"|"}, {"^"}, {"&"}, {"<<", ">>"}, {"+", "-"}, {"*", "/", "%"}>>

(* The operator of a level at a place.  && is not one. *)
OperatorAt(level, n) ==
  LET one == Char(n)
      both == IF Char(n) \in {"<", ">"} /\ Char(n + 1) = Char(n)
              THEN IF Char(n) = "<" THEN "<<" ELSE ">>" ELSE "none"
  IN  IF level = 4 THEN both
      ELSE IF one \in Level[level] /\ ~(one = "&" /\ Char(n + 1) = "&") THEN one ELSE "none"

OpLen(op) == IF op \in Level[4] THEN 2 ELSE 1

(* A call; op is the operator it has read, out its left operand.           *)
Call(level, op, out) == [level |-> level, op |-> op, out |-> out]

(* A function calls the one of the next level before it does anything.     *)
Descent(level) == [n \in 1 .. 7 - level |-> Call(level + n - 1, "none", 0)]

Init ==
  /\ text \in Texts
  /\ p = 1
  /\ calls = Descent(1)
  /\ base = 10
  /\ value = 0
  /\ status = "operand"

inner == Last(calls)
here == SkipWs(p)

Digit(c, b) == c \in DigitsOf(b)
-----------------------------------------------------------------------------
(* parse_unary and parse_primary, at an operand.                           *)
Operand == status = "operand"

SignedOperand ==
  /\ Operand
  /\ Char(here) \in {"+", "-", "~"}
  /\ calls' = Append(calls, Call(7, Char(here), 0))
  /\ p' = here + 1
  /\ UNCHANGED <<text, base, value, status>>

Parenthesis ==
  /\ Operand
  /\ Char(here) = "("
  /\ calls' = Append(calls, Call(8, "(", 0)) \o Descent(1)
  /\ p' = here + 1
  /\ UNCHANGED <<text, base, value, status>>

(* A lone 0 is not scanned further. *)
StartLiteral ==
  /\ Operand
  /\ Digit(Char(here), 10)
  /\ LET first  == Char(here)
         second == Char(here + 1)
     IN  /\ base' = CASE first = "0" /\ second = "x" -> 16
                      [] first = "0" /\ Digit(second, 8) -> 8
                      [] OTHER -> 10
         /\ p' = CASE first = "0" /\ second = "x" -> here + 2
                   [] first = "0" /\ second # "x" -> here + 1
                   [] OTHER -> here
         /\ status' = IF first = "0" /\ second # "x" /\ ~Digit(second, 8)
                      THEN "return" ELSE "scan"
  /\ value' = 0
  /\ UNCHANGED <<text, calls>>

NoOperand ==
  /\ Operand
  /\ ~Digit(Char(here), 10)
  /\ Char(here) \notin {"+", "-", "~", "("}
  /\ status' = "failed"
  /\ UNCHANGED <<text, p, calls, base, value>>

(* The place behind a digit: the octal loop counts characters, but looks   *)
(* at the same one again.  (First: the loop for 0x written the same way.)  *)
Advanced_HexToo(b) == IF b \in {8, 16} THEN p ELSE p + 1

Advanced(b) == IF b = 8 THEN p ELSE p + 1

(* parse_int_literal. *)
ScanDigit ==
  /\ status = "scan"
  /\ Digit(Char(p), base)
  /\ value' = Signed(value * base + DigitValue(Char(p)))
  /\ p' = Advanced(base)
  /\ UNCHANGED <<text, calls, base, status>>

EndLiteral ==
  /\ status = "scan"
  /\ ~Digit(Char(p), base)
  /\ status' = "return"
  /\ UNCHANGED <<text, p, calls, base, value>>
-----------------------------------------------------------------------------
(* A function has returned value to the call above it.                     *)
Returning(levels) == status = "return" /\ calls # <<>> /\ inner.level \in levels

ReturnSigned ==
  /\ Returning({7})
  /\ value' = ApplyUnary(inner.op, value)
  /\ calls' = Front(calls)
  /\ UNCHANGED <<text, p, base, status>>

CloseParenthesis ==
  /\ Returning({8})
  /\ IF Char(here) = ")"
     THEN p' = here + 1 /\ calls' = Front(calls) /\ UNCHANGED status
     ELSE status' = "failed" /\ UNCHANGED <<p, calls>>
  /\ UNCHANGED <<text, base, value>>

(* Operators of one level, taken from the right: not what the loops do.    *)
RightLevel_FromRight(level) == level

(* The level of the right operand: the next one, so that a further operator *)
(* of this level is left to the loop.                                       *)
RightLevel(level) == level + 1

Combined == IF inner.op = "none" THEN value ELSE Apply(inner.op, inner.out, value)

Trapped == inner.op # "none" /\ Traps(inner.op, inner.out, value)

(* The loop of a level: the next operator, or back to the caller.          *)
Loop ==
  /\ Returning(1 .. 6)
  /\ ~Trapped
  /\ LET op == OperatorAt(inner.level, here)
     IN  IF op = "none"
         THEN /\ value' = Combined
              /\ calls' = Front(calls)
              /\ UNCHANGED <<p, status>>
         ELSE /\ calls' = Append(Front(calls), Call(inner.level, op, Combined))
                            \o Descent(RightLevel(inner.level))
              /\ p' = here + OpLen(op)
              /\ status' = "operand"
              /\ UNCHANGED value
  /\ UNCHANGED <<text, base>>

Trap ==
  /\ Returning(1 .. 6)
  /\ Trapped
  /\ status' = "crashed"
  /\ UNCHANGED <<text, p, calls, base, value>>

(* What follows an expression is the caller's to look at.                  *)
Finish ==
  /\ status = "return"
  /\ calls = <<>>
  /\ p' = here
  /\ status' = "done"
  /\ UNCHANGED <<text, calls, base, value>>

Ended == status \in {"done", "failed", "crashed"} /\ UNCHANGED vars

Next ==
  \/ SignedOperand \/ Parenthesis \/ StartLiteral \/ NoOperand
  \/ ScanDigit \/ EndLiteral
  \/ ReturnSigned \/ CloseParenthesis \/ Loop \/ Trap \/ Finish \/ Ended

Spec == Init /\ [][Next]_vars
FairSpec == Spec /\ WF_vars(Next)
-----------------------------------------------------------------------------
(* The grammar of expressions, as a table of the values that the text from *)
(* lo to hi has at a level.  Operators of one level group to the left.  0x *)
(* alone is 0, as the scanner has it.                                      *)
IsLiteral(lo, hi, b) == \A n \in lo .. hi : Digit(Char(n), b)

Positional(lo, hi, b) ==
  Signed(MapThenSumSet(LAMBDA n : DigitValue(Char(n)) * b^(hi - n), lo .. hi))

LiteralValues(lo, hi) ==
  IF lo > hi THEN {}
  ELSE CASE Char(lo) = "0" /\ lo = hi -> {0}
         [] Char(lo) = "0" /\ Char(lo + 1) = "x" /\ lo < hi ->
              IF IsLiteral(lo + 2, hi, 16) THEN {Positional(lo + 2, hi, 16)} ELSE {}
         [] Char(lo) = "0" /\ Char(lo + 1) # "x" /\ lo < hi ->
              IF IsLiteral(lo, hi, 8) THEN {Positional(lo, hi, 8)} ELSE {}
         [] OTHER -> IF IsLiteral(lo, hi, 10) THEN {Positional(lo, hi, 10)} ELSE {}

Values[level \in 1 .. 8, lo \in Nat, hi \in Nat] ==
  IF lo > hi THEN {}
  ELSE IF Char(lo) = " " THEN Values[level, lo + 1, hi]
  ELSE IF Char(hi) = " " THEN Values[level, lo, hi - 1]
  ELSE IF level = 8
       THEN LiteralValues(lo, hi) \cup
            (IF Char(lo) = "(" /\ Char(hi) = ")" THEN Values[1, lo + 1, hi - 1] ELSE {})
  ELSE IF level = 7
       THEN Values[8, lo, hi] \cup
            (IF Char(lo) \in {"+", "-", "~"}
             THEN {ApplyUnary(Char(lo), v) : v \in Values[7, lo + 1, hi]} ELSE {})
  ELSE Values[level + 1, lo, hi] \cup
       UNION { {Apply(OperatorAt(level, n), a, b) :
                  a \in Values[level, lo, n - 1],
                  b \in Values[level + 1, n + OpLen(OperatorAt(level, n)), hi]} :
               n \in {m \in lo .. hi : OperatorAt(level, m) # "none"} }

WellFormed == Values[1, 1, Len(text)] # {}

(* A 0 with an octal digit behind it, at the beginning of a literal.       *)
Octal ==
  \E n \in 1 .. Len(text) - 1 :
    Char(n) = "0" /\ Digit(Char(n + 1), 8) /\ ~Digit(Char(n - 1), 16) /\ Char(n - 1) # "x"

(* The text that was consumed is an expression, and the result its value:  *)
(* precedence, grouping, signs and parentheses are those of C.             *)
ValueRight == status = "done" => Values[1, 1, p - 1] = {value}

(* No expression is refused, and none is left off in the middle; only an   *)
(* overflowing quotient keeps it from having a value.                      *)
NoneRefused ==
  WellFormed => /\ status # "failed"
                /\ status = "done" => p = Len(text) + 1

(* Every text without an octal literal is finished with.                   *)
Terminates == <>(Octal \/ status \in {"done", "failed", "crashed"})
-----------------------------------------------------------------------------
(* The comments at parse_int promise a prefix of 0 as well as 0x, so that  *)
(* every literal comes to an end.                                          *)
LiteralEnds == <>(status \in {"done", "failed", "crashed"})
=============================================================================
