---------------------------- MODULE MCAssembler ----------------------------
(***************************************************************************)
(* Small instances of Assembler: every script of a few lines over one of   *)
(* four alphabets of lines.  Addresses have 6 bits, halves of immediates   *)
(* 4, displacements 3 and jump targets 3, so that offsets wrap around,     *)
(* branches fall out of reach and jumps leave their region within a file   *)
(* of a few words.                                                         *)
(***************************************************************************)
EXTENDS Assembler

B == INSTANCE Bitwise

MCAndNot(x, mask) == x - B!&(x, mask)

UpTo(n, alphabet) == UNION {[1 .. m -> alphabet] : m \in 1 .. n}

(* Expressions and lines. *)
Num(n) == [ref |-> NoName, add |-> n, wf |-> TRUE]
Ref(name) == [ref |-> name, add |-> 0, wf |-> TRUE]
Plus(name, n) == [ref |-> name, add |-> n, wf |-> TRUE]
Bad == [ref |-> NoName, add |-> 0, wf |-> FALSE]

Blank == [op |-> "blank", label |-> NoName, flaw |-> "none"]
Nothing == [op |-> "none", label |-> NoName, flaw |-> "none"]
Simple(op) == [op |-> op, label |-> NoName, flaw |-> "none"]
Data(w, items) == [op |-> "data", label |-> NoName, flaw |-> "none",
                   width |-> w, items |-> items]
Space(e) == [op |-> "space", label |-> NoName, flaw |-> "none", arg |-> e]
Text(n, z) == [op |-> "text", label |-> NoName, flaw |-> "none",
               chars |-> n, zero |-> z, faults |-> 0]
Arg(op, a) == [op |-> op, label |-> NoName, flaw |-> "none", ok |-> TRUE, arg |-> a,
               bounded |-> FALSE, bound |-> 0]
Bound(op, a, b) == [Arg(op, a) EXCEPT !.bounded = TRUE, !.bound = b]
Def(name, fields) == [op |-> "struct", label |-> NoName, flaw |-> "none",
                      name |-> name, fields |-> fields, badtype |-> FALSE]
Ins(ins, e) == [op |-> "insn", label |-> NoName, flaw |-> "none", ins |-> ins,
                arg |-> e, wf |-> TRUE]
Val(name, vals) == [op |-> "insn", label |-> NoName, flaw |-> "none", ins |-> "struct",
                    arg |-> Num(0), wf |-> TRUE, name |-> name, vals |-> vals]
With(label, l) == [l EXCEPT !.label = label]

A == <<"A">>
C == <<"C">>
x == <<"", "x">>
Ax == <<"A", "x">>
Sf == <<"S", "f">>

Nop == Ins("plain", Num(0))

(* Code: delay slots, expansions and relocations between them.             *)
FlowLines ==
  { With(A, Nop), With(C, Ins("branch", Ref(A))), Ins("branch", Ref(C)),
    Ins("jump", Ref(A)), Ins("jumpreg", Num(0)), Ins("li", Num(100)),
    Ins("la", Ref(C)), Data(4, <<Num(1)>>), Arg("align", 8) }
FlowScripts == UpTo(4, FlowLines)

(* Data and directives that move the cursor. *)
LayoutLines ==
  { With(A, Data(2, <<Ref(A), Num(1)>>)), With(x, Space(Ref(Sf))),
    With(Sf, Text(3, TRUE)), Def("S", <<[name |-> <<"e">>, size |-> 2],
                                       [name |-> <<"f">>, size |-> 1]>>),
    With(x, Val("S", <<Ref(A), Ref(Ax)>>)),
    Arg("galign", 4), Arg("offset", 32), Bound("vma", 56, 60), Bound("loc", 4, 8),
    Simple("pushloc"), Simple("poploc") }
LayoutScripts == UpTo(4, LayoutLines)

(* Everything that is refused, or worse, among a few good lines.           *)
FaultLines ==
  { Blank, Nothing, With(A, Nop), Simple("unknown"), Simple("qword"), Simple("noquote"),
    [Nop EXCEPT !.label = x], [Nothing EXCEPT !.flaw = "string"],
    [Nothing EXCEPT !.flaw = "toolong"], [Nop EXCEPT !.wf = FALSE],
    Data(4, <<Num(1), Bad>>), Space(Bad), Arg("align", 6), Arg("galign", 0),
    [Arg("galign", 4) EXCEPT !.ok = FALSE], [Arg("loc", 4) EXCEPT !.ok = FALSE],
    [Arg("offset", 4) EXCEPT !.ok = FALSE],
    Arg("bloc", 4), Bound("bloc", 8, 4), [Text(2, TRUE) EXCEPT !.faults = 1],
    [Def("", <<>>) EXCEPT !.badtype = TRUE], Def("S", <<>>), Val("S", <<Num(1)>>),
    Ins("unknown", Num(0)), Ins("nojump", Num(0)), Ins("dmove", Num(0)), Ins("branch", Ref(C)),
    [Ins("branch", Ref(A)) EXCEPT !.wf = FALSE], Ins("b", Ref(A)),
    [Ins("la", Ref(A)) EXCEPT !.wf = FALSE], Ins("li", Ref(A)), Simple("poploc") }
(* What follows a branch or jump: structures of one word and of two, one   *)
(* of whose values does not parse, another expansion, data.                *)
SlotLines ==
  { Def("S", <<[name |-> <<"f">>, size |-> 4]>>),
    Def("T", <<[name |-> <<"f">>, size |-> 4], [name |-> <<"g">>, size |-> 4]>>),
    Ins("jumpreg", Num(0)), Val("S", <<Num(1)>>), Val("T", <<Num(1), Ref(LOC)>>),
    Val("T", <<Num(1), Bad>>), Ins("li", Num(100)), Nop }
SlotScripts == UpTo(4, SlotLines)

FaultScripts == UpTo(2, FaultLines) \cup
                [1 .. 3 -> {With(A, Nop), Ins("b", Ref(A)), Ins("la", Ref(A)), Blank}]

Switch(stopOver, stopFirst, large, past) ==
  [stopOver |-> stopOver, stopFirst |-> stopFirst, large |-> large, past |-> past]

(* No options; the one for large expansions in delay slots; -r and growth  *)
(* past the end; everything at once.                                       *)
AllScripts == FlowScripts \cup LayoutScripts \cup SlotScripts \cup FaultScripts
AllOptions == {Switch(FALSE, FALSE, TRUE, FALSE), Switch(FALSE, FALSE, FALSE, FALSE),
               Switch(TRUE, FALSE, FALSE, TRUE), Switch(TRUE, TRUE, TRUE, TRUE)}

(* Scripts for what a comment says of the pseudo instruction B.            *)
PseudoScripts == UpTo(3, {With(A, Nop), Ins("b", Ref(A)), Nop, Arg("loc", 8)})

(* Scripts for what README.md says of .galign. *)
PaddedScripts == UpTo(3, {Arg("galign", 4), Text(3, TRUE), Text(1, FALSE), Text(2, TRUE)})
PlainOptions == {Switch(FALSE, FALSE, TRUE, FALSE)}
=============================================================================
