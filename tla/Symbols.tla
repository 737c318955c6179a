------------------------------ MODULE Symbols ------------------------------
(***************************************************************************)
(* Names in an assembly script and what they stand for: global and local   *)
(* labels, the two location counters and the fields of structures.         *)
(*                                                                         *)
(* A name is the sequence of its dot-separated parts, so the label A is    *)
(* <<"A">>, the local label .x as it is written is <<"", "x">>, and A.x,   *)
(* which the code composes from the two, is <<"A", "x">>.                  *)
(***************************************************************************)
EXTENDS Integers, Sequences

NoName == <<>>
LOC == <<"__LOC__">>
VMA == <<"__VMA__">>

Local(name) == Len(name) > 1 /\ name[1] = ""

(* compose_label_name: local names belong to the last global label.        *)
Compose(name, scope) ==
  IF Local(name) /\ scope # NoName THEN scope \o Tail(name) ELSE name

(* find_struct_def: structs maps the name of a structure to its layout, a  *)
(* sequence of fields [name, size].                                        *)
Offsets(fields) ==
  LET end[i \in 0 .. Len(fields)] ==
        IF i = 0 THEN 0 ELSE end[i - 1] + fields[i].size
  IN  end

TotalSize(fields) == Offsets(fields)[Len(fields)]

(* The fields of a structure that StructName.fieldname may mean; the first *)
(* one is taken.                                                           *)
FieldsNamed(name, structs) ==
  IF Len(name) > 1 /\ name[1] \in DOMAIN structs
  THEN {i \in DOMAIN structs[name[1]] : structs[name[1]][i].name = Tail(name)}
  ELSE {}

Lowest(S) == CHOOSE i \in S : \A j \in S : i <= j

FieldOffset(name, structs) ==
  Offsets(structs[name[1]])[Lowest(FieldsNamed(name, structs)) - 1]

(* find_label_value.  env holds what it reads: the location being evaluated *)
(* and its address, the scope, the labels and the structures.              *)
Known(name, env) ==
  \/ name \in {LOC, VMA}
  \/ Compose(name, env.scope) \in DOMAIN env.labels
  \/ FieldsNamed(name, env.structs) # {}

LabelValue(name, env) ==
  IF name = LOC THEN env.loc
  ELSE IF name = VMA THEN env.vma
  ELSE IF Compose(name, env.scope) \in DOMAIN env.labels
  THEN env.labels[Compose(name, env.scope)]
  ELSE FieldOffset(name, env.structs)

(* eval_expr_with_labels: an expression is a name or nothing plus a number; *)
(* wf says whether the text around the name parses.                        *)
Evaluates(e, env) == e.wf /\ (e.ref = NoName \/ Known(e.ref, env))

ExprValue(e, env) ==
  IF e.ref = NoName THEN e.add ELSE LabelValue(e.ref, env) + e.add
=============================================================================
