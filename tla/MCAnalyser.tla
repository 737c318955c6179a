----------------------------- MODULE MCAnalyser -----------------------------
(***************************************************************************)
(* Small memories for Analyser: all programs with a few instructions of    *)
(* interest in them, the others being plain.                               *)
(***************************************************************************)
EXTENDS Analyser, FiniteSetsExt

Op(op, to) == [op |-> op, to |-> to]

Ops(ops, targets) == {Op(op, to) : op \in ops, to \in targets}

With(few, ops) ==
  {[a \in 1 .. ExecMax |-> IF a \in DOMAIN f THEN f[a] ELSE Op("plain", 1)] :
     f \in UNION {[S -> ops] : S \in kSubset(few, 1 .. ExecMax)}}

(* Three branches, calls or returns: flows that cross, functions between   *)
(* others, transfers in delay slots.                                       *)
FlowPrograms ==
  With(3, Ops({"ret"}, {1}) \cup Ops({"br"}, {1, 2, 4, 5}) \cup Ops({"cal"}, {4}))

(* Every kind of instruction. *)
MixedPrograms ==
  With(2, Ops({"ret", "jr", "syscall"}, {1})
             \cup Ops({"j", "br", "cal", "ccal"}, {2, ExecMax + 1}))

AllPrograms == FlowPrograms \cup MixedPrograms

AddrSet == 0 .. ExecMax + 1
=============================================================================
