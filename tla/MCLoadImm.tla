----------------------------- MODULE MCLoadImm -----------------------------
(* 4-bit halves, so that every 8-bit operand is tried, with the values on  *)
(* both sides that the 32-bit mask folds back.                             *)
EXTENDS LoadImmExec

MCOperands == -300 .. 300
=============================================================================
