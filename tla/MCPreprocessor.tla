--------------------------- MODULE MCPreprocessor ---------------------------
(***************************************************************************)
(* Small scripts for Preprocessor: every main file of a few lines, with an *)
(* included file that leaves a block open.                                 *)
(***************************************************************************)
EXTENDS Preprocessor

Line(op, name, args) == [op |-> op, name |-> name, args |-> args, note |-> ""]

Plain == Line("insn", "i", <<"S">>)
Comment(mark) == [Line("insn", "", <<>>) EXCEPT !.note = mark]
Else_ == Line("else", "", <<>>)
Endif == Line("endif", "", <<>>)
Ifdef(s) == Line("ifdef", s, <<>>)

Blocks == { Plain, Line("define", "S", <<"1">>), Ifdef("S"), Line("ifndef", "S", <<>>),
            Line("if", "S", <<>>), Else_, Endif }

Others == { Plain, Line("define", "S", <<"S2">>), Line("define", "S", <<"0">>),
            Line("if", "S", <<>>), Line("if", "1", <<>>), Line("if", "", <<>>), Endif,
            Line("macro", "i", <<"%1">>), Line("endmacro", "", <<>>),
            Line("insn", "j", <<"%1", "k">>), Line("insn", "i", <<>>),
            Line("include", "b", <<>>), Line("include", "none", <<>>),
            Line("include", "main", <<>>), Line("dot", "d", <<>>), Line("blank", "", <<>>),
            Line("if", "99999999999", <<>>), Line("colon", "i", <<"S">>),
            Line("unknown", "", <<>>), Comment("else"), Comment("endif"), Comment("ifdef") }

UpTo(n, alphabet) == UNION {[1 .. m -> alphabet] : m \in 1 .. n}

(* Three lines of anything; five lines of blocks; a macro or a file in the   *)
(* middle of a block.                                                      *)
Mains ==
  UpTo(3, Others) \cup UpTo(5, Blocks)
    \cup {<<Ifdef("S")>> \o s \o <<Else_>> \o t \o <<Endif, Plain>> :
            s \in UpTo(2, Others), t \in UpTo(1, Blocks)}
    \cup {<<Line("ifndef", "S", <<>>)>> \o s \o <<Endif, Plain>> : s \in UpTo(2, Others)}
    \cup {<<Line("macro", "i", <<"%1">>), Line("insn", "j", <<"%1">>),
            Line("blank", "", <<>>), Line("endmacro", "", <<>>)>> \o s : s \in UpTo(2, Others)}
    \cup {<<Line("macro", "i", <<"%1", "%2">>), Line("insn", "j", <<"%1", "%2">>),
            Line("endmacro", "", <<>>), Line("insn", "i", <<s, t>>)>> :
            s \in {"S", "%1", "%2"}, t \in {"k", "%1"}}

Second == <<Line("define", "S", <<"1">>), Ifdef("S"), Plain>>

AllFiles == {[f \in {"main", "b"} |-> IF f = "main" THEN s ELSE Second] : s \in Mains}

HugeWords == {"99999999999"}

Words == [w \in {"0", "1"} |-> IF w = "0" THEN 0 ELSE 1]
=============================================================================
