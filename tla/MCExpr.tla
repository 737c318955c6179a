------------------------------- MODULE MCExpr -------------------------------
(***************************************************************************)
(* Texts for Expr: two operators between three literals, with signs and    *)
(* parentheses in every place, literals of all kinds, and every string of  *)
(* a few characters.                                                       *)
(***************************************************************************)
EXTENDS Expr

Binary == {<<"|">>, <<"^">>, <<"&">>, <<"<", "<">>, <<">", ">">>,
           <<"+">>, <<"-">>, <<"*">>, <<"/">>, <<"%">>}
Signs == {<<>>, <<"-">>, <<"~">>}

L == <<"(">>
R == <<")">>

Chains ==
  { s \o <<"6">> \o o \o t \o <<"3">> \o q \o <<" ", "2">> :
      s, t \in Signs, o, q \in Binary }

Groups ==
  { L \o <<"1", "3">> \o o \o <<"5">> \o R \o q \o <<"3">> : o, q \in Binary }
    \cup { <<"1", "3">> \o o \o L \o <<"5">> \o q \o <<"3">> \o R : o, q \in Binary }
    \cup { <<"-">> \o L \o <<"7">> \o o \o L \o <<"3">> \o R \o R \o <<"+", "1">> : o \in Binary }
    \cup { <<"7">> \o o \o <<"0">> : o \in Binary }

Literals ==
  { l \o t : l \in {<<"1", "2", "9">>, <<"0", "x", "1", "F">>, <<"0", "x">>, <<"0">>,
                    <<"0", "8">>, <<"4", "0", "9", "6", "9">>, <<"0", "1", "7">>},
             t \in {<<>>, <<"A">>, <<" ", ")">>, <<"&", "&", "1">>, <<"+">>, <<"x">>} }

Characters == {"0", "2", "9", "x", "A", " ", "(", ")", "-", "+", "<", "&"}

Strings == UNION {[1 .. n -> Characters] : n \in 0 .. 3}

AllTexts == Chains \cup Groups \cup Literals \cup Strings
              \cup {L \o <<"1", "<", "<", "1", "5">> \o R \o <<"/", "-", "1">>}

OctalTexts == {<<"0", "1", "0">>}
=============================================================================
