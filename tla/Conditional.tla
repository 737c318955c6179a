----------------------------- MODULE Conditional ----------------------------
(***************************************************************************)
(* What a macro preprocessor promises: a line counts if and only if every  *)
(* block around it, in its file, is at present on its true side.  One line *)
(* (a whole %macro) is one step.                                           *)
(***************************************************************************)
EXTENDS Macros

VARIABLES
  files,
  reading,  (* the files being read: a name, the next line, the sides of the
               blocks around it: "on" or "off" before their %else, "then" or
               "over" (on or off) behind it, "dead" inside a line that does
               not count *)
  symbols, macros,
  emitted,  (* the lines that come out *)
  outcome   (* "running", then "done", "error" or "aborted" *)

vars == <<files, reading, symbols, macros, emitted, outcome>>

Begin(name) == [name |-> name, next |-> 1, sides |-> <<>>]

Start ==
  /\ reading = <<Begin(Main)>>
  /\ symbols = [s \in {} |-> ""]
  /\ macros = [k \in {} |-> <<>>]
  /\ emitted = <<>>
  /\ outcome = "running"

Init == files \in Files /\ Start

top == Last(reading)
source == files[top.name]
line == source[top.next]

Reading == outcome = "running" /\ top.next <= Len(source)

Counts == \A n \in DOMAIN top.sides : top.sides[n] \in {"on", "then"}

Behind(n, sides) ==
  reading' = Front(reading) \o <<[top EXCEPT !.next = n, !.sides = sides]>>

Fails(how) == outcome' = how /\ UNCHANGED <<files, reading, symbols, macros, emitted>>

EmitLine ==
  /\ Reading /\ Counts
  /\ line.op \in {"insn", "colon", "dot", "blank"}
  /\ emitted' = emitted \o (IF line.op = "insn" THEN Expansion(line, symbols, macros)
                            ELSE <<line>>)
  /\ Behind(top.next + 1, top.sides)
  /\ UNCHANGED <<files, symbols, macros, outcome>>

Define ==
  /\ Reading /\ Counts
  /\ line.op = "define"
  /\ symbols' = Defined(symbols, line)
  /\ Behind(top.next + 1, top.sides)
  /\ UNCHANGED <<files, macros, emitted, outcome>>

DefineMacro ==
  /\ Reading /\ Counts
  /\ line.op = "macro"
  /\ LET body == MacroBody(source, top.next + 1)
     IN  /\ macros' = WithMacro(macros, line, body)
         /\ Behind(top.next + Len(body) + 2, top.sides)
  /\ UNCHANGED <<files, symbols, emitted, outcome>>

Include ==
  /\ Reading /\ Counts
  /\ line.op = "include"
  /\ line.name \in DOMAIN files
  /\ Len(reading) < OpenMax
  /\ reading' = Front(reading) \o <<[top EXCEPT !.next = @ + 1], Begin(line.name)>>
  /\ UNCHANGED <<files, symbols, macros, emitted, outcome>>

OpenBlock ==
  /\ Reading /\ Counts
  /\ line.op \in Conditions
  /\ Condition(line, symbols) \in {"true", "false"}
  /\ Behind(top.next + 1, Append(top.sides,
            IF Condition(line, symbols) = "true" THEN "on" ELSE "off"))
  /\ UNCHANGED <<files, symbols, macros, emitted, outcome>>

Else ==
  /\ Reading
  /\ line.op = "else"
  /\ top.sides # <<>>
  /\ LET side == Last(top.sides)
     IN  /\ side \in {"on", "off", "dead"}
         /\ Behind(top.next + 1, Append(Front(top.sides),
              CASE side = "on" -> "over" [] side = "off" -> "then" [] side = "dead" -> "dead"))
  /\ UNCHANGED <<files, symbols, macros, emitted, outcome>>

EndBlock ==
  /\ Reading
  /\ line.op = "endif"
  /\ top.sides # <<>>
  /\ Behind(top.next + 1, Front(top.sides))
  /\ UNCHANGED <<files, symbols, macros, emitted, outcome>>

(* A line that does not count matters only in that it may open a block.    *)
PassOver ==
  /\ Reading /\ ~Counts
  /\ line.op \notin {"else", "endif"}
  /\ Behind(top.next + 1,
            IF line.op \in Conditions THEN Append(top.sides, "dead") ELSE top.sides)
  /\ UNCHANGED <<files, symbols, macros, emitted, outcome>>

(* Blocks left open end with their file.                                   *)
EndOfFile ==
  /\ outcome = "running"
  /\ top.next > Len(source)
  /\ IF Len(reading) = 1
     THEN outcome' = "done" /\ UNCHANGED reading
     ELSE reading' = Front(reading) /\ UNCHANGED outcome
  /\ UNCHANGED <<files, symbols, macros, emitted>>

Refuse ==
  /\ Reading
  /\ \/ Counts /\ line.op \in {"endmacro", "unknown"}
     \/ Counts /\ line.op = "include" /\ (line.name \notin DOMAIN files \/ Len(reading) = OpenMax)
     \/ Counts /\ line.op \in Conditions /\ Condition(line, symbols) = "error"
     \/ line.op = "endif" /\ top.sides = <<>>
     \/ line.op = "else" /\ (top.sides = <<>> \/ Last(top.sides) \in {"then", "over"})
  /\ Fails("error")

Abort ==
  /\ Reading /\ Counts
  /\ line.op \in Conditions
  /\ Condition(line, symbols) = "aborted"
  /\ Fails("aborted")

Next ==
  \/ EmitLine \/ Define \/ DefineMacro \/ Include
  \/ OpenBlock \/ Else \/ EndBlock \/ PassOver
  \/ EndOfFile \/ Refuse \/ Abort

Spec == Init /\ [][Next]_vars
=============================================================================
