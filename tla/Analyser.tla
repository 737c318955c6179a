------------------------------ MODULE Analyser ------------------------------
(***************************************************************************)
(* The control-flow analyser of r5900.c with its tables in book.c, driven  *)
(* by the commands of isy.c.  Addresses are counted in words from 1, so    *)
(* that the delay slot of the instruction at c is at c + 1.                *)
(*                                                                         *)
(* emu_anal_ctrlflow calls itself for a branch whose target is new: flows  *)
(* is the stack of its emu_status.  emu_anal_instr calls itself for the    *)
(* delay slot, whose result it drops: slots is the stack of transfers      *)
(* whose slot is being analysed.                                           *)
(*                                                                         *)
(* What the instructions compute and the bookmarks of constants and data   *)
(* are left out: emu_anal_instr does not look at them.  A name with _ is a *)
(* mistake that could be made where the definition after it stands.        *)
(***************************************************************************)
EXTENDS Frag

CONSTANTS
  ExecMax,           (* cfg_exec_addr_max, the last address executed         *)
  Entry,             (* book->entry_point                                    *)
  Programs,          (* what the memory up to there may hold                 *)
  FragMax,           (* the fragments of a function, 128                     *)
  CounterMax,        (* the instructions of a flow, 100000                   *)
  CommandMax,        (* bound: the commands typed                            *)
  FailMax            (* bound: the rows the database refuses to write        *)

Transfers == {"j", "br", "cal", "ccal", "jr", "ret"}

Target == 1 .. ExecMax + 1

Instruction == [op : Transfers \cup {"plain", "syscall"}, to : Target]

ASSUME AnalyserAssumption ==
  /\ ExecMax \in Nat \ {0}
  /\ Entry \in 1 .. ExecMax
  /\ Programs \subseteq [1 .. ExecMax -> Instruction]
  /\ FragMax \in Nat \ {0}
  /\ CounterMax \in Nat \ {0}
  /\ CommandMax \in Nat
  /\ FailMax \in Nat

VARIABLES
  code,     (* the memory, as far as it is executed                          *)
  flows,    (* the flows being followed; flows[1] is the shell's emu_status  *)
  slots,    (* the transfers waiting for their delay slot                    *)
  phase,    (* "instr", "after" an instruction, "return" of a flow, "next"   *)
            (* function, or "idle"                                           *)
  ret,      (* what emu_anal_instr or emu_anal_ctrlflow has returned         *)
  fbook,    (* book->fbook                                                   *)
  rows,     (* the table functions                                           *)
  marks,    (* the table bookmarks, by id, with the function it was made in  *)
  cmd,      (* the command being run: "all", "func" or "none"; or how the    *)
            (* shell ended: "exited", "crashed"                              *)
  commands, fails,
  lost,     (* history: the functions whose row the database has refused     *)
  visited   (* history: the addresses analysed                               *)

tables == <<fbook, rows, marks>>
shell == <<code, cmd, commands>>
failures == <<fails, lost>>
vars == <<code, flows, slots, phase, ret, fbook, rows, marks, cmd, commands,
          fails, lost, visited>>

None == -1

top == flows[Len(flows)]
func == flows[1].begin
at == slots[Len(slots)]
instr == code[at]

WithTop(flow) == [flows EXCEPT ![Len(flows)] = flow]
-----------------------------------------------------------------------------
(* The tables. *)

Named(ms, kind, loc) ==
  \E i \in 1 .. Len(ms) : ms[i].kind = kind /\ ms[i].loc = loc

Mark(kind, loc, f) == [kind |-> kind, loc |-> loc, func |-> f]

Marked(kind, loc) == Append(marks, Mark(kind, loc, func))

(* bookmark_cmt after bookmark_renf: a name taken already is refused, and  *)
(* the row keeps what it had.                                              *)
Renamed(ms, id, kind) ==
  IF Named(ms, kind, ms[id].loc) THEN ms ELSE [ms EXCEPT ![id].kind = kind]

(* A write the database refuses. *)
Refused == fails < FailMax /\ fails' = fails + 1

(* The location is the key of the functions. *)
Listed(loc) ==
  IF \E i \in 1 .. Len(rows) : rows[i].loc = loc THEN rows
  ELSE Append(rows, [loc |-> loc, end |-> -1, done |-> FALSE])

(* book_anal_func, which does not look at what the insert returns. *)
List(loc) ==
  \/ rows' = Listed(loc) /\ UNCHANGED failures
  \/ /\ Listed(loc) # rows /\ Refused
     /\ lost' = lost \cup {loc}
     /\ UNCHANGED rows

InFunction(loc) ==
  \E i \in 1 .. Len(rows) : rows[i].loc <= loc /\ rows[i].end >= loc

(* frag_reg when no slot was removed: a full book refuses. *)
Registered_OneTooMany(book, loc) ==
  IF Len(book) > FragMax THEN book ELSE Append(book, Slot(TRUE, loc, 0))

Registered(book, loc) ==
  IF Len(book) = FragMax THEN book ELSE Append(book, Slot(TRUE, loc, 0))

(* The slots frag_lget finds, and book_anal_ctrlf_upd. *)
NoteOf(loc) ==
  {k \in 1 .. Len(fbook) :
     /\ fbook[k].begin = loc
     /\ \A i \in 1 .. k - 1 : fbook[i].begin # loc}

Noted == [k \in 1 .. Len(fbook) |->
            IF k \in NoteOf(top.begin)
            THEN Slot(TRUE, fbook[k].begin, top.pc) ELSE fbook[k]]

(* Slot 0 after fragbook_defrag: the first round of its outer loop; the    *)
(* others leave it alone.                                                  *)
Merged[j \in 1 .. Len(fbook)] ==
  IF j = 1 THEN fbook ELSE MergeSlots(Merged[j - 1], 1, j)

Extent == Merged[Len(fbook)][1]
-----------------------------------------------------------------------------
(* The shell. *)

Init ==
  /\ code \in Programs
  /\ flows = <<[pc |-> Entry, begin |-> 0, end |-> 0, aend |-> 0, abm |-> None,
                left |-> 0]>>
  /\ slots = <<>>
  /\ phase = "idle"
  /\ ret = 0
  /\ fbook = <<>> /\ rows = <<>> /\ marks = <<>>
  /\ cmd = "none"
  /\ commands = 0 /\ fails = 0
  /\ lost = {} /\ visited = {}

(* emu_anal_func at loc, with the emu_status of whatever came before. *)
Begin(loc) ==
  /\ flows' = <<[flows[1] EXCEPT !.pc = loc, !.begin = loc,
                                !.left = CounterMax]>>
  /\ fbook' = Registered(<<>>, loc)
  /\ phase' = "instr"
  /\ UNCHANGED <<code, slots, ret, visited>>

Typed(command) ==
  /\ cmd = "none" /\ commands < CommandMax
  /\ commands' = commands + 1
  /\ cmd' = command

(* jump *)
Jump(loc) ==
  /\ Typed("none")
  /\ flows' = [flows EXCEPT ![1].pc = loc]
  /\ UNCHANGED <<code, slots, phase, ret, tables, failures, visited>>

(* analyze all: emu_anal from the entry point. *)
AnalyzeAll ==
  /\ Typed("all")
  /\ marks' = IF Named(marks, "entrypoint", Entry) THEN marks
              ELSE Append(marks, Mark("entrypoint", Entry, Entry))
  /\ List(Entry)
  /\ Begin(Entry)

(* analyze func: emu_anal_func at the location jumped to. *)
AnalyzeFunc ==
  LET loc == flows[1].pc IN
  /\ Typed("func")
  /\ IF Named(marks, "func", loc) THEN UNCHANGED <<marks, rows, failures>>
     ELSE marks' = Append(marks, Mark("func", loc, loc)) /\ List(loc)
  /\ Begin(loc)

(* quit, and the shell after its end. *)
Quit ==
  /\ cmd = "none" /\ cmd' = "exited"
  /\ UNCHANGED <<code, commands, flows, slots, phase, ret, tables, failures,
                 visited>>

Stopped == cmd \in {"exited", "crashed"} /\ UNCHANGED vars

(* The bookmark of the command cannot be made. *)
CommandFails ==
  /\ Refused
  /\ \/ Typed("none") /\ flows' = [flows EXCEPT ![1].pc = Entry]
     \/ Typed("exited") /\ UNCHANGED flows
  /\ UNCHANGED <<code, slots, phase, ret, tables, lost, visited>>
-----------------------------------------------------------------------------
(* emu_anal_instr. *)

InstrDone(value) == phase' = "after" /\ ret' = value

At == /\ phase = "instr"
      /\ slots # <<>> \/ top.left > 0

Beyond ==
  /\ At /\ top.pc > ExecMax
  /\ InstrDone(-3)
  /\ UNCHANGED <<shell, flows, slots, tables, failures, visited>>

Advance ==
  /\ flows' = WithTop([top EXCEPT !.pc = @ + 1])
  /\ visited' = visited \cup {top.pc}

Plain ==
  /\ At /\ top.pc <= ExecMax /\ code[top.pc].op = "plain"
  /\ Advance
  /\ InstrDone(0)
  /\ UNCHANGED <<shell, slots, tables, failures>>

Syscall ==
  /\ At /\ top.pc <= ExecMax /\ code[top.pc].op = "syscall"
  /\ Advance
  /\ \/ /\ marks' = IF Named(marks, "syscall", top.pc) THEN marks
                    ELSE Marked("syscall", top.pc)
        /\ InstrDone(0)
        /\ UNCHANGED failures
     \/ /\ Refused
        /\ InstrDone(-100)
        /\ UNCHANGED <<marks, lost>>
  /\ UNCHANGED <<shell, slots, fbook, rows>>

(* A transfer: its delay slot first. *)
EnterSlot ==
  /\ At /\ top.pc <= ExecMax /\ code[top.pc].op \in Transfers
  /\ Advance
  /\ slots' = Append(slots, top.pc)
  /\ UNCHANGED <<shell, phase, ret, tables, failures>>

(* The delay slot has been analysed, with whatever result. *)
SlotDone(ops) ==
  /\ phase = "after" /\ slots # <<>>
  /\ instr.op \in ops
  /\ slots' = SubSeq(slots, 1, Len(slots) - 1)
  /\ UNCHANGED <<shell, fbook, visited>>

(* The name of the bookmark a transfer gets. *)
MarkFails ==
  /\ SlotDone({"j", "br", "cal", "ccal"})
  /\ Refused
  /\ InstrDone(-100)
  /\ UNCHANGED <<flows, rows, marks, lost>>

MarkKnown ==
  /\ SlotDone({"j", "br", "cal", "ccal"})
  /\ Named(marks, instr.op, at)
  /\ InstrDone(0)
  /\ UNCHANGED <<flows, rows, marks, failures>>

NewlyMarked(ops) ==
  /\ SlotDone(ops)
  /\ ~Named(marks, instr.op, at)

Known(kind) == Renamed(Marked(instr.op, at), Len(marks) + 1, kind)

(* J: back to itself, a loop, or what may be the function's end. *)
JumpAnalysed ==
  /\ NewlyMarked({"j"})
  /\ \/ /\ instr.to = at
        /\ marks' = Known("stuck")
        /\ UNCHANGED flows
     \/ /\ instr.to > top.begin /\ instr.to < at
        /\ marks' = Known("rpt")
        /\ UNCHANGED flows
     \/ /\ instr.to # at /\ ~(instr.to > top.begin /\ instr.to < at)
        /\ marks' = Marked("j", at)
        /\ flows' = WithTop([top EXCEPT !.abm = Len(marks) + 1,
                                      !.aend = at + 1])
  /\ InstrDone(-2)
  /\ UNCHANGED <<rows, failures>>

(* BEQ, BGEZ, BLEZ, BNE: the target is the result. *)
BranchAnalysed ==
  /\ NewlyMarked({"br"})
  /\ marks' = IF instr.to = at THEN Known("stuck") ELSE Marked("br", at)
  /\ InstrDone(instr.to)
  /\ UNCHANGED <<flows, rows, failures>>

(* BGEZAL, BLTZAL and JAL: the function called is listed, unless JAL leads *)
(* out of what can be executed, which is bookmarked too (confp_mkf).       *)
CallAnalysed ==
  /\ NewlyMarked({"cal", "ccal"})
  /\ IF instr.op = "cal" /\ instr.to > ExecMax
     THEN /\ marks' = Marked(instr.op, at) \o <<Mark("out_jump", at, func)>>
          /\ UNCHANGED <<rows, failures>>
     ELSE marks' = Marked(instr.op, at) /\ List(instr.to)
  /\ InstrDone(0)
  /\ UNCHANGED flows

(* JR of another register than ra. *)
SwitchAnalysed ==
  /\ SlotDone({"jr"})
  /\ InstrDone(0)
  /\ UNCHANGED <<flows, rows, marks, failures>>

(* JR ra: the flow ends; what was taken for the end before is a goto.      *)
ReturnAnalysed ==
  LET settles == top.end < at + 1 /\ top.abm # None /\ top.aend < at + 1 IN
  /\ SlotDone({"ret"})
  /\ flows' = WithTop(
       IF settles THEN [top EXCEPT !.end = at + 1, !.aend = 0, !.abm = None]
       ELSE [top EXCEPT !.end = Higher(@, at + 1)])
  /\ marks' = IF settles THEN Renamed(marks, top.abm, "goto") ELSE marks
  /\ InstrDone(-1)
  /\ UNCHANGED <<rows, failures>>
-----------------------------------------------------------------------------
(* emu_anal_ctrlflow. *)

FlowReturns(value) == phase' = "return" /\ ret' = value

(* The counter that is to stop a dead loop. *)
FlowKilled ==
  /\ phase = "instr" /\ slots = <<>> /\ top.left <= 0
  /\ FlowReturns(-2)
  /\ UNCHANGED <<shell, flows, slots, tables, failures, visited>>

InstrOver == phase = "after" /\ slots = <<>>

(* frag_lget finds no fragment for the flow. *)
Crash ==
  /\ InstrOver /\ NoteOf(top.begin) = {}
  /\ cmd' = "crashed"
  /\ phase' = "idle"
  /\ UNCHANGED <<code, commands, flows, slots, ret, tables, failures, visited>>

(* book_anal_ctrlf_upd, which precedes the look at the result. *)
Update ==
  /\ InstrOver /\ NoteOf(top.begin) # {}
  /\ UNCHANGED <<shell, slots, rows, marks, failures, visited>>

Ended == [top EXCEPT !.end = top.pc]

(* The result looked at before the update. *)
FlowEnds_First ==
  /\ Update
  /\ ret \in {-1, -2, -3, -100}
  /\ flows' = WithTop(Ended)
  /\ FlowReturns(IF ret = -100 THEN -1 ELSE 0)
  /\ UNCHANGED fbook

FlowEnds ==
  /\ Update
  /\ ret \in {-1, -2, -3, -100}
  /\ fbook' = Noted
  /\ flows' = WithTop(Ended)
  /\ FlowReturns(IF ret = -100 THEN -1 ELSE 0)

Covered(loc) == InFunction(loc) \/ Query(Noted, loc, loc)

FlowGoesOn ==
  /\ Update
  /\ ret = 0 \/ (ret > 0 /\ Covered(ret))
  /\ fbook' = Noted
  /\ flows' = WithTop(IF ret = 0 THEN [Ended EXCEPT !.left = @ - 1] ELSE Ended)
  /\ phase' = "instr" /\ ret' = 0

(* The flow that waits is not updated. *)
FlowSuspended_First ==
  /\ Update
  /\ ret > 0 /\ ~Covered(ret)
  /\ fbook' = Registered(fbook, ret)
  /\ flows' = Append(WithTop(Ended),
                [Ended EXCEPT !.abm = None, !.begin = ret, !.pc = ret,
                              !.left = CounterMax])
  /\ phase' = "instr" /\ ret' = 0

FlowSuspended ==
  /\ Update
  /\ ret > 0 /\ ~Covered(ret)
  /\ fbook' = Registered(Noted, ret)
  /\ flows' = Append(WithTop(Ended),
                [Ended EXCEPT !.abm = None, !.begin = ret, !.pc = ret,
                              !.left = CounterMax])
  /\ phase' = "instr" /\ ret' = 0

FlowResumed ==
  /\ phase = "return" /\ Len(flows) > 1
  /\ LET below == flows[Len(flows) - 1]
         known == [below EXCEPT !.end = Higher(@, top.end)]
     IN  flows' = Append(SubSeq(flows, 1, Len(flows) - 2),
                    IF ret = 0 THEN [known EXCEPT !.left = @ - 1] ELSE known)
  /\ phase' = IF ret = 0 THEN "instr" ELSE "return"
  /\ UNCHANGED <<shell, slots, ret, tables, failures, visited>>

(* book_anal_func_cnf *)
Confirmed_All(begin, end) ==
  [i \in 1 .. Len(rows) |-> [rows[i] EXCEPT !.end = end, !.done = TRUE]]

Confirmed_WhenWhole(begin, end) ==
  [i \in 1 .. Len(rows) |->
     IF rows[i].loc = begin /\ ret = 0
     THEN [rows[i] EXCEPT !.end = end, !.done = TRUE] ELSE rows[i]]

Confirmed(begin, end) ==
  [i \in 1 .. Len(rows) |->
     IF rows[i].loc = begin
     THEN [rows[i] EXCEPT !.end = end, !.done = TRUE] ELSE rows[i]]

(* book_anal_ctrlf_cnf, whose update the database may refuse, and the end  *)
(* of emu_anal_func; nobody looks at either's result.                      *)
FunctionConfirmed ==
  /\ phase = "return" /\ Len(flows) = 1
  /\ \/ rows' = Confirmed(Extent.begin, Extent.end) /\ UNCHANGED fails
     \/ UNCHANGED rows /\ Refused
  /\ fbook' = <<>>
  /\ ret' = 0
  /\ IF cmd = "all" THEN phase' = "next" /\ UNCHANGED cmd
     ELSE phase' = "idle" /\ cmd' = "none"
  /\ UNCHANGED <<code, commands, flows, slots, marks, lost, visited>>

(* emu_anal's loop: the first row whose type is 0. *)
NextFunction ==
  /\ phase = "next"
  /\ \E i \in 1 .. Len(rows) :
       /\ ~rows[i].done /\ \A k \in 1 .. i - 1 : rows[k].done
       /\ Begin(rows[i].loc)
  /\ UNCHANGED <<cmd, commands, rows, marks, failures>>

AllAnalysed ==
  /\ phase = "next"
  /\ \A i \in 1 .. Len(rows) : rows[i].done
  /\ phase' = "idle" /\ cmd' = "none"
  /\ UNCHANGED <<code, commands, flows, slots, ret, tables, failures, visited>>

Analyse ==
  \/ Beyond \/ Plain \/ Syscall \/ EnterSlot
  \/ MarkFails \/ MarkKnown
  \/ JumpAnalysed \/ BranchAnalysed \/ CallAnalysed
  \/ SwitchAnalysed \/ ReturnAnalysed
  \/ FlowKilled \/ Crash
  \/ FlowEnds \/ FlowGoesOn \/ FlowSuspended \/ FlowResumed
  \/ FunctionConfirmed \/ NextFunction \/ AllAnalysed

Next ==
  \/ \E loc \in 1 .. ExecMax : Jump(loc)
  \/ AnalyzeAll \/ AnalyzeFunc \/ CommandFails \/ Quit \/ Stopped
  \/ Analyse

Spec == Init /\ [][Next]_vars

(* A command that has been typed is run; nobody need type another. *)
FairSpec == Spec /\ WF_vars(Analyse)
-----------------------------------------------------------------------------
Flow == [pc : Target, begin : {0} \cup Target, end : {0} \cup Target,
         aend : {0} \cup Target, abm : Nat \cup {None}, left : 0 .. CounterMax]

Kinds == {"entrypoint", "func", "syscall", "j", "br", "cal", "ccal", "stuck",
          "rpt", "goto", "out_jump"}

Note == [live : {TRUE}, begin : Target, end : {0} \cup Target]

Row == [loc : Target, end : {-1} \cup Target, done : BOOLEAN]

Bookmark == [kind : Kinds, loc : Target, func : Target]

TypeOK ==
  /\ code \in [1 .. ExecMax -> Instruction]
  /\ flows \in Seq(Flow) /\ flows # <<>>
  /\ slots \in Seq(1 .. ExecMax)
  /\ phase \in {"instr", "after", "return", "next", "idle"}
  /\ ret \in {-100, -3, -2, -1, 0} \cup Target
  /\ fbook \in Seq(Note) /\ Len(fbook) <= FragMax
  /\ rows \in Seq(Row)
  /\ marks \in Seq(Bookmark)
  /\ cmd \in {"all", "func", "none", "exited", "crashed"}
  /\ commands \in 0 .. CommandMax /\ fails \in 0 .. FailMax
  /\ lost \subseteq Target /\ visited \subseteq 1 .. ExecMax

(* While a function is analysed, every flow on the stack has one fragment  *)
(* of its own, which frag_lget finds by its beginning and which, for the   *)
(* flows that wait, ends where they will go on; only the newest may have   *)
(* come to a full book.                                                    *)
FlowsNoted ==
  phase \in {"instr", "after"} /\ cmd # "crashed" =>
    /\ \A i, k \in 1 .. Len(flows) : flows[i].begin = flows[k].begin => i = k
    /\ \A j, k \in 1 .. Len(fbook) : fbook[j].begin = fbook[k].begin => j = k
    /\ \A i \in 1 .. Len(flows) :
         \/ i = Len(flows) /\ Len(fbook) = FragMax
         \/ \E k \in 1 .. Len(fbook) :
              /\ fbook[k].begin = flows[i].begin
              /\ i < Len(flows) => fbook[k].end = flows[i].pc

(* When no function is left to be analysed, every function that is called  *)
(* has been begun, also one that was confirmed in another's place; but one *)
(* whose row the database has refused, without anyone noticing, may have   *)
(* none to this day.                                                       *)
CalledAnalysed ==
  cmd = "none" /\ (\A k \in 1 .. Len(rows) : rows[k].done) =>
    \A i \in 1 .. Len(marks) :
      marks[i].kind \in {"cal", "ccal"} /\ code[marks[i].loc].to <= ExecMax =>
        LET loc == code[marks[i].loc].to IN
        \/ loc \in visited
        \/ loc \in lost /\ \A k \in 1 .. Len(rows) : rows[k].loc # loc

(* The extent a function is confirmed with holds all of its first flow.    *)
ExtentHoldsFlow ==
  [][\A i \in 1 .. Len(rows) :
       ~rows[i].done /\ rows'[i].done /\ rows[i].loc = flows[1].begin =>
         rows'[i].end >= flows[1].pc]_vars

(* An analysis ends, also one that lists functions while it runs, confirms *)
(* another row than the one it was begun for, or comes back to its code.   *)
AnalysisEnds == []<>(phase = "idle")
=============================================================================
