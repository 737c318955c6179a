--------------------------- MODULE AnalyserProofs ---------------------------
(***************************************************************************)
(* The flows, the notes and the tables of the analyser stay in step, for   *)
(* every program, every size of the note book and every limit.             *)
(***************************************************************************)
EXTENDS Analyser, SequenceLemmas

(* Slot 0 while the notes are put together. *)
NoteSlot == [live : BOOLEAN, begin : Target, end : {0} \cup Target]

IsMerged(f, n) ==
  f = [j \in 1 .. n |-> IF j = 1 THEN fbook ELSE MergeSlots(f[j - 1], 1, j)]

LEMMA MergedStep ==
  ASSUME NEW f, NEW n \in Nat, IsMerged(f, n), NEW j \in 1 .. n
  PROVE  f[j] = IF j = 1 THEN fbook ELSE MergeSlots(f[j - 1], 1, j)
<1> DEFINE e(i) == IF i = 1 THEN fbook ELSE MergeSlots(f[i - 1], 1, i)
<1>1. f = [i \in 1 .. n |-> e(i)]
  BY DEF IsMerged
<1> HIDE DEF e
<1>2. f[j] = e(j)
  BY <1>1
<1>3. QED
  BY <1>2 DEF e

LEMMA MergedExists == \A n \in Nat : \E f : IsMerged(f, n)
<1> DEFINE S == {n \in Nat : \E f : IsMerged(f, n)}
<1>1. 0 \in S
  <2>1. IsMerged([j \in 1 .. 0 |-> <<>>], 0)
    BY DEF IsMerged
  <2>2. QED
    BY <2>1
<1>2. ASSUME NEW n \in Nat, n \in S
      PROVE  n + 1 \in S
  <2>1. PICK f : IsMerged(f, n)
    BY <1>2
  <2> DEFINE g == [j \in 1 .. n + 1 |->
                     IF j <= n THEN f[j]
                     ELSE IF j = 1 THEN fbook ELSE MergeSlots(f[j - 1], 1, j)]
  <2>2. \A j \in 1 .. n : f[j] = IF j = 1 THEN fbook ELSE MergeSlots(f[j - 1], 1, j)
    BY <2>1, MergedStep
  <2>3. \A j \in 1 .. n + 1 : g[j] = IF j = 1 THEN fbook ELSE MergeSlots(g[j - 1], 1, j)
    <3> TAKE j \in 1 .. n + 1
    <3>1. CASE j = 1
      BY <2>2, <3>1
    <3>2. CASE j # 1
      <4>1. j - 1 \in 1 .. n /\ g[j - 1] = f[j - 1]
        BY <3>2
      <4>2. g[j] = MergeSlots(f[j - 1], 1, j)
        <5>1. CASE j <= n
          <6>1. j \in 1 .. n /\ g[j] = f[j]
            BY <5>1
          <6>2. QED
            BY Zenon, <2>2, <3>2, <6>1
        <5>2. CASE ~ (j <= n)
          BY Zenon, <3>2, <5>2
        <5>3. QED
          BY <5>1, <5>2
      <4>3. QED
        BY <3>2, <4>1, <4>2
    <3>3. QED
      BY <3>1, <3>2
  <2>4. IsMerged(g, n + 1)
    BY Zenon, <2>3 DEF IsMerged
  <2>5. QED
    BY <2>4
<1>3. QED
  BY <1>1, <1>2, Induction

LEMMA MergedIs ==
  ASSUME Len(fbook) \in Nat, NEW j \in 1 .. Len(fbook)
  PROVE  Merged[j] = IF j = 1 THEN fbook ELSE MergeSlots(Merged[j - 1], 1, j)
<1>1. Merged = CHOOSE f : IsMerged(f, Len(fbook))
  BY Zenon DEF Merged, IsMerged
<1>2. IsMerged(Merged, Len(fbook))
  BY <1>1, MergedExists
<1>3. QED
  BY <1>2, MergedStep

(* One note merged into slot 0. *)
LEMMA OneMerged ==
  ASSUME NEW f \in Seq(NoteSlot), NEW j \in 1 .. Len(f), j # 1
  PROVE  LET g == MergeSlots(f, 1, j)
         IN  /\ g \in Seq(NoteSlot) /\ Len(g) = Len(f)
             /\ \A k \in j + 1 .. Len(f) : g[k] = f[k]
             /\ \/ g[1] = f[1]
                \/ /\ g[1].begin \in {f[1].begin, f[j].begin}
                   /\ g[1].end >= f[1].end
<1> DEFINE a == f[1]
           b == f[j]
           g == [f EXCEPT ![1] = Hull(a, b), ![j] = Dead(b)]
<1>1. Len(f) \in Nat /\ a \in NoteSlot /\ b \in NoteSlot /\ 1 \in 1 .. Len(f)
  BY LenProperties, ElementOfSeq
<1>2. ExecMax \in Nat
  BY AnalyserAssumption
<1> HIDE DEF a, b
<1>3. /\ Hull(a, b) \in NoteSlot /\ Dead(b) \in NoteSlot
      /\ Hull(a, b).begin \in {a.begin, b.begin}
      /\ Hull(a, b).end >= a.end
  BY <1>1, <1>2 DEF NoteSlot, Target, Hull, Dead, Slot, Lower, Higher
<1> DEFINE s == Hull(a, b)
           t == Dead(b)
<1> HIDE DEF s, t
<1>4. /\ [f EXCEPT ![1] = s, ![j] = t] \in Seq(NoteSlot)
      /\ Len([f EXCEPT ![1] = s, ![j] = t]) = Len(f)
      /\ \A k \in 1 .. Len(f) :
           [f EXCEPT ![1] = s, ![j] = t][k] = IF k = j THEN t ELSE IF k = 1 THEN s ELSE f[k]
  BY <1>1, <1>3 DEF s, t
<1>5. CASE f[j].live /\ Overlap(f[1], f[j])
  <2>1. MergeSlots(f, 1, j) = [f EXCEPT ![1] = s, ![j] = t]
    BY <1>5 DEF MergeSlots, s, t, a, b
  <2> DEFINE h == [f EXCEPT ![1] = s, ![j] = t]
  <2> HIDE DEF h
  <2>2. h[1] = s /\ \A k \in j + 1 .. Len(f) : h[k] = f[k]
    BY <1>1, <1>4 DEF h
  <2>3. QED
    BY <1>3, <1>4, <2>1, <2>2 DEF h, s, a, b
<1>6. CASE ~ (f[j].live /\ Overlap(f[1], f[j]))
  BY <1>6 DEF MergeSlots
<1>7. QED
  BY <1>5, <1>6

(* The extent of a function begins where one of its flows does and reaches *)
(* at least as far as its first flow.                                      *)
LEMMA ExtentFacts ==
  ASSUME fbook \in Seq(Note), Len(fbook) > 0
  PROVE  /\ \E k \in 1 .. Len(fbook) : Extent.begin = fbook[k].begin
         /\ Extent.end >= fbook[1].end
         /\ Extent \in NoteSlot
<1> DEFINE n == Len(fbook)
           Begins(b) == \E k \in 1 .. n : b = fbook[k].begin
           J == {j \in Nat : j \in 1 .. n =>
                   /\ Merged[j] \in Seq(NoteSlot) /\ Len(Merged[j]) = n
                   /\ \A k \in j + 1 .. n : Merged[j][k] = fbook[k]
                   /\ Begins(Merged[j][1].begin)
                   /\ Merged[j][1].end >= fbook[1].end}
<1>1. n \in Nat \ {0} /\ n \in 1 .. n
  BY LenProperties
<1>2. fbook \in Seq(NoteSlot)
  <2>1. Note \subseteq NoteSlot
    BY DEF Note, NoteSlot
  <2>2. QED
    BY <2>1
<1>3. \A k \in 1 .. n : fbook[k] \in NoteSlot
  BY <1>2, ElementOfSeq
<1>4. ExecMax \in Nat
  BY AnalyserAssumption
<1>5. 0 \in J
  OBVIOUS
<1>6. ASSUME NEW j \in Nat, j \in J
      PROVE  j + 1 \in J
  <2> SUFFICES ASSUME j + 1 \in 1 .. n
               PROVE  /\ Merged[j + 1] \in Seq(NoteSlot) /\ Len(Merged[j + 1]) = n
                      /\ \A k \in j + 1 + 1 .. n : Merged[j + 1][k] = fbook[k]
                      /\ Begins(Merged[j + 1][1].begin)
                      /\ Merged[j + 1][1].end >= fbook[1].end
    OBVIOUS
  <2>1. Merged[j + 1] = IF j + 1 = 1 THEN fbook ELSE MergeSlots(Merged[j + 1 - 1], 1, j + 1)
    BY <1>1, MergedIs
  <2>2. CASE j = 0
    <3>1. Merged[j + 1] = fbook
      BY <2>1, <2>2
    <3>2. fbook[1].end >= fbook[1].end
      BY <1>1, <1>3, <1>4 DEF NoteSlot, Target
    <3>3. QED
      BY <1>1, <1>2, <3>1, <3>2
  <2>3. CASE j # 0
    <3> DEFINE f == Merged[j]
               g == MergeSlots(f, 1, j + 1)
    <3>1. Merged[j + 1] = g
      <4>1. j + 1 # 1 /\ j + 1 - 1 = j
        BY <2>3
      <4>2. QED
        BY <2>1, <4>1
    <3>2. /\ f \in Seq(NoteSlot) /\ Len(f) = n
          /\ \A k \in j + 1 .. n : f[k] = fbook[k]
          /\ Begins(f[1].begin)
          /\ f[1].end >= fbook[1].end
      BY <1>6, <2>3
    <3> HIDE DEF f
    <3>3. /\ g \in Seq(NoteSlot) /\ Len(g) = n
          /\ \A k \in j + 1 + 1 .. n : g[k] = f[k]
          /\ \/ g[1] = f[1]
             \/ /\ g[1].begin \in {f[1].begin, f[j + 1].begin}
                /\ g[1].end >= f[1].end
      BY <2>3, <3>2, OneMerged
    <3> HIDE DEF g
    <3>4. \A k \in j + 1 + 1 .. n : g[k] = fbook[k]
      BY <1>1, <3>2, <3>3
    <3>5. Begins(g[1].begin)
      <4>1. f[j + 1] = fbook[j + 1]
        BY <1>1, <3>2
      <4>2. Begins(f[j + 1].begin)
        BY <1>1, <4>1
      <4>3. QED
        BY <3>2, <3>3, <4>2
    <3>6. g[1].end >= fbook[1].end
      <4>1. f[1] \in NoteSlot /\ g[1] \in NoteSlot /\ fbook[1] \in NoteSlot
        BY <1>1, <1>3, <3>2, <3>3, ElementOfSeq
      <4>2. f[1].end \in Int /\ g[1].end \in Int /\ fbook[1].end \in Int
        BY <1>4, <4>1 DEF NoteSlot, Target
      <4>3. QED
        BY <3>2, <3>3, <4>2
    <3>7. QED
      BY <3>1, <3>3, <3>4, <3>5, <3>6
  <2>4. QED
    BY <2>2, <2>3
<1>7. Nat \subseteq J
  <2> HIDE DEF J
  <2>1. QED
    BY <1>5, <1>6, Induction
<1>8. /\ Merged[n] \in Seq(NoteSlot) /\ Len(Merged[n]) = n
      /\ Begins(Merged[n][1].begin)
      /\ Merged[n][1].end >= fbook[1].end
  BY <1>1, <1>7
<1>9. Merged[n][1] \in NoteSlot
  BY <1>1, <1>8, ElementOfSeq
<1>10. QED
  BY <1>8, <1>9 DEF Extent
-----------------------------------------------------------------------------
(* The inductive invariant. *)
InAnalysis == phase \in {"instr", "after", "return"}

(* Neither in an instruction nor behind one. *)
Between == phase # "after" /\ slots = <<>>

(* The newest flow may not have been noted yet. *)
Fresh == phase \in {"instr", "after"} /\ top.left = CounterMax

Seen(loc) == loc <= ExecMax => loc \in visited

(* An analysis is under way, or the shell waits or has ended. *)
CommandOK ==
  /\ cmd \in {"none", "exited", "crashed"} <=> phase = "idle"
  /\ phase = "next" => cmd = "all"
  /\ phase \in {"idle", "next", "return"} => slots = <<>>

CountersOK ==
  \A i \in 1 .. Len(flows) :
    /\ flows[i].begin \in Target /\ flows[i].pc >= flows[i].begin
    /\ i < Len(flows) \/ phase = "after" \/ slots # <<>> => flows[i].left > 0

(* Every flow has one note, unless the newest came to a full book. *)
NotesOK ==
  /\ \A i, k \in 1 .. Len(flows) : flows[i].begin = flows[k].begin => i = k
  /\ \A j, k \in 1 .. Len(fbook) : fbook[j].begin = fbook[k].begin => j = k
  /\ Len(fbook) > 0 /\ fbook[1].begin = flows[1].begin
  /\ \A i \in 1 .. Len(flows) :
       \/ i = Len(flows) /\ Len(fbook) = FragMax
       \/ \E k \in 1 .. Len(fbook) : fbook[k].begin = flows[i].begin

(* A flow's note ends where the flow goes on. *)
EndsOK ==
  \A i \in 1 .. Len(flows) : \A k \in 1 .. Len(fbook) :
    fbook[k].begin = flows[i].begin =>
      fbook[k].end = flows[i].pc \/ (i = Len(flows) /\ (~Between \/ Fresh))

(* What is noted has been followed. *)
SettledOK ==
  \A k \in 1 .. Len(fbook) :
    \/ fbook[k].end >= fbook[k].begin /\ Seen(fbook[k].begin)
    \/ Fresh /\ fbook[k].begin = top.begin

TopSeen ==
  \/ Seen(top.begin)
  \/ phase = "instr" /\ slots = <<>> /\ top.pc = top.begin /\ Fresh

Following == CountersOK /\ NotesOK /\ EndsOK /\ SettledOK /\ TopSeen

RowsSeen == \A i \in 1 .. Len(rows) : rows[i].done => Seen(rows[i].loc)

(* The functions called are listed, unless their row has been refused. *)
Kept(loc, rs, ls) == loc \in ls \/ \E k \in 1 .. Len(rs) : rs[k].loc = loc

CallsIn(ms, rs, ls) ==
  \A i \in 1 .. Len(ms) :
    ms[i].kind \in {"cal", "ccal"} /\ code[ms[i].loc].to <= ExecMax =>
      Kept(code[ms[i].loc].to, rs, ls)

IInv ==
  /\ TypeOK /\ CommandOK
  /\ InAnalysis => Following
  /\ RowsSeen /\ CallsIn(marks, rows, lost)
-----------------------------------------------------------------------------
LEMMA FlowFields ==
  ASSUME NEW f \in Flow
  PROVE  /\ f.pc \in Target /\ f.begin \in {0} \cup Target /\ f.end \in {0} \cup Target
         /\ f.aend \in {0} \cup Target /\ f.abm \in Nat \cup {None} /\ f.left \in 0 .. CounterMax
         /\ f.pc \in Nat \ {0} /\ f.begin \in Nat /\ f.end \in Nat /\ f.aend \in Nat
         /\ f.left \in Nat /\ f.left <= CounterMax
  BY AnalyserAssumption DEF Flow, Target

LEMMA NoteFields ==
  ASSUME NEW s \in Note
  PROVE  /\ s.begin \in Target /\ s.end \in {0} \cup Target
         /\ s.begin \in Nat \ {0} /\ s.end \in Nat
<1>1. s.begin \in Target /\ s.end \in {0} \cup Target
  BY DEF Note
<1>2. QED
  BY <1>1, AnalyserAssumption DEF Target

LEMMA TopFacts ==
  ASSUME TypeOK
  PROVE  /\ Len(flows) \in Nat \ {0} /\ Len(flows) \in 1 .. Len(flows)
         /\ \A i \in 1 .. Len(flows) : flows[i] \in Flow
         /\ top \in Flow /\ flows[1] \in Flow
<1>1. flows \in Seq(Flow) /\ flows # <<>>
  BY DEF TypeOK
<1>2. Len(flows) \in Nat \ {0}
  BY <1>1, EmptySeq, LenProperties
<1>3. QED
  BY <1>1, <1>2, ElementOfSeq DEF top

LEMMA WriteTop ==
  ASSUME TypeOK, NEW f \in Flow
  PROVE  /\ WithTop(f) \in Seq(Flow) /\ WithTop(f) # <<>>
         /\ Len(WithTop(f)) = Len(flows)
         /\ \A i \in 1 .. Len(flows) : WithTop(f)[i] = IF i = Len(flows) THEN f ELSE flows[i]
<1>1. flows \in Seq(Flow) /\ Len(flows) \in Nat \ {0} /\ Len(flows) \in 1 .. Len(flows)
  BY TopFacts DEF TypeOK
<1> DEFINE n == Len(flows)
           g == [flows EXCEPT ![n] = f]
<1>2. n \in 1 .. Len(flows)
  BY <1>1
<1> HIDE DEF n
<1>3. /\ g \in Seq(Flow) /\ Len(g) = Len(flows)
      /\ \A i \in 1 .. Len(flows) : g[i] = IF i = n THEN f ELSE flows[i]
  BY <1>1, <1>2, ExceptSeq
<1>4. g = WithTop(f)
  BY DEF WithTop, n
<1> HIDE DEF g
<1>5. g # <<>>
  BY <1>1, <1>3, EmptySeq
<1>6. QED
  BY <1>3, <1>4, <1>5 DEF n

LEMMA SameTop ==
  ASSUME TypeOK
  PROVE  flows = WithTop(top)
<1>1. /\ WithTop(top) \in Seq(Flow) /\ Len(WithTop(top)) = Len(flows)
      /\ \A i \in 1 .. Len(flows) :
           WithTop(top)[i] = IF i = Len(flows) THEN top ELSE flows[i]
  BY TopFacts, WriteTop
<1> DEFINE g == WithTop(top)
<1> HIDE DEF g
<1>2. \A i \in 1 .. Len(flows) : flows[i] = g[i]
  BY <1>1 DEF top, g
<1>3. flows \in Seq(Flow)
  BY DEF TypeOK
<1>4. QED
  BY <1>1, <1>2, <1>3, SeqEqual DEF g

(* A step of an instruction: the newest flow goes on at most. *)
LEMMA InstrStep ==
  ASSUME IInv, InAnalysis, top.left > 0,
         NEW f \in Flow, f.begin = top.begin, f.left = top.left, f.pc >= top.pc,
         flows' = WithTop(f), fbook' = fbook, visited \subseteq visited',
         phase \in {"instr", "after"},
         phase' = "after" \/ (phase' = "instr" /\ slots' # <<>>),
         Seen(top.begin)'
  PROVE  Following'
<1> DEFINE n == Len(flows)
<1>1. /\ n \in Nat \ {0} /\ n \in 1 .. n /\ top \in Flow
      /\ \A i \in 1 .. n : flows[i] \in Flow
      /\ Len(flows') = n
      /\ \A i \in 1 .. n : flows'[i] = IF i = n THEN f ELSE flows[i]
      /\ top = flows[n]
  BY TopFacts, WriteTop DEF IInv, top
<1>2. top' = f /\ flows'[n] = f
  BY <1>1 DEF top
<1>3. Following /\ TypeOK
  BY DEF IInv
<1>4. \A i \in 1 .. n : flows'[i].begin = flows[i].begin
  BY <1>1
<1> HIDE DEF n
<1>5. CountersOK'
  <2> SUFFICES ASSUME NEW i \in 1 .. n
               PROVE  /\ flows'[i].begin \in Target /\ flows'[i].pc >= flows'[i].begin
                      /\ flows'[i].left > 0
    BY <1>1 DEF CountersOK
  <2>1. flows[i].begin \in Target /\ flows[i].pc >= flows[i].begin
    BY <1>3 DEF Following, CountersOK, n
  <2>2. CASE i = n
    <3>1. flows'[i] = f /\ top.pc >= top.begin /\ top.begin \in Target
      BY <1>1, <2>1, <2>2
    <3>2. f.pc >= f.begin
      BY <1>1, <3>1, FlowFields
    <3>3. QED
      BY <3>1, <3>2
  <2>3. CASE i # n
    <3>1. flows'[i] = flows[i] /\ i < Len(flows)
      BY <1>1, <2>3 DEF n
    <3>2. flows[i].left > 0
      BY <1>3, <3>1 DEF Following, CountersOK, n
    <3>3. QED
      BY <2>1, <3>1, <3>2
  <2>4. QED
    BY <2>2, <2>3
<1>6. NotesOK'
  <2>1. NotesOK
    BY <1>3 DEF Following
  <2>2. flows'[1].begin = flows[1].begin
    BY <1>1, <1>4
  <2>3. QED
    BY <1>1, <1>4, <2>1, <2>2 DEF NotesOK, n
<1>7. EndsOK'
  <2> SUFFICES ASSUME NEW i \in 1 .. n, NEW k \in 1 .. Len(fbook),
                      fbook[k].begin = flows'[i].begin, i # n
               PROVE  fbook[k].end = flows'[i].pc
    BY <1>1 DEF EndsOK, Between
  <2>1. flows'[i] = flows[i] /\ i # Len(flows)
    BY <1>1 DEF n
  <2>2. QED
    BY <1>3, <2>1 DEF Following, EndsOK, n
<1>8. SettledOK'
  <2> SUFFICES ASSUME NEW k \in 1 .. Len(fbook)
               PROVE  \/ fbook[k].end >= fbook[k].begin /\ Seen(fbook[k].begin)'
                      \/ Fresh' /\ fbook[k].begin = top'.begin
    BY DEF SettledOK, Seen
  <2>1. Fresh => Fresh'
    BY <1>2 DEF Fresh
  <2>2. Seen(fbook[k].begin) => Seen(fbook[k].begin)'
    BY DEF Seen
  <2>3. QED
    BY <1>2, <1>3, <2>1, <2>2 DEF Following, SettledOK
<1>9. TopSeen'
  BY <1>2 DEF TopSeen, Seen
<1>10. QED
  BY <1>5, <1>6, <1>7, <1>8, <1>9 DEF Following
-----------------------------------------------------------------------------
(* The tables. *)

(* What a step may make of the rows. *)
RowsGo(rs) ==
  /\ rs \in Seq(Row)
  /\ \A k \in 1 .. Len(rs) :
       rs[k].done => \E i \in 1 .. Len(rows) : rows[i].done /\ rows[i].loc = rs[k].loc
  /\ \A i \in 1 .. Len(rows) : \E k \in 1 .. Len(rs) : rs[k].loc = rows[i].loc

(* What it may make of the bookmarks, when the rows become rs and ls are   *)
(* those the database has refused.                                         *)
MarksGo(ms, rs, ls) ==
  /\ ms \in Seq(Bookmark)
  /\ lost \subseteq ls /\ ls \subseteq Target
  /\ \A j \in 1 .. Len(ms) :
       ms[j].kind \in {"cal", "ccal"} =>
         \/ \E i \in 1 .. Len(marks) :
              marks[i].kind \in {"cal", "ccal"} /\ marks[i].loc = ms[j].loc
         \/ code[ms[j].loc].to <= ExecMax => Kept(code[ms[j].loc].to, rs, ls)

LEMMA RowsStay ==
  ASSUME TypeOK
  PROVE  RowsGo(rows)
  BY DEF TypeOK, RowsGo

LEMMA MarksStay ==
  ASSUME TypeOK, NEW rs
  PROVE  MarksGo(marks, rs, lost)
  BY DEF TypeOK, MarksGo

LEMMA MarksWait ==
  ASSUME TypeOK, NEW rs, NEW ls, lost \subseteq ls, ls \subseteq Target
  PROVE  MarksGo(marks, rs, ls)
  BY DEF TypeOK, MarksGo

LEMMA ListedGo ==
  ASSUME TypeOK, NEW loc \in Target
  PROVE  /\ RowsGo(Listed(loc))
         /\ \E k \in 1 .. Len(Listed(loc)) : Listed(loc)[k].loc = loc
<1>1. CASE \E i \in 1 .. Len(rows) : rows[i].loc = loc
  <2>1. Listed(loc) = rows
    BY <1>1 DEF Listed
  <2>2. QED
    BY <1>1, <2>1, RowsStay
<1>2. CASE ~ \E i \in 1 .. Len(rows) : rows[i].loc = loc
  <2> DEFINE r == [loc |-> loc, end |-> -1, done |-> FALSE]
             L == Append(rows, r)
  <2>1. Listed(loc) = L
    BY Zenon, <1>2 DEF Listed
  <2>2. r \in Row /\ rows \in Seq(Row)
    BY DEF TypeOK, Row
  <2>3. r.loc = loc /\ ~r.done
    OBVIOUS
  <2> HIDE DEF r
  <2>4. /\ L \in Seq(Row) /\ Len(L) = Len(rows) + 1 /\ Len(rows) \in Nat
        /\ \A i \in 1 .. Len(rows) : L[i] = rows[i]
        /\ L[Len(rows) + 1] = r
    BY <2>2, AppendProperties, LenProperties
  <2> HIDE DEF L
  <2>5. \A k \in 1 .. Len(L) : k \in 1 .. Len(rows) \/ L[k] = r
    BY <2>4
  <2>6. RowsGo(L)
    BY <2>3, <2>4, <2>5 DEF RowsGo
  <2>7. Len(L) \in 1 .. Len(L) /\ L[Len(L)].loc = loc
    BY <2>3, <2>4
  <2>8. QED
    BY <2>1, <2>6, <2>7
<1>3. QED
  BY <1>1, <1>2

(* What book_anal_func comes to, also when the database refuses the row. *)
LEMMA ListGo ==
  ASSUME TypeOK, NEW loc \in Target, List(loc)
  PROVE  /\ RowsGo(rows') /\ lost \subseteq lost' /\ lost' \subseteq Target
         /\ Kept(loc, rows', lost')
         /\ fails' = fails \/ (fails < FailMax /\ fails' = fails + 1)
<1>1. lost \subseteq Target
  BY DEF TypeOK
<1>2. CASE rows' = Listed(loc) /\ UNCHANGED failures
  BY <1>1, <1>2, ListedGo DEF Kept, failures
<1>3. CASE Refused /\ lost' = lost \cup {loc} /\ UNCHANGED rows
  BY <1>1, <1>3, RowsStay DEF Kept, Refused
<1>4. QED
  BY Zenon, <1>2, <1>3 DEF List

LEMMA RowsKept ==
  ASSUME RowsSeen, RowsGo(rows'), visited \subseteq visited'
  PROVE  RowsSeen'
  BY DEF RowsSeen, RowsGo, Seen

LEMMA CallsKept ==
  ASSUME CallsIn(marks, rows, lost), RowsGo(rows'), MarksGo(marks', rows', lost'), code' = code
  PROVE  CallsIn(marks, rows, lost)'
<1> SUFFICES ASSUME NEW j \in 1 .. Len(marks'), marks'[j].kind \in {"cal", "ccal"},
                    code[marks'[j].loc].to <= ExecMax
             PROVE  Kept(code[marks'[j].loc].to, rows', lost')
  BY DEF CallsIn
<1>1. CASE \E i \in 1 .. Len(marks) :
             marks[i].kind \in {"cal", "ccal"} /\ marks[i].loc = marks'[j].loc
  <2>1. Kept(code[marks'[j].loc].to, rows, lost)
    BY <1>1 DEF CallsIn
  <2>2. QED
    BY <2>1 DEF RowsGo, MarksGo, Kept
<1>2. QED
  BY <1>1 DEF MarksGo

(* A bookmark that is made, unless it is of a call that is not listed. *)
LEMMA MarkedGo ==
  ASSUME TypeOK, NEW kind \in Kinds, NEW loc \in Target, NEW f \in Target, NEW rs, NEW ls,
         lost \subseteq ls, ls \subseteq Target,
         kind \in {"cal", "ccal"} /\ code[loc].to <= ExecMax => Kept(code[loc].to, rs, ls)
  PROVE  /\ MarksGo(Append(marks, Mark(kind, loc, f)), rs, ls)
         /\ Len(Append(marks, Mark(kind, loc, f))) = Len(marks) + 1
         /\ Append(marks, Mark(kind, loc, f))[Len(marks) + 1] = Mark(kind, loc, f)
         /\ \A i \in 1 .. Len(marks) : Append(marks, Mark(kind, loc, f))[i] = marks[i]
         /\ Len(marks) \in Nat
<1> DEFINE m == Mark(kind, loc, f)
           ms == Append(marks, m)
<1>1. m \in Bookmark /\ m.kind = kind /\ m.loc = loc
  BY DEF Mark, Bookmark
<1> HIDE DEF m
<1>2. /\ ms \in Seq(Bookmark) /\ Len(ms) = Len(marks) + 1 /\ Len(marks) \in Nat
      /\ \A i \in 1 .. Len(marks) : ms[i] = marks[i]
      /\ ms[Len(marks) + 1] = m
  BY <1>1, AppendProperties, LenProperties DEF TypeOK
<1> HIDE DEF ms
<1>3. \A j \in 1 .. Len(ms) : j \in 1 .. Len(marks) \/ ms[j] = m
  BY <1>2
<1>4. MarksGo(ms, rs, ls)
  <2> SUFFICES ASSUME NEW j \in 1 .. Len(ms), ms[j].kind \in {"cal", "ccal"}
               PROVE  \/ \E i \in 1 .. Len(marks) :
                           marks[i].kind \in {"cal", "ccal"} /\ marks[i].loc = ms[j].loc
                      \/ code[ms[j].loc].to <= ExecMax => Kept(code[ms[j].loc].to, rs, ls)
    BY <1>2 DEF MarksGo
  <2>1. CASE j \in 1 .. Len(marks)
    BY <1>2, <2>1
  <2>2. CASE ms[j] = m
    BY <1>1, <2>2
  <2>3. QED
    BY <1>3, <2>1, <2>2
<1>5. QED
  BY <1>2, <1>4 DEF ms, m

(* A bookmark renamed is not one of a call. *)
LEMMA RenamedGo ==
  ASSUME NEW ms, NEW rs, NEW ls, MarksGo(ms, rs, ls), NEW id, NEW kind \in Kinds \ {"cal", "ccal"}
  PROVE  MarksGo(Renamed(ms, id, kind), rs, ls)
<1>1. CASE Renamed(ms, id, kind) = ms
  BY <1>1
<1>2. CASE Renamed(ms, id, kind) # ms
  <2> DEFINE g == [ms EXCEPT ![id].kind = kind]
             b == [ms[id] EXCEPT !.kind = kind]
  <2>1. Renamed(ms, id, kind) = g
    BY Zenon, <1>2 DEF Renamed
  <2>2. ms \in Seq(Bookmark)
    BY DEF MarksGo
  <2>3. ms = [i \in 1 .. Len(ms) |-> ms[i]] /\ Len(ms) \in Nat
    BY <2>2, LenProperties
  <2>4. id \in 1 .. Len(ms)
    <3> SUFFICES ASSUME id \notin 1 .. Len(ms)
                 PROVE  g = ms
      BY <1>2, <2>1
    <3>1. QED
      BY <2>3
  <2>5. g = [ms EXCEPT ![id] = b]
    BY <2>4
  <2>6. ms[id] \in Bookmark
    BY <2>2, <2>4, ElementOfSeq
  <2>7. b \in Bookmark /\ b.kind = kind
    BY <2>6 DEF Bookmark
  <2> HIDE DEF b
  <2>8. /\ g \in Seq(Bookmark) /\ Len(g) = Len(ms)
        /\ \A j \in 1 .. Len(ms) : g[j] = IF j = id THEN b ELSE ms[j]
    BY <2>2, <2>4, <2>5, <2>7, ExceptSeq
  <2> HIDE DEF g
  <2>9. \A j \in 1 .. Len(g) : g[j].kind \in {"cal", "ccal"} => g[j] = ms[j]
    BY <2>7, <2>8
  <2>10. MarksGo(g, rs, ls)
    BY <2>8, <2>9 DEF MarksGo
  <2>11. QED
    BY <2>1, <2>10
<1>3. QED
  BY <1>1, <1>2
-----------------------------------------------------------------------------
(* The steps. *)

Results == {-100, -3, -2, -1, 0} \cup Target

LEMMA TopWritten ==
  ASSUME TypeOK, NEW f \in Flow, flows' = WithTop(f)
  PROVE  top' = f
  BY TopFacts, WriteTop DEF top

(* What the steps of emu_anal_instr have in common. *)
LEMMA InstrKeeps ==
  ASSUME IInv, phase \in {"instr", "after"}, top.left > 0,
         NEW f \in Flow, f.begin = top.begin, f.left = top.left, f.pc >= top.pc,
         flows' = WithTop(f), UNCHANGED <<shell, fbook>>,
         visited \subseteq visited', visited' \subseteq 1 .. ExecMax,
         slots' \in Seq(1 .. ExecMax),
         phase' = "after" \/ (phase' = "instr" /\ slots' # <<>>),
         ret' \in Results, fails' \in 0 .. FailMax,
         RowsGo(rows'), MarksGo(marks', rows', lost'),
         Seen(top.begin) \/ top.begin \in visited'
  PROVE  IInv'
<1>1. TypeOK /\ CommandOK /\ RowsSeen /\ CallsIn(marks, rows, lost) /\ InAnalysis
  <2>1. TypeOK /\ CommandOK /\ RowsSeen /\ CallsIn(marks, rows, lost)
    BY DEF IInv
  <2>2. QED
    BY <2>1 DEF InAnalysis
<1>2. UNCHANGED <<code, cmd, commands>>
  BY DEF shell
<1>3. TypeOK'
  <2>1. flows' \in Seq(Flow) /\ flows' # <<>>
    BY <1>1, WriteTop
  <2>2. rows' \in Seq(Row) /\ marks' \in Seq(Bookmark) /\ lost' \subseteq Target
    BY Zenon DEF RowsGo, MarksGo
  <2>3. QED
    BY <1>1, <1>2, <2>1, <2>2 DEF TypeOK, Results
<1>4. CommandOK'
  BY <1>1, <1>2 DEF CommandOK
<1>5. Following'
  <2>1. Seen(top.begin)'
    BY <1>1, TopWritten DEF Seen
  <2>2. QED
    BY <1>1, <2>1, InstrStep
<1>6. RowsSeen' /\ CallsIn(marks, rows, lost)'
  BY <1>1, <1>2, RowsKept, CallsKept
<1>7. QED
  BY <1>3, <1>4, <1>5, <1>6 DEF IInv

(* The newest flow where emu_anal_instr has something to do. *)
LEMMA AtFacts ==
  ASSUME IInv, At
  PROVE  /\ phase = "instr" /\ top.left > 0 /\ top \in Flow /\ TypeOK /\ Following
         /\ Seen(top.begin) \/ top.pc = top.begin
         /\ func \in Target /\ flows = WithTop(top) /\ slots \in Seq(1 .. ExecMax)
<1>1. phase = "instr" /\ TypeOK /\ Following
  BY DEF At, IInv, InAnalysis
<1>2. top \in Flow /\ Len(flows) \in 1 .. Len(flows) /\ 1 \in 1 .. Len(flows)
  BY <1>1, TopFacts
<1>3. top.left > 0
  BY <1>1, <1>2 DEF At, Following, CountersOK, top
<1>4. Seen(top.begin) \/ top.pc = top.begin
  BY <1>1 DEF Following, TopSeen
<1>5. func \in Target
  BY <1>1, <1>2 DEF Following, CountersOK, func
<1>6. QED
  BY <1>1, <1>2, <1>3, <1>4, <1>5, SameTop DEF TypeOK

LEMMA AfterFacts ==
  ASSUME IInv, NEW ops, SlotDone(ops)
  PROVE  /\ phase = "after" /\ top.left > 0 /\ top \in Flow /\ TypeOK /\ Following
         /\ Seen(top.begin) /\ func \in Target /\ flows = WithTop(top)
         /\ at \in 1 .. ExecMax /\ instr \in Instruction /\ instr.op \in ops
         /\ slots' \in Seq(1 .. ExecMax)
<1>1. phase = "after" /\ slots # <<>> /\ TypeOK /\ Following
  BY DEF SlotDone, IInv, InAnalysis
<1>2. top \in Flow /\ Len(flows) \in 1 .. Len(flows) /\ 1 \in 1 .. Len(flows)
  BY <1>1, TopFacts
<1>3. top.left > 0
  BY <1>1, <1>2 DEF Following, CountersOK, top
<1>4. Seen(top.begin)
  BY <1>1 DEF Following, TopSeen
<1>5. func \in Target
  BY <1>1, <1>2 DEF Following, CountersOK, func
<1>6. slots \in Seq(1 .. ExecMax) /\ Len(slots) \in Nat \ {0}
  BY <1>1, EmptySeq, LenProperties DEF TypeOK
<1>7. at \in 1 .. ExecMax /\ instr \in Instruction
  <2>1. Len(slots) \in 1 .. Len(slots)
    BY <1>6
  <2>2. at \in 1 .. ExecMax
    BY <1>6, <2>1, ElementOfSeq DEF at
  <2>3. QED
    BY <1>1, <2>2 DEF TypeOK, instr
<1>8. slots' \in Seq(1 .. ExecMax)
  <2> DEFINE n == Len(slots) - 1
  <2>1. n \in Int /\ \A i \in 1 .. n : slots[i] \in 1 .. ExecMax
    <3>1. n \in Int /\ \A i \in 1 .. n : i \in 1 .. Len(slots)
      BY <1>6
    <3>2. QED
      BY <1>6, <3>1, ElementOfSeq
  <2>2. slots' = SubSeq(slots, 1, n)
    BY DEF SlotDone
  <2> HIDE DEF n
  <2>3. QED
    BY <2>1, <2>2, SubSeqProperties
<1>9. QED
  BY <1>1, <1>2, <1>3, <1>4, <1>5, <1>7, <1>8, SameTop DEF SlotDone

LEMMA AdvanceFacts ==
  ASSUME IInv, At, top.pc <= ExecMax, Advance
  PROVE  /\ \E f \in Flow : /\ f.begin = top.begin /\ f.left = top.left /\ f.pc >= top.pc
                            /\ flows' = WithTop(f)
         /\ visited \subseteq visited' /\ visited' \subseteq 1 .. ExecMax
         /\ Seen(top.begin) \/ top.begin \in visited'
         /\ top.pc \in 1 .. ExecMax /\ top.pc \in Target
         /\ code[top.pc] \in Instruction
<1>1. top \in Flow /\ TypeOK /\ (Seen(top.begin) \/ top.pc = top.begin)
  BY AtFacts
<1>2. top.pc \in Nat \ {0} /\ ExecMax \in Nat
  BY <1>1, FlowFields, AnalyserAssumption
<1> DEFINE n == top.pc + 1
           f == [top EXCEPT !.pc = n]
<1>3. n \in Target /\ n >= top.pc /\ top.pc \in 1 .. ExecMax /\ top.pc \in Target
  BY <1>2 DEF Target
<1>4. flows' = WithTop(f) /\ visited' = visited \cup {top.pc}
  BY DEF Advance
<1> HIDE DEF n
<1>5. f \in Flow /\ f.begin = top.begin /\ f.left = top.left /\ f.pc = n
  BY <1>1, <1>3 DEF Flow
<1>6. visited' \subseteq 1 .. ExecMax /\ code[top.pc] \in Instruction
  BY <1>1, <1>3, <1>4 DEF TypeOK
<1> HIDE DEF f
<1>7. QED
  BY <1>1, <1>3, <1>4, <1>5, <1>6

LEMMA AtKeeps ==
  ASSUME IInv, At, top.pc <= ExecMax, Advance, UNCHANGED <<shell, fbook, rows, lost>>,
         slots' \in Seq(1 .. ExecMax),
         phase' = "after" \/ (phase' = "instr" /\ slots' # <<>>),
         ret' \in Results, fails' \in 0 .. FailMax, MarksGo(marks', rows, lost)
  PROVE  IInv'
<1>1. PICK f \in Flow : /\ f.begin = top.begin /\ f.left = top.left /\ f.pc >= top.pc
                        /\ flows' = WithTop(f)
  BY AdvanceFacts
<1>2. /\ visited \subseteq visited' /\ visited' \subseteq 1 .. ExecMax
      /\ Seen(top.begin) \/ top.begin \in visited'
  BY AdvanceFacts
<1>3. phase = "instr" /\ top.left > 0 /\ TypeOK
  BY AtFacts
<1>4. RowsGo(rows') /\ MarksGo(marks', rows', lost')
  BY <1>3, RowsStay
<1>5. UNCHANGED <<shell, fbook>>
  OBVIOUS
<1>6. phase \in {"instr", "after"}
  BY <1>3
<1>7. QED
  BY <1>1, <1>2, <1>3, <1>4, <1>5, <1>6, InstrKeeps

LEMMA BeyondKeeps == IInv /\ Beyond => IInv'
<1> SUFFICES ASSUME IInv, Beyond
             PROVE  IInv'
  OBVIOUS
<1>1. /\ At /\ top.pc > ExecMax /\ phase' = "after" /\ ret' = -3
      /\ UNCHANGED <<shell, flows, slots, tables, failures, visited>>
  BY DEF Beyond, InstrDone
<1>2. /\ phase = "instr" /\ top.left > 0 /\ top \in Flow /\ TypeOK
      /\ Seen(top.begin) \/ top.pc = top.begin
      /\ flows = WithTop(top) /\ slots \in Seq(1 .. ExecMax)
  BY <1>1, AtFacts
<1>3. UNCHANGED <<shell, fbook, rows, marks, flows, slots, fails, lost, visited>>
  BY <1>1 DEF tables, failures
<1>4. top.pc >= top.pc /\ Seen(top.begin)
  BY <1>1, <1>2, FlowFields, AnalyserAssumption DEF Seen
<1>5. RowsGo(rows') /\ MarksGo(marks', rows', lost')
  BY <1>2, <1>3, RowsStay, MarksStay
<1>6. fails' \in 0 .. FailMax /\ visited' \subseteq 1 .. ExecMax /\ ret' \in Results
  BY <1>1, <1>2, <1>3 DEF TypeOK, Results
<1>7. flows' = WithTop(top) /\ slots' \in Seq(1 .. ExecMax) /\ visited \subseteq visited'
  BY <1>2, <1>3
<1>8. QED
  BY <1>1, <1>2, <1>3, <1>4, <1>5, <1>6, <1>7, InstrKeeps

LEMMA PlainKeeps == IInv /\ Plain => IInv'
<1> SUFFICES ASSUME IInv, Plain
             PROVE  IInv'
  OBVIOUS
<1>1. /\ At /\ top.pc <= ExecMax /\ Advance /\ phase' = "after" /\ ret' = 0
      /\ UNCHANGED <<shell, slots, fbook, rows, marks, fails, lost>>
  BY DEF Plain, InstrDone, tables, failures
<1>2. TypeOK /\ slots' \in Seq(1 .. ExecMax)
  BY <1>1, AtFacts
<1>3. MarksGo(marks', rows, lost) /\ fails' \in 0 .. FailMax /\ ret' \in Results
  BY <1>1, <1>2, MarksStay DEF TypeOK, Results
<1>4. QED
  BY <1>1, <1>2, <1>3, AtKeeps

LEMMA SyscallKeeps == IInv /\ Syscall => IInv'
<1> SUFFICES ASSUME IInv, Syscall
             PROVE  IInv'
  OBVIOUS
<1>1. /\ At /\ top.pc <= ExecMax /\ Advance /\ phase' = "after"
      /\ UNCHANGED <<shell, slots, fbook, rows, lost>>
  BY Zenon DEF Syscall, InstrDone, failures
<1>2. TypeOK /\ slots' \in Seq(1 .. ExecMax) /\ func \in Target
  BY <1>1, AtFacts
<1>3. top.pc \in Target
  BY <1>1, AdvanceFacts
<1>4. MarksGo(Marked("syscall", top.pc), rows, lost)
  <2>1. "syscall" \in Kinds \ {"cal", "ccal"} /\ lost \subseteq Target
    BY <1>2 DEF Kinds, TypeOK
  <2>2. MarksGo(Append(marks, Mark("syscall", top.pc, func)), rows, lost)
    BY <1>2, <1>3, <2>1, MarkedGo
  <2>3. QED
    BY <2>2 DEF Marked
<1>5. /\ marks' = marks \/ marks' = Marked("syscall", top.pc)
      /\ fails' = fails \/ (fails < FailMax /\ fails' = fails + 1)
      /\ ret' \in Results
  BY Zenon DEF Syscall, InstrDone, Results, failures, Refused
<1>6. MarksGo(marks', rows, lost)
  BY <1>2, <1>4, <1>5, MarksStay
<1>7. fails' \in 0 .. FailMax
  BY <1>2, <1>5, AnalyserAssumption DEF TypeOK
<1>8. QED
  BY <1>1, <1>2, <1>5, <1>6, <1>7, AtKeeps

LEMMA EnterSlotKeeps == IInv /\ EnterSlot => IInv'
<1> SUFFICES ASSUME IInv, EnterSlot
             PROVE  IInv'
  OBVIOUS
<1>1. /\ At /\ top.pc <= ExecMax /\ Advance /\ phase' = phase /\ ret' = ret
      /\ UNCHANGED <<shell, fbook, rows, marks, fails, lost>>
      /\ slots' = Append(slots, top.pc)
  BY DEF EnterSlot, tables, failures
<1>2. TypeOK /\ slots \in Seq(1 .. ExecMax) /\ phase = "instr"
  BY <1>1, AtFacts
<1>3. top.pc \in 1 .. ExecMax
  BY <1>1, AdvanceFacts
<1> DEFINE c == top.pc
<1> HIDE DEF c
<1>4. slots' \in Seq(1 .. ExecMax) /\ slots' # <<>>
  <2>1. c \in 1 .. ExecMax /\ slots' = Append(slots, c)
    BY <1>1, <1>3 DEF c
  <2>2. slots' \in Seq(1 .. ExecMax) /\ Len(slots') = Len(slots) + 1 /\ Len(slots) \in Nat
    BY <1>2, <2>1, AppendProperties, LenProperties
  <2>3. QED
    BY <2>2, EmptySeq
<1>5. MarksGo(marks', rows, lost) /\ fails' \in 0 .. FailMax /\ ret' \in Results
  BY <1>1, <1>2, MarksStay DEF TypeOK, Results
<1>6. QED
  BY <1>1, <1>2, <1>4, <1>5, AtKeeps

LEMMA AfterKeeps ==
  ASSUME IInv, NEW ops, SlotDone(ops),
         NEW f \in Flow, f.begin = top.begin, f.left = top.left, f.pc = top.pc,
         flows' = WithTop(f), phase' = "after", ret' \in Results,
         fails' = fails \/ (fails < FailMax /\ fails' = fails + 1),
         RowsGo(rows'), MarksGo(marks', rows', lost')
  PROVE  IInv'
<1>1. /\ phase = "after" /\ top.left > 0 /\ top \in Flow /\ TypeOK /\ Seen(top.begin)
      /\ slots' \in Seq(1 .. ExecMax)
  BY AfterFacts
<1>2. UNCHANGED <<shell, fbook>> /\ visited' = visited
  BY DEF SlotDone
<1>3. f.pc >= top.pc
  BY <1>1, FlowFields
<1>4. visited \subseteq visited' /\ visited' \subseteq 1 .. ExecMax
  BY <1>1, <1>2 DEF TypeOK
<1>5. fails' \in 0 .. FailMax
  BY <1>1, AnalyserAssumption DEF TypeOK
<1>6. phase \in {"instr", "after"}
  BY <1>1
<1>7. QED
  BY <1>1, <1>2, <1>3, <1>4, <1>5, <1>6, InstrKeeps

(* What leaves the newest flow alone. *)
LEMMA AfterSame ==
  ASSUME IInv, NEW ops, SlotDone(ops), flows' = flows, phase' = "after", ret' \in Results,
         fails' = fails \/ (fails < FailMax /\ fails' = fails + 1),
         RowsGo(rows'), MarksGo(marks', rows', lost')
  PROVE  IInv'
<1>1. flows' = WithTop(top) /\ top \in Flow
  BY AfterFacts
<1>2. QED
  BY <1>1, AfterKeeps

LEMMA MarkFailsKeeps == IInv /\ MarkFails => IInv'
<1> SUFFICES ASSUME IInv, MarkFails
             PROVE  IInv'
  OBVIOUS
<1>1. /\ SlotDone({"j", "br", "cal", "ccal"}) /\ UNCHANGED <<flows, rows, marks, lost>>
      /\ fails < FailMax /\ fails' = fails + 1 /\ phase' = "after" /\ ret' \in Results
  BY DEF MarkFails, Refused, InstrDone, Results
<1>2. TypeOK
  BY DEF IInv
<1>3. RowsGo(rows') /\ MarksGo(marks', rows', lost')
  BY <1>1, <1>2, RowsStay, MarksStay
<1>4. QED
  BY <1>1, <1>3, AfterSame

LEMMA MarkKnownKeeps == IInv /\ MarkKnown => IInv'
<1> SUFFICES ASSUME IInv, MarkKnown
             PROVE  IInv'
  OBVIOUS
<1>1. /\ SlotDone({"j", "br", "cal", "ccal"}) /\ UNCHANGED <<flows, rows, marks, fails, lost>>
      /\ phase' = "after" /\ ret' \in Results
  BY DEF MarkKnown, InstrDone, Results, failures
<1>2. TypeOK
  BY DEF IInv
<1>3. RowsGo(rows') /\ MarksGo(marks', rows', lost')
  BY <1>1, <1>2, RowsStay, MarksStay
<1>4. QED
  BY <1>1, <1>3, AfterSame

LEMMA SwitchKeeps == IInv /\ SwitchAnalysed => IInv'
<1> SUFFICES ASSUME IInv, SwitchAnalysed
             PROVE  IInv'
  OBVIOUS
<1>1. /\ SlotDone({"jr"}) /\ UNCHANGED <<flows, rows, marks, fails, lost>>
      /\ phase' = "after" /\ ret' \in Results
  BY DEF SwitchAnalysed, InstrDone, Results, failures
<1>2. TypeOK
  BY DEF IInv
<1>3. RowsGo(rows') /\ MarksGo(marks', rows', lost')
  BY <1>1, <1>2, RowsStay, MarksStay
<1>4. QED
  BY <1>1, <1>3, AfterSame

(* The bookmark of a transfer that is no call. *)
LEMMA TransferMarked ==
  ASSUME IInv, NEW ops, SlotDone(ops), instr.op \in {"j", "br"},
         NEW kind \in Kinds \ {"cal", "ccal"}
  PROVE  MarksGo(Marked(instr.op, at), rows, lost) /\ MarksGo(Known(kind), rows, lost)
<1>1. TypeOK /\ func \in Target /\ at \in Target /\ lost \subseteq Target
  BY AfterFacts, AnalyserAssumption DEF Target, TypeOK
<1>2. instr.op \in Kinds /\ instr.op \notin {"cal", "ccal"}
  BY DEF Kinds
<1>3. MarksGo(Append(marks, Mark(instr.op, at, func)), rows, lost)
  BY <1>1, <1>2, MarkedGo
<1>4. MarksGo(Marked(instr.op, at), rows, lost)
  BY <1>3 DEF Marked
<1>5. MarksGo(Renamed(Marked(instr.op, at), Len(marks) + 1, kind), rows, lost)
  BY <1>4, RenamedGo
<1>6. QED
  BY <1>4, <1>5 DEF Known

LEMMA JumpAnalysedKeeps == IInv /\ JumpAnalysed => IInv'
<1> SUFFICES ASSUME IInv, JumpAnalysed
             PROVE  IInv'
  OBVIOUS
<1> DEFINE l == Len(marks) + 1
           c == at + 1
           f == [top EXCEPT !.abm = l, !.aend = c]
<1>1. /\ SlotDone({"j"}) /\ UNCHANGED <<rows, fails, lost>>
      /\ phase' = "after" /\ ret' = -2
  BY DEF JumpAnalysed, NewlyMarked, InstrDone, failures
<1>2. /\ marks' \in {Known("stuck"), Known("rpt"), Marked("j", at)}
      /\ flows' = flows \/ flows' = WithTop(f)
  BY Zenon DEF JumpAnalysed
<1>3. TypeOK /\ instr.op = "j" /\ at \in 1 .. ExecMax /\ top \in Flow
  BY <1>1, AfterFacts
<1>4. MarksGo(Known("stuck"), rows, lost) /\ MarksGo(Known("rpt"), rows, lost) /\ MarksGo(Marked("j", at), rows, lost)
  <2>1. "stuck" \in Kinds \ {"cal", "ccal"} /\ "rpt" \in Kinds \ {"cal", "ccal"}
    BY DEF Kinds
  <2>2. instr.op \in {"j", "br"}
    BY <1>3
  <2>3. MarksGo(Marked(instr.op, at), rows, lost)
    BY <1>1, <2>1, <2>2, TransferMarked
  <2>4. QED
    BY <1>1, <1>3, <2>1, <2>2, <2>3, TransferMarked
<1>5. MarksGo(marks', rows, lost)
  BY <1>2, <1>4
<1>6. RowsGo(rows') /\ MarksGo(marks', rows', lost') /\ ret' \in Results
  BY <1>1, <1>3, <1>5, RowsStay DEF Results
<1>7. l \in Nat /\ c \in Target
  BY <1>3, LenProperties, AnalyserAssumption DEF TypeOK, Target
<1> HIDE DEF l, c
<1>8. f \in Flow /\ f.begin = top.begin /\ f.left = top.left /\ f.pc = top.pc
  BY <1>3, <1>7 DEF Flow
<1> HIDE DEF f
<1>9. CASE flows' = flows
  BY <1>1, <1>6, <1>9, AfterSame
<1>10. CASE flows' = WithTop(f)
  BY <1>1, <1>6, <1>8, <1>10, AfterKeeps
<1>11. QED
  BY <1>2, <1>9, <1>10

LEMMA BranchKeeps == IInv /\ BranchAnalysed => IInv'
<1> SUFFICES ASSUME IInv, BranchAnalysed
             PROVE  IInv'
  OBVIOUS
<1>1. /\ SlotDone({"br"}) /\ UNCHANGED <<flows, rows, fails, lost>>
      /\ phase' = "after" /\ ret' = instr.to
  BY DEF BranchAnalysed, NewlyMarked, InstrDone, failures
<1>2. marks' \in {Known("stuck"), Marked("br", at)}
  BY Zenon DEF BranchAnalysed
<1>3. TypeOK /\ instr.op = "br" /\ instr \in Instruction
  BY <1>1, AfterFacts
<1>4. MarksGo(marks', rows, lost)
  <2>1. "stuck" \in Kinds \ {"cal", "ccal"}
    BY DEF Kinds
  <2>2. instr.op \in {"j", "br"}
    BY <1>3
  <2>3. MarksGo(Marked(instr.op, at), rows, lost) /\ MarksGo(Known("stuck"), rows, lost)
    BY <1>1, <2>1, <2>2, TransferMarked
  <2>4. QED
    BY <1>2, <1>3, <2>3
<1>5. ret' \in Results
  BY <1>1, <1>3 DEF Instruction, Results
<1>6. RowsGo(rows') /\ MarksGo(marks', rows', lost')
  BY <1>1, <1>3, <1>4, RowsStay
<1>7. QED
  BY <1>1, <1>5, <1>6, AfterSame

LEMMA CallKeeps == IInv /\ CallAnalysed => IInv'
<1> SUFFICES ASSUME IInv, CallAnalysed
             PROVE  IInv'
  OBVIOUS
<1>1. /\ SlotDone({"cal", "ccal"}) /\ UNCHANGED flows
      /\ phase' = "after" /\ ret' = 0
  BY DEF CallAnalysed, NewlyMarked, InstrDone
<1>2. /\ TypeOK /\ instr \in Instruction /\ instr.op \in {"cal", "ccal"}
      /\ func \in Target /\ at \in 1 .. ExecMax /\ lost \subseteq Target
  BY <1>1, AfterFacts DEF TypeOK
<1>3. instr.op \in Kinds /\ at \in Target /\ instr.to \in Target /\ instr = code[at]
  BY <1>2, AnalyserAssumption DEF Kinds, Target, Instruction, instr
<1>4. CASE instr.op = "cal" /\ instr.to > ExecMax
  <2> DEFINE ms == Append(marks, Mark(instr.op, at, func))
             o == Mark("out_jump", at, func)
  <2>1. marks' = ms \o <<o>> /\ rows' = rows /\ fails' = fails /\ lost' = lost
    BY Zenon, <1>4 DEF CallAnalysed, Marked, failures
  <2>2. ~ (code[at].to <= ExecMax)
    BY <1>3, <1>4, AnalyserAssumption DEF Target
  <2>3. /\ MarksGo(ms, rows, lost) /\ ms \in Seq(Bookmark)
    <3>1. MarksGo(ms, rows, lost)
      BY <1>2, <1>3, <2>2, MarkedGo
    <3>2. QED
      BY <3>1 DEF MarksGo
  <2>4. o \in Bookmark /\ o.kind = "out_jump"
    BY <1>2, <1>3 DEF Mark, Bookmark, Kinds
  <2> HIDE DEF ms, o
  <2>5. /\ marks' \in Seq(Bookmark) /\ Len(ms) \in Nat /\ Len(marks') = Len(ms) + 1
        /\ \A i \in 1 .. Len(ms) : marks'[i] = ms[i]
        /\ marks'[Len(ms) + 1] = o
    <3>1. marks' = Append(ms, o)
      BY <2>1, <2>3, <2>4, AppendIsConcat
    <3>2. QED
      BY <2>3, <2>4, <3>1, AppendProperties, LenProperties
  <2>6. \A j \in 1 .. Len(marks') : j \in 1 .. Len(ms) \/ marks'[j] = o
    BY <2>5
  <2>7. MarksGo(marks', rows, lost)
    BY <2>3, <2>4, <2>5, <2>6 DEF MarksGo
  <2>8. RowsGo(rows') /\ MarksGo(marks', rows', lost')
    BY <1>2, <2>1, <2>7, RowsStay
  <2>9. QED
    BY <1>1, <2>1, <2>8, AfterSame DEF Results
<1>5. CASE ~ (instr.op = "cal" /\ instr.to > ExecMax)
  <2>1. marks' = Append(marks, Mark(instr.op, at, func)) /\ List(instr.to)
    BY Zenon, <1>5 DEF CallAnalysed, Marked
  <2>2. /\ RowsGo(rows') /\ lost \subseteq lost' /\ lost' \subseteq Target
        /\ Kept(code[at].to, rows', lost')
        /\ fails' = fails \/ (fails < FailMax /\ fails' = fails + 1)
    BY <1>2, <1>3, <2>1, ListGo
  <2>3. MarksGo(marks', rows', lost')
    BY <1>2, <1>3, <2>1, <2>2, MarkedGo
  <2>4. QED
    BY <1>1, <2>2, <2>3, AfterSame DEF Results
<1>6. QED
  BY <1>4, <1>5

LEMMA ReturnKeeps == IInv /\ ReturnAnalysed => IInv'
<1> SUFFICES ASSUME IInv, ReturnAnalysed
             PROVE  IInv'
  OBVIOUS
<1> DEFINE c == at + 1
           h == Higher(top.end, c)
           f == [top EXCEPT !.end = c, !.aend = 0, !.abm = None]
           g == [top EXCEPT !.end = h]
<1>1. /\ SlotDone({"ret"}) /\ UNCHANGED <<rows, fails, lost>>
      /\ phase' = "after" /\ ret' = -1
  BY DEF ReturnAnalysed, InstrDone, failures
<1>2. /\ flows' = WithTop(f) \/ flows' = WithTop(g)
      /\ marks' = marks \/ marks' = Renamed(marks, top.abm, "goto")
  BY Zenon DEF ReturnAnalysed
<1>3. TypeOK /\ at \in 1 .. ExecMax /\ top \in Flow
  BY <1>1, AfterFacts
<1>4. MarksGo(marks, rows, lost)
  BY <1>3, MarksStay
<1>5. MarksGo(marks', rows, lost)
  BY <1>2, <1>4, RenamedGo DEF Kinds
<1>6. RowsGo(rows') /\ MarksGo(marks', rows', lost') /\ ret' \in Results
  BY <1>1, <1>3, <1>5, RowsStay DEF Results
<1>7. c \in Target /\ h \in {0} \cup Target
  BY <1>3, FlowFields, AnalyserAssumption DEF Target, Higher
<1> HIDE DEF c, h
<1>8. /\ f \in Flow /\ f.begin = top.begin /\ f.left = top.left /\ f.pc = top.pc
      /\ g \in Flow /\ g.begin = top.begin /\ g.left = top.left /\ g.pc = top.pc
  BY <1>3, <1>7 DEF Flow
<1> HIDE DEF f, g
<1>9. CASE flows' = WithTop(f)
  BY <1>1, <1>6, <1>8, <1>9, AfterKeeps
<1>10. CASE flows' = WithTop(g)
  BY <1>1, <1>6, <1>8, <1>10, AfterKeeps
<1>11. QED
  BY <1>2, <1>9, <1>10
-----------------------------------------------------------------------------
(* emu_anal_ctrlflow. *)

LEMMA FlowKilledKeeps == IInv /\ FlowKilled => IInv'
<1> SUFFICES ASSUME IInv, FlowKilled
             PROVE  IInv'
  OBVIOUS
<1>1. /\ phase = "instr" /\ slots = <<>> /\ top.left <= 0 /\ phase' = "return" /\ ret' = -2
      /\ UNCHANGED <<code, cmd, commands, flows, slots, fbook, rows, marks, fails, lost, visited>>
  BY DEF FlowKilled, FlowReturns, shell, tables, failures
<1>2. TypeOK /\ CommandOK /\ Following /\ RowsSeen /\ CallsIn(marks, rows, lost)
  BY <1>1 DEF IInv, InAnalysis
<1>3. top \in Flow /\ top' = top
  BY <1>1, <1>2, TopFacts DEF top
<1>4. ~Fresh /\ ~Fresh' /\ Between
  BY <1>1, <1>3, FlowFields, AnalyserAssumption DEF Fresh, Between
<1>5. TypeOK'
  BY <1>1, <1>2 DEF TypeOK
<1>6. CommandOK'
  BY <1>1, <1>2 DEF CommandOK
<1>7. CountersOK'
  BY <1>1, <1>2 DEF Following, CountersOK
<1>8. NotesOK'
  BY <1>1, <1>2 DEF Following, NotesOK
<1>9. EndsOK' /\ SettledOK'
  BY <1>1, <1>2, <1>4 DEF Following, EndsOK, SettledOK, Seen
<1>10. TopSeen'
  BY <1>1, <1>2, <1>3, <1>4 DEF Following, TopSeen, Seen
<1>11. RowsSeen' /\ CallsIn(marks, rows, lost)'
  BY <1>1, <1>2 DEF RowsSeen, CallsIn, Seen
<1>12. QED
  BY <1>5, <1>6, <1>7, <1>8, <1>9, <1>10, <1>11 DEF IInv, Following

(* Nothing is followed any more. *)
LEMMA IdleKeeps ==
  ASSUME IInv, TypeOK', CommandOK', phase' \notin {"instr", "after", "return"},
         RowsGo(rows'), MarksGo(marks', rows', lost'), code' = code, visited' = visited
  PROVE  IInv'
<1>1. RowsSeen /\ CallsIn(marks, rows, lost)
  BY DEF IInv
<1>2. RowsSeen' /\ CallsIn(marks, rows, lost)'
  BY <1>1, RowsKept, CallsKept
<1>3. QED
  BY <1>2 DEF IInv, InAnalysis

LEMMA CrashKeeps == IInv /\ Crash => IInv'
<1> SUFFICES ASSUME IInv, Crash
             PROVE  IInv'
  OBVIOUS
<1>1. /\ slots = <<>> /\ cmd' = "crashed" /\ phase' = "idle"
      /\ UNCHANGED <<code, commands, flows, slots, ret, fbook, rows, marks, fails, lost, visited>>
  BY DEF Crash, InstrOver, tables, failures
<1>2. TypeOK
  BY DEF IInv
<1>3. TypeOK' /\ CommandOK'
  BY <1>1, <1>2 DEF TypeOK, CommandOK
<1>4. RowsGo(rows') /\ MarksGo(marks', rows', lost')
  BY <1>1, <1>2, RowsStay, MarksStay
<1>5. QED
  BY <1>1, <1>3, <1>4, IdleKeeps

LEMMA NotedFacts ==
  ASSUME TypeOK, NotesOK
  PROVE  /\ Noted \in Seq(Note) /\ Len(Noted) = Len(fbook) /\ Len(fbook) \in Nat \ {0}
         /\ \A k \in 1 .. Len(fbook) :
              /\ Noted[k] \in Note /\ fbook[k] \in Note
              /\ Noted[k].begin = fbook[k].begin
              /\ Noted[k].end = IF fbook[k].begin = top.begin THEN top.pc ELSE fbook[k].end
<1> DEFINE n == Len(fbook)
<1>1. n \in Nat \ {0} /\ \A k \in 1 .. n : fbook[k] \in Note
  BY LenProperties, ElementOfSeq DEF TypeOK, NotesOK
<1>2. top.pc \in Target
  BY TopFacts, FlowFields
<1>3. Noted = [k \in 1 .. n |-> IF k \in NoteOf(top.begin)
                                THEN Slot(TRUE, fbook[k].begin, top.pc) ELSE fbook[k]]
  BY DEF Noted
<1>4. \A k \in 1 .. n : k \in NoteOf(top.begin) <=> fbook[k].begin = top.begin
  <2> TAKE k \in 1 .. n
  <2>1. \A i \in 1 .. k - 1 : i \in 1 .. n /\ i # k
    BY <1>1
  <2>2. \A i \in 1 .. k - 1 : fbook[i].begin # fbook[k].begin
    BY <2>1 DEF NotesOK
  <2>3. QED
    BY <2>2 DEF NoteOf
<1> DEFINE s(k) == Slot(TRUE, fbook[k].begin, top.pc)
<1>5. \A k \in 1 .. n : s(k) \in Note /\ s(k).begin = fbook[k].begin /\ s(k).end = top.pc
  BY <1>1, <1>2, NoteFields DEF Slot, Note
<1>6. \A k \in 1 .. n : Noted[k] = IF fbook[k].begin = top.begin THEN s(k) ELSE fbook[k]
  BY <1>3, <1>4
<1> HIDE DEF s
<1>7. \A k \in 1 .. n :
        /\ Noted[k] \in Note
        /\ Noted[k].begin = fbook[k].begin
        /\ Noted[k].end = IF fbook[k].begin = top.begin THEN top.pc ELSE fbook[k].end
  BY <1>1, <1>5, <1>6
<1>8. Noted = [k \in 1 .. n |-> Noted[k]]
  BY <1>3
<1>9. Noted \in Seq(Note) /\ Len(Noted) = n
  BY <1>1, <1>7, <1>8, MapSeq
<1>10. QED
  BY <1>1, <1>7, <1>9

(* After book_anal_ctrlf_upd every note is settled and ends where its flow *)
(* goes on.                                                                *)
LEMMA UpdateFacts ==
  ASSUME IInv, Update
  PROVE  /\ TypeOK /\ CommandOK /\ Following /\ RowsSeen /\ CallsIn(marks, rows, lost)
         /\ phase = "after" /\ slots = <<>> /\ top \in Flow /\ top.left > 0 /\ Seen(top.begin)
         /\ \A k \in 1 .. Len(Noted) : Noted[k].end >= Noted[k].begin /\ Seen(Noted[k].begin)
         /\ \A i \in 1 .. Len(flows) : \A k \in 1 .. Len(Noted) :
              Noted[k].begin = flows[i].begin => Noted[k].end = flows[i].pc
         /\ \A i \in 1 .. Len(flows) : \E k \in 1 .. Len(Noted) : Noted[k].begin = flows[i].begin
<1>1. phase = "after" /\ slots = <<>> /\ NoteOf(top.begin) # {}
  BY DEF Update, InstrOver
<1>2. TypeOK /\ CommandOK /\ Following /\ RowsSeen /\ CallsIn(marks, rows, lost)
  BY <1>1 DEF IInv, InAnalysis
<1>3. /\ top \in Flow /\ Len(flows) \in 1 .. Len(flows) /\ Len(flows) \in Nat
      /\ top = flows[Len(flows)] /\ \A i \in 1 .. Len(flows) : flows[i] \in Flow
  BY <1>2, TopFacts DEF top
<1>4. top.left > 0 /\ top.pc >= top.begin /\ Seen(top.begin)
  BY <1>1, <1>2, <1>3 DEF Following, CountersOK, TopSeen
<1>5. /\ Len(Noted) = Len(fbook)
      /\ \A k \in 1 .. Len(fbook) :
           /\ Noted[k].begin = fbook[k].begin
           /\ Noted[k].end = IF fbook[k].begin = top.begin THEN top.pc ELSE fbook[k].end
  BY <1>2, NotedFacts DEF Following
<1>6. \A k \in 1 .. Len(Noted) : Noted[k].end >= Noted[k].begin /\ Seen(Noted[k].begin)
  <2> TAKE k \in 1 .. Len(Noted)
  <2>1. CASE fbook[k].begin = top.begin
    BY <1>4, <1>5, <2>1
  <2>2. CASE fbook[k].begin # top.begin
    BY <1>2, <1>5, <2>2 DEF Following, SettledOK
  <2>3. QED
    BY <2>1, <2>2
<1>7. \A i \in 1 .. Len(flows) : \A k \in 1 .. Len(Noted) :
        Noted[k].begin = flows[i].begin => Noted[k].end = flows[i].pc
  <2> SUFFICES ASSUME NEW i \in 1 .. Len(flows), NEW k \in 1 .. Len(Noted),
                      Noted[k].begin = flows[i].begin
               PROVE  Noted[k].end = flows[i].pc
    OBVIOUS
  <2>1. CASE i = Len(flows)
    BY <1>3, <1>5, <2>1
  <2>2. CASE i # Len(flows)
    <3>1. flows[i].begin # top.begin
      BY <1>2, <1>3, <2>2 DEF Following, NotesOK
    <3>2. fbook[k].end = flows[i].pc
      BY <1>2, <1>5, <2>2 DEF Following, EndsOK
    <3>3. QED
      BY <1>5, <3>1, <3>2
  <2>3. QED
    BY <2>1, <2>2
<1>8. \A i \in 1 .. Len(flows) : \E k \in 1 .. Len(Noted) : Noted[k].begin = flows[i].begin
  <2> TAKE i \in 1 .. Len(flows)
  <2>1. CASE i = Len(flows)
    <3>1. \E k \in 1 .. Len(fbook) : fbook[k].begin = top.begin
      BY <1>1 DEF NoteOf
    <3>2. QED
      BY <1>3, <1>5, <2>1, <3>1
  <2>2. CASE i # Len(flows)
    BY <1>2, <1>5, <2>2 DEF Following, NotesOK
  <2>3. QED
    BY <2>1, <2>2
<1>9. QED
  BY <1>1, <1>2, <1>3, <1>4, <1>6, <1>7, <1>8

(* The flow is noted and goes on or returns. *)
LEMMA NotedKeeps ==
  ASSUME IInv, Update, fbook' = Noted,
         NEW f \in Flow, f.begin = top.begin, f.pc = top.pc, flows' = WithTop(f),
         phase' \in {"instr", "return"}, ret' \in Results
  PROVE  IInv'
<1>1. UNCHANGED <<code, cmd, commands, slots, rows, marks, fails, lost, visited>>
  BY DEF Update, shell, failures
<1>2. /\ TypeOK /\ CommandOK /\ Following /\ RowsSeen /\ CallsIn(marks, rows, lost)
      /\ phase = "after" /\ slots = <<>> /\ top \in Flow /\ top.left > 0 /\ Seen(top.begin)
  BY UpdateFacts
<1> DEFINE n == Len(flows)
           m == Len(fbook)
<1>3. /\ n \in Nat \ {0} /\ n \in 1 .. n /\ flows' \in Seq(Flow) /\ flows' # <<>>
      /\ Len(flows') = n /\ top = flows[n]
      /\ \A i \in 1 .. n : flows'[i] = IF i = n THEN f ELSE flows[i]
  BY <1>2, TopFacts, WriteTop DEF top
<1>4. top' = f
  BY <1>2, TopWritten
<1>5. \A i \in 1 .. n : flows'[i].begin = flows[i].begin /\ flows'[i].pc = flows[i].pc
  BY <1>3
<1>6. /\ Noted \in Seq(Note) /\ Len(Noted) = m /\ m \in Nat \ {0}
      /\ \A k \in 1 .. m : Noted[k].begin = fbook[k].begin
  BY <1>2, NotedFacts DEF Following
<1>7. TypeOK'
  BY <1>1, <1>2, <1>3, <1>6 DEF TypeOK, Results
<1>8. CommandOK'
  BY <1>1, <1>2 DEF CommandOK
<1>9. CountersOK'
  <2> SUFFICES ASSUME NEW i \in 1 .. n
               PROVE  /\ flows'[i].begin \in Target /\ flows'[i].pc >= flows'[i].begin
                      /\ i < n => flows'[i].left > 0
    BY <1>1, <1>2, <1>3 DEF CountersOK
  <2>1. flows[i].begin \in Target /\ flows[i].pc >= flows[i].begin /\ (i < n => flows[i].left > 0)
    BY <1>2 DEF Following, CountersOK
  <2>2. QED
    BY <1>3, <1>5, <2>1
<1>10. NotesOK'
  <2>1. NotesOK
    BY <1>2 DEF Following
  <2>2. flows'[1].begin = flows[1].begin /\ Noted[1].begin = fbook[1].begin
    BY <1>3, <1>5, <1>6
  <2>3. \A i \in 1 .. n : \E k \in 1 .. m : Noted[k].begin = flows'[i].begin
    BY <1>5, <1>6, UpdateFacts
  <2>4. \A i, k \in 1 .. Len(flows') : flows'[i].begin = flows'[k].begin => i = k
    BY <1>3, <1>5, <2>1 DEF NotesOK
  <2>5. \A j, k \in 1 .. Len(fbook') : fbook'[j].begin = fbook'[k].begin => j = k
    BY <1>6, <2>1 DEF NotesOK
  <2>6. Len(fbook') > 0 /\ fbook'[1].begin = flows'[1].begin
    BY <1>6, <2>1, <2>2 DEF NotesOK
  <2>7. \A i \in 1 .. Len(flows') : \E k \in 1 .. Len(fbook') : fbook'[k].begin = flows'[i].begin
    BY <1>3, <1>6, <2>3
  <2>8. QED
    BY Zenon, <2>4, <2>5, <2>6, <2>7 DEF NotesOK
<1>11. EndsOK'
  <2>1. \A i \in 1 .. n : \A k \in 1 .. m :
          Noted[k].begin = flows'[i].begin => Noted[k].end = flows'[i].pc
    BY <1>5, <1>6, UpdateFacts
  <2>2. QED
    BY <1>3, <1>6, <2>1 DEF EndsOK
<1>12. SettledOK'
  <2>1. \A k \in 1 .. m : Noted[k].end >= Noted[k].begin /\ Seen(Noted[k].begin)
    BY <1>6, UpdateFacts
  <2>2. QED
    BY <1>1, <1>6, <2>1 DEF SettledOK, Seen
<1>13. TopSeen'
  BY <1>1, <1>2, <1>4 DEF TopSeen, Seen
<1>14. RowsSeen' /\ CallsIn(marks, rows, lost)'
  BY <1>1, <1>2 DEF RowsSeen, CallsIn, Seen
<1>15. QED
  BY <1>7, <1>8, <1>9, <1>10, <1>11, <1>12, <1>13, <1>14 DEF IInv, Following

LEMMA EndedFacts ==
  ASSUME IInv, Update
  PROVE  /\ Ended \in Flow /\ Ended.begin = top.begin /\ Ended.pc = top.pc
         /\ Ended.left = top.left
<1> DEFINE c == top.pc
<1>1. top \in Flow /\ c \in Target
  BY UpdateFacts, FlowFields
<1>2. Ended = [top EXCEPT !.end = c]
  BY DEF Ended
<1> HIDE DEF c
<1>3. Ended \in Flow /\ Ended.begin = top.begin /\ Ended.pc = top.pc /\ Ended.left = top.left
  BY <1>1, <1>2 DEF Flow
<1>4. QED
  BY <1>3

LEMMA FlowEndsKeeps == IInv /\ FlowEnds => IInv'
<1> SUFFICES ASSUME IInv, FlowEnds
             PROVE  IInv'
  OBVIOUS
<1>1. /\ Update /\ fbook' = Noted /\ flows' = WithTop(Ended) /\ phase' = "return"
      /\ ret' \in {0, -1}
  BY Zenon DEF FlowEnds, FlowReturns
<1>2. Ended \in Flow /\ Ended.begin = top.begin /\ Ended.pc = top.pc
  BY <1>1, EndedFacts
<1>3. ret' \in Results
  BY <1>1 DEF Results
<1>4. QED
  BY <1>1, <1>2, <1>3, NotedKeeps

LEMMA FlowGoesOnKeeps == IInv /\ FlowGoesOn => IInv'
<1> SUFFICES ASSUME IInv, FlowGoesOn
             PROVE  IInv'
  OBVIOUS
<1> DEFINE l == top.left - 1
           e == Ended
           f == [e EXCEPT !.left = l]
<1>1. /\ Update /\ fbook' = Noted /\ phase' = "instr" /\ ret' = 0
  BY DEF FlowGoesOn
<1>2. e \in Flow /\ e.begin = top.begin /\ e.pc = top.pc /\ e.left = top.left
  BY <1>1, EndedFacts
<1>3. flows' = WithTop(e) \/ flows' = WithTop(f)
  BY <1>2 DEF FlowGoesOn
<1>4. l \in 0 .. CounterMax
  <2>1. top \in Flow /\ top.left > 0
    BY <1>1, UpdateFacts
  <2>2. QED
    BY <2>1, FlowFields, AnalyserAssumption
<1> HIDE DEF l, e
<1>5. f \in Flow /\ f.begin = e.begin /\ f.pc = e.pc
  BY <1>2, <1>4 DEF Flow
<1> HIDE DEF f
<1>6. CASE flows' = WithTop(e)
  BY <1>1, <1>2, <1>6, NotedKeeps DEF Results
<1>7. CASE flows' = WithTop(f)
  BY <1>1, <1>2, <1>5, <1>7, NotedKeeps DEF Results
<1>8. QED
  BY <1>3, <1>6, <1>7

(* A new flow, which is noted if there is room. *)
LEMMA FlowSuspendedKeeps == IInv /\ FlowSuspended => IInv'
<1> SUFFICES ASSUME IInv, FlowSuspended
             PROVE  IInv'
  OBVIOUS
<1> DEFINE e == Ended
           new == [e EXCEPT !.abm = None, !.begin = ret, !.pc = ret, !.left = CounterMax]
           F == WithTop(e)
           n == Len(flows)
           m == Len(fbook)
           s == Slot(TRUE, ret, 0)
           book == Registered(Noted, ret)
<1>1. /\ Update /\ ret > 0 /\ ~Covered(ret) /\ phase' = "instr" /\ ret' = 0
      /\ fbook' = book /\ flows' = Append(F, new)
  BY Zenon DEF FlowSuspended
<1>2. UNCHANGED <<code, cmd, commands, slots, rows, marks, fails, lost, visited>>
  BY <1>1 DEF Update, shell, failures
<1>3. /\ TypeOK /\ CommandOK /\ Following /\ RowsSeen /\ CallsIn(marks, rows, lost)
      /\ phase = "after" /\ slots = <<>> /\ top \in Flow /\ top.left > 0 /\ Seen(top.begin)
  BY <1>1, UpdateFacts
<1>4. ret \in Target /\ ret \in Nat
  BY <1>1, <1>3, AnalyserAssumption DEF TypeOK, Target
<1>5. e \in Flow /\ e.begin = top.begin /\ e.pc = top.pc /\ e.left = top.left
  BY <1>1, EndedFacts
<1>6. /\ n \in Nat \ {0} /\ n \in 1 .. n /\ top = flows[n]
      /\ F \in Seq(Flow) /\ Len(F) = n
      /\ \A i \in 1 .. n : F[i] = IF i = n THEN e ELSE flows[i]
  BY <1>3, <1>5, TopFacts, WriteTop DEF top
<1> HIDE DEF e
<1>7. new \in Flow /\ new.begin = ret /\ new.pc = ret /\ new.left = CounterMax
  <2> DEFINE l == CounterMax
             e1 == [e EXCEPT !.abm = None]
             e2 == [e1 EXCEPT !.begin = ret]
             e3 == [e2 EXCEPT !.pc = ret]
             e4 == [e3 EXCEPT !.left = l]
  <2>1. l \in 0 .. CounterMax /\ ret \in {0} \cup Target /\ None \in Nat \cup {None}
    BY <1>4, AnalyserAssumption
  <2>2. new = e4
    OBVIOUS
  <2> HIDE DEF l, e4
  <2>3. e1 \in Flow
    BY <1>5, <2>1 DEF Flow
  <2> HIDE DEF e1
  <2>4. e2 \in Flow /\ e2.begin = ret
    BY <2>1, <2>3 DEF Flow
  <2> HIDE DEF e2
  <2>5. e3 \in Flow /\ e3.begin = ret /\ e3.pc = ret
    BY <1>4, <2>4 DEF Flow
  <2> HIDE DEF e3
  <2>6. e4 \in Flow /\ e4.begin = ret /\ e4.pc = ret /\ e4.left = l
    BY <2>1, <2>5 DEF Flow, e4
  <2>7. QED
    BY <2>2, <2>6 DEF l
<1> HIDE DEF F, new
<1>8. /\ flows' \in Seq(Flow) /\ Len(flows') = n + 1 /\ flows'[n + 1] = new
      /\ \A i \in 1 .. n : flows'[i] = F[i]
  BY <1>1, <1>6, <1>7, AppendProperties
<1>9. \A i \in 1 .. n : flows'[i].begin = flows[i].begin /\ flows'[i].pc = flows[i].pc
                        /\ flows'[i].left = flows[i].left
  BY <1>5, <1>6, <1>8
<1>10. top' = new
  BY <1>8 DEF top
<1>11. /\ Noted \in Seq(Note) /\ Len(Noted) = m /\ m \in Nat \ {0}
       /\ \A k \in 1 .. m : /\ Noted[k].begin = fbook[k].begin /\ Noted[k] \in Note
                            /\ Noted[k].begin \in Nat /\ Noted[k].end \in Nat /\ Noted[k].live
  <2>1. /\ Noted \in Seq(Note) /\ Len(Noted) = m /\ m \in Nat \ {0}
        /\ \A k \in 1 .. m : Noted[k].begin = fbook[k].begin /\ Noted[k] \in Note
    BY <1>3, NotedFacts DEF Following
  <2>2. \A k \in 1 .. m : Noted[k].begin \in Nat /\ Noted[k].end \in Nat
    BY <2>1, NoteFields
  <2>3. \A k \in 1 .. m : Noted[k].live = TRUE
    BY <2>1 DEF Note
  <2>4. QED
    BY <2>1, <2>2, <2>3
<1>12. /\ \A k \in 1 .. m : Noted[k].end >= Noted[k].begin /\ Seen(Noted[k].begin)
       /\ \A i \in 1 .. n : \A k \in 1 .. m :
            Noted[k].begin = flows[i].begin => Noted[k].end = flows[i].pc
       /\ \A i \in 1 .. n : \E k \in 1 .. m : Noted[k].begin = flows[i].begin
  BY <1>1, <1>11, UpdateFacts
<1>13. \A k \in 1 .. m : Noted[k].begin # ret
  <2> SUFFICES ASSUME NEW k \in 1 .. m, Noted[k].begin = ret
               PROVE  FALSE
    OBVIOUS
  <2>1. Noted[k].live /\ ret >= Noted[k].begin /\ ret <= Noted[k].end
    BY <1>4, <1>11, <1>12
  <2>2. Query(Noted, ret, ret)
    BY <1>11, <2>1 DEF Query, Include, Slot
  <2>3. QED
    BY <1>1, <2>2 DEF Covered
<1>14. \A i \in 1 .. n : flows[i].begin # ret
  BY <1>12, <1>13
<1>15. s \in Note /\ s.begin = ret
  BY <1>4 DEF Slot, Note
<1>16. m <= FragMax /\ FragMax \in Nat
  BY <1>3, AnalyserAssumption DEF TypeOK
<1> HIDE DEF n, m, s, book
<1>17. /\ book \in Seq(Note) /\ Len(book) <= FragMax /\ Len(book) \in Nat
       /\ Len(book) >= m /\ \A k \in 1 .. m : book[k] = Noted[k]
       /\ \/ Len(book) = m /\ m = FragMax
          \/ Len(book) = m + 1 /\ book[m + 1] = s
  <2>1. CASE m = FragMax
    <3>1. book = Noted
      BY <1>11, <2>1 DEF book, Registered
    <3>2. QED
      BY <1>11, <1>16, <2>1, <3>1
  <2>2. CASE m # FragMax
    <3>1. book = Append(Noted, s)
      BY <1>11, <2>2 DEF book, Registered, s
    <3>2. /\ book \in Seq(Note) /\ Len(book) = m + 1 /\ book[m + 1] = s
          /\ \A k \in 1 .. m : book[k] = Noted[k]
      BY <1>11, <1>15, <3>1, AppendProperties
    <3>3. QED
      BY <1>11, <1>16, <2>2, <3>2
  <2>3. QED
    BY <2>1, <2>2
<1>18. \A k \in 1 .. Len(book) : k \in 1 .. m \/ (k = m + 1 /\ book[k] = s)
  BY <1>11, <1>17
<1>19. \A i \in 1 .. n + 1 : i \in 1 .. n \/ i = n + 1
  BY <1>6
<1>20. TypeOK'
  <2>1. flows' # <<>>
    BY <1>6, <1>8, EmptySeq
  <2>2. QED
    BY <1>1, <1>2, <1>3, <1>8, <1>17, <2>1 DEF TypeOK
<1>21. CommandOK'
  BY <1>1, <1>2, <1>3 DEF CommandOK
<1>22. CountersOK'
  <2> SUFFICES ASSUME NEW i \in 1 .. n + 1
               PROVE  /\ flows'[i].begin \in Target /\ flows'[i].pc >= flows'[i].begin
                      /\ i < n + 1 => flows'[i].left > 0
    BY <1>1, <1>2, <1>3, <1>8 DEF CountersOK
  <2>1. CASE i \in 1 .. n
    <3>1. flows[i].begin \in Target /\ flows[i].pc >= flows[i].begin /\ flows[i].left > 0
      BY <1>3, <2>1 DEF Following, CountersOK, n
    <3>2. QED
      BY <1>9, <2>1, <3>1
  <2>2. CASE i = n + 1
    BY <1>4, <1>6, <1>7, <1>8, <2>2
  <2>3. QED
    BY <1>19, <2>1, <2>2
<1>23. NotesOK'
  <2>1. \A i, k \in 1 .. Len(flows') : flows'[i].begin = flows'[k].begin => i = k
    <3>1. \A i, k \in 1 .. n : flows[i].begin = flows[k].begin => i = k
      BY <1>3 DEF Following, NotesOK, n
    <3>2. QED
      BY <1>6, <1>7, <1>8, <1>9, <1>14, <1>19, <3>1
  <2>2. \A j, k \in 1 .. Len(book) : book[j].begin = book[k].begin => j = k
    <3>1. \A j, k \in 1 .. m : fbook[j].begin = fbook[k].begin => j = k
      BY <1>3 DEF Following, NotesOK, m
    <3>2. \A j, k \in 1 .. m : book[j].begin = book[k].begin => j = k
      BY <1>11, <1>17, <3>1
    <3>3. \A j \in 1 .. m : book[j].begin # s.begin
      BY <1>13, <1>15, <1>17
    <3>4. QED
      BY <1>18, <3>2, <3>3
  <2>3. Len(book) > 0 /\ book[1].begin = flows'[1].begin
    <3>1. fbook[1].begin = flows[1].begin
      BY <1>3 DEF Following, NotesOK
    <3>2. QED
      BY <1>6, <1>9, <1>11, <1>17, <3>1
  <2>4. \A i \in 1 .. Len(flows') :
          \/ i = Len(flows') /\ Len(book) = FragMax
          \/ \E k \in 1 .. Len(book) : book[k].begin = flows'[i].begin
    <3> SUFFICES ASSUME NEW i \in 1 .. n + 1
                 PROVE  \/ i = Len(flows') /\ Len(book) = FragMax
                        \/ \E k \in 1 .. Len(book) : book[k].begin = flows'[i].begin
      BY <1>8
    <3>1. CASE i \in 1 .. n
      <4>1. PICK k \in 1 .. m : Noted[k].begin = flows[i].begin
        BY <1>12, <3>1
      <4>2. k \in 1 .. Len(book) /\ book[k].begin = flows'[i].begin
        BY <1>9, <1>11, <1>17, <3>1, <4>1
      <4>3. QED
        BY <4>2
    <3>2. CASE i = n + 1
      BY <1>7, <1>8, <1>11, <1>15, <1>17, <3>2
    <3>3. QED
      BY <1>19, <3>1, <3>2
  <2>5. QED
    BY Zenon, <1>1, <2>1, <2>2, <2>3, <2>4 DEF NotesOK
<1>24. Fresh' /\ Between'
  BY <1>1, <1>2, <1>3, <1>7, <1>10 DEF Fresh, Between
<1>25. EndsOK'
  <2> SUFFICES ASSUME NEW i \in 1 .. n + 1, NEW k \in 1 .. Len(book),
                      book[k].begin = flows'[i].begin, i # n + 1
               PROVE  book[k].end = flows'[i].pc
    BY <1>1, <1>8, <1>24 DEF EndsOK
  <2>1. i \in 1 .. n
    BY <1>19
  <2>2. CASE k \in 1 .. m
    BY <1>9, <1>12, <1>17, <2>1, <2>2
  <2>3. CASE book[k] = s
    BY <1>9, <1>14, <1>15, <2>1, <2>3
  <2>4. QED
    BY <1>18, <2>2, <2>3
<1>26. SettledOK'
  <2> SUFFICES ASSUME NEW k \in 1 .. Len(book)
               PROVE  \/ book[k].end >= book[k].begin /\ Seen(book[k].begin)
                      \/ book[k].begin = new.begin
    BY <1>1, <1>2, <1>10, <1>24 DEF SettledOK, Seen
  <2>1. QED
    BY <1>7, <1>12, <1>15, <1>17, <1>18
<1>27. TopSeen'
  BY <1>1, <1>2, <1>3, <1>7, <1>10, <1>24 DEF TopSeen
<1>28. RowsSeen' /\ CallsIn(marks, rows, lost)'
  BY <1>2, <1>3 DEF RowsSeen, CallsIn, Seen
<1>29. QED
  BY <1>20, <1>21, <1>22, <1>23, <1>25, <1>26, <1>27, <1>28 DEF IInv, Following

(* The flow that waited goes on, or returns too. *)
LEMMA FlowResumedKeeps == IInv /\ FlowResumed => IInv'
<1> SUFFICES ASSUME IInv, FlowResumed
             PROVE  IInv'
  OBVIOUS
<1> DEFINE n == Len(flows)
           b == flows[n - 1]
           h == Higher(b.end, top.end)
           l == b.left - 1
           c == [b EXCEPT !.end = h]
           d == [c EXCEPT !.left = l]
           F == SubSeq(flows, 1, n - 2)
<1>1. /\ phase = "return" /\ n > 1
      /\ flows' = Append(F, IF ret = 0 THEN d ELSE c)
      /\ phase' = IF ret = 0 THEN "instr" ELSE "return"
      /\ UNCHANGED <<shell, slots, ret, tables, failures, visited>>
  BY Zenon DEF FlowResumed
<1>2. UNCHANGED <<code, cmd, commands, slots, ret, fbook, rows, marks, fails, lost, visited>>
  BY <1>1 DEF shell, tables, failures
<1>3. TypeOK /\ CommandOK /\ Following /\ RowsSeen /\ CallsIn(marks, rows, lost)
  BY <1>1 DEF IInv, InAnalysis
<1>4. /\ n \in Nat \ {0} /\ n - 1 \in 1 .. n /\ n - 1 < n /\ n - 1 \in Nat \ {0}
      /\ \A i \in 1 .. n - 1 : i \in 1 .. n /\ i # n
      /\ \A i \in 1 .. n : flows[i] \in Flow
  BY <1>1, <1>3, TopFacts
<1>5. b \in Flow /\ b.left > 0
  BY <1>3, <1>4 DEF Following, CountersOK
<1>6. h \in {0} \cup Target /\ l \in 0 .. CounterMax
  <2>1. top \in Flow
    BY <1>3, TopFacts
  <2>2. b.end \in {0} \cup Target /\ top.end \in {0} \cup Target
    BY <1>5, <2>1, FlowFields
  <2>3. h \in {0} \cup Target
    BY <2>2 DEF Higher
  <2>4. b.left \in 0 .. CounterMax
    BY <1>5, FlowFields
  <2>5. QED
    BY <1>5, <2>3, <2>4, AnalyserAssumption
<1> HIDE DEF b, h, l
<1>7. c \in Flow /\ c.begin = b.begin /\ c.pc = b.pc
  BY <1>5, <1>6 DEF Flow
<1> HIDE DEF c
<1>8. d \in Flow /\ d.begin = b.begin /\ d.pc = b.pc
  BY <1>6, <1>7 DEF Flow
<1> HIDE DEF d
<1>9. PICK f \in Flow : f.begin = b.begin /\ f.pc = b.pc /\ flows' = Append(F, f)
  BY <1>1, <1>7, <1>8
<1> DEFINE k1 == n - 1
           k2 == n - 2
<1>10. F \in Seq(Flow) /\ Len(F) = k2 /\ \A i \in 1 .. k2 : F[i] = flows[i]
  <2>1. k2 \in Int /\ \A i \in 1 .. k2 : flows[i] \in Flow
    BY <1>4
  <2>2. F = SubSeq(flows, 1, k2)
    OBVIOUS
  <2>3. k2 \in Nat /\ k2 - 1 + 1 = k2 /\ (1 <= k2 \/ k2 = 0)
    <3>1. n \in Nat /\ n > 1
      BY <1>1, <1>4
    <3> HIDE DEF n
    <3>2. QED
      BY <3>1
  <2> HIDE DEF F, k2
  <2>4. /\ F \in Seq(Flow) /\ Len(F) = IF 1 <= k2 THEN k2 - 1 + 1 ELSE 0
        /\ \A i \in 1 .. k2 - 1 + 1 : F[i] = flows[1 + i - 1]
    BY <2>1, <2>2, SubSeqProperties
  <2>5. QED
    BY <2>3, <2>4
<1> HIDE DEF F
<1>11. /\ flows' \in Seq(Flow) /\ Len(flows') = k1 /\ flows'[k1] = f
       /\ \A i \in 1 .. k2 : flows'[i] = flows[i]
  <2>1. /\ Append(F, f) \in Seq(Flow) /\ Len(Append(F, f)) = Len(F) + 1
        /\ \A i \in 1 .. Len(F) : Append(F, f)[i] = F[i]
        /\ Append(F, f)[Len(F) + 1] = f
    BY <1>9, <1>10, AppendProperties
  <2>2. k2 + 1 = k1
    BY <1>4
  <2>3. QED
    BY <1>9, <1>10, <2>1, <2>2
<1>12. \A i \in 1 .. k1 : /\ i \in 1 .. n /\ i < n /\ i # n /\ (i < k1 => i \in 1 .. k2)
                          /\ i \in 1 .. k2 \/ i = k1
  BY <1>4
<1>13. \A i \in 1 .. k1 : flows'[i].begin = flows[i].begin /\ flows'[i].pc = flows[i].pc
  BY <1>9, <1>11, <1>12 DEF b
<1>14. top' = f
  BY <1>11 DEF top
<1>15. k1 \in Nat \ {0} /\ k1 < n /\ 1 \in 1 .. k1
  BY <1>4
<1> HIDE DEF k1, k2
<1>16. ~Fresh
  BY <1>1 DEF Fresh
<1>17. TypeOK'
  <2>1. flows' # <<>>
    BY <1>11, <1>15, EmptySeq
  <2>2. phase' \in {"instr", "return"}
    BY <1>1
  <2>3. QED
    BY <1>2, <1>3, <1>11, <2>1, <2>2 DEF TypeOK
<1>18. CommandOK'
  BY <1>1, <1>2, <1>3 DEF CommandOK
<1>19. slots = <<>> /\ phase' # "after"
  BY <1>1, <1>3 DEF CommandOK
<1>20. CountersOK'
  <2> SUFFICES ASSUME NEW i \in 1 .. k1
               PROVE  /\ flows'[i].begin \in Target /\ flows'[i].pc >= flows'[i].begin
                      /\ i < k1 => flows'[i].left > 0
    BY <1>2, <1>11, <1>19 DEF CountersOK
  <2>1. flows[i].begin \in Target /\ flows[i].pc >= flows[i].begin /\ flows[i].left > 0
    BY <1>3, <1>12 DEF Following, CountersOK
  <2>2. QED
    BY <1>11, <1>12, <1>13, <2>1
<1>21. \A i \in 1 .. k1 : \E k \in 1 .. Len(fbook) : fbook[k].begin = flows[i].begin
  BY <1>3, <1>12 DEF Following, NotesOK
<1>22. NotesOK'
  <2>1. NotesOK
    BY <1>3 DEF Following
  <2>2. \A i, k \in 1 .. Len(flows') : flows'[i].begin = flows'[k].begin => i = k
    BY <1>11, <1>12, <1>13, <2>1 DEF NotesOK
  <2>3. flows'[1].begin = flows[1].begin
    BY <1>13, <1>15
  <2>4. \A i \in 1 .. Len(flows') : \E k \in 1 .. Len(fbook) : fbook[k].begin = flows'[i].begin
    BY <1>11, <1>13, <1>21
  <2>5. QED
    BY <1>2, <2>1, <2>2, <2>3, <2>4 DEF NotesOK
<1>23. \A i \in 1 .. k1 : \A k \in 1 .. Len(fbook) :
         fbook[k].begin = flows[i].begin => fbook[k].end = flows[i].pc
  BY <1>3, <1>12 DEF Following, EndsOK
<1>24. EndsOK'
  BY <1>2, <1>11, <1>13, <1>23 DEF EndsOK
<1>25. \A k \in 1 .. Len(fbook) : fbook[k].end >= fbook[k].begin /\ Seen(fbook[k].begin)
  BY <1>3, <1>16 DEF Following, SettledOK
<1>26. SettledOK'
  BY <1>2, <1>25 DEF SettledOK, Seen
<1>27. TopSeen'
  <2>1. k1 \in 1 .. k1 /\ flows[k1].begin = f.begin
    BY <1>9, <1>15 DEF b, k1
  <2>2. Seen(f.begin)
    BY <1>21, <1>25, <2>1
  <2>3. QED
    BY <1>2, <1>14, <2>2 DEF TopSeen, Seen
<1>28. RowsSeen' /\ CallsIn(marks, rows, lost)'
  BY <1>2, <1>3 DEF RowsSeen, CallsIn, Seen
<1>29. QED
  BY <1>17, <1>18, <1>20, <1>22, <1>24, <1>26, <1>27, <1>28 DEF IInv, Following

(* The extent of the function whose first flow has returned. *)
LEMMA ConfirmedFacts ==
  ASSUME IInv, FunctionConfirmed
  PROVE  /\ Extent.end >= flows[1].pc /\ Extent.end \in Target
         /\ Seen(Extent.begin)
         /\ rows' = Confirmed(Extent.begin, Extent.end) \/ rows' = rows
<1>1. /\ phase = "return" /\ Len(flows) = 1
      /\ rows' = Confirmed(Extent.begin, Extent.end) \/ rows' = rows
  BY DEF FunctionConfirmed
<1>2. TypeOK /\ CommandOK /\ Following
  BY <1>1 DEF IInv, InAnalysis
<1>3. slots = <<>> /\ Between /\ ~Fresh
  BY <1>1, <1>2 DEF CommandOK, Between, Fresh
<1>4. fbook \in Seq(Note) /\ Len(fbook) > 0 /\ Len(fbook) \in Nat
      /\ fbook[1].begin = flows[1].begin
  BY <1>2, LenProperties DEF TypeOK, Following, NotesOK
<1>5. 1 \in 1 .. Len(fbook) /\ 1 \in 1 .. Len(flows)
  BY <1>1, <1>4
<1>6. fbook[1].end = flows[1].pc
  BY <1>2, <1>3, <1>4, <1>5 DEF Following, EndsOK
<1>7. /\ \E k \in 1 .. Len(fbook) : Extent.begin = fbook[k].begin
      /\ Extent.end >= flows[1].pc
      /\ Extent \in NoteSlot
  BY <1>4, <1>6, ExtentFacts
<1>8. Seen(Extent.begin)
  BY <1>2, <1>3, <1>7 DEF Following, SettledOK
<1>9. flows[1].pc \in Nat \ {0}
  BY <1>2, TopFacts, FlowFields
<1>10. Extent.end \in {0} \cup Target
  BY <1>7 DEF NoteSlot
<1>11. Extent.end \in Target
  BY <1>7, <1>9, <1>10, AnalyserAssumption DEF Target
<1>12. QED
  BY <1>1, <1>7, <1>8, <1>11

LEMMA ConfirmedRows ==
  ASSUME TypeOK, NEW begin, NEW end \in Target
  PROVE  /\ Confirmed(begin, end) \in Seq(Row) /\ Len(Confirmed(begin, end)) = Len(rows)
         /\ \A i \in 1 .. Len(rows) :
              /\ Confirmed(begin, end)[i].loc = rows[i].loc
              /\ rows[i].loc = begin => Confirmed(begin, end)[i].end = end
              /\ rows[i].loc # begin => Confirmed(begin, end)[i] = rows[i]
<1> DEFINE n == Len(rows)
           c(i) == [rows[i] EXCEPT !.end = end, !.done = TRUE]
           C == Confirmed(begin, end)
<1>1. n \in Nat /\ \A i \in 1 .. n : rows[i] \in Row
  BY LenProperties, ElementOfSeq DEF TypeOK
<1>2. C = [i \in 1 .. n |-> IF rows[i].loc = begin THEN c(i) ELSE rows[i]]
  BY DEF Confirmed
<1>3. \A i \in 1 .. n : c(i) \in Row /\ c(i).loc = rows[i].loc /\ c(i).end = end
  <2> TAKE i \in 1 .. n
  <2>1. rows[i] \in Row /\ end \in {-1} \cup Target
    BY <1>1
  <2>2. QED
    BY <2>1 DEF Row
<1> HIDE DEF c, C
<1>4. \A i \in 1 .. n : C[i] = IF rows[i].loc = begin THEN c(i) ELSE rows[i]
  BY <1>2
<1>5. \A i \in 1 .. n : C[i] \in Row
  BY <1>1, <1>3, <1>4
<1>6. C = [i \in 1 .. n |-> C[i]]
  BY <1>2
<1>7. C \in Seq(Row) /\ Len(C) = n
  BY <1>1, <1>5, <1>6, MapSeq
<1>8. QED
  BY <1>3, <1>4, <1>7 DEF C

LEMMA FunctionConfirmedKeeps == IInv /\ FunctionConfirmed => IInv'
<1> SUFFICES ASSUME IInv, FunctionConfirmed
             PROVE  IInv'
  OBVIOUS
<1> DEFINE b == Extent.begin
           e == Extent.end
<1>1. /\ phase = "return" /\ Len(flows) = 1 /\ fbook' = <<>> /\ ret' = 0
      /\ \/ cmd = "all" /\ phase' = "next" /\ cmd' = cmd
         \/ phase' = "idle" /\ cmd' = "none"
      /\ fails' = fails \/ (fails < FailMax /\ fails' = fails + 1)
      /\ UNCHANGED <<code, commands, flows, slots, marks, lost, visited>>
  BY Zenon DEF FunctionConfirmed, Refused
<1>2. e \in Target /\ Seen(b) /\ (rows' = Confirmed(b, e) \/ rows' = rows)
  BY ConfirmedFacts
<1> HIDE DEF b, e
<1>3. TypeOK /\ CommandOK /\ RowsSeen /\ CallsIn(marks, rows, lost)
  BY DEF IInv
<1>4. /\ rows' \in Seq(Row) /\ Len(rows') = Len(rows)
      /\ \A i \in 1 .. Len(rows) :
           rows'[i].loc = rows[i].loc /\ (rows[i].loc # b => rows'[i] = rows[i])
  <2>1. CASE rows' = Confirmed(b, e)
    BY <1>2, <1>3, <2>1, ConfirmedRows
  <2>2. CASE rows' = rows
    BY <1>3, <2>2 DEF TypeOK
  <2>3. QED
    BY <1>2, <2>1, <2>2
<1>5. TypeOK'
  <2>1. /\ fbook' \in Seq(Note) /\ Len(fbook') <= FragMax
        /\ fails' \in 0 .. FailMax
    BY <1>1, <1>3, AnalyserAssumption DEF TypeOK
  <2>2. QED
    BY <1>1, <1>3, <1>4, <2>1 DEF TypeOK
<1>6. CommandOK'
  BY <1>1, <1>3 DEF CommandOK
<1>7. RowsSeen'
  BY <1>1, <1>2, <1>3, <1>4 DEF RowsSeen, Seen
<1>8. CallsIn(marks, rows, lost)'
  <2> SUFFICES ASSUME NEW i \in 1 .. Len(marks), marks[i].kind \in {"cal", "ccal"},
                      code[marks[i].loc].to <= ExecMax
               PROVE  Kept(code[marks[i].loc].to, rows', lost)
    BY <1>1 DEF CallsIn
  <2>1. Kept(code[marks[i].loc].to, rows, lost)
    BY <1>3 DEF CallsIn
  <2>2. QED
    BY <1>4, <2>1 DEF Kept
<1>9. ~InAnalysis'
  BY <1>1 DEF InAnalysis
<1>10. QED
  BY <1>5, <1>6, <1>7, <1>8, <1>9 DEF IInv

(* A function is begun with one flow and its note. *)
LEMMA BegunKeeps ==
  ASSUME IInv, NEW loc \in Target, Begin(loc), slots = <<>>,
         RowsGo(rows'), MarksGo(marks', rows', lost'), cmd' \in {"all", "func"},
         commands' \in 0 .. CommandMax, fails' \in 0 .. FailMax
  PROVE  IInv'
<1>1. TypeOK /\ RowsSeen /\ CallsIn(marks, rows, lost)
  BY DEF IInv
<1> DEFINE l == CounterMax
           f == [flows[1] EXCEPT !.pc = loc, !.begin = loc, !.left = l]
           s == Slot(TRUE, loc, 0)
<1>2. /\ phase' = "instr" /\ flows' = <<f>> /\ fbook' = Registered(<<>>, loc)
      /\ UNCHANGED <<code, slots, ret, visited>>
  BY DEF Begin
<1>3. loc \in Nat \ {0} /\ l \in 0 .. CounterMax /\ FragMax \in Nat \ {0}
  BY AnalyserAssumption DEF Target
<1>4. flows[1] \in Flow
  BY <1>1, TopFacts
<1> HIDE DEF l
<1>5. f \in Flow /\ f.begin = loc /\ f.pc = loc /\ f.left = l
  <2> DEFINE f1 == [flows[1] EXCEPT !.pc = loc]
             f2 == [f1 EXCEPT !.begin = loc]
             f3 == [f2 EXCEPT !.left = l]
  <2>1. f = f3
    OBVIOUS
  <2> HIDE DEF f3
  <2>2. f1 \in Flow /\ f1.pc = loc
    BY <1>4 DEF Flow
  <2> HIDE DEF f1
  <2>3. f2 \in Flow /\ f2.pc = loc /\ f2.begin = loc
    BY <2>2 DEF Flow
  <2> HIDE DEF f2
  <2>4. f3 \in Flow /\ f3.begin = loc /\ f3.pc = loc /\ f3.left = l
    BY <1>3, <2>3 DEF Flow, f3
  <2>5. QED
    BY <2>1, <2>4
<1>6. s \in Note /\ s.begin = loc
  BY DEF Slot, Note
<1>7. fbook' = <<s>>
  <2>1. Len(<<>>) # FragMax
    BY <1>3
  <2>2. Registered(<<>>, loc) = Append(<<>>, s)
    BY Zenon, <2>1 DEF Registered
  <2> HIDE DEF s
  <2>3. QED
    BY <1>2, <2>2
<1> HIDE DEF f, s
<1>8. /\ flows' \in Seq(Flow) /\ flows' # <<>> /\ Len(flows') = 1 /\ flows'[1] = f
      /\ fbook' \in Seq(Note) /\ Len(fbook') = 1 /\ fbook'[1] = s
  <2>1. flows' \in Seq(Flow) /\ Len(flows') = 1 /\ flows'[1] = f
    BY <1>2, <1>5
  <2>2. fbook' \in Seq(Note) /\ Len(fbook') = 1 /\ fbook'[1] = s
    BY <1>6, <1>7
  <2>3. <<f>> # <<>>
    OBVIOUS
  <2>4. QED
    BY Zenon, <1>2, <2>1, <2>2, <2>3
<1>9. top' = f
  BY <1>8 DEF top
<1>10. 1 .. 1 = {1}
  OBVIOUS
<1>11. Fresh' /\ slots' = <<>>
  BY <1>2, <1>5, <1>9 DEF Fresh, l
<1>12. TypeOK'
  <2>1. rows' \in Seq(Row) /\ marks' \in Seq(Bookmark) /\ lost' \subseteq Target
    BY Zenon DEF RowsGo, MarksGo
  <2>2. QED
    <3>1. Len(fbook') <= FragMax
      BY <1>3, <1>8
    <3>2. /\ code' \in [1 .. ExecMax -> Instruction] /\ slots' \in Seq(1 .. ExecMax)
          /\ ret' \in Results /\ visited' \subseteq 1 .. ExecMax
      BY <1>1, <1>2 DEF TypeOK, Results
    <3>3. phase' \in {"instr", "after", "return", "next", "idle"}
          /\ cmd' \in {"all", "func", "none", "exited", "crashed"}
      BY <1>2
    <3>4. QED
      BY <1>8, <2>1, <3>1, <3>2, <3>3 DEF TypeOK, Results
<1>13. CommandOK'
  BY <1>2, <1>11 DEF CommandOK
<1>14. CountersOK'
  <2>1. loc >= loc /\ ~(1 < 1)
    BY <1>3
  <2>2. QED
    BY <1>2, <1>5, <1>8, <1>10, <1>11, <2>1 DEF CountersOK
<1>15. NotesOK'
  <2>1. Len(fbook') > 0 /\ fbook'[1].begin = flows'[1].begin
    BY <1>5, <1>6, <1>8
  <2>2. QED
    BY <1>8, <1>10, <2>1 DEF NotesOK
<1>16. EndsOK'
  BY <1>8, <1>10, <1>11 DEF EndsOK
<1>17. SettledOK'
  BY <1>5, <1>6, <1>8, <1>9, <1>10, <1>11 DEF SettledOK
<1>18. TopSeen'
  BY <1>2, <1>5, <1>9, <1>11 DEF TopSeen
<1>19. RowsSeen' /\ CallsIn(marks, rows, lost)'
  BY <1>1, <1>2, RowsKept, CallsKept
<1>20. QED
  BY <1>12, <1>13, <1>14, <1>15, <1>16, <1>17, <1>18, <1>19 DEF IInv, Following

LEMMA NextFunctionKeeps == IInv /\ NextFunction => IInv'
<1> SUFFICES ASSUME IInv, NextFunction
             PROVE  IInv'
  OBVIOUS
<1>1. phase = "next" /\ UNCHANGED <<cmd, commands, rows, marks, fails, lost>>
  BY DEF NextFunction, failures
<1>2. PICK i \in 1 .. Len(rows) : Begin(rows[i].loc)
  BY DEF NextFunction
<1>3. TypeOK /\ CommandOK
  BY DEF IInv
<1>4. rows[i].loc \in Target
  <2>1. rows[i] \in Row
    BY <1>3, ElementOfSeq DEF TypeOK
  <2>2. QED
    BY <2>1 DEF Row
<1>5. slots = <<>> /\ cmd' = "all"
  BY <1>1, <1>3 DEF CommandOK
<1>6. RowsGo(rows') /\ MarksGo(marks', rows', lost')
  BY <1>1, <1>3, RowsStay, MarksStay
<1>7. commands' \in 0 .. CommandMax /\ fails' \in 0 .. FailMax
  BY <1>1, <1>3 DEF TypeOK
<1>8. QED
  BY <1>2, <1>4, <1>5, <1>6, <1>7, BegunKeeps

LEMMA AllAnalysedKeeps == IInv /\ AllAnalysed => IInv'
<1> SUFFICES ASSUME IInv, AllAnalysed
             PROVE  IInv'
  OBVIOUS
<1>1. /\ phase = "next" /\ phase' = "idle" /\ cmd' = "none"
      /\ UNCHANGED <<code, commands, flows, slots, ret, fbook, rows, marks, fails, lost, visited>>
  BY DEF AllAnalysed, tables, failures
<1>2. TypeOK /\ CommandOK
  BY DEF IInv
<1>3. TypeOK' /\ CommandOK'
  BY <1>1, <1>2 DEF TypeOK, CommandOK
<1>4. RowsGo(rows') /\ MarksGo(marks', rows', lost')
  BY <1>1, <1>2, RowsStay, MarksStay
<1>5. QED
  BY <1>1, <1>3, <1>4, IdleKeeps
-----------------------------------------------------------------------------
(* The shell. *)

LEMMA InitKeeps == Init => IInv
<1> SUFFICES ASSUME Init
             PROVE  IInv
  OBVIOUS
<1>1. /\ code \in Programs /\ slots = <<>> /\ phase = "idle" /\ ret = 0 /\ fbook = <<>>
      /\ rows = <<>> /\ marks = <<>> /\ cmd = "none" /\ commands = 0 /\ fails = 0
      /\ lost = {} /\ visited = {}
  BY DEF Init
<1> DEFINE f == [pc |-> Entry, begin |-> 0, end |-> 0, aend |-> 0, abm |-> None, left |-> 0]
<1>2. flows = <<f>>
  BY DEF Init
<1>3. f \in Flow
  BY AnalyserAssumption DEF Flow, Target
<1> HIDE DEF f
<1>4. flows \in Seq(Flow) /\ flows # <<>>
  <2>1. flows \in Seq(Flow)
    BY <1>2, <1>3
  <2>2. <<f>> # <<>>
    OBVIOUS
  <2>3. QED
    BY <1>2, <2>1, <2>2
<1>5. code \in [1 .. ExecMax -> Instruction]
  BY <1>1, AnalyserAssumption
<1>6. fbook \in Seq(Note) /\ Len(fbook) <= FragMax /\ rows \in Seq(Row) /\ marks \in Seq(Bookmark)
      /\ slots \in Seq(1 .. ExecMax) /\ Len(rows) = 0 /\ Len(marks) = 0
  BY <1>1, AnalyserAssumption
<1>7. commands \in 0 .. CommandMax /\ fails \in 0 .. FailMax
  BY <1>1, AnalyserAssumption
<1>8. TypeOK
  <2>1. /\ phase \in {"instr", "after", "return", "next", "idle"}
        /\ ret \in {-100, -3, -2, -1, 0} \cup Target
        /\ cmd \in {"all", "func", "none", "exited", "crashed"}
        /\ lost \subseteq Target /\ visited \subseteq 1 .. ExecMax
    BY <1>1
  <2>2. QED
    BY <1>4, <1>5, <1>6, <1>7, <2>1 DEF TypeOK
<1>9. CommandOK /\ ~InAnalysis
  BY <1>1 DEF CommandOK, InAnalysis
<1>10. RowsSeen /\ CallsIn(marks, rows, lost)
  BY <1>6 DEF RowsSeen, CallsIn
<1>11. QED
  BY <1>8, <1>9, <1>10 DEF IInv

(* What the shell is in when a command is typed. *)
LEMMA TypedFacts ==
  ASSUME IInv, NEW command, Typed(command)
  PROVE  /\ TypeOK /\ CommandOK /\ cmd = "none" /\ phase = "idle" /\ slots = <<>>
         /\ cmd' = command /\ commands' \in 0 .. CommandMax
         /\ flows \in Seq(Flow) /\ 1 \in 1 .. Len(flows) /\ flows[1] \in Flow
<1>1. TypeOK /\ CommandOK
  BY DEF IInv
<1>2. cmd = "none" /\ commands < CommandMax /\ commands' = commands + 1 /\ cmd' = command
  BY DEF Typed
<1>3. commands' \in 0 .. CommandMax
  BY <1>1, <1>2, AnalyserAssumption DEF TypeOK
<1>4. phase = "idle" /\ slots = <<>>
  BY <1>1, <1>2 DEF CommandOK
<1>5. flows \in Seq(Flow) /\ 1 \in 1 .. Len(flows) /\ flows[1] \in Flow
  BY <1>1, TopFacts DEF TypeOK
<1>6. QED
  BY <1>1, <1>2, <1>3, <1>4, <1>5

LEMMA Jumped ==
  ASSUME IInv, NEW loc \in 1 .. ExecMax, 1 \in 1 .. Len(flows), flows \in Seq(Flow),
         flows' = [flows EXCEPT ![1].pc = loc]
  PROVE  flows' \in Seq(Flow) /\ flows' # <<>>
<1> DEFINE f == [flows[1] EXCEPT !.pc = loc]
<1>1. flows[1] \in Flow
  BY ElementOfSeq
<1>2. loc \in Target
  BY AnalyserAssumption DEF Target
<1>3. f \in Flow
  BY <1>1, <1>2 DEF Flow
<1>4. flows' = [flows EXCEPT ![1] = f]
  OBVIOUS
<1> HIDE DEF f
<1>5. flows' \in Seq(Flow) /\ Len(flows') = Len(flows)
  BY <1>3, <1>4, ExceptSeq
<1>6. QED
  BY <1>5, EmptySeq

LEMMA JumpKeeps == \A loc \in 1 .. ExecMax : IInv /\ Jump(loc) => IInv'
<1> SUFFICES ASSUME NEW loc \in 1 .. ExecMax, IInv, Jump(loc)
             PROVE  IInv'
  OBVIOUS
<1>1. /\ Typed("none") /\ flows' = [flows EXCEPT ![1].pc = loc]
      /\ UNCHANGED <<code, slots, phase, ret, fbook, rows, marks, fails, lost, visited>>
  BY DEF Jump, tables, failures
<1>2. /\ TypeOK /\ phase = "idle" /\ slots = <<>> /\ cmd' = "none"
      /\ commands' \in 0 .. CommandMax /\ flows \in Seq(Flow) /\ 1 \in 1 .. Len(flows)
  BY <1>1, TypedFacts
<1>3. flows' \in Seq(Flow) /\ flows' # <<>>
  BY <1>1, <1>2, Jumped
<1>4. TypeOK' /\ CommandOK'
  BY <1>1, <1>2, <1>3 DEF TypeOK, CommandOK
<1>5. RowsGo(rows') /\ MarksGo(marks', rows', lost')
  BY <1>1, <1>2, RowsStay, MarksStay
<1>6. phase' \notin {"instr", "after", "return"}
  BY <1>1, <1>2
<1>7. QED
  BY <1>1, <1>4, <1>5, <1>6, IdleKeeps

LEMMA AnalyzeAllKeeps == IInv /\ AnalyzeAll => IInv'
<1> SUFFICES ASSUME IInv, AnalyzeAll
             PROVE  IInv'
  OBVIOUS
<1>1. /\ Typed("all") /\ Begin(Entry) /\ List(Entry)
      /\ \/ marks' = marks
         \/ marks' = Append(marks, Mark("entrypoint", Entry, Entry))
  BY Zenon DEF AnalyzeAll
<1>2. TypeOK /\ slots = <<>> /\ cmd' = "all" /\ commands' \in 0 .. CommandMax
  BY <1>1, TypedFacts
<1>3. Entry \in Target
  BY AnalyserAssumption DEF Target
<1>4. /\ RowsGo(rows') /\ lost \subseteq lost' /\ lost' \subseteq Target
      /\ fails' = fails \/ (fails < FailMax /\ fails' = fails + 1)
  BY <1>1, <1>2, <1>3, ListGo
<1>5. MarksGo(Append(marks, Mark("entrypoint", Entry, Entry)), rows', lost')
  BY <1>2, <1>3, <1>4, MarkedGo DEF Kinds
<1>6. MarksGo(marks', rows', lost')
  BY <1>1, <1>2, <1>4, <1>5, MarksWait
<1>7. fails' \in 0 .. FailMax
  BY <1>2, <1>4, AnalyserAssumption DEF TypeOK
<1>8. QED
  BY <1>1, <1>2, <1>3, <1>4, <1>6, <1>7, BegunKeeps

LEMMA AnalyzeFuncKeeps == IInv /\ AnalyzeFunc => IInv'
<1> SUFFICES ASSUME IInv, AnalyzeFunc
             PROVE  IInv'
  OBVIOUS
<1> DEFINE loc == flows[1].pc
<1>1. /\ Typed("func") /\ Begin(loc)
      /\ \/ UNCHANGED <<marks, rows, fails, lost>>
         \/ marks' = Append(marks, Mark("func", loc, loc)) /\ List(loc)
  BY Zenon DEF AnalyzeFunc, failures
<1>2. /\ TypeOK /\ slots = <<>> /\ cmd' = "func" /\ commands' \in 0 .. CommandMax
      /\ flows[1] \in Flow
  BY <1>1, TypedFacts
<1>3. loc \in Target
  BY <1>2, FlowFields
<1> HIDE DEF loc
<1>4. CASE UNCHANGED <<marks, rows, fails, lost>>
  BY <1>1, <1>2, <1>3, <1>4, RowsStay, MarksStay, BegunKeeps DEF TypeOK
<1>5. CASE marks' = Append(marks, Mark("func", loc, loc)) /\ List(loc)
  <2>1. /\ RowsGo(rows') /\ lost \subseteq lost' /\ lost' \subseteq Target
        /\ fails' = fails \/ (fails < FailMax /\ fails' = fails + 1)
    BY <1>2, <1>3, <1>5, ListGo
  <2>2. MarksGo(marks', rows', lost')
    BY <1>2, <1>3, <1>5, <2>1, MarkedGo DEF Kinds
  <2>3. fails' \in 0 .. FailMax
    BY <1>2, <2>1, AnalyserAssumption DEF TypeOK
  <2>4. QED
    BY <1>1, <1>2, <1>3, <2>1, <2>2, <2>3, BegunKeeps
<1>6. QED
  BY <1>1, <1>4, <1>5

LEMMA CommandFailsKeeps == IInv /\ CommandFails => IInv'
<1> SUFFICES ASSUME IInv, CommandFails
             PROVE  IInv'
  OBVIOUS
<1>1. /\ fails < FailMax /\ fails' = fails + 1
      /\ \/ Typed("none") /\ flows' = [flows EXCEPT ![1].pc = Entry]
         \/ Typed("exited") /\ flows' = flows
      /\ UNCHANGED <<code, slots, phase, ret, fbook, rows, marks, lost, visited>>
  BY DEF CommandFails, Refused, tables
<1>2. PICK command \in {"none", "exited"} : Typed(command)
  BY <1>1
<1>3. /\ TypeOK /\ phase = "idle" /\ slots = <<>> /\ cmd' = command
      /\ commands' \in 0 .. CommandMax /\ flows \in Seq(Flow) /\ 1 \in 1 .. Len(flows)
  BY <1>2, TypedFacts
<1>4. flows' \in Seq(Flow) /\ flows' # <<>>
  <2>1. CASE flows' = flows
    BY <1>3, <2>1 DEF TypeOK
  <2>2. CASE flows' = [flows EXCEPT ![1].pc = Entry]
    BY <1>3, <2>2, Jumped, AnalyserAssumption
  <2>3. QED
    BY <1>1, <2>1, <2>2
<1>5. fails' \in 0 .. FailMax
  BY <1>1, <1>3, AnalyserAssumption DEF TypeOK
<1>6. TypeOK' /\ CommandOK'
  BY <1>1, <1>3, <1>4, <1>5 DEF TypeOK, CommandOK
<1>7. RowsGo(rows') /\ MarksGo(marks', rows', lost')
  BY <1>1, <1>3, RowsStay, MarksStay
<1>8. phase' \notin {"instr", "after", "return"}
  BY <1>1, <1>3
<1>9. QED
  BY <1>1, <1>6, <1>7, <1>8, IdleKeeps

LEMMA QuitKeeps == IInv /\ Quit => IInv'
<1> SUFFICES ASSUME IInv, Quit
             PROVE  IInv'
  OBVIOUS
<1>1. /\ cmd = "none" /\ cmd' = "exited"
      /\ UNCHANGED <<code, commands, flows, slots, phase, ret, fbook, rows, marks, fails,
                  lost, visited>>
  BY DEF Quit, tables, failures
<1>2. TypeOK /\ CommandOK
  BY DEF IInv
<1>3. TypeOK' /\ CommandOK'
  BY <1>1, <1>2 DEF TypeOK, CommandOK
<1>4. RowsGo(rows') /\ MarksGo(marks', rows', lost')
  BY <1>1, <1>2, RowsStay, MarksStay
<1>5. phase' \notin {"instr", "after", "return"}
  BY <1>1, <1>2 DEF CommandOK
<1>6. QED
  BY <1>1, <1>3, <1>4, <1>5, IdleKeeps

LEMMA SameKeeps == IInv /\ UNCHANGED vars => IInv'
<1> SUFFICES ASSUME IInv, UNCHANGED vars
             PROVE  IInv'
  OBVIOUS
<1>1. UNCHANGED <<code, cmd, commands, flows, slots, phase, ret, fbook, rows, marks, fails,
                  lost, visited>>
  BY DEF vars, tables
<1>2. TypeOK' /\ CommandOK' /\ RowsSeen' /\ CallsIn(marks, rows, lost)'
  <2>1. TypeOK /\ CommandOK /\ RowsSeen /\ CallsIn(marks, rows, lost)
    BY DEF IInv
  <2>2. TypeOK' /\ CommandOK'
    BY <1>1, <2>1 DEF TypeOK, CommandOK
  <2>3. RowsSeen' /\ CallsIn(marks, rows, lost)'
    BY <1>1, <2>1 DEF RowsSeen, CallsIn, Seen
  <2>4. QED
    BY <2>2, <2>3
<1>3. InAnalysis' => Following'
  <2> SUFFICES ASSUME InAnalysis
               PROVE  Following'
    BY <1>1 DEF InAnalysis
  <2>1. CountersOK /\ NotesOK /\ EndsOK /\ SettledOK /\ TopSeen
    BY DEF IInv, Following
  <2>2. top' = top
    BY <1>1 DEF top
  <2>3. CountersOK' /\ NotesOK'
    BY <1>1, <2>1 DEF CountersOK, NotesOK
  <2>4. EndsOK' /\ SettledOK' /\ TopSeen'
    BY <1>1, <2>1, <2>2 DEF EndsOK, SettledOK, TopSeen, Between, Fresh, Seen
  <2>5. QED
    BY <2>3, <2>4 DEF Following
<1>4. QED
  BY <1>2, <1>3 DEF IInv

LEMMA NextKeeps == IInv /\ [Next]_vars => IInv'
<1>1. Analyse /\ IInv => IInv'
  BY Zenon, BeyondKeeps, PlainKeeps, SyscallKeeps, EnterSlotKeeps, MarkFailsKeeps,
     MarkKnownKeeps, JumpAnalysedKeeps, BranchKeeps, CallKeeps, SwitchKeeps, ReturnKeeps,
     FlowKilledKeeps, CrashKeeps, FlowEndsKeeps, FlowGoesOnKeeps, FlowSuspendedKeeps,
     FlowResumedKeeps, FunctionConfirmedKeeps, NextFunctionKeeps, AllAnalysedKeeps
  DEF Analyse
<1>2. QED
  BY Zenon, <1>1, JumpKeeps, AnalyzeAllKeeps, AnalyzeFuncKeeps, CommandFailsKeeps,
     QuitKeeps, SameKeeps
  DEF Next, Stopped

(* The inductive invariant of the analyser. *)
THEOREM Invariant == Spec => []IInv
  BY InitKeeps, NextKeeps, PTL DEF Spec

(* What the analyser's tables, flows and notes are made of. *)
THEOREM TypeCorrect == Spec => []TypeOK
<1>1. IInv => TypeOK
  BY DEF IInv
<1>2. QED
  BY <1>1, Invariant, PTL

(* Every flow that waits for a branch it follows has a fragment of its own *)
(* that ends where it goes on, whatever the program and the note book.     *)
THEOREM FlowsAreNoted == Spec => []FlowsNoted
<1>1. IInv => FlowsNoted
  <2> SUFFICES ASSUME IInv, phase \in {"instr", "after"}
               PROVE  FlowsNoted
    BY DEF FlowsNoted
  <2>1. NotesOK /\ EndsOK
    BY DEF IInv, InAnalysis, Following
  <2>2. \A i \in 1 .. Len(flows) :
          \/ i = Len(flows) /\ Len(fbook) = FragMax
          \/ \E k \in 1 .. Len(fbook) :
               /\ fbook[k].begin = flows[i].begin
               /\ i < Len(flows) => fbook[k].end = flows[i].pc
    <3> TAKE i \in 1 .. Len(flows)
    <3>1. Len(flows) \in Nat
      BY LenProperties DEF IInv, TypeOK
    <3>2. CASE i = Len(flows) /\ Len(fbook) = FragMax
      BY <3>2
    <3>3. CASE ~(i = Len(flows) /\ Len(fbook) = FragMax)
      <4>1. PICK k \in 1 .. Len(fbook) : fbook[k].begin = flows[i].begin
        BY <2>1, <3>3 DEF NotesOK
      <4>2. i < Len(flows) => fbook[k].end = flows[i].pc
        BY <2>1, <3>1, <4>1 DEF EndsOK
      <4>3. QED
        BY <4>1, <4>2
    <3>4. QED
      BY <3>2, <3>3
  <2>3. QED
    BY <2>1, <2>2 DEF FlowsNoted, NotesOK
<1>2. QED
  BY <1>1, Invariant, PTL

(* A function that is called has been begun when no row is left, also one  *)
(* that was confirmed as the beginning of another's extent, unless the     *)
(* database has refused its row and it has none; whichever rows, inserted  *)
(* or confirmed, the database refuses.                                     *)
THEOREM CalledAreAnalysed == Spec => []CalledAnalysed
<1>1. IInv => CalledAnalysed
  <2> SUFFICES ASSUME IInv, \A k \in 1 .. Len(rows) : rows[k].done,
                      NEW i \in 1 .. Len(marks), marks[i].kind \in {"cal", "ccal"},
                      code[marks[i].loc].to <= ExecMax
               PROVE  LET loc == code[marks[i].loc].to
                      IN  \/ loc \in visited
                          \/ loc \in lost /\ \A k \in 1 .. Len(rows) : rows[k].loc # loc
    BY Zenon DEF CalledAnalysed
  <2>1. RowsSeen /\ CallsIn(marks, rows, lost)
    BY DEF IInv
  <2>2. Kept(code[marks[i].loc].to, rows, lost)
    BY <2>1 DEF CallsIn
  <2>3. ASSUME NEW k \in 1 .. Len(rows), rows[k].loc = code[marks[i].loc].to
        PROVE  code[marks[i].loc].to \in visited
    BY <2>1, <2>3 DEF RowsSeen, Seen
  <2>4. QED
    BY Zenon, <2>2, <2>3 DEF Kept
<1>2. QED
  BY <1>1, Invariant, PTL

LEMMA ListedSame ==
  ASSUME TypeOK, NEW loc, NEW i \in 1 .. Len(rows)
  PROVE  Listed(loc)[i] = rows[i]
<1> DEFINE r == [loc |-> loc, end |-> -1, done |-> FALSE]
<1>1. rows \in Seq(Row \cup {r})
  <2>1. rows \in Seq(Row) /\ Row \subseteq Row \cup {r}
    BY DEF TypeOK
  <2> HIDE DEF r
  <2>2. QED
    BY <2>1
<1>2. Listed(loc) = rows \/ Listed(loc) = Append(rows, r)
  BY DEF Listed
<1> HIDE DEF r
<1>3. Append(rows, r)[i] = rows[i]
  BY <1>1, AppendProperties
<1>4. QED
  BY <1>2, <1>3

(* Rows are confirmed at the end of emu_anal_func only. *)
LEMMA RowsStep ==
  ASSUME TypeOK, [Next]_vars, ~FunctionConfirmed
  PROVE  \A i \in 1 .. Len(rows) : rows'[i] = rows[i]
<1>1. rows' = rows \/ \E loc : rows' = Listed(loc)
  <2>1. CASE AnalyzeAll
    BY Zenon, <2>1 DEF AnalyzeAll, List
  <2>2. CASE AnalyzeFunc
    BY Zenon, <2>2 DEF AnalyzeFunc, List
  <2>3. CASE CommandFails \/ Quit \/ Stopped \/ UNCHANGED vars \/ \E loc \in 1 .. ExecMax : Jump(loc)
    BY Zenon, <2>3 DEF CommandFails, Quit, Stopped, Jump, vars, tables
  <2>4. CASE Beyond \/ Plain \/ Syscall \/ EnterSlot
    BY Zenon, <2>4 DEF Beyond, Plain, Syscall, EnterSlot, tables
  <2>5. CASE MarkFails \/ MarkKnown \/ SwitchAnalysed \/ JumpAnalysed \/ BranchAnalysed \/ ReturnAnalysed
    BY Zenon, <2>5 DEF MarkFails, MarkKnown, SwitchAnalysed, JumpAnalysed, BranchAnalysed, ReturnAnalysed
  <2>6. CASE CallAnalysed
    BY Zenon, <2>6 DEF CallAnalysed, List
  <2>7. CASE FlowKilled \/ Crash \/ FlowResumed \/ AllAnalysed \/ NextFunction
    BY Zenon, <2>7 DEF FlowKilled, Crash, FlowResumed, AllAnalysed, NextFunction, tables
  <2>8. CASE FlowEnds \/ FlowGoesOn \/ FlowSuspended
    BY Zenon, <2>8 DEF FlowEnds, FlowGoesOn, FlowSuspended, Update
  <2>9. QED
    BY Zenon, <2>1, <2>2, <2>3, <2>4, <2>5, <2>6, <2>7, <2>8 DEF Next, Analyse
<1>2. QED
  BY <1>1, ListedSame

(* The extent a function is confirmed with holds all of its first flow,    *)
(* whatever the other flows were merged with it.                           *)
THEOREM ExtentHolds == Spec => ExtentHoldsFlow
<1> DEFINE A == \A i \in 1 .. Len(rows) :
                  ~rows[i].done /\ rows'[i].done /\ rows[i].loc = flows[1].begin =>
                    rows'[i].end >= flows[1].pc
<1>1. IInv /\ [Next]_vars => A
  <2> SUFFICES ASSUME IInv, [Next]_vars
               PROVE  A
    OBVIOUS
  <2>1. TypeOK
    BY DEF IInv
  <2>2. CASE ~FunctionConfirmed
    BY <2>1, <2>2, RowsStep
  <2>3. CASE FunctionConfirmed
    <3> DEFINE b == Extent.begin
               e == Extent.end
    <3>1. /\ e >= flows[1].pc /\ e \in Target
          /\ rows' = Confirmed(b, e) \/ rows' = rows
      BY <2>3, ConfirmedFacts
    <3> HIDE DEF b, e
    <3>2. CASE rows' = Confirmed(b, e)
      <4>1. \A i \in 1 .. Len(rows) :
              /\ rows[i].loc = b => rows'[i].end = e
              /\ rows[i].loc # b => rows'[i] = rows[i]
        BY <2>1, <3>1, <3>2, ConfirmedRows
      <4>2. QED
        BY <3>1, <4>1
    <3>3. CASE rows' = rows
      BY <3>3
    <3>4. QED
      BY <3>1, <3>2, <3>3
  <2>4. QED
    BY <2>2, <2>3
<1> HIDE DEF A
<1>2. Spec => [][A]_vars
  BY <1>1, Invariant, PTL DEF Spec
<1>3. QED
  BY <1>2 DEF ExtentHoldsFlow, A
=============================================================================
