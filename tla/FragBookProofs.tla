--------------------------- MODULE FragBookProofs ---------------------------
(***************************************************************************)
(* The fragment note book keeps its assertion and is a set of notes, for   *)
(* every capacity and every range of addresses.                            *)
(***************************************************************************)
EXTENDS FragBook, TLAPS

(* Where the loops stand.  In frag_arran the slots between the two         *)
(* pointers are dead, and where they meet there is a dead slot, or none.   *)
Looking == op = "gap" => q \in 1 .. Len(frags) + 1

Gap ==
  op = "arran" =>
    /\ p \in 1 .. q /\ q \in 1 .. Len(frags) + 1
    /\ \A i \in p .. q - 1 : ~frags[i].live
    /\ q <= Len(frags) /\ p = q => ~frags[q].live

Ahead == op = "defrag" => 1 <= p /\ p < q

IInv == TypeOK /\ Looking /\ Gap /\ Ahead
-----------------------------------------------------------------------------
(* Writing a slot leaves an array of slots. *)
LEMMA WriteSlot ==
  ASSUME NEW f \in Seq(SlotSet), NEW i \in 1 .. Len(f), NEW s \in SlotSet
  PROVE  /\ [f EXCEPT ![i] = s] \in Seq(SlotSet)
         /\ Len([f EXCEPT ![i] = s]) = Len(f)
         /\ \A k \in 1 .. Len(f) : [f EXCEPT ![i] = s][k] = IF k = i THEN s ELSE f[k]
OBVIOUS

LEMMA AppendSlot ==
  ASSUME NEW f \in Seq(SlotSet), NEW s \in SlotSet
  PROVE  Append(f, s) \in Seq(SlotSet) /\ Len(Append(f, s)) = Len(f) + 1
OBVIOUS

(* Two slots written one after the other. *)
LEMMA WriteTwo ==
  ASSUME NEW f \in Seq(SlotSet), NEW i \in 1 .. Len(f), NEW j \in 1 .. Len(f),
         NEW s \in SlotSet, NEW t \in SlotSet
  PROVE  /\ [f EXCEPT ![i] = s, ![j] = t] \in Seq(SlotSet)
         /\ Len([f EXCEPT ![i] = s, ![j] = t]) = Len(f)
         /\ \A k \in 1 .. Len(f) :
              [f EXCEPT ![i] = s, ![j] = t][k]
                = IF k = j THEN t ELSE IF k = i THEN s ELSE f[k]
OBVIOUS

LEMMA SlotFields ==
  ASSUME NEW s \in SlotSet
  PROVE  s.begin \in Nat /\ s.end \in Nat /\ s.begin \in Addr /\ s.end \in Addr
BY AddrAssumption DEF SlotSet

LEMMA SlotTypes ==
  ASSUME NEW s \in SlotSet, NEW t \in SlotSet
  PROVE  /\ Dead(s) \in SlotSet /\ ~Dead(s).live
         /\ Hull(s, t) \in SlotSet /\ Hull(s, t).live
         /\ Hull(s, t).begin = Lower(s.begin, t.begin)
         /\ Hull(s, t).end = Higher(s.end, t.end)
BY DEF SlotSet, Dead, Hull, Slot, Lower, Higher

(* frag_arran's destination is where p stands as soon as that slot is dead. *)
LEMMA FirstDead ==
  ASSUME NEW f \in Seq(SlotSet), NEW k \in 1 .. Len(f), ~f[k].live
  PROVE  NextSlot(f, k, FALSE) = k
<1> DEFINE found == {i \in k .. Len(f) : f[i].live = FALSE}
<1>1. f[k].live = FALSE
  BY DEF SlotSet
<1>2. k \in found /\ found # {} /\ found \subseteq Int
  BY <1>1
<1>3. \A j \in found : k <= j
  OBVIOUS
<1>4. ASSUME NEW i \in found, \A j \in found : i <= j
      PROVE  i = k
  <2>1. i <= k /\ k <= i
    BY <1>2, <1>3, <1>4
  <2> QED BY <2>1, <1>2
<1>5. (CHOOSE i \in found : \A j \in found : i <= j) = k
  <2> HIDE DEF found
  <2> QED BY <1>2, <1>3, <1>4
<1> QED BY <1>2, <1>5 DEF NextSlot

LEMMA Destination ==
  ASSUME IInv, op = "arran", q <= Len(frags), frags[q].live
  PROVE  dst = p /\ p < q /\ p \in 1 .. Len(frags) /\ q \in 1 .. Len(frags)
         /\ ~frags[p].live
<1>1. p \in 1 .. Len(frags) /\ p < q /\ ~frags[p].live /\ frags \in Seq(SlotSet)
      /\ q \in 1 .. Len(frags)
  BY DEF IInv, Gap, TypeOK
<1> QED BY <1>1, FirstDead DEF dst
-----------------------------------------------------------------------------
LEMMA Initially == Init => IInv
<1> SUFFICES ASSUME Init PROVE IInv
  OBVIOUS
<1>1. frags \in Seq(SlotSet) /\ Len(frags) = 0
  BY DEF Init
<1> QED BY <1>1, FragMaxAssumption DEF Init, IInv, TypeOK, Looking, Gap, Ahead, Returned

(* One step per action of Next. *)
LEMMA Inductive == IInv /\ [Next]_vars => IInv'
<1> SUFFICES ASSUME IInv, [Next]_vars PROVE IInv'
  OBVIOUS
<1> USE FragMaxAssumption DEF Returned
<1>0. frags \in Seq(SlotSet) /\ p \in Nat /\ q \in Nat
  BY DEF IInv, TypeOK
<1>1. CASE UNCHANGED vars
  BY <1>1 DEF vars, IInv, TypeOK, Looking, Gap, Ahead
<1>2. ASSUME NEW begin \in Addr, NEW end \in Addr, Reg(begin, end) PROVE IInv'
  <2>1. Slot(TRUE, begin, end) \in SlotSet
    BY DEF Slot, SlotSet
  <2>2. frags' \in Seq(SlotSet) /\ Len(frags') = Len(frags) + 1
    <3>1. frags' = Append(frags, Slot(TRUE, begin, end))
      BY <1>2 DEF Reg
    <3> QED BY <1>0, <2>1, <3>1, AppendSlot
  <2>3. /\ op = "idle" /\ op' = op /\ p' = p /\ q' = q /\ Len(frags) < FragMax
        /\ ret'.call = "reg" /\ ret'.value = 0
    BY <1>2 DEF Reg
  <2> QED BY <1>0, <2>2, <2>3 DEF IInv, TypeOK, Looking, Gap, Ahead
<1>3. CASE RegFull
  BY <1>3 DEF RegFull, IInv, TypeOK, Looking, Gap, Ahead
<1>4. CASE FindGap
  BY <1>4 DEF FindGap, IInv, TypeOK, Looking, Gap, Ahead
<1>5. CASE ArranSkip
  BY <1>5 DEF ArranSkip, IInv, TypeOK, Looking, Gap, Ahead
<1>6. CASE ArranMove
  <2>1. /\ dst = p /\ p < q /\ p \in 1 .. Len(frags) /\ q \in 1 .. Len(frags)
    BY <1>6, Destination DEF ArranMove
  <2>2. frags[q] \in SlotSet
    BY <1>0, <2>1
  <2>7. Dead(frags[q]) \in SlotSet /\ ~Dead(frags[q]).live
    BY <2>2, SlotTypes
  <2>3. frags' = [frags EXCEPT ![p] = frags[q], ![q] = Dead(frags[q])]
    BY <1>6, <2>1 DEF ArranMove
  <2>4. /\ frags' \in Seq(SlotSet) /\ Len(frags') = Len(frags)
        /\ \A k \in 1 .. Len(frags) :
             frags'[k] = IF k = q THEN Dead(frags[q]) ELSE IF k = p THEN frags[q] ELSE frags[k]
    BY <1>0, <2>1, <2>2, <2>7, <2>3, WriteTwo
  <2>5. op = "arran" /\ op' = "arran" /\ p' = p + 1 /\ q' = q + 1 /\ ret' = ret
    BY <1>6, <2>1 DEF ArranMove
  <2>6. \A i \in p + 1 .. q : ~frags'[i].live
    <3> SUFFICES ASSUME NEW i \in p + 1 .. q PROVE ~frags'[i].live
      OBVIOUS
    <3>1. i \in 1 .. Len(frags)
      BY <1>0, <2>1
    <3>2. CASE i = q
      BY <2>7, <2>4, <3>1, <3>2
    <3>3. CASE i # q
      BY <1>0, <2>1, <2>4, <2>5, <3>1, <3>3 DEF IInv, Gap
    <3> QED BY <3>2, <3>3
  <2> QED BY <1>0, <2>1, <2>4, <2>5, <2>6 DEF IInv, TypeOK, Looking, Gap, Ahead
<1>7. CASE ArranDone
  BY <1>7 DEF ArranDone, IInv, TypeOK, Looking, Gap, Ahead
<1>8. ASSUME NEW idx \in 0 .. FragMax - 1, Rm(idx) PROVE IInv'
  <2>1. CASE Len(frags) <= idx
    BY <1>8, <2>1 DEF Rm, IInv, TypeOK, Looking, Gap, Ahead
  <2>2. CASE ~(Len(frags) <= idx)
    <3>1. idx + 1 \in 1 .. Len(frags)
      BY <1>0, <2>2
    <3>2. Dead(frags[idx + 1]) \in SlotSet
      BY <1>0, <3>1, SlotTypes
    <3>3. frags' \in Seq(SlotSet) /\ Len(frags') = Len(frags)
      BY <1>0, <1>8, <2>2, <3>1, <3>2, WriteSlot DEF Rm
    <3> QED BY <1>8, <2>2, <3>3 DEF Rm, IInv, TypeOK, Looking, Gap, Ahead
  <2> QED BY <2>1, <2>2
<1>9. ASSUME NEW begin \in Addr, NEW end \in Addr, Upd(begin, end) PROVE IInv'
  <2>1. PICK k \in 1 .. Len(frags) : frags' = [frags EXCEPT ![k] = Slot(TRUE, begin, end)]
    BY <1>9 DEF Upd
  <2>2. Slot(TRUE, begin, end) \in SlotSet
    BY DEF Slot, SlotSet
  <2>3. frags' \in Seq(SlotSet) /\ Len(frags') = Len(frags)
    BY <1>0, <2>1, <2>2, WriteSlot
  <2> QED BY <1>9, <2>3 DEF Upd, IInv, TypeOK, Looking, Gap, Ahead
<1>10. CASE Defrag
  BY <1>10 DEF Defrag, IInv, TypeOK, Looking, Gap, Ahead
<1>11. CASE DefragNext
  BY <1>11 DEF DefragNext, IInv, TypeOK, Looking, Gap, Ahead
<1>12. CASE DefragMerge
  <2>1. p \in 1 .. Len(frags) /\ q \in 1 .. Len(frags)
    BY <1>12, <1>0 DEF DefragMerge, IInv, Ahead
  <2>2. frags' \in Seq(SlotSet) /\ Len(frags') = Len(frags)
    <3>1. frags[p] \in SlotSet /\ frags[q] \in SlotSet
      BY <1>0, <2>1
    <3>2. Hull(frags[p], frags[q]) \in SlotSet /\ Dead(frags[q]) \in SlotSet
      BY <3>1, SlotTypes
    <3> QED BY <1>0, <1>12, <2>1, <3>2, WriteTwo DEF DefragMerge, MergeSlots
  <2> QED BY <1>12, <2>2 DEF DefragMerge, IInv, TypeOK, Looking, Gap, Ahead
<1>13. CASE DefragDone
  BY <1>13 DEF DefragDone, IInv, TypeOK, Looking, Gap, Ahead
<1> QED BY <1>1, <1>2, <1>3, <1>4, <1>5, <1>6, <1>7, <1>8, <1>9, <1>10, <1>11,
           <1>12, <1>13 DEF Next

LEMMA Invariant == Spec => []IInv
BY Initially, Inductive, PTL DEF Spec

(* The book never holds more than FragMax fragments, each of them          *)
(* well-formed, whatever is registered, removed and merged.                *)
THEOREM TypeCorrect == Spec => []TypeOK
<1>1. IInv => TypeOK
  BY DEF IInv
<1> QED BY <1>1, Invariant, PTL

(* The assertion of frag_arran never fails. *)
THEOREM AssertionHolds == Spec => []ArranAssertion
<1>1. IInv => ArranAssertion
  BY Destination DEF ArranAssertion
<1> QED BY <1>1, Invariant, PTL
-----------------------------------------------------------------------------
(* Membership in NotesOf, with the slot as a witness. *)
LEMMA InNotes ==
  ASSUME NEW f, NEW n
  PROVE  n \in NotesOf(f) <=> \E i \in 1 .. Len(f) : f[i].live /\ n = Note(f[i])
BY DEF NotesOf

LEMMA NoteTypes ==
  ASSUME NEW f \in Seq(SlotSet), NEW n \in NotesOf(f)
  PROVE  n \in Book!Note
<1>1. PICK i \in 1 .. Len(f) : n = Note(f[i])
  BY InNotes
<1>2. f[i] \in SlotSet
  OBVIOUS
<1> QED BY <1>1, <1>2, SlotFields DEF Note, Book!Note

(* frag_merge: overlapping ranges and what they are joined to cover the    *)
(* same addresses, also when one of them ends before it begins.            *)
LEMMA HullCovers ==
  ASSUME NEW s \in SlotSet, NEW t \in SlotSet, Overlap(s, t), NEW x \in Addr
  PROVE  (Hull(s, t).begin <= x /\ x <= Hull(s, t).end)
           <=> (s.begin <= x /\ x <= s.end) \/ (t.begin <= x /\ x <= t.end)
<1>1. /\ s.begin \in Nat /\ s.end \in Nat /\ t.begin \in Nat /\ t.end \in Nat
      /\ x \in Nat
  BY AddrAssumption, SlotFields
<1>2. /\ Hull(s, t).begin = Lower(s.begin, t.begin)
      /\ Hull(s, t).end = Higher(s.end, t.end)
  BY SlotTypes
<1> QED BY <1>1, <1>2 DEF Overlap, Lower, Higher

LEMMA HullContains ==
  ASSUME NEW s \in SlotSet, NEW t \in SlotSet
  PROVE  Book!Within(Note(s), Note(Hull(s, t))) /\ Book!Within(Note(t), Note(Hull(s, t)))
<1>1. s.begin \in Nat /\ s.end \in Nat /\ t.begin \in Nat /\ t.end \in Nat
  BY SlotFields
<1>2. /\ Hull(s, t).begin = Lower(s.begin, t.begin)
      /\ Hull(s, t).end = Higher(s.end, t.end)
  BY SlotTypes
<1> QED BY <1>1, <1>2 DEF Book!Within, Note, Lower, Higher

(* Merging two slots joins notes and does nothing else. *)
LEMMA MergeJoins ==
  ASSUME NEW f \in Seq(SlotSet), NEW g, NEW i \in 1 .. Len(f), NEW j \in 1 .. Len(f),
         i # j, f[i].live, g = MergeSlots(f, i, j)
  PROVE  /\ Book!Covered(NotesOf(g)) = Book!Covered(NotesOf(f))
         /\ \A n \in NotesOf(f) : \E m \in NotesOf(g) : Book!Within(n, m)
<1>0. \A n \in NotesOf(f) : Book!Within(n, n)
  <2> SUFFICES ASSUME NEW n \in NotesOf(f) PROVE Book!Within(n, n)
    OBVIOUS
  <2>1. n \in Book!Note
    BY NoteTypes
  <2>2. n.begin \in Nat /\ n.end \in Nat
    BY <2>1, AddrAssumption DEF Book!Note
  <2> QED BY <2>2 DEF Book!Within
<1>1. CASE ~(f[j].live /\ Overlap(f[i], f[j]))
  BY <1>0, <1>1 DEF MergeSlots
<1>2. CASE f[j].live /\ Overlap(f[i], f[j])
  <2> DEFINE h == Hull(f[i], f[j])
  <2>1. f[i] \in SlotSet /\ f[j] \in SlotSet /\ h \in SlotSet /\ h.live
        /\ Dead(f[j]) \in SlotSet /\ ~Dead(f[j]).live
    BY SlotTypes
  <2>2. g = [f EXCEPT ![i] = h, ![j] = Dead(f[j])]
    BY <1>2 DEF MergeSlots
  <2>3. /\ Len(g) = Len(f)
        /\ \A k \in 1 .. Len(f) :
             g[k] = IF k = j THEN Dead(f[j]) ELSE IF k = i THEN h ELSE f[k]
    BY <2>1, <2>2, WriteTwo
  <2>4. g[i] = h /\ Note(h) \in NotesOf(g)
    BY <2>1, <2>3, InNotes
  <2>5. ASSUME NEW n \in NotesOf(f) PROVE \E m \in NotesOf(g) : Book!Within(n, m)
    <3>1. PICK k \in 1 .. Len(f) : f[k].live /\ n = Note(f[k])
      BY InNotes
    <3>2. CASE k = i \/ k = j
      BY <2>1, <2>4, <3>1, <3>2, HullContains
    <3>3. CASE k # i /\ k # j
      <4>1. n \in NotesOf(g)
        BY <2>3, <3>1, <3>3, InNotes
      <4> QED BY <4>1, <1>0
    <3> QED BY <3>2, <3>3
  <2>6. ASSUME NEW x \in Addr
        PROVE  (\E n \in NotesOf(f) : n.begin <= x /\ x <= n.end)
                 <=> (\E n \in NotesOf(g) : n.begin <= x /\ x <= n.end)
    <3>0. Note(h).begin = h.begin /\ Note(h).end = h.end
          /\ \A k \in 1 .. Len(f) : Note(f[k]).begin = f[k].begin /\ Note(f[k]).end = f[k].end
      BY DEF Note
    <3>1. (h.begin <= x /\ x <= h.end)
            <=> (f[i].begin <= x /\ x <= f[i].end) \/ (f[j].begin <= x /\ x <= f[j].end)
      BY <1>2, <2>1, HullCovers
    <3>2. ASSUME NEW n \in NotesOf(f), n.begin <= x, x <= n.end
          PROVE  \E m \in NotesOf(g) : m.begin <= x /\ x <= m.end
      <4>1. PICK k \in 1 .. Len(f) : f[k].live /\ n = Note(f[k])
        BY InNotes
      <4>2. CASE k = i \/ k = j
        <5>1. h.begin <= x /\ x <= h.end
          BY <3>0, <3>1, <3>2, <4>1, <4>2
        <5> QED BY <2>4, <3>0, <5>1
      <4>3. CASE k # i /\ k # j
        <5>1. n \in NotesOf(g)
          BY <2>3, <4>1, <4>3, InNotes
        <5> QED BY <3>2, <5>1
      <4> QED BY <4>2, <4>3
    <3>3. ASSUME NEW m \in NotesOf(g), m.begin <= x, x <= m.end
          PROVE  \E n \in NotesOf(f) : n.begin <= x /\ x <= n.end
      <4>1. PICK k \in 1 .. Len(f) : g[k].live /\ m = Note(g[k])
        BY <2>3, InNotes
      <4>2. k # j
        BY <2>1, <2>3, <4>1
      <4>3. CASE k = i
        <5>1. (f[i].begin <= x /\ x <= f[i].end) \/ (f[j].begin <= x /\ x <= f[j].end)
          BY <2>4, <3>0, <3>1, <3>3, <4>1, <4>3
        <5>2. Note(f[i]) \in NotesOf(f) /\ Note(f[j]) \in NotesOf(f)
          BY <1>2, InNotes
        <5> QED BY <3>0, <5>1, <5>2
      <4>4. CASE k # i
        <5>1. m \in NotesOf(f)
          BY <2>3, <4>1, <4>2, <4>4, InNotes
        <5> QED BY <3>3, <5>1
      <4> QED BY <4>3, <4>4
    <3> QED BY <3>2, <3>3
  <2>7. Book!Covered(NotesOf(g)) = Book!Covered(NotesOf(f))
    BY <2>6 DEF Book!Covered
  <2> QED BY <2>5, <2>7
<1> QED BY <1>1, <1>2

(* Registering a fragment adds a note. *)
LEMMA RegAdds ==
  ASSUME NEW f \in Seq(SlotSet), NEW s \in SlotSet, s.live
  PROVE  NotesOf(Append(f, s)) = NotesOf(f) \cup {Note(s)}
<1>1. /\ Len(Append(f, s)) = Len(f) + 1
      /\ Append(f, s)[Len(f) + 1] = s
      /\ \A k \in 1 .. Len(f) : Append(f, s)[k] = f[k]
  OBVIOUS
<1>2. ASSUME NEW n
      PROVE  n \in NotesOf(Append(f, s)) <=> (n \in NotesOf(f) \/ n = Note(s))
  <2>1. Len(f) \in Nat
    OBVIOUS
  <2>2. \A k \in 1 .. Len(f) + 1 : k \in 1 .. Len(f) \/ k = Len(f) + 1
    BY <2>1
  <2>3. ASSUME n \in NotesOf(Append(f, s)) PROVE n \in NotesOf(f) \/ n = Note(s)
    <3>1. PICK k \in 1 .. Len(f) + 1 : Append(f, s)[k].live /\ n = Note(Append(f, s)[k])
      <4>1. \E k \in 1 .. Len(Append(f, s)) :
              Append(f, s)[k].live /\ n = Note(Append(f, s)[k])
        BY <2>3, InNotes
      <4> QED BY <1>1, <4>1
    <3> QED BY <1>1, <2>2, <3>1, InNotes
  <2>4. ASSUME n \in NotesOf(f) PROVE n \in NotesOf(Append(f, s))
    <3>1. PICK k \in 1 .. Len(f) : f[k].live /\ n = Note(f[k])
      BY <2>4, InNotes
    <3>2. k \in 1 .. Len(Append(f, s))
      BY <1>1, <2>1
    <3> QED BY <1>1, <3>1, <3>2, InNotes
  <2>5. Note(s) \in NotesOf(Append(f, s))
    <3>1. Len(f) + 1 \in 1 .. Len(Append(f, s))
      BY <1>1, <2>1
    <3> QED BY <1>1, <3>1, InNotes
  <2> QED BY <2>3, <2>4, <2>5
<1> QED BY <1>2

(* Writing one slot takes at most the old note away and adds the new one,  *)
(* if it is live.                                                          *)
LEMMA WriteNotes ==
  ASSUME NEW f \in Seq(SlotSet), NEW i \in 1 .. Len(f), NEW s \in SlotSet
  PROVE  /\ NotesOf(f) \ {Note(f[i])} \subseteq NotesOf([f EXCEPT ![i] = s])
         /\ NotesOf([f EXCEPT ![i] = s])
              \subseteq NotesOf(f) \cup (IF s.live THEN {Note(s)} ELSE {})
         /\ s.live => Note(s) \in NotesOf([f EXCEPT ![i] = s])
<1> DEFINE g == [f EXCEPT ![i] = s]
<1>1. Len(g) = Len(f) /\ \A k \in 1 .. Len(f) : g[k] = IF k = i THEN s ELSE f[k]
  BY WriteSlot
<1> HIDE DEF g
<1>2. ASSUME NEW n \in NotesOf(f), n # Note(f[i]) PROVE n \in NotesOf(g)
  <2>1. PICK k \in 1 .. Len(f) : f[k].live /\ n = Note(f[k])
    BY InNotes
  <2> QED BY <1>1, <1>2, <2>1, InNotes
<1>3. ASSUME NEW n \in NotesOf(g) PROVE n \in NotesOf(f) \/ (s.live /\ n = Note(s))
  <2>1. PICK k \in 1 .. Len(f) : g[k].live /\ n = Note(g[k])
    BY <1>1, InNotes
  <2> QED BY <1>1, <2>1, InNotes
<1>4. s.live => Note(s) \in NotesOf(g)
  BY <1>1, InNotes
<1>5. /\ NotesOf(f) \ {Note(f[i])} \subseteq NotesOf(g)
      /\ NotesOf(g) \subseteq NotesOf(f) \cup (IF s.live THEN {Note(s)} ELSE {})
      /\ s.live => Note(s) \in NotesOf(g)
  BY <1>2, <1>3, <1>4
<1> QED BY <1>5 DEF g

(* Moving a live slot onto a dead one changes no note. *)
LEMMA MoveKeepsNotes ==
  ASSUME NEW f \in Seq(SlotSet), NEW i \in 1 .. Len(f), NEW j \in 1 .. Len(f),
         i # j, ~f[i].live, f[j].live
  PROVE  NotesOf([f EXCEPT ![i] = f[j], ![j] = Dead(f[j])]) = NotesOf(f)
<1> DEFINE g == [f EXCEPT ![i] = f[j], ![j] = Dead(f[j])]
<1>5. f[i] \in SlotSet /\ f[j] \in SlotSet
  OBVIOUS
<1>0. f[i] \in SlotSet /\ f[j] \in SlotSet /\ Dead(f[j]) \in SlotSet /\ ~Dead(f[j]).live
  BY <1>5, SlotTypes
<1>1. /\ Len(g) = Len(f)
      /\ \A k \in 1 .. Len(f) :
           g[k] = IF k = j THEN Dead(f[j]) ELSE IF k = i THEN f[j] ELSE f[k]
  BY <1>0, WriteTwo
<1> HIDE DEF g
<1>2. ASSUME NEW n \in NotesOf(f) PROVE n \in NotesOf(g)
  <2>1. PICK k \in 1 .. Len(f) : f[k].live /\ n = Note(f[k])
    BY InNotes
  <2>2. g[i] = f[j] /\ (k # i /\ k # j => g[k] = f[k])
    BY <1>1
  <2>3. CASE k = j
    BY <1>1, <2>1, <2>2, <2>3, InNotes
  <2>4. CASE k # j
    BY <1>1, <2>1, <2>2, <2>4, InNotes
  <2> QED BY <2>3, <2>4
<1>3. ASSUME NEW n \in NotesOf(g) PROVE n \in NotesOf(f)
  <2>1. PICK k \in 1 .. Len(f) : g[k].live /\ n = Note(g[k])
    BY <1>1, InNotes
  <2>2. k # j
    BY <1>0, <1>1, <2>1
  <2> QED BY <1>1, <2>1, <2>2, InNotes
<1>4. NotesOf(g) = NotesOf(f)
  BY <1>2, <1>3
<1> QED BY <1>4 DEF g
-----------------------------------------------------------------------------
LEMMA BookInitially == Init => Book!Init
BY DEF Init, Book!Init, NotesOf

LEMMA BookStep == IInv /\ [Next]_vars => [Book!Next]_(NotesOf(frags))
<1> SUFFICES ASSUME IInv, [Next]_vars
             PROVE  Book!Next \/ NotesOf(frags)' = NotesOf(frags)
  OBVIOUS
<1>0. frags \in Seq(SlotSet) /\ p \in Nat /\ q \in Nat
  BY DEF IInv, TypeOK
<1>1. CASE UNCHANGED frags
  BY <1>1 DEF NotesOf
<1>2. ASSUME NEW begin \in Addr, NEW end \in Addr, Reg(begin, end)
      PROVE  Book!Next
  <2> DEFINE s == Slot(TRUE, begin, end)
  <2>1. s \in SlotSet /\ s.live /\ Note(s) \in Book!Note
    BY DEF Slot, SlotSet, Note, Book!Note
  <2>2. NotesOf(frags') = NotesOf(frags) \cup {Note(s)}
    BY <1>0, <1>2, <2>1, RegAdds DEF Reg
  <2>3. Book!Add(Note(s))
    BY <2>2 DEF Book!Add
  <2> QED BY <2>1, <2>3 DEF Book!Next
<1>3. CASE ArranMove
  <2>1. dst = p /\ p < q /\ p \in 1 .. Len(frags) /\ q \in 1 .. Len(frags)
        /\ ~frags[p].live /\ frags[q].live
    BY <1>3, Destination DEF ArranMove
  <2>2. frags' = [frags EXCEPT ![p] = frags[q], ![q] = Dead(frags[q])] /\ p # q
    BY <1>0, <1>3, <2>1 DEF ArranMove
  <2>3. NotesOf(frags') = NotesOf(frags)
    BY <1>0, <2>1, <2>2, MoveKeepsNotes
  <2> QED BY <2>3
<1>4. ASSUME NEW idx \in 0 .. FragMax - 1, Rm(idx)
      PROVE  Book!Next \/ NotesOf(frags)' = NotesOf(frags)
  <2>1. CASE Len(frags) <= idx
    BY <1>1, <1>4, <2>1 DEF Rm
  <2>2. CASE ~(Len(frags) <= idx)
    <3> DEFINE k == idx + 1
    <3>1. k \in 1 .. Len(frags) /\ frags[k] \in SlotSet
      BY <1>0, <2>2, FragMaxAssumption
    <3>2. Dead(frags[k]) \in SlotSet /\ ~Dead(frags[k]).live
      BY <3>1, SlotTypes
    <3>3. frags' = [frags EXCEPT ![k] = Dead(frags[k])]
      BY <1>4, <2>2 DEF Rm
    <3> HIDE DEF k
    <3>4. /\ NotesOf(frags) \ {Note(frags[k])} \subseteq NotesOf(frags')
          /\ NotesOf(frags') \subseteq NotesOf(frags)
      <4>1. /\ NotesOf(frags) \ {Note(frags[k])} \subseteq NotesOf(frags')
            /\ NotesOf(frags')
                 \subseteq NotesOf(frags)
                           \cup (IF Dead(frags[k]).live THEN {Note(Dead(frags[k]))} ELSE {})
        BY <1>0, <3>1, <3>2, <3>3, WriteNotes
      <4> QED BY <3>2, <4>1
    <3>5. CASE Note(frags[k]) \in NotesOf(frags')
      BY <3>4, <3>5
    <3>6. CASE Note(frags[k]) \notin NotesOf(frags')
      <4>1. NotesOf(frags') = NotesOf(frags) \ {Note(frags[k])}
        BY <3>4, <3>6
      <4>2. CASE Note(frags[k]) \in NotesOf(frags)
        BY <4>1, <4>2 DEF Book!Drop, Book!Next
      <4>3. CASE Note(frags[k]) \notin NotesOf(frags)
        BY <4>1, <4>3
      <4> QED BY <4>2, <4>3
    <3> QED BY <3>5, <3>6
  <2> QED BY <2>1, <2>2
<1>5. ASSUME NEW begin \in Addr, NEW end \in Addr, Upd(begin, end)
      PROVE  Book!Next
  <2> DEFINE s == Slot(TRUE, begin, end)
  <2>1. s \in SlotSet /\ s.live /\ Note(s) \in Book!Note
    BY DEF Slot, SlotSet, Note, Book!Note
  <2>2. PICK k \in 1 .. Len(frags) :
          frags[k].live /\ frags[k].begin = begin /\ frags' = [frags EXCEPT ![k] = s]
    BY <1>5 DEF Upd, Located
  <2>3. Note(s) = [begin |-> Note(frags[k]).begin, end |-> end]
    BY <2>2 DEF Note, Slot
  <2>4. Note(frags[k]) \in NotesOf(frags)
    BY <2>2, InNotes
  <2> HIDE DEF s
  <2>5. /\ NotesOf(frags) \ {Note(frags[k])} \subseteq NotesOf(frags')
        /\ NotesOf(frags') \subseteq NotesOf(frags) \cup {Note(s)}
        /\ Note(s) \in NotesOf(frags')
    BY <1>0, <2>1, <2>2, WriteNotes
  <2>6. CASE Note(frags[k]) \in NotesOf(frags')
    <3>1. NotesOf(frags') = NotesOf(frags) \cup {Note(s)}
      BY <2>4, <2>5, <2>6
    <3> QED BY <2>1, <3>1 DEF Book!Add, Book!Next
  <2>7. CASE Note(frags[k]) \notin NotesOf(frags')
    <3>1. NotesOf(frags') = (NotesOf(frags) \ {Note(frags[k])}) \cup {Note(s)}
      BY <2>5, <2>7
    <3> QED BY <2>3, <2>4, <3>1 DEF Book!Change, Book!Next
  <2> QED BY <2>6, <2>7
<1>6. CASE DefragMerge
  <2>1. p \in 1 .. Len(frags) /\ q \in 1 .. Len(frags) /\ p # q /\ frags[p].live
        /\ frags' = MergeSlots(frags, p, q)
    BY <1>0, <1>6 DEF DefragMerge, IInv, Ahead
  <2>2. Book!Join
    BY <1>0, <2>1, MergeJoins DEF Book!Join
  <2> QED BY <2>2 DEF Book!Next
<1> QED
  BY <1>1, <1>2, <1>3, <1>4, <1>5, <1>6
  DEF Next, vars, RegFull, FindGap, ArranSkip, ArranDone, Defrag, DefragNext, DefragDone

(* The array of fragcov.c implements a set of notes: every call is one     *)
(* change of one note or none, and the loops that merge and compact never  *)
(* uncover an address or lose a fragment.                                  *)
THEOREM ImplementsCoverage == Spec => IsCoverage
BY BookInitially, BookStep, Invariant, PTL DEF Spec, IsCoverage, Book!Spec
=============================================================================
