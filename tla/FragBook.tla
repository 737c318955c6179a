------------------------------ MODULE FragBook ------------------------------
(***************************************************************************)
(* The fragment note book of fragcov.c: an array of FragMax slots of which *)
(* the first Len(frags) have been used.  frag_reg appends, frag_rm marks a *)
(* slot dead, fragbook_defrag merges and frag_arran, which frag_reg calls  *)
(* on a full book, moves the live slots to the front.                      *)
(*                                                                         *)
(* The two loops are taken one iteration at a time: in fragbook_defrag p   *)
(* and q are its i and j, in frag_arran its dst and src (from 1).          *)
(***************************************************************************)
EXTENDS Frag

CONSTANT FragMax   (* frag_max, 128 in book.c *)

ASSUME FragMaxAssumption == FragMax \in Nat

VARIABLES
  frags,    (* frags[0 .. frag_count - 1] *)
  op,       (* the loop being run: "defrag", "gap" or "arran", or "idle" *)
  p, q,
  ret       (* the result of the last call that returned, with its name *)

vars == <<frags, op, p, q, ret>>

Returned(call, value) == [call |-> call, value |-> value]

Init ==
  /\ frags = <<>>
  /\ op = "idle"
  /\ p = 0
  /\ q = 0
  /\ ret = Returned("init", 0)

(* frag_reg into a book that has a slot left.  It returns 0, not the index.*)
Reg_OneTooMany(begin, end) ==
  /\ op = "idle"
  /\ Len(frags) <= FragMax
  /\ frags' = Append(frags, Slot(TRUE, begin, end))
  /\ ret' = Returned("reg", 0)
  /\ UNCHANGED <<op, p, q>>

Reg(begin, end) ==
  /\ op = "idle"
  /\ Len(frags) < FragMax
  /\ frags' = Append(frags, Slot(TRUE, begin, end))
  /\ ret' = Returned("reg", 0)
  /\ UNCHANGED <<op, p, q>>

(* frag_reg into a full book, whose first gap is looked for first.         *)
RegFull ==
  /\ op = "idle"
  /\ Len(frags) = FragMax
  /\ op' = "gap"
  /\ q' = 1
  /\ UNCHANGED <<frags, p, ret>>

(* The first loop of frag_arran left at once. *)
FindGap_NotLooked ==
  /\ op = "gap"
  /\ op' = "arran"
  /\ p' = q
  /\ UNCHANGED <<frags, q, ret>>

FindGap ==
  /\ op = "gap"
  /\ IF q <= Len(frags) /\ frags[q].live
     THEN q' = q + 1 /\ UNCHANGED <<op, p>>
     ELSE op' = "arran" /\ p' = q /\ UNCHANGED q
  /\ UNCHANGED <<frags, ret>>

dst == NextSlot(frags, p, FALSE)

ArranSkip ==
  /\ op = "arran"
  /\ q <= Len(frags)
  /\ ~frags[q].live
  /\ q' = q + 1
  /\ UNCHANGED <<frags, op, p, ret>>

(* The slot copied from stays live. *)
ArranMove_LeavesSource ==
  /\ op = "arran"
  /\ q <= Len(frags)
  /\ frags[q].live
  /\ frags' = [frags EXCEPT ![dst] = frags[q]]
  /\ p' = dst + 1
  /\ q' = q + 1
  /\ UNCHANGED <<op, ret>>

ArranMove ==
  /\ op = "arran"
  /\ q <= Len(frags)
  /\ frags[q].live
  /\ frags' = [frags EXCEPT ![dst] = frags[q], ![q] = Dead(frags[q])]
  /\ p' = dst + 1
  /\ q' = q + 1
  /\ UNCHANGED <<op, ret>>

(* frag_arran does not lower frag_count, so that frag_reg finds the book   *)
(* as full as before and gives up.                                         *)
ArranDone ==
  /\ op = "arran"
  /\ q > Len(frags)
  /\ op' = "idle"
  /\ ret' = Returned("reg", -1)
  /\ p' = 0 /\ q' = 0
  /\ UNCHANGED frags

(* frag_rm checks the index against the count only. *)
Rm(idx) ==
  /\ op = "idle"
  /\ IF Len(frags) <= idx
     THEN ret' = Returned("rm", -1) /\ UNCHANGED frags
     ELSE /\ ret' = Returned("rm", 0)
          /\ frags' = [frags EXCEPT ![idx + 1] = Dead(frags[idx + 1])]
  /\ UNCHANGED <<op, p, q>>

(* The fragment frag_lget finds for a beginning. *)
Located(begin, k) ==
  /\ k \in 1 .. Len(frags)
  /\ frags[k].live /\ frags[k].begin = begin
  /\ \A i \in 1 .. k - 1 : ~(frags[i].live /\ frags[i].begin = begin)

(* book_anal_ctrlf_upd: the caller moves the end of a fragment it looked   *)
(* up (without looking whether there is one).                              *)
Upd(begin, end) ==
  /\ op = "idle"
  /\ \E k \in 1 .. Len(frags) :
       /\ Located(begin, k)
       /\ frags' = [frags EXCEPT ![k] = Slot(TRUE, begin, end)]
  /\ ret' = Returned("upd", 0)
  /\ UNCHANGED <<op, p, q>>

Defrag ==
  /\ op = "idle"
  /\ op' = "defrag"
  /\ p' = 1
  /\ q' = 2
  /\ UNCHANGED <<frags, ret>>

(* The inner loop is over, or slot i is dead and it never begins. *)
DefragNext ==
  /\ op = "defrag"
  /\ p <= Len(frags)
  /\ q > Len(frags) \/ ~frags[p].live
  /\ p' = p + 1
  /\ q' = p + 2
  /\ UNCHANGED <<frags, op, ret>>

(* j moved on only past fragments that were merged. *)
DefragMerge_Stuck ==
  /\ op = "defrag"
  /\ p <= Len(frags) /\ q <= Len(frags)
  /\ frags[p].live
  /\ frags' = MergeSlots(frags, p, q)
  /\ q' = IF frags' = frags THEN q ELSE q + 1
  /\ UNCHANGED <<op, p, ret>>

DefragMerge ==
  /\ op = "defrag"
  /\ p <= Len(frags) /\ q <= Len(frags)
  /\ frags[p].live
  /\ frags' = MergeSlots(frags, p, q)
  /\ q' = q + 1
  /\ UNCHANGED <<op, p, ret>>

DefragDone ==
  /\ op = "defrag"
  /\ p > Len(frags)
  /\ op' = "idle"
  /\ ret' = Returned("defrag", 0)
  /\ p' = 0 /\ q' = 0
  /\ UNCHANGED frags

Next ==
  \/ \E begin, end \in Addr : Reg(begin, end)
  \/ RegFull \/ FindGap \/ ArranSkip \/ ArranMove \/ ArranDone
  \/ \E idx \in 0 .. FragMax - 1 : Rm(idx)
  \/ \E begin, end \in Addr : Upd(begin, end)
  \/ Defrag \/ DefragNext \/ DefragMerge \/ DefragDone

Spec == Init /\ [][Next]_vars

(* A call that has begun runs to its end; whether there is another call is *)
(* up to the caller.                                                       *)
Loop ==
  \/ FindGap \/ ArranSkip \/ ArranMove \/ ArranDone
  \/ DefragNext \/ DefragMerge \/ DefragDone

FairSpec == Spec /\ WF_vars(Loop)
-----------------------------------------------------------------------------
TypeOK ==
  /\ frags \in Seq(SlotSet)
  /\ Len(frags) <= FragMax
  /\ op \in {"idle", "defrag", "gap", "arran"}
  /\ p \in Nat /\ q \in Nat
  /\ ret.call \in {"init", "reg", "rm", "upd", "defrag"} /\ ret.value \in {0, -1}

(* The assertion in frag_arran: whatever was removed from a full book, a   *)
(* live slot is only ever moved towards the front, into a dead one.        *)
ArranAssertion == op = "arran" /\ q <= Len(frags) /\ frags[q].live => dst < q

(* frag_arran leaves the live fragments in front, and a refused frag_reg   *)
(* has neither lost, doubled nor reordered any of them: in the order they  *)
(* stand frag_query answers, and book_anal_ctrlf_cnf takes the first.      *)
Kept == SelectSeq(frags, LAMBDA f : f.live)

CompactionKeepsOrder ==
  [][op = "gap" \/ op = "arran" =>
       /\ Kept' = Kept
       /\ op' = "idle" => SubSeq(frags, 1, Len(Kept)) = Kept]_vars

(* The book seen as a set of notes. *)
Note(f) == [begin |-> f.begin, end |-> f.end]

NotesOf(slots) == {Note(slots[i]) : i \in {k \in 1 .. Len(slots) : slots[k].live}}

Book == INSTANCE Coverage WITH notes <- NotesOf(frags)

(* The note book is one: registering, removing and updating touch only the *)
(* fragment named, and merging and compacting lose no covered address and  *)
(* no fragment.                                                            *)
IsCoverage == Book!Spec

(* The loops end. *)
CallsReturn == []<>(op = "idle")
=============================================================================
