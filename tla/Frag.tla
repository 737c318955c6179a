-------------------------------- MODULE Frag --------------------------------
(***************************************************************************)
(* A fragment of the address space as fragcov.c keeps it: its first and    *)
(* last address and whether its slot of the array is live (_sta is 0).  A  *)
(* control flow still being followed is noted with the end 0, so a         *)
(* fragment's end may lie before its beginning.                            *)
(***************************************************************************)
EXTENDS Integers, Sequences

CONSTANT Addr   (* the addresses: an initial part of the naturals *)

ASSUME AddrAssumption == Addr \subseteq Nat

Slot(live, begin, end) == [live |-> live, begin |-> begin, end |-> end]

SlotSet == [live : BOOLEAN, begin : Addr, end : Addr]

Lower(m, n) == IF m < n THEN m ELSE n
Higher(m, n) == IF m > n THEN m ELSE n

(* is_frag_overlap: whether an end of a lies in b.  Not symmetric: nothing *)
(* is found when b lies inside of a.                                       *)
Overlap(a, b) ==
  \/ a.begin >= b.begin /\ a.begin <= b.end
  \/ a.end >= b.begin /\ a.end <= b.end

(* is_frag_include: whether outer spans from before inner to behind it.    *)
Include(outer, inner) == inner.begin >= outer.begin /\ inner.end <= outer.end

(* What dst becomes in frag_merge.  A name with _ is a mistake that could  *)
(* be made where the definition after it stands; no definition uses it.    *)
Hull_KeepsBegin(dst, tar) == Slot(TRUE, dst.begin, Higher(dst.end, tar.end))

Hull(dst, tar) ==
  Slot(TRUE, Lower(dst.begin, tar.begin), Higher(dst.end, tar.end))

Dead(f) == Slot(FALSE, f.begin, f.end)

(* The body of fragbook_defrag's inner loop for the slots i and j. *)
MergeSlots(frags, i, j) ==
  IF frags[j].live /\ Overlap(frags[i], frags[j])
  THEN [frags EXCEPT ![i] = Hull(frags[i], frags[j]), ![j] = Dead(frags[j])]
  ELSE frags

(* The first slot from k on that is, or is not, live; or the one behind    *)
(* the last.                                                               *)
NextSlot(frags, k, live) ==
  LET found == {i \in k .. Len(frags) : frags[i].live = live}
  IN  IF found = {} THEN Len(frags) + 1
      ELSE CHOOSE i \in found : \A j \in found : i <= j

(* frag_query: is there a live fragment that spans the one from begin to   *)
(* end?                                                                    *)
Query(frags, begin, end) ==
  \E i \in 1 .. Len(frags) :
    frags[i].live /\ Include(frags[i], Slot(TRUE, begin, end))
=============================================================================
