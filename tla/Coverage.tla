------------------------------ MODULE Coverage ------------------------------
(***************************************************************************)
(* What a fragment note book promises: it holds a set of notes, each a     *)
(* range of addresses.  Notes are added, dropped and changed one at a time *)
(* by the caller; the book itself may only join them, which covers the     *)
(* same addresses and leaves every note findable inside another.           *)
(***************************************************************************)
EXTENDS Integers

CONSTANT Addr

VARIABLE notes

Note == [begin : Addr, end : Addr]

Covered(S) == {x \in Addr : \E n \in S : n.begin <= x /\ x <= n.end}

Within(n, m) == m.begin <= n.begin /\ n.end <= m.end

Init == notes = {}

Add(n) == notes' = notes \cup {n}

Drop(n) == notes' = notes \ {n}

(* The end of n is moved; another note like n may stay. *)
Change(n, end) ==
  notes' = (notes \ {n}) \cup {[begin |-> n.begin, end |-> end]}

Join ==
  /\ Covered(notes') = Covered(notes)
  /\ \A n \in notes : \E m \in notes' : Within(n, m)

Next ==
  \/ \E n \in Note : Add(n)
  \/ \E n \in notes : Drop(n)
  \/ \E n \in notes, end \in Addr : Change(n, end)
  \/ Join

Spec == Init /\ [][Next]_notes
=============================================================================
