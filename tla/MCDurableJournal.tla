-------------------------- MODULE MCDurableJournal --------------------------
(* DurableJournal with three measurements: two that share nothing, and one   *)
(* that reuses the receipt of the first and the experience of the second.    *)
EXTENDS DurableJournal

Item(r, x, a, arm) == [receipt |-> r, exp |-> x, action |-> a, arm |-> arm]

ThreeItems == {Item(1, 1, 1, "cpu"), Item(2, 2, 2, "gpu"), Item(1, 2, 3, "cpu")}

TwoArms == {"cpu", "gpu"}
=============================================================================
