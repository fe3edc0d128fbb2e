------------------------------- MODULE MCJournal -------------------------------
(* A bank account and another one, two bodies, the second one unbalanced.  *)
EXTENDS Journal, TLC

CONSTANTS bank, other, s1, s2, r1, r2

Line(a, x) == [account |-> a, amount |-> x]
MCBody   == {<<Line(bank, 1), Line(other, -1)>>}
MCBodies == MCBody \cup {<<Line(bank, 1), Line(other, -2)>>}
MCAmount == [s \in Statement |-> 1]
MCSymmetry == Permutations(Requests) \cup Permutations(Statement)
================================================================================
