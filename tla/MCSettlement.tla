----------------------------- MODULE MCSettlement -----------------------------
(* Two documents of one customer and two receipts: whole amounts over both *)
(* documents, or fractions of a paisa while one of them is in use.         *)
EXTENDS Settlement, TLC

CONSTANTS d1, d2, p1, p2, r1, r2, customer

MCOwner == [d \in Docs |-> customer]
MCSide  == [o \in Owners |-> "in"]

WholeAmounts == Amounts \cap Stored

\* No request names a fraction, and no fraction has left a trace.
Whole ==
    /\ filled = {} /\ \A d \in Docs : ~RoundedAway(d)
    /\ \A r \in Requests : req[r].op = "pay" =>
          {req[r].row.gross} \cup Range(req[r].row.alloc) \subseteq Stored

InUse == {d \in Docs : doc[d] # NoDoc \/ \E r \in Requests : req[r].src = d}

MCStart(r) ==
    /\ req[r] = Idle
    /\ \/ Whole /\ StartWith(r, Docs, WholeAmounts)
       \/ \E d \in Docs : InUse = {d} /\ StartWith(r, {d}, Amounts)

MCNext == \E r \in Requests : MCStart(r) \/ Proceed(r) \/ Fail(r) \/ DeadlockVictim(r)

MCSpec == Init /\ [][MCNext]_vars

MCSymmetry == Permutations(Docs) \cup Permutations(Pays) \cup Permutations(Requests)
===============================================================================
