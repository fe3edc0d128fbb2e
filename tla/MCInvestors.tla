------------------------------ MODULE MCInvestors ------------------------------
(* Investors on two questions: one agreement, whose terms and whose         *)
(* project's profit do not change, and one request at a time that books its *)
(* share of a day or of both days; and one request at a time that makes one *)
(* of two agreements, which are updated.                                    *)
EXTENDS Investors, TLC

CONSTANTS i1, a1, a2, m1, m2, r1

Agreed(percent) == [investor |-> i1, percent |-> percent, losses |-> TRUE, status |-> "active"]

MCTerms      == {Agreed(50)}
MCShareTerms == {Agreed(40), Agreed(60)}
MCPeriods == {[from |-> 1, to |-> 2], [from |-> 1, to |-> 1], [from |-> 2, to |-> 2]}
================================================================================
