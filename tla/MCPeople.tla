------------------------------- MODULE MCPeople -------------------------------
(* A clerk on a salary, a worker at a site on a daily wage, three days of  *)
(* which the last is a Friday, and one day of unpaid leave a year.         *)
EXTENDS People, TLC

CONSTANTS clerk, worker, l1, l2, r1, r2

Clerk  == [daily |-> FALSE, site |-> FALSE, wage |-> 0, basic |-> 300, allowances |-> 100,
           pf |-> 10, overtime |-> 0, taxed |-> TRUE]
Worker == [daily |-> TRUE, site |-> TRUE, wage |-> 25, basic |-> 0, allowances |-> 0,
           pf |-> 0, overtime |-> 0, taxed |-> FALSE]

MCTerms == (clerk :> {Clerk}) @@ (worker :> {Worker, None})

Is(mark) == [mark |-> mark, hours |-> IF mark = "late" THEN 2 ELSE 0]
MCSheets == {[day |-> 1, records |-> (clerk :> Is(mark)) @@ (worker :> Is("late"))] :
                mark \in {"absent", "half_day"}}

Ask(from, to) == [employee |-> clerk, type |-> "lwp", from |-> from, to |-> to]
MCForms == {Ask(1, 1), Ask(2, 3)}
MCEntitled == [t \in {"lwp"} |-> 1]

MCSettings == [bonusPercent |-> 50, workingDays |-> 2, exemptionCap |-> 1000, minimumTax |-> 120,
               slabs |-> <<[upTo |-> 2000, rate |-> 0], [upTo |-> 3000, rate |-> 5],
                           [upTo |-> None, rate |-> 10]>>]

MCSymmetry == Permutations(Leaves) \cup Permutations(Requests)
================================================================================
