------------------------------- MODULE MCVentures -------------------------------
(* Ventures in parts, of which the first state takes one, in the variable   *)
(* part, and in which the others stay as they are: two quotations and two   *)
(* project codes; bookings of an agreement while the profit of two days     *)
(* changes, and while its own terms change; contributions and payouts of    *)
(* two investors; two candidates for one or two positions of a job order;   *)
(* the stages of a case.                                                    *)
EXTENDS Ventures, FiniteSets, TLC

CONSTANTS i1, i2, a1, m1, m2, m3, j1, c1, c2, k1, k2, q1, q2, p1, p2, o1, o2, r1, r2

VARIABLE part

Agreed(losses, status) == [investor |-> i1, percent |-> 50, losses |-> losses, status |-> status]
Half       == Agreed(TRUE, "active")
Withdrawn  == Agreed(FALSE, "cancelled")
First      == [from |-> 1, to |-> 1]
Both       == [from |-> 1, to |-> 2]

MCTerms    == {Half, Withdrawn}
MCManual   == {Nil, -1}
MCPeriods  == {First, Both}
MCProfits  == {-2, 4}
MCJobEdits == {[positions |-> 1, status |-> Nil], [positions |-> Nil, status |-> "open"]}

MCInit ==
    /\ part \in {"quotations", "bookings", "changes", "cash", "vacancies", "milestones"}
    /\ VenturesInit
    /\ part # "bookings" => profit[2] = 4 /\ (part # "changes" => profit[1] = 4)

Investing ==
    \/ /\ part = "bookings"
       /\ \/ I!Agree({a1}, {Half}) \/ I!Share({First, Both}, {Nil}, {m1, m2}) \/ I!Cancel
          \/ \E d \in {1, 2}, n \in MCProfits : I!PostProject(d, n)
    \/ /\ part = "changes"
       /\ \/ I!Agree({a1}, {Half, Withdrawn}) \/ I!Share({First}, {Nil, -1}, {m1, m2}) \/ I!Cancel
          \/ \E n \in MCProfits : I!PostProject(1, n)
    \/ part = "cash" /\ (I!Pay \/ I!Cancel)

Recruiting ==
    \/ part = "vacancies" /\ (E!Order \/ E!Open \/ E!Update({"on_hold", "withdrawn"}))
    \/ part = "milestones" /\ (E!Open \/ E!Advance \/ E!Update({"active", "withdrawn"}))

MCNext ==
    /\ UNCHANGED part
    /\ \/ Investing /\ UNCHANGED <<recruitVars, quoteVars>>
       \/ Recruiting /\ UNCHANGED <<investVars, quoteVars>>
       \/ part = "quotations" /\ Q!Next /\ UNCHANGED <<investVars, recruitVars>>

MCSpec == MCInit /\ [][MCNext]_<<ventures, part>>

\* The stages are those of one case of one candidate.
MCScenario ==
    part = "milestones" =>
        /\ Cardinality({k \in Cases : case[k] # Nil}) <= 1
        /\ Cardinality(({case[k].candidate : k \in {k \in Cases : case[k] # Nil}}
                         \cup {recruiting[r].candidate : r \in Clerks}) \ {Nil}) <= 1

\* Whatever a part has two of can be swapped, and what other parts have with it.
Swap == (m1 :> m2) @@ (m2 :> m1) @@ (c1 :> c2) @@ (c2 :> c1) @@ (k1 :> k2) @@ (k2 :> k1)
        @@ (q1 :> q2) @@ (q2 :> q1) @@ (p1 :> p2) @@ (p2 :> p1)

MCSymmetry == Permutations(Clerks) \cup {Swap}
================================================================================
