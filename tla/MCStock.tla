-------------------------------- MODULE MCStock --------------------------------
(* Two items and two warehouses.  The opening stock of rod has a cost that *)
(* does not divide evenly; sand may be free, so issuing it posts no entry. *)
EXTENDS Stock, TLC

CONSTANTS rod, sand, y1, y2, w1, w2, r1, r2, d1, d2, d3

Line(i, q, c) == [item |-> i, qty |-> q, cost |-> c]
Body(type, y, f, t, lines, forSite) ==
    [type |-> type, year |-> y, from |-> f, to |-> t, lines |-> lines, siteReq |-> forSite]

Half == [num |-> 1, den |-> 2]
Zero == [num |-> 0, den |-> 1]

Opening == Line(rod, 3, Half)

\* What the averages are checked with.
MCMoves == {
    Body("opening", y1, w1, w1, <<Opening>>, FALSE),
    Body("transfer", y1, w1, w2, <<Line(rod, 1, None)>>, FALSE),
    Body("transfer", y1, w2, w1, <<Line(rod, 1, None)>>, FALSE),
    Body("adjustment", y1, w1, w1, <<Line(rod, -1, None), Line(rod, 2, None)>>, FALSE),
    Body("issue", y1, w1, w1, <<Line(rod, 2, None)>>, FALSE)}

\* What fulfils the requisition.
MCIssues == {
    Body("opening", y1, w1, w1, <<Opening, Line(sand, 1, Zero)>>, FALSE),
    Body("opening", y1, w1, w1, <<Opening, Line(sand, 1, Half)>>, FALSE),
    Body("issue", y1, w1, w1, <<Line(rod, 2, None)>>, TRUE),
    Body("issue", y2, w1, w1, <<Line(sand, 1, None)>>, TRUE),
    Body("issue", y1, w1, w1, <<Line(sand, 1, None)>>, TRUE),
    Body("issue", y1, w1, w1, <<Line(rod, 1, None), Line(sand, 1, None)>>, TRUE)}

\* Two lines ask for rod, one of them for less.
MCWanted == [i \in Items |-> IF i = rod THEN {1, 2} ELSE {1}]
InUse == ({doc[d].body : d \in Docs} \cup {req[r].body : r \in Requests}) \ {None}

\* One question or the other; what the averages are checked with has no requisition.
MCScenario ==
    \/ InUse \subseteq MCIssues
    \/ /\ InUse \subseteq MCMoves
       /\ siteReq = "draft" /\ \A r \in Requests : req[r].op # "decide"

MCBodies == MCMoves \cup MCIssues
MCSymmetry == Permutations(Docs) \cup Permutations(Requests)
================================================================================
