----------------------------- MODULE MCProcurement -----------------------------
(* Either one order of two lines with one item, with deliveries of one     *)
(* line, of both, and of one line twice, and two bills; or two short       *)
(* orders for one requisition, with one receipt.                           *)
EXTENDS Procurement, TLC

CONSTANTS q1, o1, o2, g1, g2, b1, b2, r1, r2

Part(l, q) == [line |-> l, qty |-> q]
Paid == [item |-> 1, qty |-> 2, price |-> 1]
Free == [item |-> 1, qty |-> 1, price |-> 0]

Long  == <<Paid, Free>>
Short == <<Paid>>

MCBodies     == {Long, Short}
MCDeliveries == {<<Part(1, 2)>>, <<Part(1, 1), Part(2, 1)>>, <<Part(1, 1), Part(1, 2)>>,
                 <<Part(2, 1)>>}

InUse(row, none, field) ==
    {i \in DOMAIN row : row[i] # none \/ \E r \in Requests : req[r][field] = i}

Orderly(body) ==
    /\ \A o \in Orders : order[o].lines \in {<<>>, body}
    /\ \A r \in Requests : req[r].body \in {<<>>, body}

OneOrder ==
    /\ requisition = [p \in Requisitions |-> "none"]
    /\ Cardinality(InUse(order, NoOrder, "order")) <= 1
    /\ Orderly(Long)

OneRequisition ==
    /\ Orderly(Short)
    /\ Cardinality(InUse(receipt, NoReceipt, "receipt")) <= 1
    /\ \A r \in Requests : req[r].bill = None /\ Len(req[r].lines) <= 1

\* Explored are the states of two scenarios, each as far as it goes.
MCScenario == OneOrder \/ OneRequisition

MCSymmetry == Permutations(Orders) \cup Permutations(Receipts) \cup Permutations(Bills)
                \cup Permutations(Requests)
================================================================================
