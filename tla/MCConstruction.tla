---------------------------- MODULE MCConstruction ----------------------------
(* One item, which a bill may name twice, and one line of a work order.    *)
EXTENDS Construction, TLC

CONSTANTS slab, lift, a1, a2, s1, s2, r1, r2

Part(x, q) == [of |-> x, qty |-> q]
MCMeasures == {<<Part(slab, 1)>>, <<Part(slab, 2)>>, <<Part(slab, 2), Part(slab, 1)>>,
               <<Part(lift, 1)>>}
MCOrdered  == [w \in WorkLines |-> 1]
MCSymmetry == Permutations(RaBills) \cup Permutations(SubBills) \cup Permutations(Requests)
===============================================================================
