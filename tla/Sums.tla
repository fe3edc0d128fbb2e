--------------------------------- MODULE Sums ---------------------------------
(* The sum of the values of a function, as the services' SQL and loops add  *)
(* up amounts and quantities.                                               *)
EXTENDS Integers, Functions

SumOver(f) == FoldFunction(LAMBDA m, n : m + n, 0, f)

================================================================================
