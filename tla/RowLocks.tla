------------------------------- MODULE RowLocks -------------------------------
(***************************************************************************)
(* The row locks PostgreSQL gives the services at READ COMMITTED, as they  *)
(* use them: SELECT ... FOR UPDATE, UPDATE and the number_sequences upsert *)
(* lock a row until the transaction ends; COMMIT and ROLLBACK release all  *)
(* of a transaction's rows at once; a request that needs a row another     *)
(* transaction holds waits, and once it gets the row it sees what was last *)
(* committed.  A plain SELECT takes no lock and waits for nothing.         *)
(*                                                                         *)
(* A service module instantiates this one with its own requests and rows   *)
(* and keeps what a transaction wrote inside the request until it commits, *)
(* so its other variables always hold committed rows.                      *)
(***************************************************************************)
EXTENDS FiniteSets

CONSTANTS Requests,   \* HTTP requests, each with at most one open transaction
          Rows        \* the rows that are ever locked

VARIABLE locks        \* locks[r]: the rows that r's open transaction holds

LocksTypeOK == locks \in [Requests -> SUBSET Rows]

NoLocks == locks = [r \in Requests |-> {}]

Available(r, row) == \A q \in Requests \ {r} : row \notin locks[q]

Lock(r, row) ==
    /\ Available(r, row)
    /\ locks' = [locks EXCEPT ![r] = @ \cup {row}]

EndTransaction(r) == locks' = [locks EXCEPT ![r] = {}]

(***************************************************************************)
(* PostgreSQL's deadlock detector: r belongs to a circle of requests, each *)
(* waiting for a row (its waits[q]) that another of the circle holds.      *)
(***************************************************************************)
InDeadlock(r, waits) ==
    \E S \in SUBSET Requests :
        /\ r \in S
        /\ \A q \in S : \E row \in waits[q] : \E h \in S \ {q} : row \in locks[h]

\* No row is locked by two transactions at once.
LocksExclusive ==
    \A q, r \in Requests : q # r => locks[q] \cap locks[r] = {}
================================================================================
