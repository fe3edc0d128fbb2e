--------------------------- MODULE MCSettlementLive ---------------------------
(* Two posted documents of one customer and two receipts: payments and     *)
(* cancellations that lock the same documents, each in its own order.      *)
EXTENDS Settlement

CONSTANTS d1, d2, p1, p2, r1, r2, customer

MCOwner == [d \in Docs |-> customer]
MCSide  == [o \in Owners |-> "in"]

\* As after CommitCreate of every document.
LiveInit ==
    /\ \E total \in Totals : doc = [d \in Docs |-> PostedRow(Draft(total))]
    /\ pay = [p \in Pays |-> NoPay]
    /\ entry = [s \in Sources |-> IF s \in Docs THEN [status |-> "posted", mirrors |-> 0]
                                                ELSE NoEntry]
    /\ req = [r \in Requests |-> Idle]
    /\ L!NoLocks
    /\ stale = {} /\ filled = {}

LiveStart(r) ==
    \/ \E d \in Docs : BeginCancel(r, d)
    \/ \E p \in Pays, owner \in Owners, gross \in Amounts,
          alloc \in [Docs -> Amounts \cup {0}] :
           \E order \in Orders(Allocated(alloc)) :
               BeginPay(r, p, owner, gross, alloc, order)
    \/ \E p \in Pays : \E order \in Orders(pay[p].docs) :
           BeginCancelPay(r, p, order)

LiveNext == \E r \in Requests : LiveStart(r) \/ Proceed(r) \/ Fail(r) \/ DeadlockVictim(r)

LiveSpec == LiveInit /\ [][LiveNext]_vars /\ Fairness
================================================================================
