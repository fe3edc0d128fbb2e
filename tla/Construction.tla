----------------------------- MODULE Construction -----------------------------
(***************************************************************************)
(* Billing work on a project (construction/site.service.ts): running bills *)
(* to the client against the bill of quantities and the mobilization       *)
(* advance, and subcontractors' bills against a work order.                *)
(*                                                                         *)
(* There is one project and one work order on it.  Rates are one, so the   *)
(* gross amount of a bill is the quantity it measures; VAT and retention   *)
(* follow from it and are left out.  Paying the invoice of a running bill  *)
(* is the module Settlement's and one step here.                           *)
(*                                                                         *)
(* An operator Mut... is a defective variant of the definition after it,   *)
(* which a run must tell from the real one; no other definition uses it.   *)
(***************************************************************************)
EXTENDS Integers, FiniteSets, Sequences, Sums

CONSTANTS Items,        \* items of the bill of quantities
          WorkLines,    \* lines of the work order
          Ordered,      \* Ordered[w]: the quantity a line of the work order has
          Quantities,   \* what an item's quantity is set to
          RaBills,      \* running bills
          SubBills,     \* subcontractors' bills
          Measures,     \* what a bill may measure
          Advance,      \* the project's mobilizationAdvance
          Percent,      \* its advanceRecoveryPercent
          Requests,
          None          \* no value

Line == [of : Items \cup WorkLines, qty : Nat \ {0}]

ASSUME MeasuresAssumption == Measures \subseteq Seq(Line) \ {<<>>}
ASSUME QuantitiesAssumption ==
    /\ Ordered \in [WorkLines -> Nat]
    /\ Quantities \subseteq Nat
    /\ Advance \in Nat /\ Percent \in 0..100
ASSUME RowsAssumption ==
    /\ IsFiniteSet(RaBills) /\ IsFiniteSet(SubBills)
    /\ Items \cap WorkLines = {} /\ RaBills \cap SubBills = {}
    /\ None \notin Items \cup RaBills \cup SubBills

VARIABLES boq,        \* boq[i]: the quantity of an item and what of it is executed
          ra,         \* ra[b]: the running bill and its lines
          invoice,    \* invoice[b]: the client's invoice for it
          executed,   \* executed[w]: executedQty of a line of the work order
          sub,        \* sub[s]: the lines of the subcontractor's bill
          req,        \* req[r]: what request r is doing
          locks,      \* row locks held by open transactions
          overtaken   \* bills and items written after what their request had
                      \* read changed (a history variable)

rows == <<boq, ra, invoice, executed, sub, overtaken>>
vars == <<rows, req, locks>>

\* "journal" is the last sequence row that a posting takes; the rows of the
\* documents' own sequences come before it in every posting.
L == INSTANCE RowLocks WITH Rows <- RaBills \cup {"project", "work_order", "journal"}

-------------------------------------------------------------------------------
(* Rows                                                                    *)

BoqItem == [qty : Nat, executed : Nat]
RaBill  == [status : {"none", "draft", "approved", "cancelled"}, sequence : Nat,
            lines : Seq(Line), previous : [Items -> Nat], recovery : Nat]
Invoice == [status : {"none", "posted", "cancelled"}, paid : BOOLEAN]

NoBill == [status |-> "none", sequence |-> 0, lines |-> <<>>,
           previous |-> [i \in Items |-> 0], recovery |-> 0]

Are(status) == {b \in RaBills : ra[b].status = status}

Largest(S) == CHOOSE n \in S \cup {0} : \A m \in S : m <= n

\* The quantity that lines measure of x, and of everything.
QtyOf(lines, x) ==
    SumOver([n \in DOMAIN lines |-> IF lines[n].of = x THEN lines[n].qty ELSE 0])
Gross(lines) == SumOver([n \in DOMAIN lines |-> lines[n].qty])

Measure(lines, S) == \A n \in DOMAIN lines : lines[n].of \in S

\* What the approved bills have recovered of the advance.
Recovered == SumOver([b \in Are("approved") |-> ra[b].recovery])

\* Each line by itself is within the quantity.
WithinEach(lines) ==
    \A n \in DOMAIN lines :
        boq[lines[n].of].executed + lines[n].qty <= boq[lines[n].of].qty

\* pct: rounded half up.
Share(gross) == (2 * gross * Percent + 100) \div 200

\* computeRaBill: what a bill recovers of the advance that is outstanding.
Recovery(gross, outstanding) ==
    IF outstanding <= 0 THEN 0
    ELSE IF Share(gross) < outstanding THEN Share(gross) ELSE outstanding

-------------------------------------------------------------------------------
(* Requests                                                                *)

Operations == {"create", "approve", "cancel", "save", "measure"}
Steps == {"idle", "project", "advance", "bill", "order", "journal", "commit"}

ASSUME NoneAssumption == None \notin Operations

\* on: the row it is about; lines: what it measures; previous: executedQty as it
\* read it; was: the status of the bill as it read it; num: the sequence number,
\* or the quantity to set; recovery: what it recovers; fresh: nothing that it checked has changed since (history).
Request == [step : Steps, op : Operations \cup {None},
            on : Items \cup RaBills \cup SubBills \cup {None}, lines : Seq(Line),
            previous : [Items -> Nat], was : {"none", "draft", "approved"},
            num : Nat, recovery : Nat, fresh : BOOLEAN]

Idle == [step |-> "idle", op |-> None, on |-> None, lines |-> <<>>,
         previous |-> [i \in Items |-> 0], was |-> "none", num |-> 0, recovery |-> 0,
         fresh |-> TRUE]

Begin(r, step, op, on, lines, num) ==
    /\ req[r] = Idle
    /\ req' = [req EXCEPT ![r] = [Idle EXCEPT !.step = step, !.op = op, !.on = on,
                                              !.lines = lines, !.num = num]]
    /\ UNCHANGED <<rows, locks>>

At(r, op, step) == req[r].op = op /\ req[r].step = step

\* Request r ends; those in S had relied on what it changes.
End(r, S) ==
    /\ req' = [q \in Requests |-> IF q = r THEN Idle
                                  ELSE [req[q] EXCEPT !.fresh = @ /\ q \notin S]]
    /\ L!EndTransaction(r)

Wrote(r) == overtaken' = IF req[r].fresh THEN overtaken ELSE overtaken \cup {req[r].on}

\* Requests past the check of an approval or a cancellation.
Past(op) == {q \in Requests : req[q].op = op /\ req[q].step \in {"journal", "commit"}}

Fresh(x) == \A q \in Requests : req[q].on # x

-------------------------------------------------------------------------------
(* Drafting a running bill                                                 *)

BeginCreate(r, b, lines) ==
    /\ ra[b] = NoBill /\ Fresh(b)
    /\ Measure(lines, Items)
    /\ Begin(r, "project", "create", b, lines, 0)

MutLockProject(r) ==
    /\ At(r, "create", "project")
    /\ Are("draft") = {}
    /\ WithinEach(req[r].lines)
    /\ req' = [req EXCEPT ![r] = [@ EXCEPT !.step = "advance",
                                          !.previous = [i \in Items |-> boq[i].executed]]]
    /\ UNCHANGED <<rows, locks>>

\* createRaBill locks the project, so that a project has one pending bill, and
\* reads the bill of quantities ...
LockProject(r) ==
    /\ At(r, "create", "project")
    /\ L!Lock(r, "project")
    /\ Are("draft") = {}
    /\ WithinEach(req[r].lines)
    /\ req' = [req EXCEPT ![r] = [@ EXCEPT !.step = "advance",
                                          !.previous = [i \in Items |-> boq[i].executed]]]
    /\ UNCHANGED rows

\* ... and what is recovered of the advance.
ReadAdvance(r) ==
    /\ At(r, "create", "advance")
    /\ req' = [req EXCEPT ![r] =
                  [@ EXCEPT !.step = "commit",
                            !.recovery = Recovery(Gross(req[r].lines), Advance - Recovered),
                            !.num = Largest({ra[b].sequence : b \in RaBills}) + 1]]
    /\ UNCHANGED <<rows, locks>>

CommitCreate(r) ==
    /\ At(r, "create", "commit")
    /\ ra' = [ra EXCEPT ![req[r].on] =
                 [status |-> "draft", sequence |-> req[r].num, lines |-> req[r].lines,
                  previous |-> req[r].previous, recovery |-> req[r].recovery]]
    /\ End(r, {})
    /\ UNCHANGED <<boq, invoice, executed, sub, overtaken>>

-------------------------------------------------------------------------------
(* Approving and cancelling a running bill                                 *)

BeginApprove(r, b) == ra[b] # NoBill /\ Begin(r, "bill", "approve", b, <<>>, 0)
BeginCancel(r, b)  == ra[b] # NoBill /\ Begin(r, "bill", "cancel", b, <<>>, 0)

MutApprovable(b) == ra[b].status = "draft"

\* The bill of quantities is read without a lock.
Approvable(b) == ra[b].status = "draft" /\ WithinEach(ra[b].lines)

MutLatest(b) == TRUE
Latest(b) == \A c \in Are("approved") : ra[c].sequence <= ra[b].sequence

\* The other bills and the invoice are read without a lock.
Cancellable(b) ==
    \/ ra[b].status = "draft"
    \/ ra[b].status = "approved" /\ Latest(b) /\ ~invoice[b].paid

MayPass(r) == IF req[r].op = "approve" THEN Approvable(req[r].on) ELSE Cancellable(req[r].on)

\* approveRaBill and cancelRaBill lock the bill and check it.
LockBill(r) ==
    LET b == req[r].on IN
    /\ req[r].op \in {"approve", "cancel"} /\ req[r].step = "bill"
    /\ L!Lock(r, b)
    /\ MayPass(r)
    /\ req' = [req EXCEPT ![r] =
                  [@ EXCEPT !.step = IF At(r, "cancel", "bill") /\ ra[b].status = "draft"
                                     THEN "commit" ELSE "journal",
                            !.was = ra[b].status]]
    /\ UNCHANGED rows

\* The entry of the invoice, or of its reversal, takes a journal number.
TakeJournalNumber(r) ==
    /\ req[r].step = "journal"
    /\ L!Lock(r, "journal")
    /\ req' = [req EXCEPT ![r].step = "commit"]
    /\ UNCHANGED rows

\* What is executed once the lines of b are added, or taken back.
Executed(b, sign) ==
    [i \in Items |-> [boq[i] EXCEPT !.executed = @ + sign * QtyOf(ra[b].lines, i)]]

CommitApprove(r) ==
    LET b == req[r].on IN
    /\ At(r, "approve", "commit")
    /\ ra' = [ra EXCEPT ![b].status = "approved"]
    /\ boq' = Executed(b, 1)
    /\ invoice' = [invoice EXCEPT ![b].status = "posted"]
    /\ Wrote(r)
    /\ End(r, Past("cancel") \cup {q \in Requests : req[q].op = "save"})
    /\ UNCHANGED <<executed, sub>>

TakenBack(b) == Executed(b, -1)

CommitCancel(r) ==
    LET b == req[r].on IN
    /\ At(r, "cancel", "commit")
    /\ IF req[r].was = "approved"
       THEN boq' = TakenBack(b) /\ invoice' = [invoice EXCEPT ![b].status = "cancelled"]
       ELSE UNCHANGED <<boq, invoice>>
    /\ ra' = [ra EXCEPT ![b].status = "cancelled"]
    /\ Wrote(r)
    /\ End(r, {})
    /\ UNCHANGED <<executed, sub>>

\* A payment settles the invoice; taking it back makes the invoice "posted",
\* whatever it was.
PayInvoice(b) ==
    /\ invoice[b].status = "posted" /\ ~invoice[b].paid
    /\ invoice' = [invoice EXCEPT ![b].paid = TRUE]
    /\ req' = [q \in Requests |->
                  [req[q] EXCEPT !.fresh = @ /\ ~(q \in Past("cancel") /\ req[q].on = b)]]
    /\ UNCHANGED <<boq, ra, executed, sub, locks, overtaken>>

UnpayInvoice(b) ==
    /\ invoice[b].paid
    /\ invoice' = [invoice EXCEPT ![b] = [status |-> "posted", paid |-> FALSE]]
    /\ UNCHANGED <<boq, ra, executed, sub, req, locks, overtaken>>

-------------------------------------------------------------------------------
(* The quantity of an item                                                 *)

\* saveBoqItem checks the quantity against what is executed ...
BeginSave(r, i, qty) ==
    /\ qty >= boq[i].executed
    /\ Begin(r, "commit", "save", i, <<>>, qty)

\* ... and writes it; approvals that had read the old one go on.
CommitSave(r) ==
    LET i == req[r].on IN
    /\ At(r, "save", "commit")
    /\ boq' = [boq EXCEPT ![i].qty = req[r].num]
    /\ overtaken' = IF req[r].fresh THEN overtaken ELSE overtaken \cup {i}
    /\ End(r, IF req[r].num < boq[i].qty THEN Past("approve") ELSE {})
    /\ UNCHANGED <<ra, invoice, executed, sub>>

-------------------------------------------------------------------------------
(* Subcontractors' bills                                                   *)

BeginMeasure(r, s, lines) ==
    /\ sub[s] = <<>> /\ Fresh(s)
    /\ Measure(lines, WorkLines)
    /\ Begin(r, "order", "measure", s, lines, 0)

\* Each line is compared with what was executed before this bill.
Measurable(lines) ==
    \A n \in DOMAIN lines : executed[lines[n].of] + lines[n].qty <= Ordered[lines[n].of]

MutLockWorkOrder(r) ==
    /\ At(r, "measure", "order")
    /\ Measurable(req[r].lines)
    /\ req' = [req EXCEPT ![r].step = "journal"]
    /\ UNCHANGED <<rows, locks>>

\* createSubcontractBill locks the work order and checks what is measured.
LockWorkOrder(r) ==
    /\ At(r, "measure", "order")
    /\ L!Lock(r, "work_order")
    /\ Measurable(req[r].lines)
    /\ req' = [req EXCEPT ![r].step = "journal"]
    /\ UNCHANGED rows

CommitMeasure(r) ==
    /\ At(r, "measure", "commit")
    /\ sub' = [sub EXCEPT ![req[r].on] = req[r].lines]
    /\ executed' = [w \in WorkLines |-> executed[w] + QtyOf(req[r].lines, w)]
    /\ End(r, {})
    /\ UNCHANGED <<boq, ra, invoice, overtaken>>

-------------------------------------------------------------------------------
(* Requests that end without a commit                                      *)

\* A check inside the transaction refuses what it reads.
Refuse(r) ==
    /\ \/ At(r, "create", "project") /\ L!Available(r, "project")
          /\ ~(Are("draft") = {} /\ WithinEach(req[r].lines))
       \/ req[r].step = "bill" /\ L!Available(r, req[r].on) /\ ~MayPass(r)
       \/ req[r].step = "order" /\ L!Available(r, "work_order") /\ ~Measurable(req[r].lines)
    /\ End(r, {})
    /\ UNCHANGED rows

\* A locked period, a lost connection, a restart, a deadlock's victim.
Fail(r) ==
    /\ req[r] # Idle
    /\ End(r, {})
    /\ UNCHANGED rows

-------------------------------------------------------------------------------
(* The specification                                                       *)

Init ==
    /\ boq \in [Items -> [qty : Quantities, executed : {0}]]
    /\ ra = [b \in RaBills |-> NoBill]
    /\ invoice = [b \in RaBills |-> [status |-> "none", paid |-> FALSE]]
    /\ executed = [w \in WorkLines |-> 0]
    /\ sub = [s \in SubBills |-> <<>>]
    /\ req = [r \in Requests |-> Idle]
    /\ L!NoLocks
    /\ overtaken = {}

Start(r) ==
    \/ \E b \in RaBills, lines \in Measures : BeginCreate(r, b, lines)
    \/ \E b \in RaBills : BeginApprove(r, b) \/ BeginCancel(r, b)
    \/ \E i \in Items, qty \in Quantities : BeginSave(r, i, qty)
    \/ \E s \in SubBills, lines \in Measures : BeginMeasure(r, s, lines)

Proceed(r) ==
    \/ LockProject(r) \/ ReadAdvance(r) \/ LockBill(r) \/ LockWorkOrder(r)
    \/ TakeJournalNumber(r)
    \/ CommitCreate(r) \/ CommitApprove(r) \/ CommitCancel(r) \/ CommitSave(r)
    \/ CommitMeasure(r)
    \/ Refuse(r)

Next ==
    \/ \E b \in RaBills : PayInvoice(b) \/ UnpayInvoice(b)
    \/ \E r \in Requests : Start(r) \/ Proceed(r) \/ Fail(r)

Spec == Init /\ [][Next]_vars

-------------------------------------------------------------------------------
(* Properties                                                              *)

TypeOK ==
    /\ boq \in [Items -> BoqItem]
    /\ ra \in [RaBills -> RaBill]
    /\ invoice \in [RaBills -> Invoice]
    /\ executed \in [WorkLines -> Nat]
    /\ sub \in [SubBills -> Seq(Line)]
    /\ req \in [Requests -> Request]
    /\ L!LocksTypeOK
    /\ overtaken \subseteq RaBills \cup Items

Twice(lines, x) == Cardinality({n \in DOMAIN lines : lines[n].of = x}) > 1

\* What is executed of an item is what the approved bills measure of it, none
\* added or taken back twice.  It is never more than the item's quantity, unless
\* one bill names the item twice, or its quantity was reduced while an approval
\* that had read it was on its way.
WithinBoq ==
    \A i \in Items :
        /\ boq[i].executed = SumOver([b \in Are("approved") |-> QtyOf(ra[b].lines, i)])
        /\ \/ boq[i].executed <= boq[i].qty
           \/ i \in overtaken
           \/ \E b \in Are("approved") : Twice(ra[b].lines, i) \/ b \in overtaken

\* The approved bills never recover more than the advance: each is drafted while
\* no other is pending.
AdvanceWithinReach == Recovered <= Advance

\* Bills are cancelled from the latest one back and before they are paid, unless
\* another was approved, or the invoice paid, after the request had looked.
CancelledIsLatest ==
    [][\A b \in RaBills \ overtaken' :
          ra[b].status = "approved" /\ ra'[b].status = "cancelled" =>
              /\ \A c \in Are("approved") : ra[c].sequence <= ra[b].sequence
              /\ ~invoice[b].paid]_vars

\* A line of the work order is measured up to its quantity, and what is executed
\* of it is what the bills say, unless one bill names it twice.
MeasuredOnce ==
    \A w \in WorkLines :
        /\ executed[w] = SumOver([s \in SubBills |-> QtyOf(sub[s], w)])
        /\ executed[w] <= Ordered[w] \/ \E s \in SubBills : Twice(sub[s], w)

===============================================================================
