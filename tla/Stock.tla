--------------------------------- MODULE Stock ---------------------------------
(***************************************************************************)
(* Stock: weighted-average balances and their movements                    *)
(* (ledger/stock.service.ts), the documents that move stock                *)
(* (inventory/inventory.service.ts), what they post to the inventory       *)
(* accounts and what they issue to a site requisition.                     *)
(*                                                                         *)
(* A value is in cents; a quantity is in the smallest unit the columns     *)
(* keep, so a cost per unit is a fraction.  Posting a document is one      *)
(* transaction: tx[r] is what it has written and nobody else sees yet,     *)
(* and the variables hold what is committed.                               *)
(*                                                                         *)
(* An operator Mut... is a defective variant of the definition after it,   *)
(* which a run must tell from the real one; no other definition uses it.   *)
(***************************************************************************)
EXTENDS Integers, FiniteSets, Sequences, Sums

CONSTANTS Docs,        \* stock documents
          Items,
          Warehouses,
          Bodies,      \* what a document may carry
          Wanted,      \* Wanted[i]: the quantities of the requisition's lines of item i
          Years,       \* years documents are dated in
          Requests,
          None         \* no value

Types == {"issue", "transfer", "adjustment", "opening"}
Costs == [num : Nat, den : Nat \ {0}]
Lines == [item : Items, qty : Int, cost : Costs \cup {None}]

\* year: that of the document's date; siteReq: it is for the site requisition.
AllBodies == [type : Types, year : Years, from : Warehouses, to : Warehouses, lines : Seq(Lines),
              siteReq : BOOLEAN]

\* The request's schema: some line, and no line of zero.
WellFormed(body) == body.lines # <<>> /\ \A l \in DOMAIN body.lines : body.lines[l].qty # 0

ASSUME BodiesAssumption ==
    /\ Bodies \subseteq AllBodies
    /\ \A body \in Bodies : WellFormed(body)
    /\ None \notin AllBodies \cup Costs
\* A requisition has a line, and no line of zero; an item may be on several.
ASSUME WantedAssumption ==
    Wanted \in [Items -> SUBSET (Nat \ {0})] /\ \E i \in Items : Wanted[i] # {}
ASSUME DocsAssumption == IsFiniteSet(Docs) /\ Docs \cap {None, "siteReq"} = {}
ASSUME WarehousesAssumption == IsFiniteSet(Warehouses)

VARIABLES doc,       \* doc[d]: the stock document and its lines
          balance,   \* balance[k]: the row of stock_balances
          moved,     \* moved[k]: the sum of the stock_movements
          ledger,    \* ledger[i]: the balance of the inventory account of item i
          issued,    \* issued[i]: issuedQty, the same on every line of item i
          siteReq,   \* the status of the site requisition
          req,       \* req[r]: what request r is doing
          tx,        \* tx[r]: what its transaction has written
          locks,     \* row locks held by open transactions
          overtaken  \* history: documents deleted after somebody posted them, and
                     \* "siteReq" once its status may have missed an issue

rows == <<doc, balance, moved, ledger, issued, siteReq, overtaken>>
vars == <<rows, req, tx, locks>>

Keys == Items \X Warehouses

DocRow(d)     == <<"document", d>>
BalanceRow(k) == <<"balance", k[1], k[2]>>
LineRow(i)    == <<"requisition_lines", i>>
SiteReqRow    == <<"requisition">>
Sequence(type, year) == <<"sequence", type, year>>
Journal(year) == Sequence("journal", year)

AllRows == {DocRow(d) : d \in Docs} \cup {BalanceRow(k) : k \in Keys}
           \cup {LineRow(i) : i \in Items} \cup {SiteReqRow}
           \cup {"sequence"} \X (Types \cup {"journal"}) \X Years

L == INSTANCE RowLocks WITH Rows <- AllRows

-------------------------------------------------------------------------------
(* Weighted average                                                        *)

\* n / d rounded half up to a whole number.
Round(n, d) == (2 * n + d) \div (2 * d)

\* applyReceipt.
Receipt(b, qty, cost) ==
    [qty |-> b.qty + qty, value |-> b.value + Round(qty * cost.num, cost.den)]

MutIssue(b, qty) ==
    [qty |-> b.qty - qty, value |-> b.value - Round(qty * Round(b.value, b.qty), 1)]

\* applyIssue: the whole quantity takes the whole value.
Issue(b, qty) ==
    [qty   |-> b.qty - qty,
     value |-> IF qty = b.qty THEN 0 ELSE b.value - Round(qty * b.value, b.qty)]

Average(b) == IF b.qty = 0 THEN [num |-> 0, den |-> 1] ELSE [num |-> b.value, den |-> b.qty]

Abs(n) == IF n < 0 THEN -n ELSE n

\* The second move of a transfer's line brings in what the first took out.
Inbound(type, line, leg) ==
    \/ type = "opening"
    \/ type = "transfer" /\ leg = 2
    \/ type = "adjustment" /\ line.qty > 0

\* The unit cost of what comes in; out is the value the transfer took out.
UnitCost(b, type, line, out) ==
    IF type = "transfer" THEN [num |-> out, den |-> line.qty]
    ELSE IF line.cost = None THEN Average(b) ELSE line.cost

MutEnough(b, type, line, leg) == Inbound(type, line, leg) \/ b.qty > 0

Enough(b, type, line, leg) == Inbound(type, line, leg) \/ Abs(line.qty) <= b.qty

After(b, type, line, leg, out) ==
    IF Inbound(type, line, leg)
    THEN Receipt(b, line.qty, UnitCost(b, type, line, out))
    ELSE Issue(b, Abs(line.qty))

-------------------------------------------------------------------------------
(* Documents and requests                                                  *)

Document == [status : {"none", "draft", "posted", "deleted"}, body : AllBodies \cup {None}]
NoDocument == [status |-> "none", body |-> None]

Balance == [qty : Nat, value : Nat]
Empty   == [qty |-> 0, value |-> 0]
Change  == [qty : Int, value : Int]

Sum(x, y) == [qty |-> x.qty + y.qty, value |-> x.value + y.value]

\* validate: what a document must have to be created.
Valid(body) ==
    /\ body.type = "transfer" => body.from # body.to
    /\ \A l \in DOMAIN body.lines :
          /\ body.type # "adjustment" => body.lines[l].qty > 0
          /\ body.type = "opening" => body.lines[l].cost # None

SiteReqStatus == {"draft", "submitted", "approved", "rejected", "partially_fulfilled", "fulfilled"}
From == [submitted |-> {"draft"}, approved |-> {"draft", "submitted"}, rejected |-> {"draft", "submitted"}]

Operations == {"create", "post", "remove", "decide"}
ASSUME NoneAssumption == None \notin Operations
Steps == {"idle", "number", "document", "lines", "journal", "requisition", "commit"}

\* line, leg: the move to make next; status: what a decision or a posting
\* writes to the requisition; was: what a decision read of the requisition, a
\* removal of the document (history).
Request == [step : Steps, op : Operations \cup {None}, doc : Docs \cup {None},
            body : AllBodies \cup {None}, andPost : BOOLEAN, line : Nat, leg : {1, 2},
            status : SiteReqStatus \cup {None}, was : SiteReqStatus \cup {"posted", None}]

Idle == [step |-> "idle", op |-> None, doc |-> None, body |-> None, andPost |-> FALSE,
         line |-> 1, leg |-> 1, status |-> None, was |-> None]

\* held: the balances it has read FOR UPDATE; wrote: those balances as it
\* leaves them; net: the movements it inserted; gl: what it books on the
\* inventory accounts; books: some line of the entry is not zero; out: the value
\* of its last move; gave: what it adds to issuedQty.
Transaction == [held : SUBSET Keys, wrote : [Keys -> Balance], net : [Keys -> Change],
                gl : [Items -> Int], books : BOOLEAN, out : Nat, gave : [Items -> Nat]]

NoTransaction == [held |-> {}, wrote |-> [k \in Keys |-> Empty], net |-> [k \in Keys |-> Empty],
                  gl |-> [i \in Items |-> 0], books |-> FALSE, out |-> 0,
                  gave |-> [i \in Items |-> 0]]

Begin(r, step, op, d, body, andPost, status, was) ==
    /\ req[r] = Idle
    /\ req' = [req EXCEPT ![r] = [step |-> step, op |-> op, doc |-> d, body |-> body,
                                  andPost |-> andPost, line |-> 1, leg |-> 1,
                                  status |-> status, was |-> was]]
    /\ UNCHANGED <<rows, tx, locks>>

At(r, op, step) == req[r].op = op /\ req[r].step = step
Posting(r) == req[r].op = "post" \/ (req[r].op = "create" /\ req[r].andPost)
Goto(r, step) == req' = [req EXCEPT ![r].step = step]

Advance(r, step, body, line, leg, status) ==
    req' = [req EXCEPT ![r] = [step |-> step, op |-> @.op, doc |-> @.doc, body |-> body,
                               andPost |-> @.andPost, line |-> line, leg |-> leg,
                               status |-> status, was |-> @.was]]

End(r) ==
    /\ req' = [req EXCEPT ![r] = Idle]
    /\ tx' = [tx EXCEPT ![r] = NoTransaction]
    /\ L!EndTransaction(r)

-------------------------------------------------------------------------------
(* Creating and posting a document                                         *)

BeginCreate(r, d, body, andPost) ==
    /\ doc[d] = NoDocument
    /\ \A q \in Requests : req[q].doc # d
    /\ Valid(body)
    /\ Begin(r, "number", "create", d, body, andPost, None, None)

BeginPost(r, d) ==
    /\ doc[d].status \in {"draft", "posted"}
    /\ Begin(r, "document", "post", d, None, FALSE, None, None)

\* numbering.next(`stock_${type}`): a row for each type and year.
TakeNumber(r) ==
    /\ req[r].step = "number"
    /\ L!Lock(r, Sequence(req[r].body.type, req[r].body.year))
    /\ Goto(r, IF req[r].andPost THEN "lines" ELSE "commit")
    /\ UNCHANGED <<rows, tx>>

MutLockDocument(r) ==
    LET d == req[r].doc IN
    /\ req[r].step = "document"
    /\ doc[d].status = "draft"
    /\ Advance(r, "lines", doc[d].body, 1, 1, None)
    /\ UNCHANGED <<rows, tx, locks>>

\* postIn's SELECT ... FOR UPDATE.
LockDocument(r) ==
    LET d == req[r].doc IN
    /\ req[r].step = "document"
    /\ doc[d].status = "draft"
    /\ L!Lock(r, DocRow(d))
    /\ Advance(r, "lines", doc[d].body, 1, 1, None)
    /\ UNCHANGED <<rows, tx>>

Key(body, line, leg) ==
    <<line.item, IF body.type = "opening" \/ (body.type = "transfer" /\ leg = 2)
                 THEN body.to ELSE body.from>>

\* A transfer's line is two moves; an issue's line is a move and, for a
\* requisition, the update of its line.
Legs(body) == IF body.type = "transfer" \/ (body.type = "issue" /\ body.siteReq) THEN 2 ELSE 1

MutAfterLines(r, books) == IF req[r].body.siteReq THEN "requisition" ELSE "commit"

\* The step after the last line: an entry is posted unless all of it is zero.
AfterLines(r, books) ==
    IF books THEN "journal" ELSE IF req[r].body.siteReq THEN "requisition" ELSE "commit"

NextMove(r, books) ==
    LET body == req[r].body  line == req[r].line IN
    IF req[r].leg < Legs(body)    THEN Advance(r, "lines", body, line, 2, None)
    ELSE IF line < Len(body.lines) THEN Advance(r, "lines", body, line + 1, 1, None)
    ELSE Advance(r, AfterLines(r, books), body, 1, 1, None)

\* lockBalance's row, with what this transaction has written to it before.
Current(r, k) == IF k \in tx[r].held THEN tx[r].wrote[k] ELSE balance[k]

MutBooked(type, change) == IF type = "adjustment" THEN Abs(change) ELSE change

\* What the entry says of the inventory account.
Booked(type, change) == IF type = "transfer" THEN 0 ELSE change

MutLockBalance(r, k) == UNCHANGED locks

LockBalance(r, k) == L!Lock(r, BalanceRow(k))

\* StockService.move.
Move(r) ==
    LET body == req[r].body
        line == body.lines[req[r].line]
        leg  == req[r].leg
        k    == Key(body, line, leg)
        b    == Current(r, k)
        a    == After(b, body.type, line, leg, tx[r].out)
        t    == tx[r]
        change == [qty |-> a.qty - b.qty, value |-> a.value - b.value]
        books  == t.books \/ (body.type # "transfer" /\ change.value # 0)
    IN
    /\ req[r].step = "lines"
    /\ ~(body.type = "issue" /\ leg = 2)
    /\ Enough(b, body.type, line, leg)
    /\ LockBalance(r, k)
    /\ tx' = [tx EXCEPT ![r] =
                [held  |-> t.held \cup {k},
                 wrote |-> [t.wrote EXCEPT ![k] = a],
                 net   |-> [t.net EXCEPT ![k] = Sum(t.net[k], change)],
                 gl    |-> [t.gl EXCEPT ![line.item] = t.gl[line.item] + Booked(body.type, change.value)],
                 books |-> books,
                 out   |-> IF body.type = "transfer" /\ leg = 1 THEN Abs(change.value) ELSE 0,
                 gave  |-> t.gave]]
    /\ NextMove(r, books)
    /\ UNCHANGED rows

\* UPDATE site_requisition_lines SET issued_qty = issued_qty + the quantity,
\* on every line of the item.
IssueToSite(r) ==
    LET body == req[r].body
        line == body.lines[req[r].line]
        i    == line.item
        t    == tx[r]
    IN
    /\ req[r].step = "lines"
    /\ body.type = "issue" /\ req[r].leg = 2
    /\ IF Wanted[i] = {} THEN UNCHANGED <<tx, locks>>
       ELSE /\ L!Lock(r, LineRow(i))
            /\ tx' = [tx EXCEPT ![r] =
                        [held |-> t.held, wrote |-> t.wrote, net |-> t.net, gl |-> t.gl,
                         books |-> t.books, out |-> t.out,
                         gave |-> [t.gave EXCEPT ![i] = t.gave[i] + line.qty]]]
    /\ NextMove(r, t.books)
    /\ UNCHANGED rows

\* posting.post's number: the journal's sequence row of the document's year,
\* held until the commit.
TakeJournalNumber(r) ==
    /\ req[r].step = "journal"
    /\ L!Lock(r, Journal(req[r].body.year))
    /\ Goto(r, IF req[r].body.siteReq THEN "requisition" ELSE "commit")
    /\ UNCHANGED <<rows, tx>>

Full(gave) == \A i \in Items : \A wanted \in Wanted[i] : issued[i] + gave[i] >= wanted

\* The requisition's lines are read without a lock.
ReadSiteReq(r) ==
    /\ req[r].step = "requisition"
    /\ Advance(r, "commit", req[r].body, 1, 1,
               IF Full(tx[r].gave) THEN "fulfilled" ELSE "partially_fulfilled")
    /\ UNCHANGED <<rows, tx, locks>>

CommitDraft(r) ==
    /\ At(r, "create", "commit") /\ ~req[r].andPost
    /\ doc' = [doc EXCEPT ![req[r].doc] = [status |-> "draft", body |-> req[r].body]]
    /\ End(r)
    /\ UNCHANGED <<balance, moved, ledger, issued, siteReq, overtaken>>

\* q too has read the requisition and is to write its status, and no journal
\* row keeps r and q apart: they book in different years, or one books nothing.
ReadsBeside(r, q) ==
    /\ Posting(q) /\ req[q].step = "commit" /\ req[q].body.siteReq
    /\ ~(tx[r].books /\ tx[q].books /\ req[r].body.year = req[q].body.year)

\* A requisition's status is written last, without looking at what it is.
CommitPosted(r) ==
    /\ Posting(r) /\ req[r].step = "commit"
    /\ doc' = [doc EXCEPT ![req[r].doc] = [status |-> "posted", body |-> req[r].body]]
    /\ balance' = [k \in Keys |-> IF k \in tx[r].held THEN tx[r].wrote[k] ELSE balance[k]]
    /\ moved' = [k \in Keys |-> Sum(moved[k], tx[r].net[k])]
    /\ ledger' = [i \in Items |-> ledger[i] + tx[r].gl[i]]
    /\ issued' = [i \in Items |-> issued[i] + tx[r].gave[i]]
    /\ IF req[r].body.siteReq
       THEN /\ L!Available(r, SiteReqRow)
            /\ siteReq' = req[r].status
            /\ overtaken' = IF \E q \in Requests \ {r} : ReadsBeside(r, q)
                            THEN overtaken \cup {"siteReq"} ELSE overtaken
       ELSE UNCHANGED <<siteReq, overtaken>>
    /\ End(r)

-------------------------------------------------------------------------------
(* Removing a draft, deciding on the requisition                           *)

\* remove checks the status it reads ...
BeginRemove(r, d) ==
    /\ doc[d].status = "draft"
    /\ Begin(r, "commit", "remove", d, None, FALSE, None, doc[d].status)

\* ... and deletes the row whatever its status is by then.
CommitRemove(r) ==
    LET d == req[r].doc IN
    /\ At(r, "remove", "commit")
    /\ L!Available(r, DocRow(d))
    /\ doc' = [doc EXCEPT ![d].status = "deleted"]
    /\ overtaken' = IF doc[d].status \in {"deleted", req[r].was} THEN overtaken
                    ELSE overtaken \cup {d}
    /\ End(r)
    /\ UNCHANGED <<balance, moved, ledger, issued, siteReq>>

\* setRequisitionStatus checks the status it reads and writes whatever it is by then.
BeginDecide(r, to) ==
    /\ siteReq \in From[to]
    /\ Begin(r, "commit", "decide", None, None, FALSE, to, siteReq)

CommitDecide(r) ==
    /\ At(r, "decide", "commit")
    /\ L!Available(r, SiteReqRow)
    /\ siteReq' = req[r].status
    /\ overtaken' = IF siteReq = req[r].was THEN overtaken ELSE overtaken \cup {"siteReq"}
    /\ End(r)
    /\ UNCHANGED <<doc, balance, moved, ledger, issued>>

-------------------------------------------------------------------------------
(* Requests that end without a commit                                      *)

Rollback(r) == End(r) /\ UNCHANGED rows

\* The document is not a draft, or there is not enough stock.
Refuse(r) ==
    /\ \/ /\ req[r].step = "document"
          /\ L!Available(r, DocRow(req[r].doc))
          /\ doc[req[r].doc].status # "draft"
       \/ LET body == req[r].body
              line == body.lines[req[r].line]
              k    == Key(body, line, req[r].leg) IN
          /\ req[r].step = "lines"
          /\ ~(body.type = "issue" /\ req[r].leg = 2)
          /\ L!Available(r, BalanceRow(k))
          /\ ~Enough(Current(r, k), body.type, line, req[r].leg)
    /\ Rollback(r)

\* A locked period, a lost connection, a restart, a deadlock's victim.
Fail(r) == req[r] # Idle /\ Rollback(r)

-------------------------------------------------------------------------------
(* The specification                                                       *)

Init ==
    /\ doc = [d \in Docs |-> NoDocument]
    /\ balance = [k \in Keys |-> Empty]
    /\ moved = [k \in Keys |-> Empty]
    /\ ledger = [i \in Items |-> 0]
    /\ issued = [i \in Items |-> 0]
    /\ siteReq = "draft"
    /\ req = [r \in Requests |-> Idle]
    /\ tx = [r \in Requests |-> NoTransaction]
    /\ L!NoLocks
    /\ overtaken = {}

Start(r) ==
    \/ \E d \in Docs, body \in Bodies, andPost \in BOOLEAN : BeginCreate(r, d, body, andPost)
    \/ \E d \in Docs : BeginPost(r, d) \/ BeginRemove(r, d)
    \/ \E to \in DOMAIN From : BeginDecide(r, to)

Proceed(r) ==
    \/ TakeNumber(r) \/ LockDocument(r) \/ Move(r) \/ IssueToSite(r)
    \/ TakeJournalNumber(r) \/ ReadSiteReq(r)
    \/ CommitDraft(r) \/ CommitPosted(r) \/ CommitRemove(r) \/ CommitDecide(r)
    \/ Refuse(r)

Next == \E r \in Requests : Start(r) \/ Proceed(r) \/ Fail(r)

Spec == Init /\ [][Next]_vars

-------------------------------------------------------------------------------
(* Properties                                                              *)

\* Every variable holds rows of its table; no balance goes negative, in
\* quantity or in value.
TypeOK ==
    /\ doc \in [Docs -> Document]
    /\ balance \in [Keys -> Balance]
    /\ moved \in [Keys -> Change]
    /\ ledger \in [Items -> Int]
    /\ issued \in [Items -> Nat]
    /\ siteReq \in SiteReqStatus
    /\ req \in [Requests -> Request]
    /\ tx \in [Requests -> Transaction]
    /\ L!LocksTypeOK
    /\ overtaken \subseteq Docs \cup {"siteReq"}

\* A balance is the sum of its movements: no movement is lost when two
\* postings move the same item, in whatever order they lock their rows.
BalanceIsMovements == \A k \in Keys : moved[k] = balance[k]

\* Stock that is gone leaves no value behind, however often the average was
\* rounded on the way.
NoResidue == \A k \in Keys : balance[k].qty = 0 => balance[k].value = 0

\* What a move of a line adds to the quantity of k, and what a document does.
MoveQuantity(body, line, leg, k) ==
    IF Key(body, line, leg) # k THEN 0
    ELSE IF Inbound(body.type, line, leg) THEN line.qty ELSE -Abs(line.qty)

LineQuantity(body, line, k) ==
    MoveQuantity(body, line, 1, k)
    + (IF body.type = "transfer" THEN MoveQuantity(body, line, 2, k) ELSE 0)

QuantityOf(body, k) ==
    SumOver([l \in DOMAIN body.lines |-> LineQuantity(body, body.lines[l], k)])

\* Every posted document moved its stock exactly once, those deleted after
\* they were posted included.
PostedMovedOnce ==
    \A k \in Keys :
        moved[k].qty = SumOver([d \in Docs |-> IF doc[d].status = "posted" \/ d \in overtaken
                                               THEN QuantityOf(doc[d].body, k) ELSE 0])

\* ReportsService.stockValuation
Valuation(i) == SumOver([w \in Warehouses |-> IF balance[<<i, w>>].qty # 0
                                               THEN balance[<<i, w>>].value ELSE 0])

\* The inventory account agrees with the valuation report: issues and adjustments book
\* what they moved, and a transfer takes out of one warehouse exactly what it
\* brings into the other.
InventoryAccountAgrees == \A i \in Items : ledger[i] = Valuation(i)

\* The requisition is fulfilled exactly when what is issued of each item covers
\* every line of it.  Nothing locks those lines when they are read: two issues
\* are kept apart by the journal's row alone, so those that book in different
\* years or book nothing may miss each other; that race is exempt.
SiteReqTellsIssued ==
    LET all == \A i \in Items : \A wanted \in Wanted[i] : issued[i] >= wanted IN
    /\ siteReq = "fulfilled" => all
    /\ all /\ "siteReq" \notin overtaken => siteReq = "fulfilled"

================================================================================
