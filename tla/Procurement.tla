------------------------------ MODULE Procurement ------------------------------
(***************************************************************************)
(* Buying: a requisition, the purchase orders raised for it, the goods     *)
(* received against them (procurement/procurement.service.ts) and the      *)
(* bills drawn up from those receipts (finance/documents.service.ts), with *)
(* what they leave on the account of goods received but not invoiced.      *)
(*                                                                         *)
(* A quantity is in the smallest unit its column keeps and a price is per  *)
(* such unit, so an amount is their product.  All orders go to one vendor. *)
(* Paying a bill is the module Settlement's, the stock a receipt moves the *)
(* module Stock's.  A sequence row taken right before a commit and shared  *)
(* with nobody who waits for anything else is part of that commit.         *)
(*                                                                         *)
(* An operator Mut... is a defective variant of the definition after it,   *)
(* which a run must tell from the real one; no other definition uses it.   *)
(***************************************************************************)
EXTENDS Integers, FiniteSets, Sequences, Sums

CONSTANTS Requisitions,
          Orders,
          Receipts,     \* goods receipts
          Bills,
          OrderBodies,  \* what an order may ask for
          Deliveries,   \* what a request to receive may carry
          Requests,
          None          \* no value

OrderLine    == [item : Nat, qty : Nat \ {0}, price : Nat]
DeliveryLine == [line : Nat, qty : Nat \ {0}]

ASSUME BodiesAssumption ==
    /\ OrderBodies \subseteq Seq(OrderLine) \ {<<>>}
    /\ Deliveries \subseteq Seq(DeliveryLine) \ {<<>>}
ASSUME RowsAssumption ==
    /\ IsFiniteSet(Receipts) /\ IsFiniteSet(Bills)
    /\ None \notin Requisitions \cup Orders \cup Receipts \cup Bills

VARIABLES requisition,  \* requisition[p]: the status of the requisition
          vendorOk,     \* the vendor is approved
          order,        \* order[o]: the purchase order and its lines
          receipt,      \* receipt[g]: the goods receipt and its lines
          bill,         \* bill[b]: the bill drawn up from a receipt
          entry,        \* entry[b]: the status of the journal entry of b
          grni,         \* the credit on goods received not invoiced
          req,          \* req[r]: what request r is doing
          locks,        \* row locks held by open transactions
          overtaken     \* rows written after what their request had read
                        \* changed (a history variable)

rows == <<requisition, vendorOk, order, receipt, bill, entry, grni, overtaken>>
vars == <<rows, req, locks>>

OrderRow(o)   == <<"order", o>>
LineRow(o, l) == <<"line", o, l>>
BillRow(b)    == <<"bill", b>>
Sequence(type) == <<"sequence", type>>

LineNumbers == UNION {DOMAIN body : body \in OrderBodies}

L == INSTANCE RowLocks WITH
        Rows <- {OrderRow(o) : o \in Orders} \cup {BillRow(b) : b \in Bills}
                \cup {LineRow(o, l) : o \in Orders, l \in LineNumbers}
                \cup {Sequence("goods_receipt"), Sequence("journal")}

-------------------------------------------------------------------------------
(* Rows                                                                    *)

RequisitionStatus == {"none", "draft", "submitted", "approved", "rejected", "ordered"}
OrderStatus == {"none", "draft", "approved", "partially_received", "received",
                "closed", "cancelled"}

\* received, billed: receivedQty and billedQty of each line.
Order   == [status : OrderStatus, lines : Seq(OrderLine), received : Seq(Nat),
            billed : Seq(Nat), requisition : Requisitions \cup {None}]
Receipt == [order : Orders \cup {None}, lines : Seq(DeliveryLine)]
Bill    == [status : {"none", "draft", "posted", "cancelled"},
            receipt : Receipts \cup {None}, je : BOOLEAN]

NoOrder   == [status |-> "none", lines |-> <<>>, received |-> <<>>, billed |-> <<>>,
              requisition |-> None]
NoReceipt == [order |-> None, lines |-> <<>>]
NoBill    == [status |-> "none", receipt |-> None, je |-> FALSE]

\* The quantity that lines add to line l.
QtyOf(lines, l) ==
    SumOver([i \in DOMAIN lines |-> IF lines[i].line = l THEN lines[i].qty ELSE 0])

\* What the lines cost at the prices of order o.
Amount(o, lines) ==
    SumOver([i \in DOMAIN lines |-> lines[i].qty * order[o].lines[lines[i].line].price])

\* The order's lines that have the item of line l.
SameItem(o, l) == {k \in DOMAIN order[o].lines : order[o].lines[k].item = order[o].lines[l].item}

LiveBills(g) == {b \in Bills : bill[b].receipt = g /\ bill[b].status \in {"draft", "posted"}}

-------------------------------------------------------------------------------
(* Requests                                                                *)

Operations == {"decide", "order", "setOrder", "receive", "draftBill", "postBill", "cancelBill"}
Steps == {"idle", "vendor", "document", "number", "lines", "entry", "journal", "commit"}

ASSUME NoneAssumption == None \notin Operations

\* requisition, order, receipt, bill: the rows it is about; body: the order's
\* lines; lines: the lines received; seen: receivedQty of the order's lines as
\* it read them; todo: the order's lines still to lock; to: the status it writes.  Two fields are history:
\* was, the status it read of the row it writes; rivals, the live bills it saw
\* for the receipt.
Request == [step : Steps, op : Operations \cup {None},
            requisition : Requisitions \cup {None}, order : Orders \cup {None},
            receipt : Receipts \cup {None}, bill : Bills \cup {None}, body : Seq(OrderLine),
            lines : Seq(DeliveryLine), seen : Seq(Nat), todo : SUBSET Nat,
            to : RequisitionStatus \cup OrderStatus \cup {None},
            was : RequisitionStatus \cup OrderStatus \cup {"posted", None},
            rivals : SUBSET Bills]

Idle == [step |-> "idle", op |-> None, requisition |-> None, order |-> None,
         receipt |-> None, bill |-> None, body |-> <<>>, lines |-> <<>>,
         seen |-> <<>>, todo |-> {}, to |-> None, was |-> None, rivals |-> {}]

Begin(r, asked) ==
    /\ req[r] = Idle
    /\ req' = [req EXCEPT ![r] = asked]
    /\ UNCHANGED <<rows, locks>>

At(r, op, step) == req[r].op = op /\ req[r].step = step
Goto(r, step) == req' = [req EXCEPT ![r].step = step]

End(r) ==
    /\ req' = [req EXCEPT ![r] = Idle]
    /\ L!EndTransaction(r)

Wrote(row, fresh) == overtaken' = IF fresh THEN overtaken ELSE overtaken \cup {row}

-------------------------------------------------------------------------------
(* The requisition                                                         *)

\* createRequisition.
CreateRequisition(p) ==
    /\ requisition[p] = "none"
    /\ requisition' = [requisition EXCEPT ![p] = "draft"]
    /\ UNCHANGED <<vendorOk, order, receipt, bill, entry, grni, req, locks, overtaken>>

From == [submitted |-> {"draft"}, approved |-> {"submitted", "draft"},
         rejected |-> {"submitted", "draft"}]

\* setRequisitionStatus checks the status it reads ...
BeginDecide(r, p, to) ==
    /\ requisition[p] \in From[to]
    /\ Begin(r, [Idle EXCEPT !.op = "decide", !.step = "commit", !.requisition = p, !.to = to,
                             !.was = requisition[p]])

\* ... and writes over whatever it is by then.
CommitDecide(r) ==
    LET p == req[r].requisition IN
    /\ At(r, "decide", "commit")
    /\ requisition' = [requisition EXCEPT ![p] = req[r].to]
    /\ Wrote(p, requisition[p] = req[r].was)
    /\ End(r)
    /\ UNCHANGED <<vendorOk, order, receipt, bill, entry, grni>>

-------------------------------------------------------------------------------
(* Orders                                                                  *)

\* VendorsService.setStatus.
SetVendor ==
    /\ vendorOk' = ~vendorOk
    /\ UNCHANGED <<requisition, order, receipt, bill, entry, grni, req, locks, overtaken>>

BeginOrder(r, o, body, p) ==
    /\ order[o] = NoOrder
    /\ \A q \in Requests : req[q].order # o
    /\ p # None => requisition[p] # "none"
    /\ Begin(r, [Idle EXCEPT !.op = "order", !.step = "vendor", !.order = o, !.body = body,
                             !.requisition = p])

\* assertVendorApproved.
CheckVendor(r) ==
    /\ req[r].step = "vendor"
    /\ vendorOk
    /\ Goto(r, "commit")
    /\ UNCHANGED <<rows, locks>>

MutOrdered(status) == IF status = "approved" THEN "ordered" ELSE status

\* What an order makes of its requisition, approved or not.
Ordered(status) == "ordered"

\* createOrder's writes.
CommitOrder(r) ==
    LET body == req[r].body
        p    == req[r].requisition
        none == [l \in DOMAIN body |-> 0] IN
    /\ At(r, "order", "commit")
    /\ order' = [order EXCEPT ![req[r].order] =
                    [status |-> "draft", lines |-> body, received |-> none, billed |-> none,
                     requisition |-> p]]
    /\ requisition' = IF p = None THEN requisition
                      ELSE [requisition EXCEPT ![p] = Ordered(@)]
    /\ End(r)
    /\ UNCHANGED <<vendorOk, receipt, bill, entry, grni, overtaken>>

OrderFrom == [approved |-> {"draft"}, cancelled |-> {"draft", "approved"},
              closed |-> {"partially_received", "received", "approved"}]

\* setOrderStatus reads the order and its lines, checks ...
BeginSetOrder(r, o, to) ==
    /\ order[o].status \in OrderFrom[to]
    /\ to = "cancelled" => \A l \in DOMAIN order[o].lines : order[o].received[l] = 0
    /\ Begin(r, [Idle EXCEPT !.op = "setOrder",
                             !.step = IF to = "approved" THEN "vendor" ELSE "commit",
                             !.order = o, !.to = to, !.was = order[o].status])

\* ... and writes over whatever the status is by then.
CommitSetOrder(r) ==
    LET o == req[r].order IN
    /\ At(r, "setOrder", "commit")
    /\ L!Available(r, OrderRow(o))
    /\ order' = [order EXCEPT ![o].status = req[r].to]
    /\ Wrote(o, order[o].status = req[r].was)
    /\ End(r)
    /\ UNCHANGED <<requisition, vendorOk, receipt, bill, entry, grni>>

-------------------------------------------------------------------------------
(* Receiving goods                                                         *)

BeginReceive(r, g, o, lines) ==
    /\ order[o].status # "none"
    /\ receipt[g] = NoReceipt
    /\ \A q \in Requests : req[q].receipt # g
    /\ \A i \in DOMAIN lines : lines[i].line \in DOMAIN order[o].lines
    /\ Begin(r, [Idle EXCEPT !.op = "receive", !.step = "document", !.receipt = g, !.order = o,
                             !.lines = lines, !.todo = {lines[i].line : i \in DOMAIN lines}])

Receivable(o) == order[o].status \in {"approved", "partially_received"}

ReadLines(r) ==
    req' = [req EXCEPT ![r].step = "number", ![r].seen = order[req[r].order].received]

MutLockOrder(r) ==
    /\ At(r, "receive", "document")
    /\ Receivable(req[r].order)
    /\ ReadLines(r)
    /\ UNCHANGED <<rows, locks>>

\* receive's SELECT ... FOR UPDATE of the order, after which it reads the lines.
LockOrder(r) ==
    /\ At(r, "receive", "document")
    /\ Receivable(req[r].order)
    /\ L!Lock(r, OrderRow(req[r].order))
    /\ ReadLines(r)
    /\ UNCHANGED rows

TakeReceiptNumber(r) ==
    /\ req[r].step = "number"
    /\ L!Lock(r, Sequence("goods_receipt"))
    /\ Goto(r, "lines")
    /\ UNCHANGED rows

\* Each line of the delivery is compared with what was pending when the lines
\* were read: two lines of it for one line of the order do not see each other.
Pending(r, l) ==
    LET o == req[r].order  lines == req[r].lines IN
    \A i \in DOMAIN lines :
        lines[i].line = l => lines[i].qty <= order[o].lines[l].qty - req[r].seen[l]

\* UPDATE purchase_order_lines, of received_qty or billed_qty.
LockLine(r) ==
    LET todo == req[r].todo IN
    /\ req[r].step = "lines"
    /\ \E l \in todo :
          /\ req[r].op = "receive" => Pending(r, l)
          /\ L!Lock(r, LineRow(req[r].order, l))
          /\ req' = [req EXCEPT ![r].todo = todo \ {l},
                                ![r].step = IF todo # {l} THEN "lines"
                                            ELSE IF req[r].op = "receive" THEN "journal"
                                            ELSE "commit"]
    /\ UNCHANGED rows

\* posting.post refuses an entry whose lines are all zero.
Bookable(r) == Amount(req[r].order, req[r].lines) > 0

\* posting.post and posting.reverse: the journal's number.
TakeJournalNumber(r) ==
    /\ req[r].step = "journal"
    /\ req[r].op \in {"receive", "postBill"} => Bookable(r)
    /\ L!Lock(r, Sequence("journal"))
    /\ Goto(r, IF req[r].op = "postBill" THEN "lines" ELSE "commit")
    /\ UNCHANGED rows

\* received_qty = received_qty + the quantity, for every line of the delivery.
Received(o, lines) ==
    [l \in DOMAIN order[o].lines |-> order[o].received[l] + QtyOf(lines, l)]

MutReceivedStatus(lines, received) ==
    IF \E l \in DOMAIN lines : received[l] >= lines[l].qty
    THEN "received" ELSE "partially_received"

ReceivedStatus(lines, received) ==
    IF \A l \in DOMAIN lines : received[l] >= lines[l].qty
    THEN "received" ELSE "partially_received"

CommitReceive(r) ==
    LET o == req[r].order
        lines == req[r].lines
        received == Received(o, lines) IN
    /\ At(r, "receive", "commit")
    /\ receipt' = [receipt EXCEPT ![req[r].receipt] = [order |-> o, lines |-> lines]]
    /\ order' = [order EXCEPT ![o].received = received,
                              ![o].status = ReceivedStatus(order[o].lines, received)]
    /\ grni' = grni + Amount(o, lines)
    /\ End(r)
    /\ UNCHANGED <<requisition, vendorOk, bill, entry, overtaken>>

-------------------------------------------------------------------------------
(* Bills drawn up from a receipt                                           *)

MutBeginDraftBill(r, b, g) ==
    /\ bill[b] = NoBill
    /\ \A q \in Requests : req[q].bill # b
    /\ receipt[g] # NoReceipt
    /\ Begin(r, [Idle EXCEPT !.op = "draftBill", !.step = "commit", !.bill = b, !.receipt = g,
                             !.rivals = LiveBills(g)])

\* fromGoodsReceipt looks for a live bill ...
BeginDraftBill(r, b, g) ==
    /\ bill[b] = NoBill
    /\ \A q \in Requests : req[q].bill # b
    /\ receipt[g] # NoReceipt
    /\ LiveBills(g) = {}
    /\ Begin(r, [Idle EXCEPT !.op = "draftBill", !.step = "commit", !.bill = b, !.receipt = g,
                             !.rivals = LiveBills(g)])

\* ... and creates a draft in a transaction of its own.
CommitDraftBill(r) ==
    LET g == req[r].receipt  b == req[r].bill IN
    /\ At(r, "draftBill", "commit")
    /\ bill' = [bill EXCEPT ![b] = [status |-> "draft", receipt |-> g, je |-> FALSE]]
    /\ Wrote(b, LiveBills(g) = req[r].rivals)
    /\ End(r)
    /\ UNCHANGED <<requisition, vendorOk, order, receipt, entry, grni>>

BeginPostBill(r, b) ==
    /\ bill[b].status # "none"
    /\ Begin(r, [Idle EXCEPT !.op = "postBill", !.step = "document", !.bill = b])

\* BillsService.postIn's SELECT ... FOR UPDATE.  It will add each line's quantity
\* to every line of the order with that item.
LockBill(r) ==
    LET b == req[r].bill
        g == bill[b].receipt
        o == receipt[g].order
        lines == receipt[g].lines IN
    /\ At(r, "postBill", "document")
    /\ bill[b].status = "draft"
    /\ L!Lock(r, BillRow(b))
    /\ req' = [req EXCEPT ![r] =
                  [@ EXCEPT !.step = "journal", !.order = o, !.lines = lines,
                            !.todo = UNION {SameItem(o, lines[i].line) : i \in DOMAIN lines}]]
    /\ UNCHANGED rows

Billed(o, lines) ==
    [l \in DOMAIN order[o].lines |->
        order[o].billed[l] + SumOver([i \in DOMAIN lines |->
            IF l \in SameItem(o, lines[i].line) THEN lines[i].qty ELSE 0])]

CommitPostBill(r) ==
    LET b == req[r].bill  o == req[r].order IN
    /\ At(r, "postBill", "commit")
    /\ bill' = [bill EXCEPT ![b].status = "posted", ![b].je = TRUE]
    /\ entry' = [entry EXCEPT ![b] = "posted"]
    /\ order' = [order EXCEPT ![o].billed = Billed(o, req[r].lines)]
    /\ grni' = grni - Amount(o, req[r].lines)
    /\ End(r)
    /\ UNCHANGED <<requisition, vendorOk, receipt, overtaken>>

\* BillsService.cancel, of a bill without payments, reads the bill ...
BeginCancelBill(r, b) ==
    /\ bill[b].status # "none"
    /\ Begin(r, [Idle EXCEPT !.op = "cancelBill", !.step = IF bill[b].je THEN "entry" ELSE "commit",
                             !.bill = b, !.was = bill[b].status])

\* ... posting.reverse reads its entry without a lock ...
ReadEntry(r) ==
    /\ At(r, "cancelBill", "entry")
    /\ entry[req[r].bill] = "posted"
    /\ Goto(r, "journal")
    /\ UNCHANGED <<rows, locks>>

Priced(b) == Amount(receipt[bill[b].receipt].order, receipt[bill[b].receipt].lines)

MutMirrored(r) == 0

\* What the mirror of a posted bill's entry puts back on the account.
Mirrored(r) == IF req[r].was = "posted" THEN Priced(req[r].bill) ELSE 0

\* ... and the bill is cancelled whatever its row is by then; billedQty stays.
CommitCancelBill(r) ==
    LET b == req[r].bill IN
    /\ At(r, "cancelBill", "commit")
    /\ L!Available(r, BillRow(b))
    /\ bill' = [bill EXCEPT ![b].status = "cancelled"]
    /\ entry' = IF req[r].was = "posted" THEN [entry EXCEPT ![b] = "reversed"] ELSE entry
    /\ grni' = grni + Mirrored(r)
    /\ Wrote(b, bill[b].status = req[r].was)
    /\ End(r)
    /\ UNCHANGED <<requisition, vendorOk, order, receipt>>

-------------------------------------------------------------------------------
(* Requests that end without a commit                                      *)

\* A check inside the request refuses what it reads.
Refuse(r) ==
    /\ \/ req[r].step = "vendor" /\ ~vendorOk
       \/ /\ At(r, "receive", "document")
          /\ L!Available(r, OrderRow(req[r].order))
          /\ ~Receivable(req[r].order)
       \/ /\ At(r, "receive", "lines")
          /\ \E l \in req[r].todo : ~Pending(r, l)
       \/ req[r].step = "journal" /\ req[r].op \in {"receive", "postBill"} /\ ~Bookable(r)
       \/ /\ At(r, "postBill", "document")
          /\ L!Available(r, BillRow(req[r].bill))
          /\ bill[req[r].bill].status # "draft"
       \/ req[r].step = "entry" /\ entry[req[r].bill] # "posted"
    /\ End(r)
    /\ UNCHANGED rows

\* A locked period, a lost connection, a restart, a deadlock's victim: a bill
\* that holds the journal waits for a line that a receipt holds.
Fail(r) ==
    /\ req[r] # Idle
    /\ End(r)
    /\ UNCHANGED rows

-------------------------------------------------------------------------------
(* The specification                                                       *)

Init ==
    /\ requisition = [p \in Requisitions |-> "none"]
    /\ vendorOk = TRUE
    /\ order = [o \in Orders |-> NoOrder]
    /\ receipt = [g \in Receipts |-> NoReceipt]
    /\ bill = [b \in Bills |-> NoBill]
    /\ entry = [b \in Bills |-> "none"]
    /\ grni = 0
    /\ req = [r \in Requests |-> Idle]
    /\ L!NoLocks
    /\ overtaken = {}

Start(r) ==
    \/ \E p \in Requisitions, to \in DOMAIN From : BeginDecide(r, p, to)
    \/ \E o \in Orders, body \in OrderBodies, p \in Requisitions \cup {None} :
           BeginOrder(r, o, body, p)
    \/ \E o \in Orders, to \in DOMAIN OrderFrom : BeginSetOrder(r, o, to)
    \/ \E g \in Receipts, o \in Orders, lines \in Deliveries : BeginReceive(r, g, o, lines)
    \/ \E b \in Bills, g \in Receipts : BeginDraftBill(r, b, g)
    \/ \E b \in Bills : BeginPostBill(r, b) \/ BeginCancelBill(r, b)

Proceed(r) ==
    \/ CheckVendor(r) \/ LockOrder(r) \/ TakeReceiptNumber(r) \/ LockLine(r)
    \/ TakeJournalNumber(r) \/ LockBill(r) \/ ReadEntry(r)
    \/ CommitDecide(r) \/ CommitOrder(r) \/ CommitSetOrder(r) \/ CommitReceive(r)
    \/ CommitDraftBill(r) \/ CommitPostBill(r) \/ CommitCancelBill(r)
    \/ Refuse(r)

Next ==
    \/ \E p \in Requisitions : CreateRequisition(p)
    \/ SetVendor
    \/ \E r \in Requests : Start(r) \/ Proceed(r) \/ Fail(r)

Spec == Init /\ [][Next]_vars

-------------------------------------------------------------------------------
(* Properties                                                              *)

\* Every variable holds rows of its table.
TypeOK ==
    /\ requisition \in [Requisitions -> RequisitionStatus]
    /\ vendorOk \in BOOLEAN
    /\ order \in [Orders -> Order]
    /\ receipt \in [Receipts -> Receipt]
    /\ bill \in [Bills -> Bill]
    /\ entry \in [Bills -> {"none", "posted", "reversed"}]
    /\ grni \in Int
    /\ req \in [Requests -> Request]
    /\ L!LocksTypeOK
    /\ overtaken \subseteq Orders \cup Bills \cup Requisitions

Against(o) == {g \in Receipts : receipt[g].order = o}

Doubled(lines, l) == Cardinality({i \in DOMAIN lines : lines[i].line = l}) > 1

\* receivedQty is what the receipts against the line say, no update of it is
\* lost; and no line is received beyond what was ordered, however the receipts
\* are interleaved, unless one receipt names it twice.
WithinOrder ==
    \A o \in Orders : \A l \in DOMAIN order[o].lines :
        /\ order[o].received[l] = SumOver([g \in Against(o) |-> QtyOf(receipt[g].lines, l)])
        /\ \/ order[o].received[l] <= order[o].lines[l].qty
           \/ \E g \in Against(o) : Doubled(receipt[g].lines, l)

\* An order's status tells what was received: nothing before the first receipt
\* or when it is cancelled, everything when it is received; except for an order
\* whose status was written over one that its request had not read.
StatusTellsReceived ==
    \A o \in Orders \ overtaken :
        LET Lines == DOMAIN order[o].lines
            Full == \A l \in Lines : order[o].received[l] >= order[o].lines[l].qty IN
        /\ order[o].status \in {"draft", "approved", "cancelled"} => Against(o) = {}
        /\ order[o].status = "received" => Full
        /\ order[o].status = "partially_received" => Against(o) # {} /\ ~Full

\* An order marks its requisition as ordered and nothing else does, unless a
\* decision on the requisition had read it before that.
RequisitionTellsOrdered ==
    \A p \in Requisitions \ overtaken :
        requisition[p] = "ordered" <=> \E o \in Orders : order[o].requisition = p

\* What is owed for goods received and not invoiced is the price of the receipts
\* less that of the posted bills drawn up from them, unless a bill was cancelled
\* from a row that had changed.
GrniAgrees ==
    overtaken \cap Bills = {} =>
        grni = SumOver([g \in Receipts |-> IF receipt[g] = NoReceipt THEN 0
                                           ELSE Amount(receipt[g].order, receipt[g].lines)])
             - SumOver([b \in Bills |-> IF bill[b].status = "posted" THEN Priced(b) ELSE 0])

\* A receipt has one live bill, unless two requests looked for one before
\* either had written its own.
OneLiveBill == \A g \in Receipts : Cardinality(LiveBills(g) \ overtaken) <= 1

\* What receive tells its caller: no more is received than is pending.
NeverOverReceived ==
    \A o \in Orders : \A l \in DOMAIN order[o].lines :
        order[o].received[l] <= order[o].lines[l].qty

================================================================================
